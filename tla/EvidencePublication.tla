-------------------------- MODULE EvidencePublication --------------------------
(***************************************************************************)
(* From collected evidence to a published generation: what one invocation  *)
(* of the producer (Invocation.run) concludes for every slot and claim,    *)
(* which manifest it writes, and how the current pointer comes to name it. *)
(*                                                                         *)
(* Invocations follow each other on one store.  Preflight, the workers and *)
(* their observations appear by their outcomes: the event each appends and *)
(* what it does to the assessments.  Their inner steps are the subject of  *)
(* EvidenceStore and EvidenceSchedule.  The invocation's assessment, its   *)
(* demotions, its result and its publication are modelled in full.         *)
(***************************************************************************)
EXTENDS EvidenceHistory, FiniteSetsExt

CONSTANTS
    Order,        \* the physical slots in policy order
    MemberOrder,  \* the members in policy order
    DependsOn,    \* the canonical dependencies of each claim
    Required,     \* the claims of required records
    Selections,   \* the selections of claims an invocation may ask for
    None,         \* no generation
    MaxAttempts,
    MaxTroubles,  \* bound on cancellations, crashes and thrown errors together
    MaxEdits

Claims == {ClaimOf[m] : m \in Members}

ASSUME PublicationAssumption ==
    /\ Order \in Seq(Physicals)
    /\ \A p \in Physicals : \E i \in DOMAIN Order : Order[i] = p
    /\ \A i, j \in DOMAIN Order : Order[i] = Order[j] => i = j
    /\ MemberOrder \in Seq(Members)
    /\ \A m \in Members : \E i \in DOMAIN MemberOrder : MemberOrder[i] = m
    /\ \A i, j \in DOMAIN MemberOrder : MemberOrder[i] = MemberOrder[j] => i = j
    /\ \A m \in Members : \E p \in Physicals : m \in MembersOf[p]
    /\ \A p, q \in Physicals : p # q => MembersOf[p] \cap MembersOf[q] = {}
    \* a record names an evidence tool once
    /\ \A p \in Physicals : \A m, n \in MembersOf[p] : SameAssociation(m, n) => m = n
    /\ DependsOn \in [Claims -> SUBSET Claims]
    \* only a system claim depends on claims, and never on another system claim
    /\ \A c \in Claims : \A d \in DependsOn[c] : DependsOn[d] = {}
    /\ Required \subseteq Claims
    /\ Selections \subseteq SUBSET Claims

VARIABLES
    \* durable
    history,
    pending,    \* the owner's pending results
    owner,      \* the run that owns the store; 0 when released
    manifests,  \* the run.json of each run
    settled,    \* the runs whose run.json is durable
    current,    \* the run current.json names; 0 when absent
    synced,     \* the last pointer whose replacement is durable
    inputs,     \* the version of everything a descriptor binds
    \* the invocation
    inv,
    returned,   \* the last result an invocation returned
    \* counters
    begun, attempts, troubles, edits

disk == <<manifests, settled, current, synced>>
counts == <<begun, attempts, troubles, edits>>
vars == <<history, pending, owner, disk, inputs, inv, returned, counts>>

States == Results \cup {"MISSING"}
\* A slot's assessment: the attempt it cites, the event of its receipt, and the
\* events it reports as blocking, by sequence number.
Assessment == [state: States, execution: Nat, observation: Nat, blocking: SUBSET Nat]
Unassessed == [state |-> "MISSING", execution |-> 0, observation |-> 0, blocking |-> {}]
Stages == {"idle", "preflight", "schedule", "closing", "assessing", "publishing",
           "writing", "settling", "pointing", "replaced", "returning"}
Works == {"queued", "admitted", "running", "done"}
Verdicts == Results \cup {"INCOMPLETE"}

Pending == [kind: {"execution", "observation"}, key: Keys, attempt: Nat, member: MaybeMember,
            committed: BOOLEAN, open: BOOLEAN]

\* captured is the length of the HistoryView, stable that source_after is not null.
Manifest == [captured: Nat, version: Versions, slots: [Members -> Assessment],
             claims: [Claims -> {"PASS", "FAIL", "INCOMPLETE"}], preflight: Results,
             stable: BOOLEAN, result: Verdicts]

ASSUME NoneAssumption == None \notin Manifest

Invocation == [stage: Stages, selected: SUBSET Claims, resume: BOOLEAN, described: Nat,
               preflight: Results, final: BOOLEAN, captured: Nat,
               operational: BOOLEAN, cancelled: BOOLEAN, halted: BOOLEAN, aborted: BOOLEAN,
               assess: [Members -> Assessment], work: [Physicals -> Works],
               aim: [Members -> Nat],  \* the attempt a worker has still to observe
               draft: Manifest \cup {None}, result: Verdicts]

Idle == [stage |-> "idle", selected |-> {}, resume |-> FALSE, described |-> 0,
         preflight |-> "ERROR", final |-> FALSE, captured |-> 0,
         operational |-> FALSE, cancelled |-> FALSE, halted |-> FALSE, aborted |-> FALSE,
         assess |-> [m \in Members |-> Unassessed], work |-> [p \in Physicals |-> "queued"],
         aim |-> [m \in Members |-> 0], draft |-> None, result |-> "INCOMPLETE"]

Init ==
    /\ history = <<>> /\ pending = {} /\ owner = 0
    /\ manifests = [r \in Runs |-> None] /\ settled = {} /\ current = 0 /\ synced = 0
    /\ inputs \in Versions
    /\ inv = Idle /\ returned = [run |-> 0, result |-> "INCOMPLETE"]
    /\ begun = 0 /\ attempts = 0 /\ troubles = 0 /\ edits = 0

Live == inv.stage # "idle"
Trouble == troubles < MaxTroubles /\ troubles' = troubles + 1
Stopped == inv.halted \/ inv.cancelled
\* fail: a cancellation halts, anything else is an operational error as well.
Failed(i) == [i EXCEPT !.halted = TRUE, !.operational = TRUE]
FailedBy(i, cancellation) == IF cancellation THEN [i EXCEPT !.halted = TRUE] ELSE Failed(i)

\* readHistory accepts the store: no committed file lacks its event.
HasEvent(q) == \E i \in DOMAIN history : /\ history[i].kind \in {q.kind, "indeterminate"}
                                         /\ history[i].attempt = q.attempt
                                         /\ history[i].member = q.member
                                         /\ q.kind = "observation" => history[i].run = owner
Readable == \A q \in pending : q.committed => HasEvent(q)

------------------------------------------------------------------------------
(* The assessment of the full history.                                     *)

PhysicalOf(m) == CHOOSE p \in Physicals : m \in MembersOf[p]
Position(p) == CHOOSE i \in DOMAIN Order : Order[i] = p
KeyOf(p) == <<p, inputs>>
KeyOfMember(m) == KeyOf(PhysicalOf(m))

\* The candidate of m and its last observation, by sequence number.
Candidate(h, m) == Max(Eligible(h, KeyOfMember(m), m))
LastObservation(h, m) == Max(Observations(h, Candidate(h, m), m))

\* The members of a physical slot without a usable descriptor keep what is known
\* of their barriers.
RetainKnownBarriers(a, h, ms) ==
    LET known(m) == IF Blockers(h, m) = {} THEN a[m].state
                    ELSE IF \E i \in Blockers(h, m) : h[i].result = "FAIL" THEN "FAIL" ELSE "ERROR"
    IN  [m \in Members |->
            IF m \in ms THEN [a[m] EXCEPT !.state = known(m), !.blocking = Blockers(h, m)] ELSE a[m]]

\* A retained failure or indeterminate completion decides; a candidate decides
\* only where this invocation recorded nothing worse than a missing result.
Concluded(a, h, m) ==
    LET state == SelectionState(h, KeyOfMember(m), m)
        noted == [a EXCEPT !.blocking = Blockers(h, m)]
    IN  CASE state \in {"FAIL", "ERROR"} -> [noted EXCEPT !.state = state]
          [] state = "PASS" /\ a.state \in {"MISSING", "PASS"} ->
               [noted EXCEPT !.state = "PASS", !.execution = h[Candidate(h, m)].attempt,
                             !.observation = LastObservation(h, m)]
          [] OTHER -> noted

AssessSelections(a, h, ms) ==
    [m \in Members |-> IF m \in ms THEN Concluded(a[m], h, m) ELSE a[m]]

MembersAt(positions) == UNION {MembersOf[Order[i]] : i \in positions \cap DOMAIN Order}

\* assessFullHistory: the first `described` slots have descriptors, selectCandidates
\* reads the store as it is, and known is the snapshot the invocation holds.
\* The store turns out corrupt at position k: when candidates are selected (early
\* and lost empty), or when the receipt of lost's candidate is read, after the
\* members of early.
AssessFullHistory(a, known, described, k, early, lost) ==
    LET before == MembersAt(1 .. (k - 1)) \cap MembersAt(1 .. described)
        assessed == AssessSelections(a, history, before \cup early)
        marked == [m \in Members |->
                     IF m \in lost THEN [assessed[m] EXCEPT !.state = "ERROR"] ELSE assessed[m]]
    IN  RetainKnownBarriers(marked, known, Members \ before)

------------------------------------------------------------------------------
(* The claims, the result of the run and the manifest.                     *)

SlotsOf(c) == {m \in Members : ClaimOf[m] = c}
MemberResult(a, c) ==
    IF \E m \in SlotsOf(c) : a[m].state = "FAIL" THEN "FAIL"
    ELSE IF \A m \in SlotsOf(c) : a[m].state = "PASS" THEN "PASS"
    ELSE "INCOMPLETE"

\* (mutant) Only a failed dependency demotes a claim.
ClaimResultUnlessFailed(a, c) ==
    IF MemberResult(a, c) = "PASS" /\ \E d \in DependsOn[c] : MemberResult(a, d) = "FAIL"
    THEN "INCOMPLETE" ELSE MemberResult(a, c)

ClaimResult(a, c) ==
    IF MemberResult(a, c) = "PASS" /\ \E d \in DependsOn[c] : MemberResult(a, d) # "PASS"
    THEN "INCOMPLETE" ELSE MemberResult(a, c)

RunResult(i, claims) ==
    IF \E c \in Required : claims[c] = "FAIL" THEN "FAIL"
    ELSE IF i.operational \/ i.preflight = "ERROR" THEN "ERROR"
    ELSE IF i.cancelled \/ i.preflight = "CANCELLED" THEN "CANCELLED"
    ELSE IF i.final /\ \A c \in Required : claims[c] = "PASS" THEN "PASS"
    ELSE "INCOMPLETE"

ManifestOf(i) ==
    LET claims == [c \in Claims |-> ClaimResult(i.assess, c)]
    IN  [captured |-> i.captured, version |-> inputs, slots |-> i.assess, claims |-> claims,
         preflight |-> i.preflight, stable |-> i.final, result |-> RunResult(i, claims)]

\* validateGeneration, on the history h read back.
HidesFailure(g, h) ==
    \E m \in Members : /\ g.slots[m].state \notin {"PASS", "FAIL"}
                       /\ \E i \in Blockers(h, m) : h[i].result = "FAIL"

\* The event of the receipt an assessment refers to.
ReceiptBinds(a, h, m) ==
    /\ a.observation \in DOMAIN h
    /\ h[a.observation].kind = "observation" /\ h[a.observation].member = m
    /\ h[a.observation].attempt = a.execution
    /\ a.state = "PASS" => h[a.observation].result = "PASS"

SlotStands(a, h, m) ==
    /\ a.observation # 0
    /\ \E i \in DOMAIN h : /\ h[i].kind = "execution" /\ h[i].result = "PASS"
                           /\ h[i].attempt = a.execution
                           /\ PastCutoff(h, i, m)
                           /\ Observed(h, i, m)

ValidGeneration(g, h) ==
    /\ \A m \in Members : /\ g.slots[m].observation # 0 => ReceiptBinds(g.slots[m], h, m)
                          /\ g.slots[m].state = "PASS" => SlotStands(g.slots[m], h, m)
    /\ ~HidesFailure(g, h)
    /\ \A c \in Claims : IF MemberResult(g.slots, c) = "PASS" THEN g.claims[c] # "FAIL"
                         ELSE g.claims[c] = MemberResult(g.slots, c)
    /\ (\E c \in Required : g.claims[c] = "FAIL") => g.result = "FAIL"
    /\ g.result = "PASS" => /\ \A c \in Required : g.claims[c] = "PASS"
                            /\ g.stable /\ g.preflight = "PASS"

------------------------------------------------------------------------------
(* The start of an invocation.                                             *)

Queue(selected) == {p \in Physicals : \E m \in MembersOf[p] : ClaimOf[m] \in selected}
SelectedMembers(p) == {m \in MembersOf[p] : ClaimOf[m] \in inv.selected}

\* Invocation.run creates the session, its owner file and the store.
Begin ==
    /\ ~Live /\ owner = 0 /\ begun + 1 \in Runs
    /\ begun' = begun + 1 /\ owner' = begun + 1
    /\ \E selected \in Selections, resume \in BOOLEAN :
          inv' = [Idle EXCEPT !.stage = "preflight", !.selected = selected, !.resume = resume]
    /\ UNCHANGED <<history, pending, disk, inputs, returned, attempts, troubles, edits>>

\* The history is read and every descriptor materialized before the last check.
PreflightPasses ==
    /\ inv.stage = "preflight" /\ Readable /\ ~inv.cancelled
    /\ inv' = [inv EXCEPT !.stage = "schedule", !.preflight = "PASS",
                          !.described = Len(Order), !.captured = Len(history)]
    /\ UNCHANGED <<history, pending, owner, disk, inputs, returned, counts>>

\* Anything in it throws: before the history is read, or after `described` slots.
PreflightFails ==
    /\ inv.stage = "preflight"
    /\ \E read \in BOOLEAN, n \in 0 .. Len(Order), cancellation \in {FALSE, inv.cancelled} :
          /\ read => Readable
          /\ ~read => n = 0
          /\ inv' = [FailedBy(inv, cancellation) EXCEPT
                       !.stage = "closing", !.described = n, !.halted = FALSE, !.resume = FALSE,
                       !.captured = IF read THEN Len(history) ELSE 0,
                       !.preflight = IF inv.cancelled THEN "CANCELLED" ELSE "ERROR"]
    /\ UNCHANGED <<history, pending, owner, disk, inputs, returned, counts>>

\* The caller aborts the signal.
Cancel ==
    /\ Live /\ ~inv.cancelled /\ inv.stage # "returning"
    /\ Trouble
    /\ inv' = [inv EXCEPT !.cancelled = TRUE]
    /\ UNCHANGED <<history, pending, owner, disk, inputs, returned, begun, attempts, edits>>

------------------------------------------------------------------------------
(* The workers, by their outcomes.                                         *)

ExecutionEvent(p, attempt, result, backed) ==
    [kind |-> "execution", key |-> KeyOf(p), attempt |-> attempt, member |-> NoMember,
     result |-> result, backed |-> backed, run |-> 0]
ObservationEvent(m, result) ==
    [kind |-> "observation", key |-> KeyOfMember(m), attempt |-> inv.aim[m], member |-> m,
     result |-> result, backed |-> TRUE, run |-> owner]

At(p, work) == inv.stage = "schedule" /\ inv.work[p] = work
Leave(i, p) == [i EXCEPT !.work[p] = "done"]
\* A cancelled invocation records no PASS, and only a cancelled one a CANCELLED.
MayResult(r) == IF inv.cancelled THEN r # "PASS" ELSE r # "CANCELLED"
\* What a recorded result does to the invocation.
Noted(i, r) == IF r = "ERROR" THEN Failed(i) ELSE [i EXCEPT !.halted = i.halted \/ r # "PASS"]

Admit(p) ==
    /\ At(p, "queued") /\ p \in Queue(inv.selected) /\ ~Stopped
    /\ inv' = [inv EXCEPT !.work[p] = "admitted"]
    /\ UNCHANGED <<history, pending, owner, disk, inputs, returned, counts>>

AllCandidates(p) == \A m \in SelectedMembers(p) : HasCandidate(history, KeyOf(p), m)

\* A hit observes the selected members again, each on its own candidate.
Hit(p) ==
    /\ At(p, "admitted") /\ inv.resume /\ Readable /\ AllCandidates(p)
    /\ inv' = [Leave(inv, p) EXCEPT !.aim = [m \in Members |->
                 IF m \in SelectedMembers(p) THEN history[Candidate(history, m)].attempt ELSE inv.aim[m]]]
    /\ UNCHANGED <<history, pending, owner, disk, inputs, returned, counts>>

Dispatch(p) ==
    /\ At(p, "admitted") /\ ~Stopped
    /\ inv.resume => Readable /\ ~AllCandidates(p)
    /\ attempts < MaxAttempts /\ attempts' = attempts + 1
    /\ pending' = pending \cup {[kind |-> "execution", key |-> KeyOf(p), attempt |-> attempts + 1,
                                 member |-> NoMember, committed |-> FALSE, open |-> FALSE]}
    /\ inv' = [inv EXCEPT !.work[p] = "running"]
    /\ UNCHANGED <<history, owner, disk, inputs, returned, begun, troubles, edits>>

\* Halted or cancelled before dispatch, or a check before it throws.
NotDispatched(p) ==
    /\ At(p, "admitted")
    /\ \/ Stopped /\ inv' = Leave(inv, p) /\ UNCHANGED troubles
       \/ inv.resume /\ ~Readable /\ inv' = Failed(Leave(inv, p)) /\ UNCHANGED troubles
       \/ Trouble /\ inv' = Failed(Leave(inv, p))
    /\ UNCHANGED <<history, pending, owner, disk, inputs, returned, begun, attempts, edits>>

Running(p, q) == At(p, "running") /\ q \in pending /\ q.kind = "execution" /\ q.key[1] = p

\* After the commit every member cites the attempt; after a PASS it awaits its observation.
Executed(i, p, attempt, r) ==
    [i EXCEPT !.assess = [m \in Members |->
                 IF m \in MembersOf[p]
                 THEN [i.assess[m] EXCEPT !.execution = attempt,
                                          !.state = IF r = "PASS" THEN "MISSING" ELSE r]
                 ELSE i.assess[m]],
              !.aim = [m \in Members |->
                 IF m \in MembersOf[p] /\ r = "PASS" THEN attempt ELSE i.aim[m]]]

\* The artifact and its event are committed.  An invocation that is not closed is
\* recorded as ERROR and keeps its pending result.
ExecutionRecorded(p) ==
    \E q \in pending, r \in Results, open \in BOOLEAN :
        /\ Running(p, q) /\ MayResult(r)
        /\ IF open THEN r = "ERROR" /\ Trouble ELSE UNCHANGED troubles
        /\ history' = Append(history, ExecutionEvent(p, q.attempt, r, TRUE))
        /\ pending' = (pending \ {q}) \cup
              (IF open THEN {[q EXCEPT !.committed = TRUE, !.open = TRUE]} ELSE {})
        /\ inv' = Noted(Executed(Leave(inv, p), p, q.attempt, r), r)
        /\ UNCHANGED <<owner, disk, inputs, returned, begun, attempts, edits>>

\* (mutant) A throw is recorded as a missing result.
ExecutionThrowsMissing(p) ==
    \E q \in pending, windows \in BOOLEAN :
        /\ Running(p, q) /\ (windows => pending # {q}) /\ Trouble
        /\ history' = Append(history, ExecutionEvent(p, q.attempt, "MISSING", FALSE))
        /\ pending' = IF windows THEN pending ELSE pending \ {q}
        /\ inv' = Failed(Leave(inv, p))
        /\ UNCHANGED <<owner, disk, inputs, returned, begun, attempts, edits>>

\* session.run throws: an event without an artifact, and the assessments stay as
\* they are.  The pending result is cleared only if no window is open.
ExecutionThrows(p) ==
    \E q \in pending, cancellation \in {FALSE, inv.cancelled}, windows \in BOOLEAN :
        /\ Running(p, q) /\ (windows => pending # {q})
        /\ IF cancellation THEN UNCHANGED troubles ELSE Trouble
        /\ history' = Append(history, ExecutionEvent(p, q.attempt, IF cancellation THEN "CANCELLED"
                                                                   ELSE "ERROR", FALSE))
        /\ pending' = IF windows THEN pending ELSE pending \ {q}
        /\ inv' = FailedBy(Leave(inv, p), cancellation)
        /\ UNCHANGED <<owner, disk, inputs, returned, begun, attempts, edits>>

\* The checkpoint throws: before the artifact is committed, before its event is, or
\* before the pending result is cleared.  A result other than PASS was already noted.
CheckpointThrows(p) ==
    \E q \in pending, r \in Results, reached \in {"staged", "committed", "logged"} :
        /\ Running(p, q) /\ MayResult(r) /\ Trouble
        /\ history' = IF reached = "logged" THEN Append(history, ExecutionEvent(p, q.attempt, r, TRUE))
                      ELSE history
        /\ pending' = (pending \ {q}) \cup {[q EXCEPT !.committed = reached # "staged"]}
        /\ inv' = [Failed(Leave(inv, p)) EXCEPT !.assess = [m \in Members |->
                     IF m \in MembersOf[p] /\ r # "PASS" THEN [inv.assess[m] EXCEPT !.state = r]
                     ELSE inv.assess[m]]]
        /\ UNCHANGED <<owner, disk, inputs, returned, begun, attempts, edits>>

Watched(m, q) == /\ inv.stage = "schedule" /\ inv.aim[m] # 0
                 /\ q \in pending /\ q.kind = "observation" /\ q.member = m /\ ~q.open

Rank(m) == CHOOSE i \in DOMAIN MemberOrder : MemberOrder[i] = m

\* The slots of an execution are observed one after the other, in order.
MayObserve(m) ==
    /\ inv.stage = "schedule" /\ inv.aim[m] # 0
    /\ \A n \in MembersOf[PhysicalOf(m)] : /\ inv.aim[n] # 0 => Rank(m) <= Rank(n)
                                          /\ \A q \in pending : ~Watched(n, q)

\* A throw leaves the worker: its other slots stay unobserved.
Abandoned(i, m) ==
    [i EXCEPT !.aim = [n \in Members |-> IF n \in MembersOf[PhysicalOf(m)] THEN 0 ELSE i.aim[n]]]

BeginObservation(m) ==
    /\ MayObserve(m)
    /\ pending' = pending \cup {[kind |-> "observation", key |-> KeyOfMember(m), attempt |-> inv.aim[m],
                                 member |-> m, committed |-> FALSE, open |-> FALSE]}
    /\ inv' = [inv EXCEPT !.assess[m].execution = inv.aim[m]]
    /\ UNCHANGED <<history, owner, disk, inputs, returned, counts>>

\* acquireResources, a check or the request throws: no pending result.
ObservationNotBegun(m) ==
    /\ MayObserve(m)
    /\ \E cancellation \in {FALSE, inv.cancelled} :
          /\ IF cancellation \/ inv.aborted THEN UNCHANGED troubles ELSE Trouble
          /\ inv' = [Abandoned(FailedBy(inv, cancellation), m) EXCEPT
                       !.assess[m].execution = inv.aim[m],
                       !.assess[m].state = IF cancellation THEN "CANCELLED" ELSE "ERROR",
                       !.aborted = inv.aborted \/ ~cancellation]
    /\ UNCHANGED <<history, pending, owner, disk, inputs, returned, begun, attempts, edits>>

\* Receipt and event are committed.  With an invocation that is not closed the
\* pending result stays and observe throws.
ObservationRecorded(m) ==
    \E q \in pending, r \in Results, open \in BOOLEAN :
        /\ Watched(m, q) /\ MayResult(r)
        /\ inv.cancelled => r # "FAIL"
        /\ IF open THEN r = "ERROR" /\ Trouble ELSE UNCHANGED troubles
        /\ history' = Append(history, ObservationEvent(m, r))
        /\ pending' = (pending \ {q}) \cup
              (IF open THEN {[q EXCEPT !.committed = TRUE, !.open = TRUE]} ELSE {})
        /\ inv' = [(IF open THEN Abandoned(Failed(inv), m) ELSE [Noted(inv, r) EXCEPT !.aim[m] = 0])
                     EXCEPT !.assess[m].state = r, !.assess[m].observation = Len(history) + 1,
                            !.aborted = inv.aborted \/ open]
        /\ UNCHANGED <<owner, disk, inputs, returned, begun, attempts, edits>>

\* observe throws with its pending result in place: the checker does not start, or the
\* checkpoint stops before the receipt, before its event or before the clearing.
ObservationThrows(m) ==
    \E q \in pending, r \in Results, reached \in {"begun", "committed", "logged"},
       cancellation \in {FALSE, inv.cancelled} :
        /\ Watched(m, q) /\ MayResult(r)
        /\ cancellation => reached = "begun"
        /\ IF cancellation THEN UNCHANGED troubles ELSE Trouble
        /\ history' = IF reached = "logged" THEN Append(history, ObservationEvent(m, r)) ELSE history
        /\ pending' = (pending \ {q}) \cup {[q EXCEPT !.committed = reached # "begun"]}
        /\ inv' = [Abandoned(FailedBy(inv, cancellation), m) EXCEPT
                     !.assess[m].state = IF cancellation THEN "CANCELLED" ELSE "ERROR",
                     !.aborted = TRUE]
        /\ UNCHANGED <<owner, disk, inputs, returned, begun, attempts, edits>>

------------------------------------------------------------------------------
(* The end of the run: the final scan, the assessment, the publication.    *)

ScheduleEnds ==
    /\ inv.stage = "schedule"
    /\ \A p \in Queue(inv.selected) : \/ inv.work[p] = "done"
                                       \/ (inv.work[p] = "queued" /\ Stopped)
    /\ \A m \in Members : inv.aim[m] = 0
    \* what only the loop reads is forgotten
    /\ inv' = [inv EXCEPT !.stage = "closing", !.halted = FALSE, !.resume = FALSE, !.work = Idle.work]
    /\ UNCHANGED <<history, pending, owner, disk, inputs, returned, counts>>

\* The inputs are scanned again unless the run is cancelled, has no baseline, or
\* leaves something unresolved, which is an error of its own.
FinalScan ==
    /\ inv.stage = "closing"
    /\ LET next == [inv EXCEPT !.stage = "assessing"]
       IN  \/ pending # {} /\ inv' = Failed(next) /\ UNCHANGED troubles
           \/ pending = {} /\ ~inv.cancelled /\ inv' = [next EXCEPT !.final = TRUE] /\ UNCHANGED troubles
           \/ pending = {} /\ ~inv.cancelled /\ Trouble /\ inv' = Failed(next)
           \/ pending = {} /\ (inv.cancelled \/ inv.preflight # "PASS") /\ inv' = next /\ UNCHANGED troubles
    /\ UNCHANGED <<history, pending, owner, disk, inputs, returned, begun, attempts, edits>>

\* The history is snapshot and every slot concluded from it.
Assess ==
    LET concluded(i, captured, k, early, lost) ==
          [i EXCEPT !.stage = "publishing", !.captured = captured,
                    !.assess = AssessFullHistory(inv.assess, SubSeq(history, 1, captured),
                                                 inv.described, k, early, lost)]
        whole == Len(Order) + 1
    IN  /\ inv.stage = "assessing"
        /\ \/ Readable /\ inv' = concluded(inv, Len(history), whole, {}, {}) /\ UNCHANGED troubles
           \* a slot's candidates, or the receipt of one, cannot be read
           \/ /\ Readable /\ Trouble
              /\ \E k \in 1 .. inv.described :
                 \E lost \in SUBSET MembersAt({k}), early \in SUBSET MembersAt({k}) :
                    /\ Cardinality(lost) <= 1 /\ early \cap lost = {} /\ (lost = {} => early = {})
                    /\ \A m \in lost : /\ HasCandidate(history, KeyOfMember(m), m)
                                       /\ inv.assess[m].state \in {"MISSING", "PASS"}
                    /\ inv' = concluded(Failed(inv), Len(history), k, early, lost)
           \* the snapshot throws: the invocation keeps the one it holds
           \/ Readable /\ Trouble /\ inv' = concluded(Failed(inv), inv.captured, whole, {}, {})
           \/ ~Readable /\ inv' = concluded(Failed(inv), inv.captured, 1, {}, {}) /\ UNCHANGED troubles
    /\ UNCHANGED <<history, pending, owner, disk, inputs, returned, begun, attempts, edits>>

\* publish's catch.
Unpublished == Failed([inv EXCEPT !.stage = "returning", !.result = "ERROR"])

\* The results are fixed, then one claim record after the other is written.
PublishClaims ==
    /\ inv.stage = "publishing"
    /\ \/ inv' = [inv EXCEPT !.stage = "writing", !.draft = ManifestOf(inv)] /\ UNCHANGED troubles
       \/ Trouble /\ inv' = Unpublished
    /\ UNCHANGED <<history, pending, owner, disk, inputs, returned, begun, attempts, edits>>

Publishable(g) == Readable /\ ValidGeneration(g, history)

\* publishRun validates the generation, then run.json appears.
PublishRun ==
    /\ inv.stage = "writing" /\ Publishable(inv.draft)
    /\ manifests' = [manifests EXCEPT ![owner] = inv.draft]
    /\ inv' = [inv EXCEPT !.stage = "settling"]
    /\ UNCHANGED <<history, pending, owner, settled, current, synced, inputs, returned, counts>>

RefuseRun ==
    /\ inv.stage = "writing"
    /\ \/ ~Publishable(inv.draft) /\ UNCHANGED troubles
       \/ Trouble
    /\ inv' = Unpublished
    /\ UNCHANGED <<history, pending, owner, disk, inputs, returned, begun, attempts, edits>>

\* run.json and everything below the run's directory are synced.
SettleRun ==
    /\ inv.stage = "settling"
    /\ \/ /\ settled' = settled \cup {owner}
          /\ inv' = [inv EXCEPT !.stage = "pointing"] /\ UNCHANGED troubles
       \/ Trouble /\ inv' = Unpublished /\ UNCHANGED settled
    /\ UNCHANGED <<history, pending, owner, manifests, current, synced, inputs, returned,
                   begun, attempts, edits>>

\* (mutant) The pointer is replaced before the run's directory is synced.
ReplaceCurrentFirst ==
    /\ inv.stage \in {"settling", "pointing"}
    /\ \/ /\ Publishable(manifests[owner])
          /\ current' = owner /\ inv' = [inv EXCEPT !.stage = "replaced"] /\ UNCHANGED troubles
       \/ ~Publishable(manifests[owner]) /\ inv' = Unpublished /\ UNCHANGED <<current, troubles>>
       \/ Trouble /\ inv' = Unpublished /\ UNCHANGED current
    /\ UNCHANGED <<history, pending, owner, manifests, settled, synced, inputs, returned,
                   begun, attempts, edits>>

\* publishCurrent validates and syncs the run again, and replaces current.json.
ReplaceCurrent ==
    /\ inv.stage = "pointing"
    /\ \/ /\ Publishable(manifests[owner])
          /\ current' = owner /\ inv' = [inv EXCEPT !.stage = "replaced"] /\ UNCHANGED troubles
       \/ ~Publishable(manifests[owner]) /\ inv' = Unpublished /\ UNCHANGED <<current, troubles>>
       \/ Trouble /\ inv' = Unpublished /\ UNCHANGED current
    /\ UNCHANGED <<history, pending, owner, manifests, settled, synced, inputs, returned,
                   begun, attempts, edits>>

\* (mutant) The answer of publishCurrent is not looked at.
SyncCurrentUnread ==
    /\ inv.stage = "replaced"
    /\ \/ /\ synced' = owner /\ UNCHANGED troubles
          /\ inv' = [inv EXCEPT !.stage = "returning", !.result = inv.draft.result]
       \/ /\ Trouble /\ UNCHANGED synced
          /\ inv' = [inv EXCEPT !.stage = "returning", !.result = inv.draft.result]
    /\ UNCHANGED <<history, pending, owner, manifests, settled, current, inputs, returned,
                   begun, attempts, edits>>

\* The replacement becomes durable; otherwise the pointer is visible and the result ERROR.
SyncCurrent ==
    /\ inv.stage = "replaced"
    /\ \/ /\ synced' = owner /\ UNCHANGED troubles
          /\ inv' = [inv EXCEPT !.stage = "returning", !.result = inv.draft.result]
       \/ Trouble /\ inv' = Unpublished /\ UNCHANGED synced
    /\ UNCHANGED <<history, pending, owner, manifests, settled, current, inputs, returned,
                   begun, attempts, edits>>

\* What run returns when publish answered result.
Answer(i) ==
    IF i.aborted \/ (i.operational /\ i.result = "PASS") THEN "ERROR"
    ELSE IF i.cancelled /\ i.result = "PASS" THEN "CANCELLED"
    ELSE i.result

\* finishSession releases the owner unless something is pending; then run returns.
Return ==
    /\ inv.stage = "returning"
    /\ \/ /\ pending = {} /\ owner' = 0 /\ UNCHANGED troubles
          /\ returned' = [run |-> owner, result |-> Answer(inv)]
       \/ /\ \/ pending # {} /\ UNCHANGED troubles
             \/ Trouble
          /\ UNCHANGED owner
          /\ returned' = [run |-> owner, result |-> Answer(Failed(inv))]
    /\ inv' = Idle
    /\ UNCHANGED <<history, pending, disk, inputs, begun, attempts, edits>>

------------------------------------------------------------------------------
(* Crashes, recovery and edits.                                            *)

\* The process dies.  With the power, a pointer or a run.json not yet synced may go.
Crash ==
    /\ Live \/ current # synced
    /\ Trouble
    /\ \E power \in BOOLEAN, lost \in SUBSET (Runs \ settled), stays \in {current, synced} :
          /\ ~power => lost = {} /\ stays = current
          /\ current' = stays
          /\ synced' = IF power THEN stays ELSE synced
          /\ manifests' = [r \in Runs |-> IF r \in lost THEN None ELSE manifests[r]]
    \* a commit under way may have happened
    /\ \E commits \in SUBSET pending :
          pending' = (pending \ commits) \cup {[q EXCEPT !.committed = TRUE] : q \in commits}
    /\ inv' = Idle
    /\ UNCHANGED <<history, owner, settled, inputs, returned, begun, attempts, edits>>

\* recoverOwner accounts for one pending result of a dead owner.
Recover(q) ==
    /\ ~Live /\ q \in pending
    /\ history' = IF ~q.open /\ HasEvent(q) THEN history
                  ELSE Append(history, [kind |-> "indeterminate", key |-> q.key, attempt |-> q.attempt,
                                        member |-> q.member, result |-> "ERROR", backed |-> FALSE,
                                        run |-> owner])
    /\ pending' = pending \ {q}
    /\ UNCHANGED <<owner, disk, inputs, inv, returned, counts>>

Retire ==
    /\ ~Live /\ owner # 0 /\ pending = {}
    /\ owner' = 0
    /\ UNCHANGED <<history, pending, disk, inputs, inv, returned, counts>>

\* Somebody edits a bound input between invocations.
Edit ==
    /\ ~Live /\ edits < MaxEdits /\ edits' = edits + 1
    /\ inputs' \in Versions \ {inputs}
    /\ UNCHANGED <<history, pending, owner, disk, inv, returned, begun, attempts, troubles>>

Worker(p) ==
    \/ Admit(p) \/ Hit(p) \/ Dispatch(p) \/ NotDispatched(p)
    \/ ExecutionRecorded(p) \/ ExecutionThrows(p) \/ CheckpointThrows(p)
Observer(m) ==
    BeginObservation(m) \/ ObservationNotBegun(m) \/ ObservationRecorded(m) \/ ObservationThrows(m)
Publish == PublishClaims \/ PublishRun \/ RefuseRun \/ SettleRun \/ ReplaceCurrent \/ SyncCurrent

Next ==
    \/ Begin \/ PreflightPasses \/ PreflightFails \/ Cancel
    \/ \E p \in Physicals : Worker(p)
    \/ \E m \in Members : Observer(m)
    \/ ScheduleEnds \/ FinalScan \/ Assess \/ Publish \/ Return
    \/ Crash \/ (\E q \in pending : Recover(q)) \/ Retire \/ Edit

Spec == Init /\ [][Next]_vars

------------------------------------------------------------------------------
(* What a published generation promises.                                   *)

\* An event that a later success of the association has to come after.
Against(e, m) ==
    /\ e.result = "FAIL" \/ e.kind = "indeterminate"
    /\ \E n \in Touched(e) : SameAssociation(n, m)

\* i is a passing execution of m's own slot on these inputs, nothing stands against m
\* since, and m's own observation of it passed.
StandsBy(h, i, m, version) ==
    /\ h[i].kind = "execution" /\ h[i].result = "PASS" /\ h[i].key = <<PhysicalOf(m), version>>
    /\ \A j \in DOMAIN h : j > i => ~Against(h[j], m)
    /\ \E j \in DOMAIN h : /\ j > i /\ h[j].kind = "observation" /\ h[j].result = "PASS"
                           /\ h[j].attempt = h[i].attempt /\ h[j].member = m

\* A failure of the association of m that no later success supersedes.
StandsFailed(h, m, version) ==
    /\ \E j \in DOMAIN h : h[j].result = "FAIL" /\ Against(h[j], m)
    /\ \A i \in DOMAIN h : ~StandsBy(h, i, m, version)

Upto(n) == SubSeq(history, 1, n)
\* The histories a generation may speak of as its run.json appears: what it captured,
\* and, when its last snapshot threw (its result is not PASS then), what the store held.
Spoken(g) == {g.captured, Len(history)}

\* A published PASS is backed by the history: every slot of a passing claim cites an
\* execution on the manifest's inputs that stands, the claims it depends on pass as
\* well, and a run passes only if each of its required claims does, each slot standing
\* in the history it captured.
\* (selectCandidates, assessFullHistory and publish against a history that workers,
\* failures and recoveries of several invocations have shaped)
PublishedPassStands ==
    inv.stage = "settling" =>
        LET g == manifests[owner]
            cited(m, n) == \E i \in 1 .. n : /\ history[i].attempt = g.slots[m].execution
                                             /\ StandsBy(Upto(n), i, m, g.version)
        IN  /\ \A c \in Claims : g.claims[c] = "PASS" =>
                  /\ \E n \in Spoken(g) : \A m \in SlotsOf(c) : cited(m, n)
                  /\ \A d \in DependsOn[c] : g.claims[d] = "PASS"
            /\ g.result = "PASS" => \A c \in Required : /\ g.claims[c] = "PASS"
                                                        /\ \A m \in SlotsOf(c) : cited(m, g.captured)

\* No invocation publishes around a failure: whatever it selected, and however far its
\* preflight came, a required member whose failure nothing superseded makes the result
\* of the run FAIL.
FailuresReported ==
    inv.stage = "settling" =>
        LET g == manifests[owner]
        IN  (\E m \in Members : /\ ClaimOf[m] \in Required
                                /\ \A n \in Spoken(g) : StandsFailed(Upto(n), m, g.version))
                => g.result = "FAIL"

\* A PASS that run returned stays: its manifest passes, its files and the pointer
\* are durable, and no power loss takes the pointer back behind it.
AcknowledgedStays ==
    returned.result = "PASS" =>
        /\ manifests[returned.run] # None /\ manifests[returned.run].result = "PASS"
        /\ returned.run \in settled
        /\ current >= returned.run /\ synced >= returned.run

\* The current pointer, and the one a power loss would leave, name a run whose
\* manifest is durable.
PointerResolves ==
    \A r \in {current, synced} \ {0} : r \in settled /\ manifests[r] # None

\* The documents say that a claim fails for an unsuperseded failure only, and is
\* INCOMPLETE for its errors and cancellations otherwise.  So a generation refused for
\* hiding a failure should have a member whose failure is unsuperseded.
RefusesOnlyUnsuperseded ==
    inv.stage = "writing" /\ HidesFailure(inv.draft, history) =>
        \E m \in Members : StandsFailed(history, m, inputs)
=============================================================================

-------------------------- MODULE EvidenceGateProofs --------------------------
(***************************************************************************)
(* Theorems about EvidencePublication and the gate that reads its          *)
(* generations, for every value of their constants: the types, the order   *)
(* of publication, what a published generation promises, and that the      *)
(* gate's verdict is sound, reports failures and confirms the producer.    *)
(*                                                                         *)
(* The inductive invariant comes first, then what each step keeps of it,   *)
(* one part after the other, and the theorems at the end.                  *)
(***************************************************************************)
EXTENDS EvidenceGate, WellFoundedInduction, TLAPS

------------------------------------------------------------------------------
(* The inductive invariant.                                                *)

Early == {"preflight", "schedule", "closing", "assessing", "publishing", "writing"}

\* Runs are numbered in order.  A run is settled before the pointer names it, and its
\* run.json is the draft its invocation holds until then.
PointerInv ==
    /\ owner # 0 => owner = begun
    /\ Live => owner # 0
    /\ current <= begun /\ synced <= current /\ returned.run <= begun
    /\ \A r \in settled : r <= begun /\ manifests[r] # None
    /\ {current, synced} \subseteq settled \cup {0}
    /\ inv.stage \in Early \cup {"settling"} => owner \notin settled
    /\ inv.stage \in {"writing", "settling", "pointing", "replaced"} => inv.draft \in Manifest
    /\ inv.stage \in {"settling", "pointing", "replaced"} => manifests[owner] = inv.draft
    /\ inv.stage \in {"pointing", "replaced"} => owner \in settled
    /\ inv.stage = "replaced" => current = owner
    /\ inv.stage = "returning" /\ inv.result = "PASS" =>
          owner \in settled /\ synced = owner /\ manifests[owner].result = "PASS"
    /\ AcknowledgedStays

\* The attempts the store knows, each with the key it was recorded for.
Bound == {<<history[i].attempt, history[i].key>> : i \in DOMAIN history}
           \cup {<<q.attempt, q.key>> : q \in pending}

ExecutedOn(h, key, attempt) ==
    \E i \in DOMAIN h : h[i].kind = "execution" /\ h[i].key = key /\ h[i].attempt = attempt

Shaped(h) ==
    /\ \A i \in DOMAIN h : /\ h[i].attempt # 0
                           /\ h[i].kind = "execution" => h[i].member = NoMember
                           /\ h[i].kind = "observation" =>
                                 /\ h[i].member # NoMember
                                 /\ \E j \in DOMAIN h : /\ j < i /\ h[j].kind = "execution"
                                                        /\ h[j].attempt = h[i].attempt
    /\ \A i, j \in DOMAIN h :
          /\ h[i].attempt = h[j].attempt => h[i].key = h[j].key
          /\ h[i].kind = "execution" /\ h[j].kind = "execution" /\ h[i].attempt = h[j].attempt => i = j

\* An attempt belongs to one key, has at most one execution event, and is observed after
\* it.  What a live invocation cites or aims at was executed on its own inputs.
AttemptInv ==
    /\ owner = 0 \/ inv.stage = "preflight" => pending = {}
    /\ \A x \in Bound : x[1] \in 1 .. attempts
    /\ \A x, y \in Bound : x[1] = y[1] => x[2] = y[2]
    /\ Shaped(history)
    /\ Live => \A q \in pending : q.key[2] = inputs
    /\ inv.stage = "schedule" => \A q \in pending : q.kind = "execution" =>
          /\ inv.work[q.key[1]] \in {"running", "done"}
          /\ inv.work[q.key[1]] = "running" => ~q.committed /\ ~ExecutedOn(history, q.key, q.attempt)
    /\ Live => \A m \in Members :
          /\ inv.aim[m] # 0 => ExecutedOn(history, KeyOfMember(m), inv.aim[m])
          /\ inv.assess[m].execution # 0 => ExecutedOn(history, KeyOfMember(m), inv.assess[m].execution)

\* The slots of a manifest cite executions on its version, and refer to receipts of
\* their own.
Cites(g, h) == \A m \in Members : g.slots[m].execution # 0 =>
                  ExecutedOn(h, <<PhysicalOf(m), g.version>>, g.slots[m].execution)
Refers(g, h) == \A m \in Members : g.slots[m].observation # 0 => ReceiptBinds(g.slots[m], h, m)

\* A passing manifest is valid on the history it captured, and reports its barriers.
Backed(g, h) ==
    g.result = "PASS" =>
        /\ g.captured <= Len(h)
        /\ ValidGeneration(g, SubSeq(h, 1, g.captured))
        /\ \A m \in Members : g.slots[m].blocking = Blockers(SubSeq(h, 1, g.captured), m)

\* What is written is the draft, concluded from the history as it still is.
GenerationInv ==
    /\ inv.stage = "publishing" /\ ~inv.operational =>
          /\ inv.captured = Len(history)
          /\ \A m \in Members : inv.assess[m].blocking = Blockers(history, m)
    /\ inv.stage \in {"writing", "settling"} =>
          /\ Cites(inv.draft, history)
          /\ \A c \in Claims : inv.draft.claims[c] = ClaimResult(inv.draft.slots, c)
          /\ inv.draft.result = "PASS" =>
                /\ inv.draft.captured = Len(history)
                /\ \A m \in Members : inv.draft.slots[m].blocking = Blockers(history, m)
    /\ inv.stage = "settling" => ValidGeneration(inv.draft, history)
    /\ \A r \in Runs : manifests[r] # None => /\ Cites(manifests[r], history)
                                             /\ Refers(manifests[r], history)
                                             /\ Backed(manifests[r], history)

\* The gate holds a manifest that was published, and what it concluded is GateSlot of
\* the history it read.
GateInv ==
    /\ gate.at # "idle" => /\ gate.manifest \in Manifest
                           /\ Cites(gate.manifest, history) /\ Refers(gate.manifest, history)
                           /\ Backed(gate.manifest, history)
    /\ gate.at = "assessed" =>
          /\ gate.seen <= Len(history)
          /\ Cites(gate.manifest, Seen) /\ Refers(gate.manifest, Seen)
          /\ gate.states = [m \in Members |-> GateSlot(gate.manifest, Seen, m, gate.inputs)]
          /\ gate.rows = [c \in Claims |-> Row(gate.states, c)]
          /\ gate.manifest.result = "PASS" => gate.manifest.captured <= gate.seen
          /\ gate.errors /\ gate.seen = Len(history) =>
                Unaccounted \/ \E m \in Members : Contradicts(gate.manifest, Seen, m, gate.inputs)
    /\ GateSound
    /\ GateReportsFailures

------------------------------------------------------------------------------
(* The latest of a set of events.                                          *)

\* A nonempty set of numbers has a least element.
LEMMA LeastOf ==
    ASSUME NEW T, T \subseteq Nat, T # {}
    PROVE  \E x \in T : \A y \in T : x <= y
  <1>1. IsWellFoundedOn(OpToRel(<, Nat), Nat)
    BY NatLessThanWellFounded
  <1>2. PICK x \in T : \A y \in T : ~(<<y, x>> \in OpToRel(<, Nat))
    BY <1>1, WFMin, Zenon
  <1>3. \A y \in T : y \in Nat /\ x \in Nat
    OBVIOUS
  <1>4. \A y \in T : ~(y < x)
    BY <1>2, <1>3 DEF OpToRel
  <1> QED
    BY <1>3, <1>4, SMT

\* Max names the greatest of finitely many events.
LEMMA GreatestOf ==
    ASSUME NEW n \in Nat, NEW S, S \subseteq 1 .. n, S # {}
    PROVE  Max(S) \in S /\ \A y \in S : y <= Max(S)
  <1> DEFINE T == {n - x : x \in S}
  <1>1. \A w \in S : w \in Int /\ w <= n
    OBVIOUS
  <1>2. T \subseteq Nat
    <2> SUFFICES ASSUME NEW x \in S PROVE n - x \in Nat
      OBVIOUS
    <2> QED
      BY <1>1
  <1>3. T # {}
    OBVIOUS
  <1>4. PICK z \in T : \A y \in T : z <= y
    <2> HIDE DEF T
    <2> QED
      BY <1>2, <1>3, LeastOf
  <1>5. PICK x \in S : z = n - x
    BY <1>4
  <1>6. \A y \in S : n - x <= n - y
    BY <1>4, <1>5
  <1>7. \A y \in S : x >= y
    <2> SUFFICES ASSUME NEW y \in S PROVE x >= y
      OBVIOUS
    <2>1. x \in Int /\ y \in Int /\ n - x <= n - y
      BY <1>1, <1>6
    <2> QED
      BY <2>1
  <1>8. Max(S) \in S /\ \A y \in S : Max(S) >= y
    BY <1>7 DEF Max
  <1> QED
    BY <1>1, <1>8

------------------------------------------------------------------------------
(* Slots and candidates.                                                   *)

\* A member belongs to one physical slot.
LEMMA PhysicalFacts ==
    ASSUME NEW m \in Members
    PROVE  /\ PhysicalOf(m) \in Physicals /\ m \in MembersOf[PhysicalOf(m)]
           /\ \A p \in Physicals : m \in MembersOf[p] => p = PhysicalOf(m)
  <1>1. \E p \in Physicals : m \in MembersOf[p]
    BY PublicationAssumption
  <1>2. PhysicalOf(m) \in Physicals /\ m \in MembersOf[PhysicalOf(m)]
    BY <1>1, Zenon DEF PhysicalOf
  <1>3. \A p, q \in Physicals : p # q => MembersOf[p] \cap MembersOf[q] = {}
    BY PublicationAssumption
  <1> QED
    BY <1>2, <1>3

LEMMA MembersOfTyped == ASSUME NEW p \in Physicals PROVE MembersOf[p] \subseteq Members
BY HistoryAssumption

\* selectCandidates: the candidate is eligible, and its last observation is one of it.
LEMMA CandidateFacts ==
    ASSUME NEW h \in Seq(Event), NEW m \in Members, HasCandidate(h, KeyOfMember(m), m)
    PROVE  /\ Candidate(h, m) \in Eligible(h, KeyOfMember(m), m)
           /\ Candidate(h, m) \in DOMAIN h
           /\ LastObservation(h, m) \in Observations(h, Candidate(h, m), m)
           /\ LastObservation(h, m) \in DOMAIN h
  <1>1. Len(h) \in Nat /\ DOMAIN h = 1 .. Len(h)
    OBVIOUS
  <1>2. Eligible(h, KeyOfMember(m), m) \subseteq 1 .. Len(h)
    BY <1>1 DEF Eligible
  <1>3. Candidate(h, m) \in Eligible(h, KeyOfMember(m), m)
    BY <1>1, <1>2, GreatestOf DEF HasCandidate, Candidate
  <1>4. Candidate(h, m) \in DOMAIN h
    BY <1>3 DEF Eligible
  <1>5. Observations(h, Candidate(h, m), m) # {}
    BY <1>3 DEF Eligible, Observed
  <1>6. Observations(h, Candidate(h, m), m) \subseteq 1 .. Len(h)
    BY <1>1 DEF Observations
  <1>7. LastObservation(h, m) \in Observations(h, Candidate(h, m), m)
    BY <1>1, <1>5, <1>6, GreatestOf DEF LastObservation
  <1> QED
    BY <1>3, <1>4, <1>7 DEF Observations

\* A candidate is concluded only where there is one.
LEMMA PassHasCandidate ==
    ASSUME NEW h, NEW key, NEW m, SelectionState(h, key, m) = "PASS"
    PROVE  HasCandidate(h, key, m)
BY DEF SelectionState

LEMMA SelectionTyped ==
    ASSUME NEW h, NEW key, NEW m
    PROVE  SelectionState(h, key, m) \in States
BY DEF SelectionState, States, Results

------------------------------------------------------------------------------
(* Types.                                                                  *)

\* The records the actions write are of their types.
LEMMA VersionTyped ==
    ASSUME inputs \in Versions, NEW m \in Members, NEW p \in Physicals
    PROVE  KeyOf(p) \in Keys /\ KeyOfMember(m) \in Keys
BY PhysicalFacts DEF KeyOf, KeyOfMember, Keys

LEMMA ResultNames == Results = {"PASS", "FAIL", "ERROR", "CANCELLED"}
BY DEF Results

LEMMA StateNames == /\ Results \subseteq States /\ Results \subseteq Verdicts
                    /\ {"MISSING", "PASS", "FAIL", "ERROR", "CANCELLED"} = States
                    /\ {"PASS", "FAIL", "ERROR", "CANCELLED", "INCOMPLETE"} = Verdicts
BY DEF States, Results, Verdicts

\* What an invocation becomes keeps its type.
LEMMA FailedTyped ==
    ASSUME NEW i \in Invocation, NEW cancellation
    PROVE  Failed(i) \in Invocation /\ FailedBy(i, cancellation) \in Invocation
BY DEF Failed, FailedBy, Invocation

LEMMA LeaveTyped ==
    ASSUME NEW i \in Invocation, NEW p \in Physicals
    PROVE  Leave(i, p) \in Invocation
BY DEF Leave, Invocation, Works

LEMMA NotedTyped ==
    ASSUME NEW i \in Invocation, NEW r
    PROVE  Noted(i, r) \in Invocation
  <1>1. [i EXCEPT !.halted = i.halted \/ r # "PASS"] \in Invocation
    BY DEF Invocation
  <1> QED
    BY <1>1, FailedTyped DEF Noted

LEMMA AbandonedTyped ==
    ASSUME NEW i \in Invocation, NEW m \in Members
    PROVE  Abandoned(i, m) \in Invocation
  <1>1. [n \in Members |-> IF n \in MembersOf[PhysicalOf(m)] THEN 0 ELSE i.aim[n]] \in [Members -> Nat]
    BY DEF Invocation
  <1> QED
    BY <1>1 DEF Abandoned, Invocation

LEMMA ExecutedTyped ==
    ASSUME NEW i \in Invocation, NEW p \in Physicals, NEW attempt \in Nat, NEW r \in Results
    PROVE  Executed(i, p, attempt, r) \in Invocation
  <1>1. i.assess \in [Members -> Assessment] /\ i.aim \in [Members -> Nat]
    BY DEF Invocation
  <1>2. (IF r = "PASS" THEN "MISSING" ELSE r) \in States
    BY StateNames
  <1>3. [m \in Members |-> IF m \in MembersOf[p]
                 THEN [i.assess[m] EXCEPT !.execution = attempt,
                                          !.state = IF r = "PASS" THEN "MISSING" ELSE r]
                 ELSE i.assess[m]] \in [Members -> Assessment]
    BY <1>1, <1>2 DEF Assessment
  <1>4. [m \in Members |-> IF m \in MembersOf[p] /\ r = "PASS" THEN attempt ELSE i.aim[m]] \in [Members -> Nat]
    BY <1>1
  <1> QED
    BY <1>3, <1>4 DEF Executed, Invocation

LEMMA IdleTyped == Idle \in Invocation
  <1>1. Idle.assess \in [Members -> Assessment] /\ Idle.work \in [Physicals -> Works]
        /\ Idle.aim \in [Members -> Nat]
    BY StateNames DEF Idle, Unassessed, Assessment, Works
  <1>2. Idle.stage \in Stages /\ Idle.preflight \in Results /\ Idle.result \in Verdicts
    BY StateNames, ResultNames DEF Idle, Stages
  <1> QED
    BY <1>1, <1>2 DEF Idle, Invocation

\* An assessment with a new state, execution or observation.
LEMMA AssessTyped ==
    ASSUME NEW i \in Invocation, NEW m \in Members, NEW state \in States, NEW n \in Nat
    PROVE  /\ [i EXCEPT !.assess[m].state = state] \in Invocation
           /\ [i EXCEPT !.assess[m].execution = n] \in Invocation
           /\ [i EXCEPT !.assess[m].observation = n] \in Invocation
           /\ [i EXCEPT !.aim[m] = 0] \in Invocation
  <1>1. i.assess \in [Members -> Assessment] /\ i.assess[m] \in Assessment /\ i.aim \in [Members -> Nat]
    BY DEF Invocation
  <1>2. /\ [i.assess EXCEPT ![m].state = state] \in [Members -> Assessment]
        /\ [i.assess EXCEPT ![m].execution = n] \in [Members -> Assessment]
        /\ [i.assess EXCEPT ![m].observation = n] \in [Members -> Assessment]
        /\ [i.aim EXCEPT ![m] = 0] \in [Members -> Nat]
    BY <1>1 DEF Assessment
  <1> QED
    BY <1>1, <1>2 DEF Invocation

LEMMA ExecutionEventTyped ==
    ASSUME GateTypeOK, NEW p \in Physicals, NEW attempt \in Nat,
           NEW r \in Results, NEW backed \in BOOLEAN
    PROVE  ExecutionEvent(p, attempt, r, backed) \in Event
  <1>1. KeyOf(p) \in Keys
    BY DEF GateTypeOK, KeyOf, Keys
  <1> QED
    BY <1>1 DEF ExecutionEvent, Event, Kinds, MaybeMember

LEMMA ObservationEventTyped ==
    ASSUME GateTypeOK, NEW m \in Members, NEW r \in Results
    PROVE  ObservationEvent(m, r) \in Event
  <1>1. KeyOfMember(m) \in Keys /\ inv.aim[m] \in Nat /\ owner \in Runs \cup {0}
    BY PhysicalFacts DEF GateTypeOK, KeyOf, KeyOfMember, Keys, Invocation
  <1> QED
    BY <1>1 DEF ObservationEvent, Event, Kinds, MaybeMember

\* An appended event keeps the history a sequence of events.
LEMMA AppendTyped ==
    ASSUME NEW h \in Seq(Event), NEW e \in Event
    PROVE  Append(h, e) \in Seq(Event)
OBVIOUS

LEMMA TroubleTyped == ASSUME GateTypeOK, Trouble \/ UNCHANGED troubles PROVE troubles' \in Nat
BY DEF GateTypeOK, Trouble

\* Each step of an invocation keeps the types.
LEMMA BeginTyped == ASSUME GateTypeOK, Begin, UNCHANGED gate PROVE GateTypeOK'
  <1>1. PICK selected \in Selections, resume \in BOOLEAN :
           inv' = [Idle EXCEPT !.stage = "preflight", !.selected = selected, !.resume = resume]
    BY DEF Begin
  <1>2. selected \in SUBSET Claims
    BY PublicationAssumption
  <1>3. inv' \in Invocation
    BY <1>1, <1>2, IdleTyped DEF Invocation, Stages
  <1> QED
    BY <1>3 DEF GateTypeOK, Begin, disk

LEMMA PreflightTyped ==
    ASSUME GateTypeOK, PreflightPasses \/ PreflightFails, UNCHANGED gate
    PROVE  GateTypeOK'
  <1> inv \in Invocation /\ history \in Seq(Event)
    BY DEF GateTypeOK
  <1>0. Len(Order) \in Nat /\ Len(history) \in Nat /\ inv.captured \in Nat
    BY PublicationAssumption DEF Invocation
  <1>1. CASE PreflightPasses
    <2>1. inv' \in Invocation
      BY <1>0, <1>1 DEF PreflightPasses, Invocation, Stages, Results
    <2> QED
      BY <2>1, <1>1 DEF GateTypeOK, PreflightPasses, disk, counts
  <1>2. CASE PreflightFails
    <2>1. PICK read \in BOOLEAN, n \in 0 .. Len(Order), cancellation \in {FALSE, inv.cancelled} :
            inv' = [FailedBy(inv, cancellation) EXCEPT
                       !.stage = "closing", !.described = n, !.halted = FALSE, !.resume = FALSE,
                       !.captured = IF read THEN Len(history) ELSE 0,
                       !.preflight = IF inv.cancelled THEN "CANCELLED" ELSE "ERROR"]
      BY <1>2 DEF PreflightFails
    <2>2. FailedBy(inv, cancellation) \in Invocation
      BY FailedTyped
    <2>3. n \in Nat
      BY <1>0
    <2>4. /\ (IF read THEN Len(history) ELSE 0) \in Nat
          /\ (IF inv.cancelled THEN "CANCELLED" ELSE "ERROR") \in Results
      BY <1>0 DEF Results
    <2>5. \A i \in Invocation, a \in Nat, r \in Results :
            [i EXCEPT !.stage = "closing", !.described = n, !.halted = FALSE, !.resume = FALSE,
                      !.captured = a, !.preflight = r] \in Invocation
      BY <2>3 DEF Invocation, Stages
    <2>6. inv' \in Invocation
      BY <2>1, <2>2, <2>4, <2>5
    <2> QED
      BY <2>6, <1>2 DEF GateTypeOK, PreflightFails, disk, counts
  <1> QED
    BY <1>1, <1>2

LEMMA CancelTyped == ASSUME GateTypeOK, Cancel, UNCHANGED gate PROVE GateTypeOK'
  <1>1. inv' \in Invocation
    BY DEF GateTypeOK, Cancel, Invocation
  <1> QED
    BY <1>1 DEF GateTypeOK, Cancel, Trouble, disk

LEMMA AdmitTyped ==
    ASSUME GateTypeOK, NEW p \in Physicals, Admit(p) \/ Hit(p), UNCHANGED gate
    PROVE  GateTypeOK'
  <1> inv \in Invocation /\ history \in Seq(Event)
    BY DEF GateTypeOK
  <1>1. CASE Admit(p)
    <2>1. inv' \in Invocation
      BY <1>1 DEF Admit, Invocation, Works
    <2> QED
      BY <1>1, <2>1 DEF GateTypeOK, Admit, disk, counts
  <1>2. CASE Hit(p)
    <2> DEFINE aimed == [m \in Members |->
                 IF m \in SelectedMembers(p) THEN history[Candidate(history, m)].attempt ELSE inv.aim[m]]
    <2>1. ASSUME NEW m \in Members, m \in SelectedMembers(p) PROVE history[Candidate(history, m)].attempt \in Nat
      <3>1. p = PhysicalOf(m)
        BY <2>1, PhysicalFacts DEF SelectedMembers
      <3>2. HasCandidate(history, KeyOfMember(m), m)
        BY <3>1, <2>1, <1>2 DEF Hit, AllCandidates, KeyOfMember
      <3>3. Candidate(history, m) \in DOMAIN history
        BY <3>2, CandidateFacts
      <3>4. history[Candidate(history, m)] \in Event
        BY <3>3
      <3> QED
        BY <3>4 DEF Event
    <2>2. inv.aim \in [Members -> Nat]
      BY DEF Invocation
    <2>3. aimed \in [Members -> Nat]
      BY <2>1, <2>2
    <2>4. Leave(inv, p) \in Invocation
      BY LeaveTyped
    <2>5. inv' = [Leave(inv, p) EXCEPT !.aim = aimed]
      BY <1>2 DEF Hit
    <2>6. inv' \in Invocation
      <3> HIDE DEF aimed
      <3> QED
        BY <2>3, <2>4, <2>5 DEF Invocation
    <2> QED
      BY <1>2, <2>6 DEF GateTypeOK, Hit, disk, counts
  <1> QED
    BY <1>1, <1>2

LEMMA DispatchTyped ==
    ASSUME GateTypeOK, NEW p \in Physicals, Dispatch(p) \/ NotDispatched(p), UNCHANGED gate
    PROVE  GateTypeOK'
  <1> inv \in Invocation /\ attempts \in Nat
    BY DEF GateTypeOK
  <1>1. CASE Dispatch(p)
    <2>1. inv' \in Invocation
      BY <1>1 DEF Dispatch, Invocation, Works
    <2>2. KeyOf(p) \in Keys
      BY DEF GateTypeOK, KeyOf, Keys
    <2>3. [kind |-> "execution", key |-> KeyOf(p), attempt |-> attempts + 1,
           member |-> NoMember, committed |-> FALSE, open |-> FALSE] \in Pending
      BY <2>2 DEF Pending, MaybeMember
    <2>4. pending' \subseteq Pending
      BY <1>1, <2>3 DEF GateTypeOK, Dispatch
    <2> QED
      BY <1>1, <2>1, <2>4 DEF GateTypeOK, Dispatch, disk
  <1>2. CASE NotDispatched(p)
    <2>1. inv' \in Invocation
      BY <1>2, LeaveTyped, FailedTyped DEF NotDispatched
    <2> QED
      BY <1>2, <2>1, TroubleTyped DEF GateTypeOK, NotDispatched, disk
  <1> QED
    BY <1>1, <1>2

LEMMA PendingTyped ==
    ASSUME NEW q \in Pending, NEW committed \in BOOLEAN
    PROVE  /\ q.attempt \in Nat /\ q.key \in Keys /\ q.member \in MaybeMember
           /\ [q EXCEPT !.committed = committed] \in Pending
           /\ [q EXCEPT !.committed = TRUE, !.open = TRUE] \in Pending
BY DEF Pending

\* A step of a worker or an observer, by what it may change.
LEMMA WorkTyped ==
    ASSUME GateTypeOK, inv' \in Invocation, pending' \subseteq Pending,
           history' \in Seq(Event), Trouble \/ UNCHANGED troubles,
           UNCHANGED <<owner, disk, inputs, returned, begun, attempts, edits, gate>>
    PROVE  GateTypeOK'
BY TroubleTyped DEF GateTypeOK, disk

LEMMA ExecutionRecordedTyped ==
    ASSUME GateTypeOK, NEW p \in Physicals, ExecutionRecorded(p), UNCHANGED gate
    PROVE  GateTypeOK'
  <1>1. PICK q \in pending, r \in Results, open \in BOOLEAN :
        /\ Running(p, q) /\ MayResult(r)
        /\ IF open THEN r = "ERROR" /\ Trouble ELSE UNCHANGED troubles
        /\ history' = Append(history, ExecutionEvent(p, q.attempt, r, TRUE))
        /\ pending' = (pending \ {q}) \cup
              (IF open THEN {[q EXCEPT !.committed = TRUE, !.open = TRUE]} ELSE {})
        /\ inv' = Noted(Executed(Leave(inv, p), p, q.attempt, r), r)
        /\ UNCHANGED <<owner, disk, inputs, returned, begun, attempts, edits>>
    BY DEF ExecutionRecorded
  <1>2. inv \in Invocation /\ history \in Seq(Event) /\ pending \subseteq Pending /\ q \in Pending
    BY DEF GateTypeOK
  <1>3. q.attempt \in Nat /\ [q EXCEPT !.committed = TRUE, !.open = TRUE] \in Pending
    BY <1>2, PendingTyped
  <1>4. inv' \in Invocation
    BY <1>1, <1>2, <1>3, LeaveTyped, ExecutedTyped, NotedTyped
  <1>5. history' \in Seq(Event)
    BY <1>1, <1>2, <1>3, ExecutionEventTyped, AppendTyped
  <1>6. pending' \subseteq Pending
    BY <1>1, <1>2, <1>3
  <1> QED
    BY <1>1, <1>4, <1>5, <1>6, WorkTyped

LEMMA ExecutionThrowsTyped ==
    ASSUME GateTypeOK, NEW p \in Physicals, ExecutionThrows(p), UNCHANGED gate
    PROVE  GateTypeOK'
  <1>1. PICK q \in pending, cancellation \in {FALSE, inv.cancelled}, windows \in BOOLEAN :
        /\ Running(p, q) /\ (windows => pending # {q})
        /\ IF cancellation THEN UNCHANGED troubles ELSE Trouble
        /\ history' = Append(history, ExecutionEvent(p, q.attempt, IF cancellation THEN "CANCELLED"
                                                                   ELSE "ERROR", FALSE))
        /\ pending' = IF windows THEN pending ELSE pending \ {q}
        /\ inv' = FailedBy(Leave(inv, p), cancellation)
        /\ UNCHANGED <<owner, disk, inputs, returned, begun, attempts, edits>>
    BY DEF ExecutionThrows
  <1>2. inv \in Invocation /\ history \in Seq(Event) /\ pending \subseteq Pending /\ q \in Pending
    BY DEF GateTypeOK
  <1>3. q.attempt \in Nat /\ (IF cancellation THEN "CANCELLED" ELSE "ERROR") \in Results
    BY <1>2, PendingTyped DEF Results
  <1>4. inv' \in Invocation
    BY <1>1, <1>2, LeaveTyped, FailedTyped
  <1>5. history' \in Seq(Event)
    BY <1>1, <1>2, <1>3, ExecutionEventTyped, AppendTyped
  <1>6. pending' \subseteq Pending
    BY <1>1, <1>2
  <1> QED
    BY <1>1, <1>4, <1>5, <1>6, WorkTyped

LEMMA CheckpointThrowsTyped ==
    ASSUME GateTypeOK, NEW p \in Physicals, CheckpointThrows(p), UNCHANGED gate
    PROVE  GateTypeOK'
  <1>1. PICK q \in pending, r \in Results, reached \in {"staged", "committed", "logged"} :
        /\ Running(p, q) /\ MayResult(r) /\ Trouble
        /\ history' = IF reached = "logged" THEN Append(history, ExecutionEvent(p, q.attempt, r, TRUE))
                      ELSE history
        /\ pending' = (pending \ {q}) \cup {[q EXCEPT !.committed = reached # "staged"]}
        /\ inv' = [Failed(Leave(inv, p)) EXCEPT !.assess = [m \in Members |->
                     IF m \in MembersOf[p] /\ r # "PASS" THEN [inv.assess[m] EXCEPT !.state = r]
                     ELSE inv.assess[m]]]
        /\ UNCHANGED <<owner, disk, inputs, returned, begun, attempts, edits>>
    BY DEF CheckpointThrows
  <1>2. inv \in Invocation /\ history \in Seq(Event) /\ pending \subseteq Pending /\ q \in Pending
    BY DEF GateTypeOK
  <1>3. q.attempt \in Nat /\ [q EXCEPT !.committed = reached # "staged"] \in Pending
    BY <1>2, PendingTyped
  <1> DEFINE assessed == [m \in Members |->
                     IF m \in MembersOf[p] /\ r # "PASS" THEN [inv.assess[m] EXCEPT !.state = r]
                     ELSE inv.assess[m]]
  <1>4. inv.assess \in [Members -> Assessment] /\ r \in States
    BY <1>2, StateNames DEF Invocation
  <1>5. assessed \in [Members -> Assessment]
    BY <1>4 DEF Assessment
  <1>6. Failed(Leave(inv, p)) \in Invocation
    BY <1>2, LeaveTyped, FailedTyped
  <1>7. inv' = [Failed(Leave(inv, p)) EXCEPT !.assess = assessed]
    BY <1>1
  <1>8. inv' \in Invocation
    <2> HIDE DEF assessed
    <2> QED
      BY <1>5, <1>6, <1>7 DEF Invocation
  <1>9. history' \in Seq(Event)
    BY <1>1, <1>2, <1>3, ExecutionEventTyped, AppendTyped
  <1>10. pending' \subseteq Pending
    BY <1>1, <1>2, <1>3
  <1> QED
    BY <1>1, <1>8, <1>9, <1>10, WorkTyped

LEMMA BeginObservationTyped ==
    ASSUME GateTypeOK, NEW m \in Members, BeginObservation(m) \/ ObservationNotBegun(m), UNCHANGED gate
    PROVE  GateTypeOK'
  <1> inv \in Invocation /\ pending \subseteq Pending /\ history \in Seq(Event)
    BY DEF GateTypeOK
  <1>0. inv.aim[m] \in Nat /\ inv.aborted \in BOOLEAN
    BY DEF Invocation
  <1>1. CASE BeginObservation(m)
    <2>1. inv' \in Invocation
      BY <1>0, <1>1, AssessTyped, StateNames DEF BeginObservation
    <2>2. KeyOfMember(m) \in Keys
      BY PhysicalFacts DEF GateTypeOK, KeyOf, KeyOfMember, Keys
    <2>3. [kind |-> "observation", key |-> KeyOfMember(m), attempt |-> inv.aim[m],
           member |-> m, committed |-> FALSE, open |-> FALSE] \in Pending
      BY <1>0, <2>2 DEF Pending, MaybeMember
    <2>4. pending' \subseteq Pending
      BY <1>1, <2>3 DEF BeginObservation
    <2> QED
      BY <1>1, <2>1, <2>4, WorkTyped DEF BeginObservation, counts
  <1>2. CASE ObservationNotBegun(m)
    <2>1. PICK cancellation \in {FALSE, inv.cancelled} :
          /\ IF cancellation \/ inv.aborted THEN UNCHANGED troubles ELSE Trouble
          /\ inv' = [Abandoned(FailedBy(inv, cancellation), m) EXCEPT
                       !.assess[m].execution = inv.aim[m],
                       !.assess[m].state = IF cancellation THEN "CANCELLED" ELSE "ERROR",
                       !.aborted = inv.aborted \/ ~cancellation]
      BY <1>2 DEF ObservationNotBegun
    <2>2. /\ Abandoned(FailedBy(inv, cancellation), m) \in Invocation
          /\ (IF cancellation THEN "CANCELLED" ELSE "ERROR") \in States
      BY AbandonedTyped, FailedTyped, StateNames
    <2>3. \A i \in Invocation, n \in Nat, state \in States, aborted \in BOOLEAN :
            [i EXCEPT !.assess[m].execution = n, !.assess[m].state = state, !.aborted = aborted]
               \in Invocation
      <3> TAKE i \in Invocation, n \in Nat, state \in States, aborted \in BOOLEAN
      <3>1. i.assess \in [Members -> Assessment]
        BY DEF Invocation
      <3>2. [i.assess EXCEPT ![m].execution = n, ![m].state = state] \in [Members -> Assessment]
        BY <3>1 DEF Assessment
      <3> QED
        BY <3>1, <3>2 DEF Invocation
    <2>4. inv' \in Invocation
      BY <1>0, <2>1, <2>2, <2>3
    <2> QED
      BY <1>2, <2>1, <2>4, WorkTyped DEF ObservationNotBegun
  <1> QED
    BY <1>1, <1>2

LEMMA ObservationTyped ==
    ASSUME GateTypeOK, NEW m \in Members, ObservationRecorded(m) \/ ObservationThrows(m), UNCHANGED gate
    PROVE  GateTypeOK'
  <1> inv \in Invocation /\ pending \subseteq Pending /\ history \in Seq(Event)
    BY DEF GateTypeOK
  <1>0. inv.aborted \in BOOLEAN /\ Len(history) + 1 \in Nat
    BY DEF Invocation
  <1>1. CASE ObservationRecorded(m)
    <2>1. PICK q \in pending, r \in Results, open \in BOOLEAN :
        /\ Watched(m, q) /\ MayResult(r)
        /\ inv.cancelled => r # "FAIL"
        /\ IF open THEN r = "ERROR" /\ Trouble ELSE UNCHANGED troubles
        /\ history' = Append(history, ObservationEvent(m, r))
        /\ pending' = (pending \ {q}) \cup
              (IF open THEN {[q EXCEPT !.committed = TRUE, !.open = TRUE]} ELSE {})
        /\ inv' = [(IF open THEN Abandoned(Failed(inv), m) ELSE [Noted(inv, r) EXCEPT !.aim[m] = 0])
                     EXCEPT !.assess[m].state = r, !.assess[m].observation = Len(history) + 1,
                            !.aborted = inv.aborted \/ open]
        /\ UNCHANGED <<owner, disk, inputs, returned, begun, attempts, edits>>
      BY <1>1 DEF ObservationRecorded
    <2>2. q \in Pending /\ [q EXCEPT !.committed = TRUE, !.open = TRUE] \in Pending
      BY PendingTyped
    <2>3. (IF open THEN Abandoned(Failed(inv), m) ELSE [Noted(inv, r) EXCEPT !.aim[m] = 0]) \in Invocation
      BY AbandonedTyped, FailedTyped, NotedTyped, AssessTyped, StateNames
    <2>4. \A i \in Invocation, n \in Nat, state \in States, aborted \in BOOLEAN :
            [i EXCEPT !.assess[m].state = state, !.assess[m].observation = n, !.aborted = aborted]
               \in Invocation
      <3> TAKE i \in Invocation, n \in Nat, state \in States, aborted \in BOOLEAN
      <3>1. i.assess \in [Members -> Assessment]
        BY DEF Invocation
      <3>2. [i.assess EXCEPT ![m].state = state, ![m].observation = n] \in [Members -> Assessment]
        BY <3>1 DEF Assessment
      <3> QED
        BY <3>1, <3>2 DEF Invocation
    <2>5. r \in States
      BY StateNames
    <2>6. inv' \in Invocation
      BY <1>0, <2>1, <2>3, <2>4, <2>5
    <2>7. history' \in Seq(Event)
      BY <2>1, ObservationEventTyped, AppendTyped
    <2>8. pending' \subseteq Pending
      BY <2>1, <2>2
    <2> QED
      BY <2>1, <2>6, <2>7, <2>8, WorkTyped
  <1>2. CASE ObservationThrows(m)
    <2>1. PICK q \in pending, r \in Results, reached \in {"begun", "committed", "logged"},
               cancellation \in {FALSE, inv.cancelled} :
        /\ Watched(m, q) /\ MayResult(r)
        /\ cancellation => reached = "begun"
        /\ IF cancellation THEN UNCHANGED troubles ELSE Trouble
        /\ history' = IF reached = "logged" THEN Append(history, ObservationEvent(m, r)) ELSE history
        /\ pending' = (pending \ {q}) \cup {[q EXCEPT !.committed = reached # "begun"]}
        /\ inv' = [Abandoned(FailedBy(inv, cancellation), m) EXCEPT
                     !.assess[m].state = IF cancellation THEN "CANCELLED" ELSE "ERROR",
                     !.aborted = TRUE]
        /\ UNCHANGED <<owner, disk, inputs, returned, begun, attempts, edits>>
      BY <1>2 DEF ObservationThrows
    <2>2. q \in Pending /\ [q EXCEPT !.committed = reached # "begun"] \in Pending
      BY PendingTyped
    <2>3. /\ Abandoned(FailedBy(inv, cancellation), m) \in Invocation
          /\ (IF cancellation THEN "CANCELLED" ELSE "ERROR") \in States
      BY AbandonedTyped, FailedTyped, StateNames
    <2>4. \A i \in Invocation, state \in States :
            [i EXCEPT !.assess[m].state = state, !.aborted = TRUE] \in Invocation
      <3> TAKE i \in Invocation, state \in States
      <3>1. i.assess \in [Members -> Assessment]
        BY DEF Invocation
      <3>2. [i.assess EXCEPT ![m].state = state] \in [Members -> Assessment]
        BY <3>1 DEF Assessment
      <3> QED
        BY <3>1, <3>2 DEF Invocation
    <2>5. inv' \in Invocation
      BY <2>1, <2>3, <2>4
    <2>6. history' \in Seq(Event)
      BY <2>1, ObservationEventTyped, AppendTyped
    <2>7. pending' \subseteq Pending
      BY <2>1, <2>2
    <2> QED
      BY <2>1, <2>5, <2>6, <2>7, WorkTyped
  <1> QED
    BY <1>1, <1>2

\* The assessment of the full history is an assessment of every slot.
LEMMA ConcludedTyped ==
    ASSUME NEW a \in Assessment, NEW h \in Seq(Event), NEW m \in Members
    PROVE  Concluded(a, h, m) \in Assessment
  <1>1. Blockers(h, m) \subseteq Nat
    BY DEF Blockers
  <1> DEFINE noted == [a EXCEPT !.blocking = Blockers(h, m)]
  <1>2. noted \in Assessment
    BY <1>1 DEF Assessment
  <1>3. \A s \in States, i, j \in Nat :
          /\ [noted EXCEPT !.state = s] \in Assessment
          /\ [noted EXCEPT !.state = s, !.execution = i, !.observation = j] \in Assessment
    BY <1>2 DEF Assessment
  <1>4. SelectionState(h, KeyOfMember(m), m) = "PASS" =>
           h[Candidate(h, m)].attempt \in Nat /\ LastObservation(h, m) \in Nat
    <2> HAVE SelectionState(h, KeyOfMember(m), m) = "PASS"
    <2>1. Candidate(h, m) \in DOMAIN h /\ LastObservation(h, m) \in DOMAIN h
      BY PassHasCandidate, CandidateFacts
    <2>2. h[Candidate(h, m)] \in Event
      BY <2>1
    <2> QED
      BY <2>1, <2>2 DEF Event
  <1>5. SelectionState(h, KeyOfMember(m), m) \in States /\ "PASS" \in States
    BY SelectionTyped, StateNames
  <1>6. ASSUME NEW state, state = SelectionState(h, KeyOfMember(m), m)
        PROVE  \/ Concluded(a, h, m) = noted
               \/ Concluded(a, h, m) = [noted EXCEPT !.state = state]
               \/ /\ state = "PASS"
                  /\ Concluded(a, h, m) = [noted EXCEPT !.state = "PASS",
                                               !.execution = h[Candidate(h, m)].attempt,
                                               !.observation = LastObservation(h, m)]
    <2>1. CASE state \in {"FAIL", "ERROR"}
      BY <1>6, <2>1 DEF Concluded
    <2>2. CASE state = "PASS" /\ a.state \in {"MISSING", "PASS"}
      BY <1>6, <2>2 DEF Concluded
    <2>3. CASE state \notin {"FAIL", "ERROR"} /\ ~(state = "PASS" /\ a.state \in {"MISSING", "PASS"})
      BY <1>6, <2>3 DEF Concluded
    <2> QED
      BY <2>1, <2>2, <2>3
  <1> QED
    <2> HIDE DEF noted
    <2> DEFINE state == SelectionState(h, KeyOfMember(m), m)
    <2>1. CASE Concluded(a, h, m) = noted
      BY <1>2, <2>1
    <2>2. CASE Concluded(a, h, m) = [noted EXCEPT !.state = state]
      BY <1>3, <1>5, <2>2
    <2>3. CASE /\ state = "PASS"
               /\ Concluded(a, h, m) = [noted EXCEPT !.state = "PASS",
                                            !.execution = h[Candidate(h, m)].attempt,
                                            !.observation = LastObservation(h, m)]
      <3>1. h[Candidate(h, m)].attempt \in Nat /\ LastObservation(h, m) \in Nat
        BY <1>4, <2>3
      <3>2. [noted EXCEPT !.state = "PASS", !.execution = h[Candidate(h, m)].attempt,
                          !.observation = LastObservation(h, m)] \in Assessment
        BY <1>3, <1>5, <3>1
      <3> QED
        BY <2>3, <3>2
    <2> QED
      BY <1>6, <2>1, <2>2, <2>3

LEMMA AssessFullHistoryTyped ==
    ASSUME NEW a \in [Members -> Assessment], history \in Seq(Event), NEW known \in Seq(Event),
           NEW described, NEW k, NEW early, NEW lost
    PROVE  AssessFullHistory(a, known, described, k, early, lost) \in [Members -> Assessment]
  <1> DEFINE before == MembersAt(1 .. (k - 1)) \cap MembersAt(1 .. described)
             assessed == AssessSelections(a, history, before \cup early)
             marked == [m \in Members |->
                          IF m \in lost THEN [assessed[m] EXCEPT !.state = "ERROR"] ELSE assessed[m]]
  <1>1. assessed \in [Members -> Assessment]
    BY ConcludedTyped DEF AssessSelections
  <1>2. marked \in [Members -> Assessment]
    <2> HIDE DEF assessed
    <2>1. "ERROR" \in States
      BY StateNames
    <2>2. \A m \in Members : [assessed[m] EXCEPT !.state = "ERROR"] \in Assessment
      BY <1>1, <2>1 DEF Assessment
    <2> QED
      BY <1>1, <2>2
  <1>3. \A b \in [Members -> Assessment], ms \in SUBSET Members :
           RetainKnownBarriers(b, known, ms) \in [Members -> Assessment]
    <2> TAKE b \in [Members -> Assessment], ms \in SUBSET Members
    <2>1. \A m \in Members : Blockers(known, m) \subseteq Nat
      BY DEF Blockers
    <2>2. "FAIL" \in States /\ "ERROR" \in States /\ \A m \in Members : b[m].state \in States
      BY StateNames DEF Assessment
    <2>3. \A m \in Members, s \in States, w \in SUBSET Nat :
            [b[m] EXCEPT !.state = s, !.blocking = w] \in Assessment
      BY DEF Assessment
    <2> QED
      BY <2>1, <2>2, <2>3 DEF RetainKnownBarriers
  <1> QED
    <2> HIDE DEF marked, before
    <2>1. AssessFullHistory(a, known, described, k, early, lost)
            = RetainKnownBarriers(marked, known, Members \ before)
      BY DEF AssessFullHistory, marked, before
    <2> QED
      BY <1>2, <1>3, <2>1

LEMMA ScheduleEndsTyped ==
    ASSUME GateTypeOK, ScheduleEnds \/ FinalScan, UNCHANGED gate
    PROVE  GateTypeOK'
  <1> inv \in Invocation
    BY DEF GateTypeOK
  <1>1. CASE ScheduleEnds
    <2>1. Idle.work \in [Physicals -> Works]
      BY DEF Idle, Works
    <2>2. inv' \in Invocation
      BY <1>1, <2>1 DEF ScheduleEnds, Invocation, Stages
    <2> QED
      BY <1>1, <2>2, WorkTyped DEF ScheduleEnds, GateTypeOK, counts
  <1>2. CASE FinalScan
    <2>1. \A next \in Invocation : [next EXCEPT !.final = TRUE] \in Invocation
      BY DEF Invocation
    <2>2. [inv EXCEPT !.stage = "assessing"] \in Invocation
      BY DEF Invocation, Stages
    <2>3. inv' \in Invocation
      BY <1>2, <2>1, <2>2, FailedTyped DEF FinalScan
    <2> QED
      BY <1>2, <2>3, WorkTyped DEF FinalScan, GateTypeOK
  <1> QED
    BY <1>1, <1>2

\* What a snapshot took is a history.
LEMMA PrefixTyped ==
    ASSUME NEW h \in Seq(Event), NEW n \in 0 .. Len(h)
    PROVE  SubSeq(h, 1, n) \in Seq(Event)
OBVIOUS

\* What an assessment keeps: captured stays within the history.
AssessesAs(i, captured, k, early, lost) ==
    inv' = [i EXCEPT !.stage = "publishing", !.captured = captured,
                     !.assess = AssessFullHistory(inv.assess, SubSeq(history, 1, captured),
                                                  inv.described, k, early, lost)]

\* Assess concludes the slots from the history it read or from the one it holds; with
\* the latter the run has an operational error.
LEMMA AssessFacts ==
    ASSUME Assess
    PROVE  /\ inv.stage = "assessing"
           /\ \E i \in {inv, Failed(inv)}, captured \in {Len(history), inv.captured},
                 k \in Int, early \in SUBSET Members, lost \in SUBSET Members :
                 /\ AssessesAs(i, captured, k, early, lost)
                 /\ captured = inv.captured /\ captured # Len(history) => i = Failed(inv)
           /\ Trouble \/ UNCHANGED troubles
           /\ UNCHANGED <<history, pending, owner, disk, inputs, returned, begun, attempts, edits>>
  <1> Len(Order) + 1 \in Int
    BY PublicationAssumption
  <1>1. \A k : MembersAt(k) \subseteq Members
    BY PublicationAssumption, HistoryAssumption DEF MembersAt
  <1> DEFINE concluded(i, captured, k, early, lost) ==
          [i EXCEPT !.stage = "publishing", !.captured = captured,
                    !.assess = AssessFullHistory(inv.assess, SubSeq(history, 1, captured),
                                                 inv.described, k, early, lost)]
  <1>2. PICK i \in {inv, Failed(inv)}, captured \in {Len(history), inv.captured},
             k \in Int, early \in SUBSET Members, lost \in SUBSET Members :
          /\ inv' = concluded(i, captured, k, early, lost)
          /\ captured = inv.captured /\ captured # Len(history) => i = Failed(inv)
    <2> HIDE DEF concluded
    <2>1. CASE inv' = concluded(inv, Len(history), Len(Order) + 1, {}, {})
      BY <2>1
    <2>2. ASSUME NEW k \in 1 .. inv.described, NEW early \in SUBSET MembersAt({k}),
                 NEW lost \in SUBSET MembersAt({k}),
                 inv' = concluded(Failed(inv), Len(history), k, early, lost)
          PROVE  \E i \in {inv, Failed(inv)}, captured \in {Len(history), inv.captured},
                    n \in Int, e \in SUBSET Members, l \in SUBSET Members :
                   /\ inv' = concluded(i, captured, n, e, l)
                   /\ captured = inv.captured /\ captured # Len(history) => i = Failed(inv)
      <3>1. k \in Int /\ early \in SUBSET Members /\ lost \in SUBSET Members
        BY <1>1, <2>2
      <3> QED
        BY <2>2, <3>1
    <2>3. CASE inv' = concluded(Failed(inv), inv.captured, Len(Order) + 1, {}, {})
      BY <2>3
    <2>4. CASE inv' = concluded(Failed(inv), inv.captured, 1, {}, {})
      BY <2>4
    <2> QED
      BY <2>1, <2>2, <2>3, <2>4 DEF Assess, concluded
  <1>3. AssessesAs(i, captured, k, early, lost)
    BY <1>2 DEF AssessesAs
  <1>4. /\ inv.stage = "assessing" /\ (Trouble \/ UNCHANGED troubles)
        /\ UNCHANGED <<history, pending, owner, disk, inputs, returned, begun, attempts, edits>>
    BY DEF Assess
  <1> QED
    BY <1>2, <1>3, <1>4

LEMMA AssessTypedStep ==
    ASSUME GateTypeOK, inv.captured <= Len(history), Assess, UNCHANGED gate
    PROVE  GateTypeOK' /\ inv'.captured <= Len(history')
  <1> inv \in Invocation /\ history \in Seq(Event) /\ inv.captured \in Nat
    BY DEF GateTypeOK, Invocation
  <1>1. PICK i \in {inv, Failed(inv)}, captured \in {Len(history), inv.captured},
             k \in Int, early \in SUBSET Members, lost \in SUBSET Members :
             AssessesAs(i, captured, k, early, lost)
    BY AssessFacts
  <1>2. /\ i \in Invocation /\ inv.assess \in [Members -> Assessment]
        /\ captured \in 0 .. Len(history) /\ captured \in Nat
    <2>1. Failed(inv) \in Invocation
      BY FailedTyped
    <2>2. Len(history) \in Nat /\ inv.captured \in Nat /\ inv.captured <= Len(history)
      OBVIOUS
    <2>3. captured = Len(history) \/ captured = inv.captured
      OBVIOUS
    <2>4. captured \in 0 .. Len(history) /\ captured \in Nat
      BY <2>2, <2>3
    <2> QED
      BY <2>1, <2>4 DEF Invocation
  <1>3. SubSeq(history, 1, captured) \in Seq(Event)
    BY <1>2, PrefixTyped
  <1>4. AssessFullHistory(inv.assess, SubSeq(history, 1, captured), inv.described, k, early, lost)
           \in [Members -> Assessment]
    BY <1>2, <1>3, AssessFullHistoryTyped
  <1>5. \A a \in [Members -> Assessment] :
          /\ [i EXCEPT !.stage = "publishing", !.captured = captured, !.assess = a] \in Invocation
          /\ [i EXCEPT !.stage = "publishing", !.captured = captured, !.assess = a].captured = captured
    BY <1>2 DEF Invocation, Stages
  <1>6. inv' \in Invocation /\ inv'.captured = captured
    BY <1>1, <1>4, <1>5 DEF AssessesAs
  <1>7. /\ Trouble \/ UNCHANGED troubles
        /\ UNCHANGED <<history, pending, owner, disk, inputs, returned, begun, attempts, edits>>
    BY AssessFacts
  <1> QED
    BY <1>2, <1>6, <1>7, WorkTyped DEF GateTypeOK

\* publish writes a manifest.
LEMMA ManifestTyped ==
    ASSUME GateTypeOK, NEW i \in Invocation
    PROVE  ManifestOf(i) \in Manifest
  <1> DEFINE claims == [c \in Claims |-> ClaimResult(i.assess, c)]
  <1>1. claims \in [Claims -> {"PASS", "FAIL", "INCOMPLETE"}]
    BY DEF ClaimResult, MemberResult
  <1>2. RunResult(i, claims) \in Verdicts
    <2> HIDE DEF claims
    <2> QED
      BY StateNames DEF RunResult
  <1>3. /\ i.captured \in Nat /\ inputs \in Versions /\ i.assess \in [Members -> Assessment]
        /\ i.preflight \in Results /\ i.final \in BOOLEAN
    BY DEF GateTypeOK, Invocation
  <1> HIDE DEF claims
  <1>4. ManifestOf(i) = [captured |-> i.captured, version |-> inputs, slots |-> i.assess, claims |-> claims,
                         preflight |-> i.preflight, stable |-> i.final, result |-> RunResult(i, claims)]
    BY DEF ManifestOf, claims
  <1> QED
    BY <1>1, <1>2, <1>3, <1>4 DEF Manifest

LEMMA UnpublishedTyped == ASSUME GateTypeOK PROVE Unpublished \in Invocation
  <1>1. [inv EXCEPT !.stage = "returning", !.result = "ERROR"] \in Invocation
    BY StateNames DEF GateTypeOK, Invocation, Stages
  <1> QED
    BY <1>1, FailedTyped DEF Unpublished

LEMMA StageTyped ==
    ASSUME GateTypeOK, NEW stage \in Stages
    PROVE  /\ [inv EXCEPT !.stage = stage] \in Invocation
           /\ \A g \in Manifest : [inv EXCEPT !.stage = stage, !.draft = g] \in Invocation
           /\ \A r \in Verdicts : [inv EXCEPT !.stage = stage, !.result = r] \in Invocation
BY DEF GateTypeOK, Invocation

\* owner names a run once an invocation is live.
LEMMA PublishTyped ==
    ASSUME GateTypeOK, owner \in Runs, inv.stage \in {"writing", "replaced"} => inv.draft \in Manifest,
           Publish, UNCHANGED gate
    PROVE  GateTypeOK'
  <1> inv \in Invocation
    BY DEF GateTypeOK
  <1> {"writing", "settling", "pointing", "replaced", "returning"} \subseteq Stages
    BY DEF Stages
  <1>1. CASE PublishClaims
    <2>1. [inv EXCEPT !.stage = "writing", !.draft = ManifestOf(inv)] \in Invocation
      BY ManifestTyped, StageTyped
    <2>2. inv' \in Invocation
      BY <1>1, <2>1, UnpublishedTyped DEF PublishClaims
    <2> QED
      BY <1>1, <2>2, WorkTyped DEF PublishClaims, GateTypeOK
  <1>2. CASE PublishRun
    <2>1. inv' \in Invocation
      BY <1>2, StageTyped, StateNames DEF PublishRun
    <2>2. manifests' \in [Runs -> Manifest \cup {None}]
      BY <1>2 DEF PublishRun, GateTypeOK
    <2> QED
      BY <1>2, <2>1, <2>2 DEF PublishRun, GateTypeOK, counts
  <1>3. CASE RefuseRun
    <2>1. inv' \in Invocation
      BY <1>3, UnpublishedTyped DEF RefuseRun
    <2> QED
      BY <1>3, <2>1, WorkTyped DEF RefuseRun, GateTypeOK
  <1>4. CASE SettleRun
    <2>1. inv' \in Invocation
      BY <1>4, UnpublishedTyped, StageTyped DEF SettleRun
    <2>2. settled' \subseteq Runs /\ troubles' \in Nat
      BY <1>4, TroubleTyped DEF SettleRun, GateTypeOK
    <2> QED
      BY <1>4, <2>1, <2>2 DEF SettleRun, GateTypeOK
  <1>5. CASE ReplaceCurrent
    <2>1. inv' \in Invocation
      BY <1>5, UnpublishedTyped, StageTyped DEF ReplaceCurrent
    <2>2. current' \in Runs \cup {0} /\ troubles' \in Nat
      BY <1>5, TroubleTyped DEF ReplaceCurrent, GateTypeOK
    <2> QED
      BY <1>5, <2>1, <2>2 DEF ReplaceCurrent, GateTypeOK
  <1>6. CASE SyncCurrent
    <2>1. inv.draft \in Manifest /\ inv.draft.result \in Verdicts
      BY <1>6 DEF SyncCurrent, Manifest
    <2>2. inv' \in Invocation
      <3>1. [inv EXCEPT !.stage = "returning", !.result = inv.draft.result] \in Invocation
        BY <2>1, StageTyped
      <3> QED
        BY <1>6, <3>1, UnpublishedTyped DEF SyncCurrent
    <2>3. synced' \in Runs \cup {0} /\ troubles' \in Nat
      BY <1>6, TroubleTyped DEF SyncCurrent, GateTypeOK
    <2> QED
      BY <1>6, <2>2, <2>3 DEF SyncCurrent, GateTypeOK
  <1> QED
    BY <1>1, <1>2, <1>3, <1>4, <1>5, <1>6 DEF Publish

LEMMA AnswerTyped == ASSUME NEW i \in Invocation PROVE Answer(i) \in Verdicts
BY StateNames DEF Answer, Invocation

LEMMA ReturnTyped == ASSUME GateTypeOK, Return, UNCHANGED gate PROVE GateTypeOK'
  <1>1. inv \in Invocation /\ owner \in Runs \cup {0}
    BY DEF GateTypeOK
  <1>2. returned'.run \in Runs \cup {0} /\ returned'.result \in Verdicts
    BY <1>1, AnswerTyped, FailedTyped DEF Return
  <1>3. inv' \in Invocation /\ owner' \in Runs \cup {0} /\ troubles' \in Nat
    BY <1>1, IdleTyped, TroubleTyped DEF Return
  <1> QED
    BY <1>2, <1>3 DEF Return, GateTypeOK, disk

LEMMA CrashTyped == ASSUME GateTypeOK, Crash, UNCHANGED gate PROVE GateTypeOK'
  <1>1. PICK power \in BOOLEAN, lost \in SUBSET (Runs \ settled), stays \in {current, synced} :
          /\ ~power => lost = {} /\ stays = current
          /\ current' = stays
          /\ synced' = IF power THEN stays ELSE synced
          /\ manifests' = [r \in Runs |-> IF r \in lost THEN None ELSE manifests[r]]
    BY DEF Crash
  <1>2. current' \in Runs \cup {0} /\ synced' \in Runs \cup {0} /\ manifests' \in [Runs -> Manifest \cup {None}]
    BY <1>1 DEF GateTypeOK
  <1>3. PICK commits \in SUBSET pending :
          pending' = (pending \ commits) \cup {[q EXCEPT !.committed = TRUE] : q \in commits}
    BY DEF Crash
  <1>4. pending \subseteq Pending /\ \A q \in pending : [q EXCEPT !.committed = TRUE] \in Pending
    BY PendingTyped DEF GateTypeOK
  <1>5. pending' \subseteq Pending
    BY <1>3, <1>4
  <1> QED
    BY <1>2, <1>5, IdleTyped, TroubleTyped DEF Crash, GateTypeOK

LEMMA RecoverTyped == ASSUME GateTypeOK, NEW q \in pending, Recover(q), UNCHANGED gate PROVE GateTypeOK'
  <1>1. history \in Seq(Event) /\ q \in Pending /\ owner \in Runs \cup {0}
    BY DEF GateTypeOK
  <1>2. [kind |-> "indeterminate", key |-> q.key, attempt |-> q.attempt, member |-> q.member,
         result |-> "ERROR", backed |-> FALSE, run |-> owner] \in Event
    BY <1>1, PendingTyped DEF Event, Kinds, Results
  <1>3. history' \in Seq(Event)
    BY <1>1, <1>2, AppendTyped DEF Recover
  <1> QED
    BY <1>3 DEF Recover, GateTypeOK, disk, counts

LEMMA BetweenTyped == ASSUME GateTypeOK, Retire \/ Edit, UNCHANGED gate PROVE GateTypeOK'
BY DEF Retire, Edit, GateTypeOK, disk, counts

\* What the gate concludes.
LEMMA BarredTyped ==
    ASSUME NEW h, NEW attempt, NEW m, NEW otherwise \in States
    PROVE  Barred(h, attempt, m, otherwise) \in States
BY StateNames DEF Barred

\* The steps of the gate keep the types.
LEMMA GateSlotTyped ==
    ASSUME NEW g \in Manifest, NEW h, NEW m \in Members, NEW now
    PROVE  GateSlot(g, h, m, now) \in States
  <1>1. g.slots[m].state \in States /\ "MISSING" \in States
    BY StateNames DEF Manifest, Assessment
  <1>2. Barred(h, g.slots[m].execution, m, g.slots[m].state) \in States
    BY <1>1, BarredTyped
  <1>3. Barred(h, g.slots[m].execution, m, "MISSING") \in States
    BY <1>1, BarredTyped
  <1> QED
    BY <1>2, <1>3, StateNames DEF GateSlot

LEMMA GateTyped ==
    ASSUME GateTypeOK, gate.at = "assessed" => gate.manifest \in Manifest, gate.at = "loaded" => gate.manifest \in Manifest,
           GateRead \/ GateAssess \/ GateFinish
    PROVE  GateTypeOK'
  <1> gate \in Gate /\ history \in Seq(Event) /\ Len(history) \in Nat
    BY DEF GateTypeOK
  <1>0. UNCHANGED vars
    BY DEF GateRead, GateAssess, GateFinish
  <1>1. CASE GateRead
    <2>1. manifests[current] \in Manifest \cup {None} /\ current \in Runs \cup {0}
      BY <1>1 DEF GateRead, GateTypeOK
    <2>2. NoGate \in Gate
      BY StateNames DEF NoGate, Gate, GateVerdicts
    <2>3. gate' \in Gate
      BY <1>1, <2>1, <2>2 DEF GateRead, Gate
    <2> QED
      BY <1>0, <2>3 DEF GateTypeOK, vars, disk, counts
  <1>2. CASE GateAssess
    <2> DEFINE states == [m \in Members |-> GateSlot(gate.manifest, history, m, inputs)]
               rows == [c \in Claims |-> Row(states, c)]
               errors == Unaccounted \/ \E m \in Members :
                                 Contradicts(gate.manifest, history, m, inputs)
    <2>1. states \in [Members -> States]
      BY <1>2, GateSlotTyped DEF GateAssess
    <2>2. rows \in [Claims -> {"PASS", "FAIL", "INCOMPLETE"}]
      <3> HIDE DEF states
      <3> QED
        BY DEF Row
    <2>3. errors \in BOOLEAN /\ inputs \in Versions
      BY DEF GateTypeOK
    <2>4. gate' = [gate EXCEPT !.at = "assessed", !.inputs = inputs, !.seen = Len(history),
                               !.states = states, !.rows = rows, !.errors = errors]
      BY <1>2 DEF GateAssess
    <2>5. gate' \in Gate
      <3> HIDE DEF states, rows, errors
      <3> QED
        BY <2>1, <2>2, <2>3, <2>4 DEF Gate
    <2> QED
      BY <1>0, <2>5 DEF GateTypeOK, vars, disk, counts
  <1>3. CASE GateFinish
    <2> DEFINE g == gate.manifest
               grown == Len(history) # gate.seen
               states == [m \in Members |-> IF grown THEN Later(g, history, m, gate.states[m]) ELSE gate.states[m]]
               latest == [c \in Claims |-> IF grown THEN LaterRow(states, c, gate.rows[c]) ELSE gate.rows[c]]
               rows == [c \in Claims |->
                          IF latest[c] = "PASS" /\ \E d \in DependsOn[c] : latest[d] # "PASS"
                          THEN "INCOMPLETE" ELSE latest[c]]
               errors == gate.errors \/ Unaccounted
               verdict == IF inputs # gate.inputs
                          THEN (IF \E c \in Required : rows[c] = "FAIL" THEN "FAILED" ELSE "ERROR")
                          ELSE VerdictOf(rows, errors, g)
    <2>1. gate.states \in [Members -> States] /\ gate.rows \in [Claims -> {"PASS", "FAIL", "INCOMPLETE"}]
      BY DEF Gate
    <2>2. ASSUME NEW m \in Members PROVE Later(g, history, m, gate.states[m]) \in States
      <3>1. (IF gate.states[m] = "PASS" /\ ~GateEligible(history, g.slots[m].execution, m)
             THEN "MISSING" ELSE gate.states[m]) \in States
        BY <2>1, StateNames
      <3> QED
        BY <3>1, BarredTyped DEF Later
    <2>3. states \in [Members -> States]
      BY <2>1, <2>2
    <2>4. latest \in [Claims -> {"PASS", "FAIL", "INCOMPLETE"}]
      <3> HIDE DEF states, grown
      <3> QED
        BY <2>1 DEF LaterRow
    <2>5. rows \in [Claims -> {"PASS", "FAIL", "INCOMPLETE"}]
      <3> HIDE DEF latest
      <3> QED
        BY <2>4
    <2>6. errors \in BOOLEAN /\ verdict \in GateVerdicts
      <3> HIDE DEF rows
      <3> QED
        BY DEF VerdictOf, GateVerdicts, Gate
    <2>7. gate' = [gate EXCEPT !.at = "done", !.seen = Len(history), !.states = states, !.rows = rows,
                               !.errors = errors, !.verdict = verdict]
      BY <1>3 DEF GateFinish
    <2>8. gate' \in Gate
      <3> HIDE DEF states, rows, errors, verdict
      <3> QED
        BY <2>3, <2>5, <2>6, <2>7 DEF Gate
    <2> QED
      BY <1>0, <2>8 DEF GateTypeOK, vars, disk, counts
  <1> QED
    BY <1>1, <1>2, <1>3

------------------------------------------------------------------------------
(* The pointer.                                                            *)

\* The updates of an invocation leave its stage, its draft and its other parts alone.
LEMMA FailedFacts ==
    ASSUME NEW i \in Invocation
    PROVE  /\ Failed(i).stage = i.stage /\ Failed(i).assess = i.assess /\ Failed(i).aim = i.aim
           /\ Failed(i).work = i.work /\ Failed(i).captured = i.captured
BY DEF Failed, Invocation

LEMMA FailedByFacts ==
    ASSUME NEW i \in Invocation, NEW cancellation
    PROVE  /\ FailedBy(i, cancellation).stage = i.stage /\ FailedBy(i, cancellation).assess = i.assess
           /\ FailedBy(i, cancellation).aim = i.aim /\ FailedBy(i, cancellation).work = i.work
           /\ FailedBy(i, cancellation).captured = i.captured
BY DEF FailedBy, Failed, Invocation

LEMMA FailedOperational == ASSUME NEW i \in Invocation PROVE Failed(i).operational
BY DEF Failed, Invocation

LEMMA LeaveFacts ==
    ASSUME NEW i \in Invocation, NEW p \in Physicals
    PROVE  /\ Leave(i, p).stage = i.stage /\ Leave(i, p).assess = i.assess /\ Leave(i, p).aim = i.aim
           /\ Leave(i, p).work = [i.work EXCEPT ![p] = "done"] /\ Leave(i, p).captured = i.captured
BY DEF Leave, Invocation

LEMMA NotedFacts ==
    ASSUME NEW i \in Invocation, NEW r
    PROVE  /\ Noted(i, r).stage = i.stage /\ Noted(i, r).assess = i.assess /\ Noted(i, r).aim = i.aim
           /\ Noted(i, r).work = i.work /\ Noted(i, r).captured = i.captured
BY DEF Noted, Failed, Invocation

LEMMA AbandonedFacts ==
    ASSUME NEW i \in Invocation, NEW m \in Members
    PROVE  /\ Abandoned(i, m).stage = i.stage /\ Abandoned(i, m).assess = i.assess
           /\ Abandoned(i, m).work = i.work /\ Abandoned(i, m).captured = i.captured
           /\ \A n \in Members : Abandoned(i, m).aim[n] \in {0, i.aim[n]}
BY DEF Abandoned, Invocation

LEMMA ExecutedFacts ==
    ASSUME NEW i \in Invocation, NEW p \in Physicals, NEW attempt, NEW r
    PROVE  /\ Executed(i, p, attempt, r).stage = i.stage /\ Executed(i, p, attempt, r).work = i.work
           /\ Executed(i, p, attempt, r).captured = i.captured
           /\ \A m \in Members \ MembersOf[p] :
                 /\ Executed(i, p, attempt, r).assess[m] = i.assess[m]
                 /\ Executed(i, p, attempt, r).aim[m] = i.aim[m]
           /\ \A m \in Members \cap MembersOf[p] :
                 /\ Executed(i, p, attempt, r).assess[m].execution = attempt
                 /\ Executed(i, p, attempt, r).aim[m] \in {attempt, i.aim[m]}
  <1>1. i.assess \in [Members -> Assessment] /\ i.aim \in [Members -> Nat]
    BY DEF Invocation
  <1> DEFINE assess == [m \in Members |-> IF m \in MembersOf[p]
                 THEN [i.assess[m] EXCEPT !.execution = attempt,
                                          !.state = IF r = "PASS" THEN "MISSING" ELSE r]
                 ELSE i.assess[m]]
             aim == [m \in Members |-> IF m \in MembersOf[p] /\ r = "PASS" THEN attempt ELSE i.aim[m]]
  <1>2. \A m \in Members \cap MembersOf[p] : assess[m].execution = attempt
    BY <1>1 DEF Assessment
  <1>3. Executed(i, p, attempt, r) = [i EXCEPT !.assess = assess, !.aim = aim]
    BY DEF Executed
  <1>4. \A m \in Members \ MembersOf[p] : assess[m] = i.assess[m] /\ aim[m] = i.aim[m]
    OBVIOUS
  <1>5. \A m \in Members : aim[m] \in {attempt, i.aim[m]}
    OBVIOUS
  <1> HIDE DEF assess, aim
  <1>6. /\ Executed(i, p, attempt, r).stage = i.stage /\ Executed(i, p, attempt, r).work = i.work
        /\ Executed(i, p, attempt, r).captured = i.captured
        /\ Executed(i, p, attempt, r).assess = assess /\ Executed(i, p, attempt, r).aim = aim
    BY <1>3 DEF Invocation
  <1> QED
    BY <1>2, <1>4, <1>5, <1>6

\* Workers and observers neither leave the schedule nor touch what is published.
LEMMA WorkScheduled ==
    ASSUME GateTypeOK, (\E p \in Physicals : Worker(p)) \/ (\E m \in Members : Observer(m))
    PROVE  /\ inv.stage = "schedule" /\ inv'.stage = "schedule" /\ inv'.captured = inv.captured
           /\ UNCHANGED <<owner, disk, inputs, returned, begun>>
  <1> inv \in Invocation
    BY DEF GateTypeOK
  <1>1. ASSUME NEW p \in Physicals, Worker(p)
        PROVE  /\ inv.stage = "schedule" /\ inv'.stage = "schedule" /\ inv'.captured = inv.captured
               /\ UNCHANGED <<owner, disk, inputs, returned, begun>>
    <2>1. CASE Admit(p)
      BY <2>1 DEF Admit, At, Invocation, counts
    <2>2. CASE Hit(p)
      <3>1. Leave(inv, p) \in Invocation /\ Leave(inv, p).stage = inv.stage /\ Leave(inv, p).captured = inv.captured
        BY LeaveTyped, LeaveFacts
      <3>2. \A a : /\ [Leave(inv, p) EXCEPT !.aim = a].stage = inv.stage
                   /\ [Leave(inv, p) EXCEPT !.aim = a].captured = inv.captured
        BY <3>1 DEF Invocation
      <3> QED
        BY <2>2, <3>2 DEF Hit, At, counts
    <2>3. CASE Dispatch(p)
      BY <2>3 DEF Dispatch, At, Invocation
    <2>4. CASE NotDispatched(p)
      <3>1. Leave(inv, p) \in Invocation /\ Leave(inv, p).stage = inv.stage /\ Leave(inv, p).captured = inv.captured
        BY LeaveTyped, LeaveFacts
      <3>2. Failed(Leave(inv, p)).stage = inv.stage /\ Failed(Leave(inv, p)).captured = inv.captured
        BY <3>1, FailedFacts
      <3> QED
        BY <2>4, <3>1, <3>2 DEF NotDispatched, At
    <2>5. CASE ExecutionRecorded(p)
      <3>1. PICK q \in pending, r \in Results :
               inv' = Noted(Executed(Leave(inv, p), p, q.attempt, r), r)
        BY <2>5 DEF ExecutionRecorded
      <3>2. q.attempt \in Nat
        BY DEF GateTypeOK, Pending
      <3>3. Leave(inv, p) \in Invocation /\ Executed(Leave(inv, p), p, q.attempt, r) \in Invocation
        BY <3>2, LeaveTyped, ExecutedTyped
      <3> DEFINE done == Executed(Leave(inv, p), p, q.attempt, r)
      <3>5. done.stage = inv.stage /\ done.captured = inv.captured
        <4>1. Leave(inv, p).stage = inv.stage /\ Leave(inv, p).captured = inv.captured
          BY LeaveFacts
        <4>2. done.stage = Leave(inv, p).stage /\ done.captured = Leave(inv, p).captured
          BY <3>3, ExecutedFacts
        <4> QED
          BY <4>1, <4>2
      <3>6. Noted(done, r).stage = done.stage /\ Noted(done, r).captured = done.captured
        BY <3>3, NotedFacts
      <3>4. inv'.stage = inv.stage /\ inv'.captured = inv.captured
        BY <3>1, <3>5, <3>6
      <3> QED
        BY <2>5, <3>4 DEF ExecutionRecorded, Running, At
    <2>6. CASE ExecutionThrows(p)
      <3>1. Leave(inv, p) \in Invocation /\ Leave(inv, p).stage = inv.stage /\ Leave(inv, p).captured = inv.captured
        BY LeaveTyped, LeaveFacts
      <3>2. \A b : /\ FailedBy(Leave(inv, p), b).stage = inv.stage
                   /\ FailedBy(Leave(inv, p), b).captured = inv.captured
        BY <3>1, FailedByFacts
      <3> QED
        BY <2>6, <3>2 DEF ExecutionThrows, Running, At
    <2>7. CASE CheckpointThrows(p)
      <3>1. Failed(Leave(inv, p)) \in Invocation
        BY LeaveTyped, FailedTyped
      <3>2. \A a : /\ [Failed(Leave(inv, p)) EXCEPT !.assess = a].stage = Failed(Leave(inv, p)).stage
                   /\ [Failed(Leave(inv, p)) EXCEPT !.assess = a].captured = Failed(Leave(inv, p)).captured
        BY <3>1 DEF Invocation
      <3>3. Failed(Leave(inv, p)).stage = inv.stage /\ Failed(Leave(inv, p)).captured = inv.captured
        <4>1. Leave(inv, p) \in Invocation /\ Leave(inv, p).stage = inv.stage /\ Leave(inv, p).captured = inv.captured
          BY LeaveTyped, LeaveFacts
        <4> QED
          BY <4>1, FailedFacts
      <3> QED
        BY <2>7, <3>2, <3>3 DEF CheckpointThrows, Running, At
    <2> QED
      BY <1>1, <2>1, <2>2, <2>3, <2>4, <2>5, <2>6, <2>7 DEF Worker
  <1>2. ASSUME NEW m \in Members, Observer(m)
        PROVE  /\ inv.stage = "schedule" /\ inv'.stage = "schedule" /\ inv'.captured = inv.captured
               /\ UNCHANGED <<owner, disk, inputs, returned, begun>>
    <2>1. CASE BeginObservation(m)
      BY <2>1 DEF BeginObservation, MayObserve, Invocation, counts
    <2>2. CASE ObservationNotBegun(m)
      <3>1. PICK cancellation :
               inv' = [Abandoned(FailedBy(inv, cancellation), m) EXCEPT
                       !.assess[m].execution = inv.aim[m],
                       !.assess[m].state = IF cancellation THEN "CANCELLED" ELSE "ERROR",
                       !.aborted = inv.aborted \/ ~cancellation]
        BY <2>2 DEF ObservationNotBegun
      <3>2. Abandoned(FailedBy(inv, cancellation), m) \in Invocation
        BY AbandonedTyped, FailedTyped
      <3>4. /\ Abandoned(FailedBy(inv, cancellation), m).stage = inv.stage
            /\ Abandoned(FailedBy(inv, cancellation), m).captured = inv.captured
        BY FailedTyped, FailedByFacts, AbandonedFacts
      <3>3. inv'.stage = inv.stage /\ inv'.captured = inv.captured
        BY <3>1, <3>2, <3>4 DEF Invocation
      <3> QED
        BY <2>2, <3>3 DEF ObservationNotBegun, MayObserve
    <2>3. CASE ObservationRecorded(m)
      <3>1. PICK q \in pending, r \in Results, open \in BOOLEAN :
           /\ Watched(m, q) /\ MayResult(r)
           /\ inv.cancelled => r # "FAIL"
           /\ IF open THEN r = "ERROR" /\ Trouble ELSE UNCHANGED troubles
           /\ history' = Append(history, ObservationEvent(m, r))
           /\ pending' = (pending \ {q}) \cup
                 (IF open THEN {[q EXCEPT !.committed = TRUE, !.open = TRUE]} ELSE {})
           /\ inv' = [(IF open THEN Abandoned(Failed(inv), m) ELSE [Noted(inv, r) EXCEPT !.aim[m] = 0])
                        EXCEPT !.assess[m].state = r, !.assess[m].observation = Len(history) + 1,
                               !.aborted = inv.aborted \/ open]
           /\ UNCHANGED <<owner, disk, inputs, returned, begun, attempts, edits>>
        BY <2>3 DEF ObservationRecorded
      <3>2. Abandoned(Failed(inv), m) \in Invocation /\ Noted(inv, r) \in Invocation
        BY AbandonedTyped, FailedTyped, NotedTyped
      <3>3. /\ Abandoned(Failed(inv), m).stage = inv.stage /\ Noted(inv, r).stage = inv.stage
            /\ Abandoned(Failed(inv), m).captured = inv.captured /\ Noted(inv, r).captured = inv.captured
        BY FailedTyped, FailedFacts, AbandonedFacts, NotedFacts
      <3>4. inv'.stage = inv.stage /\ inv'.captured = inv.captured
        BY <3>1, <3>2, <3>3 DEF Invocation
      <3> QED
        BY <2>3, <3>4 DEF ObservationRecorded, Watched
    <2>4. CASE ObservationThrows(m)
      <3>1. PICK cancellation :
               inv' = [Abandoned(FailedBy(inv, cancellation), m) EXCEPT
                     !.assess[m].state = IF cancellation THEN "CANCELLED" ELSE "ERROR",
                     !.aborted = TRUE]
        BY <2>4 DEF ObservationThrows
      <3>2. Abandoned(FailedBy(inv, cancellation), m) \in Invocation
        BY AbandonedTyped, FailedTyped
      <3>4. /\ Abandoned(FailedBy(inv, cancellation), m).stage = inv.stage
            /\ Abandoned(FailedBy(inv, cancellation), m).captured = inv.captured
        BY FailedTyped, FailedByFacts, AbandonedFacts
      <3>3. inv'.stage = inv.stage /\ inv'.captured = inv.captured
        BY <3>1, <3>2, <3>4 DEF Invocation
      <3> QED
        BY <2>4, <3>3 DEF ObservationThrows, Watched
    <2> QED
      BY <1>2, <2>1, <2>2, <2>3, <2>4 DEF Observer
  <1> QED
    BY <1>1, <1>2

\* Runs are numbers.
LEMMA Numbers ==
    ASSUME GateTypeOK
    PROVE  /\ owner \in Nat /\ current \in Nat /\ synced \in Nat /\ returned.run \in Nat /\ begun \in Nat
           /\ settled \subseteq Nat
BY HistoryAssumption DEF GateTypeOK

\* An invocation that neither writes nor publishes leaves what is published alone.
LEMMA PointerEarly ==
    ASSUME GateTypeOK, PointerInv, UNCHANGED <<owner, disk, returned, begun>>,
           inv.stage \in Early, inv'.stage \in Early \ {"writing"}
    PROVE  PointerInv'
BY DEF PointerInv, Early, Live, AcknowledgedStays, disk

LEMMA PointerBegins == ASSUME GateTypeOK, PointerInv, Begin PROVE PointerInv'
  <1>1. inv'.stage = "preflight" /\ owner' = begun + 1 /\ begun' = begun + 1
    BY IdleTyped DEF Begin, Invocation
  <1>2. UNCHANGED <<disk, returned>>
    BY DEF Begin
  <1>3. \A r \in settled : r <= begun
    BY DEF PointerInv
  <1> QED
    BY <1>1, <1>2, <1>3, Numbers DEF PointerInv, Early, Live, AcknowledgedStays, disk

\* publish's catch, and an answer that is no PASS.
LEMMA PointerUnpublished ==
    ASSUME GateTypeOK, PointerInv, Live, inv' = Unpublished, UNCHANGED <<owner, disk, returned, begun>>
    PROVE  PointerInv'
  <1>1. inv'.stage = "returning" /\ inv'.result # "PASS"
    BY DEF Unpublished, Failed, GateTypeOK, Invocation
  <1> QED
    BY <1>1 DEF PointerInv, Early, Live, AcknowledgedStays, disk

\* The steps of publishRun and publishCurrent, in their order.
LEMMA PointerPublishes ==
    ASSUME GateTypeOK, PointerInv, Publish
    PROVE  PointerInv'
  <1> inv \in Invocation
    BY DEF GateTypeOK
  <1>0. inv.stage # "idle" => Live
    BY DEF Live
  <1>1. CASE PublishClaims
    <2>1. CASE inv' = Unpublished
      BY <1>0, <1>1, <2>1, PointerUnpublished DEF PublishClaims
    <2>2. CASE inv' = [inv EXCEPT !.stage = "writing", !.draft = ManifestOf(inv)]
      <3>1. inv'.stage = "writing" /\ inv'.draft \in Manifest
        BY <2>2, ManifestTyped DEF Invocation
      <3>2. inv.stage = "publishing" /\ UNCHANGED <<owner, disk, returned, begun>>
        BY <1>1 DEF PublishClaims
      <3> QED
        BY <3>1, <3>2 DEF PointerInv, Early, Live, AcknowledgedStays, disk
    <2> QED
      BY <1>1, <2>1, <2>2 DEF PublishClaims
  <1>2. CASE PublishRun
    <2>1. inv.stage = "writing" /\ inv'.stage = "settling" /\ inv'.draft = inv.draft
      BY <1>2 DEF PublishRun, Invocation
    <2>2. owner \notin settled /\ owner \in Runs /\ inv.draft \in Manifest
      BY <2>1 DEF PointerInv, Early, Live, GateTypeOK
    <2>3. manifests \in [Runs -> Manifest \cup {None}] /\ settled \subseteq Runs
      BY DEF GateTypeOK
    <2>4. manifests'[owner] = inv.draft /\ \A r \in settled : manifests'[r] = manifests[r]
      BY <1>2, <2>2, <2>3 DEF PublishRun
    <2>5. UNCHANGED <<owner, settled, current, synced, returned, begun>>
      BY <1>2 DEF PublishRun, counts
    <2> QED
      BY <2>1, <2>2, <2>4, <2>5 DEF PointerInv, Early, Live, AcknowledgedStays
  <1>3. CASE RefuseRun
    BY <1>0, <1>3, PointerUnpublished DEF RefuseRun
  <1>4. CASE SettleRun
    <2>1. CASE inv' = Unpublished /\ UNCHANGED settled
      BY <1>0, <1>4, <2>1, PointerUnpublished DEF SettleRun, disk
    <2>2. CASE settled' = settled \cup {owner} /\ inv' = [inv EXCEPT !.stage = "pointing"]
      <3>1. inv.stage = "settling" /\ inv'.stage = "pointing" /\ inv'.draft = inv.draft
        BY <1>4, <2>2 DEF SettleRun, Invocation
      <3>2. UNCHANGED <<owner, manifests, current, synced, returned, begun>>
        BY <1>4 DEF SettleRun
      <3>3. inv.draft \in Manifest /\ manifests[owner] = inv.draft /\ owner = begun
        BY <3>1 DEF PointerInv, Live
      <3> QED
        BY <2>2, <3>1, <3>2, <3>3, NoneAssumption, Numbers DEF PointerInv, Early, Live, AcknowledgedStays
    <2> QED
      BY <1>4, <2>1, <2>2 DEF SettleRun
  <1>5. CASE ReplaceCurrent
    <2>1. CASE inv' = Unpublished /\ UNCHANGED current
      BY <1>0, <1>5, <2>1, PointerUnpublished DEF ReplaceCurrent, disk
    <2>2. CASE current' = owner /\ inv' = [inv EXCEPT !.stage = "replaced"]
      <3>1. inv.stage = "pointing" /\ inv'.stage = "replaced" /\ inv'.draft = inv.draft
        BY <1>5, <2>2 DEF ReplaceCurrent, Invocation
      <3>2. UNCHANGED <<owner, manifests, settled, synced, returned, begun>>
        BY <1>5 DEF ReplaceCurrent
      <3>3. owner = begun
        BY <3>1 DEF PointerInv, Live
      <3> QED
        BY <2>2, <3>1, <3>2, <3>3, Numbers DEF PointerInv, Early, Live, AcknowledgedStays
    <2> QED
      BY <1>5, <2>1, <2>2 DEF ReplaceCurrent
  <1>6. CASE SyncCurrent
    <2>1. CASE inv' = Unpublished /\ UNCHANGED synced
      BY <1>0, <1>6, <2>1, PointerUnpublished DEF SyncCurrent, disk
    <2>2. CASE synced' = owner /\ inv' = [inv EXCEPT !.stage = "returning", !.result = inv.draft.result]
      <3>1. inv.stage = "replaced" /\ inv'.stage = "returning" /\ inv'.result = inv.draft.result
        BY <1>6, <2>2 DEF SyncCurrent, Invocation
      <3>2. UNCHANGED <<owner, manifests, settled, current, returned, begun>>
        BY <1>6 DEF SyncCurrent
      <3>3. owner = begun /\ current = owner /\ owner \in settled /\ manifests[owner] = inv.draft
        BY <3>1 DEF PointerInv, Live
      <3> QED
        BY <2>2, <3>1, <3>2, <3>3, Numbers DEF PointerInv, Early, Live, AcknowledgedStays
    <2> QED
      BY <1>6, <2>1, <2>2 DEF SyncCurrent
  <1> QED
    BY <1>1, <1>2, <1>3, <1>4, <1>5, <1>6 DEF Publish

\* run answers PASS only for a published PASS, and never when finishing failed.
LEMMA AnswerPasses ==
    ASSUME NEW i \in Invocation
    PROVE  /\ Answer(i) = "PASS" => i.result = "PASS"
           /\ Answer(Failed(i)) # "PASS"
  <1>1. Answer(i) = "PASS" => i.result = "PASS"
    BY DEF Answer
  <1>2. Failed(i).operational /\ Failed(i).result = i.result
    BY DEF Failed, Invocation
  <1> QED
    BY <1>1, <1>2 DEF Answer

LEMMA PointerReturns == ASSUME GateTypeOK, PointerInv, Return PROVE PointerInv'
  <1> inv \in Invocation
    BY DEF GateTypeOK
  <1>1. inv.stage = "returning" /\ inv'.stage = "idle" /\ UNCHANGED <<disk, begun>>
    BY DEF Return, Idle
  <1>2. /\ owner' \in {0, owner}
        /\ returned'.run = owner
        /\ returned'.result = "PASS" => inv.result = "PASS"
    BY AnswerPasses DEF Return
  <1>3. owner = begun
    BY <1>1 DEF PointerInv, Live
  <1> QED
    BY <1>1, <1>2, <1>3, Numbers, NoneAssumption DEF PointerInv, Early, Live, AcknowledgedStays, disk

\* A power loss takes the pointer back to a durable run at most.
LEMMA PointerCrashes == ASSUME GateTypeOK, PointerInv, Crash PROVE PointerInv'
  <1>1. inv'.stage = "idle" /\ UNCHANGED <<owner, settled, returned, begun>>
    BY DEF Crash, Idle
  <1>2. PICK power \in BOOLEAN, lost \in SUBSET (Runs \ settled), stays \in {current, synced} :
          /\ ~power => lost = {} /\ stays = current
          /\ current' = stays
          /\ synced' = IF power THEN stays ELSE synced
          /\ manifests' = [r \in Runs |-> IF r \in lost THEN None ELSE manifests[r]]
    BY DEF Crash
  <1>3. \A r \in settled : manifests'[r] = manifests[r]
    BY <1>2 DEF GateTypeOK
  <1>4. current' \in {current, synced} /\ synced' \in {current, synced} /\ synced' <= current'
    BY <1>2, Numbers DEF PointerInv
  <1>5. synced <= current
    BY DEF PointerInv
  <1> QED
    BY <1>1, <1>3, <1>4, <1>5, Numbers DEF PointerInv, Early, Live, AcknowledgedStays

LEMMA PointerBetween ==
    ASSUME GateTypeOK, PointerInv, (\E q \in pending : Recover(q)) \/ Retire \/ Edit
    PROVE  PointerInv'
  <1>1. inv.stage = "idle" /\ UNCHANGED <<disk, inv, returned, begun>> /\ owner' \in {0, owner}
    BY DEF Recover, Retire, Edit, Live, counts
  <1> QED
    BY <1>1 DEF PointerInv, Early, Live, AcknowledgedStays, disk

LEMMA CancelFacts ==
    ASSUME GateTypeOK, Cancel
    PROVE  /\ Live /\ inv'.stage = inv.stage /\ inv'.draft = inv.draft /\ inv'.captured = inv.captured
           /\ inv'.assess = inv.assess /\ inv'.aim = inv.aim /\ inv'.work = inv.work
           /\ inv'.result = inv.result /\ inv'.operational = inv.operational
           /\ UNCHANGED <<history, pending, owner, disk, inputs, returned, begun, attempts>>
BY DEF Cancel, GateTypeOK, Invocation

LEMMA PointerCancels == ASSUME GateTypeOK, PointerInv, Cancel PROVE PointerInv'
BY CancelFacts DEF PointerInv, Early, Live, AcknowledgedStays, disk

LEMMA PointerAssesses ==
    ASSUME GateTypeOK, PointerInv, PreflightPasses \/ PreflightFails \/ ScheduleEnds \/ FinalScan \/ Assess
    PROVE  PointerInv'
  <1> inv \in Invocation
    BY DEF GateTypeOK
  <1>1. CASE PreflightPasses
    <2>1. inv.stage = "preflight" /\ inv'.stage = "schedule" /\ UNCHANGED <<owner, disk, returned, begun>>
      BY <1>1 DEF PreflightPasses, Invocation, counts
    <2> QED
      BY <2>1, PointerEarly DEF Early
  <1>2. CASE PreflightFails
    <2>1. inv.stage = "preflight" /\ UNCHANGED <<owner, disk, returned, begun>>
      BY <1>2 DEF PreflightFails, counts
    <2>2. inv'.stage = "closing"
      <3>1. PICK read, n, cancellation :
            inv' = [FailedBy(inv, cancellation) EXCEPT
                       !.stage = "closing", !.described = n, !.halted = FALSE, !.resume = FALSE,
                       !.captured = IF read THEN Len(history) ELSE 0,
                       !.preflight = IF inv.cancelled THEN "CANCELLED" ELSE "ERROR"]
        BY <1>2 DEF PreflightFails
      <3> QED
        BY <3>1, FailedTyped DEF Invocation
    <2> QED
      BY <2>1, <2>2, PointerEarly DEF Early
  <1>3. CASE ScheduleEnds
    <2>1. inv.stage = "schedule" /\ inv'.stage = "closing" /\ UNCHANGED <<owner, disk, returned, begun>>
      BY <1>3 DEF ScheduleEnds, Invocation, counts
    <2> QED
      BY <2>1, PointerEarly DEF Early
  <1>4. CASE FinalScan
    <2>1. inv.stage = "closing" /\ UNCHANGED <<owner, disk, returned, begun>>
      BY <1>4 DEF FinalScan
    <2>2. inv'.stage = "assessing"
      BY <1>4 DEF FinalScan, Failed, Invocation
    <2> QED
      BY <2>1, <2>2, PointerEarly DEF Early
  <1>5. CASE Assess
    <2>1. PICK i \in {inv, Failed(inv)}, captured \in {Len(history), inv.captured},
               k \in Int, early \in SUBSET Members, lost \in SUBSET Members :
               AssessesAs(i, captured, k, early, lost)
      BY <1>5, AssessFacts
    <2>2. i \in Invocation
      BY FailedTyped
    <2>3. inv'.stage = "publishing"
      BY <2>1, <2>2 DEF AssessesAs, Invocation
    <2>4. inv.stage = "assessing" /\ UNCHANGED <<owner, disk, returned, begun>>
      BY <1>5, AssessFacts
    <2> QED
      BY <2>3, <2>4, PointerEarly DEF Early
  <1> QED
    BY <1>1, <1>2, <1>3, <1>4, <1>5

\* Every step keeps the order of publication.
LEMMA PointerKept ==
    ASSUME GateTypeOK, PointerInv, Next
    PROVE  PointerInv'
  <1>1. ASSUME (\E p \in Physicals : Worker(p)) \/ (\E m \in Members : Observer(m)) PROVE PointerInv'
    BY <1>1, WorkScheduled, PointerEarly DEF Early
  <1> QED
    BY <1>1, PointerBegins, PointerAssesses, PointerCancels, PointerPublishes, PointerReturns,
       PointerCrashes, PointerBetween DEF Next

------------------------------------------------------------------------------
(* Attempts.                                                               *)

\* What an append leaves alone and what it adds.
LEMMA AppendFacts ==
    ASSUME NEW h \in Seq(Event), NEW e
    PROVE  /\ DOMAIN h \subseteq DOMAIN Append(h, e) /\ Len(Append(h, e)) = Len(h) + 1
           /\ DOMAIN Append(h, e) = DOMAIN h \cup {Len(h) + 1} /\ Len(h) + 1 \notin DOMAIN h
           /\ \A i \in DOMAIN h : Append(h, e)[i] = h[i]
           /\ Append(h, e)[Len(h) + 1] = e
  <1>1. DOMAIN h = 1 .. Len(h) /\ Len(h) \in Nat
    OBVIOUS
  <1>2. Len(Append(h, e)) = Len(h) + 1 /\ DOMAIN Append(h, e) = 1 .. (Len(h) + 1)
    OBVIOUS
  <1>3. 1 .. (Len(h) + 1) = (1 .. Len(h)) \cup {Len(h) + 1} /\ Len(h) + 1 \notin 1 .. Len(h)
    BY <1>1
  <1>4. \A i \in 1 .. Len(h) : Append(h, e)[i] = h[i]
    OBVIOUS
  <1>5. Append(h, e)[Len(h) + 1] = e
    OBVIOUS
  <1> QED
    BY <1>1, <1>2, <1>3, <1>4, <1>5

\* Nothing executed is forgotten.
LEMMA ExecutedStays ==
    ASSUME NEW h \in Seq(Event), NEW e, NEW key, NEW attempt, ExecutedOn(h, key, attempt)
    PROVE  ExecutedOn(Append(h, e), key, attempt)
  <1>1. PICK i \in DOMAIN h : h[i].kind = "execution" /\ h[i].key = key /\ h[i].attempt = attempt
    BY DEF ExecutedOn
  <1>2. i \in DOMAIN Append(h, e) /\ Append(h, e)[i] = h[i]
    BY AppendFacts
  <1> QED
    BY <1>1, <1>2 DEF ExecutedOn

\* Executions are there once appended, and only those.
LEMMA ExecutedAppended ==
    ASSUME NEW h \in Seq(Event), NEW e, e.kind = "execution"
    PROVE  ExecutedOn(Append(h, e), e.key, e.attempt)
  <1>1. Len(h) + 1 \in DOMAIN Append(h, e) /\ Append(h, e)[Len(h) + 1] = e
    BY AppendFacts
  <1> QED
    BY <1>1 DEF ExecutedOn

LEMMA ExecutedBefore ==
    ASSUME NEW h \in Seq(Event), NEW e, NEW key, NEW attempt, ExecutedOn(Append(h, e), key, attempt)
    PROVE  \/ ExecutedOn(h, key, attempt)
           \/ e.kind = "execution" /\ e.key = key /\ e.attempt = attempt
  <1>1. PICK i \in DOMAIN Append(h, e) : /\ Append(h, e)[i].kind = "execution"
                                        /\ Append(h, e)[i].key = key /\ Append(h, e)[i].attempt = attempt
    BY DEF ExecutedOn
  <1>2. CASE i \in DOMAIN h
    BY <1>1, <1>2, AppendFacts DEF ExecutedOn
  <1>3. CASE i = Len(h) + 1
    BY <1>1, <1>3, AppendFacts
  <1> QED
    BY <1>2, <1>3, AppendFacts

\* An event of a known attempt, with at most one execution each, keeps the shape.
LEMMA ShapedAppend ==
    ASSUME NEW h \in Seq(Event), NEW e, Shaped(h), e.attempt # 0,
           e.kind = "execution" => e.member = NoMember,
           e.kind = "observation" => e.member # NoMember /\ ExecutedOn(h, e.key, e.attempt),
           \A i \in DOMAIN h : h[i].attempt = e.attempt => h[i].key = e.key,
           e.kind = "execution" => ~ExecutedOn(h, e.key, e.attempt)
    PROVE  Shaped(Append(h, e))
  <1> DEFINE g == Append(h, e)
             n == Len(h) + 1
  <1>1. DOMAIN g = DOMAIN h \cup {n} /\ n \notin DOMAIN h /\ g[n] = e /\ \A i \in DOMAIN h : g[i] = h[i]
    BY AppendFacts
  <1>2. e.kind = "execution" => \A i \in DOMAIN h : ~(h[i].kind = "execution" /\ h[i].attempt = e.attempt)
    BY DEF ExecutedOn
  <1>0. \A i \in DOMAIN h : i < n
    OBVIOUS
  <1> HIDE DEF g, n
  <1>3. ASSUME NEW i \in DOMAIN g
        PROVE  /\ g[i].attempt # 0
               /\ g[i].kind = "execution" => g[i].member = NoMember
               /\ g[i].kind = "observation" =>
                     /\ g[i].member # NoMember
                     /\ \E j \in DOMAIN g : /\ j < i /\ g[j].kind = "execution"
                                            /\ g[j].attempt = g[i].attempt
    <2>1. CASE i \in DOMAIN h
      BY <1>1, <2>1 DEF Shaped
    <2>2. CASE i = n
      BY <1>0, <1>1, <2>2 DEF ExecutedOn
    <2> QED
      BY <1>1, <2>1, <2>2
  <1>4. ASSUME NEW i \in DOMAIN g, NEW j \in DOMAIN g
        PROVE  /\ g[i].attempt = g[j].attempt => g[i].key = g[j].key
               /\ g[i].kind = "execution" /\ g[j].kind = "execution" /\ g[i].attempt = g[j].attempt => i = j
    <2>1. CASE i \in DOMAIN h /\ j \in DOMAIN h
      BY <1>1, <2>1 DEF Shaped
    <2>2. CASE i \in DOMAIN h /\ j = n
      BY <1>1, <1>2, <2>2
    <2>3. CASE i = n /\ j \in DOMAIN h
      BY <1>1, <1>2, <2>3
    <2>4. CASE i = n /\ j = n
      BY <2>4
    <2> QED
      BY <1>1, <2>1, <2>2, <2>3, <2>4
  <1>5. Shaped(g)
    BY <1>3, <1>4 DEF Shaped
  <1> QED
    BY <1>5 DEF g

\* An attempt the store knows keeps its key.
LEMMA Known ==
    ASSUME AttemptInv, NEW e, <<e.attempt, e.key>> \in Bound
    PROVE  /\ e.attempt \in 1 .. attempts
           /\ \A i \in DOMAIN history : history[i].attempt = e.attempt => history[i].key = e.key
  <1>1. \A i \in DOMAIN history : <<history[i].attempt, history[i].key>> \in Bound
    BY DEF Bound
  <1>2. \A x, y \in Bound : x[1] = y[1] => x[2] = y[2]
    BY DEF AttemptInv
  <1>3. <<e.attempt, e.key>>[1] \in 1 .. attempts
    BY DEF AttemptInv
  <1> QED
    BY <1>1, <1>2, <1>3

\* A step of the schedule that appends at most one event, of an attempt it knows: an
\* execution that had none, by a worker that is running no longer, or an observation.
Fits(e) ==
    /\ <<e.attempt, e.key>> \in Bound
    /\ \/ /\ e.kind = "execution" /\ e.member = NoMember /\ ~ExecutedOn(history, e.key, e.attempt)
          /\ inv'.work[e.key[1]] # "running"
       \/ e.kind = "observation" /\ e.member # NoMember /\ ExecutedOn(history, e.key, e.attempt)

WorkStep ==
    /\ inv.stage = "schedule" /\ inv'.stage = "schedule" /\ UNCHANGED <<owner, inputs, attempts>>
    /\ history' = history \/ \E e : history' = Append(history, e) /\ Fits(e)
    /\ \A q \in pending' :
          \/ \E s \in pending : q.kind = s.kind /\ q.key = s.key /\ q.attempt = s.attempt
          \/ q.kind = "observation" /\ <<q.attempt, q.key>> \in Bound /\ q.key[2] = inputs
    /\ \A q \in pending' : q \in pending \/ q.kind = "observation" \/ inv'.work[q.key[1]] = "done"
    /\ \A p \in Physicals : \/ inv'.work[p] \in {inv.work[p], "done"}
                            \/ inv.work[p] = "queued" /\ inv'.work[p] = "admitted"
    /\ \A m \in Members :
          /\ inv'.aim[m] \in {0, inv.aim[m]} \/ ExecutedOn(history', KeyOfMember(m), inv'.aim[m])
          /\ \/ inv'.assess[m].execution \in {inv.assess[m].execution, inv.aim[m]}
             \/ ExecutedOn(history', KeyOfMember(m), inv'.assess[m].execution)

\* A step of a worker or an observer keeps the attempts in order.
LEMMA AttemptWork == ASSUME GateTypeOK, AttemptInv, owner # 0, WorkStep PROVE AttemptInv'
  <1>0. /\ inv.stage = "schedule" /\ inv'.stage = "schedule" /\ UNCHANGED <<owner, inputs, attempts>>
        /\ \A q \in pending' :
              \/ \E s \in pending : q.kind = s.kind /\ q.key = s.key /\ q.attempt = s.attempt
              \/ q.kind = "observation" /\ <<q.attempt, q.key>> \in Bound /\ q.key[2] = inputs
        /\ \A q \in pending' : q \in pending \/ q.kind = "observation" \/ inv'.work[q.key[1]] = "done"
        /\ \A p \in Physicals : \/ inv'.work[p] \in {inv.work[p], "done"}
                                \/ inv.work[p] = "queued" /\ inv'.work[p] = "admitted"
        /\ \A m \in Members :
              /\ inv'.aim[m] \in {0, inv.aim[m]} \/ ExecutedOn(history', KeyOfMember(m), inv'.aim[m])
              /\ \/ inv'.assess[m].execution \in {inv.assess[m].execution, inv.aim[m]}
                 \/ ExecutedOn(history', KeyOfMember(m), inv'.assess[m].execution)
    BY DEF WorkStep
  <1>00. PICK e : history' = history \/ (history' = Append(history, e) /\ Fits(e))
    BY DEF WorkStep
  <1> history \in Seq(Event) /\ Live /\ Live'
    BY <1>0 DEF GateTypeOK, Live
  <1>1. \A q \in pending' : <<q.attempt, q.key>> \in Bound
    BY <1>0 DEF Bound
  <1>2. Bound' \subseteq Bound
    <2>1. \A i \in DOMAIN history : <<history[i].attempt, history[i].key>> \in Bound
      BY DEF Bound
    <2>2. \A i \in DOMAIN history' : <<history'[i].attempt, history'[i].key>> \in Bound
      <3>1. CASE history' = history
        BY <2>1, <3>1
      <3>2. CASE history' = Append(history, e) /\ Fits(e)
        BY <2>1, <3>2, AppendFacts DEF Fits
      <3> QED
        BY <1>00, <3>1, <3>2
    <2>3. \A x \in Bound' : \/ \E i \in DOMAIN history' : x = <<history'[i].attempt, history'[i].key>>
                            \/ \E q \in pending' : x = <<q.attempt, q.key>>
      BY DEF Bound
    <2> QED
      BY <1>1, <2>2, <2>3
  <1>3. /\ \A x \in Bound' : x[1] \in 1 .. attempts'
        /\ \A x, y \in Bound' : x[1] = y[1] => x[2] = y[2]
    BY <1>0, <1>2 DEF AttemptInv
  <1>4. Shaped(history')
    <2>1. CASE history' = history
      BY <2>1 DEF AttemptInv
    <2>2. CASE history' = Append(history, e) /\ Fits(e)
      <3>1. Shaped(history) /\ attempts \in Nat
        BY DEF AttemptInv, GateTypeOK
      <3>2. e.attempt \in 1 .. attempts /\ \A i \in DOMAIN history : history[i].attempt = e.attempt => history[i].key = e.key
        BY <2>2, Known DEF Fits
      <3>3. e.attempt # 0
        BY <3>1, <3>2
      <3> QED
        BY <2>2, <3>1, <3>2, <3>3, ShapedAppend DEF Fits
    <2> QED
      BY <1>00, <2>1, <2>2
  <1>5. \A key, attempt : ExecutedOn(history, key, attempt) => ExecutedOn(history', key, attempt)
    BY <1>00, ExecutedStays
  <1>6. \A q \in pending' : q.key[2] = inputs'
    <2>1. \A s \in pending : s.key[2] = inputs
      BY DEF AttemptInv
    <2>2. inputs' = inputs
      BY <1>0
    <2> QED
      BY <1>0, <2>1, <2>2
  <1>7. ASSUME NEW q \in pending', q.kind = "execution"
        PROVE  /\ inv'.work[q.key[1]] \in {"running", "done"}
               /\ inv'.work[q.key[1]] = "running" => ~q.committed /\ ~ExecutedOn(history', q.key, q.attempt)
    <2>1. PICK s \in pending : q.kind = s.kind /\ q.key = s.key /\ q.attempt = s.attempt
      BY <1>0, <1>7
    <2>2. /\ inv.work[q.key[1]] \in {"running", "done"}
          /\ inv.work[q.key[1]] = "running" => ~ExecutedOn(history, q.key, q.attempt)
      BY <1>0, <1>7, <2>1 DEF AttemptInv
    <2>3. q.key[1] \in Physicals
      BY <2>1 DEF GateTypeOK, Pending, Keys
    <2>4. inv'.work[q.key[1]] \in {inv.work[q.key[1]], "done"}
      BY <1>0, <2>2, <2>3
    <2>5. ASSUME inv'.work[q.key[1]] = "running" PROVE ~ExecutedOn(history', q.key, q.attempt)
      <3>1. ~ExecutedOn(history, q.key, q.attempt)
        BY <2>2, <2>4, <2>5
      <3>2. CASE history' = history
        BY <3>1, <3>2
      <3>3. CASE history' = Append(history, e) /\ Fits(e)
        <4>1. ~(e.kind = "execution" /\ e.key = q.key)
          BY <2>5, <3>3 DEF Fits
        <4> QED
          BY <3>1, <3>3, <4>1, ExecutedBefore
      <3> QED
        BY <1>00, <3>2, <3>3
    <2>6. ASSUME inv'.work[q.key[1]] = "running" PROVE ~q.committed
      <3>1. q \in pending
        BY <1>0, <1>7, <2>6
      <3> QED
        BY <1>0, <1>7, <2>4, <2>6, <3>1 DEF AttemptInv
    <2> QED
      BY <2>2, <2>4, <2>5, <2>6
  <1>8. ASSUME NEW m \in Members
        PROVE  /\ inv'.aim[m] # 0 => ExecutedOn(history', KeyOfMember(m)', inv'.aim[m])
               /\ inv'.assess[m].execution # 0 => ExecutedOn(history', KeyOfMember(m)', inv'.assess[m].execution)
    <2>1. KeyOfMember(m)' = KeyOfMember(m)
      BY <1>0 DEF KeyOfMember, KeyOf
    <2>2. /\ inv.aim[m] # 0 => ExecutedOn(history, KeyOfMember(m), inv.aim[m])
          /\ inv.assess[m].execution # 0 => ExecutedOn(history, KeyOfMember(m), inv.assess[m].execution)
      BY DEF AttemptInv
    <2> QED
      BY <1>0, <1>5, <2>1, <2>2
  <1> QED
    BY <1>0, <1>3, <1>4, <1>6, <1>7, <1>8 DEF AttemptInv

\* The steps of a worker, one by one.
LEMMA AttemptAdmits ==
    ASSUME GateTypeOK, AttemptInv, owner # 0, NEW p \in Physicals, Admit(p) \/ Hit(p) \/ NotDispatched(p)
    PROVE  AttemptInv'
  <1> inv \in Invocation /\ history \in Seq(Event)
    BY DEF GateTypeOK
  <1>0. inv.work \in [Physicals -> Works] /\ inv.aim \in [Members -> Nat]
    BY DEF Invocation
  <1>1. CASE Admit(p)
    <2>1. /\ inv.stage = "schedule" /\ inv'.stage = "schedule" /\ inv'.aim = inv.aim
          /\ inv'.assess = inv.assess /\ inv.work[p] = "queued" /\ inv'.work = [inv.work EXCEPT ![p] = "admitted"]
      BY <1>1 DEF Admit, At, Invocation
    <2>2. UNCHANGED <<history, pending, owner, inputs, attempts>>
      BY <1>1 DEF Admit, counts
    <2>3. \A o \in Physicals : \/ inv'.work[o] \in {inv.work[o], "done"}
                               \/ inv.work[o] = "queued" /\ inv'.work[o] = "admitted"
      BY <1>0, <2>1
    <2> QED
      BY <2>1, <2>2, <2>3, AttemptWork DEF WorkStep
  <1>2. CASE Hit(p)
    <2>1. inv.stage = "schedule" /\ UNCHANGED <<history, pending, owner, inputs, attempts>>
      BY <1>2 DEF Hit, At, counts
    <2> DEFINE aimed == [m \in Members |->
                 IF m \in SelectedMembers(p) THEN history[Candidate(history, m)].attempt ELSE inv.aim[m]]
    <2>2. inv' = [Leave(inv, p) EXCEPT !.aim = aimed]
      BY <1>2 DEF Hit
    <2>3. /\ Leave(inv, p) \in Invocation /\ Leave(inv, p).assess = inv.assess
          /\ Leave(inv, p).stage = inv.stage /\ Leave(inv, p).work = [inv.work EXCEPT ![p] = "done"]
      BY LeaveTyped, LeaveFacts
    <2>4. ASSUME NEW m \in Members
          PROVE  aimed[m] = inv.aim[m] \/ ExecutedOn(history, KeyOfMember(m), aimed[m])
      <3>1. CASE m \in SelectedMembers(p)
        <4>1. p = PhysicalOf(m)
          BY <3>1, PhysicalFacts DEF SelectedMembers
        <4>2. HasCandidate(history, KeyOfMember(m), m)
          BY <3>1, <4>1, <1>2 DEF Hit, AllCandidates, KeyOfMember
        <4>3. /\ Candidate(history, m) \in DOMAIN history
              /\ Candidate(history, m) \in Eligible(history, KeyOfMember(m), m)
          BY <4>2, CandidateFacts
        <4>4. ExecutedOn(history, KeyOfMember(m), history[Candidate(history, m)].attempt)
          BY <4>3 DEF Eligible, ExecutedOn
        <4> QED
          BY <3>1, <4>4
      <3>2. CASE m \notin SelectedMembers(p)
        BY <3>2
      <3> QED
        BY <3>1, <3>2
    <2> HIDE DEF aimed
    <2>5. /\ inv'.stage = inv.stage /\ inv'.assess = inv.assess /\ inv'.aim = aimed
          /\ inv'.work = [inv.work EXCEPT ![p] = "done"]
      BY <2>2, <2>3 DEF Invocation
    <2>6. \A o \in Physicals : inv'.work[o] \in {inv.work[o], "done"}
      BY <1>0, <2>5
    <2>7. \A m \in Members :
              /\ inv'.aim[m] \in {0, inv.aim[m]} \/ ExecutedOn(history', KeyOfMember(m), inv'.aim[m])
              /\ inv'.assess[m].execution \in {inv.assess[m].execution, inv.aim[m]}
      BY <2>1, <2>4, <2>5
    <2> QED
      BY <2>1, <2>5, <2>6, <2>7, AttemptWork DEF WorkStep
  <1>3. CASE NotDispatched(p)
    <2>1. inv.stage = "schedule" /\ UNCHANGED <<history, pending, owner, inputs, attempts>>
      BY <1>3 DEF NotDispatched, At
    <2>2. /\ Leave(inv, p) \in Invocation /\ Leave(inv, p).assess = inv.assess /\ Leave(inv, p).aim = inv.aim
          /\ Leave(inv, p).stage = inv.stage /\ Leave(inv, p).work = [inv.work EXCEPT ![p] = "done"]
      BY LeaveTyped, LeaveFacts
    <2>3. /\ inv'.stage = inv.stage /\ inv'.assess = inv.assess /\ inv'.aim = inv.aim
          /\ inv'.work = [inv.work EXCEPT ![p] = "done"]
      BY <1>3, <2>2, FailedFacts DEF NotDispatched
    <2>4. \A o \in Physicals : inv'.work[o] \in {inv.work[o], "done"}
      BY <1>0, <2>3
    <2> QED
      BY <2>1, <2>3, <2>4, AttemptWork DEF WorkStep
  <1> QED
    BY <1>1, <1>2, <1>3

LEMMA AttemptDispatches ==
    ASSUME GateTypeOK, AttemptInv, owner # 0, NEW p \in Physicals, Dispatch(p)
    PROVE  AttemptInv'
  <1> inv \in Invocation /\ history \in Seq(Event) /\ attempts \in Nat /\ pending \subseteq Pending
    BY DEF GateTypeOK
  <1> DEFINE new == [kind |-> "execution", key |-> KeyOf(p), attempt |-> attempts + 1,
                     member |-> NoMember, committed |-> FALSE, open |-> FALSE]
  <1>1. /\ inv.stage = "schedule" /\ inv'.stage = "schedule" /\ inv'.aim = inv.aim
        /\ inv'.assess = inv.assess /\ inv.work[p] = "admitted" /\ inv'.work = [inv.work EXCEPT ![p] = "running"]
        /\ UNCHANGED <<history, owner, inputs>> /\ attempts' = attempts + 1
    BY DEF Dispatch, At, Invocation
  <1>2. pending' = pending \cup {new}
    BY DEF Dispatch
  <1>3. new.kind = "execution" /\ new.key = KeyOf(p) /\ new.attempt = attempts + 1 /\ ~new.committed
    OBVIOUS
  <1> HIDE DEF new
  <1>4. Bound' = Bound \cup {<<attempts + 1, KeyOf(p)>>}
    BY <1>1, <1>2, <1>3 DEF Bound
  <1>5. \A x \in Bound : x[1] \in 1 .. attempts
    BY DEF AttemptInv
  <1>6. \A x \in Bound : x[1] \in 1 .. (attempts + 1) /\ x[1] # attempts + 1
    BY <1>5
  <1>7. /\ \A x \in Bound' : x[1] \in 1 .. attempts'
        /\ \A x, y \in Bound' : x[1] = y[1] => x[2] = y[2]
    BY <1>1, <1>4, <1>6 DEF AttemptInv
  <1>8. \A q \in pending' : q.key[2] = inputs'
    BY <1>1, <1>2, <1>3 DEF AttemptInv, Live, KeyOf
  <1>9. ~ExecutedOn(history, KeyOf(p), attempts + 1)
    <2>1. \A i \in DOMAIN history : <<history[i].attempt, history[i].key>> \in Bound
      BY DEF Bound
    <2> QED
      BY <1>6, <2>1 DEF ExecutedOn
  <1>10. ASSUME NEW q \in pending', q.kind = "execution"
         PROVE  /\ inv'.work[q.key[1]] \in {"running", "done"}
                /\ inv'.work[q.key[1]] = "running" => ~q.committed /\ ~ExecutedOn(history', q.key, q.attempt)
    <2>1. inv.work \in [Physicals -> Works]
      BY DEF Invocation
    <2>2. CASE q \in pending
      <3>1. /\ inv.work[q.key[1]] \in {"running", "done"}
            /\ inv.work[q.key[1]] = "running" => ~q.committed /\ ~ExecutedOn(history, q.key, q.attempt)
            /\ q.key[1] \in Physicals
        BY <1>1, <1>10, <2>2 DEF AttemptInv, Pending, Keys
      <3>2. q.key[1] # p
        BY <1>1, <3>1
      <3> QED
        BY <1>1, <2>1, <3>1, <3>2
    <2>3. CASE q = new
      <3>1. q.key = KeyOf(p) /\ q.attempt = attempts + 1 /\ KeyOf(p)[1] = p
        BY <1>3, <2>3 DEF KeyOf
      <3>2. inv'.work[p] = "running"
        BY <1>1, <2>1
      <3> QED
        BY <1>1, <1>3, <1>9, <2>3, <3>1, <3>2
    <2> QED
      BY <1>2, <2>2, <2>3
  <1>11. ASSUME NEW m \in Members
         PROVE  /\ inv'.aim[m] # 0 => ExecutedOn(history', KeyOfMember(m)', inv'.aim[m])
                /\ inv'.assess[m].execution # 0 => ExecutedOn(history', KeyOfMember(m)', inv'.assess[m].execution)
    BY <1>1 DEF AttemptInv, Live, KeyOfMember, KeyOf
  <1>12. Shaped(history')
    BY <1>1 DEF AttemptInv
  <1> QED
    BY <1>1, <1>7, <1>8, <1>10, <1>11, <1>12 DEF AttemptInv

\* recordExecution appends the one execution of its attempt.
LEMMA AttemptExecutes ==
    ASSUME GateTypeOK, AttemptInv, owner # 0, NEW p \in Physicals, ExecutionRecorded(p)
    PROVE  AttemptInv'
  <1> inv \in Invocation /\ history \in Seq(Event)
    BY DEF GateTypeOK
  <1>1. PICK q \in pending, r \in Results, open \in BOOLEAN :
        /\ Running(p, q) /\ MayResult(r)
        /\ IF open THEN r = "ERROR" /\ Trouble ELSE UNCHANGED troubles
        /\ history' = Append(history, ExecutionEvent(p, q.attempt, r, TRUE))
        /\ pending' = (pending \ {q}) \cup
              (IF open THEN {[q EXCEPT !.committed = TRUE, !.open = TRUE]} ELSE {})
        /\ inv' = Noted(Executed(Leave(inv, p), p, q.attempt, r), r)
        /\ UNCHANGED <<owner, disk, inputs, returned, begun, attempts, edits>>
    BY DEF ExecutionRecorded
  <1>2. q \in Pending /\ q.attempt \in Nat
    BY PendingTyped DEF GateTypeOK
  <1> DEFINE left == Leave(inv, p)
             done == Executed(left, p, q.attempt, r)
             e == ExecutionEvent(p, q.attempt, r, TRUE)
  <1>3. /\ left \in Invocation /\ left.stage = inv.stage /\ left.assess = inv.assess /\ left.aim = inv.aim
        /\ left.work = [inv.work EXCEPT ![p] = "done"]
    BY LeaveTyped, LeaveFacts
  <1>4. /\ done \in Invocation /\ done.stage = inv.stage /\ done.work = left.work
        /\ \A m \in Members \ MembersOf[p] : done.assess[m] = inv.assess[m] /\ done.aim[m] = inv.aim[m]
        /\ \A m \in Members \cap MembersOf[p] :
              done.assess[m].execution = q.attempt /\ done.aim[m] \in {q.attempt, inv.aim[m]}
    <2> HIDE DEF left
    <2>1. done \in Invocation
      BY <1>2, <1>3, ExecutedTyped
    <2>2. /\ done.stage = left.stage /\ done.work = left.work
          /\ \A m \in Members \ MembersOf[p] : done.assess[m] = left.assess[m] /\ done.aim[m] = left.aim[m]
          /\ \A m \in Members \cap MembersOf[p] :
                done.assess[m].execution = q.attempt /\ done.aim[m] \in {q.attempt, left.aim[m]}
      BY <1>3, ExecutedFacts
    <2> QED
      BY <1>3, <2>1, <2>2
  <1>5. /\ inv'.stage = done.stage /\ inv'.work = done.work /\ inv'.assess = done.assess /\ inv'.aim = done.aim
    BY <1>1, <1>4, NotedFacts
  <1>6. inv.stage = "schedule" /\ inv.work[p] = "running" /\ q.kind = "execution" /\ q.key[1] = p
    BY <1>1 DEF Running, At
  <1>7. q.key = KeyOf(p)
    <2>1. q.key[2] = inputs /\ q.key \in Keys
      BY <1>2, <1>6, PendingTyped DEF AttemptInv, Live
    <2> QED
      BY <1>6, <2>1 DEF KeyOf, Keys
  <1>8. e.kind = "execution" /\ e.key = q.key /\ e.attempt = q.attempt /\ e.member = NoMember
    BY <1>7 DEF ExecutionEvent
  <1>9. <<e.attempt, e.key>> \in Bound
    BY <1>8 DEF Bound
  <1>10. ~ExecutedOn(history, e.key, e.attempt)
    BY <1>6, <1>8 DEF AttemptInv
  <1>11. inv'.work = [inv.work EXCEPT ![p] = "done"] /\ inv.work \in [Physicals -> Works]
    BY <1>3, <1>4, <1>5 DEF Invocation
  <1>12. inv'.work[e.key[1]] # "running" /\ \A o \in Physicals : inv'.work[o] \in {inv.work[o], "done"}
    BY <1>6, <1>8, <1>11
  <1>13. \A s \in pending' : \E w \in pending : s.kind = w.kind /\ s.key = w.key /\ s.attempt = w.attempt
    <2>1. \A s \in pending' : s \in pending \/ s = [q EXCEPT !.committed = TRUE, !.open = TRUE]
      BY <1>1
    <2>2. ASSUME NEW s, s = [q EXCEPT !.committed = TRUE, !.open = TRUE]
          PROVE  s.kind = q.kind /\ s.key = q.key /\ s.attempt = q.attempt
      BY <1>2, <2>2 DEF Pending
    <2> QED
      BY <2>1, <2>2
  <1>20. \A s \in pending' : s \in pending \/ inv'.work[s.key[1]] = "done"
    <2>1. \A s \in pending' : s \in pending \/ s = [q EXCEPT !.committed = TRUE, !.open = TRUE]
      BY <1>1
    <2>2. ASSUME NEW s, s = [q EXCEPT !.committed = TRUE, !.open = TRUE]
          PROVE  s.key = q.key
      BY <1>2, <2>2 DEF Pending
    <2> QED
      BY <1>6, <1>11, <2>1, <2>2
  <1>14. history' = Append(history, e)
    BY <1>1
  <1>15. ExecutedOn(history', q.key, q.attempt)
    BY <1>8, <1>14, ExecutedAppended
  <1>16. ASSUME NEW m \in Members
         PROVE  /\ inv'.aim[m] \in {0, inv.aim[m]} \/ ExecutedOn(history', KeyOfMember(m), inv'.aim[m])
                /\ \/ inv'.assess[m].execution \in {inv.assess[m].execution, inv.aim[m]}
                   \/ ExecutedOn(history', KeyOfMember(m), inv'.assess[m].execution)
    <2>1. CASE m \in MembersOf[p]
      <3>1. KeyOfMember(m) = q.key
        BY <1>7, <2>1, PhysicalFacts DEF KeyOfMember
      <3>2. inv'.assess[m].execution = q.attempt /\ inv'.aim[m] \in {q.attempt, inv.aim[m]}
        BY <1>4, <1>5, <2>1
      <3> QED
        BY <1>15, <3>1, <3>2
    <2>2. CASE m \notin MembersOf[p]
      BY <1>4, <1>5, <2>2
    <2> QED
      BY <2>1, <2>2
  <1>17. inv'.stage = "schedule" /\ UNCHANGED <<owner, inputs, attempts>>
    BY <1>1, <1>4, <1>5, <1>6
  <1> HIDE DEF e, done, left
  <1>18. Fits(e)
    BY <1>8, <1>9, <1>10, <1>12 DEF Fits
  <1>19. WorkStep
    BY <1>6, <1>12, <1>13, <1>14, <1>16, <1>17, <1>18, <1>20 DEF WorkStep
  <1> QED
    BY <1>19, AttemptWork

\* A worker that throws leaves its pending result, which is still its attempt's only one.
LEMMA AttemptThrows ==
    ASSUME GateTypeOK, AttemptInv, owner # 0, NEW p \in Physicals, ExecutionThrows(p) \/ CheckpointThrows(p)
    PROVE  AttemptInv'
  <1> inv \in Invocation /\ history \in Seq(Event)
    BY DEF GateTypeOK
  <1>1. /\ Leave(inv, p) \in Invocation /\ Leave(inv, p).stage = inv.stage
        /\ Leave(inv, p).assess = inv.assess /\ Leave(inv, p).aim = inv.aim
        /\ Leave(inv, p).work = [inv.work EXCEPT ![p] = "done"]
    BY LeaveTyped, LeaveFacts
  <1>2. \E q \in pending, r \in Results, backed \in BOOLEAN :
           /\ Running(p, q)
           /\ history' \in {history, Append(history, ExecutionEvent(p, q.attempt, r, backed))}
           /\ \A s \in pending' : \E w \in pending : s.kind = w.kind /\ s.key = w.key /\ s.attempt = w.attempt
           /\ \A s \in pending' : s \in pending \/ s.key = q.key
           /\ inv'.stage = inv.stage /\ inv'.work = [inv.work EXCEPT ![p] = "done"] /\ inv'.aim = inv.aim
           /\ \A m \in Members : inv'.assess[m].execution = inv.assess[m].execution
           /\ UNCHANGED <<owner, inputs, attempts>>
    <2>1. CASE ExecutionThrows(p)
      <3>1. PICK q \in pending, cancellation \in {FALSE, inv.cancelled}, windows \in BOOLEAN :
        /\ Running(p, q) /\ (windows => pending # {q})
        /\ IF cancellation THEN UNCHANGED troubles ELSE Trouble
        /\ history' = Append(history, ExecutionEvent(p, q.attempt, IF cancellation THEN "CANCELLED"
                                                                   ELSE "ERROR", FALSE))
        /\ pending' = IF windows THEN pending ELSE pending \ {q}
        /\ inv' = FailedBy(Leave(inv, p), cancellation)
        /\ UNCHANGED <<owner, disk, inputs, returned, begun, attempts, edits>>
        BY <2>1 DEF ExecutionThrows
      <3>2. (IF cancellation THEN "CANCELLED" ELSE "ERROR") \in Results
        BY DEF Results
      <3>3. /\ inv'.stage = inv.stage /\ inv'.work = [inv.work EXCEPT ![p] = "done"] /\ inv'.aim = inv.aim
            /\ inv'.assess = inv.assess
        BY <1>1, <3>1, FailedByFacts
      <3>4. \A s \in pending' : \E w \in pending : s.kind = w.kind /\ s.key = w.key /\ s.attempt = w.attempt
        BY <3>1
      <3>5. \A s \in pending' : s \in pending
        BY <3>1
      <3> QED
        BY <3>1, <3>2, <3>3, <3>4, <3>5
    <2>2. CASE CheckpointThrows(p)
      <3>1. PICK q \in pending, r \in Results, reached \in {"staged", "committed", "logged"} :
        /\ Running(p, q) /\ MayResult(r) /\ Trouble
        /\ history' = IF reached = "logged" THEN Append(history, ExecutionEvent(p, q.attempt, r, TRUE))
                      ELSE history
        /\ pending' = (pending \ {q}) \cup {[q EXCEPT !.committed = reached # "staged"]}
        /\ inv' = [Failed(Leave(inv, p)) EXCEPT !.assess = [m \in Members |->
                     IF m \in MembersOf[p] /\ r # "PASS" THEN [inv.assess[m] EXCEPT !.state = r]
                     ELSE inv.assess[m]]]
        /\ UNCHANGED <<owner, disk, inputs, returned, begun, attempts, edits>>
        BY <2>2 DEF CheckpointThrows
      <3> DEFINE assessed == [m \in Members |->
                     IF m \in MembersOf[p] /\ r # "PASS" THEN [inv.assess[m] EXCEPT !.state = r]
                     ELSE inv.assess[m]]
      <3>2. inv.assess \in [Members -> Assessment]
        BY DEF Invocation
      <3>3. \A m \in Members : assessed[m].execution = inv.assess[m].execution
        BY <3>2 DEF Assessment
      <3>4. inv' = [Failed(Leave(inv, p)) EXCEPT !.assess = assessed]
        BY <3>1
      <3>5. /\ Failed(Leave(inv, p)) \in Invocation /\ Failed(Leave(inv, p)).stage = inv.stage
            /\ Failed(Leave(inv, p)).work = [inv.work EXCEPT ![p] = "done"]
            /\ Failed(Leave(inv, p)).aim = inv.aim
        BY <1>1, FailedTyped, FailedFacts
      <3> HIDE DEF assessed
      <3>6. /\ inv'.stage = inv.stage /\ inv'.work = [inv.work EXCEPT ![p] = "done"] /\ inv'.aim = inv.aim
            /\ inv'.assess = assessed
        BY <3>4, <3>5 DEF Invocation
      <3>7. q \in Pending
        BY DEF GateTypeOK
      <3>8. \A s \in pending' : \E w \in pending : s.kind = w.kind /\ s.key = w.key /\ s.attempt = w.attempt
        <4>1. \A s \in pending' : s \in pending \/ s = [q EXCEPT !.committed = reached # "staged"]
          BY <3>1
        <4>2. ASSUME NEW s, s = [q EXCEPT !.committed = reached # "staged"]
              PROVE  s.kind = q.kind /\ s.key = q.key /\ s.attempt = q.attempt
          BY <3>7, <4>2 DEF Pending
        <4> QED
          BY <4>1, <4>2
      <3>9. \A s \in pending' : s \in pending \/ s.key = q.key
        <4>1. \A s \in pending' : s \in pending \/ s = [q EXCEPT !.committed = reached # "staged"]
          BY <3>1
        <4> QED
          BY <3>7, <4>1 DEF Pending
      <3> QED
        BY <3>1, <3>3, <3>6, <3>8, <3>9
    <2> QED
      BY <2>1, <2>2
  <1>3. PICK q \in pending, r \in Results, backed \in BOOLEAN :
           /\ Running(p, q)
           /\ history' \in {history, Append(history, ExecutionEvent(p, q.attempt, r, backed))}
           /\ \A s \in pending' : \E w \in pending : s.kind = w.kind /\ s.key = w.key /\ s.attempt = w.attempt
           /\ \A s \in pending' : s \in pending \/ s.key = q.key
           /\ inv'.stage = inv.stage /\ inv'.work = [inv.work EXCEPT ![p] = "done"] /\ inv'.aim = inv.aim
           /\ \A m \in Members : inv'.assess[m].execution = inv.assess[m].execution
           /\ UNCHANGED <<owner, inputs, attempts>>
    BY <1>2
  <1> DEFINE e == ExecutionEvent(p, q.attempt, r, backed)
  <1>4. inv.stage = "schedule" /\ inv.work[p] = "running" /\ q.kind = "execution" /\ q.key[1] = p
    BY <1>3 DEF Running, At
  <1>5. q.key = KeyOf(p)
    <2>1. q.key[2] = inputs /\ q.key \in Keys
      BY <1>4, PendingTyped DEF AttemptInv, Live, GateTypeOK
    <2> QED
      BY <1>4, <2>1 DEF KeyOf, Keys
  <1>6. e.kind = "execution" /\ e.key = q.key /\ e.attempt = q.attempt /\ e.member = NoMember
    BY <1>5 DEF ExecutionEvent
  <1>7. <<e.attempt, e.key>> \in Bound
    BY <1>6 DEF Bound
  <1>8. ~ExecutedOn(history, e.key, e.attempt)
    BY <1>4, <1>6 DEF AttemptInv
  <1>9. inv'.work[e.key[1]] # "running" /\ \A o \in Physicals : inv'.work[o] \in {inv.work[o], "done"}
    BY <1>3, <1>4, <1>6 DEF Invocation
  <1>10. history' \in {history, Append(history, e)}
    BY <1>3
  <1>11. \A m \in Members :
            inv'.aim[m] \in {0, inv.aim[m]} /\ inv'.assess[m].execution \in {inv.assess[m].execution, inv.aim[m]}
    BY <1>3
  <1>12. inv'.stage = "schedule" /\ UNCHANGED <<owner, inputs, attempts>>
    BY <1>3, <1>4
  <1>13. \A s \in pending' : \E w \in pending : s.kind = w.kind /\ s.key = w.key /\ s.attempt = w.attempt
    BY <1>3
  <1>14. \A s \in pending' : s \in pending \/ inv'.work[s.key[1]] = "done"
    BY <1>3, <1>4 DEF Invocation
  <1> HIDE DEF e
  <1> QED
    <2>1. Fits(e)
      BY <1>6, <1>7, <1>8, <1>9 DEF Fits
    <2>2. WorkStep
      BY <1>4, <1>9, <1>10, <1>11, <1>12, <1>13, <1>14, <2>1 DEF WorkStep
    <2> QED
      BY <2>2, AttemptWork

LEMMA DroppedFacts ==
    ASSUME NEW i \in Invocation, NEW cancellation, NEW m \in Members
    PROVE  /\ Abandoned(FailedBy(i, cancellation), m) \in Invocation
           /\ Abandoned(FailedBy(i, cancellation), m).stage = i.stage
           /\ Abandoned(FailedBy(i, cancellation), m).work = i.work
           /\ Abandoned(FailedBy(i, cancellation), m).assess = i.assess
           /\ \A n \in Members : Abandoned(FailedBy(i, cancellation), m).aim[n] \in {0, i.aim[n]}
  <1> DEFINE j == FailedBy(i, cancellation)
  <1>1. j \in Invocation /\ j.stage = i.stage /\ j.work = i.work /\ j.assess = i.assess /\ j.aim = i.aim
    BY FailedTyped, FailedByFacts
  <1> HIDE DEF j
  <1>2. /\ Abandoned(j, m) \in Invocation /\ Abandoned(j, m).stage = j.stage /\ Abandoned(j, m).work = j.work
        /\ Abandoned(j, m).assess = j.assess /\ \A n \in Members : Abandoned(j, m).aim[n] \in {0, j.aim[n]}
    BY <1>1, AbandonedTyped, AbandonedFacts
  <1>3. /\ Abandoned(j, m) \in Invocation /\ Abandoned(j, m).stage = i.stage /\ Abandoned(j, m).work = i.work
        /\ Abandoned(j, m).assess = i.assess /\ \A n \in Members : Abandoned(j, m).aim[n] \in {0, i.aim[n]}
    BY <1>1, <1>2
  <1> QED
    BY <1>3 DEF j

\* An observation throws or is recorded: the events and the pending results.
LEMMA AttemptObserves ==
    ASSUME GateTypeOK, AttemptInv, owner # 0, NEW m \in Members,
           ObservationRecorded(m) \/ ObservationThrows(m)
    PROVE  AttemptInv'
  <1> inv \in Invocation /\ history \in Seq(Event)
    BY DEF GateTypeOK
  <1> inv.aim \in [Members -> Nat] /\ inv.assess \in [Members -> Assessment]
    BY DEF Invocation
  <1>1. \E q \in pending, r \in Results :
           /\ Watched(m, q)
           /\ history' \in {history, Append(history, ObservationEvent(m, r))}
           /\ \A s \in pending' : \E w \in pending : s.kind = w.kind /\ s.key = w.key /\ s.attempt = w.attempt
           /\ \A s \in pending' : s \in pending \/ s.kind = "observation"
           /\ inv'.stage = inv.stage /\ inv'.work = inv.work
           /\ \A n \in Members : inv'.aim[n] \in {0, inv.aim[n]}
           /\ \A n \in Members : inv'.assess[n].execution = inv.assess[n].execution
           /\ UNCHANGED <<owner, inputs, attempts>>
    <2>1. CASE ObservationRecorded(m)
      <3>1. PICK q \in pending, r \in Results, open \in BOOLEAN :
           /\ Watched(m, q) /\ MayResult(r)
           /\ inv.cancelled => r # "FAIL"
           /\ IF open THEN r = "ERROR" /\ Trouble ELSE UNCHANGED troubles
           /\ history' = Append(history, ObservationEvent(m, r))
           /\ pending' = (pending \ {q}) \cup
                 (IF open THEN {[q EXCEPT !.committed = TRUE, !.open = TRUE]} ELSE {})
           /\ inv' = [(IF open THEN Abandoned(Failed(inv), m) ELSE [Noted(inv, r) EXCEPT !.aim[m] = 0])
                        EXCEPT !.assess[m].state = r, !.assess[m].observation = Len(history) + 1,
                               !.aborted = inv.aborted \/ open]
           /\ UNCHANGED <<owner, disk, inputs, returned, begun, attempts, edits>>
        BY <2>1 DEF ObservationRecorded
      <3> DEFINE left == IF open THEN Abandoned(Failed(inv), m) ELSE [Noted(inv, r) EXCEPT !.aim[m] = 0]
      <3>2. /\ left \in Invocation /\ left.stage = inv.stage /\ left.work = inv.work /\ left.assess = inv.assess
            /\ \A n \in Members : left.aim[n] \in {0, inv.aim[n]}
        <4>1. CASE open
          BY <4>1, FailedTyped, FailedFacts, AbandonedTyped, AbandonedFacts
        <4>2. CASE ~open
          <5>1. /\ Noted(inv, r) \in Invocation /\ Noted(inv, r).stage = inv.stage
                /\ Noted(inv, r).work = inv.work /\ Noted(inv, r).assess = inv.assess /\ Noted(inv, r).aim = inv.aim
            BY NotedTyped, NotedFacts
          <5>2. [Noted(inv, r) EXCEPT !.aim[m] = 0] \in Invocation
            BY <5>1, AssessTyped, StateNames
          <5> QED
            BY <4>2, <5>1, <5>2 DEF Invocation
        <4> QED
          BY <4>1, <4>2
      <3>3. inv' = [left EXCEPT !.assess[m].state = r, !.assess[m].observation = Len(history) + 1,
                                !.aborted = inv.aborted \/ open]
        BY <3>1
      <3> HIDE DEF left
      <3>4. /\ inv'.stage = inv.stage /\ inv'.work = inv.work /\ inv'.aim = left.aim
            /\ inv'.assess = [inv.assess EXCEPT ![m].state = r, ![m].observation = Len(history) + 1]
        BY <3>2, <3>3 DEF Invocation
      <3>5. \A n \in Members : inv'.assess[n].execution = inv.assess[n].execution
        BY <3>4 DEF Assessment
      <3>6. \A s \in pending' : s \in pending \/ s = [q EXCEPT !.committed = TRUE, !.open = TRUE]
        BY <3>1
      <3>7. ASSUME NEW s, s = [q EXCEPT !.committed = TRUE, !.open = TRUE]
            PROVE  s.kind = q.kind /\ s.key = q.key /\ s.attempt = q.attempt
        BY <3>7 DEF Pending, GateTypeOK
      <3>8. \A s \in pending' : \E w \in pending : s.kind = w.kind /\ s.key = w.key /\ s.attempt = w.attempt
        BY <3>6, <3>7
      <3>9. \A s \in pending' : s \in pending \/ s.kind = "observation"
        BY <3>1, <3>6, <3>7 DEF Watched
      <3> QED
        BY <3>1, <3>2, <3>4, <3>5, <3>8, <3>9
    <2>2. CASE ObservationThrows(m)
      <3>1. PICK q \in pending, r \in Results, reached \in {"begun", "committed", "logged"},
               cancellation \in {FALSE, inv.cancelled} :
        /\ Watched(m, q) /\ MayResult(r)
        /\ cancellation => reached = "begun"
        /\ IF cancellation THEN UNCHANGED troubles ELSE Trouble
        /\ history' = IF reached = "logged" THEN Append(history, ObservationEvent(m, r)) ELSE history
        /\ pending' = (pending \ {q}) \cup {[q EXCEPT !.committed = reached # "begun"]}
        /\ inv' = [Abandoned(FailedBy(inv, cancellation), m) EXCEPT
                     !.assess[m].state = IF cancellation THEN "CANCELLED" ELSE "ERROR",
                     !.aborted = TRUE]
        /\ UNCHANGED <<owner, disk, inputs, returned, begun, attempts, edits>>
        BY <2>2 DEF ObservationThrows
      <3> DEFINE left == Abandoned(FailedBy(inv, cancellation), m)
      <3>2. /\ left \in Invocation /\ left.stage = inv.stage /\ left.work = inv.work /\ left.assess = inv.assess
            /\ \A n \in Members : left.aim[n] \in {0, inv.aim[n]}
        BY DroppedFacts
      <3>3. inv' = [left EXCEPT !.assess[m].state = IF cancellation THEN "CANCELLED" ELSE "ERROR", !.aborted = TRUE]
        BY <3>1
      <3> HIDE DEF left
      <3>4. /\ inv'.stage = inv.stage /\ inv'.work = inv.work /\ inv'.aim = left.aim
            /\ inv'.assess = [inv.assess EXCEPT ![m].state = IF cancellation THEN "CANCELLED" ELSE "ERROR"]
        BY <3>2, <3>3 DEF Invocation
      <3>5. \A n \in Members : inv'.assess[n].execution = inv.assess[n].execution
        BY <3>4 DEF Assessment
      <3>6. \A s \in pending' : s \in pending \/ s = [q EXCEPT !.committed = reached # "begun"]
        BY <3>1
      <3>7. ASSUME NEW s, s = [q EXCEPT !.committed = reached # "begun"]
            PROVE  s.kind = q.kind /\ s.key = q.key /\ s.attempt = q.attempt
        BY <3>7 DEF Pending, GateTypeOK
      <3>8. \A s \in pending' : \E w \in pending : s.kind = w.kind /\ s.key = w.key /\ s.attempt = w.attempt
        BY <3>6, <3>7
      <3>9. \A s \in pending' : s \in pending \/ s.kind = "observation"
        BY <3>1, <3>6, <3>7 DEF Watched
      <3> QED
        BY <3>1, <3>2, <3>4, <3>5, <3>8, <3>9
    <2> QED
      BY <2>1, <2>2
  <1>2. PICK q \in pending, r \in Results :
           /\ Watched(m, q)
           /\ history' \in {history, Append(history, ObservationEvent(m, r))}
           /\ \A s \in pending' : \E w \in pending : s.kind = w.kind /\ s.key = w.key /\ s.attempt = w.attempt
           /\ \A s \in pending' : s \in pending \/ s.kind = "observation"
           /\ inv'.stage = inv.stage /\ inv'.work = inv.work
           /\ \A n \in Members : inv'.aim[n] \in {0, inv.aim[n]}
           /\ \A n \in Members : inv'.assess[n].execution = inv.assess[n].execution
           /\ UNCHANGED <<owner, inputs, attempts>>
    BY <1>1
  <1> DEFINE e == ObservationEvent(m, r)
  <1>3. inv.stage = "schedule" /\ inv.aim[m] # 0
    BY <1>2 DEF Watched
  <1>4. e.kind = "observation" /\ e.key = KeyOfMember(m) /\ e.attempt = inv.aim[m] /\ e.member = m
    BY DEF ObservationEvent
  <1>5. <<inv.aim[m], KeyOfMember(m)>> \in Bound
    <2>1. ExecutedOn(history, KeyOfMember(m), inv.aim[m])
      BY <1>3 DEF AttemptInv, Live
    <2> QED
      BY <2>1 DEF ExecutedOn, Bound
  <1>9. ExecutedOn(history, e.key, e.attempt)
    BY <1>3, <1>4 DEF AttemptInv, Live
  <1>6. Fits(e)
    BY <1>4, <1>5, <1>9, HistoryAssumption DEF Fits
  <1>7. history' = history \/ history' = Append(history, e)
    BY <1>2
  <1> HIDE DEF e
  <1>8. WorkStep
    BY <1>2, <1>3, <1>6, <1>7 DEF WorkStep
  <1> QED
    BY <1>8, AttemptWork

\* An observation begins for what its member has still to observe.
LEMMA AttemptBeginsObservation ==
    ASSUME GateTypeOK, AttemptInv, owner # 0, NEW m \in Members,
           BeginObservation(m) \/ ObservationNotBegun(m)
    PROVE  AttemptInv'
  <1> inv \in Invocation /\ history \in Seq(Event)
    BY DEF GateTypeOK
  <1> inv.aim \in [Members -> Nat] /\ inv.assess \in [Members -> Assessment]
    BY DEF Invocation
  <1>1. inv.stage = "schedule" /\ inv.aim[m] # 0
    BY DEF BeginObservation, ObservationNotBegun, MayObserve
  <1>2. <<inv.aim[m], KeyOfMember(m)>> \in Bound
    <2>1. ExecutedOn(history, KeyOfMember(m), inv.aim[m])
      BY <1>1 DEF AttemptInv, Live
    <2> QED
      BY <2>1 DEF ExecutedOn, Bound
  <1>3. CASE BeginObservation(m)
    <2>1. /\ inv'.stage = inv.stage /\ inv'.work = inv.work /\ inv'.aim = inv.aim
          /\ inv'.assess = [inv.assess EXCEPT ![m].execution = inv.aim[m]]
          /\ UNCHANGED <<history, owner, inputs, attempts>>
      BY <1>3 DEF BeginObservation, Invocation, counts
    <2>2. \A n \in Members : inv'.assess[n].execution \in {inv.assess[n].execution, inv.aim[n]}
      BY <2>1 DEF Assessment
    <2> DEFINE new == [kind |-> "observation", key |-> KeyOfMember(m), attempt |-> inv.aim[m],
                       member |-> m, committed |-> FALSE, open |-> FALSE]
    <2>3. pending' = pending \cup {new}
      BY <1>3 DEF BeginObservation
    <2>4. new.kind = "observation" /\ <<new.attempt, new.key>> \in Bound /\ new.key[2] = inputs
      BY <1>2 DEF KeyOfMember, KeyOf
    <2> HIDE DEF new
    <2>5. WorkStep
      BY <1>1, <2>1, <2>2, <2>3, <2>4 DEF WorkStep
    <2> QED
      BY <2>5, AttemptWork
  <1>4. CASE ObservationNotBegun(m)
    <2>1. PICK cancellation \in {FALSE, inv.cancelled} :
          /\ IF cancellation \/ inv.aborted THEN UNCHANGED troubles ELSE Trouble
          /\ inv' = [Abandoned(FailedBy(inv, cancellation), m) EXCEPT
                       !.assess[m].execution = inv.aim[m],
                       !.assess[m].state = IF cancellation THEN "CANCELLED" ELSE "ERROR",
                       !.aborted = inv.aborted \/ ~cancellation]
      BY <1>4 DEF ObservationNotBegun
    <2> DEFINE left == Abandoned(FailedBy(inv, cancellation), m)
    <2>2. /\ left \in Invocation /\ left.stage = inv.stage /\ left.work = inv.work /\ left.assess = inv.assess
          /\ \A n \in Members : left.aim[n] \in {0, inv.aim[n]}
      BY DroppedFacts
    <2>3. inv' = [left EXCEPT !.assess[m].execution = inv.aim[m],
                       !.assess[m].state = IF cancellation THEN "CANCELLED" ELSE "ERROR",
                       !.aborted = inv.aborted \/ ~cancellation]
      BY <2>1
    <2> HIDE DEF left
    <2>4. /\ inv'.stage = inv.stage /\ inv'.work = inv.work /\ inv'.aim = left.aim
          /\ inv'.assess = [inv.assess EXCEPT ![m].execution = inv.aim[m],
                               ![m].state = IF cancellation THEN "CANCELLED" ELSE "ERROR"]
      BY <2>2, <2>3 DEF Invocation
    <2>5. \A n \in Members : inv'.assess[n].execution \in {inv.assess[n].execution, inv.aim[n]}
      BY <2>4 DEF Assessment
    <2>6. UNCHANGED <<history, pending, owner, inputs, attempts>>
      BY <1>4 DEF ObservationNotBegun
    <2>7. WorkStep
      BY <1>1, <2>2, <2>4, <2>5, <2>6 DEF WorkStep
    <2> QED
      BY <2>7, AttemptWork
  <1> QED
    BY <1>3, <1>4

\* A step that leaves the store alone and forgets or keeps what the invocation cites.
LEMMA AttemptFrame ==
    ASSUME GateTypeOK, AttemptInv, UNCHANGED <<history, pending, owner, inputs, attempts>>,
           inv'.stage = "preflight" => inv.stage = "preflight",
           inv'.stage = "schedule" => pending = {} \/ (inv.stage = "schedule" /\ inv'.work = inv.work),
           Live' => /\ Live
                    /\ \A m \in Members :
                          /\ inv'.aim[m] = inv.aim[m]
                          /\ \/ inv'.assess[m].execution = inv.assess[m].execution
                             \/ ExecutedOn(history, KeyOfMember(m), inv'.assess[m].execution)
    PROVE  AttemptInv'
  <1>1. /\ Bound' = Bound /\ Shaped(history') /\ attempts' = attempts
        /\ \A x \in Bound : x[1] \in 1 .. attempts
        /\ \A x, y \in Bound : x[1] = y[1] => x[2] = y[2]
    BY DEF Bound, AttemptInv
  <1>2. owner' = 0 \/ inv'.stage = "preflight" => pending' = {}
    BY DEF AttemptInv
  <1>3. Live' => \A q \in pending' : q.key[2] = inputs'
    BY DEF AttemptInv
  <1>4. inv'.stage = "schedule" => \A q \in pending' : q.kind = "execution" =>
          /\ inv'.work[q.key[1]] \in {"running", "done"}
          /\ inv'.work[q.key[1]] = "running" => ~ExecutedOn(history', q.key, q.attempt)
    BY DEF AttemptInv
  <1>5. Live' => \A m \in Members :
          /\ inv'.aim[m] # 0 => ExecutedOn(history', KeyOfMember(m)', inv'.aim[m])
          /\ inv'.assess[m].execution # 0 => ExecutedOn(history', KeyOfMember(m)', inv'.assess[m].execution)
    BY DEF AttemptInv, KeyOfMember, KeyOf
  <1> QED
    BY <1>1, <1>2, <1>3, <1>4, <1>5 DEF AttemptInv

\* The steps around the schedule.
LEMMA AttemptBegins == ASSUME GateTypeOK, AttemptInv, Begin PROVE AttemptInv'
  <1>1. /\ inv'.stage = "preflight" /\ owner = 0 /\ pending = {}
        /\ UNCHANGED <<history, pending, inputs, attempts>>
    BY IdleTyped DEF Begin, Invocation, AttemptInv
  <1>2. \A m \in Members : inv'.aim[m] = 0 /\ inv'.assess[m].execution = 0
    BY IdleTyped DEF Begin, Invocation, Idle, Unassessed
  <1>3. Bound' = Bound
    BY <1>1 DEF Bound
  <1> QED
    BY <1>1, <1>2, <1>3 DEF AttemptInv

\* Conclusions cite what an execution of the history was, on the inputs as they are.
LEMMA AssessCites ==
    ASSUME NEW a \in [Members -> Assessment], history \in Seq(Event), NEW known \in Seq(Event),
           NEW described, NEW k, NEW early, NEW lost, NEW m \in Members
    PROVE  LET n == AssessFullHistory(a, known, described, k, early, lost)[m].execution
           IN  n = a[m].execution \/ ExecutedOn(history, KeyOfMember(m), n)
  <1> DEFINE before == MembersAt(1 .. (k - 1)) \cap MembersAt(1 .. described)
             assessed == AssessSelections(a, history, before \cup early)
             marked == [n \in Members |->
                          IF n \in lost THEN [assessed[n] EXCEPT !.state = "ERROR"] ELSE assessed[n]]
  <1>1. ASSUME NEW b \in Assessment
        PROVE  \/ Concluded(b, history, m).execution = b.execution
               \/ ExecutedOn(history, KeyOfMember(m), Concluded(b, history, m).execution)
    <2> DEFINE noted == [b EXCEPT !.blocking = Blockers(history, m)]
               state == SelectionState(history, KeyOfMember(m), m)
    <2>1. noted.execution = b.execution /\ \A s : [noted EXCEPT !.state = s].execution = b.execution
      BY DEF Assessment
    <2>2. CASE state = "PASS" /\ b.state \in {"MISSING", "PASS"}
      <3>1. Concluded(b, history, m) = [noted EXCEPT !.state = "PASS",
                                               !.execution = history[Candidate(history, m)].attempt,
                                               !.observation = LastObservation(history, m)]
        BY <2>2 DEF Concluded
      <3>2. Concluded(b, history, m).execution = history[Candidate(history, m)].attempt
        BY <3>1 DEF Assessment
      <3>3. /\ Candidate(history, m) \in DOMAIN history
            /\ Candidate(history, m) \in Eligible(history, KeyOfMember(m), m)
        BY <2>2, PassHasCandidate, CandidateFacts
      <3> QED
        BY <3>2, <3>3 DEF Eligible, ExecutedOn
    <2>3. CASE state \in {"FAIL", "ERROR"}
      <3>1. Concluded(b, history, m) = [noted EXCEPT !.state = state]
        BY <2>3 DEF Concluded
      <3> QED
        BY <2>1, <3>1
    <2>4. CASE state \notin {"FAIL", "ERROR"} /\ ~(state = "PASS" /\ b.state \in {"MISSING", "PASS"})
      <3>1. Concluded(b, history, m) = noted
        BY <2>4 DEF Concluded
      <3> QED
        BY <2>1, <3>1
    <2> QED
      BY <2>2, <2>3, <2>4
  <1>2. assessed \in [Members -> Assessment]
    BY ConcludedTyped DEF AssessSelections
  <1>3. assessed[m] \in {a[m], Concluded(a[m], history, m)}
    BY DEF AssessSelections
  <1> HIDE DEF assessed
  <1>4. marked[m] \in Assessment /\ marked[m].execution = assessed[m].execution
    BY <1>2, StateNames DEF Assessment
  <1> HIDE DEF marked, before
  <1>5. \A ms : RetainKnownBarriers(marked, known, ms)[m].execution = marked[m].execution
    BY <1>4 DEF RetainKnownBarriers, Assessment
  <1>6. AssessFullHistory(a, known, described, k, early, lost)
            = RetainKnownBarriers(marked, known, Members \ before)
    BY DEF AssessFullHistory, marked, assessed, before
  <1> QED
    BY <1>1, <1>3, <1>4, <1>5, <1>6

LEMMA AttemptAssesses ==
    ASSUME GateTypeOK, inv.captured <= Len(history), AttemptInv, Assess
    PROVE  AttemptInv'
  <1> inv \in Invocation /\ history \in Seq(Event) /\ inv.captured \in Nat /\ inv.assess \in [Members -> Assessment]
    BY DEF GateTypeOK, Invocation
  <1>1. PICK i \in {inv, Failed(inv)}, captured \in {Len(history), inv.captured},
             k \in Int, early \in SUBSET Members, lost \in SUBSET Members :
             AssessesAs(i, captured, k, early, lost)
    BY AssessFacts
  <1>2. i \in Invocation /\ i.aim = inv.aim
    BY FailedTyped, FailedFacts
  <1>3. SubSeq(history, 1, captured) \in Seq(Event)
    <2>1. captured \in 0 .. Len(history)
      OBVIOUS
    <2> QED
      BY <2>1, PrefixTyped
  <1> DEFINE assess == AssessFullHistory(inv.assess, SubSeq(history, 1, captured), inv.described, k, early, lost)
  <1>4. ASSUME NEW m \in Members
        PROVE  \/ assess[m].execution = inv.assess[m].execution
               \/ ExecutedOn(history, KeyOfMember(m), assess[m].execution)
    BY <1>3, AssessCites
  <1>5. inv' = [i EXCEPT !.stage = "publishing", !.captured = captured, !.assess = assess]
    BY <1>1 DEF AssessesAs
  <1> HIDE DEF assess
  <1>6. inv'.stage = "publishing" /\ inv'.aim = inv.aim /\ inv'.assess = assess
    BY <1>2, <1>5 DEF Invocation
  <1>7. inv.stage = "assessing" /\ UNCHANGED <<history, pending, owner, inputs, attempts>>
    BY AssessFacts
  <1> QED
    BY <1>4, <1>6, <1>7, AttemptFrame DEF Live

\* Publication leaves the store and what the invocation cites alone.
LEMMA PublishFacts ==
    ASSUME GateTypeOK, Publish
    PROVE  /\ Live /\ inv.stage \in {"publishing", "writing", "settling", "pointing", "replaced"}
           /\ inv'.stage \in {"writing", "settling", "pointing", "replaced", "returning"}
           /\ inv'.aim = inv.aim /\ inv'.assess = inv.assess /\ inv'.captured = inv.captured
           /\ UNCHANGED <<history, pending, owner, inputs, returned, begun, attempts>>
  <1> inv \in Invocation
    BY DEF GateTypeOK
  <1>1. /\ Unpublished.stage = "returning" /\ Unpublished.aim = inv.aim /\ Unpublished.assess = inv.assess
        /\ Unpublished.captured = inv.captured
    BY DEF Unpublished, Failed, Invocation
  <1>2. /\ inv.stage \in {"publishing", "writing", "settling", "pointing", "replaced"}
        /\ UNCHANGED <<history, pending, owner, inputs, returned, begun, attempts>>
    BY DEF Publish, PublishClaims, PublishRun, RefuseRun, SettleRun, ReplaceCurrent, SyncCurrent, counts
  <1>3. \/ inv' = Unpublished
        \/ inv' = [inv EXCEPT !.stage = "writing", !.draft = ManifestOf(inv)]
        \/ \E s \in {"settling", "pointing", "replaced"} : inv' = [inv EXCEPT !.stage = s]
        \/ inv' = [inv EXCEPT !.stage = "returning", !.result = inv.draft.result]
    BY DEF Publish, PublishClaims, PublishRun, RefuseRun, SettleRun, ReplaceCurrent, SyncCurrent
  <1>4. /\ inv'.stage \in {"writing", "settling", "pointing", "replaced", "returning"}
        /\ inv'.aim = inv.aim /\ inv'.assess = inv.assess /\ inv'.captured = inv.captured
    BY <1>1, <1>3 DEF Invocation
  <1> QED
    BY <1>2, <1>4 DEF Live

\* The other steps of an invocation on its way.
LEMMA FrameFacts ==
    ASSUME GateTypeOK, PreflightPasses \/ PreflightFails \/ ScheduleEnds \/ FinalScan
    PROVE  /\ Live /\ inv'.stage # "preflight"
           /\ inv'.stage = "schedule" => inv.stage = "preflight"
           /\ inv'.stage \in {"schedule", "closing", "assessing"}
           /\ inv'.aim = inv.aim /\ inv'.assess = inv.assess
           /\ inv'.captured \in {0, inv.captured, Len(history)}
           /\ UNCHANGED <<history, pending, owner, disk, inputs, returned, begun, attempts>>
  <1> inv \in Invocation
    BY DEF GateTypeOK
  <1>1. CASE PreflightPasses
    BY <1>1 DEF PreflightPasses, Invocation, counts, Live
  <1>2. CASE PreflightFails
    <2>1. inv.stage = "preflight" /\ UNCHANGED <<history, pending, owner, disk, inputs, returned, begun, attempts>>
      BY <1>2 DEF PreflightFails, counts
    <2>2. PICK read, n, cancellation :
            inv' = [FailedBy(inv, cancellation) EXCEPT
                       !.stage = "closing", !.described = n, !.halted = FALSE, !.resume = FALSE,
                       !.captured = IF read THEN Len(history) ELSE 0,
                       !.preflight = IF inv.cancelled THEN "CANCELLED" ELSE "ERROR"]
      BY <1>2 DEF PreflightFails
    <2> DEFINE j == FailedBy(inv, cancellation)
    <2>3. j \in Invocation /\ j.aim = inv.aim /\ j.assess = inv.assess
      BY FailedTyped, FailedByFacts
    <2>4. inv' = [j EXCEPT
                       !.stage = "closing", !.described = n, !.halted = FALSE, !.resume = FALSE,
                       !.captured = IF read THEN Len(history) ELSE 0,
                       !.preflight = IF inv.cancelled THEN "CANCELLED" ELSE "ERROR"]
      BY <2>2
    <2> HIDE DEF j
    <2>5. /\ inv'.stage = "closing" /\ inv'.aim = j.aim /\ inv'.assess = j.assess
          /\ inv'.captured = IF read THEN Len(history) ELSE 0
      BY <2>3, <2>4 DEF Invocation
    <2> QED
      BY <2>1, <2>3, <2>5 DEF Live
  <1>3. CASE ScheduleEnds
    BY <1>3 DEF ScheduleEnds, Invocation, counts, Live
  <1>4. CASE FinalScan
    <2> DEFINE next == [inv EXCEPT !.stage = "assessing"]
    <2>1. /\ next \in Invocation /\ next.stage = "assessing" /\ next.aim = inv.aim
          /\ next.assess = inv.assess /\ next.captured = inv.captured
      BY DEF Invocation, Stages
    <2>2. inv.stage = "closing" /\ UNCHANGED <<history, pending, owner, disk, inputs, returned, begun, attempts>>
      BY <1>4 DEF FinalScan
    <2>3. inv' = next \/ inv' = [next EXCEPT !.final = TRUE] \/ inv' = Failed(next)
      BY <1>4 DEF FinalScan
    <2> HIDE DEF next
    <2>4. /\ Failed(next).stage = next.stage /\ Failed(next).aim = next.aim
          /\ Failed(next).assess = next.assess /\ Failed(next).captured = next.captured
      BY <2>1, FailedFacts
    <2>5. \A f : /\ [next EXCEPT !.final = f].stage = next.stage /\ [next EXCEPT !.final = f].aim = next.aim
                 /\ [next EXCEPT !.final = f].assess = next.assess
                 /\ [next EXCEPT !.final = f].captured = next.captured
      BY <2>1 DEF Invocation
    <2> QED
      BY <2>1, <2>2, <2>3, <2>4, <2>5 DEF Live
  <1> QED
    BY <1>1, <1>2, <1>3, <1>4

LEMMA AttemptFrames ==
    ASSUME GateTypeOK, AttemptInv,
           PreflightPasses \/ PreflightFails \/ ScheduleEnds \/ FinalScan \/ Cancel \/ Publish
    PROVE  AttemptInv'
  <1>1. CASE PreflightPasses \/ PreflightFails \/ ScheduleEnds \/ FinalScan
    <2>1. inv'.stage = "schedule" => pending = {}
      BY <1>1, FrameFacts DEF AttemptInv
    <2> QED
      BY <1>1, <2>1, FrameFacts, AttemptFrame
  <1>2. CASE Cancel
    BY <1>2, CancelFacts, AttemptFrame
  <1>3. CASE Publish
    BY <1>3, PublishFacts, AttemptFrame
  <1> QED
    BY <1>1, <1>2, <1>3

LEMMA AttemptReturns == ASSUME GateTypeOK, AttemptInv, Return PROVE AttemptInv'
  <1>1. /\ inv'.stage = "idle" /\ UNCHANGED <<history, pending, inputs, attempts>>
        /\ owner' = owner \/ pending = {}
    BY DEF Return, Idle
  <1>2. Bound' = Bound
    BY <1>1 DEF Bound
  <1> QED
    BY <1>1, <1>2 DEF AttemptInv, Live

LEMMA AttemptCrashes == ASSUME GateTypeOK, AttemptInv, Crash PROVE AttemptInv'
  <1>1. inv'.stage = "idle" /\ UNCHANGED <<history, owner, inputs, attempts>>
    BY DEF Crash, Idle
  <1>2. PICK commits \in SUBSET pending :
          pending' = (pending \ commits) \cup {[q EXCEPT !.committed = TRUE] : q \in commits}
    BY DEF Crash
  <1>3. \A q \in pending : /\ [q EXCEPT !.committed = TRUE].attempt = q.attempt
                           /\ [q EXCEPT !.committed = TRUE].key = q.key
    BY DEF GateTypeOK, Pending
  <1>4. \A s \in pending' : \E q \in pending : s.attempt = q.attempt /\ s.key = q.key
    BY <1>2, <1>3
  <1>5. Bound' \subseteq Bound
    BY <1>1, <1>4 DEF Bound
  <1>6. /\ \A x \in Bound' : x[1] \in 1 .. attempts'
        /\ \A x, y \in Bound' : x[1] = y[1] => x[2] = y[2]
    BY <1>1, <1>5 DEF AttemptInv
  <1>7. owner' = 0 => pending' = {}
    BY <1>1, <1>4 DEF AttemptInv
  <1> QED
    BY <1>1, <1>6, <1>7 DEF AttemptInv, Live

\* recoverOwner accounts for an attempt with an event of its own key.
LEMMA AttemptRecovers ==
    ASSUME GateTypeOK, AttemptInv, NEW q \in pending, Recover(q)
    PROVE  AttemptInv'
  <1> DEFINE e == [kind |-> "indeterminate", key |-> q.key, attempt |-> q.attempt,
                   member |-> q.member, result |-> "ERROR", backed |-> FALSE, run |-> owner]
  <1> history \in Seq(Event) /\ attempts \in Nat
    BY DEF GateTypeOK
  <1>1. /\ inv.stage = "idle" /\ UNCHANGED <<owner, inputs, inv, attempts>>
        /\ pending' = pending \ {q} /\ (history' = history \/ history' = Append(history, e))
    BY DEF Recover, Live, counts
  <1>2. e.attempt = q.attempt /\ e.key = q.key /\ e.kind = "indeterminate"
    OBVIOUS
  <1> HIDE DEF e
  <1>3. <<e.attempt, e.key>> \in Bound
    BY <1>2 DEF Bound
  <1>4. Bound' \subseteq Bound
    <2>1. \A i \in DOMAIN history : <<history[i].attempt, history[i].key>> \in Bound
      BY DEF Bound
    <2>2. \A i \in DOMAIN history' : <<history'[i].attempt, history'[i].key>> \in Bound
      <3>1. CASE history' = history
        BY <2>1, <3>1
      <3>2. CASE history' = Append(history, e)
        <4>1. history'[Len(history) + 1] = e /\ \A i \in DOMAIN history : history'[i] = history[i]
          BY <3>2, AppendFacts
        <4>2. \A i \in DOMAIN history' : i \in DOMAIN history \/ i = Len(history) + 1
          BY <3>2, AppendFacts
        <4> QED
          BY <1>3, <2>1, <4>1, <4>2
      <3> QED
        BY <1>1, <3>1, <3>2
    <2>3. \A x \in Bound' : \/ \E i \in DOMAIN history' : x = <<history'[i].attempt, history'[i].key>>
                            \/ \E s \in pending' : x = <<s.attempt, s.key>>
      BY DEF Bound
    <2>4. \A s \in pending' : <<s.attempt, s.key>> \in Bound
      BY <1>1 DEF Bound
    <2> QED
      BY <2>2, <2>3, <2>4
  <1>5. /\ \A x \in Bound' : x[1] \in 1 .. attempts'
        /\ \A x, y \in Bound' : x[1] = y[1] => x[2] = y[2]
    BY <1>1, <1>4 DEF AttemptInv
  <1>6. Shaped(history')
    <2>1. CASE history' = history
      BY <2>1 DEF AttemptInv
    <2>2. CASE history' = Append(history, e)
      <3>1. e.attempt \in 1 .. attempts /\ \A i \in DOMAIN history : history[i].attempt = e.attempt => history[i].key = e.key
        BY <1>3, Known
      <3>2. e.attempt # 0
        BY <3>1
      <3>3. Shaped(history) /\ e.kind # "execution" /\ e.kind # "observation"
        BY <1>2 DEF AttemptInv
      <3> QED
        BY <2>2, <3>1, <3>2, <3>3, ShapedAppend
    <2> QED
      BY <1>1, <2>1, <2>2
  <1>7. owner' = 0 => pending' = {}
    BY <1>1 DEF AttemptInv
  <1> QED
    BY <1>1, <1>5, <1>6, <1>7 DEF AttemptInv, Live

LEMMA AttemptBetween ==
    ASSUME GateTypeOK, AttemptInv, Retire \/ Edit
    PROVE  AttemptInv'
  <1>1. /\ inv.stage = "idle" /\ UNCHANGED <<history, pending, inv, attempts>>
        /\ owner' = owner \/ pending = {}
    BY DEF Retire, Edit, Live, counts
  <1>2. Bound' = Bound
    BY <1>1 DEF Bound
  <1> QED
    BY <1>1, <1>2 DEF AttemptInv, Live

\* Every step keeps the attempts in order.
LEMMA AttemptKept ==
    ASSUME GateTypeOK, inv.captured <= Len(history), Live => owner # 0, AttemptInv, Next
    PROVE  AttemptInv'
  <1>1. ASSUME NEW p \in Physicals, Worker(p) PROVE AttemptInv'
    <2>1. owner # 0
      BY <1>1, WorkScheduled DEF Live
    <2> QED
      BY <1>1, <2>1, AttemptAdmits, AttemptDispatches, AttemptExecutes, AttemptThrows DEF Worker
  <1>2. ASSUME NEW m \in Members, Observer(m) PROVE AttemptInv'
    <2>1. owner # 0
      BY <1>2, WorkScheduled DEF Live
    <2> QED
      BY <1>2, <2>1, AttemptObserves, AttemptBeginsObservation DEF Observer
  <1>3. ASSUME NEW q \in pending, Recover(q) PROVE AttemptInv'
    BY <1>3, AttemptRecovers
  <1> QED
    BY <1>1, <1>2, <1>3, AttemptBegins, AttemptFrames, AttemptAssesses, AttemptReturns, AttemptCrashes,
       AttemptBetween DEF Next

------------------------------------------------------------------------------
(* The history grows.                                                      *)

Grows == history' = history \/ \E e : history' = Append(history, e)

\* The history is appended to, never rewritten.
LEMMA HistoryGrows == ASSUME GateTypeOK, Next PROVE Grows
  <1>1. ASSUME NEW p \in Physicals, Worker(p) PROVE Grows
    <2>1. CASE Admit(p) \/ Hit(p) \/ Dispatch(p) \/ NotDispatched(p)
      BY <2>1 DEF Admit, Hit, Dispatch, NotDispatched, Grows
    <2>2. CASE ExecutionRecorded(p)
      <3>1. PICK q, r : history' = Append(history, ExecutionEvent(p, q.attempt, r, TRUE))
        BY <2>2 DEF ExecutionRecorded
      <3> QED
        BY <3>1 DEF Grows
    <2>3. CASE ExecutionThrows(p)
      <3>1. PICK q, cancellation : history' = Append(history, ExecutionEvent(p, q.attempt,
                                      IF cancellation THEN "CANCELLED" ELSE "ERROR", FALSE))
        BY <2>3 DEF ExecutionThrows
      <3> QED
        BY <3>1 DEF Grows
    <2>4. CASE CheckpointThrows(p)
      <3>1. PICK q, r, reached :
              history' = IF reached = "logged" THEN Append(history, ExecutionEvent(p, q.attempt, r, TRUE))
                         ELSE history
        BY <2>4 DEF CheckpointThrows
      <3> QED
        BY <3>1 DEF Grows
    <2> QED
      BY <1>1, <2>1, <2>2, <2>3, <2>4 DEF Worker
  <1>2. ASSUME NEW m \in Members, Observer(m) PROVE Grows
    <2>1. CASE BeginObservation(m) \/ ObservationNotBegun(m)
      BY <2>1 DEF BeginObservation, ObservationNotBegun, Grows
    <2>2. CASE ObservationRecorded(m)
      <3>1. PICK r : history' = Append(history, ObservationEvent(m, r))
        BY <2>2 DEF ObservationRecorded
      <3> QED
        BY <3>1 DEF Grows
    <2>3. CASE ObservationThrows(m)
      <3>1. PICK r, reached : history' = IF reached = "logged" THEN Append(history, ObservationEvent(m, r))
                                         ELSE history
        BY <2>3 DEF ObservationThrows
      <3> QED
        BY <3>1 DEF Grows
    <2> QED
      BY <1>2, <2>1, <2>2, <2>3 DEF Observer
  <1>3. ASSUME NEW q \in pending, Recover(q) PROVE Grows
    BY <1>3 DEF Recover, Grows
  <1>4. CASE Begin \/ Return \/ Crash \/ Retire \/ Edit
    BY <1>4 DEF Begin, Return, Crash, Retire, Edit, Grows
  <1>5. CASE PreflightPasses \/ PreflightFails \/ ScheduleEnds \/ FinalScan
    BY <1>5, FrameFacts DEF Grows
  <1>6. CASE Cancel \/ Assess \/ Publish
    BY <1>6, CancelFacts, AssessFacts, PublishFacts DEF Grows
  <1> QED
    BY <1>1, <1>2, <1>3, <1>4, <1>5, <1>6 DEF Next

\* What a longer history keeps.
LEMMA GrownFacts ==
    ASSUME GateTypeOK, Grows
    PROVE  /\ Len(history') \in Nat /\ Len(history) <= Len(history') /\ DOMAIN history \subseteq DOMAIN history'
           /\ \A i \in DOMAIN history : history'[i] = history[i]
           /\ \A key, attempt : ExecutedOn(history, key, attempt) => ExecutedOn(history', key, attempt)
  <1> history \in Seq(Event) /\ Len(history) \in Nat
    BY DEF GateTypeOK
  <1>1. CASE history' = history
    BY <1>1
  <1>2. ASSUME NEW e, history' = Append(history, e)
        PROVE  /\ Len(history') \in Nat /\ Len(history) <= Len(history') /\ DOMAIN history \subseteq DOMAIN history'
               /\ \A i \in DOMAIN history : history'[i] = history[i]
               /\ \A key, attempt : ExecutedOn(history, key, attempt) => ExecutedOn(history', key, attempt)
    <2>1. Len(history') = Len(history) + 1
      BY <1>2, AppendFacts
    <2>2. Len(history') \in Nat /\ Len(history) <= Len(history')
      BY <2>1
    <2> QED
      BY <1>2, <2>2, AppendFacts, ExecutedStays
  <1> QED
    BY <1>1, <1>2 DEF Grows

\* What an invocation captured is a prefix of the history.
LEMMA CapturedKept ==
    ASSUME GateTypeOK, inv.captured <= Len(history), Next
    PROVE  inv'.captured <= Len(history')
  <1> inv \in Invocation /\ inv.captured \in Nat /\ Len(history) \in Nat
    BY DEF GateTypeOK, Invocation
  <1>0. Len(history') \in Nat /\ Len(history) <= Len(history')
    BY HistoryGrows, GrownFacts
  <1>1. CASE (\E p \in Physicals : Worker(p)) \/ (\E m \in Members : Observer(m))
    BY <1>0, <1>1, WorkScheduled
  <1>2. CASE Begin \/ Return \/ Crash
    <2>0. Idle.captured = 0 /\ \A s, r : [Idle EXCEPT !.stage = "preflight", !.selected = s, !.resume = r].captured = 0
      BY DEF Idle
    <2>1. inv'.captured = 0
      BY <1>2, <2>0 DEF Begin, Return, Crash
    <2> QED
      BY <1>0, <2>1
  <1>3. CASE (\E q \in pending : Recover(q)) \/ Retire \/ Edit
    <2>1. inv' = inv
      BY <1>3 DEF Recover, Retire, Edit
    <2> QED
      BY <1>0, <2>1
  <1>4. CASE PreflightPasses \/ PreflightFails \/ ScheduleEnds \/ FinalScan
    BY <1>0, <1>4, FrameFacts
  <1>5. CASE Cancel
    BY <1>0, <1>5, CancelFacts
  <1>6. CASE Publish
    BY <1>0, <1>6, PublishFacts
  <1>7. CASE Assess
    <2>1. PICK i \in {inv, Failed(inv)}, captured \in {Len(history), inv.captured},
             k \in Int, early \in SUBSET Members, lost \in SUBSET Members :
             AssessesAs(i, captured, k, early, lost)
      BY <1>7, AssessFacts
    <2>2. inv'.captured = captured
      BY <2>1, FailedTyped DEF AssessesAs, Invocation
    <2>3. history' = history
      BY <1>7, AssessFacts
    <2> QED
      BY <2>2, <2>3
  <1> QED
    BY <1>1, <1>2, <1>3, <1>4, <1>5, <1>6, <1>7 DEF Next

LEMMA WholePrefix == ASSUME NEW h \in Seq(Event) PROVE SubSeq(h, 1, Len(h)) = h
OBVIOUS

\* A prefix of the history is a history, of the same events.
LEMMA PrefixFacts ==
    ASSUME NEW h \in Seq(Event), NEW n \in Nat, n <= Len(h)
    PROVE  /\ SubSeq(h, 1, n) \in Seq(Event) /\ DOMAIN SubSeq(h, 1, n) = 1 .. n
           /\ 1 .. n \subseteq DOMAIN h
           /\ \A i \in 1 .. n : SubSeq(h, 1, n)[i] = h[i]
  <1> Len(h) \in Nat /\ DOMAIN h = 1 .. Len(h)
    OBVIOUS
  <1>1. n \in 0 .. Len(h)
    OBVIOUS
  <1>2. SubSeq(h, 1, n) \in Seq(Event)
    BY <1>1, PrefixTyped
  <1>3. Len(SubSeq(h, 1, n)) = n
    BY <1>1
  <1>4. DOMAIN SubSeq(h, 1, n) = 1 .. n
    BY <1>2, <1>3
  <1>5. \A i \in 1 .. n : SubSeq(h, 1, n)[i] = h[i]
    BY <1>1
  <1> QED
    BY <1>1, <1>2, <1>4, <1>5

LEMMA PrefixShaped ==
    ASSUME NEW h \in Seq(Event), NEW n \in Nat, n <= Len(h), Shaped(h)
    PROVE  Shaped(SubSeq(h, 1, n))
  <1> DEFINE s == SubSeq(h, 1, n)
  <1>1. DOMAIN s = 1 .. n /\ 1 .. n \subseteq DOMAIN h /\ \A i \in 1 .. n : s[i] = h[i]
    BY PrefixFacts
  <1>2. DOMAIN h \subseteq Nat \ {0} /\ \A i \in 1 .. n, j \in Nat \ {0} : j < i => j \in 1 .. n
    OBVIOUS
  <1> HIDE DEF s
  <1>3. ASSUME NEW i \in DOMAIN s
        PROVE  /\ s[i].attempt # 0
               /\ s[i].kind = "execution" => s[i].member = NoMember
               /\ s[i].kind = "observation" => s[i].member # NoMember
    BY <1>1 DEF Shaped
  <1>4. ASSUME NEW i \in DOMAIN s, s[i].kind = "observation"
        PROVE  \E j \in DOMAIN s : j < i /\ s[j].kind = "execution" /\ s[j].attempt = s[i].attempt
    <2>1. PICK j \in DOMAIN h : j < i /\ h[j].kind = "execution" /\ h[j].attempt = h[i].attempt
      BY <1>1, <1>4 DEF Shaped
    <2>2. j \in DOMAIN s
      BY <1>1, <1>2, <2>1
    <2> QED
      BY <1>1, <2>1, <2>2
  <1>5. \A i, j \in DOMAIN s :
          /\ s[i].attempt = s[j].attempt => s[i].key = s[j].key
          /\ s[i].kind = "execution" /\ s[j].kind = "execution" /\ s[i].attempt = s[j].attempt => i = j
    BY <1>1 DEF Shaped
  <1>6. Shaped(s)
    BY <1>3, <1>4, <1>5 DEF Shaped
  <1> QED
    BY <1>6 DEF s

\* What the gate read stays as the history grows.
LEMMA PrefixStays ==
    ASSUME GateTypeOK, Grows, NEW n \in Nat, n <= Len(history)
    PROVE  SubSeq(history', 1, n) = SubSeq(history, 1, n)
  <1> history \in Seq(Event) /\ Len(history) \in Nat
    BY DEF GateTypeOK
  <1>1. ASSUME NEW e, history' = Append(history, e)
        PROVE  SubSeq(history', 1, n) = SubSeq(history, 1, n)
    <2>1. Len(history') = Len(history) + 1 /\ \A i \in DOMAIN history : history'[i] = history[i]
      BY <1>1, AppendFacts
    <2>2. \A i \in 1 .. n : history'[i] = history[i]
      BY <2>1
    <2> DEFINE s == SubSeq(history', 1, n)
               t == SubSeq(history, 1, n)
    <2>3. s = [i \in 1 .. n |-> history'[i]] /\ t = [i \in 1 .. n |-> history[i]]
      OBVIOUS
    <2> QED
      BY <2>2, <2>3
  <1> QED
    BY <1>1 DEF Grows

\* A history that is no longer than it was is the same.
LEMMA GrowsOrStays ==
    ASSUME GateTypeOK, Grows, Len(history') <= Len(history)
    PROVE  history' = history
  <1>1. ASSUME NEW e, history' = Append(history, e) PROVE FALSE
    <2>1. Len(history) \in Nat /\ Len(history') = Len(history) + 1
      BY <1>1, AppendFacts DEF GateTypeOK
    <2> QED
      BY <2>1
  <1> QED
    BY <1>1 DEF Grows

------------------------------------------------------------------------------
(* Generations.                                                            *)

\* What a generation cites stays cited, and what backs it stays.
LEMMA CitesStays ==
    ASSUME GateTypeOK, Grows, NEW g, Cites(g, history), Refers(g, history)
    PROVE  Cites(g, history') /\ Refers(g, history')
  <1>1. Cites(g, history')
    BY GrownFacts DEF Cites
  <1>2. \A m \in Members : ReceiptBinds(g.slots[m], history, m) => ReceiptBinds(g.slots[m], history', m)
    BY GrownFacts DEF ReceiptBinds
  <1> QED
    BY <1>1, <1>2 DEF Refers

LEMMA BackedStays ==
    ASSUME GateTypeOK, Grows, NEW g \in Manifest, Backed(g, history)
    PROVE  Backed(g, history')
  <1>1. Len(history) \in Nat /\ Len(history') \in Nat /\ Len(history) <= Len(history')
    BY GrownFacts DEF GateTypeOK
  <1>2. g.captured \in Nat
    BY DEF Manifest
  <1>3. ASSUME g.result = "PASS"
        PROVE  /\ g.captured <= Len(history')
               /\ SubSeq(history', 1, g.captured) = SubSeq(history, 1, g.captured)
    <2>1. g.captured <= Len(history)
      BY <1>3 DEF Backed
    <2> QED
      BY <1>1, <1>2, <2>1, PrefixStays
  <1> QED
    BY <1>3 DEF Backed

\* A step that writes no manifest keeps the generations.
LEMMA GenerationFrame ==
    ASSUME GateTypeOK, GenerationInv, Grows, inv'.stage \notin {"publishing", "writing", "settling"},
           \A r \in Runs : manifests'[r] \in {None, manifests[r]}
    PROVE  GenerationInv'
  <1>1. ASSUME NEW r \in Runs, manifests'[r] # None
        PROVE  /\ Cites(manifests'[r], history') /\ Refers(manifests'[r], history')
               /\ Backed(manifests'[r], history')
    <2>1. manifests'[r] = manifests[r] /\ manifests[r] \in Manifest
      BY <1>1 DEF GateTypeOK
    <2>2. Cites(manifests[r], history) /\ Refers(manifests[r], history) /\ Backed(manifests[r], history)
      BY <1>1, <2>1 DEF GenerationInv
    <2> QED
      BY <2>1, <2>2, CitesStays, BackedStays
  <1> QED
    BY <1>1 DEF GenerationInv

\* Assessed on the history as it is, a slot reports all its barriers.
LEMMA AssessBlocks ==
    ASSUME NEW a \in [Members -> Assessment], history \in Seq(Event),
           NEW described, NEW k, NEW early, NEW lost, NEW m \in Members
    PROVE  AssessFullHistory(a, history, described, k, early, lost)[m].blocking = Blockers(history, m)
  <1> DEFINE before == MembersAt(1 .. (k - 1)) \cap MembersAt(1 .. described)
             assessed == AssessSelections(a, history, before \cup early)
             marked == [n \in Members |->
                          IF n \in lost THEN [assessed[n] EXCEPT !.state = "ERROR"] ELSE assessed[n]]
  <1>1. ASSUME NEW b \in Assessment
        PROVE  Concluded(b, history, m).blocking = Blockers(history, m)
    <2> DEFINE noted == [b EXCEPT !.blocking = Blockers(history, m)]
               state == SelectionState(history, KeyOfMember(m), m)
    <2>1. noted.blocking = Blockers(history, m) /\ \A s : [noted EXCEPT !.state = s].blocking = noted.blocking
      BY DEF Assessment
    <2>2. CASE state = "PASS" /\ b.state \in {"MISSING", "PASS"}
      <3>1. Concluded(b, history, m) = [noted EXCEPT !.state = "PASS",
                                               !.execution = history[Candidate(history, m)].attempt,
                                               !.observation = LastObservation(history, m)]
        BY <2>2 DEF Concluded
      <3> QED
        BY <3>1 DEF Assessment
    <2>3. CASE state \in {"FAIL", "ERROR"}
      <3>1. Concluded(b, history, m) = [noted EXCEPT !.state = state]
        BY <2>3 DEF Concluded
      <3> QED
        BY <2>1, <3>1
    <2>4. CASE state \notin {"FAIL", "ERROR"} /\ ~(state = "PASS" /\ b.state \in {"MISSING", "PASS"})
      <3>1. Concluded(b, history, m) = noted
        BY <2>4 DEF Concluded
      <3> QED
        BY <2>1, <3>1
    <2> QED
      BY <2>2, <2>3, <2>4
  <1>2. assessed \in [Members -> Assessment]
    BY ConcludedTyped DEF AssessSelections
  <1>3. m \in before => assessed[m].blocking = Blockers(history, m)
    BY <1>1 DEF AssessSelections
  <1> HIDE DEF assessed
  <1>4. marked[m] \in Assessment /\ marked[m].blocking = assessed[m].blocking
    BY <1>2, StateNames DEF Assessment
  <1> HIDE DEF marked, before
  <1>5. RetainKnownBarriers(marked, history, Members \ before)[m].blocking
            = IF m \in before THEN marked[m].blocking ELSE Blockers(history, m)
    BY <1>4 DEF RetainKnownBarriers, Assessment
  <1>6. AssessFullHistory(a, history, described, k, early, lost)
            = RetainKnownBarriers(marked, history, Members \ before)
    BY DEF AssessFullHistory, marked, assessed, before
  <1> QED
    BY <1>3, <1>4, <1>5, <1>6

\* assessFullHistory concludes from the history as it is.
LEMMA GenerationAssesses == ASSUME GateTypeOK, GenerationInv, Assess PROVE GenerationInv'
  <1> inv \in Invocation
    BY DEF GateTypeOK
  <1>1. PICK i \in {inv, Failed(inv)}, captured \in {Len(history), inv.captured},
             k \in Int, early \in SUBSET Members, lost \in SUBSET Members :
             /\ AssessesAs(i, captured, k, early, lost)
             /\ captured = inv.captured /\ captured # Len(history) => i = Failed(inv)
    BY AssessFacts
  <1>2. i \in Invocation /\ Failed(inv).operational
    BY FailedTyped, FailedOperational
  <1>3. inv'.stage = "publishing" /\ inv'.captured = captured /\ inv'.operational = i.operational
    BY <1>1, <1>2 DEF AssessesAs, Invocation
  <1>4. UNCHANGED <<history, manifests>>
    BY AssessFacts DEF disk
  <1>5. ~inv'.operational => inv'.captured = Len(history')
    BY <1>1, <1>2, <1>3, <1>4
  <1>6. ~inv'.operational => \A m \in Members : inv'.assess[m].blocking = Blockers(history', m)
    <2> DEFINE assess == AssessFullHistory(inv.assess, SubSeq(history, 1, captured), inv.described, k, early, lost)
    <2>1. inv'.assess = assess
      <3>1. inv' = [i EXCEPT !.stage = "publishing", !.captured = captured, !.assess = assess]
        BY <1>1 DEF AssessesAs
      <3> HIDE DEF assess
      <3> QED
        BY <1>2, <3>1 DEF Invocation
    <2>2. ASSUME captured = Len(history), NEW m \in Members PROVE assess[m].blocking = Blockers(history, m)
      <3>1. SubSeq(history, 1, captured) = history /\ history \in Seq(Event) /\ inv.assess \in [Members -> Assessment]
        BY <2>2, WholePrefix DEF GateTypeOK, Invocation
      <3>2. assess = AssessFullHistory(inv.assess, history, inv.described, k, early, lost)
        BY <3>1
      <3> HIDE DEF assess
      <3>3. AssessFullHistory(inv.assess, history, inv.described, k, early, lost)[m].blocking = Blockers(history, m)
        BY <3>1, AssessBlocks
      <3> QED
        BY <3>2, <3>3
    <2> HIDE DEF assess
    <2> QED
      BY <1>1, <1>2, <1>3, <1>4, <2>1, <2>2
  <1> QED
    BY <1>3, <1>4, <1>5, <1>6 DEF GenerationInv

\* A run passes only without an operational error.
LEMMA RunPasses ==
    ASSUME NEW i, NEW claims, RunResult(i, claims) = "PASS"
    PROVE  ~i.operational /\ i.final /\ i.preflight # "ERROR" /\ \A c \in Required : claims[c] = "PASS"
BY DEF RunResult

\* What publishRun lets through is valid on the history it was concluded from.
LEMMA GenerationPublishes ==
    ASSUME GateTypeOK, PointerInv, AttemptInv, GenerationInv, Publish
    PROVE  GenerationInv'
  <1> inv \in Invocation /\ manifests \in [Runs -> Manifest \cup {None}]
    BY DEF GateTypeOK
  <1>0. UNCHANGED history /\ Grows
    BY PublishFacts DEF Grows
  <1>1. CASE PublishClaims
    <2>1. CASE inv' = Unpublished
      <3>1. inv'.stage = "returning"
        BY <2>1 DEF Unpublished, Failed, Invocation
      <3> QED
        BY <1>0, <1>1, <3>1, GenerationFrame DEF PublishClaims, disk
    <2>2. CASE inv' = [inv EXCEPT !.stage = "writing", !.draft = ManifestOf(inv)]
      <3> DEFINE g == ManifestOf(inv)
      <3>1. inv.stage = "publishing" /\ UNCHANGED <<history, manifests, inputs>> /\ Live
        BY <1>1 DEF PublishClaims, disk, Live
      <3>2. inv'.stage = "writing" /\ inv'.draft = g
        BY <2>2 DEF Invocation
      <3>3. /\ g.slots = inv.assess /\ g.version = inputs /\ g.captured = inv.captured
            /\ \A c \in Claims : g.claims[c] = ClaimResult(inv.assess, c)
            /\ \E claims : g.result = RunResult(inv, claims)
        BY DEF ManifestOf
      <3> HIDE DEF g
      <3>4. Cites(g, history)
        BY <3>1, <3>3 DEF Cites, AttemptInv, KeyOfMember, KeyOf
      <3>5. g.result = "PASS" => /\ g.captured = Len(history)
                                 /\ \A m \in Members : g.slots[m].blocking = Blockers(history, m)
        BY <3>1, <3>3, RunPasses DEF GenerationInv
      <3> QED
        BY <3>1, <3>2, <3>3, <3>4, <3>5 DEF GenerationInv
    <2> QED
      BY <1>1, <2>1, <2>2 DEF PublishClaims
  <1>2. CASE PublishRun
    <2>1. inv.stage = "writing" /\ inv'.stage = "settling" /\ inv'.draft = inv.draft /\ UNCHANGED <<history, owner>>
      BY <1>2 DEF PublishRun, Invocation
    <2>2. manifests' = [manifests EXCEPT ![owner] = inv.draft] /\ ValidGeneration(inv.draft, history)
      BY <1>2 DEF PublishRun, Publishable
    <2>3. Refers(inv.draft, history)
      BY <2>2 DEF ValidGeneration, Refers
    <2>4. Cites(inv.draft, history)
      BY <2>1 DEF GenerationInv
    <2>6. Backed(inv.draft, history)
      <3>1. inv.draft.result = "PASS" =>
              /\ inv.draft.captured = Len(history)
              /\ \A m \in Members : inv.draft.slots[m].blocking = Blockers(history, m)
        BY <2>1 DEF GenerationInv
      <3>2. SubSeq(history, 1, Len(history)) = history /\ Len(history) \in Nat
        BY WholePrefix DEF GateTypeOK
      <3>3. Len(history) <= Len(history)
        BY <3>2
      <3> QED
        BY <2>2, <3>1, <3>2, <3>3 DEF Backed
    <2>5. ASSUME NEW r \in Runs, manifests'[r] # None
          PROVE  /\ Cites(manifests'[r], history) /\ Refers(manifests'[r], history)
                 /\ Backed(manifests'[r], history)
      <3>1. manifests'[r] \in {inv.draft, manifests[r]}
        BY <2>2
      <3> QED
        BY <2>3, <2>4, <2>5, <2>6, <3>1 DEF GenerationInv
    <2>7. inv.draft.result = "PASS" =>
              /\ inv.draft.captured = Len(history)
              /\ \A m \in Members : inv.draft.slots[m].blocking = Blockers(history, m)
      BY <2>1 DEF GenerationInv
    <2>8. \A c \in Claims : inv.draft.claims[c] = ClaimResult(inv.draft.slots, c)
      BY <2>1 DEF GenerationInv
    <2> QED
      BY <2>1, <2>2, <2>4, <2>5, <2>7, <2>8 DEF GenerationInv
  <1>3. CASE RefuseRun \/ SettleRun \/ ReplaceCurrent \/ SyncCurrent
    <2>1. UNCHANGED manifests
      BY <1>3 DEF RefuseRun, SettleRun, ReplaceCurrent, SyncCurrent, disk
    <2>2. inv'.stage \in {"pointing", "replaced", "returning"}
      BY <1>3 DEF RefuseRun, SettleRun, ReplaceCurrent, SyncCurrent, Unpublished, Failed, Invocation
    <2> QED
      BY <1>0, <2>1, <2>2, GenerationFrame
  <1> QED
    BY <1>1, <1>2, <1>3 DEF Publish

\* Every step keeps the generations.
LEMMA GenerationKept ==
    ASSUME GateTypeOK, PointerInv, AttemptInv, GenerationInv, Next
    PROVE  GenerationInv'
  <1>0. Grows
    BY HistoryGrows
  <1>1. CASE (\E p \in Physicals : Worker(p)) \/ (\E m \in Members : Observer(m))
    BY <1>0, <1>1, WorkScheduled, GenerationFrame DEF disk
  <1>2. CASE Begin
    <2>1. inv'.stage = "preflight" /\ UNCHANGED manifests
      BY <1>2, IdleTyped DEF Begin, Invocation, disk
    <2> QED
      BY <1>0, <2>1, GenerationFrame
  <1>3. CASE Return
    <2>1. inv'.stage = "idle" /\ UNCHANGED manifests
      BY <1>3 DEF Return, Idle, disk
    <2> QED
      BY <1>0, <2>1, GenerationFrame
  <1>4. CASE Crash
    <2>1. inv'.stage = "idle"
      BY <1>4 DEF Crash, Idle
    <2>2. PICK lost : manifests' = [r \in Runs |-> IF r \in lost THEN None ELSE manifests[r]]
      BY <1>4 DEF Crash
    <2>3. \A r \in Runs : manifests'[r] \in {None, manifests[r]}
      BY <2>2
    <2> QED
      BY <1>0, <2>1, <2>3, GenerationFrame
  <1>5. CASE (\E q \in pending : Recover(q)) \/ Retire \/ Edit
    <2>1. inv'.stage = "idle" /\ UNCHANGED manifests
      BY <1>5 DEF Recover, Retire, Edit, Live, disk
    <2> QED
      BY <1>0, <2>1, GenerationFrame
  <1>6. CASE PreflightPasses \/ PreflightFails \/ ScheduleEnds \/ FinalScan
    BY <1>0, <1>6, FrameFacts, GenerationFrame DEF disk
  <1>7. CASE Cancel
    BY <1>7, CancelFacts DEF GenerationInv, disk
  <1> QED
    BY <1>1, <1>2, <1>3, <1>4, <1>5, <1>6, <1>7, GenerationAssesses, GenerationPublishes DEF Next

\* A committed artifact whose event is lost stays unaccounted for until the history grows.
LEMMA PendingStays ==
    ASSUME GateTypeOK, AttemptInv, Next, history' = history,
           NEW q \in pending, q.kind = "execution", q.committed, ~HasEvent(q)
    PROVE  \E s \in pending' : /\ s.kind = "execution" /\ s.committed
                              /\ s.attempt = q.attempt /\ s.member = q.member
  <1> pending \subseteq Pending /\ history \in Seq(Event) /\ Len(history) \in Nat
    BY DEF GateTypeOK
  <1>0. \A e : history' # Append(history, e)
    <2> SUFFICES ASSUME NEW e, history' = Append(history, e) PROVE FALSE
      OBVIOUS
    <2>1. Len(history) = Len(history) + 1
      BY AppendFacts
    <2> QED
      BY <2>1
  <1>1. ASSUME NEW p \in Physicals, Worker(p) PROVE q \in pending'
    <2>1. CASE Admit(p) \/ Hit(p) \/ NotDispatched(p)
      BY <2>1 DEF Admit, Hit, NotDispatched
    <2>2. CASE Dispatch(p)
      BY <2>2 DEF Dispatch
    <2>3. CASE ExecutionRecorded(p)
      BY <1>0, <2>3 DEF ExecutionRecorded
    <2>4. CASE ExecutionThrows(p)
      BY <1>0, <2>4 DEF ExecutionThrows
    <2>5. CASE CheckpointThrows(p)
      <3>1. PICK x \in pending, reached \in {"staged", "committed", "logged"} :
              /\ Running(p, x)
              /\ pending' = (pending \ {x}) \cup {[x EXCEPT !.committed = reached # "staged"]}
        BY <2>5 DEF CheckpointThrows
      <3>2. ~x.committed
        BY <3>1 DEF Running, At, AttemptInv
      <3> QED
        BY <3>1, <3>2
    <2> QED
      BY <1>1, <2>1, <2>2, <2>3, <2>4, <2>5 DEF Worker
  <1>2. ASSUME NEW m \in Members, Observer(m) PROVE q \in pending'
    <2>1. CASE BeginObservation(m) \/ ObservationNotBegun(m)
      BY <2>1 DEF BeginObservation, ObservationNotBegun
    <2>2. CASE ObservationRecorded(m)
      BY <1>0, <2>2 DEF ObservationRecorded
    <2>3. CASE ObservationThrows(m)
      <3>1. PICK x \in pending, reached \in {"begun", "committed", "logged"} :
              /\ Watched(m, x)
              /\ pending' = (pending \ {x}) \cup {[x EXCEPT !.committed = reached # "begun"]}
        BY <2>3 DEF ObservationThrows
      <3>2. x.kind = "observation"
        BY <3>1 DEF Watched
      <3> QED
        BY <3>1, <3>2
    <2> QED
      BY <1>2, <2>1, <2>2, <2>3 DEF Observer
  <1>3. ASSUME NEW x \in pending, Recover(x) PROVE q \in pending'
    BY <1>0, <1>3 DEF Recover
  <1>4. CASE Begin \/ Return \/ Retire \/ Edit
    BY <1>4 DEF Begin, Return, Retire, Edit
  <1>5. CASE PreflightPasses \/ PreflightFails \/ ScheduleEnds \/ FinalScan \/ Cancel \/ Assess \/ Publish
    BY <1>5, FrameFacts, CancelFacts, AssessFacts, PublishFacts
  <1>6. CASE Crash
    <2>1. PICK commits \in SUBSET pending :
            pending' = (pending \ commits) \cup {[x EXCEPT !.committed = TRUE] : x \in commits}
      BY <1>6 DEF Crash
    <2>2. CASE q \in commits
      <3>1. [q EXCEPT !.committed = TRUE] \in pending'
        BY <2>1, <2>2
      <3>2. /\ [q EXCEPT !.committed = TRUE].kind = "execution" /\ [q EXCEPT !.committed = TRUE].committed
            /\ [q EXCEPT !.committed = TRUE].attempt = q.attempt
            /\ [q EXCEPT !.committed = TRUE].member = q.member
        BY DEF Pending
      <3> QED
        BY <3>1, <3>2
    <2>3. CASE q \notin commits
      BY <2>1, <2>3
    <2> QED
      BY <2>2, <2>3
  <1> QED
    BY <1>1, <1>2, <1>3, <1>4, <1>5, <1>6 DEF Next

\* Nothing accounts for a committed result without an event.
LEMMA UnaccountedStays ==
    ASSUME GateTypeOK, AttemptInv, Next, history' = history, Unaccounted
    PROVE  Unaccounted'
  <1>1. PICK q \in pending : q.kind = "execution" /\ q.committed /\ ~HasEvent(q)
    BY DEF Unaccounted
  <1>2. PICK s \in pending' : /\ s.kind = "execution" /\ s.committed
                              /\ s.attempt = q.attempt /\ s.member = q.member
    BY <1>1, PendingStays
  <1>3. ~HasEvent(s)'
    BY <1>1, <1>2 DEF HasEvent
  <1> QED
    BY <1>2, <1>3 DEF Unaccounted

------------------------------------------------------------------------------
(* What the gate and the producer both take for a barrier and for a success.  *)

LEMMA ApplicableTouches ==
    ASSUME NEW h \in Seq(Event), Shaped(h), NEW i \in DOMAIN h, NEW m \in Members
    PROVE  Applicable(h[i], m) <=> \E n \in Touched(h[i]) : SameAssociation(n, m)
  <1>1. h[i] \in Event
    OBVIOUS
  <1>2. /\ h[i].kind = "execution" => h[i].member = NoMember
        /\ h[i].kind = "observation" => h[i].member # NoMember
        /\ h[i].kind \in {"execution", "observation", "indeterminate"}
    BY <1>1 DEF Shaped, Event, Kinds
  <1>3. CASE h[i].member = NoMember
    BY <1>2, <1>3 DEF Applicable, Touched
  <1>4. CASE h[i].member # NoMember
    <2>1. Applicable(h[i], m) <=> h[i].member \in MembersOf[h[i].key[1]] /\ SameAssociation(h[i].member, m)
      BY <1>2, <1>4 DEF Applicable
    <2>2. Touched(h[i]) = MembersOf[h[i].key[1]] \cap {h[i].member}
      BY <1>4 DEF Touched
    <2> QED
      BY <2>1, <2>2
  <1> QED
    BY <1>3, <1>4

\* The producer and the gate agree on the barriers of a member.
LEMMA GateBarriers ==
    ASSUME NEW h \in Seq(Event), Shaped(h), NEW m \in Members
    PROVE  /\ GateBlockers(h, m) = {i \in DOMAIN h : Against(h[i], m)}
           /\ Blockers(h, m) = {i \in DOMAIN h : Against(h[i], m)}
  <1>1. \A i \in DOMAIN h : Applicable(h[i], m) <=> \E n \in Touched(h[i]) : SameAssociation(n, m)
    BY ApplicableTouches
  <1>2. GateBlockers(h, m) = {i \in DOMAIN h : Against(h[i], m)}
    BY <1>1 DEF GateBlockers, Against
  <1>3. Blockers(h, m) = {i \in DOMAIN h : Against(h[i], m)}
    BY DEF Blockers, BarrierApplies, Against
  <1> QED
    BY <1>2, <1>3

\* A cited attempt has one execution event, on the version of the manifest.
LEMMA CitedKey ==
    ASSUME NEW g, NEW h \in Seq(Event), Shaped(h), Cites(g, h), NEW m \in Members,
           NEW i \in DOMAIN h, h[i].attempt = g.slots[m].execution
    PROVE  g.slots[m].execution # 0 /\ h[i].key = <<PhysicalOf(m), g.version>>
  <1>1. g.slots[m].execution # 0
    BY DEF Shaped
  <1>2. PICK j \in DOMAIN h : h[j].key = <<PhysicalOf(m), g.version>> /\ h[j].attempt = g.slots[m].execution
    BY <1>1 DEF Cites, ExecutedOn
  <1>3. h[i].key = h[j].key
    BY <1>2 DEF Shaped
  <1> QED
    BY <1>1, <1>2, <1>3

\* A passing execution past the barriers, observed for its own member, stands.
LEMMA CitedStands ==
    ASSUME NEW g, NEW h \in Seq(Event), Shaped(h), Cites(g, h), NEW m \in Members,
           NEW i \in DOMAIN h, NEW j \in DOMAIN h,
           h[i].kind = "execution", h[i].result = "PASS", h[i].attempt = g.slots[m].execution,
           \A k \in DOMAIN h : Against(h[k], m) => k < i,
           i < j, h[j].kind = "observation", h[j].result = "PASS",
           h[j].attempt = g.slots[m].execution, h[j].member = m
    PROVE  StandsBy(h, i, m, g.version)
  <1>1. h[i].key = <<PhysicalOf(m), g.version>>
    BY CitedKey
  <1>2. \A k \in DOMAIN h : k > i => ~Against(h[k], m)
    <2> SUFFICES ASSUME NEW k \in DOMAIN h, k > i, k < i PROVE FALSE
      OBVIOUS
    <2>1. k \in Int /\ i \in Int
      OBVIOUS
    <2> QED
      BY <2>1
  <1>3. j > i
    OBVIOUS
  <1> QED
    BY <1>1, <1>2, <1>3 DEF StandsBy

\* The artifact a slot cites is on the version of its manifest, and is its only one.
LEMMA ArtifactFacts ==
    ASSUME NEW g, NEW h \in Seq(Event), Shaped(h), Cites(g, h), NEW m \in Members,
           g.slots[m].execution # 0
    PROVE  /\ ArtifactVersion(h, g.slots[m].execution) = g.version
           /\ \A i \in DOMAIN h : h[i].kind = "execution" /\ h[i].attempt = g.slots[m].execution
                                     => ArtifactResult(h, g.slots[m].execution) = h[i].result
  <1> DEFINE attempt == g.slots[m].execution
             x == CHOOSE i \in DOMAIN h : h[i].kind = "execution" /\ h[i].attempt = attempt
  <1>1. \E i \in DOMAIN h : h[i].kind = "execution" /\ h[i].attempt = attempt
    BY DEF Cites, ExecutedOn
  <1>2. x \in DOMAIN h /\ h[x].kind = "execution" /\ h[x].attempt = attempt
    BY <1>1, Zenon
  <1>3. ArtifactVersion(h, attempt) = h[x].key[2] /\ ArtifactResult(h, attempt) = h[x].result
    BY DEF ArtifactVersion, ArtifactResult
  <1> HIDE DEF x
  <1>4. h[x].key = <<PhysicalOf(m), g.version>>
    BY <1>2, CitedKey
  <1>5. \A i \in DOMAIN h : h[i].kind = "execution" /\ h[i].attempt = attempt => i = x
    BY <1>2 DEF Shaped
  <1> QED
    BY <1>3, <1>4, <1>5

\* An eligible execution stands: it passed after every barrier, and what it was observed
\* for can only be this member.
LEMMA EligibleStands ==
    ASSUME NEW g, NEW h \in Seq(Event), Shaped(h), Cites(g, h), NEW m \in Members,
           GateEligible(h, g.slots[m].execution, m)
    PROVE  \E i \in DOMAIN h : h[i].attempt = g.slots[m].execution /\ StandsBy(h, i, m, g.version)
  <1> DEFINE attempt == g.slots[m].execution
  <1>1. PICK i \in Successes(h, attempt) : \A j \in GateBlockers(h, m) : j < i
    BY DEF GateEligible
  <1>2. PICK j \in GateObserved(h, attempt, m) : TRUE
    BY DEF GateEligible
  <1>3. i \in DOMAIN h /\ h[i].kind = "execution" /\ h[i].result = "PASS" /\ h[i].attempt = attempt
    BY <1>1 DEF Successes
  <1>4. /\ j \in DOMAIN h /\ h[j].kind = "observation" /\ h[j].result = "PASS" /\ h[j].attempt = attempt
        /\ Applicable(h[j], m) /\ i < j
    BY <1>1, <1>2 DEF GateObserved
  <1>5. h[j].key[1] = PhysicalOf(m)
    BY <1>4, CitedKey
  <1>6. h[j].member \in MembersOf[PhysicalOf(m)] /\ SameAssociation(h[j].member, m)
    BY <1>4, <1>5 DEF Applicable
  <1>7. h[j].member = m
    BY <1>6, PhysicalFacts, PublicationAssumption
  <1>8. \A k \in DOMAIN h : Against(h[k], m) => k < i
    BY <1>1, GateBarriers
  <1>9. StandsBy(h, i, m, g.version)
    BY <1>3, <1>4, <1>7, <1>8, CitedStands
  <1> QED
    BY <1>3, <1>9

\* A failure that stands is not superseded for the gate.
LEMMA FailureRemains ==
    ASSUME NEW g, NEW h \in Seq(Event), Shaped(h), Cites(g, h), NEW m \in Members,
           StandsFailed(h, m, g.version)
    PROVE  /\ ~GateEligible(h, g.slots[m].execution, m)
           /\ FailsAt(h, Remaining(h, g.slots[m].execution, m))
  <1>1. ~GateEligible(h, g.slots[m].execution, m)
    BY EligibleStands DEF StandsFailed
  <1>2. PICK j \in DOMAIN h : h[j].result = "FAIL" /\ Against(h[j], m)
    BY DEF StandsFailed
  <1>3. j \in Remaining(h, g.slots[m].execution, m)
    BY <1>1, <1>2, GateBarriers DEF Remaining
  <1> QED
    BY <1>1, <1>2, <1>3 DEF FailsAt

------------------------------------------------------------------------------
(* What the gate concludes of a slot.                                      *)

\* A failure that stands makes the slot FAIL, at the first reading and at the second.
LEMMA SlotFails ==
    ASSUME NEW g, NEW h \in Seq(Event), Shaped(h), Cites(g, h), NEW m \in Members, NEW now,
           StandsFailed(h, m, g.version)
    PROVE  GateSlot(g, h, m, now) = "FAIL" /\ \A state : Later(g, h, m, state) = "FAIL"
  <1>1. ~GateEligible(h, g.slots[m].execution, m)
    BY FailureRemains
  <1>2. \A otherwise : Barred(h, g.slots[m].execution, m, otherwise) = "FAIL"
    BY FailureRemains DEF Barred
  <1> QED
    BY <1>1, <1>2 DEF GateSlot, Later

\* What the gate demands of a slot it finds to PASS.
LEMMA SlotPasses ==
    ASSUME NEW g \in Manifest, NEW h \in Seq(Event), Refers(g, h), NEW m \in Members, NEW now,
           GateSlot(g, h, m, now) = "PASS"
    PROVE  /\ g.slots[m].execution # 0 /\ ArtifactVersion(h, g.slots[m].execution) = now
           /\ g.slots[m].observation # 0 /\ ReceiptBinds(g.slots[m], h, m)
           /\ GateEligible(h, g.slots[m].execution, m)
           /\ g.slots[m].observation \in GateObserved(h, g.slots[m].execution, m)
  <1> DEFINE a == g.slots[m]
             saved == Barred(h, a.execution, m, a.state)
             outcome == h[a.observation].result
             fails == FailsAt(h, Remaining(h, a.execution, m))
             result == ArtifactResult(h, a.execution)
  <1>1. ~Contradicts(g, h, m, now)
    BY DEF GateSlot
  <1>2. /\ a.execution = 0 => ~(a.state \in {"PASS", "FAIL"} /\ ~fails)
        /\ a.execution # 0 => /\ ArtifactVersion(h, a.execution) = now
                              /\ ~(result # "PASS" /\ a.state # result /\ ~fails)
                              /\ ~(result = "PASS" /\ a.observation = 0)
                              /\ ~(/\ result = "PASS" /\ a.observation # 0
                                   /\ outcome \in {"PASS", "FAIL"}
                                   /\ GateEligible(h, a.execution, m)
                                   /\ a.observation \notin GateObserved(h, a.execution, m))
    BY <1>1 DEF Contradicts
  <1>3. saved = "PASS" => a.state = "PASS" /\ ~fails
    BY DEF Barred
  <1>4. a.execution # 0 /\ result = "PASS"
    <2> SUFFICES ASSUME a.execution = 0 \/ result # "PASS" PROVE FALSE
      OBVIOUS
    <2>1. GateSlot(g, h, m, now) = saved
      BY <1>1 DEF GateSlot
    <2> HIDE DEF saved, fails, result, a
    <2> QED
      BY <1>2, <1>3, <2>1
  <1>5. a.observation # 0
    BY <1>2, <1>4
  <1>6. ReceiptBinds(a, h, m)
    BY <1>5 DEF Refers
  <1>7. outcome \in {"PASS", "FAIL", "ERROR", "CANCELLED"}
    <2>1. h[a.observation] \in Event
      BY <1>6 DEF ReceiptBinds
    <2> QED
      BY <2>1 DEF Event, Results
  <1>8. outcome \notin {"ERROR", "CANCELLED"}
    BY <1>1, <1>4 DEF GateSlot
  <1>9. GateEligible(h, a.execution, m)
    <2> SUFFICES ASSUME ~GateEligible(h, a.execution, m) PROVE FALSE
      OBVIOUS
    <2>1. GateSlot(g, h, m, now) = Barred(h, a.execution, m, "MISSING")
      BY <1>1, <1>4, <1>8 DEF GateSlot
    <2> QED
      BY <2>1 DEF Barred
  <1> QED
    BY <1>2, <1>4, <1>5, <1>6, <1>7, <1>8, <1>9

------------------------------------------------------------------------------
(* The steps of the gate.                                                  *)

\* Whatever the invocations do while the gate works keeps what it concluded.
LEMMA GateWaits ==
    ASSUME GateTypeOK, AttemptInv, GateInv, gate.at # "done", Next, UNCHANGED gate
    PROVE  GateInv'
  <1> Grows /\ gate \in Gate
    BY HistoryGrows DEF GateTypeOK
  <1>1. gate.at # "idle" => /\ gate.manifest \in Manifest
                            /\ Cites(gate.manifest, history') /\ Refers(gate.manifest, history')
                            /\ Backed(gate.manifest, history')
    BY CitesStays, BackedStays DEF GateInv
  <1>2. gate.at = "assessed" => gate.seen <= Len(history') /\ Seen' = Seen
    <2> SUFFICES ASSUME gate.at = "assessed" PROVE gate.seen <= Len(history') /\ Seen' = Seen
      OBVIOUS
    <2>1. gate.seen \in Nat /\ gate.seen <= Len(history)
      BY DEF Gate, GateInv
    <2>3. Len(history) \in Nat /\ Len(history') \in Nat /\ Len(history) <= Len(history')
      BY GrownFacts DEF GateTypeOK
    <2> QED
      BY <2>1, <2>3, PrefixStays DEF Seen
  <1>3. GateSound' /\ GateReportsFailures'
    BY DEF GateSound, GateReportsFailures
  <1>4. gate.at = "assessed" /\ gate.errors /\ gate.seen = Len(history') =>
          Unaccounted' \/ \E m \in Members : Contradicts(gate.manifest, Seen', m, gate.inputs)
    <2> SUFFICES ASSUME gate.at = "assessed", gate.errors, gate.seen = Len(history'),
                        \A m \in Members : ~Contradicts(gate.manifest, Seen', m, gate.inputs)
                 PROVE  Unaccounted'
      OBVIOUS
    <2>1. gate.seen \in Nat /\ gate.seen <= Len(history) /\ Len(history) \in Nat
      BY DEF Gate, GateInv, GateTypeOK
    <2>2. history' = history
      BY <2>1, GrowsOrStays
    <2>3. Unaccounted
      BY <1>2, <2>2 DEF GateInv
    <2> QED
      BY <2>2, <2>3, UnaccountedStays
  <1> QED
    BY <1>1, <1>2, <1>3, <1>4 DEF GateInv

\* The three steps of the gate.
LEMMA GateReads ==
    ASSUME GateTypeOK, GenerationInv, GateRead
    PROVE  GateInv'
  <1>1. current \in Runs /\ manifests[current] \in Manifest
    BY DEF GateRead, GateTypeOK
  <1>2. gate'.at = "loaded" /\ gate'.manifest = manifests[current] /\ history' = history
    BY DEF GateRead, NoGate, vars
  <1>3. manifests[current] # None
    BY DEF GateRead
  <1>4. /\ Cites(manifests[current], history) /\ Refers(manifests[current], history)
        /\ Backed(manifests[current], history)
    BY <1>1, <1>3 DEF GenerationInv
  <1> QED
    BY <1>1, <1>2, <1>4 DEF GateInv, GateSound, GateReportsFailures

LEMMA GateAssesses ==
    ASSUME GateTypeOK, GateInv, GateAssess
    PROVE  GateInv'
  <1> history \in Seq(Event) /\ Len(history) \in Nat /\ gate \in Gate
    BY DEF GateTypeOK
  <1> DEFINE states == [m \in Members |-> GateSlot(gate.manifest, history, m, inputs)]
             rows == [c \in Claims |-> Row(states, c)]
             errors == Unaccounted \/ \E m \in Members : Contradicts(gate.manifest, history, m, inputs)
  <1>1. gate.at = "loaded" /\ UNCHANGED <<history, inputs>>
    BY DEF GateAssess, vars
  <1>2. gate' = [gate EXCEPT !.at = "assessed", !.inputs = inputs, !.seen = Len(history),
                             !.states = states, !.rows = rows, !.errors = errors]
    BY DEF GateAssess
  <1> HIDE DEF errors
  <1>3. /\ gate'.at = "assessed" /\ gate'.manifest = gate.manifest /\ gate'.inputs = inputs
        /\ gate'.seen = Len(history) /\ gate'.states = states /\ gate'.rows = rows
        /\ gate'.errors = errors
    <2> HIDE DEF states, rows
    <2> QED
      BY <1>2 DEF Gate
  <1>4. Seen' = history
    BY <1>1, <1>3, WholePrefix DEF Seen
  <1>5. gate'.seen <= Len(history')
    BY <1>1, <1>3
  <1>6. /\ gate.manifest \in Manifest /\ Cites(gate.manifest, history) /\ Refers(gate.manifest, history)
        /\ Backed(gate.manifest, history)
    BY <1>1 DEF GateInv
  <1>8. gate.manifest.result = "PASS" => gate.manifest.captured <= Len(history)
    BY <1>6 DEF Backed
  <1>9. errors => Unaccounted' \/ \E m \in Members : Contradicts(gate'.manifest, Seen', m, gate'.inputs)
    <2>1. Unaccounted' <=> Unaccounted
      BY DEF GateAssess, vars, Unaccounted, HasEvent
    <2> QED
      BY <1>3, <1>4, <2>1 DEF errors
  <1>7. /\ gate'.states = [m \in Members |-> GateSlot(gate'.manifest, Seen', m, gate'.inputs)]
        /\ gate'.rows = [c \in Claims |-> Row(gate'.states, c)]
    BY <1>3, <1>4
  <1> HIDE DEF states, rows
  <1> QED
    BY <1>1, <1>3, <1>4, <1>5, <1>6, <1>7, <1>8, <1>9 DEF GateInv, GateSound, GateReportsFailures

\* A slot the gate takes for PASS on the prefix it read, and still for eligible on the
\* whole history, stands there.
LEMMA LaterStands ==
    ASSUME GateTypeOK, Shaped(history), NEW n \in Nat, n <= Len(history),
           NEW g \in Manifest, Cites(g, history), Refers(g, history),
           Cites(g, SubSeq(history, 1, n)), Refers(g, SubSeq(history, 1, n)), NEW m \in Members, NEW now,
           GateSlot(g, SubSeq(history, 1, n), m, now) = "PASS",
           GateEligible(history, g.slots[m].execution, m)
    PROVE  \E i \in DOMAIN history : /\ history[i].attempt = g.slots[m].execution
                                     /\ StandsBy(history, i, m, now)
  <1> DEFINE s == SubSeq(history, 1, n)
  <1> history \in Seq(Event)
    BY DEF GateTypeOK
  <1>1. s \in Seq(Event) /\ Shaped(s)
    BY PrefixFacts, PrefixShaped
  <1>2. g.slots[m].execution # 0 /\ ArtifactVersion(s, g.slots[m].execution) = now
    BY <1>1, SlotPasses
  <1>3. ArtifactVersion(s, g.slots[m].execution) = g.version
    BY <1>1, <1>2, ArtifactFacts
  <1> QED
    BY <1>2, <1>3, EligibleStands

\* The second reading and the verdict.
LEMMA GateFinishes ==
    ASSUME GateTypeOK, AttemptInv, GateInv, GateFinish
    PROVE  GateInv'
  <1> history \in Seq(Event) /\ Len(history) \in Nat /\ gate \in Gate /\ Shaped(history)
    BY DEF GateTypeOK, AttemptInv
  <1> DEFINE g == gate.manifest
             grown == Len(history) # gate.seen
             states == [m \in Members |-> IF grown THEN Later(g, history, m, gate.states[m]) ELSE gate.states[m]]
             latest == [c \in Claims |-> IF grown THEN LaterRow(states, c, gate.rows[c]) ELSE gate.rows[c]]
             rows == [c \in Claims |->
                        IF latest[c] = "PASS" /\ \E d \in DependsOn[c] : latest[d] # "PASS"
                        THEN "INCOMPLETE" ELSE latest[c]]
             errors == gate.errors \/ Unaccounted
             verdict == IF inputs # gate.inputs
                        THEN (IF \E c \in Required : rows[c] = "FAIL" THEN "FAILED" ELSE "ERROR")
                        ELSE VerdictOf(rows, errors, g)
  <1>1. gate.at = "assessed" /\ UNCHANGED <<history, inputs>>
    BY DEF GateFinish, vars
  <1>2. gate' = [gate EXCEPT !.at = "done", !.seen = Len(history), !.states = states, !.rows = rows,
                             !.errors = errors, !.verdict = verdict]
    BY DEF GateFinish
  <1>3. /\ gate'.at = "done" /\ gate'.manifest = g /\ gate'.inputs = gate.inputs
        /\ gate'.seen = Len(history) /\ gate'.verdict = verdict
    <2> HIDE DEF states, rows, errors, verdict
    <2> QED
      BY <1>2 DEF Gate
  <1>4. Seen' = history
    BY <1>1, <1>3, WholePrefix DEF Seen
  <1>5. /\ g \in Manifest /\ Cites(g, history) /\ Refers(g, history) /\ Backed(g, history)
        /\ gate.seen \in Nat /\ gate.seen <= Len(history)
        /\ Cites(g, Seen) /\ Refers(g, Seen)
        /\ gate.states = [m \in Members |-> GateSlot(g, Seen, m, gate.inputs)]
        /\ gate.rows = [c \in Claims |-> Row(gate.states, c)]
    BY <1>1 DEF GateInv, Gate
  <1>6. Seen \in Seq(Event) /\ Shaped(Seen)
    BY <1>5, PrefixFacts, PrefixShaped DEF Seen
  <1>7. ~grown => Seen = history
    BY WholePrefix DEF Seen
  <1>8. \A m \in Members : ClaimOf[m] \in Claims /\ m \in SlotsOf(ClaimOf[m])
    BY DEF Claims, SlotsOf
  <1>9. ASSUME NEW m \in Members, ClaimOf[m] \in Required, verdict = "VERIFIED"
        PROVE  \E i \in DOMAIN history : /\ history[i].attempt = g.slots[m].execution
                                         /\ StandsBy(history, i, m, gate.inputs)
    <2> DEFINE c == ClaimOf[m]
    <2>1. rows[c] = "PASS"
      <3> HIDE DEF rows
      <3> QED
        BY <1>9 DEF VerdictOf
    <2>2. latest[c] = "PASS"
      <3> HIDE DEF latest
      <3> QED
        BY <2>1, <1>8
    <2>3. CASE ~grown
      <3>1. Row(gate.states, c) = "PASS"
        BY <1>5, <1>8, <2>2, <2>3
      <3>2. gate.states[m] = "PASS"
        BY <1>8, <3>1 DEF Row
      <3>3. GateSlot(g, Seen, m, gate.inputs) = "PASS"
        BY <1>5, <3>2
      <3>4. GateEligible(Seen, g.slots[m].execution, m)
        BY <1>5, <1>6, <3>3, SlotPasses
      <3>5. GateEligible(history, g.slots[m].execution, m)
        BY <1>7, <2>3, <3>4
      <3> QED
        BY <1>5, <3>3, <3>5, LaterStands DEF Seen
    <2>4. CASE grown
      <3>1. LaterRow(states, c, gate.rows[c]) = "PASS"
        <4> HIDE DEF states
        <4> QED
          BY <1>8, <2>2, <2>4
      <3>2. states[m] = "PASS"
        <4> HIDE DEF states
        <4> QED
          BY <1>8, <3>1 DEF LaterRow
      <3>3. Later(g, history, m, gate.states[m]) = "PASS"
        BY <2>4, <3>2
      <3>4. gate.states[m] = "PASS" /\ GateEligible(history, g.slots[m].execution, m)
        BY <3>3 DEF Later, Barred
      <3>5. GateSlot(g, Seen, m, gate.inputs) = "PASS"
        BY <1>5, <3>4
      <3> QED
        BY <1>5, <3>4, <3>5, LaterStands DEF Seen
    <2> QED
      BY <2>3, <2>4
  <1>10. ASSUME NEW m \in Members, ClaimOf[m] \in Required, StandsFailed(history, m, g.version)
         PROVE  verdict = "FAILED"
    <2> DEFINE c == ClaimOf[m]
    <2>1. states[m] = "FAIL"
      <3>1. CASE grown
        <4>1. \A state : Later(g, history, m, state) = "FAIL"
          BY <1>5, <1>10, SlotFails
        <4> QED
          BY <3>1, <4>1
      <3>2. CASE ~grown
        <4>1. GateSlot(g, Seen, m, gate.inputs) = "FAIL"
          BY <1>5, <1>7, <1>10, <3>2, SlotFails
        <4> QED
          BY <1>5, <3>2, <4>1
      <3> QED
        BY <3>1, <3>2
    <2>2. latest[c] = "FAIL"
      <3>1. CASE grown
        <4> HIDE DEF states
        <4>1. LaterRow(states, c, gate.rows[c]) = "FAIL"
          BY <1>8, <2>1 DEF LaterRow
        <4> QED
          BY <1>8, <3>1, <4>1
      <3>2. CASE ~grown
        <4>1. gate.states[m] = "FAIL"
          BY <2>1, <3>2
        <4>2. Row(gate.states, c) = "FAIL"
          BY <1>8, <4>1 DEF Row
        <4> QED
          BY <1>5, <1>8, <3>2, <4>2
      <3> QED
        BY <3>1, <3>2
    <2>3. rows[c] = "FAIL"
      <3> HIDE DEF latest
      <3> QED
        BY <1>8, <2>2
    <2> HIDE DEF rows
    <2> QED
      BY <1>10, <2>3 DEF VerdictOf
  <1> HIDE DEF verdict
  <1>11. GateSound'
    BY <1>3, <1>4, <1>1, <1>9 DEF GateSound
  <1>12. GateReportsFailures'
    BY <1>3, <1>4, <1>10 DEF GateReportsFailures
  <1> QED
    BY <1>1, <1>3, <1>5, <1>11, <1>12 DEF GateInv

------------------------------------------------------------------------------
(* The inductive invariant is kept.                                        *)

IInv == /\ GateTypeOK
        /\ inv.captured <= Len(history)
        /\ PointerInv
        /\ AttemptInv
        /\ GenerationInv
        /\ GateInv

\* The invariant holds at first and is kept by every step.
LEMMA InitHolds == GateInit => IInv
  <1> SUFFICES ASSUME GateInit PROVE IInv
    OBVIOUS
  <1>1. /\ history = <<>> /\ pending = {} /\ owner = 0
        /\ manifests = [r \in Runs |-> None] /\ settled = {} /\ current = 0 /\ synced = 0
        /\ inputs \in Versions /\ inv = Idle /\ returned = [run |-> 0, result |-> "INCOMPLETE"]
        /\ begun = 0 /\ attempts = 0 /\ troubles = 0 /\ edits = 0 /\ gate = NoGate
    BY DEF GateInit, Init
  <1>2. inv.stage = "idle" /\ inv.captured = 0 /\ gate.at = "idle"
    BY <1>1 DEF Idle, NoGate
  <1>3. GateTypeOK
    <2>1. NoGate \in Gate
      BY StateNames DEF NoGate, Gate, GateVerdicts
    <2>2. <<>> \in Seq(Event) /\ "INCOMPLETE" \in Verdicts
      BY StateNames
    <2> QED
      BY <1>1, <2>1, <2>2, IdleTyped DEF GateTypeOK
  <1>4. Len(history) = 0 /\ DOMAIN history = {}
    BY <1>1
  <1>5. PointerInv
    BY <1>1, <1>2 DEF PointerInv, Early, Live, AcknowledgedStays
  <1>6. AttemptInv
    BY <1>1, <1>2, <1>4 DEF AttemptInv, Bound, Shaped, Live
  <1>7. GenerationInv
    BY <1>1, <1>2 DEF GenerationInv
  <1>8. GateInv
    BY <1>2 DEF GateInv, GateSound, GateReportsFailures
  <1> QED
    BY <1>2, <1>3, <1>4, <1>5, <1>6, <1>7, <1>8 DEF IInv

LEMMA TypeKept ==
    ASSUME GateTypeOK, inv.captured <= Len(history), PointerInv, Next, UNCHANGED gate
    PROVE  GateTypeOK'
  <1>1. ASSUME NEW p \in Physicals, Worker(p) PROVE GateTypeOK'
    BY <1>1, AdmitTyped, DispatchTyped, ExecutionRecordedTyped, ExecutionThrowsTyped, CheckpointThrowsTyped
       DEF Worker
  <1>2. ASSUME NEW m \in Members, Observer(m) PROVE GateTypeOK'
    BY <1>2, BeginObservationTyped, ObservationTyped DEF Observer
  <1>3. ASSUME NEW q \in pending, Recover(q) PROVE GateTypeOK'
    BY <1>3, RecoverTyped
  <1>4. CASE Publish
    <2>1. owner \in Runs
      BY <1>4, PublishFacts DEF PointerInv, GateTypeOK
    <2>2. inv.stage \in {"writing", "replaced"} => inv.draft \in Manifest
      BY DEF PointerInv
    <2> QED
      BY <1>4, <2>1, <2>2, PublishTyped
  <1> QED
    BY <1>1, <1>2, <1>3, <1>4, BeginTyped, PreflightTyped, CancelTyped, ScheduleEndsTyped, AssessTypedStep,
       ReturnTyped, CrashTyped, BetweenTyped DEF Next

LEMMA StoreUnchanged ==
    ASSUME UNCHANGED vars
    PROVE  /\ inv.captured <= Len(history) => inv'.captured <= Len(history')
           /\ PointerInv => PointerInv'
           /\ AttemptInv => AttemptInv'
           /\ GenerationInv => GenerationInv'
  <1>1. UNCHANGED <<history, pending, owner, manifests, settled, current, synced, inputs, inv, returned,
                    begun, attempts, troubles, edits>>
    BY DEF vars, disk, counts
  <1> QED
    BY <1>1 DEF PointerInv, AttemptInv, GenerationInv, AcknowledgedStays, Live, Bound, KeyOfMember, KeyOf

LEMMA NextKeeps == IInv /\ [GateNext]_allvars => IInv'
  <1> SUFFICES ASSUME IInv, [GateNext]_allvars PROVE IInv'
    OBVIOUS
  <1>0. GateTypeOK /\ inv.captured <= Len(history) /\ PointerInv /\ AttemptInv /\ GenerationInv /\ GateInv
    BY DEF IInv
  <1>1. CASE gate.at # "done" /\ Next /\ UNCHANGED gate
    <2>1. GateTypeOK' /\ inv'.captured <= Len(history') /\ PointerInv'
      BY <1>0, <1>1, TypeKept, CapturedKept, PointerKept
    <2>2. AttemptInv' /\ GenerationInv' /\ GateInv'
      BY <1>0, <1>1, AttemptKept, GenerationKept, GateWaits DEF PointerInv
    <2> QED
      BY <2>1, <2>2 DEF IInv
  <1>2. CASE GateRead \/ GateAssess \/ GateFinish
    <2>1. UNCHANGED vars
      BY <1>2 DEF GateRead, GateAssess, GateFinish
    <2>2. GateTypeOK'
      BY <1>0, <1>2, GateTyped DEF GateInv
    <2>3. GateInv'
      BY <1>0, <1>2, GateReads, GateAssesses, GateFinishes
    <2> QED
      BY <1>0, <2>1, <2>2, <2>3, StoreUnchanged DEF IInv
  <1>3. CASE UNCHANGED allvars
    <2>1. UNCHANGED vars /\ UNCHANGED gate
      BY <1>3 DEF allvars
    <2>2. GateTypeOK'
      BY <1>0, <2>1 DEF GateTypeOK, vars, disk, counts
    <2>3. GateInv'
      BY <1>0, <2>1 DEF GateInv, GateSound, GateReportsFailures, Seen, vars, Unaccounted, HasEvent
    <2> QED
      BY <1>0, <2>1, <2>2, <2>3, StoreUnchanged DEF IInv
  <1> QED
    BY <1>1, <1>2, <1>3 DEF GateNext

\* The inductive invariant holds of every step of every invocation and of the gate.
THEOREM GateInvariant == GateSpec => []IInv
  <1>1. GateInit => IInv
    BY InitHolds
  <1>2. IInv /\ [GateNext]_allvars => IInv'
    BY NextKeeps
  <1> QED
    BY <1>1, <1>2, PTL DEF GateSpec

------------------------------------------------------------------------------
(* What the inductive invariant says of the published generations.         *)

\* A slot that validateGeneration accepts as PASS cites an execution that stands.
LEMMA SlotStandsBy ==
    ASSUME NEW g, NEW h \in Seq(Event), Shaped(h), Cites(g, h), NEW m \in Members,
           SlotStands(g.slots[m], h, m)
    PROVE  \E i \in DOMAIN h : h[i].attempt = g.slots[m].execution /\ StandsBy(h, i, m, g.version)
  <1>1. PICK i \in DOMAIN h : /\ h[i].kind = "execution" /\ h[i].result = "PASS"
                              /\ h[i].attempt = g.slots[m].execution
                              /\ PastCutoff(h, i, m)
                              /\ Observed(h, i, m)
    BY DEF SlotStands
  <1>2. \A k \in DOMAIN h : Against(h[k], m) => k < i
    BY <1>1, GateBarriers DEF PastCutoff
  <1>3. PICK j \in DOMAIN h : /\ i < j /\ h[j].kind = "observation" /\ h[j].result = "PASS"
                              /\ h[j].attempt = h[i].attempt /\ h[j].member = m
    BY <1>1 DEF Observed, Observations
  <1> QED
    BY <1>1, <1>2, <1>3, CitedStands

\* The generation whose run.json has just appeared.
LEMMA Settling ==
    ASSUME IInv, inv.stage = "settling"
    PROVE  /\ history \in Seq(Event) /\ Shaped(history) /\ Upto(Len(history)) = history
           /\ Len(history) \in Spoken(manifests[owner])
           /\ Cites(manifests[owner], history) /\ ValidGeneration(manifests[owner], history)
           /\ \A c \in Claims : manifests[owner].claims[c] = ClaimResult(manifests[owner].slots, c)
           /\ manifests[owner].result = "PASS" => manifests[owner].captured = Len(history)
           /\ \A m \in Members : manifests[owner].slots[m].state = "PASS" =>
                 \E i \in DOMAIN history : /\ history[i].attempt = manifests[owner].slots[m].execution
                                           /\ StandsBy(history, i, m, manifests[owner].version)
  <1>1. history \in Seq(Event) /\ Shaped(history) /\ manifests[owner] = inv.draft
    BY DEF IInv, GateTypeOK, AttemptInv, PointerInv
  <1> DEFINE g == manifests[owner]
  <1>2. /\ Cites(g, history) /\ ValidGeneration(g, history)
        /\ \A c \in Claims : g.claims[c] = ClaimResult(g.slots, c)
        /\ g.result = "PASS" => g.captured = Len(history)
    BY <1>1 DEF IInv, GenerationInv
  <1>3. \A m \in Members : g.slots[m].state = "PASS" =>
           \E i \in DOMAIN history : /\ history[i].attempt = g.slots[m].execution
                                     /\ StandsBy(history, i, m, g.version)
    <2> HIDE DEF g
    <2>1. \A m \in Members : g.slots[m].state = "PASS" => SlotStands(g.slots[m], history, m)
      BY <1>2 DEF ValidGeneration
    <2> QED
      BY <1>1, <1>2, <2>1, SlotStandsBy
  <1>4. Upto(Len(history)) = history /\ Len(history) \in Spoken(g)
    BY <1>1, WholePrefix DEF Upto, Spoken
  <1> QED
    BY <1>1, <1>2, <1>3, <1>4

\* The invariant gives what a published generation promises.
LEMMA PassStands == ASSUME IInv PROVE PublishedPassStands
  <1> SUFFICES ASSUME inv.stage = "settling" PROVE PublishedPassStands
    BY DEF PublishedPassStands
  <1> DEFINE g == manifests[owner]
             cited(m, n) == \E i \in 1 .. n : /\ history[i].attempt = g.slots[m].execution
                                              /\ StandsBy(Upto(n), i, m, g.version)
             n == Len(history)
  <1>1. DOMAIN history = 1 .. n /\ Upto(n) = history /\ n \in Spoken(g)
    BY Settling
  <1>2. ASSUME NEW c \in Claims, g.claims[c] = "PASS"
        PROVE  /\ \A m \in SlotsOf(c) : cited(m, n)
               /\ \A d \in DependsOn[c] : g.claims[d] = "PASS"
    <2>1. \A d \in Claims : g.claims[d] = ClaimResult(g.slots, d)
      BY Settling
    <2>2. MemberResult(g.slots, c) = "PASS" /\ \A d \in DependsOn[c] : MemberResult(g.slots, d) = "PASS"
      BY <1>2, <2>1 DEF ClaimResult
    <2>3. \A m \in SlotsOf(c) : g.slots[m].state = "PASS"
      <3> HIDE DEF g
      <3> QED
        BY <2>2 DEF MemberResult
    <2>4. \A m \in SlotsOf(c) : cited(m, n)
      <3>1. SlotsOf(c) \subseteq Members
        BY DEF SlotsOf
      <3> QED
        BY <1>1, <2>3, <3>1, Settling
    <2>5. ASSUME NEW d \in DependsOn[c] PROVE g.claims[d] = "PASS"
      <3>1. d \in Claims /\ DependsOn[d] = {}
        BY PublicationAssumption
      <3> HIDE DEF g
      <3> QED
        BY <2>1, <2>2, <3>1 DEF ClaimResult
    <2> QED
      BY <2>4, <2>5
  <1>3. ASSUME g.result = "PASS"
        PROVE  g.captured = n /\ \A c \in Required : c \in Claims /\ g.claims[c] = "PASS"
    <2>1. ValidGeneration(g, history) /\ g.captured = n
      BY <1>3, Settling
    <2> HIDE DEF g
    <2>2. \A c \in Required : g.claims[c] = "PASS"
      BY <1>3, <2>1 DEF ValidGeneration
    <2> QED
      BY <2>1, <2>2, PublicationAssumption
  <1> HIDE DEF cited, n
  <1>4. /\ \A c \in Claims : g.claims[c] = "PASS" =>
              /\ \E k \in Spoken(g) : \A m \in SlotsOf(c) : cited(m, k)
              /\ \A d \in DependsOn[c] : g.claims[d] = "PASS"
        /\ g.result = "PASS" => \A c \in Required : /\ g.claims[c] = "PASS"
                                                    /\ \A m \in SlotsOf(c) : cited(m, g.captured)
    <2> HIDE DEF g
    <2> QED
      BY <1>1, <1>2, <1>3
  <1> QED
    BY <1>4 DEF PublishedPassStands, cited

LEMMA FailuresStand == ASSUME IInv PROVE FailuresReported
  <1> DEFINE g == manifests[owner]
  <1> SUFFICES ASSUME inv.stage = "settling", NEW m \in Members, ClaimOf[m] \in Required,
                      \A n \in Spoken(g) : StandsFailed(Upto(n), m, g.version)
               PROVE  g.result = "FAIL"
    BY DEF FailuresReported
  <1>1. StandsFailed(history, m, g.version)
    BY Settling
  <1>2. g.slots[m].state # "PASS"
    BY <1>1, Settling DEF StandsFailed
  <1>3. \E i \in Blockers(history, m) : history[i].result = "FAIL"
    BY <1>1, Settling, GateBarriers DEF StandsFailed
  <1>4. ValidGeneration(g, history)
    BY Settling
  <1> HIDE DEF g
  <1>5. g.slots[m].state = "FAIL"
    BY <1>2, <1>3, <1>4 DEF ValidGeneration, HidesFailure
  <1>6. MemberResult(g.slots, ClaimOf[m]) = "FAIL"
    BY <1>5 DEF MemberResult, SlotsOf
  <1>7. g.claims[ClaimOf[m]] = "FAIL"
    BY <1>4, <1>6, PublicationAssumption DEF ValidGeneration
  <1> QED
    BY <1>4, <1>7 DEF ValidGeneration

------------------------------------------------------------------------------
(* The theorems.                                                           *)

\* Every variable of the publication and of the gate keeps its type.
THEOREM GateAlwaysTyped == GateSpec => []GateTypeOK
  <1>1. IInv => GateTypeOK
    BY DEF IInv
  <1> QED
    BY <1>1, GateInvariant, PTL

\* Whatever crash or power loss interrupts publishRun and publishCurrent, the current
\* pointer names a run whose manifest is durable.
THEOREM PointerAlwaysResolves == GateSpec => []PointerResolves
  <1>1. IInv => PointerResolves
    BY DEF IInv, PointerInv, PointerResolves
  <1> QED
    BY <1>1, GateInvariant, PTL

\* A PASS that Invocation.run returned stays published and durable, however later
\* invocations end.
THEOREM AcknowledgedAlwaysStays == GateSpec => []AcknowledgedStays
  <1>1. IInv => AcknowledgedStays
    BY DEF IInv, PointerInv
  <1> QED
    BY <1>1, GateInvariant, PTL

\* A published PASS is backed by the history: selectCandidates, assessFullHistory and
\* publish conclude it from executions that stand.
THEOREM PublishedPassAlwaysStands == GateSpec => []PublishedPassStands
  <1>1. IInv => PublishedPassStands
    BY PassStands
  <1> QED
    BY <1>1, GateInvariant, PTL

\* No invocation publishes around a required failure that nothing superseded.
THEOREM FailuresAlwaysReported == GateSpec => []FailuresReported
  <1>1. IInv => FailuresReported
    BY FailuresStand
  <1> QED
    BY <1>1, GateInvariant, PTL

\* VERIFIED is sound for the last history assess_v4 read, whatever invocations did while
\* it worked.
THEOREM GateAlwaysSound == GateSpec => []GateSound
  <1>1. IInv => GateSound
    BY DEF IInv, GateInv
  <1> QED
    BY <1>1, GateInvariant, PTL

\* assess_v4 answers FAILED for a required failure that nothing superseded.
THEOREM GateAlwaysReports == GateSpec => []GateReportsFailures
  <1>1. IInv => GateReportsFailures
    BY DEF IInv, GateInv
  <1> QED
    BY <1>1, GateInvariant, PTL


------------------------------------------------------------------------------
(* The gate confirms what the producer published.                          *)

\* The event that the receipt of a standing slot refers to is one that the gate counts.
LEMMA ReceiptCounts ==
    ASSUME NEW g, NEW h \in Seq(Event), Shaped(h), Cites(g, h), NEW m \in Members,
           g.slots[m].execution # 0, ReceiptBinds(g.slots[m], h, m), g.slots[m].state = "PASS"
    PROVE  /\ h[g.slots[m].observation].result = "PASS"
           /\ g.slots[m].observation \in GateObserved(h, g.slots[m].execution, m)
  <1> DEFINE a == g.slots[m]
             o == g.slots[m].observation
  <1>1. /\ o \in DOMAIN h /\ h[o].kind = "observation" /\ h[o].member = m
        /\ h[o].attempt = a.execution /\ h[o].result = "PASS"
    BY DEF ReceiptBinds
  <1>2. h[o].key = <<PhysicalOf(m), g.version>>
    <2> HIDE DEF o
    <2> QED
      BY <1>1, CitedKey
  <1>3. Applicable(h[o], m)
    BY <1>1, <1>2, PhysicalFacts DEF Applicable, SameAssociation
  <1>4. \A i \in Successes(h, a.execution) : i < o
    <2>1. PICK j \in DOMAIN h : j < o /\ h[j].kind = "execution" /\ h[j].attempt = h[o].attempt
      BY <1>1 DEF Shaped
    <2>2. ASSUME NEW i \in Successes(h, a.execution) PROVE i = j
      BY <1>1, <2>1 DEF Shaped, Successes
    <2> QED
      BY <2>1, <2>2
  <1> QED
    BY <1>1, <1>3, <1>4 DEF GateObserved

\* On the history it captured and the inputs it names, the gate finds a valid passing
\* slot as the producer left it.
LEMMA SlotConfirmed ==
    ASSUME NEW g, NEW h \in Seq(Event), Shaped(h), Cites(g, h), ValidGeneration(g, h),
           g.captured = Len(h), NEW m \in Members, g.slots[m].state = "PASS",
           g.slots[m].blocking = Blockers(h, m)
    PROVE  ~Contradicts(g, h, m, g.version) /\ GateSlot(g, h, m, g.version) = "PASS"
  <1> DEFINE a == g.slots[m]
  <1>1. a.observation # 0 /\ ReceiptBinds(a, h, m) /\ SlotStands(a, h, m)
    BY DEF ValidGeneration, SlotStands
  <1>2. PICK i \in DOMAIN h : /\ h[i].kind = "execution" /\ h[i].result = "PASS"
                              /\ h[i].attempt = a.execution /\ PastCutoff(h, i, m)
    BY <1>1 DEF SlotStands
  <1>3. a.execution # 0
    BY <1>2 DEF Shaped
  <1>4. h[a.observation].result = "PASS" /\ a.observation \in GateObserved(h, a.execution, m)
    BY <1>1, <1>3, ReceiptCounts
  <1>5. ArtifactVersion(h, a.execution) = g.version /\ ArtifactResult(h, a.execution) = "PASS"
    <2>1. /\ ArtifactVersion(h, g.slots[m].execution) = g.version
          /\ \A k \in DOMAIN h : h[k].kind = "execution" /\ h[k].attempt = g.slots[m].execution
                                    => ArtifactResult(h, g.slots[m].execution) = h[k].result
      BY <1>3, ArtifactFacts
    <2> QED
      BY <1>2, <2>1
  <1>6. GateBlockers(h, m) = Blockers(h, m)
    BY GateBarriers
  <1>7. GateEligible(h, a.execution, m)
    BY <1>2, <1>4, <1>6 DEF GateEligible, Successes, PastCutoff
  <1>8. a.blocking = {j \in GateBlockers(h, m) : j <= g.captured}
    BY <1>6 DEF Blockers
  <1>9. ~Contradicts(g, h, m, g.version)
    BY <1>1, <1>3, <1>4, <1>5, <1>8 DEF Contradicts
  <1> QED
    BY <1>3, <1>4, <1>5, <1>7, <1>9 DEF GateSlot

\* The last step of an assessment whose generation is as it was published.
LEMMA Confirms ==
    ASSUME IInv, GateFinish, gate.manifest.result = "PASS",
           \A c \in Claims : gate.manifest.claims[c] = "PASS",
           gate.manifest.captured = Len(history), ~Unaccounted,
           inputs = gate.inputs, inputs = gate.manifest.version
    PROVE  gate'.verdict = "VERIFIED"
  <1> DEFINE g == gate.manifest
             grown == Len(history) # gate.seen
             states == [m \in Members |-> IF grown THEN Later(g, history, m, gate.states[m]) ELSE gate.states[m]]
             latest == [c \in Claims |-> IF grown THEN LaterRow(states, c, gate.rows[c]) ELSE gate.rows[c]]
             rows == [c \in Claims |->
                        IF latest[c] = "PASS" /\ \E d \in DependsOn[c] : latest[d] # "PASS"
                        THEN "INCOMPLETE" ELSE latest[c]]
             errors == gate.errors \/ Unaccounted
             verdict == IF inputs # gate.inputs
                        THEN (IF \E c \in Required : rows[c] = "FAIL" THEN "FAILED" ELSE "ERROR")
                        ELSE VerdictOf(rows, errors, g)
  <1>1. gate.at = "assessed"
    BY DEF GateFinish
  <1>2. gate' = [gate EXCEPT !.at = "done", !.seen = Len(history), !.states = states, !.rows = rows,
                             !.errors = errors, !.verdict = verdict]
    BY DEF GateFinish
  <1>3. gate'.verdict = verdict
    <2> HIDE DEF states, rows, errors, verdict
    <2>1. gate \in Gate
      BY DEF IInv, GateTypeOK
    <2> QED
      BY <1>2, <2>1 DEF Gate
  <1>4. history \in Seq(Event) /\ Shaped(history) /\ gate.seen \in Nat /\ g.captured \in Nat
    BY <1>1 DEF IInv, GateTypeOK, AttemptInv, Gate
  <1>5. /\ Cites(g, history) /\ Backed(g, history) /\ gate.seen <= Len(history) /\ g.captured <= gate.seen
        /\ gate.states = [m \in Members |-> GateSlot(g, Seen, m, gate.inputs)]
        /\ gate.rows = [c \in Claims |-> Row(gate.states, c)]
        /\ gate.errors /\ gate.seen = Len(history) =>
              Unaccounted \/ \E m \in Members : Contradicts(g, Seen, m, gate.inputs)
    BY <1>1 DEF IInv, GateInv
  <1>6. ~grown /\ Seen = history
    BY <1>4, <1>5, WholePrefix DEF Seen
  <1>7. /\ ValidGeneration(g, history)
        /\ \A m \in Members : g.slots[m].blocking = Blockers(history, m)
    BY <1>4, <1>5, WholePrefix DEF Backed
  <1>8. ASSUME NEW m \in Members
        PROVE  ~Contradicts(g, history, m, g.version) /\ GateSlot(g, history, m, g.version) = "PASS"
    <2>1. ClaimOf[m] \in Claims /\ m \in SlotsOf(ClaimOf[m])
      BY DEF Claims, SlotsOf
    <2> HIDE DEF g
    <2>2. MemberResult(g.slots, ClaimOf[m]) = "PASS"
      BY <1>7, <2>1 DEF ValidGeneration, g
    <2>3. g.slots[m].state = "PASS"
      BY <2>1, <2>2 DEF MemberResult
    <2>4. g.captured = Len(history)
      BY DEF g
    <2> QED
      BY <1>4, <1>5, <1>7, <2>3, <2>4, SlotConfirmed
  <1>9. \A m \in Members : gate.states[m] = "PASS"
    <2>1. gate.states = [m \in Members |-> GateSlot(g, history, m, g.version)]
      BY <1>5, <1>6
    <2> HIDE DEF g
    <2> QED
      BY <1>8, <2>1
  <1>10. \A c \in Claims : gate.rows[c] = "PASS"
    <2>1. \A c \in Claims : SlotsOf(c) \subseteq Members
      BY DEF SlotsOf
    <2>2. \A c \in Claims : Row(gate.states, c) = "PASS"
      BY <1>9, <2>1 DEF Row
    <2> QED
      BY <1>5, <2>2
  <1>11. ~errors
    BY <1>5, <1>6, <1>8
  <1>12. \A c \in Claims : rows[c] = "PASS"
    <2>1. \A c \in Claims : latest[c] = "PASS"
      BY <1>6, <1>10
    <2>2. \A c \in Claims : DependsOn[c] \subseteq Claims
      BY PublicationAssumption
    <2> HIDE DEF latest
    <2> QED
      BY <2>1, <2>2
  <1>13. g.result = "PASS" /\ g.preflight = "PASS"
    <2> HIDE DEF g
    <2>1. g.result = "PASS"
      BY DEF g
    <2> QED
      BY <1>7, <2>1 DEF ValidGeneration
  <1>14. \A c \in Required : rows[c] = "PASS"
    BY <1>12, PublicationAssumption
  <1> HIDE DEF rows, errors, g
  <1>15. VerdictOf(rows, errors, g) = "VERIFIED"
    BY <1>11, <1>13, <1>14 DEF VerdictOf
  <1> QED
    BY <1>3, <1>15

\* With the history and the inputs of the generation and nothing unaccounted for,
\* assess_v4 answers VERIFIED to a manifest that publish concluded to be PASS.
THEOREM GateAlwaysConfirms == GateSpec => GateConfirms
  <1> DEFINE asked == /\ gate.at = "assessed" /\ gate'.at = "done"
                      /\ gate.manifest.result = "PASS" /\ (\A c \in Claims : gate.manifest.claims[c] = "PASS")
                      /\ gate.manifest.captured = Len(history) /\ ~Unaccounted
                      /\ inputs = gate.inputs /\ inputs = gate.manifest.version
             confirmed == asked => gate'.verdict = "VERIFIED"
  <1>1. IInv /\ [GateNext]_allvars => [confirmed]_allvars
    <2> SUFFICES ASSUME IInv, GateNext, asked PROVE gate'.verdict = "VERIFIED"
      OBVIOUS
    <2>1. GateFinish
      BY DEF GateNext, GateRead, GateAssess, Gate, IInv, GateTypeOK
    <2> QED
      BY <2>1, Confirms
  <1>2. GateSpec => [][confirmed]_allvars
    <2> HIDE DEF confirmed
    <2> QED
      BY <1>1, GateInvariant, PTL DEF GateSpec
  <1> QED
    BY <1>2 DEF GateConfirms
=============================================================================

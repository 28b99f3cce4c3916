---------------------------- MODULE EvidenceStore ----------------------------
(***************************************************************************)
(* One project's evidence store: producer sessions that execute physical   *)
(* slots, check their members' observations, commit artifacts, receipts    *)
(* and history events, and the explicit recovery of a dead owner.          *)
(*                                                                         *)
(* Durable state survives a crash: the history, the committed artifacts    *)
(* and receipts, the owner file with its pending results and open spawn    *)
(* windows, the recovered-owner snapshots and the recovery guard.  A file  *)
(* is published by link(staging, target) and then unlink(staging): between *)
(* the two it has two links and every validating read refuses it.          *)
(*                                                                         *)
(* Which physical slot is admitted when is left open here; the scheduler   *)
(* is the subject of EvidenceSchedule.                                     *)
(***************************************************************************)
EXTENDS EvidenceHistory, FiniteSets

CONSTANTS
    Nobody,      \* the checkpoint Serial is free
    Resume,      \* call.resume: reuse retained executions
    Selections,  \* the member selections a call may make
    Outcomes,    \* results a closed invocation may have
    MaxAttempts, \* bound on physical invocations
    MaxCrashes,  \* bound on deaths of a session or of a recovery
    MaxFaults    \* bound on cancellations, on storage or validation errors
                 \* thrown at a step, and on invocations that end abnormally

ASSUME StoreAssumption ==
    /\ Nobody \notin Physicals
    /\ Resume \in BOOLEAN
    /\ Selections \subseteq SUBSET Members
    /\ Outcomes \subseteq Results
    /\ MaxAttempts \in Nat /\ MaxCrashes \in Nat /\ MaxFaults \in Nat

VARIABLES
    \* durable
    history,        \* the event files in sequence order
    eventAlias,     \* sequence numbers of event files with two links
    fileAlias,      \* <<run, physical>>: an observation file with two links
    artifacts,      \* committed execution directories
    receipts,       \* committed check.json files
    owner,          \* the run of the owner file; 0 when there is none
    pending,        \* pending_results of the owner
    windows,        \* spawn_windows of the owner that are not closed
    snapshots,      \* recovered-owners/<owner>.json
    guard,          \* locks/recovery.lock exists
    \* the environment
    version,        \* the current version of the bound inputs
    rebooted,       \* the machine rebooted since the owner was created
    sessions, attempts, crashes, faults,
    \* volatile state of the session
    alive,          \* the owner's process runs
    work,           \* executePhysical of each physical slot
    serial,         \* the physical slot inside checkpoint.run
    halted,
    selected,
    \* volatile state of a recovery
    recovery,
    \* ghost: the sequence number the history would have given to the barrier
    \* of the association's last observed FAIL; 0 when none was observed
    failedAt

durable == <<history, eventAlias, fileAlias, artifacts, receipts, owner,
             pending, windows, snapshots, guard>>
counters == <<sessions, attempts, crashes, faults>>
volatile == <<alive, work, serial, halted, selected>>
vars == <<durable, version, rebooted, counters, volatile, recovery, failedAt>>

Pending == [kind: {"execution", "observation"}, key: Keys, attempt: Nat,
            member: MaybeMember]
Window == [attempt: Nat, member: MaybeMember,
           state: {"active", "stopped", "live"}]
Artifact == [key: Keys, attempt: Nat, result: Results]
Receipt == [run: Runs \cup {0}, key: Keys, attempt: Nat, member: MaybeMember, result: Results]

Quiet == {"idle", "done", "failed"}
Stages == Quiet \cup
    {"checked", "pending", "running", "executed", "thrown", "published",
     "appended", "nullified", "observing", "requested", "obspending",
     "checking", "examined", "streamed", "received", "obsappended"}
Work == [at: Stages, attempt: Nat, member: MaybeMember,
         result: Results, closed: BOOLEAN, todo: SUBSET (Members \X Nat)]

\* The inputs of a session do not move while it runs (a session that sees them
\* move fails), so the execution key of a slot is that of the current version.
KeyNow(p) == <<p, version>>

\* Between invocations a worker only knows which members it still has to observe.
Between(stage, todo) == [at |-> stage, attempt |-> 0, member |-> NoMember,
                         result |-> "PASS", closed |-> TRUE, todo |-> todo]
NoWork == [p \in Physicals |-> Between("idle", {})]

TypeOK ==
    /\ history \in Seq(Event)
    /\ eventAlias \subseteq Nat
    /\ fileAlias \subseteq (Runs \cup {0}) \X Physicals
    /\ artifacts \subseteq Artifact
    /\ receipts \subseteq Receipt
    /\ owner \in Runs \cup {0}
    /\ pending \subseteq Pending
    /\ windows \subseteq Window
    /\ snapshots \in [Runs -> {"absent", "torn", "complete"}]
    /\ guard \in BOOLEAN
    /\ version \in Versions
    /\ rebooted \in BOOLEAN
    /\ sessions \in Nat /\ attempts \in Nat /\ crashes \in Nat /\ faults \in Nat
    /\ alive \in BOOLEAN
    /\ work \in [Physicals -> Work]
    /\ serial \in Physicals \cup {Nobody}
    /\ halted \in BOOLEAN
    /\ selected \subseteq Members
    /\ recovery \in {"none", "guarded", "creating", "preserved", "linked",
                    "accounted", "verified", "retired"}
    /\ failedAt \in [Members -> Nat]

Init ==
    /\ history = <<>> /\ eventAlias = {} /\ fileAlias = {}
    /\ artifacts = {} /\ receipts = {}
    /\ owner = 0 /\ pending = {} /\ windows = {}
    /\ snapshots = [r \in Runs |-> "absent"]
    /\ guard = FALSE
    /\ version \in Versions
    /\ rebooted = FALSE
    /\ sessions = 0 /\ attempts = 0 /\ crashes = 0 /\ faults = 0
    /\ alive = FALSE
    /\ work = NoWork
    /\ serial = Nobody
    /\ halted = FALSE
    /\ selected = {}
    /\ recovery = "none"
    /\ failedAt = [m \in Members |-> 0]

------------------------------------------------------------------------------
(* What a validating read concludes.                                       *)

\* Every reference of an event resolves to its committed bytes.
Backed(e) ==
    e.backed => CASE e.kind = "execution" ->
                       [key |-> e.key, attempt |-> e.attempt, result |-> e.result] \in artifacts
                  [] e.kind = "observation" ->
                       [run |-> e.run, key |-> e.key, attempt |-> e.attempt,
                        member |-> e.member, result |-> e.result] \in receipts
                  [] e.kind = "indeterminate" -> snapshots[e.run] = "complete"

\* loadHistory with allowUnaccounted: the chain alone.
ChainReadable ==
    /\ eventAlias = {}
    /\ \A i \in DOMAIN history :
          BindingAllowed(SubSeq(history, 1, i - 1), history[i]) /\ Backed(history[i])

AllAccounted ==
    /\ \A x \in artifacts : AccountsArtifact(history, x)
    /\ \A c \in receipts : AccountsReceipt(history, c)

\* readHistory also walks the execution and observation directories.
Readable == ChainReadable /\ fileAlias = {} /\ AllAccounted

------------------------------------------------------------------------------
(* A session.                                                              *)

\* The sources, the policy or a tool change between sessions, and may change back.
ChangeInputs ==
    /\ owner = 0
    /\ version' \in Versions \ {version}
    /\ UNCHANGED <<durable, rebooted, counters, volatile, recovery, failedAt>>

\* createNativeSession takes the owner file; a preflight that cannot read the
\* history dispatches nothing.
OpenSession ==
    /\ owner = 0
    /\ sessions + 1 \in Runs
    /\ attempts + Cardinality(Physicals) <= MaxAttempts
    /\ sessions' = sessions + 1
    /\ owner' = sessions + 1
    /\ alive' = TRUE
    /\ rebooted' = FALSE
    /\ selected' \in Selections
    /\ halted' = ~Readable
    /\ work' = NoWork
    /\ UNCHANGED <<history, eventAlias, fileAlias, artifacts, receipts, pending, windows, snapshots,
                   guard, version, attempts, crashes, faults, serial, recovery, failedAt>>

Fault == faults < MaxFaults /\ faults' = faults + 1

\* The signal is aborted: nothing new is dispatched.
Cancel ==
    /\ alive /\ ~halted
    /\ halted' = TRUE
    /\ Fault
    /\ UNCHANGED <<durable, version, rebooted, sessions, attempts, crashes, alive, work, serial, selected, recovery, failedAt>>

At(p, stages) == alive /\ work[p].at \in stages
Set(p, w) == work' = [work EXCEPT ![p] = w]
Invoked(p, stage, attempt, result, closed) ==
    [at |-> stage, attempt |-> attempt, member |-> work[p].member,
     result |-> result, closed |-> closed, todo |-> work[p].todo]
Goto(p, stage) == Set(p, Invoked(p, stage, work[p].attempt, work[p].result, work[p].closed))
NoAlias(p) == <<owner, p>> \notin fileAlias
SerialFree == serial = Nobody

\* The worker of p throws: executePhysical fails the run, checkpoint.run lets
\* the next operation in, and whatever is durable stays.
Abort(p) ==
    /\ Goto(p, "failed")
    /\ serial' = IF serial = p THEN Nobody ELSE serial
    /\ halted' = TRUE
    /\ UNCHANGED <<alive, selected>>

Select(p) ==
    LET chosen == MembersOf[p] \cap selected
        key == KeyNow(p)
        candidates == {c \in chosen \X DOMAIN history : IsCandidate(history, key, c[1], c[2])}
    IN  /\ At(p, {"idle"}) /\ ~halted
        /\ chosen # {}
        /\ SerialFree
        /\ Resume => Readable
        /\ Set(p, IF Resume /\ \A m \in chosen : HasCandidate(history, key, m)
                  THEN Between("observing", {<<c[1], history[c[2]].attempt>> : c \in candidates})
                  ELSE Between("checked", {}))
        /\ UNCHANGED <<durable, version, rebooted, counters, alive, serial, halted, selected, recovery, failedAt>>

\* Files of another slot's observation are written outside the Serial: a scan
\* that meets one, or sees writeEpoch move, throws.
Writing(q) == work[q].at \in {"observing", "requested", "examined", "streamed"}
SelectThrows(p) ==
    /\ Resume
    /\ At(p, {"idle"}) /\ ~halted
    /\ MembersOf[p] \cap selected # {}
    /\ SerialFree
    /\ ~Readable \/ \E q \in Physicals \ {p} : Writing(q)
    /\ Abort(p)
    /\ UNCHANGED <<durable, version, rebooted, counters, recovery, failedAt>>

HaltedBeforeDispatch(p) ==
    /\ At(p, {"checked"}) /\ halted
    /\ Goto(p, "done")
    /\ UNCHANGED <<durable, version, rebooted, counters, alive, serial, halted, selected, recovery, failedAt>>

ExecutionPending(p) ==
    [kind |-> "execution", key |-> KeyNow(p), attempt |-> work[p].attempt, member |-> NoMember]
ObservationPending(p) ==
    [kind |-> "observation", key |-> KeyNow(p), attempt |-> work[p].attempt, member |-> work[p].member]

\* halted is tested, then a fresh attempt becomes durable in the owner.
BeginExecution(p) ==
    /\ At(p, {"checked"}) /\ ~halted
    /\ attempts' = attempts + 1
    /\ Set(p, Invoked(p, "pending", attempts + 1, "PASS", TRUE))
    /\ pending' = pending \cup
          {[kind |-> "execution", key |-> KeyNow(p), attempt |-> attempts + 1, member |-> NoMember]}
    /\ UNCHANGED <<history, eventAlias, fileAlias, artifacts, receipts, owner, windows, snapshots, guard,
                   version, rebooted, sessions, crashes, faults, alive, serial, halted, selected, recovery, failedAt>>

Indeterminate == \E w \in windows : w.state # "active"

\* session.run registers a spawn window before it spawns.
Spawn(p) ==
    /\ At(p, {"pending", "obspending"})
    /\ ~Indeterminate
    /\ windows' = windows \cup
          {[attempt |-> work[p].attempt, member |-> work[p].member, state |-> "active"]}
    /\ Goto(p, IF work[p].at = "pending" THEN "running" ELSE "checking")
    /\ UNCHANGED <<history, eventAlias, fileAlias, artifacts, receipts, owner, pending, snapshots, guard,
                   version, rebooted, counters, alive, serial, halted, selected, recovery, failedAt>>

\* (mutant) An invocation that never ran is recorded as MISSING, no result of the wire.
ExecutionThrowsMissing(p) ==
    /\ At(p, {"pending"})
    /\ Set(p, Invoked(p, "thrown", work[p].attempt, "MISSING", TRUE))
    /\ halted' = TRUE
    /\ Fault
    /\ UNCHANGED <<durable, version, rebooted, sessions, attempts, crashes, alive, serial, selected, recovery, failedAt>>

\* session.run throws before it spawns an execution: aborted, unresolvable
\* command, or indeterminate ownership of another invocation.
ExecutionThrows(p) ==
    /\ At(p, {"pending"})
    /\ Set(p, Invoked(p, "thrown", work[p].attempt, "ERROR", TRUE))
    /\ halted' = TRUE
    /\ Fault \/ (Indeterminate /\ UNCHANGED faults)
    /\ UNCHANGED <<durable, version, rebooted, sessions, attempts, crashes, alive, serial, selected, recovery, failedAt>>

\* An invocation ends.  Its window closes, or it stays behind as indeterminate
\* with every registered group stopped or with one still running; then the
\* result is ERROR.
Ends(p, result, state) ==
    LET window(st) == [attempt |-> work[p].attempt, member |-> work[p].member, state |-> st]
    IN  /\ IF state = "closed" THEN result \in Outcomes /\ UNCHANGED faults
                              ELSE result = "ERROR" /\ Fault
        /\ windows' = (windows \ {window("active")}) \cup
                        (IF state = "closed" THEN {} ELSE {window(state)})
        /\ halted' = (halted \/ result # "PASS")

\* failedAt remembers a FAIL of the associations of ms as it is observed.
Observe(result, ms) ==
    failedAt' = [n \in Members |->
        IF result = "FAIL" /\ \E m \in ms : SameAssociation(m, n) THEN Len(history) + 1 ELSE failedAt[n]]

ExecutionEnds(p) ==
    /\ At(p, {"running"})
    /\ \E result \in Results, state \in {"closed", "stopped", "live"} :
          /\ Ends(p, result, state)
          /\ Set(p, Invoked(p, "executed", work[p].attempt, result, state = "closed"))
          /\ Observe(result, MembersOf[p])
    /\ UNCHANGED <<history, eventAlias, fileAlias, artifacts, receipts, owner, pending, snapshots, guard,
                   version, rebooted, sessions, attempts, crashes, alive, serial, selected, recovery>>

\* (mutant) The pending result is cleared at the commit, before the event is appended.
PublishAndClear(p) ==
    /\ At(p, {"executed"}) /\ SerialFree
    /\ serial' = p
    /\ artifacts' = artifacts \cup
          {[key |-> KeyNow(p), attempt |-> work[p].attempt, result |-> work[p].result]}
    /\ pending' = pending \ {ExecutionPending(p)}
    /\ Goto(p, "published")
    /\ UNCHANGED <<history, eventAlias, fileAlias, receipts, owner, windows, snapshots, guard,
                   version, rebooted, counters, alive, halted, selected, recovery, failedAt>>

\* publishExecution renames the staged directory, inside checkpoint.run.
PublishExecution(p) ==
    /\ At(p, {"executed"}) /\ SerialFree
    /\ serial' = p
    /\ artifacts' = artifacts \cup
          {[key |-> KeyNow(p), attempt |-> work[p].attempt, result |-> work[p].result]}
    /\ Goto(p, "published")
    /\ UNCHANGED <<history, eventAlias, fileAlias, receipts, owner, pending, windows, snapshots, guard,
                   version, rebooted, counters, alive, halted, selected, recovery, failedAt>>

\* appendHistory: the next event file is linked; the append is refused when the
\* retained chain or the event's own bindings do not validate.
AppendAllowed(e) == eventAlias = {} /\ BindingAllowed(history, e)
Append1(e) ==
    /\ AppendAllowed(e)
    /\ history' = Append(history, e)
    /\ eventAlias' = {Len(history) + 1}

ExecutionEvent(p, backed) ==
    [kind |-> "execution", key |-> KeyNow(p), attempt |-> work[p].attempt, member |-> NoMember,
     result |-> work[p].result, backed |-> backed, run |-> 0]
ObservationEvent(p) ==
    [kind |-> "observation", key |-> KeyNow(p), attempt |-> work[p].attempt, member |-> work[p].member,
     result |-> work[p].result, backed |-> TRUE, run |-> owner]

LinkExecutionEvent(p) ==
    /\ At(p, {"published"})
    /\ Append1(ExecutionEvent(p, TRUE))
    /\ Goto(p, "appended")
    /\ UNCHANGED <<fileAlias, artifacts, receipts, owner, pending, windows, snapshots, guard,
                   version, rebooted, counters, alive, serial, halted, selected, recovery, failedAt>>

\* The history event of an invocation that threw references no artifact.
LinkNullEvent(p) ==
    /\ At(p, {"thrown"}) /\ SerialFree
    /\ Append1(ExecutionEvent(p, FALSE))
    /\ serial' = p
    /\ Goto(p, "nullified")
    /\ UNCHANGED <<fileAlias, artifacts, receipts, owner, pending, windows, snapshots, guard,
                   version, rebooted, counters, alive, halted, selected, recovery, failedAt>>

LinkObservationEvent(p) ==
    /\ At(p, {"received"}) /\ NoAlias(p)
    /\ Append1(ObservationEvent(p))
    /\ Goto(p, "obsappended")
    /\ UNCHANGED <<fileAlias, artifacts, receipts, owner, pending, windows, snapshots, guard,
                   version, rebooted, counters, alive, serial, halted, selected, recovery, failedAt>>

UnlinkEvent(p) ==
    /\ At(p, {"appended", "nullified", "obsappended"})
    /\ eventAlias # {}
    /\ eventAlias' = {}
    /\ UNCHANGED <<history, fileAlias, artifacts, receipts, owner, pending, windows, snapshots, guard,
                   version, rebooted, counters, volatile, recovery, failedAt>>

\* (mutant) The members are observed whatever the execution's result.
SettleAndObserve(p) ==
    /\ At(p, {"appended"}) /\ eventAlias = {}
    /\ pending' = IF work[p].closed THEN pending \ {ExecutionPending(p)} ELSE pending
    /\ serial' = Nobody
    /\ Set(p, Between("observing", MembersOf[p] \X {work[p].attempt}))
    /\ UNCHANGED <<history, eventAlias, fileAlias, artifacts, receipts, owner, windows, snapshots, guard,
                   version, rebooted, counters, alive, halted, selected, recovery, failedAt>>

\* The pending result is cleared once its event is durable and its window closed.
\* A PASS then awaits the observation of every member of the slot.
SettleExecution(p) ==
    /\ At(p, {"appended"}) /\ eventAlias = {}
    /\ pending' = IF work[p].closed THEN pending \ {ExecutionPending(p)} ELSE pending
    /\ serial' = Nobody
    /\ Set(p, IF work[p].result = "PASS"
              THEN Between("observing", MembersOf[p] \X {work[p].attempt})
              ELSE Between("done", {}))
    /\ UNCHANGED <<history, eventAlias, fileAlias, artifacts, receipts, owner, windows, snapshots, guard,
                   version, rebooted, counters, alive, halted, selected, recovery, failedAt>>

SettleNull(p) ==
    /\ At(p, {"nullified"}) /\ eventAlias = {}
    /\ pending' = IF windows = {} THEN pending \ {ExecutionPending(p)} ELSE pending
    /\ serial' = Nobody
    /\ Set(p, Between("done", {}))
    /\ UNCHANGED <<history, eventAlias, fileAlias, artifacts, receipts, owner, windows, snapshots, guard,
                   version, rebooted, counters, alive, halted, selected, recovery, failedAt>>

\* observe: the request file is linked before its pending result exists.
LinkRequest(p) ==
    /\ At(p, {"observing"})
    /\ \E mark \in work[p].todo :
          Set(p, [at |-> "requested", attempt |-> mark[2], member |-> mark[1],
                  result |-> "PASS", closed |-> TRUE, todo |-> work[p].todo \ {mark}])
    /\ fileAlias' = fileAlias \cup {<<owner, p>>}
    /\ UNCHANGED <<history, eventAlias, artifacts, receipts, owner, pending, windows, snapshots, guard,
                   version, rebooted, counters, alive, serial, halted, selected, recovery, failedAt>>

ObservationsDone(p) ==
    /\ At(p, {"observing"}) /\ work[p].todo = {}
    /\ Set(p, Between("done", {}))
    /\ UNCHANGED <<durable, version, rebooted, counters, alive, serial, halted, selected, recovery, failedAt>>

UnlinkFile(p) ==
    /\ At(p, {"requested", "streamed", "received"})
    /\ ~NoAlias(p)
    /\ fileAlias' = fileAlias \ {<<owner, p>>}
    /\ UNCHANGED <<history, eventAlias, artifacts, receipts, owner, pending, windows, snapshots, guard,
                   version, rebooted, counters, volatile, recovery, failedAt>>

BeginObservation(p) ==
    /\ At(p, {"requested"}) /\ NoAlias(p)
    /\ pending' = pending \cup {ObservationPending(p)}
    /\ Goto(p, "obspending")
    /\ UNCHANGED <<history, eventAlias, fileAlias, artifacts, receipts, owner, windows, snapshots, guard,
                   version, rebooted, counters, alive, serial, halted, selected, recovery, failedAt>>

ObservationEnds(p) ==
    /\ At(p, {"checking"})
    /\ \E result \in Results, state \in {"closed", "stopped", "live"} :
          /\ Ends(p, result, state)
          /\ Set(p, Invoked(p, "examined", work[p].attempt, result, state = "closed"))
          /\ Observe(result, {work[p].member})
    /\ UNCHANGED <<history, eventAlias, fileAlias, artifacts, receipts, owner, pending, snapshots, guard,
                   version, rebooted, sessions, attempts, crashes, alive, serial, selected, recovery>>

\* stdout.bin and stderr.bin of the checker, outside checkpoint.run.
LinkStreams(p) ==
    /\ At(p, {"examined"})
    /\ fileAlias' = fileAlias \cup {<<owner, p>>}
    /\ Goto(p, "streamed")
    /\ UNCHANGED <<history, eventAlias, artifacts, receipts, owner, pending, windows, snapshots, guard,
                   version, rebooted, counters, alive, serial, halted, selected, recovery, failedAt>>

LinkReceipt(p) ==
    /\ At(p, {"streamed"}) /\ NoAlias(p) /\ SerialFree
    /\ serial' = p
    /\ receipts' = receipts \cup
          {[run |-> owner, key |-> KeyNow(p), attempt |-> work[p].attempt,
            member |-> work[p].member, result |-> work[p].result]}
    /\ fileAlias' = fileAlias \cup {<<owner, p>>}
    /\ Goto(p, "received")
    /\ UNCHANGED <<history, eventAlias, artifacts, owner, pending, windows, snapshots, guard,
                   version, rebooted, counters, alive, halted, selected, recovery, failedAt>>

\* With the window closed the next member follows, whatever the result; an
\* unresolved window throws and keeps the pending result.
SettleObservation(p) ==
    /\ At(p, {"obsappended"}) /\ eventAlias = {} /\ work[p].closed
    /\ pending' = pending \ {ObservationPending(p)}
    /\ serial' = Nobody
    /\ Set(p, Between("observing", work[p].todo))
    /\ UNCHANGED <<history, eventAlias, fileAlias, artifacts, receipts, owner, windows, snapshots, guard,
                   version, rebooted, counters, alive, halted, selected, recovery, failedAt>>

ObservationUnresolved(p) ==
    /\ At(p, {"obsappended"}) /\ eventAlias = {} /\ ~work[p].closed
    /\ Abort(p)
    /\ UNCHANGED <<durable, version, rebooted, counters, recovery, failedAt>>

\* Appends and dispatches the code refuses by throwing.
Refused(p) ==
    /\ \/ At(p, {"published"}) /\ ~AppendAllowed(ExecutionEvent(p, TRUE))
       \/ At(p, {"thrown"}) /\ SerialFree /\ ~AppendAllowed(ExecutionEvent(p, FALSE))
       \/ At(p, {"received"}) /\ NoAlias(p) /\ ~AppendAllowed(ObservationEvent(p))
       \/ At(p, {"obspending"}) /\ Indeterminate
    /\ Abort(p)
    /\ UNCHANGED <<durable, version, rebooted, counters, recovery, failedAt>>

\* Any other step of an admitted slot throws: the file system fails, an input
\* moved, a response does not validate, the signal aborted a wait.
StorageError(p) ==
    /\ At(p, Stages \ Quiet)
    /\ Fault
    /\ Abort(p)
    /\ UNCHANGED <<durable, version, rebooted, sessions, attempts, crashes, recovery, failedAt>>

\* schedule has returned: every admitted slot settled, the rest never admitted.
Finished ==
    /\ alive
    /\ \A p \in Physicals : /\ work[p].at \in Quiet
                            /\ work[p].at = "idle" => halted \/ MembersOf[p] \cap selected = {}

\* (mutant) Release looks at the windows and forgets the pending results.
ReleaseAnyway ==
    /\ Finished
    /\ windows = {}
    /\ owner' = 0 /\ pending' = {}
    /\ alive' = FALSE
    /\ work' = NoWork /\ halted' = FALSE /\ selected' = {}
    /\ UNCHANGED <<history, eventAlias, fileAlias, artifacts, receipts, windows, snapshots, guard,
                   version, rebooted, counters, serial, recovery, failedAt>>

\* session.release removes the owner file; with unresolved ownership, or when a
\* write of the owner failed, the process ends and the owner file stays.
Release ==
    /\ Finished
    /\ pending = {} /\ windows = {}
    /\ owner' = 0
    /\ alive' = FALSE
    /\ work' = NoWork /\ halted' = FALSE /\ selected' = {}
    /\ UNCHANGED <<history, eventAlias, fileAlias, artifacts, receipts, pending, windows, snapshots, guard,
                   version, rebooted, counters, serial, recovery, failedAt>>

Abandon ==
    /\ Finished
    /\ pending # {} \/ windows # {} \/ \E p \in Physicals : work[p].at = "failed"
    /\ alive' = FALSE
    /\ work' = NoWork /\ halted' = FALSE /\ selected' = {}
    /\ UNCHANGED <<durable, version, rebooted, counters, serial, recovery, failedAt>>

Forget ==
    /\ alive' = FALSE
    /\ work' = NoWork
    /\ serial' = Nobody
    /\ halted' = FALSE
    /\ selected' = {}

Crash ==
    /\ alive /\ crashes < MaxCrashes
    /\ crashes' = crashes + 1
    /\ Forget
    /\ UNCHANGED <<durable, version, rebooted, sessions, attempts, faults, recovery, failedAt>>

------------------------------------------------------------------------------
(* Explicit recovery of a dead owner.                                      *)

\* On the same boot a window is provably over only when its execution's artifact
\* names it with every registered group stopped; no artifact names the window
\* of an observation.
Provable(w) ==
    /\ w.state = "stopped" /\ w.member = NoMember
    /\ \E x \in artifacts : x.attempt = w.attempt

\* The machine reboots with a dead owner: no process of its boot is left.  Only
\* a reboot that settles something is taken.
Reboot ==
    /\ owner # 0 /\ ~alive /\ ~rebooted /\ recovery = "none"
    /\ \E w \in windows : ~Provable(w)
    /\ rebooted' = TRUE
    /\ UNCHANGED <<durable, version, counters, volatile, recovery, failedAt>>

StartRecovery ==
    /\ recovery = "none"
    /\ owner # 0 /\ ~alive
    /\ ~guard
    /\ rebooted \/ \A w \in windows : Provable(w)
    /\ guard' = TRUE
    /\ recovery' = "guarded"
    /\ UNCHANGED <<history, eventAlias, fileAlias, artifacts, receipts, owner, pending, windows, snapshots,
                   version, rebooted, counters, volatile, failedAt>>

\* exclusiveFile creates the snapshot and then writes it; an existing snapshot
\* must hold the owner's bytes.
CreateSnapshot ==
    /\ recovery = "guarded" /\ snapshots[owner] = "absent"
    /\ snapshots' = [snapshots EXCEPT ![owner] = "torn"]
    /\ recovery' = "creating"
    /\ UNCHANGED <<history, eventAlias, fileAlias, artifacts, receipts, owner, pending, windows, guard,
                   version, rebooted, counters, volatile, failedAt>>

WriteSnapshot ==
    /\ recovery = "creating"
    /\ snapshots' = [snapshots EXCEPT ![owner] = "complete"]
    /\ recovery' = "preserved"
    /\ UNCHANGED <<history, eventAlias, fileAlias, artifacts, receipts, owner, pending, windows, guard,
                   version, rebooted, counters, volatile, failedAt>>

FindSnapshot ==
    /\ recovery = "guarded" /\ snapshots[owner] = "complete"
    /\ recovery' = "preserved"
    /\ UNCHANGED <<durable, version, rebooted, counters, volatile, failedAt>>

\* The event of an abandoned alias must be the one a pending result announced.
Announced(e) ==
    \E q \in pending : /\ q.kind = e.kind /\ q.key = e.key
                       /\ q.attempt = e.attempt /\ q.member = e.member

RetireAlias ==
    /\ recovery = "preserved"
    /\ \E i \in eventAlias : Announced(history[i]) /\ eventAlias' = eventAlias \ {i}
    /\ UNCHANGED <<history, fileAlias, artifacts, receipts, owner, pending, windows, snapshots, guard,
                   version, rebooted, counters, volatile, recovery, failedAt>>

\* (mutant) An observation of any run passes for the pending one.
HasEventOfAnyRun(q) ==
    \E i \in DOMAIN history :
        /\ history[i].key = q.key /\ history[i].attempt = q.attempt /\ history[i].member = q.member
        /\ \/ (\A w \in windows : w.attempt # q.attempt) /\ history[i].kind = q.kind
           \/ history[i].kind = "indeterminate" /\ history[i].run = owner

\* (mutant) A recovery does not recognise the event an earlier recovery appended.
HasOwnEvent(q) ==
    /\ \A w \in windows : w.attempt # q.attempt
    /\ \E i \in DOMAIN history :
          /\ history[i].key = q.key /\ history[i].attempt = q.attempt /\ history[i].member = q.member
          /\ history[i].kind = q.kind
          /\ q.kind = "observation" => history[i].run = owner

\* The pending result q already has its event: its own, unless ownership of its
\* attempt is unresolved, or the indeterminate event of this owner.
HasEvent(q) ==
    \E i \in DOMAIN history :
        /\ history[i].key = q.key /\ history[i].attempt = q.attempt /\ history[i].member = q.member
        /\ \/ /\ \A w \in windows : w.attempt # q.attempt
              /\ history[i].kind = q.kind
              /\ q.kind = "observation" => history[i].run = owner
           \/ history[i].kind = "indeterminate" /\ history[i].run = owner

\* (mutant) Recovery imports the result it presumes instead of leaving it indeterminate.
ImportedEvent(q) ==
    [kind |-> q.kind, key |-> q.key, attempt |-> q.attempt, member |-> q.member,
     result |-> "PASS", backed |-> TRUE, run |-> owner]

IndeterminateEvent(q) ==
    [kind |-> "indeterminate", key |-> q.key, attempt |-> q.attempt, member |-> q.member,
     result |-> "ERROR", backed |-> TRUE, run |-> owner]

LinkIndeterminate ==
    /\ recovery = "preserved"
    /\ ChainReadable
    /\ \E q \in pending : ~HasEvent(q) /\ Append1(IndeterminateEvent(q))
    /\ recovery' = "linked"
    /\ UNCHANGED <<fileAlias, artifacts, receipts, owner, pending, windows, snapshots, guard,
                   version, rebooted, counters, volatile, failedAt>>

UnlinkIndeterminate ==
    /\ recovery = "linked"
    /\ eventAlias' = {}
    /\ recovery' = "preserved"
    /\ UNCHANGED <<history, fileAlias, artifacts, receipts, owner, pending, windows, snapshots, guard,
                   version, rebooted, counters, volatile, failedAt>>

PendingAccounted ==
    /\ recovery = "preserved"
    /\ eventAlias = {}
    /\ \A q \in pending : HasEvent(q)
    /\ recovery' = "accounted"
    /\ UNCHANGED <<durable, version, rebooted, counters, volatile, failedAt>>

\* accountPending ends with a full readHistory.
Verify ==
    /\ recovery = "accounted"
    /\ Readable
    /\ recovery' = "verified"
    /\ UNCHANGED <<durable, version, rebooted, counters, volatile, failedAt>>

\* The owner file is renamed to its retired name.
Retire ==
    /\ recovery = "verified"
    /\ owner' = 0 /\ pending' = {} /\ windows' = {}
    /\ recovery' = "retired"
    /\ UNCHANGED <<history, eventAlias, fileAlias, artifacts, receipts, snapshots, guard,
                   version, rebooted, counters, volatile, failedAt>>

EndRecovery ==
    /\ guard' = FALSE
    /\ recovery' = "none"
    /\ UNCHANGED <<history, eventAlias, fileAlias, artifacts, receipts, owner, pending, windows, snapshots,
                   version, rebooted, volatile, failedAt>>

RemoveGuard ==
    /\ recovery = "retired"
    /\ EndRecovery /\ UNCHANGED counters

\* A check of the recovery fails; its finally clause removes the guard.
RecoveryRefused ==
    /\ \/ recovery = "guarded" /\ snapshots[owner] = "torn"
       \/ /\ recovery = "preserved"
          /\ (\E i \in eventAlias : ~Announced(history[i])) \/ (eventAlias = {} /\ ~ChainReadable)
       \/ recovery = "accounted" /\ ~Readable
    /\ EndRecovery /\ UNCHANGED counters

\* A system call of the recovery fails.
RecoveryThrows ==
    /\ recovery \notin {"none", "retired"}
    /\ Fault
    /\ EndRecovery
    /\ UNCHANGED <<sessions, attempts, crashes>>

\* The recovering process dies and leaves its guard.
RecoveryCrash ==
    /\ recovery # "none"
    /\ crashes < MaxCrashes
    /\ crashes' = crashes + 1
    /\ recovery' = "none"
    /\ UNCHANGED <<durable, version, rebooted, sessions, attempts, faults, volatile, failedAt>>

------------------------------------------------------------------------------
Step(p) ==
    \/ Select(p) \/ SelectThrows(p) \/ HaltedBeforeDispatch(p)
    \/ BeginExecution(p) \/ Spawn(p) \/ ExecutionThrows(p) \/ ExecutionEnds(p)
    \/ PublishExecution(p) \/ LinkExecutionEvent(p) \/ LinkNullEvent(p)
    \/ UnlinkEvent(p) \/ SettleExecution(p) \/ SettleNull(p)
    \/ LinkRequest(p) \/ ObservationsDone(p) \/ UnlinkFile(p) \/ BeginObservation(p)
    \/ ObservationEnds(p) \/ LinkStreams(p) \/ LinkReceipt(p) \/ LinkObservationEvent(p)
    \/ SettleObservation(p) \/ ObservationUnresolved(p) \/ Refused(p)

EndSession == Release \/ Abandon

Recover ==
    \/ StartRecovery \/ CreateSnapshot \/ WriteSnapshot \/ FindSnapshot \/ RetireAlias
    \/ LinkIndeterminate \/ UnlinkIndeterminate \/ PendingAccounted
    \/ Verify \/ Retire \/ RemoveGuard \/ RecoveryRefused

Environment ==
    \/ ChangeInputs \/ OpenSession \/ Cancel \/ Crash \/ Reboot
    \/ RecoveryThrows \/ RecoveryCrash
    \/ \E p \in Physicals : StorageError(p)

Next == EndSession \/ Recover \/ Environment \/ \E p \in Physicals : Step(p)

Spec == Init /\ [][Next]_vars

\* A session's promises settle or throw, commands end within their timeouts, and
\* an operator runs the recovery of a dead owner.  Nothing is assumed of crashes,
\* errors, reboots, cancellations or new sessions.
Fairness ==
    /\ WF_vars(EndSession)
    /\ WF_vars(Recover)
    /\ \A p \in Physicals : WF_vars(Step(p))

FairSpec == Spec /\ Fairness

------------------------------------------------------------------------------
(* Properties.                                                             *)

\* Every committed artifact and receipt is accounted for by the history, or is
\* announced by a pending result of the owner that committed it: whatever step
\* a crash follows, recovery can tell what it finds (beginPending before
\* session.run, clearPending after appendHistory).
Accounted ==
    /\ \A x \in artifacts :
          \/ AccountsArtifact(history, x)
          \/ [kind |-> "execution", key |-> x.key, attempt |-> x.attempt, member |-> NoMember] \in pending
    /\ \A c \in receipts :
          \/ AccountsReceipt(history, c)
          \/ /\ owner = c.run
             /\ [kind |-> "observation", key |-> c.key, attempt |-> c.attempt, member |-> c.member] \in pending

\* Without an owner file the retained store validates, so the next producer can
\* read it; a two-link observation file is the one thing that can still spoil it.
OwnerlessReadable == owner = 0 => ChainReadable /\ AllAccounted

\* When recovery has given every pending result its event, the verification that
\* ends accountPending succeeds, unless an observation file has two links.
AccountingSuffices == recovery = "accounted" /\ fileAlias = {} => Readable

\* docs/execution-evidence-v4.md:492: the indeterminate events of an explicit
\* recovery account for what the dead owner left unresolved.
RecoveryAccounts == recovery = "accounted" => Readable

\* A failure observed before a crash, a storage error or a change of inputs is
\* never forgotten: once no owner is left, no execution recorded before that
\* observation is a candidate for an association the failure touched.
NoResurrection ==
    owner = 0 => \A key \in Keys, m \in Members :
                    \A i \in Eligible(history, key, m) : i >= failedAt[m]

\* No append of a session is refused for its bindings: an attempt is recorded
\* once, and an observation follows the passing execution it names.
AppendsBind ==
    \A p \in Physicals :
        /\ At(p, {"published"}) => BindingAllowed(history, ExecutionEvent(p, TRUE))
        /\ At(p, {"thrown"}) => BindingAllowed(history, ExecutionEvent(p, FALSE))
        /\ At(p, {"received"}) => BindingAllowed(history, ObservationEvent(p))

Candidates == {c \in Keys \X Members : HasCandidate(history, c[1], c[2])}

\* Only a live session makes an execution usable: recovery, age and a change of
\* inputs promote nothing (docs/execution-evidence-v4.md:565).
RecoveryPromotesNothing ==
    [][~alive => Candidates' \subseteq Candidates]_vars

\* What no recovery of the code gets past: a guard whose process died, a
\* half-written snapshot, a two-link observation file, a two-link event no pending
\* result announces, or a window nobody can prove over on this boot.
Wedged ==
    /\ recovery = "none"
    /\ \/ guard
       \/ owner # 0 /\ snapshots[owner] = "torn"
       \/ fileAlias # {}
       \/ \E i \in eventAlias : ~Announced(history[i])
       \/ ~rebooted /\ \E w \in windows : ~Provable(w)

\* Every session ends with its owner retired: released, or recovered after its
\* death, unless recovery is wedged.
OwnersRetire == \A r \in Runs : owner = r ~> owner # r \/ Wedged

------------------------------------------------------------------------------
(* The inductive strengthening of Accounted.                               *)

Announcing == {"pending", "running", "executed", "thrown", "published", "appended", "nullified"}
AnnouncingObservation ==
    {"obspending", "checking", "examined", "streamed", "received", "obsappended"}

SameAttempt(x, p) == x.key = KeyNow(p) /\ x.attempt = work[p].attempt

\* A dispatched invocation is announced until its event is durable.
InvocationsAnnounced ==
    \A p \in Physicals :
        /\ At(p, Announcing) => ExecutionPending(p) \in pending
        /\ At(p, AnnouncingObservation) => ObservationPending(p) \in pending

\* Attempts are fresh: the artifact of a running attempt is the one it commits.
FreshAttempts ==
    /\ \A x \in artifacts : x.attempt <= attempts
    /\ \A p \in Physicals :
          /\ At(p, Announcing) => work[p].attempt <= attempts
          /\ At(p, Announcing \ {"published", "appended"}) =>
                \A x \in artifacts : ~SameAttempt(x, p)
          /\ At(p, {"published", "appended"}) =>
                \A x \in artifacts : SameAttempt(x, p) => x.result = work[p].result

\* What is about to be cleared has its event.
Settled ==
    \A p \in Physicals :
        /\ At(p, {"appended"}) =>
              \A x \in artifacts : SameAttempt(x, p) => AccountsArtifact(history, x)
        /\ At(p, {"obsappended"}) =>
              \A c \in receipts : (SameAttempt(c, p) /\ c.member = work[p].member /\ c.run = owner)
                                     => AccountsReceipt(history, c)

\* A live session owns the store; a recovery works on a dead owner, and what it
\* verified stays accounted.
Ownership ==
    /\ alive => owner # 0
    /\ owner = 0 => pending = {}
    /\ recovery \notin {"none", "retired"} => owner # 0 /\ ~alive
    /\ recovery = "verified" => AllAccounted

AccountingInv ==
    TypeOK /\ Accounted /\ InvocationsAnnounced /\ FreshAttempts /\ Settled /\ Ownership
=============================================================================

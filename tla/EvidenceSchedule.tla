--------------------------- MODULE EvidenceSchedule ---------------------------
(***************************************************************************)
(* How one run admits its physical recipes: the schedule loop, the workers *)
(* it starts (executePhysical and the observations that follow), and the   *)
(* resource locks they share with each other and with the sessions of      *)
(* other projects on the host.                                             *)
(*                                                                         *)
(* Every await is a point where other workers run; the code between two    *)
(* awaits is one action.  What the workers write to the store is the       *)
(* subject of EvidenceStore.                                               *)
(***************************************************************************)
EXTENDS Integers, SequencesExt

CONSTANTS
    Physicals,    \* the selected physical recipes
    Order,        \* the queue: the recipes in policy order
    Jobs,         \* how many may be active
    Exclusive,    \* the recipes that run alone
    Needs,        \* the resources of each recipe
    CheckerNeeds, \* the resources of the claim checker
    Slots,        \* how many members each recipe has
    Resources,
    Admission,    \* the host's .admission lock
    MaxTakes,     \* bound on the locks other sessions take
    MaxFaults     \* bound on cancellations, thrown errors and lost processes

ASSUME ScheduleAssumption ==
    /\ Order \in Seq(Physicals)
    /\ \A p \in Physicals : \E i \in DOMAIN Order : Order[i] = p
    /\ \A i, j \in DOMAIN Order : Order[i] = Order[j] => i = j
    /\ Jobs \in Nat \ {0}
    /\ Exclusive \subseteq Physicals
    /\ Needs \in [Physicals -> SUBSET Resources]
    /\ CheckerNeeds \subseteq Resources
    /\ Slots \in [Physicals -> Nat \ {0}]
    /\ Admission \notin Resources
    /\ MaxTakes \in Nat /\ MaxFaults \in Nat

VARIABLES
    \* the loop
    queue, phase, index, admitted,
    raced,      \* the active workers Promise.race was given
    \* the workers
    at,
    todo,       \* members still to be observed
    result,
    held,       \* the resource locks of the execution
    checks,     \* the resource locks of the observation
    pending,    \* the worker's pending result is not cleared
    recorded,   \* (history) its execution event is durable
    failed,     \* (history) an execution or an observation ended other than PASS
    late,       \* (history) recipes whose command started after that
    windows,    \* open spawn windows of the session
    \* what they share
    barrier,    \* the workers counted in observationBarrier
    halted, cancelled,
    aborted,    \* observationAbort
    \* the host
    foreign,    \* locks of other sessions
    takes, faults

sched == <<queue, phase, index, admitted, raced>>
locks == <<held, checks>>
stops == <<halted, cancelled, aborted>>
host == <<foreign, takes>>
seen == <<failed, late>>
vars == <<sched, at, todo, result, locks, pending, recorded, seen, windows, barrier, stops, host, faults>>

Phases == {"top", "trying", "granted", "racing", "sleeping", "joining", "done"}
Stages == {"queued", "keying", "validating", "hit", "announcing", "beginning", "running", "thrown", "executed",
           "recorded", "waiting", "preparing", "starting", "checking", "examined", "leaving", "ended"}
Window == [of: Physicals, kind: {"execution", "observation"}, state: {"active", "indeterminate"}]
Results == {"none", "PASS", "FAIL", "ERROR", "CANCELLED"}

TypeOK ==
    /\ queue \in Seq(Physicals) /\ phase \in Phases /\ index \in Nat \ {0}
    /\ admitted \in BOOLEAN /\ raced \subseteq Physicals
    /\ at \in [Physicals -> Stages] /\ todo \in [Physicals -> Nat]
    /\ result \in [Physicals -> Results]
    /\ held \in [Physicals -> SUBSET Resources] /\ checks \in [Physicals -> SUBSET Resources]
    /\ pending \in [Physicals -> BOOLEAN] /\ recorded \subseteq Physicals
    /\ failed \in BOOLEAN /\ late \subseteq Physicals
    /\ windows \subseteq Window /\ barrier \subseteq Physicals
    /\ halted \in BOOLEAN /\ cancelled \in BOOLEAN /\ aborted \in BOOLEAN
    /\ foreign \subseteq Resources \cup {Admission} /\ takes \in Nat /\ faults \in Nat

Init ==
    /\ queue = Order /\ phase = "top" /\ index = 1 /\ admitted = FALSE /\ raced = {}
    /\ at = [p \in Physicals |-> "queued"] /\ todo = [p \in Physicals |-> 0]
    /\ result = [p \in Physicals |-> "none"]
    /\ held = [p \in Physicals |-> {}] /\ checks = [p \in Physicals |-> {}]
    /\ pending = [p \in Physicals |-> FALSE] /\ recorded = {}
    /\ failed = FALSE /\ late = {}
    /\ windows = {} /\ barrier = {}
    /\ halted = FALSE /\ cancelled = FALSE /\ aborted = FALSE
    /\ foreign = {} /\ takes = 0 /\ faults = 0

Active == {p \in Physicals : at[p] \notin {"queued", "ended"}}
ExclusiveRuns == Active \cap Exclusive # {}
Stopped == halted \/ cancelled
Fault == faults < MaxFaults /\ faults' = faults + 1

------------------------------------------------------------------------------
(* Resource locks.                                                         *)

Held == UNION {held[p] \cup checks[p] : p \in Physicals}
Indeterminate == \E w \in windows : w.state = "indeterminate"

\* tryAcquireResources takes all of ids or none, under the host's .admission lock;
\* it throws while an invocation of the session is indeterminate.
Available(ids) ==
    ids # {} => ~Indeterminate /\ (ids \cup {Admission}) \cap (Held \cup foreign) = {}

\* acquired.release throws while an invocation of the session is indeterminate.
CanRelease(ids) == ids = {} \/ ~Indeterminate

\* Other sessions take resource sets of their own, and give them back.
ForeignTake ==
    /\ takes < MaxTakes
    /\ \E ids \in SUBSET (Resources \cup {Admission}) \ {{}} :
          /\ ids \cap (Held \cup foreign) = {}
          /\ foreign' = foreign \cup ids
    /\ takes' = takes + 1
    /\ UNCHANGED <<sched, at, todo, result, locks, pending, recorded, windows, barrier, stops, faults, seen>>

ForeignRelease ==
    /\ foreign # {}
    /\ foreign' = {}
    /\ UNCHANGED <<sched, at, todo, result, locks, pending, recorded, windows, barrier, stops, takes, faults, seen>>

Cancel ==
    /\ ~cancelled /\ phase # "done"
    /\ cancelled' = TRUE
    /\ Fault
    /\ UNCHANGED <<sched, at, todo, result, locks, pending, recorded, windows, barrier, halted, aborted, host, seen>>

------------------------------------------------------------------------------
(* The schedule loop.                                                      *)

\* (mutant) One recipe too many.
ScanPastJobs(i, q, active) ==
    {j \in i .. Len(q) : /\ Cardinality(active) <= Jobs
                         /\ q[j] \in Exclusive => active = {}}

\* The queue positions from i on whose recipe may be tried.
Scan(i, q, active) ==
    {j \in i .. Len(q) : /\ Cardinality(active) < Jobs
                         /\ q[j] \in Exclusive => active = {}}

\* The tail of an iteration: race, sleep, leave or go round again.
Rest(q, active, adm, halt) ==
    /\ phase' = CASE active # {} -> "racing"
                  [] active = {} /\ q # <<>> /\ ~halt /\ ~adm -> "sleeping"
                  [] active = {} /\ (q = <<>> \/ adm) /\ ~halt -> "top"
                  [] active = {} /\ halt -> "joining"
    /\ raced' = active
    /\ UNCHANGED index

TryFrom(i, q, active, adm, halt) ==
    LET scan == Scan(i, q, active)
    IN  \/ /\ scan = {}
           /\ Rest(q, active, adm, halt)
        \/ \E first \in scan :
             /\ \A j \in scan : first =< j
             /\ phase' = "trying" /\ index' = first
             /\ UNCHANGED raced

Iterate ==
    /\ phase = "top"
    /\ queue # <<>> \/ Active # {}
    /\ halted' = Stopped
    /\ admitted' = FALSE
    /\ IF ~Stopped /\ ~ExclusiveRuns /\ barrier = {}
       THEN TryFrom(1, queue, Active, FALSE, FALSE)
       ELSE Rest(queue, Active, FALSE, Stopped)
    /\ UNCHANGED <<queue, at, todo, result, locks, pending, recorded, windows, barrier, cancelled, aborted, host, faults, seen>>

TryTaken ==
    /\ phase = "trying" /\ Available(Needs[queue[index]])
    /\ held' = [held EXCEPT ![queue[index]] = Needs[queue[index]]]
    /\ phase' = "granted"
    /\ UNCHANGED <<queue, index, admitted, raced, at, todo, result, checks, pending, recorded, windows, barrier, stops, host, faults, seen>>

\* The next position is tried with no test of halted or of the barrier between.
TryRefused ==
    /\ phase = "trying" /\ ~Indeterminate /\ ~Available(Needs[queue[index]])
    /\ TryFrom(index + 1, queue, Active, admitted, halted)
    /\ UNCHANGED <<queue, admitted, at, todo, result, locks, pending, recorded, windows, barrier, stops, host, faults, seen>>

TryThrows ==
    /\ phase = "trying" /\ Needs[queue[index]] # {}
    /\ \/ Indeterminate /\ UNCHANGED faults
       \/ ~Indeterminate /\ Fault
    /\ halted' = TRUE
    /\ phase' = "joining"
    /\ UNCHANGED <<queue, index, admitted, raced, at, todo, result, locks, pending, recorded, windows, barrier, cancelled, aborted, host, seen>>

\* The recipe leaves the queue and its worker starts.
Start ==
    LET p == queue[index]
        rest == RemoveAt(queue, index)
    IN  /\ queue' = rest
        /\ at' = [at EXCEPT ![p] = "keying"]
        /\ admitted' = TRUE
        /\ IF p \in Exclusive \/ barrier # {}
           THEN Rest(rest, Active \cup {p}, TRUE, FALSE)
           ELSE TryFrom(index, rest, Active \cup {p}, TRUE, FALSE)
        /\ UNCHANGED <<todo, result, locks, pending, recorded, windows, barrier, stops, host, faults, seen>>

\* halted is looked at again after the await; the barrier is not.
Admit == phase = "granted" /\ ~Stopped /\ Start

GiveBack ==
    /\ phase = "granted" /\ Stopped
    /\ CanRelease(held[queue[index]])
    /\ held' = [held EXCEPT ![queue[index]] = {}]
    /\ halted' = TRUE
    /\ Rest(queue, Active, admitted, TRUE)
    /\ UNCHANGED <<queue, admitted, at, todo, result, checks, pending, recorded, windows, barrier, cancelled, aborted, host, faults, seen>>

GiveBackThrows ==
    /\ phase = "granted" /\ Stopped
    /\ ~CanRelease(held[queue[index]])
    /\ halted' = TRUE
    /\ phase' = "joining"
    /\ UNCHANGED <<queue, index, admitted, raced, at, todo, result, locks, pending, recorded, windows, barrier, cancelled, aborted, host, faults, seen>>

\* Promise.race settles with the first worker to leave; a sleep ends by itself.
Wake ==
    /\ \/ phase = "racing" /\ raced \ Active # {}
       \/ phase = "sleeping"
    /\ phase' = "top"
    /\ UNCHANGED <<queue, index, admitted, raced, at, todo, result, locks, pending, recorded, windows, barrier, stops, host, faults, seen>>

LeaveLoop ==
    /\ phase = "top" /\ queue = <<>> /\ Active = {}
    /\ phase' = "joining"
    /\ UNCHANGED <<queue, index, admitted, raced, at, todo, result, locks, pending, recorded, windows, barrier, stops, host, faults, seen>>

Join ==
    /\ phase = "joining" /\ Active = {}
    /\ phase' = "done"
    /\ UNCHANGED <<queue, index, admitted, raced, at, todo, result, locks, pending, recorded, windows, barrier, stops, host, faults, seen>>

Schedule ==
    \/ Iterate \/ TryTaken \/ TryRefused \/ TryThrows \/ Admit \/ GiveBack \/ GiveBackThrows
    \/ Wake \/ LeaveLoop \/ Join

------------------------------------------------------------------------------
(* A worker.                                                               *)

To(p, stage) == at' = [at EXCEPT ![p] = stage]

\* executePhysical throws, or returns: finally takes its count off the barrier.
Leave(p) == To(p, "leaving") /\ barrier' = barrier \ {p}
Throw(p) == Leave(p) /\ halted' = TRUE

\* Two recipes have different execution keys, so acquireKey waits for nobody.
Key(p) ==
    /\ at[p] = "keying"
    /\ \/ cancelled /\ Throw(p)
       \/ ~cancelled /\ halted /\ Leave(p) /\ UNCHANGED halted
       \/ ~Stopped /\ To(p, "validating") /\ UNCHANGED <<barrier, halted>>
    /\ UNCHANGED <<sched, todo, result, locks, pending, recorded, windows, cancelled, aborted, host, faults, seen>>

\* (mutant) A hit keeps its resources until it has observed.
HitHolding(p) ==
    /\ at[p] = "validating"
    /\ \E n \in 1 .. Slots[p] : todo' = [todo EXCEPT ![p] = n]
    /\ result' = [result EXCEPT ![p] = "PASS"]
    /\ To(p, "hit")
    /\ UNCHANGED <<sched, locks, pending, recorded, windows, barrier, stops, host, faults, seen>>

\* Every selected member has a candidate: the resources go back at once.
Hit(p) ==
    /\ at[p] = "validating"
    /\ \E n \in 1 .. Slots[p] : todo' = [todo EXCEPT ![p] = n]
    /\ \/ /\ CanRelease(held[p])
          /\ held' = [held EXCEPT ![p] = {}]
          /\ result' = [result EXCEPT ![p] = "PASS"]
          /\ To(p, "hit")
          /\ UNCHANGED <<barrier, halted>>
       \/ /\ ~CanRelease(held[p])
          /\ Throw(p)
          /\ UNCHANGED <<held, result>>
    /\ UNCHANGED <<sched, checks, pending, recorded, windows, cancelled, aborted, host, faults, seen>>

HitObserves(p) ==
    /\ at[p] = "hit"
    /\ barrier' = barrier \cup {p}
    /\ To(p, "waiting")
    /\ UNCHANGED <<sched, todo, result, locks, pending, recorded, windows, stops, host, faults, seen>>

\* The last look at halted: from here on the worker has a pending result.
Miss(p) ==
    /\ at[p] = "validating"
    /\ \/ Stopped /\ Leave(p) /\ UNCHANGED pending
       \/ ~Stopped /\ To(p, "announcing") /\ pending' = [pending EXCEPT ![p] = TRUE] /\ UNCHANGED barrier
    /\ UNCHANGED <<sched, todo, result, locks, recorded, windows, stops, host, faults, seen>>

\* beginPending waits its turn among the writes of the owner record: what halts the
\* run meanwhile stops neither it nor the command that follows.
Announce(p) ==
    /\ at[p] = "announcing"
    /\ To(p, "beginning")
    /\ UNCHANGED <<sched, todo, result, locks, pending, recorded, windows, barrier, stops, host, faults, seen>>

\* An await of the worker throws: storage, a moved input, a bad response.
ThrowsBefore(p) ==
    /\ at[p] \in {"validating", "announcing", "executed"}
    /\ Fault
    /\ Throw(p)
    /\ UNCHANGED <<sched, todo, result, locks, pending, recorded, windows, cancelled, aborted, host, seen>>

\* session.run looks at the signal and at lost processes, not at halted.
Launch(p) ==
    /\ at[p] = "beginning" /\ ~cancelled /\ ~Indeterminate
    /\ windows' = windows \cup {[of |-> p, kind |-> "execution", state |-> "active"]}
    /\ late' = IF failed THEN late \cup {p} ELSE late
    /\ To(p, "running")
    /\ UNCHANGED <<sched, todo, result, locks, pending, recorded, failed, barrier, stops, host, faults>>

\* session.run throws before it registers a window.
LaunchThrows(p) ==
    /\ at[p] = "beginning"
    /\ \/ (cancelled \/ Indeterminate) /\ UNCHANGED faults
       \/ ~cancelled /\ ~Indeterminate /\ Fault
    /\ To(p, "thrown")
    /\ result' = [result EXCEPT ![p] = IF cancelled THEN "CANCELLED" ELSE "ERROR"]
    /\ halted' = TRUE /\ failed' = TRUE
    /\ UNCHANGED <<sched, todo, locks, pending, recorded, windows, barrier, cancelled, aborted, host, late>>

\* The null event is appended; the pending result is cleared only when no window
\* of the whole session is open.
RecordThrown(p) ==
    /\ at[p] = "thrown"
    /\ recorded' = recorded \cup {p}
    /\ pending' = [pending EXCEPT ![p] = windows # {}]
    /\ Leave(p)
    /\ UNCHANGED <<sched, todo, result, locks, windows, stops, host, faults, seen>>

\* (mutant) A result stops nothing.
CloseUnhalted(p, kind, r, lost) ==
    LET window(st) == [of |-> p, kind |-> kind, state |-> st]
    IN  /\ r \in {"PASS", "FAIL", "ERROR"}
        /\ IF lost THEN r = "ERROR" /\ Fault ELSE UNCHANGED faults
        /\ windows' = (windows \ {window("active")}) \cup (IF lost THEN {window("indeterminate")} ELSE {})
        /\ UNCHANGED halted
        /\ failed' = (failed \/ r # "PASS")

\* An invocation ends: its window closes, or it stays as indeterminate and the
\* result is ERROR.
Close(p, kind, r, lost) ==
    LET window(st) == [of |-> p, kind |-> kind, state |-> st]
    IN  /\ r \in {"PASS", "FAIL", "ERROR", "CANCELLED"}
        /\ r = "CANCELLED" => cancelled
        /\ IF lost THEN r = "ERROR" /\ Fault ELSE UNCHANGED faults
        /\ windows' = (windows \ {window("active")}) \cup (IF lost THEN {window("indeterminate")} ELSE {})
        /\ halted' = (halted \/ r # "PASS")
        /\ failed' = (failed \/ r # "PASS")

Executed(p) ==
    /\ at[p] = "running"
    /\ \E r \in Results, lost \in BOOLEAN :
          Close(p, "execution", r, lost) /\ result' = [result EXCEPT ![p] = r]
    /\ barrier' = barrier \cup {p}
    /\ To(p, "executed")
    /\ UNCHANGED <<sched, todo, locks, pending, recorded, cancelled, aborted, host, late>>

OwnWindows(p) == {w \in windows : w.of = p}

\* The completion metadata are collected: a PASS whose completion is cancelled is
\* CANCELLED, and with a toolchain, cache or input that moved it is an ERROR.  The
\* artifact and its event become durable; with its windows closed the pending
\* result is cleared.
Record(p) ==
    /\ at[p] = "executed"
    /\ \/ /\ result' = [result EXCEPT ![p] = IF cancelled /\ @ = "PASS" THEN "CANCELLED" ELSE @]
          /\ UNCHANGED <<halted, failed, faults>>
       \/ /\ ~cancelled /\ result[p] = "PASS" /\ Fault
          /\ result' = [result EXCEPT ![p] = "ERROR"]
          /\ halted' = TRUE /\ failed' = TRUE
    /\ recorded' = recorded \cup {p}
    /\ pending' = [pending EXCEPT ![p] = OwnWindows(p) # {}]
    /\ To(p, "recorded")
    /\ UNCHANGED <<sched, todo, locks, windows, barrier, cancelled, aborted, host, late>>

\* (mutant) The resources go back although the invocation's ownership is unresolved.
CheckpointReleasing(p) ==
    /\ at[p] = "recorded"
    /\ held' = [held EXCEPT ![p] = {}]
    /\ todo' = [todo EXCEPT ![p] = Slots[p]]
    /\ IF result[p] = "PASS" THEN To(p, "waiting") /\ UNCHANGED barrier ELSE Leave(p)
    /\ UNCHANGED <<sched, result, checks, pending, recorded, windows, stops, host, faults, seen>>

\* The resources go back once the windows are closed, and a PASS is observed.
Checkpoint(p) ==
    /\ at[p] = "recorded"
    /\ \/ /\ OwnWindows(p) = {} /\ CanRelease(held[p])
          /\ held' = [held EXCEPT ![p] = {}]
          /\ todo' = [todo EXCEPT ![p] = IF result[p] = "PASS" THEN Slots[p] ELSE 0]
          /\ IF result[p] = "PASS" THEN To(p, "waiting") /\ UNCHANGED barrier ELSE Leave(p)
          /\ UNCHANGED halted
       \/ /\ OwnWindows(p) = {} /\ ~CanRelease(held[p])
          /\ Throw(p)
          /\ UNCHANGED <<held, todo>>
       \/ /\ OwnWindows(p) # {}
          /\ Leave(p)
          /\ UNCHANGED <<held, todo, halted>>
    /\ UNCHANGED <<sched, result, checks, pending, recorded, windows, cancelled, aborted, host, faults, seen>>

\* (mutant) One observation too many.
AcquireAnyway(p) ==
    /\ at[p] = "waiting"
    /\ ~cancelled /\ ~aborted /\ Available(CheckerNeeds)
    /\ checks' = [checks EXCEPT ![p] = CheckerNeeds]
    /\ To(p, "preparing")
    /\ UNCHANGED <<sched, todo, result, held, pending, recorded, windows, barrier, stops, host, faults, seen>>

\* observe: acquireResources tries again and again.
Acquire(p) ==
    /\ at[p] = "waiting" /\ todo[p] > 0
    /\ ~cancelled /\ ~aborted /\ Available(CheckerNeeds)
    /\ checks' = [checks EXCEPT ![p] = CheckerNeeds]
    /\ To(p, "preparing")
    /\ UNCHANGED <<sched, todo, result, held, pending, recorded, windows, barrier, stops, host, faults, seen>>

\* (mutant) An indeterminate observation does not abort the waiting ones.
AcquireThrowsOnSignal(p) ==
    /\ at[p] = "waiting" /\ todo[p] > 0
    /\ cancelled
    /\ Throw(p)
    /\ UNCHANGED <<sched, todo, result, locks, pending, recorded, windows, aborted, cancelled, host, faults, seen>>

\* The wait ends with the signal, with observationAbort, or with an indeterminate
\* invocation; only the first leaves the other observations alone.
AcquireThrows(p) ==
    /\ at[p] = "waiting" /\ todo[p] > 0
    /\ cancelled \/ aborted \/ (Indeterminate /\ CheckerNeeds # {})
    /\ Throw(p)
    /\ aborted' = (aborted \/ ~cancelled)
    /\ UNCHANGED <<sched, todo, result, locks, pending, recorded, windows, cancelled, host, faults, seen>>

\* Before its pending result exists a failed observation returns its resources.
PrepareThrows(p) ==
    /\ at[p] = "preparing"
    /\ Fault
    /\ Throw(p)
    /\ checks' = [checks EXCEPT ![p] = IF CanRelease(@) THEN {} ELSE @]
    /\ aborted' = TRUE
    /\ UNCHANGED <<sched, todo, result, held, pending, recorded, windows, cancelled, host, seen>>

Prepare(p) ==
    /\ at[p] = "preparing"
    /\ pending' = [pending EXCEPT ![p] = TRUE]
    /\ To(p, "starting")
    /\ UNCHANGED <<sched, todo, result, locks, recorded, windows, barrier, stops, host, faults, seen>>

Check(p) ==
    /\ at[p] = "starting" /\ ~cancelled /\ ~Indeterminate
    /\ windows' = windows \cup {[of |-> p, kind |-> "observation", state |-> "active"]}
    /\ To(p, "checking")
    /\ UNCHANGED <<sched, todo, result, locks, pending, recorded, barrier, stops, host, faults, seen>>

\* With a pending result the resources stay, and the other observations are told.
ObservationThrows(p) ==
    /\ \/ at[p] = "starting" /\ (cancelled \/ Indeterminate) /\ UNCHANGED faults
       \/ at[p] \in {"starting", "examined"} /\ Fault
    /\ Throw(p)
    /\ aborted' = TRUE
    /\ UNCHANGED <<sched, todo, result, locks, pending, recorded, windows, cancelled, host, seen>>

Examined(p) ==
    /\ at[p] = "checking"
    /\ \E r \in Results, lost \in BOOLEAN : Close(p, "observation", r, lost)
    /\ To(p, "examined")
    /\ UNCHANGED <<sched, todo, result, locks, pending, recorded, barrier, cancelled, aborted, host, late>>

\* The receipt and its event are durable: the next member follows, whatever the
\* result.
Observed(p) ==
    /\ at[p] = "examined" /\ OwnWindows(p) = {}
    /\ pending' = [pending EXCEPT ![p] = FALSE]
    /\ \/ /\ CanRelease(checks[p])
          /\ checks' = [checks EXCEPT ![p] = {}]
          /\ todo' = [todo EXCEPT ![p] = @ - 1]
          /\ To(p, "waiting")
          /\ UNCHANGED <<barrier, halted, aborted>>
       \/ /\ ~CanRelease(checks[p])
          /\ Throw(p)
          /\ aborted' = TRUE
          /\ UNCHANGED <<checks, todo>>
    /\ UNCHANGED <<sched, result, held, recorded, windows, cancelled, host, faults, seen>>

Unresolved(p) ==
    /\ at[p] = "examined" /\ OwnWindows(p) # {}
    /\ Throw(p)
    /\ aborted' = TRUE
    /\ UNCHANGED <<sched, todo, result, locks, pending, recorded, windows, cancelled, host, faults, seen>>

ObservedAll(p) ==
    /\ at[p] = "waiting" /\ todo[p] = 0
    /\ Leave(p)
    /\ UNCHANGED <<sched, todo, result, locks, pending, recorded, windows, stops, host, faults, seen>>

\* The end of finally: without a pending result the locks go back.
End(p) ==
    /\ at[p] = "leaving"
    /\ held' = [held EXCEPT ![p] = IF pending[p] \/ ~CanRelease(@) THEN @ ELSE {}]
    /\ halted' = (halted \/ (~pending[p] /\ ~CanRelease(held[p])))
    /\ To(p, "ended")
    /\ UNCHANGED <<sched, todo, result, checks, pending, recorded, windows, barrier, cancelled, aborted, host, faults, seen>>

Work(p) ==
    \/ Key(p) \/ Hit(p) \/ HitObserves(p) \/ Miss(p) \/ Announce(p) \/ ThrowsBefore(p) \/ Launch(p) \/ LaunchThrows(p)
    \/ RecordThrown(p) \/ Executed(p) \/ Record(p) \/ Checkpoint(p)
    \/ Acquire(p) \/ AcquireThrows(p) \/ PrepareThrows(p) \/ Prepare(p) \/ Check(p)
    \/ ObservationThrows(p) \/ Examined(p) \/ Observed(p) \/ Unresolved(p) \/ ObservedAll(p) \/ End(p)

Next ==
    \/ Schedule \/ ForeignTake \/ ForeignRelease \/ Cancel
    \/ \E p \in Physicals : Work(p)

Spec == Init /\ [][Next]_vars

\* The event loop runs every settled await, commands end within their timeouts,
\* and other sessions give their locks back.
Fairness ==
    /\ WF_vars(Schedule) /\ WF_vars(ForeignRelease)
    /\ \A p \in Physicals : WF_vars(Work(p))

FairSpec == Spec /\ Fairness

------------------------------------------------------------------------------
(* Properties.                                                             *)

\* At most jobs recipes are active, and an exclusive one is alone, whatever
\* finished during the awaits of the loop (docs/execution-evidence-v4.md:538).
AdmissionLimits ==
    /\ Cardinality(Active) <= Jobs
    /\ \A p \in Active \cap Exclusive : Active = {p}

Uses(w) == IF w.kind = "execution" THEN Needs[w.of] ELSE CheckerNeeds

\* No two invocations that may still have processes use one resource, nor one that
\* another session holds: a lock goes back only when its processes are gone.
ProcessesSerialize ==
    \A w \in windows :
        /\ Uses(w) \cap foreign = {}
        /\ \A v \in windows \ {w} : Uses(w) \cap Uses(v) = {}

\* A worker that waits for the checker's resources holds no resource itself, so
\* sessions of two projects cannot wait for each other.
WaitsHoldingNothing ==
    \A p \in Physicals : at[p] = "waiting" => held[p] = {} /\ checks[p] = {}

\* T1 (docs/execution-evidence-v4.md:19, :502), as far as the code keeps it: once an
\* execution or an observation has failed, a command that starts is one whose worker
\* had looked at halted and was writing its pending result, so fewer than jobs
\* commands still start, and none with one job.
LateBounded == Cardinality(late) < Jobs

\* What the loop leaves behind: with nothing halted every recipe passed and every
\* member was observed; with every invocation resolved no lock is held, so the
\* session can release its owner.
Settles ==
    phase = "done" =>
        /\ Active = {} /\ barrier = {}
        /\ ~Stopped => queue = <<>> /\ \A p \in Physicals : result[p] = "PASS" /\ todo[p] = 0
        /\ windows = {} /\ (\A p \in Physicals : ~pending[p]) => Held = {}

\* Executions of this run that completed and have members still to be assessed.
Assessing ==
    {p \in Physicals : \/ at[p] = "executed"
                       \/ at[p] \in {"recorded", "waiting", "preparing", "starting", "checking", "examined"}
                            /\ p \in recorded}

\* docs/execution-evidence-v4.md:428: the members of a completed execution are
\* assessed before further evidence work is scheduled.
BarrierHoldsAdmission ==
    [][\A p \in Physicals : at[p] = "queued" /\ at'[p] # "queued" => Assessing = {}]_vars

\* docs/execution-evidence-v4.md:538: a recipe holds its resources until its
\* processes stop and its checkpoint is durable.
HeldUntilCheckpoint ==
    \A p \in Physicals :
        at[p] = "ended" /\ p \in recorded /\ windows = {} => held[p] = {}

\* An observation waits for a resource that a worker left behind when session.run
\* threw while another invocation was in flight; nothing ends the wait.
Starved ==
    \E p, q \in Physicals :
        /\ at[p] = "waiting" /\ ~cancelled /\ ~aborted /\ ~Indeterminate
        /\ at[q] = "ended" /\ pending[q]
        /\ CheckerNeeds \cap held[q] # {}

\* The loop returns, whatever fails and whoever competes, unless it is starved.
Returns == <>(phase = "done" \/ Starved)
=============================================================================

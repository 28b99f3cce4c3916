------------------------ MODULE EvidenceScheduleProofs ------------------------
(***************************************************************************)
(* Theorems about EvidenceSchedule, for any recipes, resources, number of   *)
(* jobs and members, and however many locks other sessions take and faults  *)
(* occur: every safety property that the runs check on small instances.     *)
(***************************************************************************)
EXTENDS EvidenceSchedule, FiniteSetTheorems, TLAPS

\* The queue holds each recipe whose worker has not started, once.
QueueInv ==
    /\ \A i, j \in 1 .. Len(queue) : queue[i] = queue[j] => i = j
    /\ \A p \in Physicals : at[p] = "queued" <=> \E i \in 1 .. Len(queue) : queue[i] = p

\* While a recipe is being tried the conditions under which the loop chose it
\* stay true: the workers that run during the awaits can only leave.
LoopInv ==
    /\ IsFiniteSet(Active) /\ AdmissionLimits
    /\ phase \in {"trying", "granted"} =>
          /\ index \in 1 .. Len(queue)
          /\ Cardinality(Active) < Jobs
          /\ queue[index] \in Exclusive => Active = {}
          /\ ~ExclusiveRuns
    /\ phase = "granted" => held[queue[index]] = Needs[queue[index]]
    /\ phase = "done" => Active = {}
    /\ phase \in {"joining", "done"} => queue = <<>> \/ Stopped

\* The stages in which a worker holds its own resources, has put them back with
\* a PASS, holds the checker's, and has a result to look for.
Executing == {"keying", "validating", "announcing", "beginning", "running"}
Passed == {"hit", "waiting", "preparing", "starting", "checking", "examined"}
Unchecked == {"queued", "keying", "validating", "hit", "announcing", "beginning", "running",
              "thrown", "executed", "recorded", "waiting"}
CheckerHeld == {"preparing", "starting", "checking", "examined"}
Left == {"leaving", "ended"}
Counted == {"executed", "recorded"} \cup (Passed \ {"hit"})

\* Which locks a worker holds at which stage.
Holding(p) ==
    /\ at[p] = "queued" =>
          held[p] = {} \/ Indeterminate \/ (phase = "granted" /\ queue[index] = p)
    /\ at[p] \in Executing => held[p] = Needs[p]
    /\ at[p] \in Passed => held[p] = {}
    /\ at[p] \in Unchecked => checks[p] = {}
    /\ at[p] \in CheckerHeld => checks[p] = CheckerNeeds
    /\ at[p] \in CheckerHeld \ {"preparing"} => pending[p]
    /\ at[p] \in Left /\ ~pending[p] /\ ~Indeterminate => checks[p] = {}
    /\ at[p] = "ended" /\ ~pending[p] /\ ~Indeterminate => held[p] = {}

\* A worker that has not passed has stopped the run.
Outcome(p) ==
    /\ at[p] \in Passed => result[p] = "PASS"
    /\ at[p] \in CheckerHeld => todo[p] > 0
    /\ at[p] = "thrown" => halted
    /\ at[p] \in {"executed", "recorded"} /\ result[p] # "PASS" => Stopped
    /\ at[p] \in Left => Stopped \/ (result[p] = "PASS" /\ todo[p] = 0)
    /\ p \in barrier => at[p] \in Counted

\* No two workers hold one lock, nor one that another session holds.
LockInv ==
    /\ \A p, q \in Physicals :
          p # q => (held[p] \cup checks[p]) \cap (held[q] \cup checks[q]) = {}
    /\ \A p \in Physicals : (held[p] \cup checks[p]) \cap foreign = {}

\* An open window belongs to a worker that holds what the window uses; the lost
\* ones have stopped the run.
WindowInv ==
    /\ \A v, w \in windows : v.of = w.of => v = w
    /\ \A w \in windows :
          /\ at[w.of] # "queued"
          /\ w.kind = "execution" => held[w.of] = Needs[w.of]
          /\ w.kind = "observation" => checks[w.of] = CheckerNeeds
          /\ w.state = "active" => at[w.of] = IF w.kind = "execution" THEN "running" ELSE "checking"
          /\ w.state = "indeterminate" => halted /\ at[w.of] \notin {"running", "checking"}

ScheduleInv ==
    /\ TypeOK /\ QueueInv /\ LoopInv
    /\ \A p \in Physicals : Holding(p) /\ Outcome(p)
    /\ LockInv /\ WindowInv

\* What a step of worker p leaves alone.
Apart(p) ==
    /\ UNCHANGED <<sched, foreign, cancelled>>
    /\ halted => halted'
    /\ \A q \in Physicals \ {p} :
          /\ at'[q] = at[q] /\ todo'[q] = todo[q] /\ result'[q] = result[q]
          /\ held'[q] = held[q] /\ checks'[q] = checks[q] /\ pending'[q] = pending[q]
          /\ q \in barrier' <=> q \in barrier

USE DEF sched, locks, stops, host, seen

-----------------------------------------------------------------------------
(* The frames of a step.                                                   *)

\* A step of one worker keeps the invariant when it keeps that worker's part of
\* it, the locks and the windows: the loop only sees workers leave.
LEMMA WorkerStep ==
    ASSUME ScheduleInv, TypeOK', NEW p \in Physicals, Apart(p),
           at[p] \notin {"queued", "ended"}, at'[p] # "queued",
           Indeterminate => Indeterminate',
           Holding(p)', Outcome(p)', LockInv', WindowInv'
    PROVE  ScheduleInv'
  <1>1. Active' \subseteq Active
    BY DEF Active, Apart
  <1>2. IsFiniteSet(Active) /\ Cardinality(Active') =< Cardinality(Active) /\ IsFiniteSet(Active')
    BY <1>1, FS_Subset DEF ScheduleInv, LoopInv
  <1>3. Cardinality(Active) \in Nat /\ Cardinality(Active') \in Nat /\ Jobs \in Nat
    BY <1>2, FS_CardinalityType, ScheduleAssumption
  <1>4. Stopped => Stopped'
    BY DEF Stopped, Apart
  <1>5. QueueInv'
    BY DEF QueueInv, ScheduleInv, Apart
  <1>6. LoopInv'
    <2>1. AdmissionLimits'
      BY <1>1, <1>2, <1>3 DEF AdmissionLimits, ScheduleInv, LoopInv
    <2>2. ExclusiveRuns' => ExclusiveRuns
      BY <1>1 DEF ExclusiveRuns
    <2>3. phase' = "granted" => held'[queue'[index']] = Needs[queue'[index']]
      <3> SUFFICES ASSUME phase = "granted" PROVE held'[queue[index]] = Needs[queue[index]]
        BY DEF Apart
      <3>1. index \in 1 .. Len(queue) /\ queue[index] \in Physicals
        BY DEF ScheduleInv, TypeOK, LoopInv
      <3>2. at[queue[index]] = "queued"
        BY <3>1 DEF ScheduleInv, QueueInv
      <3> QED BY <3>1, <3>2 DEF Apart, ScheduleInv, LoopInv
    <2>4. phase' \in {"trying", "granted"} =>
            /\ index' \in 1 .. Len(queue')
            /\ Cardinality(Active') < Jobs
            /\ queue'[index'] \in Exclusive => Active' = {}
            /\ ~ExclusiveRuns'
      BY <1>1, <1>2, <1>3, <2>2 DEF Apart, ScheduleInv, LoopInv
    <2>5. (phase' = "done" => Active' = {}) /\ (phase' \in {"joining", "done"} => queue' = <<>> \/ Stopped')
      BY <1>1, <1>4 DEF Apart, ScheduleInv, LoopInv
    <2> QED BY <1>2, <2>1, <2>3, <2>4, <2>5 DEF LoopInv
  <1>7. ASSUME NEW q \in Physicals PROVE Holding(q)' /\ Outcome(q)'
    <2>1. CASE q = p BY <2>1
    <2>2. CASE q # p
      <3>1. Holding(q) /\ Outcome(q) BY DEF ScheduleInv
      <3>2. Holding(q)' BY <2>2, <3>1 DEF Holding, Apart
      <3>3. Outcome(q)' BY <2>2, <3>1, <1>4 DEF Outcome, Apart
      <3> QED BY <3>2, <3>3
    <2> QED BY <2>1, <2>2
  <1> QED BY <1>5, <1>6, <1>7 DEF ScheduleInv

\* A worker that starts and ends no command, and changes its execution's locks only
\* by giving them back while nothing is unresolved.
LEMMA CalmStep ==
    ASSUME ScheduleInv, TypeOK', NEW p \in Physicals, Apart(p), windows' = windows,
           at[p] \notin {"queued", "ended", "running", "checking"},
           at'[p] \notin {"queued", "running", "checking"},
           held'[p] = held[p] \/ (held'[p] = {} /\ ~Indeterminate),
           checks'[p] = checks[p] \/ (checks'[p] = {} /\ ~Indeterminate),
           Holding(p)', Outcome(p)'
    PROVE  ScheduleInv'
  <1>1. LockInv'
    <2>1. \A q \in Physicals : held'[q] \cup checks'[q] \subseteq held[q] \cup checks[q]
      BY DEF Apart
    <2> QED BY <2>1 DEF LockInv, ScheduleInv, Apart
  <1>2. WindowInv'
    <2>1. \A w \in windows : w.of \in Physicals /\ w.state \in {"active", "indeterminate"}
      BY DEF ScheduleInv, TypeOK, Window
    <2>2. ASSUME NEW w \in windows
          PROVE  held'[w.of] = held[w.of] /\ checks'[w.of] = checks[w.of]
      <3>1. CASE w.of # p BY <2>1, <3>1 DEF Apart
      <3>2. CASE w.of = p
        <4>1. w.state # "active"
          BY <3>2 DEF ScheduleInv, WindowInv
        <4> QED BY <2>1, <3>2, <4>1 DEF Indeterminate
      <3> QED BY <3>1, <3>2
    <2>3. ASSUME NEW w \in windows
          PROVE  /\ at'[w.of] # "queued"
                 /\ w.state = "active" => at'[w.of] = at[w.of]
                 /\ w.state = "indeterminate" => at'[w.of] \notin {"running", "checking"}
      BY <2>1 DEF ScheduleInv, WindowInv, Apart
    <2> QED BY <2>2, <2>3 DEF WindowInv, ScheduleInv, Apart
  <1>3. Indeterminate => Indeterminate'
    BY DEF Indeterminate
  <1> QED BY <1>1, <1>2, <1>3, WorkerStep

-----------------------------------------------------------------------------
(* The steps of a worker that start and end no command.                   *)

\* A worker that finds the run stopped while it waits for its key leaves.
LEMMA KeyKeeps ==
    ASSUME ScheduleInv, NEW p \in Physicals, Key(p) PROVE ScheduleInv'
  <1> USE DEF Key, To, Leave, Throw
  <1>1. TypeOK /\ Holding(p) /\ Outcome(p) BY DEF ScheduleInv
  <1>2. TypeOK'
    <2>1. at' \in [Physicals -> Stages] BY <1>1 DEF TypeOK, Stages
    <2>2. todo' \in [Physicals -> Nat]
      <3>1. Slots[p] \in Nat /\ 1 .. Slots[p] \subseteq Nat BY ScheduleAssumption
      <3> QED BY <1>1, <3>1 DEF TypeOK, Outcome, CheckerHeld
    <2>3. result' \in [Physicals -> Results] BY <1>1 DEF TypeOK, Results
    <2>4. held' \in [Physicals -> SUBSET Resources] /\ checks' \in [Physicals -> SUBSET Resources]
      BY <1>1 DEF TypeOK
    <2>5. /\ pending' \in [Physicals -> BOOLEAN] /\ recorded' \subseteq Physicals
          /\ failed' \in BOOLEAN /\ late' \subseteq Physicals
      BY <1>1 DEF TypeOK
    <2>6. barrier' \subseteq Physicals /\ halted' \in BOOLEAN /\ aborted' \in BOOLEAN /\ faults' \in Nat
      BY <1>1 DEF TypeOK, Fault
    <2> QED BY <1>1, <2>1, <2>2, <2>3, <2>4, <2>5, <2>6 DEF TypeOK
  <1>3. /\ Apart(p)
        /\ at[p] \notin {"queued", "ended", "running", "checking"}
        /\ at'[p] \notin {"queued", "running", "checking"}
    BY <1>1 DEF TypeOK, Apart
  <1>4. /\ held'[p] = held[p] \/ (held'[p] = {} /\ ~Indeterminate)
        /\ checks'[p] = checks[p] \/ (checks'[p] = {} /\ ~Indeterminate)
    BY <1>1 DEF TypeOK, CanRelease
  <1>5. windows' = windows /\ (Indeterminate <=> Indeterminate')
    BY DEF Indeterminate
  <1>6. Holding(p)'
    BY <1>1, <1>4, <1>5 DEF TypeOK, Holding, Executing, Passed, Unchecked, CheckerHeld, Left, CanRelease
  <1>7. Outcome(p)'
    BY <1>1, ScheduleAssumption DEF TypeOK, Outcome, Passed, CheckerHeld, Left, Counted, Stopped
  <1> QED BY <1>2, <1>3, <1>4, <1>5, <1>6, <1>7, CalmStep

\* Cached evidence: the resources go back before the worker waits for the checker's.
LEMMA HitKeeps ==
    ASSUME ScheduleInv, NEW p \in Physicals, Hit(p) PROVE ScheduleInv'
  <1> USE DEF Hit, To, Leave, Throw
  <1>1. TypeOK /\ Holding(p) /\ Outcome(p) BY DEF ScheduleInv
  <1>2. TypeOK'
    <2>1. at' \in [Physicals -> Stages] BY <1>1 DEF TypeOK, Stages
    <2>2. todo' \in [Physicals -> Nat]
      <3>1. Slots[p] \in Nat /\ 1 .. Slots[p] \subseteq Nat BY ScheduleAssumption
      <3> QED BY <1>1, <3>1 DEF TypeOK, Outcome, CheckerHeld
    <2>3. result' \in [Physicals -> Results] BY <1>1 DEF TypeOK, Results
    <2>4. held' \in [Physicals -> SUBSET Resources] /\ checks' \in [Physicals -> SUBSET Resources]
      BY <1>1 DEF TypeOK
    <2>5. /\ pending' \in [Physicals -> BOOLEAN] /\ recorded' \subseteq Physicals
          /\ failed' \in BOOLEAN /\ late' \subseteq Physicals
      BY <1>1 DEF TypeOK
    <2>6. barrier' \subseteq Physicals /\ halted' \in BOOLEAN /\ aborted' \in BOOLEAN /\ faults' \in Nat
      BY <1>1 DEF TypeOK, Fault
    <2> QED BY <1>1, <2>1, <2>2, <2>3, <2>4, <2>5, <2>6 DEF TypeOK
  <1>3. /\ Apart(p)
        /\ at[p] \notin {"queued", "ended", "running", "checking"}
        /\ at'[p] \notin {"queued", "running", "checking"}
    BY <1>1 DEF TypeOK, Apart
  <1>4. /\ held'[p] = held[p] \/ (held'[p] = {} /\ ~Indeterminate)
        /\ checks'[p] = checks[p] \/ (checks'[p] = {} /\ ~Indeterminate)
    BY <1>1 DEF TypeOK, CanRelease
  <1>5. windows' = windows /\ (Indeterminate <=> Indeterminate')
    BY DEF Indeterminate
  <1>6. Holding(p)'
    BY <1>1, <1>4, <1>5 DEF TypeOK, Holding, Executing, Passed, Unchecked, CheckerHeld, Left, CanRelease
  <1>7. Outcome(p)'
    <2>1. at[p] = "validating" /\ at'[p] \in {"hit", "leaving"} /\ (at'[p] = "leaving" => halted')
      BY <1>1 DEF TypeOK
    <2>2. at'[p] = "hit" => result'[p] = "PASS" /\ barrier' = barrier
      BY <1>1 DEF TypeOK
    <2>3. p \notin barrier' BY <1>1, <2>1, <2>2 DEF Outcome, Counted, Passed
    <2> QED BY <2>1, <2>2, <2>3 DEF Outcome, Passed, CheckerHeld, Left, Counted, Stopped
  <1> QED BY <1>2, <1>3, <1>4, <1>5, <1>6, <1>7, CalmStep

\* A hit counts itself in the barrier.
LEMMA HitObservesKeeps ==
    ASSUME ScheduleInv, NEW p \in Physicals, HitObserves(p) PROVE ScheduleInv'
  <1> USE DEF HitObserves, To, Leave, Throw
  <1>1. TypeOK /\ Holding(p) /\ Outcome(p) BY DEF ScheduleInv
  <1>2. TypeOK'
    BY <1>1, ScheduleAssumption DEF TypeOK, Stages, Results, Outcome, CheckerHeld, Fault
  <1>3. /\ Apart(p)
        /\ at[p] \notin {"queued", "ended", "running", "checking"}
        /\ at'[p] \notin {"queued", "running", "checking"}
    BY <1>1 DEF TypeOK, Apart
  <1>4. /\ held'[p] = held[p] \/ (held'[p] = {} /\ ~Indeterminate)
        /\ checks'[p] = checks[p] \/ (checks'[p] = {} /\ ~Indeterminate)
    BY <1>1 DEF TypeOK, CanRelease
  <1>5. windows' = windows /\ (Indeterminate <=> Indeterminate')
    BY DEF Indeterminate
  <1>6. Holding(p)'
    BY <1>1, <1>4, <1>5 DEF TypeOK, Holding, Executing, Passed, Unchecked, CheckerHeld, Left, CanRelease
  <1>7. Outcome(p)'
    BY <1>1, ScheduleAssumption DEF TypeOK, Outcome, Passed, CheckerHeld, Left, Counted, Stopped
  <1> QED BY <1>2, <1>3, <1>4, <1>5, <1>6, <1>7, CalmStep

\* The worker looks at halted for the last time.
LEMMA MissKeeps ==
    ASSUME ScheduleInv, NEW p \in Physicals, Miss(p) PROVE ScheduleInv'
  <1> USE DEF Miss, To, Leave, Throw
  <1>1. TypeOK /\ Holding(p) /\ Outcome(p) BY DEF ScheduleInv
  <1>2. TypeOK'
    <2>1. at' \in [Physicals -> Stages] BY <1>1 DEF TypeOK, Stages
    <2>2. todo' \in [Physicals -> Nat]
      <3>1. Slots[p] \in Nat /\ 1 .. Slots[p] \subseteq Nat BY ScheduleAssumption
      <3> QED BY <1>1, <3>1 DEF TypeOK, Outcome, CheckerHeld
    <2>3. result' \in [Physicals -> Results] BY <1>1 DEF TypeOK, Results
    <2>4. held' \in [Physicals -> SUBSET Resources] /\ checks' \in [Physicals -> SUBSET Resources]
      BY <1>1 DEF TypeOK
    <2>5. /\ pending' \in [Physicals -> BOOLEAN] /\ recorded' \subseteq Physicals
          /\ failed' \in BOOLEAN /\ late' \subseteq Physicals
      BY <1>1 DEF TypeOK
    <2>6. barrier' \subseteq Physicals /\ halted' \in BOOLEAN /\ aborted' \in BOOLEAN /\ faults' \in Nat
      BY <1>1 DEF TypeOK, Fault
    <2> QED BY <1>1, <2>1, <2>2, <2>3, <2>4, <2>5, <2>6 DEF TypeOK
  <1>3. /\ Apart(p)
        /\ at[p] \notin {"queued", "ended", "running", "checking"}
        /\ at'[p] \notin {"queued", "running", "checking"}
    BY <1>1 DEF TypeOK, Apart
  <1>4. /\ held'[p] = held[p] \/ (held'[p] = {} /\ ~Indeterminate)
        /\ checks'[p] = checks[p] \/ (checks'[p] = {} /\ ~Indeterminate)
    BY <1>1 DEF TypeOK, CanRelease
  <1>5. windows' = windows /\ (Indeterminate <=> Indeterminate')
    BY DEF Indeterminate
  <1>6. Holding(p)'
    BY <1>1, <1>4, <1>5 DEF TypeOK, Holding, Executing, Passed, Unchecked, CheckerHeld, Left, CanRelease
  <1>7. Outcome(p)'
    BY <1>1, ScheduleAssumption DEF TypeOK, Outcome, Passed, CheckerHeld, Left, Counted, Stopped
  <1> QED BY <1>2, <1>3, <1>4, <1>5, <1>6, <1>7, CalmStep

\* The pending result is written whatever has happened since the worker looked.
LEMMA AnnounceKeeps ==
    ASSUME ScheduleInv, NEW p \in Physicals, Announce(p) PROVE ScheduleInv'
  <1> USE DEF Announce, To, Leave, Throw
  <1>1. TypeOK /\ Holding(p) /\ Outcome(p) BY DEF ScheduleInv
  <1>2. TypeOK'
    BY <1>1, ScheduleAssumption DEF TypeOK, Stages, Results, Outcome, CheckerHeld, Fault
  <1>3. /\ Apart(p)
        /\ at[p] \notin {"queued", "ended", "running", "checking"}
        /\ at'[p] \notin {"queued", "running", "checking"}
    BY <1>1 DEF TypeOK, Apart
  <1>4. /\ held'[p] = held[p] \/ (held'[p] = {} /\ ~Indeterminate)
        /\ checks'[p] = checks[p] \/ (checks'[p] = {} /\ ~Indeterminate)
    BY <1>1 DEF TypeOK, CanRelease
  <1>5. windows' = windows /\ (Indeterminate <=> Indeterminate')
    BY DEF Indeterminate
  <1>6. Holding(p)'
    BY <1>1, <1>4, <1>5 DEF TypeOK, Holding, Executing, Passed, Unchecked, CheckerHeld, Left, CanRelease
  <1>7. Outcome(p)'
    BY <1>1, ScheduleAssumption DEF TypeOK, Outcome, Passed, CheckerHeld, Left, Counted, Stopped
  <1> QED BY <1>2, <1>3, <1>4, <1>5, <1>6, <1>7, CalmStep

\* A throw before the invocation leaves the resources to finally.
LEMMA ThrowsBeforeKeeps ==
    ASSUME ScheduleInv, NEW p \in Physicals, ThrowsBefore(p) PROVE ScheduleInv'
  <1> USE DEF ThrowsBefore, To, Leave, Throw
  <1>1. TypeOK /\ Holding(p) /\ Outcome(p) BY DEF ScheduleInv
  <1>2. TypeOK'
    BY <1>1, ScheduleAssumption DEF TypeOK, Stages, Results, Outcome, CheckerHeld, Fault
  <1>3. /\ Apart(p)
        /\ at[p] \notin {"queued", "ended", "running", "checking"}
        /\ at'[p] \notin {"queued", "running", "checking"}
    BY <1>1 DEF TypeOK, Apart
  <1>4. /\ held'[p] = held[p] \/ (held'[p] = {} /\ ~Indeterminate)
        /\ checks'[p] = checks[p] \/ (checks'[p] = {} /\ ~Indeterminate)
    BY <1>1 DEF TypeOK, CanRelease
  <1>5. windows' = windows /\ (Indeterminate <=> Indeterminate')
    BY DEF Indeterminate
  <1>6. Holding(p)'
    BY <1>1, <1>4, <1>5 DEF TypeOK, Holding, Executing, Passed, Unchecked, CheckerHeld, Left, CanRelease
  <1>7. Outcome(p)'
    BY <1>1, ScheduleAssumption DEF TypeOK, Outcome, Passed, CheckerHeld, Left, Counted, Stopped
  <1> QED BY <1>2, <1>3, <1>4, <1>5, <1>6, <1>7, CalmStep

\* An invocation that never started has stopped the run.
LEMMA LaunchThrowsKeeps ==
    ASSUME ScheduleInv, NEW p \in Physicals, LaunchThrows(p) PROVE ScheduleInv'
  <1> USE DEF LaunchThrows, To, Leave, Throw
  <1>1. TypeOK /\ Holding(p) /\ Outcome(p) BY DEF ScheduleInv
  <1>2. TypeOK'
    BY <1>1, ScheduleAssumption DEF TypeOK, Stages, Results, Outcome, CheckerHeld, Fault
  <1>3. /\ Apart(p)
        /\ at[p] \notin {"queued", "ended", "running", "checking"}
        /\ at'[p] \notin {"queued", "running", "checking"}
    BY <1>1 DEF TypeOK, Apart
  <1>4. /\ held'[p] = held[p] \/ (held'[p] = {} /\ ~Indeterminate)
        /\ checks'[p] = checks[p] \/ (checks'[p] = {} /\ ~Indeterminate)
    BY <1>1 DEF TypeOK, CanRelease
  <1>5. windows' = windows /\ (Indeterminate <=> Indeterminate')
    BY DEF Indeterminate
  <1>6. Holding(p)'
    BY <1>1, <1>4, <1>5 DEF TypeOK, Holding, Executing, Passed, Unchecked, CheckerHeld, Left, CanRelease
  <1>7. Outcome(p)'
    BY <1>1, ScheduleAssumption DEF TypeOK, Outcome, Passed, CheckerHeld, Left, Counted, Stopped
  <1> QED BY <1>2, <1>3, <1>4, <1>5, <1>6, <1>7, CalmStep

\* The null event: the locks stay with a pending result.
LEMMA RecordThrownKeeps ==
    ASSUME ScheduleInv, NEW p \in Physicals, RecordThrown(p) PROVE ScheduleInv'
  <1> USE DEF RecordThrown, To, Leave, Throw
  <1>1. TypeOK /\ Holding(p) /\ Outcome(p) BY DEF ScheduleInv
  <1>2. TypeOK'
    BY <1>1, ScheduleAssumption DEF TypeOK, Stages, Results, Outcome, CheckerHeld, Fault
  <1>3. /\ Apart(p)
        /\ at[p] \notin {"queued", "ended", "running", "checking"}
        /\ at'[p] \notin {"queued", "running", "checking"}
    BY <1>1 DEF TypeOK, Apart
  <1>4. /\ held'[p] = held[p] \/ (held'[p] = {} /\ ~Indeterminate)
        /\ checks'[p] = checks[p] \/ (checks'[p] = {} /\ ~Indeterminate)
    BY <1>1 DEF TypeOK, CanRelease
  <1>5. windows' = windows /\ (Indeterminate <=> Indeterminate')
    BY DEF Indeterminate
  <1>6. Holding(p)'
    BY <1>1, <1>4, <1>5 DEF TypeOK, Holding, Executing, Passed, Unchecked, CheckerHeld, Left, CanRelease
  <1>7. Outcome(p)'
    BY <1>1, ScheduleAssumption DEF TypeOK, Outcome, Passed, CheckerHeld, Left, Counted, Stopped
  <1> QED BY <1>2, <1>3, <1>4, <1>5, <1>6, <1>7, CalmStep

\* The artifact is durable; a PASS that is no longer one has stopped the run.
LEMMA RecordKeeps ==
    ASSUME ScheduleInv, NEW p \in Physicals, Record(p) PROVE ScheduleInv'
  <1> USE DEF Record, To, Leave, Throw
  <1>1. TypeOK /\ Holding(p) /\ Outcome(p) BY DEF ScheduleInv
  <1>2. TypeOK'
    <2>1. at' \in [Physicals -> Stages] BY <1>1 DEF TypeOK, Stages
    <2>2. todo' \in [Physicals -> Nat]
      <3>1. Slots[p] \in Nat /\ 1 .. Slots[p] \subseteq Nat BY ScheduleAssumption
      <3> QED BY <1>1, <3>1 DEF TypeOK, Outcome, CheckerHeld
    <2>3. result' \in [Physicals -> Results] BY <1>1 DEF TypeOK, Results
    <2>4. held' \in [Physicals -> SUBSET Resources] /\ checks' \in [Physicals -> SUBSET Resources]
      BY <1>1 DEF TypeOK
    <2>5. /\ pending' \in [Physicals -> BOOLEAN] /\ recorded' \subseteq Physicals
          /\ failed' \in BOOLEAN /\ late' \subseteq Physicals
      BY <1>1 DEF TypeOK
    <2>6. barrier' \subseteq Physicals /\ halted' \in BOOLEAN /\ aborted' \in BOOLEAN /\ faults' \in Nat
      <3>1. \/ halted' = halted /\ faults' = faults
            \/ halted' = TRUE /\ faults' = faults + 1
        BY DEF Fault
      <3>2. halted \in BOOLEAN /\ faults \in Nat /\ aborted' = aborted /\ barrier' = barrier
        BY <1>1 DEF TypeOK
      <3> HIDE DEF Record
      <3>3. faults' \in Nat BY <3>1, <3>2
      <3>4. halted' \in BOOLEAN BY <3>1, <3>2
      <3> QED BY <1>1, <3>2, <3>3, <3>4 DEF TypeOK
    <2> QED BY <1>1, <2>1, <2>2, <2>3, <2>4, <2>5, <2>6 DEF TypeOK
  <1>3. /\ Apart(p)
        /\ at[p] \notin {"queued", "ended", "running", "checking"}
        /\ at'[p] \notin {"queued", "running", "checking"}
    BY <1>1 DEF TypeOK, Apart
  <1>4. /\ held'[p] = held[p] \/ (held'[p] = {} /\ ~Indeterminate)
        /\ checks'[p] = checks[p] \/ (checks'[p] = {} /\ ~Indeterminate)
    BY <1>1 DEF TypeOK, CanRelease
  <1>5. windows' = windows /\ (Indeterminate <=> Indeterminate')
    BY DEF Indeterminate
  <1>6. Holding(p)'
    BY <1>1, <1>4, <1>5 DEF TypeOK, Holding, Executing, Passed, Unchecked, CheckerHeld, Left, CanRelease
  <1>7. Outcome(p)'
    BY <1>1, ScheduleAssumption DEF TypeOK, Outcome, Passed, CheckerHeld, Left, Counted, Stopped
  <1> QED BY <1>2, <1>3, <1>4, <1>5, <1>6, <1>7, CalmStep

\* The checkpoint gives the resources back, or the worker leaves a stopped run.
LEMMA CheckpointKeeps ==
    ASSUME ScheduleInv, NEW p \in Physicals, Checkpoint(p) PROVE ScheduleInv'
  <1> USE DEF Checkpoint, To, Leave, Throw
  <1>1. TypeOK /\ Holding(p) /\ Outcome(p) BY DEF ScheduleInv
  <1>2. TypeOK'
    <2>1. at' \in [Physicals -> Stages] BY <1>1 DEF TypeOK, Stages
    <2>2. todo' \in [Physicals -> Nat]
      <3>1. Slots[p] \in Nat /\ 1 .. Slots[p] \subseteq Nat BY ScheduleAssumption
      <3> QED BY <1>1, <3>1 DEF TypeOK, Outcome, CheckerHeld
    <2>3. result' \in [Physicals -> Results] BY <1>1 DEF TypeOK, Results
    <2>4. held' \in [Physicals -> SUBSET Resources] /\ checks' \in [Physicals -> SUBSET Resources]
      BY <1>1 DEF TypeOK
    <2>5. /\ pending' \in [Physicals -> BOOLEAN] /\ recorded' \subseteq Physicals
          /\ failed' \in BOOLEAN /\ late' \subseteq Physicals
      BY <1>1 DEF TypeOK
    <2>6. barrier' \subseteq Physicals /\ halted' \in BOOLEAN /\ aborted' \in BOOLEAN /\ faults' \in Nat
      BY <1>1 DEF TypeOK, Fault
    <2> QED BY <1>1, <2>1, <2>2, <2>3, <2>4, <2>5, <2>6 DEF TypeOK
  <1>3. /\ Apart(p)
        /\ at[p] \notin {"queued", "ended", "running", "checking"}
        /\ at'[p] \notin {"queued", "running", "checking"}
    BY <1>1 DEF TypeOK, Apart
  <1>4. /\ held'[p] = held[p] \/ (held'[p] = {} /\ ~Indeterminate)
        /\ checks'[p] = checks[p] \/ (checks'[p] = {} /\ ~Indeterminate)
    BY <1>1 DEF TypeOK, CanRelease
  <1>5. windows' = windows /\ (Indeterminate <=> Indeterminate')
    BY DEF Indeterminate
  <1>6. Holding(p)'
    BY <1>1, <1>4, <1>5 DEF TypeOK, Holding, Executing, Passed, Unchecked, CheckerHeld, Left, CanRelease
  <1>7. Outcome(p)'
    <2>1. at'[p] \in {"waiting", "leaving"}
      BY <1>1 DEF TypeOK
    <2>2. at'[p] = "waiting" => result'[p] = "PASS"
      BY <1>1 DEF TypeOK
    <2>3. at'[p] = "leaving" => Stopped'
      BY <1>1 DEF TypeOK, Outcome, Stopped, OwnWindows, ScheduleInv, WindowInv, Window
    <2>4. p \in barrier' => at'[p] = "waiting"
      BY <1>1 DEF TypeOK
    <2> QED BY <2>1, <2>2, <2>3, <2>4 DEF Outcome, Passed, CheckerHeld, Left, Counted
  <1> QED BY <1>2, <1>3, <1>4, <1>5, <1>6, <1>7, CalmStep

\* The wait for the checker's resources is given up.
LEMMA AcquireThrowsKeeps ==
    ASSUME ScheduleInv, NEW p \in Physicals, AcquireThrows(p) PROVE ScheduleInv'
  <1> USE DEF AcquireThrows, To, Leave, Throw
  <1>1. TypeOK /\ Holding(p) /\ Outcome(p) BY DEF ScheduleInv
  <1>2. TypeOK'
    BY <1>1, ScheduleAssumption DEF TypeOK, Stages, Results, Outcome, CheckerHeld, Fault
  <1>3. /\ Apart(p)
        /\ at[p] \notin {"queued", "ended", "running", "checking"}
        /\ at'[p] \notin {"queued", "running", "checking"}
    BY <1>1 DEF TypeOK, Apart
  <1>4. /\ held'[p] = held[p] \/ (held'[p] = {} /\ ~Indeterminate)
        /\ checks'[p] = checks[p] \/ (checks'[p] = {} /\ ~Indeterminate)
    BY <1>1 DEF TypeOK, CanRelease
  <1>5. windows' = windows /\ (Indeterminate <=> Indeterminate')
    BY DEF Indeterminate
  <1>6. Holding(p)'
    BY <1>1, <1>4, <1>5 DEF TypeOK, Holding, Executing, Passed, Unchecked, CheckerHeld, Left, CanRelease
  <1>7. Outcome(p)'
    BY <1>1, ScheduleAssumption DEF TypeOK, Outcome, Passed, CheckerHeld, Left, Counted, Stopped
  <1> QED BY <1>2, <1>3, <1>4, <1>5, <1>6, <1>7, CalmStep

\* A failed observation returns its resources unless something is unresolved.
LEMMA PrepareThrowsKeeps ==
    ASSUME ScheduleInv, NEW p \in Physicals, PrepareThrows(p) PROVE ScheduleInv'
  <1> USE DEF PrepareThrows, To, Leave, Throw
  <1>1. TypeOK /\ Holding(p) /\ Outcome(p) BY DEF ScheduleInv
  <1>2. TypeOK'
    BY <1>1, ScheduleAssumption DEF TypeOK, Stages, Results, Outcome, CheckerHeld, Fault
  <1>3. /\ Apart(p)
        /\ at[p] \notin {"queued", "ended", "running", "checking"}
        /\ at'[p] \notin {"queued", "running", "checking"}
    BY <1>1 DEF TypeOK, Apart
  <1>4. /\ held'[p] = held[p] \/ (held'[p] = {} /\ ~Indeterminate)
        /\ checks'[p] = checks[p] \/ (checks'[p] = {} /\ ~Indeterminate)
    BY <1>1 DEF TypeOK, CanRelease
  <1>5. windows' = windows /\ (Indeterminate <=> Indeterminate')
    BY DEF Indeterminate
  <1>6. Holding(p)'
    BY <1>1, <1>4, <1>5 DEF TypeOK, Holding, Executing, Passed, Unchecked, CheckerHeld, Left, CanRelease
  <1>7. Outcome(p)'
    BY <1>1, ScheduleAssumption DEF TypeOK, Outcome, Passed, CheckerHeld, Left, Counted, Stopped
  <1> QED BY <1>2, <1>3, <1>4, <1>5, <1>6, <1>7, CalmStep

\* The pending result of the observation exists before its command.
LEMMA PrepareKeeps ==
    ASSUME ScheduleInv, NEW p \in Physicals, Prepare(p) PROVE ScheduleInv'
  <1> USE DEF Prepare, To, Leave, Throw
  <1>1. TypeOK /\ Holding(p) /\ Outcome(p) BY DEF ScheduleInv
  <1>2. TypeOK'
    BY <1>1, ScheduleAssumption DEF TypeOK, Stages, Results, Outcome, CheckerHeld, Fault
  <1>3. /\ Apart(p)
        /\ at[p] \notin {"queued", "ended", "running", "checking"}
        /\ at'[p] \notin {"queued", "running", "checking"}
    BY <1>1 DEF TypeOK, Apart
  <1>4. /\ held'[p] = held[p] \/ (held'[p] = {} /\ ~Indeterminate)
        /\ checks'[p] = checks[p] \/ (checks'[p] = {} /\ ~Indeterminate)
    BY <1>1 DEF TypeOK, CanRelease
  <1>5. windows' = windows /\ (Indeterminate <=> Indeterminate')
    BY DEF Indeterminate
  <1>6. Holding(p)'
    BY <1>1, <1>4, <1>5 DEF TypeOK, Holding, Executing, Passed, Unchecked, CheckerHeld, Left, CanRelease
  <1>7. Outcome(p)'
    BY <1>1, ScheduleAssumption DEF TypeOK, Outcome, Passed, CheckerHeld, Left, Counted, Stopped
  <1> QED BY <1>2, <1>3, <1>4, <1>5, <1>6, <1>7, CalmStep

\* An observation that throws keeps its resources with its pending result.
LEMMA ObservationThrowsKeeps ==
    ASSUME ScheduleInv, NEW p \in Physicals, ObservationThrows(p) PROVE ScheduleInv'
  <1> USE DEF ObservationThrows, To, Leave, Throw
  <1>1. TypeOK /\ Holding(p) /\ Outcome(p) BY DEF ScheduleInv
  <1>2. TypeOK'
    <2>1. at' \in [Physicals -> Stages] BY <1>1 DEF TypeOK, Stages
    <2>2. /\ barrier' \subseteq Physicals /\ halted' \in BOOLEAN /\ aborted' \in BOOLEAN
          /\ faults' \in Nat
      BY <1>1 DEF TypeOK, Fault
    <2> QED BY <1>1, <2>1, <2>2 DEF TypeOK
  <1>3. /\ Apart(p)
        /\ at[p] \notin {"queued", "ended", "running", "checking"}
        /\ at'[p] \notin {"queued", "running", "checking"}
    BY <1>1 DEF TypeOK, Apart
  <1>4. /\ held'[p] = held[p] \/ (held'[p] = {} /\ ~Indeterminate)
        /\ checks'[p] = checks[p] \/ (checks'[p] = {} /\ ~Indeterminate)
    BY <1>1 DEF TypeOK, CanRelease
  <1>5. windows' = windows /\ (Indeterminate <=> Indeterminate')
    BY DEF Indeterminate
  <1>6. Holding(p)'
    BY <1>1, <1>4, <1>5 DEF TypeOK, Holding, Executing, Passed, Unchecked, CheckerHeld, Left, CanRelease
  <1>7. Outcome(p)'
    BY <1>1, ScheduleAssumption DEF TypeOK, Outcome, Passed, CheckerHeld, Left, Counted, Stopped
  <1> QED BY <1>2, <1>3, <1>4, <1>5, <1>6, <1>7, CalmStep

\* The member is observed and the checker's resources go back.
LEMMA ObservedKeeps ==
    ASSUME ScheduleInv, NEW p \in Physicals, Observed(p) PROVE ScheduleInv'
  <1> USE DEF Observed, To, Leave, Throw
  <1>1. TypeOK /\ Holding(p) /\ Outcome(p) BY DEF ScheduleInv
  <1>2. TypeOK'
    <2>1. at' \in [Physicals -> Stages] BY <1>1 DEF TypeOK, Stages
    <2>2. todo' \in [Physicals -> Nat]
      <3>1. Slots[p] \in Nat /\ 1 .. Slots[p] \subseteq Nat BY ScheduleAssumption
      <3> QED BY <1>1, <3>1 DEF TypeOK, Outcome, CheckerHeld
    <2>3. result' \in [Physicals -> Results] BY <1>1 DEF TypeOK, Results
    <2>4. held' \in [Physicals -> SUBSET Resources] /\ checks' \in [Physicals -> SUBSET Resources]
      BY <1>1 DEF TypeOK
    <2>5. /\ pending' \in [Physicals -> BOOLEAN] /\ recorded' \subseteq Physicals
          /\ failed' \in BOOLEAN /\ late' \subseteq Physicals
      BY <1>1 DEF TypeOK
    <2>6. barrier' \subseteq Physicals /\ halted' \in BOOLEAN /\ aborted' \in BOOLEAN /\ faults' \in Nat
      BY <1>1 DEF TypeOK, Fault
    <2> QED BY <1>1, <2>1, <2>2, <2>3, <2>4, <2>5, <2>6 DEF TypeOK
  <1>3. /\ Apart(p)
        /\ at[p] \notin {"queued", "ended", "running", "checking"}
        /\ at'[p] \notin {"queued", "running", "checking"}
    BY <1>1 DEF TypeOK, Apart
  <1>4. /\ held'[p] = held[p] \/ (held'[p] = {} /\ ~Indeterminate)
        /\ checks'[p] = checks[p] \/ (checks'[p] = {} /\ ~Indeterminate)
    BY <1>1 DEF TypeOK, CanRelease
  <1>5. windows' = windows /\ (Indeterminate <=> Indeterminate')
    BY DEF Indeterminate
  <1>6. Holding(p)'
    BY <1>1, <1>4, <1>5 DEF TypeOK, Holding, Executing, Passed, Unchecked, CheckerHeld, Left, CanRelease
  <1>7. Outcome(p)'
    BY <1>1, ScheduleAssumption DEF TypeOK, Outcome, Passed, CheckerHeld, Left, Counted, Stopped
  <1> QED BY <1>2, <1>3, <1>4, <1>5, <1>6, <1>7, CalmStep

\* An observation whose window stays open leaves its result pending.
LEMMA UnresolvedKeeps ==
    ASSUME ScheduleInv, NEW p \in Physicals, Unresolved(p) PROVE ScheduleInv'
  <1> USE DEF Unresolved, To, Leave, Throw
  <1>1. TypeOK /\ Holding(p) /\ Outcome(p) BY DEF ScheduleInv
  <1>2. TypeOK'
    BY <1>1, ScheduleAssumption DEF TypeOK, Stages, Results, Outcome, CheckerHeld, Fault
  <1>3. /\ Apart(p)
        /\ at[p] \notin {"queued", "ended", "running", "checking"}
        /\ at'[p] \notin {"queued", "running", "checking"}
    BY <1>1 DEF TypeOK, Apart
  <1>4. /\ held'[p] = held[p] \/ (held'[p] = {} /\ ~Indeterminate)
        /\ checks'[p] = checks[p] \/ (checks'[p] = {} /\ ~Indeterminate)
    BY <1>1 DEF TypeOK, CanRelease
  <1>5. windows' = windows /\ (Indeterminate <=> Indeterminate')
    BY DEF Indeterminate
  <1>6. Holding(p)'
    BY <1>1, <1>4, <1>5 DEF TypeOK, Holding, Executing, Passed, Unchecked, CheckerHeld, Left, CanRelease
  <1>7. Outcome(p)'
    BY <1>1, ScheduleAssumption DEF TypeOK, Outcome, Passed, CheckerHeld, Left, Counted, Stopped
  <1> QED BY <1>2, <1>3, <1>4, <1>5, <1>6, <1>7, CalmStep

\* Every member is observed.
LEMMA ObservedAllKeeps ==
    ASSUME ScheduleInv, NEW p \in Physicals, ObservedAll(p) PROVE ScheduleInv'
  <1> USE DEF ObservedAll, To, Leave, Throw
  <1>1. TypeOK /\ Holding(p) /\ Outcome(p) BY DEF ScheduleInv
  <1>2. TypeOK'
    BY <1>1, ScheduleAssumption DEF TypeOK, Stages, Results, Outcome, CheckerHeld, Fault
  <1>3. /\ Apart(p)
        /\ at[p] \notin {"queued", "ended", "running", "checking"}
        /\ at'[p] \notin {"queued", "running", "checking"}
    BY <1>1 DEF TypeOK, Apart
  <1>4. /\ held'[p] = held[p] \/ (held'[p] = {} /\ ~Indeterminate)
        /\ checks'[p] = checks[p] \/ (checks'[p] = {} /\ ~Indeterminate)
    BY <1>1 DEF TypeOK, CanRelease
  <1>5. windows' = windows /\ (Indeterminate <=> Indeterminate')
    BY DEF Indeterminate
  <1>6. Holding(p)'
    BY <1>1, <1>4, <1>5 DEF TypeOK, Holding, Executing, Passed, Unchecked, CheckerHeld, Left, CanRelease
  <1>7. Outcome(p)'
    BY <1>1, ScheduleAssumption DEF TypeOK, Outcome, Passed, CheckerHeld, Left, Counted, Stopped
  <1> QED BY <1>2, <1>3, <1>4, <1>5, <1>6, <1>7, CalmStep

\* finally keeps the locks of a pending or unresolved worker, and of no other.
LEMMA EndKeeps ==
    ASSUME ScheduleInv, NEW p \in Physicals, End(p) PROVE ScheduleInv'
  <1> USE DEF End, To, Leave, Throw
  <1>1. TypeOK /\ Holding(p) /\ Outcome(p) BY DEF ScheduleInv
  <1>2. TypeOK'
    BY <1>1, ScheduleAssumption DEF TypeOK, Stages, Results, Outcome, CheckerHeld, Fault
  <1>3. /\ Apart(p)
        /\ at[p] \notin {"queued", "ended", "running", "checking"}
        /\ at'[p] \notin {"queued", "running", "checking"}
    BY <1>1 DEF TypeOK, Apart
  <1>4. /\ held'[p] = held[p] \/ (held'[p] = {} /\ ~Indeterminate)
        /\ checks'[p] = checks[p] \/ (checks'[p] = {} /\ ~Indeterminate)
    BY <1>1 DEF TypeOK, CanRelease
  <1>5. windows' = windows /\ (Indeterminate <=> Indeterminate')
    BY DEF Indeterminate
  <1>6. Holding(p)'
    BY <1>1, <1>4, <1>5 DEF TypeOK, Holding, Executing, Passed, Unchecked, CheckerHeld, Left, CanRelease
  <1>7. Outcome(p)'
    BY <1>1, ScheduleAssumption DEF TypeOK, Outcome, Passed, CheckerHeld, Left, Counted, Stopped
  <1> QED BY <1>2, <1>3, <1>4, <1>5, <1>6, <1>7, CalmStep

-----------------------------------------------------------------------------
(* The steps that start and end commands, or take the checker's locks.      *)

\* The execution's window opens on a worker that holds what its recipe needs.
LEMMA LaunchKeeps ==
    ASSUME ScheduleInv, NEW p \in Physicals, Launch(p) PROVE ScheduleInv'
  <1> USE DEF Launch, To
  <1> DEFINE new == [of |-> p, kind |-> "execution", state |-> "active"]
  <1>1. TypeOK /\ Holding(p) /\ Outcome(p) /\ WindowInv /\ LockInv BY DEF ScheduleInv
  <1>2. new \in Window /\ new.of = p /\ new.kind = "execution" /\ new.state = "active"
    BY DEF Window
  <1>3. windows' = windows \cup {new} OBVIOUS
  <1>a. \A w \in windows : w \in Window BY <1>1 DEF TypeOK
  <1> HIDE DEF new
  <1>4. TypeOK'
    BY <1>1, <1>2, <1>3 DEF TypeOK, Stages
  <1>5. Apart(p) /\ at[p] = "beginning" /\ at'[p] = "running"
    BY <1>1 DEF TypeOK, Apart
  <1>6. \A w \in windows : w.of \in Physicals /\ w.state = "active"
    BY <1>a DEF Window, Indeterminate
  <1>7. \A w \in windows : w.of # p
    BY <1>1, <1>5, <1>6 DEF WindowInv
  <1>8. WindowInv'
    <2>1. held' = held /\ checks' = checks /\ halted' = halted OBVIOUS
    <2>2. \A w \in windows : at'[w.of] = at[w.of] BY <1>5, <1>6, <1>7 DEF Apart
    <2>3. held[p] = Needs[p] BY <1>1, <1>5 DEF Holding, Executing
    <2> QED BY <1>1, <1>2, <1>3, <1>5, <1>7, <2>1, <2>2, <2>3 DEF WindowInv
  <1>9. LockInv' BY <1>1 DEF LockInv
  <1>10. Indeterminate => Indeterminate' BY <1>3 DEF Indeterminate
  <1>11. Holding(p)'
    BY <1>1, <1>5 DEF Holding, Executing, Passed, Unchecked, CheckerHeld, Left
  <1>12. Outcome(p)'
    BY <1>1, <1>5 DEF Outcome, Passed, CheckerHeld, Left, Counted
  <1> QED BY <1>4, <1>5, <1>8, <1>9, <1>10, <1>11, <1>12, WorkerStep

\* The observation's window opens on a worker that holds what the checker needs.
LEMMA CheckKeeps ==
    ASSUME ScheduleInv, NEW p \in Physicals, Check(p) PROVE ScheduleInv'
  <1> USE DEF Check, To
  <1> DEFINE new == [of |-> p, kind |-> "observation", state |-> "active"]
  <1>1. TypeOK /\ Holding(p) /\ Outcome(p) /\ WindowInv /\ LockInv BY DEF ScheduleInv
  <1>2. new \in Window /\ new.of = p /\ new.kind = "observation" /\ new.state = "active"
    BY DEF Window
  <1>3. windows' = windows \cup {new} OBVIOUS
  <1>a. \A w \in windows : w \in Window BY <1>1 DEF TypeOK
  <1> HIDE DEF new
  <1>4. TypeOK'
    BY <1>1, <1>2, <1>3 DEF TypeOK, Stages
  <1>5. Apart(p) /\ at[p] = "starting" /\ at'[p] = "checking"
    BY <1>1 DEF TypeOK, Apart
  <1>6. \A w \in windows : w.of \in Physicals /\ w.state = "active"
    BY <1>a DEF Window, Indeterminate
  <1>7. \A w \in windows : w.of # p
    BY <1>1, <1>5, <1>6 DEF WindowInv
  <1>8. WindowInv'
    <2>1. held' = held /\ checks' = checks /\ halted' = halted OBVIOUS
    <2>2. \A w \in windows : at'[w.of] = at[w.of] BY <1>5, <1>6, <1>7 DEF Apart
    <2>3. checks[p] = CheckerNeeds BY <1>1, <1>5 DEF Holding, CheckerHeld
    <2> QED BY <1>1, <1>2, <1>3, <1>5, <1>7, <2>1, <2>2, <2>3 DEF WindowInv
  <1>9. LockInv' BY <1>1 DEF LockInv
  <1>10. Indeterminate => Indeterminate' BY <1>3 DEF Indeterminate
  <1>11. Holding(p)'
    BY <1>1, <1>5 DEF Holding, Executing, Passed, Unchecked, CheckerHeld, Left
  <1>12. Outcome(p)'
    BY <1>1, <1>5 DEF Outcome, Passed, CheckerHeld, Left, Counted
  <1> QED BY <1>4, <1>5, <1>8, <1>9, <1>10, <1>11, <1>12, WorkerStep

\* An invocation ends: its window closes, or stays as the worker's only one.
LEMMA CloseKeepsWindows ==
    ASSUME ScheduleInv, NEW p \in Physicals, NEW kind \in {"execution", "observation"},
           NEW r, NEW lost \in BOOLEAN, Close(p, kind, r, lost),
           at[p] = IF kind = "execution" THEN "running" ELSE "checking",
           at'[p] \notin {"queued", "running", "checking"},
           held' = held, checks' = checks, Apart(p)
    PROVE  /\ WindowInv' /\ windows' \subseteq Window
           /\ halted' = (halted \/ r # "PASS") /\ halted' \in BOOLEAN /\ faults' \in Nat
           /\ failed' \in BOOLEAN
           /\ Indeterminate => Indeterminate'
  <1> DEFINE window(st) == [of |-> p, kind |-> kind, state |-> st]
  <1>1. TypeOK /\ WindowInv /\ (\A w \in windows : w \in Window) BY DEF ScheduleInv, TypeOK
  <1>2. /\ windows' = (windows \ {window("active")}) \cup (IF lost THEN {window("indeterminate")} ELSE {})
        /\ halted' = (halted \/ r # "PASS")
        /\ lost => r = "ERROR" /\ faults' = faults + 1
        /\ ~lost => faults' = faults
    BY DEF Close, Fault
  <1>3. \A st : window(st).of = p /\ window(st).kind = kind /\ window(st).state = st
    OBVIOUS
  <1>4. window("active") \in Window /\ window("indeterminate") \in Window
    BY DEF Window
  <1>5. \A w \in windows : w.of = p => w = window("active")
    <2> SUFFICES ASSUME NEW w \in windows, w.of = p PROVE w = window("active")
      OBVIOUS
    <2>1. w \in Window BY <1>1
    <2>2. w.state = "active"
      BY <2>1, <1>1 DEF WindowInv, Window
    <2>3. w.kind = kind
      BY <2>1, <2>2, <1>1 DEF WindowInv, Window
    <2> QED BY <2>1, <2>2, <2>3 DEF Window
  <1> HIDE DEF window
  <1>6. \A w \in windows' : (w \in windows /\ w.of # p) \/ (lost /\ w = window("indeterminate"))
    <2> TAKE w \in windows'
    <2>1. CASE lost BY <1>2, <1>5, <2>1
    <2>2. CASE ~lost BY <1>2, <1>5, <2>2
    <2> QED BY <2>1, <2>2
  <1>7. WindowInv'
    <2>1. window("indeterminate").kind = "execution" => held'[p] = Needs[p]
      BY <1>3 DEF ScheduleInv, Holding, Executing
    <2>2. window("indeterminate").kind = "observation" => checks'[p] = CheckerNeeds
      BY <1>3 DEF ScheduleInv, Holding, CheckerHeld
    <2>3. lost => halted' BY <1>2
    <2>4. \A w \in windows : w.of \in Physicals BY <1>1 DEF Window
    <2>5. \A w \in windows : w.of # p => at'[w.of] = at[w.of]
      BY <2>4 DEF Apart
    <2>6. \A v, w \in windows' : v.of = w.of => v = w
      BY <1>1, <1>3, <1>6 DEF WindowInv
    <2>7. ASSUME NEW w \in windows, w.of # p
          PROVE  /\ at'[w.of] # "queued"
                 /\ w.kind = "execution" => held'[w.of] = Needs[w.of]
                 /\ w.kind = "observation" => checks'[w.of] = CheckerNeeds
                 /\ w.state = "active" => at'[w.of] = IF w.kind = "execution" THEN "running" ELSE "checking"
                 /\ w.state = "indeterminate" => halted' /\ at'[w.of] \notin {"running", "checking"}
      BY <1>1, <1>2, <2>5, <2>7 DEF WindowInv
    <2> QED BY <1>3, <1>6, <2>1, <2>2, <2>3, <2>6, <2>7 DEF WindowInv
  <1>8. windows' \subseteq Window BY <1>1, <1>4, <1>6
  <1>9. halted' \in BOOLEAN /\ faults' \in Nat /\ failed' \in BOOLEAN
    <2>1. halted' \in BOOLEAN /\ faults' \in Nat BY <1>1, <1>2 DEF TypeOK
    <2>2. failed' = (failed \/ r # "PASS") BY DEF Close
    <2> QED BY <1>1, <2>1, <2>2 DEF TypeOK
  <1>10. Indeterminate => Indeterminate'
    <2> SUFFICES ASSUME NEW w \in windows, w.state = "indeterminate" PROVE w \in windows'
      BY DEF Indeterminate
    <2> QED BY <1>2, <1>3
  <1> QED BY <1>2, <1>7, <1>8, <1>9, <1>10

\* The execution ends, and any result but a PASS stops the run.
LEMMA ExecutedKeeps ==
    ASSUME ScheduleInv, NEW p \in Physicals, Executed(p) PROVE ScheduleInv'
  <1> USE DEF To
  <1>1. TypeOK /\ Holding(p) /\ Outcome(p) /\ LockInv BY DEF ScheduleInv
  <1>2. PICK r \in Results, lost \in BOOLEAN :
          Close(p, "execution", r, lost) /\ result' = [result EXCEPT ![p] = r]
    BY DEF Executed
  <1>3. /\ at[p] = "running" /\ at'[p] = "executed" /\ result'[p] = r
        /\ barrier' = barrier \cup {p}
        /\ UNCHANGED <<sched, todo, locks, pending, recorded, cancelled, aborted, host, late>>
    BY <1>1, <1>2 DEF Executed, TypeOK
  <1>4. halted' = (halted \/ r # "PASS")
    BY <1>2 DEF Close
  <1>5. Apart(p)
    BY <1>1, <1>2, <1>3, <1>4 DEF Apart, Executed, TypeOK
  <1>6. /\ WindowInv' /\ windows' \subseteq Window
        /\ halted' \in BOOLEAN /\ failed' \in BOOLEAN /\ faults' \in Nat
        /\ Indeterminate => Indeterminate'
    BY <1>2, <1>3, <1>5, CloseKeepsWindows
  <1>7. TypeOK'
    <2>1. at' \in [Physicals -> Stages] BY <1>1 DEF Executed, TypeOK, Stages
    <2>2. result' \in [Physicals -> Results] BY <1>1, <1>2 DEF TypeOK
    <2> QED BY <1>1, <1>3, <1>6, <2>1, <2>2 DEF TypeOK
  <1>8. LockInv' BY <1>1, <1>3 DEF LockInv
  <1>9. Holding(p)'
    BY <1>1, <1>3 DEF Holding, Executing, Passed, Unchecked, CheckerHeld, Left
  <1>10. Outcome(p)'
    BY <1>3, <1>4 DEF Outcome, Passed, CheckerHeld, Left, Counted, Stopped
  <1> QED BY <1>3, <1>5, <1>6, <1>7, <1>8, <1>9, <1>10, WorkerStep

\* The observation ends.
LEMMA ExaminedKeeps ==
    ASSUME ScheduleInv, NEW p \in Physicals, Examined(p) PROVE ScheduleInv'
  <1> USE DEF To
  <1>1. TypeOK /\ Holding(p) /\ Outcome(p) /\ LockInv BY DEF ScheduleInv
  <1>2. PICK r \in Results, lost \in BOOLEAN : Close(p, "observation", r, lost)
    BY DEF Examined
  <1>3. /\ at[p] = "checking" /\ at'[p] = "examined"
        /\ UNCHANGED <<sched, todo, result, locks, pending, recorded, barrier, cancelled, aborted, host, late>>
    BY <1>1 DEF Examined, TypeOK
  <1>4. halted' = (halted \/ r # "PASS")
    BY <1>2 DEF Close
  <1>5. Apart(p)
    BY <1>1, <1>3, <1>4 DEF Apart, Examined, TypeOK
  <1>6. /\ WindowInv' /\ windows' \subseteq Window
        /\ halted' \in BOOLEAN /\ failed' \in BOOLEAN /\ faults' \in Nat
        /\ Indeterminate => Indeterminate'
    BY <1>2, <1>3, <1>5, CloseKeepsWindows
  <1>7. TypeOK'
    <2>1. at' \in [Physicals -> Stages] BY <1>1 DEF Examined, TypeOK, Stages
    <2> QED BY <1>1, <1>3, <1>6, <2>1 DEF TypeOK
  <1>8. LockInv' BY <1>1, <1>3 DEF LockInv
  <1>9. Holding(p)'
    BY <1>1, <1>3 DEF Holding, Executing, Passed, Unchecked, CheckerHeld, Left
  <1>10. Outcome(p)'
    BY <1>1, <1>3 DEF Outcome, Passed, CheckerHeld, Left, Counted, Stopped
  <1> QED BY <1>3, <1>5, <1>6, <1>7, <1>8, <1>9, <1>10, WorkerStep

\* The checker's resources are taken when nobody holds any of them.
LEMMA AcquireKeeps ==
    ASSUME ScheduleInv, NEW p \in Physicals, Acquire(p) PROVE ScheduleInv'
  <1> USE DEF Acquire, To
  <1>1. TypeOK /\ Holding(p) /\ Outcome(p) /\ LockInv /\ WindowInv BY DEF ScheduleInv
  <1>2. TypeOK' BY <1>1, ScheduleAssumption DEF TypeOK, Stages
  <1>3. /\ Apart(p) /\ at[p] = "waiting" /\ at'[p] = "preparing"
        /\ checks'[p] = CheckerNeeds /\ held'[p] = held[p] /\ checks[p] = {}
    BY <1>1 DEF TypeOK, Apart, Holding, Unchecked
  <1>4. CheckerNeeds \cap (Held \cup foreign) = {}
    BY DEF Available
  <1>5. LockInv'
    <2>1. \A q \in Physicals : CheckerNeeds \cap (held[q] \cup checks[q]) = {}
      BY <1>4 DEF Held
    <2> QED BY <1>1, <1>3, <1>4, <2>1 DEF LockInv, Apart
  <1>6. WindowInv'
    <2>1. \A w \in windows : w.of \in Physicals /\ w.state \in {"active", "indeterminate"}
      BY <1>1 DEF TypeOK, Window
    <2>2. windows' = windows /\ held' = held /\ halted' = halted OBVIOUS
    <2>3. \A w \in windows : w.of # p => checks'[w.of] = checks[w.of] /\ at'[w.of] = at[w.of]
      BY <1>3, <2>1 DEF Apart
    <2>4. \A w \in windows : w.of = p => w.state # "active"
      BY <1>1, <1>3 DEF WindowInv
    <2> HIDE DEF Acquire
    <2> QED BY <1>1, <1>3, <2>1, <2>2, <2>3, <2>4 DEF WindowInv
  <1>7. Indeterminate => Indeterminate' BY DEF Indeterminate
  <1>8. Holding(p)'
    BY <1>1, <1>3 DEF Holding, Executing, Passed, Unchecked, CheckerHeld, Left
  <1>9. Outcome(p)'
    BY <1>1, <1>3 DEF Outcome, Passed, CheckerHeld, Left, Counted, Stopped
  <1> QED BY <1>2, <1>3, <1>5, <1>6, <1>7, <1>8, <1>9, WorkerStep

\* Every step of a worker.
LEMMA WorkKeeps ==
    ASSUME ScheduleInv, NEW p \in Physicals, Work(p) PROVE ScheduleInv'
  BY KeyKeeps, HitKeeps, HitObservesKeeps, MissKeeps, AnnounceKeeps, ThrowsBeforeKeeps, LaunchKeeps,
     LaunchThrowsKeeps, RecordThrownKeeps, ExecutedKeeps, RecordKeeps, CheckpointKeeps,
     AcquireKeeps, AcquireThrowsKeeps, PrepareThrowsKeeps, PrepareKeeps, CheckKeeps,
     ObservationThrowsKeeps, ExaminedKeeps, ObservedKeeps, UnresolvedKeeps,
     ObservedAllKeeps, EndKeeps DEF Work

-----------------------------------------------------------------------------
(* The schedule loop.                                                      *)

\* The end of an iteration leaves the loop only when the run is halted.
LEMMA RestFacts ==
    ASSUME NEW q, NEW active, NEW adm, NEW halt, Rest(q, active, adm, halt)
    PROVE  /\ phase' \in {"racing", "sleeping", "top", "joining"}
           /\ phase' = "joining" => halt
           /\ raced' = active /\ index' = index
  BY DEF Rest

\* A recipe is tried only at a position of the queue, with a job free, and an
\* exclusive one only when nothing is active.
LEMMA TryFromFacts ==
    ASSUME NEW i \in Nat \ {0}, NEW q \in Seq(Physicals), NEW active, NEW adm, NEW halt, index \in Nat \ {0},
           TryFrom(i, q, active, adm, halt)
    PROVE  /\ phase' \in {"racing", "sleeping", "top", "joining", "trying"}
           /\ phase' = "joining" => halt
           /\ raced' \in {raced, active} /\ index' \in Nat \ {0}
           /\ phase' = "trying" =>
                 /\ index' \in 1 .. Len(q)
                 /\ Cardinality(active) < Jobs
                 /\ q[index'] \in Exclusive => active = {}
  <1>1. CASE Scan(i, q, active) = {} /\ Rest(q, active, adm, halt)
    BY <1>1, RestFacts
  <1>2. CASE \E first \in Scan(i, q, active) :
                phase' = "trying" /\ index' = first /\ UNCHANGED raced
    <2>1. Len(q) \in Nat OBVIOUS
    <2> QED BY <1>2, <2>1 DEF Scan
  <1> QED BY <1>1, <1>2 DEF TryFrom

\* A step of the loop that moves no lock and starts no worker.
LEMMA LoopStep ==
    ASSUME ScheduleInv, TypeOK', LoopInv',
           UNCHANGED <<queue, at, todo, result, locks, pending, windows, barrier, foreign>>,
           halted => halted', Stopped => Stopped',
           phase = "granted" => \/ phase' = "granted" /\ index' = index
                                \/ held[queue[index]] = {} \/ Indeterminate
    PROVE  ScheduleInv'
  <1>1. Indeterminate' <=> Indeterminate BY DEF Indeterminate
  <1>2. QueueInv' /\ LockInv' /\ WindowInv'
    BY DEF ScheduleInv, QueueInv, LockInv, WindowInv
  <1>3. ASSUME NEW p \in Physicals PROVE Holding(p)' /\ Outcome(p)'
    <2>1. Holding(p) /\ Outcome(p) BY DEF ScheduleInv
    <2> QED BY <1>1, <2>1 DEF Holding, Outcome
  <1> QED BY <1>2, <1>3 DEF ScheduleInv

\* A step of the loop that changes only the locks of a recipe in the queue.
LEMMA LockStep ==
    ASSUME ScheduleInv, TypeOK', LoopInv', LockInv', NEW p \in Physicals, at[p] = "queued",
           UNCHANGED <<queue, at, todo, result, checks, pending, windows, barrier, foreign>>,
           \A q \in Physicals \ {p} : held'[q] = held[q],
           halted => halted', Stopped => Stopped',
           phase = "granted" => queue[index] = p,
           held'[p] = {} \/ (phase' = "granted" /\ queue[index'] = p)
    PROVE  ScheduleInv'
  <1>1. Indeterminate' <=> Indeterminate BY DEF Indeterminate
  <1>2. QueueInv' BY DEF ScheduleInv, QueueInv
  <1>3. WindowInv'
    <2>1. \A w \in windows : w.of \in Physicals BY DEF ScheduleInv, TypeOK, Window
    <2>2. \A w \in windows : w.of # p /\ held'[w.of] = held[w.of]
      BY <2>1 DEF ScheduleInv, WindowInv
    <2> QED BY <2>2 DEF ScheduleInv, WindowInv
  <1>4. ASSUME NEW q \in Physicals PROVE Holding(q)' /\ Outcome(q)'
    <2>1. Holding(q) /\ Outcome(q) BY DEF ScheduleInv
    <2>2. CASE q = p
      BY <2>1, <2>2 DEF Holding, Outcome, Executing, Passed, Unchecked, CheckerHeld, Left
    <2>3. CASE q # p
      BY <1>1, <2>1, <2>3 DEF Holding, Outcome
    <2> QED BY <2>2, <2>3
  <1> QED BY <1>2, <1>3, <1>4 DEF ScheduleInv

\* The position being tried is in the queue and its recipe's worker has not started.
LEMMA TriedFacts ==
    ASSUME ScheduleInv, phase \in {"trying", "granted"}
    PROVE  /\ index \in 1 .. Len(queue) /\ Len(queue) \in Nat
           /\ queue[index] \in Physicals /\ at[queue[index]] = "queued"
           /\ checks[queue[index]] = {}
  <1>1. index \in 1 .. Len(queue) /\ queue \in Seq(Physicals)
    BY DEF ScheduleInv, LoopInv, TypeOK
  <1>2. queue[index] \in Physicals /\ Len(queue) \in Nat BY <1>1
  <1>3. at[queue[index]] = "queued" BY <1>1, <1>2 DEF ScheduleInv, QueueInv
  <1> QED BY <1>1, <1>2, <1>3 DEF ScheduleInv, Holding, Unchecked

\* A round of the loop starts with nothing being tried.
LEMMA IterateKeeps == ASSUME ScheduleInv, Iterate PROVE ScheduleInv'
  <1>1. TypeOK /\ LoopInv BY DEF ScheduleInv
  <1>2. Active' = Active BY DEF Active, Iterate
  <1>3. Stopped \in BOOLEAN BY <1>1 DEF Stopped, TypeOK
  <1>4. /\ phase' \in {"racing", "sleeping", "top", "joining", "trying"}
        /\ phase' = "joining" => Stopped
        /\ raced' \in {raced, Active} /\ index' \in Nat \ {0}
        /\ phase' = "trying" =>
              /\ index' \in 1 .. Len(queue)
              /\ Cardinality(Active) < Jobs
              /\ queue[index'] \in Exclusive => Active = {}
              /\ ~ExclusiveRuns
    <2>1. CASE ~Stopped /\ ~ExclusiveRuns /\ barrier = {}
      <3>1. TryFrom(1, queue, Active, FALSE, FALSE) BY <2>1 DEF Iterate
      <3>2. 1 \in Nat \ {0} /\ queue \in Seq(Physicals) /\ index \in Nat \ {0} BY <1>1 DEF TypeOK
      <3> HIDE DEF Active
      <3>3. /\ phase' \in {"racing", "sleeping", "top", "joining", "trying"}
            /\ phase' = "joining" => FALSE
            /\ raced' \in {raced, Active} /\ index' \in Nat \ {0}
            /\ phase' = "trying" =>
                  /\ index' \in 1 .. Len(queue)
                  /\ Cardinality(Active) < Jobs
                  /\ queue[index'] \in Exclusive => Active = {}
        BY <3>1, <3>2, TryFromFacts
      <3> QED BY <2>1, <3>3
    <2>2. CASE ~(~Stopped /\ ~ExclusiveRuns /\ barrier = {})
      <3>1. Rest(queue, Active, FALSE, Stopped) BY <2>2 DEF Iterate
      <3> QED BY <1>1, <1>3, <3>1, RestFacts DEF TypeOK
    <2> QED BY <2>1, <2>2
  <1>5. TypeOK'
    <2>1. Active \subseteq Physicals BY DEF Active
    <2> QED BY <1>1, <1>3, <1>4, <2>1 DEF TypeOK, Iterate, Phases
  <1>6. LoopInv'
    BY <1>1, <1>2, <1>4 DEF LoopInv, AdmissionLimits, ExclusiveRuns, Iterate, Stopped
  <1> QED BY <1>5, <1>6, LoopStep DEF Iterate, Stopped

\* The resources of the tried recipe are taken when nobody holds any of them.
LEMMA TryTakenKeeps == ASSUME ScheduleInv, TryTaken PROVE ScheduleInv'
  <1> USE DEF TryTaken
  <1>1. TypeOK /\ LoopInv /\ LockInv BY DEF ScheduleInv
  <1>2. PICK p \in Physicals : p = queue[index] /\ at[p] = "queued" /\ checks[p] = {}
    BY TriedFacts
  <1>3. /\ held' = [held EXCEPT ![p] = Needs[p]] /\ Needs[p] \subseteq Resources
        /\ Needs[p] \cap (Held \cup foreign) = {}
    BY <1>2, ScheduleAssumption DEF Available
  <1>4. held'[p] = Needs[p] /\ \A q \in Physicals \ {p} : held'[q] = held[q]
    BY <1>1, <1>3 DEF TypeOK
  <1>5. TypeOK' BY <1>1, <1>3 DEF TypeOK, Phases
  <1>6. LockInv'
    <2>1. \A q \in Physicals : Needs[p] \cap (held[q] \cup checks[q]) = {}
      BY <1>3 DEF Held
    <2> QED BY <1>1, <1>2, <1>3, <1>4, <2>1 DEF LockInv
  <1>7. LoopInv'
    <2>1. Active' = Active BY DEF Active
    <2> QED BY <1>1, <1>2, <1>4, <2>1 DEF LoopInv, AdmissionLimits, ExclusiveRuns, Stopped
  <1> QED BY <1>2, <1>4, <1>5, <1>6, <1>7, LockStep DEF Stopped

\* The next position is tried under the same conditions.
LEMMA TryRefusedKeeps == ASSUME ScheduleInv, TryRefused PROVE ScheduleInv'
  <1> USE DEF TryRefused
  <1>1. TypeOK /\ LoopInv BY DEF ScheduleInv
  <1>2. Active' = Active BY DEF Active
  <1>3. /\ phase' \in {"racing", "sleeping", "top", "joining", "trying"}
        /\ phase' = "joining" => halted
        /\ raced' \in {raced, Active} /\ index' \in Nat \ {0}
        /\ phase' = "trying" =>
              /\ index' \in 1 .. Len(queue)
              /\ Cardinality(Active) < Jobs
              /\ queue[index'] \in Exclusive => Active = {}
    <2>1. index + 1 \in Nat \ {0} BY <1>1 DEF TypeOK
    <2> QED BY <1>1, <2>1, TryFromFacts DEF TypeOK
  <1>4. TypeOK'
    <2>1. Active \subseteq Physicals BY DEF Active
    <2> QED BY <1>1, <1>3, <2>1 DEF TypeOK, Phases
  <1>5. LoopInv'
    BY <1>1, <1>2, <1>3 DEF LoopInv, AdmissionLimits, ExclusiveRuns, Stopped
  <1> QED BY <1>4, <1>5, LoopStep DEF Stopped

\* A throw of the loop halts the run before it joins the workers.
LEMMA TryThrowsKeeps == ASSUME ScheduleInv, TryThrows PROVE ScheduleInv'
  <1>1. TypeOK /\ LoopInv BY DEF ScheduleInv
  <1>2. TypeOK' BY <1>1 DEF TypeOK, Phases, TryThrows, Fault
  <1>3. Active' = Active BY DEF Active, TryThrows
  <1>4. LoopInv'
    BY <1>1, <1>3 DEF LoopInv, AdmissionLimits, TryThrows, Stopped
  <1> QED BY <1>2, <1>4, LoopStep DEF Stopped, TryThrows

\* With an unresolved invocation the resources of the tried recipe stay taken.
LEMMA GiveBackThrowsKeeps == ASSUME ScheduleInv, GiveBackThrows PROVE ScheduleInv'
  <1>1. TypeOK /\ LoopInv BY DEF ScheduleInv
  <1>2. TypeOK' BY <1>1 DEF TypeOK, Phases, GiveBackThrows
  <1>3. Active' = Active BY DEF Active, GiveBackThrows
  <1>4. LoopInv'
    BY <1>1, <1>3 DEF LoopInv, AdmissionLimits, GiveBackThrows, Stopped
  <1> QED BY <1>2, <1>4, LoopStep DEF Stopped, GiveBackThrows, CanRelease

\* A stopped run gives the resources of the tried recipe back.
LEMMA GiveBackKeeps == ASSUME ScheduleInv, GiveBack PROVE ScheduleInv'
  <1> USE DEF GiveBack
  <1>1. TypeOK /\ LoopInv /\ LockInv BY DEF ScheduleInv
  <1>2. PICK p \in Physicals : p = queue[index] /\ at[p] = "queued"
    BY TriedFacts
  <1>3. held'[p] = {} /\ \A q \in Physicals \ {p} : held'[q] = held[q]
    BY <1>1, <1>2 DEF TypeOK
  <1>4. /\ phase' \in {"racing", "sleeping", "top", "joining"}
        /\ raced' = Active /\ index' = index
    BY <1>1, RestFacts DEF TypeOK
  <1>5. TypeOK'
    <2>1. Active \subseteq Physicals BY DEF Active
    <2> QED BY <1>1, <1>4, <2>1 DEF TypeOK, Phases
  <1>6. LockInv'
    BY <1>1, <1>3 DEF LockInv
  <1>7. LoopInv'
    <2>1. Active' = Active BY DEF Active
    <2> QED BY <1>1, <1>4, <2>1 DEF LoopInv, AdmissionLimits, Stopped
  <1> QED BY <1>2, <1>3, <1>5, <1>6, <1>7, LockStep DEF Stopped

\* The loop goes round again.
LEMMA WakeKeeps == ASSUME ScheduleInv, Wake PROVE ScheduleInv'
  <1>1. TypeOK /\ LoopInv BY DEF ScheduleInv
  <1>2. TypeOK' BY <1>1 DEF TypeOK, Phases, Wake
  <1>3. Active' = Active BY DEF Active, Wake
  <1>4. LoopInv' BY <1>1, <1>3 DEF LoopInv, AdmissionLimits, Wake
  <1> QED BY <1>2, <1>4, LoopStep DEF Stopped, Wake

\* The loop is left with an empty queue.
LEMMA LeaveLoopKeeps == ASSUME ScheduleInv, LeaveLoop PROVE ScheduleInv'
  <1>1. TypeOK /\ LoopInv BY DEF ScheduleInv
  <1>2. TypeOK' BY <1>1 DEF TypeOK, Phases, LeaveLoop
  <1>3. Active' = Active BY DEF Active, LeaveLoop
  <1>4. LoopInv' BY <1>1, <1>3 DEF LoopInv, AdmissionLimits, LeaveLoop
  <1> QED BY <1>2, <1>4, LoopStep DEF Stopped, LeaveLoop

\* The run is done when no worker is active.
LEMMA JoinKeeps == ASSUME ScheduleInv, Join PROVE ScheduleInv'
  <1>1. TypeOK /\ LoopInv BY DEF ScheduleInv
  <1>2. TypeOK' BY <1>1 DEF TypeOK, Phases, Join
  <1>3. Active' = Active BY DEF Active, Join
  <1>4. LoopInv' BY <1>1, <1>3 DEF LoopInv, AdmissionLimits, Join, Stopped
  <1> QED BY <1>2, <1>4, LoopStep DEF Stopped, Join

\* A cancellation only stops.
LEMMA CancelKeeps == ASSUME ScheduleInv, Cancel PROVE ScheduleInv'
  <1>1. TypeOK /\ LoopInv BY DEF ScheduleInv
  <1>2. TypeOK' BY <1>1 DEF TypeOK, Cancel, Fault
  <1>3. Active' = Active BY DEF Active, Cancel
  <1>4. LoopInv' BY <1>1, <1>3 DEF LoopInv, AdmissionLimits, ExclusiveRuns, Cancel, Stopped
  <1> QED BY <1>2, <1>4, LoopStep DEF Stopped, Cancel

\* Other sessions take only what nobody holds.
LEMMA ForeignKeeps == ASSUME ScheduleInv, ForeignTake \/ ForeignRelease PROVE ScheduleInv'
  <1>1. TypeOK /\ LoopInv /\ LockInv BY DEF ScheduleInv
  <1>2. UNCHANGED <<sched, at, todo, result, locks, pending, recorded, windows, barrier, stops, faults, seen>>
    BY DEF ForeignTake, ForeignRelease
  <1>3. foreign' \subseteq Resources \cup {Admission} /\ takes' \in Nat
    BY <1>1 DEF ForeignTake, ForeignRelease, TypeOK
  <1>4. TypeOK' BY <1>1, <1>2, <1>3 DEF TypeOK
  <1>5. \A p \in Physicals : (held[p] \cup checks[p]) \cap foreign' = {}
    BY <1>1 DEF ForeignTake, ForeignRelease, LockInv, Held
  <1>6. LockInv' BY <1>1, <1>2, <1>5 DEF LockInv
  <1>7. Active' = Active /\ (Indeterminate' <=> Indeterminate) /\ Stopped' = Stopped
    BY <1>2 DEF Active, Indeterminate, Stopped
  <1>8. LoopInv' BY <1>1, <1>2, <1>7 DEF LoopInv, AdmissionLimits, ExclusiveRuns
  <1>9. QueueInv' /\ WindowInv'
    BY <1>2 DEF ScheduleInv, QueueInv, WindowInv
  <1>10. ASSUME NEW p \in Physicals PROVE Holding(p)' /\ Outcome(p)'
    <2>1. Holding(p) /\ Outcome(p) BY DEF ScheduleInv
    <2> QED BY <1>2, <1>7, <2>1 DEF Holding, Outcome
  <1> QED BY <1>4, <1>6, <1>8, <1>9, <1>10 DEF ScheduleInv

\* Taking position i out of a sequence keeps the others in their order.
LEMMA RemoveAtFacts ==
    ASSUME NEW S, NEW s \in Seq(S), NEW i \in 1 .. Len(s)
    PROVE  /\ RemoveAt(s, i) \in Seq(S) /\ Len(s) \in Nat
           /\ Len(RemoveAt(s, i)) = Len(s) - 1
           /\ \A k \in 1 .. Len(s) - 1 : RemoveAt(s, i)[k] = IF k < i THEN s[k] ELSE s[k + 1]
  <1>1. Len(s) \in Nat OBVIOUS
  <1>2. /\ SubSeq(s, 1, i - 1) \in Seq(S) /\ Len(SubSeq(s, 1, i - 1)) = i - 1
        /\ \A k \in 1 .. i - 1 : SubSeq(s, 1, i - 1)[k] = s[k]
    BY <1>1
  <1>3. /\ SubSeq(s, i + 1, Len(s)) \in Seq(S) /\ Len(SubSeq(s, i + 1, Len(s))) = Len(s) - i
        /\ \A k \in 1 .. Len(s) - i : SubSeq(s, i + 1, Len(s))[k] = s[k + i]
    BY <1>1
  <1> DEFINE a == SubSeq(s, 1, i - 1)
             b == SubSeq(s, i + 1, Len(s))
  <1> HIDE DEF a, b
  <1>4. /\ a \o b \in Seq(S) /\ Len(a \o b) = Len(s) - 1
        /\ \A k \in 1 .. Len(s) - 1 : (a \o b)[k] = IF k < i THEN s[k] ELSE s[k + 1]
    <2>1. a \in Seq(S) /\ b \in Seq(S) /\ Len(a) = i - 1 /\ Len(b) = Len(s) - i
      BY <1>2, <1>3 DEF a, b
    <2>2. a \o b \in Seq(S) /\ Len(a \o b) = Len(a) + Len(b) BY <2>1
    <2>3. ASSUME NEW k \in 1 .. Len(s) - 1
          PROVE  (a \o b)[k] = IF k < i THEN s[k] ELSE s[k + 1]
      <3>1. CASE k < i
        <4>1. (a \o b)[k] = a[k] BY <1>1, <2>1, <3>1
        <4>2. a[k] = s[k] BY <1>2, <3>1 DEF a
        <4> QED BY <3>1, <4>1, <4>2
      <3>2. CASE ~(k < i)
        <4>1. (a \o b)[k] = b[k - (i - 1)] BY <1>1, <2>1, <3>2
        <4>2. k - (i - 1) \in 1 .. Len(s) - i BY <1>1, <3>2
        <4>3. b[k - (i - 1)] = s[k - (i - 1) + i] BY <1>3, <4>2 DEF b
        <4> QED BY <3>2, <4>1, <4>3
      <3> QED BY <3>1, <3>2
    <2>4. Len(a \o b) = Len(s) - 1
      <3>1. Len(a) + Len(b) = Len(s) - 1
        <4>1. (i - 1) + (Len(s) - i) = Len(s) - 1 BY <1>1
        <4> QED BY <2>1, <4>1, Zenon
      <3> QED BY <2>2, <3>1, Zenon
    <2>5. \A k \in 1 .. Len(s) - 1 : (a \o b)[k] = IF k < i THEN s[k] ELSE s[k + 1] BY <2>3, Zenon
    <2> QED BY <2>2, <2>4, <2>5, Zenon
  <1> QED BY <1>1, <1>4 DEF RemoveAt, a, b

\* The recipe leaves the queue with its resources and its worker is active.
LEMMA AdmitKeeps == ASSUME ScheduleInv, Admit PROVE ScheduleInv'
  <1>1. TypeOK /\ LoopInv /\ QueueInv /\ LockInv /\ WindowInv /\ phase = "granted" /\ ~Stopped
    BY DEF ScheduleInv, Admit
  <1>2. PICK p \in Physicals :
          p = queue[index] /\ at[p] = "queued" /\ checks[p] = {} /\ index \in 1 .. Len(queue)
    BY <1>1, TriedFacts
  <1>3. PICK rest : rest = RemoveAt(queue, index) OBVIOUS
  <1>4. /\ rest \in Seq(Physicals) /\ Len(queue) \in Nat /\ Len(rest) = Len(queue) - 1
        /\ \A k \in 1 .. Len(rest) : rest[k] = IF k < index THEN queue[k] ELSE queue[k + 1]
    BY <1>1, <1>2, <1>3, RemoveAtFacts DEF TypeOK
  <1>5. /\ queue' = rest /\ at' = [at EXCEPT ![p] = "keying"] /\ admitted' = TRUE
        /\ UNCHANGED <<todo, result, locks, pending, recorded, windows, barrier, stops, host, faults, seen>>
    BY <1>2, <1>3 DEF Admit, Start
  <1>6. at'[p] = "keying" /\ \A q \in Physicals \ {p} : at'[q] = at[q]
    BY <1>1, <1>5 DEF TypeOK
  <1>7. Active' = Active \cup {p} /\ p \notin Active /\ Active' \subseteq Physicals
    BY <1>2, <1>6 DEF Active
  <1>8. IsFiniteSet(Active) /\ IsFiniteSet(Active') /\ Cardinality(Active') = Cardinality(Active) + 1
    BY <1>1, <1>7, FS_AddElement DEF LoopInv
  <1>9. Cardinality(Active) \in Nat /\ Cardinality(Active') \in Nat /\ Jobs \in Nat
    BY <1>8, FS_CardinalityType, ScheduleAssumption
  <1>10. /\ phase' \in {"racing", "sleeping", "top", "trying"}
         /\ raced' \in {raced, Active \cup {p}} /\ index' \in Nat \ {0}
         /\ phase' = "trying" =>
               /\ index' \in 1 .. Len(rest)
               /\ Cardinality(Active \cup {p}) < Jobs
               /\ rest[index'] \in Exclusive => Active \cup {p} = {}
               /\ p \notin Exclusive
    <2>1. CASE p \in Exclusive \/ barrier # {}
      <3>1. Rest(rest, Active \cup {p}, TRUE, FALSE)
        BY <1>2, <1>3, <2>1 DEF Admit, Start
      <3> QED BY <1>1, <3>1, RestFacts DEF TypeOK
    <2>2. CASE ~(p \in Exclusive \/ barrier # {})
      <3>1. TryFrom(index, rest, Active \cup {p}, TRUE, FALSE)
        BY <1>2, <1>3, <2>2 DEF Admit, Start
      <3> QED BY <1>1, <1>4, <2>2, <3>1, TryFromFacts DEF TypeOK
    <2> QED BY <2>1, <2>2
  <1>11. TypeOK'
    <2>1. at' \in [Physicals -> Stages] BY <1>1, <1>5 DEF TypeOK, Stages
    <2>2. phase' \in Phases /\ raced' \subseteq Physicals
      BY <1>1, <1>7, <1>10 DEF TypeOK, Phases
    <2> QED BY <1>1, <1>4, <1>5, <1>10, <2>1, <2>2 DEF TypeOK
  <1>12. LoopInv'
    <2>1. Cardinality(Active') =< Jobs
      BY <1>1, <1>8, <1>9 DEF LoopInv
    <2>2. AdmissionLimits'
      BY <1>1, <1>2, <1>7, <2>1 DEF LoopInv, AdmissionLimits, ExclusiveRuns
    <2>3. phase' = "trying" => ~ExclusiveRuns'
      BY <1>1, <1>7, <1>10 DEF LoopInv, ExclusiveRuns
    <2> QED BY <1>5, <1>7, <1>8, <1>10, <2>2, <2>3 DEF LoopInv
  <1>13. QueueInv'
    <2>1. \A i, j \in 1 .. Len(rest) : rest[i] = rest[j] => i = j
      <3> TAKE i, j \in 1 .. Len(rest)
      <3> HAVE rest[i] = rest[j]
      <3>1. PICK k \in 1 .. Len(queue) : k = (IF i < index THEN i ELSE i + 1) /\ rest[i] = queue[k]
        BY <1>2, <1>4
      <3>2. PICK m \in 1 .. Len(queue) : m = (IF j < index THEN j ELSE j + 1) /\ rest[j] = queue[m]
        BY <1>2, <1>4
      <3>3. k = m BY <1>1, <3>1, <3>2 DEF QueueInv
      <3> QED BY <1>2, <1>4, <3>1, <3>2, <3>3
    <2>2. \A k \in 1 .. Len(rest) : rest[k] # p
      <3> SUFFICES ASSUME NEW k \in 1 .. Len(rest), rest[k] = p PROVE FALSE
        OBVIOUS
      <3>1. CASE k < index
        <4>1. k \in 1 .. Len(queue) /\ queue[k] = queue[index] BY <1>2, <1>4, <3>1
        <4> QED BY <1>1, <1>2, <3>1, <4>1 DEF QueueInv
      <3>2. CASE ~(k < index)
        <4>1. k + 1 \in 1 .. Len(queue) /\ queue[k + 1] = queue[index] BY <1>2, <1>4, <3>2
        <4> QED BY <1>1, <1>2, <1>4, <3>2, <4>1 DEF QueueInv
      <3> QED BY <3>1, <3>2
    <2>3. ASSUME NEW q \in Physicals, q # p, NEW i \in 1 .. Len(queue), queue[i] = q
          PROVE  \E k \in 1 .. Len(rest) : rest[k] = q
      <3>1. CASE i < index
        <4>1. i \in 1 .. Len(rest) /\ rest[i] = q BY <1>2, <1>4, <2>3, <3>1
        <4> QED BY <4>1
      <3>2. CASE i > index
        <4>1. i - 1 \in 1 .. Len(rest) /\ rest[i - 1] = q BY <1>2, <1>4, <2>3, <3>2
        <4> QED BY <4>1
      <3>3. i # index BY <1>2, <2>3
      <3> QED BY <1>2, <1>4, <3>1, <3>2, <3>3
    <2>4. \A k \in 1 .. Len(rest) : \E i \in 1 .. Len(queue) : queue[i] = rest[k]
      <3> TAKE k \in 1 .. Len(rest)
      <3>1. k \in 1 .. Len(queue) /\ k + 1 \in 1 .. Len(queue) BY <1>4
      <3> QED BY <1>4, <3>1
    <2>5. ASSUME NEW q \in Physicals
          PROVE  at'[q] = "queued" <=> \E i \in 1 .. Len(rest) : rest[i] = q
      <3>1. CASE q = p BY <1>6, <2>2, <3>1
      <3>2. CASE q # p BY <1>1, <1>6, <2>3, <2>4, <3>2 DEF QueueInv
      <3> QED BY <3>1, <3>2
    <2> QED BY <1>5, <2>1, <2>5 DEF QueueInv
  <1>14. LockInv' BY <1>1, <1>5 DEF LockInv
  <1>15. WindowInv'
    <2>1. \A w \in windows : w.of \in Physicals BY <1>1 DEF TypeOK, Window
    <2>2. \A w \in windows : at'[w.of] = at[w.of]
      BY <1>1, <1>2, <1>6, <2>1 DEF WindowInv
    <2> QED BY <1>1, <1>5, <2>2 DEF WindowInv
  <1>16. (Indeterminate' <=> Indeterminate) /\ (Stopped' <=> Stopped)
    BY <1>5 DEF Indeterminate, Stopped
  <1>17. ASSUME NEW q \in Physicals PROVE Holding(q)' /\ Outcome(q)'
    <2>1. Holding(q) /\ Outcome(q) BY DEF ScheduleInv
    <2>2. CASE q = p
      <3>1. held'[p] = Needs[p] /\ checks'[p] = {} BY <1>1, <1>2, <1>5 DEF LoopInv
      <3>2. p \notin barrier' BY <1>2, <1>5, <2>1, <2>2 DEF Outcome, Counted, Passed
      <3> QED BY <1>6, <2>2, <3>1, <3>2
            DEF Holding, Outcome, Executing, Passed, Unchecked, CheckerHeld, Left
    <2>3. CASE q # p
      BY <1>2, <1>5, <1>6, <1>16, <2>1, <2>3 DEF Holding, Outcome
    <2> QED BY <2>2, <2>3
  <1> QED BY <1>11, <1>12, <1>13, <1>14, <1>15, <1>17 DEF ScheduleInv

-----------------------------------------------------------------------------
(* The theorems.                                                           *)

\* The run starts with every recipe in the queue and no lock.
LEMMA InitSchedule == ASSUME Init PROVE ScheduleInv
  <1>1. Active = {} /\ Indeterminate = FALSE BY DEF Init, Active, Indeterminate
  <1>2. TypeOK
    <2>1. Order \in Seq(Physicals) BY ScheduleAssumption
    <2>2. at \in [Physicals -> Stages] /\ result \in [Physicals -> Results]
      BY DEF Init, Stages, Results
    <2>3. todo \in [Physicals -> Nat] /\ pending \in [Physicals -> BOOLEAN]
      BY DEF Init
    <2>4. held \in [Physicals -> SUBSET Resources] /\ checks \in [Physicals -> SUBSET Resources]
      BY DEF Init
    <2>5. queue \in Seq(Physicals) /\ phase \in Phases /\ index \in Nat \ {0}
      BY <2>1 DEF Init, Phases
    <2> QED BY <2>2, <2>3, <2>4, <2>5 DEF Init, TypeOK
  <1>3. QueueInv BY ScheduleAssumption DEF Init, QueueInv
  <1>4. LoopInv
    <2>1. IsFiniteSet({}) /\ Cardinality({}) = 0 BY FS_EmptySet
    <2>2. Jobs \in Nat \ {0} BY ScheduleAssumption
    <2> QED BY <1>1, <2>1, <2>2 DEF Init, LoopInv, AdmissionLimits
  <1>5. \A p \in Physicals : Holding(p) /\ Outcome(p)
    BY DEF Init, Holding, Outcome, Executing, Passed, Unchecked, CheckerHeld, Left
  <1>6. LockInv /\ WindowInv BY DEF Init, LockInv, WindowInv
  <1> QED BY <1>2, <1>3, <1>4, <1>5, <1>6 DEF ScheduleInv

\* Every step keeps the invariant.
LEMMA NextKeeps == ASSUME ScheduleInv, [Next]_vars PROVE ScheduleInv'
  <1>1. CASE Next
    BY <1>1, IterateKeeps, TryTakenKeeps, TryRefusedKeeps, TryThrowsKeeps, AdmitKeeps, GiveBackKeeps,
       GiveBackThrowsKeeps, WakeKeeps, LeaveLoopKeeps, JoinKeeps, ForeignKeeps, CancelKeeps, WorkKeeps
       DEF Next, Schedule
  <1>2. CASE UNCHANGED vars
    <2>1. Active' = Active /\ (Indeterminate' <=> Indeterminate) /\ Stopped' = Stopped
      BY <1>2 DEF vars, Active, Indeterminate, Stopped
    <2>2. TypeOK' /\ QueueInv' /\ LockInv' /\ WindowInv'
      BY <1>2 DEF vars, ScheduleInv, TypeOK, QueueInv, LockInv, WindowInv
    <2>3. LoopInv'
      BY <1>2, <2>1 DEF vars, ScheduleInv, LoopInv, AdmissionLimits, ExclusiveRuns
    <2>4. ASSUME NEW p \in Physicals PROVE Holding(p)' /\ Outcome(p)'
      <3>1. Holding(p) /\ Outcome(p) BY DEF ScheduleInv
      <3> QED BY <1>2, <2>1, <3>1 DEF vars, Holding, Outcome
    <2> QED BY <2>2, <2>3, <2>4 DEF ScheduleInv
  <1> QED BY <1>1, <1>2

\* The invariant holds in every state of a run.
LEMMA ScheduleAlways == Spec => []ScheduleInv
  BY InitSchedule, NextKeeps, PTL DEF Spec

\* Every reachable state of the run is well formed; that a member's count never
\* goes below zero needs the stages at which observe counts down.
THEOREM ScheduleTypeCorrect == Spec => []TypeOK
  <1>1. ScheduleInv => TypeOK BY DEF ScheduleInv
  <1> QED BY <1>1, ScheduleAlways, PTL

\* The loop never has more than jobs recipes active, and an exclusive one is alone
\* (docs/execution-evidence-v4.md:538), although workers end during its awaits.
THEOREM AdmissionAlwaysLimited == Spec => []AdmissionLimits
  <1>1. ScheduleInv => AdmissionLimits BY DEF ScheduleInv, LoopInv
  <1> QED BY <1>1, ScheduleAlways, PTL

\* Invocations that may still have processes, lost ones included, share no resource
\* with each other or with another session: release refuses while one is unresolved.
THEOREM ProcessesAlwaysSerialize == Spec => []ProcessesSerialize
  <1>1. ScheduleInv => ProcessesSerialize
    <2> SUFFICES ASSUME ScheduleInv PROVE ProcessesSerialize
      OBVIOUS
    <2>1. ASSUME NEW w \in windows
          PROVE  w.of \in Physicals /\ Uses(w) \subseteq held[w.of] \cup checks[w.of]
      <3>1. w \in Window BY DEF ScheduleInv, TypeOK
      <3>2. w.of \in Physicals /\ w.kind \in {"execution", "observation"} BY <3>1 DEF Window
      <3> QED BY <3>2 DEF ScheduleInv, WindowInv, Uses
    <2>2. ASSUME NEW w \in windows PROVE Uses(w) \cap foreign = {}
      BY <2>1 DEF ScheduleInv, LockInv
    <2>3. ASSUME NEW w \in windows, NEW v \in windows \ {w} PROVE Uses(w) \cap Uses(v) = {}
      <3>1. w.of # v.of BY DEF ScheduleInv, WindowInv
      <3> QED BY <2>1, <3>1 DEF ScheduleInv, LockInv
    <2> QED BY <2>2, <2>3 DEF ProcessesSerialize
  <1> QED BY <1>1, ScheduleAlways, PTL

\* A worker that waits in acquireResources for the checker's resources holds none:
\* hits and checkpoints give theirs back first, and so does each observation.
THEOREM WaitsAlwaysHoldNothing == Spec => []WaitsHoldingNothing
  <1>1. ScheduleInv => WaitsHoldingNothing
    BY DEF ScheduleInv, Holding, Passed, Unchecked, WaitsHoldingNothing
  <1> QED BY <1>1, ScheduleAlways, PTL

\* When the schedule returns no worker is active; an unstopped run has passed and
\* observed everything, and with every invocation resolved no lock is left behind.
THEOREM AlwaysSettles == Spec => []Settles
  <1>1. ScheduleInv => Settles
    <2> SUFFICES ASSUME ScheduleInv, phase = "done"
                 PROVE  /\ Active = {} /\ barrier = {}
                        /\ ~Stopped => queue = <<>> /\ \A p \in Physicals : result[p] = "PASS" /\ todo[p] = 0
                        /\ windows = {} /\ (\A p \in Physicals : ~pending[p]) => Held = {}
      BY DEF Settles
    <2>1. Active = {} BY DEF ScheduleInv, LoopInv
    <2>2. \A p \in Physicals : at[p] \in {"queued", "ended"} BY <2>1 DEF Active
    <2>3. barrier = {}
      BY <2>2 DEF ScheduleInv, TypeOK, Outcome, Counted, Passed
    <2>4. ASSUME ~Stopped PROVE queue = <<>> /\ \A p \in Physicals : result[p] = "PASS" /\ todo[p] = 0
      <3>1. queue = <<>> BY <2>4 DEF ScheduleInv, LoopInv
      <3>2. \A p \in Physicals : at[p] = "ended" BY <2>2, <3>1 DEF ScheduleInv, QueueInv
      <3> QED BY <2>4, <3>1, <3>2 DEF ScheduleInv, Outcome, Left
    <2>5. ASSUME windows = {}, \A p \in Physicals : ~pending[p] PROVE Held = {}
      <3>1. ~Indeterminate BY <2>5 DEF Indeterminate
      <3>2. \A p \in Physicals : held[p] = {} /\ checks[p] = {}
        BY <2>2, <2>5, <3>1 DEF ScheduleInv, Holding, Unchecked, Left
      <3> QED BY <3>2 DEF Held
    <2> QED BY <2>1, <2>3, <2>4, <2>5
  <1> QED BY <1>1, ScheduleAlways, PTL

-----------------------------------------------------------------------------
(* The commands that start after a failure.                               *)

\* The workers that have looked at halted for the last time and have not started
\* their command.
Committed == {p \in Physicals : at[p] \in {"announcing", "beginning"}}

\* A failure stops the run.  Of the workers it left committed, and of those that
\* have started since, there are fewer than jobs: the worker or the loop that
\* stopped the run is not one of them.  A cancellation stops these too.
LateInv ==
    /\ failed => halted
    /\ ~halted => late = {}
    /\ IsFiniteSet(late) /\ Cardinality(late) < Jobs
    /\ halted /\ ~cancelled => Cardinality(late \cup Committed) < Jobs

\* Committed workers are active, so they are finitely many.
LEMMA CommittedFacts ==
    ASSUME ScheduleInv
    PROVE  /\ Committed \subseteq Active /\ IsFiniteSet(Active) /\ IsFiniteSet(Committed)
           /\ Cardinality(Active) \in Nat /\ Cardinality(Active) =< Jobs /\ Jobs \in Nat \ {0}
  <1>1. Committed \subseteq Active BY DEF Committed, Active
  <1>2. IsFiniteSet(Active) /\ Cardinality(Active) =< Jobs
    BY DEF ScheduleInv, LoopInv, AdmissionLimits
  <1> QED BY <1>1, <1>2, FS_Subset, FS_CardinalityType, ScheduleAssumption

\* What was bounded stays so when nothing joins it.
LEMMA StillBounded ==
    ASSUME NEW S, NEW T, S \subseteq T, IsFiniteSet(T), Jobs \in Nat, Cardinality(T) < Jobs
    PROVE  IsFiniteSet(S) /\ Cardinality(S) < Jobs
  <1>1. IsFiniteSet(S) /\ Cardinality(S) =< Cardinality(T) BY FS_Subset
  <1>2. Cardinality(S) \in Nat /\ Cardinality(T) \in Nat BY <1>1, FS_CardinalityType
  <1> QED BY <1>1, <1>2

\* A step that starts no command and commits nobody once the run has stopped: the
\* one that stops it is taken by somebody who is not committed.
LEMMA LateStep ==
    ASSUME ScheduleInv, LateInv, late' = late, cancelled => cancelled', halted => halted',
           failed' => halted',
           halted => Committed' \subseteq Committed,
           ~halted /\ halted' /\ ~cancelled' =>
               \E S : Committed' \subseteq S /\ IsFiniteSet(S) /\ Cardinality(S) < Jobs
    PROVE  LateInv'
  <1>1. Jobs \in Nat /\ IsFiniteSet(late) /\ IsFiniteSet(Committed)
    BY CommittedFacts DEF LateInv
  <1>2. ASSUME halted', ~cancelled' PROVE Cardinality(late' \cup Committed') < Jobs
    <2>1. CASE halted
      <3>1. late' \cup Committed' \subseteq late \cup Committed BY <2>1
      <3>2. IsFiniteSet(late \cup Committed) BY <1>1, FS_Union
      <3>3. Cardinality(late \cup Committed) < Jobs BY <1>2, <2>1 DEF LateInv
      <3> QED BY <1>1, <3>1, <3>2, <3>3, StillBounded
    <2>2. CASE ~halted
      <3>1. PICK S : Committed' \subseteq S /\ IsFiniteSet(S) /\ Cardinality(S) < Jobs
        BY <1>2, <2>2
      <3>2. late' \cup Committed' \subseteq S BY <2>2, <3>1 DEF LateInv
      <3> QED BY <1>1, <3>1, <3>2, StillBounded
    <2> QED BY <2>1, <2>2
  <1> QED BY <1>2 DEF LateInv

\* A worker: it looks, it writes its pending result, it starts its command, or it
\* does something else and is not committed.
LEMMA WorkLate ==
    ASSUME ScheduleInv, LateInv, NEW p \in Physicals, Work(p)
    PROVE  LateInv'
  <1>1. TypeOK BY DEF ScheduleInv
  <1>2. at[p] \notin {"queued", "ended"} /\ \A q \in Physicals \ {p} : at'[q] = at[q]
    BY <1>1 DEF TypeOK, To, Leave, Throw, Work, Key, Hit, HitObserves, Miss, Announce, ThrowsBefore,
       Launch, LaunchThrows, RecordThrown, Executed, Record, Checkpoint, Acquire, AcquireThrows,
       PrepareThrows, Prepare, Check, ObservationThrows, Examined, Observed, Unresolved, ObservedAll,
       End
  <1>3. CASE Miss(p)
    <2>1. UNCHANGED <<halted, cancelled, seen>> /\ (halted => at'[p] = "leaving")
      BY <1>1, <1>3 DEF TypeOK, Miss, To, Leave, Stopped
    <2>2. halted => Committed' \subseteq Committed BY <1>2, <2>1 DEF Committed
    <2>3. failed' => halted' BY <2>1 DEF LateInv
    <2> QED BY <2>1, <2>2, <2>3, LateStep
  <1>4. CASE Announce(p)
    <2>1. UNCHANGED <<halted, cancelled, seen>> /\ at[p] = "announcing" /\ at'[p] = "beginning"
      BY <1>1, <1>4 DEF TypeOK, Announce, To
    <2>2. Committed' \subseteq Committed BY <1>2, <2>1 DEF Committed
    <2>3. failed' => halted' BY <2>1 DEF LateInv
    <2> QED BY <2>1, <2>2, <2>3, LateStep
  <1>5. CASE Launch(p)
    <2>1. /\ UNCHANGED <<halted, cancelled, failed>> /\ ~cancelled
          /\ at[p] = "beginning" /\ at'[p] = "running"
          /\ late' = IF failed THEN late \cup {p} ELSE late
      BY <1>1, <1>5 DEF TypeOK, Launch, To
    <2>2. Committed' \subseteq Committed /\ p \in Committed BY <1>2, <2>1 DEF Committed
    <2>3. CASE failed
      <3>1. halted /\ ~cancelled BY <2>1, <2>3 DEF LateInv
      <3>2. IsFiniteSet(late \cup Committed) /\ Jobs \in Nat
        BY CommittedFacts, FS_Union DEF LateInv
      <3>3. Cardinality(late \cup Committed) < Jobs BY <3>1 DEF LateInv
      <3>4. late' \subseteq late \cup Committed /\ late' \cup Committed' \subseteq late \cup Committed
        BY <2>1, <2>2
      <3>5. /\ IsFiniteSet(late') /\ Cardinality(late') < Jobs
            /\ Cardinality(late' \cup Committed') < Jobs
        BY <3>2, <3>3, <3>4, StillBounded
      <3> QED BY <2>1, <3>1, <3>5 DEF LateInv
    <2>4. CASE ~failed
      <3>1. late' = late /\ (failed' => halted') BY <2>1, <2>4
      <3> QED BY <2>1, <2>2, <3>1, LateStep
    <2> QED BY <2>3, <2>4
  <1>6. CASE ~(Miss(p) \/ Announce(p) \/ Launch(p))
    <2>1. at'[p] \notin {"announcing", "beginning"}
      BY <1>1, <1>6 DEF TypeOK, To, Leave, Throw, Work, Key, Hit, HitObserves, ThrowsBefore,
         LaunchThrows, RecordThrown, Executed, Record, Checkpoint, Acquire, AcquireThrows,
         PrepareThrows, Prepare, Check, ObservationThrows, Examined, Observed, Unresolved, ObservedAll,
         End
    <2>2. late' = late /\ cancelled' = cancelled
      BY <1>6 DEF Work, Key, Hit, HitObserves, ThrowsBefore, To, Leave, Throw,
         LaunchThrows, RecordThrown, Executed, Record, Checkpoint, Acquire, AcquireThrows,
         PrepareThrows, Prepare, Check, ObservationThrows, Examined, Observed, Unresolved, ObservedAll,
         End
    <2>3. (halted => halted') /\ (failed' => failed \/ halted')
      <3>1. CASE Executed(p) \/ Examined(p)
        <4>1. PICK r : halted' = (halted \/ r # "PASS") /\ failed' = (failed \/ r # "PASS")
          BY <3>1 DEF Executed, Examined, Close
        <4> QED BY <4>1
      <3>2. CASE ~(Executed(p) \/ Examined(p))
        <4>1. \/ halted' = halted
              \/ halted' = TRUE
              \/ halted' = (halted \/ (~pending[p] /\ ~CanRelease(held[p])))
          BY <1>6, <3>2 DEF Work, Key, Hit, HitObserves, ThrowsBefore, Leave, Throw,
             LaunchThrows, RecordThrown, Record, Checkpoint, Acquire, AcquireThrows,
             PrepareThrows, Prepare, Check, ObservationThrows, Observed, Unresolved, ObservedAll, End
        <4>2. failed' = failed \/ halted' = TRUE
          BY <1>6, <3>2 DEF Work, Key, Hit, HitObserves, ThrowsBefore, Leave, Throw,
             LaunchThrows, RecordThrown, Record, Checkpoint, Acquire, AcquireThrows,
             PrepareThrows, Prepare, Check, ObservationThrows, Observed, Unresolved, ObservedAll, End
        <4>3. halted => halted' BY <4>1
        <4>4. CASE failed' = failed BY <4>3, <4>4
        <4>5. CASE halted' = TRUE BY <4>5
        <4> QED BY <4>2, <4>4, <4>5
      <3> QED BY <3>1, <3>2
    <2>4. failed' => halted' BY <2>3 DEF LateInv
    <2>5. Committed' \subseteq Committed /\ Committed' \subseteq Active \ {p} /\ p \in Active
      BY <1>2, <2>1 DEF Committed, Active
    <2>6. IsFiniteSet(Active \ {p}) /\ Cardinality(Active \ {p}) < Jobs
      <3>1. Cardinality(Active \ {p}) = Cardinality(Active) - 1 /\ IsFiniteSet(Active \ {p})
        BY <2>5, CommittedFacts, FS_RemoveElement
      <3> QED BY <3>1, CommittedFacts
    <2> QED BY <2>2, <2>3, <2>4, <2>5, <2>6, LateStep
  <1> QED BY <1>3, <1>4, <1>5, <1>6

\* The loop: it stops the run where it was trying a recipe, so with room for one
\* more worker, or because of the signal, which stops the committed ones as well.
LEMMA LoopLate ==
    ASSUME ScheduleInv, LateInv, Schedule \/ ForeignTake \/ ForeignRelease \/ Cancel
    PROVE  LateInv'
  <1>1. TypeOK /\ LoopInv BY DEF ScheduleInv
  <1>2. CASE Admit
    <2>1. UNCHANGED <<halted, cancelled, seen>> /\ ~halted BY <1>2 DEF Admit, Start, Stopped
    <2>2. failed' => halted' BY <2>1 DEF LateInv
    <2> QED BY <2>1, <2>2, LateStep
  <1>3. CASE ~Admit
    <2>1. at' = at /\ UNCHANGED seen
      BY <1>3 DEF Schedule, Iterate, TryTaken, TryRefused, TryThrows, GiveBack, GiveBackThrows,
         Wake, LeaveLoop, Join, ForeignTake, ForeignRelease, Cancel
    <2>2. Committed' = Committed BY <2>1 DEF Committed
    <2>3. /\ cancelled => cancelled'
          /\ halted => halted'
          /\ ~halted /\ halted' /\ ~cancelled' => phase \in {"trying", "granted"}
      <3>1. CASE Iterate
        <4>1. halted' = Stopped /\ cancelled' = cancelled BY <3>1 DEF Iterate
        <4> QED BY <4>1 DEF Stopped
      <3>2. CASE TryThrows \/ GiveBack \/ GiveBackThrows
        <4>1. halted' = TRUE /\ cancelled' = cancelled /\ (phase = "trying" \/ phase = "granted")
          BY <3>2 DEF TryThrows, GiveBack, GiveBackThrows
        <4> QED BY <4>1
      <3>3. CASE TryTaken \/ TryRefused \/ Wake \/ LeaveLoop \/ Join
        BY <3>3 DEF TryTaken, TryRefused, Wake, LeaveLoop, Join
      <3>4. CASE ForeignTake \/ ForeignRelease \/ Cancel
        BY <3>4 DEF ForeignTake, ForeignRelease, Cancel
      <3> QED BY <1>3, <3>1, <3>2, <3>3, <3>4 DEF Schedule
    <2>4. phase \in {"trying", "granted"} => Cardinality(Active) < Jobs
      BY <1>1 DEF LoopInv
    <2>5. failed' => halted' BY <2>1, <2>3 DEF LateInv
    <2> QED BY <2>1, <2>2, <2>3, <2>4, <2>5, CommittedFacts, LateStep
  <1> QED BY <1>2, <1>3

LEMMA LateNext == ScheduleInv /\ LateInv /\ [Next]_vars => LateInv'
  <1> SUFFICES ASSUME ScheduleInv, LateInv, [Next]_vars PROVE LateInv'
    OBVIOUS
  <1>1. CASE Next
    BY <1>1, WorkLate, LoopLate DEF Next
  <1>2. CASE UNCHANGED vars
    BY <1>2 DEF vars, LateInv, Committed
  <1> QED BY <1>1, <1>2

\* Once an execution or an observation has failed fewer than jobs commands still
\* start: those of the workers that had looked at halted before it did.
THEOREM LateAlwaysBounded == Spec => []LateBounded
  <1>1. Init => LateInv
    <2> SUFFICES ASSUME Init PROVE LateInv
      OBVIOUS
    <2>1. IsFiniteSet({}) /\ Cardinality({}) = 0 BY FS_EmptySet
    <2>2. Jobs \in Nat \ {0} BY ScheduleAssumption
    <2> QED BY <2>1, <2>2 DEF Init, LateInv
  <1>2. LateInv => LateBounded BY DEF LateInv, LateBounded
  <1> QED BY <1>1, <1>2, LateNext, ScheduleAlways, PTL DEF Spec
=============================================================================

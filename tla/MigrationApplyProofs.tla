------------------------ MODULE MigrationApplyProofs ------------------------
(***************************************************************************)
(* Theorems about MigrationApply, for any destinations, runs, starting      *)
(* contents and number of failures, kills and writes: what an invocation    *)
(* leaves is what MigrationPromise says, and the operator's originals       *)
(* survive.                                                                 *)
(***************************************************************************)
EXTENDS MigrationApply, TLAPS

Working == {"mkdtemp", "stage", "guard", "aside", "land"}
Positions == 1 .. Len(Order)

\* What a run has done so far to a destination that nobody else wrote.
Untouched(r, d) == files[d] = base[r][d] /\ saved[r][d] = "absent" /\ d \notin landed[r]
MovedAside(r, d) == files[d] = "absent" /\ saved[r][d] = base[r][d] /\ d \notin landed[r]
Landed(r, d) ==
    /\ d \in landed[r] /\ saved[r][d] = base[r][d]
    /\ files[d] = Promise!Migrated(base[r][d])
Reported(r, d) ==
    /\ action[r][d] \in {"written", "lost"} /\ saved[r][d] = base[r][d]
    /\ files[d] \in {"absent", Promise!Migrated(base[r][d])}
Restored(r, d) == files[d] = base[r][d] \/ Reported(r, d)

\* How far a run is with the destination at position i of the order: those it
\* passed are landed, those ahead are untouched; a rollback goes back over them.
Progress(r, i) ==
    /\ pc[r] \in {"mkdtemp", "stage"} => Untouched(r, Order[i])
    /\ pc[r] \in {"guard", "aside", "land"} =>
         /\ i < at[r] => Landed(r, Order[i])
         /\ i = at[r] => IF pc[r] = "land" THEN MovedAside(r, Order[i]) ELSE Untouched(r, Order[i])
         /\ i > at[r] => Untouched(r, Order[i])
    /\ pc[r] = "discard" => Landed(r, Order[i])
    /\ pc[r] = "undo" =>
         IF i > at[r] THEN Restored(r, Order[i])
         ELSE Untouched(r, Order[i]) \/ MovedAside(r, Order[i]) \/ Landed(r, Order[i])
    /\ pc[r] = "cleanup" => Restored(r, Order[i])

Tracked(r) ==
    \A i \in Positions :
        Order[i] \notin meddled =>
            /\ Order[i] \in todo[r] => Progress(r, i)
            /\ Order[i] \notin todo[r] => Untouched(r, Order[i])

\* Where a run is in the order.
Cursor(r) ==
    /\ pc[r] \in {"idle", "mkdtemp", "stage"} => at[r] = 0
    /\ pc[r] \in {"guard", "aside", "land"} => at[r] \in Positions /\ Order[at[r]] \in todo[r]
    /\ pc[r] = "undo" => /\ at[r] \in 0 .. Len(Order)
                         /\ at[r] > 0 => Order[at[r]] \in todo[r]

\* A run has bytes to land exactly where it was asked to and there was nothing
\* or the old route, and the old route it adopts; the rest is as it is to be.
Intended(r) ==
    /\ \A d \in todo[r] :
         /\ d \in Asked(r) /\ base[r][d] \in {"absent", "old"}
         /\ pc[r] \in Working => (action[r][d] = "adopt" <=> base[r][d] = "old")
    /\ \A d \in Asked(r) \ todo[r] : base[r][d] = Promise!Migrated(base[r][d])

Fresh(r) == pc[r] = "idle" => saved[r] = Nothing /\ landed[r] = {}

OneApplies == \A r, s \in Runs : Applying(r) /\ Applying(s) => r = s

OldRoutes ==
    \A d \in Dests : /\ files[d] = "old" => d = Dispatch
                     /\ \A r \in Runs : saved[r][d] = "old" => d = Dispatch

ApplyInv ==
    /\ ApplyTypeOK /\ OneApplies /\ OldRoutes
    /\ \A r \in Runs : /\ Fresh(r) /\ Cursor(r)
                       /\ Applying(r) => Tracked(r) /\ Intended(r)

-----------------------------------------------------------------------------
\* The order lists every destination once.
LEMMA OrderFacts ==
    /\ Len(Order) \in Nat
    /\ \A i \in Positions : Order[i] \in Dests
    /\ \A i, j \in Positions : Order[i] = Order[j] => i = j
    /\ \A d \in Dests : \E i \in Positions : Order[i] = d
    /\ Dispatch \in Dests /\ Ledger \in Dests /\ Dispatch # Ledger
  BY MigrationAssumption DEF Positions

\* Init: nothing was staged, and the starting contents are the assumed ones.
LEMMA InvInit == ApplyInit => ApplyInv
  <1> SUFFICES ASSUME ApplyInit PROVE ApplyInv
    OBVIOUS
  <1> USE DEF ApplyInit
  <1>1. ApplyTypeOK
    BY MigrationAssumption, OrderFacts DEF ApplyTypeOK, Nothing, Contents, Actions, Apply
  <1>2. OneApplies /\ \A r \in Runs : ~Applying(r)
    BY DEF OneApplies, Applying
  <1>3. OldRoutes
    BY MigrationAssumption DEF OldRoutes, Nothing
  <1>4. \A r \in Runs : Fresh(r) /\ Cursor(r)
    BY DEF Fresh, Cursor
  <1> QED
    BY <1>1, <1>2, <1>3, <1>4 DEF ApplyInv

\* A step of a run leaves what belongs to the other runs alone.
OnlyRun(r) ==
    \A s \in Runs : s # r =>
        /\ pc'[s] = pc[s] /\ at'[s] = at[s] /\ todo'[s] = todo[s] /\ action'[s] = action[s]
        /\ landed'[s] = landed[s] /\ base'[s] = base[s] /\ saved'[s] = saved[s]

\* What is left to show of a step of the run that applies.
LEMMA StepKeeps ==
    ASSUME ApplyInv, NEW r \in Runs, Applying(r), OnlyRun(r), ApplyTypeOK', OldRoutes',
           pc'[r] # "idle", Cursor(r)', Applying(r)' => Tracked(r)' /\ Intended(r)'
    PROVE  ApplyInv'
  <1>1. \A s \in Runs : s # r => ~Applying(s) /\ ~Applying(s)'
    BY DEF ApplyInv, OneApplies, OnlyRun, Applying
  <1>2. OneApplies'
    BY <1>1 DEF OneApplies
  <1>3. \A s \in Runs : Fresh(s)' /\ Cursor(s)'
    BY DEF ApplyInv, OnlyRun, Fresh, Cursor
  <1> QED
    BY <1>1, <1>2, <1>3 DEF ApplyInv

\* What the invariant says of the run that takes a step.
LEMMA RunFacts ==
    ASSUME ApplyInv, NEW r \in Runs, Applying(r)
    PROVE  /\ ApplyTypeOK /\ OldRoutes /\ Fresh(r) /\ Cursor(r) /\ Tracked(r) /\ Intended(r)
           /\ pc[r] # "idle"
  BY DEF ApplyInv, Applying

\* _make_run_directory touches no destination.
LEMMA MakeRunDirectoryKeeps ==
    ASSUME ApplyInv, NEW r \in Runs, MakeRunDirectory(r) PROVE ApplyInv'
  <1> USE DEF MakeRunDirectory, budget
  <1>1. Applying(r)
    BY DEF Applying
  <1>2. ApplyTypeOK /\ OldRoutes /\ Cursor(r) /\ Tracked(r) /\ Intended(r)
    BY <1>1, RunFacts
  <1>3. pc' = [pc EXCEPT ![r] = "stage"] /\ pc'[r] = "stage"
    BY <1>2 DEF ApplyTypeOK
  <1>4. ApplyTypeOK'
    BY <1>2 DEF ApplyTypeOK
  <1>5. OldRoutes' /\ OnlyRun(r) /\ Cursor(r)'
    BY <1>2, <1>3 DEF OldRoutes, OnlyRun, Cursor, ApplyTypeOK
  <1>6. Tracked(r)' /\ Intended(r)'
    BY <1>2, <1>3 DEF Tracked, Progress, Untouched, Intended, Working, Asked
  <1> QED
    BY <1>1, <1>3, <1>4, <1>5, <1>6, StepKeeps

\* Staging touches no destination; every one to come is ahead.
LEMMA StageKeeps == ASSUME ApplyInv, NEW r \in Runs, Stage(r) PROVE ApplyInv'
  <1> USE DEF Stage, fvars, budget
  <1>1. Applying(r)
    BY DEF Applying
  <1>2. ApplyTypeOK /\ OldRoutes /\ Cursor(r) /\ Tracked(r) /\ Intended(r)
    BY <1>1, RunFacts
  <1>3. pc' = [pc EXCEPT ![r] = "guard"] /\ pc'[r] = "guard"
    BY <1>2 DEF ApplyTypeOK
  <1>4. PICK j \in Positions : IsNext(r, j) /\ at' = [at EXCEPT ![r] = j]
    BY DEF Positions
  <1>5. /\ at'[r] = j /\ at[r] = 0 /\ j \in Nat /\ Order[j] \in todo[r]
        /\ \A i \in Positions : i < j => Order[i] \notin todo[r]
    BY <1>2, <1>4, OrderFacts DEF ApplyTypeOK, IsNext, Cursor, Positions
  <1>6. ApplyTypeOK'
    BY <1>2, <1>4, OrderFacts DEF ApplyTypeOK, Positions
  <1>7. OldRoutes' /\ OnlyRun(r) /\ Cursor(r)'
    BY <1>2, <1>3, <1>4, <1>5 DEF OldRoutes, OnlyRun, Cursor, ApplyTypeOK
  <1>8. Tracked(r)' /\ Intended(r)'
    BY <1>2, <1>3, <1>5 DEF Tracked, Progress, Untouched, Intended, Working, Asked
  <1> QED
    BY <1>1, <1>3, <1>6, <1>7, <1>8, StepKeeps

\* A rollback starts behind the destination a run stopped at: whatever it
\* touched is at or before its new position.
LEMMA TurnsBack ==
    ASSUME ApplyTypeOK, NEW r \in Runs, NEW j \in 0 .. Len(Order), IsPrevious(r, j),
           at' = [at EXCEPT ![r] = j], Cursor(r), pc[r] \in {"guard", "undo"},
           pc'[r] = "undo", todo' = todo
    PROVE  /\ at'[r] = j /\ j < at[r] /\ at' \in [Runs -> 0 .. Len(Order) + 1] /\ Cursor(r)'
           /\ \A i \in Positions : j < i /\ i < at[r] => Order[i] \notin todo[r]
           /\ \A s \in Runs : s # r => at'[s] = at[s]
  BY OrderFacts DEF ApplyTypeOK, IsPrevious, Cursor, Positions

\* A refused destination is left as it is.
LEMMA GuardKeeps == ASSUME ApplyInv, NEW r \in Runs, Guard(r) PROVE ApplyInv'
  <1> USE DEF fvars, budget
  <1> DEFINE c == Current(r)
  <1>1. Applying(r) /\ pc[r] = "guard"
    BY DEF Guard, Applying
  <1>2. ApplyTypeOK /\ OldRoutes /\ Cursor(r) /\ Tracked(r) /\ Intended(r)
    BY <1>1, RunFacts
  <1>3. at[r] \in Positions /\ c \in Dests
    BY <1>1, <1>2, OrderFacts DEF Cursor, Current
  <1>4. OldRoutes'
    BY <1>2 DEF Guard, OldRoutes
  <1>5. CASE pc'[r] = "undo"
    <2>1. PICK j \in 0 .. Len(Order) : IsPrevious(r, j) /\ at' = [at EXCEPT ![r] = j]
      BY <1>5 DEF Guard
    <2>2. /\ at'[r] = j /\ j < at[r] /\ at' \in [Runs -> 0 .. Len(Order) + 1] /\ Cursor(r)'
          /\ \A i \in Positions : j < i /\ i < at[r] => Order[i] \notin todo[r]
          /\ \A s \in Runs : s # r => at'[s] = at[s]
      BY <1>1, <1>2, <1>5, <2>1, TurnsBack DEF Guard
    <2>3. ApplyTypeOK' /\ OnlyRun(r)
      BY <1>2, <1>3, <1>5, <2>2 DEF Guard, ApplyTypeOK, OnlyRun, Actions
    <2>4. Tracked(r)'
      BY <1>1, <1>2, <1>3, <1>5, <2>2
      DEF Guard, Tracked, Progress, Untouched, MovedAside, Landed, Restored, Positions
    <2>5. Intended(r)'
      BY <1>2, <1>5 DEF Guard, Intended, Working, Asked
    <2> QED
      BY <1>1, <1>4, <1>5, <2>2, <2>3, <2>4, <2>5, StepKeeps
  <1>6. CASE pc'[r] # "undo"
    <2>1. /\ pc' = [pc EXCEPT ![r] = "aside"] /\ pc'[r] = "aside"
          /\ UNCHANGED <<files, trees, saved, at, action, mode, todo, landed, base, meddled, budget>>
      BY <1>2, <1>6 DEF Guard, ApplyTypeOK, fvars
    <2>2. ApplyTypeOK' /\ OnlyRun(r) /\ Cursor(r)'
      BY <1>1, <1>2, <2>1 DEF ApplyTypeOK, OnlyRun, Cursor, budget
    <2>3. Tracked(r)' /\ Intended(r)'
      BY <1>1, <1>2, <2>1 DEF Tracked, Progress, Untouched, Landed, Intended, Working, Asked
    <2> QED
      BY <1>1, <1>4, <2>1, <2>2, <2>3, StepKeeps
  <1> QED
    BY <1>5, <1>6

\* The original is in the run's tree before the destination is empty.
LEMMA MoveAsideKeeps == ASSUME ApplyInv, NEW r \in Runs, MoveAside(r) PROVE ApplyInv'
  <1> DEFINE c == Current(r)
  <1> USE DEF MoveAside, budget
  <1>1. Applying(r) /\ pc[r] = "aside"
    BY DEF Applying
  <1>2. ApplyTypeOK /\ OldRoutes /\ Cursor(r) /\ Tracked(r) /\ Intended(r)
    BY <1>1, RunFacts
  <1>3. /\ at[r] \in Positions /\ c \in Dests /\ c = Order[at[r]] /\ c \in todo[r]
        /\ \A i \in Positions : i # at[r] => Order[i] # c /\ Order[i] \in Dests
    BY <1>1, <1>2, OrderFacts DEF Cursor, Current
  <1>4. /\ pc'[r] = "land"
        /\ saved'[r][c] = files[c] /\ files'[c] = "absent"
        /\ \A d \in Dests : d # c => saved'[r][d] = saved[r][d] /\ files'[d] = files[d]
        /\ \A s \in Runs : s # r => saved'[s] = saved[s] /\ pc'[s] = pc[s]
    BY <1>2, <1>3 DEF ApplyTypeOK
  <1>5. ApplyTypeOK'
    BY <1>2, <1>3 DEF ApplyTypeOK, Contents
  <1>6. OldRoutes' /\ OnlyRun(r) /\ Cursor(r)'
    BY <1>1, <1>2, <1>4 DEF OldRoutes, OnlyRun, Cursor
  <1>7. Tracked(r)'
    <2> SUFFICES ASSUME NEW i \in Positions, Order[i] \notin meddled
                 PROVE  /\ Order[i] \in todo[r] => Progress(r, i)'
                        /\ Order[i] \notin todo[r] => Untouched(r, Order[i])'
      BY DEF Tracked
    <2>1. CASE i = at[r]
      BY <1>1, <1>2, <1>3, <1>4, <2>1, OrderFacts
      DEF Tracked, Progress, Untouched, MovedAside, Positions
    <2>2. CASE i # at[r]
      BY <1>1, <1>2, <1>3, <1>4, <2>2 DEF Tracked, Progress, Untouched, Landed
    <2> QED
      BY <2>1, <2>2
  <1>8. Intended(r)'
    BY <1>1, <1>2, <1>4 DEF Intended, Working, Asked
  <1> QED
    BY <1>1, <1>4, <1>5, <1>6, <1>7, <1>8, StepKeeps

\* Land: the destination has the run's bytes, the adopted route where the old
\* one was, and the run goes to the next one or is through.
LEMMA LandKeeps == ASSUME ApplyInv, NEW r \in Runs, Land(r) PROVE ApplyInv'
  <1> DEFINE c == Current(r)
  <1> USE DEF Land
  <1>1. Applying(r) /\ pc[r] = "land"
    BY DEF Applying
  <1>2. ApplyTypeOK /\ OldRoutes /\ Cursor(r) /\ Tracked(r) /\ Intended(r)
    BY <1>1, RunFacts
  <1>3. /\ at[r] \in Positions /\ c \in Dests /\ c = Order[at[r]] /\ c \in todo[r]
        /\ \A i \in Positions : i # at[r] => Order[i] # c /\ Order[i] \in Dests
    BY <1>1, <1>2, OrderFacts DEF Cursor, Current
  <1>4. PICK j \in 1 .. Len(Order) + 1 :
          /\ IsNext(r, j)
          /\ at' = [at EXCEPT ![r] = j]
          /\ pc' = [pc EXCEPT ![r] = IF j > Len(Order) THEN "discard" ELSE "guard"]
    OBVIOUS
  <1>5. /\ at'[r] = j /\ at[r] < j
        /\ \A i \in Positions : at[r] < i /\ i < j => Order[i] \notin todo[r]
        /\ j \in Positions => Order[j] \in todo[r]
        /\ IF j \in Positions THEN pc'[r] = "guard" ELSE pc'[r] = "discard" /\ j = Len(Order) + 1
    <2>1. at'[r] = j /\ pc'[r] = IF j > Len(Order) THEN "discard" ELSE "guard"
      BY <1>2, <1>4 DEF ApplyTypeOK
    <2>2. at[r] \in Nat /\ j \in Nat /\ Len(Order) \in Nat
      BY <1>3, <1>4, OrderFacts DEF Positions
    <2> QED
      BY <1>4, <2>1, <2>2 DEF IsNext, Positions
  <1>6. /\ files'[c] = IF action[r][c] = "adopt" THEN "adopted" ELSE "new"
        /\ landed'[r] = landed[r] \union {c}
        /\ \A d \in Dests : d # c => files'[d] = files[d]
        /\ \A s \in Runs : s # r => landed'[s] = landed[s] /\ pc'[s] = pc[s] /\ at'[s] = at[s]
    BY <1>2, <1>3, <1>4 DEF ApplyTypeOK
  <1>7. ApplyTypeOK'
    <2>1. files' \in [Dests -> Contents] /\ landed' \in [Runs -> SUBSET Dests]
      BY <1>2, <1>3 DEF ApplyTypeOK, Contents
    <2>2. /\ at' \in [Runs -> 0 .. Len(Order) + 1]
          /\ pc' \in [Runs -> {"idle", "mkdtemp", "stage", "guard", "aside", "land", "undo",
                               "cleanup", "discard", "applied", "failed", "blocked", "killed"}]
      BY <1>2, <1>4, OrderFacts DEF ApplyTypeOK
    <2> QED
      BY <1>2, <2>1, <2>2 DEF ApplyTypeOK, budget
  <1>8. OldRoutes'
    BY <1>2, <1>6 DEF OldRoutes
  <1>9. OnlyRun(r) /\ Cursor(r)'
    BY <1>5, <1>6 DEF OnlyRun, Cursor
  <1>10. Tracked(r)'
    <2> SUFFICES ASSUME NEW i \in Positions, Order[i] \notin meddled
                 PROVE  /\ Order[i] \in todo[r] => Progress(r, i)'
                        /\ Order[i] \notin todo[r] => Untouched(r, Order[i])'
      BY DEF Tracked
    <2>1. i \in Nat /\ at[r] \in Nat /\ j \in Nat /\ (j \notin Positions => i < j)
      BY <1>3, <1>4, <1>5, OrderFacts DEF Positions
    <2>2. CASE i = at[r]
      <3>1. MovedAside(r, c)
        BY <1>1, <1>2, <1>3, <2>2 DEF Tracked, Progress
      <3>2. base[r][c] \in {"absent", "old"} /\ (action[r][c] = "adopt" <=> base[r][c] = "old")
        BY <1>1, <1>2, <1>3 DEF Intended, Working, Asked
      <3>3. Landed(r, Order[i])'
        BY <1>3, <1>6, <2>2, <3>1, <3>2 DEF MovedAside, Landed, Promise!Migrated
      <3> QED
        BY <1>3, <1>5, <2>1, <2>2, <3>3 DEF Progress
    <2>3. CASE i # at[r]
      <3>1. Untouched(r, Order[i]) => Untouched(r, Order[i])'
        BY <1>3, <1>6, <2>3 DEF Untouched
      <3>2. Landed(r, Order[i]) => Landed(r, Order[i])'
        BY <1>3, <1>6, <2>3 DEF Landed
      <3>3. /\ Order[i] \notin todo[r] => Untouched(r, Order[i])
            /\ Order[i] \in todo[r] /\ i < at[r] => Landed(r, Order[i])
            /\ Order[i] \in todo[r] /\ i > at[r] => Untouched(r, Order[i])
        BY <1>1, <1>2 DEF Tracked, Progress
      <3> QED
        BY <1>5, <2>1, <2>3, <3>1, <3>2, <3>3 DEF Progress
    <2> QED
      BY <2>2, <2>3
  <1>11. Intended(r)'
    BY <1>1, <1>2, <1>5, <1>6 DEF Intended, Working, Asked
  <1> QED
    BY <1>1, <1>5, <1>7, <1>8, <1>9, <1>10, <1>11, StepKeeps

\* Whatever fails, every destination is untouched, moved aside or landed, and
\* those behind the position the rollback starts at are untouched.
LEMMA StepFailsKeeps == ASSUME ApplyInv, NEW r \in Runs, StepFails(r) PROVE ApplyInv'
  <1> USE DEF fvars
  <1>1. Applying(r) /\ pc[r] \in Working
    BY DEF StepFails, Applying, Working
  <1>2. ApplyTypeOK /\ OldRoutes /\ Cursor(r) /\ Tracked(r) /\ Intended(r)
    BY <1>1, RunFacts
  <1>3. pc' = [pc EXCEPT ![r] = "undo"] /\ pc'[r] = "undo" /\ \A s \in Runs : s # r => pc'[s] = pc[s]
    BY <1>2 DEF StepFails, ApplyTypeOK
  <1>4. PICK culprit : action' = [action EXCEPT ![r] =
                          [d \in Dests |-> IF d \in culprit THEN "failed" ELSE @[d]]]
    BY DEF StepFails
  <1>5. /\ action' \in [Runs -> [Dests -> Actions]]
        /\ \A s \in Runs : s # r => action'[s] = action[s]
    BY <1>2, <1>4 DEF ApplyTypeOK, Actions
  <1>6. /\ at' \in [Runs -> 0 .. Len(Order) + 1] /\ Cursor(r)'
        /\ \A s \in Runs : s # r => at'[s] = at[s]
        /\ IF pc[r] = "guard"
           THEN /\ at'[r] < at[r]
                /\ \A i \in Positions : at'[r] < i /\ i < at[r] => Order[i] \notin todo[r]
           ELSE at'[r] = at[r]
    <2>1. CASE pc[r] = "guard"
      <3>1. PICK j \in 0 .. Len(Order) : IsPrevious(r, j) /\ at' = [at EXCEPT ![r] = j]
        BY <2>1 DEF StepFails
      <3> QED
        BY <1>2, <1>3, <2>1, <3>1, TurnsBack DEF StepFails
    <2>2. CASE pc[r] # "guard"
      BY <1>1, <1>2, <1>3, <2>2, OrderFacts
      DEF StepFails, ApplyTypeOK, Cursor, Working, Positions
    <2> QED
      BY <2>1, <2>2
  <1>7. ApplyTypeOK'
    <2>1. faults' \in 0 .. MaxFaults
      <3>1. faults < MaxFaults /\ faults' = faults + 1
        BY DEF StepFails
      <3> QED
        BY <1>2, <3>1, MigrationAssumption DEF ApplyTypeOK
    <2>2. /\ pc' \in [Runs -> {"idle", "mkdtemp", "stage", "guard", "aside", "land", "undo",
                               "cleanup", "discard", "applied", "failed", "blocked", "killed"}]
      BY <1>2, <1>3 DEF ApplyTypeOK
    <2> QED
      BY <1>2, <1>5, <1>6, <2>1, <2>2 DEF StepFails, ApplyTypeOK
  <1>8. OldRoutes' /\ OnlyRun(r)
    BY <1>2, <1>3, <1>5, <1>6 DEF StepFails, OldRoutes, OnlyRun
  <1>9. Tracked(r)'
    <2> SUFFICES ASSUME NEW i \in Positions, Order[i] \notin meddled
                 PROVE  /\ Order[i] \in todo[r] => Progress(r, i)'
                        /\ Order[i] \notin todo[r] => Untouched(r, Order[i])'
      BY DEF Tracked, StepFails
    <2>1. i \in Nat /\ i > 0 /\ at[r] \in Nat /\ at'[r] \in Nat
      BY <1>2, <1>6, OrderFacts DEF ApplyTypeOK, Positions
    <2>2. UNCHANGED <<files, saved, base, landed, todo>>
      BY DEF StepFails
    <2>3. CASE Order[i] \notin todo[r]
      BY <1>2, <2>2, <2>3 DEF Tracked, Untouched
    <2>4. CASE Order[i] \in todo[r] /\ i > at'[r]
      <3>1. Untouched(r, Order[i])
        BY <1>1, <1>2, <1>6, <2>1, <2>4 DEF Tracked, Progress, Working
      <3> QED
        BY <1>3, <2>2, <2>4, <3>1 DEF Progress, Untouched, Restored
    <2>5. CASE Order[i] \in todo[r] /\ ~(i > at'[r])
      <3>1. Untouched(r, Order[i]) \/ MovedAside(r, Order[i]) \/ Landed(r, Order[i])
        BY <1>1, <1>2, <1>6, <2>1, <2>5 DEF Tracked, Progress, Working
      <3> QED
        BY <1>3, <2>2, <2>5, <3>1 DEF Progress, Untouched, MovedAside, Landed
    <2> QED
      BY <2>3, <2>4, <2>5
  <1>10. Intended(r)'
    BY <1>2, <1>3 DEF StepFails, Intended, Working, Asked
  <1> QED
    BY <1>1, <1>3, <1>6, <1>7, <1>8, <1>9, <1>10, StepKeeps

\* _rollback of one destination: it has what it had, or the report names it.
LEMMA UndoKeeps ==
    ASSUME ApplyInv, NEW r \in Runs, NEW ok \in BOOLEAN, Undo(r, ok) PROVE ApplyInv'
  <1>1. Applying(r) /\ pc[r] = "undo" /\ at[r] > 0 /\ pc' = pc /\ todo' = todo /\ meddled' = meddled
        /\ base' = base /\ landed' = landed
    BY DEF Undo, Applying
  <1>2. ApplyTypeOK /\ OldRoutes /\ Cursor(r) /\ Tracked(r) /\ Intended(r)
    BY <1>1, RunFacts
  <1>3. PICK k \in Positions : k = at[r]
    BY <1>1, <1>2, OrderFacts DEF Cursor, Positions
  <1>4. PICK d \in Dests : d = Order[k] /\ d = Current(r)
    BY <1>3, OrderFacts DEF Current
  <1>5. PICK j \in 0 .. Len(Order) : IsPrevious(r, j) /\ at' = [at EXCEPT ![r] = j]
    BY DEF Undo
  <1>6. /\ at'[r] = j /\ j < k /\ at' \in [Runs -> 0 .. Len(Order) + 1] /\ Cursor(r)'
        /\ \A i \in Positions : j < i /\ i < k => Order[i] \notin todo[r]
        /\ \A s \in Runs : s # r => at'[s] = at[s]
    BY <1>1, <1>2, <1>3, <1>5, TurnsBack
  <1>7. faults' \in 0 .. MaxFaults
    <2>1. faults' = faults \/ (faults < MaxFaults /\ faults' = faults + 1)
      BY DEF Undo
    <2>2. faults \in 0 .. MaxFaults /\ MaxFaults \in Nat
      BY <1>2, MigrationAssumption DEF ApplyTypeOK
    <2> QED
      BY <2>1, <2>2
  <1>8. CASE ok
    <2>1. /\ files' = IF saved[r][d] # "absent" \/ d \in landed[r]
                      THEN [files EXCEPT ![d] = saved[r][d]] ELSE files
          /\ saved' = [saved EXCEPT ![r][d] = "absent"]
          /\ action' = action \/ action' = [action EXCEPT ![r][d] = "rolled-back"]
          /\ trees' = trees /\ mode' = mode /\ kills' = kills /\ writes' = writes
      BY <1>4, <1>8 DEF Undo
    <2>2. /\ files' \in [Dests -> Contents] /\ saved' \in [Runs -> [Dests -> Contents]]
          /\ action' \in [Runs -> [Dests -> Actions]]
      <3>1. files' \in [Dests -> Contents]
        BY <1>2, <2>1 DEF ApplyTypeOK
      <3>2. saved' \in [Runs -> [Dests -> Contents]]
        BY <1>2, <2>1 DEF ApplyTypeOK, Contents
      <3>3. action' \in [Runs -> [Dests -> Actions]]
        <4>1. CASE action' = action
          BY <1>2, <4>1 DEF ApplyTypeOK
        <4>2. CASE action' = [action EXCEPT ![r][d] = "rolled-back"]
          BY <1>2, <4>2 DEF ApplyTypeOK, Actions
        <4> QED
          BY <2>1, <4>1, <4>2
      <3> QED
        BY <3>1, <3>2, <3>3
    <2>3. /\ \A s \in Runs : s # r => saved'[s] = saved[s] /\ action'[s] = action[s]
          /\ saved'[r][d] = "absent"
          /\ \A e \in Dests : e # d => files'[e] = files[e] /\ saved'[r][e] = saved[r][e]
                                       /\ action'[r][e] = action[r][e]
          /\ files'[d] = IF saved[r][d] # "absent" \/ d \in landed[r]
                         THEN saved[r][d] ELSE files[d]
      BY <1>2, <2>1 DEF ApplyTypeOK
    <2>4. ApplyTypeOK' /\ OnlyRun(r)
      BY <1>1, <1>2, <1>6, <1>7, <2>1, <2>2, <2>3 DEF ApplyTypeOK, OnlyRun
    <2>5. OldRoutes'
      BY <1>2, <2>3 DEF OldRoutes
    <2>6. Tracked(r)'
      <3> SUFFICES ASSUME NEW i \in Positions, Order[i] \notin meddled
                   PROVE  /\ Order[i] \in todo[r] => Progress(r, i)'
                          /\ Order[i] \notin todo[r] => Untouched(r, Order[i])'
        BY <1>1 DEF Tracked
      <3>1. i \in Nat /\ k \in Nat /\ j \in Nat
        BY OrderFacts DEF Positions
      <3>2. CASE i = k
        <4>1. Untouched(r, d) \/ MovedAside(r, d) \/ Landed(r, d)
          <5>1. d \in todo[r] => Progress(r, k)
            BY <1>2, <1>4, <3>2 DEF Tracked
          <5>2. d \in todo[r] /\ ~(k > at[r])
            BY <1>1, <1>2, <1>3, <1>4, <3>1 DEF Cursor
          <5> QED
            BY <1>1, <1>4, <5>1, <5>2 DEF Progress
        <4>2. files'[d] = base[r][d]
          BY <2>3, <4>1 DEF Untouched, MovedAside, Landed
        <4>3. d \in todo[r]
          BY <1>1, <1>2, <1>3, <1>4 DEF Cursor
        <4> QED
          BY <1>1, <1>4, <1>6, <3>1, <3>2, <4>2, <4>3 DEF Progress, Restored
      <3>3. CASE i # k
        <4>1. Order[i] # d /\ Order[i] \in Dests
          BY <1>4, <3>3, OrderFacts
        <4> QED
          BY <1>1, <1>2, <1>3, <1>6, <2>3, <3>1, <3>3, <4>1
          DEF Tracked, Progress, Untouched, MovedAside, Landed, Restored, Reported
      <3> QED
        BY <3>2, <3>3
    <2>7. Intended(r)'
      BY <1>1, <1>2, <2>1 DEF Intended, Working, Asked
    <2> QED
      BY <1>1, <1>6, <2>4, <2>5, <2>6, <2>7, StepKeeps
  <1>9. CASE ~ok
    <2>1. /\ files' = files /\ saved' = saved
          /\ saved[r][d] # "absent" \/ d \in landed[r]
          /\ action' = [action EXCEPT ![r][d] = IF d \in landed[r] THEN "written" ELSE "lost"]
          /\ trees' = trees /\ mode' = mode /\ kills' = kills /\ writes' = writes
      BY <1>4, <1>9 DEF Undo
    <2>2. action' \in [Runs -> [Dests -> Actions]]
      BY <1>2, <2>1 DEF ApplyTypeOK, Actions
    <2>3. /\ \A s \in Runs : s # r => action'[s] = action[s]
          /\ action'[r][d] \in {"written", "lost"}
          /\ \A e \in Dests : e # d => action'[r][e] = action[r][e]
      BY <1>2, <2>1 DEF ApplyTypeOK
    <2>4. ApplyTypeOK' /\ OnlyRun(r)
      BY <1>1, <1>2, <1>6, <1>7, <2>1, <2>2, <2>3 DEF ApplyTypeOK, OnlyRun
    <2>5. OldRoutes'
      BY <1>2, <2>1 DEF OldRoutes
    <2>6. Tracked(r)'
      <3> SUFFICES ASSUME NEW i \in Positions, Order[i] \notin meddled
                   PROVE  /\ Order[i] \in todo[r] => Progress(r, i)'
                          /\ Order[i] \notin todo[r] => Untouched(r, Order[i])'
        BY <1>1 DEF Tracked
      <3>1. i \in Nat /\ k \in Nat /\ j \in Nat
        BY OrderFacts DEF Positions
      <3>2. CASE i = k
        <4>1. Untouched(r, d) \/ MovedAside(r, d) \/ Landed(r, d)
          <5>1. d \in todo[r] => Progress(r, k)
            BY <1>2, <1>4, <3>2 DEF Tracked
          <5>2. d \in todo[r] /\ ~(k > at[r])
            BY <1>1, <1>2, <1>3, <1>4, <3>1 DEF Cursor
          <5> QED
            BY <1>1, <1>4, <5>1, <5>2 DEF Progress
        <4>2. files[d] \in {"absent", Promise!Migrated(base[r][d])} /\ saved[r][d] = base[r][d]
          BY <2>1, <4>1 DEF Untouched, MovedAside, Landed
        <4>3. d \in todo[r]
          BY <1>1, <1>2, <1>3, <1>4 DEF Cursor
        <4> QED
          BY <1>1, <1>4, <1>6, <2>1, <2>3, <3>1, <3>2, <4>2, <4>3
          DEF Progress, Restored, Reported
      <3>3. CASE i # k
        <4>1. Order[i] # d /\ Order[i] \in Dests
          BY <1>4, <3>3, OrderFacts
        <4> QED
          BY <1>1, <1>2, <1>3, <1>6, <2>1, <2>3, <3>1, <3>3, <4>1
          DEF Tracked, Progress, Untouched, MovedAside, Landed, Restored, Reported
      <3> QED
        BY <3>2, <3>3
    <2>7. Intended(r)'
      BY <1>1, <1>2, <2>1 DEF Intended, Working, Asked
    <2> QED
      BY <1>1, <1>6, <2>4, <2>5, <2>6, <2>7, StepKeeps
  <1> QED
    BY <1>8, <1>9

\* Once the rollback is through, whatever it went over is restored or reported.
LEMMA UndoDoneKeeps == ASSUME ApplyInv, NEW r \in Runs, UndoDone(r) PROVE ApplyInv'
  <1> USE DEF UndoDone, fvars, budget
  <1>1. Applying(r) /\ pc[r] = "undo" /\ at[r] = 0
    BY DEF Applying
  <1>2. ApplyTypeOK /\ OldRoutes /\ Cursor(r) /\ Tracked(r) /\ Intended(r)
    BY <1>1, RunFacts
  <1>3. pc'[r] = "cleanup" /\ \A s \in Runs : s # r => pc'[s] = pc[s] /\ action'[s] = action[s]
    BY <1>2 DEF ApplyTypeOK
  <1>4. \A d \in Dests : action[r][d] \in {"written", "lost"} => action'[r][d] = action[r][d]
    BY <1>2 DEF ApplyTypeOK
  <1>5. ApplyTypeOK'
    <2>1. action' \in [Runs -> [Dests -> Actions]]
      BY <1>2 DEF ApplyTypeOK, Actions
    <2> QED
      BY <1>2, <2>1 DEF ApplyTypeOK
  <1>6. OldRoutes' /\ OnlyRun(r) /\ Cursor(r)'
    BY <1>2, <1>3 DEF OldRoutes, OnlyRun, Cursor
  <1>7. Tracked(r)'
    <2> SUFFICES ASSUME NEW i \in Positions, Order[i] \notin meddled
                 PROVE  /\ Order[i] \in todo[r] => Progress(r, i)'
                        /\ Order[i] \notin todo[r] => Untouched(r, Order[i])'
      BY DEF Tracked
    <2>1. i > 0 /\ Order[i] \in Dests
      BY OrderFacts DEF Positions
    <2> QED
      BY <1>1, <1>2, <1>3, <1>4, <2>1 DEF Tracked, Progress, Untouched, Restored, Reported
  <1>8. Intended(r)'
    BY <1>2, <1>3 DEF Intended, Working, Asked
  <1> QED
    BY <1>1, <1>3, <1>5, <1>6, <1>7, <1>8, StepKeeps

\* A run that ends, well or not, is not looked at any more.
LEMMA EndKeeps ==
    ASSUME ApplyInv, NEW r \in Runs, Cleanup(r) \/ Finish(r) \/ Kill(r) PROVE ApplyInv'
  <1> USE DEF Cleanup, Finish, Kill, Discarded, fvars, budget
  <1>1. Applying(r)
    BY DEF Applying
  <1>2. ApplyTypeOK /\ OldRoutes
    BY <1>1, RunFacts
  <1>3. /\ pc'[r] \in {"failed", "applied", "killed"}
        /\ \A s \in Runs : s # r => pc'[s] = pc[s] /\ action'[s] = action[s] /\ saved'[s] = saved[s]
        /\ saved'[r] \in {saved[r], Nothing} /\ files' = files
    BY <1>2 DEF ApplyTypeOK
  <1>4. ApplyTypeOK'
    <2>1. saved' \in [Runs -> [Dests -> Contents]] /\ trees' \subseteq Runs
      <3>1. \/ saved' = saved /\ trees' = trees
            \/ saved' = [saved EXCEPT ![r] = Nothing] /\ trees' = trees \ {r}
        OBVIOUS
      <3>2. Nothing \in [Dests -> Contents]
        BY DEF Nothing, Contents
      <3>3. saved \in [Runs -> [Dests -> Contents]] /\ trees \subseteq Runs
        BY <1>2 DEF ApplyTypeOK
      <3> QED
        BY <3>1, <3>2, <3>3
    <2>2. action' \in [Runs -> [Dests -> Actions]]
      BY <1>2 DEF ApplyTypeOK, Actions
    <2>3. kills' \in 0 .. MaxKills
      <3>1. kills' = kills \/ (kills < MaxKills /\ kills' = kills + 1)
        OBVIOUS
      <3>2. kills \in 0 .. MaxKills /\ MaxKills \in Nat
        BY <1>2, MigrationAssumption DEF ApplyTypeOK
      <3> QED
        BY <3>1, <3>2
    <2>4. pc' \in [Runs -> {"idle", "mkdtemp", "stage", "guard", "aside", "land", "undo",
                            "cleanup", "discard", "applied", "failed", "blocked", "killed"}]
      BY <1>2 DEF ApplyTypeOK
    <2> QED
      BY <1>2, <2>1, <2>2, <2>3, <2>4 DEF ApplyTypeOK
  <1>5. OldRoutes'
    BY <1>2, <1>3 DEF OldRoutes, Nothing
  <1>6. OnlyRun(r)
    BY <1>3 DEF OnlyRun
  <1>7. Cursor(r)' /\ ~Applying(r)' /\ pc'[r] # "idle"
    BY <1>3 DEF Cursor, Applying
  <1> QED
    BY <1>1, <1>4, <1>5, <1>6, <1>7, StepKeeps

\* What the operator writes during a run is set apart.
LEMMA OperatorWritesKeeps ==
    ASSUME ApplyInv, NEW e \in Dests, OperatorWrites(e) PROVE ApplyInv'
  <1> USE DEF OperatorWrites
  <1>1. ApplyTypeOK /\ OldRoutes /\ OneApplies
    BY DEF ApplyInv
  <1>2. PICK c \in {"old", "work"} : (c = "old" => e = Dispatch) /\ files' = [files EXCEPT ![e] = c]
    OBVIOUS
  <1>3. files'[e] = c /\ \A d \in Dests : d # e => files'[d] = files[d]
    BY <1>1, <1>2 DEF ApplyTypeOK
  <1>4. ApplyTypeOK'
    <2>1. files' \in [Dests -> Contents]
      BY <1>1, <1>2 DEF ApplyTypeOK, Contents
    <2>2. writes' \in 0 .. MaxWrites
      <3>1. writes < MaxWrites /\ writes' = writes + 1
        OBVIOUS
      <3>2. writes \in 0 .. MaxWrites /\ MaxWrites \in Nat
        BY <1>1, MigrationAssumption DEF ApplyTypeOK
      <3> QED
        BY <3>1, <3>2
    <2> QED
      BY <1>1, <2>1, <2>2 DEF ApplyTypeOK
  <1>5. OldRoutes'
    BY <1>1, <1>2, <1>3 DEF OldRoutes
  <1>6. OneApplies' /\ \A r \in Runs : Fresh(r)' /\ Cursor(r)'
    BY DEF ApplyInv, OneApplies, Applying, Fresh, Cursor
  <1>7. ASSUME NEW r \in Runs, Applying(r)' PROVE Tracked(r)' /\ Intended(r)'
    <2>1. Applying(r) /\ Tracked(r) /\ Intended(r)
      BY <1>7 DEF ApplyInv, Applying
    <2>2. meddled' = meddled \union {e}
      BY <2>1
    <2>3. Intended(r)'
      BY <2>1 DEF Intended, Working, Asked
    <2>4. Tracked(r)'
      <3> SUFFICES ASSUME NEW i \in Positions, Order[i] \notin meddled'
                   PROVE  /\ Order[i] \in todo[r] => Progress(r, i)'
                          /\ Order[i] \notin todo[r] => Untouched(r, Order[i])'
        BY DEF Tracked
      <3>1. Order[i] \notin meddled /\ files'[Order[i]] = files[Order[i]]
        BY <1>3, <2>2, OrderFacts
      <3> QED
        BY <2>1, <3>1 DEF Tracked, Progress, Untouched, MovedAside, Landed, Restored, Reported
    <2> QED
      BY <2>3, <2>4
  <1> QED
    BY <1>4, <1>5, <1>6, <1>7 DEF ApplyInv

\* A destination that preflight neither writes nor refuses is as it is to be.
LEMMA Settled ==
    ASSUME ApplyTypeOK, OldRoutes, NEW m, NEW d \in Dests, m = StageLedger => d = Ledger,
           Preflighted(m, d) \notin {"create", "adopt", "conflict"}
    PROVE  /\ files[d] = Promise!Migrated(files[d])
           /\ files[d] = "work" => d = Ledger
  <1>1. files[d] \in Contents /\ (files[d] = "old" => d = Dispatch) /\ Dispatch # Ledger
    BY OrderFacts DEF ApplyTypeOK, OldRoutes
  <1>2. Preflighted(m, d) \in {"identical", "already-staged"}
    BY DEF Preflighted
  <1>3. files[d] # "absent" /\ files[d] # "old" /\ (files[d] = "work" => d = Ledger)
    BY <1>1, <1>2 DEF Preflighted
  <1> QED
    BY <1>3 DEF Promise!Migrated

\* What preflight found is the base of the run that begins.
LEMMA PreflightKeeps ==
    ASSUME ApplyInv, NEW r \in Runs, NEW m \in Modes, ApplyPreflight(r, m) PROVE ApplyInv'
  <1> DEFINE decided == [d \in Dests |-> Preflighted(m, d)]
             landing == {d \in Dests : decided[d] \in {"create", "adopt"}}
  <1>1. /\ pc[r] = "idle" /\ \A s \in Runs : ~Applying(s)
        /\ mode' = [mode EXCEPT ![r] = m] /\ action' = [action EXCEPT ![r] = decided]
        /\ todo' = [todo EXCEPT ![r] = landing] /\ base' = [base EXCEPT ![r] = files]
        /\ meddled' = {}
        /\ pc' = [pc EXCEPT ![r] = IF \E d \in Dests : decided[d] = "conflict" THEN "blocked"
                                   ELSE IF landing = {} THEN "applied" ELSE "mkdtemp"]
        /\ UNCHANGED <<files, trees, saved, at, landed, faults, kills, writes>>
    BY DEF ApplyPreflight, fvars, budget
  <1>2. ApplyTypeOK /\ OldRoutes /\ saved[r] = Nothing /\ landed[r] = {} /\ at[r] = 0
    BY <1>1 DEF ApplyInv, Fresh, Cursor
  <1>3. pc'[r] \in {"blocked", "applied", "mkdtemp"} /\ \A s \in Runs : s # r => pc'[s] = pc[s]
    BY <1>1, <1>2 DEF ApplyTypeOK
  <1>4. \A d \in Dests : decided[d] = Preflighted(m, d) /\ decided[d] \in Actions
    BY DEF Preflighted, Actions
  <1>5. ApplyTypeOK'
    <2>1. action' \in [Runs -> [Dests -> Actions]]
      BY <1>1, <1>2, <1>4 DEF ApplyTypeOK
    <2>2. m \in {Apply, StageLedger}
      BY MigrationAssumption
    <2>3. /\ pc' \in [Runs -> {"idle", "mkdtemp", "stage", "guard", "aside", "land", "undo",
                               "cleanup", "discard", "applied", "failed", "blocked", "killed"}]
          /\ mode' \in [Runs -> {Apply, StageLedger}] /\ todo' \in [Runs -> SUBSET Dests]
          /\ base' \in [Runs -> [Dests -> Contents]]
      BY <1>1, <1>2, <2>2 DEF ApplyTypeOK
    <2> QED
      BY <1>1, <1>2, <2>1, <2>3 DEF ApplyTypeOK
  <1>6. OldRoutes'
    BY <1>1, <1>2 DEF OldRoutes
  <1>7. /\ OneApplies' /\ \A s \in Runs : s # r => ~Applying(s)'
        /\ \A s \in Runs : Fresh(s)' /\ Cursor(s)'
    BY <1>1, <1>2, <1>3 DEF OneApplies, Applying, ApplyInv, Fresh, Cursor, ApplyTypeOK
  <1>8. ASSUME Applying(r)' PROVE Tracked(r)' /\ Intended(r)'
    <2>1. /\ pc'[r] = "mkdtemp" /\ base'[r] = files /\ todo'[r] = landing /\ action'[r] = decided
          /\ saved'[r] = Nothing /\ landed'[r] = {}
      BY <1>1, <1>2, <1>3, <1>8 DEF ApplyTypeOK, Applying
    <2>2. Tracked(r)'
      BY <1>1, <2>1, OrderFacts DEF Tracked, Progress, Untouched, Nothing
    <2>3. mode'[r] = m /\ \A d \in Dests : decided[d] # "conflict"
      BY <1>1, <1>2, <2>1 DEF ApplyTypeOK
    <2>4. ASSUME NEW d \in landing
          PROVE /\ d \in Asked(r)' /\ files[d] \in {"absent", "old"}
                /\ decided[d] = "adopt" <=> files[d] = "old"
      BY <1>4, <2>3, <2>4 DEF Preflighted, Asked
    <2>5. ASSUME NEW d \in Asked(r)' \ landing PROVE files[d] = Promise!Migrated(files[d])
      BY <2>3, <2>5, <1>2, Settled, OrderFacts DEF Asked
    <2>6. Intended(r)'
      <3>1. /\ \A d \in landing : d \in Asked(r)' /\ files[d] \in {"absent", "old"}
            /\ \A d \in landing : decided[d] = "adopt" <=> files[d] = "old"
        BY <2>4
      <3>2. \A d \in Asked(r)' \ landing : files[d] = Promise!Migrated(files[d])
        BY <2>5
      <3> HIDE DEF decided, landing
      <3> QED
        BY <2>1, <3>1, <3>2 DEF Intended
    <2> QED
      BY <2>2, <2>6
  <1> QED
    BY <1>5, <1>6, <1>7, <1>8 DEF ApplyInv

LEMMA InvNext == ApplyInv /\ [ApplyNext]_applyVars => ApplyInv'
  <1> SUFFICES ASSUME ApplyInv, [ApplyNext]_applyVars PROVE ApplyInv'
    OBVIOUS
  <1>1. CASE \E r \in Runs : ApplyStep(r)
    BY <1>1, PreflightKeeps, MakeRunDirectoryKeeps, StageKeeps, GuardKeeps, MoveAsideKeeps,
       LandKeeps, StepFailsKeeps, UndoKeeps, UndoDoneKeeps, EndKeeps DEF ApplyStep
  <1>2. CASE \E d \in Dests : OperatorWrites(d)
    BY <1>2, OperatorWritesKeeps
  <1>3. CASE UNCHANGED applyVars
    BY <1>3 DEF applyVars, fvars, rvars, budget, ApplyInv, ApplyTypeOK, OneApplies, OldRoutes,
       Fresh, Cursor, Applying, Tracked, Progress, Untouched, MovedAside, Landed, Restored,
       Reported, Intended, Working, Asked
  <1> QED
    BY <1>1, <1>2, <1>3 DEF ApplyNext

-----------------------------------------------------------------------------
(***************************************************************************)
(* The refinement.                                                          *)
(***************************************************************************)
\* While a run applies, what is promised of is what it found; otherwise it is
\* what there is.
LEMMA FilesDuring ==
    ASSUME OneApplies, NEW r \in Runs, Applying(r)
    PROVE  PromisedFiles = [d \in Dests |-> base[r][d]]
  <1>1. (CHOOSE s \in Runs : Applying(s)) = r
    BY DEF OneApplies
  <1> QED
    BY <1>1 DEF PromisedFiles

LEMMA FilesBetween ==
    ASSUME \A r \in Runs : ~Applying(r) PROVE PromisedFiles = [d \in Dests |-> files[d]]
  BY DEF PromisedFiles

\* A run is asked once, when it begins.
LEMMA AskedSame ==
    ASSUME NEW r \in Runs, mode' = mode, pc[r] # "idle", pc'[r] # "idle",
           \A s \in Runs : s # r => pc'[s] = pc[s]
    PROVE  PromisedAsked' = PromisedAsked
  BY DEF PromisedAsked, Asked

\* A step inside a run is not seen by who looks only between runs.
LEMMA InnerStep ==
    ASSUME OneApplies, OneApplies', NEW r \in Runs, Applying(r), Applying(r)', base' = base,
           meddled' = meddled, mode' = mode,
           \A s \in Runs : s # r => pc'[s] = pc[s] /\ action'[s] = action[s]
    PROVE  UNCHANGED Promise!vars
  <1>1. PromisedFiles' = PromisedFiles
    <2>1. PromisedFiles = [d \in Dests |-> base[r][d]]
      BY FilesDuring
    <2>2. (CHOOSE s \in Runs : Applying(s)')  = r
      BY DEF OneApplies
    <2>3. PromisedFiles' = [d \in Dests |-> base'[r][d]]
      BY <2>2 DEF PromisedFiles
    <2> QED
      BY <2>1, <2>3
  <1>2. \A s \in Runs : s # r => Applying(s)' = Applying(s)
    BY DEF Applying
  <1>3. PromisedStatus' = PromisedStatus
    BY <1>2 DEF PromisedStatus, Applying
  <1>4. PromisedUnrestored' = PromisedUnrestored
    BY DEF PromisedUnrestored, Applying
  <1>5. PromisedAsked' = PromisedAsked
    BY AskedSame DEF Applying
  <1> QED
    BY <1>1, <1>3, <1>4, <1>5 DEF Promise!vars

\* Between two runs nobody is running; during one, somebody is.
LEMMA PromisedIdle ==
    ASSUME ApplyTypeOK
    PROVE  /\ Promise!Idle <=> \A r \in Runs : ~Applying(r)
           /\ \A r \in Runs : PromisedStatus[r] = "running" <=> Applying(r)
  BY DEF Promise!Idle, PromisedStatus, Applying, ApplyTypeOK

\* A step that takes the pc of one run somewhere else.
LEMMA StatusStep ==
    ASSUME NEW r \in Runs, NEW w, \A s \in Runs : s # r => pc'[s] = pc[s],
           PromisedStatus'[r] = w
    PROVE  PromisedStatus' = [PromisedStatus EXCEPT ![r] = w]
  <1>1. \A s \in Runs : s # r => PromisedStatus'[s] = PromisedStatus[s]
    BY DEF PromisedStatus, Applying
  <1>2. /\ PromisedStatus = [s \in Runs |-> PromisedStatus[s]]
        /\ PromisedStatus' = [s \in Runs |-> PromisedStatus'[s]]
    BY DEF PromisedStatus
  <1> QED
    BY <1>1, <1>2

\* build() and the preflight: a run begins, or declines and changes nothing.
LEMMA PreflightRefines ==
    ASSUME ApplyInv, ApplyInv', NEW r \in Runs, NEW m \in Modes, ApplyPreflight(r, m)
    PROVE  Promise!Begin(r) \/ Promise!Decline(r)
  <1> DEFINE decided == [d \in Dests |-> Preflighted(m, d)]
  <1>1. /\ pc[r] = "idle" /\ \A s \in Runs : ~Applying(s)
        /\ action' = [action EXCEPT ![r] = decided] /\ base' = [base EXCEPT ![r] = files]
        /\ mode' = [mode EXCEPT ![r] = m] /\ meddled' = {} /\ files' = files
    BY DEF ApplyPreflight, fvars
  <1>2. ApplyTypeOK /\ OldRoutes /\ OneApplies'
    BY DEF ApplyInv
  <1>3. /\ pc'[r] \in {"blocked", "applied", "mkdtemp"}
        /\ pc'[r] = "blocked" <=> \E d \in Dests : decided[d] = "conflict"
        /\ pc'[r] = "applied" => \A d \in Dests : decided[d] \notin {"create", "adopt", "conflict"}
        /\ \A s \in Runs : s # r => pc'[s] = pc[s] /\ action'[s] = action[s]
        /\ base'[r] = files
    BY <1>1, <1>2 DEF ApplyTypeOK, ApplyPreflight
  <1>4. /\ PromisedFiles = [d \in Dests |-> files[d]] /\ Promise!Idle
        /\ PromisedStatus[r] = "none"
    BY <1>1, <1>2, FilesBetween, PromisedIdle DEF PromisedStatus
  <1>5. PromisedUnrestored' = PromisedUnrestored
    BY <1>1, <1>3 DEF PromisedUnrestored
  <1> DEFINE a == IF m = StageLedger THEN {Ledger} ELSE Dests
  <1>8. a \in {Dests, {Ledger}} /\ a \subseteq Dests
    BY OrderFacts
  <1>9. PromisedAsked' = [PromisedAsked EXCEPT ![r] = a]
    <2>1. mode'[r] = m /\ \A s \in Runs : s # r => mode'[s] = mode[s]
      BY <1>1, <1>2 DEF ApplyTypeOK
    <2>2. PromisedAsked'[r] = a /\ \A s \in Runs : s # r => PromisedAsked'[s] = PromisedAsked[s]
      BY <1>3, <2>1 DEF PromisedAsked, Asked
    <2>3. /\ PromisedAsked = [s \in Runs |-> PromisedAsked[s]]
          /\ PromisedAsked' = [s \in Runs |-> PromisedAsked'[s]]
      BY DEF PromisedAsked
    <2> HIDE DEF a
    <2> QED
      BY <2>2, <2>3
  <1>10. /\ Promise!InTheWay(a) = {d \in a \ {Ledger} : files[d] = "work"}
         /\ \A d \in a : PromisedFiles[d] = files[d]
    BY <1>4, <1>8 DEF Promise!InTheWay
  <1>11. ASSUME pc'[r] # "blocked" PROVE Promise!InTheWay(a) = {}
    <2>1. ASSUME NEW d \in a \ {Ledger}, files[d] = "work" PROVE FALSE
      <3>1. d \in Dests /\ m # StageLedger
        BY <1>8, <2>1
      <3>2. Preflighted(m, d) = "conflict"
        BY <2>1, <3>1 DEF Preflighted
      <3> QED
        BY <1>3, <1>11, <3>1, <3>2
    <2> QED
      BY <1>10, <2>1
  <1>6. CASE pc'[r] = "mkdtemp"
    <2>1. Applying(r)' /\ PromisedStatus'[r] = "running"
      BY <1>6 DEF Applying, PromisedStatus
    <2>2. PromisedStatus' = [PromisedStatus EXCEPT ![r] = "running"]
      BY <1>3, <2>1, StatusStep
    <2>3. (CHOOSE s \in Runs : Applying(s)') = r
      BY <1>2, <2>1 DEF OneApplies
    <2>4. PromisedFiles' = PromisedFiles
      BY <1>3, <1>4, <2>1, <2>3 DEF PromisedFiles
    <2> QED
      BY <1>1, <1>4, <1>5, <1>6, <1>8, <1>9, <1>11, <2>2, <2>4 DEF Promise!Begin
  <1>7. CASE pc'[r] # "mkdtemp"
    <2>1. /\ \A s \in Runs : ~Applying(s)'
          /\ PromisedStatus'[r] = pc'[r] /\ pc'[r] \in {"applied", "blocked"}
      BY <1>1, <1>3, <1>7 DEF Applying, PromisedStatus
    <2>2. PromisedStatus' = [PromisedStatus EXCEPT ![r] = pc'[r]]
      BY <1>3, <2>1, StatusStep
    <2>3. PromisedFiles' = PromisedFiles
      BY <1>1, <1>4, <2>1 DEF PromisedFiles
    <2>4. ASSUME pc'[r] = "blocked" PROVE Promise!InTheWay(a) # {}
      <3>1. PICK d \in Dests : Preflighted(m, d) = "conflict"
        BY <1>3, <2>4
      <3>2. /\ files[d] \notin {"absent", "new", "adopted"} /\ ~(d = Dispatch /\ files[d] = "old")
            /\ d # Ledger /\ m # StageLedger
        BY <3>1 DEF Preflighted
      <3>3. files[d] = "work"
        BY <1>2, <3>2 DEF ApplyTypeOK, OldRoutes, Contents
      <3>4. d \in a
        BY <3>2
      <3> QED
        BY <1>10, <3>2, <3>3, <3>4
    <2>5. ASSUME pc'[r] = "applied", NEW d \in a
          PROVE  PromisedFiles[d] = Promise!Migrated(PromisedFiles[d])
      <3>1. d \in Dests /\ (m = StageLedger => d = Ledger)
        BY <1>8, <2>5
      <3>2. Preflighted(m, d) \notin {"create", "adopt", "conflict"}
        BY <1>3, <2>5, <3>1
      <3> QED
        BY <1>2, <1>10, <2>5, <3>1, <3>2, Settled
    <2>6. \A d \in a : pc'[r] = "applied" => PromisedFiles[d] = Promise!Migrated(PromisedFiles[d])
      BY <2>5
    <2> HIDE DEF a
    <2> QED
      BY <1>1, <1>4, <1>5, <1>8, <1>9, <1>11, <2>1, <2>2, <2>3, <2>4, <2>6 DEF Promise!Decline
  <1> QED
    BY <1>6, <1>7

\* Where a run ends, what there is comes to light.
LEMMA EndFacts ==
    ASSUME ApplyInv, ApplyInv', NEW r \in Runs, Applying(r), OnlyRun(r),
           pc'[r] \in {"applied", "failed", "killed"}, files' = files, mode' = mode
    PROVE  /\ PromisedFiles = [d \in Dests |-> base[r][d]]
           /\ PromisedFiles' = [d \in Dests |-> files[d]]
           /\ PromisedFiles' \in [Dests -> Contents]
           /\ PromisedStatus[r] = "running"
           /\ PromisedStatus' = [PromisedStatus EXCEPT ![r] = pc'[r]]
           /\ \A s \in Runs : s # r => PromisedUnrestored'[s] = PromisedUnrestored[s]
           /\ PromisedAsked[r] = Asked(r) /\ PromisedAsked' = PromisedAsked
  <1>1. ApplyTypeOK /\ OneApplies /\ ApplyTypeOK'
    BY DEF ApplyInv
  <1>2. \A s \in Runs : ~Applying(s)'
    BY <1>1 DEF OneApplies, OnlyRun, Applying
  <1>3. PromisedFiles = [d \in Dests |-> base[r][d]]
    BY <1>1, FilesDuring
  <1>4. PromisedFiles' = [d \in Dests |-> files[d]]
    BY <1>2 DEF PromisedFiles
  <1>5. PromisedFiles' \in [Dests -> Contents]
    BY <1>1, <1>4 DEF ApplyTypeOK
  <1>6. PromisedStatus[r] = "running" /\ PromisedStatus'[r] = pc'[r]
    BY <1>2 DEF PromisedStatus, Applying
  <1>7. PromisedStatus' = [PromisedStatus EXCEPT ![r] = pc'[r]]
    BY <1>6, StatusStep DEF OnlyRun
  <1>8. \A s \in Runs : s # r => PromisedUnrestored'[s] = PromisedUnrestored[s]
    BY DEF PromisedUnrestored, OnlyRun
  <1>9. PromisedAsked[r] = Asked(r) /\ PromisedAsked' = PromisedAsked
    BY AskedSame DEF OnlyRun, Applying, PromisedAsked
  <1> QED
    BY <1>3, <1>4, <1>5, <1>6, <1>7, <1>8, <1>9

LEMMA UnreportedSame ==
    ASSUME NEW r \in Runs, pc[r] # "failed", pc'[r] # "failed",
           \A s \in Runs : s # r => PromisedUnrestored'[s] = PromisedUnrestored[s]
    PROVE  PromisedUnrestored' = PromisedUnrestored
  BY DEF PromisedUnrestored

\* The end of apply: all of the destinations have landed.
LEMMA FinishRefines ==
    ASSUME ApplyInv, ApplyInv', NEW r \in Runs, Finish(r) PROVE Promise!Commit(r)
  <1>1. /\ Applying(r) /\ pc[r] = "discard" /\ files' = files /\ meddled' = meddled
        /\ mode' = mode
    BY DEF Finish, Applying
  <1>2. ApplyTypeOK /\ Tracked(r) /\ Intended(r)
    BY <1>1, RunFacts
  <1>3. pc'[r] = "applied" /\ OnlyRun(r)
    BY <1>2 DEF Finish, Discarded, OnlyRun, ApplyTypeOK
  <1>4. /\ PromisedFiles = [d \in Dests |-> base[r][d]]
        /\ PromisedFiles' = [d \in Dests |-> files[d]]
        /\ PromisedFiles' \in [Dests -> Contents]
        /\ PromisedStatus[r] = "running"
        /\ PromisedStatus' = [PromisedStatus EXCEPT ![r] = "applied"]
        /\ PromisedUnrestored' = PromisedUnrestored
        /\ PromisedAsked[r] = Asked(r) /\ PromisedAsked' = PromisedAsked
    BY <1>1, <1>3, EndFacts, UnreportedSame
  <1>5. ASSUME NEW d \in Dests \ meddled
        PROVE  files[d] = IF d \in Asked(r) THEN Promise!Migrated(base[r][d]) ELSE base[r][d]
    <2>1. PICK i \in Positions : Order[i] = d
      BY OrderFacts
    <2>2. IF d \in todo[r] THEN Landed(r, d) ELSE Untouched(r, d)
      BY <1>1, <1>2, <2>1 DEF Tracked, Progress
    <2>3. /\ d \in todo[r] => d \in Asked(r)
          /\ d \in Asked(r) \ todo[r] => base[r][d] = Promise!Migrated(base[r][d])
      BY <1>2 DEF Intended
    <2> QED
      BY <2>2, <2>3 DEF Landed, Untouched
  <1>6. \A d \in Dests \ meddled :
          PromisedFiles'[d] = IF d \in PromisedAsked[r] THEN Promise!Migrated(PromisedFiles[d])
                                                        ELSE PromisedFiles[d]
    BY <1>4, <1>5
  <1> QED
    BY <1>1, <1>4, <1>6 DEF Promise!Commit

\* The end of a rollback: what is not restored is in the report.
LEMMA CleanupRefines ==
    ASSUME ApplyInv, ApplyInv', NEW r \in Runs, Cleanup(r) PROVE Promise!Abort(r)
  <1>1. /\ Applying(r) /\ pc[r] = "cleanup" /\ files' = files /\ meddled' = meddled
        /\ action' = action /\ mode' = mode
    BY DEF Cleanup, Applying
  <1>2. ApplyTypeOK /\ Tracked(r)
    BY <1>1, RunFacts
  <1>3. pc'[r] = "failed" /\ OnlyRun(r)
    BY <1>2 DEF Cleanup, Discarded, OnlyRun, ApplyTypeOK
  <1>4. /\ PromisedFiles = [d \in Dests |-> base[r][d]]
        /\ PromisedFiles' = [d \in Dests |-> files[d]]
        /\ PromisedFiles' \in [Dests -> Contents]
        /\ PromisedStatus[r] = "running"
        /\ PromisedStatus' = [PromisedStatus EXCEPT ![r] = "failed"]
        /\ \A s \in Runs \ {r} : PromisedUnrestored'[s] = PromisedUnrestored[s]
        /\ PromisedAsked' = PromisedAsked
    BY <1>1, <1>3, EndFacts
  <1>5. /\ PromisedUnrestored' \in [Runs -> SUBSET Dests]
        /\ PromisedUnrestored'[r] = {d \in Dests : action[r][d] \in {"written", "lost"}}
    BY <1>1, <1>3 DEF PromisedUnrestored
  <1>6. ASSUME NEW d \in Dests \ (meddled \union PromisedUnrestored'[r])
        PROVE  files[d] = base[r][d]
    <2>1. PICK i \in Positions : Order[i] = d
      BY OrderFacts
    <2>2. IF d \in todo[r] THEN Restored(r, d) ELSE Untouched(r, d)
      BY <1>1, <1>2, <2>1 DEF Tracked, Progress
    <2> QED
      BY <1>5, <2>2 DEF Restored, Reported, Untouched
  <1> QED
    BY <1>1, <1>4, <1>5, <1>6 DEF Promise!Abort

\* Wherever a hard kill hits: as it was, moved aside, or written.
LEMMA KillRefines ==
    ASSUME ApplyInv, ApplyInv', NEW r \in Runs, Kill(r) PROVE Promise!Die(r)
  <1>1. Applying(r) /\ files' = files /\ meddled' = meddled /\ mode' = mode
    BY DEF Kill, fvars
  <1>2. ApplyTypeOK /\ Tracked(r) /\ Cursor(r) /\ Intended(r)
    BY <1>1, RunFacts
  <1>3. pc'[r] = "killed" /\ OnlyRun(r) /\ pc[r] # "failed"
    BY <1>1, <1>2 DEF Kill, OnlyRun, ApplyTypeOK, fvars, Applying
  <1>4. /\ PromisedFiles = [d \in Dests |-> base[r][d]]
        /\ PromisedFiles' = [d \in Dests |-> files[d]]
        /\ PromisedFiles' \in [Dests -> Contents]
        /\ PromisedStatus[r] = "running"
        /\ PromisedStatus' = [PromisedStatus EXCEPT ![r] = "killed"]
        /\ PromisedUnrestored' = PromisedUnrestored
        /\ PromisedAsked[r] = Asked(r) /\ PromisedAsked' = PromisedAsked
    BY <1>1, <1>3, EndFacts, UnreportedSame
  <1>5. ASSUME NEW d \in Dests \ meddled
        PROVE  \/ files[d] = base[r][d]
               \/ /\ d \in Asked(r) /\ base[r][d] \in {"absent", "old"}
                  /\ files[d] \in {"absent", Promise!Migrated(base[r][d])}
    <2>1. PICK i \in Positions : Order[i] = d
      BY OrderFacts
    <2>2. pc[r] \in Working \union {"undo", "cleanup", "discard"}
      BY <1>1, <1>2 DEF ApplyTypeOK, Applying, Working
    <2>3. i \in Nat /\ at[r] \in Nat
      BY <1>2, OrderFacts DEF ApplyTypeOK, Positions
    <2>4. \/ Untouched(r, d)
          \/ d \in todo[r] /\ (MovedAside(r, d) \/ Landed(r, d) \/ Restored(r, d))
      BY <1>2, <2>1, <2>2, <2>3 DEF Tracked, Progress, Working
    <2>5. d \in todo[r] => d \in Asked(r) /\ base[r][d] \in {"absent", "old"}
      BY <1>2 DEF Intended
    <2> QED
      BY <2>4, <2>5 DEF Untouched, MovedAside, Landed, Restored, Reported
  <1>6. \A d \in Dests \ meddled :
          \/ PromisedFiles'[d] = PromisedFiles[d]
          \/ /\ d \in PromisedAsked[r] /\ PromisedFiles[d] \in {"absent", "old"}
             /\ PromisedFiles'[d] \in {"absent", Promise!Migrated(PromisedFiles[d])}
    BY <1>4, <1>5
  <1> QED
    BY <1>1, <1>4, <1>6 DEF Promise!Die

\* The operator's own writes.
LEMMA OperatorRefines ==
    ASSUME ApplyInv, NEW e \in Dests, OperatorWrites(e) PROVE Promise!OperatorWrites(e)
  <1>1. ApplyTypeOK /\ OneApplies
    BY DEF ApplyInv
  <1>2. pc' = pc /\ action' = action /\ base' = base /\ mode' = mode
    BY DEF OperatorWrites
  <1>3. /\ PromisedStatus' = PromisedStatus /\ PromisedUnrestored' = PromisedUnrestored
        /\ PromisedAsked' = PromisedAsked
    BY <1>2 DEF PromisedStatus, PromisedUnrestored, PromisedAsked, Asked, Applying
  <1>4. CASE \A r \in Runs : ~Applying(r)
    <2>1. PICK c \in Contents : files' = [files EXCEPT ![e] = c]
      BY DEF OperatorWrites, Contents
    <2>2. \A r \in Runs : ~Applying(r)'
      BY <1>2, <1>4 DEF Applying
    <2>3. /\ PromisedFiles = [d \in Dests |-> files[d]]
          /\ PromisedFiles' = [d \in Dests |-> files'[d]]
      BY <1>4, <2>2, FilesBetween DEF PromisedFiles
    <2>4. PromisedFiles' = [PromisedFiles EXCEPT ![e] = c]
      BY <1>1, <2>1, <2>3 DEF ApplyTypeOK
    <2>5. Promise!Idle /\ meddled' = meddled
      BY <1>1, <1>4, PromisedIdle DEF OperatorWrites
    <2> QED
      BY <1>3, <2>4, <2>5 DEF Promise!OperatorWrites
  <1>5. CASE \E r \in Runs : Applying(r)
    <2>1. ~Promise!Idle /\ meddled' = meddled \union {e}
      BY <1>1, <1>5, PromisedIdle DEF OperatorWrites
    <2>2. PICK r \in Runs : Applying(r) /\ Applying(r)'
      BY <1>2, <1>5 DEF Applying
    <2>3. (CHOOSE s \in Runs : Applying(s)) = r /\ (CHOOSE s \in Runs : Applying(s)') = r
      BY <1>1, <1>2, <2>2 DEF OneApplies, Applying
    <2>4. PromisedFiles' = PromisedFiles
      BY <1>2, <2>2, <2>3 DEF PromisedFiles
    <2> QED
      BY <1>3, <2>1, <2>4 DEF Promise!OperatorWrites
  <1> QED
    BY <1>4, <1>5

LEMMA InitRefines == ApplyInit => Promise!Init
  <1> SUFFICES ASSUME ApplyInit PROVE Promise!Init
    OBVIOUS
  <1>1. \A r \in Runs : pc[r] = "idle" /\ ~Applying(r)
    BY DEF ApplyInit, Applying
  <1>2. PromisedFiles \in [Dests -> Contents]
    <2>1. PromisedFiles = [d \in Dests |-> files[d]] /\ files \in [Dests -> Contents]
      BY <1>1, FilesBetween, MigrationAssumption DEF ApplyInit
    <2> QED
      BY <2>1
  <1>3. /\ PromisedStatus = [r \in Runs |-> "none"]
        /\ PromisedUnrestored = [r \in Runs |-> {}]
        /\ PromisedAsked = [r \in Runs |-> {}]
    BY <1>1 DEF PromisedStatus, PromisedUnrestored, PromisedAsked
  <1> QED
    BY <1>2, <1>3 DEF Promise!Init, ApplyInit

\* The steps of a run that neither begin nor end it.
Inside(r) ==
    \/ MakeRunDirectory(r) \/ Stage(r) \/ Guard(r) \/ MoveAside(r) \/ Land(r)
    \/ StepFails(r) \/ (\E ok \in BOOLEAN : Undo(r, ok)) \/ UndoDone(r)

LEMMA InsideFacts ==
    ASSUME ApplyInv, NEW r \in Runs, Inside(r)
    PROVE  /\ Applying(r) /\ Applying(r)' /\ base' = base /\ meddled' = meddled /\ mode' = mode
           /\ \A s \in Runs : s # r => pc'[s] = pc[s] /\ action'[s] = action[s]
  <1> USE DEF Inside, MakeRunDirectory, Stage, Guard, MoveAside, Land, StepFails, Undo, UndoDone
  <1>1. Applying(r) /\ base' = base /\ meddled' = meddled /\ mode' = mode
    BY DEF Applying
  <1>2. /\ pc'[r] \in {"stage", "guard", "undo", "aside", "land", "discard", "cleanup"}
        /\ \A s \in Runs : s # r => pc'[s] = pc[s]
    BY DEF ApplyInv, ApplyTypeOK
  <1>3. \A s \in Runs : s # r => action'[s] = action[s]
    BY DEF ApplyInv, ApplyTypeOK
  <1> QED
    BY <1>1, <1>2, <1>3 DEF Applying

LEMMA NextRefines ==
    ApplyInv /\ ApplyInv' /\ [ApplyNext]_applyVars => [Promise!Next]_(Promise!vars)
  <1> SUFFICES ASSUME ApplyInv, ApplyInv', [ApplyNext]_applyVars
               PROVE  Promise!Next \/ UNCHANGED Promise!vars
    OBVIOUS
  <1>1. ApplyTypeOK /\ OneApplies /\ OneApplies'
    BY DEF ApplyInv
  <1>2. CASE \E r \in Runs : \E m \in Modes : ApplyPreflight(r, m)
    BY <1>2, PreflightRefines DEF Promise!Next
  <1>3. CASE \E r \in Runs : Inside(r)
    BY <1>1, <1>3, InsideFacts, InnerStep
  <1>4. CASE \E r \in Runs : Finish(r) \/ Cleanup(r) \/ Kill(r)
    BY <1>4, FinishRefines, CleanupRefines, KillRefines DEF Promise!Next
  <1>5. CASE \E d \in Dests : OperatorWrites(d)
    BY <1>5, OperatorRefines DEF Promise!Next
  <1>6. CASE UNCHANGED applyVars
    BY <1>6 DEF applyVars, fvars, rvars, Promise!vars, PromisedFiles, PromisedStatus,
       PromisedUnrestored, PromisedAsked, Asked, Applying
  <1> QED
    BY <1>2, <1>3, <1>4, <1>5, <1>6 DEF ApplyNext, ApplyStep, Inside

\* Whatever fails and whenever it is killed, an apply keeps what the tool
\* promises: a run that reports success left every destination it was asked for
\* with what the migration makes of it and touched no other; a failed one
\* changed none but those its report names; a killed one leaves each as it was,
\* moved aside or written.  (Migration.apply,
\* _rollback, _discard_staging)
THEOREM ApplyKeepsPromise == ApplySpec => KeepsPromise
  <1>1. ApplyInit => ApplyInv
    BY InvInit
  <1>2. ApplyInv /\ [ApplyNext]_applyVars => ApplyInv'
    BY InvNext
  <1>3. ApplyInit => Promise!Init
    BY InitRefines
  <1>4. ApplyInv /\ ApplyInv' /\ [ApplyNext]_applyVars => [Promise!Next]_(Promise!vars)
    BY NextRefines
  <1> QED
    BY <1>1, <1>2, <1>3, <1>4, PTL DEF ApplySpec, KeepsPromise, Promise!Spec

-----------------------------------------------------------------------------
(***************************************************************************)
(* The operator's originals.                                                *)
(***************************************************************************)
\* Bytes b of destination d are safe between runs: they are there, or in the
\* tree of a run that is over, or a run that succeeded adopted them.
Safe(d, b) ==
    \/ PromisedFiles[d] = b
    \/ \E s \in trees : ~Applying(s) /\ saved[s][d] = b
    \/ PromisedFiles[d] = "adopted" /\ \E s \in Runs : pc[s] = "applied"

\* The same at any moment: the tree may be that of the run under way.
Kept(d, b) ==
    \/ files[d] = b
    \/ \E s \in trees : saved[s][d] = b
    \/ files[d] = "adopted" /\ \E s \in Runs : pc[s] = "applied"

\* What a run moved aside is in a tree of its own.
InTree ==
    /\ \A r \in Runs, d \in Dests : saved[r][d] # "absent" => r \in trees
    /\ \A r \in Runs : pc[r] \in {"stage", "guard", "aside", "land", "discard"} => r \in trees

AllSafe ==
    writes = 0 =>
        /\ meddled = {}
        /\ \A r \in Runs, d \in Dests :
             pc[r] \notin {"idle", "applied", "blocked"} /\ base[r][d] \in {"old", "work"}
             => Safe(d, base[r][d])

SafeInv == ApplyInv /\ InTree /\ AllSafe

\* What a run under way did to a destination.
LEMMA Whereabouts ==
    ASSUME ApplyInv, meddled = {}, NEW r \in Runs, Applying(r), NEW d \in Dests
    PROVE  /\ d \in todo[r] => base[r][d] \in {"absent", "old"}
           /\ d \notin todo[r] => Untouched(r, d)
           /\ Untouched(r, d) \/ MovedAside(r, d) \/ Landed(r, d) \/ Restored(r, d)
           /\ pc[r] = "discard" /\ d \in todo[r] => Landed(r, d)
           /\ pc[r] = "cleanup" => Restored(r, d)
  <1>1. PICK i \in Positions : Order[i] = d
    BY OrderFacts
  <1>2. ApplyTypeOK /\ Tracked(r) /\ Intended(r)
    BY RunFacts
  <1>3. pc[r] \in Working \union {"undo", "cleanup", "discard"}
    BY <1>2 DEF ApplyTypeOK, Applying, Working
  <1>4. i \in Nat /\ at[r] \in Nat
    BY <1>2, OrderFacts DEF ApplyTypeOK, Positions
  <1>5. IF d \in todo[r] THEN Progress(r, i) ELSE Untouched(r, d)
    BY <1>1, <1>2 DEF Tracked
  <1>6. d \in todo[r] => Untouched(r, d) \/ MovedAside(r, d) \/ Landed(r, d) \/ Restored(r, d)
    BY <1>1, <1>3, <1>4, <1>5 DEF Progress, Working
  <1>7. /\ pc[r] = "discard" /\ d \in todo[r] => Landed(r, d)
        /\ pc[r] = "cleanup" => Restored(r, d)
    BY <1>1, <1>5 DEF Progress, Restored, Untouched
  <1>8. d \in todo[r] => base[r][d] \in {"absent", "old"}
    BY <1>2 DEF Intended
  <1> QED
    BY <1>5, <1>6, <1>7, <1>8

\* Between runs or during one, what is safe is kept.
LEMMA SafeIsKept ==
    ASSUME ApplyInv, InTree, meddled = {}, NEW d \in Dests, NEW b \in {"old", "work"}, Safe(d, b)
    PROVE  Kept(d, b)
  <1>1. CASE \A r \in Runs : ~Applying(r)
    BY <1>1, FilesBetween DEF Safe, Kept
  <1>2. ASSUME NEW r \in Runs, Applying(r) PROVE Kept(d, b)
    <2>1. PromisedFiles[d] = base[r][d]
      BY <1>2, FilesDuring DEF ApplyInv
    <2>2. CASE base[r][d] = b
      <3>1. files[d] = b \/ saved[r][d] = b
        BY <1>2, <2>2, Whereabouts DEF Untouched, MovedAside, Landed, Restored, Reported
      <3> QED
        BY <3>1 DEF InTree, Kept
    <2>3. CASE base[r][d] = "adopted"
      BY <1>2, <2>1, <2>3, Whereabouts DEF Safe, Kept, Untouched
    <2>4. CASE base[r][d] \notin {b, "adopted"}
      BY <2>1, <2>4 DEF Safe, Kept
    <2> QED
      BY <2>2, <2>3, <2>4
  <1> QED
    BY <1>1, <1>2

\* The tree of a run that is not under way stays, and a run that succeeded
\* stays so.
LEMMA InnerSafe ==
    ASSUME ApplyInv, NEW r \in Runs, Inside(r), ApplyInv', NEW d \in Dests, NEW b, Safe(d, b)
    PROVE  Safe(d, b)'
  <1>1. /\ Applying(r) /\ Applying(r)' /\ base' = base /\ meddled' = meddled /\ mode' = mode
        /\ \A s \in Runs : s # r => pc'[s] = pc[s] /\ action'[s] = action[s]
    BY InsideFacts
  <1>2. PromisedFiles' = PromisedFiles
    BY <1>1, InnerStep DEF ApplyInv, Promise!vars
  <1>3. trees \subseteq trees' /\ trees \subseteq Runs
    BY DEF Inside, MakeRunDirectory, Stage, Guard, MoveAside, Land, StepFails, Undo, UndoDone,
       fvars, ApplyInv, ApplyTypeOK
  <1>4. \A s \in Runs : s # r => saved'[s] = saved[s]
    BY DEF Inside, MakeRunDirectory, Stage, Guard, MoveAside, Land, StepFails, Undo, UndoDone,
       fvars, ApplyInv, ApplyTypeOK
  <1>5. \A s \in Runs : ~Applying(s) => s # r /\ ~Applying(s)'
    BY <1>1 DEF Applying
  <1>6. \A s \in Runs : pc[s] = "applied" => pc'[s] = "applied"
    BY <1>1 DEF Applying
  <1> QED
    BY <1>2, <1>3, <1>4, <1>5, <1>6 DEF Safe

LEMMA InsideKeepsSafe ==
    ASSUME SafeInv, ApplyInv', NEW r \in Runs, Inside(r) PROVE SafeInv'
  <1>1. /\ Applying(r) /\ Applying(r)' /\ base' = base /\ meddled' = meddled
        /\ \A s \in Runs : s # r => pc'[s] = pc[s]
    BY InsideFacts DEF SafeInv
  <1>2. InTree'
    <2> USE DEF MakeRunDirectory, Stage, Guard, MoveAside, Land, StepFails, Undo, UndoDone
    <2>1. ApplyTypeOK
      BY DEF SafeInv, ApplyInv
    <2>2. trees \subseteq trees'
      BY DEF Inside, fvars
    <2>3. pc'[r] \in {"stage", "guard", "aside", "land", "discard"} => r \in trees'
      BY <2>1 DEF Inside, fvars, SafeInv, InTree, ApplyTypeOK
    <2>4. \A d \in Dests : saved'[r][d] # "absent" => saved[r][d] # "absent" \/ r \in trees
      BY <2>1 DEF Inside, fvars, SafeInv, InTree, ApplyTypeOK
    <2>5. \A s \in Runs : s # r => saved'[s] = saved[s]
      BY <2>1 DEF Inside, fvars, ApplyTypeOK
    <2> QED
      BY <1>1, <2>2, <2>3, <2>4, <2>5 DEF SafeInv, InTree
  <1>3. writes' = writes
    BY DEF Inside, MakeRunDirectory, Stage, Guard, MoveAside, Land, StepFails, Undo, UndoDone,
       budget
  <1>4. AllSafe'
    <2> SUFFICES ASSUME writes = 0, NEW s \in Runs, NEW d \in Dests,
                        pc'[s] \notin {"idle", "applied", "blocked"}, base[s][d] \in {"old", "work"}
                 PROVE  meddled = {} /\ Safe(d, base[s][d])'
      <3>1. writes = 0 => meddled' = {}
        BY <1>1 DEF SafeInv, AllSafe
      <3> QED
        BY <1>1, <1>3, <3>1 DEF AllSafe
    <2>1. pc[s] \notin {"idle", "applied", "blocked"}
      BY <1>1 DEF Applying
    <2>2. PICK b \in {"old", "work"} : b = base[s][d] /\ b = base'[s][d]
      BY <1>1
    <2>3. Safe(d, b)
      BY <2>1, <2>2 DEF SafeInv, AllSafe
    <2>4. Safe(d, b)'
      BY <2>3, InnerSafe DEF SafeInv
    <2> QED
      BY <2>1, <2>2, <2>4 DEF SafeInv, AllSafe
  <1> QED
    BY <1>2, <1>4 DEF SafeInv

\* A run that begins found what is there.
LEMMA PreflightKeepsSafe ==
    ASSUME SafeInv, ApplyInv', NEW r \in Runs, NEW m \in Modes, ApplyPreflight(r, m)
    PROVE  SafeInv'
  <1>1. /\ pc[r] = "idle" /\ \A s \in Runs : ~Applying(s)
        /\ base' = [base EXCEPT ![r] = files] /\ meddled' = {} /\ writes' = writes
        /\ files' = files /\ trees' = trees /\ saved' = saved
    BY DEF ApplyPreflight, fvars, budget
  <1>2. ApplyTypeOK /\ ApplyInv /\ saved[r] = Nothing /\ InTree
    BY <1>1 DEF SafeInv, ApplyInv, Fresh
  <1>3. /\ pc'[r] \in {"blocked", "applied", "mkdtemp"}
        /\ \A s \in Runs : s # r => pc'[s] = pc[s] /\ base'[s] = base[s]
        /\ base'[r] = files
    BY <1>1, <1>2 DEF ApplyPreflight, ApplyTypeOK
  <1>4. PromisedFiles' = PromisedFiles
    BY <1>2, PreflightRefines DEF Promise!Begin, Promise!Decline
  <1>5. InTree'
    BY <1>1, <1>2, <1>3 DEF InTree
  <1>6. ASSUME NEW d \in Dests, NEW b \in {"old", "work"}, Safe(d, b) PROVE Safe(d, b)'
    <2>1. \A s \in trees : saved[s][d] = b => s # r
      BY <1>2 DEF Nothing
    <2>2. \A s \in Runs : s # r => ~Applying(s)'
      BY <1>1, <1>3 DEF Applying
    <2>3. \A s \in Runs : pc[s] = "applied" => pc'[s] = "applied"
      BY <1>1, <1>3
    <2>4. trees \subseteq Runs
      BY <1>2 DEF ApplyTypeOK
    <2> QED
      BY <1>1, <1>4, <1>6, <2>1, <2>2, <2>3, <2>4 DEF Safe
  <1>7. AllSafe'
    <2> SUFFICES ASSUME writes = 0, NEW s \in Runs, NEW d \in Dests,
                        pc'[s] \notin {"idle", "applied", "blocked"},
                        base'[s][d] \in {"old", "work"}
                 PROVE  Safe(d, base[s][d])'
      BY <1>1 DEF AllSafe
    <2>1. CASE s = r
      <3>1. PromisedFiles'[d] = base'[s][d]
        BY <1>1, <1>3, <1>4, <2>1, FilesBetween
      <3> QED
        BY <3>1 DEF Safe
    <2>2. CASE s # r
      <3>1. PICK b \in {"old", "work"} : b = base[s][d] /\ b = base'[s][d]
        BY <1>3, <2>2
      <3>2. Safe(d, b)
        BY <1>3, <2>2, <3>1 DEF SafeInv, AllSafe
      <3> QED
        BY <1>6, <3>1, <3>2
    <2> QED
      BY <2>1, <2>2
  <1> QED
    BY <1>5, <1>7 DEF SafeInv

\* A run that ends: what it moved aside is back, adopted, or stays in its tree.
LEMMA EndKeepsSafe ==
    ASSUME SafeInv, ApplyInv', NEW r \in Runs, Finish(r) \/ Cleanup(r) \/ Kill(r)
    PROVE  SafeInv'
  <1>1. /\ Applying(r) /\ files' = files /\ base' = base /\ meddled' = meddled
        /\ writes' = writes /\ ApplyInv /\ InTree /\ ApplyTypeOK
        /\ OneApplies
    BY DEF Finish, Cleanup, Kill, Applying, fvars, budget, SafeInv, ApplyInv
  <1>2. /\ pc'[r] \in {"applied", "failed", "killed"} /\ (Finish(r) => pc'[r] = "applied")
        /\ \A s \in Runs : s # r => pc'[s] = pc[s] /\ saved'[s] = saved[s]
        /\ \/ saved' = saved /\ trees' = trees /\ ~Finish(r)
           \/ saved'[r] = Nothing /\ trees' = trees \ {r} /\ Finish(r)
           \/ /\ saved'[r] = Nothing /\ trees' = trees \ {r} /\ Cleanup(r)
              /\ \A d \in Dests : action[r][d] \notin {"written", "lost"}
    <2>1. CASE Finish(r)
      BY <1>1, <2>1 DEF Finish, Discarded, ApplyTypeOK
    <2>2. CASE Cleanup(r)
      BY <1>1, <2>2 DEF Finish, Cleanup, Discarded, ApplyTypeOK
    <2>3. CASE Kill(r)
      <3>1. pc'[r] = "killed" /\ UNCHANGED <<saved, trees>> /\ \A s \in Runs : s # r => pc'[s] = pc[s]
        BY <1>1, <2>3 DEF Kill, fvars, ApplyTypeOK
      <3>2. ~Finish(r)
        BY <1>1, <3>1 DEF Finish, ApplyTypeOK
      <3> QED
        BY <3>1, <3>2
    <2> QED
      BY <2>1, <2>2, <2>3
  <1>3. \A s \in Runs : ~Applying(s)'
    BY <1>1, <1>2 DEF OneApplies, Applying
  <1>4. PromisedFiles' = [d \in Dests |-> files[d]]
    BY <1>1, <1>3 DEF PromisedFiles
  <1>5. InTree'
    BY <1>1, <1>2 DEF InTree, Nothing
  <1>6. ASSUME meddled = {}, NEW d \in Dests, NEW b \in {"old", "work"}, Safe(d, b)
        PROVE  Safe(d, b)'
    <2>1. PromisedFiles[d] = base[r][d]
      BY <1>1, FilesDuring
    <2>2. trees \subseteq Runs /\ \A s \in trees : ~Applying(s) => s \in trees' /\ saved'[s] = saved[s]
      BY <1>1, <1>2 DEF ApplyTypeOK
    <2>3. CASE base[r][d] = b
      <3>1. CASE Finish(r)
        <4>1. pc[r] = "discard"
          BY <3>1 DEF Finish
        <4>2. files[d] = b \/ files[d] = "adopted"
          BY <1>1, <1>6, <2>3, <4>1, Whereabouts DEF Untouched, Landed, Promise!Migrated
        <4> QED
          BY <1>2, <1>4, <3>1, <4>2 DEF Safe
      <3>2. CASE Cleanup(r) /\ \A e \in Dests : action[r][e] \notin {"written", "lost"}
        <4>1. pc[r] = "cleanup"
          BY <3>2 DEF Cleanup
        <4>2. files[d] = b
          BY <1>1, <1>6, <2>3, <3>2, <4>1, Whereabouts DEF Restored, Reported
        <4> QED
          BY <1>4, <4>2 DEF Safe
      <3>3. CASE saved' = saved /\ trees' = trees
        <4>1. files[d] = b \/ saved[r][d] = b
          BY <1>1, <1>6, <2>3, Whereabouts DEF Untouched, MovedAside, Landed, Restored, Reported
        <4> QED
          BY <1>1, <1>3, <1>4, <3>3, <4>1 DEF InTree, Safe
      <3> QED
        BY <1>2, <3>1, <3>2, <3>3
    <2>4. CASE base[r][d] = "adopted"
      <3>1. files[d] = "adopted"
        BY <1>1, <1>6, <2>4, Whereabouts DEF Untouched
      <3>2. \A s \in Runs : pc[s] = "applied" => pc'[s] = "applied"
        BY <1>1, <1>2 DEF Applying
      <3> QED
        BY <1>3, <1>4, <1>6, <2>1, <2>2, <2>4, <3>1, <3>2 DEF Safe
    <2>5. CASE base[r][d] \notin {b, "adopted"}
      BY <1>3, <1>6, <2>1, <2>2, <2>5 DEF Safe
    <2> QED
      BY <2>3, <2>4, <2>5
  <1>7. AllSafe'
    <2> SUFFICES ASSUME writes = 0, NEW s \in Runs, NEW d \in Dests,
                        pc'[s] \notin {"idle", "applied", "blocked"},
                        base[s][d] \in {"old", "work"}
                 PROVE  Safe(d, base[s][d])'
      BY <1>1 DEF AllSafe, SafeInv
    <2>1. pc[s] \notin {"idle", "applied", "blocked"} /\ meddled = {}
      BY <1>1, <1>2 DEF Applying, SafeInv, AllSafe
    <2>2. PICK b \in {"old", "work"} : b = base[s][d] /\ b = base'[s][d]
      BY <1>1
    <2>3. Safe(d, b)
      BY <2>1, <2>2 DEF SafeInv, AllSafe
    <2> QED
      BY <1>6, <2>1, <2>2, <2>3
  <1> QED
    BY <1>5, <1>7 DEF SafeInv

LEMMA SafeInvNext == SafeInv /\ ApplyInv' /\ [ApplyNext]_applyVars => SafeInv'
  <1> SUFFICES ASSUME SafeInv, ApplyInv', [ApplyNext]_applyVars PROVE SafeInv'
    OBVIOUS
  <1>1. CASE \E r \in Runs : ApplyStep(r)
    BY <1>1, PreflightKeepsSafe, InsideKeepsSafe, EndKeepsSafe DEF ApplyStep, Inside
  <1>2. CASE \E d \in Dests : OperatorWrites(d)
    <2>1. writes' = writes + 1 /\ writes \in Nat /\ UNCHANGED <<saved, trees, pc>>
      BY <1>2 DEF OperatorWrites, SafeInv, ApplyInv, ApplyTypeOK
    <2> QED
      BY <2>1 DEF SafeInv, InTree, AllSafe
  <1>3. CASE UNCHANGED applyVars
    BY <1>3 DEF applyVars, fvars, rvars, budget, SafeInv, InTree, AllSafe, Safe, PromisedFiles,
       Applying
  <1> QED
    BY <1>1, <1>2, <1>3 DEF ApplyNext

\* The operator's bytes that an apply moves aside are never destroyed before a
\* run has succeeded: whatever fails, is killed or runs later, they are at their
\* destination, in a tree under the prefix, or adopted.  (Migration.apply,
\* _rollback, _discard_staging)
THEOREM OriginalsAlwaysSurvive == ApplySpec => []OriginalsSurvive
  <1>1. ApplyInit => SafeInv
    <2> SUFFICES ASSUME ApplyInit PROVE SafeInv
      OBVIOUS
    <2>1. ApplyInv
      BY InvInit
    <2> QED
      BY <2>1 DEF ApplyInit, SafeInv, InTree, AllSafe, Nothing
  <1>2. SafeInv /\ [ApplyNext]_applyVars => SafeInv'
    <2>1. SafeInv /\ [ApplyNext]_applyVars => ApplyInv'
      BY InvNext DEF SafeInv
    <2> QED
      BY <2>1, SafeInvNext
  <1>3. SafeInv => OriginalsSurvive
    <2> SUFFICES ASSUME SafeInv, NEW r \in Runs, NEW d \in Dests,
                        pc[r] \notin {"idle", "applied", "blocked"},
                        base[r][d] \in {"old", "work"}, writes = 0
                 PROVE  Kept(d, base[r][d])
      BY DEF OriginalsSurvive, Kept
    <2> QED
      BY SafeIsKept DEF SafeInv, AllSafe
  <1> QED
    BY <1>1, <1>2, <1>3, PTL DEF ApplySpec
=============================================================================

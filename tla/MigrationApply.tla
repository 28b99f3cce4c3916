--------------------------- MODULE MigrationApply ---------------------------
(***************************************************************************)
(* The write half of scripts/fv_migrate.py: preflight, the staged apply of  *)
(* --apply and of --stage-ledger-remediation, its rollback, and what a hard *)
(* kill leaves.  Which bytes a migration intends is MigrationPlan; here     *)
(* every destination has one set of intended bytes, "new".                  *)
(*                                                                         *)
(* A destination holds nothing ("absent"), the intended bytes ("new"), the  *)
(* operator's dispatch route ("old"), that route with the two fields the    *)
(* migration owns rewritten ("adopted"), or other bytes of the operator     *)
(* ("work").                                                                *)
(***************************************************************************)
EXTENDS Naturals, Sequences

CONSTANTS
    Dests,       \* destinations under .fv
    Order,       \* the same, in the order of Migration.writes()
    Dispatch,    \* .fv/dispatch.json, which is adopted
    Ledger,      \* .fv/ledger.md, which is kept
    Runs,        \* invocations of the tool; each builds and applies once
    Modes,       \* what an invocation may be asked for: Apply, StageLedger
    Starts,      \* the contents the destinations may have at first
    MaxFaults,   \* OSErrors of the file system
    MaxKills,    \* hard kills of an invocation
    MaxWrites     \* writes by the operator

Contents == {"absent", "new", "old", "adopted", "work"}
Apply == "apply"
StageLedger == "stage-ledger-remediation"

ASSUME MigrationAssumption ==
    /\ {Dispatch, Ledger} \subseteq Dests /\ Dispatch # Ledger
    /\ Modes \subseteq {Apply, StageLedger} /\ Modes # {}
    /\ Order \in Seq(Dests)
    /\ \A i, j \in 1 .. Len(Order) : Order[i] = Order[j] => i = j
    /\ \A d \in Dests : \E i \in 1 .. Len(Order) : Order[i] = d
    /\ Starts \subseteq [Dests -> Contents]
    /\ \A f \in Starts, d \in Dests : f[d] = "old" => d = Dispatch
    /\ MaxFaults \in Nat /\ MaxKills \in Nat /\ MaxWrites \in Nat

VARIABLES
    files,     \* what every destination holds
    trees,     \* the run directories under .fv/.migrate-staging
    saved,     \* per run, the originals its tree holds
    pc,        \* per run, where it is
    at,        \* per run, the index in Order of the destination it works on
    mode,      \* per run, what it was asked for
    todo,      \* per run, the destinations it has bytes to land at (pending)
    action,    \* per run and destination, the action the report shows
    landed,    \* per run, destinations that hold its bytes
    base,      \* per run, what the destinations held at its preflight
    meddled,   \* destinations somebody else wrote since the last preflight
    faults, kills, writes

fvars == <<files, trees, saved>>
rvars == <<pc, at, mode, todo, action, landed, base, meddled>>
budget == <<faults, kills, writes>>
applyVars == <<fvars, rvars, budget>>

Actions == {"create", "adopt", "identical", "already-staged", "conflict", "failed",
            "pending", "rolled-back", "written", "lost"}
Nothing == [d \in Dests |-> "absent"]

ApplyTypeOK ==
    /\ files \in [Dests -> Contents]
    /\ trees \subseteq Runs
    /\ saved \in [Runs -> [Dests -> Contents]]
    /\ pc \in [Runs -> {"idle", "mkdtemp", "stage", "guard", "aside", "land", "undo",
                        "cleanup", "discard", "applied", "failed", "blocked", "killed"}]
    /\ at \in [Runs -> 0 .. Len(Order) + 1]
    /\ mode \in [Runs -> {Apply, StageLedger}]
    /\ todo \in [Runs -> SUBSET Dests]
    /\ action \in [Runs -> [Dests -> Actions]]
    /\ landed \in [Runs -> SUBSET Dests]
    /\ base \in [Runs -> [Dests -> Contents]]
    /\ meddled \subseteq Dests
    /\ faults \in 0 .. MaxFaults /\ kills \in 0 .. MaxKills /\ writes \in 0 .. MaxWrites

ApplyInit ==
    /\ files \in Starts
    /\ trees = {}
    /\ saved = [r \in Runs |-> Nothing]
    /\ pc = [r \in Runs |-> "idle"]
    /\ at = [r \in Runs |-> 0]
    /\ mode = [r \in Runs |-> Apply]
    /\ todo = [r \in Runs |-> {}]
    /\ action = [r \in Runs |-> [d \in Dests |-> "create"]]
    /\ landed = [r \in Runs |-> {}]
    /\ base = [r \in Runs |-> Nothing]
    /\ meddled = {}
    /\ faults = 0 /\ kills = 0 /\ writes = 0

-----------------------------------------------------------------------------
Applying(r) == pc[r] \notin {"idle", "applied", "failed", "blocked", "killed"}

\* What preflight decides for one destination.  A ledger the project has is
\* the migration's own intended bytes; staging never replaces one.
Preflighted(m, d) ==
    IF m = StageLedger /\ d # Ledger THEN "pending"
    ELSE IF files[d] = "absent" THEN "create"
    ELSE IF files[d] \in {"new", "adopted"} THEN "identical"
    ELSE IF d = Ledger THEN IF m = StageLedger THEN "already-staged"
                                                   ELSE "identical"
    ELSE IF d = Dispatch /\ files[d] = "old" THEN "adopt"
    ELSE "conflict"

\* Where a run is in the list of its pending destinations, and the entry after
\* or before that one.
Current(r) == Order[at[r]]

\* (mutant) A destination that waits for its bytes may be passed over.
IsNextSkipping(r, j) ==
    /\ j \in at[r] + 1 .. Len(Order) + 1
    /\ j <= Len(Order) => Order[j] \in todo[r]

IsNext(r, j) ==
    /\ j \in at[r] + 1 .. Len(Order) + 1
    /\ \A i \in at[r] + 1 .. j - 1 : Order[i] \notin todo[r]
    /\ j <= Len(Order) => Order[j] \in todo[r]
IsPrevious(r, j) ==
    /\ j \in 0 .. at[r] - 1
    /\ \A i \in j + 1 .. at[r] - 1 : Order[i] \notin todo[r]
    /\ j > 0 => Order[j] \in todo[r]

\* build() and _preflight: refuse on a conflict, report success at once when
\* no destination has bytes to land.  One invocation is in flight at a time.
ApplyPreflight(r, m) ==
    LET decided == [d \in Dests |-> Preflighted(m, d)]
        landing == {d \in Dests : decided[d] \in {"create", "adopt"}}
    IN  /\ pc[r] = "idle"
        /\ \A s \in Runs : ~Applying(s)
        /\ mode' = [mode EXCEPT ![r] = m]
        /\ action' = [action EXCEPT ![r] = decided]
        /\ todo' = [todo EXCEPT ![r] = landing]
        /\ base' = [base EXCEPT ![r] = files]
        /\ meddled' = {}
        /\ pc' = [pc EXCEPT ![r] =
                     IF \E d \in Dests : decided[d] = "conflict" THEN "blocked"
                     ELSE IF landing = {} THEN "applied"
                     ELSE "mkdtemp"]
        /\ UNCHANGED <<fvars, at, landed, budget>>

\* _make_run_directory: a directory of this run's own under the prefix.
MakeRunDirectory(r) ==
    /\ pc[r] = "mkdtemp"
    /\ trees' = trees \union {r}
    /\ pc' = [pc EXCEPT ![r] = "stage"]
    /\ UNCHANGED <<files, saved, at, mode, todo, action, landed, base, meddled, budget>>

\* Every byte is written under the run's own tree before any destination.
Stage(r) ==
    /\ pc[r] = "stage"
    /\ pc' = [pc EXCEPT ![r] = "guard"]
    /\ \E j \in 1 .. Len(Order) : IsNext(r, j) /\ at' = [at EXCEPT ![r] = j]
    /\ UNCHANGED <<fvars, action, mode, todo, landed, base, meddled, budget>>

\* _guard_destination, and the refusal of a keep_existing destination that
\* appeared after preflight looked.
Guard(r) ==
    /\ pc[r] = "guard"
    /\ pc' = [pc EXCEPT ![r] = IF mode[r] = StageLedger /\ files[Current(r)] # "absent"
                               THEN "undo" ELSE "aside"]
    /\ IF pc'[r] = "undo" THEN \E j \in 0 .. Len(Order) : IsPrevious(r, j) /\ at' = [at EXCEPT ![r] = j]
                           ELSE at' = at
    /\ action' = IF pc'[r] = "undo" THEN [action EXCEPT ![r][Current(r)] = "failed"] ELSE action
    /\ UNCHANGED <<fvars, mode, todo, landed, base, meddled, budget>>

\* The existing inode is renamed into the run's tree.
MoveAside(r) ==
    /\ pc[r] = "aside"
    /\ saved' = [saved EXCEPT ![r][Current(r)] = files[Current(r)]]
    /\ files' = [files EXCEPT ![Current(r)] = "absent"]
    /\ pc' = [pc EXCEPT ![r] = "land"]
    /\ UNCHANGED <<trees, at, action, mode, todo, landed, base, meddled, budget>>

\* os.replace of the staged bytes; it replaces whatever is there by now.
Land(r) ==
    /\ pc[r] = "land"
    /\ files' = [files EXCEPT ![Current(r)] =
                     IF action[r][Current(r)] = "adopt" THEN "adopted" ELSE "new"]
    /\ landed' = [landed EXCEPT ![r] = @ \union {Current(r)}]
    /\ \E j \in 1 .. Len(Order) + 1 :
         /\ IsNext(r, j)
         /\ at' = [at EXCEPT ![r] = j]
         /\ pc' = [pc EXCEPT ![r] = IF j > Len(Order) THEN "discard" ELSE "guard"]
    /\ UNCHANGED <<trees, saved, mode, todo, action, base, meddled, budget>>

\* An OSError or a MigrationError while staging or moving: the current write
\* is the failed one and what was touched is put back, last first.
StepFails(r) ==
    /\ pc[r] \in {"mkdtemp", "stage", "guard", "aside", "land"}
    /\ faults < MaxFaults
    /\ faults' = faults + 1
    /\ pc' = [pc EXCEPT ![r] = "undo"]
    /\ IF pc[r] = "guard" THEN \E j \in 0 .. Len(Order) : IsPrevious(r, j) /\ at' = [at EXCEPT ![r] = j]
                           ELSE at' = at
    /\ \E culprit \in CASE pc[r] = "mkdtemp" -> {{}}
                        [] pc[r] = "stage" -> {{d} : d \in todo[r]}
                        [] OTHER           -> {{Current(r)}} :
         action' = [action EXCEPT ![r] =
                       [d \in Dests |-> IF d \in culprit THEN "failed" ELSE @[d]]]
    /\ UNCHANGED <<fvars, landed, base, meddled, mode, todo, kills, writes>>

\* _rollback of one touched destination: the original is renamed back, or the
\* new bytes are unlinked.  Where that fails the new bytes stay ("written") or
\* the destination stays empty ("lost").
Undo(r, ok) ==
    LET d    == Current(r)
        held == saved[r][d] # "absent"
        gone == ~held /\ files[d] = "absent"
        undoes == held \/ d \in landed[r]
    IN  /\ pc[r] = "undo" /\ at[r] > 0
        /\ IF undoes THEN ok => ~gone ELSE ok
        /\ ok \/ gone \/ faults < MaxFaults
        /\ faults' = IF ok \/ gone THEN faults ELSE faults + 1
        /\ \E j \in 0 .. Len(Order) : IsPrevious(r, j) /\ at' = [at EXCEPT ![r] = j]
        /\ IF ok
           THEN /\ files' = IF undoes THEN [files EXCEPT ![d] = saved[r][d]] ELSE files
                /\ saved' = [saved EXCEPT ![r][d] = "absent"]
                /\ action' = IF d \in landed[r]
                             THEN [action EXCEPT ![r][d] = "rolled-back"] ELSE action
           ELSE /\ action' = [action EXCEPT ![r][d] =
                                 IF d \in landed[r] THEN "written" ELSE "lost"]
                /\ UNCHANGED <<files, saved>>
        /\ UNCHANGED <<trees, pc, landed, base, meddled, mode, todo, kills, writes>>

UndoDone(r) ==
    /\ pc[r] = "undo" /\ at[r] = 0
    /\ pc' = [pc EXCEPT ![r] = "cleanup"]
    /\ action' = [action EXCEPT ![r] =
                     [d \in Dests |-> IF @[d] \in {"create", "adopt"} THEN "pending" ELSE @[d]]]
    /\ UNCHANGED <<fvars, at, mode, todo, landed, base, meddled, budget>>

\* _discard_staging
Discarded(r) ==
    /\ trees' = trees \ {r}
    /\ saved' = [saved EXCEPT ![r] = Nothing]

\* (mutant) The tree is dropped however the rollback went.
CleanupAlways(r) ==
    /\ pc[r] = "cleanup"
    /\ Discarded(r)
    /\ pc' = [pc EXCEPT ![r] = "failed"]
    /\ UNCHANGED <<files, at, action, mode, todo, landed, base, meddled, budget>>

\* The tree is dropped only if the rollback finished: it holds the originals.
Cleanup(r) ==
    /\ pc[r] = "cleanup"
    /\ IF \E d \in Dests : action[r][d] \in {"written", "lost"}
       THEN UNCHANGED <<trees, saved>> ELSE Discarded(r)
    /\ pc' = [pc EXCEPT ![r] = "failed"]
    /\ UNCHANGED <<files, at, action, mode, todo, landed, base, meddled, budget>>

Finish(r) ==
    /\ pc[r] = "discard"
    /\ Discarded(r)
    /\ action' = [action EXCEPT ![r] =
                     [d \in Dests |-> IF d \in landed[r] THEN "written" ELSE @[d]]]
    /\ pc' = [pc EXCEPT ![r] = "applied"]
    /\ UNCHANGED <<files, at, mode, todo, landed, base, meddled, budget>>

\* A hard kill: only what is on disk stays.
Kill(r) ==
    /\ Applying(r) /\ kills < MaxKills
    /\ kills' = kills + 1
    /\ pc' = [pc EXCEPT ![r] = "killed"]
    /\ UNCHANGED <<fvars, at, mode, todo, action, landed, base, meddled, faults, writes>>

\* The operator writes or edits a destination.
OperatorWrites(d) ==
    /\ writes < MaxWrites
    /\ writes' = writes + 1
    /\ \E c \in IF d = Dispatch THEN {"old", "work"} ELSE {"work"} :
         files' = [files EXCEPT ![d] = c]
    /\ meddled' = IF \E r \in Runs : Applying(r) THEN meddled \union {d} ELSE meddled
    /\ UNCHANGED <<trees, saved, pc, at, mode, todo, action, landed, base, faults, kills>>

ApplyStep(r) ==
    \/ \E m \in Modes : ApplyPreflight(r, m)
    \/ MakeRunDirectory(r)
    \/ Stage(r)
    \/ Guard(r)
    \/ MoveAside(r)
    \/ Land(r)
    \/ StepFails(r)
    \/ \E ok \in BOOLEAN : Undo(r, ok)
    \/ UndoDone(r)
    \/ Cleanup(r)
    \/ Finish(r)
    \/ Kill(r)

ApplyNext ==
    \/ \E r \in Runs : ApplyStep(r)
    \/ \E d \in Dests : OperatorWrites(d)

ApplySpec == ApplyInit /\ [][ApplyNext]_applyVars

-----------------------------------------------------------------------------
(***************************************************************************)
(* Properties.                                                              *)
(***************************************************************************)
\* What somebody sees who looks between invocations: the destinations as the
\* last run to end left them, how each run ended, and what its report names.
PromisedFiles ==
    [d \in Dests |-> IF \E r \in Runs : Applying(r)
                     THEN base[CHOOSE r \in Runs : Applying(r)][d] ELSE files[d]]
PromisedStatus ==
    [r \in Runs |-> CASE pc[r] = "idle" -> "none"
                      [] Applying(r)    -> "running"
                      [] OTHER          -> pc[r]]
Asked(r) == IF mode[r] = StageLedger THEN {Ledger} ELSE Dests
PromisedAsked == [r \in Runs |-> IF pc[r] = "idle" THEN {} ELSE Asked(r)]
PromisedUnrestored ==
    [r \in Runs |-> IF pc[r] = "failed"
                    THEN {d \in Dests : action[r][d] \in {"written", "lost"}} ELSE {}]

\* Between two invocations the project is what the promise says: all of the
\* destinations it was asked for hold what the migration makes of them and the
\* run reports success, or none has changed but those the report names;
\* whatever fails, and wherever a rollback fails in turn.  (apply, _rollback)
Promise == INSTANCE MigrationPromise WITH
    files <- PromisedFiles, status <- PromisedStatus, asked <- PromisedAsked,
    unrestored <- PromisedUnrestored, Requests <- {Dests, {Ledger}}, Keeps <- {Ledger}
KeepsPromise == Promise!Spec

\* The operator's bytes that a run moves aside are never destroyed before the
\* run has succeeded: they are at their destination or in a tree under the
\* prefix that nothing collects, after a kill and a later run as well.
OriginalsSurvive ==
    \A r \in Runs, d \in Dests :
        /\ pc[r] \notin {"idle", "applied", "blocked"}
        /\ base[r][d] \in {"old", "work"} /\ writes = 0
        => \/ files[d] = base[r][d]
           \/ \E s \in trees : saved[s][d] = base[r][d]
           \/ \E s \in Runs : pc[s] = "applied" /\ files[d] = "adopted"
=============================================================================

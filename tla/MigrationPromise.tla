-------------------------- MODULE MigrationPromise --------------------------
(***************************************************************************)
(* What scripts/fv_migrate.py promises of --apply and of the staging of a   *)
(* ledger to somebody who looks at the project only between invocations:    *)
(* every destination it was asked for is written or none is, what could not *)
(* be put back is named, a destination it was not asked for stays as it is, *)
(* and a killed invocation leaves each as it was, written, or moved aside.  *)
(***************************************************************************)
CONSTANTS
    Dests, Runs, Contents,
    Requests,    \* the sets of destinations an invocation may be asked for
    Keeps        \* the destinations whose bytes the operator keeps

VARIABLES
    files,      \* the destinations, as they stood when the last run ended
    status,     \* per run: "none", "running" or how it ended
    asked,      \* per run, the destinations it was asked for
    unrestored, \* per run, what its report says it could not put back
    meddled     \* destinations the operator wrote while a run was under way

vars == <<files, status, asked, unrestored, meddled>>

Idle == \A r \in Runs : status[r] # "running"

\* What a migration makes of a destination: bytes where there were none, the
\* operator's old route with the fields of the migration, the rest as it is.
Migrated(c) == IF c = "absent" THEN "new" ELSE IF c = "old" THEN "adopted" ELSE c

\* Bytes of the operator that an invocation asked for d refuses to replace.
InTheWay(a) == {d \in a \ Keeps : files[d] = "work"}

Init ==
    /\ files \in [Dests -> Contents]
    /\ status = [r \in Runs |-> "none"]
    /\ asked = [r \in Runs |-> {}]
    /\ unrestored = [r \in Runs |-> {}]
    /\ meddled = {}

Begin(r) ==
    /\ Idle /\ status[r] = "none"
    /\ \E a \in Requests :
         /\ InTheWay(a) = {}
         /\ asked' = [asked EXCEPT ![r] = a]
    /\ status' = [status EXCEPT ![r] = "running"]
    /\ meddled' = {}
    /\ UNCHANGED <<files, unrestored>>

\* All of them, and no other: every destination the run was asked for holds
\* what the migration makes of it.
Commit(r) ==
    /\ status[r] = "running"
    /\ status' = [status EXCEPT ![r] = "applied"]
    /\ files' \in [Dests -> Contents]
    /\ \A d \in Dests \ meddled :
         files'[d] = IF d \in asked[r] THEN Migrated(files[d]) ELSE files[d]
    /\ UNCHANGED <<asked, unrestored, meddled>>

\* None of them, but for those the report names.
Abort(r) ==
    /\ status[r] = "running"
    /\ status' = [status EXCEPT ![r] = "failed"]
    /\ files' \in [Dests -> Contents]
    /\ unrestored' \in [Runs -> SUBSET Dests]
    /\ \A s \in Runs \ {r} : unrestored'[s] = unrestored[s]
    /\ \A d \in Dests \ (meddled \union unrestored'[r]) : files'[d] = files[d]
    /\ UNCHANGED <<asked, meddled>>

\* A run with nothing to write, or one that is refused, changes nothing.  It
\* succeeds only if everything it was asked for is there already, and only
\* bytes of the operator refuse it, never what an earlier run left behind.
Decline(r) ==
    /\ Idle /\ status[r] = "none"
    /\ \E a \in Requests, end \in {"applied", "blocked"} :
         /\ end = "applied" => InTheWay(a) = {} /\ \A d \in a : files[d] = Migrated(files[d])
         /\ end = "blocked" => InTheWay(a) # {}
         /\ asked' = [asked EXCEPT ![r] = a]
         /\ status' = [status EXCEPT ![r] = end]
    /\ meddled' = {}
    /\ UNCHANGED <<files, unrestored>>

Die(r) ==
    /\ status[r] = "running"
    /\ status' = [status EXCEPT ![r] = "killed"]
    /\ files' \in [Dests -> Contents]
    /\ \A d \in Dests \ meddled :
         \/ files'[d] = files[d]
         \/ /\ d \in asked[r] /\ files[d] \in {"absent", "old"}
            /\ files'[d] \in {"absent", Migrated(files[d])}
    /\ UNCHANGED <<asked, unrestored, meddled>>

OperatorWrites(d) ==
    /\ IF Idle
       THEN /\ \E c \in Contents : files' = [files EXCEPT ![d] = c]
            /\ UNCHANGED meddled
       ELSE meddled' = meddled \union {d} /\ UNCHANGED files
    /\ UNCHANGED <<status, asked, unrestored>>

Next ==
    \/ \E r \in Runs : Begin(r) \/ Commit(r) \/ Abort(r) \/ Decline(r) \/ Die(r)
    \/ \E d \in Dests : OperatorWrites(d)

Spec == Init /\ [][Next]_vars
=============================================================================

-------------------------- MODULE ProjectScaffold ---------------------------
(***************************************************************************)
(* scripts/fv_init.py: the scaffold of a project, run again over whatever   *)
(* an earlier run left, and the verified-input policy of fv_project.py that *)
(* says which files evidence is bound to.  A helper script is replaced by a *)
(* rename; every other file is truncated and written, so a killed run may   *)
(* leave one empty.                                                         *)
(***************************************************************************)
EXTENDS Naturals, Sequences

CONSTANTS
    ScriptNames,  \* PROJECT_SCRIPT_NAMES, a sequence
    Candidates,   \* what git lists and no structural exclusion covers
    PolicyFile,   \* .fv/verified-inputs.txt, one of the candidates
    Projects,     \* the projects fv_init may be run on
    Targets,      \* what --target-spec may name; "none" when it is not given
    MaxInits      \* invocations of fv_init

\* What a reader of each file can make of it; a file that is not there says nothing.
ASSUME ProjectsAssumption ==
    /\ ScriptNames \in Seq({ScriptNames[i] : i \in DOMAIN ScriptNames}) /\ ScriptNames # <<>>
    /\ MaxInits \in Nat
    /\ \A p \in Projects :
         /\ DOMAIN p = {"scripts", "dispatch", "policy", "config", "marker"}
         /\ DOMAIN p.scripts = {ScriptNames[i] : i \in DOMAIN ScriptNames}
         /\ p.dispatch.kind = "absent" => p.dispatch.target = "none"
         /\ DOMAIN p.policy = {"kind", "own", "defaults"}
         /\ p.policy.kind \in {"absent", "malformed", "include", "exclude"}
         /\ p.policy.kind = "absent" => p.policy.own = {}
         /\ p.config \in [kind : {"absent", "malformed", "mapping"}, extension : {"missing", "listed", "odd"},
                          isolation : {"unset", "on", "odd"}, panel : {"unset", "valid", "invalid"}]

VARIABLES
    project,    \* [scripts, dispatch, policy, config, marker]
    invocation, \* the run under way: its options, where it stands, its errors
    inits,      \* invocations so far
    origin,     \* history: the policy before the first one
    harsh       \* history: has --force been used, or a kill emptied a file

scaffoldVars == <<project, invocation, inits, origin, harsh>>

NoInvocation == [pc |-> "idle", force |-> FALSE]

ScaffoldInit ==
    /\ project \in Projects
    /\ invocation = NoInvocation /\ inits = 0
    /\ origin = project.policy /\ harsh = FALSE

Stages == <<"dispatch", "policy", "extension", "isolation", "panel", "marker">>
FileOf(stage) == IF stage \in {"extension", "isolation", "panel"} THEN "config" ELSE stage
Scripts == {ScriptNames[i] : i \in DOMAIN ScriptNames}
Ended == {"idle", "done", "refused", "killed"}

-----------------------------------------------------------------------------
\* InputPolicy.selects: the candidates a policy binds.  One that does not
\* parse binds nothing, since no snapshot can be taken.
Selected(policy) ==
    CASE policy.kind = "malformed" -> {}
      [] policy.kind = "include"   -> (policy.own \union {PolicyFile}) \intersect Candidates
      [] OTHER                     -> Candidates \ policy.own

DefaultPolicy == [kind |-> "exclude", own |-> {}, defaults |-> TRUE]
Route(target) == [kind |-> "route", target |-> target, canonical |-> TRUE]

\* What truncation leaves: no JSON, a policy without entries, an empty
\* mapping, a marker that is not OMP's.
Emptied(file) ==
    CASE file = "dispatch" -> [kind |-> "unreadable", target |-> "none", canonical |-> FALSE]
      [] file = "policy"   -> [kind |-> "exclude", own |-> {}, defaults |-> FALSE]
      [] file = "config"   -> [kind |-> "mapping", extension |-> "missing",
                               isolation |-> "unset", panel |-> "unset"]
      [] OTHER             -> "other"

Wrote(file) == [file |-> file, outcome |-> "wrote"]
Skip(file) == [file |-> file, outcome |-> "skip"]
Fails(file) == [file |-> file, outcome |-> "error"]

\* The route keeps the target it declares, unless another one is given.
InstallDispatch ==
    LET route == project.dispatch
        given == IF invocation.target = "none" THEN "default" ELSE invocation.target
        spec  == IF invocation.target = "none" /\ route.target # "none" THEN route.target ELSE given
    IN  IF route.kind = "absent" \/ invocation.force THEN Wrote(Route(given))
        ELSE IF route.kind = "unreadable" THEN Fails(route)
        ELSE IF spec = "outside" THEN Fails(route)
        ELSE IF route = Route(spec) THEN Skip(route)
        ELSE Wrote(Route(spec))

\* (mutant) --force is looked at before the mode of the policy.
PolicyReseeded ==
    IF invocation.force THEN Wrote(DefaultPolicy) ELSE Skip(project.policy)

\* An allowlist is never rewritten; an exclusion list gets its defaults back.
InstallPolicy ==
    LET policy == project.policy
    IN  IF policy.kind = "absent" THEN Wrote(DefaultPolicy)
        ELSE IF policy.kind = "malformed" THEN IF invocation.force THEN Wrote(DefaultPolicy) ELSE Fails(policy)
        ELSE IF policy.kind = "include" THEN Skip(policy)
        ELSE IF invocation.force THEN Wrote(DefaultPolicy)
        ELSE IF policy.defaults THEN Skip(policy)
        ELSE Wrote([policy EXCEPT !.defaults = TRUE])

InstallExtension ==
    LET config == project.config
    IN  IF config.kind = "absent" THEN Wrote([Emptied("config") EXCEPT !.extension = "listed"])
        ELSE IF config.kind = "malformed" \/ config.extension = "odd" THEN Fails(config)
        ELSE IF config.extension = "listed" THEN Skip(config)
        ELSE Wrote([config EXCEPT !.extension = "listed"])

InstallIsolation ==
    LET config == project.config
    IN  IF config.kind # "mapping" \/ config.isolation = "odd" THEN Fails(config)
        ELSE IF config.isolation = "on" THEN Skip(config)
        ELSE Wrote([config EXCEPT !.isolation = "on"])

\* The role belongs to the operator once it is there; it is only validated.
InstallPanel ==
    LET config == project.config
    IN  IF invocation.errors \/ config.panel = "valid" THEN Skip(config)
        ELSE IF config.panel = "unset" THEN Wrote([config EXCEPT !.panel = "valid"])
        ELSE Fails(config)

\* (mutant) A marker that is there is taken for OMP's.
MarkerUnread ==
    IF project.marker = "absent" THEN Wrote("omp") ELSE Skip(project.marker)

InstallMarker ==
    IF project.marker = "absent" \/ invocation.force THEN Wrote("omp")
    ELSE IF project.marker = "omp" THEN Skip("omp")
    ELSE Fails(project.marker)

Installed(stage) ==
    CASE stage = "dispatch"  -> InstallDispatch
      [] stage = "policy"    -> InstallPolicy
      [] stage = "extension" -> InstallExtension
      [] stage = "isolation" -> InstallIsolation
      [] stage = "panel"     -> InstallPanel
      [] OTHER               -> InstallMarker

-----------------------------------------------------------------------------
Invoke(force, refresh, target) ==
    /\ invocation.pc \in Ended /\ inits < MaxInits
    /\ inits' = inits + 1
    /\ invocation' = [pc |-> "preflight", force |-> force \/ refresh, refresh |-> refresh,
                      target |-> target, at |-> 1, errors |-> FALSE, base |-> project]
    /\ harsh' = (harsh \/ (force /\ ~refresh))
    /\ UNCHANGED <<project, origin>>

\* The complete write set is checked before a helper is replaced: no symlink
\* and no second link.  Without --force a destination that exists is skipped.
Replaceable(s) ==
    \/ project.scripts[s] \in {"absent", "old", "current"}
    \/ project.scripts[s] = "linked" /\ ~invocation.force

PreflightScripts ==
    /\ invocation.pc = "preflight"
    /\ invocation' = [invocation EXCEPT !.pc =
                          IF \A s \in Scripts : Replaceable(s) THEN "scripts" ELSE "refused"]
    /\ UNCHANGED <<project, inits, origin, harsh>>

CopyOwnedFile ==
    LET s == ScriptNames[invocation.at]
    IN  /\ invocation.pc = "scripts"
        /\ project' = IF invocation.force \/ project.scripts[s] = "absent"
                      THEN [project EXCEPT !.scripts[s] = "current"] ELSE project
        /\ invocation' = [invocation EXCEPT
               !.at = IF @ = Len(ScriptNames) THEN 1 ELSE @ + 1,
               !.pc = IF invocation.at < Len(ScriptNames) THEN "scripts"
                      ELSE IF invocation.refresh THEN "done"
                      ELSE "install"]
        /\ UNCHANGED <<inits, origin, harsh>>

\* An OSError of a copy, a full disk say, ends the run.
CopyFails ==
    /\ invocation.pc = "scripts"
    /\ invocation' = [invocation EXCEPT !.pc = "killed"]
    /\ UNCHANGED <<project, inits, origin, harsh>>

\* One stage: its file is left, written or faulted, and the run goes on.
Install ==
    LET stage  == Stages[invocation.at]
        result == Installed(stage)
    IN  /\ invocation.pc = "install"
        /\ project' = [project EXCEPT ![FileOf(stage)] = result.file]
        /\ invocation' = [invocation EXCEPT
               !.errors = @ \/ result.outcome = "error",
               !.at = @ + 1,
               !.pc = IF invocation.at = Len(Stages) THEN "done" ELSE "install"]
        /\ UNCHANGED <<inits, origin, harsh>>

\* A kill, between two steps or between the truncation and the write of one.
KillInit ==
    /\ invocation.pc \notin Ended
    /\ invocation' = [invocation EXCEPT !.pc = "killed"]
    /\ \/ UNCHANGED <<project, harsh>>
       \/ LET stage == Stages[invocation.at]
          IN  /\ invocation.pc = "install" /\ Installed(stage).outcome = "wrote"
              /\ project' = [project EXCEPT ![FileOf(stage)] = Emptied(FileOf(stage))]
              /\ harsh' = TRUE
    /\ UNCHANGED <<inits, origin>>

ScaffoldNext ==
    \/ \E force, refresh \in BOOLEAN, target \in Targets : Invoke(force, refresh, target)
    \/ PreflightScripts \/ CopyOwnedFile \/ CopyFails \/ Install \/ KillInit

ScaffoldSpec == ScaffoldInit /\ [][ScaffoldNext]_scaffoldVars

-----------------------------------------------------------------------------
\* However often the scaffold is run, with --force and with kills, evidence is
\* never bound to fewer files than the owner's policy bound it to, an allowlist
\* is left alone, and without --force and kills nothing changes in what is
\* bound.  (install_verified_inputs, InputPolicy)
CoverageKept ==
    /\ origin.kind = "include" => project.policy = origin
    /\ Selected(origin) \subseteq Selected(project.policy)
    /\ ~harsh => Selected(project.policy) = Selected(origin)

\* A run that reports success leaves a whole scaffold, with the target that was
\* given or else declared; one that is refused has replaced nothing; and what
\* a kill left behind never makes a forced run fail.
\* (main, install_project_scripts, install_dispatch_config)
ScaffoldComplete ==
    LET base == invocation.base
        full == invocation.pc = "done" /\ ~invocation.refresh
    IN  /\ invocation.pc = "refused" => project = base
        /\ invocation.pc = "done" =>
             \A s \in Scripts : IF invocation.force THEN project.scripts[s] = "current"
                                ELSE project.scripts[s] # "absent"
        /\ full /\ ~invocation.errors =>
             /\ project.dispatch = Route(IF invocation.target # "none" THEN invocation.target
                                         ELSE IF invocation.force \/ base.dispatch.target = "none" THEN "default"
                                         ELSE base.dispatch.target)
             /\ project.policy.kind # "malformed"
             /\ project.config = [kind |-> "mapping", extension |-> "listed",
                                  isolation |-> "on", panel |-> "valid"]
             /\ project.marker = "omp"
        /\ full /\ invocation.force /\ invocation.errors =>
             \/ base.config.kind = "malformed" \/ base.config.extension = "odd"
             \/ base.config.isolation = "odd" \/ base.config.panel = "invalid"
=============================================================================

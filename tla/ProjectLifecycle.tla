-------------------------- MODULE ProjectLifecycle --------------------------
(***************************************************************************)
(* The tools that write a project's .fv directory or decide from it: the    *)
(* scaffold, the write half of the migration, and the migration plan with   *)
(* the pyramid that runs what it planned.  A behaviour is one of them at    *)
(* work; the others keep their first state.                                 *)
(***************************************************************************)
EXTENDS MigratedProject, MigrationApply, ProjectScaffold

VARIABLE tool

lifecycleVars == <<scaffoldVars, applyVars, projectVars, tool>>

Some(S) == CHOOSE x \in S : TRUE

LifecycleInit ==
    /\ tool \in {"fv_init", "fv_migrate", "pyramid_run"}
    /\ tool # "pyramid_run" => tree = Some(Trees) /\ verdict = "idle"
    /\ ProjectInit
    /\ tool # "fv_init" => project = Some(Projects)
    /\ ScaffoldInit
    /\ tool # "fv_migrate" => files = Some(Starts)
    /\ ApplyInit

LifecycleNext ==
    /\ UNCHANGED tool
    /\ \/ tool = "fv_init" /\ ScaffoldNext /\ UNCHANGED <<applyVars, projectVars>>
       \/ tool = "fv_migrate" /\ ApplyNext /\ UNCHANGED <<scaffoldVars, projectVars>>
       \/ tool = "pyramid_run" /\ ProjectNext /\ UNCHANGED <<scaffoldVars, applyVars>>

LifecycleSpec == LifecycleInit /\ [][LifecycleNext]_lifecycleVars
=============================================================================

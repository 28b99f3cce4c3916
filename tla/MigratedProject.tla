-------------------------- MODULE MigratedProject ---------------------------
(***************************************************************************)
(* A legacy project migrated by fv_migrate.py and then verified with        *)
(* pyramid_run.py, which reads the plan the migration wrote.                *)
(***************************************************************************)
EXTENDS MigrationPlan, PyramidRun

CONSTANT Hosts   \* what the pyramid finds besides the plan

\* What is verified after a migration had no plan of its own before it.
ASSUME HostsAssumption ==
    /\ \A h \in Hosts : Runnable(h) /\ {"found", "plan", "profile", "targets", "seen"} \subseteq DOMAIN h
    /\ \A t \in Trees : t.verify => PlanFile \notin DOMAIN t.fv

NoCrate == [found |-> "absent", noPlan |-> FALSE]
projectVars == <<planVars, pyramidVars>>

\* A migrated project, or a crate with a plan of its own.
ProjectInit ==
    \/ /\ PlanInit
       /\ crate = NoCrate /\ layers = <<>> /\ commands = <<>> /\ fuzzed = {} /\ verdict = "idle"
    \/ /\ PyramidInit
       /\ tree = <<>> /\ held = <<>> /\ found = {} /\ pass = 0 /\ step = "none" /\ mig = <<>>

\* The crate of a migrated project: the plan is the one under .fv, if any.
CrateOn(host) ==
    IF PlanFile \in DOMAIN held THEN [host EXCEPT !.found = "plan", !.plan = held[PlanFile]] ELSE host

\* The operator verifies what the migration wrote.
Verify ==
    /\ verdict = "idle" /\ step = "applied" /\ tree.verify
    /\ \E host \in Hosts : crate' = CrateOn(host)
    /\ verdict' = "none"
    /\ UNCHANGED <<planVars, layers, commands, fuzzed>>

ProjectNext ==
    \/ verdict = "idle" /\ PlanNext /\ UNCHANGED pyramidVars
    \/ Verify
    \/ PyramidNext /\ UNCHANGED planVars

ProjectSpec == ProjectInit /\ [][ProjectNext]_projectVars

-----------------------------------------------------------------------------
Migrated == step = "applied" /\ verdict = "VERIFIED" /\ ~crate.noPlan
ClaimedTools == UNION {claim.required_evidence : claim \in held[Obligations].system_claims}

\* A migrated project is VERIFIED only if every recorded layer that a claim
\* names ran all of its recorded segments, and each succeeded.
\* (_migrate_plan's required, aggregate_verdict)
ClaimedLayersRan ==
    (Migrated /\ Obligations \in DOMAIN mig.writes) =>
        \A tool \in ClaimedTools \intersect RecordedLayers :
            LET l == Planned[tool]
            IN  /\ l \in DOMAIN commands
                /\ DOMAIN commands[l] = held[PlanFile][l].tools
                /\ \A i \in DOMAIN commands[l] : commands[l][i] = "ok"
=============================================================================

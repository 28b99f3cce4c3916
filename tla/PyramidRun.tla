----------------------------- MODULE PyramidRun -----------------------------
(***************************************************************************)
(* scripts/pyramid_run.py: one headless run of the verification layers of a *)
(* crate, from the selection of its plan to the verdict.  A command is one  *)
(* outcome; what is kept is which commands ran, for which layer, and how    *)
(* the statuses of the layers become the verdict.                           *)
(***************************************************************************)
EXTENDS Naturals, Sequences, FiniteSets, SequencesExt

CONSTANTS
    Crates,     \* what a run may find: the crate, the host and the options
    Customs     \* layer ids that only a plan defines, in lexical order

LayerOrder == <<"types", "lints", "proptests", "fuzz", "floors", "kani", "verus", "lean">> \o Customs
Baseline == {"types", "lints", "proptests", "floors"}
Profiles == [tested  |-> Baseline,
             bounded |-> Baseline \union {"kani"},
             proved  |-> Baseline \union {"kani", "verus", "lean"}]
\* run_cmd: a non-zero exit, a timeout and a failed launch are all a result,
\* never an exception, and none of them passes.
Outcomes == {"ok", "bad"}

\* parse_plan: floors is no layer of a plan, and a layer has at least one execution.
Runnable(c) ==
    /\ c.profile \in DOMAIN Profiles
    /\ "floors" \notin DOMAIN c.plan
    /\ \A l \in DOMAIN c.plan : c.plan[l].tools # {}
    /\ c.targets \in Seq(ToSet(c.targets)) /\ c.seen \in 0 .. Len(c.targets)

ASSUME CratesAssumption == Customs \in Seq(ToSet(Customs)) /\ \A c \in Crates : Runnable(c)

VARIABLES
    crate,     \* [profile, skip, noPlan, found, plan, fuzz, targets, seen, cut, long, surfaces,
               \*  harnesses, tools]
    layers,    \* layer -> status, for the layers recorded so far
    commands,  \* history: layer -> the outcomes of the commands it ran, and of
               \*  the feature matrix and the test bar for the floors
    fuzzed,    \* history: the fuzz targets run for the declared time
    verdict    \* "none" until the run ends

pyramidVars == <<crate, layers, commands, fuzzed, verdict>>

PyramidInit ==
    /\ crate \in Crates
    /\ layers = <<>> /\ commands = <<>>
    /\ fuzzed = {}
    /\ verdict = "none"

\* Plan selection: a plan that exists is run, unless --no-plan says not to;
\* one that cannot be parsed is an error, never the defaults.
PlanRejected == crate.found = "malformed" /\ ~crate.noPlan
PlanLayers == IF crate.found = "plan" /\ ~crate.noPlan THEN crate.plan ELSE <<>>

\* A plan and the presence of fuzz harnesses only widen what gates.
Required ==
    Profiles[crate.profile]
        \union (IF crate.fuzz THEN {"fuzz"} ELSE {})
        \union {l \in DOMAIN PlanLayers : PlanLayers[l].required}

Record(l, status, outcomes) ==
    /\ layers' = [k \in DOMAIN layers \union {l} |-> IF k = l THEN status ELSE layers[k]]
    /\ commands' = [k \in DOMAIN commands \union {l} |-> IF k = l THEN outcomes ELSE commands[k]]
    /\ UNCHANGED <<crate, verdict>>

Ready(l) ==
    /\ verdict = "none" /\ ~PlanRejected
    /\ l \notin DOMAIN layers
    /\ \A i, j \in 1 .. Len(LayerOrder) :
         (LayerOrder[j] = l /\ i < j) =>
             \/ LayerOrder[i] \in DOMAIN layers
             \/ LayerOrder[i] \notin {"types", "lints", "proptests"} \union Required \union DOMAIN PlanLayers
    /\ ("types" \in DOMAIN layers => layers["types"] # "failed")

Refused ==
    /\ verdict = "none" /\ PlanRejected
    /\ verdict' = "ERROR"
    /\ UNCHANGED <<crate, layers, commands, fuzzed>>

\* plan_layer: every declared invocation runs, whatever the earlier ones did;
\* its duration is filed under its tool id.
PlanLayer(l) ==
    /\ Ready(l) /\ l \in DOMAIN PlanLayers
    /\ IF l \in crate.skip THEN Record(l, "skipped", <<>>)
       ELSE \E outcomes \in [PlanLayers[l].tools -> Outcomes] :
                Record(l, IF \A i \in DOMAIN outcomes : outcomes[i] = "ok" THEN "passed" ELSE "failed",
                       outcomes)
    /\ IF l = "fuzz" /\ l \notin crate.skip
       THEN fuzzed' \in SUBSET PlanLayers[l].tools ELSE UNCHANGED fuzzed

\* cargo_layer for types, lints and proptests.
CargoLayer(l) ==
    /\ Ready(l) /\ l \in {"types", "lints", "proptests"} \ DOMAIN PlanLayers
    /\ IF l \in crate.skip THEN Record(l, "skipped", <<>>)
       ELSE \E o \in Outcomes : Record(l, IF o = "ok" THEN "passed" ELSE "failed", <<o>>)
    /\ UNCHANGED fuzzed

\* A compilation failure leaves everything below it unrun.
TypesFailed ==
    /\ verdict = "none"
    /\ "types" \in DOMAIN layers /\ layers["types"] = "failed"
    /\ DOMAIN layers = {"types"}
    /\ layers' = [l \in {"types"} \union Required \union DOMAIN PlanLayers |->
                     IF l = "types" THEN "failed" ELSE "not_run"]
    /\ UNCHANGED <<crate, commands, fuzzed, verdict>>

\* The built-in fuzz layer runs the targets it finds in the last 500
\* characters of the list: crate.seen of them, the first one cut or whole.
FuzzLayer ==
    LET total  == Len(crate.targets)
        listed == SubSeq(crate.targets, total - crate.seen + 1, total)
        whole  == SubSeq(listed, IF crate.cut THEN 2 ELSE 1, Len(listed))
    IN  /\ Ready("fuzz") /\ "fuzz" \notin DOMAIN PlanLayers
        /\ "fuzz" \in Required
        /\ CASE "fuzz" \in crate.skip \/ "cargo-fuzz" \notin crate.tools ->
                  Record("fuzz", "skipped", <<>>) /\ UNCHANGED fuzzed
             [] OTHER -> \E outcomes \in [DOMAIN listed -> Outcomes] :
                  /\ (crate.cut /\ listed # <<>>) => outcomes[1] = "bad"
                  /\ Record("fuzz", IF listed # <<>> /\ \A i \in DOMAIN outcomes : outcomes[i] = "ok"
                                    THEN "passed" ELSE "failed", outcomes)
                  /\ fuzzed' = IF crate.long THEN ToSet(whole) ELSE {}

\* fuzz_surface_check: a declared surface needs a target and its duration.
SurfaceStatus ==
    IF crate.surfaces = {} THEN "not_applicable"
    ELSE IF ~(crate.surfaces \subseteq ToSet(crate.targets)) THEN "failed"
    ELSE IF "fuzz" \notin DOMAIN layers \/ layers["fuzz"] # "passed" THEN "skipped"
    ELSE IF ~(crate.surfaces \subseteq fuzzed) THEN "failed"
    ELSE "passed"

\* floors_layer: the feature matrix, the test bar of the public modules and
\* the fuzz surfaces; a failure dominates what could not be measured.
FloorsLayer ==
    /\ Ready("floors") /\ "floors" \in Required
    /\ IF "floors" \in crate.skip THEN Record("floors", "skipped", <<>>)
       ELSE \E matrix, bar \in Outcomes \union {"not_applicable"} :
              Record("floors",
                     IF "bad" \in {matrix, bar} \/ SurfaceStatus = "failed" THEN "failed"
                     ELSE IF SurfaceStatus = "skipped" THEN "skipped"
                     ELSE "passed",
                     [feature_matrix |-> matrix, property_bar |-> bar])
    /\ UNCHANGED fuzzed

\* kani and verus need their tool; kani without a harness is no evidence, and
\* a search for harnesses that cannot be run has failed.
ProverLayer(l) ==
    /\ Ready(l) /\ l \in {"kani", "verus"} \ DOMAIN PlanLayers /\ l \in Required
    /\ IF l \in crate.skip \/ l \notin crate.tools THEN Record(l, "skipped", <<>>)
       ELSE IF l = "kani" /\ ~crate.harnesses THEN
              \E status \in {"not_applicable", "failed"} : Record(l, status, <<>>)
       ELSE \E o \in Outcomes : Record(l, IF o = "ok" THEN "passed" ELSE "failed", <<o>>)
    /\ UNCHANGED fuzzed

\* lean is the agent flow's, unless the plan declares it.
LeanLayer ==
    /\ Ready("lean") /\ "lean" \in Required \ DOMAIN PlanLayers
    /\ Record("lean", "not_run", <<>>)
    /\ UNCHANGED fuzzed

\* (mutant) What did not run does not count against the crate.
AggregateFailures ==
    IF \E l \in Required \intersect DOMAIN layers : layers[l] = "failed" THEN "FAILED" ELSE "VERIFIED"

\* aggregate_verdict over the layers that gate.
Aggregate ==
    LET gating == {IF l \in DOMAIN layers THEN layers[l] ELSE "not_run" : l \in Required}
    IN  IF "failed" \in gating THEN "FAILED"
        ELSE IF gating # {"passed"} THEN "INCOMPLETE"
        ELSE "VERIFIED"

\* The verdict is reported once its report is on disk.
Conclude ==
    /\ verdict = "none" /\ ~PlanRejected
    /\ \A l \in {"types", "lints", "proptests"} \union Required \union DOMAIN PlanLayers :
         l \in DOMAIN layers \/ (layers # <<>> /\ layers["types"] = "failed" /\ DOMAIN layers # {"types"})
    /\ \E persisted \in BOOLEAN : verdict' = IF persisted THEN Aggregate ELSE "ERROR"
    /\ UNCHANGED <<crate, layers, commands, fuzzed>>

PyramidNext ==
    \/ Refused
    \/ \E l \in ToSet(LayerOrder) : PlanLayer(l) \/ CargoLayer(l) \/ ProverLayer(l)
    \/ TypesFailed \/ FuzzLayer \/ FloorsLayer \/ LeanLayer
    \/ Conclude

PyramidSpec == PyramidInit /\ [][PyramidNext]_pyramidVars

-----------------------------------------------------------------------------
\* What ran for a layer, and whether all of it succeeded.  A floor that does
\* not apply to the crate is none to succeed.
Ran(l) == l \in DOMAIN commands /\ DOMAIN commands[l] # {}
AllOk(l) ==
    \A i \in DOMAIN commands[l] :
        commands[l][i] = "ok" \/ (l = "floors" /\ commands[l][i] = "not_applicable")

\* VERIFIED is never more than what ran: every layer that gates, of the
\* profile, of the plan, fuzz or floors, was not skipped, ran something and
\* all of it succeeded; one that the plan declares ran all of its executions,
\* every declared fuzz surface ran its time, and no plan of the project was
\* passed over in silence.  (main, aggregate_verdict, fuzz_surface_check)
VerifiedMeansRun ==
    verdict = "VERIFIED" =>
        /\ crate.found # "malformed" \/ crate.noPlan
        /\ \A l \in Required : l \notin crate.skip /\ Ran(l) /\ AllOk(l)
        /\ \A l \in Required \intersect DOMAIN PlanLayers : DOMAIN commands[l] = PlanLayers[l].tools
        /\ crate.surfaces \subseteq fuzzed
=============================================================================

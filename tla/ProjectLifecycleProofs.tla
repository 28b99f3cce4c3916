----------------------- MODULE ProjectLifecycleProofs -----------------------
(***************************************************************************)
(* Theorems about the tools that write .fv, for any projects, crates and    *)
(* plans.                                                                   *)
(***************************************************************************)
EXTENDS ProjectLifecycle, FiniteSetTheorems, TLAPS

-----------------------------------------------------------------------------
\* The pyramid.

\* A layer that passed was not skipped and has outcomes, each a success: all
\* those the plan declares for it, if it does.
PassedRan(l) ==
    /\ l \notin crate.skip
    /\ Ran(l) /\ AllOk(l)
    /\ l \in DOMAIN PlanLayers => DOMAIN commands[l] = PlanLayers[l].tools

\* The floors passed on the fuzz layer there will be.
FloorsSettled ==
    ("floors" \in DOMAIN layers /\ layers["floors"] = "passed") =>
        /\ crate.surfaces \subseteq fuzzed
        /\ "fuzz" \in DOMAIN layers \/ "fuzz" \notin Required \union DOMAIN PlanLayers

PyramidInv ==
    /\ Runnable(crate)
    /\ DOMAIN commands \subseteq DOMAIN layers
    /\ \A l \in DOMAIN layers : layers[l] = "passed" => PassedRan(l)
    /\ FloorsSettled
    /\ verdict = "VERIFIED" =>
         /\ ~PlanRejected
         /\ \A l \in Required : l \in DOMAIN layers /\ layers[l] = "passed"

LEMMA CrateFacts ==
    ASSUME Runnable(crate)
    PROVE  /\ "floors" \notin DOMAIN PlanLayers
           /\ \A l \in DOMAIN PlanLayers : PlanLayers[l].tools # {}
           /\ Baseline \subseteq Profiles[crate.profile]
           /\ Profiles[crate.profile] \subseteq Required
  <1>1. "floors" \notin DOMAIN PlanLayers
    BY DEF PlanLayers, Runnable
  <1>2. \A l \in DOMAIN PlanLayers : PlanLayers[l].tools # {}
    BY DEF PlanLayers, Runnable
  <1>3. crate.profile \in {"tested", "bounded", "proved"}
    BY DEF Profiles, Runnable
  <1>4. Baseline \subseteq Profiles[crate.profile]
    BY <1>3 DEF Profiles
  <1> QED BY <1>1, <1>2, <1>4 DEF Required

\* Recording a layer for the first time keeps the invariant when its own part of
\* it is kept.
LEMMA RecordKeeps ==
    ASSUME PyramidInv, verdict = "none",
           NEW l, l \notin DOMAIN layers, NEW status, NEW outcomes,
           Record(l, status, outcomes),
           fuzzed' = fuzzed \/ (l = "fuzz" /\ "fuzz" \in Required \union DOMAIN PlanLayers),
           status = "passed" =>
               /\ l \notin crate.skip
               /\ DOMAIN outcomes # {}
               /\ \A i \in DOMAIN outcomes :
                    outcomes[i] = "ok" \/ (l = "floors" /\ outcomes[i] = "not_applicable")
               /\ l \in DOMAIN PlanLayers => DOMAIN outcomes = PlanLayers[l].tools
               /\ l = "floors" =>
                    /\ crate.surfaces \subseteq fuzzed
                    /\ "fuzz" \in DOMAIN layers \/ "fuzz" \notin Required \union DOMAIN PlanLayers
    PROVE  PyramidInv'
  <1>1. /\ crate' = crate /\ verdict' = verdict
        /\ DOMAIN layers' = DOMAIN layers \union {l} /\ layers'[l] = status
        /\ \A k \in DOMAIN layers : layers'[k] = layers[k]
        /\ DOMAIN commands' = DOMAIN commands \union {l} /\ commands'[l] = outcomes
        /\ \A k \in DOMAIN commands : commands'[k] = commands[k]
    BY DEF Record, PyramidInv
  <1>2. PlanLayers' = PlanLayers /\ Required' = Required
    BY <1>1 DEF PlanLayers, Required
  <1>3. ASSUME NEW k \in DOMAIN layers', layers'[k] = "passed" PROVE PassedRan(k)'
    <2>1. CASE k = l
      BY <1>1, <1>2, <1>3, <2>1 DEF PassedRan, Ran, AllOk
    <2>2. CASE k # l
      <3>1. k \in DOMAIN layers /\ layers[k] = "passed"
        BY <1>1, <1>3, <2>2
      <3>2. PassedRan(k)
        BY <3>1 DEF PyramidInv
      <3>3. k \in DOMAIN commands => commands'[k] = commands[k]
        BY <1>1
      <3>4. k \in DOMAIN PlanLayers => k # "floors"
        BY CrateFacts DEF PyramidInv
      <3> QED BY <1>1, <1>2, <3>2, <3>3, <3>4 DEF PassedRan, Ran, AllOk
    <2> QED BY <2>1, <2>2
  <1>4. FloorsSettled'
    BY <1>1, <1>2 DEF FloorsSettled, PyramidInv
  <1> QED BY <1>1, <1>2, <1>3, <1>4 DEF PyramidInv

LEMMA PlanLayerKeeps ==
    ASSUME PyramidInv, NEW l, PlanLayer(l)
    PROVE  PyramidInv'
  <1>1. l \notin DOMAIN layers /\ verdict = "none" /\ l \in DOMAIN PlanLayers /\ l # "floors"
    BY CrateFacts DEF PlanLayer, Ready, PyramidInv
  <1>2. fuzzed' = fuzzed \/ (l = "fuzz" /\ "fuzz" \in Required \union DOMAIN PlanLayers)
    BY <1>1 DEF PlanLayer
  <1>3. CASE l \in crate.skip
    <2>1. Record(l, "skipped", <<>>)
      BY <1>3 DEF PlanLayer
    <2> QED BY <1>1, <1>2, <2>1, RecordKeeps
  <1>4. CASE l \notin crate.skip
    <2>1. PICK outcomes \in [PlanLayers[l].tools -> Outcomes] :
              Record(l, IF \A i \in DOMAIN outcomes : outcomes[i] = "ok" THEN "passed" ELSE "failed",
                     outcomes)
      BY <1>4 DEF PlanLayer
    <2>2. DOMAIN outcomes = PlanLayers[l].tools /\ DOMAIN outcomes # {}
      BY <1>1, <2>1, CrateFacts DEF PyramidInv
    <2> QED BY <1>1, <1>2, <1>4, <2>1, <2>2, RecordKeeps
  <1> QED BY <1>3, <1>4

LEMMA CargoLayerKeeps ==
    ASSUME PyramidInv, NEW l, CargoLayer(l)
    PROVE  PyramidInv'
  <1>1. /\ l \notin DOMAIN layers /\ verdict = "none" /\ l \notin DOMAIN PlanLayers
        /\ l # "floors" /\ fuzzed' = fuzzed
    BY DEF CargoLayer, Ready
  <1>2. CASE l \in crate.skip
    <2>1. Record(l, "skipped", <<>>)
      BY <1>2 DEF CargoLayer
    <2> QED BY <1>1, <2>1, RecordKeeps
  <1>3. CASE l \notin crate.skip
    <2>1. PICK o \in Outcomes : Record(l, IF o = "ok" THEN "passed" ELSE "failed", <<o>>)
      BY <1>3 DEF CargoLayer
    <2> QED BY <1>1, <1>3, <2>1, RecordKeeps
  <1> QED BY <1>2, <1>3

LEMMA ProverLayerKeeps ==
    ASSUME PyramidInv, NEW l, ProverLayer(l)
    PROVE  PyramidInv'
  <1>1. /\ l \notin DOMAIN layers /\ verdict = "none" /\ l \notin DOMAIN PlanLayers
        /\ l # "floors" /\ fuzzed' = fuzzed
    BY DEF ProverLayer, Ready
  <1>2. CASE l \in crate.skip \/ l \notin crate.tools
    <2>1. Record(l, "skipped", <<>>)
      BY <1>2 DEF ProverLayer
    <2> QED BY <1>1, <2>1, RecordKeeps
  <1>3. CASE ~(l \in crate.skip \/ l \notin crate.tools) /\ l = "kani" /\ ~crate.harnesses
    <2>1. PICK status \in {"not_applicable", "failed"} : Record(l, status, <<>>)
      BY <1>3 DEF ProverLayer
    <2> QED BY <1>1, <2>1, RecordKeeps
  <1>4. CASE ~(l \in crate.skip \/ l \notin crate.tools) /\ ~(l = "kani" /\ ~crate.harnesses)
    <2>1. PICK o \in Outcomes : Record(l, IF o = "ok" THEN "passed" ELSE "failed", <<o>>)
      BY <1>4 DEF ProverLayer
    <2> QED BY <1>1, <1>4, <2>1, RecordKeeps
  <1> QED BY <1>2, <1>3, <1>4

LEMMA LeanLayerKeeps ==
    ASSUME PyramidInv, LeanLayer
    PROVE  PyramidInv'
  <1>1. /\ "lean" \notin DOMAIN layers /\ verdict = "none" /\ fuzzed' = fuzzed
        /\ Record("lean", "not_run", <<>>)
    BY DEF LeanLayer, Ready
  <1> QED BY <1>1, RecordKeeps

\* Targets were listed, so the cohort of the built-in fuzz layer is not empty.
LEMMA FuzzLayerKeeps ==
    ASSUME PyramidInv, FuzzLayer
    PROVE  PyramidInv'
  <1> DEFINE total  == Len(crate.targets)
             listed == SubSeq(crate.targets, total - crate.seen + 1, total)
  <1>1. /\ "fuzz" \notin DOMAIN layers /\ verdict = "none" /\ "fuzz" \notin DOMAIN PlanLayers
        /\ "fuzz" \in Required
    BY DEF FuzzLayer, Ready
  <1>2. CASE "fuzz" \in crate.skip \/ "cargo-fuzz" \notin crate.tools
    <2>1. Record("fuzz", "skipped", <<>>)
      BY <1>2 DEF FuzzLayer
    <2> QED BY <1>1, <2>1, RecordKeeps
  <1>3. CASE ~("fuzz" \in crate.skip \/ "cargo-fuzz" \notin crate.tools)
    <2>1. PICK outcomes \in [DOMAIN listed -> Outcomes] :
              Record("fuzz", IF listed # <<>> /\ \A i \in DOMAIN outcomes : outcomes[i] = "ok"
                             THEN "passed" ELSE "failed", outcomes)
      BY <1>3 DEF FuzzLayer
    <2>2. listed # <<>> => DOMAIN outcomes # {}
      <3>1. crate.targets \in Seq(ToSet(crate.targets)) /\ crate.seen \in 0 .. total
        BY DEF PyramidInv, Runnable
      <3>2. listed \in Seq(ToSet(crate.targets))
        BY <3>1
      <3>3. listed # <<>> => DOMAIN listed # {}
        BY <3>2
      <3>4. DOMAIN outcomes = DOMAIN listed
        <4> HIDE DEF listed
        <4> QED BY <2>1
      <3> QED BY <3>3, <3>4
    <2> QED BY <1>1, <1>3, <2>1, <2>2, RecordKeeps
  <1> QED BY <1>2, <1>3

\* The floors come after the fuzz layer in the order of the pyramid.
LEMMA FuzzBeforeFloors ==
    ASSUME Ready("floors")
    PROVE  "fuzz" \in DOMAIN layers \/ "fuzz" \notin Required \union DOMAIN PlanLayers
  <1>1. /\ 4 \in 1 .. Len(LayerOrder) /\ 5 \in 1 .. Len(LayerOrder)
        /\ LayerOrder[4] = "fuzz" /\ LayerOrder[5] = "floors"
    <2> DEFINE known == <<"types", "lints", "proptests", "fuzz", "floors", "kani", "verus", "lean">>
    <2> DEFINE names == {"types", "lints", "proptests", "fuzz", "floors", "kani", "verus", "lean"}
                            \union ToSet(Customs)
    <2>1. known \in Seq(names) /\ Customs \in Seq(names)
      <3>1. Customs \in Seq(ToSet(Customs))
        BY CratesAssumption
      <3>2. Customs \in Seq(names)
        BY <3>1
      <3>3. known \in Seq({"types", "lints", "proptests", "fuzz", "floors", "kani", "verus", "lean"})
        OBVIOUS
      <3>4. known \in Seq(names)
        BY <3>3
      <3> QED BY <3>2, <3>4
    <2>2. Len(known) = 8 /\ known[4] = "fuzz" /\ known[5] = "floors"
      OBVIOUS
    <2> HIDE DEF known, names
    <2>3. /\ Len(known \o Customs) = Len(known) + Len(Customs)
          /\ \A i \in 1 .. Len(known) : (known \o Customs)[i] = known[i]
      BY <2>1
    <2>4. Len(Customs) \in Nat
      BY <2>1
    <2>5. LayerOrder = known \o Customs
      BY DEF LayerOrder, known
    <2> QED BY <2>2, <2>3, <2>4, <2>5
  <1>2. LayerOrder[4] \in DOMAIN layers
        \/ LayerOrder[4] \notin {"types", "lints", "proptests"} \union Required \union DOMAIN PlanLayers
    BY <1>1 DEF Ready
  <1> QED BY <1>1, <1>2

LEMMA FloorsLayerKeeps ==
    ASSUME PyramidInv, FloorsLayer
    PROVE  PyramidInv'
  <1>1. /\ "floors" \notin DOMAIN layers /\ verdict = "none" /\ fuzzed' = fuzzed
        /\ "floors" \notin DOMAIN PlanLayers
        /\ "fuzz" \in DOMAIN layers \/ "fuzz" \notin Required \union DOMAIN PlanLayers
    BY CrateFacts, FuzzBeforeFloors DEF FloorsLayer, Ready, PyramidInv
  <1>2. CASE "floors" \in crate.skip
    <2>1. Record("floors", "skipped", <<>>)
      BY <1>2 DEF FloorsLayer
    <2> QED BY <1>1, <2>1, RecordKeeps
  <1>3. CASE "floors" \notin crate.skip
    <2>1. PICK matrix, bar \in Outcomes \union {"not_applicable"} :
              Record("floors",
                     IF "bad" \in {matrix, bar} \/ SurfaceStatus = "failed" THEN "failed"
                     ELSE IF SurfaceStatus = "skipped" THEN "skipped"
                     ELSE "passed",
                     [feature_matrix |-> matrix, property_bar |-> bar])
      BY <1>3 DEF FloorsLayer
    <2> DEFINE outcomes == [feature_matrix |-> matrix, property_bar |-> bar]
    <2>2. SurfaceStatus \notin {"failed", "skipped"} => crate.surfaces \subseteq fuzzed
      BY DEF SurfaceStatus
    <2>3. /\ DOMAIN outcomes # {}
          /\ "bad" \notin {matrix, bar} =>
               \A i \in DOMAIN outcomes : outcomes[i] = "ok" \/ outcomes[i] = "not_applicable"
      BY <2>1 DEF Outcomes
    <2> HIDE DEF outcomes
    <2> QED BY <1>1, <1>3, <2>1, <2>2, <2>3, RecordKeeps DEF outcomes
  <1> QED BY <1>2, <1>3

LEMMA TypesFailedKeeps ==
    ASSUME PyramidInv, TypesFailed
    PROVE  PyramidInv'
  <1>1. /\ verdict = "none" /\ UNCHANGED <<crate, commands, fuzzed, verdict>>
        /\ DOMAIN commands \subseteq {"types"}
        /\ "types" \in DOMAIN layers'
        /\ \A l \in DOMAIN layers' : layers'[l] # "passed"
    BY DEF TypesFailed, PyramidInv
  <1> QED BY <1>1 DEF PyramidInv, FloorsSettled

\* VERIFIED is only concluded when every layer that gates passed.
LEMMA ConcludeKeeps ==
    ASSUME PyramidInv, Conclude
    PROVE  PyramidInv'
  <1>1. /\ UNCHANGED <<crate, layers, commands, fuzzed>>
        /\ ~PlanRejected /\ verdict' \in {Aggregate, "ERROR"}
    BY DEF Conclude
  <1>2. Aggregate = "VERIFIED" => \A l \in Required : l \in DOMAIN layers /\ layers[l] = "passed"
    BY DEF Aggregate
  <1>3. /\ PlanLayers' = PlanLayers /\ Required' = Required /\ PlanRejected' = PlanRejected
        /\ FloorsSettled' = FloorsSettled /\ \A l : PassedRan(l)' = PassedRan(l)
    BY <1>1 DEF PlanLayers, Required, PlanRejected, FloorsSettled, PassedRan, Ran, AllOk
  <1> QED BY <1>1, <1>2, <1>3 DEF PyramidInv

LEMMA PyramidNextKeeps ==
    ASSUME PyramidInv, [PyramidNext]_pyramidVars
    PROVE  PyramidInv'
  <1>1. CASE UNCHANGED pyramidVars \/ Refused
    <2>1. UNCHANGED <<crate, layers, commands, fuzzed>> /\ (verdict' = "VERIFIED" => verdict = "VERIFIED")
      BY <1>1 DEF Refused, pyramidVars
    <2>2. /\ PlanLayers' = PlanLayers /\ Required' = Required /\ PlanRejected' = PlanRejected
          /\ FloorsSettled' = FloorsSettled /\ \A l : PassedRan(l)' = PassedRan(l)
      BY <2>1 DEF PlanLayers, Required, PlanRejected, FloorsSettled, PassedRan, Ran, AllOk
    <2> QED BY <2>1, <2>2 DEF PyramidInv
  <1>2. CASE PyramidNext
    BY <1>1, <1>2, PlanLayerKeeps, CargoLayerKeeps, ProverLayerKeeps, TypesFailedKeeps,
       FuzzLayerKeeps, FloorsLayerKeeps, LeanLayerKeeps, ConcludeKeeps DEF PyramidNext
  <1> QED BY <1>1, <1>2

LEMMA PyramidInitInv == PyramidInit => PyramidInv
  BY CratesAssumption DEF PyramidInit, PyramidInv, FloorsSettled

LEMMA VerifiedRan == PyramidInv => VerifiedMeansRun
  <1> SUFFICES ASSUME PyramidInv, verdict = "VERIFIED" PROVE VerifiedMeansRun
    BY DEF VerifiedMeansRun
  <1>1. \A l \in Required : l \in DOMAIN layers /\ layers[l] = "passed" /\ PassedRan(l)
    BY DEF PyramidInv
  <1>2. Baseline \subseteq Required
    BY CrateFacts DEF PyramidInv
  <1>3. crate.found # "malformed" \/ crate.noPlan
    BY DEF PyramidInv, PlanRejected
  <1>4. crate.surfaces \subseteq fuzzed
    BY <1>1, <1>2 DEF PyramidInv, FloorsSettled, Baseline
  <1> QED BY <1>1, <1>3, <1>4 DEF PassedRan, VerifiedMeansRun

-----------------------------------------------------------------------------
\* The migration.

PastHistory     == {"preflight", "ready", "blocked", "applied"}
PastDispatch    == PastHistory \union {"history"}
PastInputs      == PastDispatch \union {"dispatch"}
PastEvidence    == PastInputs \union {"inputs"}
PastPlan        == PastEvidence \union {"evidence"}
PastObligations == PastPlan \union {"plan"}
PastLedger      == PastObligations \union {"obligations"}
PastIntent      == PastLedger \union {"ledger"}

\* The roles that build() has classified when it is at a step.
Seen ==
    (IF step \in PastIntent THEN {"intent"} ELSE {})
    \union (IF step \in PastLedger THEN {"ledger"} ELSE {})
    \union (IF step \in PastObligations THEN {"claims", "obligations"} ELSE {})
    \union (IF step \in PastPlan THEN {"runs"} ELSE {})
    \union (IF step \in PastInputs THEN {"inputs"} ELSE {})
    \union (IF step \in PastHistory THEN Roles ELSE {})

Holds(where, d, content) == d \in DOMAIN where /\ where[d] = content

\* What the legacy tree alone decides: the intent, whether every claim and every
\* run is carried, the plan, the policy.
Goal == IF Elected = "silent" THEN Intent ELSE Elected
ClaimsFit ==
    (Has("claims") \/ Has("obligations")) =>
        /\ \A r \in {"claims", "obligations"} : Has(r) => ~Unindexable(r)
        /\ Has("claims") => DOMAIN tree.claims \subseteq Converted
        /\ Has("obligations") => DOMAIN tree.flags \subseteq Converted
        /\ \A x, y \in LegacyIds : x # y => Normal[x] # Normal[y]
ClaimedLayers == UNION {tree.claims[c].layers : c \in Converted}
RunsFit ==
    /\ Readable("runs") /\ "runs" \notin tree.malformed /\ RecordedLayers # {}
    /\ \A k \in DOMAIN tree.runs : Carried(tree.runs[k])
    /\ \A s, t \in Segments : ToolId(s) = ToolId(t) => s = t
TreeTools == IF Has("runs") THEN {ToolId(s) : s \in Segments} ELSE {}
TreePlan ==
    [p \in {Planned[l] : l \in RecordedLayers} |->
        [tools |-> ToolsOf(p),
         required |-> \/ Converted = {}
                      \/ {l \in RecordedLayers : Planned[l] = p} \intersect ClaimedLayers # {}]]
Translation(entry) ==
    IF entry \notin Roles THEN {entry}
    ELSE IF entry = "intent" THEN {Goal} \ {"none"}
    ELSE IF entry = "ledger" THEN IF Has("ledger") THEN {LiveLedger} ELSE {}
    ELSE IF entry = "runs" THEN IF Has("runs") THEN {PlanFile} ELSE {}
    ELSE IF entry \in {"claims", "obligations"}
         THEN IF Has(entry) /\ Converted # {} THEN {Obligations} ELSE {}
    ELSE {}
Selection == UNION {Translation(e) : e \in tree.entries}
TreePolicy ==
    IF ~Has("inputs") THEN [mode |-> "exclude", of |-> {}]
    ELSE [mode |-> "include",
          of |-> Selection \union (({Goal} \ {"none"})
                    \union (IF Converted # {} THEN {Obligations} ELSE {})
                    \union (IF Has("runs") THEN {PlanFile} ELSE {}))]

\* A set of files, the ones to write or the ones under .fv, is what the tree asks
\* for; each part is one step of build().
IntentMade(where) ==
    /\ Elected # "ambiguous"
    /\ Elected = "silent" => Has("intent") /\ Readable("intent") /\ Holds(where, Intent, Bytes("intent"))
LedgerMade(where) ==
    /\ LiveLedger \in DOMAIN where => GatePassed(where[LiveLedger])
    /\ Has("ledger") => Readable("ledger") /\ LiveLedger \in DOMAIN where
ObligationsMade(where) == ClaimsFit /\ (Converted # {} => Holds(where, Obligations, Manifest))
PlanMade(where) == Has("runs") => RunsFit /\ Holds(where, PlanFile, TreePlan)
EvidenceMade == \A c \in Converted : tree.claims[c].layers \subseteq TreeTools
InputsMade(where) ==
    /\ Has("inputs") => Readable("inputs") /\ "inputs" \notin tree.malformed /\ Selection # {}
    /\ Holds(where, Policy, TreePolicy)
DispatchMade(where) ==
    Goal # "none" =>
        /\ DispatchFile \in DOMAIN where
        /\ where[DispatchFile].of \notin {"absent", "malformed"}
        /\ where[DispatchFile] = [of |-> where[DispatchFile].of, target |-> Goal]
Unarchived(where) ==
    {r \in tree.files : \/ r = "intent" /\ Elected = "silent"
                        \/ r = "ledger" /\ Holds(where, LiveLedger, Bytes("ledger"))}
HistoryMade(where) ==
    \A r \in tree.files \ Unarchived(where) : Readable(r) /\ Holds(where, HistoryPath(r), Bytes(r))

Settled ==
    /\ ~tree.irregular
    /\ IntentMade(held) /\ LedgerMade(held) /\ ObligationsMade(held) /\ PlanMade(held)
    /\ EvidenceMade /\ InputsMade(held) /\ DispatchMade(held) /\ HistoryMade(held)

MigFields == {"writes", "rows", "skip", "refused", "conflicts", "adopt", "target", "rebound",
              "named", "required", "converted", "tools", "planBlocked"}
WritesHeld == \A d \in DOMAIN mig.writes : Holds(held, d, mig.writes[d])

\* The rows of the report: one for each classified file, and where it went.
RowsInv ==
    /\ \A row \in mig.rows : row[1] \in tree.files /\ row[1] \in Seen
    /\ \A row, other \in mig.rows : row[1] = other[1] => row = other
    /\ DOMAIN mig.rebound \subseteq {"ledger"}
    /\ "ledger" \in DOMAIN mig.rebound => mig.rebound["ledger"] = LiveLedger /\ Has("ledger")
    /\ (step \in PastLedger /\ Has("ledger") /\ "ledger" \notin DOMAIN mig.rebound) =>
         <<"ledger", "mapped", LiveLedger>> \in mig.rows
    /\ step \in PastObligations => \A r \in {"claims", "obligations"} : Has(r) =>
         (IF Converted # {} THEN <<r, "mapped", Obligations>> ELSE <<r, "history", HistoryPath(r)>>)
            \in mig.rows
    /\ (step \in PastPlan /\ Has("runs")) => <<"runs", "mapped", PlanFile>> \in mig.rows
    /\ \A r \in mig.skip : \E row \in mig.rows : row[1] = r

\* What build() knows of the tree when it is at a step and has refused nothing.
BuiltInv ==
    /\ step \notin PastLedger => DOMAIN mig.writes \subseteq {Intent}
    /\ Obligations \in DOMAIN mig.writes <=> step \in PastObligations /\ Converted # {}
    /\ PlanFile \in DOMAIN mig.writes <=> step \in PastPlan /\ Has("runs")
    /\ step # "scan" => ~tree.irregular
    /\ step \in PastIntent => IntentMade(mig.writes) /\ mig.target = Goal
    /\ step \in PastLedger =>
         /\ LedgerMade(mig.writes)
         /\ LiveLedger \in DOMAIN held => Holds(mig.writes, LiveLedger, held[LiveLedger])
    /\ mig.skip = {r \in Unarchived(mig.writes) : r \in Seen}
    /\ step \notin PastObligations => DOMAIN mig.named = {} /\ ~mig.converted /\ mig.required = {}
    /\ step \notin PastPlan => mig.tools = {}
    /\ step \in PastObligations =>
         /\ ObligationsMade(mig.writes)
         /\ DOMAIN mig.named = Converted /\ \A c \in Converted : mig.named[c] = tree.claims[c].layers
         /\ (mig.converted <=> Converted # {}) /\ mig.required = ClaimedLayers
    /\ step \in PastPlan => PlanMade(mig.writes) /\ mig.tools = TreeTools
    /\ ~mig.planBlocked
    /\ step \in PastEvidence => EvidenceMade
    /\ step \in PastInputs => InputsMade(mig.writes)
    /\ (step \in PastDispatch /\ mig.conflicts = {}) => DispatchMade(mig.writes)
    /\ step \in PastHistory =>
         HistoryMade(mig.writes) /\ \A r \in tree.files : \E row \in mig.rows : row[1] = r

\* The second pass, when it elects what the first one elected.
Again == pass = 2 /\ SameTarget

\* A route that the project has says something.
RouteShaped ==
    DispatchFile \in DOMAIN held =>
        LET route == held[DispatchFile]
        IN  /\ route.of # "absent"
            /\ route.of # "malformed" => route = [of |-> route.of, target |-> route.target]

\* What is applied is what the tree asks for, and a second pass that elects the same
\* target asks for nothing else.
PlanInv ==
    /\ tree \in Trees /\ pass \in {1, 2}
    /\ step \in {"scan", "intent"} \union PastIntent
    /\ DOMAIN mig = MigFields
    /\ step = "scan" => mig = Fresh
    /\ pass = 1 => found = DOMAIN tree.fv
    /\ RouteShaped
    /\ (Again \/ step = "applied") => Settled
    /\ step \in {"ready", "applied"} => mig.refused = {} /\ mig.conflicts = {}
    /\ step = "applied" => WritesHeld
    /\ Again => step # "blocked" /\ mig.refused = {} /\ mig.conflicts = {} /\ WritesHeld
    /\ mig.refused = {} => RowsInv /\ BuiltInv

\* What the tree decides does not change: nothing writes it.
LEMMA TreeKept ==
    ASSUME UNCHANGED tree, Elected' = Elected
    PROVE  /\ Elected' = Elected /\ Goal' = Goal
           /\ Converted' = Converted /\ Manifest' = Manifest /\ ClaimedLayers' = ClaimedLayers
           /\ (ClaimsFit' <=> ClaimsFit) /\ (RunsFit' <=> RunsFit)
           /\ TreeTools' = TreeTools /\ TreePlan' = TreePlan
           /\ Selection' = Selection /\ TreePolicy' = TreePolicy
           /\ (EvidenceMade' <=> EvidenceMade)
  <1>1. Elected' = Elected
    OBVIOUS
  <1>2. Goal' = Goal
    BY <1>1 DEF Goal
  <1>3. Converted' = Converted
    BY DEF Converted, Has, ClaimUsable
  <1>4. LegacyIds' = LegacyIds
    BY <1>3 DEF LegacyIds
  <1>5. Manifest' = Manifest
    BY <1>3, <1>4 DEF Manifest, Has
  <1>6. ClaimedLayers' = ClaimedLayers
    BY <1>3 DEF ClaimedLayers
  <1>7. ClaimsFit' <=> ClaimsFit
    BY <1>3, <1>4 DEF ClaimsFit, Has, Unindexable, Readable
  <1>8. RecordedLayers' = RecordedLayers /\ Segments' = Segments
    BY DEF RecordedLayers, Segments
  <1>9. \A s : ToolId(s)' = ToolId(s)
    BY DEF ToolId, LayerOf
  <1>10. \A p : ToolsOf(p)' = ToolsOf(p)
    BY <1>8, <1>9 DEF ToolsOf, LayerOf
  <1>11. RunsFit' <=> RunsFit
    BY <1>8, <1>9 DEF RunsFit, Readable, Carried
  <1>12. TreeTools' = TreeTools
    BY <1>8, <1>9 DEF TreeTools, Has
  <1>13. TreePlan' = TreePlan
    BY <1>3, <1>6, <1>8, <1>10 DEF TreePlan
  <1>14. Selection' = Selection
    BY <1>2, <1>3 DEF Selection, Translation, Has
  <1>15. TreePolicy' = TreePolicy
    BY <1>2, <1>3, <1>14 DEF TreePolicy, Has
  <1>16. EvidenceMade' <=> EvidenceMade
    BY <1>3, <1>12 DEF EvidenceMade
  <1> QED BY <1>1, <1>2, <1>3, <1>5, <1>6, <1>7, <1>11, <1>12, <1>13, <1>14, <1>15, <1>16

\* What a step of build() elects is what the pass elects.
LEMMA ElectedSame ==
    ASSUME UNCHANGED <<tree, found>>
    PROVE  /\ Elected' = Elected
           /\ ElectedOver(DOMAIN tree.fv)' = ElectedOver(DOMAIN tree.fv)
  BY DEF Elected, ElectedOver, Cited, Has, Readable

LEMMA TreeSame ==
    ASSUME UNCHANGED <<tree, found>>
    PROVE  /\ Elected' = Elected /\ Goal' = Goal
           /\ Converted' = Converted /\ Manifest' = Manifest /\ ClaimedLayers' = ClaimedLayers
           /\ (ClaimsFit' <=> ClaimsFit) /\ (RunsFit' <=> RunsFit)
           /\ TreeTools' = TreeTools /\ TreePlan' = TreePlan
           /\ Selection' = Selection /\ TreePolicy' = TreePolicy
           /\ (EvidenceMade' <=> EvidenceMade)
  BY ElectedSame, TreeKept

LEMMA AgainSame ==
    ASSUME UNCHANGED <<tree, found, pass>>
    PROVE  Again' <=> Again
  BY ElectedSame DEF Again, SameTarget

LEMMA SettledKept ==
    ASSUME UNCHANGED <<tree, held>>, Elected' = Elected
    PROVE  Settled' <=> Settled
  <1>1. /\ IntentMade(held)' <=> IntentMade(held)
        /\ LedgerMade(held)' <=> LedgerMade(held)
    BY TreeKept DEF IntentMade, LedgerMade, Has, Readable, GatePassed, Holds
  <1>2. /\ ObligationsMade(held)' <=> ObligationsMade(held)
        /\ PlanMade(held)' <=> PlanMade(held)
    BY TreeKept DEF ObligationsMade, PlanMade, Has, Holds
  <1>3. /\ InputsMade(held)' <=> InputsMade(held)
        /\ DispatchMade(held)' <=> DispatchMade(held)
    BY TreeKept DEF InputsMade, DispatchMade, Has, Readable, Holds
  <1>4. HistoryMade(held)' <=> HistoryMade(held)
    <2>1. Unarchived(held)' = Unarchived(held)
      BY TreeKept DEF Unarchived, Holds
    <2> QED BY <2>1 DEF HistoryMade, Readable, Holds
  <1> QED BY <1>1, <1>2, <1>3, <1>4, TreeKept DEF Settled

LEMMA SettledSame ==
    ASSUME UNCHANGED <<tree, held, found>>
    PROVE  Settled' <=> Settled
  BY ElectedSame, SettledKept

\* What was written stays written: a step of build() adds to dests only.
LEMMA MadeKept ==
    ASSUME UNCHANGED <<tree, found>>, NEW dests,
           \A d : d \notin dests => (d \in DOMAIN mig'.writes <=> d \in DOMAIN mig.writes),
           \A d \in DOMAIN mig.writes : d \notin dests => mig'.writes[d] = mig.writes[d]
    PROVE  /\ Intent \notin dests => (IntentMade(mig.writes)' <=> IntentMade(mig.writes))
           /\ LiveLedger \notin dests =>
                /\ LedgerMade(mig.writes)' <=> LedgerMade(mig.writes)
                /\ Unarchived(mig.writes)' = Unarchived(mig.writes)
           /\ Obligations \notin dests => (ObligationsMade(mig.writes)' <=> ObligationsMade(mig.writes))
           /\ PlanFile \notin dests => (PlanMade(mig.writes)' <=> PlanMade(mig.writes))
           /\ Policy \notin dests => (InputsMade(mig.writes)' <=> InputsMade(mig.writes))
           /\ DispatchFile \notin dests => (DispatchMade(mig.writes)' <=> DispatchMade(mig.writes))
  <1>1. Intent \notin dests => (IntentMade(mig.writes)' <=> IntentMade(mig.writes))
    BY TreeSame DEF IntentMade, Has, Readable, Holds
  <1>2. LiveLedger \notin dests =>
                /\ LedgerMade(mig.writes)' <=> LedgerMade(mig.writes)
                /\ Unarchived(mig.writes)' = Unarchived(mig.writes)
    BY TreeSame DEF LedgerMade, Has, Readable, Holds, GatePassed, Unarchived
  <1>3. Obligations \notin dests => (ObligationsMade(mig.writes)' <=> ObligationsMade(mig.writes))
    BY TreeSame DEF ObligationsMade, Holds
  <1>4. PlanFile \notin dests => (PlanMade(mig.writes)' <=> PlanMade(mig.writes))
    BY TreeSame DEF PlanMade, Has, Holds
  <1>5. Policy \notin dests => (InputsMade(mig.writes)' <=> InputsMade(mig.writes))
    BY TreeSame DEF InputsMade, Has, Readable, Holds
  <1>6. DispatchFile \notin dests => (DispatchMade(mig.writes)' <=> DispatchMade(mig.writes))
    BY TreeSame DEF DispatchMade
  <1> QED BY <1>1, <1>2, <1>3, <1>4, <1>5, <1>6

\* A step of build() keeps the invariant when the new object is as the step says,
\* and the second pass writes what is there.
LEMMA DoKeeps ==
    ASSUME PlanInv, NEW next, NEW m, Do(next, m), step # "applied",
           next \in ({"intent", "preflight"} \union PastIntent) \ {"ready", "blocked", "applied"},
           DOMAIN m = MigFields,
           Again => /\ m.refused = {} /\ m.conflicts = {}
                       /\ \A d \in DOMAIN m.writes : Holds(held, d, m.writes[d]),
           m.refused = {} => RowsInv' /\ BuiltInv'
    PROVE  PlanInv'
  <1>1. step' = next /\ mig' = m /\ tree' = tree /\ held' = held /\ found' = found /\ pass' = pass
    BY DEF Do
  <1>2. (Settled' <=> Settled) /\ (Again' <=> Again) /\ (RouteShaped' <=> RouteShaped)
    BY <1>1, SettledSame, AgainSame DEF RouteShaped
  <1>3. next # "scan" /\ next \notin {"ready", "applied", "blocked"}
    BY DEF PastIntent, PastLedger, PastObligations, PastPlan, PastEvidence, PastInputs, PastDispatch, PastHistory
  <1>4. next \in {"scan", "intent"} \union PastIntent
    BY DEF PastIntent, PastLedger, PastObligations, PastPlan, PastEvidence, PastInputs, PastDispatch, PastHistory
  <1> QED BY <1>1, <1>2, <1>3, <1>4 DEF PlanInv, WritesHeld, Holds

\* The operations on the migration object change the fields they name.
OtherFields(n, m, changed) == \A f \in MigFields \ changed : n[f] = m[f]

LEMMA WriteFacts ==
    ASSUME NEW m, DOMAIN m = MigFields, NEW dest, NEW content
    PROVE  LET n == Write(m, dest, content)
           IN  /\ DOMAIN n = MigFields /\ OtherFields(n, m, {"writes"})
               /\ DOMAIN n.writes = DOMAIN m.writes \union {dest}
               /\ n.writes[dest] = content
               /\ \A d \in DOMAIN m.writes : d # dest => n.writes[d] = m.writes[d]
  BY DEF Write, Over, MigFields, OtherFields

LEMMA MappedFacts ==
    ASSUME NEW m, DOMAIN m = MigFields, NEW roles, NEW dest
    PROVE  LET n == Mapped(m, roles, dest)
           IN  /\ DOMAIN n = MigFields /\ OtherFields(n, m, {"rows"})
               /\ n.rows = m.rows \union {<<r, "mapped", dest>> : r \in roles}
  BY DEF Mapped, MigFields, OtherFields

LEMMA KeptFacts ==
    ASSUME NEW m, DOMAIN m = MigFields, NEW roles
    PROVE  LET n == Kept(m, roles)
           IN  /\ DOMAIN n = MigFields /\ OtherFields(n, m, {"rows"})
               /\ n.rows = m.rows \union {<<r, "history", HistoryPath(r)>> : r \in roles}
  BY DEF Kept, MigFields, OtherFields

LEMMA RefuseFacts ==
    ASSUME NEW m, DOMAIN m = MigFields, NEW what
    PROVE  DOMAIN Refuse(m, what) = MigFields /\ Refuse(m, what).refused # {}
  BY DEF Refuse, MigFields

LEMMA VerbatimFacts ==
    ASSUME NEW m, DOMAIN m = MigFields, NEW role, NEW dest
    PROVE  LET n == Verbatim(m, role, dest)
           IN  /\ DOMAIN n = MigFields /\ OtherFields(n, m, {"writes", "rows", "skip"})
               /\ DOMAIN n.writes = DOMAIN m.writes \union {dest}
               /\ n.writes[dest] = Bytes(role)
               /\ \A d \in DOMAIN m.writes : d # dest => n.writes[d] = m.writes[d]
               /\ n.rows = m.rows \union {<<role, "mapped", dest>>}
               /\ n.skip = m.skip \union {role}
  <1> DEFINE w == Write(m, dest, Bytes(role))
             v == Mapped(w, {role}, dest)
             n == Verbatim(m, role, dest)
  <1>1. /\ DOMAIN w = MigFields /\ OtherFields(w, m, {"writes"})
        /\ DOMAIN w.writes = DOMAIN m.writes \union {dest}
        /\ w.writes[dest] = Bytes(role)
        /\ \A d \in DOMAIN m.writes : d # dest => w.writes[d] = m.writes[d]
    BY WriteFacts
  <1>2. /\ DOMAIN v = MigFields /\ OtherFields(v, w, {"rows"})
        /\ v.rows = w.rows \union {<<r, "mapped", dest>> : r \in {role}}
    <2> HIDE DEF w
    <2> QED BY <1>1, MappedFacts
  <1>3. n = [v EXCEPT !.skip = @ \union {role}]
    BY DEF Verbatim
  <1> HIDE DEF w, v, n
  <1>4. n.writes = w.writes /\ n.rows = m.rows \union {<<role, "mapped", dest>>} /\ n.skip = m.skip \union {role}
    BY <1>1, <1>2, <1>3 DEF OtherFields, MigFields
  <1>5. DOMAIN n = MigFields /\ OtherFields(n, m, {"writes", "rows", "skip"})
    BY <1>1, <1>2, <1>3 DEF OtherFields, MigFields
  <1> QED BY <1>1, <1>4, <1>5 DEF n

LEMMA FreshInv ==
    (mig = Fresh /\ (step = "scan" \/ (step = "intent" /\ ~tree.irregular))) => RowsInv /\ BuiltInv
  <1> SUFFICES ASSUME mig = Fresh, step = "scan" \/ (step = "intent" /\ ~tree.irregular)
               PROVE  RowsInv /\ BuiltInv
    OBVIOUS
  <1>1. step \notin PastIntent /\ step \notin PastLedger /\ step \notin PastObligations
        /\ step \notin PastPlan /\ step \notin PastEvidence /\ step \notin PastInputs
        /\ step \notin PastDispatch /\ step \notin PastHistory
    BY DEF PastIntent, PastLedger, PastObligations, PastPlan, PastEvidence, PastInputs, PastDispatch, PastHistory
  <1>2. Seen = {}
    BY <1>1 DEF Seen
  <1>3. RowsInv
    BY <1>1, <1>2 DEF RowsInv, Fresh
  <1>4. /\ DOMAIN mig.writes = {} /\ mig.skip = {} /\ mig.planBlocked = FALSE
        /\ DOMAIN mig.named = {} /\ mig.converted = FALSE /\ mig.required = {} /\ mig.tools = {}
    BY DEF Fresh
  <1>5. mig.skip = {r \in Unarchived(mig.writes) : r \in Seen}
    BY <1>2, <1>4
  <1>6. BuiltInv
    BY <1>1, <1>4, <1>5 DEF BuiltInv
  <1> QED BY <1>3, <1>6

LEMMA ScanKeeps ==
    ASSUME PlanInv, Scan
    PROVE  PlanInv'
  <1> DEFINE m == IF tree.irregular THEN Refuse(Fresh, "scan") ELSE Fresh
  <1>1. step = "scan" /\ Do("intent", m) /\ mig = Fresh
    BY DEF Scan, PlanInv
  <1>2. DOMAIN Fresh = MigFields /\ Fresh.refused = {} /\ Fresh.conflicts = {} /\ DOMAIN Fresh.writes = {}
    BY DEF Fresh, MigFields
  <1>3. DOMAIN m = MigFields
    BY <1>2, RefuseFacts
  <1>4. m.refused = {} => ~tree.irregular /\ m = Fresh
    BY <1>2, RefuseFacts
  <1>5. m.refused = {} => RowsInv' /\ BuiltInv'
    <2>1. ((mig = Fresh /\ (step = "scan" \/ (step = "intent" /\ ~tree.irregular))) => RowsInv /\ BuiltInv)'
      BY FreshInv, PTL
    <2> HIDE DEF m
    <2> QED BY <1>1, <1>4, <2>1 DEF Do
  <1>6. Again => m = Fresh
    BY DEF PlanInv, Settled
  <1>7. "intent" \in ({"intent", "preflight"} \union PastIntent) \ {"ready", "blocked", "applied"}
    OBVIOUS
  <1> HIDE DEF m
  <1> QED BY <1>1, <1>2, <1>3, <1>5, <1>6, <1>7, DoKeeps

\* New rows are about files that were not classified yet.
LEMMA RowsKept ==
    ASSUME RowsInv, UNCHANGED tree, NEW news, mig'.rows = mig.rows \union news,
           Seen \subseteq Seen',
           \A row \in news : /\ row[1] \in tree.files /\ row[1] \in Seen'
                             /\ row[1] \in Seen => row[1] \notin Classified,
           \A row, other \in news : row[1] = other[1] => row = other
    PROVE  /\ \A row \in mig'.rows : row[1] \in tree'.files /\ row[1] \in Seen'
           /\ \A row, other \in mig'.rows : row[1] = other[1] => row = other
  <1>1. \A row \in mig.rows : row[1] \in Classified /\ row[1] \in Seen /\ row[1] \in tree.files
    BY DEF RowsInv, Classified
  <1>2. \A row \in mig.rows, other \in news : row[1] # other[1]
    BY <1>1
  <1>3. \A row, other \in mig.rows : row[1] = other[1] => row = other
    BY DEF RowsInv
  <1>4. \A row \in mig'.rows : row \in mig.rows \/ row \in news
    OBVIOUS
  <1>5. \A row \in mig'.rows : row[1] \in tree'.files /\ row[1] \in Seen'
    <2>1. \A row \in mig.rows : row[1] \in tree'.files /\ row[1] \in Seen'
      BY <1>1
    <2>2. \A row \in news : row[1] \in tree'.files /\ row[1] \in Seen'
      OBVIOUS
    <2> QED BY <1>4, <2>1, <2>2
  <1>6. \A row, other \in mig'.rows : row[1] = other[1] => row = other
    BY <1>2, <1>3, <1>4
  <1> QED BY <1>5, <1>6

LEMMA MigrateIntentKeeps ==
    ASSUME PlanInv, MigrateIntent
    PROVE  PlanInv'
  <1> DEFINE aimed == [mig EXCEPT !.target = Elected]
             copied == Verbatim([mig EXCEPT !.target = Intent], "intent", Intent)
             m == IF Elected = "ambiguous" THEN Refuse(mig, "intent")
                  ELSE IF Elected # "silent" THEN
                       (IF Has("intent") THEN Mapped(aimed, {"intent"}, DispatchFile) ELSE aimed)
                  ELSE IF Has("intent") /\ Readable("intent") THEN copied
                  ELSE Refuse(mig, "intent")
  <1>1. step = "intent" /\ Do("ledger", m)
    BY DEF MigrateIntent
  <1>2. DOMAIN mig = MigFields /\ tree \in Trees
    BY DEF PlanInv
  <1>3. CASE Elected = "ambiguous" \/ (Elected = "silent" /\ ~(Has("intent") /\ Readable("intent")))
    <2>1. m = Refuse(mig, "intent")
      BY <1>3
    <2>2. DOMAIN m = MigFields /\ m.refused # {}
      BY <1>2, <2>1, RefuseFacts
    <2>3. ~Again
      BY <1>3 DEF PlanInv, Settled, IntentMade
    <2>4. "ledger" \in ({"intent", "preflight"} \union PastIntent) \ {"ready", "blocked", "applied"}
      BY DEF PastIntent
    <2> HIDE DEF m
    <2> QED BY <1>1, <2>2, <2>3, <2>4, DoKeeps
  <1>4. CASE ~(Elected = "ambiguous" \/ (Elected = "silent" /\ ~(Has("intent") /\ Readable("intent"))))
    <2> DEFINE place == IF Elected = "silent" THEN Intent ELSE DispatchFile
               news  == IF Has("intent") THEN {<<"intent", "mapped", place>>} ELSE {}
    <2>1. /\ DOMAIN m = MigFields
          /\ OtherFields(m, mig, {"target", "writes", "rows", "skip"})
          /\ m.target = Goal /\ m.rows = mig.rows \union news
          /\ Elected # "silent" => m.writes = mig.writes /\ m.skip = mig.skip
          /\ Elected = "silent" => /\ m.skip = mig.skip \union {"intent"}
                                   /\ DOMAIN m.writes = DOMAIN mig.writes \union {Intent}
                                   /\ m.writes[Intent] = Bytes("intent")
                                   /\ \A d \in DOMAIN mig.writes : d # Intent => m.writes[d] = mig.writes[d]
      <3>1. CASE Elected # "silent"
        <4>1. /\ DOMAIN aimed = MigFields /\ OtherFields(aimed, mig, {"target"}) /\ aimed.target = Goal
          BY <1>2, <3>1 DEF OtherFields, MigFields, Goal
        <4>2. Has("intent") =>
                /\ DOMAIN m = MigFields /\ OtherFields(m, aimed, {"rows"})
                /\ m.rows = aimed.rows \union {<<r, "mapped", DispatchFile>> : r \in {"intent"}}
          <5> HIDE DEF aimed
          <5> QED BY <1>4, <3>1, <4>1, MappedFacts
        <4>3. ~Has("intent") => m = aimed
          BY <1>4, <3>1
        <4> HIDE DEF aimed, m
        <4> QED BY <3>1, <4>1, <4>2, <4>3 DEF OtherFields, MigFields
      <3>2. CASE Elected = "silent"
        <4> DEFINE own == [mig EXCEPT !.target = Intent]
        <4>1. DOMAIN own = MigFields /\ OtherFields(own, mig, {"target"}) /\ own.target = Goal
          BY <1>2, <3>2 DEF OtherFields, MigFields, Goal
        <4>2. m = Verbatim(own, "intent", Intent) /\ Has("intent")
          BY <1>4, <3>2
        <4> HIDE DEF own, m
        <4>3. /\ DOMAIN m = MigFields /\ OtherFields(m, own, {"writes", "rows", "skip"})
              /\ DOMAIN m.writes = DOMAIN own.writes \union {Intent}
              /\ m.writes[Intent] = Bytes("intent")
              /\ \A d \in DOMAIN own.writes : d # Intent => m.writes[d] = own.writes[d]
              /\ m.rows = own.rows \union {<<"intent", "mapped", Intent>>}
              /\ m.skip = own.skip \union {"intent"}
          BY <4>1, <4>2, VerbatimFacts
        <4> QED BY <3>2, <4>1, <4>2, <4>3 DEF OtherFields, MigFields
      <3> QED BY <3>1, <3>2
    <2>2. m.refused = mig.refused /\ m.conflicts = mig.conflicts
      BY <2>1 DEF OtherFields, MigFields
    <2>3. Again => \A d \in DOMAIN m.writes : Holds(held, d, m.writes[d])
      BY <2>1, <1>4 DEF PlanInv, WritesHeld, Settled, IntentMade, Holds
    <2> HIDE DEF m
    <2>4. ASSUME m.refused = {} PROVE RowsInv' /\ BuiltInv'
      <3> USE DEF PastIntent, PastLedger, PastObligations, PastPlan, PastEvidence, PastInputs,
                  PastDispatch, PastHistory
      <3>1. mig' = m /\ step' = "ledger" /\ UNCHANGED <<tree, held, found>> /\ RowsInv /\ BuiltInv
        BY <1>1, <2>2, <2>4 DEF Do, PlanInv
      <3>2. Seen = {} /\ Seen' = {"intent"}
        BY <1>1, <3>1 DEF Seen
      <3>3. /\ \A row \in mig'.rows : row[1] \in tree'.files /\ row[1] \in Seen'
            /\ \A row, other \in mig'.rows : row[1] = other[1] => row = other
        <4>1. \A row \in news : row[1] \in tree.files /\ row[1] = "intent"
          BY DEF Has
        <4>2. \A row, other \in news : row = other
          OBVIOUS
        <4> HIDE DEF news
        <4> QED BY <2>1, <3>1, <3>2, <4>1, <4>2, RowsKept
      <3>4. RowsInv'
        <4>1. \A r \in mig'.skip : \E row \in mig'.rows : row[1] = r
          <5>1. \A r \in mig.skip : \E row \in mig'.rows : row[1] = r
            BY <2>1, <3>1 DEF RowsInv
          <5>2. Elected = "silent" => <<"intent", "mapped", Intent>> \in mig'.rows
            BY <1>4, <2>1, <3>1
          <5>3. <<"intent", "mapped", Intent>>[1] = "intent"
            OBVIOUS
          <5> HIDE DEF news
          <5> QED BY <2>1, <3>1, <5>1, <5>2, <5>3
        <4>2. mig'.rebound = mig.rebound /\ Has("ledger")' = Has("ledger")
          BY <2>1, <3>1 DEF OtherFields, MigFields, Has
        <4> QED BY <3>1, <3>3, <4>1, <4>2 DEF RowsInv
      <3>5. IntentMade(mig.writes)'
        BY <1>4, <2>1, <3>1, TreeSame DEF IntentMade, Has, Readable, Holds
      <3>6. mig'.skip = {r \in Unarchived(mig.writes)' : r \in Seen'}
        <4>1. Unarchived(mig.writes)' \intersect {"intent"} = IF Elected = "silent" THEN {"intent"} ELSE {}
          BY <1>4, <3>1, TreeSame DEF Unarchived, Has, Holds
        <4>2. mig.skip = {}
          BY <3>1, <3>2 DEF BuiltInv
        <4> QED BY <2>1, <3>1, <3>2, <4>1, <4>2
      <3>7. DOMAIN mig'.writes \subseteq {Intent} /\ Goal' = Goal /\ tree'.irregular = tree.irregular
            /\ mig'.planBlocked = mig.planBlocked /\ mig'.named = mig.named /\ mig'.tools = mig.tools
            /\ mig'.converted = mig.converted /\ mig'.required = mig.required
        BY <1>1, <2>1, <3>1, TreeSame DEF BuiltInv, OtherFields, MigFields
      <3>8. Intent # Obligations /\ Intent # PlanFile
        BY DEF Intent, Obligations, PlanFile
      <3> QED BY <1>1, <2>1, <3>1, <3>4, <3>5, <3>6, <3>7, <3>8 DEF BuiltInv
    <2>5. "ledger" \in ({"intent", "preflight"} \union PastIntent) \ {"ready", "blocked", "applied"}
      BY DEF PastIntent
    <2>6. Again => mig.refused = {} /\ mig.conflicts = {}
      BY DEF PlanInv
    <2> QED BY <1>1, <2>1, <2>2, <2>3, <2>4, <2>5, <2>6, DoKeeps
  <1> QED BY <1>3, <1>4

LEMMA MigrateLedgerKeeps ==
    ASSUME PlanInv, MigrateLedger
    PROVE  PlanInv'
  <1> DEFINE live    == held[LiveLedger]
             there   == LiveLedger \in DOMAIN held
             adopted == Write(mig, LiveLedger, live)
             rebound == [adopted EXCEPT !.rebound = [r \in {"ledger"} |-> LiveLedger]]
             m == IF there THEN
                    (IF ~GatePassed(live) THEN Refuse(mig, "ledger")
                     ELSE IF ~Has("ledger") THEN adopted
                     ELSE IF ~Readable("ledger") THEN Refuse(rebound, "ledger")
                     ELSE IF live = Bytes("ledger") THEN Verbatim(rebound, "ledger", LiveLedger)
                     ELSE Kept(rebound, {"ledger"}))
                  ELSE IF Has("ledger") THEN
                    (IF Readable("ledger") /\ GatePassed(Bytes("ledger"))
                     THEN Verbatim(mig, "ledger", LiveLedger) ELSE Refuse(mig, "ledger"))
                  ELSE mig
             fit == /\ there => GatePassed(live)
                    /\ Has("ledger") => Readable("ledger")
                    /\ (Has("ledger") /\ ~there) => GatePassed(Bytes("ledger"))
  <1>1. step = "ledger" /\ Do("obligations", m)
    BY DEF MigrateLedger, AdoptLiveLedger, CopyLegacyLedger
  <1>2. DOMAIN mig = MigFields
    BY DEF PlanInv
  <1>3. /\ DOMAIN adopted = MigFields /\ OtherFields(adopted, mig, {"writes"})
        /\ DOMAIN adopted.writes = DOMAIN mig.writes \union {LiveLedger}
        /\ adopted.writes[LiveLedger] = live
        /\ \A d \in DOMAIN mig.writes : d # LiveLedger => adopted.writes[d] = mig.writes[d]
    BY <1>2, WriteFacts
  <1>4. /\ DOMAIN rebound = MigFields /\ OtherFields(rebound, adopted, {"rebound"})
        /\ DOMAIN rebound.rebound = {"ledger"} /\ rebound.rebound["ledger"] = LiveLedger
    <2> HIDE DEF adopted
    <2> QED BY <1>3 DEF OtherFields, MigFields
  <1>5. Again => fit
    BY DEF PlanInv, Settled, LedgerMade
  <1>6. "obligations" \in ({"intent", "preflight"} \union PastIntent) \ {"ready", "blocked", "applied"}
    BY DEF PastIntent, PastLedger
  <1>7. CASE ~fit
    <2>1. \E n : DOMAIN n = MigFields /\ m = Refuse(n, "ledger")
      <3> HIDE DEF rebound, adopted, live
      <3> QED BY <1>2, <1>4, <1>7
    <2>2. DOMAIN m = MigFields /\ m.refused # {}
      <3> HIDE DEF m
      <3> QED BY <2>1, RefuseFacts
    <2> HIDE DEF m, fit
    <2> QED BY <1>1, <1>5, <1>6, <1>7, <2>2, DoKeeps
  <1>8. CASE fit
    <2> DEFINE copied == there \/ Has("ledger")
               value  == IF there THEN live ELSE Bytes("ledger")
               whole  == Has("ledger") /\ value = Bytes("ledger")
               news   == IF ~Has("ledger") THEN {}
                         ELSE IF whole THEN {<<"ledger", "mapped", LiveLedger>>}
                         ELSE {<<"ledger", "history", HistoryPath("ledger")>>}
    <2>1. /\ DOMAIN m = MigFields
          /\ OtherFields(m, mig, {"writes", "rows", "skip", "rebound"})
          /\ DOMAIN m.writes = DOMAIN mig.writes \union (IF copied THEN {LiveLedger} ELSE {})
          /\ copied => m.writes[LiveLedger] = value
          /\ \A d \in DOMAIN mig.writes : d # LiveLedger => m.writes[d] = mig.writes[d]
          /\ m.skip = mig.skip \union (IF whole THEN {"ledger"} ELSE {})
          /\ m.rows = mig.rows \union news
          /\ IF there /\ Has("ledger")
             THEN DOMAIN m.rebound = {"ledger"} /\ m.rebound["ledger"] = LiveLedger
             ELSE m.rebound = mig.rebound
      <3>1. CASE there /\ ~Has("ledger")
        <4>1. m = adopted
          BY <1>8, <3>1
        <4> HIDE DEF m, adopted, rebound
        <4> QED BY <1>3, <3>1, <4>1 DEF OtherFields, MigFields
      <3>2. CASE there /\ Has("ledger") /\ live = Bytes("ledger")
        <4>1. m = Verbatim(rebound, "ledger", LiveLedger)
          BY <1>8, <3>2
        <4> HIDE DEF m, adopted, rebound
        <4>2. /\ DOMAIN m = MigFields /\ OtherFields(m, rebound, {"writes", "rows", "skip"})
              /\ DOMAIN m.writes = DOMAIN rebound.writes \union {LiveLedger}
              /\ m.writes[LiveLedger] = Bytes("ledger")
              /\ \A d \in DOMAIN rebound.writes : d # LiveLedger => m.writes[d] = rebound.writes[d]
              /\ m.rows = rebound.rows \union {<<"ledger", "mapped", LiveLedger>>}
              /\ m.skip = rebound.skip \union {"ledger"}
          BY <1>4, <4>1, VerbatimFacts
        <4>3. OtherFields(m, mig, {"writes", "rows", "skip", "rebound"})
          BY <1>3, <1>4, <4>2 DEF OtherFields
        <4>4. rebound.writes = adopted.writes /\ rebound.rows = mig.rows /\ rebound.skip = mig.skip
              /\ m.rebound = rebound.rebound
          BY <1>3, <1>4, <4>2 DEF OtherFields, MigFields
        <4> QED BY <1>3, <1>4, <3>2, <4>2, <4>3, <4>4
      <3>3. CASE there /\ Has("ledger") /\ live # Bytes("ledger")
        <4>1. m = Kept(rebound, {"ledger"})
          BY <1>8, <3>3
        <4> HIDE DEF m, adopted, rebound
        <4>2. /\ DOMAIN m = MigFields /\ OtherFields(m, rebound, {"rows"})
              /\ m.rows = rebound.rows \union {<<r, "history", HistoryPath(r)>> : r \in {"ledger"}}
          BY <1>4, <4>1, KeptFacts
        <4>3. OtherFields(m, mig, {"writes", "rows", "skip", "rebound"})
          BY <1>3, <1>4, <4>2 DEF OtherFields
        <4>4. m.writes = adopted.writes /\ rebound.rows = mig.rows /\ m.skip = mig.skip
              /\ m.rebound = rebound.rebound
          BY <1>3, <1>4, <4>2 DEF OtherFields, MigFields
        <4> QED BY <1>3, <1>4, <3>3, <4>2, <4>3, <4>4
      <3>4. CASE ~there /\ Has("ledger")
        <4>1. m = Verbatim(mig, "ledger", LiveLedger)
          BY <1>8, <3>4
        <4> HIDE DEF m
        <4>2. /\ DOMAIN m = MigFields /\ OtherFields(m, mig, {"writes", "rows", "skip"})
              /\ DOMAIN m.writes = DOMAIN mig.writes \union {LiveLedger}
              /\ m.writes[LiveLedger] = Bytes("ledger")
              /\ \A d \in DOMAIN mig.writes : d # LiveLedger => m.writes[d] = mig.writes[d]
              /\ m.rows = mig.rows \union {<<"ledger", "mapped", LiveLedger>>}
              /\ m.skip = mig.skip \union {"ledger"}
          BY <1>2, <4>1, VerbatimFacts
        <4>3. m.rebound = mig.rebound
          BY <4>2 DEF OtherFields, MigFields
        <4> QED BY <3>4, <4>2, <4>3 DEF OtherFields
      <3>5. CASE ~there /\ ~Has("ledger")
        <4>1. m = mig
          BY <3>5
        <4> HIDE DEF m
        <4> QED BY <1>2, <3>5, <4>1 DEF OtherFields
      <3> QED BY <3>1, <3>2, <3>3, <3>4, <3>5
    <2>2. m.refused = mig.refused /\ m.conflicts = mig.conflicts
      BY <2>1 DEF OtherFields, MigFields
    <2>3. Again => \A d \in DOMAIN m.writes : Holds(held, d, m.writes[d])
      <3> HIDE DEF m
      <3>1. Again => (copied => there)
        BY DEF PlanInv, Settled, LedgerMade
      <3> QED BY <2>1, <3>1 DEF PlanInv, WritesHeld, Holds
    <2> HIDE DEF m
    <2>4. ASSUME m.refused = {} PROVE RowsInv' /\ BuiltInv'
      <3> USE DEF PastIntent, PastLedger, PastObligations, PastPlan, PastEvidence, PastInputs,
                  PastDispatch, PastHistory
      <3>1. mig' = m /\ step' = "obligations" /\ UNCHANGED <<tree, held, found>> /\ RowsInv /\ BuiltInv
        BY <1>1, <2>2, <2>4 DEF Do, PlanInv
      <3>2. Seen = {"intent"} /\ Seen' = {"intent", "ledger"}
        BY <1>1, <3>1 DEF Seen
      <3>3. /\ \A row \in mig'.rows : row[1] \in tree'.files /\ row[1] \in Seen'
            /\ \A row, other \in mig'.rows : row[1] = other[1] => row = other
        <4>1. \A row \in news : row[1] \in tree.files /\ row[1] = "ledger"
          BY DEF Has
        <4>2. \A row, other \in news : row = other
          OBVIOUS
        <4> HIDE DEF news
        <4> QED BY <2>1, <3>1, <3>2, <4>1, <4>2, RowsKept
      <3>4. RowsInv'
        <4>1. \A r \in mig'.skip : \E row \in mig'.rows : row[1] = r
          <5>1. \A r \in mig.skip : \E row \in mig'.rows : row[1] = r
            BY <2>1, <3>1 DEF RowsInv
          <5>2. whole => <<"ledger", "mapped", LiveLedger>> \in mig'.rows
            BY <2>1, <3>1
          <5>3. <<"ledger", "mapped", LiveLedger>>[1] = "ledger"
            OBVIOUS
          <5> HIDE DEF news, whole
          <5> QED BY <2>1, <3>1, <5>1, <5>2, <5>3
        <4>2. Has("ledger")' = Has("ledger")
          BY <3>1 DEF Has
        <4>3. /\ DOMAIN mig'.rebound \subseteq {"ledger"}
              /\ "ledger" \in DOMAIN mig'.rebound => mig'.rebound["ledger"] = LiveLedger /\ Has("ledger")
          BY <2>1, <3>1 DEF RowsInv
        <4>4. (Has("ledger") /\ "ledger" \notin DOMAIN mig'.rebound) =>
                  <<"ledger", "mapped", LiveLedger>> \in mig'.rows
          BY <2>1, <3>1
        <4> QED BY <3>1, <3>3, <4>1, <4>2, <4>3, <4>4 DEF RowsInv
      <3>5. LedgerMade(mig.writes)'
        <4>1. copied <=> LiveLedger \in DOMAIN mig'.writes
          BY <1>1, <2>1, <3>1 DEF BuiltInv, Intent, LiveLedger
        <4>2. copied => GatePassed(value)
          BY <1>8
        <4> HIDE DEF value
        <4> QED BY <1>8, <2>1, <3>1, <4>1, <4>2 DEF LedgerMade, Has, Readable, GatePassed
      <3>6. there => Holds(mig.writes, LiveLedger, held[LiveLedger])'
        BY <2>1, <3>1 DEF Holds
      <3>7. IntentMade(mig.writes)' /\ Goal' = Goal /\ mig'.target = mig.target
        <4>1. \A d : d # LiveLedger => (d \in DOMAIN mig'.writes <=> d \in DOMAIN mig.writes)
          BY <2>1, <3>1
        <4>2. \A d \in DOMAIN mig.writes : d # LiveLedger => mig'.writes[d] = mig.writes[d]
          BY <2>1, <3>1
        <4>3. IntentMade(mig.writes)
          BY <1>1, <3>1 DEF BuiltInv
        <4>4. Intent # LiveLedger
          BY DEF Intent, LiveLedger
        <4>5. mig'.target = mig.target
          BY <2>1, <3>1 DEF OtherFields, MigFields
        <4> QED BY <3>1, <4>1, <4>2, <4>3, <4>4, <4>5, TreeSame DEF IntentMade, Has, Readable, Holds
      <3>8. mig'.skip = {r \in Unarchived(mig.writes)' : r \in Seen'}
        <4>1. mig.skip = IF Elected = "silent" THEN {"intent"} ELSE {}
          <5>1. mig.skip = {r \in Unarchived(mig.writes) : r = "intent"}
            BY <3>1, <3>2 DEF BuiltInv
          <5>2. Elected = "silent" => "intent" \in tree.files
            BY <1>1, <3>1 DEF BuiltInv, IntentMade, Has
          <5> QED BY <5>1, <5>2 DEF Unarchived
        <4>2. Unarchived(mig.writes)' = mig.skip \union (IF whole THEN {"ledger"} ELSE {})
          <5>1. "ledger" \in Unarchived(mig.writes)' <=> whole
            BY <2>1, <3>1 DEF Unarchived, Has, Holds
          <5>2. "intent" \in Unarchived(mig.writes)' <=> "intent" \in mig.skip
            BY <1>1, <3>1, <4>1, TreeSame DEF Unarchived, BuiltInv, IntentMade, Has
          <5>3. Unarchived(mig.writes)' \subseteq {"intent", "ledger"}
            BY DEF Unarchived
          <5> HIDE DEF whole
          <5> QED BY <4>1, <5>1, <5>2, <5>3
        <4> HIDE DEF whole
        <4> QED BY <2>1, <3>1, <3>2, <4>1, <4>2
      <3>9. /\ mig'.planBlocked = mig.planBlocked /\ tree'.irregular = tree.irregular
            /\ mig'.named = mig.named /\ mig'.tools = mig.tools
            /\ mig'.converted = mig.converted /\ mig'.required = mig.required
            /\ LiveLedger # Obligations /\ LiveLedger # PlanFile
        BY <2>1, <3>1 DEF OtherFields, MigFields, LiveLedger, Obligations, PlanFile
      <3> HIDE DEF copied, value, whole, news
      <3> QED BY <1>1, <2>1, <3>1, <3>4, <3>5, <3>6, <3>7, <3>8, <3>9 DEF BuiltInv
    <2>5. Again => mig.refused = {} /\ mig.conflicts = {}
      BY DEF PlanInv
    <2> QED BY <1>1, <1>6, <2>1, <2>2, <2>3, <2>4, <2>5, DoKeeps
  <1> QED BY <1>7, <1>8

LEMMA MigrateObligationsKeeps ==
    ASSUME PlanInv, MigrateObligations
    PROVE  PlanInv'
  <1> DEFINE sources  == {r \in {"claims", "obligations"} : Has(r)}
             broken   == {r \in sources : Unindexable(r)}
             claims   == IF Has("claims") THEN DOMAIN tree.claims ELSE {}
             flagged  == IF Has("obligations") THEN DOMAIN tree.flags ELSE {}
             refusals == (claims \union flagged) \ Converted
             clash    == \E x, y \in LegacyIds : x # y /\ Normal[x] = Normal[y]
             judged   == IF refusals # {} \/ clash THEN Refuse(mig, "claims") ELSE mig
             filled   == [Write(judged, Obligations, Manifest) EXCEPT
                             !.named = [c \in Converted |-> tree.claims[c].layers],
                             !.converted = TRUE,
                             !.required = UNION {tree.claims[c].layers : c \in Converted}]
             m == IF sources = {} THEN mig
                  ELSE IF broken # {} THEN Refuse(mig, "claims")
                  ELSE IF Converted = {} THEN Kept(judged, sources)
                  ELSE Mapped(filled, sources, Obligations)
             news == IF Converted # {} THEN {<<r, "mapped", Obligations>> : r \in sources}
                     ELSE {<<r, "history", HistoryPath(r)>> : r \in sources}
  <1>1. step = "obligations" /\ Do("plan", m)
    BY DEF MigrateObligations
  <1>2. DOMAIN mig = MigFields
    BY DEF PlanInv
  <1>3. ClaimsFit <=> (sources = {} \/ (broken = {} /\ refusals = {} /\ ~clash))
    <2>1. sources = {} <=> ~(Has("claims") \/ Has("obligations"))
      OBVIOUS
    <2>2. broken = {} <=> \A r \in {"claims", "obligations"} : Has(r) => ~Unindexable(r)
      OBVIOUS
    <2>3. refusals = {} <=> /\ Has("claims") => DOMAIN tree.claims \subseteq Converted
                            /\ Has("obligations") => DOMAIN tree.flags \subseteq Converted
      <3>1. CASE Has("claims") /\ Has("obligations")
        BY <3>1
      <3>2. CASE Has("claims") /\ ~Has("obligations")
        BY <3>2
      <3>3. CASE ~Has("claims") /\ Has("obligations")
        BY <3>3
      <3>4. CASE ~Has("claims") /\ ~Has("obligations")
        BY <3>4
      <3> QED BY <3>1, <3>2, <3>3, <3>4
    <2>4. ~clash <=> \A x, y \in LegacyIds : x # y => Normal[x] # Normal[y]
      OBVIOUS
    <2> HIDE DEF sources, broken, refusals, clash
    <2> QED BY <2>1, <2>2, <2>3, <2>4 DEF ClaimsFit
  <1>4. /\ DOMAIN judged = MigFields
        /\ (refusals # {} \/ clash) => judged.refused # {}
        /\ ~(refusals # {} \/ clash) => judged = mig
    <2> HIDE DEF refusals, clash
    <2> QED BY <1>2, RefuseFacts
  <1>5. Converted # {} => sources # {}
    BY DEF Converted
  <1>6. sources # {} /\ Converted # {} =>
          /\ DOMAIN filled = MigFields
          /\ OtherFields(filled, judged, {"writes", "named", "converted", "required"})
          /\ DOMAIN filled.writes = DOMAIN judged.writes \union {Obligations}
          /\ filled.writes[Obligations] = Manifest
          /\ \A d \in DOMAIN judged.writes : d # Obligations => filled.writes[d] = judged.writes[d]
          /\ DOMAIN filled.named = Converted
          /\ \A c \in Converted : filled.named[c] = tree.claims[c].layers
          /\ filled.converted /\ filled.required = ClaimedLayers
    <2> DEFINE w == Write(judged, Obligations, Manifest)
    <2> HIDE DEF judged
    <2>1. /\ DOMAIN w = MigFields /\ OtherFields(w, judged, {"writes"})
          /\ DOMAIN w.writes = DOMAIN judged.writes \union {Obligations}
          /\ w.writes[Obligations] = Manifest
          /\ \A d \in DOMAIN judged.writes : d # Obligations => w.writes[d] = judged.writes[d]
      BY <1>4, WriteFacts
    <2>2. filled = [w EXCEPT !.named = [c \in Converted |-> tree.claims[c].layers], !.converted = TRUE,
                             !.required = UNION {tree.claims[c].layers : c \in Converted}]
      OBVIOUS
    <2> HIDE DEF w, filled
    <2>3. DOMAIN filled = MigFields /\ OtherFields(filled, w, {"named", "converted", "required"})
      BY <2>1, <2>2 DEF OtherFields, MigFields
    <2>4. /\ filled.writes = w.writes /\ filled.named = [c \in Converted |-> tree.claims[c].layers]
          /\ filled.converted = TRUE /\ filled.required = ClaimedLayers
      BY <2>1, <2>2 DEF MigFields, ClaimedLayers
    <2> QED BY <2>1, <2>3, <2>4 DEF OtherFields
  <1>7. "plan" \in ({"intent", "preflight"} \union PastIntent) \ {"ready", "blocked", "applied"}
    BY DEF PastIntent, PastLedger, PastObligations
  <1>8. CASE ~ClaimsFit
    <2>1. sources # {} /\ (broken # {} \/ refusals # {} \/ clash)
      BY <1>3, <1>8
    <2>2. DOMAIN m = MigFields /\ m.refused # {}
      <3>1. CASE broken # {}
        <4>1. m = Refuse(mig, "claims")
          BY <2>1, <3>1
        <4> HIDE DEF m
        <4> QED BY <1>2, <4>1, RefuseFacts
      <3>2. CASE broken = {} /\ Converted = {}
        <4>1. m = Kept(judged, sources) /\ judged.refused # {}
          BY <1>4, <2>1, <3>2
        <4> HIDE DEF m, judged, sources
        <4>2. DOMAIN m = MigFields /\ OtherFields(m, judged, {"rows"})
          BY <1>4, <4>1, KeptFacts
        <4> QED BY <4>1, <4>2 DEF OtherFields, MigFields
      <3>3. CASE broken = {} /\ Converted # {}
        <4>1. m = Mapped(filled, sources, Obligations) /\ judged.refused # {}
          BY <1>4, <2>1, <3>3
        <4> HIDE DEF m, judged, filled, sources
        <4>2. DOMAIN m = MigFields /\ OtherFields(m, filled, {"rows"})
          BY <1>6, <2>1, <3>3, <4>1, MappedFacts
        <4> QED BY <1>6, <2>1, <3>3, <4>1, <4>2 DEF OtherFields, MigFields
      <3> QED BY <3>1, <3>2, <3>3
    <2>3. ~Again
      BY <1>8 DEF PlanInv, Settled, ObligationsMade
    <2> HIDE DEF m
    <2> QED BY <1>1, <1>7, <2>2, <2>3, DoKeeps
  <1>9. CASE ClaimsFit
    <2>1. /\ DOMAIN m = MigFields
          /\ OtherFields(m, mig, {"writes", "rows", "named", "converted", "required"})
          /\ m.rows = mig.rows \union news
          /\ Converted = {} => m.writes = mig.writes /\ m.named = mig.named
                               /\ m.converted = mig.converted /\ m.required = mig.required
          /\ Converted # {} =>
               /\ DOMAIN m.writes = DOMAIN mig.writes \union {Obligations}
               /\ m.writes[Obligations] = Manifest
               /\ \A d \in DOMAIN mig.writes : d # Obligations => m.writes[d] = mig.writes[d]
               /\ DOMAIN m.named = Converted
               /\ \A c \in Converted : m.named[c] = tree.claims[c].layers
               /\ m.converted /\ m.required = ClaimedLayers
      <3>1. CASE sources = {}
        <4>1. m = mig /\ Converted = {} /\ news = {}
          BY <1>5, <3>1
        <4> HIDE DEF m, news
        <4> QED BY <1>2, <4>1 DEF OtherFields
      <3>2. CASE sources # {} /\ Converted = {}
        <4>1. m = Kept(mig, sources) /\ news = {<<r, "history", HistoryPath(r)>> : r \in sources}
          BY <1>3, <1>9, <3>2
        <4> HIDE DEF m, news, sources
        <4>2. DOMAIN m = MigFields /\ OtherFields(m, mig, {"rows"}) /\ m.rows = mig.rows \union news
          BY <1>2, <4>1, KeptFacts
        <4> QED BY <3>2, <4>2 DEF OtherFields, MigFields
      <3>3. CASE sources # {} /\ Converted # {}
        <4>1. m = Mapped(filled, sources, Obligations) /\ judged = mig
              /\ news = {<<r, "mapped", Obligations>> : r \in sources}
          BY <1>3, <1>9, <3>3
        <4> HIDE DEF m, news, filled, sources, judged
        <4>2. DOMAIN m = MigFields /\ OtherFields(m, filled, {"rows"}) /\ m.rows = filled.rows \union news
          BY <1>6, <3>3, <4>1, MappedFacts
        <4>3. /\ m.writes = filled.writes /\ m.named = filled.named /\ m.converted = filled.converted
              /\ m.required = filled.required /\ filled.rows = mig.rows
          BY <1>6, <3>3, <4>1, <4>2 DEF OtherFields, MigFields
        <4>4. OtherFields(m, mig, {"writes", "rows", "named", "converted", "required"})
          BY <1>6, <3>3, <4>1, <4>2 DEF OtherFields
        <4> QED BY <1>6, <3>3, <4>1, <4>2, <4>3, <4>4
      <3> QED BY <3>1, <3>2, <3>3
    <2>2. m.refused = mig.refused /\ m.conflicts = mig.conflicts
      BY <2>1 DEF OtherFields, MigFields
    <2> HIDE DEF m
    <2>3. Again => \A d \in DOMAIN m.writes : Holds(held, d, m.writes[d])
      BY <2>1 DEF PlanInv, WritesHeld, Holds, Settled, ObligationsMade
    <2>4. ASSUME m.refused = {} PROVE RowsInv' /\ BuiltInv'
      <3> USE DEF PastIntent, PastLedger, PastObligations, PastPlan, PastEvidence, PastInputs,
                  PastDispatch, PastHistory
      <3>1. mig' = m /\ step' = "plan" /\ UNCHANGED <<tree, held, found>> /\ RowsInv /\ BuiltInv
        BY <1>1, <2>2, <2>4 DEF Do, PlanInv
      <3>2. Seen = {"intent", "ledger"} /\ Seen' = {"intent", "ledger", "claims", "obligations"}
        BY <1>1, <3>1 DEF Seen
      <3>3. /\ \A row \in mig'.rows : row[1] \in tree'.files /\ row[1] \in Seen'
            /\ \A row, other \in mig'.rows : row[1] = other[1] => row = other
        <4>1. \A row \in news : row[1] \in tree.files /\ row[1] \in {"claims", "obligations"}
          BY DEF Has
        <4>2. \A row, other \in news : row[1] = other[1] => row = other
          BY DEF Has
        <4> HIDE DEF news
        <4> QED BY <2>1, <3>1, <3>2, <4>1, <4>2, RowsKept
      <3>4. RowsInv'
        <4>1. /\ mig.rows \subseteq mig'.rows /\ mig'.skip = mig.skip /\ mig'.rebound = mig.rebound
              /\ \A r \in mig'.skip : \E row \in mig'.rows : row[1] = r
          <5> HIDE DEF news
          <5> QED BY <2>1, <3>1 DEF RowsInv, OtherFields, MigFields
        <4>2. \A r \in {"claims", "obligations"} : Has(r) =>
                (IF Converted # {} THEN <<r, "mapped", Obligations>> ELSE <<r, "history", HistoryPath(r)>>)
                    \in mig'.rows
          BY <2>1, <3>1
        <4>3. Converted' = Converted /\ \A r : Has(r)' = Has(r)
          BY <3>1, TreeSame DEF Has
        <4> HIDE DEF news
        <4> QED BY <1>1, <3>1, <3>3, <4>1, <4>2, <4>3 DEF RowsInv
      <3>5. /\ \A d : d \notin {Obligations} => (d \in DOMAIN mig'.writes <=> d \in DOMAIN mig.writes)
            /\ \A d \in DOMAIN mig.writes : d \notin {Obligations} => mig'.writes[d] = mig.writes[d]
        BY <2>1, <3>1
      <3>6. /\ Intent \notin {Obligations} /\ LiveLedger \notin {Obligations}
            /\ PlanFile \notin {Obligations}
        BY DEF Intent, LiveLedger, Obligations, PlanFile
      <3>7. /\ IntentMade(mig.writes)' /\ LedgerMade(mig.writes)'
            /\ Unarchived(mig.writes)' = Unarchived(mig.writes)
        BY <1>1, <3>1, <3>5, <3>6, MadeKept DEF BuiltInv
      <3>8. ObligationsMade(mig.writes)'
        BY <1>9, <2>1, <3>1, TreeSame DEF ObligationsMade, Holds
      <3>9. Obligations \notin DOMAIN mig.writes /\ (Obligations \in DOMAIN mig'.writes <=> Converted # {})
        BY <1>1, <2>1, <3>1 DEF BuiltInv
      <3>10. /\ DOMAIN mig'.named = Converted /\ \A c \in Converted : mig'.named[c] = tree.claims[c].layers
             /\ (mig'.converted <=> Converted # {}) /\ mig'.required = ClaimedLayers
        <4>1. Converted = {} => ClaimedLayers = {}
          BY DEF ClaimedLayers
        <4> QED BY <1>1, <2>1, <3>1, <4>1 DEF BuiltInv
      <3>11. /\ mig'.skip = mig.skip /\ mig'.target = mig.target /\ mig'.planBlocked = mig.planBlocked
             /\ mig'.tools = mig.tools
        BY <2>1, <3>1 DEF OtherFields, MigFields
      <3>12. LiveLedger \in DOMAIN held' => Holds(mig.writes, LiveLedger, held[LiveLedger])'
        BY <1>1, <3>1, <3>5, <3>6 DEF BuiltInv, Holds
      <3>13. mig'.skip = {r \in Unarchived(mig.writes)' : r \in Seen'}
        <4>1. Unarchived(mig.writes) \subseteq {"intent", "ledger"}
          BY DEF Unarchived
        <4>2. mig.skip = {r \in Unarchived(mig.writes) : r \in Seen}
          BY <3>1 DEF BuiltInv
        <4> QED BY <3>2, <3>7, <3>11, <4>1, <4>2
      <3>14. /\ Goal' = Goal /\ Converted' = Converted /\ ClaimedLayers' = ClaimedLayers
        BY <3>1, TreeSame
      <3> QED BY <1>1, <3>1, <3>4, <3>5, <3>6, <3>7, <3>8, <3>9, <3>10, <3>11, <3>12, <3>13, <3>14 DEF BuiltInv
    <2>5. Again => mig.refused = {} /\ mig.conflicts = {}
      BY DEF PlanInv
    <2> QED BY <1>1, <1>7, <2>1, <2>2, <2>3, <2>4, <2>5, DoKeeps
  <1> QED BY <1>8, <1>9

LEMMA MigratePlanKeeps ==
    ASSUME PlanInv, MigratePlan
    PROVE  PlanInv'
  <1> DEFINE plan   == [p \in {Planned[l] : l \in RecordedLayers} |-> Cohort(p)]
             usable == /\ Readable("runs") /\ "runs" \notin tree.malformed /\ RecordedLayers # {}
                       /\ \A k \in DOMAIN tree.runs : Carried(tree.runs[k])
                       /\ \A s, t \in Segments : ToolId(s) = ToolId(t) => s = t
             carried == Mapped(Write(mig, PlanFile, plan), {"runs"}, PlanFile)
             filled  == [carried EXCEPT !.tools = {ToolId(s) : s \in Segments}]
             blocked == [Refuse(mig, "runs") EXCEPT !.planBlocked = TRUE]
             m == IF ~Has("runs") THEN mig ELSE IF usable THEN filled ELSE blocked
             news == IF Has("runs") THEN {<<"runs", "mapped", PlanFile>>} ELSE {}
  <1>1. step = "plan" /\ Do("evidence", m)
    BY DEF MigratePlan
  <1>2. DOMAIN mig = MigFields
    BY DEF PlanInv
  <1>3. usable <=> RunsFit
    BY DEF RunsFit
  <1>4. "evidence" \in ({"intent", "preflight"} \union PastIntent) \ {"ready", "blocked", "applied"}
    BY DEF PastIntent, PastLedger, PastObligations, PastPlan
  <1>5. mig.refused = {} => plan = TreePlan
    <2> SUFFICES ASSUME mig.refused = {} PROVE plan = TreePlan
      OBVIOUS
    <2>1. (mig.converted <=> Converted # {}) /\ mig.required = ClaimedLayers
      BY <1>1 DEF PlanInv, BuiltInv, PastObligations
    <2>2. \A p : Cohort(p) =
              [tools |-> ToolsOf(p),
               required |-> \/ Converted = {}
                            \/ {l \in RecordedLayers : Planned[l] = p} \intersect ClaimedLayers # {}]
      BY <2>1 DEF Cohort
    <2> QED BY <2>2 DEF TreePlan
  <1>6. CASE Has("runs") /\ ~usable
    <2>1. m = blocked
      BY <1>6
    <2>2. DOMAIN m = MigFields /\ m.refused # {}
      <3>1. DOMAIN Refuse(mig, "runs") = MigFields /\ Refuse(mig, "runs").refused # {}
        BY <1>2, RefuseFacts
      <3> HIDE DEF m
      <3> QED BY <2>1, <3>1 DEF MigFields
    <2>3. ~Again
      BY <1>3, <1>6 DEF PlanInv, Settled, PlanMade
    <2> HIDE DEF m
    <2> QED BY <1>1, <1>4, <2>2, <2>3, DoKeeps
  <1>7. CASE Has("runs") => usable
    <2>1. /\ DOMAIN m = MigFields
          /\ OtherFields(m, mig, {"writes", "rows", "tools"})
          /\ m.rows = mig.rows \union news
          /\ ~Has("runs") => m.writes = mig.writes /\ m.tools = mig.tools
          /\ Has("runs") =>
               /\ DOMAIN m.writes = DOMAIN mig.writes \union {PlanFile}
               /\ m.writes[PlanFile] = plan
               /\ \A d \in DOMAIN mig.writes : d # PlanFile => m.writes[d] = mig.writes[d]
               /\ m.tools = {ToolId(s) : s \in Segments}
      <3>1. CASE ~Has("runs")
        <4>1. m = mig /\ news = {}
          BY <3>1
        <4> HIDE DEF m, news
        <4> QED BY <1>2, <3>1, <4>1 DEF OtherFields
      <3>2. CASE Has("runs")
        <4> DEFINE w == Write(mig, PlanFile, plan)
        <4> HIDE DEF plan
        <4>1. /\ DOMAIN w = MigFields /\ OtherFields(w, mig, {"writes"})
              /\ DOMAIN w.writes = DOMAIN mig.writes \union {PlanFile}
              /\ w.writes[PlanFile] = plan
              /\ \A d \in DOMAIN mig.writes : d # PlanFile => w.writes[d] = mig.writes[d]
          BY <1>2, WriteFacts
        <4>2. carried = Mapped(w, {"runs"}, PlanFile)
          OBVIOUS
        <4> HIDE DEF w, carried
        <4>3. /\ DOMAIN carried = MigFields /\ OtherFields(carried, w, {"rows"})
              /\ carried.rows = w.rows \union {<<r, "mapped", PlanFile>> : r \in {"runs"}}
          BY <4>1, <4>2, MappedFacts
        <4>4. m = [carried EXCEPT !.tools = {ToolId(s) : s \in Segments}]
          BY <1>7, <3>2
        <4> HIDE DEF m
        <4>5. DOMAIN m = MigFields /\ OtherFields(m, carried, {"tools"}) /\ m.tools = {ToolId(s) : s \in Segments}
          BY <4>3, <4>4 DEF OtherFields, MigFields
        <4>6. OtherFields(m, mig, {"writes", "rows", "tools"})
          BY <4>1, <4>3, <4>5 DEF OtherFields
        <4>7. m.writes = w.writes /\ m.rows = carried.rows /\ w.rows = mig.rows
          BY <4>1, <4>3, <4>5 DEF OtherFields, MigFields
        <4> QED BY <3>2, <4>1, <4>3, <4>5, <4>6, <4>7
      <3> QED BY <3>1, <3>2
    <2>2. m.refused = mig.refused /\ m.conflicts = mig.conflicts
      BY <2>1 DEF OtherFields, MigFields
    <2> HIDE DEF m, plan
    <2>3. Again => \A d \in DOMAIN m.writes : Holds(held, d, m.writes[d])
      BY <1>5, <2>1 DEF PlanInv, WritesHeld, Holds, Settled, PlanMade
    <2>4. ASSUME m.refused = {} PROVE RowsInv' /\ BuiltInv'
      <3> USE DEF PastIntent, PastLedger, PastObligations, PastPlan, PastEvidence, PastInputs,
                  PastDispatch, PastHistory
      <3>1. mig' = m /\ step' = "evidence" /\ UNCHANGED <<tree, held, found>> /\ RowsInv /\ BuiltInv
        BY <1>1, <2>2, <2>4 DEF Do, PlanInv
      <3>2. /\ Seen = {"intent", "ledger", "claims", "obligations"}
            /\ Seen' = {"intent", "ledger", "claims", "obligations", "runs"}
        BY <1>1, <3>1 DEF Seen
      <3>3. /\ \A row \in mig'.rows : row[1] \in tree'.files /\ row[1] \in Seen'
            /\ \A row, other \in mig'.rows : row[1] = other[1] => row = other
        <4>1. \A row \in news : row[1] \in tree.files /\ row[1] = "runs"
          BY DEF Has
        <4>2. \A row, other \in news : row = other
          OBVIOUS
        <4> HIDE DEF news
        <4> QED BY <2>1, <3>1, <3>2, <4>1, <4>2, RowsKept
      <3>4. RowsInv'
        <4>1. /\ mig.rows \subseteq mig'.rows /\ mig'.skip = mig.skip /\ mig'.rebound = mig.rebound
              /\ \A r \in mig'.skip : \E row \in mig'.rows : row[1] = r
          <5> HIDE DEF news
          <5> QED BY <2>1, <3>1 DEF RowsInv, OtherFields, MigFields
        <4>2. Has("runs") => <<"runs", "mapped", PlanFile>> \in mig'.rows
          BY <2>1, <3>1
        <4>3. Converted' = Converted /\ \A r : Has(r)' = Has(r)
          BY <3>1, TreeSame DEF Has
        <4>4. \A r \in {"claims", "obligations"} : Has(r) =>
                (IF Converted # {} THEN <<r, "mapped", Obligations>> ELSE <<r, "history", HistoryPath(r)>>)
                    \in mig'.rows
          BY <1>1, <3>1, <4>1 DEF RowsInv
        <4> HIDE DEF news
        <4> QED BY <1>1, <3>1, <3>3, <4>1, <4>2, <4>3, <4>4 DEF RowsInv
      <3>5. /\ \A d : d \notin {PlanFile} => (d \in DOMAIN mig'.writes <=> d \in DOMAIN mig.writes)
            /\ \A d \in DOMAIN mig.writes : d \notin {PlanFile} => mig'.writes[d] = mig.writes[d]
        BY <2>1, <3>1
      <3>6. /\ Intent \notin {PlanFile} /\ LiveLedger \notin {PlanFile} /\ Obligations \notin {PlanFile}
        BY DEF Intent, LiveLedger, Obligations, PlanFile
      <3>7. /\ IntentMade(mig.writes)' /\ LedgerMade(mig.writes)' /\ ObligationsMade(mig.writes)'
            /\ Unarchived(mig.writes)' = Unarchived(mig.writes)
        BY <1>1, <3>1, <3>5, <3>6, MadeKept DEF BuiltInv
      <3>8. PlanMade(mig.writes)' /\ mig'.tools = TreeTools
        <4>1. Has("runs") => RunsFit /\ plan = TreePlan
          BY <1>3, <1>5, <1>7, <2>2, <2>4
        <4>2. ~Has("runs") => mig.tools = {}
          BY <1>1, <3>1 DEF BuiltInv
        <4> QED BY <2>1, <3>1, <4>1, <4>2, TreeSame DEF PlanMade, Holds, Has, TreeTools
      <3>9. PlanFile \in DOMAIN mig'.writes <=> Has("runs")
        BY <1>1, <2>1, <3>1 DEF BuiltInv
      <3>10. /\ mig'.skip = mig.skip /\ mig'.target = mig.target /\ mig'.planBlocked = mig.planBlocked
             /\ mig'.named = mig.named /\ mig'.converted = mig.converted /\ mig'.required = mig.required
        BY <2>1, <3>1 DEF OtherFields, MigFields
      <3>11. LiveLedger \in DOMAIN held' => Holds(mig.writes, LiveLedger, held[LiveLedger])'
        BY <1>1, <3>1, <3>5, <3>6 DEF BuiltInv, Holds
      <3>12. mig'.skip = {r \in Unarchived(mig.writes)' : r \in Seen'}
        <4>1. Unarchived(mig.writes) \subseteq {"intent", "ledger"}
          BY DEF Unarchived
        <4>2. mig.skip = {r \in Unarchived(mig.writes) : r \in Seen}
          BY <3>1 DEF BuiltInv
        <4> QED BY <3>2, <3>7, <3>10, <4>1, <4>2
      <3>13. /\ Goal' = Goal /\ Converted' = Converted /\ ClaimedLayers' = ClaimedLayers
             /\ TreeTools' = TreeTools /\ Has("runs")' = Has("runs")
        BY <3>1, TreeSame DEF Has
      <3> QED BY <1>1, <3>1, <3>4, <3>5, <3>6, <3>7, <3>8, <3>9, <3>10, <3>11, <3>12, <3>13 DEF BuiltInv
    <2>5. Again => mig.refused = {} /\ mig.conflicts = {}
      BY DEF PlanInv
    <2> QED BY <1>1, <1>4, <2>1, <2>2, <2>3, <2>4, <2>5, DoKeeps
  <1> QED BY <1>6, <1>7

LEMMA CheckRequiredEvidenceKeeps ==
    ASSUME PlanInv, CheckRequiredEvidence
    PROVE  PlanInv'
  <1> USE DEF PastIntent, PastLedger, PastObligations, PastPlan, PastEvidence, PastInputs,
              PastDispatch, PastHistory
  <1> DEFINE missing == \E c \in DOMAIN mig.named : ~(mig.named[c] \subseteq mig.tools)
             m == IF ~mig.planBlocked /\ missing THEN Refuse(mig, "evidence") ELSE mig
  <1>1. step = "evidence" /\ Do("inputs", m)
    BY DEF CheckRequiredEvidence
  <1>2. DOMAIN mig = MigFields
    BY DEF PlanInv
  <1>3. DOMAIN m = MigFields /\ (m # mig => m.refused # {})
    <2> HIDE DEF missing
    <2> QED BY <1>2, RefuseFacts
  <1>4. (mig.refused = {} /\ ~EvidenceMade) => missing
    BY <1>1 DEF EvidenceMade, PlanInv, BuiltInv
  <1>5. (mig.refused = {} /\ EvidenceMade) => ~missing
    BY <1>1 DEF EvidenceMade, PlanInv, BuiltInv
  <1>6. (mig.refused = {} /\ ~EvidenceMade) => m # mig
    <2>1. mig.refused = {} => ~mig.planBlocked
      BY DEF PlanInv, BuiltInv
    <2>2. Refuse(mig, "evidence").refused # {}
      BY <1>2, RefuseFacts
    <2> HIDE DEF missing
    <2> QED BY <1>4, <2>1, <2>2
  <1>7. (mig.refused = {} /\ EvidenceMade) => m = mig
    BY <1>5
  <1> HIDE DEF m
  <1>8. Again => m = mig /\ mig.refused = {} /\ mig.conflicts = {} /\ WritesHeld
    BY <1>7 DEF PlanInv, Settled
  <1>9. ASSUME m.refused = {} PROVE RowsInv' /\ BuiltInv'
    <2>1. m = mig /\ EvidenceMade
      BY <1>3, <1>6, <1>9
    <2>2. mig' = mig /\ step' = "inputs" /\ UNCHANGED <<tree, held, found>> /\ RowsInv /\ BuiltInv
      BY <1>1, <1>9, <2>1 DEF Do, PlanInv
    <2>3. Seen' = Seen
      BY <1>1, <2>2 DEF Seen
    <2>4. RowsInv'
      BY <1>1, <2>2, <2>3, TreeSame DEF RowsInv, Has
    <2>5. /\ IntentMade(mig.writes)' /\ LedgerMade(mig.writes)' /\ ObligationsMade(mig.writes)'
          /\ PlanMade(mig.writes)' /\ Unarchived(mig.writes)' = Unarchived(mig.writes)
      <3> DEFINE none == {}
      <3>1. /\ \A d : d \notin none => (d \in DOMAIN mig'.writes <=> d \in DOMAIN mig.writes)
            /\ \A d \in DOMAIN mig.writes : d \notin none => mig'.writes[d] = mig.writes[d]
            /\ Intent \notin none /\ LiveLedger \notin none /\ Obligations \notin none
            /\ PlanFile \notin none
        BY <2>2
      <3> HIDE DEF none
      <3> QED BY <1>1, <2>2, <3>1, MadeKept DEF BuiltInv
    <2>6. BuiltInv'
      BY <1>1, <2>1, <2>2, <2>3, <2>5, TreeSame DEF BuiltInv, Holds, Has
    <2> QED BY <2>4, <2>6
  <1>10. "inputs" \in ({"intent", "preflight"} \union PastIntent) \ {"ready", "blocked", "applied"}
    OBVIOUS
  <1> QED BY <1>1, <1>3, <1>8, <1>9, <1>10, DoKeeps DEF WritesHeld

\* A legacy file that has one row went where the row says.
LEMMA LiveFacts ==
    ASSUME RowsInv, NEW r
    PROVE  /\ \A how, d : <<r, how, d>> \in mig.rows =>
                Live(r) = IF how = "mapped" /\ d # DispatchFile /\ d \in DOMAIN mig.writes THEN {d} ELSE {}
           /\ (\A row \in mig.rows : row[1] # r) => Live(r) = {}
  <1>1. ASSUME NEW how, NEW d, <<r, how, d>> \in mig.rows
        PROVE  Live(r) = IF how = "mapped" /\ d # DispatchFile /\ d \in DOMAIN mig.writes THEN {d} ELSE {}
    <2> DEFINE row == <<r, how, d>>
    <2>1. row[1] = r /\ row[2] = how /\ row[3] = d /\ row \in mig.rows
      BY <1>1
    <2> HIDE DEF row
    <2>2. \A other \in mig.rows : other[1] = r => other = row
      BY <2>1 DEF RowsInv
    <2>3. {o \in mig.rows : o[1] = r /\ o[2] = "mapped" /\ o[3] # DispatchFile /\ o[3] \in DOMAIN mig.writes}
            = IF how = "mapped" /\ d # DispatchFile /\ d \in DOMAIN mig.writes THEN {row} ELSE {}
      BY <2>1, <2>2
    <2>4. CASE how = "mapped" /\ d # DispatchFile /\ d \in DOMAIN mig.writes
      BY <2>1, <2>3, <2>4 DEF Live
    <2>5. CASE ~(how = "mapped" /\ d # DispatchFile /\ d \in DOMAIN mig.writes)
      BY <2>3, <2>5 DEF Live
    <2> QED BY <2>4, <2>5
  <1>2. ASSUME \A row \in mig.rows : row[1] # r PROVE Live(r) = {}
    BY <1>2 DEF Live
  <1> QED BY <1>1, <1>2

\* The live files a policy may name are decided by the tree, in either pass.
LEMMA TranslateFacts ==
    ASSUME PlanInv, mig.refused = {}, step = "inputs", NEW e
    PROVE  Translate(e) = Translation(e)
  <1> USE DEF PastIntent, PastLedger, PastObligations, PastPlan, PastEvidence, PastInputs,
              PastDispatch, PastHistory
  <1>1. RowsInv /\ BuiltInv
    BY DEF PlanInv
  <1>2. CASE e \notin Roles
    BY <1>2 DEF Translate, Translation
  <1>3. CASE e = "intent"
    <2>1. mig.target = Goal /\ "intent" \in Roles
      BY <1>1 DEF BuiltInv, Roles
    <2> QED BY <1>3, <2>1 DEF Translate, Translation
  <1>4. CASE e = "ledger"
    <2>1. CASE "ledger" \in DOMAIN mig.rebound
      BY <1>1, <1>4, <2>1 DEF Translate, Translation, RowsInv, Roles
    <2>2. CASE "ledger" \notin DOMAIN mig.rebound /\ Has("ledger")
      <3>1. <<"ledger", "mapped", LiveLedger>> \in mig.rows /\ LiveLedger \in DOMAIN mig.writes
        BY <1>1, <2>2 DEF RowsInv, BuiltInv, LedgerMade
      <3>2. Live("ledger") = {LiveLedger}
        BY <1>1, <3>1, LiveFacts DEF LiveLedger, DispatchFile
      <3> QED BY <1>4, <2>2, <3>2 DEF Translate, Translation, Roles
    <2>3. CASE "ledger" \notin DOMAIN mig.rebound /\ ~Has("ledger")
      <3>1. \A row \in mig.rows : row[1] # "ledger"
        BY <1>1, <2>3 DEF RowsInv, Has
      <3>2. Live("ledger") = {}
        BY <1>1, <3>1, LiveFacts
      <3> QED BY <1>4, <2>3, <3>2 DEF Translate, Translation, Roles
    <2> QED BY <2>1, <2>2, <2>3
  <1>5. CASE e = "runs"
    <2>1. CASE Has("runs")
      <3>1. <<"runs", "mapped", PlanFile>> \in mig.rows /\ PlanFile \in DOMAIN mig.writes
        BY <1>1, <2>1 DEF RowsInv, BuiltInv
      <3>2. Live("runs") = {PlanFile}
        BY <1>1, <3>1, LiveFacts DEF PlanFile, DispatchFile
      <3>3. "runs" \notin DOMAIN mig.rebound
        BY <1>1 DEF RowsInv
      <3> QED BY <1>5, <2>1, <3>2, <3>3 DEF Translate, Translation, Roles
    <2>2. CASE ~Has("runs")
      <3>1. \A row \in mig.rows : row[1] # "runs"
        BY <1>1, <2>2 DEF RowsInv, Has
      <3>2. Live("runs") = {} /\ "runs" \notin DOMAIN mig.rebound
        BY <1>1, <3>1, LiveFacts DEF RowsInv
      <3> QED BY <1>5, <2>2, <3>2 DEF Translate, Translation, Roles
    <2> QED BY <2>1, <2>2
  <1>6. CASE e \in {"claims", "obligations"}
    <2>1. e \notin DOMAIN mig.rebound
      BY <1>1, <1>6 DEF RowsInv
    <2>2. Translate(e) = Live(e)
      BY <1>6, <2>1 DEF Translate, Roles
    <2>3. Translation(e) = IF Has(e) /\ Converted # {} THEN {Obligations} ELSE {}
      BY <1>6 DEF Translation, Roles
    <2>4. CASE Has(e) /\ Converted # {}
      <3>1. <<e, "mapped", Obligations>> \in mig.rows /\ Obligations \in DOMAIN mig.writes
        BY <1>1, <1>6, <2>4 DEF RowsInv, BuiltInv
      <3>2. Live(e) = {Obligations}
        BY <1>1, <3>1, LiveFacts DEF Obligations, DispatchFile
      <3> QED BY <2>2, <2>3, <2>4, <3>2
    <2>5. CASE Has(e) /\ Converted = {}
      <3>1. <<e, "history", HistoryPath(e)>> \in mig.rows
        BY <1>1, <1>6, <2>5 DEF RowsInv
      <3>2. Live(e) = {}
        BY <1>1, <3>1, LiveFacts
      <3> QED BY <2>2, <2>3, <2>5, <3>2
    <2>6. CASE ~Has(e)
      <3>1. \A row \in mig.rows : row[1] # e
        BY <1>1, <2>6 DEF RowsInv, Has
      <3>2. Live(e) = {}
        BY <1>1, <3>1, LiveFacts
      <3> QED BY <2>2, <2>3, <2>6, <3>2
    <2> QED BY <2>4, <2>5, <2>6
  <1>7. CASE e \in {"inputs", "notes"}
    <2>1. \A row \in mig.rows : row[1] # e
      BY <1>1, <1>7 DEF RowsInv, Seen
    <2>2. Live(e) = {} /\ e \notin DOMAIN mig.rebound
      BY <1>1, <1>7, <2>1, LiveFacts DEF RowsInv
    <2> QED BY <1>7, <2>2 DEF Translate, Translation, Roles
  <1> QED BY <1>2, <1>3, <1>4, <1>5, <1>6, <1>7 DEF Roles

LEMMA MigrateVerifiedInputsKeeps ==
    ASSUME PlanInv, MigrateVerifiedInputs
    PROVE  PlanInv'
  <1> DEFINE selected == UNION {Translate(e) : e \in tree.entries}
             bound    == ({mig.target} \ {"none"}) \union ({Obligations, PlanFile} \intersect DOMAIN mig.writes)
             policy   == IF ~Has("inputs") THEN [mode |-> "exclude", of |-> {}]
                         ELSE [mode |-> "include", of |-> selected \union bound]
             bad == Has("inputs") /\ (~Readable("inputs") \/ "inputs" \in tree.malformed \/ selected = {})
             w == Write(mig, Policy, policy)
             m == IF bad THEN Refuse(mig, "inputs")
                  ELSE IF Has("inputs") THEN Mapped(w, {"inputs"}, Policy) ELSE w
             news == IF Has("inputs") THEN {<<"inputs", "mapped", Policy>>} ELSE {}
  <1>1. step = "inputs" /\ Do("dispatch", m)
    <2>1. CASE ~Has("inputs")
      BY <2>1 DEF MigrateVerifiedInputs
    <2>2. CASE Has("inputs")
      BY <2>2 DEF MigrateVerifiedInputs
    <2> QED BY <2>1, <2>2
  <1>2. DOMAIN mig = MigFields
    BY DEF PlanInv
  <1>3. mig.refused = {} => selected = Selection /\ policy = TreePolicy
    <2> SUFFICES ASSUME mig.refused = {} PROVE selected = Selection /\ policy = TreePolicy
      OBVIOUS
    <2>1. selected = Selection
      BY <1>1, TranslateFacts DEF Selection
    <2>2. mig.target = Goal /\ (Obligations \in DOMAIN mig.writes <=> Converted # {})
          /\ (PlanFile \in DOMAIN mig.writes <=> Has("runs"))
      BY <1>1 DEF PlanInv, BuiltInv, PastIntent, PastLedger, PastObligations, PastPlan, PastEvidence
    <2>3. bound = ({Goal} \ {"none"}) \union (IF Converted # {} THEN {Obligations} ELSE {})
                    \union (IF Has("runs") THEN {PlanFile} ELSE {})
      BY <2>2
    <2> HIDE DEF selected, bound
    <2> QED BY <2>1, <2>3 DEF TreePolicy
  <1>4. "dispatch" \in ({"intent", "preflight"} \union PastIntent) \ {"ready", "blocked", "applied"}
    BY DEF PastIntent, PastLedger, PastObligations, PastPlan, PastEvidence, PastInputs
  <1> HIDE DEF policy
  <1>5. CASE bad
    <2>1. m = Refuse(mig, "inputs")
      BY <1>5
    <2> HIDE DEF m
    <2>2. DOMAIN m = MigFields /\ m.refused # {}
      BY <1>2, <2>1, RefuseFacts
    <2>3. ~Again
      BY <1>3, <1>5 DEF PlanInv, Settled, InputsMade
    <2> HIDE DEF bad
    <2> QED BY <1>1, <1>4, <2>2, <2>3, DoKeeps
  <1>6. CASE ~bad
    <2> HIDE DEF selected
    <2>1. /\ DOMAIN m = MigFields
          /\ OtherFields(m, mig, {"writes", "rows"})
          /\ m.rows = mig.rows \union news
          /\ DOMAIN m.writes = DOMAIN mig.writes \union {Policy}
          /\ m.writes[Policy] = policy
          /\ \A d \in DOMAIN mig.writes : d # Policy => m.writes[d] = mig.writes[d]
      <3>1. /\ DOMAIN w = MigFields /\ OtherFields(w, mig, {"writes"})
            /\ DOMAIN w.writes = DOMAIN mig.writes \union {Policy}
            /\ w.writes[Policy] = policy
            /\ \A d \in DOMAIN mig.writes : d # Policy => w.writes[d] = mig.writes[d]
        BY <1>2, WriteFacts
      <3>2. CASE ~Has("inputs")
        <4>1. m = w /\ news = {}
          BY <1>6, <3>2
        <4> HIDE DEF m, w, news
        <4> QED BY <3>1, <4>1 DEF OtherFields, MigFields
      <3>3. CASE Has("inputs")
        <4>1. m = Mapped(w, {"inputs"}, Policy) /\ news = {<<"inputs", "mapped", Policy>>}
          BY <1>6, <3>3
        <4> HIDE DEF m, w, news
        <4>2. /\ DOMAIN m = MigFields /\ OtherFields(m, w, {"rows"})
              /\ m.rows = w.rows \union {<<r, "mapped", Policy>> : r \in {"inputs"}}
          BY <3>1, <4>1, MappedFacts
        <4> QED BY <3>1, <4>1, <4>2 DEF OtherFields, MigFields
      <3> QED BY <3>2, <3>3
    <2>2. m.refused = mig.refused /\ m.conflicts = mig.conflicts
      BY <2>1 DEF OtherFields, MigFields
    <2> HIDE DEF m
    <2>3. Again => \A d \in DOMAIN m.writes : Holds(held, d, m.writes[d])
      BY <1>3, <2>1 DEF PlanInv, WritesHeld, Holds, Settled, InputsMade
    <2>4. ASSUME m.refused = {} PROVE RowsInv' /\ BuiltInv'
      <3> USE DEF PastIntent, PastLedger, PastObligations, PastPlan, PastEvidence, PastInputs,
                  PastDispatch, PastHistory
      <3>1. mig' = m /\ step' = "dispatch" /\ UNCHANGED <<tree, held, found>> /\ RowsInv /\ BuiltInv
        BY <1>1, <2>2, <2>4 DEF Do, PlanInv
      <3>2. /\ Seen = {"intent", "ledger", "claims", "obligations", "runs"}
            /\ Seen' = {"intent", "ledger", "claims", "obligations", "runs", "inputs"}
        BY <1>1, <3>1 DEF Seen
      <3>3. /\ \A row \in mig'.rows : row[1] \in tree'.files /\ row[1] \in Seen'
            /\ \A row, other \in mig'.rows : row[1] = other[1] => row = other
        <4>1. \A row \in news : row[1] \in tree.files /\ row[1] = "inputs"
          BY DEF Has
        <4>2. \A row, other \in news : row = other
          OBVIOUS
        <4> HIDE DEF news
        <4> QED BY <2>1, <3>1, <3>2, <4>1, <4>2, RowsKept
      <3>4. RowsInv'
        <4>1. /\ mig.rows \subseteq mig'.rows /\ mig'.skip = mig.skip /\ mig'.rebound = mig.rebound
              /\ \A r \in mig'.skip : \E row \in mig'.rows : row[1] = r
          <5> HIDE DEF news
          <5> QED BY <2>1, <3>1 DEF RowsInv, OtherFields, MigFields
        <4>2. Converted' = Converted /\ \A r : Has(r)' = Has(r)
          BY <3>1, TreeSame DEF Has
        <4>3. \A r \in {"claims", "obligations"} : Has(r) =>
                (IF Converted # {} THEN <<r, "mapped", Obligations>> ELSE <<r, "history", HistoryPath(r)>>)
                    \in mig'.rows
          BY <1>1, <3>1, <4>1 DEF RowsInv
        <4> HIDE DEF news
        <4> QED BY <1>1, <3>1, <3>3, <4>1, <4>2, <4>3 DEF RowsInv
      <3>5. /\ \A d : d \notin {Policy} => (d \in DOMAIN mig'.writes <=> d \in DOMAIN mig.writes)
            /\ \A d \in DOMAIN mig.writes : d \notin {Policy} => mig'.writes[d] = mig.writes[d]
        BY <2>1, <3>1
      <3>6. /\ Intent \notin {Policy} /\ LiveLedger \notin {Policy} /\ Obligations \notin {Policy}
            /\ PlanFile \notin {Policy}
        BY DEF Intent, LiveLedger, Obligations, PlanFile, Policy
      <3>7. /\ IntentMade(mig.writes)' /\ LedgerMade(mig.writes)' /\ ObligationsMade(mig.writes)'
            /\ PlanMade(mig.writes)' /\ Unarchived(mig.writes)' = Unarchived(mig.writes)
        BY <1>1, <3>1, <3>5, <3>6, MadeKept DEF BuiltInv
      <3>8. InputsMade(mig.writes)'
        <4>1. selected = Selection /\ policy = TreePolicy
          BY <1>3, <2>2, <2>4
        <4> QED BY <1>6, <2>1, <3>1, <4>1, TreeSame DEF InputsMade, Holds, Has, Readable
      <3>9. /\ mig'.skip = mig.skip /\ mig'.target = mig.target /\ mig'.planBlocked = mig.planBlocked
            /\ mig'.named = mig.named /\ mig'.converted = mig.converted /\ mig'.required = mig.required
            /\ mig'.tools = mig.tools
        BY <2>1, <3>1 DEF OtherFields, MigFields
      <3>10. LiveLedger \in DOMAIN held' => Holds(mig.writes, LiveLedger, held[LiveLedger])'
        BY <1>1, <3>1, <3>5, <3>6 DEF BuiltInv, Holds
      <3>11. mig'.skip = {r \in Unarchived(mig.writes)' : r \in Seen'}
        <4>1. Unarchived(mig.writes) \subseteq {"intent", "ledger"}
          BY DEF Unarchived
        <4>2. mig.skip = {r \in Unarchived(mig.writes) : r \in Seen}
          BY <3>1 DEF BuiltInv
        <4> QED BY <3>2, <3>7, <3>9, <4>1, <4>2
      <3>12. /\ Goal' = Goal /\ Converted' = Converted /\ ClaimedLayers' = ClaimedLayers
             /\ TreeTools' = TreeTools /\ Has("runs")' = Has("runs") /\ (EvidenceMade' <=> EvidenceMade)
        BY <3>1, TreeSame DEF Has
      <3> QED BY <1>1, <3>1, <3>4, <3>5, <3>6, <3>7, <3>8, <3>9, <3>10, <3>11, <3>12 DEF BuiltInv
    <2>5. Again => mig.refused = {} /\ mig.conflicts = {}
      BY DEF PlanInv
    <2> QED BY <1>1, <1>4, <2>1, <2>2, <2>3, <2>4, <2>5, DoKeeps
  <1> QED BY <1>5, <1>6

LEMMA MigrateDispatchKeeps ==
    ASSUME PlanInv, MigrateDispatch
    PROVE  PlanInv'
  <1> DEFINE route == IF DispatchFile \in DOMAIN held THEN held[DispatchFile] ELSE [of |-> "absent"]
             clash == [mig EXCEPT !.conflicts = @ \union {DispatchFile}]
             moved == [Write(mig, DispatchFile, [route EXCEPT !.target = mig.target]) EXCEPT !.adopt = TRUE]
             m == IF mig.target = "none" THEN mig
                  ELSE IF route.of = "absent" THEN
                       Write(mig, DispatchFile, [of |-> "example", target |-> mig.target])
                  ELSE IF route.of = "malformed" THEN clash
                  ELSE IF route.target = mig.target THEN Write(mig, DispatchFile, route)
                  ELSE moved
  <1>1. step = "dispatch" /\ Do("history", m)
    BY DEF MigrateDispatch
  <1>2. DOMAIN mig = MigFields
    BY DEF PlanInv
  <1>3. "history" \in ({"intent", "preflight"} \union PastIntent) \ {"ready", "blocked", "applied"}
    BY DEF PastIntent, PastLedger, PastObligations, PastPlan, PastEvidence, PastInputs, PastDispatch
  <1>4. mig.refused = {} => mig.target = Goal
    BY <1>1 DEF PlanInv, BuiltInv, PastIntent, PastLedger, PastObligations, PastPlan, PastEvidence, PastInputs
  <1>5. (Again /\ mig.target # "none") =>
            /\ route.of \notin {"absent", "malformed"} /\ route.target = mig.target
            /\ Holds(held, DispatchFile, route)
    <2> SUFFICES ASSUME Again, mig.target # "none"
                 PROVE  /\ route.of \notin {"absent", "malformed"} /\ route.target = mig.target
                        /\ Holds(held, DispatchFile, route)
      OBVIOUS
    <2>1. mig.target = Goal /\ DispatchMade(held)
      BY <1>4 DEF PlanInv, Settled
    <2>2. DispatchFile \in DOMAIN held /\ route = held[DispatchFile]
      BY <2>1 DEF DispatchMade
    <2>3. route.of \notin {"absent", "malformed"} /\ route = [of |-> route.of, target |-> Goal]
      BY <2>1, <2>2 DEF DispatchMade
    <2> HIDE DEF route
    <2>4. route.target = Goal
      BY <2>3
    <2> QED BY <2>1, <2>2, <2>3, <2>4 DEF Holds
  <1>6. route.of \notin {"absent", "malformed"} =>
            route = [of |-> route.of, target |-> route.target]
    <2> SUFFICES ASSUME route.of \notin {"absent", "malformed"}
                 PROVE  route = [of |-> route.of, target |-> route.target]
      OBVIOUS
    <2>1. DispatchFile \in DOMAIN held /\ route = held[DispatchFile]
      OBVIOUS
    <2> HIDE DEF route
    <2> QED BY <2>1 DEF PlanInv, RouteShaped
  <1>7. /\ DOMAIN m = MigFields
        /\ OtherFields(m, mig, {"writes", "conflicts", "adopt"})
        /\ \A d : d # DispatchFile => (d \in DOMAIN m.writes <=> d \in DOMAIN mig.writes)
        /\ \A d \in DOMAIN mig.writes : d # DispatchFile => m.writes[d] = mig.writes[d]
        /\ mig.conflicts \subseteq m.conflicts
        /\ (Again => m.conflicts = mig.conflicts
                        /\ (m.writes = mig.writes \/ Holds(held, DispatchFile, m.writes[DispatchFile])))
        /\ (mig.target # "none" /\ m.conflicts = {}) =>
             /\ DispatchFile \in DOMAIN m.writes
             /\ m.writes[DispatchFile].of \notin {"absent", "malformed"}
             /\ m.writes[DispatchFile] = [of |-> m.writes[DispatchFile].of, target |-> mig.target]
    <2>1. CASE mig.target = "none"
      <3>1. m = mig
        BY <2>1
      <3> HIDE DEF m
      <3> QED BY <1>2, <2>1, <3>1 DEF OtherFields
    <2>2. CASE mig.target # "none" /\ route.of = "absent"
      <3> DEFINE example == [of |-> "example", target |-> mig.target]
      <3>1. m = Write(mig, DispatchFile, example) /\ ~Again
        BY <1>5, <2>2 DEF PlanInv
      <3>2. example.of = "example" /\ example = [of |-> example.of, target |-> mig.target]
        OBVIOUS
      <3> HIDE DEF m, example, route
      <3>3. /\ DOMAIN m = MigFields /\ OtherFields(m, mig, {"writes"})
            /\ DOMAIN m.writes = DOMAIN mig.writes \union {DispatchFile}
            /\ m.writes[DispatchFile] = example
            /\ \A d \in DOMAIN mig.writes : d # DispatchFile => m.writes[d] = mig.writes[d]
        BY <1>2, <3>1, WriteFacts
      <3>4. m.conflicts = mig.conflicts /\ OtherFields(m, mig, {"writes", "conflicts", "adopt"})
        BY <3>3 DEF OtherFields, MigFields
      <3> QED BY <3>1, <3>2, <3>3, <3>4
    <2>3. CASE mig.target # "none" /\ route.of = "malformed"
      <3>1. m = clash /\ ~Again
        BY <1>5, <2>3 DEF PlanInv
      <3>2. /\ DOMAIN clash = MigFields /\ OtherFields(clash, mig, {"conflicts"})
            /\ clash.conflicts = mig.conflicts \union {DispatchFile}
        BY <1>2 DEF OtherFields, MigFields
      <3> HIDE DEF m, clash, route
      <3>3. clash.writes = mig.writes /\ OtherFields(m, mig, {"writes", "conflicts", "adopt"})
        BY <3>1, <3>2 DEF OtherFields, MigFields
      <3> QED BY <3>1, <3>2, <3>3
    <2>4. CASE mig.target # "none" /\ route.of \notin {"absent", "malformed"} /\ route.target = mig.target
      <3>1. m = Write(mig, DispatchFile, route)
        BY <2>4
      <3>2. route = [of |-> route.of, target |-> mig.target]
        <4> HIDE DEF route
        <4> QED BY <1>6, <2>4
      <3> HIDE DEF m, route
      <3>3. /\ DOMAIN m = MigFields /\ OtherFields(m, mig, {"writes"})
            /\ DOMAIN m.writes = DOMAIN mig.writes \union {DispatchFile}
            /\ m.writes[DispatchFile] = route
            /\ \A d \in DOMAIN mig.writes : d # DispatchFile => m.writes[d] = mig.writes[d]
        BY <1>2, <3>1, WriteFacts
      <3>4. m.conflicts = mig.conflicts /\ OtherFields(m, mig, {"writes", "conflicts", "adopt"})
        BY <3>3 DEF OtherFields, MigFields
      <3> QED BY <1>5, <2>4, <3>2, <3>3, <3>4
    <2>5. CASE mig.target # "none" /\ route.of \notin {"absent", "malformed"} /\ route.target # mig.target
      <3> DEFINE turned == [route EXCEPT !.target = mig.target]
                 w == Write(mig, DispatchFile, turned)
      <3>1. m = [w EXCEPT !.adopt = TRUE] /\ ~Again
        BY <1>5, <2>5 DEF PlanInv
      <3>2. turned.of = route.of /\ turned = [of |-> turned.of, target |-> mig.target]
        <4>1. route = [of |-> route.of, target |-> route.target]
          BY <1>6, <2>5, <3>1
        <4> HIDE DEF route
        <4> QED BY <4>1
      <3> HIDE DEF m, turned, route
      <3>3. /\ DOMAIN w = MigFields /\ OtherFields(w, mig, {"writes"})
            /\ DOMAIN w.writes = DOMAIN mig.writes \union {DispatchFile}
            /\ w.writes[DispatchFile] = turned
            /\ \A d \in DOMAIN mig.writes : d # DispatchFile => w.writes[d] = mig.writes[d]
        BY <1>2, WriteFacts
      <3> HIDE DEF w
      <3>4. DOMAIN m = MigFields /\ OtherFields(m, w, {"adopt"})
        BY <3>1, <3>3 DEF OtherFields, MigFields
      <3>5. /\ m.conflicts = mig.conflicts /\ m.writes = w.writes
            /\ OtherFields(m, mig, {"writes", "conflicts", "adopt"})
        BY <3>3, <3>4 DEF OtherFields, MigFields
      <3> QED BY <2>5, <3>1, <3>2, <3>3, <3>4, <3>5
    <2> QED BY <2>1, <2>2, <2>3, <2>4, <2>5
  <1> HIDE DEF m
  <1>8. m.refused = mig.refused
    BY <1>7 DEF OtherFields, MigFields
  <1>9. Again => \A d \in DOMAIN m.writes : Holds(held, d, m.writes[d])
    BY <1>7 DEF PlanInv, WritesHeld, Holds
  <1>10. ASSUME m.refused = {} PROVE RowsInv' /\ BuiltInv'
    <2> USE DEF PastIntent, PastLedger, PastObligations, PastPlan, PastEvidence, PastInputs,
                PastDispatch, PastHistory
    <2>1. mig' = m /\ step' = "history" /\ UNCHANGED <<tree, held, found>> /\ RowsInv /\ BuiltInv
      BY <1>1, <1>8, <1>10 DEF Do, PlanInv
    <2>2. Seen' = Seen
      BY <1>1, <2>1 DEF Seen
    <2>3. /\ mig'.skip = mig.skip /\ mig'.target = mig.target /\ mig'.planBlocked = mig.planBlocked
          /\ mig'.named = mig.named /\ mig'.converted = mig.converted /\ mig'.required = mig.required
          /\ mig'.tools = mig.tools /\ mig'.rows = mig.rows /\ mig'.rebound = mig.rebound
      BY <1>7, <2>1 DEF OtherFields, MigFields
    <2>4. RowsInv'
      BY <1>1, <2>1, <2>2, <2>3, TreeSame DEF RowsInv, Has
    <2>5. /\ \A d : d \notin {DispatchFile} => (d \in DOMAIN mig'.writes <=> d \in DOMAIN mig.writes)
          /\ \A d \in DOMAIN mig.writes : d \notin {DispatchFile} => mig'.writes[d] = mig.writes[d]
      BY <1>7, <2>1
    <2>6. /\ Intent \notin {DispatchFile} /\ LiveLedger \notin {DispatchFile}
          /\ Obligations \notin {DispatchFile} /\ PlanFile \notin {DispatchFile} /\ Policy \notin {DispatchFile}
      BY DEF Intent, LiveLedger, Obligations, PlanFile, Policy, DispatchFile
    <2>7. /\ IntentMade(mig.writes)' /\ LedgerMade(mig.writes)' /\ ObligationsMade(mig.writes)'
          /\ PlanMade(mig.writes)' /\ InputsMade(mig.writes)'
          /\ Unarchived(mig.writes)' = Unarchived(mig.writes)
      BY <1>1, <2>1, <2>5, <2>6, MadeKept DEF BuiltInv
    <2>8. mig'.conflicts = {} => DispatchMade(mig.writes)'
      BY <1>4, <1>7, <1>8, <1>10, <2>1, TreeSame DEF DispatchMade
    <2>9. LiveLedger \in DOMAIN held' => Holds(mig.writes, LiveLedger, held[LiveLedger])'
      BY <1>1, <2>1, <2>5, <2>6 DEF BuiltInv, Holds
    <2>10. /\ Goal' = Goal /\ Converted' = Converted /\ ClaimedLayers' = ClaimedLayers
           /\ TreeTools' = TreeTools /\ Has("runs")' = Has("runs") /\ (EvidenceMade' <=> EvidenceMade)
      BY <2>1, TreeSame DEF Has
    <2>11. BuiltInv'
      BY <1>1, <2>1, <2>2, <2>3, <2>5, <2>6, <2>7, <2>8, <2>9, <2>10 DEF BuiltInv
    <2> QED BY <2>4, <2>11
  <1>11. Again => mig.refused = {} /\ mig.conflicts = {}
    BY DEF PlanInv
  <1> QED BY <1>1, <1>3, <1>7, <1>8, <1>9, <1>10, <1>11, DoKeeps

LEMMA PreserveHistoryKeeps ==
    ASSUME PlanInv, PreserveHistory
    PROVE  PlanInv'
  <1> DEFINE kept    == {r \in tree.files \ mig.skip : Readable(r)}
             written == [mig EXCEPT !.writes = Over(Archived(kept), @)]
             rowed   == Kept(written, kept \ Classified)
             m == IF (tree.files \ mig.skip) \subseteq kept THEN rowed ELSE Refuse(rowed, "history")
             news == {<<r, "history", HistoryPath(r)>> : r \in kept \ Classified}
             paths == {HistoryPath(r) : r \in Roles}
  <1>1. step = "history" /\ Do("preflight", m)
    BY DEF PreserveHistory
  <1>2. DOMAIN mig = MigFields /\ tree \in Trees
    BY DEF PlanInv
  <1>3. "preflight" \in ({"intent", "preflight"} \union PastIntent) \ {"ready", "blocked", "applied"}
    OBVIOUS
  <1>4. tree.files \subseteq Roles /\ kept \subseteq Roles
    BY <1>2, TreesAssumption
  <1>5. /\ DOMAIN Archived(kept) = {HistoryPath(r) : r \in kept}
        /\ \A r \in kept : Archived(kept)[HistoryPath(r)] = Bytes(r)
    <2> HIDE DEF kept
    <2>1. \A r \in kept : (CHOOSE s \in kept : HistoryPath(s) = HistoryPath(r)) = r
      BY <1>4, TreesAssumption
    <2> QED BY <2>1 DEF Archived
  <1>6. /\ DOMAIN rowed = MigFields /\ OtherFields(rowed, mig, {"writes", "rows"})
        /\ rowed.rows = mig.rows \union news
        /\ DOMAIN rowed.writes = DOMAIN mig.writes \union {HistoryPath(r) : r \in kept}
        /\ \A r \in kept : rowed.writes[HistoryPath(r)] = Bytes(r)
        /\ \A d \in DOMAIN mig.writes : d \notin paths => rowed.writes[d] = mig.writes[d]
    <2> HIDE DEF kept, paths
    <2>1. /\ DOMAIN written = MigFields /\ OtherFields(written, mig, {"writes"})
          /\ written.writes = Over(Archived(kept), mig.writes)
      BY <1>2 DEF OtherFields, MigFields
    <2>2. /\ DOMAIN Over(Archived(kept), mig.writes) = DOMAIN mig.writes \union {HistoryPath(r) : r \in kept}
          /\ \A r \in kept : Over(Archived(kept), mig.writes)[HistoryPath(r)] = Bytes(r)
      BY <1>5 DEF Over
    <2>3. \A d \in DOMAIN mig.writes : d \notin paths => Over(Archived(kept), mig.writes)[d] = mig.writes[d]
      BY <1>4, <1>5 DEF Over, paths
    <2> HIDE DEF written
    <2>4. /\ DOMAIN rowed = MigFields /\ OtherFields(rowed, written, {"rows"})
          /\ rowed.rows = written.rows \union news
      BY <2>1, KeptFacts
    <2> HIDE DEF rowed, news
    <2>5. rowed.writes = written.writes /\ written.rows = mig.rows
          /\ OtherFields(rowed, mig, {"writes", "rows"})
      BY <2>1, <2>4 DEF OtherFields, MigFields
    <2> QED BY <2>1, <2>2, <2>3, <2>4, <2>5
  <1>7. CASE ~((tree.files \ mig.skip) \subseteq kept)
    <2>1. m = Refuse(rowed, "history")
      BY <1>7
    <2> HIDE DEF m, rowed
    <2>2. DOMAIN m = MigFields /\ m.refused # {}
      BY <1>6, <2>1, RefuseFacts
    <2>3. ~Again
      <3> SUFFICES ASSUME Again PROVE FALSE
        OBVIOUS
      <3> USE DEF PastIntent, PastLedger, PastObligations, PastPlan, PastEvidence, PastInputs, PastDispatch
      <3>1. BuiltInv /\ HistoryMade(held) /\ LedgerMade(mig.writes) /\ WritesHeld
        BY <1>1 DEF PlanInv, Settled, BuiltInv
      <3>2. Unarchived(held) \subseteq mig.skip
        <4>1. Unarchived(held) \subseteq Unarchived(mig.writes)
          BY <3>1 DEF Unarchived, WritesHeld, Holds, LedgerMade, Has
        <4>2. Unarchived(mig.writes) \subseteq Seen
          BY <1>1 DEF Unarchived, Seen
        <4> QED BY <3>1, <4>1, <4>2 DEF BuiltInv
      <3> QED BY <1>7, <3>1, <3>2 DEF HistoryMade
    <2> QED BY <1>1, <1>3, <2>2, <2>3, DoKeeps
  <1>8. CASE (tree.files \ mig.skip) \subseteq kept
    <2>1. m = rowed
      BY <1>8
    <2> HIDE DEF m, rowed
    <2>2. m.refused = mig.refused /\ m.conflicts = mig.conflicts
      BY <1>6, <2>1 DEF OtherFields, MigFields
    <2>3. mig.refused = {} => mig.skip = Unarchived(mig.writes)
      <3> USE DEF PastIntent, PastLedger, PastObligations, PastPlan, PastEvidence, PastInputs, PastDispatch
      <3>1. Unarchived(mig.writes) \subseteq Seen
        BY <1>1 DEF Unarchived, Seen
      <3> QED BY <3>1 DEF PlanInv, BuiltInv
    <2>4. Again => \A d \in DOMAIN m.writes : Holds(held, d, m.writes[d])
      <3> SUFFICES ASSUME Again, NEW d \in DOMAIN m.writes PROVE Holds(held, d, m.writes[d])
        OBVIOUS
      <3> USE DEF PastIntent, PastLedger, PastObligations, PastPlan, PastEvidence, PastInputs, PastDispatch
      <3>1. BuiltInv /\ HistoryMade(held) /\ LedgerMade(mig.writes) /\ WritesHeld
        BY <1>1 DEF PlanInv, Settled, BuiltInv
      <3>2. CASE d \in {HistoryPath(r) : r \in kept}
        <4>1. PICK r \in kept : d = HistoryPath(r)
          BY <3>2
        <4>2. Unarchived(held) \subseteq Unarchived(mig.writes)
          BY <3>1 DEF Unarchived, WritesHeld, Holds, LedgerMade, Has
        <4>3. r \in tree.files \ Unarchived(held)
          BY <2>3, <4>1, <4>2 DEF PlanInv
        <4>4. Holds(held, HistoryPath(r), Bytes(r)) /\ m.writes[HistoryPath(r)] = Bytes(r)
          BY <1>6, <2>1, <3>1, <4>1, <4>3 DEF HistoryMade
        <4> QED BY <4>1, <4>4
      <3>3. CASE d \notin {HistoryPath(r) : r \in kept}
        <4>1. d \in DOMAIN mig.writes
          BY <1>6, <2>1, <3>3
        <4>2. m.writes[d] = mig.writes[d]
          <5>1. m.writes = Over(Archived(kept), mig.writes)
            <6> DEFINE full == Over(Archived(kept), mig.writes)
            <6>1. /\ DOMAIN written = MigFields /\ written.writes = full
              BY <1>2 DEF MigFields
            <6> HIDE DEF written, full
            <6>2. rowed.writes = written.writes
              BY <6>1, KeptFacts DEF rowed, OtherFields, MigFields
            <6> QED BY <2>1, <6>1, <6>2 DEF full
          <5> HIDE DEF kept
          <5> QED BY <1>5, <3>3, <4>1, <5>1 DEF Over
        <4> QED BY <3>1, <4>1, <4>2 DEF WritesHeld
      <3> QED BY <3>2, <3>3
    <2>5. ASSUME m.refused = {} PROVE RowsInv' /\ BuiltInv'
      <3> USE DEF PastIntent, PastLedger, PastObligations, PastPlan, PastEvidence, PastInputs,
                  PastDispatch, PastHistory
      <3>1. mig' = m /\ step' = "preflight" /\ UNCHANGED <<tree, held, found>> /\ RowsInv /\ BuiltInv
        BY <1>1, <2>2, <2>5 DEF Do, PlanInv
      <3>2. Seen \subseteq Seen' /\ Roles \subseteq Seen'
        BY <1>1, <3>1 DEF Seen
      <3>3. /\ \A row \in mig'.rows : row[1] \in tree'.files /\ row[1] \in Seen'
            /\ \A row, other \in mig'.rows : row[1] = other[1] => row = other
        <4>1. \A row \in news : row[1] \in tree.files /\ row[1] \in Roles /\ row[1] \notin Classified
          BY <1>4
        <4>2. \A row, other \in news : row[1] = other[1] => row = other
          OBVIOUS
        <4>3. mig'.rows = mig.rows \union news
          BY <1>6, <2>1, <3>1
        <4> HIDE DEF news
        <4> QED BY <3>1, <3>2, <4>1, <4>2, <4>3, RowsKept
      <3>4. /\ mig'.skip = mig.skip /\ mig'.target = mig.target /\ mig'.planBlocked = mig.planBlocked
            /\ mig'.named = mig.named /\ mig'.converted = mig.converted /\ mig'.required = mig.required
            /\ mig'.tools = mig.tools /\ mig'.rebound = mig.rebound /\ mig.rows \subseteq mig'.rows
            /\ mig'.conflicts = mig.conflicts
        <4> HIDE DEF news
        <4> QED BY <1>6, <2>1, <3>1 DEF OtherFields, MigFields
      <3>5. \A r \in tree.files : \E row \in mig'.rows : row[1] = r
        <4> SUFFICES ASSUME NEW r \in tree.files PROVE \E row \in mig'.rows : row[1] = r
          OBVIOUS
        <4>1. CASE r \in mig.skip
          BY <3>1, <3>4, <4>1 DEF RowsInv
        <4>2. CASE r \in Classified
          BY <3>4, <4>2 DEF Classified
        <4>3. CASE r \notin mig.skip /\ r \notin Classified
          <5>1. r \in kept \ Classified
            BY <1>8, <4>3
          <5>2. <<r, "history", HistoryPath(r)>> \in mig'.rows
            BY <1>6, <2>1, <3>1, <5>1
          <5> QED BY <5>2
        <4> QED BY <4>1, <4>2, <4>3
      <3>6. RowsInv'
        <4>1. \A r \in mig'.skip : \E row \in mig'.rows : row[1] = r
          BY <3>1, <3>4 DEF RowsInv
        <4>2. Converted' = Converted /\ \A r : Has(r)' = Has(r)
          BY <3>1, TreeSame DEF Has
        <4>3. \A r \in {"claims", "obligations"} : Has(r) =>
                (IF Converted # {} THEN <<r, "mapped", Obligations>> ELSE <<r, "history", HistoryPath(r)>>)
                    \in mig'.rows
          BY <1>1, <3>1, <3>4 DEF RowsInv
        <4>4. Has("runs") => <<"runs", "mapped", PlanFile>> \in mig'.rows
          BY <1>1, <3>1, <3>4 DEF RowsInv
        <4>5. Has("ledger") /\ "ledger" \notin DOMAIN mig'.rebound => <<"ledger", "mapped", LiveLedger>> \in mig'.rows
          BY <1>1, <3>1, <3>4 DEF RowsInv
        <4> QED BY <3>1, <3>3, <3>4, <4>1, <4>2, <4>3, <4>4, <4>5 DEF RowsInv
      <3>7. /\ \A d : d \notin paths => (d \in DOMAIN mig'.writes <=> d \in DOMAIN mig.writes)
            /\ \A d \in DOMAIN mig.writes : d \notin paths => mig'.writes[d] = mig.writes[d]
        <4>1. {HistoryPath(r) : r \in kept} \subseteq paths
          BY <1>4
        <4> HIDE DEF kept, paths
        <4> QED BY <1>6, <2>1, <3>1, <4>1
      <3>8. /\ Intent \notin paths /\ LiveLedger \notin paths /\ Obligations \notin paths
            /\ PlanFile \notin paths /\ Policy \notin paths /\ DispatchFile \notin paths
        BY TreesAssumption
      <3> HIDE DEF paths
      <3>9. /\ IntentMade(mig.writes)' /\ LedgerMade(mig.writes)' /\ ObligationsMade(mig.writes)'
            /\ PlanMade(mig.writes)' /\ InputsMade(mig.writes)'
            /\ (mig.conflicts = {} => DispatchMade(mig.writes)')
            /\ Unarchived(mig.writes)' = Unarchived(mig.writes)
        BY <1>1, <3>1, <3>7, <3>8, MadeKept DEF BuiltInv
      <3>10. HistoryMade(mig.writes)'
        <4>1. \A r \in tree.files \ Unarchived(mig.writes) :
                 r \in kept /\ Readable(r) /\ Holds(mig'.writes, HistoryPath(r), Bytes(r))
          <5>1. \A r \in kept : Readable(r) /\ HistoryPath(r) \in DOMAIN m.writes
                                /\ m.writes[HistoryPath(r)] = Bytes(r)
            BY <1>6, <2>1
          <5>2. tree.files \ Unarchived(mig.writes) \subseteq kept
            BY <1>8, <2>2, <2>3, <2>5
          <5> HIDE DEF kept
          <5> QED BY <3>1, <5>1, <5>2 DEF Holds
        <4> QED BY <3>1, <3>9, <4>1 DEF HistoryMade, Readable, Holds
      <3>11. LiveLedger \in DOMAIN held' => Holds(mig.writes, LiveLedger, held[LiveLedger])'
        BY <1>1, <3>1, <3>7, <3>8 DEF BuiltInv, Holds
      <3>12. mig'.skip = {r \in Unarchived(mig.writes)' : r \in Seen'}
        <4>1. Unarchived(mig.writes) \subseteq Roles
          BY <1>4 DEF Unarchived
        <4> QED BY <2>2, <2>3, <2>5, <3>2, <3>4, <3>9, <4>1
      <3>13. /\ Goal' = Goal /\ Converted' = Converted /\ ClaimedLayers' = ClaimedLayers
             /\ TreeTools' = TreeTools /\ Has("runs")' = Has("runs") /\ (EvidenceMade' <=> EvidenceMade)
        BY <3>1, TreeSame DEF Has
      <3>14. BuiltInv'
        BY <1>1, <3>1, <3>4, <3>5, <3>7, <3>8, <3>9, <3>10, <3>11, <3>12, <3>13 DEF BuiltInv
      <3> QED BY <3>6, <3>14
    <2>6. Again => mig.refused = {} /\ mig.conflicts = {}
      BY DEF PlanInv
    <2> QED BY <1>1, <1>3, <1>6, <2>1, <2>2, <2>4, <2>5, <2>6, DoKeeps
  <1> QED BY <1>7, <1>8

\* The second pass finds every destination as it would write it.
LEMMA PreflightKeeps ==
    ASSUME PlanInv, Preflight
    PROVE  PlanInv'
  <1> USE DEF PastIntent, PastLedger, PastObligations, PastPlan, PastEvidence, PastInputs,
              PastDispatch, PastHistory
  <1> DEFINE clashes == (Differs \intersect DOMAIN held) \ (IF mig.adopt THEN {DispatchFile} ELSE {})
             m == [mig EXCEPT !.conflicts = @ \union clashes]
  <1>1. /\ step = "preflight" /\ mig' = m /\ UNCHANGED <<tree, held, found, pass>>
        /\ step' = IF m.refused = {} /\ m.conflicts = {} THEN "ready" ELSE "blocked"
    BY DEF Preflight, Do
  <1>2. DOMAIN mig = MigFields
    BY DEF PlanInv
  <1>3. /\ DOMAIN m = MigFields /\ OtherFields(m, mig, {"conflicts"})
        /\ m.conflicts = mig.conflicts \union clashes
    BY <1>2 DEF OtherFields, MigFields
  <1> HIDE DEF m
  <1>4. Again => m.conflicts = {} /\ mig.refused = {}
    BY <1>3 DEF PlanInv, WritesHeld, Holds, Differs
  <1> HIDE DEF clashes
  <1>5. /\ m.writes = mig.writes /\ m.rows = mig.rows /\ m.skip = mig.skip /\ m.refused = mig.refused
        /\ m.target = mig.target /\ m.rebound = mig.rebound /\ m.named = mig.named
        /\ m.required = mig.required /\ m.converted = mig.converted /\ m.tools = mig.tools
        /\ m.planBlocked = mig.planBlocked
    BY <1>3 DEF OtherFields, MigFields
  <1>6. Seen' = Seen
    BY <1>1 DEF Seen
  <1>7. RowsInv => RowsInv'
    BY <1>1, <1>5, <1>6, TreeSame DEF RowsInv, Has
  <1>8. BuiltInv => BuiltInv'
    <2> SUFFICES ASSUME BuiltInv PROVE BuiltInv'
      OBVIOUS
    <2> DEFINE none == {}
    <2>1. /\ \A d : d \notin none => (d \in DOMAIN mig'.writes <=> d \in DOMAIN mig.writes)
          /\ \A d \in DOMAIN mig.writes : d \notin none => mig'.writes[d] = mig.writes[d]
          /\ Intent \notin none /\ LiveLedger \notin none /\ Obligations \notin none
          /\ PlanFile \notin none /\ Policy \notin none /\ DispatchFile \notin none
      BY <1>1, <1>5
    <2> HIDE DEF none
    <2>2. /\ IntentMade(mig.writes)' /\ LedgerMade(mig.writes)' /\ ObligationsMade(mig.writes)'
          /\ PlanMade(mig.writes)' /\ InputsMade(mig.writes)'
          /\ (mig.conflicts = {} => DispatchMade(mig.writes)')
          /\ Unarchived(mig.writes)' = Unarchived(mig.writes)
      BY <1>1, <2>1, MadeKept DEF BuiltInv
    <2>3. HistoryMade(mig.writes)'
      BY <1>1, <1>5, <2>2 DEF BuiltInv, HistoryMade, Readable, Holds
    <2>4. mig'.conflicts = {} => mig.conflicts = {}
      BY <1>1, <1>3
    <2>5. /\ Goal' = Goal /\ Converted' = Converted /\ ClaimedLayers' = ClaimedLayers
          /\ TreeTools' = TreeTools /\ Has("runs")' = Has("runs") /\ (EvidenceMade' <=> EvidenceMade)
      BY <1>1, TreeSame DEF Has
    <2>6. LiveLedger \in DOMAIN held' => Holds(mig.writes, LiveLedger, held[LiveLedger])'
      BY <1>1, <1>5 DEF BuiltInv, Holds
    <2> QED BY <1>1, <1>5, <1>6, <2>2, <2>3, <2>4, <2>5, <2>6 DEF BuiltInv
  <1>9. (Settled' <=> Settled) /\ (Again' <=> Again) /\ (RouteShaped' <=> RouteShaped)
    BY <1>1, SettledSame, AgainSame DEF RouteShaped
  <1> QED BY <1>1, <1>3, <1>4, <1>5, <1>7, <1>8, <1>9 DEF PlanInv, WritesHeld, Holds

\* What is elected is a path.
LEMMA GoalGiven == ASSUME tree \in Trees PROVE Goal # "none"
  <1>1. \A r \in {"intent", "ledger"} : "none" \notin tree.cites[r]
    BY TreesAssumption
  <1>2. "none" \notin Cited("intent", found) /\ "none" \notin Cited("ledger", found)
    BY <1>1 DEF Cited
  <1> DEFINE deciding == IF Cited("intent", found) # {} THEN Cited("intent", found)
                                                        ELSE Cited("ledger", found)
  <1>3. "none" \notin deciding
    BY <1>2
  <1>4. Elected = CASE deciding = {} -> "silent"
                    [] Cardinality(deciding) > 1 -> "ambiguous"
                    [] OTHER -> CHOOSE spec \in deciding : TRUE
    BY DEF Elected, ElectedOver
  <1> HIDE DEF deciding
  <1>5. CASE deciding = {}
    BY <1>4, <1>5 DEF Goal, Intent
  <1>6. CASE deciding # {} /\ Cardinality(deciding) > 1
    BY <1>4, <1>6 DEF Goal
  <1>7. CASE deciding # {} /\ ~(Cardinality(deciding) > 1)
    <2>1. Elected \in deciding
      BY <1>4, <1>7
    <2> QED BY <1>3, <2>1 DEF Goal, Intent
  <1> QED BY <1>5, <1>6, <1>7

\* What is applied is what the tree asks for.
LEMMA ApplyAllKeeps ==
    ASSUME PlanInv, ApplyAll
    PROVE  PlanInv'
  <1> USE DEF PastIntent, PastLedger, PastObligations, PastPlan, PastEvidence, PastInputs,
              PastDispatch, PastHistory
  <1>1. /\ step = "ready" /\ step' = "applied" /\ held' = Over(mig.writes, held)
        /\ UNCHANGED <<tree, found, pass, mig>> /\ RowsInv /\ BuiltInv /\ mig.conflicts = {} /\ mig.refused = {}
    BY DEF ApplyAll, PlanInv
  <1>2. /\ \A d \in DOMAIN mig.writes : Holds(held', d, mig.writes[d])
        /\ \A d \in DOMAIN held' : d \in DOMAIN mig.writes \/ d \in DOMAIN held
    BY <1>1 DEF Over, Holds
  <1>3. LiveLedger \in DOMAIN held' => LiveLedger \in DOMAIN mig.writes
    BY <1>1, <1>2 DEF BuiltInv, Holds
  <1>4. Settled'
    <2>1. IntentMade(held)' /\ LedgerMade(held)'
      BY <1>1, <1>2, <1>3, TreeSame DEF BuiltInv, IntentMade, LedgerMade, Has, Readable, Holds, GatePassed
    <2>2. ObligationsMade(held)' /\ PlanMade(held)'
      BY <1>1, <1>2, TreeSame DEF BuiltInv, ObligationsMade, PlanMade, Has, Holds
    <2>3. InputsMade(held)'
      BY <1>1, <1>2, TreeSame DEF BuiltInv, InputsMade, Has, Readable, Holds
    <2>4. DispatchMade(held)'
      BY <1>1, <1>2, TreeSame DEF BuiltInv, DispatchMade, Holds
    <2>5. HistoryMade(held)'
      <3>1. Unarchived(held)' = Unarchived(mig.writes)
        BY <1>1, <1>2, <1>3, TreeSame DEF Unarchived, Holds
      <3>2. HistoryMade(mig.writes)
        BY <1>1 DEF BuiltInv
      <3> QED BY <1>1, <1>2, <3>1, <3>2 DEF HistoryMade, Readable, Holds
    <2> QED BY <1>1, <2>1, <2>2, <2>3, <2>4, <2>5, TreeSame DEF BuiltInv, Settled
  <1>5. Seen' = Seen
    BY <1>1 DEF Seen
  <1>6. RowsInv'
    BY <1>1, <1>5, TreeSame DEF RowsInv, Has
  <1>7. BuiltInv'
    <2> DEFINE none == {}
    <2>1. /\ \A d : d \notin none => (d \in DOMAIN mig'.writes <=> d \in DOMAIN mig.writes)
          /\ \A d \in DOMAIN mig.writes : d \notin none => mig'.writes[d] = mig.writes[d]
          /\ Intent \notin none /\ LiveLedger \notin none /\ Obligations \notin none
          /\ PlanFile \notin none /\ Policy \notin none /\ DispatchFile \notin none
      BY <1>1
    <2> HIDE DEF none
    <2>2. /\ IntentMade(mig.writes)' /\ LedgerMade(mig.writes)' /\ ObligationsMade(mig.writes)'
          /\ PlanMade(mig.writes)' /\ InputsMade(mig.writes)' /\ DispatchMade(mig.writes)'
          /\ Unarchived(mig.writes)' = Unarchived(mig.writes)
      BY <1>1, <2>1, MadeKept DEF BuiltInv
    <2>3. HistoryMade(mig.writes)'
      BY <1>1, <2>2 DEF BuiltInv, HistoryMade, Readable, Holds
    <2>4. /\ Goal' = Goal /\ Converted' = Converted /\ ClaimedLayers' = ClaimedLayers
          /\ TreeTools' = TreeTools /\ Has("runs")' = Has("runs") /\ (EvidenceMade' <=> EvidenceMade)
      BY <1>1, TreeSame DEF Has
    <2>5. LiveLedger \in DOMAIN held' => Holds(mig.writes, LiveLedger, held[LiveLedger])'
      BY <1>1, <1>2, <1>3 DEF Holds
    <2> QED BY <1>1, <1>5, <2>2, <2>3, <2>4, <2>5 DEF BuiltInv
  <1>8. Again' <=> Again
    BY <1>1, AgainSame
  <1>9. RouteShaped'
    <2>1. Goal # "none" /\ DispatchMade(mig.writes)
      BY <1>1, GoalGiven DEF PlanInv, BuiltInv
    <2>2. Holds(held', DispatchFile, mig.writes[DispatchFile])
      BY <1>2, <2>1 DEF DispatchMade
    <2> DEFINE route == mig.writes[DispatchFile]
    <2>3. route.of # "absent" /\ route = [of |-> route.of, target |-> Goal]
      BY <2>1 DEF DispatchMade
    <2>4. held'[DispatchFile] = route
      BY <2>2 DEF Holds
    <2> HIDE DEF route
    <2>5. route.target = Goal
      BY <2>3
    <2> QED BY <2>3, <2>4, <2>5 DEF RouteShaped
  <1> QED BY <1>1, <1>2, <1>4, <1>6, <1>7, <1>8, <1>9 DEF PlanInv, WritesHeld, Holds

LEMMA RunAgainKeeps ==
    ASSUME PlanInv, RunAgain
    PROVE  PlanInv'
  <1>1. /\ step = "applied" /\ pass = 1 /\ pass' = 2 /\ step' = "scan" /\ mig' = Fresh
        /\ UNCHANGED <<tree, held>>
    BY DEF RunAgain
  <1>2. Again' => Settled'
    <2> SUFFICES ASSUME SameTarget' PROVE Settled'
      BY DEF Again
    <2>1. ElectedOver(DOMAIN tree.fv)' = ElectedOver(DOMAIN tree.fv)
      BY <1>1 DEF ElectedOver, Cited, Has, Readable
    <2>2. Elected' = Elected
      BY <1>1, <2>1 DEF SameTarget, PlanInv, Elected
    <2> QED BY <1>1, <2>2, SettledKept DEF PlanInv
  <1>3. RowsInv' /\ BuiltInv'
    <2>1. ((mig = Fresh /\ (step = "scan" \/ (step = "intent" /\ ~tree.irregular))) => RowsInv /\ BuiltInv)'
      BY FreshInv, PTL
    <2> QED BY <1>1, <2>1
  <1>4. DOMAIN Fresh = MigFields /\ Fresh.refused = {} /\ Fresh.conflicts = {} /\ DOMAIN Fresh.writes = {}
    BY DEF Fresh, MigFields
  <1>5. RouteShaped'
    BY <1>1 DEF RouteShaped, PlanInv
  <1> QED BY <1>1, <1>2, <1>3, <1>4, <1>5 DEF PlanInv, WritesHeld

LEMMA PlanNextKeeps ==
    ASSUME PlanInv, [PlanNext]_planVars
    PROVE  PlanInv'
  <1>1. CASE PlanNext
    BY <1>1, ScanKeeps, MigrateIntentKeeps, MigrateLedgerKeeps, MigrateObligationsKeeps, MigratePlanKeeps,
       CheckRequiredEvidenceKeeps, MigrateVerifiedInputsKeeps, MigrateDispatchKeeps, PreserveHistoryKeeps,
       PreflightKeeps, ApplyAllKeeps, RunAgainKeeps DEF PlanNext
  <1>2. CASE UNCHANGED planVars
    <2>1. UNCHANGED <<tree, held, found, pass, step, mig>>
      BY <1>2 DEF planVars
    <2>2. (Settled' <=> Settled) /\ (Again' <=> Again) /\ (RouteShaped' <=> RouteShaped)
      BY <2>1, SettledSame, AgainSame DEF RouteShaped
    <2>3. Seen' = Seen
      BY <2>1 DEF Seen
    <2>4. RowsInv' <=> RowsInv
      BY <2>1, <2>3, TreeSame DEF RowsInv, Has
    <2>5. BuiltInv' <=> BuiltInv
      <3> DEFINE none == {}
      <3>1. /\ \A d : d \notin none => (d \in DOMAIN mig'.writes <=> d \in DOMAIN mig.writes)
            /\ \A d \in DOMAIN mig.writes : d \notin none => mig'.writes[d] = mig.writes[d]
            /\ Intent \notin none /\ LiveLedger \notin none /\ Obligations \notin none
            /\ PlanFile \notin none /\ Policy \notin none /\ DispatchFile \notin none
        BY <2>1
      <3> HIDE DEF none
      <3>2. /\ IntentMade(mig.writes)' <=> IntentMade(mig.writes)
            /\ LedgerMade(mig.writes)' <=> LedgerMade(mig.writes)
            /\ ObligationsMade(mig.writes)' <=> ObligationsMade(mig.writes)
            /\ PlanMade(mig.writes)' <=> PlanMade(mig.writes)
            /\ InputsMade(mig.writes)' <=> InputsMade(mig.writes)
            /\ DispatchMade(mig.writes)' <=> DispatchMade(mig.writes)
            /\ Unarchived(mig.writes)' = Unarchived(mig.writes)
        BY <2>1, <3>1, MadeKept
      <3>3. HistoryMade(mig.writes)' <=> HistoryMade(mig.writes)
        BY <2>1, <3>2 DEF HistoryMade, Readable, Holds
      <3>4. Holds(mig.writes, LiveLedger, held[LiveLedger])' <=> Holds(mig.writes, LiveLedger, held[LiveLedger])
        BY <2>1 DEF Holds
      <3> QED BY <2>1, <2>3, <3>2, <3>3, <3>4, TreeSame DEF BuiltInv, Has
    <2> QED BY <2>1, <2>2, <2>4, <2>5 DEF PlanInv, WritesHeld, Holds
  <1> QED BY <1>1, <1>2

LEMMA PlanInitInv == PlanInit => PlanInv
  <1> SUFFICES ASSUME PlanInit PROVE PlanInv
    OBVIOUS
  <1>1. DOMAIN Fresh = MigFields
    BY DEF Fresh, MigFields
  <1>2. RouteShaped
    BY TreesAssumption DEF PlanInit, RouteShaped
  <1> QED BY <1>1, <1>2, FreshInv DEF PlanInit, PlanInv, Again

LEMMA PlanAlways == PlanSpec => []PlanInv
  BY PlanInitInv, PlanNextKeeps, PTL DEF PlanSpec

\* The recorded segments are finitely many, and each has a tool id of its own.
LEMMA SegmentsFinite ==
    ASSUME tree \in Trees
    PROVE  IsFiniteSet(Segments)
  <1> DEFINE lines(k) == {k} \X (1 .. tree.runs[k].segments)
             all == {lines(k) : k \in DOMAIN tree.runs}
  <1>1. IsFiniteSet(DOMAIN tree.runs)
    <2>1. DOMAIN tree.runs = 1 .. Len(tree.runs) /\ Len(tree.runs) \in Nat
      BY TreesAssumption
    <2> DEFINE n == Len(tree.runs)
    <2>2. n \in Int /\ 1 \in Int
      BY <2>1
    <2> HIDE DEF n
    <2>3. IsFiniteSet(1 .. n)
      BY <2>2, FS_Interval
    <2> QED BY <2>1, <2>3 DEF n
  <1>2. \A k \in DOMAIN tree.runs : IsFiniteSet(lines(k))
    <2> SUFFICES ASSUME NEW k \in DOMAIN tree.runs PROVE IsFiniteSet(lines(k))
      OBVIOUS
    <2> DEFINE n == tree.runs[k].segments
    <2>1. n \in Nat \ {0}
      BY TreesAssumption
    <2> HIDE DEF n
    <2>2. n \in Int /\ 1 \in Int
      BY <2>1
    <2>3. IsFiniteSet(1 .. n)
      BY <2>2, FS_Interval
    <2> QED BY <2>3, FS_Singleton, FS_Product DEF n
  <1>3. IsFiniteSet(all)
    <2> DEFINE f == [k \in DOMAIN tree.runs |-> lines(k)]
    <2> HIDE DEF lines
    <2>1. f \in Surjection(DOMAIN tree.runs, all)
      BY DEF Surjection
    <2> QED BY <1>1, <2>1, FS_Surjection
  <1>4. \A s \in all : IsFiniteSet(s)
    BY <1>2
  <1>5. Segments = UNION all
    BY DEF Segments
  <1> HIDE DEF all
  <1> QED BY <1>3, <1>4, <1>5, FS_UNION

\* The tools of a plan are the ids of the recorded segments.
LEMMA PlanTools ==
    UNION {TreePlan[p].tools : p \in DOMAIN TreePlan} = {ToolId(s) : s \in Segments}
  <1>1. \A s \in Segments : Planned[LayerOf(s)] \in {Planned[l] : l \in RecordedLayers}
    <2> SUFFICES ASSUME NEW s \in Segments
                 PROVE  Planned[LayerOf(s)] \in {Planned[l] : l \in RecordedLayers}
      OBVIOUS
    <2>1. s[1] \in DOMAIN tree.runs
      BY DEF Segments
    <2>2. LayerOf(s) \in RecordedLayers
      BY <2>1 DEF LayerOf, RecordedLayers
    <2> QED BY <2>2
  <1>2. /\ DOMAIN TreePlan = {Planned[l] : l \in RecordedLayers}
        /\ \A p \in DOMAIN TreePlan :
             TreePlan[p].tools = {ToolId(s) : s \in {s \in Segments : Planned[LayerOf(s)] = p}}
    BY DEF TreePlan, ToolsOf
  <1>3. ASSUME NEW s \in Segments
        PROVE  ToolId(s) \in UNION {TreePlan[p].tools : p \in DOMAIN TreePlan}
    <2>1. Planned[LayerOf(s)] \in DOMAIN TreePlan
      BY <1>1, <1>2
    <2>2. ToolId(s) \in TreePlan[Planned[LayerOf(s)]].tools
      BY <1>2, <2>1
    <2> QED BY <2>1, <2>2
  <1>4. ASSUME NEW id \in UNION {TreePlan[p].tools : p \in DOMAIN TreePlan}
        PROVE  id \in {ToolId(s) : s \in Segments}
    BY <1>2
  <1> QED BY <1>3, <1>4

\* Each legacy file is on one row, and its bytes are under .fv.
LEMMA InvLosesNothing == PlanInv => NothingLost
  <1> SUFFICES ASSUME PlanInv, step = "applied", NEW role \in tree.files
               PROVE  /\ Cardinality({row \in mig.rows : row[1] = role}) = 1
                      /\ \E d \in DOMAIN held : held[d] = Bytes(role)
    BY DEF NothingLost
  <1>1. RowsInv /\ Settled /\ \E row \in mig.rows : row[1] = role
    BY DEF PlanInv, BuiltInv, PastHistory
  <1>2. PICK row \in mig.rows : row[1] = role
    BY <1>1
  <1>3. {r \in mig.rows : r[1] = role} = {row}
    BY <1>1, <1>2 DEF RowsInv
  <1>4. Cardinality({r \in mig.rows : r[1] = role}) = 1
    BY <1>3, FS_Singleton
  <1>5. CASE role \in Unarchived(held)
    <2>1. \/ role = "intent" /\ Elected = "silent"
          \/ role = "ledger" /\ Holds(held, LiveLedger, Bytes("ledger"))
      BY <1>5 DEF Unarchived
    <2>2. IntentMade(held)
      BY <1>1 DEF Settled
    <2>3. Holds(held, Intent, Bytes(role)) \/ Holds(held, LiveLedger, Bytes(role))
      BY <2>1, <2>2 DEF IntentMade
    <2> QED BY <1>3, <2>3, <1>4 DEF Holds
  <1>6. CASE role \notin Unarchived(held)
    <2>1. HistoryMade(held)
      BY <1>1 DEF Settled
    <2>2. Holds(held, HistoryPath(role), Bytes(role))
      BY <1>6, <2>1 DEF HistoryMade
    <2> QED BY <1>4, <2>2 DEF Holds
  <1> QED BY <1>5, <1>6

LEMMA InvOmitsNothing == PlanInv => NoOmission
  <1> DEFINE planned == IF PlanFile \in DOMAIN held
                        THEN UNION {held[PlanFile][p].tools : p \in DOMAIN held[PlanFile]} ELSE {}
  <1> SUFFICES ASSUME PlanInv, step = "applied"
               PROVE  /\ Has("runs") => Cardinality(planned) = Cardinality(Segments)
                      /\ Obligations \in DOMAIN mig.writes =>
                           \A claim \in held[Obligations].system_claims :
                               claim.required_evidence \subseteq planned
    BY DEF NoOmission
  <1>1. Settled /\ BuiltInv
    BY DEF PlanInv
  <1>2. Has("runs") => RunsFit /\ planned = {ToolId(s) : s \in Segments}
    BY <1>1, PlanTools DEF Settled, PlanMade, Holds
  <1> HIDE DEF planned
  <1>3. ASSUME Has("runs") PROVE Cardinality(planned) = Cardinality(Segments)
    <2> DEFINE f == [s \in Segments |-> ToolId(s)]
    <2>1. f \in Bijection(Segments, planned)
      <3>1. planned = {ToolId(s) : s \in Segments}
        BY <1>2, <1>3
      <3>2. \A s \in Segments : f[s] = ToolId(s)
        OBVIOUS
      <3>3. f \in [Segments -> planned]
        BY <3>1
      <3>4. \A s, t \in Segments : f[s] = f[t] => s = t
        BY <1>2, <1>3, <3>2 DEF RunsFit
      <3>5. \A id \in planned : \E s \in Segments : f[s] = id
        BY <3>1, <3>2
      <3> HIDE DEF f
      <3>6. f \in Injection(Segments, planned)
        BY <3>3, <3>4 DEF Injection, IsInjective
      <3>7. f \in Surjection(Segments, planned)
        BY <3>3, <3>5 DEF Surjection
      <3> QED BY <3>6, <3>7 DEF Bijection
    <2>2. ExistsBijection(Segments, planned)
      BY <2>1 DEF ExistsBijection
    <2>3. IsFiniteSet(Segments)
      BY SegmentsFinite DEF PlanInv
    <2> QED BY <2>2, <2>3, FS_Bijection
  <1>4. ASSUME Obligations \in DOMAIN mig.writes, NEW claim \in held[Obligations].system_claims
        PROVE  claim.required_evidence \subseteq planned
    <2>1. Converted # {} /\ held[Obligations] = Manifest
      BY <1>1, <1>4 DEF BuiltInv, Settled, ObligationsMade, Holds
    <2>2. PICK c \in Converted : claim.required_evidence = tree.claims[c].layers
      BY <1>4, <2>1 DEF Manifest
    <2>3. tree.claims[c].layers \subseteq TreeTools
      BY <1>1 DEF Settled, EvidenceMade
    <2> QED BY <1>2, <2>2, <2>3 DEF TreeTools
  <1> QED BY <1>3, <1>4

LEMMA InvReapplies == PlanInv => ReapplyIsIdentity
  BY DEF PlanInv, ReapplyIsIdentity, Again, Idle, Differs, WritesHeld, Holds

\* For any legacy trees and any state of .fv before: an applied migration
\* classified every legacy file once and kept its bytes.  (_preserve_history)
THEOREM MigrationLosesNothing == PlanSpec => []NothingLost
  BY PlanAlways, InvLosesNothing, PTL

\* It planned an execution of its own for every recorded segment, and claims
\* nothing that the plan cannot discharge.  (_migrate_plan, _check_required_evidence)
THEOREM MigrationOmitsNothing == PlanSpec => []NoOmission
  BY PlanAlways, InvOmitsNothing, PTL

\* Over its own result it is refused nowhere and would write the same bytes.
\* (the identical branches of _adopt_live_ledger, _migrate_dispatch, _preflight)
THEOREM MigrationReapplies == PlanSpec => []ReapplyIsIdentity
  BY PlanAlways, InvReapplies, PTL

-----------------------------------------------------------------------------
\* The scaffold.

Configs == [kind : {"absent", "malformed", "mapping"}, extension : {"missing", "listed", "odd"},
            isolation : {"unset", "on", "odd"}, panel : {"unset", "valid", "invalid"}]
Placed(s, force) == IF force THEN project.scripts[s] = "current" ELSE project.scripts[s] # "absent"

ProjectShaped ==
    /\ DOMAIN project = {"scripts", "dispatch", "policy", "config", "marker"}
    /\ DOMAIN project.scripts = Scripts
    /\ project.dispatch.kind = "absent" => project.dispatch.target = "none"
    /\ DOMAIN project.policy = {"kind", "own", "defaults"}
    /\ project.config \in Configs

InvocationShaped ==
    /\ invocation.pc \in {"idle", "preflight", "scripts", "install", "done", "refused", "killed"}
    /\ invocation.pc # "idle" =>
         /\ DOMAIN invocation = {"pc", "force", "refresh", "target", "at", "errors", "base"}
         /\ invocation.force \in BOOLEAN /\ invocation.refresh \in BOOLEAN
         /\ invocation.at \in Nat /\ invocation.errors \in BOOLEAN
         /\ invocation.refresh => invocation.force
         /\ invocation.force /\ ~invocation.refresh => harsh

\* What the policy may have become: defaults that bind no less, or, when nobody
\* forced anything, what binds the same.
PolicyKept ==
    /\ origin.kind \in {"absent", "malformed", "include", "exclude"}
    /\ origin.kind = "absent" => origin.own = {}
    /\ \/ project.policy = origin
       \/ project.policy.kind = "exclude" /\ project.policy.own = {}
            /\ origin.kind # "include" /\ (harsh \/ origin.kind = "absent")
       \/ project.policy.kind = "exclude" /\ origin.kind = "exclude"
            /\ project.policy.own = origin.own

\* What the stages before the n-th have made of the config the run began with.
ConfigAfter(n) ==
    LET config == project.config
        was     == invocation.base.config
        initial(part, value) == value = (IF was.kind = "absent" THEN "unset" ELSE part)
    IN  /\ n =< 3 => config = was
        /\ n > 3 => /\ config.kind = "mapping" /\ config.extension = "listed"
                    /\ n = 4 => initial(was.isolation, config.isolation)
                    /\ n > 4 => config.isolation = "on"
                    /\ n =< 5 => initial(was.panel, config.panel)
                    /\ n > 5 => config.panel = "valid"

ConfigBroken ==
    LET was == invocation.base.config
    IN  \/ was.kind = "malformed" \/ was.extension = "odd"
        \/ was.isolation = "odd" \/ was.panel = "invalid"

TargetKept ==
    LET was == invocation.base.dispatch
    IN  project.dispatch = Route(IF invocation.target # "none" THEN invocation.target
                                 ELSE IF invocation.force \/ was.target = "none" THEN "default"
                                 ELSE was.target)

\* The stages before the n-th are done, or one of them reported an error.
StagesBefore(n) ==
    /\ n = 1 => project.dispatch = invocation.base.dispatch
    /\ ~invocation.errors =>
         /\ n > 1 => TargetKept
         /\ n > 2 => project.policy.kind # "malformed"
         /\ ConfigAfter(n)
         /\ n > 6 => project.marker = "omp"
    /\ invocation.errors /\ n =< 3 => project.config = invocation.base.config
    /\ invocation.force /\ invocation.errors => n > 3 /\ ConfigBroken

Advancing ==
    /\ invocation.pc \in {"preflight", "scripts"} =>
         /\ ~invocation.errors
         /\ project.dispatch = invocation.base.dispatch /\ project.config = invocation.base.config
    /\ invocation.pc = "preflight" => project = invocation.base /\ invocation.at = 1
    /\ invocation.pc = "refused" => project = invocation.base
    /\ invocation.pc = "scripts" =>
         /\ invocation.at \in 1 .. Len(ScriptNames)
         /\ \A i \in 1 .. invocation.at - 1 : Placed(ScriptNames[i], invocation.force)
    /\ invocation.pc \in {"install", "done"} =>
         \A s \in Scripts : Placed(s, invocation.force)
    /\ invocation.pc = "install" => invocation.at \in 1 .. 6 /\ ~invocation.refresh
    /\ invocation.pc = "done" /\ ~invocation.refresh => invocation.at = 7
    /\ invocation.pc \in {"install", "done"} /\ ~invocation.refresh => StagesBefore(invocation.at)

ScaffoldInv == ProjectShaped /\ InvocationShaped /\ PolicyKept /\ Advancing

\* What each stage makes of its file.
LEMMA DispatchInstalled ==
    ASSUME ProjectShaped, NEW r, r = InstallDispatch
    PROVE  /\ r.file.kind = "absent" => r.file.target = "none"
           /\ r.outcome # "error" =>
                 r.file = Route(IF invocation.target # "none" THEN invocation.target
                                ELSE IF invocation.force \/ project.dispatch.target = "none" THEN "default"
                                ELSE project.dispatch.target)
           /\ invocation.force => r.outcome # "error"
  BY DEF InstallDispatch, Wrote, Fails, Skip, Route, ProjectShaped

LEMMA PolicyInstalled ==
    ASSUME ProjectShaped, PolicyKept, invocation.force => harsh, NEW r, r = InstallPolicy
    PROVE  /\ DOMAIN r.file = {"kind", "own", "defaults"}
           /\ \/ r.file = origin
              \/ r.file.kind = "exclude" /\ r.file.own = {}
                   /\ origin.kind # "include" /\ (harsh \/ origin.kind = "absent")
              \/ r.file.kind = "exclude" /\ origin.kind = "exclude" /\ r.file.own = origin.own
           /\ r.outcome = "wrote" => origin.kind # "include"
           /\ r.outcome # "error" => r.file.kind # "malformed"
           /\ invocation.force => r.outcome # "error"
  <1>1. CASE project.policy.kind = "absent"
    BY <1>1 DEF InstallPolicy, Wrote, DefaultPolicy, ProjectShaped, PolicyKept
  <1>2. CASE project.policy.kind = "malformed"
    BY <1>2 DEF InstallPolicy, Wrote, Fails, DefaultPolicy, ProjectShaped, PolicyKept
  <1>3. CASE project.policy.kind = "include"
    BY <1>3 DEF InstallPolicy, Skip, ProjectShaped, PolicyKept
  <1>4. CASE project.policy.kind = "exclude"
    <2> DEFINE mended == [project.policy EXCEPT !.defaults = TRUE]
    <2>1. DOMAIN mended = {"kind", "own", "defaults"} /\ mended.kind = "exclude" /\ mended.own = project.policy.own
      BY <1>4 DEF ProjectShaped
    <2> HIDE DEF mended
    <2>2. r = IF invocation.force THEN Wrote(DefaultPolicy)
              ELSE IF project.policy.defaults THEN Skip(project.policy) ELSE Wrote(mended)
      BY <1>4 DEF InstallPolicy, mended
    <2> QED BY <1>4, <2>1, <2>2 DEF Wrote, Skip, DefaultPolicy, ProjectShaped, PolicyKept
  <1> QED BY <1>1, <1>2, <1>3, <1>4 DEF PolicyKept

LEMMA ExtensionInstalled ==
    ASSUME ProjectShaped, NEW r, r = InstallExtension
    PROVE  /\ r.file \in Configs
           /\ r.outcome # "error" =>
                /\ r.file.kind = "mapping" /\ r.file.extension = "listed"
                /\ project.config.kind # "absent" =>
                      r.file.isolation = project.config.isolation /\ r.file.panel = project.config.panel
                /\ project.config.kind = "absent" =>
                      r.file.isolation = "unset" /\ r.file.panel = "unset"
           /\ r.outcome = "error" =>
                project.config.kind = "malformed" \/ project.config.extension = "odd"
  BY DEF InstallExtension, Wrote, Fails, Skip, Emptied, ProjectShaped, Configs

LEMMA IsolationInstalled ==
    ASSUME ProjectShaped, NEW r, r = InstallIsolation
    PROVE  /\ r.file \in Configs
           /\ r.outcome # "error" =>
                /\ project.config.kind = "mapping" /\ r.file = [project.config EXCEPT !.isolation = "on"]
           /\ r.outcome = "error" =>
                project.config.kind # "mapping" \/ project.config.isolation = "odd"
  BY DEF InstallIsolation, Wrote, Fails, Skip, ProjectShaped, Configs

LEMMA PanelInstalled ==
    ASSUME ProjectShaped, NEW r, r = InstallPanel
    PROVE  /\ r.file \in Configs
           /\ r.outcome # "error" /\ ~invocation.errors => r.file = [project.config EXCEPT !.panel = "valid"]
           /\ r.outcome = "error" => ~invocation.errors /\ project.config.panel = "invalid"
  BY DEF InstallPanel, Wrote, Fails, Skip, ProjectShaped, Configs

LEMMA MarkerInstalled ==
    ASSUME NEW r, r = InstallMarker
    PROVE  /\ r.outcome # "error" => r.file = "omp"
           /\ invocation.force => r.outcome # "error"
  BY DEF InstallMarker, Wrote, Fails, Skip

\* A step that leaves the project alone and does not begin an invocation.
LEMMA ProjectUntouched ==
    ASSUME ScaffoldInv, UNCHANGED <<project, origin>>, harsh => harsh'
    PROVE  ProjectShaped' /\ PolicyKept'
  BY DEF ScaffoldInv, ProjectShaped, PolicyKept

LEMMA InvokeKeeps ==
    ASSUME ScaffoldInv, NEW force \in BOOLEAN, NEW refresh \in BOOLEAN, NEW target,
           Invoke(force, refresh, target)
    PROVE  ScaffoldInv'
  <1>1. /\ UNCHANGED <<project, origin>> /\ (harsh => harsh')
        /\ invocation' = [pc |-> "preflight", force |-> force \/ refresh, refresh |-> refresh,
                          target |-> target, at |-> 1, errors |-> FALSE, base |-> project]
        /\ force /\ ~refresh => harsh'
    BY DEF Invoke
  <1>2. InvocationShaped'
    BY <1>1 DEF InvocationShaped
  <1>3. Advancing'
    BY <1>1 DEF Advancing
  <1> QED BY <1>1, <1>2, <1>3, ProjectUntouched DEF ScaffoldInv

LEMMA CheckKeeps ==
    ASSUME ScaffoldInv, PreflightScripts
    PROVE  ScaffoldInv'
  <1>1. /\ UNCHANGED <<project, origin, harsh>> /\ invocation.pc = "preflight"
        /\ \E p \in {"scripts", "refused"} : invocation' = [invocation EXCEPT !.pc = p]
    BY DEF PreflightScripts
  <1>2. PICK p \in {"scripts", "refused"} : invocation' = [invocation EXCEPT !.pc = p]
    BY <1>1
  <1>3. DOMAIN invocation = {"pc", "force", "refresh", "target", "at", "errors", "base"}
    BY <1>1 DEF ScaffoldInv, InvocationShaped
  <1>4. /\ invocation'.pc = p /\ DOMAIN invocation' = DOMAIN invocation
        /\ \A f \in DOMAIN invocation \ {"pc"} : invocation'[f] = invocation[f]
    BY <1>2, <1>3
  <1>5. InvocationShaped'
    BY <1>1, <1>3, <1>4 DEF ScaffoldInv, InvocationShaped
  <1>6. Len(ScriptNames) \in Nat /\ Len(ScriptNames) >= 1
    BY ProjectsAssumption
  <1>7. Advancing'
    BY <1>1, <1>3, <1>4, <1>6 DEF ScaffoldInv, Advancing
  <1> QED BY <1>1, <1>5, <1>7, ProjectUntouched DEF ScaffoldInv

LEMMA CopyFailsKeeps ==
    ASSUME ScaffoldInv, CopyFails
    PROVE  ScaffoldInv'
  <1>1. /\ UNCHANGED <<project, origin, harsh>> /\ invocation.pc = "scripts"
        /\ invocation' = [invocation EXCEPT !.pc = "killed"]
    BY DEF CopyFails
  <1>2. DOMAIN invocation = {"pc", "force", "refresh", "target", "at", "errors", "base"}
    BY <1>1 DEF ScaffoldInv, InvocationShaped
  <1>3. InvocationShaped'
    BY <1>1, <1>2 DEF ScaffoldInv, InvocationShaped
  <1>4. Advancing'
    BY <1>1, <1>2 DEF Advancing
  <1> QED BY <1>1, <1>3, <1>4, ProjectUntouched DEF ScaffoldInv

\* Copying places the next helper, and takes none away.
LEMMA CopyKeeps ==
    ASSUME ScaffoldInv, CopyOwnedFile
    PROVE  ScaffoldInv'
  <1> DEFINE i == invocation.at
             s == ScriptNames[i]
  <1>1. /\ invocation.pc = "scripts" /\ UNCHANGED <<inits, origin, harsh>>
        /\ project' = IF invocation.force \/ project.scripts[s] = "absent"
                      THEN [project EXCEPT !.scripts[s] = "current"] ELSE project
        /\ invocation' = [invocation EXCEPT
               !.at = IF @ = Len(ScriptNames) THEN 1 ELSE @ + 1,
               !.pc = IF invocation.at < Len(ScriptNames) THEN "scripts"
                      ELSE IF invocation.refresh THEN "done"
                      ELSE "install"]
    BY DEF CopyOwnedFile
  <1>2. DOMAIN invocation = {"pc", "force", "refresh", "target", "at", "errors", "base"}
    BY <1>1 DEF ScaffoldInv, InvocationShaped
  <1>3. /\ i \in 1 .. Len(ScriptNames) /\ Len(ScriptNames) \in Nat
        /\ \A j \in 1 .. Len(ScriptNames) : ScriptNames[j] \in Scripts
        /\ \A k \in Scripts : \E j \in 1 .. Len(ScriptNames) : ScriptNames[j] = k
    <2>1. Len(ScriptNames) \in Nat /\ DOMAIN ScriptNames = 1 .. Len(ScriptNames)
      BY ProjectsAssumption
    <2>2. i \in 1 .. Len(ScriptNames)
      BY <1>1 DEF ScaffoldInv, Advancing
    <2> QED BY <2>1, <2>2 DEF Scripts
  <1>4. /\ DOMAIN project' = DOMAIN project
        /\ project'.dispatch = project.dispatch /\ project'.policy = project.policy
        /\ project'.config = project.config /\ project'.marker = project.marker
        /\ DOMAIN project'.scripts = Scripts
        /\ \A k \in Scripts \ {s} : project'.scripts[k] = project.scripts[k]
        /\ project'.scripts[s] = IF invocation.force \/ project.scripts[s] = "absent"
                                 THEN "current" ELSE project.scripts[s]
    <2>1. CASE invocation.force \/ project.scripts[s] = "absent"
      <3>1. project' = [project EXCEPT !.scripts = [project.scripts EXCEPT ![s] = "current"]]
        BY <1>1, <2>1
      <3> QED BY <1>3, <2>1, <3>1 DEF ScaffoldInv, ProjectShaped
    <2>2. CASE ~(invocation.force \/ project.scripts[s] = "absent")
      BY <1>1, <2>2 DEF ScaffoldInv, ProjectShaped
    <2> QED BY <2>1, <2>2
  <1>5. ProjectShaped'
    BY <1>4 DEF ScaffoldInv, ProjectShaped
  <1>6. PolicyKept'
    BY <1>1, <1>4 DEF ScaffoldInv, PolicyKept
  <1>7. /\ DOMAIN invocation' = DOMAIN invocation
        /\ \A f \in DOMAIN invocation \ {"pc", "at"} : invocation'[f] = invocation[f]
        /\ invocation'.at = (IF i = Len(ScriptNames) THEN 1 ELSE i + 1)
        /\ invocation'.pc = (IF i < Len(ScriptNames) THEN "scripts"
                             ELSE IF invocation.refresh THEN "done" ELSE "install")
    BY <1>1, <1>2
  <1>8. InvocationShaped'
    BY <1>1, <1>2, <1>3, <1>7 DEF ScaffoldInv, InvocationShaped
  <1>9. \A j \in 1 .. i : Placed(ScriptNames[j], invocation.force)'
    <2> SUFFICES ASSUME NEW j \in 1 .. i PROVE Placed(ScriptNames[j], invocation.force)'
      OBVIOUS
    <2>1. CASE ScriptNames[j] = s
      BY <1>2, <1>3, <1>4, <1>7, <2>1 DEF Placed
    <2>2. CASE ScriptNames[j] # s
      <3>1. j \in 1 .. i - 1 /\ ScriptNames[j] \in Scripts
        BY <1>3, <2>2
      <3>2. Placed(ScriptNames[j], invocation.force)
        BY <1>1, <3>1 DEF ScaffoldInv, Advancing
      <3> QED BY <1>2, <1>4, <1>7, <2>2, <3>1, <3>2 DEF Placed
    <2> QED BY <2>1, <2>2
  <1>10. ~invocation'.errors /\ project'.dispatch = invocation'.base.dispatch
         /\ project'.config = invocation'.base.config
    BY <1>1, <1>2, <1>4, <1>7 DEF ScaffoldInv, Advancing
  <1>11. CASE i < Len(ScriptNames)
    <2>1. invocation'.pc = "scripts" /\ invocation'.at = i + 1 /\ i + 1 \in 1 .. Len(ScriptNames)
      BY <1>3, <1>7, <1>11
    <2>2. \A j \in 1 .. invocation'.at - 1 : Placed(ScriptNames[j], invocation.force)'
      BY <1>3, <1>9, <2>1
    <2>3. Advancing'
      BY <1>10, <2>1, <2>2 DEF Advancing
    <2> QED BY <1>5, <1>6, <1>8, <2>3 DEF ScaffoldInv
  <1>12. CASE ~(i < Len(ScriptNames))
    <2>1. i = Len(ScriptNames) /\ invocation'.at = 1
      BY <1>3, <1>7, <1>12
    <2>2. \A k \in Scripts : Placed(k, invocation.force)'
      BY <1>3, <1>9, <2>1
    <2>3. invocation'.pc = (IF invocation'.refresh THEN "done" ELSE "install")
      BY <1>2, <1>7, <1>12
    <2>4. StagesBefore(invocation.at)'
      BY <1>10, <2>1 DEF StagesBefore, ConfigAfter
    <2>5. Advancing'
      BY <1>8, <1>10, <2>1, <2>2, <2>3, <2>4 DEF Advancing, InvocationShaped
    <2> QED BY <1>5, <1>6, <1>8, <2>5 DEF ScaffoldInv
  <1> QED BY <1>11, <1>12

\* One stage: the project keeps its other files, and the run its options.
LEMMA InstallFacts ==
    ASSUME ScaffoldInv, Install
    PROVE  LET n == invocation.at
               stage == Stages[n]
               result == Installed(stage)
           IN  /\ invocation.pc = "install" /\ ~invocation.refresh /\ n \in 1 .. 6
               /\ UNCHANGED <<inits, origin, harsh>>
               /\ DOMAIN project' = DOMAIN project /\ project'[FileOf(stage)] = result.file
               /\ \A f \in DOMAIN project \ {FileOf(stage)} : project'[f] = project[f]
               /\ DOMAIN invocation' = DOMAIN invocation
               /\ \A f \in DOMAIN invocation \ {"pc", "at", "errors"} : invocation'[f] = invocation[f]
               /\ invocation'.errors = (invocation.errors \/ result.outcome = "error")
               /\ invocation'.at = n + 1
               /\ invocation'.pc = IF n = 6 THEN "done" ELSE "install"
  <1> DEFINE n == invocation.at
             stage == Stages[n]
             result == Installed(stage)
  <1>1. /\ invocation.pc = "install" /\ UNCHANGED <<inits, origin, harsh>>
        /\ project' = [project EXCEPT ![FileOf(stage)] = result.file]
        /\ invocation' = [invocation EXCEPT
               !.errors = @ \/ result.outcome = "error",
               !.at = @ + 1,
               !.pc = IF invocation.at = Len(Stages) THEN "done" ELSE "install"]
    BY DEF Install
  <1>2. ~invocation.refresh /\ n \in 1 .. 6
    BY <1>1 DEF ScaffoldInv, Advancing
  <1>3. DOMAIN invocation = {"pc", "force", "refresh", "target", "at", "errors", "base"}
    BY <1>1 DEF ScaffoldInv, InvocationShaped
  <1>4. Len(Stages) = 6
    BY DEF Stages
  <1>5. FileOf(stage) \in DOMAIN project
    BY <1>2 DEF FileOf, Stages, ScaffoldInv, ProjectShaped
  <1> HIDE DEF result, stage
  <1>6. /\ DOMAIN invocation' = DOMAIN invocation
        /\ \A f \in DOMAIN invocation \ {"pc", "at", "errors"} : invocation'[f] = invocation[f]
        /\ invocation'.errors = (invocation.errors \/ result.outcome = "error")
        /\ invocation'.at = n + 1
        /\ invocation'.pc = IF n = 6 THEN "done" ELSE "install"
    BY <1>1, <1>3, <1>4
  <1>7. /\ DOMAIN project' = DOMAIN project /\ project'[FileOf(stage)] = result.file
        /\ \A f \in DOMAIN project \ {FileOf(stage)} : project'[f] = project[f]
    BY <1>1, <1>5
  <1> QED BY <1>1, <1>2, <1>6, <1>7 DEF result, stage

\* What is left to show of a stage is the shape of its file and StagesBefore.
LEMMA InstallStep ==
    ASSUME ScaffoldInv, Install, ProjectShaped', PolicyKept', StagesBefore(invocation.at)'
    PROVE  ScaffoldInv'
  <1> DEFINE n == invocation.at
  <1>1. /\ invocation.pc = "install" /\ ~invocation.refresh /\ n \in 1 .. 6 /\ harsh' = harsh
        /\ project'.scripts = project.scripts
        /\ DOMAIN invocation' = DOMAIN invocation
        /\ \A f \in DOMAIN invocation \ {"pc", "at", "errors"} : invocation'[f] = invocation[f]
        /\ invocation'.errors \in BOOLEAN
        /\ invocation'.at = n + 1
        /\ invocation'.pc = IF n = 6 THEN "done" ELSE "install"
    <2>1. n \in 1 .. 6 => FileOf(Stages[n]) # "scripts"
      BY DEF FileOf, Stages
    <2> QED BY <2>1, InstallFacts DEF ScaffoldInv, ProjectShaped
  <1>2. DOMAIN invocation = {"pc", "force", "refresh", "target", "at", "errors", "base"}
    BY <1>1 DEF ScaffoldInv, InvocationShaped
  <1>3. InvocationShaped'
    BY <1>1, <1>2 DEF ScaffoldInv, InvocationShaped
  <1>4. \A s \in Scripts : Placed(s, invocation.force)'
    BY <1>1, <1>2 DEF ScaffoldInv, Advancing, Placed
  <1>5. Advancing'
    BY <1>1, <1>2, <1>4 DEF Advancing
  <1> QED BY <1>3, <1>5 DEF ScaffoldInv

LEMMA InstallKeeps ==
    ASSUME ScaffoldInv, Install
    PROVE  ScaffoldInv'
  <1> DEFINE n == invocation.at
  <1>1. /\ n \in 1 .. 6 /\ StagesBefore(n) /\ ProjectShaped /\ PolicyKept
        /\ invocation.force => harsh
        /\ DOMAIN invocation = {"pc", "force", "refresh", "target", "at", "errors", "base"}
        /\ invocation.errors \in BOOLEAN
    BY InstallFacts DEF ScaffoldInv, Advancing, InvocationShaped
  <1>2. /\ DOMAIN project' = DOMAIN project /\ UNCHANGED <<origin, harsh>>
        /\ invocation'.force = invocation.force /\ invocation'.target = invocation.target
        /\ invocation'.base = invocation.base /\ invocation'.at = n + 1
    BY <1>1, InstallFacts
  <1>3. CASE n = 1
    <2>1. Stages[n] = "dispatch" /\ FileOf("dispatch") = "dispatch"
          /\ Installed("dispatch") = InstallDispatch
      BY <1>3 DEF Stages, FileOf, Installed
    <2>2. /\ project'.dispatch = InstallDispatch.file
          /\ \A f \in DOMAIN project \ {"dispatch"} : project'[f] = project[f]
          /\ invocation'.errors = (invocation.errors \/ InstallDispatch.outcome = "error")
      BY <2>1, InstallFacts
    <2>3. PICK r : r = InstallDispatch
      OBVIOUS
    <2>4. /\ r.file.kind = "absent" => r.file.target = "none"
          /\ r.outcome # "error" =>
                r.file = Route(IF invocation.target # "none" THEN invocation.target
                               ELSE IF invocation.force \/ project.dispatch.target = "none" THEN "default"
                               ELSE project.dispatch.target)
          /\ invocation.force => r.outcome # "error"
      BY <1>1, <2>3, DispatchInstalled
    <2>5. ProjectShaped' /\ PolicyKept'
      BY <1>1, <1>2, <2>2, <2>3, <2>4 DEF ProjectShaped, PolicyKept
    <2>6. ~invocation'.errors => TargetKept'
      BY <1>1, <1>2, <1>3, <2>2, <2>3, <2>4 DEF TargetKept, StagesBefore
    <2>7. project'.config = project.config /\ project.config = invocation.base.config
      BY <1>1, <1>3, <2>2 DEF ProjectShaped, StagesBefore, ConfigAfter
    <2>8. ~(invocation'.force /\ invocation'.errors)
      BY <1>1, <1>2, <1>3, <2>2, <2>3, <2>4 DEF StagesBefore
    <2>9. invocation'.at = 2
      BY <1>2, <1>3
    <2>10. StagesBefore(invocation.at)'
      BY <1>2, <2>6, <2>7, <2>8, <2>9 DEF StagesBefore, ConfigAfter
    <2> QED BY <2>5, <2>10, InstallStep
  <1>4. CASE n = 2
    <2>1. Stages[n] = "policy" /\ FileOf("policy") = "policy" /\ Installed("policy") = InstallPolicy
      BY <1>4 DEF Stages, FileOf, Installed
    <2>2. /\ project'.policy = InstallPolicy.file
          /\ \A f \in DOMAIN project \ {"policy"} : project'[f] = project[f]
          /\ invocation'.errors = (invocation.errors \/ InstallPolicy.outcome = "error")
      BY <2>1, InstallFacts
    <2>3. PICK r : r = InstallPolicy
      OBVIOUS
    <2>4. /\ DOMAIN r.file = {"kind", "own", "defaults"}
          /\ \/ r.file = origin
             \/ r.file.kind = "exclude" /\ r.file.own = {}
                  /\ origin.kind # "include" /\ (harsh \/ origin.kind = "absent")
             \/ r.file.kind = "exclude" /\ origin.kind = "exclude" /\ r.file.own = origin.own
          /\ r.outcome # "error" => r.file.kind # "malformed"
          /\ invocation.force => r.outcome # "error"
      BY <1>1, <2>3, PolicyInstalled
    <2>5. ProjectShaped' /\ PolicyKept'
      BY <1>1, <1>2, <2>2, <2>3, <2>4 DEF ProjectShaped, PolicyKept
    <2>6. project'.dispatch = project.dispatch /\ project'.config = project.config
      BY <1>1, <2>2 DEF ProjectShaped
    <2>7. project.config = invocation.base.config
      BY <1>1, <1>4 DEF StagesBefore, ConfigAfter
    <2>8. ~invocation'.errors => TargetKept' /\ project'.policy.kind # "malformed"
      <3>1. ~invocation'.errors => ~invocation.errors /\ r.outcome # "error"
        BY <1>1, <2>2, <2>3
      <3>2. ~invocation.errors => TargetKept
        BY <1>1, <1>4 DEF StagesBefore
      <3>3. TargetKept' = TargetKept
        BY <1>2, <2>6 DEF TargetKept
      <3> QED BY <2>2, <2>3, <2>4, <3>1, <3>2, <3>3
    <2>9. ~(invocation'.force /\ invocation'.errors)
      BY <1>1, <1>2, <1>4, <2>2, <2>3, <2>4 DEF StagesBefore
    <2>10. invocation'.at = 3
      BY <1>2, <1>4
    <2>11. StagesBefore(invocation.at)'
      BY <1>2, <2>6, <2>7, <2>8, <2>9, <2>10 DEF StagesBefore, ConfigAfter
    <2> QED BY <2>5, <2>11, InstallStep
  <1>5. CASE n = 3
    <2>1. Stages[n] = "extension" /\ FileOf("extension") = "config"
          /\ Installed("extension") = InstallExtension
      BY <1>5 DEF Stages, FileOf, Installed
    <2>2. /\ project'.config = InstallExtension.file
          /\ \A f \in DOMAIN project \ {"config"} : project'[f] = project[f]
          /\ invocation'.errors = (invocation.errors \/ InstallExtension.outcome = "error")
      BY <2>1, InstallFacts
    <2>3. PICK r : r = InstallExtension
      OBVIOUS
    <2>4. /\ r.file \in Configs
          /\ r.outcome # "error" =>
               /\ r.file.kind = "mapping" /\ r.file.extension = "listed"
               /\ project.config.kind # "absent" =>
                     r.file.isolation = project.config.isolation /\ r.file.panel = project.config.panel
               /\ project.config.kind = "absent" =>
                     r.file.isolation = "unset" /\ r.file.panel = "unset"
          /\ r.outcome = "error" =>
               project.config.kind = "malformed" \/ project.config.extension = "odd"
      BY <1>1, <2>3, ExtensionInstalled
    <2>5. ProjectShaped' /\ PolicyKept'
      BY <1>1, <1>2, <2>2, <2>3, <2>4 DEF ProjectShaped, PolicyKept
    <2>6. project'.dispatch = project.dispatch /\ project'.policy = project.policy
      BY <1>1, <2>2 DEF ProjectShaped
    <2>7. project.config = invocation.base.config
      BY <1>1, <1>5 DEF StagesBefore, ConfigAfter
    <2>8. ~invocation'.errors => TargetKept' /\ project'.policy.kind # "malformed"
      BY <1>1, <1>2, <1>5, <2>2, <2>6 DEF TargetKept, StagesBefore
    <2>9. invocation'.at = 4
      BY <1>2, <1>5
    <2>10. ~invocation'.errors => ConfigAfter(4)'
      <3>1. ~invocation'.errors => r.outcome # "error"
        BY <2>2, <2>3
      <3>2. project'.config = r.file /\ invocation'.base.config = project.config
        BY <1>2, <2>2, <2>3, <2>7
      <3> QED BY <2>4, <3>1, <3>2 DEF ConfigAfter
    <2>11. invocation'.force /\ invocation'.errors => ConfigBroken'
      BY <1>1, <1>2, <1>5, <2>2, <2>3, <2>4, <2>7 DEF ConfigBroken, StagesBefore
    <2>12. StagesBefore(invocation.at)'
      BY <2>8, <2>9, <2>10, <2>11 DEF StagesBefore
    <2> QED BY <2>5, <2>12, InstallStep
  <1>6. CASE n = 4
    <2>1. Stages[n] = "isolation" /\ FileOf("isolation") = "config"
          /\ Installed("isolation") = InstallIsolation
      BY <1>6 DEF Stages, FileOf, Installed
    <2>2. /\ project'.config = InstallIsolation.file
          /\ \A f \in DOMAIN project \ {"config"} : project'[f] = project[f]
          /\ invocation'.errors = (invocation.errors \/ InstallIsolation.outcome = "error")
      BY <2>1, InstallFacts
    <2>3. PICK r : r = InstallIsolation
      OBVIOUS
    <2>4. /\ r.file \in Configs
          /\ r.outcome # "error" =>
               /\ project.config.kind = "mapping" /\ r.file = [project.config EXCEPT !.isolation = "on"]
          /\ r.outcome = "error" =>
               project.config.kind # "mapping" \/ project.config.isolation = "odd"
      BY <1>1, <2>3, IsolationInstalled
    <2>5. ProjectShaped' /\ PolicyKept'
      BY <1>1, <1>2, <2>2, <2>3, <2>4 DEF ProjectShaped, PolicyKept
    <2>6. project'.dispatch = project.dispatch /\ project'.policy = project.policy
      BY <1>1, <2>2 DEF ProjectShaped
    <2>8. ~invocation'.errors => TargetKept' /\ project'.policy.kind # "malformed"
      BY <1>1, <1>2, <1>6, <2>2, <2>6 DEF TargetKept, StagesBefore
    <2>9. invocation'.at = 5
      BY <1>2, <1>6
    <2>10. ~invocation'.errors => ConfigAfter(5)'
      <3> SUFFICES ASSUME ~invocation'.errors PROVE ConfigAfter(5)'
        OBVIOUS
      <3>1. r.outcome # "error" /\ ConfigAfter(4)
        BY <1>1, <1>6, <2>2, <2>3 DEF StagesBefore
      <3>2. project'.config = [project.config EXCEPT !.isolation = "on"] /\ project.config \in Configs
        BY <1>1, <2>2, <2>3, <2>4, <3>1 DEF ProjectShaped
      <3> QED BY <1>2, <3>1, <3>2 DEF ConfigAfter, Configs
    <2>11. invocation'.force /\ invocation'.errors => ConfigBroken'
      <3>1. invocation.errors \/ ConfigAfter(4)
        BY <1>1, <1>6 DEF StagesBefore
      <3> QED BY <1>1, <1>2, <1>6, <2>2, <2>3, <2>4, <3>1 DEF ConfigBroken, StagesBefore, ConfigAfter
    <2>12. StagesBefore(invocation.at)'
      BY <2>8, <2>9, <2>10, <2>11 DEF StagesBefore
    <2> QED BY <2>5, <2>12, InstallStep
  <1>7. CASE n = 5
    <2>1. Stages[n] = "panel" /\ FileOf("panel") = "config" /\ Installed("panel") = InstallPanel
      BY <1>7 DEF Stages, FileOf, Installed
    <2>2. /\ project'.config = InstallPanel.file
          /\ \A f \in DOMAIN project \ {"config"} : project'[f] = project[f]
          /\ invocation'.errors = (invocation.errors \/ InstallPanel.outcome = "error")
      BY <2>1, InstallFacts
    <2>3. PICK r : r = InstallPanel
      OBVIOUS
    <2>4. /\ r.file \in Configs
          /\ r.outcome # "error" /\ ~invocation.errors => r.file = [project.config EXCEPT !.panel = "valid"]
          /\ r.outcome = "error" => ~invocation.errors /\ project.config.panel = "invalid"
      BY <1>1, <2>3, PanelInstalled
    <2>5. ProjectShaped' /\ PolicyKept'
      BY <1>1, <1>2, <2>2, <2>3, <2>4 DEF ProjectShaped, PolicyKept
    <2>6. project'.dispatch = project.dispatch /\ project'.policy = project.policy
      BY <1>1, <2>2 DEF ProjectShaped
    <2>8. ~invocation'.errors => TargetKept' /\ project'.policy.kind # "malformed"
      BY <1>1, <1>2, <1>7, <2>2, <2>6 DEF TargetKept, StagesBefore
    <2>9. invocation'.at = 6
      BY <1>2, <1>7
    <2>10. ~invocation'.errors => ConfigAfter(6)'
      <3> SUFFICES ASSUME ~invocation'.errors PROVE ConfigAfter(6)'
        OBVIOUS
      <3>1. r.outcome # "error" /\ ~invocation.errors /\ ConfigAfter(5)
        BY <1>1, <1>7, <2>2, <2>3 DEF StagesBefore
      <3>2. project'.config = [project.config EXCEPT !.panel = "valid"] /\ project.config \in Configs
        BY <1>1, <2>2, <2>3, <2>4, <3>1 DEF ProjectShaped
      <3> QED BY <1>2, <3>1, <3>2 DEF ConfigAfter, Configs
    <2>11. invocation'.force /\ invocation'.errors => ConfigBroken'
      <3>1. invocation.errors \/ ConfigAfter(5)
        BY <1>1, <1>7 DEF StagesBefore
      <3> QED BY <1>1, <1>2, <1>7, <2>2, <2>3, <2>4, <3>1 DEF ConfigBroken, StagesBefore, ConfigAfter
    <2>12. StagesBefore(invocation.at)'
      BY <2>8, <2>9, <2>10, <2>11 DEF StagesBefore
    <2> QED BY <2>5, <2>12, InstallStep
  <1>8. CASE n = 6
    <2>1. Stages[n] = "marker" /\ FileOf("marker") = "marker" /\ Installed("marker") = InstallMarker
      BY <1>8 DEF Stages, FileOf, Installed
    <2>2. /\ project'.marker = InstallMarker.file
          /\ \A f \in DOMAIN project \ {"marker"} : project'[f] = project[f]
          /\ invocation'.errors = (invocation.errors \/ InstallMarker.outcome = "error")
      BY <2>1, InstallFacts
    <2>3. PICK r : r = InstallMarker
      OBVIOUS
    <2>4. /\ r.outcome # "error" => r.file = "omp"
          /\ invocation.force => r.outcome # "error"
      BY <2>3, MarkerInstalled
    <2>6. /\ project'.dispatch = project.dispatch /\ project'.policy = project.policy
          /\ project'.config = project.config /\ project'.scripts = project.scripts
      BY <1>1, <2>2 DEF ProjectShaped
    <2>5. ProjectShaped' /\ PolicyKept'
      BY <1>1, <1>2, <2>6 DEF ProjectShaped, PolicyKept
    <2>8. ~invocation'.errors => TargetKept' /\ project'.policy.kind # "malformed" /\ project'.marker = "omp"
      <3>1. ~invocation'.errors => ~invocation.errors /\ r.outcome # "error"
        BY <1>1, <2>2, <2>3
      <3>2. ~invocation.errors => TargetKept /\ project.policy.kind # "malformed"
        BY <1>1, <1>8 DEF StagesBefore
      <3>3. TargetKept' = TargetKept
        BY <1>2, <2>6 DEF TargetKept
      <3> QED BY <2>2, <2>3, <2>4, <2>6, <3>1, <3>2, <3>3
    <2>9. invocation'.at = 7
      BY <1>2, <1>8
    <2>10. ~invocation'.errors => ConfigAfter(7)'
      BY <1>1, <1>2, <1>8, <2>2, <2>6 DEF ConfigAfter, StagesBefore
    <2>11. invocation'.force /\ invocation'.errors => ConfigBroken'
      BY <1>1, <1>2, <1>8, <2>2, <2>3, <2>4 DEF ConfigBroken, StagesBefore
    <2>12. StagesBefore(invocation.at)'
      BY <2>8, <2>9, <2>10, <2>11 DEF StagesBefore
    <2> QED BY <2>5, <2>12, InstallStep
  <1> QED BY <1>1, <1>3, <1>4, <1>5, <1>6, <1>7, <1>8

\* A kill leaves an invocation behind of which nothing is said, and at worst an
\* emptied file.
LEMMA KillKeeps ==
    ASSUME ScaffoldInv, KillInit
    PROVE  ScaffoldInv'
  <1>1. /\ invocation.pc \notin {"idle", "done", "refused", "killed"} /\ origin' = origin
        /\ invocation' = [invocation EXCEPT !.pc = "killed"]
    BY DEF KillInit, Ended
  <1>2. DOMAIN invocation = {"pc", "force", "refresh", "target", "at", "errors", "base"}
    BY <1>1 DEF ScaffoldInv, InvocationShaped
  <1>3. /\ invocation'.pc = "killed" /\ DOMAIN invocation' = DOMAIN invocation
        /\ \A f \in DOMAIN invocation \ {"pc"} : invocation'[f] = invocation[f]
    BY <1>1, <1>2
  <1>4. (harsh => harsh') => InvocationShaped'
    BY <1>1, <1>2, <1>3 DEF ScaffoldInv, InvocationShaped
  <1>5. Advancing'
    BY <1>3 DEF Advancing
  <1>6. CASE UNCHANGED <<project, harsh>>
    BY <1>1, <1>4, <1>5, <1>6, ProjectUntouched DEF ScaffoldInv
  <1>7. CASE ~UNCHANGED <<project, harsh>>
    <2> DEFINE stage == Stages[invocation.at]
               file  == FileOf(stage)
    <2>1. /\ invocation.pc = "install" /\ Installed(stage).outcome = "wrote"
          /\ project' = [project EXCEPT ![file] = Emptied(file)] /\ harsh' = TRUE
      BY <1>7 DEF KillInit
    <2>2. /\ invocation.at \in 1 .. 6 /\ ProjectShaped /\ PolicyKept
          /\ invocation.force => harsh
      BY <2>1 DEF ScaffoldInv, Advancing, InvocationShaped
    <2>3. stage \in {"dispatch", "policy", "extension", "isolation", "panel", "marker"}
      BY <2>2 DEF Stages
    <2>4. file \in {"dispatch", "policy", "config", "marker"}
      BY <2>3 DEF FileOf
    <2>5. file = "policy" => stage = "policy"
      BY <2>3 DEF FileOf
    <2>6. file = "policy" => origin.kind # "include"
      <3>1. PICK r : r = InstallPolicy
        OBVIOUS
      <3>2. r.outcome = "wrote" => origin.kind # "include"
        BY <2>2, <3>1, PolicyInstalled
      <3>3. stage = "policy" => Installed(stage) = InstallPolicy
        BY DEF Installed
      <3> QED BY <2>1, <2>5, <3>1, <3>2, <3>3
    <2> HIDE DEF file
    <2>7. /\ DOMAIN project' = DOMAIN project /\ project'[file] = Emptied(file)
          /\ \A f \in DOMAIN project \ {file} : project'[f] = project[f]
      BY <2>1, <2>2, <2>4 DEF ProjectShaped
    <2>8. ProjectShaped'
      BY <2>2, <2>4, <2>7 DEF ProjectShaped, Emptied, Configs
    <2>9. PolicyKept'
      BY <1>1, <2>1, <2>2, <2>4, <2>6, <2>7 DEF PolicyKept, ProjectShaped, Emptied
    <2> QED BY <1>4, <1>5, <2>1, <2>8, <2>9 DEF ScaffoldInv
  <1> QED BY <1>6, <1>7

LEMMA ScaffoldAlways == ScaffoldSpec => []ScaffoldInv
  <1>1. ScaffoldInit => ScaffoldInv
    BY ProjectsAssumption DEF ScaffoldInit, NoInvocation, ScaffoldInv, ProjectShaped, InvocationShaped,
       PolicyKept, Advancing, Scripts, Configs
  <1>2. ASSUME ScaffoldInv, [ScaffoldNext]_scaffoldVars PROVE ScaffoldInv'
    <2>1. CASE UNCHANGED scaffoldVars
      <3>1. UNCHANGED <<project, invocation, origin, harsh>>
        BY <2>1 DEF scaffoldVars
      <3>2. InvocationShaped'
        BY <1>2, <3>1 DEF ScaffoldInv, InvocationShaped
      <3>3. Advancing'
        BY <1>2, <3>1 DEF ScaffoldInv, Advancing, Placed, StagesBefore, ConfigAfter, ConfigBroken, TargetKept
      <3> QED BY <1>2, <3>1, <3>2, <3>3, ProjectUntouched DEF ScaffoldInv
    <2> QED BY <1>2, <2>1, InvokeKeeps, CheckKeeps, CopyKeeps, CopyFailsKeeps, InstallKeeps, KillKeeps
            DEF ScaffoldNext
  <1> QED BY <1>1, <1>2, PTL DEF ScaffoldSpec

\* A run that reports success leaves a whole scaffold with the target that was
\* given or declared, for any projects, helpers and number of runs, whatever the
\* runs before it were killed in.  (main, install_dispatch_config)
THEOREM ScaffoldAlwaysComplete == ScaffoldSpec => []ScaffoldComplete
  <1>1. ScaffoldInv => ScaffoldComplete
    <2> SUFFICES ASSUME ScaffoldInv PROVE ScaffoldComplete
      OBVIOUS
    <2> DEFINE full == invocation.pc = "done" /\ ~invocation.refresh
    <2>1. invocation.pc = "refused" => project = invocation.base
      BY DEF ScaffoldInv, Advancing
    <2>2. invocation.pc = "done" =>
            \A s \in Scripts : IF invocation.force THEN project.scripts[s] = "current"
                               ELSE project.scripts[s] # "absent"
      BY DEF ScaffoldInv, Advancing, Placed
    <2>3. full => StagesBefore(7) /\ invocation.errors \in BOOLEAN /\ project.config \in Configs
      BY DEF ScaffoldInv, Advancing, ProjectShaped, InvocationShaped
    <2>4. full /\ ~invocation.errors =>
             /\ TargetKept /\ project.policy.kind # "malformed" /\ project.marker = "omp"
             /\ project.config = [kind |-> "mapping", extension |-> "listed",
                                  isolation |-> "on", panel |-> "valid"]
      BY <2>3 DEF StagesBefore, ConfigAfter, Configs
    <2>5. full /\ invocation.force /\ invocation.errors => ConfigBroken
      BY <2>3 DEF StagesBefore
    <2> QED BY <2>1, <2>2, <2>4, <2>5 DEF ScaffoldComplete, TargetKept, ConfigBroken
  <1> QED BY <1>1, ScaffoldAlways, PTL

\* Evidence is never bound to fewer files than the owner's policy bound it to,
\* whatever is forced or killed.  (install_verified_inputs, InputPolicy)
THEOREM CoverageAlwaysKept == ScaffoldSpec => []CoverageKept
  <1>1. ScaffoldInv => CoverageKept
    BY DEF ScaffoldInv, PolicyKept, CoverageKept, Selected
  <1> QED BY <1>1, ScaffoldAlways, PTL


-----------------------------------------------------------------------------
\* A migrated project and its verification.

\* A plan that is verified after a migration is the migration's own.
OwnPlan == (tree.verify /\ PlanFile \in DOMAIN held) => Has("runs")

NotMigrated == step = "none" /\ verdict # "idle" /\ PyramidInv
Migrating ==
    /\ PlanInv /\ OwnPlan
    /\ verdict = "idle" /\ layers = <<>> /\ commands = <<>>
Verifying ==
    /\ PlanInv /\ OwnPlan /\ step = "applied" /\ tree.verify
    /\ verdict # "idle" /\ PyramidInv
    /\ PlanFile \in DOMAIN held => crate.found = "plan" /\ crate.plan = held[PlanFile]

\* Either the pyramid runs a crate of its own, or a project is being migrated, or
\* the pyramid runs what the migration wrote.
ProjectInv == NotMigrated \/ Migrating \/ Verifying

\* The pyramid works between its start and its verdict, on one crate.
LEMMA PyramidFrame ==
    ASSUME PyramidNext
    PROVE  verdict = "none" /\ verdict' # "idle" /\ crate' = crate
  <1>1. Aggregate \in {"FAILED", "INCOMPLETE", "VERIFIED"}
    BY DEF Aggregate
  <1>2. CASE Conclude
    BY <1>1, <1>2 DEF Conclude
  <1>3. ASSUME NEW l, PlanLayer(l) \/ CargoLayer(l) \/ ProverLayer(l)
        PROVE  verdict = "none" /\ verdict' # "idle" /\ crate' = crate
    <2>1. CASE PlanLayer(l)
      BY <2>1 DEF PlanLayer, Ready, Record
    <2>2. CASE CargoLayer(l)
      BY <2>2 DEF CargoLayer, Ready, Record
    <2>3. CASE ProverLayer(l)
      BY <2>3 DEF ProverLayer, Ready, Record
    <2> QED BY <1>3, <2>1, <2>2, <2>3
  <1>4. CASE FuzzLayer
    <2>1. PICK status, outcomes : Ready("fuzz") /\ Record("fuzz", status, outcomes)
      BY <1>4 DEF FuzzLayer
    <2> QED BY <2>1 DEF Ready, Record
  <1>5. CASE FloorsLayer
    <2>1. PICK status, outcomes : Ready("floors") /\ Record("floors", status, outcomes)
      BY <1>5 DEF FloorsLayer
    <2> QED BY <2>1 DEF Ready, Record
  <1>6. CASE LeanLayer \/ TypesFailed \/ Refused
    BY <1>6 DEF LeanLayer, TypesFailed, Refused, Ready, Record
  <1> QED BY <1>2, <1>3, <1>4, <1>5, <1>6 DEF PyramidNext

\* A planned migration writes a plan only for recorded runs.
LEMMA OwnPlanKept ==
    ASSUME PlanInv, OwnPlan, PlanNext
    PROVE  OwnPlan'
  <1>1. CASE ApplyAll
    <2>1. PlanFile \in DOMAIN mig.writes => Has("runs")
      BY <1>1 DEF ApplyAll, PlanInv, BuiltInv
    <2> QED BY <1>1, <2>1 DEF ApplyAll, OwnPlan, Over, Has
  <1>2. CASE ~ApplyAll
    <2>1. UNCHANGED <<tree, held>>
      BY <1>2 DEF PlanNext, Do, Scan, MigrateIntent, MigrateLedger, MigrateObligations, MigratePlan,
         CheckRequiredEvidence, MigrateVerifiedInputs, MigrateDispatch, PreserveHistory, Preflight, RunAgain
    <2> QED BY <2>1 DEF OwnPlan, Has
  <1> QED BY <1>1, <1>2

\* The plan that a migration writes is one that the pyramid can run.
LEMMA TreePlanRuns ==
    ASSUME tree \in Trees, RunsFit
    PROVE  /\ "floors" \notin DOMAIN TreePlan
           /\ \A p \in DOMAIN TreePlan : TreePlan[p].tools # {}
  <1>1. DOMAIN TreePlan = {Planned[l] : l \in RecordedLayers}
    BY DEF TreePlan
  <1>2. \A l \in RecordedLayers : Planned[l] # "floors"
    BY DEF RecordedLayers, RunsFit, Carried
  <1>3. ASSUME NEW p \in DOMAIN TreePlan PROVE TreePlan[p].tools # {}
    <2>1. PICK k \in DOMAIN tree.runs : p = Planned[tree.runs[k].layer]
      BY <1>1, <1>3 DEF RecordedLayers
    <2> DEFINE s == <<k, 1>>
               n == tree.runs[k].segments
    <2>2. n \in Nat \ {0}
      BY TreesAssumption
    <2> HIDE DEF n
    <2>3. 1 \in 1 .. n
      BY <2>2
    <2>4. s \in {k} \X (1 .. n)
      BY <2>3
    <2>5. s \in Segments
      BY <2>4 DEF Segments, n
    <2>6. Planned[LayerOf(s)] = p
      BY <2>1 DEF LayerOf
    <2>7. ToolId(s) \in ToolsOf(p)
      BY <2>5, <2>6 DEF ToolsOf
    <2>8. TreePlan[p].tools = ToolsOf(p)
      BY <1>1, <1>3 DEF TreePlan
    <2> QED BY <2>7, <2>8
  <1> QED BY <1>1, <1>2, <1>3

LEMMA VerifyKeeps ==
    ASSUME Migrating, Verify
    PROVE  Verifying'
  <1>1. /\ step = "applied" /\ tree.verify /\ verdict' = "none"
        /\ UNCHANGED <<tree, held, found, pass, step, mig>> /\ UNCHANGED <<layers, commands, fuzzed>>
    BY DEF Verify, planVars
  <1>2. PICK host \in Hosts : crate' = CrateOn(host)
    BY DEF Verify
  <1>3. Runnable(host) /\ {"found", "plan", "profile", "targets", "seen"} \subseteq DOMAIN host
    BY HostsAssumption
  <1>4. ASSUME PlanFile \in DOMAIN held
        PROVE  Runnable(crate') /\ crate'.found = "plan" /\ crate'.plan = held[PlanFile]
    <2>1. crate' = [host EXCEPT !.found = "plan", !.plan = held[PlanFile]]
      BY <1>2, <1>4 DEF CrateOn
    <2>2. /\ "found" \in DOMAIN host /\ "plan" \in DOMAIN host /\ "profile" \in DOMAIN host
          /\ "targets" \in DOMAIN host /\ "seen" \in DOMAIN host
      BY <1>3
    <2>3. /\ crate'.found = "plan" /\ crate'.plan = held[PlanFile]
          /\ crate'.profile = host.profile /\ crate'.targets = host.targets /\ crate'.seen = host.seen
      BY <2>1, <2>2
    <2>4. PlanInv /\ Has("runs")
      BY <1>1, <1>4 DEF Migrating, OwnPlan
    <2>5. PlanMade(held)
      BY <1>1, <2>4 DEF PlanInv, Settled
    <2>6. RunsFit /\ held[PlanFile] = TreePlan
      BY <2>4, <2>5 DEF PlanMade, Holds
    <2>7. "floors" \notin DOMAIN held[PlanFile] /\ \A l \in DOMAIN held[PlanFile] : held[PlanFile][l].tools # {}
      BY <2>4, <2>6, TreePlanRuns DEF PlanInv
    <2>8. Runnable(crate')
      BY <1>3, <2>3, <2>7 DEF Runnable
    <2> QED BY <2>3, <2>8
  <1>5. PlanFile \notin DOMAIN held => Runnable(crate')
    BY <1>2, <1>3 DEF CrateOn
  <1>6. Runnable(crate') /\ (PlanFile \in DOMAIN held => crate'.found = "plan" /\ crate'.plan = held[PlanFile])
    BY <1>4, <1>5
  <1>7. PyramidInv'
    BY <1>1, <1>6 DEF PyramidInv, FloorsSettled, Migrating
  <1>8. PlanInv'
    <2>1. [PlanNext]_planVars
      BY <1>1 DEF planVars
    <2> QED BY <2>1, PlanNextKeeps DEF Migrating
  <1>9. OwnPlan'
    BY <1>1 DEF Migrating, OwnPlan, Has
  <1> QED BY <1>1, <1>6, <1>7, <1>8, <1>9 DEF Verifying

LEMMA ProjectNextKeeps ==
    ASSUME ProjectInv, [ProjectNext]_projectVars
    PROVE  ProjectInv'
  <1>1. CASE verdict = "idle" /\ PlanNext /\ UNCHANGED pyramidVars
    <2>1. Migrating
      BY <1>1 DEF ProjectInv, NotMigrated, Verifying
    <2>2. PlanInv' /\ OwnPlan'
      BY <1>1, <2>1, PlanNextKeeps, OwnPlanKept DEF Migrating
    <2> QED BY <1>1, <2>1, <2>2 DEF ProjectInv, Migrating, pyramidVars
  <1>2. CASE Verify
    <2>1. Migrating
      BY <1>2 DEF ProjectInv, NotMigrated, Verifying, Verify
    <2> QED BY <1>2, <2>1, VerifyKeeps DEF ProjectInv
  <1>3. CASE (PyramidNext \/ UNCHANGED pyramidVars) /\ UNCHANGED planVars
    <2>1. UNCHANGED <<tree, held, found, pass, step, mig>>
      BY <1>3 DEF planVars
    <2>2. PlanInv => PlanInv' /\ (OwnPlan => OwnPlan')
      BY <1>3, <2>1, PlanNextKeeps DEF OwnPlan, Has
    <2>3. PyramidInv => PyramidInv'
      BY <1>3, PyramidNextKeeps
    <2>4. crate' = crate /\ (verdict # "idle" => verdict' # "idle")
      BY <1>3, PyramidFrame DEF pyramidVars
    <2>5. CASE Migrating
      <3>1. UNCHANGED pyramidVars
        BY <1>3, <2>5, PyramidFrame DEF Migrating
      <3> QED BY <2>2, <2>5, <3>1 DEF Migrating, ProjectInv, pyramidVars
    <2>6. CASE NotMigrated
      BY <2>1, <2>3, <2>4, <2>6 DEF NotMigrated, ProjectInv
    <2>7. CASE Verifying
      BY <2>1, <2>2, <2>3, <2>4, <2>7 DEF Verifying, ProjectInv
    <2> QED BY <2>5, <2>6, <2>7 DEF ProjectInv
  <1> QED BY <1>1, <1>2, <1>3 DEF ProjectNext, projectVars

LEMMA ProjectAlways == ProjectSpec => []ProjectInv
  <1>1. ProjectInit => ProjectInv
    <2> SUFFICES ASSUME ProjectInit PROVE ProjectInv
      OBVIOUS
    <2>1. CASE PlanInit /\ verdict = "idle" /\ layers = <<>> /\ commands = <<>>
      <3>1. PlanInv
        BY <2>1, PlanInitInv
      <3>2. OwnPlan
        BY <2>1, HostsAssumption DEF PlanInit, OwnPlan
      <3> QED BY <2>1, <3>1, <3>2 DEF ProjectInv, Migrating
    <2>2. CASE PyramidInit /\ step = "none"
      <3>1. verdict # "idle"
        BY <2>2 DEF PyramidInit
      <3> QED BY <2>2, <3>1, PyramidInitInv DEF ProjectInv, NotMigrated
    <2> QED BY <2>1, <2>2 DEF ProjectInit
  <1> QED BY <1>1, ProjectNextKeeps, PTL DEF ProjectSpec

\* The claims that a migration carries are discharged by layers that gate.
LEMMA VerifiedClaims == ProjectInv => ClaimedLayersRan
  <1> SUFFICES ASSUME ProjectInv, Migrated, Obligations \in DOMAIN mig.writes,
                      NEW layer \in ClaimedTools \intersect RecordedLayers
               PROVE  LET l == Planned[layer]
                      IN  /\ l \in DOMAIN commands
                          /\ DOMAIN commands[l] = held[PlanFile][l].tools
                          /\ \A i \in DOMAIN commands[l] : commands[l][i] = "ok"
    BY DEF ClaimedLayersRan
  <1>1. Verifying /\ verdict = "VERIFIED" /\ ~crate.noPlan
    BY DEF ProjectInv, Migrated, NotMigrated, Migrating
  <1>2. BuiltInv /\ Settled /\ PyramidInv
    BY <1>1 DEF Verifying, PlanInv
  <1>3. Converted # {} /\ held[Obligations] = Manifest
    BY <1>2 DEF BuiltInv, Settled, ObligationsMade, Holds
  <1>4. PICK claim \in held[Obligations].system_claims : layer \in claim.required_evidence
    BY DEF ClaimedTools
  <1>5. PICK c \in Converted : claim.required_evidence = tree.claims[c].layers
    BY <1>3, <1>4 DEF Manifest
  <1>6. layer \in ClaimedLayers /\ layer \in TreeTools
    BY <1>2, <1>4, <1>5 DEF ClaimedLayers, Settled, EvidenceMade
  <1>7. Has("runs") /\ PlanFile \in DOMAIN held /\ held[PlanFile] = TreePlan
    BY <1>2, <1>6 DEF TreeTools, Settled, PlanMade, Holds
  <1>8. PlanLayers = TreePlan
    BY <1>1, <1>7 DEF Verifying, PlanLayers
  <1> DEFINE l == Planned[layer]
  <1>9. l \in DOMAIN TreePlan /\ TreePlan[l].required
    BY <1>6 DEF TreePlan
  <1> HIDE DEF l
  <1>10. l \in Required
    BY <1>8, <1>9 DEF Required
  <1>11. PassedRan(l) /\ l # "floors"
    BY <1>1, <1>2, <1>8, <1>9, <1>10, CrateFacts DEF PyramidInv
  <1>12. /\ l \in DOMAIN commands
         /\ DOMAIN commands[l] = held[PlanFile][l].tools
         /\ \A i \in DOMAIN commands[l] : commands[l][i] = "ok"
    BY <1>7, <1>8, <1>9, <1>11 DEF PassedRan, Ran, AllOk
  <1> QED BY <1>12 DEF l

LEMMA ProjectVerified == ProjectInv => VerifiedMeansRun
  BY VerifiedRan DEF ProjectInv, NotMigrated, Migrating, Verifying, VerifiedMeansRun

LEMMA ProjectLosesNothing == ProjectInv => NothingLost /\ NoOmission /\ ReapplyIsIdentity
  <1>1. step = "none" => NothingLost /\ NoOmission
    BY DEF NothingLost, NoOmission
  <1>2. step = "none" => ReapplyIsIdentity
    BY DEF ReapplyIsIdentity, Decided
  <1>3. PlanInv => NothingLost /\ NoOmission /\ ReapplyIsIdentity
    BY InvLosesNothing, InvOmitsNothing, InvReapplies
  <1> QED BY <1>1, <1>2, <1>3 DEF ProjectInv, NotMigrated, Migrating, Verifying

\* For any crates, plans and tools installed, and also on what a migration wrote:
\* VERIFIED means that everything that gates ran and succeeded.
\* (main, aggregate_verdict, fuzz_surface_check)
THEOREM VerifiedAlwaysMeansRun == ProjectSpec => []VerifiedMeansRun
  BY ProjectAlways, ProjectVerified, PTL

\* For any legacy trees and hosts: a migrated project is VERIFIED only if the
\* recorded layers its claims name ran all their segments and each succeeded.
\* (_migrate_plan, aggregate_verdict)
THEOREM ClaimedLayersAlwaysRan == ProjectSpec => []ClaimedLayersRan
  BY ProjectAlways, VerifiedClaims, PTL

-----------------------------------------------------------------------------
\* The three tools.

\* What the tools do together is, for each of them, what it may do by itself: a
\* behaviour of the composition implements the three specifications.
THEOREM LifecycleParts == LifecycleSpec => ScaffoldSpec /\ ApplySpec /\ ProjectSpec
  <1>1. LifecycleInit => ScaffoldInit /\ ApplyInit /\ ProjectInit
    BY DEF LifecycleInit
  <1>2. [LifecycleNext]_lifecycleVars => [ScaffoldNext]_scaffoldVars
    BY DEF LifecycleNext, lifecycleVars
  <1>3. [LifecycleNext]_lifecycleVars => [ApplyNext]_applyVars
    BY DEF LifecycleNext, lifecycleVars
  <1>4. [LifecycleNext]_lifecycleVars => [ProjectNext]_projectVars
    BY DEF LifecycleNext, lifecycleVars
  <1> QED BY <1>1, <1>2, <1>3, <1>4, PTL DEF LifecycleSpec, ScaffoldSpec, ApplySpec, ProjectSpec

\* The guarantees of the tools, in the system they make up and for all values of
\* its constants.  (main of fv_init.py, fv_migrate.py and pyramid_run.py)
THEOREM LifecycleSafe ==
    LifecycleSpec => [](/\ ScaffoldComplete /\ CoverageKept
                        /\ NothingLost /\ NoOmission /\ ReapplyIsIdentity
                        /\ VerifiedMeansRun /\ ClaimedLayersRan)
  BY LifecycleParts, ScaffoldAlwaysComplete, CoverageAlwaysKept, ProjectAlways,
     ProjectLosesNothing, ProjectVerified, VerifiedClaims, PTL
=============================================================================

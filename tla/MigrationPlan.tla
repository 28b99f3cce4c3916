--------------------------- MODULE MigrationPlan ----------------------------
(***************************************************************************)
(* The read half of scripts/fv_migrate.py: Migration.build() inventories a  *)
(* legacy .colosseum tree and decides what to write under .fv, or what it   *)
(* refuses.  A legacy file is named by its role; its bytes are the role's   *)
(* own; a layer or tool id is a tuple whose extra elements are the ":" parts.*)
(* Applying is one step here; MigrationApply takes it apart.                *)
(***************************************************************************)
EXTENDS Naturals, Sequences, FiniteSets

CONSTANTS
    Trees,        \* the legacy trees, records with the fields used below
    Normal,       \* legacy id -> the id evidence_claim_id gives it, or "empty"
    Planned       \* legacy layer -> plan layer (proptest -> proptests)

Roles == {"intent", "ledger", "obligations", "claims", "runs", "inputs", "notes"}
Intent      == ".fv/intent.md"
LiveLedger  == ".fv/ledger.md"
Obligations == ".fv/obligations.json"
PlanFile    == ".fv/verification-plan.json"
Policy      == ".fv/verified-inputs.txt"
DispatchFile == ".fv/dispatch.json"
HistoryPath(role) == ".fv/history/colosseum/" \o role
Bytes(role) == [of |-> role]

\* A role has a history path of its own, a recorded run has a command, a
\* citation is a path, and a route the project has says something.
ASSUME TreesAssumption ==
    /\ \A r, s \in Roles : HistoryPath(r) = HistoryPath(s) => r = s
    /\ \A r \in Roles :
         HistoryPath(r) \notin {Intent, LiveLedger, Obligations, PlanFile, Policy, DispatchFile}
    /\ \A t \in Trees :
         /\ t.files \subseteq Roles
         /\ \A r \in {"intent", "ledger"} : t.cites[r] \intersect {"none", "silent", "ambiguous"} = {}
         /\ DOMAIN t.runs = 1 .. Len(t.runs) /\ Len(t.runs) \in Nat
         /\ \A k \in DOMAIN t.runs : t.runs[k].segments \in Nat \ {0}
         /\ DispatchFile \in DOMAIN t.fv =>
              LET route == t.fv[DispatchFile]
              IN  /\ route.of # "absent"
                  /\ route.of # "malformed" => route = [of |-> route.of, target |-> route.target]

VARIABLES
    tree,   \* the legacy tree and the files outside .fv; only ever read
    held,   \* destination -> content, for the destinations that exist
    found,  \* the destinations that existed when this invocation began
    pass,   \* which invocation this is
    step,   \* the next step of build(), or how the invocation ended
    mig     \* the Migration object

planVars == <<tree, held, found, pass, step, mig>>

Fresh == [writes |-> <<>>, rows |-> {}, skip |-> {}, refused |-> {}, conflicts |-> {},
          adopt |-> FALSE, target |-> "none", rebound |-> <<>>, named |-> <<>>,
          required |-> {}, converted |-> FALSE, tools |-> {}, planBlocked |-> FALSE]

\* What is at each destination once new was written over old.
Over(new, old) == [d \in DOMAIN new \union DOMAIN old |-> IF d \in DOMAIN new THEN new[d] ELSE old[d]]

\* _mapped, _preserved, _unsupported, _plan_write
Write(m, dest, content) == [m EXCEPT !.writes = Over([d \in {dest} |-> content], @)]
Mapped(m, roles, dest) == [m EXCEPT !.rows = @ \union {<<r, "mapped", dest>> : r \in roles}]
Verbatim(m, role, dest) ==
    [Mapped(Write(m, dest, Bytes(role)), {role}, dest) EXCEPT !.skip = @ \union {role}]
Kept(m, roles) == [m EXCEPT !.rows = @ \union {<<r, "history", HistoryPath(r)>> : r \in roles}]
Refuse(m, what) == [m EXCEPT !.refused = @ \union {what}]

Has(role) == role \in tree.files
Readable(role) == role \notin tree.unreadable

\* run_gate_a: the reference gate of the ledger, a subprocess over its bytes.
GatePassed(content) == tree.gate[content] = "passed"

\* evidence_claim_id: the record-safe form of a legacy id, if anything is left.
HasRecordId(id) == Normal[id] # "empty"

Do(next, m) == step' = next /\ mig' = m /\ UNCHANGED <<tree, held, found, pass>>

PlanInit ==
    /\ tree \in Trees
    /\ held = tree.fv /\ found = DOMAIN tree.fv
    /\ pass = 1 /\ step = "scan" /\ mig = Fresh

\* _scan: symlinks, devices and unlistable directories are refused.
Scan ==
    /\ step = "scan"
    /\ Do("intent", IF tree.irregular THEN Refuse(Fresh, "scan") ELSE Fresh)

-----------------------------------------------------------------------------
\* _cited_intents: the citations of a document that is there and readable, as
\* far as they resolve to files the project has.
Cited(role, existing) ==
    IF Has(role) /\ Readable(role)
    THEN tree.cites[role] \intersect (tree.present \union existing) ELSE {}

\* _external_intent: the stub decides if it cites an existing intent at all,
\* the ledger only after it; two candidates are an ambiguity.
ElectedOver(existing) ==
    LET deciding == IF Cited("intent", existing) # {} THEN Cited("intent", existing)
                                                      ELSE Cited("ledger", existing)
    IN  CASE deciding = {}              -> "silent"
          [] Cardinality(deciding) > 1  -> "ambiguous"
          [] OTHER                      -> CHOOSE spec \in deciding : TRUE

\* build() writes nothing, so what exists under .fv is what the run found there.
Elected == ElectedOver(found)

MigrateIntent ==
    /\ step = "intent"
    /\ Do("ledger",
          IF Elected = "ambiguous" THEN Refuse(mig, "intent")
          ELSE IF Elected # "silent" THEN
                 LET m == [mig EXCEPT !.target = Elected]
                 IN  IF Has("intent") THEN Mapped(m, {"intent"}, DispatchFile) ELSE m
          ELSE IF Has("intent") /\ Readable("intent") THEN
                 Verbatim([mig EXCEPT !.target = Intent], "intent", Intent)
          ELSE Refuse(mig, "intent"))

\* (mutant) A legacy ledger is set aside even when it is the live one.
LiveLedgerAside ==
    IF ~GatePassed(held[LiveLedger]) THEN Refuse(mig, "ledger")
    ELSE IF ~Has("ledger") THEN Write(mig, LiveLedger, held[LiveLedger])
    ELSE IF ~Readable("ledger") THEN Refuse(mig, "ledger")
    ELSE Kept(Write(mig, LiveLedger, held[LiveLedger]), {"ledger"})

\* _adopt_live_ledger: the ledger the project has is the one the gate reads.
AdoptLiveLedger ==
    LET live    == held[LiveLedger]
        adopted == Write(mig, LiveLedger, live)
        rebound == [adopted EXCEPT !.rebound = [r \in {"ledger"} |-> LiveLedger]]
    IN  IF ~GatePassed(live) THEN Refuse(mig, "ledger")
        ELSE IF ~Has("ledger") THEN adopted
        ELSE IF ~Readable("ledger") THEN Refuse(rebound, "ledger")
        ELSE IF live = Bytes("ledger") THEN Verbatim(rebound, "ledger", LiveLedger)
        ELSE Kept(rebound, {"ledger"})

\* _migrate_legacy_ledger
CopyLegacyLedger ==
    IF Readable("ledger") /\ GatePassed(Bytes("ledger"))
    THEN Verbatim(mig, "ledger", LiveLedger) ELSE Refuse(mig, "ledger")

MigrateLedger ==
    /\ step = "ledger"
    /\ Do("obligations",
          IF LiveLedger \in DOMAIN held THEN AdoptLiveLedger
          ELSE IF Has("ledger") THEN CopyLegacyLedger
          ELSE mig)

-----------------------------------------------------------------------------
\* Each claim of g1-claims.json, or why it cannot be converted.
ClaimUsable(c) ==
    LET claim == tree.claims[c]
    IN  /\ claim.wellFormed
        /\ HasRecordId(c)
        /\ claim.targets # {} /\ claim.layers # {}
        /\ \A t \in claim.targets : HasRecordId(t) /\ Normal[t] # Normal[c]

\* _legacy_claim_index: a manifest that is no index of claims by their id.
Unindexable(role) == ~Readable(role) \/ role \in tree.malformed

Converted == IF Has("claims") THEN {c \in DOMAIN tree.claims : ClaimUsable(c)} ELSE {}
LegacyIds == Converted \union UNION {tree.claims[c].targets : c \in Converted}

\* The join of the two legacy manifests, one obligation per distinct target.
Manifest ==
    [system_claims |->
        {[id |-> Normal[c],
          required |-> Has("obligations") /\ c \in DOMAIN tree.flags /\ tree.flags[c],
          depends_on |-> {Normal[t] : t \in tree.claims[c].targets},
          required_evidence |-> tree.claims[c].layers] : c \in Converted},
     obligations |-> {Normal[t] : t \in LegacyIds \ Converted}]

MigrateObligations ==
    LET sources  == {r \in {"claims", "obligations"} : Has(r)}
        broken   == {r \in sources : Unindexable(r)}
        claims   == IF Has("claims") THEN DOMAIN tree.claims ELSE {}
        flagged  == IF Has("obligations") THEN DOMAIN tree.flags ELSE {}
        refusals == (claims \union flagged) \ Converted
        clash    == \E x, y \in LegacyIds : x # y /\ Normal[x] = Normal[y]
        judged   == IF refusals # {} \/ clash THEN Refuse(mig, "claims") ELSE mig
    IN  /\ step = "obligations"
        /\ Do("plan",
              IF sources = {} THEN mig
              ELSE IF broken # {} THEN Refuse(mig, "claims")
              ELSE IF Converted = {} THEN Kept(judged, sources)
              ELSE Mapped([Write(judged, Obligations, Manifest) EXCEPT
                             !.named = [c \in Converted |-> tree.claims[c].layers],
                             !.converted = TRUE,
                             !.required = UNION {tree.claims[c].layers : c \in Converted}],
                          sources, Obligations))

-----------------------------------------------------------------------------
RecordedLayers == {tree.runs[k].layer : k \in DOMAIN tree.runs}

\* The segments of the recorded runs, each of which becomes an execution.
Segments == UNION {{k} \X (1 .. tree.runs[k].segments) : k \in DOMAIN tree.runs}
LayerOf(segment) == tree.runs[segment[1]].layer

\* The tool id of a segment: the last one of the last run of its layer has the
\* bare id, every other one is numbered so that no two executions share an id.
ToolId(segment) ==
    LET k == segment[1]
        i == segment[2]
        layer   == LayerOf(segment)
        ofLayer == {j \in DOMAIN tree.runs : tree.runs[j].layer = layer}
        nth     == Cardinality({j \in ofLayer : j =< k})
    IN  IF (\A j \in ofLayer : j =< k) /\ i = tree.runs[k].segments THEN layer
        ELSE IF Cardinality(ofLayer) = 1 THEN Append(layer, i)
        ELSE layer \o <<nth, i>>

\* The tool ids of one plan layer.
ToolsOf(planned) == {ToolId(s) : s \in {s \in Segments : Planned[LayerOf(s)] = planned}}

\* (mutant) No migrated layer gates.
CohortOptional(planned) == [tools |-> ToolsOf(planned), required |-> FALSE]

\* One cohort per plan layer; it gates when a claim names one of its groups.
Cohort(planned) ==
    LET groups == {l \in RecordedLayers : Planned[l] = planned}
    IN  [tools |-> ToolsOf(planned),
         required |-> ~mig.converted \/ groups \intersect mig.required # {}]

\* _plan_executions: a run that split_command finds no argv in, with a bad cwd
\* or environment, or a reserved layer id is carried by no execution.
Carried(run) == run.argv /\ Planned[run.layer] # "floors"

MigratePlan ==
    LET plan   == [p \in {Planned[l] : l \in RecordedLayers} |-> Cohort(p)]
        usable == /\ Readable("runs") /\ "runs" \notin tree.malformed /\ RecordedLayers # {}
                  /\ \A k \in DOMAIN tree.runs : Carried(tree.runs[k])
                  /\ \A s, t \in Segments : ToolId(s) = ToolId(t) => s = t
    IN  /\ step = "plan"
        /\ Do("evidence",
              IF ~Has("runs") THEN mig
              ELSE IF usable THEN [Mapped(Write(mig, PlanFile, plan), {"runs"}, PlanFile)
                                 EXCEPT !.tools = {ToolId(s) : s \in Segments}]
              ELSE [Refuse(mig, "runs") EXCEPT !.planBlocked = TRUE])

\* (mutant) What the claims require is not held against the plan.
EvidenceUnchecked == step = "evidence" /\ Do("inputs", mig)

\* _check_required_evidence: the other direction of the no-omission rule.
CheckRequiredEvidence ==
    LET missing == \E c \in DOMAIN mig.named : ~(mig.named[c] \subseteq mig.tools)
    IN  /\ step = "evidence"
        /\ Do("inputs", IF ~mig.planBlocked /\ missing THEN Refuse(mig, "evidence") ELSE mig)

-----------------------------------------------------------------------------
\* _translate_include_entry: a source root stays; a legacy path becomes the
\* live file its content went to, or is dropped.
Live(role) ==
    {row[3] : row \in {r \in mig.rows : r[1] = role /\ r[2] = "mapped"
                                        /\ r[3] # DispatchFile /\ r[3] \in DOMAIN mig.writes}}
Translate(entry) ==
    IF entry \notin Roles THEN {entry}
    ELSE IF entry = "intent" THEN {mig.target} \ {"none"}
    ELSE IF entry \in DOMAIN mig.rebound THEN {mig.rebound[entry]}
    ELSE Live(entry)

MigrateVerifiedInputs ==
    LET selected == UNION {Translate(e) : e \in tree.entries}
        bound    == ({mig.target} \ {"none"}) \union ({Obligations, PlanFile} \intersect DOMAIN mig.writes)
    IN  /\ step = "inputs"
        /\ Do("dispatch",
              IF ~Has("inputs") THEN Write(mig, Policy, [mode |-> "exclude", of |-> {}])
              ELSE IF ~Readable("inputs") \/ "inputs" \in tree.malformed \/ selected = {} THEN
                     Refuse(mig, "inputs")
              ELSE
                     Mapped(Write(mig, Policy, [mode |-> "include", of |-> selected \union bound]),
                            {"inputs"}, Policy))

\* An existing route keeps everything but the two fields of the migration.
MigrateDispatch ==
    LET route == IF DispatchFile \in DOMAIN held THEN held[DispatchFile] ELSE [of |-> "absent"]
    IN  /\ step = "dispatch"
        /\ Do("history",
              IF mig.target = "none" THEN mig
              ELSE IF route.of = "absent" THEN
                     Write(mig, DispatchFile, [of |-> "example", target |-> mig.target])
              ELSE IF route.of = "malformed" THEN [mig EXCEPT !.conflicts = @ \union {DispatchFile}]
              ELSE IF route.target = mig.target THEN Write(mig, DispatchFile, route)
              ELSE [Write(mig, DispatchFile, [route EXCEPT !.target = mig.target])
                                EXCEPT !.adopt = TRUE])

\* The bytes of legacy files, each under its history path.
Archived(roles) == [d \in {HistoryPath(r) : r \in roles} |-> Bytes(CHOOSE r \in roles : HistoryPath(r) = d)]

Classified == {row[1] : row \in mig.rows}

\* (mutant) Only the files that nothing classified are kept.
HistoryOfUnclassified ==
    LET kept == {r \in tree.files \ mig.skip : Readable(r)} \ Classified
    IN  /\ step = "history"
        /\ Do("preflight", Kept([mig EXCEPT !.writes = Over(Archived(kept), @)], kept))

\* _preserve_history: every file whose bytes no verbatim mapping carries.
PreserveHistory ==
    LET kept    == {r \in tree.files \ mig.skip : Readable(r)}
        written == [mig EXCEPT !.writes = Over(Archived(kept), @)]
        rowed   == Kept(written, kept \ Classified)
    IN  /\ step = "history"
        /\ Do("preflight", IF (tree.files \ mig.skip) \subseteq kept THEN rowed
                           ELSE Refuse(rowed, "history"))

\* _preflight: a destination with other bytes is a conflict, unless adopted.
Differs == {d \in DOMAIN mig.writes : d \notin DOMAIN held \/ held[d] # mig.writes[d]}
Preflight ==
    LET clashes == (Differs \intersect DOMAIN held) \ (IF mig.adopt THEN {DispatchFile} ELSE {})
        m == [mig EXCEPT !.conflicts = @ \union clashes]
    IN  /\ step = "preflight"
        /\ Do(IF m.refused = {} /\ m.conflicts = {} THEN "ready" ELSE "blocked", m)

ApplyAll ==
    /\ step = "ready"
    /\ step' = "applied"
    /\ held' = Over(mig.writes, held)
    /\ UNCHANGED <<tree, found, pass, mig>>

\* The operator runs the migration again over what the first run wrote.
RunAgain ==
    /\ step = "applied" /\ pass = 1
    /\ pass' = 2 /\ step' = "scan" /\ mig' = Fresh
    /\ found' = DOMAIN held
    /\ UNCHANGED <<tree, held>>

PlanNext ==
    \/ Scan \/ MigrateIntent \/ MigrateLedger \/ MigrateObligations \/ MigratePlan
    \/ CheckRequiredEvidence \/ MigrateVerifiedInputs \/ MigrateDispatch
    \/ PreserveHistory \/ Preflight \/ ApplyAll \/ RunAgain

PlanSpec == PlanInit /\ [][PlanNext]_planVars

-----------------------------------------------------------------------------
\* An applied migration lost nothing: every legacy file is classified once,
\* and some destination holds its bytes, or it is a ledger superseded by the
\* live one and kept in the history.  (INVENTORY of the header, _preserve_history)
NothingLost ==
    step = "applied" =>
        \A role \in tree.files :
            /\ Cardinality({row \in mig.rows : row[1] = role}) = 1
            /\ \E d \in DOMAIN held : held[d] = Bytes(role)

\* What a second run decided, and that it has nothing to write.
Decided == step \in {"ready", "blocked", "applied"}
Idle == step # "blocked" /\ Differs = {}

\* The second run elects what the first one elected.
SameTarget == Elected = ElectedOver(DOMAIN tree.fv)

\* Running a finished migration again is refused nowhere and writes nothing,
\* unless the first run wrote a file that a legacy document cites as its
\* intent, so that the second elects another target.  (_cited_intents, the
\* identical branches of _adopt_live_ledger, _migrate_dispatch, _preflight)
ReapplyIsIdentity == pass = 2 /\ Decided /\ SameTarget => Idle

\* The same without the exception, as tests/r35_colosseum_migration.py has it:
\* "re-applying is byte-idempotent".
ReapplyAlwaysIdle == pass = 2 /\ Decided => Idle

\* Both directions of the no-omission rule: an applied migration plans every
\* recorded run, and every claim it carries can be discharged by the plan.
NoOmission ==
    step = "applied" =>
        LET planned == IF PlanFile \in DOMAIN held
                       THEN UNION {held[PlanFile][p].tools : p \in DOMAIN held[PlanFile]}
                       ELSE {}
        IN  /\ Has("runs") =>
                 Cardinality(planned) = Cardinality(Segments)
            /\ Obligations \in DOMAIN mig.writes =>
                 \A claim \in held[Obligations].system_claims : claim.required_evidence \subseteq planned
=============================================================================

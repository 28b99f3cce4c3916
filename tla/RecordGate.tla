----------------------------- MODULE RecordGate -----------------------------
(***************************************************************************)
(* Gate B over v3 evidence records: the producer (tools/evidence-run.ts)    *)
(* that runs the tools of a claim between two readings of the inputs, the   *)
(* gate (check_evidence_records.py) that recomputes what a record is bound  *)
(* to, and the dashboard (coverage_dashboard.py) that judges the same       *)
(* records without the repository.                                          *)
(***************************************************************************)
EXTENDS Integers, FiniteSets

CONSTANTS
    Claims,
    Kind,        \* Claims -> {"invariant", "witness", "system_claim"}
    Requires,    \* Claims -> the tools a system claim requires
    Depends,     \* Claims -> the obligations a system claim rests on
    Tools,       \* tool -> the evidence class of its executions
    Producers,
    HandWritten, \* the pre-cohort records an operator may write
    Cohorts,     \* the sets of tools a producer is asked to run
    MaxInputEdits,    \* changes by the owner of the project
    MaxRuns      \* runs of producers

Inputs == {"source", "intent", "manifest"}
NoRun == [claim |-> "none"]
NoRecord == [schema |-> "none"]
Assumed == {"externally-assumed", "unverified"}
Compatible(kind) ==
    CASE kind = "invariant" -> {"code-enforced"} \union Assumed
      [] kind = "witness"   -> {"test-witnessed"} \union Assumed
      [] OTHER              -> {"code-enforced", "test-witnessed"} \union Assumed

\* load_manifest: a system claim declares the tools it requires, and rests on
\* declared obligations none of which is a system claim itself.
ManifestWellFormed ==
    \A c \in Claims :
        IF Kind[c] = "system_claim"
        THEN /\ Requires[c] # {} /\ Depends[c] # {}
             /\ \A d \in Depends[c] : d \in Claims /\ Kind[d] \in {"invariant", "witness"}
        ELSE Requires[c] = {} /\ Depends[c] = {}

ASSUME ManifestAssumption == ManifestWellFormed
ASSUME HandWrittenAssumption == \A r \in HandWritten : r.schema # "v3"
ASSUME CohortsAssumption == \A tools \in Cohorts : tools \subseteq DOMAIN Tools

VARIABLES
    inputs,     \* input -> version
    committed,  \* the version of the source that git holds
    records,    \* claim -> the record its producer wrote
    extra,      \* claim -> a record in a file of its own
    artifacts,  \* path <<claim, run, tool>> -> what the tool did, and on what
    producer,   \* per producer, its run
    runs, inputEdits,
    gate,       \* one run of the gate
    verdict     \* what the gate and the dashboard said

gateVars == <<inputs, committed, records, extra, artifacts, producer, runs, inputEdits,
             gate, verdict>>

\* git status reports no verified input.
Committed == committed = inputs["source"]

Unsaid == [gate |-> "none", scope |-> "none", dashboard |-> "none"]

GateInit ==
    /\ inputs = [i \in Inputs |-> 0]
    /\ committed = 0
    /\ records = [c \in Claims |-> NoRecord] /\ extra = [c \in Claims |-> NoRecord]
    /\ artifacts = <<>>
    /\ producer = [p \in Producers |-> NoRun] /\ runs = 0 /\ inputEdits = 0
    /\ gate = [pc |-> "idle"]
    /\ verdict = Unsaid

-----------------------------------------------------------------------------
\* The project's owner edits an input, commits, loses the raw artifacts of a
\* claim, or adds a record of the old schema.
Edit == inputEdits < MaxInputEdits /\ inputEdits' = inputEdits + 1 /\ verdict = Unsaid

EditInput(i) ==
    /\ Edit
    /\ inputs' = [inputs EXCEPT ![i] = inputEdits + 1]
    /\ UNCHANGED <<committed, records, extra, artifacts, producer, runs, gate, verdict>>

\* An earlier version is put back, though never between the start of a tool and
\* the reading after it: the producer compares readings, it does not watch.
Revert(i) ==
    /\ verdict = Unsaid
    /\ \A p \in {q \in Producers : producer[q] # NoRun} : producer[p].checked
    /\ \E earlier \in 0 .. inputs[i] - 1 : inputs' = [inputs EXCEPT ![i] = earlier]
    /\ UNCHANGED <<committed, records, extra, artifacts, producer, runs, gate, verdict, inputEdits>>

Commit ==
    /\ ~Committed
    /\ committed' = inputs["source"]
    /\ UNCHANGED <<inputs, records, extra, artifacts, producer, runs, gate, verdict, inputEdits>>

LoseArtifact(path) ==
    /\ Edit /\ path \in DOMAIN artifacts
    /\ artifacts' = [q \in DOMAIN artifacts \ {path} |-> artifacts[q]]
    /\ UNCHANGED <<inputs, committed, records, extra, producer, runs, gate, verdict>>

WriteByHand(c, r) ==
    /\ Edit /\ extra[c] = NoRecord
    /\ extra' = [extra EXCEPT ![c] = r]
    /\ UNCHANGED <<inputs, committed, records, artifacts, producer, runs, gate, verdict>>

-----------------------------------------------------------------------------
\* execute: an incompatible class is refused, then the bindings are taken.  A
\* producer that begins once the gate has loaded writes nothing the gate reads.
Begin(p, c, tools) ==
    /\ producer[p] = NoRun /\ runs < MaxRuns /\ gate.pc = "idle"
    /\ \A t \in tools : Tools[t] \in Compatible(Kind[c])
    /\ runs' = runs + 1
    /\ producer' = [producer EXCEPT ![p] =
           [claim |-> c, run |-> runs, before |-> inputs, dirty |-> ~Committed,
            todo |-> tools, ran |-> {}, checked |-> TRUE]]
    /\ UNCHANGED <<inputs, committed, records, extra, artifacts, gate, verdict, inputEdits>>

\* One tool of the cohort runs and its output is written.
RunTool(p, t) ==
    LET path == <<producer[p].claim, producer[p].run, t>>
    IN  /\ producer[p] # NoRun /\ producer[p].checked /\ t \in producer[p].todo
        /\ \E passed \in BOOLEAN :
             /\ artifacts' = [q \in DOMAIN artifacts \union {path} |->
                    IF q = path THEN [passed |-> passed, on |-> inputs] ELSE artifacts[q]]
             /\ producer' = [producer EXCEPT ![p].todo = @ \ {t}, ![p].checked = FALSE,
                    ![p].ran = @ \union {[tool |-> t, path |-> path, class |-> Tools[t],
                                          result |-> IF passed THEN "PASS" ELSE "FAIL"]}]
        /\ UNCHANGED <<inputs, committed, records, extra, runs, gate, verdict, inputEdits>>

\* (mutant) Only an uncommitted input makes the run dirty.
RecheckCommitted(p) ==
    /\ producer[p] # NoRun /\ ~producer[p].checked
    /\ producer' = [producer EXCEPT ![p].checked = TRUE, ![p].dirty = @ \/ ~Committed]
    /\ UNCHANGED <<inputs, committed, records, extra, artifacts, runs, gate, verdict, inputEdits>>

\* After it the bindings are read again; any change makes the run dirty.
Recheck(p) ==
    /\ producer[p] # NoRun /\ ~producer[p].checked
    /\ producer' = [producer EXCEPT ![p].checked = TRUE,
           ![p].dirty = @ \/ inputs # producer[p].before \/ ~Committed]
    /\ UNCHANGED <<inputs, committed, records, extra, artifacts, runs, gate, verdict, inputEdits>>

\* The record of the cohort replaces the claim's record.
WriteRecord(p) ==
    LET run == producer[p]
        passed == \A e \in run.ran : e.result = "PASS"
    IN  /\ run # NoRun /\ run.todo = {} /\ run.checked
        /\ records' = [records EXCEPT ![run.claim] =
               [schema |-> "v3", bound |-> run.before, dirty |-> run.dirty,
                class |-> IF Kind[run.claim] = "witness" THEN "test-witnessed" ELSE "code-enforced",
                result |-> IF passed /\ ~run.dirty THEN "PASS" ELSE "FAIL",
                executions |-> run.ran, waived |-> FALSE]]
        /\ producer' = [producer EXCEPT ![p] = NoRun]
        /\ UNCHANGED <<inputs, committed, extra, artifacts, runs, gate, verdict, inputEdits>>

\* A tool that cannot be started, a failed git status or a kill ends the run
\* with the artifacts it had written and the old record.
Abandon(p) ==
    /\ producer[p] # NoRun
    /\ producer' = [producer EXCEPT ![p] = NoRun]
    /\ UNCHANGED <<inputs, committed, records, extra, artifacts, runs, gate, verdict, inputEdits>>

-----------------------------------------------------------------------------
\* --require narrows what is judged; a system claim brings its dependencies.
\* The source and the intent are read later.
LoadRecords(required, scope) ==
    /\ gate.pc = "idle"
    /\ gate' = [pc |-> "loaded", scope |-> scope, loaded |-> records, extra |-> extra,
                manifest |-> inputs["manifest"], source |-> 0, intent |-> 0,
                judged |-> required \union UNION {Depends[c] : c \in required}]
    /\ UNCHANGED <<inputs, committed, records, extra, artifacts, producer, runs, verdict, inputEdits>>

\* The content snapshot and the intent hash, unless --allow-unbound.
Bind ==
    /\ gate.pc = "loaded"
    /\ gate' = [gate EXCEPT !.pc = "bound", !.source = inputs["source"],
                            !.intent = inputs["intent"]]
    /\ UNCHANGED <<inputs, committed, records, extra, artifacts, producer, runs, verdict, inputEdits>>

RecordsOf(c) == {gate.loaded[c], gate.extra[c]} \ {NoRecord}
TheRecord(c) == CHOOSE r \in RecordsOf(c) : TRUE

\* The rules that need only the text of a record.  Both tools apply them; the
\* dashboard has its own copy of those about the executions.
Undisturbed(r) == r.result = "PASS" => ~r.dirty
OfThisManifest(r) == r.bound["manifest"] = gate.manifest

\* One raw artifact cited for two claims discharges neither.
SharesArtifact(c, r) ==
    \E d \in gate.judged \ {c} : \E s \in RecordsOf(d) :
        {e.path : e \in r.executions} \intersect {e.path : e \in s.executions} # {}

\* A cohort of the gate: each tool and each artifact discharges one execution,
\* of a class that can discharge the claim.
CohortSound(c, r) ==
    /\ r.executions # {}
    /\ \A e, f \in r.executions : e.tool = f.tool \/ e.path = f.path => e = f
    /\ \A e \in r.executions : e.class \in Compatible(Kind[c])

\* The same of the dashboard, which names what it has seen.
RowCohortSound(c, r) ==
    /\ Cardinality(r.executions) \in 1 .. Cardinality({e.tool : e \in r.executions})
    /\ Cardinality(r.executions) <= Cardinality({e.path : e \in r.executions})
    /\ {e.class : e \in r.executions} \subseteq Compatible(Kind[c])

Covered(c, r) ==
    Requires[c] \subseteq {e.tool : e \in {x \in r.executions : x.result = "PASS"}}
AllPass(r) == \A e \in r.executions : e.result = "PASS"
RestsOnAssumption(r) == ({r.class} \union {e.class : e \in r.executions}) \intersect Assumed # {}

\* _read_artifact: the artifact is there and says what the execution claims.
ArtifactBacks(e) ==
    /\ e.path \in DOMAIN artifacts
    /\ e.result = "PASS" => artifacts[e.path].passed

\* validate_record of the gate: the bindings are fresh and the artifacts back
\* every execution.
GateValid(c, r) ==
    /\ Undisturbed(r) /\ OfThisManifest(r)
    /\ r.class \in Compatible(Kind[c])
    /\ r.schema = "v3" => CohortSound(c, r) /\ ~SharesArtifact(c, r)
    /\ gate.scope = "recomputed" =>
         r.bound["source"] = gate.source /\ r.bound["intent"] = gate.intent /\ r.schema = "v3"
    /\ r.result = "PASS" => AllPass(r) /\ Covered(c, r)
    /\ \A e \in r.executions : ArtifactBacks(e)

Result(r) ==
    IF r.result # "PASS" THEN r.result
    ELSE IF RestsOnAssumption(r) /\ ~r.waived THEN "unwaived-assumption"
    ELSE "PASS"

GateStatus(c) ==
    IF RecordsOf(c) = {} THEN "missing-record"
    ELSE IF Cardinality(RecordsOf(c)) > 1 THEN "duplicate-record"
    ELSE IF ~GateValid(c, TheRecord(c)) THEN "invalid"
    ELSE Result(TheRecord(c))

\* validate_record of the dashboard, which reads no repository.
RowSound(c, r) ==
    /\ Undisturbed(r) /\ OfThisManifest(r)
    /\ r.class \in Compatible(Kind[c])
    /\ r.schema = "v3" => RowCohortSound(c, r) /\ ~SharesArtifact(c, r)

\* (mutant) The dashboard knows no waivers.
RowUnwaived(c) ==
    LET r == TheRecord(c)
    IN  IF RecordsOf(c) = {} THEN "missing-record"
        ELSE IF Cardinality(RecordsOf(c)) > 1 THEN "duplicate-record"
        ELSE IF ~RowSound(c, r) THEN "invalid"
        ELSE IF RestsOnAssumption(r) THEN "unwaived-assumption"
        ELSE IF r.result = "PASS" /\ ~(AllPass(r) /\ Covered(c, r)) THEN "evidence-gap"
        ELSE r.result

\* evaluate_claim and apply_dependency_coverage of the dashboard.
RowStatus(c) ==
    LET r == TheRecord(c)
    IN  IF RecordsOf(c) = {} THEN "missing-record"
        ELSE IF Cardinality(RecordsOf(c)) > 1 THEN "duplicate-record"
        ELSE IF ~RowSound(c, r) THEN "invalid"
        ELSE IF Result(r) = "PASS" /\ ~(AllPass(r) /\ Covered(c, r)) THEN "evidence-gap"
        ELSE Result(r)
DashboardStatus(c) ==
    IF RowStatus(c) = "PASS" /\ \E d \in Depends[c] \intersect gate.judged : RowStatus(d) # "PASS"
    THEN "dependency-gap" ELSE RowStatus(c)

Overall(statuses) ==
    IF "FAIL" \in statuses THEN "FAILED"
    ELSE IF statuses # {"PASS"} THEN "INCOMPLETE"
    ELSE "VERIFIED"

DashboardVerdict == Overall({DashboardStatus(c) : c \in gate.judged})

Judge ==
    /\ gate.pc = "bound"
    /\ gate' = [gate EXCEPT !.pc = "done"]
    /\ verdict' = [gate |-> Overall({GateStatus(c) : c \in gate.judged}),
                   scope |-> gate.scope,
                   dashboard |-> DashboardVerdict]
    /\ UNCHANGED <<inputs, committed, records, extra, artifacts, producer, runs, inputEdits>>

GateNext ==
    \/ \E i \in Inputs : EditInput(i) \/ Revert(i)
    \/ Commit
    \/ \E path \in DOMAIN artifacts : LoseArtifact(path)
    \/ \E c \in Claims, r \in HandWritten : WriteByHand(c, r)
    \/ \E p \in Producers, c \in Claims, tools \in Cohorts : Begin(p, c, tools)
    \/ \E p \in Producers, t \in DOMAIN Tools : RunTool(p, t)
    \/ \E p \in Producers : Recheck(p) \/ WriteRecord(p) \/ Abandon(p)
    \/ \E required \in SUBSET Claims, scope \in {"recomputed", "unbound"} :
         required # {} /\ LoadRecords(required, scope)
    \/ Bind \/ Judge

GateSpec == GateInit /\ [][GateNext]_gateVars

-----------------------------------------------------------------------------
\* VERIFIED without a qualified scope: every claim judged, and every obligation
\* a judged system claim rests on, has executions of all its tools, each of
\* which passed on exactly the source, intent and manifest the gate read, and
\* nothing assumed stands in for one.  It is a property of the inputs as they
\* are read: Revert leaves out a change that is undone within one tool's run,
\* which the two readings of the producer cannot see either.
\* (main, validate_record, execute)
VerifiedIsCurrent ==
    (verdict.gate = "VERIFIED" /\ verdict.scope = "recomputed") =>
        \A c \in gate.judged \union UNION {Depends[d] : d \in gate.judged} :
            LET r == TheRecord(c)
            IN  /\ Cardinality(RecordsOf(c)) = 1
                /\ r.executions # {} /\ Requires[c] \subseteq {e.tool : e \in r.executions}
                /\ ~RestsOnAssumption(r)
                /\ \A e \in r.executions :
                     /\ artifacts[e.path].passed
                     /\ artifacts[e.path].on = [source |-> gate.source, intent |-> gate.intent,
                                                manifest |-> gate.manifest]

\* The dashboard, which reads no repository, never contradicts the gate: what
\* the gate verifies it verifies, and what the gate fails it fails.
\* (evaluate_claim, compute_verdict)
DashboardAgrees ==
    /\ verdict.gate = "VERIFIED" => verdict.dashboard = "VERIFIED"
    /\ verdict.gate = "FAILED" => verdict.dashboard = "FAILED"
=============================================================================

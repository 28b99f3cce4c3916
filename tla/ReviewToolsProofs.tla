------------------------- MODULE ReviewToolsProofs --------------------------
(***************************************************************************)
(* What the fan-out, the panel and the record gate report, whatever the     *)
(* seats answer and the owner edits meanwhile.                              *)
(***************************************************************************)
EXTENDS ReviewTools, DispatchManifestProofs, FiniteSetTheorems

-----------------------------------------------------------------------------
\* The wave of the fan-out.

\* What the bridge can say of an answer: a flag and a foreign name are true of
\* it, and a certified configuration leaves no fallback to serve it.
ReportTrue(v) ==
    served[v].status = "ok" =>
        /\ served[v].report \in {"flag-fallback", "names-other"} => served[v].answer = "fallback"
        /\ served[v].report = "flag-direct" => served[v].answer = "requested"
        /\ fanout.certified => served[v].answer = "requested"
        /\ served[v].report \in {"no-report", "names-requested", "flag-fallback", "names-other",
                                 "flag-direct"}

FanoutShaped ==
    /\ fanout \in [pc : {"called", "refused", "wave", "raised", "done"},
                   certified : BOOLEAN, blocked : BOOLEAN, frozen : Nat]
    /\ target \in Nat
    /\ served \in [Routes -> [status : {"running", "ok", "error"},
                              answer : {"none"} \union Answers,
                              report : {"none", "no-report", "names-requested", "flag-fallback",
                                        "names-other", "flag-direct"}]]

FanoutInv ==
    /\ FanoutShaped
    /\ \A v \in Routes : ReportTrue(v)
    /\ outcome # NoOutcome => fanout.pc \in {"raised", "done"}
    /\ RoutesHonest

-----------------------------------------------------------------------------
\* The panel.

Ending == {"done", "raised", "thrown"}
BeforeWaves == {"called", "prepared", "refused", "archiving", "judging"}
Stages == BeforeWaves \union Phases \union {"synthesis"} \union Ending

PanelShaped ==
    /\ stage \in Stages
    /\ seats \in [Seats -> {"idle", "running", "ok", "failed", "threw"}]
    /\ answers \in [Phases -> [Seats -> {NoAnswer} \union ServedFamilies
                                            \union {DeclaredFamily[s] : s \in Seats}]]
    /\ revealed \in BOOLEAN

\* Before the first wave nothing was dispatched and no criterion has a status.
NothingYet ==
    stage \in BeforeWaves =>
        /\ \A c \in Criteria : evidence[c] = "missing-record"
        /\ tree = {} /\ staged = {}
        /\ \A p \in Phases, s \in Seats : answers[p][s] = NoAnswer

\* A wave runs only in its stage, its outputs stay staged, and identities come
\* with the end.
Blind ==
    /\ StillRunning # {} => stage \in Phases
    /\ revealed => stage \in Ending
    /\ stage = "draft" => tree = {} /\ \A s \in Seats : <<"review", s>> \notin staged
    /\ stage = "review" => \A s \in Seats : <<"review", s>> \notin tree

\* Every answer is staged or shown.
AnswersKept ==
    /\ \A p \in Phases : \A s \in Answered(p) : <<p, s>> \in tree \union staged
    /\ stage \in Ending => staged = {}

\* A passing criterion has a passing record of the frozen HEAD in the archive.
EvidenceArchived ==
    \A c \in Criteria : evidence[c] = "PASS" =>
        archive[c].status = "PASS" /\ archive[c].head = basis.before["head"]

SummaryLast ==
    /\ stage \notin {"done", "raised"} => summary = NoSummary
    /\ stage \in {"done", "raised"} => summary.status # "none"
DraftsDiverse ==
    stage \in {"review", "synthesis"} => Cardinality(Families("draft")) >= MinFamilies

PanelInv ==
    /\ PanelShaped /\ NothingYet /\ Blind /\ AnswersKept
    /\ EvidenceArchived /\ SummaryLast /\ DraftsDiverse
    /\ VerdictEvidenced

-----------------------------------------------------------------------------
\* The producer, the gate and the dashboard.

Executions == [tool : DOMAIN Tools, path : Claims \X Nat \X DOMAIN Tools,
               class : {Tools[t] : t \in DOMAIN Tools}, result : {"PASS", "FAIL"}]
Bindings == [Inputs -> Nat]
Runs == [claim : Claims, run : Nat, before : Bindings, dirty : BOOLEAN,
         todo : SUBSET DOMAIN Tools, ran : SUBSET Executions, checked : BOOLEAN]
Records == [schema : {"v3"}, bound : Bindings, dirty : BOOLEAN,
            class : {"test-witnessed", "code-enforced"}, result : {"PASS", "FAIL"},
            executions : SUBSET Executions, waived : {FALSE}]

InFlight == {p \in Producers : producer[p] # NoRun}

\* What a tool of a run in flight ran on: the bindings taken before, unless the
\* run is dirty or a reading that will find a change is still to come.
RunFaithful(p) ==
    LET run == producer[p]
    IN  \A e \in run.ran :
          /\ e.path = <<run.claim, run.run, e.tool>> /\ e.tool \notin run.todo
          /\ e.path \in DOMAIN artifacts /\ ~run.dirty =>
               \/ artifacts[e.path].on = run.before
               \/ /\ ~run.checked
                  /\ \/ artifacts[e.path].on = inputs
                     \/ \E i \in Inputs : inputs[i] > run.before[i]

\* Runs in flight are numbered apart, and read versions that exist.
RunsApart ==
    \A p \in InFlight :
        /\ producer[p] \in Runs /\ IsFiniteSet(producer[p].ran)
        /\ producer[p].run < runs
        /\ \A q \in InFlight : producer[p].run = producer[q].run => p = q
        /\ \A i \in Inputs : producer[p].before[i] =< inputEdits

\* A clean record is bound to what its tools ran on, and no run in flight
\* writes to its artifacts.
RecordFaithful(r) ==
    /\ r \in Records /\ IsFiniteSet(r.executions)
    /\ \A e \in r.executions :
         /\ e.path[2] < runs
         /\ \A p \in InFlight : producer[p].run # e.path[2]
         /\ e.path \in DOMAIN artifacts /\ ~r.dirty => artifacts[e.path].on = r.bound

LoadedRecords ==
    IF gate.pc = "idle" THEN {} ELSE {gate.loaded[c] : c \in Claims} \ {NoRecord}
KnownRecords == LoadedRecords \union ({records[c] : c \in Claims} \ {NoRecord})

InputsShaped ==
    /\ inputs \in Bindings /\ inputEdits \in Nat /\ runs \in Nat
    /\ \A i \in Inputs : inputs[i] =< inputEdits
    /\ DOMAIN producer = Producers /\ records \in [Claims -> Records \union {NoRecord}]
    /\ extra \in [Claims -> HandWritten \union {NoRecord}]

GateShaped ==
    /\ gate.pc \in {"idle", "loaded", "bound", "done"}
    /\ gate.pc # "idle" =>
        /\ gate \in [pc : {"loaded", "bound", "done"}, scope : {"recomputed", "unbound"},
                      loaded : [Claims -> Records \union {NoRecord}],
                      extra : [Claims -> HandWritten \union {NoRecord}],
                      manifest : Nat, source : Nat, intent : Nat, judged : SUBSET Claims]
        /\ \A c \in gate.judged : Depends[c] \subseteq gate.judged

\* What a verified verdict rests on is a record the gate loaded and artifacts
\* that are still there.
StillBacked ==
    (verdict.gate = "VERIFIED" /\ verdict.scope = "recomputed") =>
        \A c \in gate.judged :
            /\ TheRecord(c) \in LoadedRecords
            /\ \A e \in TheRecord(c).executions : e.path \in DOMAIN artifacts

RunInv ==
    /\ InputsShaped /\ RunsApart
    /\ \A p \in InFlight : RunFaithful(p)
    /\ \A r \in KnownRecords : RecordFaithful(r)

VerdictInv ==
    /\ verdict = Unsaid \/ gate.pc = "done"
    /\ StillBacked /\ VerifiedIsCurrent /\ DashboardAgrees

RecordInv == RunInv /\ GateShaped /\ VerdictInv

-----------------------------------------------------------------------------
\* Proof for the fan-out.

LEMMA FanoutInit_Inv == FanoutInit => FanoutInv
  <1> SUFFICES ASSUME FanoutInit PROVE FanoutInv
    OBVIOUS
  <1> USE DEF FanoutInit
  <1>1. FanoutShaped
    BY DEF FanoutShaped, Pending, Answers
  <1>2. \A v \in Routes : ReportTrue(v)
    BY DEF ReportTrue, Pending
  <1>3. RoutesHonest
    BY DEF RoutesHonest
  <1> QED
    BY <1>1, <1>2, <1>3 DEF FanoutInv

LEMMA EditTarget_Inv == FanoutInv /\ EditTarget => FanoutInv'
  <1> SUFFICES ASSUME FanoutInv, EditTarget PROVE FanoutInv'
    OBVIOUS
  <1> USE DEF FanoutInv, EditTarget
  <1>1. FanoutShaped'
    BY DEF FanoutShaped
  <1>2. \A v \in Routes : ReportTrue(v)'
    BY DEF ReportTrue
  <1>3. RoutesHonest'
    BY DEF RoutesHonest
  <1> QED
    BY <1>1, <1>2, <1>3

LEMMA Preflight_Inv == FanoutInv /\ Preflight => FanoutInv'
  <1> SUFFICES ASSUME FanoutInv, Preflight PROVE FanoutInv'
    OBVIOUS
  <1> USE DEF FanoutInv, Preflight
  <1>1. FanoutShaped'
    BY DEF FanoutShaped
  <1>2. \A v \in Routes : ReportTrue(v)'
    BY DEF ReportTrue, FanoutShaped
  <1>3. outcome' = NoOutcome
    BY DEF FanoutShaped
  <1> QED
    BY <1>1, <1>2, <1>3 DEF RoutesHonest, NoOutcome

\* One voice ends while the wave runs, so there is no outcome yet.
LEMMA Answer_Inv ==
  ASSUME FanoutInv, NEW v \in Routes, Answer(v) PROVE FanoutInv'
  <1> USE DEF FanoutInv, Answer
  <1>1. PICK answer \in MayServe : \E report \in Reports(answer) :
          served' = [served EXCEPT ![v] = [status |-> "ok", answer |-> answer, report |-> report]]
    OBVIOUS
  <1>2. PICK report \in Reports(answer) :
          served' = [served EXCEPT ![v] = [status |-> "ok", answer |-> answer, report |-> report]]
    BY <1>1
  <1>3. /\ answer \in Answers /\ (fanout.certified => answer = "requested")
        /\ report \in {"no-report", "names-requested", "flag-fallback", "names-other", "flag-direct"}
        /\ report \in {"flag-fallback", "names-other"} => answer = "fallback"
        /\ report = "flag-direct" => answer = "requested"
    BY DEF MayServe, Answers, Reports
  <1>4. FanoutShaped'
    BY <1>2, <1>3 DEF FanoutShaped
  <1>5. \A w \in Routes : ReportTrue(w)'
    BY <1>2, <1>3 DEF ReportTrue, FanoutShaped
  <1>6. outcome' = NoOutcome
    OBVIOUS
  <1> QED
    BY <1>4, <1>5, <1>6 DEF RoutesHonest

LEMMA Fail_Inv ==
  ASSUME FanoutInv, NEW v \in Routes, Fail(v) PROVE FanoutInv'
  <1> USE DEF FanoutInv, Fail
  <1>1. FanoutShaped'
    BY DEF FanoutShaped
  <1>2. \A w \in Routes : ReportTrue(w)'
    BY DEF ReportTrue, FanoutShaped
  <1>3. outcome' = NoOutcome
    OBVIOUS
  <1> QED
    BY <1>1, <1>2, <1>3 DEF RoutesHonest

\* However the wave ends, the summary is true of the voices it returned: all of
\* them, unless it was cut short.
LEMMA Summarize_Inv ==
  ASSUME FanoutInv, fanout.pc = "wave",
         NEW returned \in SUBSET Routes, NEW crashed \in BOOLEAN,
         ~crashed => returned = Routes,
         Summarize(returned, crashed)
  PROVE  FanoutInv'
  <1> USE DEF FanoutInv
  <1> DEFINE ok == Succeeded \intersect returned
  <1>1. /\ outcome' = [verdict |-> IF crashed \/ target # fanout.frozen \/ ok = {} THEN "INCOMPLETE"
                                   ELSE IF ok = Routes THEN "COMPLETE"
                                   ELSE "PARTIAL",
                       fallback |-> {v \in ok : ServedByFallback(v)},
                       unverified |-> {v \in ok : ~Established(v)}]
        /\ fanout' = [fanout EXCEPT !.pc = IF crashed THEN "raised" ELSE "done"]
        /\ target' = target /\ served' = served
    BY DEF Summarize
  <1>2. FanoutShaped'
    BY <1>1 DEF FanoutShaped
  <1>3. \A w \in Routes : ReportTrue(w)'
    BY <1>1 DEF ReportTrue, FanoutShaped
  <1>4. fanout'.pc \in {"raised", "done"} /\ fanout'.frozen = fanout.frozen
    BY <1>1 DEF FanoutShaped
  <1>5. Succeeded' = Succeeded /\ Succeeded \subseteq Routes
    BY <1>1 DEF Succeeded
  <1>6. /\ outcome'.verdict = "COMPLETE" => ok = Routes /\ fanout.frozen = target
        /\ outcome'.verdict \in {"COMPLETE", "PARTIAL"} => ~crashed
    <2> HIDE DEF ok
    <2>1. outcome'.verdict = IF crashed \/ target # fanout.frozen \/ ok = {} THEN "INCOMPLETE"
                             ELSE IF ok = Routes THEN "COMPLETE"
                             ELSE "PARTIAL"
      BY <1>1
    <2> QED
      BY <2>1
  <1>7. \A v \in outcome'.fallback : served[v].answer = "fallback"
    BY <1>1, <1>5 DEF ServedByFallback, ReportTrue, Succeeded
  <1>8. ASSUME outcome'.verdict \in {"COMPLETE", "PARTIAL"},
               NEW v \in Succeeded \ (outcome'.fallback \union outcome'.unverified)
        PROVE  served[v].answer = "requested"
    <2>1. ~crashed
      BY <1>6, <1>8
    <2>2. v \in ok /\ v \in Routes
      BY <2>1, <1>5
    <2>3. ~ServedByFallback(v) /\ Established(v)
      BY <2>2, <1>1
    <2>4. ReportTrue(v) /\ served[v].status = "ok"
      BY <2>2 DEF Succeeded
    <2> QED
      BY <2>3, <2>4 DEF ServedByFallback, Established, ReportTrue
  <1>9. RoutesHonest'
    BY <1>1, <1>4, <1>5, <1>6, <1>7, <1>8 DEF RoutesHonest
  <1> QED
    BY <1>2, <1>3, <1>4, <1>9

LEMMA FanoutNext_Inv == FanoutInv /\ [FanoutNext]_fanoutVars => FanoutInv'
  <1> SUFFICES ASSUME FanoutInv, [FanoutNext]_fanoutVars PROVE FanoutInv'
    OBVIOUS
  <1>1. CASE EditTarget
    BY <1>1, EditTarget_Inv
  <1>2. CASE Preflight
    BY <1>2, Preflight_Inv
  <1>3. CASE FanoutEnds
    BY <1>3, Summarize_Inv DEF FanoutEnds, Ended
  <1>4. CASE FanoutLoses
    <2>1. PICK returned \in (SUBSET Routes) \ {Routes} : Summarize(returned, TRUE)
      BY <1>4 DEF FanoutLoses
    <2> QED
      BY <1>4, <2>1, Summarize_Inv DEF FanoutLoses, Ended
  <1>5. CASE FanoutRaises
    BY <1>5, Summarize_Inv DEF FanoutRaises
  <1>6. ASSUME NEW v \in Routes, Answer(v) PROVE FanoutInv'
    BY <1>6, Answer_Inv
  <1>7. ASSUME NEW v \in Routes, Fail(v) PROVE FanoutInv'
    BY <1>7, Fail_Inv
  <1>8. CASE UNCHANGED fanoutVars
    BY <1>8 DEF fanoutVars, FanoutInv, FanoutShaped, ReportTrue, RoutesHonest, Succeeded
  <1> QED
    BY <1>1, <1>2, <1>3, <1>4, <1>5, <1>6, <1>7, <1>8 DEF FanoutNext

\* The summary of a wave never reads better than what happened, for every number
\* of voices, whatever answers them, whatever the bridge reports of it and
\* whenever parallel() loses or raises.  (_write_summary, classify_served_route)
THEOREM RoutesAlwaysHonest == FanoutSpec => []RoutesHonest
  <1>1. FanoutInv => RoutesHonest
    BY DEF FanoutInv
  <1> QED
    BY <1>1, FanoutInit_Inv, FanoutNext_Inv, PTL DEF FanoutSpec

-----------------------------------------------------------------------------
\* Proof for the panel.

LEMMA PanelInit_Inv == PanelInit => PanelInv
  <1> SUFFICES ASSUME PanelInit PROVE PanelInv
    OBVIOUS
  <1> USE DEF PanelInit
  <1>1. PanelShaped
    BY DEF PanelShaped, Stages, BeforeWaves, Phases
  <1>2. NothingYet
    BY DEF NothingYet, Phases
  <1>3. StillRunning = {}
    BY DEF StillRunning
  <1>4. Blind /\ AnswersKept
    BY <1>3 DEF Blind, AnswersKept, Answered, Phases, Ending
  <1>5. EvidenceArchived /\ SummaryLast /\ DraftsDiverse /\ VerdictEvidenced
    BY DEF EvidenceArchived, SummaryLast, DraftsDiverse, VerdictEvidenced, NoSummary
  <1> QED
    BY <1>1, <1>2, <1>4, <1>5 DEF PanelInv

\* Without a summary there is no verdict.
LEMMA NoVerdictYet ==
  ASSUME SummaryLast', stage' \notin {"done", "raised"} PROVE VerdictEvidenced'
  BY DEF SummaryLast, VerdictEvidenced, NoSummary

\* The owner's edits and the records the owner adds reach nothing that was frozen.
LEMMA Outside_Inv ==
  ASSUME PanelInv,
         UNCHANGED <<panel, basis, archive, evidence, stage, seats, answers, staged, tree,
                     revealed, judged, summary>>
  PROVE  PanelInv'
  <1> USE DEF PanelInv
  <1>1. PanelShaped' /\ NothingYet' /\ Blind' /\ AnswersKept'
    BY DEF PanelShaped, NothingYet, Blind, StillRunning, AnswersKept, Answered
  <1>2. EvidenceArchived' /\ SummaryLast' /\ DraftsDiverse'
    BY DEF EvidenceArchived, SummaryLast, DraftsDiverse, Families, Answered
  <1>3. VerdictEvidenced'
    BY DEF VerdictEvidenced, Families, Answered
  <1> QED
    BY <1>1, <1>2, <1>3

LEMMA Prepare_Inv == PanelInv /\ Prepare => PanelInv'
  <1> SUFFICES ASSUME PanelInv, Prepare PROVE PanelInv'
    OBVIOUS
  <1> USE DEF PanelInv, Prepare
  <1>1. PanelShaped' /\ NothingYet' /\ Blind' /\ AnswersKept'
    BY DEF PanelShaped, NothingYet, Blind, StillRunning, AnswersKept, Answered, Stages,
           BeforeWaves, Ending, Phases
  <1>2. EvidenceArchived' /\ SummaryLast' /\ DraftsDiverse'
    BY DEF EvidenceArchived, SummaryLast, DraftsDiverse, NothingYet, BeforeWaves
  <1> QED
    BY <1>1, <1>2, NoVerdictYet

\* The first wave starts with nothing answered, staged or shown.
LEMMA FirstWave ==
  ASSUME PanelShaped, NothingYet, stage \in BeforeWaves, StartWave("draft", Seats), Blind,
         UNCHANGED <<answers, staged, tree, revealed>>
  PROVE  PanelShaped' /\ NothingYet' /\ Blind' /\ AnswersKept'
  <1>1. PanelShaped'
    BY DEF PanelShaped, StartWave, Stages, Phases
  <1>2. stage' = "draft" /\ tree' = {} /\ staged' = {} /\ ~revealed'
    BY DEF StartWave, NothingYet, Blind, PanelShaped, BeforeWaves, Ending
  <1>3. \A p \in Phases : \A s \in Seats : answers'[p][s] = NoAnswer
    BY DEF NothingYet
  <1> QED
    BY <1>1, <1>2, <1>3 DEF NothingYet, Blind, AnswersKept, Answered, BeforeWaves, Ending, Phases

LEMMA Freeze_Inv == PanelInv /\ Freeze => PanelInv'
  <1> SUFFICES ASSUME PanelInv, Freeze PROVE PanelInv'
    OBVIOUS
  <1> USE DEF PanelInv, Freeze
  <1>1. stage \in BeforeWaves /\ \A c \in Criteria : evidence'[c] = "missing-record"
    BY DEF NothingYet, BeforeWaves
  <1>2. PanelShaped' /\ NothingYet' /\ Blind' /\ AnswersKept' /\ stage' \notin {"done", "raised"}
        /\ stage' \notin {"review", "synthesis"}
    <2>1. CASE stage' \in {"refused", "archiving"} /\ UNCHANGED seats
      BY <1>1, <2>1 DEF PanelShaped, NothingYet, Blind, StillRunning, AnswersKept, Answered,
         Stages, BeforeWaves, Ending, Phases
    <2>2. CASE StartWave("draft", Seats)
      BY <1>1, <2>2, FirstWave DEF StartWave
    <2> QED
      BY <2>1, <2>2
  <1>3. EvidenceArchived' /\ SummaryLast' /\ DraftsDiverse'
    BY <1>1, <1>2 DEF EvidenceArchived, SummaryLast, DraftsDiverse, BeforeWaves
  <1> QED
    BY <1>2, <1>3, NoVerdictYet

LEMMA GateArchives_Inv == PanelInv /\ GateArchives => PanelInv'
  <1> SUFFICES ASSUME PanelInv, GateArchives PROVE PanelInv'
    OBVIOUS
  <1> USE DEF PanelInv, GateArchives
  <1>1. PanelShaped' /\ NothingYet' /\ Blind' /\ AnswersKept'
    BY DEF PanelShaped, NothingYet, Blind, StillRunning, AnswersKept, Answered, Stages,
           BeforeWaves, Ending, Phases
  <1>2. EvidenceArchived' /\ SummaryLast' /\ DraftsDiverse'
    BY DEF EvidenceArchived, SummaryLast, DraftsDiverse, NothingYet, BeforeWaves
  <1> QED
    BY <1>1, <1>2, NoVerdictYet

\* A criterion passes only by a record of the archive at the frozen HEAD.
LEMMA GateJudges_Inv == PanelInv /\ GateJudges => PanelInv'
  <1> SUFFICES ASSUME PanelInv, GateJudges PROVE PanelInv'
    OBVIOUS
  <1> USE DEF PanelInv, GateJudges
  <1>1. stage \in BeforeWaves
    BY DEF BeforeWaves
  <1>2. PanelShaped' /\ NothingYet' /\ Blind' /\ AnswersKept' /\ stage' = "draft"
    BY <1>1, FirstWave DEF StartWave
  <1>3. ASSUME NEW c \in Criteria, evidence'[c] = "PASS"
        PROVE  archive[c].status = "PASS" /\ archive[c].head = basis.before["head"]
    BY <1>3
  <1>4. EvidenceArchived'
    BY <1>3 DEF EvidenceArchived
  <1>5. SummaryLast' /\ DraftsDiverse'
    BY <1>2 DEF SummaryLast, DraftsDiverse
  <1> QED
    BY <1>2, <1>4, <1>5, NoVerdictYet

\* A seat that answers, fails or throws leaves its wave running or over.
LEMMA SeatEnds_Inv ==
  ASSUME PanelInv, NEW s \in Seats, SeatAnswers(s) \/ SeatFails(s) \/ SeatThrows(s)
  PROVE  PanelInv'
  <1> USE DEF PanelInv
  <1>1. /\ stage \in Phases /\ stage' = stage
        /\ UNCHANGED <<basis, archive, evidence, tree, revealed, summary>>
        /\ staged' \subseteq staged \union {<<stage, s>>} /\ staged \subseteq staged'
        /\ \E how \in {"ok", "failed", "threw"} : seats' = [seats EXCEPT ![s] = how]
    BY DEF SeatAnswers, SeatFails, SeatThrows
  <1>2. PICK family : \/ answers' = [answers EXCEPT ![stage][s] = family]
                         /\ <<stage, s>> \in staged'
                         /\ family \in ServedFamilies \union {DeclaredFamily[t] : t \in Seats}
                      \/ answers' = answers
    BY DEF SeatAnswers, SeatFails, SeatThrows
  <1>3. PanelShaped'
    <2>1. answers' \in [Phases -> [Seats -> {NoAnswer} \union ServedFamilies
                                                \union {DeclaredFamily[t] : t \in Seats}]]
      BY <1>1, <1>2 DEF PanelShaped
    <2> QED
      BY <1>1, <2>1 DEF PanelShaped
  <1>4. NothingYet'
    BY <1>1 DEF NothingYet, BeforeWaves, Phases
  <1>5. Blind'
    BY <1>1 DEF Blind, Phases, Ending
  <1>6. AnswersKept'
    <2>1. ASSUME NEW p \in Phases, NEW t \in Seats, answers'[p][t] # NoAnswer
          PROVE  <<p, t>> \in tree' \union staged'
      <3>1. CASE answers'[p][t] = answers[p][t]
        BY <1>1, <2>1, <3>1 DEF AnswersKept, Answered
      <3>2. CASE answers'[p][t] # answers[p][t]
        <4>1. p = stage /\ t = s /\ <<stage, s>> \in staged'
          BY <1>1, <1>2, <3>2 DEF PanelShaped
        <4> QED
          BY <4>1
      <3> QED
        BY <3>1, <3>2
    <2> QED
      BY <1>1, <2>1 DEF AnswersKept, Answered, Ending, Phases
  <1>7. EvidenceArchived' /\ SummaryLast'
    BY <1>1 DEF EvidenceArchived, SummaryLast, Phases
  <1>8. DraftsDiverse'
    <2> SUFFICES ASSUME stage = "review" PROVE Cardinality(Families("draft"))' >= MinFamilies
      BY <1>1 DEF DraftsDiverse, Phases
    <2>1. answers'["draft"] = answers["draft"]
      BY <1>1, <1>2 DEF PanelShaped, Phases
    <2>2. Families("draft")' = Families("draft")
      BY <2>1 DEF Families, Answered
    <2> QED
      BY <2>2 DEF DraftsDiverse
  <1> QED
    BY <1>1, <1>3, <1>4, <1>5, <1>6, <1>7, <1>8, NoVerdictYet DEF Phases

-----------------------------------------------------------------------------
\* The verdict.

Sayings == [Criteria -> {{}, {"PASS"}, {"FAIL"}, {"PASS", "FAIL"}}]

\* Gate B's FAIL is the panel's, and the panel's PASS is Gate B's.
LEMMA GuardDecides ==
  ASSUME NEW said \in Sayings
  PROVE  /\ Adjudicate(said) = "FAIL" <=> \E c \in Criteria : evidence[c] = "FAIL"
         /\ Adjudicate(said) \in {"FAIL", "INCOMPLETE", "CONTESTED", "PASS"}
         /\ Adjudicate(said) = "PASS" =>
              \A c \in Criteria : evidence[c] = "PASS" /\ said[c] = {"PASS"}
  <1> DEFINE covered  == {c \in Criteria : said[c] # {}}
             disputed == {c \in Criteria : "FAIL" \in said[c]}
             verdicts == {CriterionVerdict(c, covered, disputed) : c \in Criteria}
             crowded  == \E c \in Criteria : Cardinality(said[c]) > 1
  <1>1. \A c \in Criteria :
          /\ CriterionVerdict(c, covered, disputed) = "FAIL" <=> evidence[c] = "FAIL"
          /\ CriterionVerdict(c, covered, disputed) \in {"FAIL", "INCOMPLETE", "CONTESTED", "PASS"}
          /\ CriterionVerdict(c, covered, disputed) = "PASS" =>
               evidence[c] = "PASS" /\ c \in covered /\ c \notin disputed
    BY DEF CriterionVerdict
  <1>2. \A c \in Criteria : c \in covered /\ c \notin disputed => said[c] = {"PASS"}
    BY DEF Sayings
  <1>3. Adjudicate(said) = IF "FAIL" \in verdicts THEN "FAIL"
                           ELSE IF crowded THEN "INCOMPLETE"
                           ELSE IF "INCOMPLETE" \in verdicts THEN "INCOMPLETE"
                           ELSE IF "CONTESTED" \in verdicts THEN "CONTESTED"
                           ELSE "PASS"
    BY DEF Adjudicate
  <1>4. "FAIL" \in verdicts <=> \E c \in Criteria : evidence[c] = "FAIL"
    BY <1>1
  <1>5. (verdicts \intersect {"FAIL", "INCOMPLETE", "CONTESTED"} = {}) =>
           \A c \in Criteria : CriterionVerdict(c, covered, disputed) = "PASS"
    BY <1>1
  <1> HIDE DEF verdicts, crowded, covered, disputed
  <1> QED
    BY <1>1, <1>2, <1>3, <1>4, <1>5

\* Drift and a dirty tree only take a verdict down.
LEMMA FinishSays ==
  ASSUME NEW status \in {"INCOMPLETE", "PARTIAL", "COMPLETE"}, NEW said \in Sayings,
         Finish(status, said)
  PROVE  /\ summary'.status \in {status, "INCOMPLETE"}
         /\ summary'.verdict # "none" =>
              (summary'.verdict = "FAIL" <=> \E c \in Criteria : evidence[c] = "FAIL")
         /\ summary'.verdict = "CONTESTED" => summary'.status # "INCOMPLETE"
         /\ summary'.verdict = "PASS" =>
              /\ status = "COMPLETE" /\ basis.before["work"] = basis.before["head"]
              /\ \A c \in Criteria : evidence[c] = "PASS" /\ said[c] = {"PASS"}
  <1> DEFINE final    == IF Stable THEN status ELSE "INCOMPLETE"
             proposed == Adjudicate(said)
             clean    == panel.git /\ Snapshot = basis.before /\ ~Dirty(basis.before)
  <1>1. /\ summary'.status = final
        /\ summary'.verdict = IF ~panel.milestone THEN "none"
                              ELSE IF proposed = "FAIL" THEN "FAIL"
                              ELSE IF final = "INCOMPLETE" THEN "INCOMPLETE"
                              ELSE IF proposed = "PASS" /\ ~(final = "COMPLETE" /\ clean)
                                   THEN "INCOMPLETE"
                              ELSE proposed
    BY DEF Finish
  <1>2. clean => basis.before["work"] = basis.before["head"]
    BY DEF Dirty
  <1>3. final \in {status, "INCOMPLETE"}
    OBVIOUS
  <1>4. /\ proposed = "FAIL" <=> \E c \in Criteria : evidence[c] = "FAIL"
        /\ proposed \in {"FAIL", "INCOMPLETE", "CONTESTED", "PASS"}
        /\ proposed = "PASS" => \A c \in Criteria : evidence[c] = "PASS" /\ said[c] = {"PASS"}
    BY GuardDecides
  <1> HIDE DEF final, proposed, clean
  <1> QED
    BY <1>1, <1>2, <1>3, <1>4

\* Every end but the last one leaves the judgement incomplete, whatever it says.
LEMMA VerdictAtEnd ==
  ASSUME PanelInv, NEW status \in {"INCOMPLETE", "PARTIAL", "COMPLETE"}, NEW said \in Sayings,
         Finish(status, said), UNCHANGED <<basis, archive, evidence, answers>>,
         status = "COMPLETE" =>
           /\ Answered("draft") = Seats /\ Answered("review") = Seats
           /\ stage = "synthesis" /\ judged' = said
  PROVE  VerdictEvidenced' /\ summary'.status # "none"
  <1>1. /\ summary'.verdict # "none" =>
              (summary'.verdict = "FAIL" <=> \E c \in Criteria : evidence[c] = "FAIL")
        /\ summary'.verdict = "CONTESTED" => summary'.status # "INCOMPLETE"
        /\ summary'.verdict = "PASS" =>
              /\ status = "COMPLETE" /\ basis.before["work"] = basis.before["head"]
              /\ \A c \in Criteria : evidence[c] = "PASS" /\ said[c] = {"PASS"}
        /\ summary'.status # "none"
    BY FinishSays
  <1>2. /\ Answered("draft")' = Answered("draft") /\ Answered("review")' = Answered("review")
        /\ Families("draft")' = Families("draft")
    BY DEF Answered, Families
  <1>3. status = "COMPLETE" => Cardinality(Families("draft")) >= MinFamilies
    BY DEF PanelInv, DraftsDiverse
  <1>4. \A c \in Criteria : evidence[c] = "PASS" =>
          archive[c].status = "PASS" /\ archive[c].head = basis.before["head"]
    BY DEF PanelInv, EvidenceArchived
  <1> QED
    BY <1>1, <1>2, <1>3, <1>4 DEF VerdictEvidenced

\* The finally clause shows what is staged, whatever ended the run.
LEMMA End_Inv ==
  ASSUME PanelInv, NEW how \in Ending, stage \in Phases \union {"synthesis"}, StillRunning = {},
         End(how), UNCHANGED <<basis, archive, evidence, seats, answers>>,
         IF how = "thrown" THEN summary' = NoSummary
                           ELSE summary'.status # "none" /\ VerdictEvidenced'
  PROVE  PanelInv'
  <1> USE DEF PanelInv
  <1>1. /\ stage' = how /\ tree' = tree \union staged /\ staged' = {} /\ revealed' = TRUE
    BY DEF End, Persist
  <1>2. PanelShaped'
    BY <1>1 DEF PanelShaped, Stages
  <1>3. NothingYet' /\ DraftsDiverse'
    BY <1>1 DEF NothingYet, DraftsDiverse, BeforeWaves, Ending
  <1>4. StillRunning' = {}
    BY DEF StillRunning
  <1>5. Blind' /\ AnswersKept'
    BY <1>1, <1>4 DEF Blind, AnswersKept, Answered, Ending
  <1>6. EvidenceArchived'
    BY DEF EvidenceArchived
  <1>7. SummaryLast' /\ VerdictEvidenced'
    BY <1>1 DEF SummaryLast, Ending, NoSummary, VerdictEvidenced
  <1> QED
    BY <1>2, <1>3, <1>5, <1>6, <1>7

LEMMA SilenceSaid == Silence \in Sayings
  BY DEF Silence, Sayings

LEMMA CutShort_Inv ==
  ASSUME PanelInv, NEW how \in {"done", "raised"}, stage \in Phases \union {"synthesis"},
         StillRunning = {}, Finish("INCOMPLETE", Silence), End(how),
         UNCHANGED <<basis, archive, evidence, seats, answers>>
  PROVE  PanelInv'
  <1>1. VerdictEvidenced' /\ summary'.status # "none"
    BY VerdictAtEnd, SilenceSaid
  <1> QED
    BY <1>1, End_Inv DEF Ending

\* At a barrier what is staged becomes visible, and the next wave has shown
\* nothing of its own.
LEMMA DraftBarrier_Inv == PanelInv /\ DraftBarrier => PanelInv'
  <1> SUFFICES ASSUME PanelInv, DraftBarrier PROVE PanelInv'
    OBVIOUS
  <1>1. /\ stage = "draft" /\ StillRunning = {}
        /\ UNCHANGED <<panel, basis, archive, evidence, answers>>
    BY DEF DraftBarrier, WaveReturns
  <1>2. CASE Finish("INCOMPLETE", Silence) /\ End("done") /\ UNCHANGED seats
    BY <1>1, <1>2, CutShort_Inv DEF Phases
  <1>3. CASE /\ Cardinality(Families("draft")) >= MinFamilies
             /\ StartWave("review", Answered("draft")) /\ Persist
             /\ UNCHANGED <<revealed, summary>>
    <2> USE DEF PanelInv
    <2>1. stage' = "review" /\ tree' = tree \union staged /\ staged' = {} /\ revealed' = revealed
      BY <1>3 DEF StartWave, Persist
    <2>2. PanelShaped'
      BY <1>1, <1>3, <2>1 DEF PanelShaped, StartWave, Stages, Phases
    <2>3. NothingYet' /\ AnswersKept'
      BY <1>1, <2>1 DEF NothingYet, BeforeWaves, AnswersKept, Answered, Ending
    <2>4. Blind'
      BY <1>1, <2>1 DEF Blind, Phases, Ending
    <2>5. EvidenceArchived'
      BY <1>1 DEF EvidenceArchived
    <2>6. SummaryLast'
      BY <1>1, <1>3, <2>1 DEF SummaryLast
    <2>7. DraftsDiverse'
      BY <1>1, <1>3 DEF DraftsDiverse, Families, Answered
    <2> QED
      BY <2>1, <2>2, <2>3, <2>4, <2>5, <2>6, <2>7, NoVerdictYet
  <1> QED
    BY <1>2, <1>3 DEF DraftBarrier

LEMMA ReviewBarrier_Inv == PanelInv /\ ReviewBarrier => PanelInv'
  <1> SUFFICES ASSUME PanelInv, ReviewBarrier PROVE PanelInv'
    OBVIOUS
  <1>1. /\ stage = "review" /\ StillRunning = {}
        /\ UNCHANGED <<panel, basis, archive, evidence, answers, seats>>
    BY DEF ReviewBarrier, WaveReturns
  <1>2. CASE Finish("INCOMPLETE", Silence) /\ End("done")
    BY <1>1, <1>2, CutShort_Inv DEF Phases
  <1>3. CASE stage' = "synthesis" /\ Persist /\ UNCHANGED <<revealed, summary>>
    <2> USE DEF PanelInv
    <2>1. stage' = "synthesis" /\ tree' = tree \union staged /\ staged' = {} /\ revealed' = revealed
      BY <1>3 DEF Persist
    <2>2. PanelShaped'
      BY <1>1, <1>3, <2>1 DEF PanelShaped, Stages
    <2>3. NothingYet' /\ AnswersKept'
      BY <1>1, <2>1 DEF NothingYet, BeforeWaves, AnswersKept, Answered, Ending
    <2>4. StillRunning' = {}
      BY <1>1 DEF StillRunning
    <2>5. Blind'
      BY <1>1, <2>1, <2>4 DEF Blind, Phases, Ending
    <2>6. EvidenceArchived'
      BY <1>1 DEF EvidenceArchived
    <2>7. SummaryLast'
      BY <1>1, <1>3, <2>1 DEF SummaryLast
    <2>8. DraftsDiverse'
      BY <1>1 DEF DraftsDiverse, Families, Answered
    <2> QED
      BY <2>1, <2>2, <2>3, <2>5, <2>6, <2>7, <2>8, NoVerdictYet
  <1> QED
    BY <1>2, <1>3 DEF ReviewBarrier

LEMMA Synthesize_Inv == PanelInv /\ Synthesize => PanelInv'
  <1> SUFFICES ASSUME PanelInv, Synthesize PROVE PanelInv'
    OBVIOUS
  <1> DEFINE status == IF Answered("draft") = Seats /\ Answered("review") = Seats
                       THEN "COMPLETE" ELSE "PARTIAL"
  <1>1. /\ stage = "synthesis" /\ End("done")
        /\ UNCHANGED <<basis, archive, evidence, seats, answers>>
    BY DEF Synthesize
  <1>2. StillRunning = {}
    BY <1>1 DEF PanelInv, Blind, Phases
  <1>3. PICK said \in Sayings : judged' = said /\ Finish(status, said)
    BY DEF Synthesize, Sayings
  <1>4. VerdictEvidenced' /\ summary'.status # "none"
    BY <1>1, <1>3, VerdictAtEnd
  <1> QED
    BY <1>1, <1>2, <1>4, End_Inv DEF Ending

LEMMA PanelNext_Inv == PanelInv /\ [PanelNext]_panelVars => PanelInv'
  <1> SUFFICES ASSUME PanelInv, [PanelNext]_panelVars PROVE PanelInv'
    OBVIOUS
  <1>1. ASSUME NEW p \in Parts, EditPart(p) PROVE PanelInv'
    BY <1>1, Outside_Inv DEF EditPart
  <1>2. ASSUME NEW c \in Criteria, RecordEvidence(c) PROVE PanelInv'
    BY <1>2, Outside_Inv DEF RecordEvidence
  <1>3. CASE Prepare
    BY <1>3, Prepare_Inv
  <1>4. CASE Freeze
    BY <1>4, Freeze_Inv
  <1>5. CASE GateArchives
    BY <1>5, GateArchives_Inv
  <1>6. CASE GateJudges
    BY <1>6, GateJudges_Inv
  <1>7. ASSUME NEW s \in Seats, SeatAnswers(s) \/ SeatFails(s) \/ SeatThrows(s) PROVE PanelInv'
    BY <1>7, SeatEnds_Inv
  <1>8. CASE WaveRaises \/ WaveMiscounts
    BY <1>8, CutShort_Inv DEF WaveRaises, WaveMiscounts
  <1>9. CASE DraftBarrier
    BY <1>9, DraftBarrier_Inv
  <1>10. CASE ReviewBarrier
    BY <1>10, ReviewBarrier_Inv
  <1>11. CASE Synthesize
    BY <1>11, Synthesize_Inv
  <1>12. stage = "synthesis" => StillRunning = {}
    BY DEF PanelInv, Blind, Phases
  <1>13. CASE SynthesizerFails
    BY <1>12, <1>13, CutShort_Inv DEF SynthesizerFails
  <1>14. CASE SynthesisThrows
    <2>1. summary' = NoSummary
      BY <1>14 DEF SynthesisThrows, PanelInv, SummaryLast
    <2> QED
      BY <1>12, <1>14, <2>1, End_Inv DEF SynthesisThrows, Ending
  <1>15. CASE UNCHANGED panelVars
    BY <1>15, Outside_Inv DEF panelVars
  <1> QED
    BY <1>1, <1>2, <1>3, <1>4, <1>5, <1>6, <1>7, <1>8, <1>9, <1>10, <1>11, <1>13, <1>14, <1>15
       DEF PanelNext

LEMMA PanelAlwaysInv == PanelSpec => []PanelInv
  BY PanelInit_Inv, PanelNext_Inv, PTL DEF PanelSpec

\* The verdict is Gate B's, for every panel of seats and criteria, whatever the
\* seats answer, whoever throws and whatever the owner edits meanwhile.
\* (milestone_verdict_guard, _finish)
THEOREM VerdictAlwaysEvidenced == PanelSpec => []VerdictEvidenced
  <1>1. PanelInv => VerdictEvidenced
    BY DEF PanelInv
  <1> QED
    BY <1>1, PanelAlwaysInv, PTL

\* Seats are blind while their wave runs, and nothing they returned is lost
\* however the run ends.  (_persist_staging, the finally clause of run_panel)
THEOREM OutputsAlwaysVisible == PanelSpec => []OutputsVisible
  <1>1. PanelInv => OutputsVisible
    <2> SUFFICES ASSUME PanelInv PROVE OutputsVisible
      OBVIOUS
    <2>1. StillRunning # {} => ~revealed /\ \A s \in Seats : <<stage, s>> \notin tree
      BY DEF PanelInv, Blind, Phases, Ending
    <2> QED
      BY <2>1 DEF PanelInv, OutputsVisible, AnswersKept, SummaryLast, Ending
  <1> QED
    BY <1>1, PanelAlwaysInv, PTL

-----------------------------------------------------------------------------
\* Proof for the producer.

LEMMA RunInit_Inv == GateInit => RunInv
  <1> SUFFICES ASSUME GateInit PROVE RunInv
    OBVIOUS
  <1> USE DEF GateInit
  <1>1. InFlight = {}
    BY DEF InFlight
  <1>2. KnownRecords = {}
    BY DEF KnownRecords, LoadedRecords
  <1>3. InputsShaped
    BY DEF InputsShaped, Bindings
  <1> QED
    BY <1>1, <1>2, <1>3 DEF RunInv, RunsApart

\* A record stays faithful while no run in flight takes the number of one of its
\* artifacts and the artifacts it names are lost at most.
LEMMA RecordsStay ==
  ASSUME \A r \in KnownRecords : RecordFaithful(r), runs \in Nat, runs' \in Nat, runs =< runs',
         \A p \in InFlight' : \/ p \in InFlight /\ producer'[p].run = producer[p].run
                              \/ producer'[p].run = runs,
         \A r \in KnownRecords : \A e \in r.executions :
            e.path \in DOMAIN artifacts' =>
              e.path \in DOMAIN artifacts /\ artifacts'[e.path] = artifacts[e.path],
         NEW r \in KnownRecords
  PROVE  RecordFaithful(r)'
  <1>1. r \in Records /\ IsFiniteSet(r.executions)
    BY DEF RecordFaithful
  <1>2. ASSUME NEW e \in r.executions
        PROVE  /\ e.path[2] < runs'
               /\ \A p \in InFlight' : producer'[p].run # e.path[2]
               /\ e.path \in DOMAIN artifacts' /\ ~r.dirty => artifacts'[e.path].on = r.bound
    <2>1. /\ e.path[2] < runs
          /\ \A p \in InFlight : producer[p].run # e.path[2]
          /\ e.path \in DOMAIN artifacts /\ ~r.dirty => artifacts[e.path].on = r.bound
      BY DEF RecordFaithful
    <2>2. e.path[2] \in Nat
      BY <1>1 DEF Records, Executions
    <2> QED
      BY <2>1, <2>2
  <1> QED
    BY <1>1, <1>2 DEF RecordFaithful

\* Whatever leaves the runs and the artifacts alone.
LEMMA RunsStay ==
  ASSUME RunInv, InputsShaped', KnownRecords' \subseteq KnownRecords,
         inputEdits =< inputEdits', UNCHANGED <<producer, runs, artifacts>>,
         \A p \in InFlight : producer[p].checked \/ inputs' = inputs
  PROVE  RunInv'
  <1>1. InFlight' = InFlight
    BY DEF InFlight
  <1>2. RunsApart'
    <2> SUFFICES ASSUME NEW p \in InFlight
                 PROVE  \A i \in Inputs : producer[p].before[i] =< inputEdits'
      BY <1>1 DEF RunInv, RunsApart
    <2>1. producer[p].before \in Bindings /\ \A i \in Inputs : producer[p].before[i] =< inputEdits
      BY DEF RunInv, RunsApart, Runs
    <2> QED
      BY <2>1 DEF RunInv, InputsShaped, Bindings
  <1>3. ASSUME NEW p \in InFlight PROVE RunFaithful(p)'
    BY <1>1, <1>3 DEF RunInv, RunFaithful
  <1>4. ASSUME NEW r \in KnownRecords PROVE RecordFaithful(r)'
    BY <1>1, <1>4 DEF RunInv, RecordFaithful
  <1> QED
    BY <1>1, <1>2, <1>3, <1>4 DEF RunInv

\* A new version of an input is one that no run in flight has read before.
LEMMA EditInput_Run ==
  ASSUME RunInv, NEW i \in Inputs, EditInput(i) PROVE RunInv'
  <1>1. /\ inputs' = [inputs EXCEPT ![i] = inputEdits + 1] /\ inputEdits' = inputEdits + 1
        /\ UNCHANGED <<records, extra, artifacts, producer, runs, gate>>
    BY DEF EditInput, Edit
  <1>2. InputsShaped
    BY DEF RunInv
  <1>3. InFlight' = InFlight /\ KnownRecords' = KnownRecords
    BY <1>1 DEF InFlight, KnownRecords, LoadedRecords
  <1>4. InputsShaped'
    BY <1>1, <1>2 DEF InputsShaped, Bindings
  <1>5. RunsApart'
    <2> SUFFICES ASSUME NEW p \in InFlight
                 PROVE  \A j \in Inputs : producer[p].before[j] =< inputEdits'
      BY <1>1, <1>3 DEF RunInv, RunsApart
    <2>1. producer[p].before \in Bindings /\ \A j \in Inputs : producer[p].before[j] =< inputEdits
      BY DEF RunInv, RunsApart, Runs
    <2> QED
      BY <1>1, <1>2, <2>1 DEF InputsShaped, Bindings
  <1>6. ASSUME NEW p \in InFlight PROVE RunFaithful(p)'
    <2>1. producer[p].before \in Bindings /\ producer[p].before[i] =< inputEdits
      BY DEF RunInv, RunsApart, Runs
    <2>2. inputs'[i] > producer[p].before[i]
      BY <1>1, <1>2, <2>1 DEF InputsShaped, Bindings
    <2>3. RunFaithful(p)
      BY DEF RunInv
    <2> QED
      BY <1>1, <2>2, <2>3 DEF RunFaithful
  <1>7. ASSUME NEW r \in KnownRecords PROVE RecordFaithful(r)'
    BY <1>1, <1>3, <1>7 DEF RunInv, RecordFaithful
  <1> QED
    BY <1>3, <1>4, <1>5, <1>6, <1>7 DEF RunInv

LEMMA Revert_Run ==
  ASSUME RunInv, NEW i \in Inputs, Revert(i) PROVE RunInv'
  <1>1. PICK earlier \in 0 .. inputs[i] - 1 : inputs' = [inputs EXCEPT ![i] = earlier]
    BY DEF Revert
  <1>2. /\ UNCHANGED <<records, extra, artifacts, producer, runs, gate, inputEdits>>
        /\ \A p \in InFlight : producer[p].checked
    BY DEF Revert, InFlight
  <1>3. InputsShaped
    BY DEF RunInv
  <1>4. inputs[i] \in Nat /\ inputs[i] =< inputEdits /\ inputEdits \in Nat
    BY <1>3 DEF InputsShaped, Bindings
  <1>5. earlier \in Nat /\ earlier =< inputEdits
    BY <1>4
  <1>6. InputsShaped'
    BY <1>1, <1>2, <1>3, <1>5 DEF InputsShaped, Bindings
  <1>7. KnownRecords' = KnownRecords
    BY <1>2 DEF KnownRecords, LoadedRecords
  <1> QED
    BY <1>2, <1>4, <1>6, <1>7, RunsStay

\* An artifact that is lost only weakens what its record says.
LEMMA LoseArtifact_Run ==
  ASSUME RunInv, NEW path, LoseArtifact(path) PROVE RunInv'
  <1>1. /\ artifacts' = [q \in DOMAIN artifacts \ {path} |-> artifacts[q]]
        /\ inputEdits' = inputEdits + 1
        /\ UNCHANGED <<inputs, records, extra, producer, runs, gate>>
    BY DEF LoseArtifact, Edit
  <1>2. /\ InFlight' = InFlight /\ KnownRecords' = KnownRecords
        /\ \A q \in DOMAIN artifacts' : q \in DOMAIN artifacts /\ artifacts'[q] = artifacts[q]
    BY <1>1 DEF InFlight, KnownRecords, LoadedRecords
  <1>3. InputsShaped /\ InputsShaped'
    BY <1>1 DEF RunInv, InputsShaped, Bindings
  <1>4. RunsApart'
    <2> SUFFICES ASSUME NEW p \in InFlight
                 PROVE  \A j \in Inputs : producer[p].before[j] =< inputEdits'
      BY <1>1, <1>2 DEF RunInv, RunsApart
    <2>1. producer[p].before \in Bindings /\ \A j \in Inputs : producer[p].before[j] =< inputEdits
      BY DEF RunInv, RunsApart, Runs
    <2> QED
      BY <1>1, <1>3, <2>1 DEF InputsShaped, Bindings
  <1>5. ASSUME NEW p \in InFlight PROVE RunFaithful(p)'
    <2>1. RunFaithful(p)
      BY DEF RunInv
    <2> QED
      BY <1>1, <1>2, <2>1 DEF RunFaithful
  <1>6. ASSUME NEW r \in KnownRecords PROVE RecordFaithful(r)'
    BY <1>1, <1>2, <1>3, <1>6, RecordsStay DEF RunInv, InputsShaped
  <1> QED
    BY <1>2, <1>3, <1>4, <1>5, <1>6 DEF RunInv

LEMMA Begin_Run ==
  ASSUME RunInv, NEW p \in Producers, NEW c \in Claims, NEW tools \in Cohorts, Begin(p, c, tools)
  PROVE  RunInv'
  <1> DEFINE run == [claim |-> c, run |-> runs, before |-> inputs, dirty |-> ~Committed,
                     todo |-> tools, ran |-> {}, checked |-> TRUE]
  <1>1. /\ producer[p] = NoRun /\ runs' = runs + 1 /\ producer' = [producer EXCEPT ![p] = run]
        /\ UNCHANGED <<inputs, records, extra, artifacts, gate, inputEdits>>
    BY DEF Begin
  <1>2. InputsShaped /\ InputsShaped'
    BY <1>1 DEF RunInv, InputsShaped
  <1>3. run \in Runs
    BY <1>2, CohortsAssumption DEF Runs, InputsShaped, Committed
  <1>4. /\ KnownRecords' = KnownRecords
        /\ producer'[p] = run /\ \A q \in Producers \ {p} : producer'[q] = producer[q]
        /\ InFlight' \subseteq InFlight \union {p} /\ p \notin InFlight
        /\ InFlight \subseteq Producers
    BY <1>1, <1>2 DEF KnownRecords, LoadedRecords, InFlight, InputsShaped
  <1>5. \A q \in InFlight : producer'[q] = producer[q]
    BY <1>4
  <1>6. \A q \in InFlight : producer[q] \in Runs /\ producer[q].run < runs /\ producer[q].run \in Nat
    BY DEF RunInv, RunsApart, Runs
  <1>7. RunsApart'
    <2>1. ASSUME NEW q \in InFlight'
          PROVE  /\ producer'[q] \in Runs /\ IsFiniteSet(producer'[q].ran)
                 /\ producer'[q].run < runs'
                 /\ \A i \in Inputs : producer'[q].before[i] =< inputEdits'
      <3>1. CASE q = p
        BY <1>1, <1>2, <1>3, <1>4, <3>1, FS_EmptySet DEF InputsShaped
      <3>2. CASE q \in InFlight
        BY <1>1, <1>2, <1>5, <1>6, <3>2 DEF RunInv, RunsApart, InputsShaped
      <3> QED
        BY <1>4, <3>1, <3>2
    <2>2. ASSUME NEW q \in InFlight', NEW s \in InFlight', producer'[q].run = producer'[s].run
          PROVE  q = s
      <3>1. producer'[p].run = runs
        BY <1>4
      <3>2. \A u \in InFlight : producer'[u].run = producer[u].run /\ producer'[u].run # runs
        BY <1>2, <1>5, <1>6 DEF InputsShaped
      <3> QED
        BY <1>4, <2>2, <3>1, <3>2 DEF RunInv, RunsApart
    <2> QED
      BY <2>1, <2>2 DEF RunsApart
  <1>8. ASSUME NEW q \in InFlight' PROVE RunFaithful(q)'
    <2>1. CASE q = p
      BY <1>4, <2>1 DEF RunFaithful
    <2>2. CASE q \in InFlight
      <3>1. RunFaithful(q)
        BY <2>2 DEF RunInv
      <3> QED
        BY <1>1, <1>5, <2>2, <3>1 DEF RunFaithful
    <2> QED
      BY <1>4, <2>1, <2>2
  <1>9. ASSUME NEW r \in KnownRecords PROVE RecordFaithful(r)'
    <2>1. \A q \in InFlight' : \/ q \in InFlight /\ producer'[q].run = producer[q].run
                               \/ producer'[q].run = runs
      BY <1>4, <1>5
    <2>2. runs \in Nat /\ runs' \in Nat /\ runs =< runs'
      BY <1>1, <1>2 DEF InputsShaped
    <2> QED
      BY <1>1, <1>9, <2>1, <2>2, RecordsStay DEF RunInv
  <1> QED
    BY <1>2, <1>4, <1>7, <1>8, <1>9 DEF RunInv

\* The artifact is written under the number of the run, on what the inputs are.
LEMMA RunTool_Run ==
  ASSUME RunInv, NEW p \in Producers, NEW t \in DOMAIN Tools, RunTool(p, t)
  PROVE  /\ RunInv'
         /\ \A r \in KnownRecords : \A e \in r.executions :
              /\ e.path \in DOMAIN artifacts <=> e.path \in DOMAIN artifacts'
              /\ e.path \in DOMAIN artifacts => artifacts'[e.path] = artifacts[e.path]
  <1> DEFINE run == producer[p]
             path == <<run.claim, run.run, t>>
  <1>1. /\ run # NoRun /\ run.checked /\ t \in run.todo
        /\ UNCHANGED <<inputs, records, extra, runs, gate, inputEdits>>
    BY DEF RunTool
  <1>2. PICK passed \in BOOLEAN :
          /\ artifacts' = [q \in DOMAIN artifacts \union {path} |->
                IF q = path THEN [passed |-> passed, on |-> inputs] ELSE artifacts[q]]
          /\ producer' = [producer EXCEPT ![p].todo = @ \ {t}, ![p].checked = FALSE,
                ![p].ran = @ \union {[tool |-> t, path |-> path, class |-> Tools[t],
                                      result |-> IF passed THEN "PASS" ELSE "FAIL"]}]
    BY DEF RunTool
  <1> DEFINE new == [tool |-> t, path |-> path, class |-> Tools[t],
                     result |-> IF passed THEN "PASS" ELSE "FAIL"]
  <1>3. InputsShaped /\ InputsShaped' /\ p \in InFlight /\ run \in Runs /\ RunFaithful(p)
    BY <1>1, <1>2 DEF RunInv, RunsApart, InputsShaped, InFlight
  <1>4. /\ run.claim \in Claims /\ run.run \in Nat /\ run.before \in Bindings
        /\ run.dirty \in BOOLEAN /\ run.todo \subseteq DOMAIN Tools
        /\ run.ran \subseteq Executions
    BY <1>3 DEF Runs
  <1>5. new \in Executions
    BY <1>4 DEF Executions
  <1>6. \A q \in Producers \ {p} : producer'[q] = producer[q]
    BY <1>2, <1>3 DEF InputsShaped
  <1>7. /\ producer'[p].claim = run.claim /\ producer'[p].run = run.run
        /\ producer'[p].before = run.before /\ producer'[p].dirty = run.dirty
        /\ producer'[p].todo = run.todo \ {t} /\ producer'[p].ran = run.ran \union {new}
        /\ producer'[p].checked = FALSE /\ producer'[p] \in Runs
    BY <1>2, <1>3, <1>4, <1>5 DEF InputsShaped, Runs
  <1>8. InFlight' \subseteq InFlight /\ KnownRecords' = KnownRecords
    BY <1>1, <1>3, <1>6 DEF InFlight, KnownRecords, LoadedRecords
  <1>9. \A q \in InFlight : producer'[q].run = producer[q].run
                            /\ producer'[q].before = producer[q].before
    BY <1>6, <1>7 DEF InFlight
  <1>10. RunsApart'
    <2>1. ASSUME NEW q \in InFlight'
          PROVE  producer'[q] \in Runs /\ IsFiniteSet(producer'[q].ran)
      <3>1. CASE q = p
        <4>1. IsFiniteSet(run.ran)
          BY <1>3 DEF RunInv, RunsApart
        <4>2. IsFiniteSet(run.ran \union {new})
          BY <4>1, FS_AddElement
        <4> QED
          BY <1>7, <3>1, <4>2
      <3>2. CASE q # p
        BY <1>6, <1>8, <3>2 DEF RunInv, RunsApart, InFlight
      <3> QED
        BY <3>1, <3>2
    <2>2. ASSUME NEW q \in InFlight'
          PROVE  /\ producer'[q].run < runs'
                 /\ \A s \in InFlight' : producer'[q].run = producer'[s].run => q = s
                 /\ \A i \in Inputs : producer'[q].before[i] =< inputEdits'
      BY <1>1, <1>8, <1>9 DEF RunInv, RunsApart
    <2> QED
      BY <2>1, <2>2 DEF RunsApart
  <1>11. /\ DOMAIN artifacts' = DOMAIN artifacts \union {path}
         /\ artifacts'[path].on = inputs
         /\ \A q \in DOMAIN artifacts : q # path => artifacts'[q] = artifacts[q]
    BY <1>2
  <1>12. ASSUME NEW q \in InFlight' PROVE RunFaithful(q)'
    <2>1. CASE q = p
      <3>1. ASSUME NEW e \in run.ran
            PROVE  /\ e.path = <<run.claim, run.run, e.tool>> /\ e.tool \notin run.todo
                   /\ e.path # path
                   /\ e.path \in DOMAIN artifacts /\ ~run.dirty => artifacts[e.path].on = run.before
        <4>1. e.path = <<run.claim, run.run, e.tool>> /\ e.tool \notin run.todo
          BY <1>3 DEF RunFaithful
        <4>2. e.path # path
          BY <1>1, <4>1
        <4>3. e.path \in DOMAIN artifacts /\ ~run.dirty => artifacts[e.path].on = run.before
          BY <1>1, <1>3 DEF RunFaithful
        <4> QED
          BY <4>1, <4>2, <4>3
      <3>2. new.path = path /\ new.tool = t
        OBVIOUS
      <3> HIDE DEF run, path, new
      <3>3. ASSUME NEW e \in producer'[p].ran
            PROVE  /\ e.path = <<producer'[p].claim, producer'[p].run, e.tool>>
                   /\ e.tool \notin producer'[p].todo
                   /\ e.path \in DOMAIN artifacts' /\ ~producer'[p].dirty =>
                        artifacts'[e.path].on = producer'[p].before \/ artifacts'[e.path].on = inputs'
        <4>1. CASE e \in run.ran
          BY <1>7, <1>11, <3>1, <4>1
        <4>2. CASE e = new
          BY <1>1, <1>7, <1>11, <3>2, <4>2 DEF path
        <4> QED
          BY <1>7, <4>1, <4>2
      <3> QED
        BY <1>7, <2>1, <3>3 DEF RunFaithful
    <2>2. CASE q # p
      <3>1. q \in InFlight /\ RunFaithful(q) /\ producer'[q] = producer[q]
            /\ producer[q].run # run.run
        BY <1>3, <1>6, <1>8, <2>2 DEF RunInv, RunsApart, InFlight
      <3>2. ASSUME NEW e \in producer[q].ran PROVE e.path # path
        <4>1. e.path = <<producer[q].claim, producer[q].run, e.tool>>
          BY <3>1 DEF RunFaithful
        <4> QED
          BY <3>1, <4>1
      <3> HIDE DEF path, run
      <3>3. \A e \in producer[q].ran : e.path \in DOMAIN artifacts' =>
              e.path \in DOMAIN artifacts /\ artifacts'[e.path] = artifacts[e.path]
        BY <1>11, <3>2
      <3> QED
        BY <1>1, <3>1, <3>3 DEF RunFaithful
    <2> QED
      BY <2>1, <2>2
  <1>13. ASSUME NEW r \in KnownRecords, NEW e \in r.executions
         PROVE  e.path # path
    <2>1. producer[p].run # e.path[2]
      BY <1>3 DEF RunInv, RecordFaithful
    <2> QED
      BY <2>1
  <1> HIDE DEF path, run, new
  <1>14. \A r \in KnownRecords : \A e \in r.executions :
              /\ e.path \in DOMAIN artifacts <=> e.path \in DOMAIN artifacts'
              /\ e.path \in DOMAIN artifacts => artifacts'[e.path] = artifacts[e.path]
    BY <1>11, <1>13
  <1>15. ASSUME NEW r \in KnownRecords PROVE RecordFaithful(r)'
    <2>1. runs \in Nat /\ runs' = runs /\ runs =< runs'
      BY <1>1, <1>3 DEF InputsShaped
    <2>2. \A q \in InFlight' : q \in InFlight /\ producer'[q].run = producer[q].run
      BY <1>8, <1>9
    <2> QED
      BY <1>14, <1>15, <2>1, <2>2, RecordsStay DEF RunInv
  <1> QED
    BY <1>3, <1>8, <1>10, <1>12, <1>14, <1>15 DEF RunInv

\* A reading that finds the inputs as they were before finds what the tools ran on.
LEMMA Recheck_Run ==
  ASSUME RunInv, NEW p \in Producers, Recheck(p) PROVE RunInv'
  <1> DEFINE run == producer[p]
  <1>1. /\ run # NoRun /\ ~run.checked
        /\ producer' = [producer EXCEPT ![p].checked = TRUE,
              ![p].dirty = @ \/ inputs # producer[p].before \/ ~Committed]
        /\ UNCHANGED <<inputs, records, extra, artifacts, runs, gate, inputEdits>>
    BY DEF Recheck
  <1>2. InputsShaped /\ InputsShaped' /\ p \in InFlight /\ run \in Runs /\ RunFaithful(p)
    BY <1>1 DEF RunInv, RunsApart, InputsShaped, InFlight
  <1>3. \A q \in Producers \ {p} : producer'[q] = producer[q]
    BY <1>1, <1>2 DEF InputsShaped
  <1>4. /\ producer'[p].claim = run.claim /\ producer'[p].run = run.run
        /\ producer'[p].before = run.before /\ producer'[p].todo = run.todo
        /\ producer'[p].ran = run.ran /\ producer'[p] \in Runs
        /\ ~producer'[p].dirty => ~run.dirty /\ inputs = run.before
    BY <1>1, <1>2 DEF InputsShaped, Runs, Committed
  <1>5. InFlight' \subseteq InFlight /\ KnownRecords' = KnownRecords
    BY <1>1, <1>2, <1>3 DEF InFlight, KnownRecords, LoadedRecords
  <1>6. \A q \in InFlight : /\ producer'[q].run = producer[q].run
                            /\ producer'[q].before = producer[q].before
                            /\ producer'[q].ran = producer[q].ran
    BY <1>3, <1>4 DEF InFlight
  <1>7. \A q \in InFlight' : producer'[q] \in Runs
    BY <1>3, <1>4, <1>5 DEF InFlight, RunInv, RunsApart
  <1>8. RunsApart'
    <2>1. ASSUME NEW q \in InFlight'
          PROVE  /\ IsFiniteSet(producer'[q].ran) /\ producer'[q].run < runs'
                 /\ \A i \in Inputs : producer'[q].before[i] =< inputEdits'
      BY <1>1, <1>5, <1>6 DEF RunInv, RunsApart
    <2>2. ASSUME NEW q \in InFlight', NEW s \in InFlight', producer'[q].run = producer'[s].run
          PROVE  q = s
      BY <1>5, <1>6, <2>2 DEF RunInv, RunsApart
    <2> QED
      BY <1>7, <2>1, <2>2 DEF RunsApart
  <1>9. ASSUME NEW q \in InFlight' PROVE RunFaithful(q)'
    <2>1. CASE q = p
      <3>1. ASSUME NEW e \in run.ran, e.path \in DOMAIN artifacts, ~producer'[p].dirty
            PROVE  artifacts[e.path].on = run.before
        <4>1. \/ artifacts[e.path].on = run.before
              \/ artifacts[e.path].on = inputs
              \/ \E i \in Inputs : inputs[i] > run.before[i]
          BY <1>2, <1>4, <3>1 DEF RunFaithful
        <4>2. inputs = run.before /\ \A i \in Inputs : inputs[i] \in Nat
          BY <1>2, <1>4, <3>1 DEF InputsShaped, Bindings
        <4> QED
          BY <4>1, <4>2
      <3> QED
        BY <1>1, <1>2, <1>4, <2>1, <3>1 DEF RunFaithful
    <2>2. CASE q # p
      <3>1. q \in InFlight /\ producer'[q] = producer[q] /\ RunFaithful(q)
        BY <1>3, <1>5, <2>2 DEF RunInv, InFlight
      <3> QED
        BY <1>1, <3>1 DEF RunFaithful
    <2> QED
      BY <2>1, <2>2
  <1>10. ASSUME NEW r \in KnownRecords PROVE RecordFaithful(r)'
    BY <1>1, <1>5, <1>6, <1>10 DEF RunInv, RecordFaithful
  <1> QED
    BY <1>2, <1>5, <1>8, <1>9, <1>10 DEF RunInv

\* A run that ends takes its number along.
LEMMA RunEnds ==
  ASSUME RunInv, NEW p \in InFlight, producer' = [producer EXCEPT ![p] = NoRun],
         UNCHANGED <<inputs, artifacts, runs, inputEdits>>
  PROVE  /\ InFlight' = InFlight \ {p} /\ RunsApart'
         /\ \A q \in InFlight' : RunFaithful(q)'
         /\ \A r \in KnownRecords : RecordFaithful(r)'
         /\ DOMAIN producer' = Producers
  <1>1. /\ InFlight' = InFlight \ {p} /\ DOMAIN producer' = Producers
        /\ \A q \in InFlight' : producer'[q] = producer[q]
    BY DEF RunInv, InputsShaped, InFlight
  <1>2. RunsApart'
    BY <1>1 DEF RunInv, RunsApart
  <1>3. ASSUME NEW q \in InFlight' PROVE RunFaithful(q)'
    <2>1. RunFaithful(q) /\ producer'[q] = producer[q]
      BY <1>1 DEF RunInv
    <2> QED
      BY <2>1 DEF RunFaithful
  <1>4. ASSUME NEW r \in KnownRecords PROVE RecordFaithful(r)'
    BY <1>1, <1>4 DEF RunInv, RecordFaithful
  <1> QED
    BY <1>1, <1>2, <1>3, <1>4

LEMMA Abandon_Run ==
  ASSUME RunInv, NEW p \in Producers, Abandon(p) PROVE RunInv'
  <1>1. /\ p \in InFlight /\ producer' = [producer EXCEPT ![p] = NoRun]
        /\ UNCHANGED <<inputs, records, extra, artifacts, runs, gate, inputEdits>>
    BY DEF Abandon, InFlight
  <1>2. InputsShaped' /\ KnownRecords' = KnownRecords
    BY <1>1, RunEnds DEF RunInv, InputsShaped, KnownRecords, LoadedRecords
  <1> QED
    BY <1>1, <1>2, RunEnds DEF RunInv

\* The record of a clean run is bound to what each of its tools ran on.
LEMMA WriteRecord_Run ==
  ASSUME RunInv, NEW p \in Producers, WriteRecord(p) PROVE RunInv'
  <1> DEFINE run == producer[p]
             passed == \A e \in run.ran : e.result = "PASS"
             record == [schema |-> "v3", bound |-> run.before, dirty |-> run.dirty,
                        class |-> IF Kind[run.claim] = "witness" THEN "test-witnessed"
                                  ELSE "code-enforced",
                        result |-> IF passed /\ ~run.dirty THEN "PASS" ELSE "FAIL",
                        executions |-> run.ran, waived |-> FALSE]
  <1>1. /\ p \in InFlight /\ run.checked
        /\ records' = [records EXCEPT ![run.claim] = record]
        /\ producer' = [producer EXCEPT ![p] = NoRun]
        /\ UNCHANGED <<inputs, extra, artifacts, runs, gate, inputEdits>>
    BY DEF WriteRecord, InFlight
  <1>2. /\ run \in Runs /\ IsFiniteSet(run.ran) /\ run.run < runs /\ RunFaithful(p)
        /\ \A q \in InFlight \ {p} : producer[q].run # run.run
        /\ InputsShaped
    BY <1>1 DEF RunInv, RunsApart
  <1>3. /\ InFlight' = InFlight \ {p} /\ RunsApart' /\ DOMAIN producer' = Producers
        /\ \A q \in InFlight' : RunFaithful(q)'
        /\ \A r \in KnownRecords : RecordFaithful(r)'
    BY <1>1, RunEnds
  <1>4. record \in Records /\ record.executions = run.ran /\ record.dirty = run.dirty
        /\ record.bound = run.before
    BY <1>2 DEF Records, Runs
  <1>5. InputsShaped'
    <2>1. records' \in [Claims -> Records \union {NoRecord}]
      <3> HIDE DEF record
      <3> QED
        BY <1>1, <1>2, <1>4 DEF InputsShaped, Runs
    <2> QED
      BY <1>1, <1>2, <1>3, <2>1 DEF InputsShaped
  <1>6. KnownRecords' \subseteq KnownRecords \union {record}
    <2>1. LoadedRecords' = LoadedRecords
      BY <1>1 DEF LoadedRecords
    <2>2. \A c \in Claims : records'[c] = records[c] \/ records'[c] = record
      BY <1>1, <1>2 DEF InputsShaped
    <2> HIDE DEF record
    <2> QED
      BY <2>1, <2>2 DEF KnownRecords
  <1>7. ASSUME NEW e \in run.ran
        PROVE  /\ e.path[2] < runs'
               /\ \A q \in InFlight' : producer'[q].run # e.path[2]
               /\ e.path \in DOMAIN artifacts' /\ ~run.dirty => artifacts'[e.path].on = run.before
    <2>1. e.path = <<run.claim, run.run, e.tool>>
      BY <1>2 DEF RunFaithful
    <2>2. e.path[2] = run.run
      BY <2>1
    <2>3. e.path \in DOMAIN artifacts /\ ~run.dirty => artifacts[e.path].on = run.before
      BY <1>1, <1>2 DEF RunFaithful
    <2>4. \A q \in InFlight' : producer'[q].run = producer[q].run
      BY <1>1, <1>3 DEF InFlight, RunInv, InputsShaped
    <2> QED
      BY <1>1, <1>2, <1>3, <2>2, <2>3, <2>4
  <1>8. PICK r : r = record
    OBVIOUS
  <1> HIDE DEF record
  <1>9. RecordFaithful(r)'
    <2>1. r \in Records /\ r.executions = run.ran /\ r.dirty = run.dirty /\ r.bound = run.before
      BY <1>4, <1>8
    <2> QED
      BY <1>2, <1>7, <2>1 DEF RecordFaithful
  <1>10. \A s \in KnownRecords' : RecordFaithful(s)'
    BY <1>3, <1>6, <1>8, <1>9
  <1> QED
    BY <1>3, <1>5, <1>10 DEF RunInv

-----------------------------------------------------------------------------
\* Proof for the gate.

LEMMA GateInit_Inv == GateInit => GateShaped /\ VerdictInv
  <1> SUFFICES ASSUME GateInit PROVE GateShaped /\ VerdictInv
    OBVIOUS
  <1> QED
    BY DEF GateInit, GateShaped, VerdictInv, StillBacked, VerifiedIsCurrent, DashboardAgrees,
           Unsaid

\* A dependency of a claim is an obligation and has none of its own.
LEMMA DependsClosed ==
  ASSUME NEW required \in SUBSET Claims
  PROVE  LET judging == required \union UNION {Depends[c] : c \in required}
         IN  judging \subseteq Claims /\ \A c \in judging : Depends[c] \subseteq judging
  <1>1. \A c \in Claims :
          \/ Depends[c] = {}
          \/ \A d \in Depends[c] : d \in Claims /\ Kind[d] \in {"invariant", "witness"}
    BY ManifestAssumption DEF ManifestWellFormed
  <1>2. \A d \in Claims : Kind[d] \in {"invariant", "witness"} => Depends[d] = {}
    BY ManifestAssumption DEF ManifestWellFormed
  <1> QED
    BY <1>1, <1>2

LEMMA LoadRecords_Shape ==
  ASSUME RecordInv, NEW required \in SUBSET Claims, NEW scope \in {"recomputed", "unbound"},
         LoadRecords(required, scope)
  PROVE  GateShaped' /\ KnownRecords' \subseteq KnownRecords
  <1> DEFINE judging == required \union UNION {Depends[c] : c \in required}
  <1>1. /\ gate.pc = "idle"
        /\ gate' = [pc |-> "loaded", scope |-> scope, loaded |-> records, extra |-> extra,
                    manifest |-> inputs["manifest"], source |-> 0, intent |-> 0,
                    judged |-> judging]
        /\ UNCHANGED records
    BY DEF LoadRecords
  <1>2. InputsShaped /\ \A r \in KnownRecords : r \in Records
    BY DEF RecordInv, RunInv, RecordFaithful
  <1>3. judging \subseteq Claims /\ \A c \in judging : Depends[c] \subseteq judging
    BY DependsClosed
  <1> HIDE DEF judging
  <1>4. records \in [Claims -> Records \union {NoRecord}]
    BY <1>2 DEF InputsShaped
  <1>5. inputs["manifest"] \in Nat /\ extra \in [Claims -> HandWritten \union {NoRecord}]
    BY <1>2 DEF InputsShaped, Bindings, Inputs
  <1>6. GateShaped'
    BY <1>1, <1>3, <1>4, <1>5 DEF GateShaped
  <1>7. KnownRecords' \subseteq KnownRecords
    BY <1>1 DEF KnownRecords, LoadedRecords
  <1> QED
    BY <1>6, <1>7

LEMMA Bind_Shape ==
  ASSUME RecordInv, Bind PROVE GateShaped' /\ KnownRecords' = KnownRecords
  <1>1. /\ gate.pc = "loaded"
        /\ gate' = [gate EXCEPT !.pc = "bound", !.source = inputs["source"],
                                !.intent = inputs["intent"]]
        /\ UNCHANGED records
    BY DEF Bind
  <1>2. inputs["source"] \in Nat /\ inputs["intent"] \in Nat
    BY DEF RecordInv, RunInv, InputsShaped, Bindings, Inputs
  <1>3. GateShaped' /\ gate'.loaded = gate.loaded /\ gate'.pc = "bound"
    BY <1>1, <1>2 DEF RecordInv, GateShaped
  <1> QED
    BY <1>1, <1>3 DEF KnownRecords, LoadedRecords

LEMMA Judge_Shape ==
  ASSUME RecordInv, Judge
  PROVE  /\ GateShaped' /\ KnownRecords' = KnownRecords /\ LoadedRecords' = LoadedRecords
         /\ gate.pc = "bound" /\ gate'.pc = "done"
         /\ gate'.loaded = gate.loaded /\ gate'.extra = gate.extra /\ gate'.judged = gate.judged
         /\ gate'.source = gate.source /\ gate'.intent = gate.intent
         /\ gate'.manifest = gate.manifest /\ gate'.scope = gate.scope
         /\ UNCHANGED <<artifacts, records>>
  <1>1. /\ gate.pc = "bound" /\ gate' = [gate EXCEPT !.pc = "done"]
        /\ UNCHANGED <<records, artifacts>>
    BY DEF Judge
  <1>2. /\ GateShaped' /\ gate'.pc = "done"
        /\ gate'.loaded = gate.loaded /\ gate'.extra = gate.extra /\ gate'.judged = gate.judged
        /\ gate'.source = gate.source /\ gate'.intent = gate.intent
        /\ gate'.manifest = gate.manifest /\ gate'.scope = gate.scope
    BY <1>1 DEF RecordInv, GateShaped
  <1> QED
    BY <1>1, <1>2 DEF KnownRecords, LoadedRecords

LEMMA RunNext_Inv ==
  ASSUME RecordInv, [GateNext]_gateVars PROVE RunInv'
  <1> USE DEF RecordInv
  <1>1. ASSUME NEW i \in Inputs, EditInput(i) \/ Revert(i) PROVE RunInv'
    BY <1>1, EditInput_Run, Revert_Run
  <1>2. CASE Commit
    BY <1>2, RunsStay DEF Commit, RunInv, InputsShaped, KnownRecords, LoadedRecords
  <1>3. ASSUME NEW path, LoseArtifact(path) PROVE RunInv'
    BY <1>3, LoseArtifact_Run
  <1>4. ASSUME NEW c \in Claims, NEW r \in HandWritten, WriteByHand(c, r) PROVE RunInv'
    <2>1. /\ inputEdits' = inputEdits + 1 /\ extra' = [extra EXCEPT ![c] = r]
          /\ UNCHANGED <<inputs, records, artifacts, producer, runs, gate>>
      BY <1>4 DEF WriteByHand, Edit
    <2>2. InputsShaped' /\ inputEdits =< inputEdits'
      BY <2>1 DEF RunInv, InputsShaped, Bindings
    <2>3. KnownRecords' = KnownRecords
      BY <2>1 DEF KnownRecords, LoadedRecords
    <2> QED
      BY <2>1, <2>2, <2>3, RunsStay
  <1>5. ASSUME NEW p \in Producers, NEW c \in Claims, NEW tools \in Cohorts, Begin(p, c, tools)
        PROVE  RunInv'
    BY <1>5, Begin_Run
  <1>6. ASSUME NEW p \in Producers, NEW t \in DOMAIN Tools, RunTool(p, t) PROVE RunInv'
    BY <1>6, RunTool_Run
  <1>7. ASSUME NEW p \in Producers, Recheck(p) \/ WriteRecord(p) \/ Abandon(p) PROVE RunInv'
    BY <1>7, Recheck_Run, WriteRecord_Run, Abandon_Run
  <1>8. inputEdits =< inputEdits
    BY DEF RunInv, InputsShaped
  <1>9. ASSUME NEW required \in SUBSET Claims, NEW scope \in {"recomputed", "unbound"},
               LoadRecords(required, scope)
        PROVE  RunInv'
    <2>1. KnownRecords' \subseteq KnownRecords
      BY <1>9, LoadRecords_Shape
    <2>2. UNCHANGED <<inputs, extra, artifacts, producer, runs, inputEdits, records>>
      BY <1>9 DEF LoadRecords
    <2>3. InputsShaped'
      BY <2>2 DEF RunInv, InputsShaped
    <2> QED
      BY <1>8, <2>1, <2>2, <2>3, RunsStay
  <1>10. CASE Bind \/ Judge
    <2>1. KnownRecords' = KnownRecords
      BY <1>10, Bind_Shape, Judge_Shape
    <2>2. UNCHANGED <<inputs, extra, artifacts, producer, runs, inputEdits, records>>
      BY <1>10 DEF Bind, Judge
    <2>3. InputsShaped'
      BY <2>2 DEF RunInv, InputsShaped
    <2> QED
      BY <1>8, <2>1, <2>2, <2>3, RunsStay
  <1>11. CASE UNCHANGED gateVars
    BY <1>8, <1>11, RunsStay DEF gateVars, RunInv, InputsShaped, KnownRecords, LoadedRecords
  <1> QED
    BY <1>1, <1>2, <1>3, <1>4, <1>5, <1>6, <1>7, <1>9, <1>10, <1>11 DEF GateNext

\* What the gate said stays true of what it read: nothing it judged is written
\* again.
LEMMA VerdictStays ==
  ASSUME RecordInv, UNCHANGED <<gate, verdict>>,
         \/ verdict = Unsaid
         \/ \A r \in KnownRecords : \A e \in r.executions : e.path \in DOMAIN artifacts =>
              e.path \in DOMAIN artifacts' /\ artifacts'[e.path] = artifacts[e.path]
  PROVE  GateShaped' /\ VerdictInv'
  <1> USE DEF RecordInv
  <1>1. GateShaped' /\ LoadedRecords' = LoadedRecords
    BY DEF GateShaped, LoadedRecords
  <1>2. \A c : RecordsOf(c)' = RecordsOf(c) /\ TheRecord(c)' = TheRecord(c)
    BY DEF RecordsOf, TheRecord
  <1>3. CASE verdict = Unsaid
    BY <1>1, <1>3 DEF VerdictInv, StillBacked, VerifiedIsCurrent, DashboardAgrees, Unsaid
  <1>4. CASE \A r \in KnownRecords : \A e \in r.executions : e.path \in DOMAIN artifacts =>
               e.path \in DOMAIN artifacts' /\ artifacts'[e.path] = artifacts[e.path]
    <2>1. ASSUME verdict.gate = "VERIFIED", verdict.scope = "recomputed",
                 NEW c \in gate.judged, NEW e \in TheRecord(c).executions
          PROVE  e.path \in DOMAIN artifacts' /\ artifacts'[e.path] = artifacts[e.path]
      <3>1. TheRecord(c) \in KnownRecords /\ e.path \in DOMAIN artifacts
        BY <2>1 DEF VerdictInv, StillBacked, KnownRecords
      <3> QED
        BY <1>4, <3>1
    <2>2. StillBacked'
      BY <1>1, <1>2, <2>1 DEF VerdictInv, StillBacked
    <2>3. (verdict.gate = "VERIFIED" /\ verdict.scope = "recomputed") =>
             gate.judged \union UNION {Depends[d] : d \in gate.judged} = gate.judged
      <3> SUFFICES ASSUME verdict.gate = "VERIFIED"
                   PROVE  \A c \in gate.judged : Depends[c] \subseteq gate.judged
        OBVIOUS
      <3>1. gate.pc = "done"
        BY DEF VerdictInv, Unsaid
      <3> QED
        BY <3>1 DEF GateShaped
    <2>4. VerifiedIsCurrent'
      <3> SUFFICES ASSUME verdict.gate = "VERIFIED", verdict.scope = "recomputed",
                          NEW c \in gate.judged
                   PROVE  /\ Cardinality(RecordsOf(c)) = 1
                          /\ TheRecord(c).executions # {}
                          /\ Requires[c] \subseteq {e.tool : e \in TheRecord(c).executions}
                          /\ ~RestsOnAssumption(TheRecord(c))
                          /\ \A e \in TheRecord(c).executions :
                               /\ artifacts'[e.path].passed
                               /\ artifacts'[e.path].on =
                                    [source |-> gate.source, intent |-> gate.intent,
                                     manifest |-> gate.manifest]
        BY <1>2, <2>3 DEF VerifiedIsCurrent, RestsOnAssumption
      <3>1. /\ Cardinality(RecordsOf(c)) = 1
            /\ TheRecord(c).executions # {}
            /\ Requires[c] \subseteq {e.tool : e \in TheRecord(c).executions}
            /\ ~RestsOnAssumption(TheRecord(c))
            /\ \A e \in TheRecord(c).executions :
                 /\ artifacts[e.path].passed
                 /\ artifacts[e.path].on =
                      [source |-> gate.source, intent |-> gate.intent, manifest |-> gate.manifest]
        BY DEF VerdictInv, VerifiedIsCurrent
      <3> QED
        BY <2>1, <3>1
    <2>5. DashboardAgrees'
      BY DEF VerdictInv, DashboardAgrees
    <2>6. (verdict = Unsaid \/ gate.pc = "done")'
      BY DEF VerdictInv
    <2> QED
      BY <1>1, <2>2, <2>4, <2>5, <2>6 DEF VerdictInv
  <1> QED
    BY <1>3, <1>4

\* A set of which an element tells apart is as large as what it tells.
LEMMA ToolsCount ==
  ASSUME NEW S, IsFiniteSet(S), \A e, f \in S : e.tool = f.tool => e = f
  PROVE  IsFiniteSet({e.tool : e \in S}) /\ Cardinality({e.tool : e \in S}) = Cardinality(S)
  <1> DEFINE T == {e.tool : e \in S}
             g == [e \in S |-> e.tool]
  <1>1. g \in Bijection(S, T)
    BY DEF Bijection, Injection, Surjection, IsInjective
  <1> QED
    BY <1>1, FS_Bijection DEF ExistsBijection

LEMMA PathsCount ==
  ASSUME NEW S, IsFiniteSet(S), \A e, f \in S : e.path = f.path => e = f
  PROVE  IsFiniteSet({e.path : e \in S}) /\ Cardinality({e.path : e \in S}) = Cardinality(S)
  <1> DEFINE T == {e.path : e \in S}
             g == [e \in S |-> e.path]
  <1>1. g \in Bijection(S, T)
    BY DEF Bijection, Injection, Surjection, IsInjective
  <1> QED
    BY <1>1, FS_Bijection DEF ExistsBijection

\* A cohort that is sound for the gate is sound for the dashboard, which counts
\* where the gate compares.
LEMMA CohortsAgree ==
  ASSUME NEW c, NEW r, IsFiniteSet(r.executions), CohortSound(c, r)
  PROVE  RowCohortSound(c, r)
  <1>1. /\ r.executions # {}
        /\ \A e, f \in r.executions : e.tool = f.tool \/ e.path = f.path => e = f
        /\ \A e \in r.executions : e.class \in Compatible(Kind[c])
    BY DEF CohortSound
  <1>2. /\ Cardinality({e.tool : e \in r.executions}) = Cardinality(r.executions)
        /\ Cardinality({e.path : e \in r.executions}) = Cardinality(r.executions)
    BY <1>1, ToolsCount, PathsCount
  <1>3. Cardinality(r.executions) \in Nat /\ Cardinality(r.executions) # 0
    BY <1>1, FS_CardinalityType, FS_EmptySet
  <1> QED
    BY <1>1, <1>2, <1>3 DEF RowCohortSound

\* A claim the gate accepts or fails has one record, which both tools judge by
\* the same text.
LEMMA JudgedRecord ==
  ASSUME RecordInv, gate.pc = "bound", NEW c \in gate.judged, GateStatus(c) \in {"PASS", "FAIL"}
  PROVE  /\ TheRecord(c) \in RecordsOf(c) /\ Cardinality(RecordsOf(c)) = 1
         /\ GateValid(c, TheRecord(c)) /\ RowSound(c, TheRecord(c))
         /\ GateStatus(c) = Result(TheRecord(c))
         /\ TheRecord(c).schema = "v3" => TheRecord(c) \in LoadedRecords
  <1> DEFINE r == TheRecord(c)
  <1>1. /\ RecordsOf(c) # {} /\ ~(Cardinality(RecordsOf(c)) > 1)
        /\ GateValid(c, r) /\ GateStatus(c) = Result(r)
    BY DEF GateStatus
  <1>2. r \in RecordsOf(c)
    BY <1>1 DEF TheRecord
  <1>3. IsFiniteSet(RecordsOf(c)) /\ Cardinality(RecordsOf(c)) \in Nat
        /\ Cardinality(RecordsOf(c)) # 0
    <2>1. IsFiniteSet({gate.loaded[c]} \union {gate.extra[c]})
      BY FS_Singleton, FS_Union
    <2>2. RecordsOf(c) \in SUBSET ({gate.loaded[c]} \union {gate.extra[c]})
      BY DEF RecordsOf
    <2>3. IsFiniteSet(RecordsOf(c))
      BY <2>1, <2>2, FS_Subset
    <2> QED
      BY <1>1, <2>3, FS_CardinalityType, FS_EmptySet
  <1>4. Cardinality(RecordsOf(c)) = 1
    BY <1>1, <1>3
  <1>5. r.schema = "v3" => r \in LoadedRecords
    <2>1. c \in Claims /\ gate.extra[c] \in HandWritten \union {NoRecord}
      BY DEF RecordInv, GateShaped
    <2>2. r # NoRecord /\ r \in {gate.loaded[c], gate.extra[c]}
      BY <1>2 DEF RecordsOf
    <2> QED
      BY <2>1, <2>2, HandWrittenAssumption DEF LoadedRecords
  <1>6. RowSound(c, r)
    <2>1. r.schema = "v3" => IsFiniteSet(r.executions)
      BY <1>5 DEF RecordInv, RunInv, KnownRecords, RecordFaithful
    <2>2. r.schema = "v3" => CohortSound(c, r) /\ ~SharesArtifact(c, r)
      BY <1>1 DEF GateValid
    <2>3. r.schema = "v3" => RowCohortSound(c, r)
      BY <2>1, <2>2, CohortsAgree
    <2> QED
      BY <1>1, <2>2, <2>3 DEF GateValid, RowSound
  <1> QED
    BY <1>1, <1>2, <1>4, <1>5, <1>6

\* What the gate accepts the dashboard accepts, and so for what it fails.
LEMMA RowsAgree ==
  ASSUME RecordInv, gate.pc = "bound", NEW c \in gate.judged, GateStatus(c) \in {"PASS", "FAIL"}
  PROVE  RowStatus(c) = GateStatus(c)
  <1> DEFINE r == TheRecord(c)
  <1>1. /\ r \in RecordsOf(c) /\ Cardinality(RecordsOf(c)) = 1
        /\ GateValid(c, r) /\ RowSound(c, r) /\ GateStatus(c) = Result(r)
    BY JudgedRecord
  <1>2. Result(r) = "PASS" => AllPass(r) /\ Covered(c, r)
    BY <1>1 DEF GateValid, Result
  <1>3. RowStatus(c) = IF RecordsOf(c) = {} THEN "missing-record"
                       ELSE IF Cardinality(RecordsOf(c)) > 1 THEN "duplicate-record"
                       ELSE IF ~RowSound(c, r) THEN "invalid"
                       ELSE IF Result(r) = "PASS" /\ ~(AllPass(r) /\ Covered(c, r))
                            THEN "evidence-gap"
                       ELSE Result(r)
    BY DEF RowStatus
  <1> HIDE DEF r
  <1> QED
    BY <1>1, <1>2, <1>3

\* VERIFIED is that of every row, FAILED that of one.
LEMMA OverallSays ==
  ASSUME NEW statuses
  PROVE  /\ Overall(statuses) = "VERIFIED" <=> statuses = {"PASS"}
         /\ Overall(statuses) = "FAILED" <=> "FAIL" \in statuses
  BY DEF Overall

LEMMA DashboardFollows ==
  ASSUME RecordInv, gate.pc = "bound"
  PROVE  LET said == Overall({GateStatus(c) : c \in gate.judged})
         IN  /\ said = "VERIFIED" => DashboardVerdict = "VERIFIED"
             /\ said = "FAILED" => DashboardVerdict = "FAILED"
  <1>1. ASSUME {GateStatus(c) : c \in gate.judged} = {"PASS"}
        PROVE  {DashboardStatus(c) : c \in gate.judged} = {"PASS"}
    <2>1. \A c \in gate.judged : GateStatus(c) = "PASS"
      BY <1>1
    <2>2. \A c \in gate.judged : RowStatus(c) = "PASS"
      BY <2>1, RowsAgree
    <2>3. \A c \in gate.judged : DashboardStatus(c) = "PASS"
      BY <2>2 DEF DashboardStatus
    <2>4. gate.judged # {}
      BY <1>1
    <2> QED
      BY <2>3, <2>4
  <1>2. ASSUME "FAIL" \in {GateStatus(c) : c \in gate.judged}
        PROVE  "FAIL" \in {DashboardStatus(c) : c \in gate.judged}
    <2>1. PICK c \in gate.judged : GateStatus(c) = "FAIL"
      BY <1>2
    <2>2. RowStatus(c) = "FAIL"
      BY <2>1, RowsAgree
    <2>3. DashboardStatus(c) = "FAIL"
      BY <2>2 DEF DashboardStatus
    <2> QED
      BY <2>3
  <1> QED
    BY <1>1, <1>2, OverallSays DEF DashboardVerdict

\* An accepted claim, when the gate recomputed the bindings: its record is clean,
\* so what its artifacts say was said of the inputs the gate has read.
LEMMA AcceptedIsCurrent ==
  ASSUME RecordInv, gate.pc = "bound", gate.scope = "recomputed",
         NEW c \in gate.judged, GateStatus(c) = "PASS"
  PROVE  LET r == TheRecord(c)
         IN  /\ Cardinality(RecordsOf(c)) = 1 /\ r \in LoadedRecords
             /\ r.executions # {} /\ Requires[c] \subseteq {e.tool : e \in r.executions}
             /\ ~RestsOnAssumption(r)
             /\ \A e \in r.executions :
                  /\ e.path \in DOMAIN artifacts /\ artifacts[e.path].passed
                  /\ artifacts[e.path].on = [source |-> gate.source, intent |-> gate.intent,
                                             manifest |-> gate.manifest]
  <1> DEFINE r == TheRecord(c)
  <1>1. /\ Cardinality(RecordsOf(c)) = 1 /\ GateValid(c, r) /\ Result(r) = "PASS"
        /\ r.schema = "v3" => r \in LoadedRecords
    BY JudgedRecord
  <1>2. /\ r.schema = "v3" /\ CohortSound(c, r) /\ Undisturbed(r)
        /\ r.bound["source"] = gate.source /\ r.bound["intent"] = gate.intent
        /\ r.bound["manifest"] = gate.manifest
    BY <1>1 DEF GateValid, OfThisManifest
  <1>3. r.result = "PASS" /\ (RestsOnAssumption(r) => r.waived)
    BY <1>1 DEF Result
  <1>4. r \in LoadedRecords /\ RecordFaithful(r) /\ r \in Records
    BY <1>1, <1>2 DEF RecordInv, RunInv, KnownRecords, RecordFaithful
  <1>5. ~r.waived /\ ~r.dirty /\ r.bound \in Bindings
    BY <1>2, <1>3, <1>4 DEF Records, Undisturbed
  <1>6. AllPass(r) /\ Covered(c, r) /\ \A e \in r.executions : ArtifactBacks(e)
    BY <1>1, <1>3 DEF GateValid
  <1>7. r.bound = [source |-> gate.source, intent |-> gate.intent, manifest |-> gate.manifest]
    BY <1>2, <1>5 DEF Bindings, Inputs
  <1>8. ASSUME NEW e \in r.executions
        PROVE  /\ e.path \in DOMAIN artifacts /\ artifacts[e.path].passed
               /\ artifacts[e.path].on = r.bound
    BY <1>4, <1>5, <1>6 DEF RecordFaithful, ArtifactBacks, AllPass
  <1>9. r.executions # {} /\ Requires[c] \subseteq {e.tool : e \in r.executions}
    BY <1>2, <1>6 DEF CohortSound, Covered
  <1> QED
    BY <1>1, <1>3, <1>4, <1>5, <1>7, <1>8, <1>9

LEMMA Judge_Inv ==
  ASSUME RecordInv, Judge PROVE GateShaped' /\ VerdictInv'
  <1>1. /\ GateShaped' /\ LoadedRecords' = LoadedRecords
        /\ gate.pc = "bound" /\ gate'.pc = "done"
        /\ gate'.loaded = gate.loaded /\ gate'.extra = gate.extra /\ gate'.judged = gate.judged
        /\ gate'.source = gate.source /\ gate'.intent = gate.intent
        /\ gate'.manifest = gate.manifest /\ gate'.scope = gate.scope
        /\ UNCHANGED <<artifacts, records>>
    BY Judge_Shape
  <1>2. \A c : RecordsOf(c)' = RecordsOf(c) /\ TheRecord(c)' = TheRecord(c)
    BY <1>1 DEF RecordsOf, TheRecord
  <1>3. /\ verdict'.gate = Overall({GateStatus(c) : c \in gate.judged})
        /\ verdict'.scope = gate.scope /\ verdict'.dashboard = DashboardVerdict
    BY DEF Judge
  <1>4. DashboardAgrees'
    BY <1>1, <1>3, DashboardFollows DEF DashboardAgrees
  <1>5. ASSUME verdict'.gate = "VERIFIED", verdict'.scope = "recomputed", NEW c \in gate.judged
        PROVE  /\ Cardinality(RecordsOf(c)) = 1 /\ TheRecord(c) \in LoadedRecords
               /\ TheRecord(c).executions # {}
               /\ Requires[c] \subseteq {e.tool : e \in TheRecord(c).executions}
               /\ ~RestsOnAssumption(TheRecord(c))
               /\ \A e \in TheRecord(c).executions :
                    /\ e.path \in DOMAIN artifacts /\ artifacts[e.path].passed
                    /\ artifacts[e.path].on = [source |-> gate.source, intent |-> gate.intent,
                                               manifest |-> gate.manifest]
    <2>1. {GateStatus(d) : d \in gate.judged} = {"PASS"}
      BY <1>3, <1>5, OverallSays
    <2>2. GateStatus(c) = "PASS"
      BY <2>1
    <2> QED
      BY <1>1, <1>3, <1>5, <2>2, AcceptedIsCurrent
  <1>6. gate.judged \union UNION {Depends[d] : d \in gate.judged} = gate.judged
    BY <1>1 DEF RecordInv, GateShaped
  <1>7. StillBacked'
    BY <1>1, <1>2, <1>5 DEF StillBacked
  <1>8. VerifiedIsCurrent'
    <2> SUFFICES ASSUME verdict'.gate = "VERIFIED", verdict'.scope = "recomputed",
                        NEW c \in gate.judged
                 PROVE  /\ Cardinality(RecordsOf(c)) = 1
                        /\ TheRecord(c).executions # {}
                        /\ Requires[c] \subseteq {e.tool : e \in TheRecord(c).executions}
                        /\ ~RestsOnAssumption(TheRecord(c))
                        /\ \A e \in TheRecord(c).executions :
                             /\ artifacts[e.path].passed
                             /\ artifacts[e.path].on =
                                  [source |-> gate.source, intent |-> gate.intent,
                                   manifest |-> gate.manifest]
      BY <1>1, <1>2, <1>6 DEF VerifiedIsCurrent, RestsOnAssumption
    <2> QED
      BY <1>5
  <1> QED
    BY <1>1, <1>4, <1>7, <1>8 DEF VerdictInv

LEMMA RecordNext_Inv == RecordInv /\ [GateNext]_gateVars => RecordInv'
  <1> SUFFICES ASSUME RecordInv, [GateNext]_gateVars PROVE GateShaped' /\ VerdictInv'
    BY RunNext_Inv DEF RecordInv
  <1>1. ASSUME NEW i \in Inputs, EditInput(i) \/ Revert(i) PROVE GateShaped' /\ VerdictInv'
    BY <1>1, VerdictStays DEF EditInput, Revert, Edit
  <1>2. CASE Commit
    BY <1>2, VerdictStays DEF Commit
  <1>3. ASSUME NEW path, LoseArtifact(path) PROVE GateShaped' /\ VerdictInv'
    BY <1>3, VerdictStays DEF LoseArtifact, Edit
  <1>4. ASSUME NEW c \in Claims, NEW r \in HandWritten, WriteByHand(c, r)
        PROVE  GateShaped' /\ VerdictInv'
    BY <1>4, VerdictStays DEF WriteByHand, Edit
  <1>5. ASSUME NEW p \in Producers, NEW c \in Claims, NEW tools \in Cohorts, Begin(p, c, tools)
        PROVE  GateShaped' /\ VerdictInv'
    BY <1>5, VerdictStays DEF Begin
  <1>6. ASSUME NEW p \in Producers, NEW t \in DOMAIN Tools, RunTool(p, t)
        PROVE  GateShaped' /\ VerdictInv'
    <2>1. UNCHANGED <<gate, verdict>>
      BY <1>6 DEF RunTool
    <2> QED
      BY <1>6, <2>1, RunTool_Run, VerdictStays DEF RecordInv
  <1>7. ASSUME NEW p \in Producers, Recheck(p) \/ WriteRecord(p) \/ Abandon(p)
        PROVE  GateShaped' /\ VerdictInv'
    BY <1>7, VerdictStays DEF Recheck, WriteRecord, Abandon
  <1>8. gate.pc # "done" => verdict = Unsaid
    BY DEF RecordInv, VerdictInv
  <1>9. verdict' = Unsaid => VerdictInv'
    BY DEF VerdictInv, StillBacked, VerifiedIsCurrent, DashboardAgrees, Unsaid
  <1>10. ASSUME NEW required \in SUBSET Claims, NEW scope \in {"recomputed", "unbound"},
                LoadRecords(required, scope)
         PROVE  GateShaped' /\ VerdictInv'
    <2>1. verdict' = Unsaid
      BY <1>8, <1>10 DEF LoadRecords
    <2> QED
      BY <1>9, <1>10, <2>1, LoadRecords_Shape
  <1>11. CASE Bind
    <2>1. verdict' = Unsaid
      BY <1>8, <1>11 DEF Bind
    <2> QED
      BY <1>9, <1>11, <2>1, Bind_Shape
  <1>12. CASE Judge
    BY <1>12, Judge_Inv
  <1>13. CASE UNCHANGED gateVars
    BY <1>13, VerdictStays DEF gateVars
  <1> QED
    BY <1>1, <1>2, <1>3, <1>4, <1>5, <1>6, <1>7, <1>10, <1>11, <1>12, <1>13 DEF GateNext

LEMMA RecordAlwaysInv == GateSpec => []RecordInv
  <1>1. GateInit => RecordInv
    BY RunInit_Inv, GateInit_Inv DEF RecordInv
  <1> QED
    BY <1>1, RecordNext_Inv, PTL DEF GateSpec

\* VERIFIED means executions that passed on the inputs the gate read, for every
\* set of claims and tools, any number of producers at work and of edits.
\* (main, validate_record, execute)
THEOREM VerifiedAlwaysCurrent == GateSpec => []VerifiedIsCurrent
  <1>1. RecordInv => VerifiedIsCurrent
    BY DEF RecordInv, VerdictInv
  <1> QED
    BY <1>1, RecordAlwaysInv, PTL

\* The dashboard never contradicts the gate.  (evaluate_claim, compute_verdict)
THEOREM DashboardAlwaysAgrees == GateSpec => []DashboardAgrees
  <1>1. RecordInv => DashboardAgrees
    BY DEF RecordInv, VerdictInv
  <1> QED
    BY <1>1, RecordAlwaysInv, PTL

-----------------------------------------------------------------------------
\* The four tools at work are each its own component, so what was proved of a
\* component holds of the tools together.
THEOREM ToolsImplement ==
  ReviewSpec => ManifestSpec /\ FanoutSpec /\ PanelSpec /\ GateSpec
  <1>1. ReviewInit => ManifestInit /\ FanoutInit /\ PanelInit /\ GateInit
    BY DEF ReviewInit
  <1>2. [ReviewNext]_reviewVars => /\ [ManifestNext]_manifestVars /\ [FanoutNext]_fanoutVars
                                   /\ [PanelNext]_panelVars /\ [GateNext]_gateVars
    BY DEF ReviewNext, reviewVars
  <1> QED
    BY <1>1, <1>2, PTL DEF ReviewSpec, ManifestSpec, FanoutSpec, PanelSpec, GateSpec
=============================================================================

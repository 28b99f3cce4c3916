------------------------------ MODULE PanelRun ------------------------------
(***************************************************************************)
(* skills/fv-panel: the deliberation panel (omp_panel.py) with the Gate B   *)
(* helper and the verdict guard of panel_contract.py.  Three waves with     *)
(* barriers, over a project that its owner may edit meanwhile.              *)
(***************************************************************************)
EXTENDS Naturals, FiniteSets

CONSTANTS
    Seats,
    DeclaredFamily,  \* Seats -> family
    ServedFamilies,  \* what the bridge may report as having answered
    MinFamilies,
    Criteria,        \* the acceptance criteria, each a claim of Gate B
    Panels,          \* [milestone, profile, git, blocked]: the runs considered
    MaxPanelEdits         \* changes of the project by its owner

Phases == {"draft", "review"}
NoEvidence == [status |-> "none", head |-> 0, intent |-> 0]
Parts == {"head", "work", "intent", "brief"}

VARIABLES
    panel,      \* the options of the run
    basis,      \* what the run froze: snapshot, brief and hash of the intent
    files,      \* part of the project -> version
    evidenceRecords,    \* .fv/evidence: criterion -> its Gate B record
    archive,    \* the copy Gate B judges
    evidence,   \* criterion -> status reported by Gate B
    stage,      \* where run_panel stands
    seats,      \* seat -> what became of its dispatch in this wave
    answers,    \* phase -> seat -> the family that answered
    staged,     \* outputs in the staging directory, outside the project
    tree,       \* outputs the run directory shows
    revealed,   \* are identities in the run directory
    judged,     \* the synthesis: criterion -> its verdicts
    summary,    \* summary.json
    panelEdits

panelVars == <<panel, basis, files, evidenceRecords, archive, evidence, stage, seats, answers,
               staged, tree, revealed, judged, summary, panelEdits>>

NoSummary == [status |-> "none", verdict |-> "none"]
NoAnswer == "none"

ASSUME FamiliesAssumption ==
    NoAnswer \notin ServedFamilies \union {DeclaredFamily[s] : s \in Seats}

PanelInit ==
    /\ panel \in Panels
    /\ files = [p \in Parts |-> 0]
    /\ basis = [before |-> files, brief |-> 0, intentHash |-> 0]
    /\ evidenceRecords \in [Criteria -> {NoEvidence} \union
                                [status : {"PASS", "FAIL"}, head : {0}, intent : {0}]]
    /\ archive = [c \in Criteria |-> NoEvidence]
    /\ evidence = [c \in Criteria |-> "missing-record"]
    /\ stage = "called"
    /\ seats = [s \in Seats |-> "idle"]
    /\ answers = [p \in Phases |-> [s \in Seats |-> NoAnswer]]
    /\ staged = {} /\ tree = {} /\ revealed = FALSE
    /\ judged = [c \in Criteria |-> {}]
    /\ summary = NoSummary
    /\ panelEdits = 0

Snapshot == [files EXCEPT !["brief"] = 0]
Dirty(f) == f["work"] # f["head"]
StillRunning == {s \in Seats : seats[s] = "running"}

-----------------------------------------------------------------------------
\* The owner edits the work tree, commits it, edits the intent or the brief, or
\* records new evidence (.fv/ is not part of the snapshot).
EditPart(p) ==
    /\ panelEdits < MaxPanelEdits /\ stage \notin {"done", "raised", "thrown", "refused"}
    /\ panelEdits' = panelEdits + 1
    /\ files' = IF p = "head" THEN [files EXCEPT !["head"] = files["work"]]
                ELSE [files EXCEPT ![p] = 1 - @]
    /\ UNCHANGED <<panel, basis, evidenceRecords, archive, evidence, stage, seats, answers, staged,
                   tree, revealed, judged, summary>>

RecordEvidence(c) ==
    /\ panelEdits < MaxPanelEdits /\ stage \notin {"done", "raised", "thrown", "refused"}
    /\ panelEdits' = panelEdits + 1
    /\ \E status \in {"PASS", "FAIL"} :
         evidenceRecords' = [evidenceRecords EXCEPT ![c] = [status |-> status, head |-> files["head"],
                                            intent |-> files["intent"]]]
    /\ UNCHANGED <<panel, basis, files, archive, evidence, stage, seats, answers, staged,
                   tree, revealed, judged, summary>>

\* The skill hashes the intent for the gate before it calls run_panel.
Prepare ==
    /\ stage = "called"
    /\ basis' = [basis EXCEPT !.intentHash = files["intent"]]
    /\ stage' = "prepared"
    /\ UNCHANGED <<panel, files, evidenceRecords, archive, evidence, seats, answers, staged, tree,
                   revealed, judged, summary, panelEdits>>

StartWave(phase, voters) ==
    /\ stage' = phase
    /\ seats' = [s \in Seats |-> IF s \in voters THEN "running" ELSE "idle"]

\* run_panel up to the gate: the snapshot, the brief and the secret scan.
Freeze ==
    /\ stage = "prepared"
    /\ basis' = [basis EXCEPT !.before = Snapshot, !.brief = files["brief"]]
    /\ IF panel.blocked
       THEN stage' = "refused" /\ UNCHANGED seats
       ELSE IF panel.milestone /\ panel.git
            THEN stage' = "archiving" /\ UNCHANGED seats
            ELSE StartWave("draft", Seats)
    /\ UNCHANGED <<panel, files, evidenceRecords, archive, evidence, answers, staged, tree, revealed,
                   judged, summary, panelEdits>>

GateArchives ==
    /\ stage = "archiving"
    /\ archive' = evidenceRecords
    /\ stage' = "judging"
    /\ UNCHANGED <<panel, basis, files, evidenceRecords, evidence, seats, answers, staged, tree,
                   revealed, judged, summary, panelEdits>>

\* check_evidence_records on the archive, at the frozen HEAD and the intent
\* hash of the skill.  Records that moved did so under the copy, which leaves no
\* status, or after the check that ends it, which goes unnoticed.
GateJudges ==
    /\ stage = "judging"
    /\ \E moved \in {FALSE, evidenceRecords # archive} :
         evidence' = [c \in Criteria |->
           IF moved \/ archive[c] = NoEvidence THEN "missing-record"
           ELSE IF archive[c].head # basis.before["head"]
                  \/ archive[c].intent # basis.intentHash THEN "invalid"
           ELSE archive[c].status]
    /\ StartWave("draft", Seats)
    /\ UNCHANGED <<panel, basis, files, evidenceRecords, archive, answers, staged, tree, revealed,
                   judged, summary, panelEdits>>

-----------------------------------------------------------------------------
\* _dispatch: an exception, a timeout, an empty or unattributed answer is a
\* record of its seat.
SeatAnswers(s) ==
    /\ seats[s] = "running" /\ stage \in Phases
    /\ \E family \in (IF panel.profile THEN ServedFamilies ELSE {DeclaredFamily[s]}) :
         answers' = [answers EXCEPT ![stage][s] = family]
    /\ seats' = [seats EXCEPT ![s] = "ok"]
    /\ staged' = staged \union {<<stage, s>>}
    /\ UNCHANGED <<panel, basis, files, evidenceRecords, archive, evidence, stage, tree, revealed,
                   judged, summary, panelEdits>>

SeatFails(s) ==
    /\ seats[s] = "running" /\ stage \in Phases
    /\ seats' = [seats EXCEPT ![s] = "failed"]
    /\ staged' = staged \union {<<stage, s>>}
    /\ UNCHANGED <<panel, basis, files, evidenceRecords, archive, evidence, stage, answers, tree,
                   revealed, judged, summary, panelEdits>>

\* A prompt builder that raises is outside the try of _dispatch: its wave dies.
SeatThrows(s) ==
    /\ seats[s] = "running" /\ stage \in Phases
    /\ seats' = [seats EXCEPT ![s] = "threw"]
    /\ UNCHANGED <<panel, basis, files, evidenceRecords, archive, evidence, stage, answers, staged,
                   tree, revealed, judged, summary, panelEdits>>

-----------------------------------------------------------------------------
\* (mutant) The synthesis speaks for a criterion without evidence.
CriterionBySynthesis(c, covered, disputed) ==
    IF evidence[c] = "FAIL" THEN "FAIL"
    ELSE IF c \notin covered THEN "INCOMPLETE"
    ELSE IF c \in disputed THEN "CONTESTED"
    ELSE "PASS"

\* milestone_verdict_guard: Gate B decides, the synthesis only downgrades.
CriterionVerdict(c, covered, disputed) ==
    IF evidence[c] = "FAIL" THEN "FAIL"
    ELSE IF c \notin covered THEN "INCOMPLETE"
    ELSE IF evidence[c] = "PASS" /\ c \in disputed THEN "CONTESTED"
    ELSE IF evidence[c] = "PASS" THEN "PASS"
    ELSE "INCOMPLETE"

Adjudicate(said) ==
    LET covered  == {c \in Criteria : said[c] # {}}
        disputed == {c \in Criteria : "FAIL" \in said[c]}
        verdicts == {CriterionVerdict(c, covered, disputed) : c \in Criteria}
    IN  IF "FAIL" \in verdicts THEN "FAIL"
        ELSE IF \E c \in Criteria : Cardinality(said[c]) > 1 THEN "INCOMPLETE"
        ELSE IF "INCOMPLETE" \in verdicts THEN "INCOMPLETE"
        ELSE IF "CONTESTED" \in verdicts THEN "CONTESTED"
        ELSE "PASS"

Silence == [c \in Criteria |-> {}]
Stable ==
    /\ files["brief"] = basis.brief
    /\ panel.git => Snapshot = basis.before

\* _finish: drift makes a run incomplete, and only a complete run on a clean,
\* known and unmoved tree can PASS; a FAIL of Gate B stands.
Finish(status, said) ==
    LET final    == IF Stable THEN status ELSE "INCOMPLETE"
        proposed == Adjudicate(said)
        clean    == panel.git /\ Snapshot = basis.before /\ ~Dirty(basis.before)
    IN  summary' = [status  |-> final,
                    verdict |-> IF ~panel.milestone THEN "none"
                                ELSE IF proposed = "FAIL" THEN "FAIL"
                                ELSE IF final = "INCOMPLETE" THEN "INCOMPLETE"
                                ELSE IF proposed = "PASS" /\ ~(final = "COMPLETE" /\ clean) THEN "INCOMPLETE"
                                ELSE proposed]

\* _persist_staging: what the seats staged appears in the run directory.
Persist == tree' = tree \union staged /\ staged' = {}

\* (mutant) What is staged goes with the staging directory.
EndDiscarding(how) ==
    /\ stage' = how
    /\ tree' = tree /\ staged' = {}
    /\ revealed' = TRUE

\* What the finally clause leaves: outputs not shown yet go under partial/, and
\* the staging directory is removed.
End(how) ==
    /\ stage' = how
    /\ Persist
    /\ revealed' = TRUE

\* parallel() is external: it settles every thunk, then raises what one threw.
WaveRaises ==
    /\ stage \in Phases /\ \E s \in Seats : seats[s] = "threw"
    /\ StillRunning = {}
    /\ Finish("INCOMPLETE", Silence)
    /\ End("raised")
    /\ UNCHANGED <<panel, basis, files, evidenceRecords, archive, evidence, seats, answers,
                   judged, panelEdits>>

\* parallel() returns fewer results than it had thunks.
WaveMiscounts ==
    /\ stage \in Phases /\ StillRunning = {}
    /\ Finish("INCOMPLETE", Silence)
    /\ End("raised")
    /\ UNCHANGED <<panel, basis, files, evidenceRecords, archive, evidence, seats, answers,
                   judged, panelEdits>>

WaveReturns == StillRunning = {} /\ \A s \in Seats : seats[s] # "threw"
Answered(phase) == {s \in Seats : answers[phase][s] # NoAnswer}
Families(phase) == {answers[phase][s] : s \in Answered(phase)}

\* The draft barrier: the outputs become visible, and the authors of at least
\* two drafts of enough families review every draft.
DraftBarrier ==
    /\ stage = "draft" /\ WaveReturns
    /\ IF Cardinality(Answered("draft")) >= 2 /\ Cardinality(Families("draft")) >= MinFamilies
       THEN /\ StartWave("review", Answered("draft"))
            /\ Persist
            /\ UNCHANGED <<revealed, summary>>
       ELSE Finish("INCOMPLETE", Silence) /\ End("done") /\ UNCHANGED seats
    /\ UNCHANGED <<panel, basis, files, evidenceRecords, archive, evidence, answers, judged,
                   panelEdits>>

ReviewQuorum ==
    /\ Cardinality(Answered("review")) >= 2
    /\ Cardinality(Families("review")) >= (IF MinFamilies < 2 THEN MinFamilies ELSE 2)

ReviewBarrier ==
    /\ stage = "review" /\ WaveReturns
    /\ IF ReviewQuorum
       THEN /\ stage' = "synthesis"
            /\ Persist
            /\ UNCHANGED <<revealed, summary>>
       ELSE Finish("INCOMPLETE", Silence) /\ End("done")
    /\ UNCHANGED <<panel, basis, files, evidenceRecords, archive, evidence, seats, answers,
                   judged, panelEdits>>

\* The synthesizer names criteria once, twice or not at all, and may dispute.
Synthesize ==
    /\ stage = "synthesis"
    /\ \E said \in [Criteria -> {{}, {"PASS"}, {"FAIL"}, {"PASS", "FAIL"}}] :
         /\ judged' = said
         /\ Finish(IF Answered("draft") = Seats /\ Answered("review") = Seats THEN "COMPLETE"
                   ELSE "PARTIAL", said)
    /\ End("done")
    /\ UNCHANGED <<panel, basis, files, evidenceRecords, archive, evidence, seats, answers, panelEdits>>

SynthesizerFails ==
    /\ stage = "synthesis"
    /\ Finish("INCOMPLETE", Silence)
    /\ End("done")
    /\ UNCHANGED <<panel, basis, files, evidenceRecords, archive, evidence, seats, answers,
                   judged, panelEdits>>

\* The prompt builder of the synthesis raises: nothing catches it and no summary
\* is written, but the finally clause runs.
SynthesisThrows ==
    /\ stage = "synthesis"
    /\ End("thrown")
    /\ UNCHANGED <<panel, basis, files, evidenceRecords, archive, evidence, seats, answers, judged, summary,
                   panelEdits>>

PanelNext ==
    \/ \E p \in Parts : EditPart(p)
    \/ \E c \in Criteria : RecordEvidence(c)
    \/ Prepare \/ Freeze \/ GateArchives \/ GateJudges
    \/ \E s \in Seats : SeatAnswers(s) \/ SeatFails(s) \/ SeatThrows(s)
    \/ WaveRaises \/ WaveMiscounts \/ DraftBarrier \/ ReviewBarrier
    \/ Synthesize \/ SynthesizerFails \/ SynthesisThrows

PanelSpec == PanelInit /\ [][PanelNext]_panelVars

-----------------------------------------------------------------------------
\* The verdict is Gate B's: FAIL exactly when Gate B failed a criterion, whatever
\* became of the waves; PASS only when it passed every one, at the clean tree
\* the run began and ended with, and a full panel evaluated each of them once
\* without a dispute.  (milestone_verdict_guard, _finish)
VerdictEvidenced ==
    summary.verdict # "none" =>
        /\ (summary.verdict = "FAIL") <=> (\E c \in Criteria : evidence[c] = "FAIL")
        /\ summary.verdict = "CONTESTED" => summary.status # "INCOMPLETE"
        /\ summary.verdict = "PASS" =>
             /\ \A c \in Criteria : /\ archive[c].status = "PASS" /\ judged[c] = {"PASS"}
                                    /\ archive[c].head = basis.before["work"]
             /\ Answered("draft") = Seats /\ Answered("review") = Seats
             /\ Cardinality(Families("draft")) >= MinFamilies

\* Seats are blind and nothing is lost: while one of a wave runs, no output of
\* that wave and no identity is in the project; however the run ends, what
\* every seat returned is there, and a summary says how unless it was the
\* prompt of the synthesis that raised.  (_persist_staging,
\* _write_identity_artifacts, _finish, the finally clause of run_panel)
OutputsVisible ==
    /\ StillRunning # {} => ~revealed /\ \A s \in Seats : <<stage, s>> \notin tree
    /\ stage \in {"done", "raised"} => summary.status # "none"
    /\ stage \in {"done", "raised", "thrown"} =>
         /\ staged = {}
         /\ \A p \in Phases : \A s \in Answered(p) : <<p, s>> \in tree
=============================================================================

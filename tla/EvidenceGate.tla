----------------------------- MODULE EvidenceGate -----------------------------
(***************************************************************************)
(* The consumer of published generations: assess_v4 of the Python gate.    *)
(* It shares no code with the producer.  It follows the current pointer,   *)
(* derives every slot, claim and verdict again from the manifest and the   *)
(* retained history, and reads the history a second time at the end,       *)
(* because invocations may go on while it works.                           *)
(*                                                                         *)
(* The checks of formats, hashes and policy identities, and the replay of  *)
(* the claim checker, are left out: they hold of what this producer wrote. *)
(***************************************************************************)
EXTENDS EvidencePublication

VARIABLE gate

allvars == <<vars, gate>>

GateVerdicts == {"FAILED", "ERROR", "INCOMPLETE", "VERIFIED"}

\* seen is the length of the history last read.
Gate == [at: {"idle", "loaded", "assessed", "done"}, run: Runs \cup {0},
         manifest: Manifest \cup {None}, inputs: Versions \cup {None}, seen: Nat,
         states: [Members -> States], rows: [Claims -> {"PASS", "FAIL", "INCOMPLETE"}],
         errors: BOOLEAN, verdict: GateVerdicts]

NoGate == [at |-> "idle", run |-> 0, manifest |-> None, inputs |-> None, seen |-> 0,
           states |-> [m \in Members |-> "MISSING"], rows |-> [c \in Claims |-> "INCOMPLETE"],
           errors |-> FALSE, verdict |-> "INCOMPLETE"]

GateInit == Init /\ gate = NoGate

------------------------------------------------------------------------------
(* Barriers and eligibility, as fv_evidence_v4.py derives them.            *)

\* (mutant) Only an event that selects a member applies to it.
ApplicableIfSelected(e, m) ==
    /\ e.member # NoMember
    /\ e.member \in MembersOf[e.key[1]] /\ SameAssociation(e.member, m)

Applicable(e, m) ==
    IF e.kind = "observation" \/ (e.kind = "indeterminate" /\ e.member # NoMember)
    THEN e.member \in MembersOf[e.key[1]] /\ SameAssociation(e.member, m)
    ELSE \E n \in MembersOf[e.key[1]] : SameAssociation(n, m)

\* (mutant) Only a failure is a barrier.
GateBlockersFailures(h, m) ==
    {i \in DOMAIN h : h[i].result = "FAIL" /\ Applicable(h[i], m)}

GateBlockers(h, m) ==
    {i \in DOMAIN h : (h[i].result = "FAIL" \/ h[i].kind = "indeterminate") /\ Applicable(h[i], m)}

Successes(h, attempt) ==
    {i \in DOMAIN h : h[i].kind = "execution" /\ h[i].result = "PASS" /\ h[i].attempt = attempt}

GateObserved(h, attempt, m) ==
    {j \in DOMAIN h : /\ h[j].kind = "observation" /\ h[j].result = "PASS"
                      /\ h[j].attempt = attempt
                      /\ Applicable(h[j], m)
                      /\ \A i \in Successes(h, attempt) : i < j}

GateEligible(h, attempt, m) ==
    /\ GateObserved(h, attempt, m) # {}
    /\ \E i \in Successes(h, attempt) : \A j \in GateBlockers(h, m) : j < i

\* The barriers that remain: an eligible execution supersedes those before it.
Remaining(h, attempt, m) ==
    {j \in GateBlockers(h, m) : GateEligible(h, attempt, m) => \E i \in Successes(h, attempt) : i <= j}

FailsAt(h, barriers) == \E j \in barriers : h[j].result = "FAIL"

------------------------------------------------------------------------------
(* The state of one slot.                                                  *)

ArtifactResult(h, attempt) ==
    h[CHOOSE i \in DOMAIN h : h[i].kind = "execution" /\ h[i].attempt = attempt].result
ArtifactVersion(h, attempt) ==
    h[CHOOSE i \in DOMAIN h : h[i].kind = "execution" /\ h[i].attempt = attempt].key[2]

\* The saved slot a of member m contradicts the store.
Contradicts(g, h, m, now) ==
    LET a == g.slots[m]
        fails == FailsAt(h, Remaining(h, a.execution, m))
        result == ArtifactResult(h, a.execution)
        outcome == h[a.observation].result
    IN  \/ a.blocking # {j \in GateBlockers(h, m) : j <= g.captured}
        \/ a.execution = 0 /\ a.state \in {"PASS", "FAIL"} /\ ~fails
        \/ a.execution # 0
             /\ \/ ArtifactVersion(h, a.execution) # now
                \/ result # "PASS" /\ a.state # result /\ ~fails
                \/ result = "PASS" /\ a.observation = 0
                \/ /\ result = "PASS" /\ a.observation # 0
                   /\ \/ outcome \in {"ERROR", "CANCELLED"} /\ a.state # outcome /\ ~fails
                      \/ /\ outcome \in {"PASS", "FAIL"}
                         /\ GateEligible(h, a.execution, m)
                         /\ a.observation \notin GateObserved(h, a.execution, m)

\* What barriers make of a slot, and what its receipt makes of it.
Barred(h, attempt, m, otherwise) ==
    LET barriers == Remaining(h, attempt, m)
    IN  IF FailsAt(h, barriers) THEN "FAIL" ELSE IF barriers # {} THEN "ERROR" ELSE otherwise

GateSlot(g, h, m, now) ==
    LET a == g.slots[m]
        saved == Barred(h, a.execution, m, a.state)
        outcome == h[a.observation].result
    IN  IF Contradicts(g, h, m, now) THEN (IF saved = "FAIL" THEN "FAIL" ELSE "ERROR")
        ELSE IF a.execution = 0 \/ ArtifactResult(h, a.execution) # "PASS" THEN saved
        ELSE IF outcome \in {"ERROR", "CANCELLED"} THEN (IF saved = "FAIL" THEN "FAIL" ELSE outcome)
        ELSE IF GateEligible(h, a.execution, m) THEN "PASS"
        ELSE Barred(h, a.execution, m, "MISSING")

Row(states, c) ==
    IF \E m \in SlotsOf(c) : states[m] = "FAIL" THEN "FAIL"
    ELSE IF \A m \in SlotsOf(c) : states[m] = "PASS" THEN "PASS"
    ELSE "INCOMPLETE"

------------------------------------------------------------------------------
(* The assessment.                                                         *)

\* current.json and the run.json it names.
GateRead ==
    /\ gate.at = "idle" /\ current # 0 /\ manifests[current] # None
    /\ gate' = [NoGate EXCEPT !.at = "loaded", !.run = current, !.manifest = manifests[current]]
    /\ UNCHANGED vars

Unaccounted == \E q \in pending : q.kind = "execution" /\ q.committed /\ ~HasEvent(q)

\* The history, the current inputs, and every slot.
GateAssess ==
    LET states == [m \in Members |-> GateSlot(gate.manifest, history, m, inputs)]
    IN  /\ gate.at = "loaded"
        /\ gate' = [gate EXCEPT !.at = "assessed", !.inputs = inputs, !.seen = Len(history),
                       !.states = states, !.rows = [c \in Claims |-> Row(states, c)],
                       !.errors = Unaccounted \/ \E m \in Members :
                                      Contradicts(gate.manifest, history, m, inputs)]
        /\ UNCHANGED vars

\* (mutant) The slots stand as they were first assessed.
AsFirstAssessed(g, h, m, state) == state

\* The slot on the latest history, which never makes it better.
Later(g, h, m, state) ==
    Barred(h, g.slots[m].execution, m,
           IF state = "PASS" /\ ~GateEligible(h, g.slots[m].execution, m) THEN "MISSING" ELSE state)

LaterRow(states, c, row) ==
    IF \E m \in SlotsOf(c) : states[m] = "FAIL" THEN "FAIL"
    ELSE IF row = "PASS" /\ \E m \in SlotsOf(c) : states[m] # "PASS" THEN "INCOMPLETE" ELSE row

\* A required FAIL comes first, then errors, then gaps.
VerdictOf(rows, errors, g) ==
    IF \E c \in Required : rows[c] = "FAIL" THEN "FAILED"
    ELSE IF errors \/ "ERROR" \in {g.result, g.preflight} THEN "ERROR"
    ELSE IF g.result = "CANCELLED" \/ \E c \in Required : rows[c] # "PASS" THEN "INCOMPLETE"
    ELSE "VERIFIED"

\* The second reading of the history, the dependencies, the second scan of the
\* inputs, and the verdict.  Inputs that moved leave only the failures.
GateFinish ==
    LET g == gate.manifest
        grown == Len(history) # gate.seen
        states == [m \in Members |-> IF grown THEN Later(g, history, m, gate.states[m]) ELSE gate.states[m]]
        latest == [c \in Claims |-> IF grown THEN LaterRow(states, c, gate.rows[c]) ELSE gate.rows[c]]
        rows == [c \in Claims |->
                   IF latest[c] = "PASS" /\ \E d \in DependsOn[c] : latest[d] # "PASS"
                   THEN "INCOMPLETE" ELSE latest[c]]
    IN  /\ gate.at = "assessed"
        /\ gate' = [gate EXCEPT !.at = "done", !.seen = Len(history), !.states = states, !.rows = rows,
                       !.errors = gate.errors \/ Unaccounted,
                       !.verdict = IF inputs # gate.inputs
                                   THEN (IF \E c \in Required : rows[c] = "FAIL" THEN "FAILED" ELSE "ERROR")
                                   ELSE VerdictOf(rows, gate.errors \/ Unaccounted, g)]
        /\ UNCHANGED vars

\* The gate keeps nothing between assessments, so one suffices: its verdict ends the
\* behaviour.
GateNext == (gate.at # "done" /\ Next /\ UNCHANGED gate) \/ GateRead \/ GateAssess \/ GateFinish

GateSpec == GateInit /\ [][GateNext]_allvars

GateTypeOK ==
    /\ history \in Seq(Event) /\ pending \subseteq Pending /\ owner \in Runs \cup {0}
    /\ manifests \in [Runs -> Manifest \cup {None}] /\ settled \subseteq Runs
    /\ current \in Runs \cup {0} /\ synced \in Runs \cup {0} /\ inputs \in Versions
    /\ inv \in Invocation
    /\ returned.run \in Runs \cup {0} /\ returned.result \in Verdicts
    /\ begun \in Nat /\ attempts \in Nat /\ troubles \in Nat /\ edits \in Nat
    /\ gate \in Gate

------------------------------------------------------------------------------
(* What the gate promises.                                                 *)

Seen == SubSeq(history, 1, gate.seen)

\* VERIFIED is sound for the moment it was given, whatever generation the pointer
\* named and whatever invocations did since that was captured: every required
\* slot still stands in the last history the gate read, on the current inputs.
GateSound ==
    gate.at = "done" /\ gate.verdict = "VERIFIED" =>
        \A m \in {n \in Members : ClaimOf[n] \in Required} : \E i \in DOMAIN Seen :
            /\ history[i].attempt = gate.manifest.slots[m].execution
            /\ StandsBy(Seen, i, m, gate.inputs)

\* A required failure that no success on the inputs of the generation superseded makes
\* the verdict FAILED, also when it happened after the generation was captured and when
\* the inputs move during the assessment.
GateReportsFailures ==
    gate.at = "done" /\ (\E m \in Members : /\ ClaimOf[m] \in Required
                                          /\ StandsFailed(Seen, m, gate.manifest.version))
        => gate.verdict = "FAILED"

\* The gate confirms what the producer published: with the history and the inputs of
\* the generation and nothing unaccounted for, a passing manifest is VERIFIED.
\* (two implementations of the same rules, in TypeScript and in Python)
GateConfirms ==
    [][ ( /\ gate.at = "assessed" /\ gate'.at = "done"
          /\ gate.manifest.result = "PASS" /\ (\A c \in Claims : gate.manifest.claims[c] = "PASS")
          /\ gate.manifest.captured = Len(history) /\ ~Unaccounted
          /\ inputs = gate.inputs /\ inputs = gate.manifest.version )
        => gate'.verdict = "VERIFIED" ]_allvars
=============================================================================

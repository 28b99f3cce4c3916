----------------------------- MODULE FanoutRun ------------------------------
(***************************************************************************)
(* skills/fv-adversarial/omp_fanout.py: one wave of voices over a frozen    *)
(* target, and the attribution of each answer to the route that gave it.    *)
(* The model that answers and what the bridge says of it are external.      *)
(***************************************************************************)
EXTENDS Naturals, FiniteSets, TLC

CONSTANTS Routes, MaxTargetEdits

\* What really answered, and what the bridge reports: OMP's own flag, the name
\* of a model, or nothing.  An equal name may be an echo of the request.
Answers == {"requested", "fallback"}
Reports(answer) ==
    {"no-report", "names-requested"} \union
    (IF answer = "fallback" THEN {"flag-fallback", "names-other"} ELSE {"flag-direct"})

VARIABLES
    fanout,   \* [pc, certified, frozen]
    target,   \* version of the target specification
    served,   \* voice -> its record
    outcome   \* summary.json

fanoutVars == <<fanout, target, served, outcome>>

NoOutcome == [verdict |-> "none", fallback |-> {}, unverified |-> {}]
Pending == [status |-> "running", answer |-> "none", report |-> "none"]

FirstFanout == [pc |-> "called", certified |-> FALSE, blocked |-> FALSE, frozen |-> 0]

FanoutInit ==
    /\ fanout \in [pc : {"called"}, certified : BOOLEAN, blocked : BOOLEAN, frozen : {0}]
    /\ target = 0
    /\ served = [v \in Routes |-> Pending]
    /\ outcome = NoOutcome

EditTarget ==
    /\ target < MaxTargetEdits /\ outcome = NoOutcome
    /\ target' = target + 1
    /\ UNCHANGED <<fanout, served, outcome>>

\* The run directory and the preflight; a secret in the tree refuses the run.
Preflight ==
    /\ fanout.pc = "called"
    /\ fanout' = [fanout EXCEPT !.pc = IF fanout.blocked THEN "refused" ELSE "wave", !.frozen = target]
    /\ UNCHANGED <<target, served, outcome>>

\* load_fallback_suppression: a certificate is refused unless the launched
\* configuration leaves every requested route an empty fallback chain.
MayServe == IF fanout.certified THEN {"requested"} ELSE Answers

\* invoke: any exception is a record of its voice.
Answer(v) ==
    /\ fanout.pc = "wave" /\ served[v].status = "running"
    /\ \E answer \in MayServe :
         \E report \in Reports(answer) :
           served' = [served EXCEPT ![v] = [status |-> "ok", answer |-> answer, report |-> report]]
    /\ UNCHANGED <<fanout, target, outcome>>

Fail(v) ==
    /\ fanout.pc = "wave" /\ served[v].status = "running"
    /\ served' = [served EXCEPT ![v].status = "error"]
    /\ UNCHANGED <<fanout, target, outcome>>

\* (mutant) A model of the requested name establishes the route.
EstablishedByName(v) == served[v].report # "no-report"

\* classify_served_route and _route_established.
ServedByFallback(v) == served[v].report \in {"flag-fallback", "names-other"}
Established(v) ==
    \/ served[v].report \in {"flag-fallback", "flag-direct", "names-other"}
    \/ served[v].report = "names-requested" /\ fanout.certified

Succeeded == {v \in Routes : served[v].status = "ok"}

\* _write_summary over the records the wave returned.
Summarize(returned, crashed) ==
    LET ok == Succeeded \intersect returned
    IN  /\ outcome' = [verdict |-> IF crashed \/ target # fanout.frozen \/ ok = {} THEN "INCOMPLETE"
                                   ELSE IF ok = Routes THEN "COMPLETE"
                                   ELSE "PARTIAL",
                       fallback |-> {v \in ok : ServedByFallback(v)},
                       unverified |-> {v \in ok : ~Established(v)}]
        /\ fanout' = [fanout EXCEPT !.pc = IF crashed THEN "raised" ELSE "done"]
        /\ UNCHANGED <<target, served>>

Ended == fanout.pc = "wave" /\ \A v \in Routes : served[v].status # "running"

FanoutEnds == Ended /\ Summarize(Routes, FALSE)

\* parallel() loses a result, or raises before or after some voices ended.
FanoutLoses == Ended /\ \E returned \in (SUBSET Routes) \ {Routes} : Summarize(returned, TRUE)
FanoutRaises == fanout.pc = "wave" /\ Summarize({}, TRUE)

FanoutNext ==
    \/ EditTarget \/ Preflight \/ FanoutEnds \/ FanoutLoses \/ FanoutRaises
    \/ \E v \in Routes : Answer(v) \/ Fail(v)

FanoutSpec == FanoutInit /\ [][FanoutNext]_fanoutVars

-----------------------------------------------------------------------------
\* The summary never reads better than what happened: COMPLETE means that every
\* voice answered for the target the run froze and still sees, and a voice that
\* is in neither list was answered by the route that was requested.
\* (_write_summary, classify_served_route)
RoutesHonest ==
    outcome # NoOutcome =>
        /\ outcome.verdict = "COMPLETE" => Succeeded = Routes /\ fanout.frozen = target
        /\ \A v \in outcome.fallback : served[v].answer = "fallback"
        /\ outcome.verdict \in {"COMPLETE", "PARTIAL"} =>
             \A v \in Succeeded \ (outcome.fallback \union outcome.unverified) :
                 served[v].answer = "requested"
=============================================================================

--------------------------- MODULE EvidenceHistory ---------------------------
(***************************************************************************)
(* The retained history of the v4 evidence store, and what the producer    *)
(* concludes from it: which events are barriers for a member (one required *)
(* claim/slot/tool association), which execution is that member's current  *)
(* candidate, and the state the assessment gives it.                       *)
(*                                                                         *)
(* A history is the sequence of events stored one file per sequence        *)
(* number.  An event keeps the fields the conclusions depend on:           *)
(*   kind     "execution", "observation" or "indeterminate"                *)
(*   key      the execution key: a physical slot of the policy expansion   *)
(*            and the version of everything its descriptor binds           *)
(*   attempt  the attempt id of the physical invocation                    *)
(*   member   the selected member; NoMember when claim_id is null          *)
(*   result   the recorded outcome                                         *)
(*   backed   whether the event references a committed artifact or receipt *)
(*   run      the run whose observation receipt it references, or the run  *)
(*            of the recovered owner; 0 for an execution                   *)
(***************************************************************************)
EXTENDS Integers, Sequences

CONSTANTS
    Physicals,   \* physical slots of the expanded policy
    Members,     \* required claim/slot/tool associations
    NoMember,    \* claim_id = slot_id = null
    MembersOf,   \* the reviewed members of each physical slot
    ClaimOf,     \* the claim of each member
    ToolOf,      \* the evidence tool of each member
    Versions,    \* versions of the bound inputs: an execution key is a pair
    Runs         \* run identifiers, one per producer session

ASSUME HistoryAssumption ==
    /\ NoMember \notin Members
    /\ MembersOf \in [Physicals -> SUBSET Members]
    /\ Runs \subseteq Nat \ {0}

Keys == Physicals \X Versions
Results == {"PASS", "FAIL", "ERROR", "CANCELLED"}
Kinds == {"execution", "observation", "indeterminate"}
MaybeMember == Members \cup {NoMember}

Event == [kind: Kinds, key: Keys, attempt: Nat, member: MaybeMember,
          result: Results, backed: BOOLEAN, run: Runs \cup {0}]

\* An execution FAIL, and an execution left indeterminate, touch every recorded
\* member; an event that selects a member touches that member alone.
Touched(e) ==
    IF e.member = NoMember THEN MembersOf[e.key[1]]
                           ELSE MembersOf[e.key[1]] \cap {e.member}

\* Associations are matched by claim and tool, whatever the slot or the key.
SameAssociation(m, n) == ClaimOf[m] = ClaimOf[n] /\ ToolOf[m] = ToolOf[n]

\* (mutant) A failure blocks the slots it names, not the association they share.
BarrierAppliesBySlot(e, m) ==
    /\ e.result = "FAIL" \/ e.kind = "indeterminate"
    /\ m \in Touched(e)

\* (mutant) Only a recorded FAIL is a barrier.
BarrierAppliesToFail(e, m) ==
    /\ e.result = "FAIL"
    /\ \E n \in Touched(e) : SameAssociation(n, m)

\* (mutant) A failed observation is no barrier.
BarrierAppliesToExecutions(e, m) ==
    /\ (e.result = "FAIL" /\ e.kind = "execution") \/ e.kind = "indeterminate"
    /\ \E n \in Touched(e) : SameAssociation(n, m)

BarrierApplies(e, m) ==
    /\ e.result = "FAIL" \/ e.kind = "indeterminate"
    /\ \E n \in Touched(e) : SameAssociation(n, m)

Blockers(h, m) == {i \in DOMAIN h : BarrierApplies(h[i], m)}

\* i is past every barrier of m: i exceeds the cutoff.
PastCutoff(h, i, m) == \A j \in Blockers(h, m) : j < i

\* The later passing observations of m on the attempt of the execution at i.
Observations(h, i, m) ==
    {j \in DOMAIN h : /\ i < j
                      /\ h[j].kind = "observation"
                      /\ h[j].result = "PASS"
                      /\ h[j].key = h[i].key
                      /\ h[j].attempt = h[i].attempt
                      /\ h[j].member = m}

Observed(h, i, m) == Observations(h, i, m) # {}

Eligible(h, key, m) ==
    {i \in DOMAIN h : /\ h[i].kind = "execution"
                      /\ h[i].result = "PASS"
                      /\ h[i].key = key
                      /\ h[i].backed
                      /\ PastCutoff(h, i, m)
                      /\ Observed(h, i, m)}

HasCandidate(h, key, m) == Eligible(h, key, m) # {}

\* The candidate is the latest eligible execution.
IsCandidate(h, key, m, i) ==
    i \in Eligible(h, key, m) /\ \A j \in Eligible(h, key, m) : j <= i

SelectionState(h, key, m) ==
    CASE HasCandidate(h, key, m) -> "PASS"
      [] ~HasCandidate(h, key, m)
           /\ \E i \in Blockers(h, m) : h[i].result = "FAIL" -> "FAIL"
      [] ~HasCandidate(h, key, m) /\ Blockers(h, m) # {}
           /\ \A i \in Blockers(h, m) : h[i].result # "FAIL" -> "ERROR"
      [] OTHER -> "MISSING"

\* What an append requires of the event and of the events before it.
BindingAllowed(h, e) ==
    LET same == {i \in DOMAIN h : h[i].key = e.key /\ h[i].attempt = e.attempt}
        actual(i) == h[i].kind = "execution" /\ h[i].result = "PASS"
    IN  CASE e.kind = "execution" ->
               /\ e.member = NoMember
               /\ e.backed \/ e.result # "PASS"
               /\ \A i \in same : /\ h[i].kind # "execution"
                                  /\ ~(h[i].kind = "indeterminate" /\ h[i].member = NoMember)
          [] e.kind = "observation" ->
               /\ e.member \in MembersOf[e.key[1]]
               /\ \E i \in same : actual(i) /\ h[i].backed
          [] e.kind = "indeterminate" ->
               /\ e.result = "ERROR"
               /\ e.member # NoMember => /\ e.member \in MembersOf[e.key[1]]
                                         /\ \E i \in same : actual(i)
               /\ \A i \in same : ~(/\ h[i].kind = "indeterminate"
                                    /\ h[i].member = e.member
                                    /\ h[i].run = e.run)

\* The events loadHistory keys by the attempt of the committed artifact x.
AttemptEvents(h, x) == {i \in DOMAIN h : /\ h[i].key = x.key
                                         /\ h[i].attempt = x.attempt
                                         /\ h[i].kind # "observation"
                                         /\ h[i].member = NoMember}

\* The last of them is an execution event with the outcome of the artifact, or an
\* indeterminate event.
AccountsArtifact(h, x) ==
    \E i \in AttemptEvents(h, x) :
        /\ \A j \in AttemptEvents(h, x) : j <= i
        /\ h[i].kind = "execution" => h[i].result = x.result

\* A committed observation receipt is accounted for by its own event or by an
\* indeterminate event recovered from the owner of the same run.
AccountsReceipt(h, c) ==
    \E i \in DOMAIN h : /\ h[i].kind \in {"observation", "indeterminate"}
                        /\ h[i].key = c.key
                        /\ h[i].attempt = c.attempt
                        /\ h[i].member = c.member
                        /\ h[i].run = c.run
=============================================================================

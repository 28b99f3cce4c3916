---------------------------- MODULE MCEvidenceGate ----------------------------
(***************************************************************************)
(* Instances of EvidencePublication and of the gate that reads it: a claim *)
(* c1 and a system claim c2 that depends on it.                             *)
(***************************************************************************)
EXTENDS EvidenceGate, TLC

CONSTANTS p1, p2, m1, m2, c1, c2, t, v1, v2

TwoMembers == <<m1, m2>>
OneSlot == <<p1>>
TwoSlots == <<p1, p2>>
SharedSlot == p1 :> {m1, m2}
ApartSlots == (p1 :> {m1}) @@ (p2 :> {m2})
ClaimOfMember == (m1 :> c1) @@ (m2 :> c2)
ToolOfMember == (m1 :> t) @@ (m2 :> t)
SystemClaim == (c1 :> {}) @@ (c2 :> {c1})
Whole == {Claims}
VersionSymmetry == Permutations(Versions)
OneRun == 1 .. 1
TwoRuns == 1 .. 2
=============================================================================

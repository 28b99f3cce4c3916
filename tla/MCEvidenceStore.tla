--------------------------- MODULE MCEvidenceStore ---------------------------
(***************************************************************************)
(* Instances of EvidenceStore: two physical slots.  The member of the first *)
(* and a member of the second are slots of one claim with one tool, so a    *)
(* failure of either touches both.                                          *)
(***************************************************************************)
EXTENDS EvidenceStore, TLC

CONSTANTS p1, p2, m1, m2, m3, c1, c2, t, v1, v2

Shared == (p1 :> {m1}) @@ (p2 :> {m2, m3})
Alone == p1 :> {m1}
Single == p1 :> {m1, m2}
ClaimOfMember == (m1 :> c1) @@ (m2 :> c1) @@ (m3 :> c2)
SeparateClaims == (m1 :> c1) @@ (m2 :> c2)
ToolOfMember == (m1 :> t) @@ (m2 :> t) @@ (m3 :> t)
OneRun == 1 .. 1
TwoRuns == 1 .. 2
Everything == {Members}
\* Keys are compared, never ordered: versions are interchangeable.
VersionSymmetry == Permutations(Versions)
AnyMember == {Members, {m1}}
=============================================================================

-------------------------- MODULE MCEvidenceSchedule --------------------------
(***************************************************************************)
(* Instances of EvidenceSchedule: two to four recipes in policy order, the  *)
(* second exclusive where that is the question, sharing a resource with the *)
(* claim checker.                                                           *)
(***************************************************************************)
EXTENDS EvidenceSchedule

CONSTANTS p1, p2, p3, p4, r1, r2

Four == <<p1, p2, p3, p4>>
Three == <<p1, p2, p3>>
Two == <<p1, p2>>
NeedsOfFour == (p1 :> {r1}) @@ (p2 :> {r2}) @@ (p3 :> {r1, r2}) @@ (p4 :> {})
NeedsOfThree == (p1 :> {r1}) @@ (p2 :> {r2}) @@ (p3 :> {r1, r2})
NeedsOfTwo == (p1 :> {r1}) @@ (p2 :> {r2})
OneSlot == [p \in Physicals |-> 1]
=============================================================================

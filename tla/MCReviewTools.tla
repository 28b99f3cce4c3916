--------------------------- MODULE MCReviewTools ----------------------------
(***************************************************************************)
(* Instances of ReviewTools: two voices and two commands on one manifest,   *)
(* three seats of two families, and a system claim that rests on another.   *)
(***************************************************************************)
EXTENDS ReviewTools, TLC

CONSTANTS a, b, x, y, s1, s2, s3

FamiliesM == s1 :> "f1" @@ s2 :> "f2" @@ s3 :> "f2"
PanelsM ==
    [milestone : BOOLEAN, profile : {FALSE}, git : BOOLEAN, blocked : {FALSE}]
    \union [milestone : {TRUE}, profile : {TRUE}, git : {TRUE}, blocked : {FALSE}]
    \union [milestone : {TRUE}, profile : {FALSE}, git : {TRUE}, blocked : {TRUE}]

KindM == "inv" :> "invariant" @@ "sys" :> "system_claim"
RequiresM == "inv" :> {} @@ "sys" :> {"kani"}
DependsM == "inv" :> {} @@ "sys" :> {"inv"}
ToolsM == "kani" :> "code-enforced" @@ "quint" :> "test-witnessed"
CohortsM == {{"kani"}, {"kani", "quint"}}
\* A record of an assumption, with and without its waiver.
HandWrittenM ==
    {[schema |-> "v2", bound |-> [i \in Inputs |-> 0], dirty |-> FALSE,
      class |-> "externally-assumed", result |-> "PASS", executions |-> {}, waived |-> w] :
        w \in BOOLEAN}
=============================================================================

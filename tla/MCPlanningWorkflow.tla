------------------------- MODULE MCPlanningWorkflow -------------------------
(* Instances of PlanningWorkflow for TLC.                                  *)
EXTENDS PlanningWorkflow, TLC

(* Two fingerprints of one error, to be told apart, and one of two.        *)
MCPrints == {"one", "other", "two"}
MCErrors == [p \in MCPrints |-> IF p = "two" THEN 2 ELSE 1]

(* The same with one of three, for more rounds.                            *)
MorePrints == MCPrints \cup {"three"}
MoreErrors == [p \in MorePrints |->
                 CASE p = "three" -> 3 [] p = "two" -> 2 [] OTHER -> 1]

(* Below the threshold of 70, a gain too small, and above it.              *)
MCScores == {60, 63, 72}
LowOrHigh == {60, 72}

(* Ledgers that run out anywhere on the way of a run.                      *)
SomeSteps == {11, 14, 22, 33, 100}
FewSteps == 9..12

Symmetry == Permutations(Styles) \cup Permutations(Actions)
=============================================================================

------------------------- MODULE MCPreferenceMemory -------------------------
(* Preferences of five categories, two of which contradict each other and  *)
(* one of which is held in two scopes, and a trip that one of them would   *)
(* make impossible.                                                        *)
EXTENDS PreferenceMemory

MCCategory == [relaxed |-> "pace", relaxed_here |-> "pace", intensive |-> "pace",
               likes |-> "preferred_categories", dislikes |-> "avoided_categories",
               walks |-> "walking_tolerance", rests |-> "accessibility_needs"]
MCPlace == [v \in DOMAIN MCCategory |-> IF v \in {"likes", "relaxed_here"} THEN "hangzhou" ELSE "any"]
MCSays == [v \in DOMAIN MCCategory |-> IF v = "relaxed_here" THEN "relaxed" ELSE v]
MCTerms == [relaxed |-> {}, relaxed_here |-> {}, intensive |-> {}, likes |-> {"museum"},
            dislikes |-> {"palace", "garden"}, walks |-> {},
            rests |-> {"frequent_rest"}]
MCSize == [v \in DOMAIN MCCategory |-> IF v = "dislikes" THEN 3 ELSE 2]
MCTrip == [destination |-> "hangzhou", pace |-> "balanced", walking |-> "default",
           rest |-> FALSE, interests |-> {"garden"}, avoid |-> {},
           must_visit |-> {"palace"}]

Symmetry == Permutations(Calls) \cup Permutations(Processes) \cup Permutations(Users)
=============================================================================

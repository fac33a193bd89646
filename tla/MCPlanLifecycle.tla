--------------------------- MODULE MCPlanLifecycle ---------------------------
(* Instances of PlanLifecycle for TLC.                                     *)
EXTENDS PlanLifecycle, TLC

(* Two items, one placement on each of two days, and a third day.          *)
MCItems == {"a", "b"}
MCDays == {"mon", "tue", "wed"}
MCPlaces == {"mon9", "tue9"}
MCDayOf == [v \in MCPlaces |-> IF v = "mon9" THEN "mon" ELSE "tue"]
MCCandidates == {[i \in MCItems |-> "mon9"]}

(* A move to the other day; an edit of too many days; an unresolved name.  *)
MCPatches ==
    {[items |-> {"a"}, dates |-> {"tue"}, open |-> 0],
     [items |-> {"a"}, dates |-> {"tue", "wed"}, open |-> 0],
     [items |-> {}, dates |-> {}, open |-> 1]}

(* Smaller instances for two processes and for many requests.              *)
OneDay == {"mon"}
OneDayPlaces == {"mon9"}
OneDayOf == [v \in OneDayPlaces |-> "mon"]
OneItem == {"a"}
OneItemCandidates == {[i \in OneItem |-> "mon9"]}
OnePatch == {[items |-> {"a"}, dates |-> {}, open |-> 0]}
SomePatches == OnePatch \cup {[items |-> {}, dates |-> {}, open |-> 1]}

RequestSymmetry == Permutations(Requests)
BothSymmetry == Permutations(Requests) \cup Permutations(Procs)
=============================================================================

------------------------- MODULE MCRequirementIntake -------------------------
(* A trip of two days and what texts may leave out or get wrong of it. *)
EXTENDS RequirementIntake, TLC

CONSTANTS q1, q2, q3, q4, a1, a2

MCRequests == {q1, q2, q3, q4}
MCAnswers == {a1, a2}

Trip ==
    [destination |-> "city", start_date |-> 1, end_date |-> 2, travelers |-> 2,
     accommodation_name |-> None, total_budget |-> None, daily_start |-> None,
     daily_end |-> None]
    @@ ("arrival.name" :> "airport") @@ ("arrival.at" :> 3)
    @@ ("departure.name" :> "airport") @@ ("departure.at" :> 4)

(* Complete; without a departure time; leaving as it arrives; with an end   *)
(* before the start and no travellers; with a hotel; with a late start.     *)
MCDrafts ==
    {Trip, ("departure.at" :> None) @@ Trip, ("departure.at" :> 3) @@ Trip,
     [travelers |-> 0, end_date |-> 0] @@ Trip,
     [accommodation_name |-> "hotel"] @@ Trip,
     [daily_start |-> 21] @@ Trip}

(* Nothing; a later departure; new days and names; an earlier departure.    *)
MCPatches ==
    {Blank, ("departure.at" :> 4) @@ Blank,
     [end_date |-> 2, travelers |-> 1, daily_end |-> 22, accommodation_name |-> "inn"]
        @@ ("departure.name" :> "station") @@ Blank,
     ("departure.at" :> 2) @@ ("arrival.name" :> "station") @@ Blank}
=============================================================================

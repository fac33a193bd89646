------------------------------- MODULE PlanData -------------------------------
(***************************************************************************)
(* Plans as the lifecycle tells them apart.  A plan places items: an item  *)
(* has a placement (its day and the other facts a fingerprint hashes: poi, *)
(* name, start, end, type) or is not in the plan.  A lock protects one     *)
(* item or one day and records the fingerprint of what it protects.        *)
(***************************************************************************)
EXTENDS Naturals, Sequences, FiniteSets

CONSTANTS Items,        \* the items that versions of the plan may hold
          Days,         \* the days of the trip
          Places,       \* the placements of an item that fingerprints tell apart
          DayOf,        \* the day of a placement
          Absent,       \* the item is not in the plan
          NoLock        \* no fingerprint is recorded for a target

ASSUME PlacesAssumption ==
    /\ DayOf \in [Places -> Days]
    /\ Absent \notin Places
    /\ \A S \in SUBSET Items : NoLock \notin [S -> Places \cup {Absent}]

Targets == Items \cup Days
Plan == [Items -> Places \cup {Absent}]

Present(plan) == {i \in Items : plan[i] # Absent}

(* The items a lock of this target protects in the plan. *)
Covers(plan, t) ==
    IF t \in Items THEN {t} ELSE {i \in Present(plan) : DayOf[plan[i]] = t}

(* item_fingerprint and day_fingerprint: the protected part of the plan.   *)
Fingerprint(plan, t) == [i \in Covers(plan, t) |-> plan[i]]

Fingerprints == UNION {[S -> Places \cup {Absent}] : S \in SUBSET Items}

(* The plan shows every locked target as it was when the lock was taken.   *)
Agrees(plan, held) ==
    \A t \in Targets : held[t] # NoLock => Fingerprint(plan, t) = held[t]

(* A grounded edit names items and target dates (move, add).               *)
(* analyze_change_impact: the days it affects.                             *)
AffectedDays(plan, items, dates) ==
    {DayOf[plan[i]] : i \in items \cap Present(plan)} \cup dates

(* The locks it runs into: an item lock only when the edit names the item, *)
(* a day lock when the edit touches the day.                               *)
LockConflicts(plan, items, dates, held) ==
    {t \in (items \cap Present(plan)) \cup AffectedDays(plan, items, dates) :
        held[t] # NoLock}

(* The locality guard: the days outside the affected ones are as before.   *)
Local(before, after, affected) ==
    \A d \in Days \ affected : Fingerprint(after, d) = Fingerprint(before, d)
=============================================================================

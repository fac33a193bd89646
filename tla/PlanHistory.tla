----------------------------- MODULE PlanHistory -----------------------------
(***************************************************************************)
(* What a plan session promises its user, without graphs, checkpoints,     *)
(* processes or previews: a linear history of plans that only grows, and a *)
(* set of held targets (a locked item or a locked day) that no change of   *)
(* the plan may touch while they are held.  PlanLifecycle implements it.   *)
(***************************************************************************)
EXTENDS PlanData

VARIABLES plans, held

historyVars == <<plans, held>>

HistoryInit == plans = <<>> /\ held = [t \in Targets |-> NoLock]

Choose(plan) ==
    /\ plans = <<>>
    /\ plans' = <<plan>>
    /\ held' = held

Hold(t) ==
    /\ plans # <<>>
    /\ held' = [held EXCEPT ![t] = Fingerprint(plans[Len(plans)], t)]
    /\ plans' = plans

Release(t) ==
    /\ held[t] # NoLock
    /\ held' = [held EXCEPT ![t] = NoLock]
    /\ plans' = plans

Change(plan) ==
    /\ plans # <<>>
    /\ Agrees(plan, held)
    /\ plans' = Append(plans, plan)
    /\ held' = held

HistoryNext ==
    \/ \E plan \in Plan : Choose(plan) \/ Change(plan)
    \/ \E t \in Targets : Hold(t) \/ Release(t)

HistorySpec == HistoryInit /\ [][HistoryNext]_historyVars
=============================================================================

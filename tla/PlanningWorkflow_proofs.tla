---------------------- MODULE PlanningWorkflow_proofs ----------------------
(***************************************************************************)
(* Proofs about the planning graph, for any styles, verdicts, actions and  *)
(* scores and any limits.                                                  *)
(*                                                                         *)
(* The keys of TravelState agree with one another in a way that depends on *)
(* the node that runs next.  The invariant says, group of nodes by group   *)
(* of nodes, which keys speak of the same plans.                           *)
(***************************************************************************)
EXTENDS PlanningWorkflow, FiniteSetTheorems, SequenceTheorems, TLAPS

Opening == {"execution_budget_guard", "build_search_plan", "load_pois",
            "resolve_poi_facts", "build_route_matrix",
            "build_optimization_problem", "solve_candidate_variants",
            "materialize_optimized_candidates"}
Choosing == {"select_repair_target", "analyze_violations",
             "build_repair_plan", "apply_local_repair"}
Repairing == {"collect_delta_routes", "load_delta_routes", "materialize_candidates"}
Improving == {"collect_soft_delta_routes", "load_soft_delta_routes",
              "materialize_soft_candidate"}
Judging == {"soft_constraint_critic", "validate_critic_evidence", "quality_gate"}
Scored == {"compile_soft_repair_plan", "apply_soft_repair", "compare_soft_repair",
           "select_by_quality", "explain_selection"}

(* The repair plan in progress waits for its validation.                   *)
RepairPending ==
    \/ node \in Repairing
    \/ node = "validate_candidates" /\ pending # 0

(* A soft repair has put the legal plans aside.                            *)
Aside == softPending # 0 \/ node = "apply_soft_repair"

Entry == [before : Prints, after : Prints \cup {Clean}, action : Actions]

(* No round has started from these violations.                             *)
Untried(print) == \A i \in 1..Len(history) : history[i].before # print

-----------------------------------------------------------------------------
(* The inductive invariant.                                                *)

(* Who has been validated, and which lists hold the same plans.            *)
PlansFit ==
    /\ node \in Opening \cup Repairing \cup Improving \cup Choosing
          \cup {"validate_candidates", "mark_infeasible"} => Deliverable(cands) = {}
    /\ node \in Judging \cup Scored \cup {"prepare_critic_context"}
          => Deliverable(cands) # {}
    /\ node \notin Opening \cup Repairing \cup Improving => DOMAIN cands = drafts
    /\ (\/ RepairPending \/ node \in Improving
        \/ node = "validate_candidates" /\ softPending # 0) => \E c \in Ids : drafts = {c}
    /\ node \in {"analyze_violations", "build_repair_plan", "apply_local_repair"}
          => target \in DOMAIN cands
    /\ node = "explain_selection" => selected \in BestByQuality(cands, scores)

(* Rounds of repair: how many, from which violations, by which actions.    *)
RoundsFit ==
    /\ history \in Seq(Entry) /\ RepairsDiffer
    /\ node \in Choosing \cup Repairing => iterations < MaxRounds
    /\ pending = IF RepairPending THEN iterations + 1 ELSE 0
    /\ node \in Opening => iterations = 0
    /\ node = "validate_candidates" /\ pending = 0 /\ softPending = 0 => iterations = 0
    /\ node \in Choosing =>
          \A c \in DOMAIN cands : cands[c].level = "invalid" /\ Untried(cands[c].print)
    /\ RepairPending \/ node \in {"build_repair_plan", "apply_local_repair"}
          => report.level = "invalid" /\ Untried(report.print)
    /\ RepairPending \/ node = "apply_local_repair" => plan \in Actions \ Tried
    /\ node = "mark_infeasible" => stuck \/ ~pois \/ iterations = MaxRounds
    /\ outcome = "infeasible" => node = "mark_infeasible" /\ selected = NoId

(* The legal plans that are put aside.                                     *)
BaseHolds ==
    /\ softPlan \in Deliverable(base.cands) \cap DOMAIN base.scores
    /\ DOMAIN base.cands = base.drafts
    /\ base.scores = base.critiques
    /\ DOMAIN base.scores = base.digests
    /\ DOMAIN base.scores \subseteq DOMAIN base.cands

BaseFits ==
    /\ IF Aside THEN BaseHolds /\ softRounds < MaxSoftRounds ELSE base = NoBase
    /\ softPending # 0 => node \in Improving \cup Judging \cup
          {"validate_candidates", "prepare_critic_context",
           "restore_soft_baseline", "compare_soft_repair"}
    /\ node \in Improving \cup {"restore_soft_baseline", "compare_soft_repair"}
          => softPending # 0

(* What the critic was told, said, and is believed.                        *)
CriticFits ==
    /\ ScoresAreGrounded
    /\ node \notin Scored => scores = Nothing
    /\ node = "compile_soft_repair_plan" => DOMAIN scores # {}
    /\ node \in Judging => digests \subseteq DOMAIN cands
    /\ node = "soft_constraint_critic" => attempts < MaxAttempts
    /\ node = "quality_gate" /\ critic = "success" => DOMAIN critiques = digests

EndFits == outcome = "completed" => node = "explain_selection"

IInv == TypeOK /\ PlansFit /\ RoundsFit /\ BaseFits /\ CriticFits /\ EndFits

(* The steps that are left, when the reserve holds one for the validator   *)
(* and one for the node that ends the run.                                 *)
ReserveFits ==
    /\ node = "validate_candidates" /\ outcome = "running" => left >= StepReserve
    /\ node \in TerminalNodes /\ outcome = "running" => left > 0
-----------------------------------------------------------------------------
(* Constants and edges.                                                    *)

LEMMA Constants ==
    /\ Clean \notin Prints /\ NoAction \notin Actions
    /\ MaxRounds \in Nat /\ MaxSoftRounds \in {0, 1} /\ MaxAttempts \in {1, 2}
    /\ Scores \subseteq Nat /\ RecursionLimit \in Nat
  BY PlanningAssumption DEF RecursionLimit

LEMMA Edges ==
    /\ Edge["execution_budget_guard"] = "build_search_plan"
    /\ Edge["build_search_plan"] = "load_pois"
    /\ Edge["load_pois"] = "resolve_poi_facts"
    /\ Edge["resolve_poi_facts"] = "build_route_matrix"
    /\ Edge["build_route_matrix"] = "build_optimization_problem"
    /\ Edge["build_optimization_problem"] = "solve_candidate_variants"
    /\ Edge["solve_candidate_variants"] = "materialize_optimized_candidates"
    /\ Edge["materialize_optimized_candidates"] = "validate_candidates"
    /\ Edge["materialize_candidates"] = "validate_candidates"
    /\ Edge["materialize_soft_candidate"] = "validate_candidates"
    /\ Edge["select_repair_target"] = "analyze_violations"
    /\ Edge["apply_local_repair"] = "collect_delta_routes"
    /\ Edge["load_delta_routes"] = "materialize_candidates"
    /\ Edge["prepare_critic_context"] = "soft_constraint_critic"
    /\ Edge["soft_constraint_critic"] = "validate_critic_evidence"
    /\ Edge["apply_soft_repair"] = "collect_soft_delta_routes"
    /\ Edge["load_soft_delta_routes"] = "materialize_soft_candidate"
    /\ Edge["restore_soft_baseline"] = "select_by_quality"
    /\ Edge["compare_soft_repair"] = "select_by_quality"
    /\ Edge["select_by_quality"] = "explain_selection"
  BY DEF Edge

LEMMA NodeNames ==
    /\ Opening \cup Choosing \cup Repairing \cup Improving \cup Judging \cup Scored
          \cup {"validate_candidates", "mark_infeasible", "prepare_critic_context",
                "restore_soft_baseline"} = Nodes
  BY DEF Nodes, Edge, TerminalNodes, Opening, Choosing, Repairing, Improving,
         Judging, Scored

USE DEF Opening, Choosing, Repairing, Improving, Judging, Scored,
        planVars, hardVars, criticVars, softVars

(* What the instrumentation of a node leaves of the meters.                *)
LEMMA Meters ==
    ASSUME IInv, NEW n, Enter(n)
    PROVE  /\ node = n /\ outcome = "running"
           /\ steps' \in 0..RecursionLimit /\ left' \in Nat /\ rounds' \in Nat
  BY Constants, PlanningAssumption
  DEF Enter, StepFits, RoundFits, IInv, TypeOK

LEMMA RefusedKeeps == IInv /\ Refused => IInv'
<1> SUFFICES ASSUME IInv, Refused PROVE IInv'
  OBVIOUS
<1> USE DEF IInv
<1>1. /\ outcome' \in {"recursion", "graph_steps", "repair_rounds"}
      /\ UNCHANGED <<node, steps, left, rounds, planVars, hardVars, criticVars, softVars>>
  BY DEF Refused
<1>2. TypeOK'
  BY <1>1, NodeNames DEF TypeOK, Outcomes
<1>3. PlansFit'
  BY <1>1 DEF PlansFit, RepairPending
<1>4. RoundsFit'
  BY <1>1 DEF RoundsFit, RepairPending, RepairsDiffer, Untried, Tried
<1>5. BaseFits'
  BY <1>1 DEF BaseFits, Aside, BaseHolds
<1>6. CriticFits'
  BY <1>1 DEF CriticFits, ScoresAreGrounded
<1>7. EndFits'
  BY <1>1 DEF EndFits
<1> QED
  BY <1>2, <1>3, <1>4, <1>5, <1>6, <1>7 DEF IInv

LEMMA ExecutionBudgetGuardKeeps == IInv /\ ExecutionBudgetGuard => IInv'
<1> SUFFICES ASSUME IInv, ExecutionBudgetGuard PROVE IInv'
  OBVIOUS
<1> USE DEF IInv
<1>1. /\ node = "execution_budget_guard"
      /\ \/ node' = node /\ outcome' = "graph_steps"
         \/ node' = "build_search_plan" /\ outcome' = "running"
      /\ outcome = "running"
      /\ steps' \in 0..RecursionLimit /\ left' \in Nat /\ rounds' \in Nat
      /\ UNCHANGED <<planVars, hardVars, criticVars, softVars>>
  BY Meters, Edges DEF ExecutionBudgetGuard, Go, Ends
<1>2. TypeOK'
  BY <1>1, NodeNames DEF TypeOK, Outcomes
<1>3. PlansFit'
  BY <1>1 DEF PlansFit, RepairPending
<1>4. RoundsFit'
  BY <1>1 DEF RoundsFit, RepairPending, RepairsDiffer, Untried, Tried
<1>5. BaseFits'
  BY <1>1 DEF BaseFits, Aside, BaseHolds
<1>6. CriticFits'
  BY <1>1 DEF CriticFits, ScoresAreGrounded
<1>7. EndFits'
  BY <1>1 DEF EndFits
<1> QED
  BY <1>2, <1>3, <1>4, <1>5, <1>6, <1>7 DEF IInv

LEMMA ComputeKeeps == IInv /\ Compute => IInv'
<1> SUFFICES ASSUME IInv, Compute PROVE IInv'
  OBVIOUS
<1> USE DEF IInv
<1>1. /\ node \in {"build_search_plan", "build_optimization_problem"}
      /\ node' \in {"load_pois", "solve_candidate_variants"}
      /\ outcome = "running" /\ outcome' = "running"
      /\ steps' \in 0..RecursionLimit /\ left' \in Nat /\ rounds' \in Nat
      /\ UNCHANGED <<planVars, hardVars, criticVars, softVars>>
  BY Meters, Edges DEF Compute, Go
<1>2. TypeOK'
  BY <1>1, NodeNames DEF TypeOK, Outcomes
<1>3. PlansFit'
  BY <1>1 DEF PlansFit, RepairPending
<1>4. RoundsFit'
  BY <1>1 DEF RoundsFit, RepairPending, RepairsDiffer, Untried, Tried
<1>5. BaseFits'
  BY <1>1 DEF BaseFits, Aside, BaseHolds
<1>6. CriticFits'
  BY <1>1 DEF CriticFits, ScoresAreGrounded
<1>7. EndFits'
  BY <1>1 DEF EndFits
<1> QED
  BY <1>2, <1>3, <1>4, <1>5, <1>6, <1>7 DEF IInv

LEMMA LoadFactsKeeps == IInv /\ LoadFacts => IInv'
<1> SUFFICES ASSUME IInv, LoadFacts PROVE IInv'
  OBVIOUS
<1> USE DEF IInv
<1>1. /\ outcome = "running" /\ outcome' \in {"running", "tool"}
      /\ \/ node \in {"load_pois", "build_route_matrix"}
            /\ node' \in {node, "resolve_poi_facts", "build_optimization_problem"}
         \/ node = "load_delta_routes" /\ node' \in {node, "materialize_candidates"}
         \/ node = "load_soft_delta_routes" /\ node' \in {node, "materialize_soft_candidate"}
      /\ steps' \in 0..RecursionLimit /\ left' \in Nat /\ rounds' \in Nat
      /\ UNCHANGED <<planVars, hardVars, criticVars, softVars>>
  BY Meters, Edges DEF LoadFacts, Go, Ends
<1>2. TypeOK'
  BY <1>1, NodeNames DEF TypeOK, Outcomes
<1>3. PlansFit'
  BY <1>1 DEF PlansFit, RepairPending
<1>4. RoundsFit'
  BY <1>1 DEF RoundsFit, RepairPending, RepairsDiffer, Untried, Tried
<1>5. BaseFits'
  BY <1>1 DEF BaseFits, Aside, BaseHolds
<1>6. CriticFits'
  BY <1>1 DEF CriticFits, ScoresAreGrounded
<1>7. EndFits'
  BY <1>1 DEF EndFits
<1> QED
  BY <1>2, <1>3, <1>4, <1>5, <1>6, <1>7 DEF IInv

LEMMA ResolvePoiFactsKeeps == IInv /\ ResolvePoiFacts => IInv'
<1> SUFFICES ASSUME IInv, ResolvePoiFacts PROVE IInv'
  OBVIOUS
<1> USE DEF IInv
<1>1. /\ node = "resolve_poi_facts" /\ node' = "build_route_matrix"
      /\ outcome = "running" /\ outcome' = "running"
      /\ steps' \in 0..RecursionLimit /\ left' \in Nat /\ rounds' \in Nat
      /\ pois' \in BOOLEAN
      /\ UNCHANGED <<drafts, cands, selected, hardVars, criticVars, softVars>>
  BY Meters, Edges DEF ResolvePoiFacts, Go
<1>2. TypeOK'
  BY <1>1, NodeNames DEF TypeOK, Outcomes
<1>3. PlansFit'
  BY <1>1 DEF PlansFit, RepairPending
<1>4. RoundsFit'
  BY <1>1 DEF RoundsFit, RepairPending, RepairsDiffer, Untried, Tried
<1>5. BaseFits'
  BY <1>1 DEF BaseFits, Aside, BaseHolds
<1>6. CriticFits'
  BY <1>1 DEF CriticFits, ScoresAreGrounded
<1>7. EndFits'
  BY <1>1 DEF EndFits
<1> QED
  BY <1>2, <1>3, <1>4, <1>5, <1>6, <1>7 DEF IInv

LEMMA SolveCandidateVariantsKeeps == IInv /\ SolveCandidateVariants => IInv'
<1> SUFFICES ASSUME IInv, SolveCandidateVariants PROVE IInv'
  OBVIOUS
<1> USE DEF IInv
<1>1. /\ node = "solve_candidate_variants" /\ node' = "materialize_optimized_candidates"
      /\ outcome = "running" /\ outcome' = "running"
      /\ steps' \in 0..RecursionLimit /\ left' \in Nat /\ rounds' \in Nat
      /\ drafts' \subseteq Ids
      /\ UNCHANGED <<pois, cands, selected, hardVars, criticVars, softVars>>
  BY Meters, Edges, Constants DEF SolveCandidateVariants, Go, Ids
<1>2. TypeOK'
  BY <1>1, NodeNames DEF TypeOK, Outcomes
<1>3. PlansFit'
  BY <1>1 DEF PlansFit, RepairPending
<1>4. RoundsFit'
  BY <1>1 DEF RoundsFit, RepairPending, RepairsDiffer, Untried, Tried
<1>5. BaseFits'
  BY <1>1 DEF BaseFits, Aside, BaseHolds
<1>6. CriticFits'
  BY <1>1 DEF CriticFits, ScoresAreGrounded
<1>7. EndFits'
  BY <1>1 DEF EndFits
<1> QED
  BY <1>2, <1>3, <1>4, <1>5, <1>6, <1>7 DEF IInv

LEMMA MaterializeKeeps == IInv /\ Materialize => IInv'
<1> SUFFICES ASSUME IInv, Materialize PROVE IInv'
  OBVIOUS
<1> USE DEF IInv
<1>1. /\ node \in {"materialize_optimized_candidates", "materialize_candidates",
                  "materialize_soft_candidate"}
      /\ node' = "validate_candidates"
      /\ outcome = "running" /\ outcome' = "running"
      /\ steps' \in 0..RecursionLimit /\ left' \in Nat /\ rounds' \in Nat
      /\ DOMAIN cands' = drafts /\ \A c \in drafts : cands'[c] = Unchecked
      /\ Deliverable(cands') = {}
      /\ UNCHANGED <<pois, drafts, selected, hardVars, criticVars, softVars>>
  BY Meters, Edges DEF Materialize, Go, Deliverable, Unchecked
<1>2. TypeOK'
  BY <1>1, NodeNames DEF TypeOK, Outcomes, AnyVerdict
<1>3. PlansFit'
  BY <1>1 DEF PlansFit, RepairPending, RoundsFit, BaseFits
<1>4. RoundsFit'
  BY <1>1 DEF RoundsFit, RepairPending, RepairsDiffer, Untried, Tried, BaseFits
<1>5. BaseFits'
  BY <1>1 DEF BaseFits, Aside, BaseHolds
<1>6. CriticFits'
  BY <1>1 DEF CriticFits, ScoresAreGrounded, Nothing
<1>7. EndFits'
  BY <1>1 DEF EndFits
<1> QED
  BY <1>2, <1>3, <1>4, <1>5, <1>6, <1>7 DEF IInv

-----------------------------------------------------------------------------
(* The hard validator.                                                     *)

LEMMA Levels ==
    /\ \A v \in Good \cup Bad : v.level \in {"valid", "warned"} \/ v \in Bad
    /\ \A v \in AnyVerdict : v.level = "invalid" => v \in Bad
    /\ \A v \in Bad : v.level = "invalid" /\ v.print \in Prints /\ v.fixable \in BOOLEAN
    /\ \A v \in AnyVerdict : v.print \in Prints \cup {Clean} /\ v.fixable \in BOOLEAN
<1>1. \A v \in Good : /\ v.level \in {"valid", "warned"}
                     /\ v.print = Clean /\ v.fixable = FALSE
  BY DEF Good
<1>2. \A v \in Bad : v.level = "invalid" /\ v.print \in Prints /\ v.fixable \in BOOLEAN
  BY DEF Bad
<1>3. Unchecked.level = "unchecked" /\ Unchecked.print = Clean /\ Unchecked.fixable = FALSE
  BY DEF Unchecked
<1> QED
  BY <1>1, <1>2, <1>3 DEF AnyVerdict

(* What validate_candidates makes of the verdicts, and where it goes.      *)
LEMMA Validated ==
    ASSUME IInv, ValidateCandidates, Validate
    PROVE  /\ node = "validate_candidates" /\ outcome = "running" /\ outcome' = "running"
           /\ steps' \in 0..RecursionLimit /\ left' \in Nat /\ rounds' \in Nat
           /\ DOMAIN cands = drafts /\ DOMAIN cands' = drafts
           /\ \A c \in drafts : cands'[c] \in Good \cup Bad
           /\ Deliverable(cands') = {} => \A c \in drafts : cands'[c] \in Bad
           /\ UNCHANGED <<pois, drafts, selected, criticVars, softVars>>
           /\ \/ /\ node' = "restore_soft_baseline"
                 /\ softPending # 0 /\ Deliverable(cands') = {}
              \/ node' = "prepare_critic_context" /\ Deliverable(cands') # {}
              \/ /\ node' = "select_repair_target"
                 /\ softPending = 0 /\ Deliverable(cands') = {}
                 /\ ~stuck' /\ iterations' < MaxRounds
              \/ /\ node' = "mark_infeasible"
                 /\ softPending = 0 /\ Deliverable(cands') = {}
                 /\ stuck' \/ ~pois \/ ~(iterations' < MaxRounds)
<1>1. /\ node = "validate_candidates" /\ outcome = "running" /\ outcome' = "running"
      /\ steps' \in 0..RecursionLimit /\ left' \in Nat /\ rounds' \in Nat
      /\ node' = AfterValidation(cands', stuck', iterations')
      /\ cands' \in [DOMAIN cands -> Verdicts]
      /\ UNCHANGED <<pois, drafts, selected, criticVars, softVars>>
  BY Meters DEF ValidateCandidates, Validate, Go
<1>2. DOMAIN cands = drafts
  BY <1>1 DEF IInv, PlansFit
<1>3. DOMAIN cands' = drafts /\ \A c \in drafts : cands'[c] \in Good \cup Bad
  BY <1>1, <1>2 DEF Verdicts
<1>4. Deliverable(cands') = {} => \A c \in drafts : cands'[c] \in Bad
  BY <1>3, Levels DEF Deliverable
<1>5. pois' = pois /\ softPending' = softPending
  BY <1>1
<1> QED
  BY <1>1, <1>2, <1>3, <1>4, <1>5 DEF AfterValidation

(* A round that ends is recorded, and those that follow it differ.         *)
LEMMA AttemptRecorded ==
    ASSUME IInv, ValidateCandidates, Validate, pending # 0
    PROVE  /\ RoundsFit' /\ stuck' \in BOOLEAN
           /\ UNCHANGED <<target, report, plan>>
           /\ iterations' \in 0..MaxRounds /\ pending' = 0
<1>1. PICK c \in DOMAIN cands, cleared \in BOOLEAN : RecordAttempt(cands'[c], cleared)
  BY DEF Validate
<1>2. drafts = {c} /\ DOMAIN cands = {c}
  BY <1>1, Validated DEF IInv, PlansFit, RepairPending
<1> DEFINE e == [before |-> report.print, after |-> cands'[c].print, action |-> plan]
           v == cands'[c]
<1>3. /\ history' = Append(history, e) /\ iterations' = pending /\ pending' = 0
      /\ stuck' = (v.level = "invalid" /\ (Repeated(v.print) \/ ~Improved(v.print, cleared)))
      /\ UNCHANGED <<target, report, plan>>
  BY <1>1 DEF RecordAttempt
<1>4. /\ report \in Bad /\ Untried(report.print) /\ plan \in Actions \ Tried
      /\ pending = iterations + 1 /\ iterations \in Nat /\ pending \in 0..MaxRounds
      /\ history \in Seq(Entry) /\ Len(history) = iterations
  BY Validated, Levels DEF IInv, RoundsFit, RepairPending, TypeOK, RepairsDiffer
<1>5. v \in AnyVerdict
  BY <1>2, Validated DEF AnyVerdict
<1>6. e \in Entry
  BY <1>4, <1>5, Levels DEF Entry
<1> HIDE DEF e
<1>7. /\ history' \in Seq(Entry) /\ Len(history') = Len(history) + 1
      /\ \A i \in 1..Len(history) : history'[i] = history[i]
      /\ history'[Len(history) + 1] = e
  BY <1>3, <1>4, <1>6, AppendProperties
<1>8. e.before = report.print /\ e.action = plan
  BY DEF e
<1>9. \A i \in 1..Len(history') : i \in 1..Len(history) \/ i = Len(history) + 1
  BY <1>4, <1>7
<1>10. RepairsDiffer'
  <2>1. Len(history') = iterations' /\ iterations' <= MaxRounds
    BY <1>3, <1>4, <1>7, Constants
  <2>2. ASSUME NEW i \in 1..Len(history'), NEW j \in 1..Len(history'), i < j
        PROVE  /\ history'[i].action # history'[j].action
               /\ history'[i].before # history'[j].before
    <3>1. i \in 1..Len(history) /\ history'[i] = history[i]
      BY <2>2, <1>4, <1>7
    <3>2. CASE j \in 1..Len(history)
      BY <3>1, <3>2, <2>2, <1>7 DEF IInv, RoundsFit, RepairsDiffer
    <3>3. CASE j = Len(history) + 1
      BY <3>1, <3>3, <1>4, <1>7, <1>8 DEF Untried, Tried
    <3> QED
      BY <1>9, <3>2, <3>3
  <2> QED
    BY <2>1, <2>2 DEF RepairsDiffer
<1>11. ASSUME node' = "select_repair_target"
       PROVE  /\ v.level = "invalid"
              /\ \A i \in 1..Len(history') : history'[i].before # v.print
  <2>1. v \in Bad /\ ~stuck'
    BY <1>2, <1>11, Validated
  <2>2. v.level = "invalid" /\ ~Repeated(v.print)
    BY <2>1, <1>3, Levels
  <2> QED
    BY <2>2, <1>7, <1>8, <1>9 DEF Repeated
<1> QED
  <2>1. iterations' \in 0..MaxRounds /\ stuck' \in BOOLEAN
    BY <1>3, <1>4
  <2>2. node' = "mark_infeasible" => stuck' \/ ~pois' \/ iterations' = MaxRounds
    BY <2>1, Validated, Constants
  <2>3. node' \in Choosing =>
           \A d \in DOMAIN cands' : cands'[d].level = "invalid" /\ Untried(cands[d].print)'
    BY <1>2, <1>11, Validated DEF Untried
  <2>4. ~RepairPending' /\ node' \notin {"build_repair_plan", "apply_local_repair"}
    BY Validated DEF RepairPending
  <2>5. node' \in Choosing \cup Repairing => iterations' < MaxRounds
    BY Validated
  <2>6. node' \notin Opening \cup {"validate_candidates"} /\ outcome' = "running"
    BY Validated
  <2> QED
    BY <2>1, <2>2, <2>3, <2>4, <2>5, <2>6, <1>3, <1>7, <1>10 DEF RoundsFit

LEMMA ValidateKeeps == IInv /\ ValidateCandidates /\ Validate => IInv'
<1> SUFFICES ASSUME IInv, ValidateCandidates, Validate PROVE IInv'
  OBVIOUS
<1> USE DEF IInv
<1>1. RoundsFit' /\ stuck' \in BOOLEAN /\ UNCHANGED <<target, report, plan>>
      /\ iterations' \in 0..MaxRounds /\ pending' = 0
  <2>1. CASE pending # 0
    BY <2>1, AttemptRecorded
  <2>2. CASE pending = 0
    <3>1. UNCHANGED hardVars
      BY <2>2 DEF Validate
    <3>2. node' = "select_repair_target" =>
             \A c \in DOMAIN cands' : cands'[c].level = "invalid" /\ Untried(cands[c].print)'
      <4>1. ASSUME node' = "select_repair_target"
            PROVE  history = <<>> /\ \A c \in DOMAIN cands' : cands'[c].level = "invalid"
        BY <4>1, <2>2, Validated, Levels, EmptySeq DEF RoundsFit, RepairsDiffer
      <4> QED
        BY <4>1, <3>1 DEF Untried
    <3>3. node' = "mark_infeasible" => stuck' \/ ~pois' \/ iterations' = MaxRounds
      BY <3>1, Validated, Constants DEF RoundsFit, RepairsDiffer, TypeOK
    <3>4. RepairsDiffer'
      BY <3>1 DEF RoundsFit, RepairsDiffer
    <3>5. ~RepairPending' /\ node' \notin {"build_repair_plan", "apply_local_repair"}
      BY Validated DEF RepairPending
    <3> QED
      BY <2>2, <3>1, <3>2, <3>3, <3>4, <3>5, Validated DEF RoundsFit, TypeOK
  <2> QED
    BY <2>1, <2>2
<1>2. TypeOK'
  <2>1. \A i \in 1..Len(history') : history'[i] \in Entry
    BY <1>1, ElementOfSeq DEF RoundsFit
  <2>2. DOMAIN cands' \subseteq Ids /\ \A c \in DOMAIN cands' : cands'[c] \in AnyVerdict
    BY Validated DEF AnyVerdict, TypeOK
  <2>3. node' \in Nodes /\ outcome' \in Outcomes
    BY Validated, NodeNames DEF Outcomes
  <2>4. pending' \in 0..MaxRounds
    BY <1>1, Constants
  <2> QED
    BY <1>1, <2>1, <2>2, <2>3, <2>4, Validated DEF TypeOK, Entry
<1>3. PlansFit'
  BY <1>1, Validated DEF PlansFit, RepairPending
<1>4. BaseFits'
  BY <1>1, Validated DEF BaseFits, Aside, BaseHolds
<1>5. CriticFits'
  BY <1>1, Validated DEF CriticFits, ScoresAreGrounded
<1>6. EndFits'
  BY Validated DEF EndFits
<1> QED
  BY <1>1, <1>2, <1>3, <1>4, <1>5, <1>6

(* A changed day leaves the state as it was.                               *)
LEMMA DayChangedKeeps == IInv /\ ValidateCandidates /\ DayChanged => IInv'
<1> SUFFICES ASSUME IInv, ValidateCandidates, DayChanged PROVE IInv'
  OBVIOUS
<1> USE DEF IInv
<1>1. /\ outcome = "running" /\ outcome' = "changed_day" /\ node' = node
      /\ steps' \in 0..RecursionLimit /\ left' \in Nat /\ rounds' \in Nat
      /\ UNCHANGED <<planVars, hardVars, criticVars, softVars>>
  BY Meters DEF ValidateCandidates, DayChanged, Ends
<1>2. TypeOK'
  BY <1>1, NodeNames DEF TypeOK, Outcomes
<1>3. PlansFit'
  BY <1>1 DEF PlansFit, RepairPending
<1>4. RoundsFit'
  BY <1>1 DEF RoundsFit, RepairPending, RepairsDiffer, Untried, Tried
<1>5. BaseFits'
  BY <1>1 DEF BaseFits, Aside, BaseHolds
<1>6. CriticFits'
  BY <1>1 DEF CriticFits, ScoresAreGrounded
<1>7. EndFits'
  BY <1>1 DEF EndFits
<1> QED
  BY <1>2, <1>3, <1>4, <1>5, <1>6, <1>7

LEMMA ValidateCandidatesKeeps == IInv /\ ValidateCandidates => IInv'
  BY ValidateKeeps, DayChangedKeeps DEF ValidateCandidates

-----------------------------------------------------------------------------
(* Local repair.                                                           *)

LEMMA SelectRepairTargetKeeps == IInv /\ SelectRepairTarget => IInv'
<1> SUFFICES ASSUME IInv, SelectRepairTarget PROVE IInv'
  OBVIOUS
<1> USE DEF IInv
<1>1. /\ node = "select_repair_target" /\ node' = "analyze_violations"
      /\ outcome = "running" /\ outcome' = "running"
      /\ steps' \in 0..RecursionLimit /\ left' \in Nat /\ rounds' \in Nat
      /\ target' \in DOMAIN cands /\ report' = Unchecked /\ plan' = NoAction
      /\ UNCHANGED <<iterations, pending, history, stuck, planVars, criticVars, softVars>>
  BY Meters, Edges DEF SelectRepairTarget, Go, RepairTargets
<1>2. TypeOK'
  BY <1>1, NodeNames DEF TypeOK, Outcomes, AnyVerdict
<1>3. PlansFit'
  BY <1>1 DEF PlansFit, RepairPending
<1>4. RoundsFit'
  BY <1>1 DEF RoundsFit, RepairPending, RepairsDiffer, Untried, Tried
<1>5. BaseFits'
  BY <1>1 DEF BaseFits, Aside, BaseHolds
<1>6. CriticFits'
  BY <1>1 DEF CriticFits, ScoresAreGrounded
<1>7. EndFits'
  BY <1>1 DEF EndFits
<1> QED
  BY <1>2, <1>3, <1>4, <1>5, <1>6, <1>7

LEMMA AnalyzeViolationsKeeps == IInv /\ AnalyzeViolations => IInv'
<1> SUFFICES ASSUME IInv, AnalyzeViolations PROVE IInv'
  OBVIOUS
<1> USE DEF IInv
<1>1. /\ node = "analyze_violations"
      /\ \/ node' = "build_repair_plan"
         \/ node' = "mark_infeasible" /\ stuck'
      /\ outcome = "running" /\ outcome' = "running"
      /\ steps' \in 0..RecursionLimit /\ left' \in Nat /\ rounds' \in Nat
      /\ target \in DOMAIN cands /\ report' = cands[target]
      /\ report' \in AnyVerdict /\ stuck' \in BOOLEAN
      /\ UNCHANGED <<iterations, pending, target, plan, history, planVars, criticVars, softVars>>
  BY Meters, Edges, Levels DEF AnalyzeViolations, Go, PlansFit, TypeOK
<1>2. TypeOK'
  BY <1>1, NodeNames DEF TypeOK, Outcomes
<1>3. PlansFit'
  BY <1>1 DEF PlansFit, RepairPending
<1>4. RoundsFit'
  BY <1>1 DEF RoundsFit, RepairPending, RepairsDiffer, Untried, Tried
<1>5. BaseFits'
  BY <1>1 DEF BaseFits, Aside, BaseHolds
<1>6. CriticFits'
  BY <1>1 DEF CriticFits, ScoresAreGrounded
<1>7. EndFits'
  BY <1>1 DEF EndFits
<1> QED
  BY <1>2, <1>3, <1>4, <1>5, <1>6, <1>7

LEMMA BuildRepairPlanKeeps == IInv /\ BuildRepairPlan => IInv'
<1> SUFFICES ASSUME IInv, BuildRepairPlan PROVE IInv'
  OBVIOUS
<1> USE DEF IInv
<1>1. /\ node = "build_repair_plan"
      /\ \/ node' = "apply_local_repair" /\ plan' \in Actions \ Tried
         \/ node' = "mark_infeasible" /\ stuck'
      /\ outcome = "running" /\ outcome' = "running"
      /\ steps' \in 0..RecursionLimit /\ left' \in Nat /\ rounds' \in Nat
      /\ plan' \in Actions \cup {NoAction} /\ stuck' \in BOOLEAN
      /\ UNCHANGED <<iterations, pending, target, report, history, planVars, criticVars, softVars>>
  <2>1. /\ node = "build_repair_plan"
        /\ node' = (IF stuck' THEN "mark_infeasible" ELSE "apply_local_repair")
        /\ stuck' = (plan' = NoAction)
        /\ outcome = "running" /\ outcome' = "running"
        /\ steps' \in 0..RecursionLimit /\ left' \in Nat /\ rounds' \in Nat
        /\ UNCHANGED <<iterations, pending, target, report, history, planVars, criticVars, softVars>>
    BY Meters DEF BuildRepairPlan, Go
  <2>2. PICK found \in RepairPlans : plan' = IF found \in Tried THEN NoAction ELSE found
    BY DEF BuildRepairPlan
  <2>3. CASE plan' = NoAction
    BY <2>1, <2>3
  <2>4. CASE plan' # NoAction
    BY <2>1, <2>2, <2>4 DEF RepairPlans
  <2> QED
    BY <2>3, <2>4
<1>2. TypeOK'
  BY <1>1, NodeNames DEF TypeOK, Outcomes
<1>3. PlansFit'
  BY <1>1 DEF PlansFit, RepairPending
<1>4. RoundsFit'
  BY <1>1 DEF RoundsFit, RepairPending, RepairsDiffer, Untried, Tried
<1>5. BaseFits'
  BY <1>1 DEF BaseFits, Aside, BaseHolds
<1>6. CriticFits'
  BY <1>1 DEF CriticFits, ScoresAreGrounded
<1>7. EndFits'
  BY <1>1 DEF EndFits
<1> QED
  BY <1>2, <1>3, <1>4, <1>5, <1>6, <1>7

LEMMA ApplyLocalRepairKeeps == IInv /\ ApplyLocalRepair => IInv'
<1> SUFFICES ASSUME IInv, ApplyLocalRepair PROVE IInv'
  OBVIOUS
<1> USE DEF IInv
<1>1. /\ node = "apply_local_repair" /\ outcome = "running"
      /\ steps' \in 0..RecursionLimit /\ left' \in Nat /\ rounds' \in Nat
      /\ UNCHANGED <<criticVars, softVars>>
      /\ \/ /\ node' = node /\ outcome' = "unchanged_draft"
            /\ UNCHANGED <<planVars, hardVars>>
         \/ /\ node' = "collect_delta_routes" /\ outcome' = "running"
            /\ pending' = iterations + 1 /\ pending' \in 0..MaxRounds /\ pending' # 0
            /\ \E c \in Ids : drafts' = {c}
            /\ cands' = Nothing /\ selected' = NoId /\ Deliverable(cands') = {}
            /\ UNCHANGED <<pois, iterations, target, report, plan, history, stuck>>
  <2>1. /\ node = "apply_local_repair" /\ outcome = "running"
        /\ steps' \in 0..RecursionLimit /\ left' \in Nat /\ rounds' \in Nat
        /\ UNCHANGED <<criticVars, softVars>>
    BY Meters DEF ApplyLocalRepair
  <2>2. /\ iterations + 1 \in 0..MaxRounds /\ iterations + 1 # 0
        /\ target \in Ids
    BY <2>1, Constants DEF RoundsFit, RepairsDiffer, PlansFit, TypeOK
  <2>3. RepairedId(target, iterations + 1) \in Ids
    BY <2>2 DEF RepairedId, Ids
  <2>4. Deliverable(Nothing) = {}
    BY DEF Deliverable, Nothing
  <2> QED
    BY <2>1, <2>2, <2>3, <2>4, Edges DEF ApplyLocalRepair, Go, Ends
<1>2. TypeOK'
  BY <1>1, NodeNames DEF TypeOK, Outcomes, Nothing
<1>3. PlansFit'
  BY <1>1 DEF PlansFit, RepairPending
<1>4. RoundsFit'
  BY <1>1 DEF RoundsFit, RepairPending, RepairsDiffer, Untried, Tried
<1>5. BaseFits'
  BY <1>1 DEF BaseFits, Aside, BaseHolds
<1>6. CriticFits'
  BY <1>1 DEF CriticFits, ScoresAreGrounded, Nothing
<1>7. EndFits'
  BY <1>1 DEF EndFits
<1> QED
  BY <1>2, <1>3, <1>4, <1>5, <1>6, <1>7

LEMMA CollectDeltaRoutesKeeps == IInv /\ CollectDeltaRoutes => IInv'
<1> SUFFICES ASSUME IInv, CollectDeltaRoutes PROVE IInv'
  OBVIOUS
<1> USE DEF IInv
<1>1. /\ \/ /\ node = "collect_delta_routes"
            /\ node' \in {"load_delta_routes", "materialize_candidates"}
         \/ /\ node = "collect_soft_delta_routes"
            /\ node' \in {"load_soft_delta_routes", "materialize_soft_candidate"}
      /\ outcome = "running" /\ outcome' = "running"
      /\ steps' \in 0..RecursionLimit /\ left' \in Nat /\ rounds' \in Nat
      /\ UNCHANGED <<planVars, hardVars, criticVars, softVars>>
  BY Meters, Edges DEF CollectDeltaRoutes, Go
<1>2. TypeOK'
  BY <1>1, NodeNames DEF TypeOK, Outcomes
<1>3. PlansFit'
  BY <1>1 DEF PlansFit, RepairPending
<1>4. RoundsFit'
  BY <1>1 DEF RoundsFit, RepairPending, RepairsDiffer, Untried, Tried
<1>5. BaseFits'
  BY <1>1 DEF BaseFits, Aside, BaseHolds
<1>6. CriticFits'
  BY <1>1 DEF CriticFits, ScoresAreGrounded
<1>7. EndFits'
  BY <1>1 DEF EndFits
<1> QED
  BY <1>2, <1>3, <1>4, <1>5, <1>6, <1>7

-----------------------------------------------------------------------------
(* The critic.                                                             *)

LEMMA PrepareCriticContextKeeps == IInv /\ PrepareCriticContext => IInv'
<1> SUFFICES ASSUME IInv, PrepareCriticContext PROVE IInv'
  OBVIOUS
<1> USE DEF IInv
<1>1. /\ node = "prepare_critic_context" /\ outcome = "running"
      /\ steps' \in 0..RecursionLimit /\ left' \in Nat /\ rounds' \in Nat
      /\ UNCHANGED <<planVars, hardVars, softVars>>
      /\ \/ node' = node /\ outcome' = "no_evidence" /\ UNCHANGED criticVars
         \/ /\ node' = "soft_constraint_critic" /\ outcome' = "running"
            /\ digests' \subseteq DOMAIN cands
            /\ critic' = "pending" /\ attempts' = 0 /\ ungrounded' = FALSE
            /\ critiques' = Nothing /\ scores' = Nothing
  BY Meters, Edges DEF PrepareCriticContext, Go, Ends, Digested, Deliverable
<1>2. TypeOK'
  <2>1. \A f \in {critiques', scores', base'.critiques, base'.scores} :
           DOMAIN f \subseteq Ids /\ \A c \in DOMAIN f : f[c] \in Scores
    BY <1>1 DEF TypeOK, Nothing
  <2>2. digests' \subseteq Ids /\ attempts' \in 0..MaxAttempts
    BY <1>1, Constants DEF TypeOK
  <2> QED
    BY <1>1, <2>1, <2>2, NodeNames DEF TypeOK, Outcomes
<1>3. PlansFit'
  BY <1>1 DEF PlansFit, RepairPending
<1>4. RoundsFit'
  BY <1>1 DEF RoundsFit, RepairPending, RepairsDiffer, Untried, Tried
<1>5. BaseFits'
  BY <1>1 DEF BaseFits, Aside, BaseHolds
<1>6. CriticFits'
  BY <1>1, Constants DEF CriticFits, ScoresAreGrounded, Nothing
<1>7. EndFits'
  BY <1>1 DEF EndFits
<1> QED
  BY <1>2, <1>3, <1>4, <1>5, <1>6, <1>7

LEMMA SoftConstraintCriticKeeps == IInv /\ SoftConstraintCritic => IInv'
<1> SUFFICES ASSUME IInv, SoftConstraintCritic PROVE IInv'
  OBVIOUS
<1> USE DEF IInv
<1>1. /\ node = "soft_constraint_critic" /\ node' = "validate_critic_evidence"
      /\ outcome = "running" /\ outcome' = "running"
      /\ steps' \in 0..RecursionLimit /\ left' \in Nat /\ rounds' \in Nat
      /\ attempts' \in 0..MaxAttempts /\ ungrounded' \in BOOLEAN
      /\ critic' \in {"disabled", "unavailable", "success"}
      /\ DOMAIN critiques' \subseteq digests
      /\ \A c \in DOMAIN critiques' : critiques'[c] \in Scores
      /\ UNCHANGED <<digests, scores, planVars, hardVars, softVars>>
  <2>1. /\ node = "soft_constraint_critic" /\ outcome = "running"
        /\ steps' \in 0..RecursionLimit /\ left' \in Nat /\ rounds' \in Nat
        /\ node' = "validate_critic_evidence" /\ outcome' = "running"
        /\ UNCHANGED <<digests, scores, planVars, hardVars, softVars>>
    BY Meters, Edges DEF SoftConstraintCritic, Go
  <2>2. attempts' \in 0..MaxAttempts
    BY <2>1, Constants DEF SoftConstraintCritic, CriticFits, TypeOK
  <2>3. ungrounded' \in BOOLEAN /\ critic' \in {"disabled", "unavailable", "success"}
    BY DEF SoftConstraintCritic, TypeOK
  <2>4. /\ DOMAIN critiques' \subseteq digests
        /\ \A c \in DOMAIN critiques' : critiques'[c] \in Scores
    <3>1. \/ critiques' = Nothing
          \/ \E about \in SUBSET digests : critiques' \in [about -> Scores]
      BY DEF SoftConstraintCritic
    <3> QED
      BY <3>1 DEF Nothing
  <2> QED
    BY <2>1, <2>2, <2>3, <2>4
<1>2. TypeOK'
  BY <1>1, NodeNames DEF TypeOK, Outcomes
<1>3. PlansFit'
  BY <1>1 DEF PlansFit, RepairPending
<1>4. RoundsFit'
  BY <1>1 DEF RoundsFit, RepairPending, RepairsDiffer, Untried, Tried
<1>5. BaseFits'
  BY <1>1 DEF BaseFits, Aside, BaseHolds
<1>6. CriticFits'
  BY <1>1 DEF CriticFits, ScoresAreGrounded, Nothing
<1>7. EndFits'
  BY <1>1 DEF EndFits
<1> QED
  BY <1>2, <1>3, <1>4, <1>5, <1>6, <1>7

LEMMA ValidateCriticEvidenceKeeps == IInv /\ ValidateCriticEvidence => IInv'
<1> SUFFICES ASSUME IInv, ValidateCriticEvidence PROVE IInv'
  OBVIOUS
<1> USE DEF IInv
<1>1. /\ node = "validate_critic_evidence"
      /\ \/ node' = "soft_constraint_critic" /\ attempts < MaxAttempts
         \/ /\ node' = "quality_gate"
            /\ critic' = "success" => DOMAIN critiques = digests
      /\ outcome = "running" /\ outcome' = "running"
      /\ steps' \in 0..RecursionLimit /\ left' \in Nat /\ rounds' \in Nat
      /\ ungrounded' \in BOOLEAN /\ critic' \in {critic, "invalid_grounding"}
      /\ UNCHANGED <<digests, attempts, critiques, scores, planVars, hardVars, softVars>>
  BY Meters, Edges DEF ValidateCriticEvidence, Go, AfterGrounding, MayBeGrounded
<1>2. TypeOK'
  BY <1>1, NodeNames DEF TypeOK, Outcomes
<1>3. PlansFit'
  BY <1>1 DEF PlansFit, RepairPending
<1>4. RoundsFit'
  BY <1>1 DEF RoundsFit, RepairPending, RepairsDiffer, Untried, Tried
<1>5. BaseFits'
  BY <1>1 DEF BaseFits, Aside, BaseHolds
<1>6. CriticFits'
  BY <1>1 DEF CriticFits, ScoresAreGrounded, Nothing
<1>7. EndFits'
  BY <1>1 DEF EndFits
<1> QED
  BY <1>2, <1>3, <1>4, <1>5, <1>6, <1>7

LEMMA QualityGateKeeps == IInv /\ QualityGate => IInv'
<1> SUFFICES ASSUME IInv, QualityGate PROVE IInv'
  OBVIOUS
<1> USE DEF IInv
<1>1. /\ node = "quality_gate"
      /\ \/ node' = "compare_soft_repair" /\ softPending # 0
         \/ node' = "compile_soft_repair_plan" /\ softPending = 0 /\ DOMAIN scores' # {}
         \/ node' = "select_by_quality" /\ softPending = 0
      /\ outcome = "running" /\ outcome' = "running"
      /\ steps' \in 0..RecursionLimit /\ left' \in Nat /\ rounds' \in Nat
      /\ \/ critic = "success" /\ scores' = critiques
         \/ scores' = Nothing
      /\ UNCHANGED <<digests, critic, attempts, ungrounded, critiques, planVars, hardVars, softVars>>
  BY Meters, Edges DEF QualityGate, Go, GatedScores
<1>2. TypeOK'
  BY <1>1, NodeNames DEF TypeOK, Outcomes, Nothing
<1>3. PlansFit'
  BY <1>1 DEF PlansFit, RepairPending
<1>4. RoundsFit'
  BY <1>1 DEF RoundsFit, RepairPending, RepairsDiffer, Untried, Tried
<1>5. BaseFits'
  BY <1>1 DEF BaseFits, Aside, BaseHolds
<1>6. CriticFits'
  BY <1>1 DEF CriticFits, ScoresAreGrounded, Nothing
<1>7. EndFits'
  BY <1>1 DEF EndFits
<1> QED
  BY <1>2, <1>3, <1>4, <1>5, <1>6, <1>7

-----------------------------------------------------------------------------
(* Soft repair.                                                            *)

LEMMA CompileSoftRepairPlanKeeps == IInv /\ CompileSoftRepairPlan => IInv'
<1> SUFFICES ASSUME IInv, CompileSoftRepairPlan PROVE IInv'
  OBVIOUS
<1> USE DEF IInv
<1>1. /\ node = "compile_soft_repair_plan"
      /\ \/ /\ node' = "apply_soft_repair" /\ base' = Snapshot
            /\ softPlan' \in Deliverable(cands) \cap DOMAIN scores
            /\ softRounds < MaxSoftRounds
         \/ node' = "select_by_quality" /\ base' = NoBase /\ softPlan' = NoId
      /\ outcome = "running" /\ outcome' = "running"
      /\ steps' \in 0..RecursionLimit /\ left' \in Nat /\ rounds' \in Nat
      /\ UNCHANGED <<softPending, softRounds, planVars, hardVars, criticVars>>
  BY Meters, Edges DEF CompileSoftRepairPlan, Go, BestByQuality, MayRepair
<1>2. TypeOK'
  BY <1>1, NodeNames DEF TypeOK, Outcomes, Snapshot, NoBase, Nothing, PlansFit
<1>3. PlansFit'
  BY <1>1 DEF PlansFit, RepairPending
<1>4. RoundsFit'
  BY <1>1 DEF RoundsFit, RepairPending, RepairsDiffer, Untried, Tried
<1>5. BaseFits'
  BY <1>1 DEF BaseFits, Aside, BaseHolds, Snapshot, PlansFit, CriticFits, ScoresAreGrounded
<1>6. CriticFits'
  BY <1>1 DEF CriticFits, ScoresAreGrounded
<1>7. EndFits'
  BY <1>1 DEF EndFits
<1> QED
  BY <1>2, <1>3, <1>4, <1>5, <1>6, <1>7

LEMMA ApplySoftRepairKeeps == IInv /\ ApplySoftRepair => IInv'
<1> SUFFICES ASSUME IInv, ApplySoftRepair PROVE IInv'
  OBVIOUS
<1> USE DEF IInv
<1>1. /\ node = "apply_soft_repair" /\ node' = "collect_soft_delta_routes"
      /\ outcome = "running" /\ outcome' = "running"
      /\ steps' \in 0..RecursionLimit /\ left' \in Nat /\ rounds' \in Nat
      /\ softPending' = softRounds + 1 /\ softPending' \in 0..MaxSoftRounds
      /\ softPending' # 0 /\ softPlan \in Ids
      /\ drafts' = {[softPlan EXCEPT !.soft = softPending']}
      /\ \E c \in Ids : drafts' = {c}
      /\ cands' = Nothing /\ selected' = NoId /\ Deliverable(cands') = {}
      /\ critic' = "pending" /\ critiques' = Nothing /\ scores' = Nothing
      /\ UNCHANGED <<pois, digests, attempts, ungrounded, base, softPlan, softRounds, hardVars>>
  <2>1. /\ node = "apply_soft_repair" /\ node' = "collect_soft_delta_routes"
        /\ outcome = "running" /\ outcome' = "running"
        /\ steps' \in 0..RecursionLimit /\ left' \in Nat /\ rounds' \in Nat
        /\ softPending' = softRounds + 1
        /\ drafts' = {[softPlan EXCEPT !.soft = softPending']}
        /\ cands' = Nothing /\ selected' = NoId
        /\ critic' = "pending" /\ critiques' = Nothing /\ scores' = Nothing
        /\ UNCHANGED <<pois, digests, attempts, ungrounded, base, softPlan, softRounds, hardVars>>
    BY Meters, Edges DEF ApplySoftRepair, Go
  <2>2. softPlan \in Ids /\ softRounds + 1 \in 0..MaxSoftRounds /\ softRounds + 1 # 0
    BY <2>1, Constants DEF BaseFits, BaseHolds, Aside, TypeOK, Deliverable
  <2>3. [softPlan EXCEPT !.soft = softPending'] \in Ids
    BY <2>1, <2>2 DEF Ids
  <2>4. Deliverable(Nothing) = {}
    BY DEF Deliverable, Nothing
  <2> QED
    BY <2>1, <2>2, <2>3, <2>4
<1>2. TypeOK'
  BY <1>1, NodeNames DEF TypeOK, Outcomes, Nothing
<1>3. PlansFit'
  BY <1>1 DEF PlansFit, RepairPending
<1>4. RoundsFit'
  BY <1>1 DEF RoundsFit, RepairPending, RepairsDiffer, Untried, Tried
<1>5. BaseFits'
  BY <1>1 DEF BaseFits, Aside, BaseHolds
<1>6. CriticFits'
  BY <1>1 DEF CriticFits, ScoresAreGrounded, Nothing
<1>7. EndFits'
  BY <1>1 DEF EndFits
<1> QED
  BY <1>2, <1>3, <1>4, <1>5, <1>6, <1>7

(* The plans that were put aside come back.                                *)
LEMMA BaselineRestored ==
    ASSUME IInv, RestoreBaseline, UNCHANGED hardVars,
           node \in {"restore_soft_baseline", "compare_soft_repair"},
           outcome = "running",
           steps' \in 0..RecursionLimit, left' \in Nat, rounds' \in Nat
    PROVE  IInv'
<1> USE DEF IInv
<1>1. /\ node' = "select_by_quality" /\ outcome' = "running"
      /\ cands' = base.cands /\ drafts' = base.drafts
      /\ critiques' = base.critiques /\ digests' = base.digests /\ scores' = base.scores
      /\ critic' = "success" /\ ungrounded' = FALSE
      /\ softPending' = 0 /\ softRounds' = softPending /\ base' = NoBase
      /\ UNCHANGED <<pois, selected, attempts, softPlan, hardVars>>
      /\ BaseHolds /\ softPlan \in Deliverable(base.cands) /\ pending = 0
  BY Edges DEF RestoreBaseline, Go, BaseFits, BaseHolds, Aside, RoundsFit, RepairPending
<1>2. TypeOK'
  <2>1. \A f \in {critiques', scores', base'.critiques, base'.scores} :
           DOMAIN f \subseteq Ids /\ \A c \in DOMAIN f : f[c] \in Scores
    BY <1>1 DEF TypeOK, NoBase, Nothing
  <2>2. /\ DOMAIN cands' \subseteq Ids /\ \A c \in DOMAIN cands' : cands'[c] \in AnyVerdict
        /\ drafts' \subseteq Ids /\ digests' \subseteq Ids
    BY <1>1 DEF TypeOK
  <2>3. /\ DOMAIN base'.cands \subseteq Ids /\ base'.drafts \cup base'.digests \subseteq Ids
        /\ \A c \in DOMAIN base'.cands : base'.cands[c] \in AnyVerdict
    BY <1>1 DEF NoBase, Nothing
  <2>4. softPending' \in 0..MaxSoftRounds /\ softRounds' \in 0..MaxSoftRounds
    BY <1>1, Constants DEF TypeOK
  <2> QED
    BY <1>1, <2>1, <2>2, <2>3, <2>4, NodeNames DEF TypeOK, Outcomes
<1>3. PlansFit'
  BY <1>1 DEF PlansFit, RepairPending, BaseHolds
<1>4. RoundsFit'
  BY <1>1 DEF RoundsFit, RepairPending, RepairsDiffer, Untried, Tried
<1>5. BaseFits'
  BY <1>1 DEF BaseFits, Aside, BaseHolds
<1>6. CriticFits'
  BY <1>1 DEF CriticFits, ScoresAreGrounded, BaseHolds
<1>7. EndFits'
  BY <1>1 DEF EndFits
<1> QED
  BY <1>2, <1>3, <1>4, <1>5, <1>6, <1>7

LEMMA RestoreSoftBaselineKeeps == IInv /\ RestoreSoftBaseline => IInv'
  BY Meters, BaselineRestored DEF RestoreSoftBaseline

LEMMA CompareSoftRepairKeeps == IInv /\ CompareSoftRepair => IInv'
<1> SUFFICES ASSUME IInv, CompareSoftRepair, Accepted PROVE IInv'
  BY Meters, BaselineRestored DEF CompareSoftRepair
<1> USE DEF IInv
<1>1. /\ node = "compare_soft_repair" /\ node' = "select_by_quality"
      /\ outcome = "running" /\ outcome' = "running"
      /\ steps' \in 0..RecursionLimit /\ left' \in Nat /\ rounds' \in Nat
      /\ cands' = Merge(base.cands, softPlan, cands)
      /\ drafts' = (base.drafts \ {softPlan}) \cup drafts
      /\ critiques' = Merge(base.critiques, softPlan, critiques)
      /\ digests' = (base.digests \ {softPlan}) \cup digests
      /\ scores' = Merge(base.scores, softPlan, scores)
      /\ softPending' = 0 /\ softRounds' = softPending /\ base' = NoBase
      /\ UNCHANGED <<pois, selected, critic, attempts, ungrounded, softPlan, hardVars>>
  BY Meters, Edges DEF CompareSoftRepair, Go
<1>a. /\ BaseHolds /\ softPending # 0 /\ pending = 0 /\ DOMAIN cands = drafts
      /\ critic = "success" /\ scores = critiques
      /\ DOMAIN scores \subseteq DOMAIN cands /\ DOMAIN scores = digests
  BY <1>1 DEF Accepted, BaseFits, Aside, RoundsFit, RepairPending, PlansFit,
              CriticFits, ScoresAreGrounded
<1>b. /\ DOMAIN cands' = (DOMAIN base.cands \ {softPlan}) \cup DOMAIN cands
      /\ \A c \in DOMAIN cands : cands'[c] = cands[c]
      /\ \A c \in DOMAIN cands' : c \notin DOMAIN cands =>
            c \in DOMAIN base.cands /\ cands'[c] = base.cands[c]
  BY <1>1 DEF Merge
<1>c. /\ DOMAIN scores' = (DOMAIN base.scores \ {softPlan}) \cup DOMAIN scores
      /\ \A c \in DOMAIN scores : scores'[c] = scores[c]
      /\ \A c \in DOMAIN scores' : c \notin DOMAIN scores =>
            c \in DOMAIN base.scores /\ scores'[c] = base.scores[c]
  BY <1>1 DEF Merge
<1>d. scores' = critiques'
  BY <1>1, <1>a DEF BaseHolds
<1>e. Deliverable(cands') # {}
  <2>1. PICK c \in DOMAIN cands : cands[c].level \in {"valid", "warned"}
    BY <1>1 DEF PlansFit, Deliverable
  <2>2. c \in DOMAIN cands' /\ cands'[c] = cands[c]
    BY <1>b, <2>1
  <2> QED
    BY <2>1, <2>2 DEF Deliverable
<1>2. TypeOK'
  <2>1. /\ DOMAIN critiques' \subseteq Ids /\ \A c \in DOMAIN critiques' : critiques'[c] \in Scores
        /\ DOMAIN scores' \subseteq Ids /\ \A c \in DOMAIN scores' : scores'[c] \in Scores
    BY <1>c, <1>d DEF TypeOK
  <2>2. /\ DOMAIN cands' \subseteq Ids /\ \A c \in DOMAIN cands' : cands'[c] \in AnyVerdict
        /\ drafts' \subseteq Ids /\ digests' \subseteq Ids
    BY <1>1, <1>b DEF TypeOK
  <2>3. /\ DOMAIN base'.cands \subseteq Ids /\ base'.drafts \cup base'.digests \subseteq Ids
        /\ \A c \in DOMAIN base'.cands : base'.cands[c] \in AnyVerdict
        /\ \A f \in {base'.critiques, base'.scores} :
              DOMAIN f \subseteq Ids /\ \A c \in DOMAIN f : f[c] \in Scores
    BY <1>1 DEF NoBase, Nothing
  <2>4. softPending' \in 0..MaxSoftRounds /\ softRounds' \in 0..MaxSoftRounds
    BY <1>1, Constants DEF TypeOK
  <2> QED
    BY <1>1, <2>1, <2>2, <2>3, <2>4, NodeNames DEF TypeOK, Outcomes
<1>3. PlansFit'
  BY <1>1, <1>a, <1>b, <1>e DEF PlansFit, RepairPending, BaseHolds
<1>4. RoundsFit'
  BY <1>1, <1>a DEF RoundsFit, RepairPending, RepairsDiffer, Untried, Tried
<1>5. BaseFits'
  BY <1>1 DEF BaseFits, Aside, BaseHolds
<1>6. CriticFits'
  BY <1>1, <1>a, <1>b, <1>c, <1>d DEF CriticFits, ScoresAreGrounded, BaseHolds
<1>7. EndFits'
  BY <1>1 DEF EndFits
<1> QED
  BY <1>2, <1>3, <1>4, <1>5, <1>6, <1>7

-----------------------------------------------------------------------------
(* The end of a run, and its start.                                        *)

LEMMA SelectByQualityKeeps == IInv /\ SelectByQuality => IInv'
<1> SUFFICES ASSUME IInv, SelectByQuality PROVE IInv'
  OBVIOUS
<1> USE DEF IInv
<1>1. /\ node = "select_by_quality" /\ node' = "explain_selection"
      /\ outcome = "running" /\ outcome' = "running"
      /\ steps' \in 0..RecursionLimit /\ left' \in Nat /\ rounds' \in Nat
      /\ selected' \in BestByQuality(cands, scores)
      /\ UNCHANGED <<pois, drafts, cands, hardVars, criticVars, softVars>>
  BY Meters, Edges DEF SelectByQuality, Go
<1>2. TypeOK'
  BY <1>1, NodeNames DEF TypeOK, Outcomes, BestByQuality, Deliverable
<1>3. PlansFit'
  BY <1>1 DEF PlansFit, RepairPending
<1>4. RoundsFit'
  BY <1>1 DEF RoundsFit, RepairPending, RepairsDiffer, Untried, Tried
<1>5. BaseFits'
  BY <1>1 DEF BaseFits, Aside, BaseHolds
<1>6. CriticFits'
  BY <1>1 DEF CriticFits, ScoresAreGrounded
<1>7. EndFits'
  BY <1>1 DEF EndFits
<1> QED
  BY <1>2, <1>3, <1>4, <1>5, <1>6, <1>7

LEMMA ExplainSelectionKeeps == IInv /\ ExplainSelection => IInv'
<1> SUFFICES ASSUME IInv, ExplainSelection PROVE IInv'
  OBVIOUS
<1> USE DEF IInv
<1>1. /\ node = "explain_selection" /\ node' = node
      /\ outcome = "running" /\ outcome' \in {"completed", "unexplained"}
      /\ steps' \in 0..RecursionLimit /\ left' \in Nat /\ rounds' \in Nat
      /\ UNCHANGED <<planVars, hardVars, criticVars, softVars>>
  BY Meters DEF ExplainSelection, Ends
<1>2. TypeOK'
  BY <1>1, NodeNames DEF TypeOK, Outcomes
<1>3. PlansFit'
  BY <1>1 DEF PlansFit, RepairPending
<1>4. RoundsFit'
  BY <1>1 DEF RoundsFit, RepairPending, RepairsDiffer, Untried, Tried
<1>5. BaseFits'
  BY <1>1 DEF BaseFits, Aside, BaseHolds
<1>6. CriticFits'
  BY <1>1 DEF CriticFits, ScoresAreGrounded
<1>7. EndFits'
  BY <1>1 DEF EndFits
<1> QED
  BY <1>2, <1>3, <1>4, <1>5, <1>6, <1>7

LEMMA MarkInfeasibleKeeps == IInv /\ MarkInfeasible => IInv'
<1> SUFFICES ASSUME IInv, MarkInfeasible PROVE IInv'
  OBVIOUS
<1> USE DEF IInv
<1>1. /\ node = "mark_infeasible" /\ node' = node
      /\ outcome = "running" /\ outcome' = "infeasible"
      /\ steps' \in 0..RecursionLimit /\ left' \in Nat /\ rounds' \in Nat
      /\ selected' = NoId
      /\ UNCHANGED <<pois, drafts, cands, hardVars, criticVars, softVars>>
  BY Meters DEF MarkInfeasible, Ends
<1>2. TypeOK'
  BY <1>1, NodeNames DEF TypeOK, Outcomes
<1>3. PlansFit'
  BY <1>1 DEF PlansFit, RepairPending
<1>4. RoundsFit'
  BY <1>1 DEF RoundsFit, RepairPending, RepairsDiffer, Untried, Tried
<1>5. BaseFits'
  BY <1>1 DEF BaseFits, Aside, BaseHolds
<1>6. CriticFits'
  BY <1>1 DEF CriticFits, ScoresAreGrounded
<1>7. EndFits'
  BY <1>1 DEF EndFits
<1> QED
  BY <1>2, <1>3, <1>4, <1>5, <1>6, <1>7

LEMMA InitHolds == Init => IInv
<1> SUFFICES ASSUME Init PROVE IInv
  OBVIOUS
<1>1. TypeOK
  <2>1. \A f \in {critiques, scores, base.critiques, base.scores} : DOMAIN f = {}
    BY DEF Init, Nothing, NoBase
  <2>2. DOMAIN cands = {} /\ DOMAIN base.cands = {}
    BY DEF Init, Nothing, NoBase
  <2>3. base.drafts = {} /\ base.digests = {}
    BY DEF Init, NoBase
  <2>4. history = <<>> /\ Len(history) = 0
    BY DEF Init
  <2>5. left \in Nat /\ rounds \in Nat /\ steps \in 0..RecursionLimit
    BY Constants, PlanningAssumption DEF Init
  <2>6. /\ iterations \in 0..MaxRounds /\ pending \in 0..MaxRounds
        /\ attempts \in 0..MaxAttempts
        /\ softPending \in 0..MaxSoftRounds /\ softRounds \in 0..MaxSoftRounds
    BY Constants DEF Init
  <2>7. node \in Nodes /\ outcome \in Outcomes /\ report \in AnyVerdict
    BY NodeNames DEF Init, Outcomes, AnyVerdict
  <2>8. \A i \in 1..Len(history) : FALSE
    BY <2>4
  <2> QED
    BY <2>1, <2>2, <2>3, <2>5, <2>6, <2>7, <2>8 DEF Init, TypeOK
<1>2. PlansFit /\ BaseFits /\ CriticFits /\ EndFits
  BY DEF Init, PlansFit, Deliverable, Nothing, RepairPending, BaseFits, Aside,
         CriticFits, ScoresAreGrounded, EndFits
<1>3. RoundsFit
  BY EmptySeq, Constants DEF Init, RoundsFit, RepairsDiffer, RepairPending
<1> QED
  BY <1>1, <1>2, <1>3 DEF IInv

LEMMA StutterKeeps == IInv /\ UNCHANGED vars => IInv'
<1> SUFFICES ASSUME IInv, UNCHANGED vars PROVE IInv'
  OBVIOUS
<1> USE DEF IInv
<1>1. UNCHANGED <<node, outcome, steps, left, rounds, planVars, hardVars, criticVars, softVars>>
  BY DEF vars, controlVars
<1>2. TypeOK'
  BY <1>1, NodeNames DEF TypeOK, Outcomes
<1>3. PlansFit'
  BY <1>1 DEF PlansFit, RepairPending
<1>4. RoundsFit'
  BY <1>1 DEF RoundsFit, RepairPending, RepairsDiffer, Untried, Tried
<1>5. BaseFits'
  BY <1>1 DEF BaseFits, Aside, BaseHolds
<1>6. CriticFits'
  BY <1>1 DEF CriticFits, ScoresAreGrounded
<1>7. EndFits'
  BY <1>1 DEF EndFits
<1> QED
  BY <1>2, <1>3, <1>4, <1>5, <1>6, <1>7

LEMMA StepKeeps == IInv /\ [Next]_vars => IInv'
<1>1. IInv /\ Over => IInv'
  BY StutterKeeps DEF Over
<1> QED
  BY <1>1, StutterKeeps, RefusedKeeps, ExecutionBudgetGuardKeeps, ComputeKeeps,
     LoadFactsKeeps, ResolvePoiFactsKeeps, SolveCandidateVariantsKeeps,
     MaterializeKeeps, ValidateCandidatesKeeps, SelectRepairTargetKeeps,
     AnalyzeViolationsKeeps, BuildRepairPlanKeeps, ApplyLocalRepairKeeps,
     CollectDeltaRoutesKeeps, PrepareCriticContextKeeps,
     SoftConstraintCriticKeeps, ValidateCriticEvidenceKeeps, QualityGateKeeps,
     CompileSoftRepairPlanKeeps, ApplySoftRepairKeeps, RestoreSoftBaselineKeeps,
     CompareSoftRepairKeeps, SelectByQualityKeeps, ExplainSelectionKeeps,
     MarkInfeasibleKeeps
  DEF Next

-----------------------------------------------------------------------------
(* The inductive invariant holds in every state of every run.              *)
THEOREM Invariance == Spec => []IInv
  BY InitHolds, StepKeeps, PTL DEF Spec

(* The nodes of graph/workflow.py find every plan they look up by its id,  *)
(* and every key of TravelState they take for granted.  It does not say    *)
(* that no node raises: a changed day and a critic without evidence do.    *)
THEOREM LookupsSucceed == Spec => []ContextAgrees
<1>1. IInv => ContextAgrees
  <2> SUFFICES ASSUME IInv PROVE ContextAgrees
    OBVIOUS
  <2>1. \A c \in Ids : drafts = {c} => Cardinality(drafts) = 1
    BY FS_Singleton
  <2>2. PlansFit /\ RoundsFit /\ BaseFits /\ CriticFits /\ TypeOK
    BY DEF IInv
  <2>3. /\ node \in {"collect_delta_routes", "collect_soft_delta_routes"}
              => Cardinality(drafts) = 1
        /\ node = "validate_candidates" /\ pending # 0 => Cardinality(drafts) = 1
        /\ node = "validate_candidates" /\ softPending # 0 => Cardinality(drafts) = 1
    BY <2>1, <2>2 DEF PlansFit, RepairPending
  <2>4. node = "validate_candidates" /\ pending # 0
           => report.level = "invalid" /\ plan # NoAction
    BY <2>2, Constants DEF RoundsFit, RepairPending
  <2>5. /\ node \in {"analyze_violations", "build_repair_plan", "apply_local_repair"}
              => target \in DOMAIN cands \cap drafts
        /\ node = "apply_local_repair" => plan # NoAction
        /\ node = "validate_candidates" => DOMAIN cands = drafts
        /\ node \in {"prepare_critic_context", "select_by_quality"}
              => Deliverable(cands) # {}
    BY <2>2, Constants DEF PlansFit, RoundsFit, RepairPending
  <2>6. /\ node = "compile_soft_repair_plan" =>
              DOMAIN scores = DOMAIN critiques /\ DOMAIN scores \subseteq DOMAIN cands \cap drafts
        /\ node = "explain_selection" => selected \in DOMAIN cands \cap drafts
    BY <2>2 DEF PlansFit, CriticFits, ScoresAreGrounded, BestByQuality, Deliverable
  <2>7. /\ node = "apply_soft_repair" => softPlan \in DOMAIN base.cands \cap base.drafts
        /\ node \in {"restore_soft_baseline", "compare_soft_repair"} =>
              softPlan \in DOMAIN base.scores /\ softPending # 0
    BY <2>2 DEF BaseFits, BaseHolds, Aside, Deliverable
  <2> QED
    BY <2>2, <2>3, <2>4, <2>5, <2>6, <2>7 DEF ContextAgrees
<1> QED
  BY <1>1, Invariance, PTL

(* A run is called infeasible only when no legal plan is known, and what   *)
(* it delivers is a legal plan that no other one is ahead of               *)
(* (mark_infeasible, select_by_quality).                                   *)
THEOREM OutcomesAreTrue == Spec => []OutcomeIsTrue
<1>1. IInv => InfeasibleIsHonest
  BY DEF IInv, RoundsFit, PlansFit, BaseFits, Aside, InfeasibleIsHonest,
         HasLegal, Legal, Deliverable, NoBase, Nothing
<1>2. IInv => DeliveredIsBest
  BY DEF IInv, EndFits, PlansFit, DeliveredIsBest, BestByQuality, Deliverable
<1>3. IInv => OutcomeIsTrue
  BY <1>1, <1>2 DEF OutcomeIsTrue
<1> QED
  BY <1>3, Invariance, PTL

(* No two rounds of local repair take the same action, or start from the   *)
(* same violations (repair_history).                                       *)
THEOREM NoRepairTwice == Spec => []RepairsDiffer
<1>1. IInv => RepairsDiffer
  BY DEF IInv, RoundsFit
<1> QED
  BY <1>1, Invariance, PTL

(* A score that is shown comes from a grounded critique of a plan of the   *)
(* list (quality_gate), also after a baseline is restored or merged.       *)
THEOREM EveryScoreIsGrounded == Spec => []ScoresAreGrounded
<1>1. IInv => ScoresAreGrounded
  BY DEF IInv, CriticFits
<1> QED
  BY <1>1, Invariance, PTL

(* No step of the graph forgets the legal plans it knows: a soft repair    *)
(* that fails or gains too little gives the baseline back (AfterValidation,*)
(* restore_soft_baseline, compare_soft_repair).                            *)
THEOREM LegalPlansAreKept == Spec => LegalIsKept
<1>1. IInv /\ IInv' /\ [Next]_vars => [HasLegal => HasLegal']_vars
  <2> SUFFICES ASSUME IInv, IInv', Next, HasLegal PROVE HasLegal'
    OBVIOUS
  <2> USE DEF IInv
  <2>1. Deliverable(cands) # {} \/ Aside
    BY DEF HasLegal, Legal, Deliverable, BaseFits, NoBase, Nothing
  <2>2. Deliverable(cands') # {} => HasLegal'
    BY DEF HasLegal, Legal, Deliverable
  <2>3. UNCHANGED <<cands, base>> => HasLegal'
    BY DEF HasLegal, Legal
  <2>4. Aside /\ UNCHANGED base => HasLegal'
    BY DEF BaseFits, BaseHolds, HasLegal, Legal, Deliverable
  <2>5. CASE \/ Refused \/ ExecutionBudgetGuard \/ Compute \/ LoadFacts
             \/ ResolvePoiFacts \/ SolveCandidateVariants \/ SelectRepairTarget
             \/ AnalyzeViolations \/ BuildRepairPlan \/ CollectDeltaRoutes
             \/ PrepareCriticContext \/ SoftConstraintCritic
             \/ ValidateCriticEvidence \/ QualityGate
             \/ SelectByQuality \/ ExplainSelection \/ MarkInfeasible \/ Over
    BY <2>3, <2>5
    DEF Refused, ExecutionBudgetGuard, Compute, LoadFacts, ResolvePoiFacts,
        SolveCandidateVariants, SelectRepairTarget, AnalyzeViolations,
        BuildRepairPlan, CollectDeltaRoutes, PrepareCriticContext,
        SoftConstraintCritic, ValidateCriticEvidence, QualityGate,
        SelectByQuality, ExplainSelection, MarkInfeasible, Over, vars
  <2>6. CASE Materialize
    BY <2>1, <2>4, <2>6 DEF Materialize, Enter, PlansFit
  <2>7. CASE ValidateCandidates
    BY <2>1, <2>3, <2>4, <2>7 DEF ValidateCandidates, Validate, DayChanged, Enter, PlansFit
  <2>8. CASE ApplyLocalRepair
    BY <2>1, <2>8 DEF ApplyLocalRepair, Enter, PlansFit, BaseFits, Aside
  <2>9. CASE CompileSoftRepairPlan
    BY <2>2, <2>9 DEF CompileSoftRepairPlan, Enter, PlansFit
  <2>10. CASE ApplySoftRepair
    BY <2>4, <2>10 DEF ApplySoftRepair, Enter, Aside
  <2>11. CASE RestoreSoftBaseline \/ CompareSoftRepair
    <3>1. node' = "select_by_quality"
      BY <2>11, Edges DEF RestoreSoftBaseline, CompareSoftRepair, RestoreBaseline, Enter, Go
    <3> QED
      BY <3>1, <2>2 DEF PlansFit
  <2> QED
    BY <2>5, <2>6, <2>7, <2>8, <2>9, <2>10, <2>11 DEF Next
<1> QED
  BY <1>1, Invariance, PTL DEF LegalIsKept, Spec

-----------------------------------------------------------------------------
(* The reserve of graph steps.                                             *)

(* Every node but the terminal ones leaves the reserve untouched.          *)
LEMMA OthersLeaveTheReserve ==
    ASSUME TypeOK, NEW n, n \notin TerminalNodes, Enter(n)
    PROVE  left' \in Nat /\ left' >= StepReserve
  BY PlanningAssumption DEF TypeOK, Enter, StepFits

LEMMA ReserveStep ==
    ASSUME StepReserve >= 2, IInv, ReserveFits, TerminalNodesFit, Next
    PROVE  ReserveFits' /\ TerminalNodesFit'
<1>1. left \in Nat /\ StepReserve \in Nat /\ TypeOK
  BY PlanningAssumption DEF IInv, TypeOK
<1>2. CASE Refused \/ Over
  BY <1>1, <1>2 DEF Refused, Over, vars, controlVars, ReserveFits, TerminalNodesFit, StepFits
<1>3. CASE ValidateCandidates /\ Validate
  <2>1. /\ left >= StepReserve /\ left' = left - 1 /\ outcome' = "running"
        /\ node' \notin {"validate_candidates", "explain_selection"}
    BY <1>3, Validated DEF ValidateCandidates, Enter, ReserveFits
  <2> QED
    BY <2>1, <1>1 DEF ReserveFits, TerminalNodesFit
<1>4. CASE \/ ValidateCandidates /\ DayChanged
           \/ ExplainSelection \/ MarkInfeasible
  BY <1>4 DEF DayChanged, ExplainSelection, MarkInfeasible, Ends, ReserveFits,
              TerminalNodesFit
<1>5. ASSUME left' \in Nat, left' >= StepReserve,
             outcome' = "graph_steps" => node' \notin TerminalNodes
      PROVE  ReserveFits' /\ TerminalNodesFit'
  BY <1>1, <1>5 DEF ReserveFits, TerminalNodesFit
<1>6. ASSUME NEW n, n \notin TerminalNodes, Enter(n), outcome' # "graph_steps"
      PROVE  ReserveFits' /\ TerminalNodesFit'
  BY <1>1, <1>5, <1>6, OthersLeaveTheReserve
<1>7. CASE ExecutionBudgetGuard
  BY <1>1, <1>5, <1>7, OthersLeaveTheReserve, Edges
  DEF ExecutionBudgetGuard, Go, Ends, TerminalNodes, Enter
<1>8. CASE Compute \/ LoadFacts \/ ResolvePoiFacts \/ SolveCandidateVariants \/ Materialize
  BY <1>6, <1>8 DEF Compute, LoadFacts, ResolvePoiFacts, SolveCandidateVariants,
                    Materialize, Go, Ends, TerminalNodes
<1>9. CASE \/ SelectRepairTarget \/ AnalyzeViolations \/ BuildRepairPlan
           \/ ApplyLocalRepair \/ CollectDeltaRoutes
  BY <1>6, <1>9 DEF SelectRepairTarget, AnalyzeViolations, BuildRepairPlan,
                    ApplyLocalRepair, CollectDeltaRoutes, Go, Ends, TerminalNodes
<1>10. CASE \/ PrepareCriticContext \/ SoftConstraintCritic
            \/ ValidateCriticEvidence \/ QualityGate \/ CompileSoftRepairPlan
  BY <1>6, <1>10 DEF PrepareCriticContext, SoftConstraintCritic,
                     ValidateCriticEvidence, QualityGate, CompileSoftRepairPlan,
                     Go, Ends, TerminalNodes
<1>11. CASE ApplySoftRepair \/ RestoreSoftBaseline \/ CompareSoftRepair \/ SelectByQuality
  BY <1>6, <1>11 DEF ApplySoftRepair, RestoreSoftBaseline, CompareSoftRepair,
                     RestoreBaseline, SelectByQuality, Go, TerminalNodes
<1> QED
  BY <1>2, <1>3, <1>4, <1>7, <1>8, <1>9, <1>10, <1>11 DEF Next, ValidateCandidates

(* With a reserve of two steps, the validator and the node that ends the   *)
(* run get theirs (consume_graph_step), whatever the run has spent.        *)
THEOREM TerminalNodesRun ==
    ASSUME StepReserve >= 2
    PROVE  Spec => []TerminalNodesFit
<1>1. Init => ReserveFits /\ TerminalNodesFit
  BY DEF Init, ReserveFits, TerminalNodesFit, TerminalNodes
<1>2. IInv /\ ReserveFits /\ TerminalNodesFit /\ [Next]_vars
         => ReserveFits' /\ TerminalNodesFit'
  <2>1. UNCHANGED vars /\ ReserveFits /\ TerminalNodesFit => ReserveFits' /\ TerminalNodesFit'
    BY DEF vars, controlVars, ReserveFits, TerminalNodesFit
  <2> QED
    BY <2>1, ReserveStep
<1> QED
  BY <1>1, <1>2, Invariance, PTL DEF Spec
=============================================================================

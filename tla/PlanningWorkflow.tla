-------------------------- MODULE PlanningWorkflow --------------------------
(***************************************************************************)
(* The planning graph: one run of run_planning in the single_graph mode,   *)
(* with the hard validator and the soft critic.                            *)
(*                                                                         *)
(* Nodes run one at a time.  A node reads the shared TravelState, returns  *)
(* the keys it changes, and an edge names the next node.  Plans are found  *)
(* again by their id in lists that other nodes replace, a repair is        *)
(* finished by the validation it has asked for, and a soft repair puts the *)
(* legal plans aside while it tries another one.                           *)
(*                                                                         *)
(* Left out: the evaluation overrides, the specialists of the agent modes, *)
(* and the comparison of preserved days after a soft repair, whose actions *)
(* take stops only from days that they declare affected: the others are    *)
(* rebuilt from the same stops and the same routes.                        *)
(***************************************************************************)
EXTENDS Naturals, Sequences, FiniteSets

CONSTANTS Styles,         \* plan styles the solver may return
          Prints,         \* fingerprints of the violations of illegal plans
          Errors,         \* number of errors behind each fingerprint
          EmptyPlans,     \* those among them of a plan without a stop
          Clean,          \* the fingerprint of a plan without errors
          Actions,        \* fingerprints of the actions of a repair plan
          NoAction,       \* no repair plan
          NoId,           \* no plan
          Scores,         \* quality scores the critic may give
          Threshold,      \* quality_threshold
          MinGain,        \* min_improvement
          MaxRounds,      \* max_replan_rounds of the request
          MaxSoftRounds,  \* max_soft_replan_rounds
          MaxAttempts,    \* grounding_max_attempts
          CriticEnabled,  \* a critic gateway is configured
          StepBudgets,    \* graph steps the run may have left at the start
          StepReserve,    \* terminal_step_reserve
          RepairBudgets   \* repair rounds the run may have left

ASSUME PlanningAssumption ==
    /\ IsFiniteSet(Styles) /\ Styles # {}
    /\ Clean \notin Prints /\ EmptyPlans \subseteq Prints /\ NoAction \notin Actions
    /\ Errors \in [Prints -> Nat \ {0}]
    /\ Scores \subseteq Nat /\ Threshold \in Nat /\ MinGain \in Nat
    /\ MaxRounds \in Nat /\ MaxSoftRounds \in {0, 1} /\ MaxAttempts \in {1, 2}
    /\ CriticEnabled \in BOOLEAN
    /\ StepBudgets \subseteq Nat /\ RepairBudgets \subseteq Nat
    /\ StepReserve \in Nat \ {0}

VARIABLES node,       \* the node that runs next, or that ended the run
          outcome,    \* how the run ended
          steps,      \* nodes LangGraph has run
          left,       \* graph steps left in the ledger of the run
          rounds      \* repair rounds left in the ledger of the run
VARIABLES pois,       \* planning_pois is not empty
          drafts,     \* candidate_drafts, by id
          cands,      \* candidates: id to verdict
          selected    \* selected_plan
VARIABLES iterations, \* iterations: validated repair rounds
          pending,    \* pending_replan_round, 0 for none
          target,     \* repair_target_candidate_id
          report,     \* critic_report: the verdict it describes
          plan,       \* repair_plan: the fingerprint of its actions
          history,    \* repair_history
          stuck       \* repair_terminal_reason is set
VARIABLES digests,    \* critic_evidence_digests: the plans they describe
          critic,     \* critic_status
          attempts,   \* critic_grounding_attempts
          ungrounded, \* critic_grounding_errors is not empty
          critiques,  \* soft_critiques: id to score
          scores      \* quality_scores
VARIABLES base,       \* the soft_baseline_* keys
          softPlan,   \* soft_repair_plan: its target
          softPending,\* pending_soft_replan_round, 0 for none
          softRounds  \* soft_iterations

controlVars == <<node, outcome, steps, left, rounds>>
planVars == <<pois, drafts, cands, selected>>
hardVars == <<iterations, pending, target, report, plan, history, stuck>>
criticVars == <<digests, critic, attempts, ungrounded, critiques, scores>>
softVars == <<base, softPlan, softPending, softRounds>>
vars == <<controlVars, planVars, hardVars, criticVars, softVars>>

-----------------------------------------------------------------------------
(* Data.                                                                   *)

(* The id of a draft is its style, and grows by the round of each repair.  *)
Ids == [style : Styles, hard : 0..MaxRounds, soft : 0..MaxSoftRounds]

Good == {[level |-> l, print |-> Clean, fixable |-> FALSE] : l \in {"valid", "warned"}}
Bad == [level : {"invalid"}, print : Prints, fixable : BOOLEAN]
Unchecked == [level |-> "unchecked", print |-> Clean, fixable |-> FALSE]

(* What the validator may say: a plan without a stop is an error.          *)
Verdicts == IF pois THEN Good \cup Bad ELSE Bad

Nothing == [c \in {} |-> 0]
NoBase == [cands |-> Nothing, drafts |-> {}, critiques |-> Nothing,
           digests |-> {}, scores |-> Nothing]

Deliverable(cs) == {c \in DOMAIN cs : cs[c].level \in {"valid", "warned"}}

(* Entries of old outside out, and those of new.                           *)
Merge(old, out, new) ==
    [c \in (DOMAIN old \ {out}) \cup DOMAIN new |->
        IF c \in DOMAIN new THEN new[c] ELSE old[c]]

-----------------------------------------------------------------------------
(* Edges and instrumentation.                                              *)

TerminalNodes == {"validate_candidates", "explain_selection", "mark_infeasible"}
RepairNodes == {"apply_local_repair", "apply_soft_repair"}

(* The edges that do not depend on the state.                              *)
Edge ==
    [execution_budget_guard |-> "build_search_plan",
     build_search_plan |-> "load_pois",
     load_pois |-> "resolve_poi_facts",
     resolve_poi_facts |-> "build_route_matrix",
     build_route_matrix |-> "build_optimization_problem",
     build_optimization_problem |-> "solve_candidate_variants",
     solve_candidate_variants |-> "materialize_optimized_candidates",
     materialize_optimized_candidates |-> "validate_candidates",
     materialize_candidates |-> "validate_candidates",
     materialize_soft_candidate |-> "validate_candidates",
     select_repair_target |-> "analyze_violations",
     apply_local_repair |-> "collect_delta_routes",
     load_delta_routes |-> "materialize_candidates",
     prepare_critic_context |-> "soft_constraint_critic",
     soft_constraint_critic |-> "validate_critic_evidence",
     apply_soft_repair |-> "collect_soft_delta_routes",
     load_soft_delta_routes |-> "materialize_soft_candidate",
     restore_soft_baseline |-> "select_by_quality",
     compare_soft_repair |-> "select_by_quality",
     select_by_quality |-> "explain_selection"]

Nodes == DOMAIN Edge \cup TerminalNodes \cup
         {"analyze_violations", "build_repair_plan", "collect_delta_routes",
          "validate_critic_evidence", "quality_gate",
          "compile_soft_repair_plan", "collect_soft_delta_routes"}

(* recursion_limit of run_planning.                                        *)
RecursionLimit == IF 24 + 8 * MaxRounds > 32 THEN 24 + 8 * MaxRounds ELSE 32

(* Mutant: the nodes that end a run keep to the same limit as the others.  *)
StepFits_NoReserve(n) == left > StepReserve

StepFits(n) == IF n \in TerminalNodes THEN left > 0 ELSE left > StepReserve

RoundFits(n) == n \in RepairNodes => rounds > 0

(* A node is run: LangGraph counts a superstep, the ledger a graph step    *)
(* and, for a repair, a repair round.                                      *)
Enter(n) ==
    /\ outcome = "running" /\ node = n
    /\ steps < RecursionLimit /\ StepFits(n) /\ RoundFits(n)
    /\ steps' = steps + 1 /\ left' = left - 1
    /\ rounds' = IF n \in RepairNodes THEN rounds - 1 ELSE rounds

(* It is refused, and the exception ends the run.                          *)
Refused ==
    /\ outcome = "running"
    /\ \/ steps >= RecursionLimit /\ outcome' = "recursion"
       \/ steps < RecursionLimit /\ ~StepFits(node) /\ outcome' = "graph_steps"
       \/ /\ steps < RecursionLimit /\ StepFits(node) /\ ~RoundFits(node)
          /\ outcome' = "repair_rounds"
    /\ UNCHANGED <<node, steps, left, rounds, planVars, hardVars, criticVars, softVars>>

Go(n) == node' = n /\ outcome' = "running"
Ends(how) == node' = node /\ outcome' = how

-----------------------------------------------------------------------------
Init ==
    /\ node = "execution_budget_guard" /\ outcome = "running" /\ steps = 0
    /\ left \in StepBudgets /\ rounds \in RepairBudgets
    /\ pois = FALSE /\ drafts = {} /\ cands = Nothing /\ selected = NoId
    /\ iterations = 0 /\ pending = 0 /\ target = NoId /\ report = Unchecked
    /\ plan = NoAction /\ history = <<>> /\ stuck = FALSE
    /\ digests = {} /\ critic = "not_run" /\ attempts = 0 /\ ungrounded = FALSE
    /\ critiques = Nothing /\ scores = Nothing
    /\ base = NoBase /\ softPlan = NoId /\ softPending = 0 /\ softRounds = 0

-----------------------------------------------------------------------------
(* The first candidates.                                                   *)

(* The guard asks for a step beyond the reserve after it has taken its own.*)
ExecutionBudgetGuard ==
    /\ Enter("execution_budget_guard")
    /\ IF left' > StepReserve THEN Go(Edge[node]) ELSE Ends("graph_steps")
    /\ UNCHANGED <<planVars, hardVars, criticVars, softVars>>

(* Nodes that compute what the following ones read and nothing else here.  *)
Compute ==
    /\ \/ Enter("build_search_plan")
       \/ Enter("build_optimization_problem")
    /\ Go(Edge[node])
    /\ UNCHANGED <<planVars, hardVars, criticVars, softVars>>

(* Nodes that ask the tools for places or routes: a failed result raises.  *)
LoadFacts ==
    /\ \/ Enter("load_pois")
       \/ Enter("build_route_matrix")
       \/ Enter("load_delta_routes")
       \/ Enter("load_soft_delta_routes")
    /\ Go(Edge[node]) \/ Ends("tool")
    /\ UNCHANGED <<planVars, hardVars, criticVars, softVars>>

(* Places whose facts stay unknown are left aside: perhaps all of them.    *)
ResolvePoiFacts ==
    /\ Enter("resolve_poi_facts")
    /\ pois' \in BOOLEAN
    /\ Go(Edge[node])
    /\ UNCHANGED <<drafts, cands, selected, hardVars, criticVars, softVars>>

(* The solver, or the heuristic it falls back to, drafts one plan a style. *)
SolveCandidateVariants ==
    /\ Enter("solve_candidate_variants")
    /\ \E found \in (SUBSET Styles) \ {{}} :
          drafts' = {[style |-> s, hard |-> 0, soft |-> 0] : s \in found}
    /\ Go(Edge[node])
    /\ UNCHANGED <<pois, cands, selected, hardVars, criticVars, softVars>>

Materialize ==
    /\ \/ Enter("materialize_optimized_candidates")
       \/ Enter("materialize_candidates")
       \/ Enter("materialize_soft_candidate")
    /\ cands' = [c \in drafts |-> Unchecked]
    /\ Go(Edge[node])
    /\ UNCHANGED <<pois, drafts, selected, hardVars, criticVars, softVars>>

-----------------------------------------------------------------------------
(* The hard validator.                                                     *)

(* Mutant: only the fingerprint before the repair is compared.             *)
Repeated_LastOnly(print) == print = report.print

Repeated(print) ==
    \/ print = report.print
    \/ \E i \in 1..Len(history) : print \in {history[i].before, history[i].after}

(* Fewer errors, or no more of them and one kind of those repaired gone.   *)
Improved(print, cleared) ==
    \/ Errors[print] < Errors[report.print]
    \/ cleared /\ Errors[print] <= Errors[report.print]

(* The round that waits for this validation is recorded: it resolved the   *)
(* plan, improved it, or ends the repairs.                                 *)
RecordAttempt(v, cleared) ==
    /\ history' = Append(history, [before |-> report.print, after |-> v.print,
                                   action |-> plan])
    /\ iterations' = pending /\ pending' = 0
    /\ stuck' = /\ v.level = "invalid"
                /\ Repeated(v.print) \/ ~Improved(v.print, cleared)
    /\ UNCHANGED <<target, report, plan>>

AfterValidation(cs, failed, done) ==
    IF softPending # 0 /\ Deliverable(cs) = {} THEN "restore_soft_baseline"
    ELSE IF Deliverable(cs) # {} THEN "prepare_critic_context"
    ELSE IF ~failed /\ pois /\ done < MaxRounds THEN "select_repair_target"
    ELSE "mark_infeasible"

Validate ==
    /\ cands' \in [DOMAIN cands -> Verdicts]
    /\ IF pending = 0
       THEN UNCHANGED hardVars
       ELSE \E cleared \in BOOLEAN, c \in DOMAIN cands : RecordAttempt(cands'[c], cleared)
    /\ Go(AfterValidation(cands', stuck', iterations'))

(* ADD_AVAILABLE_POI, the repair of a plan without a stop, takes the place *)
(* from every day and declares only the day it goes to: a day that counted *)
(* as preserved may be built anew, and the comparison raises.              *)
DayChanged ==
    /\ pending # 0 /\ report.print \in EmptyPlans
    /\ Ends("changed_day")
    /\ UNCHANGED <<cands, hardVars>>

ValidateCandidates ==
    /\ Enter("validate_candidates")
    /\ Validate \/ DayChanged
    /\ UNCHANGED <<pois, drafts, selected, criticVars, softVars>>

-----------------------------------------------------------------------------
(* Local repair of an illegal plan.                                        *)

(* Repairable plans first, then those with fewer errors.  Warnings, the    *)
(* deterministic score and the id decide among the rest.                   *)
RepairTargets ==
    {c \in DOMAIN cands : \A d \in DOMAIN cands :
        \/ cands[c].fixable /\ ~cands[d].fixable
        \/ /\ cands[c].fixable = cands[d].fixable
           /\ Errors[cands[c].print] <= Errors[cands[d].print]}

SelectRepairTarget ==
    /\ Enter("select_repair_target")
    /\ target' \in RepairTargets
    /\ report' = Unchecked /\ plan' = NoAction
    /\ Go(Edge[node])
    /\ UNCHANGED <<iterations, pending, history, stuck, planVars, criticVars, softVars>>

AnalyzeViolations ==
    /\ Enter("analyze_violations")
    /\ report' = cands[target] /\ stuck' = ~cands[target].fixable
    /\ Go(IF report'.fixable THEN "build_repair_plan" ELSE "mark_infeasible")
    /\ UNCHANGED <<iterations, pending, target, plan, history, planVars, criticVars, softVars>>

(* Actions of the rounds before.                                           *)
Tried == {history[i].action : i \in 1..Len(history)}

(* One violation without a safe action leaves no plan.                     *)
RepairPlans == IF report.fixable THEN Actions \cup {NoAction} ELSE {NoAction}

(* Actions that a round before has tried leave none either.                *)
BuildRepairPlan ==
    /\ Enter("build_repair_plan")
    /\ \E found \in RepairPlans :
          plan' = IF found \in Tried THEN NoAction ELSE found
    /\ stuck' = (plan' = NoAction)
    /\ Go(IF stuck' THEN "mark_infeasible" ELSE "apply_local_repair")
    /\ UNCHANGED <<iterations, pending, target, report, history, planVars, criticVars, softVars>>

RepairedId(c, round) == [c EXCEPT !.hard = round]

(* Only the repaired draft is kept.  Actions that change nothing raise.    *)
ApplyLocalRepair ==
    /\ Enter("apply_local_repair")
    /\ \/ /\ pending' = iterations + 1
          /\ drafts' = {RepairedId(target, pending')}
          /\ cands' = Nothing /\ selected' = NoId
          /\ Go(Edge[node])
          /\ UNCHANGED <<pois, iterations, target, report, plan, history, stuck>>
       \/ Ends("unchanged_draft") /\ UNCHANGED <<planVars, hardVars>>
    /\ UNCHANGED <<criticVars, softVars>>

(* Routes that the state holds are used again; the others are loaded.      *)
CollectDeltaRoutes ==
    /\ \/ /\ Enter("collect_delta_routes")
          /\ Go("load_delta_routes") \/ Go("materialize_candidates")
       \/ /\ Enter("collect_soft_delta_routes")
          /\ Go("load_soft_delta_routes") \/ Go("materialize_soft_candidate")
    /\ UNCHANGED <<planVars, hardVars, criticVars, softVars>>

-----------------------------------------------------------------------------
(* The soft critic.                                                        *)

(* Legal plans the critic is told about: the character budget may run out  *)
(* after the first ones of the list, or before the first item of evidence. *)
Digested == SUBSET Deliverable(cands)

PrepareCriticContext ==
    /\ Enter("prepare_critic_context")
    /\ \E told \in Digested :
          IF told = {}
          THEN Ends("no_evidence") /\ UNCHANGED criticVars
          ELSE /\ digests' = told
               /\ critic' = "pending" /\ attempts' = 0 /\ ungrounded' = FALSE
               /\ critiques' = Nothing /\ scores' = Nothing
               /\ Go(Edge[node])
    /\ UNCHANGED <<planVars, hardVars, softVars>>

(* The critic is not configured, is unavailable (or out of budget), or     *)
(* answers about all the plans it was given or about some of them.         *)
SoftConstraintCritic ==
    /\ Enter("soft_constraint_critic")
    /\ IF ~CriticEnabled
       THEN /\ critic' = "disabled" /\ critiques' = Nothing /\ attempts' = 0
            /\ UNCHANGED ungrounded
       ELSE /\ attempts' = attempts + 1
            /\ \/ critic' = "unavailable" /\ critiques' = Nothing /\ ungrounded' = FALSE
               \/ /\ critic' = "success" /\ UNCHANGED ungrounded
                  /\ \E about \in SUBSET digests : critiques' \in [about -> Scores]
    /\ Go(Edge[node])
    /\ UNCHANGED <<digests, scores, planVars, hardVars, softVars>>

AfterGrounding ==
    IF ungrounded' /\ attempts < MaxAttempts THEN "soft_constraint_critic"
    ELSE "quality_gate"

MayBeGrounded == DOMAIN critiques = digests

(* Answers about other plans or without evidence are rejected.             *)
ValidateCriticEvidence ==
    /\ Enter("validate_critic_evidence")
    /\ IF critic # "success"
       THEN ungrounded' = FALSE /\ UNCHANGED critic
       ELSE \/ ungrounded' = TRUE /\ critic' = "invalid_grounding"
            \/ MayBeGrounded /\ ungrounded' = FALSE /\ UNCHANGED critic
    /\ Go(AfterGrounding)
    /\ UNCHANGED <<digests, attempts, critiques, scores, planVars, hardVars, softVars>>

(* Mutant: an answer is scored whatever its grounding.                     *)
GatedScores_Ungrounded == critiques

GatedScores == IF critic = "success" THEN critiques ELSE Nothing

QualityGate ==
    /\ Enter("quality_gate")
    /\ scores' = GatedScores
    /\ Go(IF softPending # 0 THEN "compare_soft_repair"
          ELSE IF critic = "success" /\ DOMAIN scores' # {}
          THEN "compile_soft_repair_plan" ELSE "select_by_quality")
    /\ UNCHANGED <<digests, critic, attempts, ungrounded, critiques, planVars, hardVars, softVars>>

-----------------------------------------------------------------------------
(* Soft repair of a legal plan.                                            *)

(* The score of a plan, below all others when it has none.                 *)
ScoreOf(sc, c) == IF c \in DOMAIN sc THEN sc[c] + 1 ELSE 0

(* Mutant: the score counts before the level.                              *)
BestByQuality_ScoreFirst(cs, sc) ==
    {c \in Deliverable(cs) : \A d \in Deliverable(cs) : ScoreOf(sc, c) >= ScoreOf(sc, d)}

(* The level of the validation first, then the score; ties are broken by   *)
(* the deterministic score and the id.                                     *)
BestByQuality(cs, sc) ==
    {c \in Deliverable(cs) : \A d \in Deliverable(cs) :
        \/ cs[c].level = "valid" /\ cs[d].level = "warned"
        \/ cs[c].level = cs[d].level /\ ScoreOf(sc, c) >= ScoreOf(sc, d)}

(* What a soft repair puts aside.                                          *)
Snapshot == [cands |-> cands, drafts |-> drafts, critiques |-> critiques,
             digests |-> digests, scores |-> scores]

MayRepair(c) ==
    c \in DOMAIN scores /\ scores[c] < Threshold /\ softRounds < MaxSoftRounds

(* Mutant: nothing is put aside.                                           *)
CompileSoftRepairPlan_NoBaseline ==
    /\ Enter("compile_soft_repair_plan")
    /\ \E c \in BestByQuality(cands, scores) :
          \/ /\ MayRepair(c) /\ softPlan' = c /\ Go("apply_soft_repair")
          \/ /\ softPlan' = NoId /\ Go("select_by_quality")
    /\ base' = NoBase
    /\ UNCHANGED <<softPending, softRounds, planVars, hardVars, criticVars>>

(* The best plan is repaired when its score is low and one of the critic's *)
(* suggestions compiles into a safe action.                                *)
CompileSoftRepairPlan ==
    /\ Enter("compile_soft_repair_plan")
    /\ \E c \in BestByQuality(cands, scores) :
          \/ /\ MayRepair(c) /\ softPlan' = c /\ base' = Snapshot
             /\ Go("apply_soft_repair")
          \/ /\ softPlan' = NoId /\ base' = NoBase
             /\ Go("select_by_quality")
    /\ UNCHANGED <<softPending, softRounds, planVars, hardVars, criticVars>>

ApplySoftRepair ==
    /\ Enter("apply_soft_repair")
    /\ softPending' = softRounds + 1
    /\ drafts' = {[softPlan EXCEPT !.soft = softPending']}
    /\ cands' = Nothing /\ selected' = NoId
    /\ critic' = "pending" /\ critiques' = Nothing /\ scores' = Nothing
    /\ Go(Edge[node])
    /\ UNCHANGED <<pois, digests, attempts, ungrounded, base, softPlan, softRounds, hardVars>>

(* Mutant: the drafts of the baseline are not brought back.                *)
RestoreBaseline_NoDrafts ==
    /\ cands' = base.cands /\ drafts' = drafts
    /\ critiques' = base.critiques /\ digests' = base.digests /\ scores' = base.scores
    /\ critic' = "success" /\ ungrounded' = FALSE
    /\ softPending' = 0 /\ softRounds' = softPending /\ base' = NoBase
    /\ Go(Edge[node])
    /\ UNCHANGED <<pois, selected, attempts, softPlan>>

RestoreBaseline ==
    /\ cands' = base.cands /\ drafts' = base.drafts
    /\ critiques' = base.critiques /\ digests' = base.digests /\ scores' = base.scores
    /\ critic' = "success" /\ ungrounded' = FALSE
    /\ softPending' = 0 /\ softRounds' = softPending /\ base' = NoBase
    /\ Go(Edge[node])
    /\ UNCHANGED <<pois, selected, attempts, softPlan>>

RestoreSoftBaseline ==
    /\ Enter("restore_soft_baseline")
    /\ RestoreBaseline
    /\ UNCHANGED hardVars

(* The repaired plan gained enough; scores holds no other one.             *)
Accepted ==
    /\ critic = "success"
    /\ \E c \in DOMAIN scores : scores[c] >= base.scores[softPlan] + MinGain

CompareSoftRepair ==
    /\ Enter("compare_soft_repair")
    /\ IF ~Accepted
       THEN RestoreBaseline
       ELSE /\ cands' = Merge(base.cands, softPlan, cands)
            /\ drafts' = (base.drafts \ {softPlan}) \cup drafts
            /\ critiques' = Merge(base.critiques, softPlan, critiques)
            /\ digests' = (base.digests \ {softPlan}) \cup digests
            /\ scores' = Merge(base.scores, softPlan, scores)
            /\ softPending' = 0 /\ softRounds' = softPending /\ base' = NoBase
            /\ Go(Edge[node])
            /\ UNCHANGED <<pois, selected, critic, attempts, ungrounded, softPlan>>
    /\ UNCHANGED hardVars

-----------------------------------------------------------------------------
(* The end.                                                                *)

SelectByQuality ==
    /\ Enter("select_by_quality")
    /\ selected' \in BestByQuality(cands, scores)
    /\ Go(Edge[node])
    /\ UNCHANGED <<pois, drafts, cands, hardVars, criticVars, softVars>>

(* The explanation cites a grounded critique of the plan, or its digest,   *)
(* and raises when it has neither.                                         *)
Explained ==
    \/ critic = "success" /\ selected \in DOMAIN critiques
    \/ selected \in digests

ExplainSelection ==
    /\ Enter("explain_selection")
    /\ Ends(IF Explained THEN "completed" ELSE "unexplained")
    /\ UNCHANGED <<planVars, hardVars, criticVars, softVars>>

MarkInfeasible ==
    /\ Enter("mark_infeasible")
    /\ selected' = NoId
    /\ Ends("infeasible")
    /\ UNCHANGED <<pois, drafts, cands, hardVars, criticVars, softVars>>

(* run_planning has returned or raised.                                    *)
Over == outcome # "running" /\ UNCHANGED vars

Next ==
    \/ Refused \/ ExecutionBudgetGuard \/ Compute \/ LoadFacts \/ ResolvePoiFacts
    \/ SolveCandidateVariants \/ Materialize \/ ValidateCandidates
    \/ SelectRepairTarget \/ AnalyzeViolations \/ BuildRepairPlan
    \/ ApplyLocalRepair \/ CollectDeltaRoutes
    \/ PrepareCriticContext \/ SoftConstraintCritic \/ ValidateCriticEvidence
    \/ QualityGate \/ CompileSoftRepairPlan \/ ApplySoftRepair
    \/ RestoreSoftBaseline \/ CompareSoftRepair
    \/ SelectByQuality \/ ExplainSelection \/ MarkInfeasible
    \/ Over

Spec == Init /\ [][Next]_vars

-----------------------------------------------------------------------------
(* Properties.                                                             *)

Outcomes == {"running", "completed", "infeasible", "recursion", "graph_steps",
             "repair_rounds", "tool", "unchanged_draft", "changed_day",
             "no_evidence", "unexplained"}
AnyVerdict == Good \cup Bad \cup {Unchecked}

(* The keys of TravelState and the meters stay well typed: a plan is named *)
(* by an id, a verdict is what the validator may say, rounds are bounded.  *)
TypeOK ==
    /\ node \in Nodes /\ outcome \in Outcomes
    /\ steps \in 0..RecursionLimit /\ left \in Nat /\ rounds \in Nat
    /\ pois \in BOOLEAN /\ drafts \subseteq Ids /\ selected \in Ids \cup {NoId}
    /\ DOMAIN cands \subseteq Ids /\ \A c \in DOMAIN cands : cands[c] \in AnyVerdict
    /\ iterations \in 0..MaxRounds /\ pending \in 0..MaxRounds
    /\ target \in Ids \cup {NoId} /\ report \in AnyVerdict
    /\ plan \in Actions \cup {NoAction} /\ stuck \in BOOLEAN
    /\ \A i \in 1..Len(history) :
          history[i] \in [before : Prints, after : Prints \cup {Clean}, action : Actions]
    /\ digests \subseteq Ids /\ attempts \in 0..MaxAttempts /\ ungrounded \in BOOLEAN
    /\ critic \in {"not_run", "pending", "success", "unavailable",
                   "invalid_grounding", "disabled"}
    /\ \A f \in {critiques, scores, base.critiques, base.scores} :
          DOMAIN f \subseteq Ids /\ \A c \in DOMAIN f : f[c] \in Scores
    /\ DOMAIN base.cands \subseteq Ids /\ base.drafts \cup base.digests \subseteq Ids
    /\ \A c \in DOMAIN base.cands : base.cands[c] \in AnyVerdict
    /\ softPlan \in Ids \cup {NoId}
    /\ softPending \in 0..MaxSoftRounds /\ softRounds \in 0..MaxSoftRounds

(* The plans that can still be delivered, before the eyes or put aside.    *)
Legal(level) ==
    \/ \E c \in DOMAIN cands : cands[c].level \in level
    \/ \E c \in DOMAIN base.cands : base.cands[c].level \in level

HasLegal == Legal({"valid", "warned"})
HasValid == Legal({"valid"})

(* The state is well typed, every lookup by id finds its plan, and every   *)
(* key a node takes for granted is there: no lookup ends a run.  What the  *)
(* nodes raise over data, a changed day or a critic without evidence, are  *)
(* outcomes (PreservedDaysStand, CriticIsHarmless).                        *)
ContextAgrees ==
    /\ TypeOK
    /\ node \in {"analyze_violations", "build_repair_plan", "apply_local_repair"}
          => target \in DOMAIN cands \cap drafts
    /\ node = "apply_local_repair" => plan # NoAction
    /\ node \in {"collect_delta_routes", "collect_soft_delta_routes"}
          => Cardinality(drafts) = 1
    /\ node = "validate_candidates" => DOMAIN cands = drafts
    /\ node = "validate_candidates" /\ pending # 0
          => Cardinality(drafts) = 1 /\ report.level = "invalid" /\ plan # NoAction
    /\ node = "validate_candidates" /\ softPending # 0 => Cardinality(drafts) = 1
    /\ node \in {"prepare_critic_context", "select_by_quality"} => Deliverable(cands) # {}
    /\ node = "compile_soft_repair_plan" =>
          DOMAIN scores = DOMAIN critiques /\ DOMAIN scores \subseteq DOMAIN cands \cap drafts
    /\ node = "apply_soft_repair" => softPlan \in DOMAIN base.cands \cap base.drafts
    /\ node \in {"restore_soft_baseline", "compare_soft_repair"} =>
          softPlan \in DOMAIN base.scores /\ softPending # 0
    /\ node = "explain_selection" => selected \in DOMAIN cands \cap drafts

(* Once the validator has found a legal plan, one is kept to the end:      *)
(* through soft repairs that fail, are rejected, or replace it.            *)
LegalIsKept == [][HasLegal => HasLegal']_vars

(* A run is only called infeasible when no legal plan is known and the     *)
(* repairs have ended for one of their reasons; the critic is never one.   *)
InfeasibleIsHonest ==
    outcome = "infeasible" =>
        /\ ~HasLegal /\ selected = NoId
        /\ stuck \/ ~pois \/ iterations = MaxRounds

(* A completed run delivers a plan the validator has accepted, and no      *)
(* other plan is ahead of it: the level counts first, then a grounded      *)
(* score.                                                                  *)
DeliveredIsBest ==
    outcome = "completed" =>
        /\ selected \in Deliverable(cands)
        /\ \A c \in DOMAIN cands :
              /\ cands[c].level = "valid" => cands[selected].level = "valid"
              /\ cands[c].level = cands[selected].level
                    => ScoreOf(scores, selected) >= ScoreOf(scores, c)

(* The outcome of a run is true of the plans it knows.                     *)
OutcomeIsTrue == InfeasibleIsHonest /\ DeliveredIsBest

(* No repair is made twice: the rounds differ in their actions and in the  *)
(* violations they start from, and only validated rounds are counted.      *)
RepairsDiffer ==
    /\ Len(history) = iterations /\ iterations <= MaxRounds
    /\ \A i, j \in 1..Len(history) : i < j =>
          history[i].action # history[j].action /\ history[i].before # history[j].before

(* Scores are only shown for plans of the list, and each one comes from a  *)
(* grounded critique of that plan, also after a baseline is restored.      *)
ScoresAreGrounded ==
    DOMAIN scores # {} =>
        /\ critic = "success" /\ scores = critiques
        /\ DOMAIN scores \subseteq DOMAIN cands
        /\ DOMAIN scores = digests

(* The recursion limit leaves room for the longest path of a run.          *)
RecursionSuffices == outcome # "recursion"

(* The reserve leaves a step to the validator and to the node that ends    *)
(* the run, whatever the other nodes have used.                            *)
TerminalNodesFit == outcome = "graph_steps" => node \notin TerminalNodes

(* A soft repair never trades a fully valid plan for one with warnings.    *)
LevelIsKept == [][HasValid => HasValid']_vars

(* A critic that is unavailable or ungrounded, or that cannot be told      *)
(* anything, does not keep a legal plan from being delivered.              *)
CriticIsHarmless == outcome \notin {"unexplained", "no_evidence"}

(* docs/v0.5/README.md:11: a repair changes only the days it declares.     *)
PreservedDaysStand == outcome # "changed_day"

(* A budget that runs out in an optional stage leaves the legal plan to be *)
(* delivered.                                                              *)
OptionalStagesDegrade == outcome \in {"graph_steps", "repair_rounds"} => ~HasLegal
=============================================================================

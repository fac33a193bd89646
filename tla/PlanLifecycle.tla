---------------------------- MODULE PlanLifecycle ----------------------------
(***************************************************************************)
(* One plan session: the record kept by the plan repository, the durable   *)
(* checkpoint of the lifecycle graph, and the API processes that resume it.*)
(*                                                                         *)
(* A resume runs graph nodes one after another.  A node reads the session, *)
(* decides, and saves with compare-and-swap on session_revision; between   *)
(* its read and its save another process may save.  Before a node runs,    *)
(* the graph has checkpointed the position it reached, so an error or a    *)
(* crash inside the node leaves a checkpoint without an interrupt.         *)
(*                                                                         *)
(* Requests that change nothing (a replayed receipt, a stale interrupt id) *)
(* are stuttering steps.                                                   *)
(***************************************************************************)
EXTENDS PlanData

CONSTANTS Procs,              \* API processes; each serialises its own resumes
          Requests, NoId,     \* request ids of clients; NoId is none of them
          Candidates,         \* valid candidates of the planning snapshot
          Forecasts,          \* weather snapshots, told apart by their risks
          Normal,             \* the forecast that carries no risk
          NoEvent,            \* no weather event
          NoForecast,         \* no weather snapshot yet
          MaxVersions,        \* max_versions of the workflow
          MaxAffectedDays,    \* max_affected_days of the workflow
          MaxClarifications,  \* edit clarification rounds (2 in the code)
          EditPatches,        \* the edits clients ask for
          ClientKinds,        \* the kinds of action clients ask for
          MaxRevision         \* bound: no request is taken past this revision

Kinds == {"select", "lock", "unlock", "edit", "clarify", "approve", "reject",
          "refresh", "dismiss"}

ASSUME LifecycleAssumption ==
    /\ ClientKinds \subseteq Kinds
    /\ Candidates \subseteq Plan
    /\ EditPatches \subseteq [items : SUBSET Items, dates : SUBSET Days, open : Nat]
    /\ MaxVersions \in Nat /\ MaxAffectedDays \in Nat
    /\ MaxClarifications \in Nat /\ MaxRevision \in Nat
    /\ NoId \notin Requests
    /\ Normal \in Forecasts /\ NoForecast \notin Forecasts
    /\ NoEvent \notin [base : Nat, before : Forecasts \cup {NoForecast},
                       after : Forecasts]

VARIABLES session,   \* the PlanSessionRecord in the repository
          ckpt,      \* the latest checkpoint of the lifecycle graph
          node,      \* the graph node each process executes
          phase,     \* before or after the node's repository.get
          req,       \* the request each process is executing
          seen,      \* the copy of the session the node has read
          patch,     \* graph state: edit_patch
          clar,      \* graph state: clarification_round
          forecast,  \* graph state: weather_snapshot
          event      \* graph state: weather_event

vars == <<session, ckpt, node, phase, req, seen, patch, clar, forecast, event>>

-----------------------------------------------------------------------------
Statuses == {"awaiting_candidate_selection", "active", "needs_edit_clarification",
             "awaiting_change_approval", "change_rejected", "requires_new_plan"}

(* The statuses from which a lock, an edit or a refresh may start. *)
Open == {"active", "change_rejected", "requires_new_plan"}

PreviewStatuses == {"pending", "approved", "rejected", "invalid"}
EventStatuses == {"no_plan_impact", "needs_user_attention", "preview_created",
                  "approved", "rejected", "dismissed"}

EventId == [base : Nat, before : Forecasts \cup {NoForecast}, after : Forecasts]
Patch == [items : SUBSET Items, dates : SUBSET Days, open : Nat]
Version == [plan : Plan, parent : Nat]
Preview == [base : Nat, baseRevision : Nat, plan : Plan,
            status : PreviewStatuses, event : EventId \cup {NoEvent}]

(* route_action *)
NodeOf(kind) ==
    CASE kind = "select" -> "select_candidate"
      [] kind \in {"lock", "unlock"} -> "change_lock"
      [] kind = "edit" -> "parse_edit"
      [] kind = "clarify" -> "apply_edit_clarification"
      [] kind \in {"approve", "reject"} -> "resolve_approval"
      [] kind = "refresh" -> "resolve_weather_location"
      [] OTHER -> "dismiss_weather_event"

ActionNodes == {"select_candidate", "change_lock", "parse_edit",
    "apply_edit_clarification", "analyze_change_impact", "build_preview",
    "resolve_approval", "resolve_weather_location", "fetch_weather_snapshot",
    "derive_weather_event", "deduplicate_weather_event",
    "analyze_weather_impact", "build_weather_repair", "dismiss_weather_event"}

Nodes == ActionNodes \cup {"idle", "await_user_action"}

SessionRecord ==
    [status : Statuses, revision : Nat, versions : Seq(Version), active : Nat,
     previews : Seq(Preview), pending : Nat,
     locks : [Targets -> Fingerprints \cup {NoLock}],
     receipts : [Requests -> Nat],
     events : SUBSET [id : EventId, status : EventStatuses],
     attention : EventId \cup {NoEvent},
     snapshot : Forecasts \cup {NoForecast}]

Request == [id : Requests \cup {NoId}, kind : Kinds, strict : BOOLEAN, expected : Nat]
NoRequest == [id |-> NoId, kind |-> "select", strict |-> FALSE, expected |-> 0]

Checkpoint == [pos : {"none", "interrupt", "running"}, patch : Patch, clar : Nat]

NoPatch == [items |-> {}, dates |-> {}, open |-> 0]

(* The record PlanLifecycleService.create stores for a completed planning. *)
NewSession ==
    [status |-> "awaiting_candidate_selection", revision |-> 0,
     versions |-> <<>>, active |-> 0, previews |-> <<>>, pending |-> 0,
     locks |-> [t \in Targets |-> NoLock],
     receipts |-> [r \in Requests |-> 0], events |-> {},
     attention |-> NoEvent, snapshot |-> NoForecast]

TypeOK ==
    /\ session \in SessionRecord
    /\ ckpt \in Checkpoint
    /\ node \in [Procs -> Nodes]
    /\ phase \in [Procs -> {"read", "act"}]
    /\ req \in [Procs -> Request]
    /\ seen \in [Procs -> SessionRecord]
    /\ patch \in [Procs -> Patch]
    /\ clar \in [Procs -> Nat]
    /\ forecast \in [Procs -> Forecasts \cup {NoForecast}]
    /\ event \in [Procs -> EventId \cup {NoEvent}]

(* create() has stored the record and enters the graph at its START.       *)
Init ==
    /\ session = NewSession
    /\ ckpt = [pos |-> "none", patch |-> NoPatch, clar |-> 0]
    /\ \E p \in Procs :
          node = [q \in Procs |-> IF q = p THEN "await_user_action" ELSE "idle"]
    /\ phase = [p \in Procs |-> "read"]
    /\ req = [p \in Procs |-> NoRequest]
    /\ seen = [p \in Procs |-> NewSession]
    /\ patch = [p \in Procs |-> NoPatch]
    /\ clar = [p \in Procs |-> 0]
    /\ forecast = [p \in Procs |-> NoForecast]
    /\ event = [p \in Procs |-> NoEvent]

-----------------------------------------------------------------------------
(* Entering and leaving the graph                                          *)

(* A request id denotes one action: a duplicate asks for the same kind.     *)
SameAction(r, kind) == \A q \in Procs : req[q].id = r => req[q].kind = kind

(* Mutant: receipts are not consulted. *)
Unanswered_Always(r) == r \in Requests

(* No receipt is stored for the request id.                                *)
Unanswered(r) == session.receipts[r] = 0

(* resume / resume_lifecycle: no receipt for this request id, and the      *)
(* request names the pending interrupt.  dispatch_action clears the        *)
(* weather fields of the graph state and keeps edit_patch and              *)
(* clarification_round.                                                    *)
Resume(p, r) ==
    /\ node[p] = "idle"
    /\ session.revision < MaxRevision
    /\ Unanswered(r)
    /\ ckpt.pos = "interrupt"
    /\ \E kind \in ClientKinds, strict \in BOOLEAN :
          /\ SameAction(r, kind)
          /\ req' = [req EXCEPT ![p] = [id |-> r, kind |-> kind, strict |-> strict,
                                        expected |-> session.revision]]
          /\ node' = [node EXCEPT ![p] = NodeOf(kind)]
    /\ phase' = [phase EXCEPT ![p] = "read"]
    /\ patch' = [patch EXCEPT ![p] = ckpt.patch]
    /\ clar' = [clar EXCEPT ![p] = ckpt.clar]
    /\ forecast' = [forecast EXCEPT ![p] = NoForecast]
    /\ event' = [event EXCEPT ![p] = NoEvent]
    /\ UNCHANGED <<session, ckpt, seen>>

(* The graph has checkpointed that the node is next, and the node has read *)
(* the session.                                                            *)
ReadSession(p) ==
    /\ node[p] \in ActionNodes /\ phase[p] = "read"
    /\ seen' = [seen EXCEPT ![p] = session]
    /\ ckpt' = [pos |-> "running", patch |-> patch[p], clar |-> clar[p]]
    /\ phase' = [phase EXCEPT ![p] = "act"]
    /\ UNCHANGED <<session, node, req, patch, clar, forecast, event>>

(* The resume call returns or raises: its locals are gone.                 *)
Leave(p) ==
    /\ node' = [node EXCEPT ![p] = "idle"]
    /\ phase' = [phase EXCEPT ![p] = "read"]
    /\ req' = [req EXCEPT ![p] = NoRequest]
    /\ seen' = [seen EXCEPT ![p] = NewSession]
    /\ patch' = [patch EXCEPT ![p] = NoPatch]
    /\ clar' = [clar EXCEPT ![p] = 0]
    /\ forecast' = [forecast EXCEPT ![p] = NoForecast]
    /\ event' = [event EXCEPT ![p] = NoEvent]

(* await_user_action reads the session and interrupts.                     *)
AwaitUserAction(p) ==
    /\ node[p] = "await_user_action"
    /\ ckpt' = [pos |-> "interrupt", patch |-> patch[p], clar |-> clar[p]]
    /\ Leave(p)
    /\ UNCHANGED session

(* Any exception a node raises: a failed guard, a lost compare-and-swap, an *)
(* unavailable tool or model, an exhausted budget, an unavailable store.    *)
Raise(p) ==
    /\ node[p] \in ActionNodes /\ phase[p] = "act"
    /\ Leave(p)
    /\ UNCHANGED <<session, ckpt>>

(* The process stops anywhere; repository and checkpoint are durable.      *)
Crash(p) ==
    /\ node[p] # "idle"
    /\ Leave(p)
    /\ UNCHANGED <<session, ckpt>>

At(p, n) == node[p] = n /\ phase[p] = "act"

(* _ensure_expected *)
Expected(p) == req[p].strict => req[p].expected = seen[p].revision

(* Mutant: an edge between two nodes leads back to the first. *)
Goto_Again(p, n) ==
    /\ node' = [node EXCEPT ![p] = IF n = "await_user_action" THEN n ELSE @]
    /\ phase' = [phase EXCEPT ![p] = "read"]
    /\ seen' = [seen EXCEPT ![p] = NewSession]

(* The node returns: its copy of the session is gone.                      *)
Goto(p, n) ==
    /\ node' = [node EXCEPT ![p] = n]
    /\ phase' = [phase EXCEPT ![p] = "read"]
    /\ seen' = [seen EXCEPT ![p] = NewSession]

(* Mutant: the update does not compare the revision. *)
Save_Unchecked(p, new) ==
    session' = [new EXCEPT !.revision = seen[p].revision + 1]

(* repository.save(expected_revision = previous): the compare-and-swap.    *)
Save(p, new) ==
    /\ session.revision = seen[p].revision
    /\ session' = [new EXCEPT !.revision = seen[p].revision + 1]

(* A save that completes the request: receipt in the same write, and the   *)
(* graph continues to await_user_action.                                   *)
Commit(p, new) ==
    /\ Save(p, [new EXCEPT !.receipts =
                   [seen[p].receipts EXCEPT ![req[p].id] = seen[p].revision + 1]])
    /\ Goto(p, "await_user_action")
    /\ UNCHANGED <<ckpt, req, forecast, event>>

-----------------------------------------------------------------------------
(* Candidate selection and locks                                           *)

SelectCandidate(p) ==
    /\ At(p, "select_candidate") /\ Expected(p)
    /\ seen[p].status = "awaiting_candidate_selection"
    /\ \E plan \in Candidates :
          Commit(p, [seen[p] EXCEPT !.versions = <<[plan |-> plan, parent |-> 0]>>,
                                    !.active = 1, !.status = "active"])
    /\ UNCHANGED <<patch, clar>>

ActivePlan(s) == s.versions[s.active].plan

ChangeLock(p) ==
    /\ At(p, "change_lock") /\ Expected(p)
    /\ seen[p].status \in Open
    /\ \E t \in Targets :
          \/ /\ req[p].kind = "lock"
             /\ t \in Present(ActivePlan(seen[p])) \cup Days
             /\ Commit(p, [seen[p] EXCEPT
                   !.status = "active",
                   !.locks = [@ EXCEPT ![t] = Fingerprint(ActivePlan(seen[p]), t)]])
          \/ /\ req[p].kind = "unlock"
             /\ seen[p].locks[t] # NoLock
             /\ Commit(p, [seen[p] EXCEPT !.status = "active",
                                          !.locks = [@ EXCEPT ![t] = NoLock]])
    /\ UNCHANGED <<patch, clar>>

-----------------------------------------------------------------------------
(* Edits                                                                   *)

ParseEdit(p) ==
    /\ At(p, "parse_edit") /\ Expected(p)
    /\ seen[p].status \in Open
    /\ \E e \in EditPatches : patch' = [patch EXCEPT ![p] = e]
    /\ Goto(p, "analyze_change_impact")
    /\ UNCHANGED <<session, ckpt, req, clar, forecast, event>>

(* The chosen item goes to the first operation that has no item id; that   *)
(* need not be the operation that could not be resolved.                   *)
ApplyEditClarification(p) ==
    /\ At(p, "apply_edit_clarification") /\ Expected(p)
    /\ seen[p].status = "needs_edit_clarification"
    /\ patch[p].open > 0
    /\ \E i \in Present(ActivePlan(seen[p])), left \in {patch[p].open - 1, patch[p].open} :
          patch' = [patch EXCEPT ![p] = [items |-> patch[p].items \cup {i},
                                         dates |-> patch[p].dates,
                                         open |-> left]]
    /\ Goto(p, "analyze_change_impact")
    /\ UNCHANGED <<session, ckpt, req, clar, forecast, event>>

(* ground_edit_patch: every operation refers to one item of the plan.      *)
Grounded(p) ==
    /\ patch[p].open = 0
    /\ patch[p].items \subseteq Present(ActivePlan(seen[p]))

AskClarification(p) ==
    /\ At(p, "analyze_change_impact")
    /\ ~Grounded(p)
    /\ clar[p] < MaxClarifications
    /\ Commit(p, [seen[p] EXCEPT !.status = "needs_edit_clarification"])
    /\ clar' = [clar EXCEPT ![p] = @ + 1]
    /\ UNCHANGED patch

Affected(p) == AffectedDays(ActivePlan(seen[p]), patch[p].items, patch[p].dates)

(* Grounded and free of lock conflicts. *)
Applicable(p) ==
    /\ At(p, "analyze_change_impact")
    /\ Grounded(p)
    /\ LockConflicts(ActivePlan(seen[p]), patch[p].items, patch[p].dates,
                     seen[p].locks) = {}

RequireNewPlan(p) ==
    /\ Applicable(p)
    /\ Cardinality(Affected(p)) > MaxAffectedDays
    /\ Commit(p, [seen[p] EXCEPT !.status = "requires_new_plan"])
    /\ UNCHANGED <<patch, clar>>

AnalyzeChangeImpact(p) ==
    /\ Applicable(p)
    /\ Cardinality(Affected(p)) <= MaxAffectedDays
    /\ Goto(p, "build_preview")
    /\ UNCHANGED <<session, ckpt, req, patch, clar, forecast, event>>

(* persist_weather_observation with an event and its status.               *)
WithEvent(s, e, status) ==
    [s EXCEPT !.events = {x \in @ : x.id # e} \cup {[id |-> e, status |-> status]},
              !.attention = IF status = "needs_user_attention" THEN e ELSE NoEvent]

(* build_preview stores the observation of a weather-triggered preview.    *)
Observed(p, s, valid) ==
    IF event[p] = NoEvent THEN s
    ELSE WithEvent([s EXCEPT !.snapshot = forecast[p]], event[p],
                   IF valid THEN "preview_created" ELSE "needs_user_attention")

(* Mutant: the materialised candidate is not compared with the locks. *)
GuardsPass_NoLockGuard(p, plan) ==
    Local(ActivePlan(seen[p]), plan, Affected(p))

(* The locality guard and the lock guard on the materialised candidate.    *)
GuardsPass(p, plan) ==
    /\ Local(ActivePlan(seen[p]), plan, Affected(p))
    /\ Agrees(plan, seen[p].locks)

NewPreview(p, plan, valid) ==
    [base |-> seen[p].active, baseRevision |-> seen[p].revision + 1, plan |-> plan,
     status |-> IF valid THEN "pending" ELSE "invalid", event |-> event[p]]

PreviewId(s) == Len(s.previews) + 1

BuildPreview(p) ==
    /\ At(p, "build_preview") /\ Expected(p)
    /\ Grounded(p)
    /\ \E plan \in Plan, valid \in BOOLEAN :
          /\ GuardsPass(p, plan)
          /\ Commit(p, [Observed(p, seen[p], valid) EXCEPT
                !.previews = Append(@, NewPreview(p, plan, valid)),
                !.pending = PreviewId(seen[p]),
                !.status = IF valid THEN "awaiting_change_approval"
                                    ELSE "change_rejected"])
    /\ UNCHANGED <<patch, clar>>

-----------------------------------------------------------------------------
(* Approval                                                                *)

AwaitingApproval(s) == s.status = "awaiting_change_approval"

(* Mutant: the preview keeps its status. *)
Decide_Forgotten(previews, k, status) == previews

Decide(previews, k, status) ==
    [previews EXCEPT ![k] = [@ EXCEPT !.status = status]]

(* Mutant: the event's receipt is left as it was. *)
ResolveEvent_Forgotten(events, e, status) == events

(* resolve_approval: the receipt of the preview's weather event, if any.   *)
ResolveEvent(events, e, status) ==
    {IF x.id = e THEN [id |-> e, status |-> status] ELSE x : x \in events}

RejectPreview(p) ==
    /\ At(p, "resolve_approval") /\ Expected(p)
    /\ req[p].kind = "reject"
    /\ AwaitingApproval(seen[p])
    /\ LET k == seen[p].pending IN
       Commit(p, [seen[p] EXCEPT
             !.previews = Decide(@, k, "rejected"),
             !.events = ResolveEvent(@, seen[p].previews[k].event, "rejected"),
             !.status = "active"])
    /\ UNCHANGED <<patch, clar>>

(* The preview is still based on the active version and on this revision.  *)
Fresh(s) ==
    /\ s.previews[s.pending].base = s.active
    /\ s.previews[s.pending].baseRevision = s.revision

ApprovePreview(p) ==
    /\ At(p, "resolve_approval") /\ Expected(p)
    /\ req[p].kind = "approve"
    /\ AwaitingApproval(seen[p])
    /\ Fresh(seen[p])
    /\ Len(seen[p].versions) < MaxVersions
    /\ LET k == seen[p].pending IN
       Commit(p, [seen[p] EXCEPT
             !.versions = Append(@, [plan |-> seen[p].previews[k].plan,
                                     parent |-> seen[p].previews[k].base]),
             !.active = Len(seen[p].versions) + 1,
             !.previews = Decide(@, k, "approved"),
             !.events = ResolveEvent(@, seen[p].previews[k].event, "approved"),
             !.status = "active"])
    /\ UNCHANGED <<patch, clar>>

-----------------------------------------------------------------------------
(* Weather                                                                 *)

ResolveWeatherLocation(p) ==
    /\ At(p, "resolve_weather_location") /\ Expected(p)
    /\ seen[p].status \in Open
    /\ Goto(p, "fetch_weather_snapshot")
    /\ UNCHANGED <<session, ckpt, req, patch, clar, forecast, event>>

FetchWeatherSnapshot(p) ==
    /\ At(p, "fetch_weather_snapshot") /\ Expected(p)
    /\ \E f \in Forecasts : forecast' = [forecast EXCEPT ![p] = f]
    /\ Goto(p, "derive_weather_event")
    /\ UNCHANGED <<session, ckpt, req, patch, clar, event>>

(* persist_weather_failure saves a new revision without a receipt, then    *)
(* the node raises.                                                        *)
WeatherFailure(p) ==
    /\ \/ At(p, "resolve_weather_location") /\ seen[p].status \in Open
       \/ At(p, "fetch_weather_snapshot")
    /\ Expected(p)
    /\ Save(p, seen[p])
    /\ Leave(p)
    /\ UNCHANGED ckpt

(* derive_change_event against the latest stored snapshot.                 *)
ChangeEvent(s, f) ==
    IF f = s.snapshot \/ (s.snapshot = NoForecast /\ f = Normal) THEN NoEvent
    ELSE [base |-> s.active, before |-> s.snapshot, after |-> f]

DeriveWeatherEvent(p) ==
    /\ At(p, "derive_weather_event")
    /\ event' = [event EXCEPT ![p] = ChangeEvent(seen[p], forecast[p])]
    /\ Goto(p, "deduplicate_weather_event")
    /\ UNCHANGED <<session, ckpt, req, patch, clar, forecast>>

Known(s, e) == \E x \in s.events : x.id = e
Recovered(e) == e.before # NoForecast /\ e.after = Normal

(* persist_weather_terminal *)
WeatherTerminal(p, s) ==
    /\ Commit(p, [s EXCEPT !.snapshot = forecast[p], !.status = "active"])
    /\ UNCHANGED <<patch, clar>>

DeduplicateWeatherEvent(p) ==
    /\ At(p, "deduplicate_weather_event") /\ Expected(p)
    /\ \/ /\ event[p] = NoEvent \/ Known(seen[p], event[p])
          /\ WeatherTerminal(p, seen[p])
       \/ /\ event[p] # NoEvent /\ ~Known(seen[p], event[p])
          /\ Recovered(event[p])
          /\ WeatherTerminal(p, WithEvent(seen[p], event[p], "no_plan_impact"))
       \/ /\ event[p] # NoEvent /\ ~Known(seen[p], event[p])
          /\ ~Recovered(event[p])
          /\ Goto(p, "analyze_weather_impact")
          /\ UNCHANGED <<session, ckpt, req, patch, clar, forecast, event>>

AnalyzeWeatherImpact(p) ==
    /\ At(p, "analyze_weather_impact")
    /\ \/ \E status \in {"no_plan_impact", "needs_user_attention"} :
             WeatherTerminal(p, WithEvent(seen[p], event[p], status))
       \/ /\ Goto(p, "build_weather_repair")
          /\ UNCHANGED <<session, ckpt, req, patch, clar, forecast, event>>

BuildWeatherRepair(p) ==
    /\ At(p, "build_weather_repair") /\ Expected(p)
    /\ \/ WeatherTerminal(p, WithEvent(seen[p], event[p], "needs_user_attention"))
       \/ /\ \E e \in EditPatches : e.open = 0 /\ patch' = [patch EXCEPT ![p] = e]
          /\ Goto(p, "analyze_change_impact")
          /\ UNCHANGED <<session, ckpt, req, clar, forecast, event>>

DismissWeatherEvent(p) ==
    /\ At(p, "dismiss_weather_event") /\ Expected(p)
    /\ \E x \in seen[p].events :
          /\ x.status = "needs_user_attention"
          /\ Commit(p, [seen[p] EXCEPT
                !.events = ResolveEvent(@, x.id, "dismissed"),
                !.attention = NoEvent, !.status = "active"])
    /\ UNCHANGED <<patch, clar>>

-----------------------------------------------------------------------------
Step(p) ==
    \/ ReadSession(p) \/ AwaitUserAction(p)
    \/ SelectCandidate(p) \/ ChangeLock(p)
    \/ ParseEdit(p) \/ ApplyEditClarification(p) \/ AskClarification(p)
    \/ RequireNewPlan(p) \/ AnalyzeChangeImpact(p) \/ BuildPreview(p)
    \/ RejectPreview(p) \/ ApprovePreview(p)
    \/ ResolveWeatherLocation(p) \/ FetchWeatherSnapshot(p) \/ WeatherFailure(p)
    \/ DeriveWeatherEvent(p) \/ DeduplicateWeatherEvent(p)
    \/ AnalyzeWeatherImpact(p) \/ BuildWeatherRepair(p) \/ DismissWeatherEvent(p)
    \/ Raise(p)

Next == \E p \in Procs : Step(p) \/ Crash(p) \/ \E r \in Requests : Resume(p, r)

Spec == Init /\ [][Next]_vars

(* No process ever crashes. *)
CrashFreeSpec ==
    Init /\ [][\E p \in Procs : Step(p) \/ \E r \in Requests : Resume(p, r)]_vars

(* A resume in progress goes on until it answers or its process crashes.   *)
FairSpec == Spec /\ \A p \in Procs : WF_vars(Step(p))

-----------------------------------------------------------------------------
(* Properties                                                              *)

(* Compare-and-swap on session_revision is enough to protect the whole     *)
(* record: whoever still holds the current revision holds the current      *)
(* record, so a save never overwrites something its node has not read.     *)
NoLostUpdate ==
    \A p \in Procs : phase[p] = "act" =>
        /\ seen[p].revision <= session.revision
        /\ seen[p].revision = session.revision => seen[p] = session

(* The active version is the newest, every version descends from the one   *)
(* before it, and every version after the first was approved exactly once: *)
(* the one approved preview over its parent holds its plan (what diff()    *)
(* looks up when it is asked for two neighbouring versions).               *)
LinearHistory ==
    /\ session.active = Len(session.versions)
    /\ \A n \in 1 .. Len(session.versions) : session.versions[n].parent = n - 1
    /\ \A n \in 2 .. Len(session.versions) :
          \E k \in 1 .. Len(session.previews) :
              /\ session.previews[k].status = "approved"
              /\ session.previews[k].base = n - 1
              /\ session.previews[k].plan = session.versions[n].plan
    /\ \A j, k \in 1 .. Len(session.previews) :
          /\ session.previews[j].status = "approved"
          /\ session.previews[k].status = "approved"
          /\ session.previews[j].base = session.previews[k].base
          => j = k

(* While a lock is held the active plan shows its target unchanged, in     *)
(* whichever order locks, edits, approvals and weather repairs arrive.     *)
LocksHeld ==
    session.versions # <<>> => Agrees(ActivePlan(session), session.locks)

(* await_user_action dereferences pending_preview_id while the session     *)
(* waits for approval: that preview exists, is undecided and is based on   *)
(* the active version.                                                     *)
ApprovalHasPreview ==
    session.status = "awaiting_change_approval" =>
        /\ session.pending \in 1 .. Len(session.previews)
        /\ session.previews[session.pending].status = "pending"
        /\ session.previews[session.pending].base = session.active

(* A preview built at the current revision was checked against the current *)
(* locks and the current version: nothing can have moved under it, so its  *)
(* approval needs no second look at the locks.                             *)
PreviewsCurrent ==
    \A k \in 1 .. Len(session.previews) :
        /\ session.previews[k].baseRevision <= session.revision
        /\ session.previews[k].baseRevision = session.revision =>
              /\ session.previews[k].base = session.active
              /\ Agrees(session.previews[k].plan, session.locks)

(* A decision on a preview is final: approved, rejected and invalid        *)
(* previews are never reopened, decided again or dropped.                  *)
DecisionsStand ==
    \A k \in 1 .. Len(session.previews) :
        session.previews[k].status # "pending" =>
            /\ k <= Len(session'.previews)
            /\ session'.previews[k] = session.previews[k]

(* A request that has its receipt never takes effect again, whatever       *)
(* retries follow a lost answer or a crash.                                *)
ReceiptsStand ==
    \A r \in Requests :
        session.receipts[r] # 0 => session'.receipts[r] = session.receipts[r]
ReceiptsAreFinal == [][ReceiptsStand]_session

(* What was answered stands: a decision on a preview and the answer to a   *)
(* request, however calls are retried, crash or dismiss what they show.    *)
AnswersAreFinal == [][DecisionsStand /\ ReceiptsStand]_session

(* A weather change leads to at most one preview.                          *)
OnePreviewPerEvent ==
    \A j, k \in 1 .. Len(session.previews) :
        /\ session.previews[j].event # NoEvent
        /\ session.previews[j].event = session.previews[k].event
        => j = k

(* The receipt of a weather event tells what became of its preview.        *)
EventFollowsPreview ==
    \A k \in 1 .. Len(session.previews) :
        LET v == session.previews[k] IN
        v.event # NoEvent =>
            \E x \in session.events :
                /\ x.id = v.event
                /\ v.status = "pending" => x.status = "preview_created"
                /\ v.status \in {"approved", "rejected"} => x.status = v.status
                /\ v.status = "invalid" =>
                      x.status \in {"needs_user_attention", "dismissed"}

(* The event a session draws attention to can be dismissed.                *)
AttentionIsOpen ==
    session.attention # NoEvent =>
        \E x \in session.events :
            x.id = session.attention /\ x.status = "needs_user_attention"

(* A weather event, its receipt, its preview and the attention it asks for *)
(* agree, in whatever order refreshes, decisions and dismissals come.      *)
WeatherAgrees == OnePreviewPerEvent /\ EventFollowsPreview /\ AttentionIsOpen

(* The graph always comes back to an interrupt or an error: no chain of    *)
(* nodes runs forever.                                                     *)
ResumeEnds == \A p \in Procs : (node[p] # "idle") ~> (node[p] = "idle")

(* The session is a plan history whose locks hold.                         *)
History ==
    INSTANCE PlanHistory WITH
        plans <- [n \in 1 .. Len(session.versions) |-> session.versions[n].plan],
        held <- session.locks

ImplementsHistory == History!HistorySpec

(* docs/v0.8/design.md: "active" means that an action can be started, i.e. *)
(* a graph at rest holds an interrupt that a client can resume.            *)
ActiveIsResumable ==
    session.status = "active" /\ (\A p \in Procs : node[p] = "idle") =>
        ckpt.pos = "interrupt"

(* docs/v0.8/design.md: a preview the session moved past becomes stale; an *)
(* undecided one is the one the session waits for.                         *)
PendingIsOpen ==
    \A k \in 1 .. Len(session.previews) :
        session.previews[k].status = "pending" =>
            /\ session.status = "awaiting_change_approval"
            /\ session.pending = k
=============================================================================

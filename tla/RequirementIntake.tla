-------------------------- MODULE RequirementIntake --------------------------
(***************************************************************************)
(* From a traveller's text, or a structured trip, to a plan session: the   *)
(* graph that reads the text, asks back and plans, and the service calls   *)
(* that start it, resume it with an answer and store the session.          *)
(*                                                                         *)
(* The checkpoint of the graph (thread) and the session are stored apart   *)
(* and written one after the other.  The calls of one session are          *)
(* serialised by a lock; a call may end at any point by a failure of a     *)
(* model, a tool or a store, or by the end of the process, and the         *)
(* checkpoint then stays at the node that had not finished.  The           *)
(* checkpoints are durable.                                                *)
(***************************************************************************)
EXTENDS TripRequirement

CONSTANTS Drafts,      \* what the model may read in a text
          Patches,     \* what it may read in an answer
          Requests,    \* request ids of the answers
          Answers,     \* their texts
          MaxRounds    \* max_clarification_rounds of the request

ASSUME RoundsAssumption == MaxRounds \in Nat \ {0}
ASSUME InputAssumption ==
    \A i \in 1..MaxRounds, q \in Requests, a \in Answers :
        [interrupt |-> i, request |-> q, answer |-> a] # None

\* Dates and times are numbers, and None is not the resolution of a place.
ASSUME DraftAssumption ==
    /\ \A d \in Drafts \cup Patches, f \in Dated : d[f] # None => d[f] \in Int
    /\ \A d, e \in Drafts \cup Patches, r \in Roles :
          [city |-> d["destination"], name |-> e[NameOf[r]]] # None

VARIABLES thread,      \* the checkpoint of the intake graph, or None
          planned,     \* the outcome of the planning graph, or None
          session,     \* the stored session, or None
          lifecycle,   \* the lifecycle graph of the session has been started
          call         \* the call in progress, or None

vars == <<thread, planned, session, lifecycle, call>>

Nodes == {"parse", "validate", "resolve", "evaluate", "request", "await", "exhausted",
          "patch", "apply", "assemble", "retrieve", "plan", "end"}

\* initial_requirement_state; next is the node the checkpoint continues with,
\* asked is whether the interrupt of await_clarification is pending.
NewThread ==
    [next |-> "parse", asked |-> FALSE, draft |-> Blank, issues |-> {}, targets |-> {},
     round |-> 0, exhausted |-> FALSE, input |-> None, patch |-> None,
     searched |-> None, found |-> [r \in Roles |-> None]]

Init ==
    /\ thread = None /\ planned = None /\ session = None
    /\ lifecycle = FALSE /\ call = None

-----------------------------------------------------------------------------
(* The nodes of the graph, each with the route that follows it. *)

At(node) ==
    /\ call # None /\ call.at = "graph"
    /\ thread # None /\ thread.next = node

Continue(checkpoint) ==
    /\ thread' = checkpoint
    /\ UNCHANGED <<planned, session, lifecycle, call>>
Return == call' = [call EXCEPT !.at = "returned"]

ParseRequirement ==
    /\ At("parse")
    /\ \E d \in Drafts : Continue([thread EXCEPT !.draft = d, !.next = "validate"])

ValidateRequirement ==
    /\ At("validate")
    /\ LET issues == IssuesOf(thread.draft)
       IN  Continue([thread EXCEPT !.issues = issues, !.targets = {},
                     !.next = IF issues # {} THEN "request" ELSE "resolve"])

\* The places without a resolution are searched; roles with one name share the
\* search, and the provider decides which names have exactly one match.
ResolveAnchors ==
    /\ At("resolve")
    /\ LET roles == {r \in RequiredRoles(thread.draft) : thread.found[r] = None}
       IN  \E matched \in SUBSET {thread.draft[NameOf[r]] : r \in roles} :
              Continue([thread EXCEPT !.searched = [roles |-> roles, matched |-> matched],
                        !.next = "evaluate"])

\* Nothing reads the search results afterwards.
EvaluateAnchors ==
    /\ At("evaluate")
    /\ LET matched == {r \in thread.searched.roles :
                          thread.draft[NameOf[r]] \in thread.searched.matched}
           issues == AnchorIssues(thread.searched.roles \ matched)
       IN  Continue([thread EXCEPT !.found = [r \in Roles |-> IF r \in matched
                                                THEN Query(thread.draft, r)
                                                ELSE thread.found[r]],
                     !.issues = issues, !.searched = None,
                     !.next = IF issues # {} THEN "request" ELSE "assemble"])

IsExhausted == thread.round >= MaxRounds

AfterExhausted_Slip == "request"
AfterExhausted == "exhausted"

RequestClarification ==
    /\ At("request")
    /\ IF IsExhausted
       THEN Continue([thread EXCEPT !.targets = Targets(thread.issues), !.exhausted = TRUE,
                      !.next = AfterExhausted])
       ELSE Continue([thread EXCEPT !.targets = Targets(thread.issues), !.round = thread.round + 1,
                      !.input = None, !.patch = None, !.next = "await"])

AwaitClarification ==
    /\ At("await") /\ ~thread.asked
    /\ thread' = [thread EXCEPT !.asked = TRUE]
    /\ Return
    /\ UNCHANGED <<planned, session, lifecycle>>

ClarificationExhausted ==
    /\ At("exhausted")
    /\ thread' = [thread EXCEPT !.next = "end"]
    /\ Return
    /\ UNCHANGED <<planned, session, lifecycle>>

ParseClarificationPatch ==
    /\ At("patch")
    /\ \E p \in Patches : Continue([thread EXCEPT !.patch = p, !.next = "apply"])

ApplyClarificationPatch_Slip ==
    /\ At("apply")
    /\ LET changed == Changed(thread.draft, thread.patch, thread.targets)
       IN  Continue([thread EXCEPT !.draft = Merged(thread.draft, thread.patch, thread.targets),
                     !.found = [r \in Roles |-> IF r \in InvalidatedRoles(changed)
                                                THEN None ELSE thread.found[r]],
                     !.patch = None,
                     !.next = IF changed # {} THEN "validate" ELSE "request"])

ApplyClarificationPatch ==
    /\ At("apply")
    /\ LET changed == Changed(thread.draft, thread.patch, thread.targets)
       IN  Continue([thread EXCEPT !.draft = Merged(thread.draft, thread.patch, thread.targets),
                     !.found = [r \in Roles |-> IF r \in InvalidatedRoles(changed)
                                                THEN None ELSE thread.found[r]],
                     !.input = None, !.patch = None,
                     !.next = IF changed # {} THEN "validate" ELSE "request"])

AssembleTripSpec ==
    /\ At("assemble")
    /\ IF Assembles(thread.draft, thread.found)
       THEN Continue([thread EXCEPT !.next = "retrieve"])
       ELSE call' = None /\ UNCHANGED <<thread, planned, session, lifecycle>>

\* The preferences only fill what the draft leaves open.
RetrievePreferences == At("retrieve") /\ Continue([thread EXCEPT !.next = "plan"])

Outcomes == {"completed", "infeasible"}

ExecutePlanning ==
    /\ At("plan")
    /\ planned' \in Outcomes
    /\ thread' = [thread EXCEPT !.next = "end"]
    /\ Return
    /\ UNCHANGED <<session, lifecycle>>

-----------------------------------------------------------------------------
(* The calls of the service. *)

Begin(op, request) == call' = [op |-> op, request |-> request, at |-> "graph"]

\* create_from_text; a session id is new with each call that creates.
AskFromText ==
    /\ call = None /\ session = None /\ thread = None /\ planned = None
    /\ thread' = NewThread
    /\ Begin("text", None)
    /\ UNCHANGED <<planned, session, lifecycle>>

\* create: the trip is given, so only the planning graph runs.
AskFromTrip ==
    /\ call = None /\ session = None /\ thread = None /\ planned = None
    /\ Begin("trip", None)
    /\ UNCHANGED <<thread, planned, session, lifecycle>>

PlanTrip ==
    /\ call # None /\ call.op = "trip" /\ call.at = "graph"
    /\ planned' \in Outcomes
    /\ Return
    /\ UNCHANGED <<thread, session, lifecycle>>

Input(i, q, a) == [interrupt |-> i, request |-> q, answer |-> a]

\* What resume accepts: an answer to the question the session shows, that is
\* either the pending one of the checkpoint or one whose answer was stored by
\* a call that failed before it was applied.  Everything else is refused, or
\* replayed from its receipt, and changes nothing.
IsPending_Slip(i) == thread.asked
IsPending(i) == thread.asked /\ thread.round = i

IsRetry(i, q, a) == ~thread.asked /\ thread.next # "end" /\ thread.input = Input(i, q, a)

Accepts(i, q, a) ==
    /\ session # None /\ session.status = "waiting" /\ q \notin session.receipts
    /\ session.question = i
    /\ IsPending(i) \/ IsRetry(i, q, a)

\* The resumed node takes the answer as the value of its interrupt.
Answered_Slip(i, q, a) ==
    [thread EXCEPT !.asked = FALSE, !.input = Input(i, q, a), !.next = "patch",
                   !.round = @ + 1]
Answered(i, q, a) ==
    [thread EXCEPT !.asked = FALSE, !.input = Input(i, q, a), !.next = "patch"]

AskResume(i, q, a) ==
    /\ call = None /\ Accepts(i, q, a)
    /\ thread' = IF thread.asked THEN Answered(i, q, a) ELSE thread
    /\ Begin("resume", q)
    /\ UNCHANGED <<planned, session, lifecycle>>

NeedsClarification == thread # None /\ (thread.asked \/ thread.exhausted)

\* A session shows the round of its question and what it may change, or round 0.
Waiting(receipts) ==
    [status |-> "waiting", question |-> IF thread.asked THEN thread.round ELSE 0,
     targets |-> IF thread.asked THEN thread.targets ELSE {}, receipts |-> receipts]

Awaiting(receipts) ==
    [status |-> "awaiting", question |-> 0, targets |-> {}, receipts |-> receipts]

Receipts ==
    IF call.op = "resume" THEN session.receipts \cup {call.request} ELSE {}

\* After the graph: a session that waits for an answer is stored, a completed
\* plan is stored and its lifecycle started, anything else is an error.
IsCompleted == planned = "completed"

StoreWaiting ==
    /\ call # None /\ call.at = "returned" /\ NeedsClarification
    /\ session' = Waiting(Receipts)
    /\ call' = None
    /\ UNCHANGED <<thread, planned, lifecycle>>

StoreCompleted ==
    /\ call # None /\ call.at = "returned" /\ ~NeedsClarification /\ IsCompleted
    /\ session' = Awaiting(Receipts)
    /\ call' = [call EXCEPT !.at = "start"]
    /\ UNCHANGED <<thread, planned, lifecycle>>

RefuseUnplanned ==
    /\ call # None /\ call.at = "returned" /\ ~NeedsClarification /\ ~IsCompleted
    /\ call' = None
    /\ UNCHANGED <<thread, planned, session, lifecycle>>

StartLifecycle ==
    /\ call # None /\ call.at = "start"
    /\ lifecycle' = TRUE
    /\ call' = None
    /\ UNCHANGED <<thread, planned, session>>

\* A model, a tool or a store fails, or the process ends.
Fail ==
    /\ call # None
    /\ call' = None
    /\ UNCHANGED <<thread, planned, session, lifecycle>>

Step ==
    \/ ParseRequirement \/ ValidateRequirement \/ ResolveAnchors \/ EvaluateAnchors
    \/ RequestClarification \/ AwaitClarification \/ ClarificationExhausted
    \/ ParseClarificationPatch \/ ApplyClarificationPatch \/ AssembleTripSpec
    \/ RetrievePreferences \/ ExecutePlanning \/ PlanTrip
    \/ StoreWaiting \/ StoreCompleted \/ RefuseUnplanned \/ StartLifecycle

Next ==
    \/ Step \/ Fail
    \/ AskFromText \/ AskFromTrip
    \/ \E i \in 1..MaxRounds, q \in Requests, a \in Answers : AskResume(i, q, a)

Spec == Init /\ [][Next]_vars

\* A call that has begun runs to its end unless it fails.
FairSpec == Spec /\ WF_vars(Step)

-----------------------------------------------------------------------------
(* Properties. *)

Values(f) == {d[f] : d \in Drafts \cup Patches} \cup {None}

\* Each variable holds values of its kind, and a checkpoint holds an
\* interrupt only at the node that raises it.
TypeOK ==
    /\ thread # None =>
          /\ thread.next \in Nodes
          /\ \A f \in Fields : thread.draft[f] \in Values(f)
          /\ thread.targets \subseteq Fields
          /\ thread.round \in 0..MaxRounds
          /\ thread.asked => thread.next = "await" /\ thread.targets # {}
          /\ thread.input # None => thread.next \in {"patch", "apply"}
    /\ planned \in Outcomes \cup {None}
    /\ session # None =>
          /\ session.status \in {"waiting", "awaiting"}
          /\ session.receipts \subseteq Requests /\ session.question \in 0..MaxRounds
    /\ lifecycle \in BOOLEAN
    /\ call # None => /\ call.op \in {"text", "trip", "resume"}
                      /\ call.at \in {"graph", "returned", "start"}

\* A draft that gives one end of the day and leaves the other to its default.
HalfWindow(draft) == (draft["daily_start"] = None) # (draft["daily_end"] = None)

\* validate_requirement and resolve_anchors let a draft through to
\* assemble_trip_spec only when TripSpec takes it, the one exception being a
\* daily window of which the traveller gave one end.
AssemblesUnlessHalfWindow ==
    thread # None /\ thread.next = "assemble" =>
        Assembles(thread.draft, thread.found) \/ HalfWindow(thread.draft)

\* An answer changes only fields that the question shown to the traveller
\* named: merge_requirement_patch takes the targets of the checkpoint, the
\* traveller saw those of the session.
OnlyAskedFieldsChange ==
    [][thread # None /\ thread'.draft # thread.draft /\ session # None =>
          \A f \in Fields : thread'.draft[f] # thread.draft[f] =>
              f \in session.targets]_vars

\* A session that offers candidates to choose from has a completed plan:
\* an infeasible trip never replaces the question of a session.
AwaitingHasPlan ==
    session # None /\ session.status = "awaiting" => planned = "completed"

\* The question a session shows is the one after those with a receipt: no
\* failure, retry or replay counts an answer twice or loses its receipt.
OneReceiptPerQuestion ==
    session # None /\ session.status = "waiting" /\ session.question # 0 =>
        session.question = Cardinality(session.receipts) + 1

\* A session is told to start again (no question, can_resume false) only when
\* the traveller has answered every round that the request allows.
ExhaustedAfterAllRounds ==
    session # None /\ session.status = "waiting" /\ session.question = 0 =>
        Cardinality(session.receipts) = MaxRounds

\* What a session shows after any calls, failures and retries is true: its
\* candidates, its question, and that no round is left (_resume_requirement).
SessionTells == AwaitingHasPlan /\ OneReceiptPerQuestion /\ ExhaustedAfterAllRounds

\* Every call ends: the routes of the graph have no cycle without a question.
EveryTurnEnds == call # None ~> call = None

-----------------------------------------------------------------------------
(* What the documents say and the code does not do. *)

\* A draft that the rules accept can be assembled to a trip.
ValidDraftAssembles ==
    thread # None /\ thread.next = "assemble" => Assembles(thread.draft, thread.found)

\* A session that shows a question accepts an answer to it.
WaitingCanGoOn ==
    /\ call = None /\ session # None
    /\ session.status = "waiting" /\ session.question # 0
    => \E q \in Requests, a \in Answers : Accepts(session.question, q, a)
=============================================================================

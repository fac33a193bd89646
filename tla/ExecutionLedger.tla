--------------------------- MODULE ExecutionLedger ---------------------------
(***************************************************************************)
(* One agent run inside the coordinator: the budget that meters it, the    *)
(* trace that explains it, and what draws on both - instrumented graph     *)
(* nodes, concurrent tool calls, a model call, and the checkpoint writes   *)
(* that LangGraph makes in the background.                                 *)
(*                                                                         *)
(* There are two threads.  The event loop runs async nodes, tool and model *)
(* calls, checkpoint writes and the coordinator; a sync node runs in an    *)
(* executor thread beside it.  The ledger has a lock, the trace has none:  *)
(* an event takes its number first and is appended in a later step.        *)
(***************************************************************************)
EXTENDS Naturals, FiniteSets

CONSTANTS Limit,        \* ExecutionBudget: the max_ fields, by resource
          StepReserve,  \* terminal_step_reserve
          MaxEvents,    \* max_trace_events
          TraceReserve, \* terminal_trace_reserve
          MaxRepeats,   \* max_repeated_fingerprint_count
          MaxTries,     \* max_attempts of a retry policy
          Tools,        \* tool calls one node may gather
          Model,        \* the model call of a node
          Sizes,        \* prompt and answer sizes of a model call
          Prints,       \* action fingerprints of repair plans
          NodeKinds     \* the kinds of node that the graph has

Resources == {"graph_steps", "tool_calls", "provider_attempts", "cache_hits",
              "llm_calls", "llm_attempts", "llm_input_chars", "tokens",
              "repair_rounds", "interrupts", "checkpoint_writes"}

Kinds == {"run.started", "run.ended", "budget.exceeded", "node.started",
          "node.ended", "interrupt.created", "tool.started", "tool.attempt",
          "tool.retry", "tool.cache_hit", "tool.ended", "llm.started",
          "llm.attempt", "llm.retry", "llm.ended", "degradation",
          "checkpoint.written", "checkpoint.failed"}

(* plan: a node whose plan has a fingerprint; await: a node that may raise *)
(* GraphInterrupt; final: any other node registered as terminal.           *)
SyncKinds == {"plain", "guard", "plan", "repair", "await", "final"}
AsyncKinds == {"tools", "parse", "critic"}
TerminalKinds == {"await", "final"}

Threads == {"loop", "executor"}
Calls == Tools \cup {Model}

(* validate_reserves, and the bounds of the fields it compares.            *)
ASSUME LedgerAssumption ==
    /\ Limit \in [Resources -> Nat]
    /\ StepReserve \in Nat \ {0} /\ StepReserve < Limit["graph_steps"]
    /\ MaxEvents \in Nat
    /\ TraceReserve \in Nat \ {0, 1} /\ TraceReserve < MaxEvents
    /\ Limit["provider_attempts"] >= Limit["tool_calls"]
    /\ Limit["llm_attempts"] >= Limit["llm_calls"]
    /\ MaxRepeats \in Nat \ {0} /\ MaxTries \in Nat \ {0}
    /\ IsFiniteSet(Tools) /\ Model \notin Tools
    /\ Sizes \subseteq Nat
    /\ NodeKinds \subseteq SyncKinds \cup AsyncKinds
    /\ "none" \notin Prints

VARIABLES used,     \* ExecutionLedger._values
          late,     \* deadline_ms has passed
          print,    \* _last_action_fingerprint
          repeats,  \* _repeated_fingerprint_count
          count,    \* TraceRecorder._events: the number of each kind
          kept,     \* the same, of the events whose number was new when appended
          length,   \* len(_events)
          numbers,  \* the sequence numbers in _events
          fidelity, \* TraceRecorder.status
          pending,  \* per thread: the event it is about to append
          number,   \* per thread: the sequence number of that event
          node,     \* kind of the node the graph is in
          at,       \* where the graph stands
          cause,    \* what ended the graph, "none" while it runs
          call,     \* the node's calls: how far each got, or why it raised
          tries,    \* attempts of each call
          owed,     \* checkpoint writes handed to the background
          broken,   \* why a background write raised
          spent,    \* side effects that happened, by resource
          closing,  \* graph steps taken by terminal nodes
          final     \* what finalize stored

ledgerVars == <<used, late, print, repeats>>
traceVars == <<count, kept, length, numbers, fidelity>>
slotVars == <<pending, number>>
graphVars == <<node, at, cause>>
callVars == <<call, tries>>
saveVars == <<owed, broken>>
vars == <<ledgerVars, traceVars, slotVars, graphVars, callVars, saveVars,
          spent, closing, final>>

-----------------------------------------------------------------------------
Effects == {"provider_attempts", "llm_attempts", "checkpoint_writes"}

(* What classify_error tells apart, with the limit of a budget error.      *)
BudgetCauses == Resources \cup {"deadline", "fingerprint"}
Causes == BudgetCauses \cup {"none", "done", "interrupt", "error"}

CallStates == {"off", "idle", "begun", "queued", "calling", "done", "failed"}

Record == [status : {"running", "completed", "interrupted", "failed"},
           used : [Resources -> Nat], count : [Kinds -> Nat],
           numbers : SUBSET Nat, fidelity : {"complete", "degraded"}]

TypeOK ==
    /\ used \in [Resources -> Nat] /\ late \in BOOLEAN
    /\ print \in Prints \cup {"none"} /\ repeats \in Nat
    /\ count \in [Kinds -> Nat] /\ kept \in [Kinds -> Nat]
    /\ length \in Nat /\ numbers \subseteq Nat
    /\ fidelity \in {"complete", "degraded"}
    /\ pending \in [Threads -> Kinds \cup {"none", "dropped"}]
    /\ number \in [Threads -> Nat]
    /\ node \in SyncKinds \cup AsyncKinds \cup {"none"}
    /\ at \in {"routing", "starting", "running", "ending", "noting",
               "leaving", "over"}
    /\ cause \in Causes
    /\ call \in [Calls -> CallStates \cup BudgetCauses]
    /\ tries \in [Calls -> Nat]
    /\ owed \in Nat /\ broken \in Causes
    /\ spent \in [Effects -> Nat] /\ closing \in Nat
    /\ final \in Record

(* execute has recorded run.started, and LangGraph owes the write of the   *)
(* graph's input.                                                          *)
Init ==
    /\ used = [r \in Resources |-> 0] /\ late = FALSE
    /\ print = "none" /\ repeats = 0
    /\ count = [k \in Kinds |-> IF k = "run.started" THEN 1 ELSE 0]
    /\ kept = count /\ length = 1 /\ numbers = {1} /\ fidelity = "complete"
    /\ pending = [t \in Threads |-> "none"] /\ number = [t \in Threads |-> 0]
    /\ node = "none" /\ at = "routing" /\ cause = "none"
    /\ call = [c \in Calls |-> "off"] /\ tries = [c \in Calls |-> 0]
    /\ owed = 1 /\ broken = "none"
    /\ spent = [r \in Effects |-> 0] /\ closing = 0
    /\ final = [status |-> "running", used |-> used, count |-> count,
                numbers |-> {}, fidelity |-> "complete"]

-----------------------------------------------------------------------------
(* The ledger: a check and its increment are one step, under the lock      *)

(* Mutant: the new value is compared before it is added. *)
Within_OffByOne(r, n, maximum) == ~late /\ used[r] <= maximum

Within(r, n, maximum) == ~late /\ used[r] + n <= maximum

Reason(r) == IF late THEN "deadline" ELSE r

Consume(r) == used' = [used EXCEPT ![r] = @ + 1]

(* consume_graph_step: only terminal nodes may use the reserve.            *)
StepLimit(k) == IF k \in TerminalKinds THEN Limit["graph_steps"]
                ELSE Limit["graph_steps"] - StepReserve

DeadlinePasses ==
    /\ at # "over" /\ ~late
    /\ late' = TRUE
    /\ UNCHANGED <<used, print, repeats, traceVars, slotVars, graphVars,
                   callVars, saveVars, spent, closing, final>>

-----------------------------------------------------------------------------
(* The trace                                                               *)

(* Mutant: normal events may fill the trace. *)
NormalLimit_NoReserve == MaxEvents

(* normal_limit: the rest is kept for the events that end a run.           *)
NormalLimit == MaxEvents - TraceReserve

Added(k, n) ==
    /\ count' = [count EXCEPT ![k] = @ + 1]
    /\ kept' = IF n \in numbers THEN kept ELSE [kept EXCEPT ![k] = @ + 1]
    /\ length' = length + 1
    /\ numbers' = numbers \cup {n}
    /\ UNCHANGED fidelity

Degrade == fidelity' = "degraded" /\ UNCHANGED <<count, kept, length, numbers>>

(* record, when no other thread can come in between.                       *)
RecordNow(k) ==
    /\ pending["loop"] = "none"
    /\ IF length >= NormalLimit THEN Degrade ELSE Added(k, length + 1)
    /\ UNCHANGED slotVars

(* record, up to the append: the limit is checked and the number taken.    *)
TakeNumber(t, k) ==
    /\ pending[t] = "none"
    /\ IF length >= NormalLimit
       THEN /\ Degrade
            /\ pending' = [pending EXCEPT ![t] = "dropped"]
            /\ UNCHANGED number
       ELSE /\ pending' = [pending EXCEPT ![t] = k]
            /\ number' = [number EXCEPT ![t] = length + 1]
            /\ UNCHANGED traceVars

(* record, from the append on.                                             *)
Append(t) ==
    /\ pending[t] # "none"
    /\ IF pending[t] = "dropped" THEN UNCHANGED traceVars
       ELSE Added(pending[t], number[t])
    /\ pending' = [pending EXCEPT ![t] = "none"]
    /\ number' = [number EXCEPT ![t] = 0]

-----------------------------------------------------------------------------
(* Graph nodes (instrument_node)                                           *)

(* consume_graph_step, or consume_repair_round after it, raises before the *)
(* wrapper's try: the node has no event at all.                            *)
RefuseNode(k) ==
    /\ at = "routing" /\ k \in NodeKinds
    /\ node' = k /\ at' = "leaving"
    /\ \/ /\ ~Within("graph_steps", 1, StepLimit(k))
          /\ cause' = Reason("graph_steps")
          /\ UNCHANGED <<used, closing>>
       \/ /\ k = "repair" /\ Within("graph_steps", 1, StepLimit(k))
          /\ ~Within("repair_rounds", 1, Limit["repair_rounds"])
          /\ cause' = Reason("repair_rounds")
          /\ Consume("graph_steps")
          /\ UNCHANGED closing
    /\ UNCHANGED <<late, print, repeats, traceVars, slotVars, callVars, saveVars,
                   spent, final>>

(* The calls of a node: a gather of tool calls, or one model call.         *)
Fan(k) == IF k = "tools" THEN SUBSET Tools \ {{}}
          ELSE IF k \in {"parse", "critic"} THEN {{Model}} ELSE {{}}

(* Mutant: a node is admitted without taking a step. *)
AdmitNode_Uncounted(k) ==
    /\ at = "routing" /\ k \in NodeKinds
    /\ Within("graph_steps", 1, StepLimit(k))
    /\ node' = k
    /\ IF k \in SyncKinds
       THEN TakeNumber("executor", "node.started") /\ at' = "starting"
       ELSE RecordNow("node.started") /\ at' = "running"
    /\ \E started \in Fan(k) :
          call' = [c \in Calls |-> IF c \in started THEN "idle" ELSE "off"]
    /\ tries' = [c \in Calls |-> 0]
    /\ UNCHANGED <<ledgerVars, cause, saveVars, spent, closing, final>>

AdmitNode(k) ==
    /\ at = "routing" /\ k \in NodeKinds
    /\ Within("graph_steps", 1, StepLimit(k))
    /\ k = "repair" => Within("repair_rounds", 1, Limit["repair_rounds"])
    /\ used' = [used EXCEPT !["graph_steps"] = @ + 1,
                            !["repair_rounds"] = IF k = "repair" THEN @ + 1 ELSE @]
    /\ closing' = IF k \in TerminalKinds THEN closing + 1 ELSE closing
    /\ node' = k
    /\ IF k \in SyncKinds
       THEN TakeNumber("executor", "node.started") /\ at' = "starting"
       ELSE RecordNow("node.started") /\ at' = "running"
    /\ \E started \in Fan(k) :
          call' = [c \in Calls |-> IF c \in started THEN "idle" ELSE "off"]
    /\ tries' = [c \in Calls |-> 0]
    /\ UNCHANGED <<late, print, repeats, cause, saveVars, spent, final>>

(* The wrapped function of a sync node returns or raises.  The guard node  *)
(* asks ensure_can_continue, which leaves the reserve untouched.           *)
SyncNodeEnds(c) ==
    /\ at = "running" /\ node \in SyncKinds
    /\ CASE c = "none" -> node = "guard" => Within("graph_steps", 1, StepLimit(node))
         [] c = "error" -> node # "guard"
         [] OTHER -> /\ node = "guard" /\ c = Reason("graph_steps")
                     /\ ~Within("graph_steps", 1, StepLimit(node))
    /\ TakeNumber("executor", "node.ended")
    /\ at' = "ending" /\ cause' = c
    /\ UNCHANGED <<ledgerVars, node, callVars, saveVars, spent, closing, final>>

(* A node raises GraphInterrupt; consume_interrupt may raise in its place, *)
(* and then the node has no event that closes it.                          *)
Interrupts ==
    /\ at = "running" /\ node = "await"
    /\ IF Within("interrupts", 1, Limit["interrupts"])
       THEN /\ Consume("interrupts")
            /\ TakeNumber("executor", "interrupt.created")
            /\ at' = "ending" /\ cause' = "interrupt"
       ELSE /\ at' = "leaving" /\ cause' = Reason("interrupts")
            /\ UNCHANGED <<used, traceVars, slotVars>>
    /\ UNCHANGED <<late, print, repeats, node, callVars, saveVars, spent, closing,
                   final>>

(* Where the graph goes when the last event of a sync node is appended:    *)
(* _record_domain_event looks at the fingerprint of a plan.                *)
AfterEnd == IF cause # "none" THEN "leaving"
            ELSE IF node = "plan" THEN "noting" ELSE "routing"

NodeEventAppended ==
    /\ Append("executor")
    /\ \/ at = "starting" /\ at' = "running" /\ UNCHANGED owed
       \/ at = "ending" /\ at' = AfterEnd /\ owed' = owed + 1
    /\ UNCHANGED <<ledgerVars, node, cause, callVars, broken, spent, closing, final>>

(* note_action_fingerprint, after node.completed was recorded.             *)
NotePrint(f) ==
    /\ at = "noting"
    /\ print' = f
    /\ repeats' = IF f = print THEN repeats + 1 ELSE 1
    /\ IF repeats' > MaxRepeats
       THEN at' = "leaving" /\ cause' = "fingerprint"
       ELSE at' = "routing" /\ UNCHANGED cause
    /\ UNCHANGED <<used, late, traceVars, slotVars, node, callVars, saveVars, spent,
                   closing, final>>

-----------------------------------------------------------------------------
(* Tool calls and model calls                                              *)

AttemptOf(c) == IF c = Model THEN "llm_attempts" ELSE "provider_attempts"
AttemptEvent(c) == IF c = Model THEN "llm.attempt" ELSE "tool.attempt"
RetryEvent(c) == IF c = Model THEN "llm.retry" ELSE "tool.retry"
EndEvent(c) == IF c = Model THEN "llm.ended" ELSE "tool.ended"

CallGoes(c, place) == call' = [call EXCEPT ![c] = place]

callFrame == <<late, print, repeats, graphVars, saveVars, closing, final>>

(* begin_tool; the exception stays in the task until gather hands it on.   *)
BeginTool(c) ==
    /\ c \in Tools /\ call[c] = "idle"
    /\ IF Within("tool_calls", 1, Limit["tool_calls"])
       THEN /\ Consume("tool_calls")
            /\ RecordNow("tool.started")
            /\ CallGoes(c, "begun")
       ELSE CallGoes(c, Reason("tool_calls")) /\ UNCHANGED <<used, traceVars, slotVars>>
    /\ UNCHANGED <<tries, spent, callFrame>>

(* begin_llm: the call and its characters are taken together or not at all. *)
BeginModel(n) ==
    /\ call[Model] = "idle"
    /\ IF ~Within("llm_calls", 1, Limit["llm_calls"])
       THEN CallGoes(Model, Reason("llm_calls")) /\ UNCHANGED <<used, traceVars, slotVars>>
       ELSE IF used["llm_input_chars"] + n > Limit["llm_input_chars"]
       THEN CallGoes(Model, "llm_input_chars") /\ UNCHANGED <<used, traceVars, slotVars>>
       ELSE /\ used' = [used EXCEPT !["llm_calls"] = @ + 1,
                                    !["llm_input_chars"] = @ + n]
            /\ RecordNow("llm.started")
            /\ CallGoes(Model, "begun")
    /\ UNCHANGED <<tries, spent, callFrame>>

(* finish_tool for a value that the cache, or another call's load, had.    *)
CacheHit(c) ==
    /\ c \in Tools /\ call[c] = "begun" /\ tries[c] = 0
    /\ Consume("cache_hits")
    /\ RecordNow("tool.cache_hit")
    /\ CallGoes(c, "done")
    /\ UNCHANGED <<tries, spent, callFrame>>

(* Mutant: the attempt is recorded before it is checked. *)
Attempt_EventFirst(c) ==
    /\ call[c] = "begun"
    /\ RecordNow(AttemptEvent(c))
    /\ IF Within(AttemptOf(c), 1, Limit[AttemptOf(c)])
       THEN /\ Consume(AttemptOf(c))
            /\ CallGoes(c, "queued")
            /\ tries' = [tries EXCEPT ![c] = @ + 1]
       ELSE CallGoes(c, Reason(AttemptOf(c))) /\ UNCHANGED <<used, tries>>
    /\ UNCHANGED <<spent, callFrame>>

(* begin_tool_attempt, begin_llm_attempt                                   *)
Attempt(c) ==
    /\ call[c] = "begun"
    /\ IF Within(AttemptOf(c), 1, Limit[AttemptOf(c)])
       THEN /\ Consume(AttemptOf(c))
            /\ RecordNow(AttemptEvent(c))
            /\ CallGoes(c, "queued")
            /\ tries' = [tries EXCEPT ![c] = @ + 1]
       ELSE /\ CallGoes(c, Reason(AttemptOf(c)))
            /\ UNCHANGED <<used, traceVars, slotVars, tries>>
    /\ UNCHANGED <<spent, callFrame>>

(* The semaphore lets the call through, and effective_timeout looks at the *)
(* deadline before the request is sent.                                    *)
Send(c) ==
    /\ call[c] = "queued"
    /\ IF late THEN CallGoes(c, "deadline") /\ UNCHANGED spent
       ELSE /\ CallGoes(c, "calling")
            /\ spent' = [spent EXCEPT ![AttemptOf(c)] = @ + 1]
    /\ UNCHANGED <<used, traceVars, slotVars, tries, callFrame>>

ToolAnswers(c) ==
    /\ c \in Tools /\ call[c] = "calling"
    /\ RecordNow("tool.ended")
    /\ CallGoes(c, "done")
    /\ UNCHANGED <<used, tries, spent, callFrame>>

(* finish_llm: complete_llm looks at the tokens of the answer, not at the  *)
(* deadline; without token counts (0) nothing is added.                    *)
ModelAnswers(n) ==
    /\ call[Model] = "calling"
    /\ IF used["tokens"] + n > Limit["tokens"]
       THEN CallGoes(Model, "tokens") /\ UNCHANGED <<used, traceVars, slotVars>>
       ELSE /\ used' = [used EXCEPT !["tokens"] = @ + n]
            /\ RecordNow("llm.ended")
            /\ CallGoes(Model, "done")
    /\ UNCHANGED <<tries, spent, callFrame>>

(* The attempt fails or times out: a retry, or the end of the call.        *)
CallFails(c) ==
    /\ call[c] = "calling"
    /\ \/ /\ tries[c] < MaxTries
          /\ RecordNow(RetryEvent(c))
          /\ CallGoes(c, "begun")
       \/ /\ RecordNow(EndEvent(c))
          /\ CallGoes(c, "failed")
    /\ UNCHANGED <<used, tries, spent, callFrame>>

Raised(c) == call[c] \in BudgetCauses

AsyncNodeGoes(place, c) ==
    /\ RecordNow("node.ended")
    /\ at' = place /\ cause' = c
    /\ owed' = owed + 1
    /\ UNCHANGED <<ledgerVars, node, callVars, broken, spent, closing, final>>

(* gather hands on the first exception; the other calls are not cancelled. *)
GatherRaises(c) ==
    /\ at = "running" /\ node \in AsyncKinds \ {"critic"}
    /\ Raised(c)
    /\ AsyncNodeGoes("leaving", call[c])

(* The soft critic gives up on a budget error, record_degradation.         *)
CriticDegrades ==
    /\ at = "running" /\ node = "critic" /\ Raised(Model)
    /\ RecordNow("degradation")
    /\ CallGoes(Model, "failed")
    /\ UNCHANGED <<used, tries, spent, callFrame>>

AllSettled == \A c \in Calls : call[c] \in {"off", "done", "failed"}

(* A failed tool or requirement call fails its node; a failed critic does  *)
(* not.                                                                    *)
AsyncNodeEnds ==
    /\ at = "running" /\ node \in AsyncKinds /\ AllSettled
    /\ IF node # "critic" /\ \E c \in Calls : call[c] = "failed"
       THEN AsyncNodeGoes("leaving", "error")
       ELSE AsyncNodeGoes("routing", "none")

-----------------------------------------------------------------------------
(* Checkpoints: the delegate writes first, the write is counted after it   *)

WriteCheckpoint ==
    /\ owed > 0 /\ pending["loop"] = "none"
    /\ owed' = owed - 1
    /\ spent' = [spent EXCEPT !["checkpoint_writes"] = @ + 1]
    /\ IF Within("checkpoint_writes", 1, Limit["checkpoint_writes"])
       THEN /\ Consume("checkpoint_writes")
            /\ TakeNumber("loop", "checkpoint.written")
            /\ UNCHANGED broken
       ELSE /\ broken' = Reason("checkpoint_writes")
            /\ UNCHANGED <<used, traceVars, slotVars>>
    /\ UNCHANGED <<late, print, repeats, graphVars, callVars, closing, final>>

CheckpointFails ==
    /\ owed > 0
    /\ owed' = owed - 1
    /\ TakeNumber("loop", "checkpoint.failed")
    /\ broken' = "error"
    /\ UNCHANGED <<ledgerVars, graphVars, callVars, spent, closing, final>>

CheckpointEventAppended ==
    /\ Append("loop")
    /\ UNCHANGED <<ledgerVars, graphVars, callVars, saveVars, spent, closing, final>>

-----------------------------------------------------------------------------
(* The end of the run (RunCoordinator.execute)                             *)

(* Every graph ends after a terminal node.                                 *)
GraphReturns ==
    /\ at = "routing" /\ node \in TerminalKinds
    /\ at' = "leaving" /\ cause' = "done"
    /\ UNCHANGED <<ledgerVars, traceVars, slotVars, node, callVars, saveVars, spent,
                   closing, final>>

Status(c) == IF c = "done" THEN "completed"
             ELSE IF c = "interrupt" THEN "interrupted" ELSE "failed"

(* finalize: the in-memory repository stores every event, SQLite and       *)
(* PostgreSQL only the first of each sequence number.                      *)
Rows == {count, kept}

(* LangGraph waits for its background writes and raises what they raised.  *)
(* Terminal events may use the reserve; the record and the trace are taken *)
(* without a pause in between.                                             *)
EndRun ==
    /\ at = "leaving" /\ owed = 0 /\ pending["loop"] = "none"
    /\ at' = "over"
    /\ cause' = IF cause \in {"done", "interrupt"} /\ broken # "none"
                THEN broken ELSE cause
    /\ LET exceeded == IF cause' \in BudgetCauses THEN 1 ELSE 0
           alert == IF length < MaxEvents THEN exceeded ELSE 0
           ended == IF length + alert < MaxEvents THEN 1 ELSE 0
           Closed(c) == [c EXCEPT !["budget.exceeded"] = @ + alert,
                                  !["run.ended"] = @ + ended]
       IN  /\ count' = Closed(count) /\ kept' = Closed(kept)
           /\ length' = length + alert + ended
           /\ numbers' = numbers \cup (length + 1)..(length + alert + ended)
           /\ fidelity' = IF alert + ended = exceeded + 1 THEN fidelity ELSE "degraded"
    /\ \E rows \in Rows' :
          final' = [status |-> Status(cause'), used |-> used, count |-> rows,
                    numbers |-> numbers', fidelity |-> fidelity']
    /\ UNCHANGED <<ledgerVars, slotVars, node, callVars, saveVars, spent, closing>>

-----------------------------------------------------------------------------
Graph ==
    \/ \E k \in NodeKinds : RefuseNode(k) \/ AdmitNode(k)
    \/ \E c \in Causes : SyncNodeEnds(c)
    \/ Interrupts
    \/ NodeEventAppended
    \/ \E f \in Prints : NotePrint(f)
    \/ GraphReturns
    \/ EndRun

Calling ==
    \/ \E c \in Calls : \/ BeginTool(c) \/ CacheHit(c) \/ Attempt(c) \/ Send(c)
                        \/ ToolAnswers(c) \/ CallFails(c) \/ GatherRaises(c)
    \/ \E n \in Sizes : BeginModel(n)
    \/ \E n \in Sizes \cup {0} : ModelAnswers(n)
    \/ CriticDegrades
    \/ AsyncNodeEnds

Saving == WriteCheckpoint \/ CheckpointFails \/ CheckpointEventAppended

Next == DeadlinePasses \/ Graph \/ Calling \/ Saving

Spec == Init /\ [][Next]_vars

(* Every await of a run comes back: calls carry a timeout, sync nodes and  *)
(* the store return.  Nothing obliges the deadline to pass.                *)
LiveSpec == Spec /\ WF_vars(Graph \/ Calling \/ Saving)

-----------------------------------------------------------------------------
(* Properties                                                              *)

Metered == Resources \ {"cache_hits"}

(* Concurrent calls, the calls that outlive a failed gather included, never *)
(* draw more from the budget than it holds, and never send a request that  *)
(* was not paid for (budget.py _consume, context.py begin_tool_attempt).   *)
WithinBudget ==
    /\ \A r \in Metered : used[r] <= Limit[r]
    /\ \A r \in Effects \ {"checkpoint_writes"} : spent[r] <= used[r]

(* Whatever filled the trace before, the stored trace of a run has its     *)
(* beginning and exactly one end (coordinator.py execute, tracing.py       *)
(* terminal_trace_reserve).                                                *)
EndRecorded ==
    final.status # "running" =>
        final.count["run.started"] = 1 /\ final.count["run.ended"] = 1

(* The resources that have an event of their own.                          *)
EventOf == [tool_calls |-> "tool.started", provider_attempts |-> "tool.attempt",
            cache_hits |-> "tool.cache_hit", llm_calls |-> "llm.started",
            llm_attempts |-> "llm.attempt", interrupts |-> "interrupt.created",
            checkpoint_writes |-> "checkpoint.written"]

(* The stored trace lacks no sequence number below its last.               *)
Gapless == \A n \in final.numbers : 1..n \subseteq final.numbers

(* A complete trace never shows more than the stored usage, and where it   *)
(* lacks no sequence number the usage is what it adds up to, although      *)
(* calls may still be running when both are stored (coordinator.py         *)
(* _final_record and _persist, repository.py finalize).                    *)
UsageMatchesTrace ==
    final.status # "running" /\ final.fidelity = "complete" =>
        \A r \in DOMAIN EventOf :
            /\ final.count[EventOf[r]] <= final.used[r]
            /\ Gapless => final.count[EventOf[r]] = final.used[r]

(* A terminal node is turned away for want of steps only when terminal     *)
(* nodes themselves have used up the reserve (budget.py                    *)
(* consume_graph_step, terminal_step_reserve).                             *)
ReserveKept ==
    node \in TerminalKinds /\ cause = "graph_steps" => closing >= StepReserve

ModelLimits == {"llm_calls", "llm_attempts", "llm_input_chars", "tokens"}

(* The budget of the model ends a run only in a node that cannot do without *)
(* the model: the soft critic gives up instead (graph/workflow.py           *)
(* soft_constraint_critic).                                                *)
CriticIsOptional == cause \in ModelLimits => node = "parse"

(* A run ends, however its graph loops and its providers fail: the step,   *)
(* call and attempt budgets suffice without the deadline.                  *)
RunEnds == <>(at = "over")

(* budget.py:12: every check comes before the side effect.                 *)
ChecksComeFirst == \A r \in Effects : spent[r] <= Limit[r]

(* docs/v1.0/design.md 9.5, item 6: a complete trace adds up to the usage, *)
(* gaps or not.                                                            *)
CompleteUsage ==
    final.status # "running" /\ final.fidelity = "complete" =>
        \A r \in DOMAIN EventOf : final.used[r] = final.count[EventOf[r]]

(* docs/v1.0/design.md 9.5, item 6, for graph steps.                       *)
StepsMatchTrace ==
    final.status # "running" /\ final.fidelity = "complete" =>
        final.used["graph_steps"] = final.count["node.started"]

(* docs/v1.0/design.md 9.5, item 3: every node.started has its partner.    *)
NodesPaired ==
    final.status # "running" /\ final.fidelity = "complete" =>
        final.count["node.started"] =
            final.count["node.ended"] + final.count["interrupt.created"]

(* docs/v1.0/design.md 9.5, item 4: every provider attempt has an end.     *)
AttemptsEnd ==
    final.status # "running" /\ final.fidelity = "complete" =>
        final.count["tool.attempt"] =
            final.count["tool.retry"] + final.count["tool.ended"]

(* docs/v1.0/design.md 9.5, item 7: sequence numbers are unique.           *)
NumbersUnique == Cardinality(numbers) = length
=============================================================================

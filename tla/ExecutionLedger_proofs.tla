---------------------- MODULE ExecutionLedger_proofs ----------------------
(***************************************************************************)
(* Proofs about ExecutionLedger, for every budget that validate_reserves   *)
(* accepts, every number of concurrent tool calls and every graph.         *)
(*                                                                         *)
(* The inductive invariant Inv has seven parts beside TypeOK.  ControlInv  *)
(* says which events and errors are possible where; StepInv, LimitInv and  *)
(* PaidInv are the arithmetic of the ledger, LengthInv and TraceInv that   *)
(* of the trace, each counting what a thread has taken but not appended.   *)
(* NumberInv says how far the numbers tell of events that are not stored.  *)
(***************************************************************************)
EXTENDS ExecutionLedger, FiniteSetTheorems, TLAPS

(* Where an event can be on its way, and which errors can be met where.    *)
ControlInv ==
    /\ at \notin {"starting", "ending"} => pending["executor"] = "none"
    /\ at \in {"starting", "ending", "noting"} => node \in SyncKinds
    /\ at \in {"routing", "starting", "running", "noting"} => cause = "none"
    /\ at = "running" /\ node = "tools" => call[Model] = "off"
    /\ \A c \in Tools : call[c] \notin ModelLimits
    /\ broken \in {"none", "error", "deadline", "checkpoint_writes"}
    /\ pending["loop"] \in {"none", "dropped", "checkpoint.written", "checkpoint.failed"}
    /\ pending["executor"] \in {"none", "dropped", "node.started", "node.ended",
                                "interrupt.created"}
    /\ at = "over" <=> final.status # "running"

(* Steps beyond the normal ones have been taken by terminal nodes.         *)
StepInv == used["graph_steps"] + StepReserve <= Limit["graph_steps"] + closing

LimitInv == \A r \in Metered : used[r] <= Limit[r]

Queued == {c \in Tools : call[c] = "queued"}
ModelQueued == IF call[Model] = "queued" THEN 1 ELSE 0

(* Every request that was sent, or waits to be sent, has been paid for.    *)
PaidInv ==
    /\ spent["provider_attempts"] + Cardinality(Queued) <= used["provider_attempts"]
    /\ spent["llm_attempts"] + ModelQueued <= used["llm_attempts"]

Slot(t, k) == IF pending[t] = k THEN 1 ELSE 0

(* Until the trace drops an event, it agrees with the ledger up to the     *)
(* events that a thread is about to append.                                *)
TraceInv ==
    fidelity = "complete" =>
        /\ \A t \in Threads : pending[t] # "dropped"
        /\ used["tool_calls"] = count["tool.started"]
        /\ used["provider_attempts"] = count["tool.attempt"]
        /\ used["cache_hits"] = count["tool.cache_hit"]
        /\ used["llm_calls"] = count["llm.started"]
        /\ used["llm_attempts"] = count["llm.attempt"]
        /\ used["interrupts"] = count["interrupt.created"]
                                + Slot("executor", "interrupt.created")
        /\ used["checkpoint_writes"] = count["checkpoint.written"]
                                       + Slot("loop", "checkpoint.written")

Open(t) == IF pending[t] \in {"none", "dropped"} THEN 0 ELSE 1

(* Two threads that pass the limit together overrun it by one event.       *)
LengthInv ==
    /\ count["run.started"] = 1
    /\ at # "over" => /\ count["run.ended"] = 0
                      /\ length + Open("loop") + Open("executor") <= NormalLimit + 1

(* An event that shares its number with an earlier one leaves a gap, and   *)
(* without gaps every event is kept.                                       *)
NumberInv ==
    /\ numbers \subseteq 1..length
    /\ \A t \in Threads : Open(t) = 1 => number[t] \in 1..(length + 1)
    /\ \A k \in Kinds : kept[k] <= count[k]
    /\ 1..length \subseteq numbers => kept = count
    /\ kept["run.started"] = 1
    /\ at # "over" => kept["run.ended"] = 0

Inv == /\ TypeOK /\ ControlInv /\ StepInv /\ LimitInv /\ PaidInv
       /\ TraceInv /\ LengthInv /\ NumberInv

-----------------------------------------------------------------------------
(* The part of TypeOK about the trace.                                     *)
TraceTyped ==
    /\ count \in [Kinds -> Nat] /\ kept \in [Kinds -> Nat] /\ length \in Nat /\ numbers \subseteq Nat
    /\ fidelity \in {"complete", "degraded"}
    /\ pending \in [Threads -> Kinds \cup {"none", "dropped"}]
    /\ number \in [Threads -> Nat]

(* The operations of the recorder preserve the types of the trace.         *)
LEMMA TraceTypes ==
  ASSUME TraceTyped
  PROVE  /\ \A k \in Kinds : RecordNow(k) => TraceTyped'
         /\ \A t \in Threads, k \in Kinds : TakeNumber(t, k) => TraceTyped'
         /\ \A t \in Threads : Append(t) => TraceTyped'
<1>1. ASSUME NEW k \in Kinds, RecordNow(k) PROVE TraceTyped'
  <2>1. CASE length >= NormalLimit
    BY <1>1, <2>1 DEF TraceTyped, RecordNow, Degrade, slotVars
  <2>2. CASE ~(length >= NormalLimit)
    <3>1. count' \in [Kinds -> Nat] /\ kept' \in [Kinds -> Nat]
      BY <1>1, <2>2 DEF TraceTyped, RecordNow, Added
    <3>2. length' \in Nat
      BY <1>1, <2>2 DEF TraceTyped, RecordNow, Added
    <3>3. numbers' \subseteq Nat
      <4>1. numbers' = numbers \cup {length + 1}
        BY <1>1, <2>2 DEF RecordNow, Added
      <4>2. length + 1 \in Nat
        BY DEF TraceTyped
      <4> QED BY <4>1, <4>2 DEF TraceTyped
    <3>4. UNCHANGED <<fidelity, pending, number>>
      BY <1>1, <2>2 DEF RecordNow, Added, slotVars
    <3> QED BY <3>1, <3>2, <3>3, <3>4 DEF TraceTyped
  <2> QED BY <2>1, <2>2
<1>2. ASSUME NEW t \in Threads, NEW k \in Kinds, TakeNumber(t, k) PROVE TraceTyped'
  <2>1. pending' \in [Threads -> Kinds \cup {"none", "dropped"}]
    BY <1>2 DEF TraceTyped, TakeNumber
  <2>2. number' \in [Threads -> Nat]
    BY <1>2 DEF TraceTyped, TakeNumber
  <2>3. UNCHANGED <<count, kept, length, numbers>> /\ fidelity' \in {fidelity, "degraded"}
    BY <1>2 DEF TakeNumber, Degrade, traceVars
  <2> QED BY <2>1, <2>2, <2>3 DEF TraceTyped
<1>3. ASSUME NEW t \in Threads, Append(t) PROVE TraceTyped'
  <2>1. pending[t] # "dropped" => pending[t] \in Kinds /\ number[t] \in Nat
    BY <1>3 DEF TraceTyped, Append
  <2>2. /\ count' \in [Kinds -> Nat] /\ kept' \in [Kinds -> Nat]
        /\ length' \in Nat
        /\ numbers' \subseteq Nat
        /\ fidelity' = fidelity
    <3>1. CASE pending[t] = "dropped"
      BY <1>3, <3>1 DEF TraceTyped, Append, traceVars
    <3>2. CASE pending[t] # "dropped"
      <4>1. count' \in [Kinds -> Nat] /\ kept' \in [Kinds -> Nat]
        BY <1>3, <2>1, <3>2 DEF TraceTyped, Append, Added
      <4>2. length' \in Nat /\ fidelity' = fidelity
        BY <1>3, <3>2 DEF TraceTyped, Append, Added
      <4>3. numbers' \subseteq Nat
        BY <1>3, <2>1, <3>2 DEF TraceTyped, Append, Added
      <4> QED BY <4>1, <4>2, <4>3
    <3> QED BY <3>1, <3>2
  <2>3. pending' \in [Threads -> Kinds \cup {"none", "dropped"}]
        /\ number' \in [Threads -> Nat]
    BY <1>3 DEF TraceTyped, Append
  <2> QED BY <2>2, <2>3 DEF TraceTyped
<1> QED BY <1>1, <1>2, <1>3

(* So does an increment of the ledger.                                     *)
LEMMA ConsumeTypes ==
  ASSUME used \in [Resources -> Nat], NEW r \in Resources, Consume(r)
  PROVE  used' \in [Resources -> Nat]
BY DEF Consume

(* An exhausted resource or a deadline ends the run as a budget error.     *)
LEMMA Reasons == \A r \in Resources : Reason(r) \in BudgetCauses
BY DEF Reason, BudgetCauses


(* Every step preserves the types.                                         *)
LEMMA TypeStep ==
  ASSUME TypeOK, [Next]_vars
  PROVE  TypeOK'
<1>1. CASE DeadlinePasses
  BY <1>1
     DEF DeadlinePasses, traceVars, slotVars, graphVars, callVars, saveVars,
         TypeOK
<1>2. ASSUME NEW k \in NodeKinds, RefuseNode(k) PROVE TypeOK'
  BY <1>2, LedgerAssumption, ConsumeTypes, Reasons
     DEF RefuseNode, traceVars, slotVars, callVars, saveVars, TypeOK, Causes,
         Resources
<1>3. ASSUME NEW k \in NodeKinds, AdmitNode(k) PROVE TypeOK'
  BY <1>3, LedgerAssumption, TraceTypes, ConsumeTypes, Reasons
     DEF AdmitNode, Within, StepLimit, Fan, ledgerVars, traceVars, slotVars,
         graphVars, callVars, saveVars, TypeOK, Record, Causes, BudgetCauses,
         Resources, Kinds, Effects, Threads, CallStates, SyncKinds, AsyncKinds,
         TerminalKinds, Calls, TraceTyped
<1>4. ASSUME NEW c \in Causes, SyncNodeEnds(c) PROVE TypeOK'
  BY <1>4, TraceTypes, ConsumeTypes
     DEF SyncNodeEnds, ledgerVars, traceVars, slotVars, graphVars, callVars,
         saveVars, TypeOK, Kinds, Threads, TraceTyped
<1>5. CASE Interrupts
  <2>1. CASE Within("interrupts", 1, Limit["interrupts"])
    BY <1>5, <2>1, TraceTypes, ConsumeTypes
       DEF Interrupts, ledgerVars, traceVars, slotVars, graphVars, callVars,
           saveVars, TypeOK, Causes, Resources, Kinds, Threads, TraceTyped
  <2>2. CASE ~Within("interrupts", 1, Limit["interrupts"])
    <3>1. UNCHANGED <<used, traceVars, slotVars>> /\ at' = "leaving" /\ cause' = Reason("interrupts")
      BY <1>5, <2>2 DEF Interrupts
    <3>2. Reason("interrupts") \in BudgetCauses
      BY Reasons DEF AttemptOf, Resources
    <3> QED
      BY <1>5, <3>1, <3>2
         DEF Interrupts, traceVars, slotVars, callVars, saveVars, TypeOK, Causes
  <2> QED BY <2>1, <2>2
<1>6. CASE NodeEventAppended
  BY <1>6, TraceTypes
     DEF NodeEventAppended, AfterEnd, ledgerVars, callVars, TypeOK, Threads,
         TraceTyped
<1>7. ASSUME NEW f \in Prints, NotePrint(f) PROVE TypeOK'
  BY <1>7
     DEF NotePrint, traceVars, slotVars, callVars, saveVars, TypeOK, Causes,
         BudgetCauses
<1>8. CASE GraphReturns
  BY <1>8
     DEF GraphReturns, ledgerVars, traceVars, slotVars, callVars, saveVars,
         TypeOK, Causes
<1>9. CASE EndRun
  <2> DEFINE exceeded == IF cause' \in BudgetCauses THEN 1 ELSE 0
             alert == IF length < MaxEvents THEN exceeded ELSE 0
             ended == IF length + alert < MaxEvents THEN 1 ELSE 0
             Closed(c) == [c EXCEPT !["budget.exceeded"] = @ + alert,
                                    !["run.ended"] = @ + ended]
  <2>1. alert \in {0, 1} /\ ended \in {0, 1}
    OBVIOUS
  <2>2. /\ count' = Closed(count) /\ kept' = Closed(kept)
        /\ length' = length + alert + ended
        /\ numbers' = numbers \cup (length + 1)..(length + alert + ended)
        /\ fidelity' \in {fidelity, "degraded"}
    BY <1>9 DEF EndRun
  <2>3. /\ count' \in [Kinds -> Nat] /\ kept' \in [Kinds -> Nat]
        /\ length' \in Nat
    BY <2>1, <2>2 DEF TypeOK, Kinds
  <2>4. numbers' \subseteq Nat
    BY <2>1, <2>2 DEF TypeOK
  <2>5. fidelity' \in {"complete", "degraded"}
    BY <2>2 DEF TypeOK
  <2>6. cause' \in Causes
    BY <1>9 DEF EndRun, TypeOK
  <2>7. final' \in Record
    BY <1>9, <2>3, <2>4, <2>5 DEF EndRun, Rows, TypeOK, Record, Status, ledgerVars
  <2> QED
    BY <1>9, <2>3, <2>4, <2>5, <2>6, <2>7
       DEF EndRun, TypeOK, ledgerVars, slotVars, callVars, saveVars
<1>10. ASSUME NEW c \in Calls, BeginTool(c) PROVE TypeOK'
  <2>1. CASE Within("tool_calls", 1, Limit["tool_calls"])
    BY <1>10, <2>1, LedgerAssumption, TraceTypes, ConsumeTypes
       DEF BeginTool, CallGoes, callFrame, ledgerVars, traceVars, slotVars,
           graphVars, callVars, saveVars, TypeOK, Record, Resources, Kinds,
           Effects, CallStates, TerminalKinds, TraceTyped
  <2>2. CASE ~Within("tool_calls", 1, Limit["tool_calls"])
    <3>1. UNCHANGED <<used, traceVars, slotVars>> /\ CallGoes(c, Reason("tool_calls"))
      BY <1>10, <2>2 DEF BeginTool
    <3>2. Reason("tool_calls") \in BudgetCauses
      BY Reasons DEF AttemptOf, Resources
    <3> QED
      BY <1>10, <3>1, <3>2
         DEF BeginTool, CallGoes, callFrame, traceVars, slotVars, graphVars,
             saveVars, TypeOK
  <2> QED BY <2>1, <2>2
<1>11. ASSUME NEW n \in Sizes, BeginModel(n) PROVE TypeOK'
  <2>1. CASE CallGoes(Model, Reason("llm_calls")) /\ UNCHANGED <<used, traceVars, slotVars>>
    <3>1. Reason("llm_calls") \in BudgetCauses
      BY Reasons DEF Resources
    <3> QED
      BY <1>11, <2>1, <3>1
         DEF BeginModel, CallGoes, callFrame, traceVars, slotVars, graphVars,
             saveVars, TypeOK
  <2>2. CASE CallGoes(Model, "llm_input_chars") /\ UNCHANGED <<used, traceVars, slotVars>>
    BY <1>11, <2>2
       DEF BeginModel, CallGoes, callFrame, traceVars, slotVars, graphVars,
           saveVars, TypeOK, BudgetCauses, Resources
  <2>3. CASE /\ used' = [used EXCEPT !["llm_calls"] = @ + 1,
                                  !["llm_input_chars"] = @ + n]
             /\ RecordNow("llm.started") /\ CallGoes(Model, "begun")
    <3>1. used' \in [Resources -> Nat]
      BY <2>3, LedgerAssumption DEF TypeOK, Resources
    <3>2. TraceTyped'
      BY <2>3, TraceTypes DEF TypeOK, TraceTyped, Kinds
    <3> QED
      BY <1>11, <2>3, <3>1, <3>2
         DEF BeginModel, CallGoes, callFrame, traceVars, slotVars, graphVars,
             saveVars, TypeOK, CallStates, TraceTyped
  <2>4. CASE ~Within("llm_calls", 1, Limit["llm_calls"])
    BY <1>11, <2>1, <2>4 DEF BeginModel
  <2>5. CASE Within("llm_calls", 1, Limit["llm_calls"])
    BY <1>11, <2>2, <2>3, <2>5 DEF BeginModel
  <2> QED BY <2>4, <2>5
<1>12. ASSUME NEW c \in Calls, CacheHit(c) PROVE TypeOK'
  BY <1>12, LedgerAssumption, TraceTypes, ConsumeTypes
     DEF CacheHit, CallGoes, callFrame, ledgerVars, traceVars, slotVars,
         graphVars, callVars, saveVars, TypeOK, Record, Resources, Kinds,
         Effects, CallStates, TerminalKinds, TraceTyped
<1>13. ASSUME NEW c \in Calls, Attempt(c) PROVE TypeOK'
  <2>1. CASE Within(AttemptOf(c), 1, Limit[AttemptOf(c)])
    BY <1>13, <2>1, LedgerAssumption, TraceTypes, ConsumeTypes, Reasons
       DEF Attempt, CallGoes, callFrame, AttemptOf, AttemptEvent, ledgerVars,
           traceVars, slotVars, graphVars, callVars, saveVars, TypeOK, Record,
           Causes, BudgetCauses, Resources, Kinds, Effects, Threads, CallStates,
           SyncKinds, AsyncKinds, TerminalKinds, Calls, TraceTyped
  <2>2. CASE ~Within(AttemptOf(c), 1, Limit[AttemptOf(c)])
    <3>1. UNCHANGED <<used, traceVars, slotVars, tries>> /\ CallGoes(c, Reason(AttemptOf(c)))
      BY <1>13, <2>2 DEF Attempt
    <3>2. Reason(AttemptOf(c)) \in BudgetCauses
      BY Reasons DEF AttemptOf, Resources
    <3> QED
      BY <1>13, <3>1, <3>2
         DEF Attempt, CallGoes, callFrame, AttemptOf, AttemptEvent, traceVars,
             slotVars, graphVars, saveVars, TypeOK
  <2> QED BY <2>1, <2>2
<1>14. ASSUME NEW c \in Calls, Send(c) PROVE TypeOK'
  BY <1>14
     DEF Send, CallGoes, callFrame, AttemptOf, traceVars, slotVars, graphVars,
         saveVars, TypeOK, BudgetCauses, CallStates
<1>15. ASSUME NEW c \in Calls, ToolAnswers(c) PROVE TypeOK'
  BY <1>15, LedgerAssumption, TraceTypes, ConsumeTypes
     DEF ToolAnswers, CallGoes, callFrame, ledgerVars, traceVars, slotVars,
         graphVars, callVars, saveVars, TypeOK, Record, Kinds, Effects,
         CallStates, TerminalKinds, TraceTyped
<1>16. ASSUME NEW n \in Sizes \cup {0}, ModelAnswers(n) PROVE TypeOK'
  <2>2. CASE /\ used' = [used EXCEPT !["tokens"] = @ + n]
             /\ RecordNow("llm.ended") /\ CallGoes(Model, "done")
    <3>1. used' \in [Resources -> Nat]
      BY <2>2, LedgerAssumption DEF TypeOK, Resources
    <3>2. TraceTyped'
      BY <2>2, TraceTypes DEF TypeOK, TraceTyped, Kinds
    <3> QED
      BY <1>16, <2>2, <3>1, <3>2
         DEF ModelAnswers, CallGoes, callFrame, traceVars, slotVars, graphVars,
             saveVars, TypeOK, CallStates, TraceTyped
  <2>3. CASE CallGoes(Model, "tokens") /\ UNCHANGED <<used, traceVars, slotVars>>
    BY <1>16, <2>3
       DEF ModelAnswers, CallGoes, callFrame, traceVars, slotVars, graphVars,
           saveVars, TypeOK, BudgetCauses, Resources
  <2> QED BY <1>16, <2>2, <2>3 DEF ModelAnswers
<1>17. ASSUME NEW c \in Calls, CallFails(c) PROVE TypeOK'
  BY <1>17, TraceTypes
     DEF CallFails, CallGoes, callFrame, RetryEvent, EndEvent, graphVars,
         saveVars, TypeOK, Kinds, CallStates, TraceTyped
<1>18. ASSUME NEW c \in Calls, GatherRaises(c) PROVE TypeOK'
  BY <1>18, LedgerAssumption, TraceTypes, ConsumeTypes
     DEF GatherRaises, Raised, AsyncNodeGoes, ledgerVars, traceVars, slotVars,
         graphVars, callVars, saveVars, TypeOK, Record, Causes, Kinds, Effects,
         TraceTyped
<1>19. CASE CriticDegrades
  BY <1>19, LedgerAssumption, TraceTypes, ConsumeTypes
     DEF CriticDegrades, Raised, CallGoes, callFrame, ledgerVars, traceVars,
         slotVars, graphVars, callVars, saveVars, TypeOK, Record, Kinds,
         Effects, Threads, CallStates, TerminalKinds, TraceTyped
<1>20. CASE AsyncNodeEnds
  BY <1>20, TraceTypes
     DEF AsyncNodeEnds, AllSettled, AsyncNodeGoes, ledgerVars, callVars, TypeOK,
         Causes, Kinds, TraceTyped
<1>21. CASE WriteCheckpoint
  <2>1. CASE Within("checkpoint_writes", 1, Limit["checkpoint_writes"])
    BY <1>21, <2>1, LedgerAssumption, TraceTypes, ConsumeTypes, Reasons
       DEF WriteCheckpoint, ledgerVars, traceVars, slotVars, graphVars,
           callVars, saveVars, TypeOK, Record, Causes, BudgetCauses, Resources,
           Kinds, Effects, Threads, CallStates, SyncKinds, AsyncKinds,
           TerminalKinds, Calls, TraceTyped
  <2>2. CASE ~Within("checkpoint_writes", 1, Limit["checkpoint_writes"])
    <3>1. UNCHANGED <<used, traceVars, slotVars>> /\ broken' = Reason("checkpoint_writes")
      BY <1>21, <2>2 DEF WriteCheckpoint
    <3>2. Reason("checkpoint_writes") \in BudgetCauses
      BY Reasons DEF AttemptOf, Resources
    <3> QED
      BY <1>21, <3>1, <3>2
         DEF WriteCheckpoint, traceVars, slotVars, graphVars, callVars, TypeOK,
             Causes, Effects
  <2> QED BY <2>1, <2>2
<1>22. CASE CheckpointFails
  BY <1>22, LedgerAssumption, TraceTypes, ConsumeTypes
     DEF CheckpointFails, ledgerVars, traceVars, slotVars, graphVars, callVars,
         saveVars, TypeOK, Record, Causes, BudgetCauses, Kinds, Threads,
         CallStates, Calls, TraceTyped
<1>23. CASE CheckpointEventAppended
  BY <1>23, LedgerAssumption, TraceTypes, ConsumeTypes
     DEF CheckpointEventAppended, ledgerVars, traceVars, slotVars, graphVars,
         callVars, saveVars, TypeOK, Causes, Resources, Effects, Threads,
         CallStates, Calls, TraceTyped
<1>24. CASE UNCHANGED vars
  BY <1>24
     DEF vars, ledgerVars, traceVars, slotVars, graphVars, callVars, saveVars,
         TypeOK
<1> QED BY <1>1, <1>2, <1>3, <1>4, <1>5, <1>6, <1>7, <1>8, <1>9, <1>10, <1>11,
           <1>12, <1>13, <1>14, <1>15, <1>16, <1>17, <1>18, <1>19, <1>20, <1>21,
           <1>22, <1>23, <1>24 DEF Next, Graph, Calling, Saving

(* Every step preserves ControlInv: which events can be on their way, and  *)
(* which errors a call or a write can raise.                               *)
LEMMA ControlStep ==
  ASSUME TypeOK, ControlInv, [Next]_vars
  PROVE  ControlInv'
<1>1. CASE DeadlinePasses
  BY <1>1
     DEF DeadlinePasses, traceVars, slotVars, graphVars, callVars, saveVars,
         TypeOK, ControlInv
<1>2. ASSUME NEW k \in NodeKinds, RefuseNode(k) PROVE ControlInv'
  BY <1>2
     DEF RefuseNode, Reason, Consume, traceVars, slotVars, callVars, saveVars,
         TypeOK, ControlInv
<1>3. ASSUME NEW k \in NodeKinds, AdmitNode(k) PROVE ControlInv'
  BY <1>3, LedgerAssumption
     DEF AdmitNode, Fan, RecordNow, TakeNumber, traceVars, slotVars, saveVars,
         TypeOK, ControlInv, ModelLimits, Threads, Calls
<1>4. ASSUME NEW c \in Causes, SyncNodeEnds(c) PROVE ControlInv'
  BY <1>4
     DEF SyncNodeEnds, Reason, TakeNumber, ledgerVars, traceVars, callVars,
         saveVars, TypeOK, ControlInv, Threads
<1>5. CASE Interrupts
  BY <1>5
     DEF Interrupts, Reason, Consume, TakeNumber, traceVars, slotVars, callVars,
         saveVars, TypeOK, ControlInv, AsyncKinds, Threads
<1>6. CASE NodeEventAppended
  BY <1>6
     DEF NodeEventAppended, Append, AfterEnd, ledgerVars, traceVars, callVars,
         TypeOK, ControlInv, SyncKinds, Threads
<1>7. ASSUME NEW f \in Prints, NotePrint(f) PROVE ControlInv'
  BY <1>7
     DEF NotePrint, traceVars, slotVars, callVars, saveVars, TypeOK, ControlInv
<1>8. CASE GraphReturns
  BY <1>8
     DEF GraphReturns, ledgerVars, traceVars, slotVars, callVars, saveVars,
         TypeOK, ControlInv
<1>9. CASE EndRun
  BY <1>9
     DEF EndRun, Status, ledgerVars, slotVars, callVars, saveVars, TypeOK,
         ControlInv
<1>10. ASSUME NEW c \in Calls, BeginTool(c) PROVE ControlInv'
  BY <1>10
     DEF BeginTool, Reason, Consume, RecordNow, CallGoes, callFrame, traceVars,
         slotVars, graphVars, saveVars, TypeOK, ControlInv, ModelLimits, Calls
<1>11. ASSUME NEW n \in Sizes, BeginModel(n) PROVE ControlInv'
  BY <1>11, LedgerAssumption
     DEF BeginModel, Reason, RecordNow, CallGoes, callFrame, traceVars,
         slotVars, graphVars, saveVars, TypeOK, ControlInv, Calls
<1>12. ASSUME NEW c \in Calls, CacheHit(c) PROVE ControlInv'
  BY <1>12
     DEF CacheHit, Consume, RecordNow, CallGoes, callFrame, slotVars, graphVars,
         saveVars, TypeOK, ControlInv, ModelLimits
<1>13. ASSUME NEW c \in Calls, Attempt(c) PROVE ControlInv'
  BY <1>13, LedgerAssumption
     DEF Attempt, Reason, Consume, RecordNow, CallGoes, callFrame, AttemptOf,
         AttemptEvent, traceVars, slotVars, graphVars, saveVars, TypeOK,
         ControlInv, ModelLimits, Calls
<1>14. ASSUME NEW c \in Calls, Send(c) PROVE ControlInv'
  BY <1>14
     DEF Send, CallGoes, callFrame, AttemptOf, traceVars, slotVars, graphVars,
         saveVars, TypeOK, ControlInv, ModelLimits, Calls
<1>15. ASSUME NEW c \in Calls, ToolAnswers(c) PROVE ControlInv'
  BY <1>15
     DEF ToolAnswers, RecordNow, CallGoes, callFrame, slotVars, graphVars,
         saveVars, TypeOK, ControlInv, ModelLimits
<1>16. ASSUME NEW n \in Sizes \cup {0}, ModelAnswers(n) PROVE ControlInv'
  BY <1>16, LedgerAssumption
     DEF ModelAnswers, RecordNow, CallGoes, callFrame, traceVars, slotVars,
         graphVars, saveVars, TypeOK, ControlInv, Calls
<1>17. ASSUME NEW c \in Calls, CallFails(c) PROVE ControlInv'
  BY <1>17
     DEF CallFails, RecordNow, CallGoes, callFrame, RetryEvent, EndEvent,
         slotVars, graphVars, saveVars, TypeOK, ControlInv, ModelLimits, Calls
<1>18. ASSUME NEW c \in Calls, GatherRaises(c) PROVE ControlInv'
  BY <1>18
     DEF GatherRaises, Raised, AsyncNodeGoes, RecordNow, ledgerVars, slotVars,
         callVars, TypeOK, ControlInv
<1>19. CASE CriticDegrades
  BY <1>19
     DEF CriticDegrades, Raised, RecordNow, CallGoes, callFrame, slotVars,
         graphVars, saveVars, TypeOK, ControlInv, ModelLimits
<1>20. CASE AsyncNodeEnds
  BY <1>20
     DEF AsyncNodeEnds, AllSettled, AsyncNodeGoes, RecordNow, ledgerVars,
         slotVars, callVars, TypeOK, ControlInv
<1>21. CASE WriteCheckpoint
  BY <1>21
     DEF WriteCheckpoint, Reason, Consume, TakeNumber, traceVars, slotVars,
         graphVars, callVars, TypeOK, ControlInv, Threads
<1>22. CASE CheckpointFails
  BY <1>22
     DEF CheckpointFails, TakeNumber, ledgerVars, traceVars, graphVars,
         callVars, TypeOK, ControlInv, Threads
<1>23. CASE CheckpointEventAppended
  BY <1>23
     DEF CheckpointEventAppended, Append, ledgerVars, traceVars, graphVars,
         callVars, saveVars, TypeOK, ControlInv
<1>24. CASE UNCHANGED vars
  BY <1>24
     DEF vars, ledgerVars, traceVars, slotVars, graphVars, callVars, saveVars,
         ControlInv
<1> QED BY <1>1, <1>2, <1>3, <1>4, <1>5, <1>6, <1>7, <1>8, <1>9, <1>10, <1>11,
           <1>12, <1>13, <1>14, <1>15, <1>16, <1>17, <1>18, <1>19, <1>20, <1>21,
           <1>22, <1>23, <1>24 DEF Next, Graph, Calling, Saving

(* Every step preserves StepInv: steps beyond the normal ones are steps of *)
(* terminal nodes.                                                         *)
LEMMA StepStep ==
  ASSUME TypeOK, StepInv, [Next]_vars
  PROVE  StepInv'
<1>1. CASE DeadlinePasses
  BY <1>1
     DEF DeadlinePasses, traceVars, slotVars, graphVars, callVars, saveVars,
         TypeOK, StepInv
<1>2. ASSUME NEW k \in NodeKinds, RefuseNode(k) PROVE StepInv'
  BY <1>2, LedgerAssumption
     DEF RefuseNode, Within, Reason, Consume, StepLimit, traceVars, slotVars,
         callVars, saveVars, TypeOK, StepInv, TerminalKinds
<1>3. ASSUME NEW k \in NodeKinds, AdmitNode(k) PROVE StepInv'
  BY <1>3, LedgerAssumption
     DEF AdmitNode, Within, StepLimit, Fan, RecordNow, TakeNumber, traceVars,
         slotVars, saveVars, TypeOK, Resources, StepInv
<1>4. ASSUME NEW c \in Causes, SyncNodeEnds(c) PROVE StepInv'
  BY <1>4
     DEF SyncNodeEnds, Reason, TakeNumber, ledgerVars, traceVars, callVars,
         saveVars, TypeOK, StepInv
<1>5. CASE Interrupts
  BY <1>5
     DEF Interrupts, Reason, Consume, TakeNumber, traceVars, slotVars, callVars,
         saveVars, TypeOK, Resources, StepInv
<1>6. CASE NodeEventAppended
  BY <1>6
     DEF NodeEventAppended, Append, AfterEnd, ledgerVars, traceVars, callVars,
         TypeOK, StepInv
<1>7. ASSUME NEW f \in Prints, NotePrint(f) PROVE StepInv'
  BY <1>7
     DEF NotePrint, traceVars, slotVars, callVars, saveVars, TypeOK, StepInv
<1>8. CASE GraphReturns
  BY <1>8
     DEF GraphReturns, ledgerVars, traceVars, slotVars, callVars, saveVars,
         TypeOK, StepInv
<1>9. CASE EndRun
  BY <1>9
     DEF EndRun, Status, ledgerVars, slotVars, callVars, saveVars, TypeOK,
         StepInv
<1>10. ASSUME NEW c \in Calls, BeginTool(c) PROVE StepInv'
  BY <1>10
     DEF BeginTool, Reason, Consume, RecordNow, CallGoes, callFrame, traceVars,
         slotVars, graphVars, saveVars, TypeOK, Resources, StepInv
<1>11. ASSUME NEW n \in Sizes, BeginModel(n) PROVE StepInv'
  BY <1>11
     DEF BeginModel, Reason, RecordNow, CallGoes, callFrame, traceVars,
         slotVars, graphVars, saveVars, TypeOK, Resources, StepInv
<1>12. ASSUME NEW c \in Calls, CacheHit(c) PROVE StepInv'
  BY <1>12
     DEF CacheHit, Consume, RecordNow, CallGoes, callFrame, slotVars, graphVars,
         saveVars, TypeOK, StepInv
<1>13. ASSUME NEW c \in Calls, Attempt(c) PROVE StepInv'
  BY <1>13
     DEF Attempt, Reason, Consume, RecordNow, CallGoes, callFrame, AttemptOf,
         AttemptEvent, traceVars, slotVars, graphVars, saveVars, TypeOK,
         Resources, StepInv
<1>14. ASSUME NEW c \in Calls, Send(c) PROVE StepInv'
  BY <1>14
     DEF Send, CallGoes, callFrame, AttemptOf, traceVars, slotVars, graphVars,
         saveVars, TypeOK, StepInv
<1>15. ASSUME NEW c \in Calls, ToolAnswers(c) PROVE StepInv'
  BY <1>15
     DEF ToolAnswers, RecordNow, CallGoes, callFrame, slotVars, graphVars,
         saveVars, TypeOK, StepInv
<1>16. ASSUME NEW n \in Sizes \cup {0}, ModelAnswers(n) PROVE StepInv'
  BY <1>16
     DEF ModelAnswers, RecordNow, CallGoes, callFrame, traceVars, slotVars,
         graphVars, saveVars, TypeOK, Resources, StepInv
<1>17. ASSUME NEW c \in Calls, CallFails(c) PROVE StepInv'
  BY <1>17
     DEF CallFails, RecordNow, CallGoes, callFrame, RetryEvent, EndEvent,
         slotVars, graphVars, saveVars, TypeOK, StepInv
<1>18. ASSUME NEW c \in Calls, GatherRaises(c) PROVE StepInv'
  BY <1>18
     DEF GatherRaises, Raised, AsyncNodeGoes, RecordNow, ledgerVars, slotVars,
         callVars, TypeOK, StepInv
<1>19. CASE CriticDegrades
  BY <1>19
     DEF CriticDegrades, Raised, RecordNow, CallGoes, callFrame, slotVars,
         graphVars, saveVars, TypeOK, StepInv
<1>20. CASE AsyncNodeEnds
  BY <1>20
     DEF AsyncNodeEnds, AllSettled, AsyncNodeGoes, RecordNow, ledgerVars,
         slotVars, callVars, TypeOK, StepInv
<1>21. CASE WriteCheckpoint
  BY <1>21
     DEF WriteCheckpoint, Reason, Consume, TakeNumber, traceVars, slotVars,
         graphVars, callVars, TypeOK, Resources, StepInv
<1>22. CASE CheckpointFails
  BY <1>22
     DEF CheckpointFails, TakeNumber, ledgerVars, traceVars, graphVars,
         callVars, TypeOK, StepInv
<1>23. CASE CheckpointEventAppended
  BY <1>23
     DEF CheckpointEventAppended, Append, ledgerVars, traceVars, graphVars,
         callVars, saveVars, TypeOK, StepInv
<1>24. CASE UNCHANGED vars
  BY <1>24
     DEF vars, ledgerVars, traceVars, slotVars, graphVars, callVars, saveVars,
         StepInv
<1> QED BY <1>1, <1>2, <1>3, <1>4, <1>5, <1>6, <1>7, <1>8, <1>9, <1>10, <1>11,
           <1>12, <1>13, <1>14, <1>15, <1>16, <1>17, <1>18, <1>19, <1>20, <1>21,
           <1>22, <1>23, <1>24 DEF Next, Graph, Calling, Saving

(* Every step preserves LimitInv: what is checked and added under the lock *)
(* stays within the limit.                                                 *)
LEMMA LimitStep ==
  ASSUME TypeOK, LimitInv, [Next]_vars
  PROVE  LimitInv'
<1>1. CASE DeadlinePasses
  BY <1>1
     DEF DeadlinePasses, traceVars, slotVars, graphVars, callVars, saveVars,
         TypeOK, LimitInv, Metered
<1>2. ASSUME NEW k \in NodeKinds, RefuseNode(k) PROVE LimitInv'
  BY <1>2, LedgerAssumption
     DEF RefuseNode, Within, Reason, Consume, StepLimit, traceVars, slotVars,
         callVars, saveVars, TypeOK, LimitInv, Metered
<1>3. ASSUME NEW k \in NodeKinds, AdmitNode(k) PROVE LimitInv'
  BY <1>3, LedgerAssumption
     DEF AdmitNode, Within, StepLimit, Fan, RecordNow, TakeNumber, traceVars,
         slotVars, saveVars, TypeOK, Resources, LimitInv, Metered
<1>4. ASSUME NEW c \in Causes, SyncNodeEnds(c) PROVE LimitInv'
  BY <1>4
     DEF SyncNodeEnds, Reason, TakeNumber, ledgerVars, traceVars, callVars,
         saveVars, TypeOK, LimitInv, Metered
<1>5. CASE Interrupts
  BY <1>5
     DEF Interrupts, Within, Reason, Consume, TakeNumber, traceVars, slotVars,
         callVars, saveVars, TypeOK, LimitInv, Metered
<1>6. CASE NodeEventAppended
  BY <1>6
     DEF NodeEventAppended, Append, AfterEnd, ledgerVars, traceVars, callVars,
         TypeOK, LimitInv, Metered
<1>7. ASSUME NEW f \in Prints, NotePrint(f) PROVE LimitInv'
  BY <1>7
     DEF NotePrint, traceVars, slotVars, callVars, saveVars, TypeOK, LimitInv,
         Metered
<1>8. CASE GraphReturns
  BY <1>8
     DEF GraphReturns, ledgerVars, traceVars, slotVars, callVars, saveVars,
         TypeOK, LimitInv, Metered
<1>9. CASE EndRun
  BY <1>9
     DEF EndRun, Status, ledgerVars, slotVars, callVars, saveVars, TypeOK,
         LimitInv, Metered
<1>10. ASSUME NEW c \in Calls, BeginTool(c) PROVE LimitInv'
  BY <1>10
     DEF BeginTool, Within, Reason, Consume, RecordNow, CallGoes, callFrame,
         traceVars, slotVars, graphVars, saveVars, TypeOK, LimitInv, Metered
<1>11. ASSUME NEW n \in Sizes, BeginModel(n) PROVE LimitInv'
  BY <1>11, LedgerAssumption
     DEF BeginModel, Within, Reason, RecordNow, CallGoes, callFrame, traceVars,
         slotVars, graphVars, saveVars, TypeOK, LimitInv, Metered
<1>12. ASSUME NEW c \in Calls, CacheHit(c) PROVE LimitInv'
  BY <1>12
     DEF CacheHit, Consume, RecordNow, CallGoes, callFrame, slotVars, graphVars,
         saveVars, TypeOK, LimitInv, Metered
<1>13. ASSUME NEW c \in Calls, Attempt(c) PROVE LimitInv'
  BY <1>13
     DEF Attempt, Within, Reason, Consume, RecordNow, CallGoes, callFrame,
         AttemptOf, AttemptEvent, traceVars, slotVars, graphVars, saveVars,
         TypeOK, LimitInv, Metered
<1>14. ASSUME NEW c \in Calls, Send(c) PROVE LimitInv'
  BY <1>14
     DEF Send, CallGoes, callFrame, AttemptOf, traceVars, slotVars, graphVars,
         saveVars, TypeOK, LimitInv, Metered
<1>15. ASSUME NEW c \in Calls, ToolAnswers(c) PROVE LimitInv'
  BY <1>15
     DEF ToolAnswers, RecordNow, CallGoes, callFrame, slotVars, graphVars,
         saveVars, TypeOK, LimitInv, Metered
<1>16. ASSUME NEW n \in Sizes \cup {0}, ModelAnswers(n) PROVE LimitInv'
  BY <1>16, LedgerAssumption
     DEF ModelAnswers, RecordNow, CallGoes, callFrame, traceVars, slotVars,
         graphVars, saveVars, TypeOK, LimitInv, Metered
<1>17. ASSUME NEW c \in Calls, CallFails(c) PROVE LimitInv'
  BY <1>17
     DEF CallFails, RecordNow, CallGoes, callFrame, RetryEvent, EndEvent,
         slotVars, graphVars, saveVars, TypeOK, LimitInv, Metered
<1>18. ASSUME NEW c \in Calls, GatherRaises(c) PROVE LimitInv'
  BY <1>18
     DEF GatherRaises, Raised, AsyncNodeGoes, RecordNow, ledgerVars, slotVars,
         callVars, TypeOK, LimitInv, Metered
<1>19. CASE CriticDegrades
  BY <1>19
     DEF CriticDegrades, Raised, RecordNow, CallGoes, callFrame, slotVars,
         graphVars, saveVars, TypeOK, LimitInv, Metered
<1>20. CASE AsyncNodeEnds
  BY <1>20
     DEF AsyncNodeEnds, AllSettled, AsyncNodeGoes, RecordNow, ledgerVars,
         slotVars, callVars, TypeOK, LimitInv, Metered
<1>21. CASE WriteCheckpoint
  BY <1>21
     DEF WriteCheckpoint, Within, Reason, Consume, TakeNumber, traceVars,
         slotVars, graphVars, callVars, TypeOK, LimitInv, Metered
<1>22. CASE CheckpointFails
  BY <1>22
     DEF CheckpointFails, TakeNumber, ledgerVars, traceVars, graphVars,
         callVars, TypeOK, LimitInv, Metered
<1>23. CASE CheckpointEventAppended
  BY <1>23
     DEF CheckpointEventAppended, Append, ledgerVars, traceVars, graphVars,
         callVars, saveVars, TypeOK, LimitInv, Metered
<1>24. CASE UNCHANGED vars
  BY <1>24
     DEF vars, ledgerVars, traceVars, slotVars, graphVars, callVars, saveVars,
         LimitInv, Metered
<1> QED BY <1>1, <1>2, <1>3, <1>4, <1>5, <1>6, <1>7, <1>8, <1>9, <1>10, <1>11,
           <1>12, <1>13, <1>14, <1>15, <1>16, <1>17, <1>18, <1>19, <1>20, <1>21,
           <1>22, <1>23, <1>24 DEF Next, Graph, Calling, Saving

(* Every step preserves TraceInv: each increment of the ledger has its     *)
(* event, in the trace or on its way.                                      *)
LEMMA TraceStep ==
  ASSUME TypeOK, ControlInv, TraceInv, [Next]_vars
  PROVE  TraceInv'
<1>1. CASE DeadlinePasses
  BY <1>1
     DEF DeadlinePasses, traceVars, slotVars, graphVars, callVars, saveVars,
         TypeOK, ControlInv, TraceInv, Slot
<1>2. ASSUME NEW k \in NodeKinds, RefuseNode(k) PROVE TraceInv'
  BY <1>2
     DEF RefuseNode, Reason, Consume, traceVars, slotVars, callVars, saveVars,
         TypeOK, Resources, ControlInv, TraceInv, Slot
<1>3. ASSUME NEW k \in NodeKinds, AdmitNode(k) PROVE TraceInv'
  BY <1>3
     DEF AdmitNode, Fan, RecordNow, TakeNumber, Added, Degrade, NormalLimit,
         traceVars, slotVars, saveVars, TypeOK, Resources, Kinds, Threads,
         ControlInv, TraceInv, Slot
<1>4. ASSUME NEW c \in Causes, SyncNodeEnds(c) PROVE TraceInv'
  BY <1>4
     DEF SyncNodeEnds, Reason, TakeNumber, Degrade, NormalLimit, ledgerVars,
         traceVars, callVars, saveVars, TypeOK, Threads, ControlInv, TraceInv,
         Slot
<1>5. CASE Interrupts
  BY <1>5
     DEF Interrupts, Reason, Consume, TakeNumber, Degrade, NormalLimit,
         traceVars, slotVars, callVars, saveVars, TypeOK, Resources, Kinds,
         Threads, ControlInv, TraceInv, Slot
<1>6. CASE NodeEventAppended
  BY <1>6
     DEF NodeEventAppended, Append, Added, AfterEnd, ledgerVars, traceVars,
         callVars, TypeOK, Kinds, Threads, ControlInv, TraceInv, Slot
<1>7. ASSUME NEW f \in Prints, NotePrint(f) PROVE TraceInv'
  BY <1>7
     DEF NotePrint, traceVars, slotVars, callVars, saveVars, TypeOK, ControlInv,
         TraceInv, Slot
<1>8. CASE GraphReturns
  BY <1>8
     DEF GraphReturns, ledgerVars, traceVars, slotVars, callVars, saveVars,
         TypeOK, ControlInv, TraceInv, Slot
<1>9. CASE EndRun
  BY <1>9
     DEF EndRun, Status, ledgerVars, slotVars, callVars, saveVars, TypeOK,
         Kinds, ControlInv, TraceInv, Slot
<1>10. ASSUME NEW c \in Calls, BeginTool(c) PROVE TraceInv'
  BY <1>10
     DEF BeginTool, Reason, Consume, RecordNow, Added, Degrade, NormalLimit,
         CallGoes, callFrame, traceVars, slotVars, graphVars, saveVars, TypeOK,
         Resources, Kinds, ControlInv, TraceInv, Slot
<1>11. ASSUME NEW n \in Sizes, BeginModel(n) PROVE TraceInv'
  BY <1>11
     DEF BeginModel, Reason, RecordNow, Added, Degrade, NormalLimit, CallGoes,
         callFrame, traceVars, slotVars, graphVars, saveVars, TypeOK, Resources,
         Kinds, ControlInv, TraceInv, Slot
<1>12. ASSUME NEW c \in Calls, CacheHit(c) PROVE TraceInv'
  BY <1>12
     DEF CacheHit, Consume, RecordNow, Added, Degrade, NormalLimit, CallGoes,
         callFrame, slotVars, graphVars, saveVars, TypeOK, Resources, Kinds,
         ControlInv, TraceInv, Slot
<1>13. ASSUME NEW c \in Calls, Attempt(c) PROVE TraceInv'
  BY <1>13
     DEF Attempt, Reason, Consume, RecordNow, Added, Degrade, NormalLimit,
         CallGoes, callFrame, AttemptOf, AttemptEvent, traceVars, slotVars,
         graphVars, saveVars, TypeOK, Resources, Kinds, ControlInv, TraceInv,
         Slot
<1>14. ASSUME NEW c \in Calls, Send(c) PROVE TraceInv'
  BY <1>14
     DEF Send, CallGoes, callFrame, AttemptOf, traceVars, slotVars, graphVars,
         saveVars, TypeOK, ControlInv, TraceInv, Slot
<1>15. ASSUME NEW c \in Calls, ToolAnswers(c) PROVE TraceInv'
  BY <1>15
     DEF ToolAnswers, RecordNow, Added, Degrade, NormalLimit, CallGoes,
         callFrame, slotVars, graphVars, saveVars, TypeOK, Kinds, ControlInv,
         TraceInv, Slot
<1>16. ASSUME NEW n \in Sizes \cup {0}, ModelAnswers(n) PROVE TraceInv'
  BY <1>16
     DEF ModelAnswers, RecordNow, Added, Degrade, NormalLimit, CallGoes,
         callFrame, traceVars, slotVars, graphVars, saveVars, TypeOK, Resources,
         Kinds, ControlInv, TraceInv, Slot
<1>17. ASSUME NEW c \in Calls, CallFails(c) PROVE TraceInv'
  BY <1>17
     DEF CallFails, RecordNow, Added, Degrade, NormalLimit, CallGoes, callFrame,
         RetryEvent, EndEvent, slotVars, graphVars, saveVars, TypeOK, Kinds,
         ControlInv, TraceInv, Slot
<1>18. ASSUME NEW c \in Calls, GatherRaises(c) PROVE TraceInv'
  BY <1>18
     DEF GatherRaises, Raised, AsyncNodeGoes, RecordNow, Added, Degrade,
         NormalLimit, ledgerVars, slotVars, callVars, TypeOK, Kinds, ControlInv,
         TraceInv, Slot
<1>19. CASE CriticDegrades
  BY <1>19
     DEF CriticDegrades, Raised, RecordNow, Added, Degrade, NormalLimit,
         CallGoes, callFrame, slotVars, graphVars, saveVars, TypeOK, Kinds,
         ControlInv, TraceInv, Slot
<1>20. CASE AsyncNodeEnds
  BY <1>20
     DEF AsyncNodeEnds, AllSettled, AsyncNodeGoes, RecordNow, Added, Degrade,
         NormalLimit, ledgerVars, slotVars, callVars, TypeOK, Kinds, ControlInv,
         TraceInv, Slot
<1>21. CASE WriteCheckpoint
  BY <1>21
     DEF WriteCheckpoint, Reason, Consume, TakeNumber, Degrade, NormalLimit,
         traceVars, slotVars, graphVars, callVars, TypeOK, Resources, Kinds,
         Threads, ControlInv, TraceInv, Slot
<1>22. CASE CheckpointFails
  BY <1>22
     DEF CheckpointFails, TakeNumber, Degrade, NormalLimit, ledgerVars,
         traceVars, graphVars, callVars, TypeOK, Threads, ControlInv, TraceInv,
         Slot
<1>23. CASE CheckpointEventAppended
  BY <1>23
     DEF CheckpointEventAppended, Append, Added, ledgerVars, traceVars,
         graphVars, callVars, saveVars, TypeOK, Kinds, Threads, ControlInv,
         TraceInv, Slot
<1>24. CASE UNCHANGED vars
  BY <1>24
     DEF vars, ledgerVars, traceVars, slotVars, graphVars, callVars, saveVars,
         ControlInv, TraceInv, Slot
<1> QED BY <1>1, <1>2, <1>3, <1>4, <1>5, <1>6, <1>7, <1>8, <1>9, <1>10, <1>11,
           <1>12, <1>13, <1>14, <1>15, <1>16, <1>17, <1>18, <1>19, <1>20, <1>21,
           <1>22, <1>23, <1>24 DEF Next, Graph, Calling, Saving

(* Every step preserves LengthInv: normal events leave the reserve to the  *)
(* end of the run, up to one event of the other thread.                    *)
LEMMA LengthStep ==
  ASSUME TypeOK, ControlInv, LengthInv, [Next]_vars
  PROVE  LengthInv'
<1>1. CASE DeadlinePasses
  BY <1>1
     DEF DeadlinePasses, traceVars, slotVars, graphVars, callVars, saveVars,
         TypeOK, ControlInv, LengthInv, Open
<1>2. ASSUME NEW k \in NodeKinds, RefuseNode(k) PROVE LengthInv'
  BY <1>2
     DEF RefuseNode, Reason, Consume, traceVars, slotVars, callVars, saveVars,
         TypeOK, ControlInv, LengthInv, Open
<1>3. ASSUME NEW k \in NodeKinds, AdmitNode(k) PROVE LengthInv'
  BY <1>3, LedgerAssumption
     DEF AdmitNode, Fan, RecordNow, TakeNumber, Added, Degrade, NormalLimit,
         traceVars, slotVars, saveVars, TypeOK, Kinds, Threads, ControlInv,
         LengthInv, Open, NormalLimit
<1>4. ASSUME NEW c \in Causes, SyncNodeEnds(c) PROVE LengthInv'
  BY <1>4, LedgerAssumption
     DEF SyncNodeEnds, Reason, TakeNumber, Degrade, NormalLimit, ledgerVars,
         traceVars, callVars, saveVars, TypeOK, Threads, ControlInv, LengthInv,
         Open, NormalLimit
<1>5. CASE Interrupts
  BY <1>5, LedgerAssumption
     DEF Interrupts, Reason, Consume, TakeNumber, Degrade, NormalLimit,
         traceVars, slotVars, callVars, saveVars, TypeOK, Threads, ControlInv,
         LengthInv, Open, NormalLimit
<1>6. CASE NodeEventAppended
  BY <1>6
     DEF NodeEventAppended, Append, Added, AfterEnd, ledgerVars, traceVars,
         callVars, TypeOK, Kinds, Threads, ControlInv, LengthInv, Open,
         NormalLimit
<1>7. ASSUME NEW f \in Prints, NotePrint(f) PROVE LengthInv'
  BY <1>7
     DEF NotePrint, traceVars, slotVars, callVars, saveVars, TypeOK, ControlInv,
         LengthInv, Open
<1>8. CASE GraphReturns
  BY <1>8
     DEF GraphReturns, ledgerVars, traceVars, slotVars, callVars, saveVars,
         TypeOK, ControlInv, LengthInv, Open
<1>9. CASE EndRun
  BY <1>9
     DEF EndRun, Status, ledgerVars, slotVars, callVars, saveVars, TypeOK,
         Kinds, ControlInv, LengthInv, Open
<1>10. ASSUME NEW c \in Calls, BeginTool(c) PROVE LengthInv'
  BY <1>10, LedgerAssumption
     DEF BeginTool, Reason, Consume, RecordNow, Added, Degrade, NormalLimit,
         CallGoes, callFrame, traceVars, slotVars, graphVars, saveVars, TypeOK,
         Kinds, ControlInv, LengthInv, Open, NormalLimit
<1>11. ASSUME NEW n \in Sizes, BeginModel(n) PROVE LengthInv'
  BY <1>11, LedgerAssumption
     DEF BeginModel, Reason, RecordNow, Added, Degrade, NormalLimit, CallGoes,
         callFrame, traceVars, slotVars, graphVars, saveVars, TypeOK, Kinds,
         ControlInv, LengthInv, Open, NormalLimit
<1>12. ASSUME NEW c \in Calls, CacheHit(c) PROVE LengthInv'
  BY <1>12, LedgerAssumption
     DEF CacheHit, Consume, RecordNow, Added, Degrade, NormalLimit, CallGoes,
         callFrame, slotVars, graphVars, saveVars, TypeOK, Kinds, ControlInv,
         LengthInv, Open, NormalLimit
<1>13. ASSUME NEW c \in Calls, Attempt(c) PROVE LengthInv'
  BY <1>13, LedgerAssumption
     DEF Attempt, Reason, Consume, RecordNow, Added, Degrade, NormalLimit,
         CallGoes, callFrame, AttemptOf, AttemptEvent, traceVars, slotVars,
         graphVars, saveVars, TypeOK, Kinds, ControlInv, LengthInv, Open,
         NormalLimit
<1>14. ASSUME NEW c \in Calls, Send(c) PROVE LengthInv'
  BY <1>14
     DEF Send, CallGoes, callFrame, AttemptOf, traceVars, slotVars, graphVars,
         saveVars, TypeOK, ControlInv, LengthInv, Open
<1>15. ASSUME NEW c \in Calls, ToolAnswers(c) PROVE LengthInv'
  BY <1>15, LedgerAssumption
     DEF ToolAnswers, RecordNow, Added, Degrade, NormalLimit, CallGoes,
         callFrame, slotVars, graphVars, saveVars, TypeOK, Kinds, ControlInv,
         LengthInv, Open, NormalLimit
<1>16. ASSUME NEW n \in Sizes \cup {0}, ModelAnswers(n) PROVE LengthInv'
  BY <1>16, LedgerAssumption
     DEF ModelAnswers, RecordNow, Added, Degrade, NormalLimit, CallGoes,
         callFrame, traceVars, slotVars, graphVars, saveVars, TypeOK, Kinds,
         ControlInv, LengthInv, Open, NormalLimit
<1>17. ASSUME NEW c \in Calls, CallFails(c) PROVE LengthInv'
  BY <1>17, LedgerAssumption
     DEF CallFails, RecordNow, Added, Degrade, NormalLimit, CallGoes, callFrame,
         RetryEvent, EndEvent, slotVars, graphVars, saveVars, TypeOK, Kinds,
         ControlInv, LengthInv, Open, NormalLimit
<1>18. ASSUME NEW c \in Calls, GatherRaises(c) PROVE LengthInv'
  BY <1>18, LedgerAssumption
     DEF GatherRaises, Raised, AsyncNodeGoes, RecordNow, Added, Degrade,
         NormalLimit, ledgerVars, slotVars, callVars, TypeOK, Kinds, ControlInv,
         LengthInv, Open, NormalLimit
<1>19. CASE CriticDegrades
  BY <1>19, LedgerAssumption
     DEF CriticDegrades, Raised, RecordNow, Added, Degrade, NormalLimit,
         CallGoes, callFrame, slotVars, graphVars, saveVars, TypeOK, Kinds,
         ControlInv, LengthInv, Open, NormalLimit
<1>20. CASE AsyncNodeEnds
  BY <1>20, LedgerAssumption
     DEF AsyncNodeEnds, AllSettled, AsyncNodeGoes, RecordNow, Added, Degrade,
         NormalLimit, ledgerVars, slotVars, callVars, TypeOK, Kinds, ControlInv,
         LengthInv, Open, NormalLimit
<1>21. CASE WriteCheckpoint
  BY <1>21, LedgerAssumption
     DEF WriteCheckpoint, Reason, Consume, TakeNumber, Degrade, NormalLimit,
         traceVars, slotVars, graphVars, callVars, TypeOK, Threads, ControlInv,
         LengthInv, Open, NormalLimit
<1>22. CASE CheckpointFails
  BY <1>22, LedgerAssumption
     DEF CheckpointFails, TakeNumber, Degrade, NormalLimit, ledgerVars,
         traceVars, graphVars, callVars, TypeOK, Threads, ControlInv, LengthInv,
         Open, NormalLimit
<1>23. CASE CheckpointEventAppended
  BY <1>23
     DEF CheckpointEventAppended, Append, Added, ledgerVars, traceVars,
         graphVars, callVars, saveVars, TypeOK, Kinds, Threads, ControlInv,
         LengthInv, Open, NormalLimit
<1>24. CASE UNCHANGED vars
  BY <1>24
     DEF vars, ledgerVars, traceVars, slotVars, graphVars, callVars, saveVars,
         ControlInv, LengthInv, Open
<1> QED BY <1>1, <1>2, <1>3, <1>4, <1>5, <1>6, <1>7, <1>8, <1>9, <1>10, <1>11,
           <1>12, <1>13, <1>14, <1>15, <1>16, <1>17, <1>18, <1>19, <1>20, <1>21,
           <1>22, <1>23, <1>24 DEF Next, Graph, Calling, Saving

(* What a step does with the trace.  Events of the beginning and of the    *)
(* end of a run are recorded nowhere else.                                 *)
Events == Kinds \ {"run.started", "run.ended"}

TraceMoves ==
    \/ UNCHANGED <<traceVars, slotVars>>
    \/ \E k \in Events : RecordNow(k)
    \/ \E t \in Threads, k \in Events : TakeNumber(t, k)
    \/ \E t \in Threads : Append(t)

LEMMA TraceMoved ==
  ASSUME [Next]_vars
  PROVE  EndRun \/ (TraceMoves /\ (at' # "over" => at # "over"))
<1> DEFINE Goal == TraceMoves /\ (at' # "over" => at # "over")
<1>1. CASE DeadlinePasses
  BY <1>1 DEF DeadlinePasses, graphVars, TraceMoves, Events, Kinds, Threads
<1>2. ASSUME NEW k \in NodeKinds, RefuseNode(k) PROVE Goal
  BY <1>2 DEF RefuseNode, TraceMoves, Events, Kinds, Threads
<1>3. ASSUME NEW k \in NodeKinds, AdmitNode(k) PROVE Goal
  BY <1>3 DEF AdmitNode, TraceMoves, Events, Kinds, Threads
<1>4. ASSUME NEW c \in Causes, SyncNodeEnds(c) PROVE Goal
  BY <1>4 DEF SyncNodeEnds, TraceMoves, Events, Kinds, Threads
<1>5. CASE Interrupts
  BY <1>5 DEF Interrupts, TraceMoves, Events, Kinds, Threads
<1>6. CASE NodeEventAppended
  BY <1>6 DEF NodeEventAppended, TraceMoves, Events, Kinds, Threads
<1>7. ASSUME NEW f \in Prints, NotePrint(f) PROVE Goal
  BY <1>7 DEF NotePrint, TraceMoves, Events, Kinds, Threads
<1>8. CASE GraphReturns
  BY <1>8 DEF GraphReturns, TraceMoves, Events, Kinds, Threads
<1>9. ASSUME NEW c \in Calls, BeginTool(c) PROVE Goal
  BY <1>9 DEF BeginTool, callFrame, graphVars, TraceMoves, Events, Kinds, Threads
<1>10. ASSUME NEW n \in Sizes, BeginModel(n) PROVE Goal
  BY <1>10 DEF BeginModel, callFrame, graphVars, TraceMoves, Events, Kinds, Threads
<1>11. ASSUME NEW c \in Calls, CacheHit(c) PROVE Goal
  BY <1>11 DEF CacheHit, callFrame, graphVars, TraceMoves, Events, Kinds, Threads
<1>12. ASSUME NEW c \in Calls, Attempt(c) PROVE Goal
  BY <1>12 DEF Attempt, AttemptEvent, callFrame, graphVars, TraceMoves, Events, Kinds, Threads
<1>13. ASSUME NEW c \in Calls, Send(c) PROVE Goal
  BY <1>13 DEF Send, callFrame, graphVars, TraceMoves, Events, Kinds, Threads
<1>14. ASSUME NEW c \in Calls, ToolAnswers(c) PROVE Goal
  BY <1>14 DEF ToolAnswers, callFrame, graphVars, TraceMoves, Events, Kinds, Threads
<1>15. ASSUME NEW n \in Sizes \cup {0}, ModelAnswers(n) PROVE Goal
  BY <1>15 DEF ModelAnswers, callFrame, graphVars, TraceMoves, Events, Kinds, Threads
<1>16. ASSUME NEW c \in Calls, CallFails(c) PROVE Goal
  BY <1>16 DEF CallFails, RetryEvent, EndEvent, callFrame, graphVars, TraceMoves, Events, Kinds, Threads
<1>17. ASSUME NEW c \in Calls, GatherRaises(c) PROVE Goal
  BY <1>17 DEF GatherRaises, AsyncNodeGoes, TraceMoves, Events, Kinds, Threads
<1>18. CASE CriticDegrades
  BY <1>18 DEF CriticDegrades, callFrame, graphVars, TraceMoves, Events, Kinds, Threads
<1>19. CASE AsyncNodeEnds
  BY <1>19 DEF AsyncNodeEnds, AsyncNodeGoes, TraceMoves, Events, Kinds, Threads
<1>20. CASE WriteCheckpoint
  BY <1>20 DEF WriteCheckpoint, graphVars, TraceMoves, Events, Kinds, Threads
<1>21. CASE CheckpointFails
  BY <1>21 DEF CheckpointFails, graphVars, TraceMoves, Events, Kinds, Threads
<1>22. CASE CheckpointEventAppended
  BY <1>22 DEF CheckpointEventAppended, graphVars, TraceMoves, Events, Kinds, Threads
<1>23. CASE UNCHANGED vars
  BY <1>23 DEF vars, graphVars, TraceMoves, Events, Kinds, Threads
<1> QED BY <1>1, <1>2, <1>3, <1>4, <1>5, <1>6, <1>7, <1>8, <1>9, <1>10,
           <1>11, <1>12, <1>13, <1>14, <1>15, <1>16, <1>17, <1>18,
           <1>19, <1>20, <1>21, <1>22, <1>23 DEF Next, Graph, Calling,
           Saving

(* Every step preserves NumberInv: an event whose number is new and no     *)
(* greater than the length leaves a gap further up.                        *)
LEMMA NumberStep ==
  ASSUME TypeOK, ControlInv, NumberInv, [Next]_vars
  PROVE  NumberInv'
<1>1. CASE EndRun
  <2> DEFINE exceeded == IF cause' \in BudgetCauses THEN 1 ELSE 0
             alert == IF length < MaxEvents THEN exceeded ELSE 0
             ended == IF length + alert < MaxEvents THEN 1 ELSE 0
             Closed(c) == [c EXCEPT !["budget.exceeded"] = @ + alert,
                                    !["run.ended"] = @ + ended]
  <2>1. alert \in {0, 1} /\ ended \in {0, 1}
    OBVIOUS
  <2>2. /\ count' = Closed(count) /\ kept' = Closed(kept)
        /\ length' = length + alert + ended
        /\ numbers' = numbers \cup (length + 1)..(length + alert + ended)
        /\ at' = "over" /\ pending' = pending /\ number' = number
    BY <1>1 DEF EndRun, slotVars
  <2> HIDE DEF alert, ended
  <2>3. numbers' \subseteq 1..length'
    BY <2>1, <2>2 DEF TypeOK, NumberInv
  <2>4. \A t \in Threads : Open(t)' = 1 => number'[t] \in 1..(length' + 1)
    BY <2>1, <2>2 DEF TypeOK, NumberInv, Open
  <2>5. /\ \A k \in Kinds : kept'[k] <= count'[k]
        /\ kept'["run.started"] = 1
    BY <2>1, <2>2 DEF TypeOK, NumberInv, Kinds
  <2>6. ASSUME 1..length' \subseteq numbers' PROVE kept' = count'
    <3>1. 1..length \subseteq numbers
      BY <2>1, <2>2, <2>6 DEF TypeOK
    <3> QED
      BY <2>2, <3>1 DEF NumberInv
  <2> QED
    BY <2>2, <2>3, <2>4, <2>5, <2>6 DEF NumberInv
<1>2. ASSUME NEW k \in Events, NEW n \in 1..(length + 1), Added(k, n),
             \A t \in Threads : Open(t)' = 1 => Open(t) = 1 /\ number'[t] = number[t],
             at' # "over" => at # "over"
      PROVE  NumberInv'
  <2>1. /\ count' = [count EXCEPT ![k] = @ + 1]
        /\ kept' = IF n \in numbers THEN kept ELSE [kept EXCEPT ![k] = @ + 1]
        /\ length' = length + 1 /\ numbers' = numbers \cup {n}
    BY <1>2 DEF Added
  <2>2. numbers' \subseteq 1..length'
    BY <2>1 DEF TypeOK, NumberInv
  <2>3. \A t \in Threads : Open(t)' = 1 => number'[t] \in 1..(length' + 1)
    BY <1>2, <2>1 DEF TypeOK, NumberInv
  <2>4. \A j \in Kinds : kept'[j] <= count'[j]
    BY <2>1 DEF TypeOK, NumberInv, Events
  <2>5. kept'["run.started"] = 1 /\ (at' # "over" => kept'["run.ended"] = 0)
    BY <1>2, <2>1 DEF TypeOK, NumberInv, Events, Kinds
  <2>6. ASSUME 1..length' \subseteq numbers' PROVE kept' = count'
    <3>1. n = length + 1 /\ n \notin numbers
      BY <2>1, <2>6 DEF TypeOK, NumberInv
    <3>2. 1..length \subseteq numbers
      BY <2>1, <2>6, <3>1 DEF TypeOK
    <3> QED
      BY <2>1, <3>1, <3>2 DEF NumberInv
  <2> QED
    BY <2>2, <2>3, <2>4, <2>5, <2>6 DEF NumberInv
<1>3. ASSUME UNCHANGED <<count, kept, length, numbers>>, at' # "over" => at # "over",
             \A t \in Threads : Open(t)' = 1 =>
                \/ Open(t) = 1 /\ number'[t] = number[t]
                \/ number'[t] = length + 1
      PROVE  NumberInv'
  BY <1>3 DEF NumberInv, TypeOK
<1>4. ASSUME TraceMoves, at' # "over" => at # "over" PROVE NumberInv'
  <2>1. CASE UNCHANGED <<traceVars, slotVars>>
    BY <1>3, <1>4, <2>1 DEF traceVars, slotVars, Open
  <2>2. ASSUME NEW k \in Events, RecordNow(k) PROVE NumberInv'
    <3>1. \A t \in Threads : Open(t)' = Open(t) /\ number'[t] = number[t]
      BY <2>2 DEF RecordNow, slotVars, Open
    <3>2. CASE length >= NormalLimit
      BY <1>3, <1>4, <2>2, <3>1, <3>2 DEF RecordNow, Degrade
    <3>3. CASE ~(length >= NormalLimit)
      BY <1>2, <1>4, <2>2, <3>1, <3>3 DEF RecordNow, TypeOK
    <3> QED BY <3>2, <3>3
  <2>3. ASSUME NEW t \in Threads, NEW k \in Events, TakeNumber(t, k) PROVE NumberInv'
    <3>1. UNCHANGED <<count, kept, length, numbers>>
      BY <2>3 DEF TakeNumber, Degrade, traceVars
    <3>2. \A u \in Threads : Open(u)' = 1 =>
             \/ Open(u) = 1 /\ number'[u] = number[u]
             \/ number'[u] = length + 1
      BY <2>3 DEF TakeNumber, Open, TypeOK
    <3> QED BY <1>3, <1>4, <3>1, <3>2
  <2>4. ASSUME NEW t \in Threads, Append(t) PROVE NumberInv'
    <3>1. \A u \in Threads : Open(u)' = 1 => Open(u) = 1 /\ number'[u] = number[u]
      BY <2>4 DEF Append, Open, TypeOK
    <3>2. CASE pending[t] = "dropped"
      BY <1>3, <1>4, <2>4, <3>1, <3>2 DEF Append, traceVars
    <3>3. CASE pending[t] # "dropped"
      <4>1. pending[t] \in Events /\ Added(pending[t], number[t])
        BY <2>4, <3>3 DEF Append, ControlInv, Events, Kinds, Threads
      <4>2. number[t] \in 1..(length + 1)
        BY <2>4, <3>3 DEF Append, Open, NumberInv
      <4> QED BY <1>2, <1>4, <3>1, <4>1, <4>2
    <3> QED BY <3>2, <3>3
  <2> QED BY <1>4, <2>1, <2>2, <2>3, <2>4 DEF TraceMoves
<1> QED BY <1>1, <1>4, TraceMoved

(* Every step preserves ReserveKept.                                       *)
LEMMA ReserveStep ==
  ASSUME TypeOK, ControlInv, StepInv, ReserveKept, [Next]_vars
  PROVE  ReserveKept'
<1>1. CASE DeadlinePasses
  BY <1>1
     DEF DeadlinePasses, traceVars, slotVars, graphVars, callVars, saveVars,
         TypeOK, ControlInv, StepInv, ReserveKept
<1>2. ASSUME NEW k \in NodeKinds, RefuseNode(k) PROVE ReserveKept'
  BY <1>2, LedgerAssumption
     DEF RefuseNode, Within, Reason, Consume, StepLimit, traceVars, slotVars,
         callVars, saveVars, TypeOK, Resources, ControlInv, StepInv, ReserveKept
<1>3. ASSUME NEW k \in NodeKinds, AdmitNode(k) PROVE ReserveKept'
  BY <1>3
     DEF AdmitNode, Fan, RecordNow, TakeNumber, traceVars, slotVars, saveVars,
         TypeOK, ControlInv, StepInv, ReserveKept
<1>4. ASSUME NEW c \in Causes, SyncNodeEnds(c) PROVE ReserveKept'
  BY <1>4, LedgerAssumption
     DEF SyncNodeEnds, Within, Reason, StepLimit, TakeNumber, ledgerVars,
         traceVars, callVars, saveVars, TypeOK, Resources, ControlInv, StepInv,
         ReserveKept
<1>5. CASE Interrupts
  BY <1>5
     DEF Interrupts, Reason, Consume, TakeNumber, traceVars, slotVars, callVars,
         saveVars, TypeOK, ControlInv, StepInv, ReserveKept
<1>6. CASE NodeEventAppended
  BY <1>6
     DEF NodeEventAppended, Append, AfterEnd, ledgerVars, traceVars, callVars,
         TypeOK, ControlInv, StepInv, ReserveKept
<1>7. ASSUME NEW f \in Prints, NotePrint(f) PROVE ReserveKept'
  BY <1>7
     DEF NotePrint, traceVars, slotVars, callVars, saveVars, TypeOK, ControlInv,
         StepInv, ReserveKept
<1>8. CASE GraphReturns
  BY <1>8
     DEF GraphReturns, ledgerVars, traceVars, slotVars, callVars, saveVars,
         TypeOK, ControlInv, StepInv, ReserveKept
<1>9. CASE EndRun
  BY <1>9
     DEF EndRun, Status, ledgerVars, slotVars, callVars, saveVars, TypeOK,
         ControlInv, StepInv, ReserveKept
<1>10. ASSUME NEW c \in Calls, BeginTool(c) PROVE ReserveKept'
  BY <1>10
     DEF BeginTool, Reason, Consume, RecordNow, CallGoes, callFrame, traceVars,
         slotVars, graphVars, saveVars, TypeOK, ControlInv, StepInv, ReserveKept
<1>11. ASSUME NEW n \in Sizes, BeginModel(n) PROVE ReserveKept'
  BY <1>11
     DEF BeginModel, Reason, RecordNow, CallGoes, callFrame, traceVars,
         slotVars, graphVars, saveVars, TypeOK, ControlInv, StepInv, ReserveKept
<1>12. ASSUME NEW c \in Calls, CacheHit(c) PROVE ReserveKept'
  BY <1>12
     DEF CacheHit, Consume, RecordNow, CallGoes, callFrame, slotVars, graphVars,
         saveVars, TypeOK, ControlInv, StepInv, ReserveKept
<1>13. ASSUME NEW c \in Calls, Attempt(c) PROVE ReserveKept'
  BY <1>13
     DEF Attempt, Reason, Consume, RecordNow, CallGoes, callFrame, AttemptOf,
         AttemptEvent, traceVars, slotVars, graphVars, saveVars, TypeOK,
         ControlInv, StepInv, ReserveKept
<1>14. ASSUME NEW c \in Calls, Send(c) PROVE ReserveKept'
  BY <1>14
     DEF Send, CallGoes, callFrame, AttemptOf, traceVars, slotVars, graphVars,
         saveVars, TypeOK, ControlInv, StepInv, ReserveKept
<1>15. ASSUME NEW c \in Calls, ToolAnswers(c) PROVE ReserveKept'
  BY <1>15
     DEF ToolAnswers, RecordNow, CallGoes, callFrame, slotVars, graphVars,
         saveVars, TypeOK, ControlInv, StepInv, ReserveKept
<1>16. ASSUME NEW n \in Sizes \cup {0}, ModelAnswers(n) PROVE ReserveKept'
  BY <1>16
     DEF ModelAnswers, RecordNow, CallGoes, callFrame, traceVars, slotVars,
         graphVars, saveVars, TypeOK, ControlInv, StepInv, ReserveKept
<1>17. ASSUME NEW c \in Calls, CallFails(c) PROVE ReserveKept'
  BY <1>17
     DEF CallFails, RecordNow, CallGoes, callFrame, RetryEvent, EndEvent,
         slotVars, graphVars, saveVars, TypeOK, ControlInv, StepInv, ReserveKept
<1>18. ASSUME NEW c \in Calls, GatherRaises(c) PROVE ReserveKept'
  BY <1>18
     DEF GatherRaises, Raised, AsyncNodeGoes, RecordNow, ledgerVars, slotVars,
         callVars, TypeOK, TerminalKinds, AsyncKinds, ControlInv, StepInv,
         ReserveKept
<1>19. CASE CriticDegrades
  BY <1>19
     DEF CriticDegrades, Raised, RecordNow, CallGoes, callFrame, slotVars,
         graphVars, saveVars, TypeOK, ControlInv, StepInv, ReserveKept
<1>20. CASE AsyncNodeEnds
  BY <1>20
     DEF AsyncNodeEnds, AllSettled, AsyncNodeGoes, RecordNow, ledgerVars,
         slotVars, callVars, TypeOK, ControlInv, StepInv, ReserveKept
<1>21. CASE WriteCheckpoint
  BY <1>21
     DEF WriteCheckpoint, Reason, Consume, TakeNumber, traceVars, slotVars,
         graphVars, callVars, TypeOK, ControlInv, StepInv, ReserveKept
<1>22. CASE CheckpointFails
  BY <1>22
     DEF CheckpointFails, TakeNumber, ledgerVars, traceVars, graphVars,
         callVars, TypeOK, ControlInv, StepInv, ReserveKept
<1>23. CASE CheckpointEventAppended
  BY <1>23
     DEF CheckpointEventAppended, Append, ledgerVars, traceVars, graphVars,
         callVars, saveVars, TypeOK, ControlInv, StepInv, ReserveKept
<1>24. CASE UNCHANGED vars
  BY <1>24
     DEF vars, ledgerVars, traceVars, slotVars, graphVars, callVars, saveVars,
         ControlInv, StepInv, ReserveKept
<1> QED BY <1>1, <1>2, <1>3, <1>4, <1>5, <1>6, <1>7, <1>8, <1>9, <1>10, <1>11,
           <1>12, <1>13, <1>14, <1>15, <1>16, <1>17, <1>18, <1>19, <1>20, <1>21,
           <1>22, <1>23, <1>24 DEF Next, Graph, Calling, Saving

(* Every step preserves CriticIsOptional.                                  *)
LEMMA CriticStep ==
  ASSUME TypeOK, ControlInv, CriticIsOptional, [Next]_vars
  PROVE  CriticIsOptional'
<1>1. CASE DeadlinePasses
  BY <1>1
     DEF DeadlinePasses, traceVars, slotVars, graphVars, callVars, saveVars,
         TypeOK, ControlInv, CriticIsOptional
<1>2. ASSUME NEW k \in NodeKinds, RefuseNode(k) PROVE CriticIsOptional'
  BY <1>2
     DEF RefuseNode, Reason, Consume, traceVars, slotVars, callVars, saveVars,
         TypeOK, ModelLimits, ControlInv, CriticIsOptional
<1>3. ASSUME NEW k \in NodeKinds, AdmitNode(k) PROVE CriticIsOptional'
  BY <1>3
     DEF AdmitNode, Fan, RecordNow, TakeNumber, traceVars, slotVars, saveVars,
         TypeOK, ModelLimits, ControlInv, CriticIsOptional
<1>4. ASSUME NEW c \in Causes, SyncNodeEnds(c) PROVE CriticIsOptional'
  BY <1>4
     DEF SyncNodeEnds, Reason, TakeNumber, ledgerVars, traceVars, callVars,
         saveVars, TypeOK, ModelLimits, ControlInv, CriticIsOptional
<1>5. CASE Interrupts
  BY <1>5
     DEF Interrupts, Reason, Consume, TakeNumber, traceVars, slotVars, callVars,
         saveVars, TypeOK, ModelLimits, ControlInv, CriticIsOptional
<1>6. CASE NodeEventAppended
  BY <1>6
     DEF NodeEventAppended, Append, AfterEnd, ledgerVars, traceVars, callVars,
         TypeOK, ControlInv, CriticIsOptional
<1>7. ASSUME NEW f \in Prints, NotePrint(f) PROVE CriticIsOptional'
  BY <1>7
     DEF NotePrint, traceVars, slotVars, callVars, saveVars, TypeOK,
         ModelLimits, ControlInv, CriticIsOptional
<1>8. CASE GraphReturns
  BY <1>8
     DEF GraphReturns, ledgerVars, traceVars, slotVars, callVars, saveVars,
         TypeOK, ModelLimits, ControlInv, CriticIsOptional
<1>9. CASE EndRun
  BY <1>9
     DEF EndRun, Status, ledgerVars, slotVars, callVars, saveVars, TypeOK,
         ModelLimits, ControlInv, CriticIsOptional
<1>10. ASSUME NEW c \in Calls, BeginTool(c) PROVE CriticIsOptional'
  BY <1>10
     DEF BeginTool, Reason, Consume, RecordNow, CallGoes, callFrame, traceVars,
         slotVars, graphVars, saveVars, TypeOK, ControlInv, CriticIsOptional
<1>11. ASSUME NEW n \in Sizes, BeginModel(n) PROVE CriticIsOptional'
  BY <1>11
     DEF BeginModel, Reason, RecordNow, CallGoes, callFrame, traceVars,
         slotVars, graphVars, saveVars, TypeOK, ControlInv, CriticIsOptional
<1>12. ASSUME NEW c \in Calls, CacheHit(c) PROVE CriticIsOptional'
  BY <1>12
     DEF CacheHit, Consume, RecordNow, CallGoes, callFrame, slotVars, graphVars,
         saveVars, TypeOK, ControlInv, CriticIsOptional
<1>13. ASSUME NEW c \in Calls, Attempt(c) PROVE CriticIsOptional'
  BY <1>13
     DEF Attempt, Reason, Consume, RecordNow, CallGoes, callFrame, AttemptOf,
         AttemptEvent, traceVars, slotVars, graphVars, saveVars, TypeOK,
         ControlInv, CriticIsOptional
<1>14. ASSUME NEW c \in Calls, Send(c) PROVE CriticIsOptional'
  BY <1>14
     DEF Send, CallGoes, callFrame, AttemptOf, traceVars, slotVars, graphVars,
         saveVars, TypeOK, ControlInv, CriticIsOptional
<1>15. ASSUME NEW c \in Calls, ToolAnswers(c) PROVE CriticIsOptional'
  BY <1>15
     DEF ToolAnswers, RecordNow, CallGoes, callFrame, slotVars, graphVars,
         saveVars, TypeOK, ControlInv, CriticIsOptional
<1>16. ASSUME NEW n \in Sizes \cup {0}, ModelAnswers(n) PROVE CriticIsOptional'
  BY <1>16
     DEF ModelAnswers, RecordNow, CallGoes, callFrame, traceVars, slotVars,
         graphVars, saveVars, TypeOK, ControlInv, CriticIsOptional
<1>17. ASSUME NEW c \in Calls, CallFails(c) PROVE CriticIsOptional'
  BY <1>17
     DEF CallFails, RecordNow, CallGoes, callFrame, RetryEvent, EndEvent,
         slotVars, graphVars, saveVars, TypeOK, ControlInv, CriticIsOptional
<1>18. ASSUME NEW c \in Calls, GatherRaises(c) PROVE CriticIsOptional'
  BY <1>18
     DEF GatherRaises, Raised, AsyncNodeGoes, RecordNow, ledgerVars, slotVars,
         callVars, TypeOK, ModelLimits, AsyncKinds, Calls, ControlInv,
         CriticIsOptional
<1>19. CASE CriticDegrades
  BY <1>19
     DEF CriticDegrades, Raised, RecordNow, CallGoes, callFrame, slotVars,
         graphVars, saveVars, TypeOK, ControlInv, CriticIsOptional
<1>20. CASE AsyncNodeEnds
  BY <1>20
     DEF AsyncNodeEnds, AllSettled, AsyncNodeGoes, RecordNow, ledgerVars,
         slotVars, callVars, TypeOK, ModelLimits, ControlInv, CriticIsOptional
<1>21. CASE WriteCheckpoint
  BY <1>21
     DEF WriteCheckpoint, Reason, Consume, TakeNumber, traceVars, slotVars,
         graphVars, callVars, TypeOK, ControlInv, CriticIsOptional
<1>22. CASE CheckpointFails
  BY <1>22
     DEF CheckpointFails, TakeNumber, ledgerVars, traceVars, graphVars,
         callVars, TypeOK, ControlInv, CriticIsOptional
<1>23. CASE CheckpointEventAppended
  BY <1>23
     DEF CheckpointEventAppended, Append, ledgerVars, traceVars, graphVars,
         callVars, saveVars, TypeOK, ControlInv, CriticIsOptional
<1>24. CASE UNCHANGED vars
  BY <1>24
     DEF vars, ledgerVars, traceVars, slotVars, graphVars, callVars, saveVars,
         ControlInv, CriticIsOptional
<1> QED BY <1>1, <1>2, <1>3, <1>4, <1>5, <1>6, <1>7, <1>8, <1>9, <1>10, <1>11,
           <1>12, <1>13, <1>14, <1>15, <1>16, <1>17, <1>18, <1>19, <1>20, <1>21,
           <1>22, <1>23, <1>24 DEF Next, Graph, Calling, Saving

(* A step preserves PaidInv when it sends nothing, takes nothing back from *)
(* the ledger and lets no further call wait for the semaphore.             *)
LEMMA PaidFrame ==
  ASSUME TypeOK, PaidInv,
         used'["provider_attempts"] >= used["provider_attempts"],
         used'["llm_attempts"] >= used["llm_attempts"],
         spent'["provider_attempts"] = spent["provider_attempts"],
         spent'["llm_attempts"] = spent["llm_attempts"],
         used' \in [Resources -> Nat],
         \A c \in Calls : call'[c] = "queued" => call[c] = "queued"
  PROVE  PaidInv'
<1>1. Queued' \subseteq Queued
  BY DEF Queued, Calls
<1>2. IsFiniteSet(Queued)
  BY LedgerAssumption, FS_Subset DEF Queued
<1>3. /\ Cardinality(Queued') <= Cardinality(Queued)
      /\ Cardinality(Queued) \in Nat /\ Cardinality(Queued') \in Nat
  BY <1>1, <1>2, FS_Subset, FS_CardinalityType
<1>4. ModelQueued' <= ModelQueued
  BY DEF ModelQueued, Calls
<1>5. /\ used["provider_attempts"] \in Nat /\ used'["provider_attempts"] \in Nat
      /\ used["llm_attempts"] \in Nat /\ used'["llm_attempts"] \in Nat
      /\ spent["provider_attempts"] \in Nat /\ spent["llm_attempts"] \in Nat
  BY DEF TypeOK, Resources, Effects
<1>6. ModelQueued \in Nat /\ ModelQueued' \in Nat
  BY DEF ModelQueued
<1> QED BY <1>3, <1>4, <1>5, <1>6 DEF PaidInv

(* Every step preserves PaidInv: a call pays, waits for the semaphore, and *)
(* only then sends.                                                        *)
LEMMA PaidStep ==
  ASSUME TypeOK, PaidInv, [Next]_vars
  PROVE  PaidInv'
<1>1. CASE DeadlinePasses
  BY <1>1, PaidFrame
     DEF DeadlinePasses, traceVars, slotVars, graphVars, callVars, saveVars,
         TypeOK, Resources
<1>2. ASSUME NEW k \in NodeKinds, RefuseNode(k) PROVE PaidInv'
  BY <1>2, PaidFrame
     DEF RefuseNode, Reason, Consume, traceVars, slotVars, callVars, saveVars,
         TypeOK, Resources
<1>3. ASSUME NEW k \in NodeKinds, AdmitNode(k) PROVE PaidInv'
  <2>1. /\ used' = [used EXCEPT !["graph_steps"] = @ + 1,
                              !["repair_rounds"] = IF k = "repair" THEN @ + 1 ELSE @]
        /\ UNCHANGED spent
    BY <1>3 DEF AdmitNode
  <2>2. \A c \in Calls : call'[c] # "queued"
    BY <1>3 DEF AdmitNode
  <2> QED BY <2>1, <2>2, PaidFrame DEF TypeOK, Resources, Effects
<1>4. ASSUME NEW c \in Causes, SyncNodeEnds(c) PROVE PaidInv'
  BY <1>4, PaidFrame
     DEF SyncNodeEnds, Reason, TakeNumber, ledgerVars, traceVars, callVars,
         saveVars, TypeOK, Resources
<1>5. CASE Interrupts
  BY <1>5, PaidFrame
     DEF Interrupts, Reason, Consume, TakeNumber, traceVars, slotVars, callVars,
         saveVars, TypeOK, Resources
<1>6. CASE NodeEventAppended
  BY <1>6, PaidFrame
     DEF NodeEventAppended, Append, AfterEnd, ledgerVars, traceVars, callVars,
         TypeOK, Resources
<1>7. ASSUME NEW f \in Prints, NotePrint(f) PROVE PaidInv'
  BY <1>7, PaidFrame
     DEF NotePrint, traceVars, slotVars, callVars, saveVars, TypeOK, Resources
<1>8. CASE GraphReturns
  BY <1>8, PaidFrame
     DEF GraphReturns, ledgerVars, traceVars, slotVars, callVars, saveVars,
         TypeOK, Resources
<1>9. CASE EndRun
  BY <1>9, PaidFrame
     DEF EndRun, Status, ledgerVars, slotVars, callVars, saveVars, TypeOK,
         Resources
<1>10. ASSUME NEW c \in Calls, BeginTool(c) PROVE PaidInv'
  BY <1>10, PaidFrame
     DEF BeginTool, Reason, Consume, RecordNow, CallGoes, callFrame, traceVars,
         slotVars, graphVars, saveVars, TypeOK, Resources
<1>11. ASSUME NEW n \in Sizes, BeginModel(n) PROVE PaidInv'
  <2>1. CASE used' = [used EXCEPT !["llm_calls"] = @ + 1,
                                  !["llm_input_chars"] = @ + n]
             /\ CallGoes(Model, "begun")
    <3>1. used' \in [Resources -> Nat]
      BY <2>1, LedgerAssumption DEF TypeOK, Resources
    <3>2. UNCHANGED spent /\ call'[Model] = "begun"
      BY <1>11, <2>1 DEF BeginModel, CallGoes, TypeOK, Calls
    <3> QED
      BY <2>1, <3>1, <3>2, PaidFrame DEF CallGoes, TypeOK, Resources, Calls
  <2>2. CASE CallGoes(Model, Reason("llm_calls")) /\ UNCHANGED used
    BY <1>11, <2>2, PaidFrame
       DEF BeginModel, CallGoes, Reason, TypeOK, Resources
  <2>3. CASE CallGoes(Model, "llm_input_chars") /\ UNCHANGED used
    BY <1>11, <2>3, PaidFrame DEF BeginModel, CallGoes, TypeOK, Resources
  <2> QED BY <1>11, <2>1, <2>2, <2>3 DEF BeginModel
<1>12. ASSUME NEW c \in Calls, CacheHit(c) PROVE PaidInv'
  BY <1>12, PaidFrame
     DEF CacheHit, Consume, RecordNow, CallGoes, callFrame, slotVars, graphVars,
         saveVars, TypeOK, Resources
<1>13. ASSUME NEW c \in Calls, Attempt(c) PROVE PaidInv'
  <2>1. CASE ~Within(AttemptOf(c), 1, Limit[AttemptOf(c)])
    <3>1. UNCHANGED <<used, spent>>
          /\ CallGoes(c, Reason(AttemptOf(c)))
      BY <1>13, <2>1 DEF Attempt
    <3>2. Reason(AttemptOf(c)) # "queued"
      BY DEF Reason, AttemptOf
    <3> QED
      BY <3>1, <3>2, PaidFrame DEF CallGoes, TypeOK, Resources
  <2>2. CASE Within(AttemptOf(c), 1, Limit[AttemptOf(c)])
    <3>1. /\ used' = [used EXCEPT ![AttemptOf(c)] = @ + 1]
          /\ call' = [call EXCEPT ![c] = "queued"]
          /\ UNCHANGED spent
          /\ call[c] = "begun"
      BY <1>13, <2>2 DEF Attempt, Consume, CallGoes
    <3>2. CASE c = Model
      <4>1. Queued' = Queued
        BY <3>1, <3>2, LedgerAssumption DEF Queued, TypeOK, Calls
      <4>2. ModelQueued' = 1 /\ ModelQueued = 0
        BY <3>1, <3>2 DEF ModelQueued, TypeOK, Calls
      <4>3. /\ used'["llm_attempts"] = used["llm_attempts"] + 1
            /\ used'["provider_attempts"] = used["provider_attempts"]
        BY <3>1, <3>2 DEF AttemptOf, TypeOK, Resources
      <4> QED
        BY <3>1, <4>1, <4>2, <4>3 DEF PaidInv, TypeOK, Resources, Effects
    <3>3. CASE c # Model
      <4>1. c \in Tools
        BY <3>3 DEF Calls
      <4>2. Queued' = Queued \cup {c} /\ c \notin Queued
        BY <3>1, <4>1 DEF Queued, TypeOK, Calls
      <4>3. /\ Cardinality(Queued') = Cardinality(Queued) + 1
            /\ Cardinality(Queued) \in Nat
        <5>1. IsFiniteSet(Queued)
          BY LedgerAssumption, FS_Subset DEF Queued
        <5> QED BY <4>2, <5>1, FS_AddElement, FS_CardinalityType
      <4>4. ModelQueued' = ModelQueued
        BY <3>1, <3>3 DEF ModelQueued, TypeOK, Calls
      <4>5. /\ used'["llm_attempts"] = used["llm_attempts"]
            /\ used'["provider_attempts"] = used["provider_attempts"] + 1
        BY <3>1, <3>3 DEF AttemptOf, TypeOK, Resources
      <4>6. /\ used["provider_attempts"] \in Nat
            /\ spent["provider_attempts"] \in Nat
        BY DEF TypeOK, Resources, Effects
      <4> QED BY <3>1, <4>3, <4>4, <4>5, <4>6 DEF PaidInv
    <3> QED BY <3>2, <3>3
  <2> QED BY <2>1, <2>2
<1>14. ASSUME NEW c \in Calls, Send(c) PROVE PaidInv'
  <2>1. CASE late
    <3>1. UNCHANGED <<used, spent>> /\ CallGoes(c, "deadline")
      BY <1>14, <2>1 DEF Send
    <3> QED BY <3>1, PaidFrame DEF CallGoes, TypeOK, Resources
  <2>2. CASE ~late
    <3>1. /\ spent' = [spent EXCEPT ![AttemptOf(c)] = @ + 1]
          /\ call' = [call EXCEPT ![c] = "calling"]
          /\ UNCHANGED used
          /\ call[c] = "queued"
      BY <1>14, <2>2 DEF Send, CallGoes
    <3>2. CASE c = Model
      <4>1. Queued' = Queued
        BY <3>1, <3>2, LedgerAssumption DEF Queued, TypeOK, Calls
      <4>2. ModelQueued' = 0 /\ ModelQueued = 1
        BY <3>1, <3>2 DEF ModelQueued, TypeOK, Calls
      <4>3. /\ spent'["llm_attempts"] = spent["llm_attempts"] + 1
            /\ spent'["provider_attempts"] = spent["provider_attempts"]
        BY <3>1, <3>2 DEF AttemptOf, TypeOK, Effects
      <4> QED
        BY <3>1, <4>1, <4>2, <4>3 DEF PaidInv, TypeOK, Resources, Effects
    <3>3. CASE c # Model
      <4>1. c \in Tools
        BY <3>3 DEF Calls
      <4>2. Queued' = Queued \ {c} /\ c \in Queued
        BY <3>1, <4>1 DEF Queued, TypeOK, Calls
      <4>3. /\ Cardinality(Queued') = Cardinality(Queued) - 1
            /\ Cardinality(Queued) \in Nat
        <5>1. IsFiniteSet(Queued)
          BY LedgerAssumption, FS_Subset DEF Queued
        <5> QED BY <4>2, <5>1, FS_RemoveElement, FS_CardinalityType
      <4>4. ModelQueued' = ModelQueued
        BY <3>1, <3>3 DEF ModelQueued, TypeOK, Calls
      <4>5. /\ spent'["llm_attempts"] = spent["llm_attempts"]
            /\ spent'["provider_attempts"] = spent["provider_attempts"] + 1
        BY <3>1, <3>3 DEF AttemptOf, TypeOK, Effects
      <4>6. /\ used["provider_attempts"] \in Nat
            /\ spent["provider_attempts"] \in Nat
        BY DEF TypeOK, Resources, Effects
      <4> QED BY <3>1, <4>3, <4>4, <4>5, <4>6 DEF PaidInv
    <3> QED BY <3>2, <3>3
  <2> QED BY <2>1, <2>2
<1>15. ASSUME NEW c \in Calls, ToolAnswers(c) PROVE PaidInv'
  BY <1>15, PaidFrame
     DEF ToolAnswers, RecordNow, CallGoes, callFrame, slotVars, graphVars,
         saveVars, TypeOK, Resources
<1>16. ASSUME NEW n \in Sizes \cup {0}, ModelAnswers(n) PROVE PaidInv'
  <2>1. used' \in {used, [used EXCEPT !["tokens"] = @ + n]} /\ n \in Nat
    BY <1>16, LedgerAssumption DEF ModelAnswers
  <2>2. used' \in [Resources -> Nat]
        /\ used'["provider_attempts"] = used["provider_attempts"]
        /\ used'["llm_attempts"] = used["llm_attempts"]
    BY <2>1 DEF TypeOK, Resources
  <2>3. UNCHANGED spent
    BY <1>16 DEF ModelAnswers
  <2>4. \A c \in Calls : call'[c] = "queued" => call[c] = "queued"
    BY <1>16 DEF ModelAnswers, CallGoes, TypeOK, Calls
  <2> QED BY <2>2, <2>3, <2>4, PaidFrame DEF TypeOK, Resources
<1>17. ASSUME NEW c \in Calls, CallFails(c) PROVE PaidInv'
  BY <1>17, PaidFrame
     DEF CallFails, RecordNow, CallGoes, callFrame, RetryEvent, EndEvent,
         slotVars, graphVars, saveVars, TypeOK, Resources
<1>18. ASSUME NEW c \in Calls, GatherRaises(c) PROVE PaidInv'
  BY <1>18, PaidFrame
     DEF GatherRaises, Raised, AsyncNodeGoes, RecordNow, ledgerVars, slotVars,
         callVars, TypeOK, Resources
<1>19. CASE CriticDegrades
  BY <1>19, PaidFrame
     DEF CriticDegrades, Raised, RecordNow, CallGoes, callFrame, slotVars,
         graphVars, saveVars, TypeOK, Resources
<1>20. CASE AsyncNodeEnds
  BY <1>20, PaidFrame
     DEF AsyncNodeEnds, AllSettled, AsyncNodeGoes, RecordNow, ledgerVars,
         slotVars, callVars, TypeOK, Resources
<1>21. CASE WriteCheckpoint
  BY <1>21, PaidFrame
     DEF WriteCheckpoint, Reason, Consume, TakeNumber, traceVars, slotVars,
         graphVars, callVars, TypeOK, Resources
<1>22. CASE CheckpointFails
  BY <1>22, PaidFrame
     DEF CheckpointFails, TakeNumber, ledgerVars, traceVars, graphVars,
         callVars, TypeOK, Resources
<1>23. CASE CheckpointEventAppended
  BY <1>23, PaidFrame
     DEF CheckpointEventAppended, Append, ledgerVars, traceVars, graphVars,
         callVars, saveVars, TypeOK, Resources
<1>24. CASE UNCHANGED vars
  BY <1>24, PaidFrame DEF vars, ledgerVars, callVars, TypeOK, Resources
<1> QED BY <1>1, <1>2, <1>3, <1>4, <1>5, <1>6, <1>7, <1>8, <1>9, <1>10, <1>11,
           <1>12, <1>13, <1>14, <1>15, <1>16, <1>17, <1>18, <1>19, <1>20, <1>21,
           <1>22, <1>23, <1>24 DEF Next, Graph, Calling, Saving

(* Only the end of the run stores a record.                                *)
LEMMA OnlyEndRunStores == [Next]_vars => EndRun \/ UNCHANGED final
BY
   DEF vars, Next, Graph, Calling, Saving, DeadlinePasses, RefuseNode,
       AdmitNode, SyncNodeEnds, Interrupts, NodeEventAppended, NotePrint,
       GraphReturns, BeginTool, BeginModel, CacheHit, Attempt, Send,
       ToolAnswers, ModelAnswers, CallFails, GatherRaises, CriticDegrades,
       AsyncNodeEnds, WriteCheckpoint, CheckpointFails, CheckpointEventAppended,
       callFrame, AsyncNodeGoes

(* Every step preserves UsageMatchesTrace: when the run ends, no thread    *)
(* has an event on its way.                                                *)
LEMMA UsageStep ==
  ASSUME TypeOK, ControlInv, TraceInv, NumberInv, UsageMatchesTrace, [Next]_vars
  PROVE  UsageMatchesTrace'
<1>1. CASE UNCHANGED final
  BY <1>1 DEF UsageMatchesTrace, Gapless
<1>2. CASE EndRun
  <2>1. pending["loop"] = "none" /\ pending["executor"] = "none"
    BY <1>2 DEF EndRun, ControlInv
  <2>2. fidelity' = "complete" => fidelity = "complete"
    BY <1>2 DEF EndRun, TypeOK
  <2>3. /\ final'.used = used /\ final'.count \in {count', kept'}
        /\ final'.numbers = numbers' /\ final'.fidelity = fidelity'
    BY <1>2 DEF EndRun, Rows
  <2>4. \A r \in DOMAIN EventOf : count'[EventOf[r]] = count[EventOf[r]]
    BY <1>2 DEF EndRun, TypeOK, Kinds, EventOf
  <2>5. fidelity = "complete" =>
          \A r \in DOMAIN EventOf : used[r] = count[EventOf[r]]
    BY <2>1 DEF TraceInv, Slot, EventOf, TypeOK, Kinds
  <2>6. NumberInv' /\ TypeOK'
    BY NumberStep, TypeStep
  <2>7. \A r \in DOMAIN EventOf : kept'[EventOf[r]] <= count'[EventOf[r]]
    BY <2>6 DEF NumberInv, EventOf, Kinds
  <2>8. fidelity' = "complete" => length' \in numbers'
    BY <1>2 DEF EndRun, TypeOK
  <2>9. ASSUME fidelity' = "complete", Gapless' PROVE kept' = count'
    <3>1. 1..length' \subseteq numbers'
      BY <2>3, <2>8, <2>9 DEF Gapless
    <3> QED
      BY <2>6, <3>1 DEF NumberInv
  <2>10. \A r \in DOMAIN EventOf : count'[EventOf[r]] \in Nat
    BY <2>6 DEF TypeOK, EventOf, Kinds
  <2> QED
    BY <2>2, <2>3, <2>4, <2>5, <2>7, <2>9, <2>10 DEF UsageMatchesTrace
<1> QED BY <1>1, <1>2, OnlyEndRunStores

(* Every step preserves EndRecorded when the reserve has room for the two  *)
(* terminal events and for the one normal event that may overrun it.       *)
LEMMA EndStep ==
  ASSUME TraceReserve >= 3, TypeOK, ControlInv, LengthInv, NumberInv, EndRecorded,
         [Next]_vars
  PROVE  EndRecorded'
<1>1. CASE UNCHANGED final
  BY <1>1 DEF EndRecorded
<1>2. CASE EndRun
  <2> DEFINE exceeded == IF cause' \in BudgetCauses THEN 1 ELSE 0
             alert == IF length < MaxEvents THEN exceeded ELSE 0
             ended == IF length + alert < MaxEvents THEN 1 ELSE 0
             Closed(c) == [c EXCEPT !["budget.exceeded"] = @ + alert,
                                    !["run.ended"] = @ + ended]
  <2>1. pending["loop"] = "none" /\ pending["executor"] = "none" /\ at = "leaving"
    BY <1>2 DEF EndRun, ControlInv
  <2>2. length + alert < MaxEvents
    BY <2>1, LedgerAssumption DEF LengthInv, Open, NormalLimit, TypeOK
  <2>3. count' = Closed(count) /\ kept' = Closed(kept)
    BY <1>2 DEF EndRun
  <2>4. /\ count'["run.started"] = 1 /\ count'["run.ended"] = 1
        /\ kept'["run.started"] = 1 /\ kept'["run.ended"] = 1
    BY <2>1, <2>2, <2>3 DEF LengthInv, NumberInv, TypeOK, Kinds
  <2>5. final'.count \in {count', kept'}
    BY <1>2 DEF EndRun, Rows
  <2> QED BY <2>4, <2>5 DEF EndRecorded
<1> QED BY <1>1, <1>2, OnlyEndRunStores

-----------------------------------------------------------------------------
(* The inductive invariant holds at the start.                             *)
LEMMA InvInit == Init => Inv
<1> SUFFICES ASSUME Init PROVE Inv
  OBVIOUS
<1>1. TypeOK
  <2>1. used \in [Resources -> Nat] /\ count \in [Kinds -> Nat]
    BY DEF Init
  <2>2. final \in Record /\ kept \in [Kinds -> Nat]
    BY <2>1 DEF Init, Record
  <2>3. pending \in [Threads -> Kinds \cup {"none", "dropped"}]
        /\ number \in [Threads -> Nat] /\ spent \in [Effects -> Nat]
    BY DEF Init
  <2>4. call \in [Calls -> CallStates \cup BudgetCauses] /\ tries \in [Calls -> Nat]
    BY DEF Init, CallStates
  <2>5. /\ node \in SyncKinds \cup AsyncKinds \cup {"none"}
        /\ cause \in Causes /\ broken \in Causes
        /\ print \in Prints \cup {"none"} /\ late \in BOOLEAN
    BY DEF Init, Causes
  <2>6. /\ length \in Nat /\ numbers \subseteq Nat /\ repeats \in Nat
        /\ owed \in Nat /\ closing \in Nat
        /\ fidelity \in {"complete", "degraded"}
        /\ at \in {"routing", "starting", "running", "ending", "noting",
                   "leaving", "over"}
    BY DEF Init
  <2> QED BY <2>1, <2>2, <2>3, <2>4, <2>5, <2>6 DEF TypeOK
<1>2. ControlInv
  BY DEF Init, ControlInv, Threads, Calls, ModelLimits
<1>3. StepInv
  BY LedgerAssumption DEF Init, StepInv, Resources
<1>4. LimitInv
  BY LedgerAssumption DEF Init, LimitInv, Metered, Resources
<1>5. PaidInv
  <2>1. Queued = {} /\ ModelQueued = 0
    BY DEF Init, Queued, ModelQueued, Calls
  <2> QED BY <2>1, FS_EmptySet DEF Init, PaidInv, Resources, Effects
<1>6. TraceInv
  BY DEF Init, TraceInv, Slot, Threads, Resources, Kinds
<1>7. LengthInv
  BY LedgerAssumption DEF Init, LengthInv, Open, NormalLimit, Threads, Kinds
<1>8. NumberInv
  BY DEF Init, NumberInv, Open, Threads, Kinds
<1> QED BY <1>1, <1>2, <1>3, <1>4, <1>5, <1>6, <1>7, <1>8 DEF Inv

(* Every step preserves it.                                                *)
LEMMA InvStep == Inv /\ [Next]_vars => Inv'
BY TypeStep, ControlStep, StepStep, LimitStep, PaidStep, TraceStep, LengthStep,
   NumberStep DEF Inv

(* It holds throughout every run.                                          *)
LEMMA Invariance == Spec => []Inv
BY InvInit, InvStep, PTL DEF Spec

(* Type correctness of the ledger, the trace and the run that draws on     *)
(* them.                                                                   *)
THEOREM TypeCorrectness == Spec => []TypeOK
<1>1. Inv => TypeOK
  BY DEF Inv
<1> QED BY <1>1, Invariance, PTL

(* No interleaving of tool calls, model calls and checkpoint writes draws  *)
(* more than a resource holds (budget.py _consume), and no request is sent *)
(* that was not paid for (context.py begin_tool_attempt).                  *)
THEOREM BudgetIsKept == Spec => []WithinBudget
<1>1. Inv => WithinBudget
  <2> SUFFICES ASSUME Inv PROVE WithinBudget
    OBVIOUS
  <2>1. IsFiniteSet(Queued)
    BY LedgerAssumption, FS_Subset DEF Queued
  <2>2. Cardinality(Queued) \in Nat /\ ModelQueued \in Nat
    BY <2>1, FS_CardinalityType DEF ModelQueued
  <2>3. \A r \in Effects \ {"checkpoint_writes"} : spent[r] <= used[r]
    BY <2>2 DEF Inv, PaidInv, TypeOK, Effects, Resources
  <2> QED BY <2>3 DEF Inv, LimitInv, WithinBudget
<1> QED BY <1>1, Invariance, PTL

(* A complete stored trace never shows more than the stored usage, and one *)
(* that lacks no sequence number adds up to it, whichever repository has   *)
(* stored it (coordinator.py _final_record, repository.py finalize).       *)
THEOREM UsageIsExplained == Spec => []UsageMatchesTrace
<1>1. Init => UsageMatchesTrace
  BY DEF Init, UsageMatchesTrace
<1>2. Inv /\ UsageMatchesTrace /\ [Next]_vars => UsageMatchesTrace'
  BY UsageStep DEF Inv
<1> QED BY <1>1, <1>2, Invariance, PTL DEF Spec

(* With a terminal_trace_reserve of three events or more - the default is  *)
(* larger - every stored trace has its beginning and its end.  Two events, *)
(* which validate_reserves accepts, are not enough.                        *)
THEOREM EndsAreRecorded == ASSUME TraceReserve >= 3 PROVE Spec => []EndRecorded
<1>1. Init => EndRecorded
  BY DEF Init, EndRecorded
<1>2. Inv /\ EndRecorded /\ [Next]_vars => EndRecorded'
  BY EndStep DEF Inv
<1> QED BY <1>1, <1>2, Invariance, PTL DEF Spec

(* A terminal node is turned away for want of steps only when terminal     *)
(* nodes have used the whole reserve (budget.py consume_graph_step).       *)
THEOREM ReserveIsKept == Spec => []ReserveKept
<1>1. Init => ReserveKept
  BY DEF Init, ReserveKept, TerminalKinds
<1>2. Inv /\ ReserveKept /\ [Next]_vars => ReserveKept'
  BY ReserveStep DEF Inv
<1> QED BY <1>1, <1>2, Invariance, PTL DEF Spec

(* An exhausted model budget ends a run only in requirement parsing, never *)
(* in the critic (graph/workflow.py soft_constraint_critic).               *)
THEOREM CriticNeverEndsARun == Spec => []CriticIsOptional
<1>1. Init => CriticIsOptional
  BY DEF Init, CriticIsOptional, ModelLimits
<1>2. Inv /\ CriticIsOptional /\ [Next]_vars => CriticIsOptional'
  BY CriticStep DEF Inv
<1> QED BY <1>1, <1>2, Invariance, PTL DEF Spec
=============================================================================

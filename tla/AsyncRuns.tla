------------------------------ MODULE AsyncRuns ------------------------------
(***************************************************************************)
(* Agent runs: the run store, the run coordinator, the Redis queue with its *)
(* workers, cancellation, and the event streams that follow a run.          *)
(*                                                                         *)
(* An asynchronous run is reserved in the store before it is handed to the *)
(* queue (or to a task of the API process), so that between any two steps  *)
(* somebody must own it: the start call, the queue, an executor, or a      *)
(* cancel call that took it from the queue.  A command is executed by the  *)
(* request that carries it and creates its own record.                     *)
(***************************************************************************)
EXTENDS Naturals, FiniteSets

CONSTANTS Runs,       \* ids of asynchronous runs, one per start_trip_run
          Commands,   \* ids of runs that a request executes itself
          Keys,       \* values of Idempotency-Key / request_id
          Workers,    \* worker processes
          Api,        \* the API process
          Nobody,     \* no process
          Clients,    \* cancel calls that may be in flight
          Streams,    \* event streams that may be open
          UseQueue,   \* ASYNC_EXECUTION_BACKEND is redis
          MaxEvents,  \* bound: trace events of one run
          PageSize    \* events per page of a stream (200 in the code)

Ids == Runs \cup Commands

ASSUME RunsAssumption ==
    /\ UseQueue \in BOOLEAN
    /\ Runs \cap Commands = {}
    /\ Api \notin Workers /\ Nobody \notin Workers \cup {Api}
    /\ Nobody \notin Ids
    /\ MaxEvents \in Nat \ {0, 1}
    /\ PageSize \in Nat \ {0}

VARIABLES status,   \* run store: status of each record
          key,      \* run store: request_id of each record
          prev,     \* the run that find_request returned to a command
          trace,    \* run store: number of persisted trace events
          ticket,   \* queue: position of the job, 0 when it is not queued
          pushed,   \* queue: number of LPUSHes
          job,      \* runs whose job key exists in Redis
          at,       \* where the execution of a run stands
          by,       \* the process that executes it
          outcome,  \* the final status an execution is about to persist
          asked,    \* tasks with an undelivered task.cancel()
          call,     \* cancel calls: how far each one got
          target,   \* cancel calls: the run each one is about
          stream,   \* event streams
          applied,  \* request ids whose effect and receipt are committed
          executed  \* commands that ran their graph

storeVars == <<status, key, prev, trace>>
queueVars == <<ticket, pushed, job>>
execVars == <<at, by, outcome, asked>>
callVars == <<call, target>>
domainVars == <<applied, executed>>
vars == <<storeVars, queueVars, execVars, callVars, stream, domainVars>>

-----------------------------------------------------------------------------
Statuses == {"absent", "running", "completed", "interrupted", "replayed",
             "failed", "cancelled"}

(* _TERMINAL *)
Terminal == {"completed", "interrupted", "replayed", "failed", "cancelled"}

Places == {"none", "reserved", "popped", "starting", "calling", "graph",
           "persisting"}

(* opened: the status of the run when the stream was first opened.         *)
StreamState == [at : {"new", "page", "status", "off", "ended"}, run : Ids \cup {Nobody},
                cursor : Nat, got : Nat, opened : Statuses]

TypeOK ==
    /\ status \in [Ids -> Statuses]
    /\ key \in [Ids -> Keys]
    /\ prev \in [Ids -> Ids \cup {Nobody}]
    /\ trace \in [Ids -> Nat]
    /\ ticket \in [Runs -> Nat] /\ pushed \in Nat
    /\ job \subseteq Runs
    /\ at \in [Ids -> Places]
    /\ by \in [Ids -> Workers \cup {Api, Nobody}]
    /\ outcome \in [Ids -> Statuses]
    /\ asked \subseteq Runs
    /\ call \in [Clients -> {"idle", "checked", "found", "removed"}]
    /\ target \in [Clients -> Runs \cup {Nobody}]
    /\ stream \in [Streams -> StreamState]
    /\ applied \subseteq Keys /\ executed \subseteq Commands

(* Every run id is fresh; which key it will carry is fixed beforehand.     *)
Init ==
    /\ status = [r \in Ids |-> "absent"]
    /\ key \in [Ids -> Keys]
    /\ prev = [r \in Ids |-> Nobody]
    /\ trace = [r \in Ids |-> 0]
    /\ ticket = [r \in Runs |-> 0] /\ pushed = 0
    /\ job = {}
    /\ at = [r \in Ids |-> "none"]
    /\ by = [r \in Ids |-> Nobody]
    /\ outcome = [r \in Ids |-> "running"]
    /\ asked = {}
    /\ call = [c \in Clients |-> "idle"]
    /\ target = [c \in Clients |-> Nobody]
    /\ stream = [s \in Streams |-> [at |-> "new", run |-> Nobody, cursor |-> 0,
                                    got |-> 0, opened |-> "absent"]]
    /\ applied = {} /\ executed = {}

-----------------------------------------------------------------------------
(* Starting a run                                                          *)

Move(r, place, who) ==
    /\ at' = [at EXCEPT ![r] = place]
    /\ by' = [by EXCEPT ![r] = who]

(* reserve_plan_run: the record is created in status running.              *)
Reserve(r) ==
    /\ status[r] = "absent"
    /\ status' = [status EXCEPT ![r] = "running"]
    /\ Move(r, "reserved", Api)
    /\ UNCHANGED <<key, prev, trace, queueVars, outcome, asked, callVars, stream,
                   domainVars>>

(* Mutant: the job key is set, the payload is not pushed. *)
Enqueue_NoPush(r) ==
    /\ UseQueue /\ at[r] = "reserved"
    /\ job' = job \cup {r}
    /\ Move(r, "none", Nobody)
    /\ UNCHANGED <<ticket, pushed, storeVars, outcome, asked, callVars, stream,
                   domainVars>>

(* RedisRunQueue.enqueue: SET and LPUSH in one transaction.                *)
Enqueue(r) ==
    /\ UseQueue /\ at[r] = "reserved"
    /\ job' = job \cup {r}
    /\ pushed' = pushed + 1
    /\ ticket' = [ticket EXCEPT ![r] = pushed + 1]
    /\ Move(r, "none", Nobody)
    /\ UNCHANGED <<storeVars, outcome, asked, callVars, stream, domainVars>>

(* Redis is unavailable: start_trip_run raises and the record stays.       *)
EnqueueFails(r) ==
    /\ UseQueue /\ at[r] = "reserved"
    /\ Move(r, "none", Nobody)
    /\ UNCHANGED <<storeVars, queueVars, outcome, asked, callVars, stream, domainVars>>

(* Without a queue the API process creates a task.                         *)
CreateTask(r) ==
    /\ ~UseQueue /\ at[r] = "reserved"
    /\ Move(r, "starting", Api)
    /\ UNCHANGED <<storeVars, queueVars, outcome, asked, callVars, stream, domainVars>>

(* Mutant: a job is only taken while its key has not expired. *)
Oldest_WithKey(r) ==
    /\ ticket[r] > 0 /\ r \in job
    /\ \A q \in Runs : ticket[q] > 0 => ticket[r] <= ticket[q]

(* BRPOP takes the job that was pushed first.                              *)
Oldest(r) ==
    /\ ticket[r] > 0
    /\ \A q \in Runs : ticket[q] > 0 => ticket[r] <= ticket[q]

Dequeue(w, r) ==
    /\ \A q \in Ids : by[q] # w
    /\ Oldest(r)
    /\ ticket' = [ticket EXCEPT ![r] = 0]
    /\ Move(r, "popped", w)
    /\ UNCHANGED <<storeVars, pushed, job, outcome, asked, callVars, stream, domainVars>>

(* The second command of dequeue: the job key is deleted.                  *)
DeleteJobKey(r) ==
    /\ at[r] = "popped"
    /\ job' = job \ {r}
    /\ Move(r, "starting", by[r])
    /\ UNCHANGED <<storeVars, ticket, pushed, outcome, asked, callVars, stream,
                   domainVars>>

(* The job key lives for a day, the queue entry for ever.                  *)
JobKeyExpires(r) ==
    /\ r \in job
    /\ job' = job \ {r}
    /\ UNCHANGED <<storeVars, ticket, pushed, execVars, callVars, stream, domainVars>>

-----------------------------------------------------------------------------
(* Executing a run                                                         *)

(* execute(precreated): the record must be in status running.              *)
Start(r) ==
    /\ at[r] = "starting" /\ r \notin asked
    /\ status[r] = "running"
    /\ Move(r, "calling", by[r])
    /\ UNCHANGED <<storeVars, queueVars, outcome, asked, callVars, stream, domainVars>>

(* An execution ends without reaching the store.                           *)
Abandon(r) ==
    /\ Move(r, "none", Nobody)
    /\ asked' = asked \ {r}
    /\ UNCHANGED <<storeVars, queueVars, outcome, callVars, stream, domainVars>>

(* repository.get outside the try block raises.                            *)
StartFails(r) == at[r] = "starting" /\ Abandon(r)

Ends(r, final) ==
    /\ outcome' = [outcome EXCEPT ![r] = final]
    /\ Move(r, "persisting", by[r])
    /\ UNCHANGED <<storeVars, queueVars, callVars, stream>>

(* The planning call of an asynchronous run returns (classify_payload) or   *)
(* raises (classify_error).                                                *)
CallEnds(r) ==
    /\ r \in Runs /\ at[r] = "calling"
    /\ \E final \in {"completed", "interrupted", "failed"} : Ends(r, final)
    /\ UNCHANGED <<asked, domainVars>>

(* The task is cancelled at the await it has reached: before the try block *)
(* nothing is recorded, inside the call the run ends as cancelled, and     *)
(* inside finalize the transaction is rolled back.                         *)
CancelDelivered(r) ==
    /\ r \in asked
    /\ \/ at[r] = "starting" /\ Abandon(r)
       \/ /\ at[r] = "calling"
          /\ Ends(r, "cancelled")
          /\ asked' = asked \ {r}
          /\ UNCHANGED domainVars
       \/ at[r] = "persisting" /\ Abandon(r)

(* finalize: status and events in one transaction, events that exist stay. *)
Finalize(r, final, n) ==
    /\ status' = [status EXCEPT ![r] = final]
    /\ trace' = [trace EXCEPT ![r] = IF n > @ THEN n ELSE @]
    /\ UNCHANGED <<key, prev>>

Persist(r) ==
    /\ at[r] = "persisting"
    /\ \E n \in 2 .. MaxEvents : Finalize(r, outcome[r], n)
    /\ Move(r, "none", Nobody)
    /\ asked' = asked \ {r}
    /\ UNCHANGED <<queueVars, outcome, callVars, stream, domainVars>>

PersistFails(r) == at[r] = "persisting" /\ Abandon(r)

-----------------------------------------------------------------------------
(* Commands: a request_id, find_request, create, call, finalize            *)

(* find_request returns a run of this request id that is not running.      *)
Previous(r) ==
    {q \in Ids : key[q] = key[r] /\ status[q] \notin {"absent", "running"}}

FindRequest(r) ==
    /\ at[r] = "none" /\ status[r] = "absent"
    /\ prev' \in {[prev EXCEPT ![r] = q] :
                     q \in IF Previous(r) = {} THEN {Nobody} ELSE Previous(r)}
    /\ Move(r, "reserved", Api)
    /\ UNCHANGED <<status, key, trace, queueVars, outcome, asked, callVars, stream,
                   domainVars>>

CreateCommand(r) ==
    /\ at[r] = "reserved" /\ status[r] = "absent"
    /\ status' = [status EXCEPT ![r] = "running"]
    /\ Move(r, "calling", Api)
    /\ UNCHANGED <<key, prev, trace, queueVars, outcome, asked, callVars, stream,
                   domainVars>>

Result(r) == IF prev[r] # Nobody THEN {"replayed"} ELSE {"completed", "interrupted"}

(* The command finds its receipt and replays the answer, or enters its     *)
(* graph.                                                                  *)
CommandCalled(r) ==
    /\ at[r] = "calling"
    /\ IF key[r] \in applied
       THEN \E final \in Result(r) : Ends(r, final)
       ELSE /\ Move(r, "graph", Api)
            /\ UNCHANGED <<storeVars, queueVars, outcome, callVars, stream>>
    /\ UNCHANGED <<asked, domainVars>>

(* The graph commits the effect of the command with its receipt.           *)
CommandReturns(r) ==
    /\ at[r] = "graph"
    /\ applied' = applied \cup {key[r]} /\ executed' = executed \cup {r}
    /\ \E final \in Result(r) : Ends(r, final)
    /\ UNCHANGED asked

(* The command raises: without an effect, or after it was committed.       *)
CommandRaises(r) ==
    /\ \/ at[r] \in {"calling", "graph"} /\ UNCHANGED domainVars
       \/ /\ at[r] = "graph"
          /\ applied' = applied \cup {key[r]} /\ executed' = executed \cup {r}
    /\ Ends(r, "failed")
    /\ UNCHANGED asked

-----------------------------------------------------------------------------
(* Cancelling a run                                                        *)

(* cancel_run without a queue: the task, if it still runs, is cancelled.   *)
CancelTask(r) ==
    /\ ~UseQueue
    /\ at[r] \in {"starting", "calling", "persisting"}
    /\ asked' = asked \cup {r}
    /\ UNCHANGED <<storeVars, queueVars, at, by, outcome, callVars, stream, domainVars>>

(* cancel_run with a queue has read a record in status running.            *)
CancelReads(c, r) ==
    /\ UseQueue
    /\ call[c] = "idle" /\ status[r] = "running"
    /\ call' = [call EXCEPT ![c] = "checked"]
    /\ target' = [target EXCEPT ![c] = r]
    /\ UNCHANGED <<storeVars, queueVars, execVars, stream, domainVars>>

Return(c) ==
    /\ call' = [call EXCEPT ![c] = "idle"]
    /\ target' = [target EXCEPT ![c] = Nobody]

(* RedisRunQueue.remove, GET: without a job key the answer is a conflict.  *)
CancelGets(c) ==
    /\ call[c] = "checked"
    /\ IF target[c] \in job
       THEN call' = [call EXCEPT ![c] = "found"] /\ UNCHANGED target
       ELSE Return(c)
    /\ UNCHANGED <<storeVars, queueVars, execVars, stream, domainVars>>

(* Mutant: finding the job key counts as having removed the job. *)
Removed_Always(r) == TRUE

(* LREM returns the number of entries it removed.                          *)
Removed(r) == ticket[r] > 0

(* RedisRunQueue.remove, LREM and DEL in one transaction.                  *)
CancelRemoves(c) ==
    /\ call[c] = "found"
    /\ ticket' = [ticket EXCEPT ![target[c]] = 0]
    /\ job' = job \ {target[c]}
    /\ IF Removed(target[c])
       THEN call' = [call EXCEPT ![c] = "removed"] /\ UNCHANGED target
       ELSE Return(c)
    /\ UNCHANGED <<storeVars, pushed, execVars, stream, domainVars>>

(* The run ends as cancelled, with one event.                              *)
CancelFinalizes(c) ==
    /\ call[c] = "removed"
    /\ Finalize(target[c], "cancelled", 1)
    /\ Return(c)
    /\ UNCHANGED <<queueVars, execVars, stream, domainVars>>

CancelFails(c) ==
    /\ call[c] # "idle"
    /\ Return(c)
    /\ UNCHANGED <<storeVars, queueVars, execVars, stream, domainVars>>

-----------------------------------------------------------------------------
(* Event streams                                                           *)

StreamIs(s, new) ==
    /\ stream' = [stream EXCEPT ![s] = new]
    /\ UNCHANGED <<storeVars, queueVars, execVars, callVars, domainVars>>

OpenStream(s, r) ==
    /\ stream[s].at = "new" /\ status[r] # "absent"
    /\ StreamIs(s, [at |-> "page", run |-> r, cursor |-> 0, got |-> 0,
                    opened |-> status[r]])

(* get_trace(after_sequence = cursor, limit): every event is sent and the  *)
(* cursor follows.                                                         *)
ReadPage(s) ==
    /\ stream[s].at = "page"
    /\ LET left == trace[stream[s].run] - stream[s].cursor
           n == IF left > PageSize THEN PageSize ELSE left
       IN StreamIs(s, [stream[s] EXCEPT !.at = "status", !.got = n, !.cursor = @ + n])

(* Mutant: the stream ends with the page that was read. *)
Exhausted_Ignored(x) == status[x.run] \in Terminal

(* Mutant: an interrupted run is not taken for a finished one. *)
Exhausted_NotInterrupted(x) ==
    status[x.run] \in Terminal \ {"interrupted"} /\ x.got = 0

(* The status is read after the page.                                      *)
Exhausted(x) == status[x.run] \in Terminal /\ x.got = 0

ReadStatus(s) ==
    /\ stream[s].at = "status"
    /\ StreamIs(s, [stream[s] EXCEPT
                       !.at = IF Exhausted(stream[s]) THEN "ended" ELSE "page",
                       !.got = 0])

(* The client goes away having received a part of the last page.           *)
Disconnect(s) ==
    /\ stream[s].at \in {"page", "status"}
    /\ \E lost \in 0 .. stream[s].got :
          StreamIs(s, [stream[s] EXCEPT !.at = "off", !.got = 0, !.cursor = @ - lost])

(* The client comes back with Last-Event-ID.                               *)
Reconnect(s) ==
    /\ stream[s].at = "off"
    /\ StreamIs(s, [stream[s] EXCEPT !.at = "page"])

-----------------------------------------------------------------------------
(* Processes that stop                                                     *)

Stop(procs) ==
    /\ at' = [r \in Ids |-> IF by[r] \in procs THEN "none" ELSE at[r]]
    /\ by' = [r \in Ids |-> IF by[r] \in procs THEN Nobody ELSE by[r]]

WorkerCrash(w) ==
    /\ \E r \in Runs : by[r] = w
    /\ Stop({w})
    /\ UNCHANGED <<storeVars, queueVars, outcome, asked, callVars, stream, domainVars>>

(* Start calls, tasks, commands, cancel calls and streams end with the API. *)
ApiCrash ==
    /\ Stop({Api})
    /\ asked' = {}
    /\ call' = [c \in Clients |-> "idle"]
    /\ target' = [c \in Clients |-> Nobody]
    /\ stream' = [s \in Streams |->
                     IF stream[s].at \in {"page", "status"}
                     THEN [stream[s] EXCEPT !.at = "off", !.got = 0] ELSE stream[s]]
    /\ UNCHANGED <<storeVars, queueVars, outcome, domainVars>>

(* service.close: every task that still runs is cancelled.                 *)
Close ==
    /\ ~UseQueue
    /\ asked' = {r \in Runs : at[r] \in {"starting", "calling", "persisting"}}
    /\ UNCHANGED <<storeVars, queueVars, at, by, outcome, callVars, stream, domainVars>>

-----------------------------------------------------------------------------
(* What the processes do when nothing fails.                               *)
Advance(r) ==
    \/ Enqueue(r) \/ CreateTask(r) \/ \E w \in Workers : Dequeue(w, r)
    \/ DeleteJobKey(r) \/ Start(r) \/ CallEnds(r) \/ Persist(r)

Command(r) ==
    \/ FindRequest(r) \/ CreateCommand(r) \/ CommandCalled(r)
    \/ CommandReturns(r) \/ CommandRaises(r) \/ Persist(r)

Follow(s) == ReadPage(s) \/ ReadStatus(s)

Cancel ==
    \/ \E r \in Runs : CancelTask(r) \/ CancelDelivered(r)
                       \/ \E c \in Clients : CancelReads(c, r)
    \/ \E c \in Clients : CancelGets(c) \/ CancelRemoves(c) \/ CancelFinalizes(c)

Normal ==
    \/ \E r \in Runs : Reserve(r) \/ Advance(r)
    \/ \E r \in Commands : Command(r)
    \/ \E s \in Streams : Follow(s) \/ Reconnect(s) \/ \E r \in Ids : OpenStream(s, r)

Faults ==
    \/ \E r \in Runs : EnqueueFails(r) \/ StartFails(r) \/ JobKeyExpires(r)
    \/ \E r \in Ids : PersistFails(r)
    \/ \E c \in Clients : CancelFails(c)
    \/ \E s \in Streams : Disconnect(s)
    \/ \E w \in Workers : WorkerCrash(w)
    \/ ApiCrash \/ Close

Next == Normal \/ Cancel \/ Faults

Spec == Init /\ [][Next]_vars

(* No process, connection or store fails. *)
FaultFreeSpec == Init /\ [][Normal \/ Cancel]_vars

(* Every process goes on until it stops: a planning call ends because its  *)
(* ExecutionBudget has a deadline.  Nothing brings a stopped process, a     *)
(* cancelled call or a lost connection back.                               *)
FairSpec ==
    /\ Spec
    /\ \A r \in Runs : WF_vars(Advance(r))
    /\ \A c \in Clients : WF_vars(CancelFinalizes(c))
    /\ \A s \in Streams : WF_vars(Follow(s))

-----------------------------------------------------------------------------
(* Properties                                                              *)

Holds(c, r) == call[c] = "removed" /\ target[c] = r

(* Somebody will still take the run to its end.                            *)
Owned(r) == ticket[r] > 0 \/ at[r] # "none" \/ \E c \in Clients : Holds(c, r)

(* Whoever may still write the final status of a run is alone in it, and   *)
(* the run has not ended: the start call, the queue, the executor and the   *)
(* cancel calls hand a run over without two of them ever holding it.        *)
SingleOwner ==
    \A r \in Runs :
        /\ ticket[r] > 0 => at[r] = "none"
        /\ \A c \in Clients : Holds(c, r) => ticket[r] = 0 /\ at[r] = "none"
        /\ \A c, d \in Clients : Holds(c, r) /\ Holds(d, r) => c = d
        /\ Owned(r) => status[r] = "running"

(* finalize updates unconditionally, and still no run that has ended ever  *)
(* ends again differently, whatever cancel calls race with workers.        *)
TerminalIsFinal ==
    [][\A r \in Ids : status[r] \in Terminal =>
          status'[r] = status[r] /\ trace'[r] = trace[r]]_<<status, trace>>

(* A run that has ended shows its events, and a run in progress shows none: *)
(* a stream cannot tell a client of an end without the events that led to it.*)
TraceWithStatus ==
    \A r \in Ids : (status[r] \in Terminal) <=> (trace[r] > 0)

(* A stream that was opened on a finished run has sent the whole trace     *)
(* when it ends, over any pages, disconnections and resumptions.           *)
LateStreamsComplete ==
    \A s \in Streams : stream[s].at = "ended" /\ stream[s].opened \in Terminal =>
        stream[s].cursor = trace[stream[s].run]

(* Where nothing fails and nobody cancels, the start call, the queue and the *)
(* worker hand a run on until it ends: none of them ever drops it.          *)
HandOversKeepRuns ==
    [][Normal => \A r \in Runs : Owned(r) => Owned(r)' \/ status'[r] \in Terminal]_vars

(* Through crashes, cancel calls and failing stores, a run whose start call, *)
(* job, executor or cancel call is left ends or loses the last of them.    *)
RunsEnd ==
    \A r \in Runs : (status[r] = "running" /\ Owned(r))
                       ~> (status[r] \in Terminal \/ ~Owned(r))

(* A stream of a run that has ended ends too, unless its client goes away.  *)
StreamsEnd ==
    \A s \in Streams :
        (stream[s].at = "page" /\ status[stream[s].run] \in Terminal)
            ~> (stream[s].at \in {"ended", "off"})

(* docs/v1.0/design.md: no RUNNING run is left behind.                     *)
NoOrphan == \A r \in Runs : status[r] = "running" => Owned(r)

(* docs/v1.1-v1.2/design.md: a stream loses no persisted event.            *)
StreamsComplete ==
    \A s \in Streams : stream[s].at = "ended" =>
        stream[s].cursor = trace[stream[s].run]

(* docs/v1.1-v1.2: runs are idempotent in their Idempotency-Key.           *)
OneRunPerKey ==
    \A q, r \in Runs : status[q] # "absent" /\ status[r] # "absent"
        /\ key[q] = key[r] => q = r

(* docs/v1.0/design.md: a replayed run does not execute its graph again.   *)
ReplayedDidNothing == \A r \in Commands : status[r] = "replayed" => r \notin executed
=============================================================================

-------------------------- MODULE AsyncRuns_proofs --------------------------
(***************************************************************************)
(* Proofs about AsyncRuns, for any number of runs, workers, cancel calls    *)
(* and streams.                                                            *)
(*                                                                         *)
(* SingleOwner is inductive with the typing: every action either moves a    *)
(* run from one owner to the next or drops it, and only an owner writes the *)
(* store.  That a run ends once follows from it, because whoever finalizes  *)
(* a run owns it and an owned run is still running.                         *)
(***************************************************************************)
EXTENDS AsyncRuns, TLAPS

(* Commands own themselves: only a running command is executed.            *)
CommandInv ==
    \A r \in Commands :
        /\ at[r] \in {"none", "reserved", "calling", "graph", "persisting"}
        /\ at[r] \in {"calling", "graph", "persisting"} => status[r] = "running"
        /\ at[r] = "reserved" => status[r] = "absent"

(* What is about to be persisted is a final status.                        *)
OutcomeInv == \A r \in Ids : at[r] = "persisting" => outcome[r] \in Terminal

(* A stream never runs ahead of the store, and a stream that was opened on *)
(* a finished run has sent everything when it finds an empty page.         *)
StreamInv ==
    \A s \in Streams :
        stream[s].at # "new" =>
            /\ stream[s].run \in Ids
            /\ stream[s].cursor <= trace[stream[s].run]
            /\ stream[s].got <= stream[s].cursor
            /\ stream[s].opened \in Terminal => status[stream[s].run] \in Terminal
            /\ stream[s].opened \in Terminal /\ stream[s].at = "status" /\ stream[s].got = 0 =>
                  stream[s].cursor = trace[stream[s].run]
            /\ stream[s].opened \in Terminal /\ stream[s].at = "ended" =>
                  stream[s].cursor = trace[stream[s].run]

(* A cancel call in progress is about a run.                               *)
CallInv == \A c \in Clients : call[c] # "idle" => target[c] \in Runs

RunInv == SingleOwner /\ CommandInv /\ OutcomeInv /\ TraceWithStatus /\ CallInv

(* The inductive invariant.                                                *)
IInv == TypeOK /\ RunInv /\ StreamInv

-----------------------------------------------------------------------------
(* A step leaves finished runs as they are.                                *)
Settled ==
    \A r \in Ids : status[r] \in Terminal =>
        status'[r] = status[r] /\ trace'[r] = trace[r]

(* What every action that does not concern a stream preserves.             *)
Kept == TypeOK' /\ RunInv' /\ Settled /\ UNCHANGED stream

(* A run is reserved and handed to the queue, a task or a worker.          *)
LEMMA HandOvers ==
  ASSUME TypeOK, RunInv, NEW r \in Runs,
            Reserve(r) \/ Enqueue(r) \/ EnqueueFails(r) \/ CreateTask(r)
         \/ (\E w \in Workers : Dequeue(w, r)) \/ DeleteJobKey(r)
         \/ JobKeyExpires(r)
  PROVE  Kept
<1>1. CASE Reserve(r)
  BY <1>1, RunsAssumption DEF TypeOK, Reserve, Move, Ids, Places, Statuses,
       storeVars, queueVars, execVars, callVars, domainVars,
       Kept, Settled, RunInv, SingleOwner, CommandInv,
       OutcomeInv, TraceWithStatus, CallInv, Holds, Owned, Terminal
<1>2. CASE Enqueue(r)
  BY <1>2, RunsAssumption DEF TypeOK, Enqueue, Move, Ids, Places, Statuses,
       storeVars, queueVars, execVars, callVars, domainVars,
       Kept, Settled, RunInv, SingleOwner, CommandInv,
       OutcomeInv, TraceWithStatus, CallInv, Holds, Owned, Terminal
<1>3. CASE EnqueueFails(r)
  BY <1>3, RunsAssumption DEF TypeOK, EnqueueFails, Move, Ids, Places, Statuses,
       storeVars, queueVars, execVars, callVars, domainVars,
       Kept, Settled, RunInv, SingleOwner, CommandInv,
       OutcomeInv, TraceWithStatus, CallInv, Holds, Owned, Terminal
<1>4. CASE CreateTask(r)
  BY <1>4, RunsAssumption DEF TypeOK, CreateTask, Move, Ids, Places, Statuses,
       storeVars, queueVars, execVars, callVars, domainVars,
       Kept, Settled, RunInv, SingleOwner, CommandInv,
       OutcomeInv, TraceWithStatus, CallInv, Holds, Owned, Terminal
<1>5. CASE (\E w \in Workers : Dequeue(w, r))
  BY <1>5, RunsAssumption DEF TypeOK, Dequeue, Oldest, Move, Ids, Places, Statuses,
       storeVars, queueVars, execVars, callVars, domainVars,
       Kept, Settled, RunInv, SingleOwner, CommandInv,
       OutcomeInv, TraceWithStatus, CallInv, Holds, Owned, Terminal
<1>6. CASE DeleteJobKey(r)
  BY <1>6, RunsAssumption DEF TypeOK, DeleteJobKey, Move, Ids, Places, Statuses,
       storeVars, queueVars, execVars, callVars, domainVars,
       Kept, Settled, RunInv, SingleOwner, CommandInv,
       OutcomeInv, TraceWithStatus, CallInv, Holds, Owned, Terminal
<1>7. CASE JobKeyExpires(r)
  BY <1>7, RunsAssumption DEF TypeOK, JobKeyExpires, Ids, Places, Statuses,
       storeVars, queueVars, execVars, callVars, domainVars,
       Kept, Settled, RunInv, SingleOwner, CommandInv,
       OutcomeInv, TraceWithStatus, CallInv, Holds, Owned, Terminal
<1> QED BY <1>1, <1>2, <1>3, <1>4, <1>5, <1>6, <1>7

(* A run is executed, or its task is cancelled.                            *)
LEMMA Executions ==
  ASSUME TypeOK, RunInv, NEW r \in Runs,
            Start(r) \/ StartFails(r) \/ CallEnds(r) \/ CancelTask(r)
         \/ CancelDelivered(r)
  PROVE  Kept
<1>1. CASE Start(r)
  BY <1>1, RunsAssumption DEF TypeOK, Start, Move, Ids, Places, Statuses,
       storeVars, queueVars, execVars, callVars, domainVars,
       Kept, Settled, RunInv, SingleOwner, CommandInv,
       OutcomeInv, TraceWithStatus, CallInv, Holds, Owned, Terminal
<1>2. CASE StartFails(r)
  BY <1>2, RunsAssumption DEF TypeOK, StartFails, Abandon, Move, Ids, Places, Statuses,
       storeVars, queueVars, execVars, callVars, domainVars,
       Kept, Settled, RunInv, SingleOwner, CommandInv,
       OutcomeInv, TraceWithStatus, CallInv, Holds, Owned, Terminal
<1>3. CASE CallEnds(r)
  BY <1>3, RunsAssumption DEF TypeOK, CallEnds, Ends, Move, Ids, Places, Statuses,
       storeVars, queueVars, execVars, callVars, domainVars,
       Kept, Settled, RunInv, SingleOwner, CommandInv,
       OutcomeInv, TraceWithStatus, CallInv, Holds, Owned, Terminal
<1>4. CASE CancelTask(r)
  BY <1>4, RunsAssumption DEF TypeOK, CancelTask, Ids, Places, Statuses,
       storeVars, queueVars, execVars, callVars, domainVars,
       Kept, Settled, RunInv, SingleOwner, CommandInv,
       OutcomeInv, TraceWithStatus, CallInv, Holds, Owned, Terminal
<1>5. CASE CancelDelivered(r)
  BY <1>5, RunsAssumption DEF TypeOK, CancelDelivered, Abandon, Ends, Move, Ids, Places, Statuses,
       storeVars, queueVars, execVars, callVars, domainVars,
       Kept, Settled, RunInv, SingleOwner, CommandInv,
       OutcomeInv, TraceWithStatus, CallInv, Holds, Owned, Terminal
<1> QED BY <1>1, <1>2, <1>3, <1>4, <1>5

(* An execution reaches the store, or fails to.                            *)
LEMMA Persistence ==
  ASSUME TypeOK, RunInv, NEW r \in Ids,
            Persist(r) \/ PersistFails(r)
  PROVE  Kept
<1>1. CASE Persist(r)
  BY <1>1, RunsAssumption DEF TypeOK, Persist, Finalize, Move, Ids, Places, Statuses,
       storeVars, queueVars, execVars, callVars, domainVars,
       Kept, Settled, RunInv, SingleOwner, CommandInv,
       OutcomeInv, TraceWithStatus, CallInv, Holds, Owned, Terminal
<1>2. CASE PersistFails(r)
  BY <1>2, RunsAssumption DEF TypeOK, PersistFails, Abandon, Move, Ids, Places, Statuses,
       storeVars, queueVars, execVars, callVars, domainVars,
       Kept, Settled, RunInv, SingleOwner, CommandInv,
       OutcomeInv, TraceWithStatus, CallInv, Holds, Owned, Terminal
<1> QED BY <1>1, <1>2

(* A command is looked up, created, called and ends.                       *)
LEMMA CommandSteps ==
  ASSUME TypeOK, RunInv, NEW r \in Commands,
            FindRequest(r) \/ CreateCommand(r) \/ CommandCalled(r)
         \/ CommandReturns(r) \/ CommandRaises(r)
  PROVE  Kept
<1>1. CASE FindRequest(r)
  BY <1>1, RunsAssumption DEF TypeOK, FindRequest, Previous, Move, Ids, Places, Statuses,
       storeVars, queueVars, execVars, callVars, domainVars,
       Kept, Settled, RunInv, SingleOwner, CommandInv,
       OutcomeInv, TraceWithStatus, CallInv, Holds, Owned, Terminal
<1>2. CASE CreateCommand(r)
  BY <1>2, RunsAssumption DEF TypeOK, CreateCommand, Move, Ids, Places, Statuses,
       storeVars, queueVars, execVars, callVars, domainVars,
       Kept, Settled, RunInv, SingleOwner, CommandInv,
       OutcomeInv, TraceWithStatus, CallInv, Holds, Owned, Terminal
<1>3. CASE CommandCalled(r)
  BY <1>3, RunsAssumption DEF TypeOK, CommandCalled, Result, Ends, Move, Ids, Places, Statuses,
       storeVars, queueVars, execVars, callVars, domainVars,
       Kept, Settled, RunInv, SingleOwner, CommandInv,
       OutcomeInv, TraceWithStatus, CallInv, Holds, Owned, Terminal
<1>4. CASE CommandReturns(r)
  BY <1>4, RunsAssumption DEF TypeOK, CommandReturns, Result, Ends, Move, Ids, Places, Statuses,
       storeVars, queueVars, execVars, callVars, domainVars,
       Kept, Settled, RunInv, SingleOwner, CommandInv,
       OutcomeInv, TraceWithStatus, CallInv, Holds, Owned, Terminal
<1>5. CASE CommandRaises(r)
  BY <1>5, RunsAssumption DEF TypeOK, CommandRaises, Ends, Move, Ids, Places, Statuses,
       storeVars, queueVars, execVars, callVars, domainVars,
       Kept, Settled, RunInv, SingleOwner, CommandInv,
       OutcomeInv, TraceWithStatus, CallInv, Holds, Owned, Terminal
<1> QED BY <1>1, <1>2, <1>3, <1>4, <1>5

(* A cancel call takes a run out of the queue and ends it.                 *)
LEMMA CancelCalls ==
  ASSUME TypeOK, RunInv, NEW c \in Clients,
            (\E r \in Runs : CancelReads(c, r)) \/ CancelGets(c)
         \/ CancelRemoves(c) \/ CancelFinalizes(c) \/ CancelFails(c)
  PROVE  Kept
<1>1. CASE (\E r \in Runs : CancelReads(c, r))
  BY <1>1, RunsAssumption DEF TypeOK, CancelReads, Ids, Places, Statuses,
       storeVars, queueVars, execVars, callVars, domainVars,
       Kept, Settled, RunInv, SingleOwner, CommandInv,
       OutcomeInv, TraceWithStatus, CallInv, Holds, Owned, Terminal
<1>2. CASE CancelGets(c)
  <2>1. CASE target[c] \in job
    <3>1. TypeOK' /\ UNCHANGED stream
      BY <1>2, <2>1, RunsAssumption DEF TypeOK, CancelGets, Return, Ids, Places, Statuses,
       storeVars, queueVars, execVars, callVars, domainVars,
       Kept, Settled, RunInv, SingleOwner, CommandInv,
       OutcomeInv, TraceWithStatus, CallInv, Holds, Owned, Terminal
    <3>2. RunInv' /\ Settled
      BY <1>2, <2>1, RunsAssumption DEF TypeOK, CancelGets, Return, Ids, Places, Statuses,
       storeVars, queueVars, execVars, callVars, domainVars,
       Kept, Settled, RunInv, SingleOwner, CommandInv,
       OutcomeInv, TraceWithStatus, CallInv, Holds, Owned, Terminal
    <3> QED BY <3>1, <3>2 DEF Kept
  <2>2. CASE target[c] \notin job
    <3>1. TypeOK' /\ UNCHANGED stream
      BY <1>2, <2>2, RunsAssumption DEF TypeOK, CancelGets, Return, Ids, Places, Statuses,
       storeVars, queueVars, execVars, callVars, domainVars,
       Kept, Settled, RunInv, SingleOwner, CommandInv,
       OutcomeInv, TraceWithStatus, CallInv, Holds, Owned, Terminal
    <3>2. RunInv' /\ Settled
      BY <1>2, <2>2, RunsAssumption DEF TypeOK, CancelGets, Return, Ids, Places, Statuses,
       storeVars, queueVars, execVars, callVars, domainVars,
       Kept, Settled, RunInv, SingleOwner, CommandInv,
       OutcomeInv, TraceWithStatus, CallInv, Holds, Owned, Terminal
    <3> QED BY <3>1, <3>2 DEF Kept
  <2> QED BY <2>1, <2>2
<1>3. CASE CancelRemoves(c)
  <2>1. CASE Removed(target[c])
    <3>1. TypeOK' /\ UNCHANGED stream
      BY <1>3, <2>1, RunsAssumption DEF TypeOK, CancelRemoves, Removed, Return, Ids, Places, Statuses,
       storeVars, queueVars, execVars, callVars, domainVars,
       Kept, Settled, RunInv, SingleOwner, CommandInv,
       OutcomeInv, TraceWithStatus, CallInv, Holds, Owned, Terminal
    <3>2. RunInv' /\ Settled
      BY <1>3, <2>1, RunsAssumption DEF TypeOK, CancelRemoves, Removed, Return, Ids, Places, Statuses,
       storeVars, queueVars, execVars, callVars, domainVars,
       Kept, Settled, RunInv, SingleOwner, CommandInv,
       OutcomeInv, TraceWithStatus, CallInv, Holds, Owned, Terminal
    <3> QED BY <3>1, <3>2 DEF Kept
  <2>2. CASE ~Removed(target[c])
    <3>0. ticket' = ticket /\ job' = job \ {target[c]} /\ Return(c)
      BY <1>3, <2>2 DEF TypeOK, RunInv, CallInv, CancelRemoves, Removed
    <3>1. TypeOK' /\ UNCHANGED stream
      BY <1>3, <3>0 DEF TypeOK, CancelRemoves, Return, storeVars, execVars, domainVars
    <3>2. RunInv' /\ Settled
      BY <1>3, <3>0 DEF TypeOK, CancelRemoves, Return, storeVars, execVars,
         Settled, RunInv, SingleOwner, CommandInv, OutcomeInv, TraceWithStatus,
         CallInv, Holds, Owned
    <3> QED BY <3>1, <3>2 DEF Kept
  <2> QED BY <2>1, <2>2
<1>4. CASE CancelFinalizes(c)
  BY <1>4, RunsAssumption DEF TypeOK, CancelFinalizes, Finalize, Return, Ids, Places, Statuses,
       storeVars, queueVars, execVars, callVars, domainVars,
       Kept, Settled, RunInv, SingleOwner, CommandInv,
       OutcomeInv, TraceWithStatus, CallInv, Holds, Owned, Terminal
<1>5. CASE CancelFails(c)
  BY <1>5, RunsAssumption DEF TypeOK, CancelFails, Return, Ids, Places, Statuses,
       storeVars, queueVars, execVars, callVars, domainVars,
       Kept, Settled, RunInv, SingleOwner, CommandInv,
       OutcomeInv, TraceWithStatus, CallInv, Holds, Owned, Terminal
<1> QED BY <1>1, <1>2, <1>3, <1>4, <1>5

(* A process stops: what it owned is owned by nobody.                      *)
LEMMA Stops ==
  ASSUME TypeOK, RunInv,
         (\E w \in Workers : WorkerCrash(w)) \/ Close
  PROVE  Kept
<1>1. CASE \E w \in Workers : WorkerCrash(w)
  BY <1>1, RunsAssumption DEF TypeOK, WorkerCrash, Stop, Ids, Places, Statuses,
       storeVars, queueVars, execVars, callVars, domainVars,
       Kept, Settled, RunInv, SingleOwner, CommandInv,
       OutcomeInv, TraceWithStatus, CallInv, Holds, Owned, Terminal
<1>2. CASE Close
  BY <1>2, RunsAssumption DEF TypeOK, Close, Ids, Places, Statuses,
       storeVars, queueVars, execVars, callVars, domainVars,
       Kept, Settled, RunInv, SingleOwner, CommandInv,
       OutcomeInv, TraceWithStatus, CallInv, Holds, Owned, Terminal
<1> QED BY <1>1, <1>2

(* Updates of a stream's fields keep its type.                             *)
LEMMA StreamUpdates ==
  ASSUME NEW x \in StreamState, NEW a \in {"new", "page", "status", "off", "ended"},
         NEW g \in Nat, NEW k \in Nat
  PROVE  /\ [x EXCEPT !.at = a, !.got = g] \in StreamState
         /\ [x EXCEPT !.at = a, !.got = g, !.cursor = k] \in StreamState
BY DEF StreamState

(* A stream that is dropped keeps its cursor.                              *)
LEMMA ApiCrashStep ==
  ASSUME IInv, ApiCrash
  PROVE  IInv' /\ Settled
<1> USE DEF IInv
<1> DEFINE Dropped(x) == [x EXCEPT !.at = "off", !.got = 0]
<1>0. \A s \in Streams :
         /\ stream'[s] = stream[s] \/ stream'[s] = Dropped(stream[s])
         /\ stream[s].at = "new" => stream'[s] = stream[s]
  BY DEF ApiCrash
<1>a. stream \in [Streams -> StreamState]
  BY DEF TypeOK
<1>b. \A x \in StreamState :
         /\ Dropped(x) \in StreamState
         /\ Dropped(x).at = "off" /\ Dropped(x).got = 0 /\ Dropped(x).run = x.run
         /\ Dropped(x).cursor = x.cursor /\ Dropped(x).opened = x.opened
  BY DEF StreamState
<1> HIDE DEF Dropped
<1>1. stream' \in [Streams -> StreamState]
  <2>1. stream' = [s \in Streams |-> stream'[s]]
    BY DEF ApiCrash
  <2> QED BY <1>0, <1>a, <1>b, <2>1
<1>2. TypeOK'
  BY <1>1, RunsAssumption DEF TypeOK, ApiCrash, Stop, Ids, Places, Statuses,
       storeVars, queueVars, execVars, callVars, domainVars
<1>3. RunInv' /\ Settled
  BY RunsAssumption DEF TypeOK, ApiCrash, Stop, Ids, Places, Statuses,
       storeVars, queueVars, execVars, callVars, domainVars,
       Kept, Settled, RunInv, SingleOwner, CommandInv,
       OutcomeInv, TraceWithStatus, CallInv, Holds, Owned, Terminal
<1>4. StreamInv'
  <2>1. status' = status /\ trace' = trace
    BY DEF ApiCrash, storeVars
  <2>2. \A x \in StreamState : x.cursor \in Nat
    BY DEF StreamState
  <2> QED BY <1>0, <1>a, <1>b, <2>1, <2>2 DEF StreamInv
<1> QED BY <1>2, <1>3, <1>4

(* A stream writes only its own state; what it has sent stays within the   *)
(* trace.                                                                  *)
LEMMA StreamSteps ==
  ASSUME IInv, NEW s \in Streams,
         ReadPage(s) \/ ReadStatus(s) \/ Disconnect(s) \/ Reconnect(s)
         \/ (\E r \in Ids : OpenStream(s, r))
  PROVE  IInv' /\ Settled
<1> USE DEF IInv
<1>1. PICK new : StreamIs(s, new)
  BY DEF ReadPage, ReadStatus, Disconnect, Reconnect, OpenStream
<1>2. UNCHANGED <<storeVars, queueVars, execVars, callVars, domainVars>>
  BY <1>1 DEF StreamIs
<1>3. RunInv' /\ Settled
  BY <1>2 DEF Ids, Places, Statuses,
       storeVars, queueVars, execVars, callVars, domainVars,
       Kept, Settled, RunInv, SingleOwner, CommandInv,
       OutcomeInv, TraceWithStatus, CallInv, Holds, Owned, Terminal
<1>4. stream' = [stream EXCEPT ![s] = stream'[s]]
  BY <1>1 DEF StreamIs, TypeOK
<1> DEFINE x == stream[s]
           y == stream'[s]
           Good(z) == /\ z \in StreamState
                      /\ z.run \in Ids
                      /\ z.cursor <= trace[z.run]
                      /\ z.got <= z.cursor
                      /\ z.opened \in Terminal => status[z.run] \in Terminal
                      /\ z.opened \in Terminal /\ z.at = "status" /\ z.got = 0 =>
                            z.cursor = trace[z.run]
                      /\ z.opened \in Terminal /\ z.at = "ended" => z.cursor = trace[z.run]
<1>5. x \in StreamState /\ (x.at # "new" => Good(x))
  BY DEF TypeOK, StreamInv
<1>t. trace \in [Ids -> Nat] /\ status \in [Ids -> Statuses] /\ PageSize \in Nat \ {0}
  BY RunsAssumption DEF TypeOK
<1>6. Good(y)
  <2>1. CASE \E r \in Ids : OpenStream(s, r)
    BY <2>1, <1>t DEF OpenStream, StreamIs, StreamState, TypeOK
  <2>2. CASE ReadPage(s)
    <3>1. x.at = "page" /\ Good(x)
      BY <2>2, <1>5 DEF ReadPage
    <3> DEFINE left == trace[x.run] - x.cursor
               n == IF left > PageSize THEN PageSize ELSE left
    <3>2. y = [x EXCEPT !.at = "status", !.got = n, !.cursor = x.cursor + n]
      BY <2>2 DEF ReadPage, StreamIs, TypeOK
    <3>3. trace[x.run] \in Nat /\ x.cursor \in Nat /\ x.cursor <= trace[x.run]
      BY <3>1, <1>t DEF StreamState
    <3>4. n \in Nat /\ n <= left /\ (n = 0 => left = 0)
      BY <3>3, <1>t
    <3> HIDE DEF n
    <3>5. /\ y.at = "status" /\ y.run = x.run /\ y.got = n
          /\ y.cursor = x.cursor + n /\ y.opened = x.opened
      BY <3>1, <3>2 DEF StreamState
    <3>6. y \in StreamState
      <4>1. x.cursor + n \in Nat
        BY <3>3, <3>4
      <4>2. [x EXCEPT !.at = "status", !.got = n, !.cursor = x.cursor + n] \in StreamState
        BY <1>5, <3>4, <4>1, StreamUpdates
      <4> QED BY <3>2, <4>2
    <3> QED BY <3>1, <3>3, <3>4, <3>5, <3>6
  <2>3. CASE ReadStatus(s)
    <3>1. x.at = "status" /\ Good(x)
      BY <2>3, <1>5 DEF ReadStatus
    <3>2. y = [x EXCEPT !.at = IF Exhausted(x) THEN "ended" ELSE "page", !.got = 0]
      BY <2>3 DEF ReadStatus, StreamIs, TypeOK
    <3>3. /\ y.at \in {"ended", "page"} /\ y.run = x.run /\ y.got = 0
          /\ y.cursor = x.cursor /\ y.opened = x.opened
          /\ y.at = "ended" => x.got = 0
      BY <3>1, <3>2 DEF StreamState, Exhausted
    <3>4. y \in StreamState
      <4>1. \A a \in {"page", "ended"} : [x EXCEPT !.at = a, !.got = 0] \in StreamState
        BY <1>5, StreamUpdates
      <4> QED BY <3>2, <4>1
    <3>5. x.cursor \in Nat
      BY <3>1 DEF StreamState
    <3> QED BY <3>1, <3>3, <3>4, <3>5
  <2>4. CASE Disconnect(s)
    <3>1. x.at \in {"page", "status"} /\ Good(x)
      BY <2>4, <1>5 DEF Disconnect
    <3>2. PICK lost \in 0 .. x.got :
             y = [x EXCEPT !.at = "off", !.got = 0, !.cursor = x.cursor - lost]
      BY <2>4 DEF Disconnect, StreamIs, TypeOK
    <3>3. x.cursor \in Nat /\ x.got \in Nat /\ trace[x.run] \in Nat
      BY <3>1, <1>t DEF StreamState
    <3>4. /\ y.at = "off" /\ y.run = x.run /\ y.got = 0
          /\ y.cursor = x.cursor - lost /\ y.opened = x.opened
      BY <3>1, <3>2 DEF StreamState
    <3>5. y \in StreamState
      <4>1. x.cursor - lost \in Nat
        BY <3>1, <3>2, <3>3
      <4>2. [x EXCEPT !.at = "off", !.got = 0, !.cursor = x.cursor - lost] \in StreamState
        BY <1>5, <4>1, StreamUpdates
      <4> QED BY <3>2, <4>2
    <3> QED BY <3>1, <3>3, <3>4, <3>5
  <2>5. CASE Reconnect(s)
    <3>1. x.at = "off" /\ Good(x) /\ y = [x EXCEPT !.at = "page"]
      BY <2>5, <1>5 DEF Reconnect, StreamIs, TypeOK
    <3> QED BY <3>1 DEF StreamState
  <2> QED BY <2>1, <2>2, <2>3, <2>4, <2>5
<1>7. TypeOK'
  BY <1>2, <1>4, <1>6 DEF TypeOK, storeVars, queueVars, execVars, callVars, domainVars
<1>8. StreamInv'
  BY <1>2, <1>4, <1>6 DEF StreamInv, TypeOK, storeVars
<1> QED BY <1>3, <1>7, <1>8

(* A stream follows a store that only completes runs.                      *)
LEMMA StreamsFollow ==
  ASSUME IInv, Kept
  PROVE  IInv' /\ Settled
<1>1. \A r \in Ids : trace[r] <= trace'[r]
  BY DEF IInv, RunInv, TraceWithStatus, TypeOK, Kept, Settled
<1>2. trace \in [Ids -> Nat] /\ trace' \in [Ids -> Nat]
  BY DEF IInv, Kept, TypeOK
<1>3. stream \in [Streams -> StreamState] /\ stream' = stream
  BY DEF IInv, Kept, TypeOK
<1>4. StreamInv'
  BY <1>1, <1>2, <1>3 DEF IInv, Kept, StreamInv, Settled, StreamState
<1> QED BY <1>4 DEF IInv, Kept

LEMMA Initially == Init => IInv
<1> SUFFICES ASSUME Init PROVE IInv
  OBVIOUS
<1>1. TypeOK
  BY RunsAssumption DEF Init, TypeOK, Ids, Statuses, Places, StreamState
<1>2. RunInv
  BY DEF Init, RunInv, SingleOwner, CommandInv, OutcomeInv, TraceWithStatus,
       CallInv, Holds, Owned, Terminal, Ids
<1>3. StreamInv
  BY DEF Init, StreamInv
<1> QED BY <1>1, <1>2, <1>3 DEF IInv

LEMMA Inductive == IInv /\ [Next]_vars => IInv' /\ Settled
<1> SUFFICES ASSUME IInv, [Next]_vars PROVE IInv' /\ Settled
  OBVIOUS
<1>0. TypeOK /\ RunInv
  BY DEF IInv
<1>1. CASE Normal
  <2>1. CASE \E r \in Runs : Reserve(r) \/ Advance(r)
    BY <1>0, <2>1, HandOvers, Executions, Persistence, StreamsFollow DEF Advance, Ids
  <2>2. CASE \E r \in Commands : Command(r)
    BY <1>0, <2>2, CommandSteps, Persistence, StreamsFollow DEF Command, Ids
  <2>3. CASE \E s \in Streams : Follow(s) \/ Reconnect(s) \/ \E r \in Ids : OpenStream(s, r)
    BY <2>3, StreamSteps DEF Follow
  <2> QED BY <1>1, <2>1, <2>2, <2>3 DEF Normal
<1>2. CASE Cancel
  BY <1>0, <1>2, Executions, CancelCalls, StreamsFollow DEF Cancel
<1>3. CASE Faults
  <2>1. CASE \E r \in Runs : EnqueueFails(r) \/ StartFails(r) \/ JobKeyExpires(r)
    BY <1>0, <2>1, HandOvers, Executions, StreamsFollow
  <2>2. CASE \E r \in Ids : PersistFails(r)
    BY <1>0, <2>2, Persistence, StreamsFollow
  <2>3. CASE \E c \in Clients : CancelFails(c)
    BY <1>0, <2>3, CancelCalls, StreamsFollow
  <2>4. CASE \E s \in Streams : Disconnect(s)
    BY <2>4, StreamSteps
  <2>5. CASE (\E w \in Workers : WorkerCrash(w)) \/ Close
    BY <1>0, <2>5, Stops, StreamsFollow
  <2>6. CASE ApiCrash
    BY <2>6, ApiCrashStep
  <2> QED BY <1>3, <2>1, <2>2, <2>3, <2>4, <2>5, <2>6 DEF Faults
<1>4. CASE UNCHANGED vars
  BY <1>4 DEF vars, IInv, TypeOK, StreamInv, Ids, Places, Statuses,
       storeVars, queueVars, execVars, callVars, domainVars,
       Kept, Settled, RunInv, SingleOwner, CommandInv,
       OutcomeInv, TraceWithStatus, CallInv, Holds, Owned, Terminal
<1> QED BY <1>1, <1>2, <1>3, <1>4 DEF Next

LEMMA Invariance == Spec => []IInv
BY Initially, Inductive, PTL DEF Spec

-----------------------------------------------------------------------------
(* TypeOK holds of every behaviour of the run store, the queue, the         *)
(* executions, the cancel calls and the streams.                            *)
THEOREM TypeCorrectness == Spec => []TypeOK
<1>1. IInv => TypeOK
  BY DEF IInv
<1> QED BY <1>1, Invariance, PTL

(* SingleOwner: start calls, queue, executors and cancel calls hand a run   *)
(* over without two of them ever holding it, and never hold a finished run. *)
THEOREM OwnersAreSingle == Spec => []SingleOwner
<1>1. IInv => SingleOwner
  BY DEF IInv, RunInv
<1> QED BY <1>1, Invariance, PTL

(* TerminalIsFinal: finalize updates without comparing the stored status,   *)
(* and still no run that has ended ends again or changes its trace.         *)
THEOREM EndsAreFinal == Spec => TerminalIsFinal
<1>1. IInv /\ [Next]_vars =>
        [\A r \in Ids : status[r] \in Terminal =>
            status'[r] = status[r] /\ trace'[r] = trace[r]]_<<status, trace>>
  BY Inductive DEF Settled
<1> QED BY <1>1, Invariance, PTL DEF Spec, TerminalIsFinal

(* TraceWithStatus: exactly the finished runs have persisted events.        *)
THEOREM TracesComeWithStatus == Spec => []TraceWithStatus
<1>1. IInv => TraceWithStatus
  BY DEF IInv, RunInv
<1> QED BY <1>1, Invariance, PTL

(* LateStreamsComplete: a stream opened on a finished run has sent its      *)
(* whole trace when it ends.                                                *)
THEOREM LateStreamsAreComplete == Spec => []LateStreamsComplete
<1>1. IInv => LateStreamsComplete
  BY DEF IInv, StreamInv, LateStreamsComplete
<1> QED BY <1>1, Invariance, PTL

-----------------------------------------------------------------------------
(* Handing a run over.                                                     *)
KeepsRuns == \A r \in Runs : Owned(r) => Owned(r)' \/ status'[r] \in Terminal

(* A step that moves one run and leaves it owned or finished.              *)
LEMMA OneRunMoves ==
  ASSUME TypeOK, NEW q \in Ids, UNCHANGED callVars,
         \A r \in Runs \ {q} : at'[r] = at[r] /\ ticket'[r] = ticket[r],
         q \in Runs => ticket'[q] > 0 \/ at'[q] # "none" \/ status'[q] \in Terminal
  PROVE  KeepsRuns
BY DEF KeepsRuns, Owned, Holds, callVars

(* A step that moves no run.                                               *)
LEMMA NoRunMoves ==
  ASSUME UNCHANGED <<at, ticket, callVars>>
  PROVE  KeepsRuns
BY DEF KeepsRuns, Owned, Holds, callVars

LEMMA MovedOne ==
  ASSUME TypeOK, NEW q \in Ids, NEW place, NEW who, Move(q, place, who)
  PROVE  at'[q] = place /\ \A r \in Ids \ {q} : at'[r] = at[r]
BY DEF TypeOK, Move

LEMMA RunsAreHandedOn ==
  ASSUME IInv, NEW q \in Runs, Reserve(q) \/ Advance(q)
  PROVE  KeepsRuns
<1>0. TypeOK /\ q \in Ids /\ Runs \subseteq Ids
  BY DEF IInv, Ids
<1>1. CASE Enqueue(q)
  <2>1. /\ ticket' = [ticket EXCEPT ![q] = pushed + 1] /\ Move(q, "none", Nobody)
        /\ UNCHANGED callVars
    BY <1>1 DEF Enqueue
  <2>2. ticket \in [Runs -> Nat] /\ pushed \in Nat
    BY <1>0 DEF TypeOK
  <2>3. ticket'[q] > 0 /\ \A r \in Runs \ {q} : ticket'[r] = ticket[r]
    BY <2>1, <2>2
  <2>4. \A r \in Runs \ {q} : at'[r] = at[r]
    BY <1>0, <2>1, MovedOne
  <2> QED
    BY <1>0, <2>1, <2>3, <2>4, OneRunMoves
<1>2. CASE \E w \in Workers : Dequeue(w, q)
  <2>1. PICK w \in Workers : Dequeue(w, q)
    BY <1>2
  <2>2. /\ ticket' = [ticket EXCEPT ![q] = 0] /\ Move(q, "popped", w)
        /\ UNCHANGED callVars
    BY <2>1 DEF Dequeue
  <2>3. \A r \in Runs \ {q} : ticket'[r] = ticket[r]
    BY <1>0, <2>2 DEF TypeOK
  <2>4. at'[q] = "popped" /\ \A r \in Runs \ {q} : at'[r] = at[r]
    BY <1>0, <2>2, MovedOne
  <2> QED
    BY <1>0, <2>2, <2>3, <2>4, OneRunMoves
<1>3. CASE Reserve(q) \/ CreateTask(q) \/ DeleteJobKey(q) \/ Start(q) \/ CallEnds(q)
  <2>1. /\ UNCHANGED <<ticket, callVars>>
        /\ \E place \in {"reserved", "starting", "calling", "persisting"} :
              \E who : Move(q, place, who)
    BY <1>3 DEF Reserve, CreateTask, DeleteJobKey, Start, CallEnds, Ends, queueVars
  <2>2. /\ at'[q] \in {"reserved", "starting", "calling", "persisting"}
        /\ \A r \in Runs \ {q} : at'[r] = at[r]
    BY <1>0, <2>1, MovedOne
  <2> QED
    BY <1>0, <2>1, <2>2, OneRunMoves
<1>4. CASE Persist(q)
  <2>1. /\ Move(q, "none", Nobody) /\ UNCHANGED <<ticket, callVars>>
        /\ at[q] = "persisting" /\ status' = [status EXCEPT ![q] = outcome[q]]
    BY <1>4 DEF Persist, Finalize, queueVars
  <2>2. status'[q] \in Terminal
    BY <1>0, <2>1 DEF TypeOK, IInv, RunInv, OutcomeInv
  <2>3. \A r \in Runs \ {q} : at'[r] = at[r]
    BY <1>0, <2>1, MovedOne
  <2> QED
    BY <1>0, <2>1, <2>2, <2>3, OneRunMoves
<1> QED
  BY <1>1, <1>2, <1>3, <1>4 DEF Advance

(* A command is not one of the runs that are handed over.                  *)
LEMMA CommandsMoveNoRun ==
  ASSUME IInv, NEW q \in Commands, Command(q)
  PROVE  KeepsRuns
<1>0. TypeOK /\ q \in Ids /\ q \notin Runs /\ Runs \subseteq Ids
  BY RunsAssumption DEF IInv, Ids
<1>1. UNCHANGED <<ticket, callVars>> /\ \E place, who : Move(q, place, who)
  BY DEF Command, FindRequest, CreateCommand, CommandCalled, CommandReturns,
         CommandRaises, Persist, Ends, queueVars
<1>2. \A r \in Runs \ {q} : at'[r] = at[r]
  BY <1>0, <1>1, MovedOne
<1> QED
  BY <1>0, <1>1, <1>2, OneRunMoves

LEMMA NormalKeepsRuns == IInv /\ Normal => KeepsRuns
<1> SUFFICES ASSUME IInv, Normal PROVE KeepsRuns
  OBVIOUS
<1>1. CASE \E r \in Runs : Reserve(r) \/ Advance(r)
  BY <1>1, RunsAreHandedOn
<1>2. CASE \E r \in Commands : Command(r)
  BY <1>2, CommandsMoveNoRun
<1>3. CASE \E s \in Streams : Follow(s) \/ Reconnect(s) \/ \E r \in Ids : OpenStream(s, r)
  <2>1. \E s, new : StreamIs(s, new)
    BY <1>3 DEF Follow, ReadPage, ReadStatus, Reconnect, OpenStream
  <2>2. UNCHANGED <<at, ticket, callVars>>
    BY <2>1 DEF StreamIs, queueVars, execVars
  <2> QED
    BY <2>2, NoRunMoves
<1> QED
  BY <1>1, <1>2, <1>3 DEF Normal

(* HandOversKeepRuns: the start call, the queue and the worker of a run hand *)
(* it on until it ends, whatever the other runs, commands, cancel calls and  *)
(* streams have done before.                                                *)
THEOREM RunsAreKept == Spec => HandOversKeepRuns
<1>1. IInv /\ [Next]_vars =>
        [Normal => \A r \in Runs : Owned(r) => Owned(r)' \/ status'[r] \in Terminal]_vars
  BY NormalKeepsRuns DEF KeepsRuns
<1> QED BY <1>1, Invariance, PTL DEF Spec, HandOversKeepRuns
=============================================================================

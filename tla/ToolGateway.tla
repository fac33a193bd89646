----------------------------- MODULE ToolGateway -----------------------------
(***************************************************************************)
(* A tool gateway in front of one provider chain: a cache with a time to   *)
(* live and a single flight per key, bounded retries, and a semaphore that *)
(* every provider call holds.  The map and the weather gateway are two     *)
(* instances of this algorithm.                                            *)
(*                                                                         *)
(* A load is the task that get_or_load creates for a key.  It runs in the  *)
(* context of the run whose call created it, on whose budget it draws, and *)
(* is shielded from the cancellation of the calls that wait for it.  Loads *)
(* are named after the call that created them.                             *)
(***************************************************************************)
EXTENDS ProviderChain, FiniteSets

CONSTANTS Calls,      \* callers of the gateway
          Runs,       \* runs under way
          RunOf,      \* the run of each caller
          Keys,       \* cache keys: one per distinct query
          Services,   \* the operations, each with the adapters of its chain
          Answers,    \* what a provider may answer
          Ttl,        \* time to live of a cached result
          MaxEntries, MaxAttempts, MaxConcurrency, \* settings
          RunBudget,  \* max_provider_attempts of a run
          MaxAsks, MaxTime, \* bounds
          None

ASSUME GatewayAssumption ==
    /\ IsFiniteSet(Calls) /\ None \notin Calls
    /\ RunOf \in [Calls -> Runs]
    /\ Services \subseteq [operation : Operations, chain : [Providers -> Adapters]]
    /\ Answers \subseteq DOMAIN AMapErrors \cup Bodies
    /\ {Ttl, MaxEntries, MaxAttempts, MaxConcurrency} \subseteq Nat \ {0}
    /\ {RunBudget, MaxAsks, MaxTime} \subseteq Nat

VARIABLES service,  \* what this gateway is for
          call,     \* the call each caller has under way
          load,     \* the load each caller created
          inflight, \* _inflight: the load of a key
          entries,  \* _entries: what is cached for a key
          circuits, \* of the providers
          permits,  \* of the semaphore
          queue,    \* loads that wait for it, first come first served
          left,     \* provider attempts each run may still make, or Late
          now,      \* the clock
          asks,     \* calls made so far
          reply     \* the answer given in the last step

vars == <<service, call, load, inflight, entries, circuits, permits, queue, left,
          now, asks, reply>>

\* The deadline of a run has passed.
Late == RunBudget + 1

NoCall == [key |-> None, load |-> None, asked |-> 0]
NoLoad == [key |-> None, status |-> "off", attempt |-> 0, route |-> <<>>,
           position |-> 0, result |-> None, at |-> 0]

\* An exception is a budget that was exceeded, or the crash of an adapter.
Results == {"success", "failed", "exceeded", "crashed"}

TypeOK ==
    /\ service \in Services
    /\ \A c \in Calls :
        /\ call[c] = NoCall \/
           (call[c].key \in Keys /\ call[c].load \in Calls /\ call[c].asked \in 0..now)
        /\ load[c] = NoLoad \/
           (/\ load[c].key \in Keys /\ load[c].attempt \in 1..MaxAttempts
            /\ load[c].status \in {"pending", "queued", "calling", "ended"}
            /\ load[c].position \in 0..Len(load[c].route)
            /\ load[c].result \in Results \cup {None} /\ load[c].at \in 0..now)
    /\ inflight \in [Keys -> Calls \cup {None}]
    /\ \A k \in Keys : entries[k] = None \/
        (entries[k].value \in Results /\ entries[k].expires \in Nat /\
            entries[k].inserted \in 0..now)
    /\ Cardinality({k \in Keys : entries[k] # None}) <= MaxEntries
    /\ circuits \in [Providers -> Circuit]
    /\ permits \in 0..MaxConcurrency /\ queue \in Seq(Calls)
    /\ left \in [Runs -> 0..RunBudget \cup {Late}]
    /\ now \in 0..MaxTime /\ asks \in 0..MaxAsks
    /\ reply = None \/ (reply.caller \in Calls /\ reply.result \in Results)

Init ==
    /\ service \in Services
    /\ call = [c \in Calls |-> NoCall] /\ load = [c \in Calls |-> NoLoad]
    /\ inflight = [k \in Keys |-> None] /\ entries = [k \in Keys |-> None]
    /\ circuits = [p \in Providers |-> Closed]
    /\ permits = MaxConcurrency /\ queue = <<>>
    /\ left = [r \in Runs |-> RunBudget]
    /\ now = 0 /\ asks = 0 /\ reply = None

-----------------------------------------------------------------------------
(* The cache. *)

IsLive_Slip(k) == entries[k] # None /\ now <= entries[k].expires
IsLive(k) == entries[k] # None /\ now < entries[k].expires

Entry(result) == [value |-> result, expires |-> now + Ttl, inserted |-> now]

\* The entries once k has been loaded: those that expired are gone and, when
\* there are too many, one of the others that expires first, then the oldest.
WithEntry_Slip(k, e) ==
    LET live == {j \in Keys \ {k} : IsLive(j)}
    IN  [j \in Keys |-> CASE j = k -> e
                          [] j \in live -> entries[j]
                          [] OTHER -> None]

WithEntry(k, e) ==
    LET live == {j \in Keys \ {k} : IsLive(j)}
        first == {j \in live : \A i \in live :
                    \/ entries[j].expires < entries[i].expires
                    \/ /\ entries[j].expires = entries[i].expires
                       /\ entries[j].inserted <= entries[i].inserted}
        drop == IF Cardinality(live) < MaxEntries THEN {} ELSE {CHOOSE j \in first : TRUE}
    IN  [j \in Keys |-> CASE j = k -> e
                          [] j \in live \ drop -> entries[j]
                          [] OTHER -> None]

Waiting(l) == {c \in Calls : call[c].load = l}

ShouldCache_Slip(result) == result # "exceeded"
ShouldCache(result) == result = "success"

\* The finally of the task takes it out of _inflight, whatever happened.
InflightAfter_Slip(k, result) == IF result = "exceeded" THEN inflight[k] ELSE None
InflightAfter(k, result) == None

\* A load ends; it is forgotten when no call waits for it.
Ends(l, result) ==
    LET k == load[l].key IN
    /\ load' = [load EXCEPT ![l] = IF Waiting(l) = {} THEN NoLoad ELSE
                    [@ EXCEPT !.status = "ended", !.result = result, !.at = now]]
    /\ inflight' = [inflight EXCEPT ![k] = InflightAfter(k, result)]
    /\ entries' = IF ShouldCache(result) THEN WithEntry(k, Entry(result)) ELSE entries

-----------------------------------------------------------------------------
(* A call: answered from the cache, or waiting for the load of its key,    *)
(* which it creates when there is none.                                    *)

Ask(c, k) ==
    /\ call[c] = NoCall /\ load[c] = NoLoad
    /\ asks < MaxAsks /\ left[RunOf[c]] # Late
    /\ asks' = asks + 1
    /\ IF IsLive(k)
       THEN /\ reply' = [caller |-> c, result |-> entries[k].value, hit |-> TRUE, key |-> k,
                         by |-> None, at |-> entries[k].inserted, asked |-> now]
            /\ UNCHANGED <<call, load, inflight, entries>>
       ELSE LET l == IF inflight[k] = None THEN c ELSE inflight[k] IN
            /\ reply' = None
            /\ entries' = [entries EXCEPT ![k] = None]
            /\ call' = [call EXCEPT ![c] = [key |-> k, load |-> l, asked |-> now]]
            /\ inflight' = [inflight EXCEPT ![k] = l]
            /\ load' = IF l # c THEN load ELSE
                        [load EXCEPT ![c] = [NoLoad EXCEPT !.key = k, !.attempt = 1,
                                                           !.status = "pending"]]
    /\ UNCHANGED <<service, circuits, permits, queue, left, now>>

\* The call goes on once its load has ended.  A call that joined a load whose
\* result was cached reports a hit; an exception goes to every call alike.
Resume(c) ==
    LET l == call[c].load IN
    /\ call[c] # NoCall /\ load[l].status = "ended"
    /\ reply' = [caller |-> c, result |-> load[l].result, key |-> call[c].key,
                 hit |-> c # l /\ load[l].result = "success",
                 by |-> RunOf[l], at |-> load[l].at, asked |-> call[c].asked]
    /\ call' = [call EXCEPT ![c] = NoCall]
    /\ load' = IF Waiting(l) = {c} THEN [load EXCEPT ![l] = NoLoad] ELSE load
    /\ UNCHANGED <<service, inflight, entries, circuits, permits, queue, left, now, asks>>

\* The caller is cancelled; the load is shielded and runs on.
Cancel(c) ==
    LET l == call[c].load IN
    /\ call[c] # NoCall
    /\ call' = [call EXCEPT ![c] = NoCall]
    /\ load' = IF load[l].status = "ended" /\ Waiting(l) = {c}
               THEN [load EXCEPT ![l] = NoLoad] ELSE load
    /\ reply' = None
    /\ UNCHANGED <<service, inflight, entries, circuits, permits, queue, left, now, asks>>

-----------------------------------------------------------------------------
(* The attempts of a load. *)

Exhausted(r) == left[r] \in {0, Late}

\* begin_tool_attempt on the run that created the load, then the semaphore.
StartAttempt(l) ==
    /\ load[l].status = "pending"
    /\ IF Exhausted(RunOf[l])
       THEN Ends(l, "exceeded") /\ UNCHANGED <<left, queue>>
       ELSE /\ left' = [left EXCEPT ![RunOf[l]] = @ - 1]
            /\ queue' = Append(queue, l)
            /\ load' = [load EXCEPT ![l].status = "queued"]
            /\ UNCHANGED <<inflight, entries>>
    /\ reply' = None
    /\ UNCHANGED <<service, call, circuits, permits, now, asks>>

\* The semaphore is held: the time that is left is read, then the chain reads
\* its circuits and calls the first provider that is available.
EnterChain(l) ==
    /\ queue # <<>> /\ l = Head(queue) /\ permits > 0
    /\ queue' = Tail(queue)
    /\ IF left[RunOf[l]] = Late
       THEN Ends(l, "exceeded") /\ UNCHANGED <<circuits, permits>>
       ELSE /\ permits' = permits - 1
            /\ circuits' = Refreshed(circuits, now)
            /\ load' = [load EXCEPT ![l].status = "calling", ![l].position = 1,
                                    ![l].route = Available(circuits, now)]
            /\ UNCHANGED <<inflight, entries>>
    /\ reply' = None
    /\ UNCHANGED <<service, call, left, now, asks>>

\* RetryPolicy.execute after a ToolProviderError.
Failed(l, retryable) ==
    IF retryable /\ load[l].attempt < MaxAttempts
    THEN /\ load' = [load EXCEPT ![l].status = "pending", ![l].attempt = @ + 1,
                                 ![l].position = 0, ![l].route = <<>>]
         /\ UNCHANGED <<inflight, entries>>
    ELSE Ends(l, "failed")

Released_Slip(answered) == IF answered THEN permits + 1 ELSE permits
Released(answered) == permits + 1

\* The provider that the load is calling answers.
ProviderAnswers(l, answer) ==
    LET p == load[l].route[load[l].position]
        error == ErrorOf(service.chain[p], service.operation, answer)
    IN
    /\ load[l].status = "calling"
    /\ CASE error = Fine ->
              /\ circuits' = [circuits EXCEPT ![p] = NoteSuccess(@)]
              /\ permits' = Released(TRUE) /\ Ends(l, "success")
         [] error = Crash ->
              permits' = Released(TRUE) /\ Ends(l, "crashed") /\ UNCHANGED circuits
         [] OTHER ->
              /\ circuits' = [circuits EXCEPT ![p] = NoteFailure(@, now)]
              /\ IF CanFailover(error, load[l].position, load[l].route)
                 THEN /\ load' = [load EXCEPT ![l].position = @ + 1]
                      /\ UNCHANGED <<permits, inflight, entries>>
                 ELSE permits' = Released(TRUE) /\ Failed(l, error.retryable)
    /\ reply' = None
    /\ UNCHANGED <<service, call, queue, left, now, asks>>

\* asyncio.wait_for cancels the chain: it notes nothing and does not go on to
\* its next provider, and the attempt has timed out.
GatewayTimeout(l) ==
    /\ load[l].status = "calling"
    /\ permits' = Released(FALSE)
    /\ Failed(l, TRUE)
    /\ reply' = None
    /\ UNCHANGED <<service, call, circuits, queue, left, now, asks>>

-----------------------------------------------------------------------------

Tick ==
    /\ now < MaxTime /\ now' = now + 1 /\ reply' = None
    /\ UNCHANGED <<service, call, load, inflight, entries, circuits, permits, queue, left,
                   asks>>

Deadline(r) ==
    /\ left[r] # Late /\ left' = [left EXCEPT ![r] = Late] /\ reply' = None
    /\ UNCHANGED <<service, call, load, inflight, entries, circuits, permits, queue, now, asks>>

Next ==
    \/ \E c \in Calls : Resume(c) \/ Cancel(c) \/ \E k \in Keys : Ask(c, k)
    \/ \E l \in Calls :
        \/ StartAttempt(l) \/ EnterChain(l) \/ GatewayTimeout(l)
        \/ \E a \in Answers : ProviderAnswers(l, a)
    \/ Tick \/ \E r \in Runs : Deadline(r)

\* Tasks that are ready run, and wait_for ends every provider call.
Fairness ==
    \A c \in Calls : /\ WF_vars(StartAttempt(c)) /\ WF_vars(EnterChain(c))
                     /\ WF_vars(GatewayTimeout(c)) /\ WF_vars(Resume(c))

Spec == Init /\ [][Next]_vars /\ Fairness

-----------------------------------------------------------------------------
(* Properties. *)

Active(l) == load[l].status \in {"pending", "queued", "calling"}

\* A key has at most one load under way, it is the one _inflight names, and
\* _inflight never names a load that has ended: a call that joined one would
\* be given an old failure, and a second load would ask the provider twice
\* (AsyncTTLCache.get_or_load and the finally of _load_and_cache).
SingleFlight ==
    /\ \A l \in Calls : Active(l) => inflight[load[l].key] = l
    /\ \A k \in Keys : inflight[k] # None =>
        Active(inflight[k]) /\ load[inflight[k]].key = k

\* A permit is held by exactly the loads that are calling a provider, however
\* the call ends: answer, failure, exception, timeout or the deadline of the
\* run (the async with of _execute).
PermitsAreReturned ==
    permits + Cardinality({l \in Calls : load[l].status = "calling"}) = MaxConcurrency

\* The state is well typed, the cache holds no more than its entries, and the
\* semaphore loses and gains no permit.
WithinLimits == TypeOK /\ PermitsAreReturned

\* A result was fetched less than its time to live ago, or after the caller
\* asked for it (the TTL of get_or_load, for hits and for joined loads).
FreshAnswers ==
    reply # None /\ reply.result = "success" =>
        now < reply.at + Ttl \/ reply.at >= reply.asked

\* The provider that load l is calling answers, and without an error.
Fetches(l) ==
    \E a \in Answers :
        /\ ProviderAnswers(l, a)
        /\ ErrorOf(service.chain[load[l].route[load[l].position]],
                   service.operation, a) = Fine

\* A key gets a new entry only in the step in which the provider called by the
\* load of that key answers without an error, and the entry holds that answer:
\* no failure, no timeout, no crash, no exceeded budget and no answer to another
\* query is ever given to later calls (should_cache of _execute, and the
\* exceptions that leave _load_and_cache before it stores).
OnlySuccessIsCached ==
    [][\A k \in Keys : entries'[k] # None /\ entries'[k] # entries[k] =>
        /\ entries'[k].value = "success"
        /\ \E l \in Calls : load[l].key = k /\ Fetches(l)]_vars

\* A provider is passed over only after it failed FailureThreshold times with
\* no success since (_note_failure, _note_success and _is_open).
OpenHasReason ==
    \A p \in Providers : IsOpen(circuits[p], now) =>
        circuits[p].failures >= FailureThreshold

\* The budget error that a call raises is the deadline or the exhausted budget
\* of the run whose call created the load (begin_tool_attempt and
\* effective_timeout in load).
RaisedForTheLoader ==
    reply # None /\ reply.result = "exceeded" =>
        left[reply.by] \in {0, Late}

\* Every call ends, whatever the providers do (retries are bounded, provider
\* calls time out, permits are handed on first come first served).
EveryCallEnds == \A c \in Calls : call[c] # NoCall ~> call[c] = NoCall

\* An exception of a run's budget reaches the calls of that run only: the
\* ledger meters one run.
BudgetIsOwn ==
    reply # None /\ reply.result = "exceeded" =>
        left[RunOf[reply.caller]] \in {0, Late}

\* A timeout is followed by the next provider of the chain, before the result
\* is a failure: a load fails only after the last provider was asked.
TimeoutFailsOver ==
    [][\A l \in Calls : GatewayTimeout(l) /\ load'[l].result = "failed" =>
        load[l].position = Len(load[l].route)]_vars

\* A refused key is not retried: the load ends with the first such answer.
DeniedIsFinal ==
    [][\A l \in Calls, a \in Answers \cap {"http_401", "http_403"} :
        ProviderAnswers(l, a) => ~Active(l)']_vars

\* A failure of the server is retried or passed on to the next provider.
ServerErrorGoesOn ==
    [][\A l \in Calls, a \in Answers \cap {"http_500"} :
        ProviderAnswers(l, a) /\ load[l].attempt < MaxAttempts => Active(l)']_vars
=============================================================================

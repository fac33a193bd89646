-------------------------- MODULE ToolGateway_proofs --------------------------
(***************************************************************************)
(* Theorems about ToolGateway: for any number of callers, runs, keys,      *)
(* attempts and permits, a key has one load, permits come back, answers    *)
(* are fresh, budget errors have their reason, and so have open circuits.  *)
(*                                                                         *)
(* The invariant has one part per piece of shared state: the loads with    *)
(* the calls that wait for them (LoadFits, SingleFlight, Joined), the      *)
(* cache (EntryFits), the circuits (CircuitFits), the budgets (MeterFits), *)
(* the semaphore and its queue (QueueFits, PermitsFit).  A second one,     *)
(* LInv, bounds attempts, cache and counters, from which types and limits  *)
(* follow.                                                                 *)
(***************************************************************************)
EXTENDS ToolGateway, FiniteSetTheorems, WellFoundedInduction, TLAPS

LoadFields == {"key", "status", "attempt", "route", "position", "result", "at"}
Statuses == {"off", "pending", "queued", "calling", "ended"}

IsLoad(x) ==
    /\ DOMAIN x = LoadFields
    /\ x.status \in Statuses /\ x.at \in Nat
    /\ x.status # "off" => x.key \in Keys

Call == [key : Keys \cup {None}, load : Calls \cup {None}, asked : Nat]

LoadFits ==
    /\ DOMAIN load = Calls /\ \A l \in Calls : IsLoad(load[l])
    /\ call \in [Calls -> Call]
    /\ inflight \in [Keys -> Calls \cup {None}]
    /\ now \in Nat

\* A call waits for a load of its key that was under way when it joined.
Joined ==
    \A c \in Calls : call[c] # NoCall =>
        /\ call[c].load \in Calls /\ call[c].asked <= now
        /\ load[call[c].load].status # "off" /\ load[call[c].load].key = call[c].key
        /\ load[call[c].load].status = "ended" => load[call[c].load].at >= call[c].asked

EntryFits ==
    \A k \in Keys : entries[k] # None =>
        /\ entries[k].value = "success"
        /\ entries[k].inserted \in Nat /\ entries[k].expires = entries[k].inserted + Ttl

CircuitFits ==
    /\ circuits \in [Providers -> Circuit]
    /\ \A p \in Providers : circuits[p].openUntil > 0 =>
            circuits[p].failures = FailureThreshold

MeterFits ==
    /\ left \in [Runs -> 0..Late]
    /\ \A l \in Calls : load[l].status = "ended" /\ load[l].result = "exceeded" =>
            left[RunOf[l]] \in {0, Late}

QueueFits ==
    /\ queue \in Seq(Calls)
    /\ \A i \in 1..Len(queue) : load[queue[i]].status = "queued"
    /\ \A i, j \in 1..Len(queue) : queue[i] = queue[j] => i = j

Calling == {l \in Calls : load[l].status = "calling"}

PermitsFit == permits \in Nat /\ permits + Cardinality(Calling) = MaxConcurrency

IInv ==
    /\ LoadFits /\ SingleFlight /\ Joined
    /\ DOMAIN entries = Keys /\ EntryFits
    /\ CircuitFits /\ MeterFits
    /\ QueueFits /\ PermitsFit
    /\ FreshAnswers /\ RaisedForTheLoader

-----------------------------------------------------------------------------
LEMMA Limits ==
    Ttl \in Nat \ {0} /\ MaxConcurrency \in Nat \ {0} /\ RunBudget \in Nat
  BY GatewayAssumption

LEMMA NoLoadIsLoad == IsLoad(NoLoad) /\ NoLoad.status = "off" /\ NoCall \in Call
  BY DEF IsLoad, NoLoad, NoCall, Call, LoadFields, Statuses

LEMMA InitFits == Init => IInv
<1> SUFFICES ASSUME Init PROVE IInv
  OBVIOUS
<1>1. LoadFits /\ SingleFlight /\ Joined
  BY NoLoadIsLoad DEF Init, LoadFits, SingleFlight, Joined, Active
<1>2. DOMAIN entries = Keys /\ EntryFits
  BY DEF Init, EntryFits
<1>3. CircuitFits
  BY ChainAssumption DEF Init, CircuitFits, Circuit, Closed
<1>4. MeterFits
  BY NoLoadIsLoad, Limits DEF Init, MeterFits, Late
<1>5. QueueFits
  BY DEF Init, QueueFits
<1>6. PermitsFit
  <2>1. Calling = {}
    BY NoLoadIsLoad DEF Init, Calling
  <2> QED
    BY <2>1, FS_EmptySet, Limits DEF Init, PermitsFit
<1>7. FreshAnswers /\ RaisedForTheLoader
  BY DEF Init, FreshAnswers, RaisedForTheLoader
<1> QED
  BY <1>1, <1>2, <1>3, <1>4, <1>5, <1>6, <1>7 DEF IInv

-----------------------------------------------------------------------------
(* The loads that hold a permit. *)

LEMMA CallingSame ==
    ASSUME \A l \in Calls : load'[l].status = "calling" <=> load[l].status = "calling"
    PROVE  Calling' = Calling
  BY DEF Calling

LEMMA CallingIsFinite == IsFiniteSet(Calling)
  BY FS_Subset, GatewayAssumption DEF Calling

LEMMA CallingMore ==
    ASSUME NEW l \in Calls, load[l].status # "calling", load'[l].status = "calling",
           \A m \in Calls \ {l} : load'[m] = load[m]
    PROVE  Cardinality(Calling') = Cardinality(Calling) + 1
<1>1. Calling' = Calling \cup {l} /\ l \notin Calling
  BY DEF Calling
<1> QED
  BY <1>1, CallingIsFinite, FS_AddElement

LEMMA CallingLess ==
    ASSUME NEW l \in Calls, load[l].status = "calling", load'[l].status # "calling",
           \A m \in Calls \ {l} : load'[m] = load[m]
    PROVE  Cardinality(Calling') = Cardinality(Calling) - 1
<1>1. Calling' = Calling \ {l} /\ l \in Calling
  BY DEF Calling
<1> QED
  BY <1>1, CallingIsFinite, FS_RemoveElement

LEMMA CallingIsNatural == Cardinality(Calling) \in Nat
  BY CallingIsFinite, FS_CardinalityType

-----------------------------------------------------------------------------
(* A load that goes on, and one that ends. *)

LEMMA Advancing ==
    ASSUME IInv, NEW l \in Calls, Active(l), Active(l)', IsLoad(load'[l]),
           DOMAIN load' = Calls, \A m \in Calls \ {l} : load'[m] = load[m],
           load'[l].key = load[l].key, UNCHANGED <<call, inflight, now>>
    PROVE  LoadFits' /\ SingleFlight' /\ Joined'
<1>1. LoadFits'
  BY DEF IInv, LoadFits
<1>2. \A m \in Calls : Active(m)' <=> Active(m)
  BY DEF Active
<1>3. \A m \in Calls : load'[m].key = load[m].key
  OBVIOUS
<1>4. SingleFlight'
  <2>1. ASSUME NEW m \in Calls, Active(m)' PROVE inflight'[load'[m].key] = m
    BY <1>2, <1>3, <2>1 DEF IInv, SingleFlight
  <2>2. ASSUME NEW k \in Keys, inflight'[k] # None
        PROVE  Active(inflight[k])' /\ load'[inflight'[k]].key = k
    <3>1. inflight[k] \in Calls /\ Active(inflight[k]) /\ load[inflight[k]].key = k
      BY <2>2 DEF IInv, LoadFits, SingleFlight
    <3> QED
      BY <1>2, <1>3, <3>1 DEF Active
  <2> QED
    BY <2>1, <2>2 DEF SingleFlight, Active
<1>5. Joined'
  BY DEF IInv, Joined, Active
<1> QED
  BY <1>1, <1>4, <1>5

LEMMA EntriesAfter ==
    ASSUME IInv, NEW k \in Keys
    PROVE  LET next == WithEntry(k, Entry("success"))
           IN  /\ DOMAIN next = Keys
               /\ \A j \in Keys : next[j] # None =>
                    /\ next[j].value = "success"
                    /\ next[j].inserted \in Nat /\ next[j].expires = next[j].inserted + Ttl
<1>1. /\ Entry("success").inserted \in Nat /\ Entry("success").value = "success"
      /\ Entry("success").expires = Entry("success").inserted + Ttl
  BY DEF IInv, LoadFits, Entry
<1>2. DOMAIN WithEntry(k, Entry("success")) = Keys
  BY DEF WithEntry
<1>3. \A j \in Keys : WithEntry(k, Entry("success"))[j] \in {Entry("success"), entries[j], None}
  BY DEF WithEntry
<1> QED
  BY <1>1, <1>2, <1>3 DEF IInv, EntryFits

LEMMA Ending ==
    ASSUME IInv, NEW l \in Calls, NEW result, Active(l), Ends(l, result),
           UNCHANGED <<call, now>>
    PROVE  /\ LoadFits' /\ SingleFlight' /\ Joined' /\ DOMAIN entries' = Keys /\ EntryFits'
           /\ load'[l].status \in {"off", "ended"}
           /\ load'[l].status = "ended" => load'[l].result = result
           /\ \A m \in Calls \ {l} : load'[m] = load[m]
<1> DEFINE k == load[l].key
<1>1. k \in Keys /\ IsLoad(load[l]) /\ DOMAIN load = Calls
  BY DEF IInv, LoadFits, IsLoad, Active
<1>2. /\ DOMAIN load' = Calls /\ \A m \in Calls \ {l} : load'[m] = load[m]
      /\ inflight' = [inflight EXCEPT ![k] = None]
  BY <1>1 DEF Ends, InflightAfter
<1>3. \/ Waiting(l) = {} /\ load'[l] = NoLoad
      \/ /\ Waiting(l) # {} /\ load'[l].status = "ended" /\ load'[l].result = result
         /\ load'[l].key = k /\ load'[l].at = now /\ DOMAIN load'[l] = LoadFields
  BY <1>1 DEF Ends, IsLoad, LoadFields
<1>4. IsLoad(load'[l]) /\ load'[l].status \in {"off", "ended"}
  BY <1>1, <1>3, NoLoadIsLoad DEF IInv, LoadFits, IsLoad, Statuses
<1>5. LoadFits'
  BY <1>2, <1>4 DEF IInv, LoadFits
<1>6. SingleFlight'
  <2>1. ASSUME NEW m \in Calls, Active(m)' PROVE inflight'[load'[m].key] = m
    <3>1. m # l /\ load'[m] = load[m] /\ Active(m)
      BY <1>2, <1>4, <2>1 DEF Active
    <3>2. inflight[load[m].key] = m /\ inflight[k] = l /\ load[m].key \in Keys
      BY <3>1 DEF IInv, SingleFlight, LoadFits, IsLoad, Active
    <3> QED
      BY <1>2, <3>1, <3>2 DEF IInv, LoadFits
  <2>2. ASSUME NEW j \in Keys, inflight'[j] # None
        PROVE  Active(inflight[j])' /\ load'[inflight'[j]].key = j
    <3>1. inflight'[j] = inflight[j] /\ inflight[j] \in Calls /\ j # k
      BY <1>2, <2>2, <1>1 DEF IInv, LoadFits
    <3>2. Active(inflight[j]) /\ load[inflight[j]].key = j
      BY <2>2, <3>1 DEF IInv, SingleFlight
    <3> QED
      BY <1>2, <3>1, <3>2 DEF Active
  <2> QED
    BY <2>1, <2>2 DEF SingleFlight, Active
<1>7. Joined'
  <2> SUFFICES ASSUME NEW c \in Calls, call[c] # NoCall
               PROVE  LET m == call[c].load IN
                      /\ m \in Calls /\ call[c].asked <= now
                      /\ load'[m].status # "off" /\ load'[m].key = call[c].key
                      /\ load'[m].status = "ended" => load'[m].at >= call[c].asked
    BY DEF Joined
  <2>1. CASE call[c].load # l
    BY <1>2, <2>1 DEF IInv, Joined
  <2>2. CASE call[c].load = l
    <3>1. c \in Waiting(l)
      BY <2>2 DEF Waiting
    <3> QED
      BY <1>3, <2>2, <3>1 DEF IInv, Joined
  <2> QED
    BY <2>1, <2>2
<1>8. DOMAIN entries' = Keys /\ EntryFits'
  <2>1. CASE ShouldCache(result)
    BY <1>1, <2>1, EntriesAfter DEF Ends, ShouldCache, EntryFits
  <2>2. CASE ~ShouldCache(result)
    BY <2>2 DEF Ends, IInv, EntryFits
  <2> QED
    BY <2>1, <2>2
<1> QED
  BY <1>2, <1>3, <1>4, <1>5, <1>6, <1>7, <1>8, NoLoadIsLoad

-----------------------------------------------------------------------------
(* The budgets and the queue, when one load changes. *)

LEMMA MeterAfter ==
    ASSUME IInv, left' \in [Runs -> 0..Late],
           \A r \in Runs : left[r] \in {0, Late} => left'[r] \in {0, Late},
           \A l \in Calls : load'[l].status = "ended" /\ load'[l].result = "exceeded" =>
              \/ load[l].status = "ended" /\ load[l].result = "exceeded"
              \/ left[RunOf[l]] \in {0, Late}
    PROVE  MeterFits'
<1>1. \A l \in Calls : RunOf[l] \in Runs
  BY GatewayAssumption
<1> QED
  BY <1>1 DEF IInv, MeterFits

LEMMA QueueStays ==
    ASSUME IInv, queue' = queue,
           \A l \in Calls : load[l].status = "queued" => load'[l].status = "queued"
    PROVE  QueueFits'
  BY DEF IInv, QueueFits

\* A head that leaves the queue is not in its tail.
LEMMA QueueShrinks ==
    ASSUME IInv, NEW l \in Calls, queue # <<>>, l = Head(queue), queue' = Tail(queue),
           \A m \in Calls \ {l} : load'[m] = load[m]
    PROVE  QueueFits' /\ load[l].status = "queued"
<1>1. /\ queue \in Seq(Calls) /\ Len(queue) \in Nat /\ Len(queue) > 0
      /\ queue[1] = l
  BY DEF IInv, QueueFits
<1>2. /\ Tail(queue) \in Seq(Calls) /\ Len(Tail(queue)) = Len(queue) - 1
      /\ \A i \in 1..Len(Tail(queue)) : Tail(queue)[i] = queue[i + 1]
  BY <1>1
<1>3. \A i, j \in 1..Len(queue) : queue[i] = queue[j] => i = j
  BY DEF IInv, QueueFits
<1>4. \A i \in 1..Len(Tail(queue)) :
        /\ i + 1 \in 1..Len(queue) /\ queue[i + 1] \in Calls \ {l}
  BY <1>1, <1>2, <1>3
<1>5. \A i \in 1..Len(Tail(queue)) : load'[Tail(queue)[i]].status = "queued"
  BY <1>2, <1>4 DEF IInv, QueueFits
<1>6. \A i, j \in 1..Len(Tail(queue)) : Tail(queue)[i] = Tail(queue)[j] => i = j
  BY <1>1, <1>2, <1>3, <1>4
<1>7. load[l].status = "queued"
  BY <1>1 DEF IInv, QueueFits
<1> QED
  BY <1>2, <1>5, <1>6, <1>7 DEF QueueFits

LEMMA QueueGrows ==
    ASSUME IInv, NEW l \in Calls, queue' = Append(queue, l),
           load[l].status # "queued", load'[l].status = "queued",
           \A m \in Calls \ {l} : load'[m] = load[m]
    PROVE  QueueFits'
<1>1. queue \in Seq(Calls) /\ Len(queue) \in Nat
  BY DEF IInv, QueueFits
<1>2. /\ queue' \in Seq(Calls) /\ Len(queue') = Len(queue) + 1
      /\ \A i \in 1..Len(queue) : queue'[i] = queue[i]
      /\ queue'[Len(queue) + 1] = l
  BY <1>1
<1>3. \A i \in 1..Len(queue) : queue[i] \in Calls \ {l}
  BY <1>1 DEF IInv, QueueFits
<1>4. \A i \in 1..Len(queue') : i \in 1..Len(queue) \/ i = Len(queue) + 1
  BY <1>1, <1>2
<1>5. \A i \in 1..Len(queue') : load'[queue'[i]].status = "queued"
  BY <1>2, <1>3, <1>4 DEF IInv, QueueFits
<1>6. \A i, j \in 1..Len(queue') : queue'[i] = queue'[j] => i = j
  BY <1>2, <1>3, <1>4 DEF IInv, QueueFits
<1> QED
  BY <1>2, <1>5, <1>6 DEF QueueFits

-----------------------------------------------------------------------------
(* The actions of a caller. *)

LEMMA SilentReply ==
    ASSUME reply' = None
    PROVE  FreshAnswers' /\ RaisedForTheLoader'
  BY DEF FreshAnswers, RaisedForTheLoader

\* A call that finds no live entry joins the load of its key, or creates it.
LEMMA AskMisses ==
    ASSUME IInv, NEW c \in Calls, NEW k \in Keys, Ask(c, k), ~IsLive(k)
    PROVE  /\ LoadFits' /\ SingleFlight' /\ Joined'
           /\ DOMAIN load' = Calls /\ \A l \in Calls \ {c} : load'[l] = load[l]
           /\ load[c].status = "off" /\ load'[c].status \in {"off", "pending"}
<1> DEFINE l == IF inflight[k] = None THEN c ELSE inflight[k]
           new == [NoLoad EXCEPT !.key = k, !.attempt = 1, !.status = "pending"]
<1>1. /\ call[c] = NoCall /\ load[c] = NoLoad /\ load[c].status = "off"
      /\ call' = [call EXCEPT ![c] = [key |-> k, load |-> l, asked |-> now]]
      /\ inflight' = [inflight EXCEPT ![k] = l] /\ now' = now
      /\ load' = IF l # c THEN load ELSE [load EXCEPT ![c] = new]
  BY NoLoadIsLoad DEF Ask
<1>2. /\ DOMAIN load = Calls /\ call \in [Calls -> Call] /\ now \in Nat
      /\ inflight \in [Keys -> Calls \cup {None}] /\ c # None
      /\ \A m \in Calls : IsLoad(load[m])
  BY GatewayAssumption DEF IInv, LoadFits
<1>3. IsLoad(new) /\ new.status = "pending" /\ new.key = k
  BY DEF NoLoad, IsLoad, LoadFields, Statuses
<1>4. \A m \in Calls \ {c} : load'[m] = load[m]
  BY <1>1, <1>2
<1>5. CASE inflight[k] = None
  <2>1. l = c /\ load' = [load EXCEPT ![c] = new] /\ load'[c] = new /\ inflight'[k] = c
    BY <1>1, <1>2, <1>5
  <2>2. LoadFits'
    BY <1>1, <1>2, <1>3, <2>1 DEF LoadFits, Call
  <2>3. SingleFlight'
    <3>1. ASSUME NEW m \in Calls, Active(m)' PROVE inflight'[load'[m].key] = m
      <4>1. CASE m = c
        BY <1>3, <2>1, <4>1
      <4>2. CASE m # c
        <5>1. Active(m) /\ load'[m] = load[m] /\ load[m].key \in Keys
          BY <1>2, <1>4, <3>1, <4>2 DEF Active, IsLoad
        <5>2. inflight[load[m].key] = m /\ m # None
          BY <5>1, GatewayAssumption DEF IInv, SingleFlight
        <5> QED
          BY <1>1, <1>2, <1>5, <5>1, <5>2
      <4> QED
        BY <4>1, <4>2
    <3>2. ASSUME NEW j \in Keys, inflight'[j] # None
          PROVE  Active(inflight[j])' /\ load'[inflight'[j]].key = j
      <4>1. CASE j = k
        BY <1>3, <2>1, <4>1 DEF Active
      <4>2. CASE j # k
        <5>1. inflight'[j] = inflight[j] /\ inflight[j] \in Calls
          BY <1>1, <1>2, <3>2, <4>2
        <5>2. Active(inflight[j]) /\ load[inflight[j]].key = j
          BY <3>2, <5>1 DEF IInv, SingleFlight
        <5>3. inflight[j] # c
          BY <1>1, <5>2 DEF Active
        <5> QED
          BY <1>4, <5>1, <5>2, <5>3 DEF Active
      <4> QED
        BY <4>1, <4>2
    <3> QED
      BY <3>1, <3>2 DEF SingleFlight, Active
  <2>4. Joined'
    <3> SUFFICES ASSUME NEW d \in Calls, call'[d] # NoCall
                 PROVE  LET m == call'[d].load IN
                        /\ m \in Calls /\ call'[d].asked <= now
                        /\ load'[m].status # "off" /\ load'[m].key = call'[d].key
                        /\ load'[m].status = "ended" => load'[m].at >= call'[d].asked
      BY <1>1 DEF Joined
    <3>1. CASE d = c
      BY <1>1, <1>2, <1>3, <2>1, <3>1
    <3>2. CASE d # c
      <4>1. call'[d] = call[d] /\ call[d] # NoCall
        BY <1>1, <1>2, <3>2
      <4>2. call[d].load # c
        BY <1>1, <4>1 DEF IInv, Joined
      <4> QED
        BY <1>4, <4>1, <4>2 DEF IInv, Joined
    <3> QED
      BY <3>1, <3>2
  <2> QED
    BY <1>1, <1>2, <1>3, <1>4, <2>1, <2>2, <2>3, <2>4
<1>6. CASE inflight[k] # None
  <2>1. inflight[k] \in Calls /\ Active(inflight[k]) /\ load[inflight[k]].key = k
    BY <1>2, <1>6 DEF IInv, SingleFlight
  <2>2. l # c /\ l = inflight[k] /\ load' = load /\ inflight' = inflight
    BY <1>1, <1>2, <1>6, <2>1 DEF Active
  <2>3. LoadFits'
    BY <1>1, <1>2, <2>1, <2>2 DEF LoadFits, Call
  <2>4. SingleFlight'
    BY <2>2 DEF IInv, SingleFlight, Active
  <2>5. Joined'
    <3>1. /\ load[l].status \in {"pending", "queued", "calling"} /\ load[l].key = k
          /\ l \in Calls /\ now <= now
      BY <1>2, <2>1, <2>2 DEF Active
    <3>2. ASSUME NEW d \in Calls, d # c PROVE call'[d] = call[d]
      BY <1>1, <1>2, <3>2
    <3>3. call'[c] = [key |-> k, load |-> l, asked |-> now]
      BY <1>1, <1>2
    <3> HIDE DEF l
    <3> QED
      BY <1>1, <2>2, <3>1, <3>2, <3>3 DEF IInv, Joined
  <2> QED
    BY <1>1, <1>2, <2>2, <2>3, <2>4, <2>5
<1> QED
  BY <1>5, <1>6

LEMMA AskKeeps ==
    ASSUME IInv, NEW c \in Calls, NEW k \in Keys, Ask(c, k)
    PROVE  IInv'
<1>1. UNCHANGED <<circuits, permits, queue, left, now>>
  BY DEF Ask
<1>2. CASE IsLive(k)
  <2>1. /\ UNCHANGED <<call, load, inflight, entries>>
        /\ reply' = [caller |-> c, result |-> entries[k].value, hit |-> TRUE, key |-> k,
                     by |-> None, at |-> entries[k].inserted, asked |-> now]
        /\ entries[k].value = "success"
    BY <1>2 DEF Ask, IsLive, IInv, EntryFits
  <2>2. /\ LoadFits' /\ SingleFlight' /\ Joined' /\ DOMAIN entries' = Keys /\ EntryFits'
        /\ CircuitFits' /\ MeterFits' /\ QueueFits'
    BY <1>1, <2>1 DEF IInv, LoadFits, SingleFlight, Active, Joined, EntryFits, CircuitFits,
                      MeterFits, QueueFits
  <2>3. PermitsFit'
    BY <1>1, <2>1, CallingSame DEF IInv, PermitsFit
  <2>4. FreshAnswers'
    BY <1>1, <1>2, <2>1 DEF FreshAnswers, IsLive, IInv, EntryFits
  <2>5. RaisedForTheLoader'
    BY <2>1 DEF RaisedForTheLoader
  <2> QED
    BY <2>2, <2>3, <2>4, <2>5 DEF IInv
<1>3. CASE ~IsLive(k)
  <2>1. entries' = [entries EXCEPT ![k] = None] /\ reply' = None
    BY <1>3 DEF Ask
  <2>2. /\ LoadFits' /\ SingleFlight' /\ Joined'
        /\ \A l \in Calls \ {c} : load'[l] = load[l]
        /\ load[c].status = "off" /\ load'[c].status \in {"off", "pending"}
    BY <1>3, AskMisses
  <2>3. DOMAIN entries' = Keys /\ EntryFits'
    BY <2>1 DEF IInv, EntryFits
  <2>4. CircuitFits'
    BY <1>1 DEF IInv, CircuitFits
  <2>5. MeterFits'
    BY <1>1, <2>2, MeterAfter DEF IInv, MeterFits
  <2>6. QueueFits'
    BY <1>1, <2>2, QueueStays
  <2>7. PermitsFit'
    <3>1. \A l \in Calls : load'[l].status = "calling" <=> load[l].status = "calling"
      BY <2>2
    <3> QED
      BY <1>1, <3>1, CallingSame DEF IInv, PermitsFit
  <2> QED
    BY <2>1, <2>2, <2>3, <2>4, <2>5, <2>6, <2>7, SilentReply DEF IInv
<1> QED
  BY <1>2, <1>3

\* A caller leaves: its load is forgotten if it has ended and nobody else waits.
LEMMA Leaving ==
    ASSUME IInv, NEW c \in Calls, call[c] # NoCall, call' = [call EXCEPT ![c] = NoCall],
           load' \in {load, [load EXCEPT ![call[c].load] = NoLoad]},
           load' # load => /\ load[call[c].load].status = "ended"
                           /\ Waiting(call[c].load) = {c},
           UNCHANGED <<inflight, entries, circuits, permits, queue, left, now>>
    PROVE  /\ LoadFits' /\ SingleFlight' /\ Joined' /\ DOMAIN entries' = Keys /\ EntryFits'
           /\ CircuitFits' /\ MeterFits' /\ QueueFits' /\ PermitsFit'
<1> DEFINE l == call[c].load
<1>1. /\ l \in Calls /\ DOMAIN load = Calls /\ call \in [Calls -> Call]
      /\ \A m \in Calls : IsLoad(load[m])
  BY DEF IInv, LoadFits, Joined
<1>2. /\ DOMAIN load' = Calls /\ \A m \in Calls \ {l} : load'[m] = load[m]
      /\ \/ load'[l] = load[l]
         \/ /\ load'[l] = NoLoad /\ load[l].status = "ended"
            /\ Waiting(l) = {c}
  BY <1>1
<1>3. \A m \in Calls : \/ load'[m] = load[m]
                       \/ /\ load'[m] = NoLoad /\ load[m].status = "ended"
                          /\ Waiting(m) = {c}
  BY <1>2
<1> HIDE DEF l
<1>4. LoadFits'
  BY <1>1, <1>2, <1>3, NoLoadIsLoad DEF IInv, LoadFits
<1>5. \A m \in Calls : Active(m) => load'[m] = load[m]
  BY <1>3 DEF Active
<1>6. \A m \in Calls : load'[m].status \in {"pending", "queued", "calling"} =>
        load'[m] = load[m]
  BY <1>3, NoLoadIsLoad
<1>7. SingleFlight'
  <2>1. ASSUME NEW m \in Calls, Active(m)' PROVE inflight'[load'[m].key] = m
    <3>1. load'[m] = load[m] /\ Active(m)
      BY <1>6, <2>1 DEF Active
    <3> QED
      BY <3>1 DEF IInv, SingleFlight
  <2>2. ASSUME NEW j \in Keys, inflight'[j] # None
        PROVE  Active(inflight[j])' /\ load'[inflight'[j]].key = j
    <3>1. /\ inflight[j] \in Calls /\ Active(inflight[j]) /\ load[inflight[j]].key = j
      BY <2>2 DEF IInv, LoadFits, SingleFlight
    <3> QED
      BY <1>5, <3>1 DEF Active
  <2> QED
    BY <2>1, <2>2 DEF SingleFlight, Active
<1>8. Joined'
  <2> SUFFICES ASSUME NEW d \in Calls, call'[d] # NoCall
               PROVE  LET m == call'[d].load IN
                      /\ m \in Calls /\ call'[d].asked <= now
                      /\ load'[m].status # "off" /\ load'[m].key = call'[d].key
                      /\ load'[m].status = "ended" => load'[m].at >= call'[d].asked
    BY DEF Joined
  <2>1. d # c /\ call'[d] = call[d] /\ call[d] # NoCall /\ call[d].load \in Calls
    BY <1>1 DEF IInv, Joined
  <2>2. load'[call[d].load] = load[call[d].load]
    BY <1>3, <2>1 DEF Waiting
  <2> QED
    BY <2>1, <2>2 DEF IInv, Joined
<1>9. DOMAIN entries' = Keys /\ EntryFits' /\ CircuitFits'
  BY DEF IInv, EntryFits, CircuitFits
<1>10. MeterFits'
  BY <1>3, NoLoadIsLoad, MeterAfter DEF IInv, MeterFits
<1>11. QueueFits'
  BY <1>3, QueueStays
<1>12. PermitsFit'
  <2>1. \A m \in Calls : load'[m].status = "calling" <=> load[m].status = "calling"
    BY <1>3, NoLoadIsLoad
  <2> QED
    BY <2>1, CallingSame DEF IInv, PermitsFit
<1> QED
  BY <1>4, <1>7, <1>8, <1>9, <1>10, <1>11, <1>12

LEMMA ResumeKeeps ==
    ASSUME IInv, NEW c \in Calls, Resume(c)
    PROVE  IInv'
<1> DEFINE l == call[c].load
<1>1. /\ call[c] # NoCall /\ call' = [call EXCEPT ![c] = NoCall]
      /\ load[l].status = "ended"
      /\ load' = IF Waiting(l) = {c} THEN [load EXCEPT ![l] = NoLoad] ELSE load
      /\ UNCHANGED <<inflight, entries, circuits, permits, queue, left, now>>
      /\ reply' = [caller |-> c, result |-> load[l].result, key |-> call[c].key,
                   hit |-> c # l /\ load[l].result = "success",
                   by |-> RunOf[l], at |-> load[l].at, asked |-> call[c].asked]
  BY DEF Resume
<1>2. /\ LoadFits' /\ SingleFlight' /\ Joined' /\ DOMAIN entries' = Keys /\ EntryFits'
      /\ CircuitFits' /\ MeterFits' /\ QueueFits' /\ PermitsFit'
  BY <1>1, Leaving
<1>3. FreshAnswers'
  BY <1>1 DEF FreshAnswers, IInv, Joined
<1>4. RaisedForTheLoader'
  BY <1>1 DEF RaisedForTheLoader, IInv, MeterFits, Joined
<1> QED
  BY <1>2, <1>3, <1>4 DEF IInv

LEMMA CancelKeeps ==
    ASSUME IInv, NEW c \in Calls, Cancel(c)
    PROVE  IInv'
<1> DEFINE l == call[c].load
<1>1. /\ call[c] # NoCall /\ call' = [call EXCEPT ![c] = NoCall]
      /\ load' = IF load[l].status = "ended" /\ Waiting(l) = {c}
                 THEN [load EXCEPT ![l] = NoLoad] ELSE load
      /\ UNCHANGED <<inflight, entries, circuits, permits, queue, left, now>>
      /\ reply' = None
  BY DEF Cancel
<1>2. /\ LoadFits' /\ SingleFlight' /\ Joined' /\ DOMAIN entries' = Keys /\ EntryFits'
      /\ CircuitFits' /\ MeterFits' /\ QueueFits' /\ PermitsFit'
  BY <1>1, Leaving
<1> QED
  BY <1>1, <1>2, SilentReply DEF IInv

-----------------------------------------------------------------------------
(* The actions of a load. *)

LEMMA StartAttemptKeeps ==
    ASSUME IInv, NEW l \in Calls, StartAttempt(l)
    PROVE  IInv'
<1>1. /\ load[l].status = "pending" /\ Active(l) /\ reply' = None
      /\ UNCHANGED <<call, circuits, permits, now>>
  BY DEF StartAttempt, Active
<1>2. /\ DOMAIN load = Calls /\ IsLoad(load[l]) /\ RunOf[l] \in Runs
      /\ left \in [Runs -> 0..Late]
  BY GatewayAssumption DEF IInv, LoadFits, MeterFits
<1>3. CircuitFits'
  BY <1>1 DEF IInv, CircuitFits
<1>4. CASE Exhausted(RunOf[l])
  <2>1. Ends(l, "exceeded") /\ UNCHANGED <<left, queue>> /\ left[RunOf[l]] \in {0, Late}
    BY <1>1, <1>4 DEF StartAttempt, Exhausted
  <2>2. /\ LoadFits' /\ SingleFlight' /\ Joined' /\ DOMAIN entries' = Keys /\ EntryFits'
        /\ load'[l].status \in {"off", "ended"}
        /\ \A m \in Calls \ {l} : load'[m] = load[m]
    BY <1>1, <2>1, Ending
  <2>3. MeterFits'
    BY <1>2, <2>1, <2>2, MeterAfter
  <2>4. QueueFits'
    BY <1>1, <2>1, <2>2, QueueStays
  <2>5. PermitsFit'
    <3>1. \A m \in Calls : load'[m].status = "calling" <=> load[m].status = "calling"
      BY <1>1, <2>2
    <3> QED
      BY <1>1, <3>1, CallingSame DEF IInv, PermitsFit
  <2> QED
    BY <1>1, <1>3, <2>2, <2>3, <2>4, <2>5, SilentReply DEF IInv
<1>5. CASE ~Exhausted(RunOf[l])
  <2>1. /\ left' = [left EXCEPT ![RunOf[l]] = @ - 1] /\ left[RunOf[l]] \notin {0, Late}
        /\ queue' = Append(queue, l) /\ UNCHANGED <<inflight, entries>>
        /\ load' = [load EXCEPT ![l].status = "queued"]
    BY <1>1, <1>5 DEF StartAttempt, Exhausted
  <2>2. /\ DOMAIN load' = Calls /\ \A m \in Calls \ {l} : load'[m] = load[m]
        /\ load'[l].status = "queued" /\ load'[l].key = load[l].key /\ IsLoad(load'[l])
    BY <1>1, <1>2, <2>1 DEF IsLoad, LoadFields, Statuses
  <2>3. LoadFits' /\ SingleFlight' /\ Joined'
    <3>1. Active(l)'
      BY <2>2 DEF Active
    <3> QED
      BY <1>1, <2>1, <2>2, <3>1, Advancing
  <2>4. DOMAIN entries' = Keys /\ EntryFits'
    BY <2>1 DEF IInv, EntryFits
  <2>5. MeterFits'
    <3>1. left' \in [Runs -> 0..Late]
      BY <1>2, <2>1, Limits DEF Late
    <3>2. \A r \in Runs : left[r] \in {0, Late} => left'[r] \in {0, Late}
      BY <1>2, <2>1
    <3> QED
      BY <2>2, <3>1, <3>2, MeterAfter
  <2>6. QueueFits'
    BY <1>1, <2>1, <2>2, QueueGrows
  <2>7. PermitsFit'
    <3>1. \A m \in Calls : load'[m].status = "calling" <=> load[m].status = "calling"
      BY <1>1, <2>2
    <3> QED
      BY <1>1, <3>1, CallingSame DEF IInv, PermitsFit
  <2> QED
    BY <1>1, <1>3, <2>3, <2>4, <2>5, <2>6, <2>7, SilentReply DEF IInv
<1> QED
  BY <1>4, <1>5

LEMMA RefreshedFits ==
    ASSUME CircuitFits, now \in Nat
    PROVE  /\ Refreshed(circuits, now) \in [Providers -> Circuit]
           /\ \A p \in Providers : Refreshed(circuits, now)[p].openUntil > 0 =>
                Refreshed(circuits, now)[p].failures = FailureThreshold
  BY ChainAssumption DEF CircuitFits, Refreshed, Closed, Circuit

LEMMA EnterChainKeeps ==
    ASSUME IInv, NEW l \in Calls, EnterChain(l)
    PROVE  IInv'
<1>1. /\ queue # <<>> /\ l = Head(queue) /\ permits > 0 /\ queue' = Tail(queue)
      /\ reply' = None /\ UNCHANGED <<call, left, now>>
  BY DEF EnterChain
<1>2. /\ DOMAIN load = Calls /\ IsLoad(load[l]) /\ RunOf[l] \in Runs
      /\ left \in [Runs -> 0..Late] /\ permits \in Nat /\ now \in Nat
  BY GatewayAssumption DEF IInv, LoadFits, MeterFits, PermitsFit
<1>3. load[l].status = "queued"
  <2>1. queue \in Seq(Calls) /\ 1 \in 1..Len(queue) /\ queue[1] = l
    BY <1>1 DEF IInv, QueueFits
  <2> QED
    BY <2>1 DEF IInv, QueueFits
<1>4. Active(l)
  BY <1>3 DEF Active
<1>5. CASE left[RunOf[l]] = Late
  <2>1. Ends(l, "exceeded") /\ UNCHANGED <<circuits, permits>>
    BY <1>5 DEF EnterChain
  <2>2. /\ LoadFits' /\ SingleFlight' /\ Joined' /\ DOMAIN entries' = Keys /\ EntryFits'
        /\ load'[l].status \in {"off", "ended"}
        /\ \A m \in Calls \ {l} : load'[m] = load[m]
    BY <1>1, <1>4, <2>1, Ending
  <2>3. CircuitFits'
    BY <2>1 DEF IInv, CircuitFits
  <2>4. MeterFits'
    BY <1>1, <1>2, <1>5, <2>2, MeterAfter
  <2>5. QueueFits'
    BY <1>1, <2>2, QueueShrinks
  <2>6. PermitsFit'
    <3>1. \A m \in Calls : load'[m].status = "calling" <=> load[m].status = "calling"
      BY <1>3, <2>2
    <3> QED
      BY <2>1, <3>1, CallingSame DEF IInv, PermitsFit
  <2> QED
    BY <1>1, <2>2, <2>3, <2>4, <2>5, <2>6, SilentReply DEF IInv
<1>6. CASE left[RunOf[l]] # Late
  <2>1. /\ permits' = permits - 1 /\ circuits' = Refreshed(circuits, now)
        /\ load' = [load EXCEPT ![l].status = "calling", ![l].position = 1,
                                ![l].route = Available(circuits, now)]
        /\ UNCHANGED <<inflight, entries>>
    BY <1>6 DEF EnterChain
  <2>2. /\ DOMAIN load' = Calls /\ \A m \in Calls \ {l} : load'[m] = load[m]
        /\ load'[l].status = "calling" /\ load'[l].key = load[l].key /\ IsLoad(load'[l])
    BY <1>2, <1>3, <2>1 DEF IsLoad, LoadFields, Statuses
  <2>3. LoadFits' /\ SingleFlight' /\ Joined'
    <3>1. Active(l)'
      BY <2>2 DEF Active
    <3> QED
      BY <1>1, <1>4, <2>1, <2>2, <3>1, Advancing
  <2>4. DOMAIN entries' = Keys /\ EntryFits'
    BY <2>1 DEF IInv, EntryFits
  <2>5. CircuitFits'
    BY <1>1, <1>2, <2>1, RefreshedFits DEF IInv, CircuitFits
  <2>6. MeterFits'
    BY <1>1, <1>2, <2>2, MeterAfter
  <2>7. QueueFits'
    BY <1>1, <2>2, QueueShrinks
  <2>8. PermitsFit'
    <3>1. Cardinality(Calling') = Cardinality(Calling) + 1
      BY <1>3, <2>2, CallingMore
    <3> QED
      BY <1>1, <1>2, <2>1, <3>1, CallingIsNatural DEF IInv, PermitsFit
  <2> QED
    BY <1>1, <2>3, <2>4, <2>5, <2>6, <2>7, <2>8, SilentReply DEF IInv
<1> QED
  BY <1>5, <1>6

\* What is left of the invariant when a load gives its permit back.
LEMMA GivingBack ==
    ASSUME IInv, NEW l \in Calls, load[l].status = "calling",
           load'[l].status # "calling",
           load'[l].status = "ended" => load'[l].result # "exceeded",
           \A m \in Calls \ {l} : load'[m] = load[m],
           permits' = permits + 1, UNCHANGED <<queue, left>>
    PROVE  MeterFits' /\ QueueFits' /\ PermitsFit'
<1>1. MeterFits'
  BY MeterAfter DEF IInv, MeterFits
<1>2. QueueFits'
  BY QueueStays
<1>3. PermitsFit'
  <2>1. Cardinality(Calling') = Cardinality(Calling) - 1
    BY CallingLess
  <2> QED
    BY <2>1, CallingIsNatural DEF IInv, PermitsFit
<1> QED
  BY <1>1, <1>2, <1>3

LEMMA Failing ==
    ASSUME IInv, NEW l \in Calls, NEW retryable, load[l].status = "calling",
           Failed(l, retryable), permits' = permits + 1,
           UNCHANGED <<call, queue, left, now>>
    PROVE  /\ LoadFits' /\ SingleFlight' /\ Joined' /\ DOMAIN entries' = Keys /\ EntryFits'
           /\ MeterFits' /\ QueueFits' /\ PermitsFit'
<1>1. Active(l) /\ DOMAIN load = Calls /\ IsLoad(load[l])
  BY DEF Active, IInv, LoadFits
<1>2. CASE retryable /\ load[l].attempt < MaxAttempts
  <2>1. /\ load' = [load EXCEPT ![l].status = "pending", ![l].attempt = @ + 1,
                                ![l].position = 0, ![l].route = <<>>]
        /\ UNCHANGED <<inflight, entries>>
    BY <1>2 DEF Failed
  <2>2. /\ DOMAIN load' = Calls /\ \A m \in Calls \ {l} : load'[m] = load[m]
        /\ load'[l].status = "pending" /\ load'[l].key = load[l].key /\ IsLoad(load'[l])
    BY <1>1, <2>1 DEF IsLoad, LoadFields, Statuses
  <2>3. Active(l)'
    BY <2>2 DEF Active
  <2>4. LoadFits' /\ SingleFlight' /\ Joined'
    BY <1>1, <2>1, <2>2, <2>3, Advancing
  <2>5. DOMAIN entries' = Keys /\ EntryFits'
    BY <2>1 DEF IInv, EntryFits
  <2> QED
    BY <2>2, <2>4, <2>5, GivingBack
<1>3. CASE ~(retryable /\ load[l].attempt < MaxAttempts)
  <2>1. Ends(l, "failed")
    BY <1>3 DEF Failed
  <2> QED
    BY <1>1, <2>1, Ending, GivingBack
<1> QED
  BY <1>2, <1>3

LEMMA NotesFit ==
    ASSUME CircuitFits, now \in Nat, NEW p,
           circuits' \in {[circuits EXCEPT ![p] = NoteSuccess(@)],
                          [circuits EXCEPT ![p] = NoteFailure(@, now)]}
    PROVE  CircuitFits'
<1>1. FailureThreshold \in Nat \ {0} /\ RecoveryTime \in Nat
  BY ChainAssumption
<1>2. Closed \in Circuit /\ Closed.openUntil = 0
  BY <1>1 DEF Closed, Circuit
<1>3. CASE p \in Providers
  <2>1. /\ circuits[p] \in Circuit
        /\ circuits[p].openUntil > 0 => circuits[p].failures = FailureThreshold
    BY <1>3 DEF CircuitFits
  <2>2. LET noted == NoteFailure(circuits[p], now)
        IN  /\ noted \in Circuit
            /\ noted.openUntil > 0 => noted.failures = FailureThreshold
    BY <1>1, <2>1 DEF NoteFailure, Circuit
  <2>3. /\ circuits' \in [Providers -> Circuit]
        /\ \A q \in Providers \ {p} : circuits'[q] = circuits[q]
        /\ circuits'[p] \in {Closed, NoteFailure(circuits[p], now)}
    BY <1>2, <1>3, <2>2 DEF CircuitFits, NoteSuccess
  <2> QED
    BY <1>2, <2>2, <2>3 DEF CircuitFits
<1>4. CASE p \notin Providers
  <2>1. circuits' = circuits
    BY <1>4 DEF CircuitFits
  <2> QED
    BY <2>1 DEF CircuitFits
<1> QED
  BY <1>3, <1>4

LEMMA ProviderAnswersKeeps ==
    ASSUME IInv, NEW l \in Calls, NEW answer \in Answers, ProviderAnswers(l, answer)
    PROVE  IInv'
<1> DEFINE p == load[l].route[load[l].position]
           error == ErrorOf(service.chain[p], service.operation, answer)
<1>1. /\ load[l].status = "calling" /\ Active(l) /\ reply' = None
      /\ UNCHANGED <<call, queue, left, now>>
  BY DEF ProviderAnswers, Active
<1>2. DOMAIN load = Calls /\ IsLoad(load[l]) /\ now \in Nat /\ CircuitFits
  BY DEF IInv, LoadFits
<1>3. \/ /\ permits' = permits + 1 /\ Ends(l, "success")
         /\ circuits' = [circuits EXCEPT ![p] = NoteSuccess(@)]
      \/ permits' = permits + 1 /\ Ends(l, "crashed") /\ UNCHANGED circuits
      \/ /\ circuits' = [circuits EXCEPT ![p] = NoteFailure(@, now)]
         /\ \/ /\ load' = [load EXCEPT ![l].position = @ + 1]
               /\ UNCHANGED <<permits, inflight, entries>>
            \/ permits' = permits + 1 /\ Failed(l, error.retryable)
  <2>1. Fine # Crash
    BY DEF Fine, Crash
  <2>2. CASE error = Fine
    BY <2>1, <2>2 DEF ProviderAnswers, Released
  <2>3. CASE error = Crash
    BY <2>1, <2>3 DEF ProviderAnswers, Released
  <2>4. CASE error # Fine /\ error # Crash
    BY <2>4 DEF ProviderAnswers, Released
  <2> QED
    BY <2>2, <2>3, <2>4
<1> HIDE DEF p, error
<1>4. CircuitFits'
  <2>1. CASE circuits' = circuits
    BY <1>2, <2>1 DEF CircuitFits
  <2>2. CASE circuits' \in {[circuits EXCEPT ![p] = NoteSuccess(@)],
                            [circuits EXCEPT ![p] = NoteFailure(@, now)]}
    BY <1>2, <2>2, NotesFit
  <2> QED
    BY <1>3, <2>1, <2>2
<1>5. CASE permits' = permits + 1 /\ \E r \in {"success", "crashed"} : Ends(l, r)
  BY <1>1, <1>4, <1>5, Ending, GivingBack, SilentReply DEF IInv
<1>6. CASE permits' = permits + 1 /\ Failed(l, error.retryable)
  BY <1>1, <1>4, <1>6, Failing, SilentReply DEF IInv
<1>7. CASE /\ load' = [load EXCEPT ![l].position = @ + 1]
           /\ UNCHANGED <<permits, inflight, entries>>
  <2>1. /\ DOMAIN load' = Calls /\ \A m \in Calls \ {l} : load'[m] = load[m]
        /\ load'[l].status = "calling" /\ load'[l].key = load[l].key /\ IsLoad(load'[l])
    BY <1>1, <1>2, <1>7 DEF IsLoad, LoadFields, Statuses
  <2>2. LoadFits' /\ SingleFlight' /\ Joined'
    <3>1. Active(l)'
      BY <2>1 DEF Active
    <3> QED
      BY <1>1, <1>7, <2>1, <3>1, Advancing
  <2>3. DOMAIN entries' = Keys /\ EntryFits'
    BY <1>7 DEF IInv, EntryFits
  <2>4. MeterFits'
    BY <1>1, <2>1, MeterAfter DEF IInv, MeterFits
  <2>5. QueueFits'
    BY <1>1, <2>1, QueueStays
  <2>6. PermitsFit'
    <3>1. \A m \in Calls : load'[m].status = "calling" <=> load[m].status = "calling"
      BY <1>1, <2>1
    <3> QED
      BY <1>7, <3>1, CallingSame DEF IInv, PermitsFit
  <2> QED
    BY <1>1, <1>4, <2>2, <2>3, <2>4, <2>5, <2>6, SilentReply DEF IInv
<1> QED
  BY <1>3, <1>5, <1>6, <1>7

LEMMA GatewayTimeoutKeeps ==
    ASSUME IInv, NEW l \in Calls, GatewayTimeout(l)
    PROVE  IInv'
<1>1. /\ load[l].status = "calling" /\ reply' = None /\ permits' = permits + 1
      /\ Failed(l, TRUE) /\ UNCHANGED <<call, circuits, queue, left, now>>
  BY DEF GatewayTimeout, Released
<1>2. CircuitFits'
  BY <1>1 DEF IInv, CircuitFits
<1> QED
  BY <1>1, <1>2, Failing, SilentReply DEF IInv

-----------------------------------------------------------------------------
(* The clock, the deadlines, and steps of nobody. *)

LEMMA LoadsRest ==
    ASSUME IInv, UNCHANGED <<call, load, inflight, entries, circuits, permits, queue>>,
           now' \in Nat, now' >= now
    PROVE  /\ LoadFits' /\ SingleFlight' /\ Joined' /\ DOMAIN entries' = Keys /\ EntryFits'
           /\ CircuitFits' /\ QueueFits' /\ PermitsFit'
<1>1. LoadFits' /\ SingleFlight' /\ DOMAIN entries' = Keys /\ EntryFits' /\ CircuitFits'
  BY DEF IInv, LoadFits, SingleFlight, Active, EntryFits, CircuitFits
<1>2. Joined'
  <2>1. now \in Nat /\ call \in [Calls -> Call]
    BY DEF IInv, LoadFits
  <2> QED
    BY <2>1 DEF IInv, Joined, Call
<1>3. QueueFits'
  BY DEF IInv, QueueFits
<1>4. PermitsFit'
  BY CallingSame DEF IInv, PermitsFit
<1> QED
  BY <1>1, <1>2, <1>3, <1>4

LEMMA TickKeeps ==
    ASSUME IInv, Tick
    PROVE  IInv'
<1>1. /\ UNCHANGED <<call, load, inflight, entries, circuits, permits, queue, left>>
      /\ reply' = None /\ now' \in Nat /\ now' >= now
  BY DEF Tick, IInv, LoadFits
<1>2. MeterFits'
  BY <1>1 DEF IInv, MeterFits
<1> QED
  BY <1>1, <1>2, LoadsRest, SilentReply DEF IInv

LEMMA DeadlineKeeps ==
    ASSUME IInv, NEW r \in Runs, Deadline(r)
    PROVE  IInv'
<1>1. /\ UNCHANGED <<call, load, inflight, entries, circuits, permits, queue, now>>
      /\ reply' = None /\ left' = [left EXCEPT ![r] = Late] /\ now' \in Nat /\ now' >= now
  BY DEF Deadline, IInv, LoadFits
<1>2. MeterFits'
  <2>1. left \in [Runs -> 0..Late] /\ Late \in 0..Late
    BY Limits DEF IInv, MeterFits, Late
  <2>2. left' \in [Runs -> 0..Late]
    BY <1>1, <2>1
  <2>3. \A s \in Runs : left[s] \in {0, Late} => left'[s] \in {0, Late}
    BY <1>1, <2>1
  <2> QED
    BY <1>1, <2>2, <2>3, MeterAfter DEF IInv, MeterFits
<1> QED
  BY <1>1, <1>2, LoadsRest, SilentReply DEF IInv

LEMMA StutterKeeps ==
    ASSUME IInv, UNCHANGED vars
    PROVE  IInv'
<1>1. /\ UNCHANGED <<call, load, inflight, entries, circuits, permits, queue, left, now, reply>>
      /\ now' \in Nat /\ now' >= now
  BY DEF vars, IInv, LoadFits
<1>2. MeterFits' /\ FreshAnswers' /\ RaisedForTheLoader'
  BY <1>1 DEF IInv, MeterFits, FreshAnswers, RaisedForTheLoader
<1> QED
  BY <1>1, <1>2, LoadsRest DEF IInv

LEMMA NextKeeps == IInv /\ [Next]_vars => IInv'
<1> SUFFICES ASSUME IInv, [Next]_vars PROVE IInv'
  OBVIOUS
<1>1. CASE \E c \in Calls : Resume(c) \/ Cancel(c) \/ \E k \in Keys : Ask(c, k)
  BY <1>1, ResumeKeeps, CancelKeeps, AskKeeps
<1>2. CASE \E l \in Calls : StartAttempt(l) \/ EnterChain(l) \/ GatewayTimeout(l)
  BY <1>2, StartAttemptKeeps, EnterChainKeeps, GatewayTimeoutKeeps
<1>3. CASE \E l \in Calls : \E a \in Answers : ProviderAnswers(l, a)
  BY <1>3, ProviderAnswersKeeps
<1>4. CASE Tick
  BY <1>4, TickKeeps
<1>5. CASE \E r \in Runs : Deadline(r)
  BY <1>5, DeadlineKeeps
<1>6. CASE UNCHANGED vars
  BY <1>6, StutterKeeps
<1> QED
  BY <1>1, <1>2, <1>3, <1>4, <1>5, <1>6 DEF Next

-----------------------------------------------------------------------------
\* The inductive invariant holds in every reachable state of the gateway, for
\* any numbers of callers, runs, keys, providers, attempts and permits.
THEOREM Invariance == Spec => []IInv
<1>1. Init => IInv
  BY InitFits
<1>2. IInv /\ [Next]_vars => IInv'
  BY NextKeeps
<1> QED
  BY <1>1, <1>2, PTL DEF Spec

\* AsyncTTLCache.get_or_load keeps one load per key, and _inflight never names
\* one that has ended.
THEOREM OneFlight == Spec => []SingleFlight
<1>1. IInv => SingleFlight
  BY DEF IInv
<1> QED
  BY <1>1, Invariance, PTL

\* The permits of _execute come back, whatever way a provider call ends.
THEOREM PermitsComeBack == Spec => []PermitsAreReturned
<1>1. IInv => PermitsAreReturned
  BY DEF IInv, PermitsFit, Calling, PermitsAreReturned
<1> QED
  BY <1>1, Invariance, PTL

\* No call is given a result older than its time to live, from the cache or
\* from a load it joined.
THEOREM AnswersAreFresh == Spec => []FreshAnswers
<1>1. IInv => FreshAnswers
  BY DEF IInv
<1> QED
  BY <1>1, Invariance, PTL

\* A budget error is raised only when the run that created the load has no
\* attempt or no time left.
THEOREM BudgetErrorsHaveReason == Spec => []RaisedForTheLoader
<1>1. IInv => RaisedForTheLoader
  BY DEF IInv
<1> QED
  BY <1>1, Invariance, PTL

\* An open circuit has counted FailureThreshold failures.
THEOREM OpenCircuitsHaveReason == Spec => []OpenHasReason
<1>1. IInv => OpenHasReason
  <2> SUFFICES ASSUME IInv, NEW p \in Providers, IsOpen(circuits[p], now)
               PROVE  circuits[p].failures >= FailureThreshold
    BY DEF OpenHasReason
  <2>1. circuits[p] \in Circuit /\ now \in Nat
    BY DEF IInv, CircuitFits, LoadFits
  <2>2. circuits[p].openUntil > 0
    BY <2>1 DEF IsOpen, Circuit
  <2> QED
    BY <2>2, ChainAssumption DEF IInv, CircuitFits
<1> QED
  BY <1>1, Invariance, PTL

-----------------------------------------------------------------------------
(* Induction, which is the well-foundedness of the natural numbers. *)

LEMMA Smallest ==
    ASSUME NEW S \in SUBSET Nat, S # {}
    PROVE  \E n \in S : \A m \in S : n <= m
<1> DEFINE R == OpToRel(<, Nat)
<1>1. IsWellFoundedOn(R, Nat)
  BY NatLessThanWellFounded
<1>0. S \subseteq Nat /\ S # {}
  OBVIOUS
<1>2. \A i, j \in Nat : i < j => <<i, j>> \in R
  BY DEF OpToRel
<1> HIDE DEF R
<1>3. PICK n \in S : \A m \in S : ~(<<m, n>> \in R)
  BY <1>0, <1>1, WFMin
<1>4. ASSUME NEW m \in S PROVE n <= m
  <2>1. m \in Nat /\ n \in Nat /\ ~(m < n)
    BY <1>0, <1>2, <1>3
  <2> QED
    BY <2>1
<1> QED
  BY <1>4

LEMMA UpToN ==
    ASSUME NEW n \in Nat, NEW T \in SUBSET (0..n), 0 \in T,
           \A k \in 0..(n - 1) : k \in T => k + 1 \in T
    PROVE  T = 0..n
<1> DEFINE S == (0..n) \ T
<1> SUFFICES ASSUME S # {} PROVE FALSE
  OBVIOUS
<1>1. S \in SUBSET Nat
  OBVIOUS
<1>2. PICK k \in S : \A m \in S : k <= m
  <2> HIDE DEF S
  <2> QED
    BY <1>1, Smallest
<1>3. k \in 0..n /\ k # 0 /\ k - 1 \in 0..(n - 1) /\ k - 1 \in 0..n
  BY <1>2
<1>4. k - 1 \notin S
  BY <1>2, <1>3
<1>5. k - 1 \in T
  BY <1>3, <1>4
<1> QED
  BY <1>2, <1>3, <1>5

-----------------------------------------------------------------------------
(* The route of an attempt.                                                *)

\* The providers among the first k that are not shut out.
IsRoute(f, k, noted, t) ==
    f = [n \in 0..k |->
            IF n = 0 THEN <<>>
            ELSE IF IsOpen(noted[n], t) THEN f[n - 1] ELSE Append(f[n - 1], n)]

LEMMA RouteExists ==
    ASSUME NEW noted, NEW t
    PROVE  \E f : IsRoute(f, Length, noted, t)
<1> DEFINE T == {k \in 0..Length : \E f : IsRoute(f, k, noted, t)}
<1>1. Length \in Nat
  BY ChainAssumption
<1>2. 0 \in T
  <2> DEFINE f == [n \in 0..0 |-> <<>>]
  <2>1. IsRoute(f, 0, noted, t)
    BY DEF IsRoute
  <2> QED
    BY <1>1, <2>1
<1>3. ASSUME NEW k \in 0..(Length - 1), k \in T PROVE k + 1 \in T
  <2>1. PICK g : IsRoute(g, k, noted, t)
    BY <1>3
  <2> DEFINE f == [n \in 0..(k + 1) |->
                     IF n = 0 THEN <<>>
                     ELSE IF IsOpen(noted[n], t) THEN g[n - 1] ELSE Append(g[n - 1], n)]
  <2>2. ASSUME NEW n \in 0..k PROVE f[n] = g[n]
    <3>1. n \in 0..(k + 1)
      BY <1>1
    <3>2. g[n] = IF n = 0 THEN <<>>
                 ELSE IF IsOpen(noted[n], t) THEN g[n - 1] ELSE Append(g[n - 1], n)
      BY <2>1 DEF IsRoute
    <3> QED
      BY <3>1, <3>2
  <2>3. \A n \in 0..(k + 1) :
          f[n] = IF n = 0 THEN <<>>
                 ELSE IF IsOpen(noted[n], t) THEN f[n - 1] ELSE Append(f[n - 1], n)
    <3> SUFFICES ASSUME NEW n \in 0..(k + 1), n # 0 PROVE f[n - 1] = g[n - 1]
      OBVIOUS
    <3>1. n - 1 \in 0..k
      BY <1>1
    <3>2. \A i \in 0..k : f[i] = g[i]
      BY <2>2
    <3> HIDE DEF f
    <3> QED
      BY <3>1, <3>2
  <2>4. f = [n \in 0..(k + 1) |-> f[n]]
    OBVIOUS
  <2> HIDE DEF f
  <2>5. IsRoute(f, k + 1, noted, t)
    BY <2>3, <2>4 DEF IsRoute
  <2>6. k + 1 \in 0..Length
    BY <1>1
  <2> QED
    BY <2>5, <2>6
<1>4. T = 0..Length
  <2>1. T \in SUBSET (0..Length)
    OBVIOUS
  <2> HIDE DEF T
  <2> QED
    BY <1>1, <1>2, <1>3, <2>1, UpToN
<1> QED
  BY <1>1, <1>4

\* A call always has a provider to go to, and a place in the chain for each.
LEMMA AvailableFits ==
    ASSUME NEW noted, NEW t
    PROVE  Available(noted, t) \in Seq(Providers) /\ Available(noted, t) # <<>>
<1> DEFINE f == CHOOSE g : IsRoute(g, Length, noted, t)
           T == {k \in 0..Length : f[k] \in Seq(Providers)}
<1>1. Length \in Nat /\ Length \in Providers
  BY ChainAssumption DEF Providers
<1>2. IsRoute(f, Length, noted, t)
  BY RouteExists
<1>3. Available(noted, t) = IF f[Length] = <<>> THEN <<Length>> ELSE f[Length]
  BY DEF Available, IsRoute
<1> HIDE DEF f
<1>4. 0 \in T
  BY <1>1, <1>2 DEF IsRoute
<1>5. ASSUME NEW k \in 0..(Length - 1), k \in T PROVE k + 1 \in T
  <2>1. k + 1 \in 0..Length /\ k + 1 \in Providers /\ k + 1 # 0 /\ (k + 1) - 1 = k
    BY <1>1 DEF Providers
  <2>2. f[k + 1] = IF IsOpen(noted[k + 1], t) THEN f[k] ELSE Append(f[k], k + 1)
    BY <1>2, <2>1 DEF IsRoute
  <2>3. f[k] \in Seq(Providers) /\ Append(f[k], k + 1) \in Seq(Providers)
    BY <1>5, <2>1
  <2> QED
    BY <2>1, <2>2, <2>3
<1>6. T = 0..Length
  <2>1. T \in SUBSET (0..Length)
    OBVIOUS
  <2> HIDE DEF T
  <2> QED
    BY <1>1, <1>4, <1>5, <2>1, UpToN
<1>7. f[Length] \in Seq(Providers) /\ <<Length>> \in Seq(Providers) /\ <<Length>> # <<>>
  BY <1>1, <1>6
<1> QED
  BY <1>3, <1>7

-----------------------------------------------------------------------------
(* The limits.  A second invariant, over the first: what an attempt has    *)
(* made of its route, and the room that the entries take.                  *)

IsAttempt(x, t) ==
    /\ x.key \in Keys /\ x.status \in {"pending", "queued", "calling", "ended"}
    /\ x.attempt \in 1..MaxAttempts
    /\ x.route \in Seq(Providers) /\ x.position \in 0..Len(x.route)
    /\ x.status = "calling" => x.position # 0
    /\ x.status = "ended" => x.result \in Results
    /\ x.result \in Results \cup {None} /\ x.at \in 0..t

AttemptsFit == \A l \in Calls : load[l] = NoLoad \/ IsAttempt(load[l], now)

Held == {k \in Keys : entries[k] # None}

RoomFits ==
    /\ IsFiniteSet(Held) /\ Cardinality(Held) <= MaxEntries
    /\ \A k \in Keys : entries[k] # None => entries[k].inserted <= now

CountersFit == service \in Services /\ now \in 0..MaxTime /\ asks \in 0..MaxAsks

ReplyFits == reply = None \/ (reply.caller \in Calls /\ reply.result \in Results)

LInv == AttemptsFit /\ RoomFits /\ CountersFit /\ ReplyFits

LEMMA Bounds ==
    /\ MaxEntries \in Nat \ {0} /\ MaxAttempts \in Nat \ {0}
    /\ MaxAsks \in Nat /\ MaxTime \in Nat
  BY GatewayAssumption

LEMMA InitWithin == Init => LInv
<1> SUFFICES ASSUME Init PROVE LInv
  OBVIOUS
<1>1. AttemptsFit
  BY DEF Init, AttemptsFit
<1>2. RoomFits
  <2>1. Held = {}
    BY DEF Init, Held
  <2> QED
    BY <2>1, FS_EmptySet, Bounds DEF Init, RoomFits
<1>3. CountersFit /\ ReplyFits
  BY Bounds DEF Init, CountersFit, ReplyFits
<1> QED
  BY <1>1, <1>2, <1>3 DEF LInv

-----------------------------------------------------------------------------
(* The room of the cache.                                                  *)

LEMMA RoomStays ==
    ASSUME RoomFits, entries' = entries, now \in Nat, now' \in Nat, now' >= now,
           EntryFits
    PROVE  RoomFits'
<1>1. Held' = Held
  BY DEF Held
<1>2. \A k \in Keys : entries[k] # None => entries[k].inserted <= now'
  BY DEF RoomFits, EntryFits
<1> QED
  BY <1>1, <1>2 DEF RoomFits

\* An entry that expired is dropped before a load of its key begins.
LEMMA RoomShrinks ==
    ASSUME RoomFits, NEW k \in Keys, DOMAIN entries = Keys,
           entries' = [entries EXCEPT ![k] = None], now' = now
    PROVE  RoomFits'
<1>1. Held' \subseteq Held
  BY DEF Held
<1>2. IsFiniteSet(Held') /\ Cardinality(Held') <= Cardinality(Held)
  BY <1>1, FS_Subset DEF RoomFits
<1>3. Cardinality(Held) \in Nat /\ Cardinality(Held') \in Nat
  BY <1>2, FS_CardinalityType DEF RoomFits
<1>4. \A j \in Keys : entries'[j] # None => entries'[j].inserted <= now'
  BY DEF RoomFits
<1> QED
  BY <1>2, <1>3, <1>4, Bounds DEF RoomFits

\* An entry is evicted exactly when the others that are live fill the cache.
LEMMA RoomIsMade ==
    ASSUME IInv, RoomFits, NEW k \in Keys, entries' = WithEntry(k, Entry("success")), now' = now
    PROVE  RoomFits'
<1> DEFINE live == {j \in Keys \ {k} : IsLive(j)}
           first == {j \in live : \A i \in live :
                       \/ entries[j].expires < entries[i].expires
                       \/ /\ entries[j].expires = entries[i].expires
                          /\ entries[j].inserted <= entries[i].inserted}
           drop == IF Cardinality(live) < MaxEntries THEN {} ELSE {CHOOSE j \in first : TRUE}
<1>1. entries' = [j \in Keys |-> CASE j = k -> Entry("success")
                                   [] j \in live \ drop -> entries[j]
                                   [] OTHER -> None]
  BY DEF WithEntry
<1>2. live \subseteq Held /\ k \notin live
  BY DEF Held, IsLive
<1>3. \A j \in live : /\ entries[j].inserted \in Nat
                      /\ entries[j].expires = entries[j].inserted + Ttl
  BY DEF IInv, EntryFits, IsLive
<1> HIDE DEF live
<1>4. /\ IsFiniteSet(live) /\ Cardinality(live) \in Nat
      /\ Cardinality(live) <= MaxEntries
  <2>1. IsFiniteSet(live) /\ Cardinality(live) <= Cardinality(Held)
    BY <1>2, FS_Subset DEF RoomFits
  <2>2. Cardinality(live) \in Nat /\ Cardinality(Held) \in Nat
    BY <2>1, FS_CardinalityType DEF RoomFits
  <2> QED
    BY <2>1, <2>2, Bounds DEF RoomFits
<1>5. Held' \subseteq (live \ drop) \cup {k}
  <2> HIDE DEF drop
  <2> QED
    BY <1>1 DEF Held
<1>6. \A j \in Keys : entries'[j] # None => entries'[j].inserted <= now'
  <2>1. \A j \in Keys : entries'[j] \in {Entry("success"), entries[j], None}
    <3> HIDE DEF drop
    <3> QED
      BY <1>1
  <2>2. Entry("success").inserted <= now
    BY DEF Entry, IInv, LoadFits
  <2> QED
    BY <2>1, <2>2 DEF RoomFits
<1>7. ASSUME NEW kept \in SUBSET live, Cardinality(kept) < MaxEntries,
             Held' \subseteq kept \cup {k}
      PROVE  RoomFits'
  <2>1. IsFiniteSet(kept) /\ Cardinality(kept) \in Nat /\ k \notin kept
    BY <1>2, <1>4, FS_Subset, FS_CardinalityType
  <2>2. IsFiniteSet(kept \cup {k}) /\ Cardinality(kept \cup {k}) = Cardinality(kept) + 1
    BY <2>1, FS_AddElement
  <2>3. IsFiniteSet(Held') /\ Cardinality(Held') <= Cardinality(kept \cup {k})
    BY <1>7, <2>2, FS_Subset
  <2>4. Cardinality(Held') \in Nat
    BY <2>3, FS_CardinalityType
  <2> QED
    BY <1>6, <1>7, <2>1, <2>2, <2>3, <2>4, Bounds DEF RoomFits
<1>8. CASE Cardinality(live) < MaxEntries
  <2>1. live \ drop = live
    BY <1>8
  <2> QED
    BY <1>5, <1>7, <1>8, <2>1
<1>9. CASE ~(Cardinality(live) < MaxEntries)
  <2> DEFINE d == CHOOSE j \in first : TRUE
  <2>1. live # {}
    BY <1>4, <1>9, FS_EmptySet, Bounds
  <2>2. PICK n \in {entries[j].inserted : j \in live} :
          \A m \in {entries[j].inserted : j \in live} : n <= m
    <3> DEFINE S == {entries[j].inserted : j \in live}
    <3>1. S \in SUBSET Nat /\ S # {}
      BY <1>3, <2>1
    <3> HIDE DEF S
    <3>2. \E n \in S : \A m \in S : n <= m
      BY <3>1, Smallest
    <3> QED
      BY <3>2 DEF S
  <2>3. PICK j \in live : entries[j].inserted = n
    BY <2>2
  <2>4. j \in first
    <3>1. ASSUME NEW i \in live PROVE entries[j].inserted <= entries[i].inserted
      BY <2>2, <2>3
    <3>2. ASSUME NEW i \in live
          PROVE  \/ entries[j].expires < entries[i].expires
                 \/ /\ entries[j].expires = entries[i].expires
                    /\ entries[j].inserted <= entries[i].inserted
      <4>1. /\ entries[j].inserted \in Nat /\ entries[i].inserted \in Nat
            /\ entries[j].expires = entries[j].inserted + Ttl
            /\ entries[i].expires = entries[i].inserted + Ttl
            /\ entries[j].inserted <= entries[i].inserted /\ Ttl \in Nat
        BY <1>3, <3>1, Limits
      <4> QED
        BY <4>1
    <3> QED
      BY <3>2
  <2>5. d \in first /\ d \in live /\ drop = {d}
    BY <1>9, <2>4
  <2> HIDE DEF d, drop, first
  <2>6. Cardinality(live \ {d}) = Cardinality(live) - 1
    BY <1>4, <2>5, FS_RemoveElement
  <2>7. Cardinality(live \ {d}) < MaxEntries
    BY <1>4, <2>6, Bounds
  <2> QED
    BY <1>5, <1>7, <2>5, <2>7
<1> QED
  BY <1>8, <1>9

-----------------------------------------------------------------------------
(* What each action leaves within the limits.                              *)

LEMMA AttemptMoves ==
    ASSUME IInv, AttemptsFit, NEW l \in Calls, now' \in Nat, now' >= now,
           \A m \in Calls \ {l} : load'[m] = load[m],
           load'[l] = NoLoad \/ IsAttempt(load'[l], now')
    PROVE  AttemptsFit'
<1> SUFFICES ASSUME NEW m \in Calls \ {l}, load[m] # NoLoad
             PROVE  IsAttempt(load[m], now')
  BY DEF AttemptsFit
<1>1. IsAttempt(load[m], now) /\ now \in Nat
  BY DEF AttemptsFit, IInv, LoadFits
<1>2. \A t \in 0..now : t \in 0..now'
  BY <1>1
<1> QED
  BY <1>1, <1>2 DEF IsAttempt

LEMMA AttemptsRest ==
    ASSUME IInv, AttemptsFit, now' \in Nat, now' >= now, load' = load
    PROVE  AttemptsFit'
<1> SUFFICES ASSUME NEW m \in Calls, load[m] # NoLoad
             PROVE  IsAttempt(load[m], now')
  BY DEF AttemptsFit
<1>1. IsAttempt(load[m], now) /\ now \in Nat
  BY DEF AttemptsFit, IInv, LoadFits
<1>2. \A t \in 0..now : t \in 0..now'
  BY <1>1
<1> QED
  BY <1>1, <1>2 DEF IsAttempt

LEMMA EndsWithin ==
    ASSUME IInv, LInv, NEW l \in Calls, NEW result \in Results, Active(l),
           Ends(l, result), now' = now
    PROVE  AttemptsFit' /\ RoomFits'
<1>1. /\ l \in Calls /\ DOMAIN load = Calls /\ now \in Nat /\ load[l] # NoLoad
      /\ IsLoad(load[l]) /\ load[l].key \in Keys
  BY NoLoadIsLoad DEF IInv, LoadFits, Active, IsLoad
<1>2. IsAttempt(load[l], now)
  BY <1>1 DEF LInv, AttemptsFit
<1>3. /\ \A m \in Calls \ {l} : load'[m] = load[m]
      /\ load'[l] \in {NoLoad, [load[l] EXCEPT !.status = "ended", !.result = result,
                                               !.at = now]}
  BY <1>1 DEF Ends
<1>4. load'[l] = NoLoad \/ IsAttempt(load'[l], now)
  <2> SUFFICES ASSUME load'[l] = [load[l] EXCEPT !.status = "ended", !.result = result,
                                                 !.at = now]
               PROVE  IsAttempt(load'[l], now)
    BY <1>3
  <2>1. /\ load'[l].status = "ended" /\ load'[l].result = result /\ load'[l].at = now
        /\ load'[l].key = load[l].key /\ load'[l].attempt = load[l].attempt
        /\ load'[l].route = load[l].route /\ load'[l].position = load[l].position
    BY <1>1 DEF IsLoad, LoadFields
  <2> QED
    BY <1>1, <1>2, <2>1 DEF IsAttempt
<1>5. AttemptsFit'
  BY <1>1, <1>3, <1>4, AttemptMoves DEF LInv
<1>6. RoomFits'
  <2>1. entries' = WithEntry(load[l].key, Entry("success")) \/ entries' = entries
    BY DEF Ends, ShouldCache
  <2> QED
    BY <1>1, <2>1, RoomIsMade, RoomStays DEF IInv, LInv
<1> QED
  BY <1>5, <1>6

LEMMA AskWithin ==
    ASSUME IInv, LInv, NEW c \in Calls, NEW k \in Keys, Ask(c, k)
    PROVE  LInv'
<1>1. /\ load[c] = NoLoad /\ asks < MaxAsks /\ asks' = asks + 1 /\ now' = now
      /\ service' = service /\ DOMAIN load = Calls /\ now \in Nat /\ DOMAIN entries = Keys
  BY DEF Ask, IInv, LoadFits
<1>2. CountersFit'
  BY <1>1, Bounds DEF LInv, CountersFit
<1>3. CASE IsLive(k)
  <2>1. /\ load' = load /\ entries' = entries
        /\ reply'.caller = c /\ reply'.result = "success"
    BY <1>3 DEF Ask, IsLive, IInv, EntryFits
  <2>2. RoomFits'
    BY <1>1, <2>1, RoomStays DEF IInv, LInv
  <2>3. AttemptsFit'
    BY <1>1, <2>1, AttemptsRest DEF LInv
  <2> QED
    BY <1>2, <2>1, <2>2, <2>3 DEF LInv, ReplyFits, Results
<1>4. CASE ~IsLive(k)
  <2> DEFINE new == [NoLoad EXCEPT !.key = k, !.attempt = 1, !.status = "pending"]
  <2>1. /\ entries' = [entries EXCEPT ![k] = None] /\ reply' = None
        /\ \A m \in Calls \ {c} : load'[m] = load[m]
        /\ load'[c] \in {NoLoad, new}
    BY <1>1, <1>4 DEF Ask
  <2>2. IsAttempt(new, now)
    <3>1. /\ new.key = k /\ new.status = "pending" /\ new.attempt = 1 /\ new.route = <<>>
          /\ new.position = 0 /\ new.result = None /\ new.at = 0
      BY DEF NoLoad
    <3>2. <<>> \in Seq(Providers) /\ Len(<<>>) = 0
      OBVIOUS
    <3> HIDE DEF new
    <3> QED
      BY <1>1, <3>1, <3>2, Bounds DEF IsAttempt
  <2> HIDE DEF new
  <2>3. AttemptsFit'
    BY <1>1, <2>1, <2>2, AttemptMoves DEF LInv
  <2>4. RoomFits'
    BY <1>1, <2>1, RoomShrinks DEF LInv
  <2> QED
    BY <1>2, <2>1, <2>3, <2>4 DEF LInv, ReplyFits
<1> QED
  BY <1>3, <1>4

LEMMA ResumeWithin ==
    ASSUME IInv, LInv, NEW c \in Calls, Resume(c)
    PROVE  LInv'
<1> DEFINE l == call[c].load
<1>1. /\ call[c] # NoCall /\ load[l].status = "ended" /\ now' = now /\ now \in Nat
      /\ service' = service /\ asks' = asks /\ entries' = entries
      /\ reply'.caller = c /\ reply'.result = load[l].result
      /\ load' = IF Waiting(l) = {c} THEN [load EXCEPT ![l] = NoLoad] ELSE load
  BY DEF Resume, IInv, LoadFits
<1>2. l \in Calls /\ DOMAIN load = Calls
  BY <1>1 DEF IInv, Joined, LoadFits
<1> HIDE DEF l
<1>3. load[l].result \in Results
  BY <1>1, <1>2, NoLoadIsLoad DEF LInv, AttemptsFit, IsAttempt
<1>4. AttemptsFit'
  <2>1. /\ \A m \in Calls \ {l} : load'[m] = load[m]
        /\ load'[l] \in {NoLoad, load[l]}
    BY <1>1, <1>2
  <2>2. load'[l] = NoLoad \/ IsAttempt(load'[l], now)
    BY <1>2, <2>1 DEF LInv, AttemptsFit
  <2> QED
    BY <1>1, <1>2, <2>1, <2>2, AttemptMoves DEF LInv
<1>5. RoomFits'
  BY <1>1, RoomStays DEF IInv, LInv
<1>6. CountersFit' /\ ReplyFits'
  BY <1>1, <1>3 DEF LInv, CountersFit, ReplyFits
<1> QED
  BY <1>4, <1>5, <1>6 DEF LInv

LEMMA CancelWithin ==
    ASSUME IInv, LInv, NEW c \in Calls, Cancel(c)
    PROVE  LInv'
<1> DEFINE l == call[c].load
<1>1. /\ call[c] # NoCall /\ now' = now /\ now \in Nat
      /\ service' = service /\ asks' = asks /\ entries' = entries /\ reply' = None
      /\ load' \in {load, [load EXCEPT ![l] = NoLoad]}
  BY DEF Cancel, IInv, LoadFits
<1>2. l \in Calls /\ DOMAIN load = Calls
  BY <1>1 DEF IInv, Joined, LoadFits
<1> HIDE DEF l
<1>3. AttemptsFit'
  <2>1. /\ \A m \in Calls \ {l} : load'[m] = load[m]
        /\ load'[l] \in {NoLoad, load[l]}
    BY <1>1, <1>2
  <2>2. load'[l] = NoLoad \/ IsAttempt(load'[l], now)
    BY <1>2, <2>1 DEF LInv, AttemptsFit
  <2> QED
    BY <1>1, <1>2, <2>1, <2>2, AttemptMoves DEF LInv
<1>4. RoomFits'
  BY <1>1, RoomStays DEF IInv, LInv
<1>5. CountersFit' /\ ReplyFits'
  BY <1>1 DEF LInv, CountersFit, ReplyFits
<1> QED
  BY <1>3, <1>4, <1>5 DEF LInv

LEMMA StartAttemptWithin ==
    ASSUME IInv, LInv, NEW l \in Calls, StartAttempt(l)
    PROVE  LInv'
<1>1. /\ load[l].status = "pending" /\ Active(l) /\ reply' = None /\ now' = now
      /\ service' = service /\ asks' = asks /\ now \in Nat /\ load[l] # NoLoad
      /\ DOMAIN load = Calls /\ IsLoad(load[l])
  BY NoLoadIsLoad DEF StartAttempt, Active, IInv, LoadFits
<1>2. CountersFit' /\ ReplyFits'
  BY <1>1 DEF LInv, CountersFit, ReplyFits
<1>3. CASE Exhausted(RunOf[l])
  <2>1. Ends(l, "exceeded") /\ "exceeded" \in Results
    BY <1>3 DEF StartAttempt, Results
  <2> QED
    BY <1>1, <1>2, <2>1, EndsWithin DEF LInv
<1>4. CASE ~Exhausted(RunOf[l])
  <2>1. load' = [load EXCEPT ![l].status = "queued"] /\ entries' = entries
    BY <1>4 DEF StartAttempt
  <2>2. /\ load'[l].status = "queued" /\ load'[l].result = load[l].result
        /\ load'[l].at = load[l].at /\ load'[l].key = load[l].key
        /\ load'[l].attempt = load[l].attempt /\ load'[l].route = load[l].route
        /\ load'[l].position = load[l].position
        /\ \A m \in Calls \ {l} : load'[m] = load[m]
    BY <1>1, <2>1 DEF IsLoad, LoadFields
  <2>3. IsAttempt(load'[l], now)
    BY <1>1, <2>2 DEF LInv, AttemptsFit, IsAttempt
  <2>4. AttemptsFit'
    BY <1>1, <2>2, <2>3, AttemptMoves DEF LInv
  <2>5. RoomFits'
    BY <1>1, <2>1, RoomStays DEF IInv, LInv
  <2> QED
    BY <1>2, <2>4, <2>5 DEF LInv
<1> QED
  BY <1>3, <1>4

LEMMA EnterChainWithin ==
    ASSUME IInv, LInv, NEW l \in Calls, EnterChain(l)
    PROVE  LInv'
<1>1. /\ queue # <<>> /\ l = Head(queue) /\ reply' = None /\ now' = now
      /\ service' = service /\ asks' = asks /\ now \in Nat
      /\ DOMAIN load = Calls /\ IsLoad(load[l])
  BY DEF EnterChain, IInv, LoadFits
<1>2. load[l].status = "queued"
  <2>1. queue \in Seq(Calls) /\ 1 \in 1..Len(queue) /\ queue[1] = l
    BY <1>1 DEF IInv, QueueFits
  <2> QED
    BY <2>1 DEF IInv, QueueFits
<1>3. Active(l) /\ load[l] # NoLoad
  BY <1>2, NoLoadIsLoad DEF Active
<1>4. CountersFit' /\ ReplyFits'
  BY <1>1 DEF LInv, CountersFit, ReplyFits
<1>5. CASE left[RunOf[l]] = Late
  <2>1. Ends(l, "exceeded") /\ "exceeded" \in Results
    BY <1>5 DEF EnterChain, Results
  <2> QED
    BY <1>1, <1>3, <1>4, <2>1, EndsWithin DEF LInv
<1>6. CASE left[RunOf[l]] # Late
  <2>1. /\ load' = [load EXCEPT ![l].status = "calling", ![l].position = 1,
                                ![l].route = Available(circuits, now)]
        /\ entries' = entries
    BY <1>6 DEF EnterChain
  <2>2. /\ load'[l].status = "calling" /\ load'[l].result = load[l].result
        /\ load'[l].at = load[l].at /\ load'[l].key = load[l].key
        /\ load'[l].attempt = load[l].attempt
        /\ load'[l].route = Available(circuits, now) /\ load'[l].position = 1
        /\ \A m \in Calls \ {l} : load'[m] = load[m]
    BY <1>1, <2>1 DEF IsLoad, LoadFields
  <2>3. load'[l].route \in Seq(Providers) /\ 1 \in 0..Len(load'[l].route)
    <3>1. Available(circuits, now) \in Seq(Providers) /\ Available(circuits, now) # <<>>
      BY AvailableFits
    <3> QED
      BY <2>2, <3>1
  <2>4. IsAttempt(load'[l], now)
    BY <1>3, <2>2, <2>3 DEF LInv, AttemptsFit, IsAttempt
  <2>5. AttemptsFit'
    BY <1>1, <2>2, <2>4, AttemptMoves DEF LInv
  <2>6. RoomFits'
    BY <1>1, <2>1, RoomStays DEF IInv, LInv
  <2> QED
    BY <1>4, <2>5, <2>6 DEF LInv
<1> QED
  BY <1>5, <1>6

LEMMA FailedWithin ==
    ASSUME IInv, LInv, NEW l \in Calls, NEW retryable, load[l].status = "calling",
           Failed(l, retryable), now' = now
    PROVE  AttemptsFit' /\ RoomFits'
<1>1. /\ Active(l) /\ load[l] # NoLoad /\ now \in Nat /\ DOMAIN load = Calls
      /\ IsLoad(load[l])
  BY NoLoadIsLoad DEF Active, IInv, LoadFits
<1>2. CASE retryable /\ load[l].attempt < MaxAttempts
  <2>1. /\ load' = [load EXCEPT ![l].status = "pending", ![l].attempt = @ + 1,
                                ![l].position = 0, ![l].route = <<>>]
        /\ entries' = entries
    BY <1>2 DEF Failed
  <2>2. /\ load'[l].status = "pending" /\ load'[l].result = load[l].result
        /\ load'[l].at = load[l].at /\ load'[l].key = load[l].key
        /\ load'[l].attempt = load[l].attempt + 1
        /\ load'[l].route = <<>> /\ load'[l].position = 0
        /\ \A m \in Calls \ {l} : load'[m] = load[m]
    BY <1>1, <2>1 DEF IsLoad, LoadFields
  <2>3. <<>> \in Seq(Providers) /\ Len(<<>>) = 0
    OBVIOUS
  <2>4. load'[l].attempt \in 1..MaxAttempts
    BY <1>1, <1>2, <2>2, Bounds DEF LInv, AttemptsFit, IsAttempt
  <2>5. IsAttempt(load'[l], now)
    BY <1>1, <2>2, <2>3, <2>4 DEF LInv, AttemptsFit, IsAttempt
  <2>6. AttemptsFit'
    BY <1>1, <2>2, <2>5, AttemptMoves DEF LInv
  <2>7. RoomFits'
    BY <1>1, <2>1, RoomStays DEF IInv, LInv
  <2> QED
    BY <2>6, <2>7
<1>3. CASE ~(retryable /\ load[l].attempt < MaxAttempts)
  <2>1. Ends(l, "failed") /\ "failed" \in Results
    BY <1>3 DEF Failed, Results
  <2> QED
    BY <1>1, <2>1, EndsWithin
<1> QED
  BY <1>2, <1>3

LEMMA ProviderAnswersWithin ==
    ASSUME IInv, LInv, NEW l \in Calls, NEW answer \in Answers, ProviderAnswers(l, answer)
    PROVE  LInv'
<1> DEFINE error == ErrorOf(service.chain[load[l].route[load[l].position]],
                            service.operation, answer)
<1>1. /\ load[l].status = "calling" /\ Active(l) /\ reply' = None /\ now' = now
      /\ service' = service /\ asks' = asks /\ now \in Nat /\ load[l] # NoLoad
      /\ DOMAIN load = Calls /\ IsLoad(load[l])
  BY NoLoadIsLoad DEF ProviderAnswers, Active, IInv, LoadFits
<1>2. \/ \E r \in {"success", "crashed"} : Ends(l, r)
      \/ /\ load' = [load EXCEPT ![l].position = @ + 1] /\ entries' = entries
         /\ CanFailover(error, load[l].position, load[l].route)
      \/ Failed(l, error.retryable)
  <2>1. CASE error = Fine
    BY <2>1 DEF ProviderAnswers
  <2>2. CASE error = Crash /\ error # Fine
    BY <2>2 DEF ProviderAnswers
  <2>3. CASE error # Fine /\ error # Crash
    BY <2>3 DEF ProviderAnswers
  <2> QED
    BY <2>1, <2>2, <2>3
<1> HIDE DEF error
<1>3. CountersFit' /\ ReplyFits'
  BY <1>1 DEF LInv, CountersFit, ReplyFits
<1>4. CASE \E r \in {"success", "crashed"} : Ends(l, r)
  BY <1>1, <1>3, <1>4, EndsWithin DEF Results, LInv
<1>5. CASE Failed(l, error.retryable)
  BY <1>1, <1>3, <1>5, FailedWithin DEF LInv
<1>6. CASE /\ load' = [load EXCEPT ![l].position = @ + 1] /\ entries' = entries
           /\ CanFailover(error, load[l].position, load[l].route)
  <2>1. /\ load'[l].status = "calling" /\ load'[l].result = load[l].result
        /\ load'[l].at = load[l].at /\ load'[l].key = load[l].key
        /\ load'[l].attempt = load[l].attempt /\ load'[l].route = load[l].route
        /\ load'[l].position = load[l].position + 1
        /\ \A m \in Calls \ {l} : load'[m] = load[m]
    BY <1>1, <1>6 DEF IsLoad, LoadFields
  <2>2. IsAttempt(load[l], now) /\ load[l].position < Len(load[l].route)
    BY <1>1, <1>6 DEF LInv, AttemptsFit, CanFailover
  <2>3. load'[l].position \in 0..Len(load'[l].route) /\ load'[l].position # 0
    <3>1. load[l].position \in Nat /\ Len(load[l].route) \in Nat
      BY <2>2 DEF IsAttempt
    <3> QED
      BY <2>1, <2>2, <3>1
  <2>4. IsAttempt(load'[l], now)
    BY <2>1, <2>2, <2>3 DEF IsAttempt
  <2>5. AttemptsFit'
    BY <1>1, <2>1, <2>4, AttemptMoves DEF LInv
  <2>6. RoomFits'
    BY <1>1, <1>6, RoomStays DEF IInv, LInv
  <2> QED
    BY <1>3, <2>5, <2>6 DEF LInv
<1> QED
  BY <1>2, <1>4, <1>5, <1>6

LEMMA GatewayTimeoutWithin ==
    ASSUME IInv, LInv, NEW l \in Calls, GatewayTimeout(l)
    PROVE  LInv'
<1>1. /\ load[l].status = "calling" /\ Failed(l, TRUE) /\ reply' = None /\ now' = now
      /\ service' = service /\ asks' = asks
  BY DEF GatewayTimeout
<1>2. CountersFit' /\ ReplyFits'
  BY <1>1 DEF LInv, CountersFit, ReplyFits
<1> QED
  BY <1>1, <1>2, FailedWithin DEF LInv

\* The clock, the deadlines and the steps of nobody touch neither the loads nor
\* the cache.
LEMMA RestWithin ==
    ASSUME IInv, LInv, Tick \/ (\E r \in Runs : Deadline(r)) \/ UNCHANGED vars
    PROVE  LInv'
<1>1. /\ load' = load /\ entries' = entries /\ service' = service /\ asks' = asks
      /\ reply' \in {None, reply} /\ now \in Nat
      /\ now' = now \/ (now < MaxTime /\ now' = now + 1)
  BY DEF Tick, Deadline, vars, IInv, LoadFits
<1>2. now' \in Nat /\ now' >= now /\ now' \in 0..MaxTime
  BY <1>1, Bounds DEF LInv, CountersFit
<1>3. AttemptsFit'
  BY <1>1, <1>2, AttemptsRest DEF LInv
<1>4. RoomFits'
  BY <1>1, <1>2, RoomStays DEF IInv, LInv
<1>5. CountersFit' /\ ReplyFits'
  BY <1>1, <1>2 DEF LInv, CountersFit, ReplyFits
<1> QED
  BY <1>3, <1>4, <1>5 DEF LInv

LEMMA NextWithin == IInv /\ LInv /\ [Next]_vars => LInv'
<1> SUFFICES ASSUME IInv, LInv, [Next]_vars PROVE LInv'
  OBVIOUS
<1>1. CASE \E c \in Calls : Resume(c) \/ Cancel(c) \/ \E k \in Keys : Ask(c, k)
  BY <1>1, ResumeWithin, CancelWithin, AskWithin
<1>2. CASE \E l \in Calls : StartAttempt(l) \/ EnterChain(l) \/ GatewayTimeout(l)
  BY <1>2, StartAttemptWithin, EnterChainWithin, GatewayTimeoutWithin
<1>3. CASE \E l \in Calls : \E a \in Answers : ProviderAnswers(l, a)
  BY <1>3, ProviderAnswersWithin
<1>4. CASE Tick \/ (\E r \in Runs : Deadline(r)) \/ UNCHANGED vars
  BY <1>4, RestWithin
<1> QED
  BY <1>1, <1>2, <1>3, <1>4 DEF Next

LEMMA LimitsHold == Spec => [](IInv /\ LInv)
<1>1. Init => LInv
  BY InitWithin
<1>2. IInv /\ LInv /\ [Next]_vars => LInv'
  BY NextWithin
<1> QED
  BY <1>1, <1>2, Invariance, PTL DEF Spec

\* The state stays within its limits: no more entries than max_entries of the cache,
\* no attempt beyond those of the retry policy, no place beyond the end of the chain
\* (AsyncTTLCache._store, RetryPolicy.execute and _ProviderChain._execute).
THEOREM LimitsAreKept == Spec => []WithinLimits
<1>1. IInv /\ LInv => WithinLimits
  <2> SUFFICES ASSUME IInv, LInv PROVE TypeOK /\ PermitsAreReturned
    BY DEF WithinLimits
  <2>1. /\ service \in Services /\ now \in 0..MaxTime /\ asks \in 0..MaxAsks
        /\ reply = None \/ (reply.caller \in Calls /\ reply.result \in Results)
    BY DEF LInv, CountersFit, ReplyFits
  <2>2. ASSUME NEW c \in Calls, call[c] # NoCall
        PROVE  call[c].key \in Keys /\ call[c].load \in Calls /\ call[c].asked \in 0..now
    <3>1. /\ call[c].load \in Calls /\ call[c].asked <= now
          /\ load[call[c].load].status # "off" /\ load[call[c].load].key = call[c].key
      BY <2>2 DEF IInv, Joined
    <3>2. call[c].asked \in Nat /\ now \in Nat /\ IsLoad(load[call[c].load])
      BY <3>1 DEF IInv, LoadFits, Call
    <3> QED
      BY <3>1, <3>2 DEF IsLoad
  <2>3. ASSUME NEW l \in Calls, load[l] # NoLoad
        PROVE  /\ load[l].key \in Keys /\ load[l].attempt \in 1..MaxAttempts
               /\ load[l].status \in {"pending", "queued", "calling", "ended"}
               /\ load[l].position \in 0..Len(load[l].route)
               /\ load[l].result \in Results \cup {None} /\ load[l].at \in 0..now
    BY <2>3 DEF LInv, AttemptsFit, IsAttempt
  <2>4. ASSUME NEW k \in Keys, entries[k] # None
        PROVE  /\ entries[k].value \in Results /\ entries[k].expires \in Nat
               /\ entries[k].inserted \in 0..now
    BY <2>4, Limits DEF IInv, EntryFits, LoadFits, LInv, RoomFits, Results
  <2>5. Cardinality({k \in Keys : entries[k] # None}) <= MaxEntries
    BY DEF LInv, RoomFits, Held
  <2>6. /\ inflight \in [Keys -> Calls \cup {None}] /\ circuits \in [Providers -> Circuit]
        /\ queue \in Seq(Calls)
    BY DEF IInv, LoadFits, CircuitFits, QueueFits
  <2>7. permits \in 0..MaxConcurrency /\ PermitsAreReturned
    BY CallingIsNatural, Limits DEF IInv, PermitsFit, PermitsAreReturned, Calling
  <2>8. left \in [Runs -> 0..RunBudget \cup {Late}]
    <3>1. 0..Late = 0..RunBudget \cup {Late}
      BY Limits DEF Late
    <3> QED
      BY <3>1 DEF IInv, MeterFits
  <2> QED
    BY <2>1, <2>2, <2>3, <2>4, <2>5, <2>6, <2>7, <2>8 DEF TypeOK
<1> QED
  BY <1>1, LimitsHold, PTL

-----------------------------------------------------------------------------
(* What is cached.                                                         *)

Success(k) ==
    /\ entries'[k].value = "success"
    /\ \E l \in Calls : load[l].key = k /\ Fetches(l)

Stored == \A k \in Keys : entries'[k] # None /\ entries'[k] # entries[k] => Success(k)

LEMMA NothingStored ==
    ASSUME \/ entries' = entries
           \/ \E k \in Keys : entries' = [entries EXCEPT ![k] = None],
           DOMAIN entries = Keys
    PROVE  Stored
  BY DEF Stored

LEMMA NoSuccessNoEntry ==
    ASSUME NEW l \in Calls, NEW result, Ends(l, result), result # "success"
    PROVE  entries' = entries
  BY DEF Ends, ShouldCache

LEMMA FailureNoEntry ==
    ASSUME NEW l \in Calls, NEW retryable, Failed(l, retryable)
    PROVE  entries' = entries
<1>1. Ends(l, "failed") => entries' = entries
  BY NoSuccessNoEntry
<1> QED
  BY <1>1 DEF Failed

\* The result that is stored is the answer to the load that was calling.
LEMMA SuccessIsStored ==
    ASSUME NEW l \in Calls, Fetches(l), Ends(l, "success")
    PROVE  Stored
<1>1. entries' = WithEntry(load[l].key, Entry("success"))
  BY DEF Ends, ShouldCache
<1>2. \A k \in Keys \ {load[l].key} : entries'[k] \in {entries[k], None}
  BY <1>1 DEF WithEntry
<1>3. load[l].key \in Keys => entries'[load[l].key].value = "success"
  BY <1>1 DEF WithEntry, Entry
<1> QED
  BY <1>2, <1>3 DEF Stored, Success

LEMMA NextStores == IInv /\ [Next]_vars => Stored
<1> SUFFICES ASSUME IInv, [Next]_vars PROVE Stored
  OBVIOUS
<1>0. DOMAIN entries = Keys
  BY DEF IInv
<1>1. ASSUME NEW c \in Calls, NEW k \in Keys, Ask(c, k) PROVE Stored
  BY <1>0, <1>1, NothingStored DEF Ask
<1>2. ASSUME NEW c \in Calls, Resume(c) \/ Cancel(c) PROVE Stored
  BY <1>0, <1>2, NothingStored DEF Resume, Cancel
<1>3. ASSUME NEW l \in Calls, StartAttempt(l) \/ EnterChain(l) PROVE Stored
  <2>1. entries' = entries \/ Ends(l, "exceeded")
    BY <1>3 DEF StartAttempt, EnterChain
  <2>2. entries' = entries
    BY <2>1, NoSuccessNoEntry
  <2> QED
    BY <1>0, <2>2, NothingStored
<1>4. ASSUME NEW l \in Calls, GatewayTimeout(l) PROVE Stored
  <2>1. entries' = entries
    BY <1>4, FailureNoEntry DEF GatewayTimeout
  <2> QED
    BY <1>0, <2>1, NothingStored
<1>5. ASSUME NEW l \in Calls, NEW a \in Answers, ProviderAnswers(l, a) PROVE Stored
  <2> DEFINE p == load[l].route[load[l].position]
             error == ErrorOf(service.chain[p], service.operation, a)
  <2>1. \/ error = Fine /\ Ends(l, "success")
        \/ Ends(l, "crashed")
        \/ entries' = entries
        \/ Failed(l, error.retryable)
    <3>1. CASE error = Fine
      BY <1>5, <3>1 DEF ProviderAnswers
    <3>2. CASE error = Crash /\ error # Fine
      BY <1>5, <3>2 DEF ProviderAnswers
    <3>3. CASE error # Fine /\ error # Crash
      BY <1>5, <3>3 DEF ProviderAnswers
    <3> QED
      BY <3>1, <3>2, <3>3
  <2>2. error = Fine => Fetches(l)
    BY <1>5 DEF Fetches
  <2> HIDE DEF error
  <2>3. CASE error = Fine /\ Ends(l, "success")
    BY <2>2, <2>3, SuccessIsStored
  <2>4. CASE entries' = entries \/ Ends(l, "crashed") \/ Failed(l, error.retryable)
    <3>1. Ends(l, "crashed") => entries' = entries
      BY NoSuccessNoEntry
    <3>2. Failed(l, error.retryable) => entries' = entries
      BY FailureNoEntry
    <3> QED
      BY <1>0, <2>4, <3>1, <3>2, NothingStored
  <2> QED
    BY <2>1, <2>3, <2>4
<1>6. CASE Tick \/ (\E r \in Runs : Deadline(r)) \/ UNCHANGED vars
  BY <1>0, <1>6, NothingStored DEF Tick, Deadline, vars
<1> QED
  BY <1>1, <1>2, <1>3, <1>4, <1>5, <1>6 DEF Next

\* A key gets an entry only in the step in which the provider called by the load of
\* that key answers without an error, and the entry holds that answer: nothing is
\* stored by a failure, a timeout, a crash or an exceeded budget, and no answer is
\* stored under the key of another query (should_cache of _execute).
THEOREM FailuresAreNotCached == Spec => OnlySuccessIsCached
<1>1. IInv /\ [Next]_vars =>
        [\A k \in Keys : entries'[k] # None /\ entries'[k] # entries[k] =>
            /\ entries'[k].value = "success"
            /\ \E l \in Calls : load[l].key = k /\ Fetches(l)]_vars
  BY NextStores DEF Stored, Success
<1> QED
  BY <1>1, Invariance, PTL DEF Spec, OnlySuccessIsCached
===============================================================================

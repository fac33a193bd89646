------------------------- MODULE PlanLifecycle_proofs -------------------------
(***************************************************************************)
(* Proofs about PlanLifecycle for every number of processes, requests,     *)
(* items, days and revisions.                                              *)
(*                                                                         *)
(* The inductive invariant says what a stored session satisfies            *)
(* (SessionInv) and how the copies that nodes hold relate to it            *)
(* (NoLostUpdate, CopiesInv).  A node acts on its copy; when its           *)
(* compare-and-swap succeeds the copy is the stored session, so it is      *)
(* enough to show that what it stores satisfies SessionInv again.          *)
(*                                                                         *)
(* The last part sorts the steps by what they do to previews, weather      *)
(* events and receipts (Outcome, Answers).  Decisions stand for any number *)
(* of processes.  Receipts and weather events need a process that has the  *)
(* session to itself (OneProcess): with two, a request may be executed     *)
(* twice and an event get two previews.                                    *)
(***************************************************************************)
EXTENDS PlanLifecycle, TLAPS

(* The statuses of a session without a version, and what follows.          *)
Unselected(s) ==
    /\ s.status = "awaiting_candidate_selection" <=> s.versions = <<>>
    /\ s.versions = <<>> =>
          s.locks = [t \in Targets |-> NoLock] /\ s.previews = <<>> /\ s.events = {}

Linear(s) ==
    /\ s.active = Len(s.versions)
    /\ \A n \in 1 .. Len(s.versions) : s.versions[n].parent = n - 1
    /\ \A n \in 2 .. Len(s.versions) :
          \E k \in 1 .. Len(s.previews) :
              /\ s.previews[k].status = "approved"
              /\ s.previews[k].base = n - 1
              /\ s.previews[k].plan = s.versions[n].plan

ApprovedOnce(s) ==
    /\ \A k \in 1 .. Len(s.previews) :
          s.previews[k].status = "approved" => s.previews[k].base < Len(s.versions)
    /\ \A j, k \in 1 .. Len(s.previews) :
          /\ s.previews[j].status = "approved" /\ s.previews[k].status = "approved"
          /\ s.previews[j].base = s.previews[k].base
          => j = k

HasPreview(s) ==
    s.status = "awaiting_change_approval" =>
        /\ s.pending \in 1 .. Len(s.previews)
        /\ s.previews[s.pending].status = "pending"
        /\ s.previews[s.pending].base = s.active

Current(s) ==
    \A k \in 1 .. Len(s.previews) :
        /\ s.previews[k].baseRevision <= s.revision
        /\ s.previews[k].baseRevision = s.revision =>
              s.previews[k].base = s.active /\ Agrees(s.previews[k].plan, s.locks)

Held(s) == s.versions # <<>> => Agrees(ActivePlan(s), s.locks)

SessionInv(s) ==
    /\ s \in SessionRecord
    /\ Unselected(s) /\ Linear(s) /\ ApprovedOnce(s)
    /\ HasPreview(s) /\ Current(s) /\ Held(s)

(* The nodes a resume reaches only after it has seen a selected plan.      *)
LateNodes == {"analyze_change_impact", "build_preview", "fetch_weather_snapshot",
    "derive_weather_event", "deduplicate_weather_event",
    "analyze_weather_impact", "build_weather_repair"}

CopiesInv ==
    \A p \in Procs :
        /\ node[p] \in LateNodes => session.versions # <<>>
        /\ phase[p] = "act" /\ seen[p].status # "awaiting_candidate_selection" =>
              session.versions # <<>>

(* The nodes after the forecast is fetched, and those after the change     *)
(* event is known to be a new one.                                         *)
Derived == {"analyze_weather_impact", "build_weather_repair"}
Fetched == {"derive_weather_event", "deduplicate_weather_event"} \cup Derived

WeatherInv ==
    \A p \in Procs :
        /\ node[p] \in Fetched => forecast[p] \in Forecasts
        /\ node[p] \in Derived => event[p] # NoEvent

IInv == TypeOK /\ SessionInv(session) /\ NoLostUpdate /\ CopiesInv /\ WeatherInv

-----------------------------------------------------------------------------
(* What the helpers return                                                 *)

LEMMA CoversType == ASSUME NEW plan, NEW t PROVE Covers(plan, t) \in SUBSET Items
BY DEF Covers, Present

LEMMA FingerprintType ==
    ASSUME NEW plan \in Plan, NEW t
    PROVE  Fingerprint(plan, t) \in Fingerprints
<1>1. Fingerprint(plan, t) \in [Covers(plan, t) -> Places \cup {Absent}]
  BY CoversType DEF Fingerprint, Plan
<1> QED BY <1>1, CoversType DEF Fingerprints

LEMMA NewSessionType == NewSession \in SessionRecord
<1>1. [t \in Targets |-> NoLock] \in [Targets -> Fingerprints \cup {NoLock}]
  OBVIOUS
<1>2. [r \in Requests |-> 0] \in [Requests -> Nat]
  OBVIOUS
<1> QED BY <1>1, <1>2 DEF NewSession, SessionRecord, Statuses

LEMMA NewSessionInv == SessionInv(NewSession)
BY NewSessionType
   DEF SessionInv, NewSession, Unselected, Linear, ApprovedOnce, HasPreview, Current, Held

(* The record a save writes: new, with the receipts and the revision set.  *)
Stored(new, receipts, revision) ==
    [[new EXCEPT !.receipts = receipts] EXCEPT !.revision = revision]

LEMMA StoredFields ==
    ASSUME NEW new \in SessionRecord, NEW receipts \in [Requests -> Nat],
           NEW revision \in Nat,
           NEW st, st = Stored(new, receipts, revision)
    PROVE  /\ st \in SessionRecord
           /\ st.status = new.status /\ st.revision = revision
           /\ st.versions = new.versions /\ st.active = new.active
           /\ st.previews = new.previews /\ st.pending = new.pending
           /\ st.locks = new.locks /\ st.events = new.events
BY DEF Stored, SessionRecord

LEMMA SessionFields ==
    ASSUME NEW s \in SessionRecord
    PROVE  /\ s.revision \in Nat /\ s.status \in Statuses
           /\ s.active \in Nat /\ s.pending \in Nat
           /\ s.versions \in Seq(Version) /\ Len(s.versions) \in Nat
           /\ s.previews \in Seq(Preview) /\ Len(s.previews) \in Nat
           /\ s.locks \in [Targets -> Fingerprints \cup {NoLock}]
           /\ s.receipts \in [Requests -> Nat]
           /\ s.events \in SUBSET [id : EventId, status : EventStatuses]
           /\ s.attention \in EventId \cup {NoEvent}
           /\ s.snapshot \in Forecasts \cup {NoForecast}
BY DEF SessionRecord

LEMMA PreviewFields ==
    ASSUME NEW s \in SessionRecord, NEW k \in 1 .. Len(s.previews)
    PROVE  /\ s.previews[k] \in Preview
           /\ s.previews[k].base \in Nat /\ s.previews[k].baseRevision \in Nat
           /\ s.previews[k].plan \in Plan
           /\ s.previews[k].status \in PreviewStatuses
           /\ s.previews[k].event \in EventId \cup {NoEvent}
<1>1. s.previews[k] \in Preview
  BY SessionFields
<1> QED BY <1>1 DEF Preview

-----------------------------------------------------------------------------
(* Each kind of save keeps SessionInv                                      *)

(* Locks, versions and previews stay; the revision grows.  No preview is   *)
(* current any more.                                                       *)
LEMMA KeepPlanInv ==
    ASSUME NEW s, SessionInv(s), NEW st \in SessionRecord, s.versions # <<>>,
           st.versions = s.versions, st.active = s.active,
           st.previews = s.previews, st.locks = s.locks,
           st.revision = s.revision + 1,
           st.status # "awaiting_candidate_selection",
           \/ st.status # "awaiting_change_approval"
           \/ st.status = s.status /\ st.pending = s.pending
    PROVE  SessionInv(st)
<1>1. Unselected(st) /\ HasPreview(st)
  BY DEF SessionInv, Unselected, HasPreview
<1>2. Linear(st) /\ ApprovedOnce(st)
  BY DEF SessionInv, Linear, ApprovedOnce
<1>3. Current(st)
  <2>1. s.revision \in Nat
    BY DEF SessionInv, SessionRecord
  <2>2. ASSUME NEW k \in 1 .. Len(s.previews)
        PROVE  /\ s.previews[k].baseRevision <= s.revision + 1
               /\ s.previews[k].baseRevision # s.revision + 1
    <3>1. s.previews[k].baseRevision \in Nat
      BY PreviewFields DEF SessionInv
    <3> QED BY <2>1, <3>1 DEF SessionInv, Current
  <2> QED BY <2>2 DEF Current
<1>4. Held(st)
  BY DEF SessionInv, Held, ActivePlan
<1> QED BY <1>1, <1>2, <1>3, <1>4 DEF SessionInv

LEMMA ActivePlanType ==
    ASSUME NEW s, SessionInv(s), s.versions # <<>>
    PROVE  ActivePlan(s) \in Plan
<1>1. s.active \in 1 .. Len(s.versions)
  BY DEF SessionInv, Linear, SessionRecord
<1>2. s.versions[s.active] \in Version
  BY <1>1, SessionFields DEF SessionInv
<1> QED BY <1>2 DEF ActivePlan, Version

(* A lock records what the active plan shows; an unlock forgets it.        *)
LEMMA ChangeLockInv ==
    ASSUME NEW s, SessionInv(s), NEW st \in SessionRecord, s.versions # <<>>,
           NEW t \in Targets,
           \/ st.locks = [s.locks EXCEPT ![t] = Fingerprint(ActivePlan(s), t)]
           \/ st.locks = [s.locks EXCEPT ![t] = NoLock],
           st.versions = s.versions, st.active = s.active,
           st.previews = s.previews,
           st.revision = s.revision + 1, st.status = "active"
    PROVE  SessionInv(st)
<1>1. Unselected(st) /\ HasPreview(st)
  BY DEF SessionInv, Unselected, HasPreview
<1>2. Linear(st) /\ ApprovedOnce(st)
  BY DEF SessionInv, Linear, ApprovedOnce
<1>3. Current(st)
  <2>1. s.revision \in Nat
    BY DEF SessionInv, SessionRecord
  <2>2. ASSUME NEW k \in 1 .. Len(s.previews)
        PROVE  /\ s.previews[k].baseRevision <= s.revision + 1
               /\ s.previews[k].baseRevision # s.revision + 1
    <3>1. s.previews[k].baseRevision \in Nat
      BY PreviewFields DEF SessionInv
    <3> QED BY <2>1, <3>1 DEF SessionInv, Current
  <2> QED BY <2>2 DEF Current
<1>4. Held(st)
  <2>1. ActivePlan(st) = ActivePlan(s)
    BY DEF ActivePlan
  <2>2. Agrees(ActivePlan(s), s.locks)
    BY DEF SessionInv, Held
  <2>3. s.locks \in [Targets -> Fingerprints \cup {NoLock}]
    BY DEF SessionInv, SessionRecord
  <2>4. Agrees(ActivePlan(s), st.locks)
    BY <2>2, <2>3 DEF Agrees
  <2> QED BY <2>1, <2>4 DEF Held
<1> QED BY <1>1, <1>2, <1>3, <1>4 DEF SessionInv

(* The first version, chosen from the planning snapshot.                   *)
LEMMA SelectInv ==
    ASSUME NEW s, SessionInv(s), NEW st \in SessionRecord, NEW plan \in Plan,
           s.status = "awaiting_candidate_selection",
           st.versions = <<[plan |-> plan, parent |-> 0]>>, st.active = 1,
           st.previews = s.previews, st.locks = s.locks, st.status = "active"
    PROVE  SessionInv(st)
<1>1. s.locks = [t \in Targets |-> NoLock] /\ s.previews = <<>>
  BY DEF SessionInv, Unselected
<1>2. Unselected(st) /\ HasPreview(st)
  BY DEF Unselected, HasPreview
<1>3. Linear(st) /\ ApprovedOnce(st) /\ Current(st)
  BY <1>1 DEF Linear, ApprovedOnce, Current
<1>4. Held(st)
  BY <1>1 DEF Held, Agrees
<1> QED BY <1>2, <1>3, <1>4 DEF SessionInv

(* A new preview agrees with the locks and is based on the active version. *)
LEMMA NewPreviewInv ==
    ASSUME NEW s, SessionInv(s), NEW st \in SessionRecord, s.versions # <<>>,
           NEW v \in Preview, v.status \in {"pending", "invalid"},
           v.base = s.active, v.baseRevision = s.revision + 1,
           Agrees(v.plan, s.locks),
           st.versions = s.versions, st.active = s.active, st.locks = s.locks,
           st.previews = Append(s.previews, v),
           st.revision = s.revision + 1,
           st.status \in {"awaiting_change_approval", "change_rejected"},
           st.status = "awaiting_change_approval" =>
               v.status = "pending" /\ st.pending = Len(s.previews) + 1
    PROVE  SessionInv(st)
<1> DEFINE L == Len(s.previews)
<1>1. /\ s.previews \in Seq(Preview) /\ L \in Nat /\ s.revision \in Nat
      /\ Len(st.previews) = L + 1 /\ st.previews[L + 1] = v
      /\ \A k \in 1 .. L : st.previews[k] = s.previews[k]
  BY DEF SessionInv, SessionRecord
<1>2. Unselected(st)
  BY DEF SessionInv, Unselected
<1>3. HasPreview(st)
  BY <1>1 DEF HasPreview
<1>4. Linear(st)
  <2>1. /\ s.active = Len(s.versions)
        /\ \A n \in 1 .. Len(s.versions) : s.versions[n].parent = n - 1
    BY DEF SessionInv, Linear
  <2>2. ASSUME NEW n \in 2 .. Len(s.versions)
        PROVE  \E k \in 1 .. L + 1 :
                   /\ st.previews[k].status = "approved"
                   /\ st.previews[k].base = n - 1
                   /\ st.previews[k].plan = s.versions[n].plan
    <3>1. PICK k \in 1 .. L : /\ s.previews[k].status = "approved"
                             /\ s.previews[k].base = n - 1
                             /\ s.previews[k].plan = s.versions[n].plan
      BY DEF SessionInv, Linear
    <3>2. k \in 1 .. L + 1 /\ st.previews[k] = s.previews[k]
      BY <1>1
    <3> QED BY <3>1, <3>2
  <2> QED BY <1>1, <2>1, <2>2 DEF Linear
<1>5. ApprovedOnce(st)
  BY <1>1 DEF SessionInv, ApprovedOnce
<1>6. Current(st)
  <2>1. ASSUME NEW k \in 1 .. L
        PROVE  /\ s.previews[k].baseRevision <= s.revision + 1
               /\ s.previews[k].baseRevision # s.revision + 1
    <3>1. s.previews[k].baseRevision \in Nat
      BY PreviewFields DEF SessionInv
    <3> QED BY <1>1, <3>1 DEF SessionInv, Current
  <2> QED BY <1>1, <2>1 DEF Current
<1>7. Held(st)
  BY DEF SessionInv, Held, ActivePlan
<1> QED BY <1>2, <1>3, <1>4, <1>5, <1>6, <1>7 DEF SessionInv

(* What Decide returns. *)
LEMMA DecideFields ==
    ASSUME NEW s \in SessionRecord, NEW k \in 1 .. Len(s.previews),
           NEW status \in PreviewStatuses,
           NEW d, d = Decide(s.previews, k, status)
    PROVE  /\ d \in Seq(Preview) /\ Len(d) = Len(s.previews)
           /\ \A j \in 1 .. Len(s.previews) : j # k => d[j] = s.previews[j]
           /\ d[k].status = status /\ d[k].base = s.previews[k].base
           /\ d[k].baseRevision = s.previews[k].baseRevision
           /\ d[k].plan = s.previews[k].plan
           /\ d[k].event = s.previews[k].event
<1> DEFINE w == [s.previews[k] EXCEPT !.status = status]
<1>1. s.previews \in Seq(Preview) /\ s.previews[k] \in Preview
  BY SessionFields, PreviewFields
<1>2. /\ w \in Preview /\ w.status = status /\ w.base = s.previews[k].base
      /\ w.baseRevision = s.previews[k].baseRevision /\ w.plan = s.previews[k].plan
      /\ w.event = s.previews[k].event
  BY <1>1 DEF Preview
<1>3. d = [s.previews EXCEPT ![k] = w]
  BY DEF Decide
<1> HIDE DEF w
<1>4. d \in Seq(Preview) /\ Len(d) = Len(s.previews)
  BY <1>1, <1>2, <1>3
<1>5. d[k] = w /\ \A j \in 1 .. Len(s.previews) : j # k => d[j] = s.previews[j]
  BY <1>1, <1>3
<1> QED BY <1>2, <1>4, <1>5

LEMMA DecidedCurrent ==
    ASSUME NEW s, SessionInv(s), NEW st \in SessionRecord,
           NEW k \in 1 .. Len(s.previews), NEW status \in PreviewStatuses,
           st.previews = Decide(s.previews, k, status),
           st.revision = s.revision + 1
    PROVE  Current(st)
<1>1. s \in SessionRecord /\ Current(s)
  BY DEF SessionInv
<1>2. ASSUME NEW j \in 1 .. Len(s.previews)
      PROVE  /\ st.previews[j].baseRevision <= s.revision + 1
             /\ st.previews[j].baseRevision # s.revision + 1
  <2>1. st.previews[j].baseRevision = s.previews[j].baseRevision
    BY <1>1, DecideFields
  <2>2. s.previews[j].baseRevision <= s.revision
    BY <1>1 DEF Current
  <2>3. s.previews[j].baseRevision \in Nat /\ s.revision \in Nat
    BY <1>1, PreviewFields, SessionFields
  <2> QED BY <2>1, <2>2, <2>3
<1>3. Len(st.previews) = Len(s.previews)
  BY <1>1, DecideFields
<1> QED BY <1>2, <1>3 DEF Current

(* A rejected preview leaves versions and locks alone.                     *)
LEMMA RejectInv ==
    ASSUME NEW s, SessionInv(s), NEW st \in SessionRecord,
           s.status = "awaiting_change_approval",
           st.previews = Decide(s.previews, s.pending, "rejected"),
           st.versions = s.versions, st.active = s.active, st.locks = s.locks,
           st.revision = s.revision + 1, st.status = "active"
    PROVE  SessionInv(st)
<1> DEFINE k == s.pending
           L == Len(s.previews)
<1>1. s \in SessionRecord /\ k \in 1 .. L /\ s.previews[k].status = "pending"
  BY DEF SessionInv, HasPreview
<1>2. "rejected" \in PreviewStatuses
  BY DEF PreviewStatuses
<1>3. /\ Len(st.previews) = L /\ st.previews[k].status = "rejected"
      /\ \A j \in 1 .. L : j # k => st.previews[j] = s.previews[j]
  BY <1>1, <1>2, DecideFields
<1>4. Unselected(st) /\ HasPreview(st)
  BY DEF SessionInv, Unselected, HasPreview
<1>5. Linear(st)
  <2>1. /\ s.active = Len(s.versions)
        /\ \A n \in 1 .. Len(s.versions) : s.versions[n].parent = n - 1
    BY DEF SessionInv, Linear
  <2>2. ASSUME NEW n \in 2 .. Len(s.versions)
        PROVE  \E j \in 1 .. L : /\ st.previews[j].status = "approved"
                                 /\ st.previews[j].base = n - 1
                                 /\ st.previews[j].plan = s.versions[n].plan
    <3>1. PICK j \in 1 .. L : /\ s.previews[j].status = "approved"
                              /\ s.previews[j].base = n - 1
                              /\ s.previews[j].plan = s.versions[n].plan
      BY DEF SessionInv, Linear
    <3>2. j # k
      BY <1>1, <3>1
    <3> QED BY <1>3, <3>1, <3>2
  <2> QED BY <1>3, <2>1, <2>2 DEF Linear
<1>6. ApprovedOnce(st)
  BY <1>3 DEF SessionInv, ApprovedOnce
<1>7. Current(st)
  BY <1>1, <1>2, DecidedCurrent
<1>8. Held(st)
  BY DEF SessionInv, Held, ActivePlan
<1> QED BY <1>4, <1>5, <1>6, <1>7, <1>8 DEF SessionInv

(* An approved preview that is fresh becomes the next version.             *)
LEMMA ApproveInv ==
    ASSUME NEW s, SessionInv(s), NEW st \in SessionRecord,
           s.status = "awaiting_change_approval", Fresh(s),
           NEW v, v = [plan |-> s.previews[s.pending].plan,
                       parent |-> s.previews[s.pending].base],
           st.previews = Decide(s.previews, s.pending, "approved"),
           st.versions = Append(s.versions, v),
           st.active = Len(s.versions) + 1, st.locks = s.locks,
           st.revision = s.revision + 1, st.status = "active"
    PROVE  SessionInv(st) /\ v \in Version /\ Agrees(v.plan, s.locks)
<1> DEFINE k == s.pending
           L == Len(s.previews)
           N == Len(s.versions)
<1>1. /\ s \in SessionRecord /\ k \in 1 .. L /\ s.previews[k].status = "pending"
      /\ s.active = N
  BY DEF SessionInv, HasPreview, Linear
<1>2. "approved" \in PreviewStatuses
  BY DEF PreviewStatuses
<1>3. /\ Len(st.previews) = L /\ st.previews[k].status = "approved"
      /\ \A j \in 1 .. L : j # k => st.previews[j] = s.previews[j]
      /\ st.previews[k].base = s.previews[k].base
      /\ st.previews[k].plan = s.previews[k].plan
  BY <1>1, <1>2, DecideFields
<1>4. /\ s.previews[k].base = N /\ v.plan = s.previews[k].plan /\ v.parent = N
      /\ Agrees(v.plan, s.locks)
  BY <1>1 DEF Fresh, SessionInv, Current
<1>5. v \in Version
  BY <1>1, PreviewFields DEF Version
<1>6. /\ N \in Nat /\ s.versions \in Seq(Version) /\ st.versions \in Seq(Version)
      /\ Len(st.versions) = N + 1 /\ st.versions[N + 1] = v
      /\ \A n \in 1 .. N : st.versions[n] = s.versions[n]
  BY <1>1, <1>5, SessionFields
<1>7. Unselected(st) /\ HasPreview(st)
  BY <1>6 DEF SessionInv, Unselected, HasPreview
<1>8. Linear(st)
  <2>1. \A n \in 1 .. N + 1 : st.versions[n].parent = n - 1
    <3>1. \A n \in 1 .. N : s.versions[n].parent = n - 1
      BY DEF SessionInv, Linear
    <3> QED BY <1>4, <1>6, <3>1
  <2>2. ASSUME NEW n \in 2 .. N + 1
        PROVE  \E j \in 1 .. L : /\ st.previews[j].status = "approved"
                                 /\ st.previews[j].base = n - 1
                                 /\ st.previews[j].plan = st.versions[n].plan
    <3>1. CASE n = N + 1
      <4>1. st.versions[n].plan = st.previews[k].plan /\ st.previews[k].base = n - 1
        BY <1>3, <1>4, <1>6, <3>1
      <4> QED BY <1>1, <1>3, <4>1
    <3>2. CASE n \in 2 .. N
      <4>1. PICK j \in 1 .. L : /\ s.previews[j].status = "approved"
                                /\ s.previews[j].base = n - 1
                                /\ s.previews[j].plan = s.versions[n].plan
        BY <3>2 DEF SessionInv, Linear
      <4>2. j # k
        BY <1>1, <4>1
      <4>3. st.versions[n].plan = s.versions[n].plan
        BY <1>6, <3>2
      <4>4. st.previews[j] = s.previews[j]
        BY <1>3, <4>2
      <4> QED BY <4>1, <4>3, <4>4
    <3> QED BY <1>6, <3>1, <3>2
  <2> QED BY <1>3, <1>6, <2>1, <2>2 DEF Linear
<1>9. ApprovedOnce(st)
  <2>1. ASSUME NEW j \in 1 .. L, j # k, st.previews[j].status = "approved"
        PROVE  st.previews[j].base < N
    BY <1>3, <2>1 DEF SessionInv, ApprovedOnce
  <2>2. ASSUME NEW j \in 1 .. L, st.previews[j].status = "approved"
        PROVE  st.previews[j].base < N + 1 /\ (j = k \/ st.previews[j].base < N)
    <3>1. j # k => st.previews[j].base \in Nat
      BY <1>1, <1>3, PreviewFields
    <3> QED BY <1>3, <1>4, <1>6, <2>1, <2>2, <3>1
  <2>3. ASSUME NEW i \in 1 .. L, NEW j \in 1 .. L,
               st.previews[i].status = "approved", st.previews[j].status = "approved",
               st.previews[i].base = st.previews[j].base
        PROVE  i = j
    <3>1. CASE i # k /\ j # k
      BY <1>3, <2>3, <3>1 DEF SessionInv, ApprovedOnce
    <3>2. CASE i = k \/ j = k
      BY <1>3, <1>4, <1>6, <2>1, <2>3, <3>2
    <3> QED BY <3>1, <3>2
  <2> QED BY <1>3, <1>6, <2>2, <2>3 DEF ApprovedOnce
<1>10. Current(st)
  BY <1>1, <1>2, DecidedCurrent
<1>11. Held(st)
  BY <1>4, <1>6 DEF Held, ActivePlan
<1> QED BY <1>4, <1>5, <1>7, <1>8, <1>9, <1>10, <1>11 DEF SessionInv

-----------------------------------------------------------------------------
(* What a step of one process does to the shared record and to the copies  *)

(* The step of PlanHistory that a save implements. *)
HistoryStep ==
    \/ session'.versions = session.versions /\ session'.locks = session.locks
    \/ /\ session.versions = <<>> /\ session'.locks = session.locks
       /\ \E plan \in Plan : session'.versions = <<[plan |-> plan, parent |-> 0]>>
    \/ /\ session.versions # <<>> /\ session'.versions = session.versions
       /\ \E t \in Targets :
             \/ session'.locks = [session.locks EXCEPT
                                     ![t] = Fingerprint(ActivePlan(session), t)]
             \/ /\ session.locks[t] # NoLock
                /\ session'.locks = [session.locks EXCEPT ![t] = NoLock]
    \/ /\ session.versions # <<>> /\ session'.locks = session.locks
       /\ \E v \in Version : /\ session'.versions = Append(session.versions, v)
                             /\ Agrees(v.plan, session.locks)

Writes ==
    \/ session' = session
    \/ /\ session'.revision = session.revision + 1
       /\ SessionInv(session')
       /\ session.versions # <<>> => session'.versions # <<>>
       /\ HistoryStep

(* What the node n finds in the weather fields of the graph state.         *)
WeatherFields(p, n) ==
    /\ n \in Fetched => forecast'[p] \in Forecasts
    /\ n \in Derived => event'[p] # NoEvent
    /\ \A q \in Procs \ {p} : forecast'[q] = forecast[q] /\ event'[q] = event[q]

(* The process goes to another node and has no copy of the session there.  *)
Moves(p) ==
    \E n \in Nodes :
        /\ n \in LateNodes => session.versions # <<>>
        /\ WeatherFields(p, n)
        /\ node' = [node EXCEPT ![p] = n]
        /\ phase' = [phase EXCEPT ![p] = "read"]
        /\ seen' = seen \/ seen' = [seen EXCEPT ![p] = NewSession]

LocalsOK ==
    /\ ckpt' \in Checkpoint
    /\ req' \in [Procs -> Request]
    /\ patch' \in [Procs -> Patch]
    /\ clar' \in [Procs -> Nat]
    /\ forecast' \in [Procs -> Forecasts \cup {NoForecast}]
    /\ event' \in [Procs -> EventId \cup {NoEvent}]

Effect(p) == Writes /\ Moves(p) /\ LocalsOK

(* A save that succeeds was made from the stored session.                  *)
LEMMA SaveEffect ==
    ASSUME IInv, NEW p \in Procs, phase[p] = "act", NEW new, Save(p, new)
    PROVE  /\ session = seen[p] /\ SessionInv(seen[p])
           /\ session' = [new EXCEPT !.revision = seen[p].revision + 1]
BY DEF IInv, NoLostUpdate, Save

LEMMA CommitEffect ==
    ASSUME IInv, NEW p \in Procs, phase[p] = "act", NEW new \in SessionRecord,
           Commit(p, new)
    PROVE  /\ session = seen[p] /\ SessionInv(seen[p])
           /\ session' \in SessionRecord
           /\ session'.status = new.status
           /\ session'.revision = seen[p].revision + 1
           /\ session'.versions = new.versions /\ session'.active = new.active
           /\ session'.previews = new.previews /\ session'.pending = new.pending
           /\ session'.locks = new.locks
           /\ Moves(p) /\ UNCHANGED <<ckpt, req, forecast, event>>
<1> DEFINE receipts == [seen[p].receipts EXCEPT ![req[p].id] = seen[p].revision + 1]
<1>1. session = seen[p] /\ SessionInv(seen[p])
  BY SaveEffect DEF Commit
<1>2. session' = Stored(new, receipts, seen[p].revision + 1)
  BY DEF Commit, Save, Stored
<1>3. seen[p] \in SessionRecord
  BY <1>1 DEF SessionInv
<1>4. receipts \in [Requests -> Nat] /\ seen[p].revision + 1 \in Nat
  <2>1. seen[p].receipts \in [Requests -> Nat] /\ seen[p].revision + 1 \in Nat
    BY <1>3, SessionFields
  <2> QED BY <2>1
<1> HIDE DEF receipts
<1>5. /\ session' \in SessionRecord
      /\ session'.status = new.status
      /\ session'.revision = seen[p].revision + 1
      /\ session'.versions = new.versions /\ session'.active = new.active
      /\ session'.previews = new.previews /\ session'.pending = new.pending
      /\ session'.locks = new.locks
  BY <1>2, <1>4, StoredFields
<1>6. Moves(p)
  BY DEF Commit, Goto, Moves, Nodes, LateNodes, WeatherFields, Fetched, Derived
<1> QED BY <1>1, <1>5, <1>6 DEF Commit

LEMMA TypedLocals ==
    ASSUME TypeOK, UNCHANGED <<ckpt, req, patch, clar, forecast, event>>
    PROVE  LocalsOK
BY DEF TypeOK, LocalsOK

-----------------------------------------------------------------------------
(* One lemma per action                                                    *)

LEMMA LeaveEffect ==
    ASSUME IInv, NEW p \in Procs, Leave(p), ckpt' \in Checkpoint
    PROVE  Moves(p) /\ LocalsOK
<1>1. Moves(p)
  BY DEF Leave, Moves, Nodes, LateNodes, WeatherFields, Fetched, Derived,
         IInv, TypeOK
<1>2. NoRequest \in Request /\ NoPatch \in Patch
  BY DEF NoRequest, Request, Kinds, NoPatch, Patch
<1>3. LocalsOK
  BY <1>2 DEF Leave, LocalsOK, IInv, TypeOK
<1> QED BY <1>1, <1>3

LEMMA ResumeEffect ==
    ASSUME IInv, NEW p \in Procs, NEW r \in Requests, Resume(p, r)
    PROVE  Effect(p)
<1>1. PICK kind \in ClientKinds, strict \in BOOLEAN :
          /\ req' = [req EXCEPT ![p] = [id |-> r, kind |-> kind, strict |-> strict,
                                        expected |-> session.revision]]
          /\ node' = [node EXCEPT ![p] = NodeOf(kind)]
  BY DEF Resume
<1>2. NodeOf(kind) \in Nodes \ LateNodes
  BY DEF NodeOf, Nodes, ActionNodes, LateNodes
<1>3. Moves(p)
  <2>1. Fetched \subseteq LateNodes /\ Derived \subseteq LateNodes
    BY DEF Fetched, Derived, LateNodes
  <2>2. WeatherFields(p, NodeOf(kind))
    BY <1>2, <2>1 DEF WeatherFields, Resume, IInv, TypeOK
  <2> QED BY <1>1, <1>2, <2>2 DEF Moves, Resume
<1>4. session.revision \in Nat
  BY SessionFields DEF IInv, TypeOK
<1>5. [id |-> r, kind |-> kind, strict |-> strict, expected |-> session.revision] \in Request
  BY <1>4, LifecycleAssumption DEF Request
<1>6. ckpt.patch \in Patch /\ ckpt.clar \in Nat
  BY DEF IInv, TypeOK, Checkpoint
<1>7. LocalsOK
  <2>1. req' \in [Procs -> Request]
    BY <1>1, <1>5 DEF IInv, TypeOK
  <2> QED BY <1>6, <2>1 DEF Resume, LocalsOK, IInv, TypeOK
<1> QED BY <1>3, <1>7 DEF Effect, Writes, Resume

LEMMA LeavingEffect ==
    ASSUME IInv, NEW p \in Procs, AwaitUserAction(p) \/ Raise(p) \/ Crash(p)
    PROVE  Effect(p)
<1>1. ckpt' \in Checkpoint /\ Leave(p) /\ session' = session
  BY DEF AwaitUserAction, Raise, Crash, IInv, TypeOK, Checkpoint
<1> QED BY <1>1, LeaveEffect DEF Effect, Writes

(* A status other than the first means that the stored session has a       *)
(* version.                                                                *)
LEMMA Selected ==
    ASSUME IInv, NEW p \in Procs, phase[p] = "act",
           seen[p].status # "awaiting_candidate_selection"
    PROVE  session.versions # <<>>
BY DEF IInv, CopiesInv

LEMMA SelectCandidateEffect ==
    ASSUME IInv, NEW p \in Procs, SelectCandidate(p)
    PROVE  Effect(p)
<1>1. PICK plan \in Candidates :
          Commit(p, [seen[p] EXCEPT !.versions = <<[plan |-> plan, parent |-> 0]>>,
                                    !.active = 1, !.status = "active"])
  BY DEF SelectCandidate
<1> DEFINE new == [seen[p] EXCEPT !.versions = <<[plan |-> plan, parent |-> 0]>>,
                                  !.active = 1, !.status = "active"]
<1>2. seen[p] \in SessionRecord /\ phase[p] = "act"
      /\ seen[p].status = "awaiting_candidate_selection"
  BY DEF IInv, TypeOK, SelectCandidate, At
<1>3. plan \in Plan
  BY LifecycleAssumption
<1>4. <<[plan |-> plan, parent |-> 0]>> \in Seq(Version) /\ "active" \in Statuses
  BY <1>3 DEF Version, Statuses
<1>5. /\ new \in SessionRecord /\ new.status = "active" /\ new.active = 1
      /\ new.versions = <<[plan |-> plan, parent |-> 0]>>
      /\ new.previews = seen[p].previews /\ new.locks = seen[p].locks
  BY <1>2, <1>4 DEF SessionRecord
<1> HIDE DEF new
<1>6. Commit(p, new)
  BY <1>1 DEF new
<1>7. /\ session = seen[p] /\ SessionInv(seen[p]) /\ session' \in SessionRecord
      /\ session'.status = "active" /\ session'.active = 1
      /\ session'.revision = seen[p].revision + 1
      /\ session'.versions = <<[plan |-> plan, parent |-> 0]>>
      /\ session'.previews = seen[p].previews /\ session'.locks = seen[p].locks
      /\ Moves(p) /\ UNCHANGED <<ckpt, req, forecast, event>>
  BY <1>2, <1>5, <1>6, CommitEffect
<1>8. SessionInv(session')
  BY <1>2, <1>3, <1>7, SelectInv
<1>9. session.versions = <<>>
  BY <1>2, <1>7 DEF SessionInv, Unselected
<1>10. Writes
  BY <1>3, <1>7, <1>8, <1>9 DEF Writes, HistoryStep
<1>11. LocalsOK
  BY <1>7, TypedLocals DEF SelectCandidate, IInv
<1> QED BY <1>7, <1>10, <1>11 DEF Effect

(* Commits that leave versions, previews and locks alone.                  *)
LEMMA KeepEffect ==
    ASSUME IInv, NEW p \in Procs, phase[p] = "act", session.versions # <<>>,
           NEW new \in SessionRecord, Commit(p, new),
           new.versions = seen[p].versions, new.active = seen[p].active,
           new.previews = seen[p].previews, new.locks = seen[p].locks,
           new.status \notin {"awaiting_candidate_selection",
                              "awaiting_change_approval"},
           patch' \in [Procs -> Patch], clar' \in [Procs -> Nat]
    PROVE  Effect(p)
<1>1. /\ session = seen[p] /\ SessionInv(seen[p]) /\ session' \in SessionRecord
      /\ session'.status = new.status
      /\ session'.revision = seen[p].revision + 1
      /\ session'.versions = new.versions /\ session'.active = new.active
      /\ session'.previews = new.previews /\ session'.locks = new.locks
      /\ Moves(p) /\ UNCHANGED <<ckpt, req, forecast, event>>
  BY CommitEffect
<1>2. SessionInv(session')
  BY <1>1, KeepPlanInv
<1>3. Writes
  BY <1>1, <1>2 DEF Writes, HistoryStep
<1>4. LocalsOK
  BY <1>1 DEF LocalsOK, IInv, TypeOK
<1> QED BY <1>1, <1>3, <1>4 DEF Effect

LEMMA ChangeLockEffect ==
    ASSUME IInv, NEW p \in Procs, ChangeLock(p)
    PROVE  Effect(p)
<1>1. /\ seen[p] \in SessionRecord /\ phase[p] = "act" /\ session.versions # <<>>
  BY Selected DEF IInv, TypeOK, ChangeLock, At, Open
<1>2. PICK t \in Targets :
          \/ Commit(p, [seen[p] EXCEPT
                   !.status = "active",
                   !.locks = [@ EXCEPT ![t] = Fingerprint(ActivePlan(seen[p]), t)]])
          \/ /\ seen[p].locks[t] # NoLock
             /\ Commit(p, [seen[p] EXCEPT !.status = "active",
                                          !.locks = [@ EXCEPT ![t] = NoLock]])
  BY DEF ChangeLock
<1>3. session = seen[p] /\ SessionInv(seen[p])
  <2>1. CASE Commit(p, [seen[p] EXCEPT
                   !.status = "active",
                   !.locks = [@ EXCEPT ![t] = Fingerprint(ActivePlan(seen[p]), t)]])
    BY <1>1, <2>1, SaveEffect DEF Commit
  <2>2. CASE Commit(p, [seen[p] EXCEPT !.status = "active",
                                       !.locks = [@ EXCEPT ![t] = NoLock]])
    BY <1>1, <2>2, SaveEffect DEF Commit
  <2> QED BY <1>2, <2>1, <2>2
<1>4. Fingerprint(ActivePlan(seen[p]), t) # NoLock
  <2>1. Fingerprint(ActivePlan(seen[p]), t)
            \in [Covers(ActivePlan(seen[p]), t) -> Places \cup {Absent}]
    BY <1>1, <1>3, ActivePlanType, CoversType DEF Fingerprint, Plan
  <2> QED BY <2>1, CoversType, PlacesAssumption
<1>5. PICK l \in {Fingerprint(ActivePlan(seen[p]), t), NoLock} :
          /\ l = NoLock => seen[p].locks[t] # NoLock
          /\ Commit(p, [seen[p] EXCEPT !.status = "active",
                                       !.locks = [@ EXCEPT ![t] = l]])
  BY <1>2, <1>4
<1> DEFINE locks == [seen[p].locks EXCEPT ![t] = l]
           new == [seen[p] EXCEPT !.status = "active", !.locks = locks]
<1>6. l \in Fingerprints \cup {NoLock}
  BY <1>1, <1>3, ActivePlanType, FingerprintType
<1>7. locks \in [Targets -> Fingerprints \cup {NoLock}] /\ "active" \in Statuses
  BY <1>1, <1>6, SessionFields DEF Statuses
<1>8. Commit(p, new)
  BY <1>5
<1> HIDE DEF locks
<1>9. /\ new \in SessionRecord /\ new.status = "active"
      /\ new.versions = seen[p].versions /\ new.active = seen[p].active
      /\ new.previews = seen[p].previews /\ new.locks = locks
  BY <1>1, <1>7 DEF SessionRecord
<1> HIDE DEF new
<1>10. /\ session' \in SessionRecord
      /\ session'.status = "active" /\ session'.active = seen[p].active
      /\ session'.revision = seen[p].revision + 1
      /\ session'.versions = seen[p].versions
      /\ session'.previews = seen[p].previews /\ session'.locks = locks
      /\ Moves(p) /\ UNCHANGED <<ckpt, req, forecast, event>>
  BY <1>1, <1>8, <1>9, CommitEffect
<1>11. SessionInv(session')
  BY <1>1, <1>3, <1>10, ChangeLockInv DEF locks
<1>12. Writes
  BY <1>1, <1>3, <1>5, <1>10, <1>11 DEF Writes, HistoryStep, locks
<1>13. LocalsOK
  BY <1>10, TypedLocals DEF ChangeLock, IInv
<1> QED BY <1>10, <1>12, <1>13 DEF Effect

(* Nodes that only pass the request on.                                    *)
LEMMA GotoEffect ==
    ASSUME IInv, NEW p \in Procs, session.versions # <<>>, NEW n \in Nodes,
           Goto(p, n), UNCHANGED session, LocalsOK, WeatherFields(p, n)
    PROVE  Effect(p)
BY DEF Goto, Effect, Writes, Moves

LEMMA ParseEditEffect ==
    ASSUME IInv, NEW p \in Procs, ParseEdit(p)
    PROVE  Effect(p)
<1>1. session.versions # <<>>
  BY Selected DEF ParseEdit, At, Open
<1>2. LocalsOK
  <2>1. PICK e \in EditPatches : patch' = [patch EXCEPT ![p] = e]
    BY DEF ParseEdit
  <2>2. e \in Patch
    BY LifecycleAssumption DEF Patch
  <2> QED BY <2>1, <2>2 DEF ParseEdit, LocalsOK, IInv, TypeOK
<1>3. WeatherFields(p, "analyze_change_impact")
  BY DEF ParseEdit, WeatherFields, Fetched, Derived
<1> QED BY <1>1, <1>2, <1>3, GotoEffect DEF ParseEdit, Nodes, ActionNodes

LEMMA ApplyEditClarificationEffect ==
    ASSUME IInv, NEW p \in Procs, ApplyEditClarification(p)
    PROVE  Effect(p)
<1>1. session.versions # <<>>
  BY Selected DEF ApplyEditClarification, At
<1>2. patch[p] \in Patch
  BY DEF IInv, TypeOK
<1>3. LocalsOK
  <2>1. PICK i \in Present(ActivePlan(seen[p])), left \in {patch[p].open - 1, patch[p].open} :
            patch' = [patch EXCEPT ![p] = [items |-> patch[p].items \cup {i},
                                           dates |-> patch[p].dates,
                                           open |-> left]]
    BY DEF ApplyEditClarification
  <2>2. left \in Nat
    BY <1>2 DEF ApplyEditClarification, Patch
  <2>3. [items |-> patch[p].items \cup {i}, dates |-> patch[p].dates,
         open |-> left] \in Patch
    BY <1>2, <2>2 DEF Patch, Present
  <2> QED BY <2>1, <2>3 DEF ApplyEditClarification, LocalsOK, IInv, TypeOK
<1>4. WeatherFields(p, "analyze_change_impact")
  BY DEF ApplyEditClarification, WeatherFields, Fetched, Derived
<1> QED BY <1>1, <1>3, <1>4, GotoEffect DEF ApplyEditClarification, Nodes, ActionNodes

LEMMA Late ==
    ASSUME IInv, NEW p \in Procs, node[p] \in LateNodes
    PROVE  session.versions # <<>>
BY DEF IInv, CopiesInv

LEMMA AskClarificationEffect ==
    ASSUME IInv, NEW p \in Procs, AskClarification(p)
    PROVE  Effect(p)
<1> DEFINE new == [seen[p] EXCEPT !.status = "needs_edit_clarification"]
<1>1. session.versions # <<>> /\ phase[p] = "act" /\ seen[p] \in SessionRecord
  BY Late DEF AskClarification, At, LateNodes, IInv, TypeOK
<1>2. /\ new \in SessionRecord /\ new.status = "needs_edit_clarification"
      /\ new.versions = seen[p].versions /\ new.active = seen[p].active
      /\ new.previews = seen[p].previews /\ new.locks = seen[p].locks
  BY <1>1 DEF SessionRecord, Statuses
<1>3. patch' \in [Procs -> Patch] /\ clar' \in [Procs -> Nat]
  BY DEF AskClarification, IInv, TypeOK
<1>4. Commit(p, new)
  BY DEF AskClarification
<1> HIDE DEF new
<1> QED BY <1>1, <1>2, <1>3, <1>4, KeepEffect

LEMMA RequireNewPlanEffect ==
    ASSUME IInv, NEW p \in Procs, RequireNewPlan(p)
    PROVE  Effect(p)
<1> DEFINE new == [seen[p] EXCEPT !.status = "requires_new_plan"]
<1>1. session.versions # <<>> /\ phase[p] = "act" /\ seen[p] \in SessionRecord
  BY Late DEF RequireNewPlan, Applicable, At, LateNodes, IInv, TypeOK
<1>2. /\ new \in SessionRecord /\ new.status = "requires_new_plan"
      /\ new.versions = seen[p].versions /\ new.active = seen[p].active
      /\ new.previews = seen[p].previews /\ new.locks = seen[p].locks
  BY <1>1 DEF SessionRecord, Statuses
<1>3. patch' \in [Procs -> Patch] /\ clar' \in [Procs -> Nat]
  BY DEF RequireNewPlan, IInv, TypeOK
<1>4. Commit(p, new)
  BY DEF RequireNewPlan
<1> HIDE DEF new
<1> QED BY <1>1, <1>2, <1>3, <1>4, KeepEffect

LEMMA AnalyzeChangeImpactEffect ==
    ASSUME IInv, NEW p \in Procs, AnalyzeChangeImpact(p)
    PROVE  Effect(p)
<1>1. session.versions # <<>>
  BY Late DEF AnalyzeChangeImpact, Applicable, At, LateNodes
<1>2. LocalsOK
  BY TypedLocals DEF AnalyzeChangeImpact, IInv
<1>3. WeatherFields(p, "build_preview")
  BY DEF AnalyzeChangeImpact, WeatherFields, Fetched, Derived
<1> QED BY <1>1, <1>2, <1>3, GotoEffect DEF AnalyzeChangeImpact, Nodes, ActionNodes

(* Recording a weather observation touches nothing but the weather fields. *)
LEMMA WithEventFields ==
    ASSUME NEW s \in SessionRecord, NEW e \in EventId, NEW status \in EventStatuses,
           NEW w, w = WithEvent(s, e, status)
    PROVE  /\ w \in SessionRecord
           /\ w.status = s.status /\ w.revision = s.revision
           /\ w.versions = s.versions /\ w.active = s.active
           /\ w.previews = s.previews /\ w.pending = s.pending /\ w.locks = s.locks
<1> DEFINE evs == {x \in s.events : x.id # e} \cup {[id |-> e, status |-> status]}
           att == IF status = "needs_user_attention" THEN e ELSE NoEvent
<1>1. evs \in SUBSET [id : EventId, status : EventStatuses]
  BY SessionFields
<1>2. att \in EventId \cup {NoEvent}
  OBVIOUS
<1>3. w = [s EXCEPT !.events = evs, !.attention = att]
  BY DEF WithEvent
<1> HIDE DEF evs, att
<1> QED BY <1>1, <1>2, <1>3 DEF SessionRecord

LEMMA ObservedFields ==
    ASSUME TypeOK, NEW p \in Procs, NEW s \in SessionRecord, NEW valid \in BOOLEAN,
           NEW w, w = Observed(p, s, valid)
    PROVE  /\ w \in SessionRecord
           /\ w.status = s.status /\ w.revision = s.revision
           /\ w.versions = s.versions /\ w.active = s.active
           /\ w.previews = s.previews /\ w.pending = s.pending /\ w.locks = s.locks
<1>1. CASE event[p] = NoEvent
  BY <1>1 DEF Observed
<1>2. CASE event[p] # NoEvent
  <2> DEFINE s1 == [s EXCEPT !.snapshot = forecast[p]]
             status == IF valid THEN "preview_created" ELSE "needs_user_attention"
  <2>1. event[p] \in EventId /\ forecast[p] \in Forecasts \cup {NoForecast}
    BY <1>2 DEF TypeOK
  <2>2. status \in EventStatuses
    BY DEF EventStatuses
  <2>3. /\ s1 \in SessionRecord
        /\ s1.status = s.status /\ s1.revision = s.revision
        /\ s1.versions = s.versions /\ s1.active = s.active
        /\ s1.previews = s.previews /\ s1.pending = s.pending /\ s1.locks = s.locks
    BY <2>1 DEF SessionRecord
  <2>4. w = WithEvent(s1, event[p], status)
    BY <1>2 DEF Observed
  <2> HIDE DEF s1, status
  <2> QED BY <2>1, <2>2, <2>3, <2>4, WithEventFields
<1> QED BY <1>1, <1>2

LEMMA BuildPreviewEffect ==
    ASSUME IInv, NEW p \in Procs, BuildPreview(p)
    PROVE  Effect(p)
<1>1. PICK plan \in Plan, valid \in BOOLEAN :
          /\ GuardsPass(p, plan)
          /\ Commit(p, [Observed(p, seen[p], valid) EXCEPT
                !.previews = Append(@, NewPreview(p, plan, valid)),
                !.pending = PreviewId(seen[p]),
                !.status = IF valid THEN "awaiting_change_approval"
                                    ELSE "change_rejected"])
  BY DEF BuildPreview
<1> DEFINE w == Observed(p, seen[p], valid)
           v == NewPreview(p, plan, valid)
           previews == Append(w.previews, v)
           pending == PreviewId(seen[p])
           status == IF valid THEN "awaiting_change_approval" ELSE "change_rejected"
           new == [w EXCEPT !.previews = previews, !.pending = pending,
                            !.status = status]
<1>2. /\ session.versions # <<>> /\ phase[p] = "act" /\ seen[p] \in SessionRecord
      /\ event[p] \in EventId \cup {NoEvent}
  BY Late DEF BuildPreview, At, LateNodes, IInv, TypeOK
<1>3. /\ w \in SessionRecord
      /\ w.versions = seen[p].versions /\ w.active = seen[p].active
      /\ w.previews = seen[p].previews /\ w.locks = seen[p].locks
  BY <1>2, ObservedFields DEF IInv
<1>4. /\ v \in Preview /\ v.status \in {"pending", "invalid"}
      /\ valid => v.status = "pending"
      /\ v.base = seen[p].active /\ v.baseRevision = seen[p].revision + 1
      /\ v.plan = plan
  BY <1>2, SessionFields DEF NewPreview, Preview, PreviewStatuses
<1>5. Commit(p, new)
  BY <1>1
<1> HIDE DEF w, v
<1>6. previews \in Seq(Preview) /\ pending \in Nat /\ status \in Statuses
  BY <1>2, <1>3, <1>4, SessionFields DEF PreviewId, Statuses
<1>7. pending = Len(seen[p].previews) + 1 /\ previews = Append(seen[p].previews, v)
  BY <1>3 DEF PreviewId
<1>8. status = "awaiting_change_approval" \/ (status = "change_rejected" /\ ~valid)
  OBVIOUS
<1>9. status = "awaiting_change_approval" => valid
  OBVIOUS
<1> HIDE DEF previews, pending, status
<1>10. /\ new \in SessionRecord /\ new.previews = previews /\ new.pending = pending
       /\ new.status = status /\ new.versions = seen[p].versions
       /\ new.active = seen[p].active /\ new.locks = seen[p].locks
  BY <1>3, <1>6 DEF SessionRecord
<1> HIDE DEF new
<1>11. /\ session = seen[p] /\ SessionInv(seen[p]) /\ session' \in SessionRecord
       /\ session'.status = status /\ session'.revision = seen[p].revision + 1
       /\ session'.versions = seen[p].versions /\ session'.active = seen[p].active
       /\ session'.previews = previews /\ session'.pending = pending
       /\ session'.locks = seen[p].locks
       /\ Moves(p) /\ UNCHANGED <<ckpt, req, forecast, event>>
  BY <1>2, <1>5, <1>10, CommitEffect
<1>12. Agrees(v.plan, seen[p].locks)
  BY <1>1, <1>4 DEF GuardsPass
<1>13. SessionInv(session')
  BY <1>2, <1>4, <1>7, <1>8, <1>9, <1>11, <1>12, NewPreviewInv
<1>14. Writes
  BY <1>11, <1>13 DEF Writes, HistoryStep
<1>15. LocalsOK
  BY <1>11, TypedLocals DEF BuildPreview, IInv
<1> QED BY <1>11, <1>14, <1>15 DEF Effect

(* The receipts of the events stay receipts of events.                     *)
LEMMA ResolveEventType ==
    ASSUME NEW s \in SessionRecord, NEW e, NEW status \in EventStatuses
    PROVE  ResolveEvent(s.events, e, status) \in
               SUBSET [id : EventId, status : EventStatuses]
<1>1. s.events \in SUBSET [id : EventId, status : EventStatuses]
  BY SessionFields
<1>2. ASSUME NEW x \in s.events
      PROVE  (IF x.id = e THEN [id |-> e, status |-> status] ELSE x)
                 \in [id : EventId, status : EventStatuses]
  BY <1>1
<1> QED BY <1>2 DEF ResolveEvent

LEMMA RejectPreviewEffect ==
    ASSUME IInv, NEW p \in Procs, RejectPreview(p)
    PROVE  Effect(p)
<1> DEFINE k == seen[p].pending
           previews == Decide(seen[p].previews, k, "rejected")
           events == ResolveEvent(seen[p].events, seen[p].previews[k].event, "rejected")
           new == [seen[p] EXCEPT !.previews = previews, !.events = events,
                                  !.status = "active"]
<1>1. /\ phase[p] = "act" /\ seen[p] \in SessionRecord
      /\ seen[p].status = "awaiting_change_approval"
  BY DEF RejectPreview, At, AwaitingApproval, IInv, TypeOK
<1>2. Commit(p, new)
  BY DEF RejectPreview
<1>3. session = seen[p] /\ SessionInv(seen[p])
  BY <1>1, <1>2, SaveEffect DEF Commit
<1>4. k \in 1 .. Len(seen[p].previews)
  BY <1>1, <1>3 DEF SessionInv, HasPreview
<1>5. previews \in Seq(Preview)
  BY <1>1, <1>4, DecideFields DEF PreviewStatuses
<1>6. events \in SUBSET [id : EventId, status : EventStatuses] /\ "active" \in Statuses
  BY <1>1, ResolveEventType DEF EventStatuses, Statuses
<1> HIDE DEF previews, events
<1>7. /\ new \in SessionRecord /\ new.previews = previews /\ new.status = "active"
      /\ new.versions = seen[p].versions /\ new.active = seen[p].active
      /\ new.locks = seen[p].locks
  BY <1>1, <1>5, <1>6 DEF SessionRecord
<1> HIDE DEF new
<1>8. /\ session' \in SessionRecord
      /\ session'.status = "active" /\ session'.revision = seen[p].revision + 1
      /\ session'.versions = seen[p].versions /\ session'.active = seen[p].active
      /\ session'.previews = previews /\ session'.locks = seen[p].locks
      /\ Moves(p) /\ UNCHANGED <<ckpt, req, forecast, event>>
  BY <1>1, <1>2, <1>7, CommitEffect
<1>9. SessionInv(session')
  BY <1>1, <1>3, <1>8, RejectInv DEF previews
<1>10. Writes
  BY <1>3, <1>8, <1>9 DEF Writes, HistoryStep
<1>11. LocalsOK
  BY <1>8, TypedLocals DEF RejectPreview, IInv
<1> QED BY <1>8, <1>10, <1>11 DEF Effect

LEMMA ApprovePreviewEffect ==
    ASSUME IInv, NEW p \in Procs, ApprovePreview(p)
    PROVE  Effect(p)
<1> DEFINE k == seen[p].pending
           v == [plan |-> seen[p].previews[k].plan, parent |-> seen[p].previews[k].base]
           versions == Append(seen[p].versions, v)
           active == Len(seen[p].versions) + 1
           previews == Decide(seen[p].previews, k, "approved")
           events == ResolveEvent(seen[p].events, seen[p].previews[k].event, "approved")
           new == [seen[p] EXCEPT !.versions = versions, !.active = active,
                                  !.previews = previews, !.events = events,
                                  !.status = "active"]
<1>1. /\ phase[p] = "act" /\ seen[p] \in SessionRecord /\ Fresh(seen[p])
      /\ seen[p].status = "awaiting_change_approval"
  BY DEF ApprovePreview, At, AwaitingApproval, IInv, TypeOK
<1>2. Commit(p, new)
  BY DEF ApprovePreview
<1>3. session = seen[p] /\ SessionInv(seen[p])
  BY <1>1, <1>2, SaveEffect DEF Commit
<1>4. k \in 1 .. Len(seen[p].previews)
  BY <1>1, <1>3 DEF SessionInv, HasPreview
<1>5. previews \in Seq(Preview)
  BY <1>1, <1>4, DecideFields DEF PreviewStatuses
<1>6. events \in SUBSET [id : EventId, status : EventStatuses] /\ "active" \in Statuses
  BY <1>1, ResolveEventType DEF EventStatuses, Statuses
<1>7. v \in Version
  BY <1>1, <1>4, PreviewFields DEF Version
<1> HIDE DEF previews, events, v
<1>8. versions \in Seq(Version) /\ active \in Nat
  BY <1>1, <1>7, SessionFields
<1> HIDE DEF versions, active
<1>9. /\ new \in SessionRecord /\ new.previews = previews /\ new.status = "active"
      /\ new.versions = versions /\ new.active = active
      /\ new.locks = seen[p].locks
  BY <1>1, <1>5, <1>6, <1>8 DEF SessionRecord
<1> HIDE DEF new
<1>10. /\ session' \in SessionRecord
       /\ session'.status = "active" /\ session'.revision = seen[p].revision + 1
       /\ session'.versions = versions /\ session'.active = active
       /\ session'.previews = previews /\ session'.locks = seen[p].locks
       /\ Moves(p) /\ UNCHANGED <<ckpt, req, forecast, event>>
  BY <1>1, <1>2, <1>9, CommitEffect
<1>11. SessionInv(session') /\ Agrees(v.plan, seen[p].locks)
  BY <1>1, <1>3, <1>10, ApproveInv DEF previews, versions, active, v
<1>12. seen[p].versions # <<>>
  BY <1>1, <1>3 DEF SessionInv, Unselected
<1>13. session'.versions # <<>>
  BY <1>8, <1>10, <1>1, <1>7, SessionFields DEF versions
<1>14. Writes
  BY <1>3, <1>7, <1>10, <1>11, <1>12, <1>13 DEF Writes, HistoryStep, versions
<1>15. LocalsOK
  BY <1>10, TypedLocals DEF ApprovePreview, IInv
<1> QED BY <1>10, <1>14, <1>15 DEF Effect

LEMMA ResolveWeatherLocationEffect ==
    ASSUME IInv, NEW p \in Procs, ResolveWeatherLocation(p)
    PROVE  Effect(p)
<1>1. session.versions # <<>>
  BY Selected DEF ResolveWeatherLocation, At, Open
<1>2. LocalsOK
  BY TypedLocals DEF ResolveWeatherLocation, IInv
<1>3. WeatherFields(p, "fetch_weather_snapshot")
  BY DEF ResolveWeatherLocation, WeatherFields, Fetched, Derived
<1> QED BY <1>1, <1>2, <1>3, GotoEffect DEF ResolveWeatherLocation, Nodes, ActionNodes

LEMMA FetchWeatherSnapshotEffect ==
    ASSUME IInv, NEW p \in Procs, FetchWeatherSnapshot(p)
    PROVE  Effect(p)
<1>1. session.versions # <<>>
  BY Late DEF FetchWeatherSnapshot, At, LateNodes
<1>2. LocalsOK
  BY DEF FetchWeatherSnapshot, LocalsOK, IInv, TypeOK
<1>3. WeatherFields(p, "derive_weather_event")
  BY DEF FetchWeatherSnapshot, WeatherFields, Fetched, Derived, IInv, TypeOK
<1> QED BY <1>1, <1>2, <1>3, GotoEffect DEF FetchWeatherSnapshot, Nodes, ActionNodes

LEMMA WeatherFailureEffect ==
    ASSUME IInv, NEW p \in Procs, WeatherFailure(p)
    PROVE  Effect(p)
<1>1. session.versions # <<>> /\ phase[p] = "act"
  <2>1. CASE At(p, "resolve_weather_location") /\ seen[p].status \in Open
    BY <2>1, Selected DEF At, Open
  <2>2. CASE At(p, "fetch_weather_snapshot")
    BY <2>2, Late DEF At, LateNodes
  <2> QED BY <2>1, <2>2 DEF WeatherFailure
<1>2. /\ session = seen[p] /\ SessionInv(seen[p])
      /\ session' = [seen[p] EXCEPT !.revision = seen[p].revision + 1]
  BY <1>1, SaveEffect DEF WeatherFailure
<1>3. seen[p] \in SessionRecord /\ seen[p].revision + 1 \in Nat
  BY <1>2, SessionFields DEF SessionInv
<1>4. /\ session' \in SessionRecord
      /\ session'.status = seen[p].status /\ session'.revision = seen[p].revision + 1
      /\ session'.versions = seen[p].versions /\ session'.active = seen[p].active
      /\ session'.previews = seen[p].previews /\ session'.pending = seen[p].pending
      /\ session'.locks = seen[p].locks
  BY <1>2, <1>3 DEF SessionRecord
<1>5. seen[p].status # "awaiting_candidate_selection"
  BY <1>1, <1>2 DEF SessionInv, Unselected
<1>6. SessionInv(session')
  BY <1>1, <1>2, <1>4, <1>5, KeepPlanInv
<1>7. Writes
  BY <1>1, <1>2, <1>4, <1>6 DEF Writes, HistoryStep
<1>8. Moves(p) /\ LocalsOK
  BY LeaveEffect DEF WeatherFailure, IInv, TypeOK
<1> QED BY <1>7, <1>8 DEF Effect

LEMMA Forecasted ==
    ASSUME IInv, NEW p \in Procs, node[p] \in Fetched
    PROVE  /\ forecast[p] \in Forecasts
           /\ session.versions # <<>>
           /\ node[p] \in Derived => event[p] \in EventId
BY DEF IInv, WeatherInv, TypeOK, CopiesInv, Fetched, Derived, LateNodes

LEMMA DeriveWeatherEventEffect ==
    ASSUME IInv, NEW p \in Procs, DeriveWeatherEvent(p)
    PROVE  Effect(p)
<1>1. /\ session.versions # <<>> /\ seen[p] \in SessionRecord
      /\ forecast[p] \in Forecasts
  BY Forecasted DEF DeriveWeatherEvent, At, Fetched, IInv, TypeOK
<1>2. ChangeEvent(seen[p], forecast[p]) \in EventId \cup {NoEvent}
  BY <1>1, SessionFields DEF ChangeEvent, EventId
<1>3. LocalsOK
  BY <1>2 DEF DeriveWeatherEvent, LocalsOK, IInv, TypeOK
<1>4. WeatherFields(p, "deduplicate_weather_event")
  BY <1>1 DEF DeriveWeatherEvent, WeatherFields, Derived, IInv, TypeOK
<1> QED BY <1>1, <1>3, <1>4, GotoEffect DEF DeriveWeatherEvent, Nodes, ActionNodes

LEMMA WeatherTerminalEffect ==
    ASSUME IInv, NEW p \in Procs, phase[p] = "act", node[p] \in Fetched,
           NEW s \in SessionRecord,
           s.versions = seen[p].versions, s.active = seen[p].active,
           s.previews = seen[p].previews, s.locks = seen[p].locks,
           WeatherTerminal(p, s)
    PROVE  Effect(p)
<1> DEFINE new == [s EXCEPT !.snapshot = forecast[p], !.status = "active"]
<1>1. session.versions # <<>> /\ forecast[p] \in Forecasts
  BY Forecasted
<1>2. /\ new \in SessionRecord /\ new.status = "active"
      /\ new.versions = s.versions /\ new.active = s.active
      /\ new.previews = s.previews /\ new.locks = s.locks
  BY <1>1 DEF SessionRecord, Statuses
<1>3. patch' \in [Procs -> Patch] /\ clar' \in [Procs -> Nat]
  BY DEF WeatherTerminal, IInv, TypeOK
<1>4. Commit(p, new)
  BY DEF WeatherTerminal
<1> HIDE DEF new
<1> QED BY <1>1, <1>2, <1>3, <1>4, KeepEffect

LEMMA WeatherEventEffect ==
    ASSUME IInv, NEW p \in Procs, phase[p] = "act", node[p] \in Fetched,
           event[p] # NoEvent, NEW status \in EventStatuses,
           WeatherTerminal(p, WithEvent(seen[p], event[p], status))
    PROVE  Effect(p)
<1> DEFINE w == WithEvent(seen[p], event[p], status)
<1>1. seen[p] \in SessionRecord /\ event[p] \in EventId
  BY DEF IInv, TypeOK
<1>2. /\ w \in SessionRecord
      /\ w.versions = seen[p].versions /\ w.active = seen[p].active
      /\ w.previews = seen[p].previews /\ w.locks = seen[p].locks
  BY <1>1, WithEventFields
<1>3. WeatherTerminal(p, w)
  OBVIOUS
<1> HIDE DEF w
<1> QED BY <1>2, <1>3, WeatherTerminalEffect

LEMMA DeduplicateWeatherEventEffect ==
    ASSUME IInv, NEW p \in Procs, DeduplicateWeatherEvent(p)
    PROVE  Effect(p)
<1>1. phase[p] = "act" /\ node[p] \in Fetched /\ seen[p] \in SessionRecord
  BY DEF DeduplicateWeatherEvent, At, Fetched, IInv, TypeOK
<1>2. CASE WeatherTerminal(p, seen[p])
  BY <1>1, <1>2, WeatherTerminalEffect
<1>3. CASE /\ event[p] # NoEvent
           /\ WeatherTerminal(p, WithEvent(seen[p], event[p], "no_plan_impact"))
  BY <1>1, <1>3, WeatherEventEffect DEF EventStatuses
<1>4. CASE /\ event[p] # NoEvent
           /\ Goto(p, "analyze_weather_impact")
           /\ UNCHANGED <<session, ckpt, req, patch, clar, forecast, event>>
  <2>1. session.versions # <<>> /\ forecast[p] \in Forecasts
    BY <1>1, Forecasted
  <2>2. LocalsOK
    BY <1>4, TypedLocals DEF IInv
  <2>3. WeatherFields(p, "analyze_weather_impact")
    BY <1>4, <2>1 DEF WeatherFields
  <2> QED BY <1>4, <2>1, <2>2, <2>3, GotoEffect DEF Nodes, ActionNodes
<1> QED BY <1>2, <1>3, <1>4 DEF DeduplicateWeatherEvent

LEMMA AnalyzeWeatherImpactEffect ==
    ASSUME IInv, NEW p \in Procs, AnalyzeWeatherImpact(p)
    PROVE  Effect(p)
<1>1. /\ phase[p] = "act" /\ node[p] \in Fetched /\ event[p] # NoEvent
      /\ session.versions # <<>> /\ forecast[p] \in Forecasts
  BY Forecasted DEF AnalyzeWeatherImpact, At, Fetched, Derived, IInv, WeatherInv
<1>2. CASE \E status \in {"no_plan_impact", "needs_user_attention"} :
              WeatherTerminal(p, WithEvent(seen[p], event[p], status))
  BY <1>1, <1>2, WeatherEventEffect DEF EventStatuses
<1>3. CASE /\ Goto(p, "build_weather_repair")
           /\ UNCHANGED <<session, ckpt, req, patch, clar, forecast, event>>
  <2>1. LocalsOK
    BY <1>3, TypedLocals DEF IInv
  <2>2. WeatherFields(p, "build_weather_repair")
    BY <1>1, <1>3 DEF WeatherFields
  <2> QED BY <1>1, <1>3, <2>1, <2>2, GotoEffect DEF Nodes, ActionNodes
<1> QED BY <1>2, <1>3 DEF AnalyzeWeatherImpact

LEMMA BuildWeatherRepairEffect ==
    ASSUME IInv, NEW p \in Procs, BuildWeatherRepair(p)
    PROVE  Effect(p)
<1>1. /\ phase[p] = "act" /\ node[p] \in Fetched /\ event[p] # NoEvent
      /\ session.versions # <<>>
  BY Forecasted DEF BuildWeatherRepair, At, Fetched, Derived, IInv, WeatherInv
<1>2. CASE WeatherTerminal(p, WithEvent(seen[p], event[p], "needs_user_attention"))
  BY <1>1, <1>2, WeatherEventEffect DEF EventStatuses
<1>3. CASE /\ \E e \in EditPatches : e.open = 0 /\ patch' = [patch EXCEPT ![p] = e]
           /\ Goto(p, "analyze_change_impact")
           /\ UNCHANGED <<session, ckpt, req, clar, forecast, event>>
  <2>1. LocalsOK
    <3>1. PICK e \in EditPatches : patch' = [patch EXCEPT ![p] = e]
      BY <1>3
    <3>2. e \in Patch
      BY LifecycleAssumption DEF Patch
    <3> QED BY <1>3, <3>1, <3>2 DEF LocalsOK, IInv, TypeOK
  <2>2. WeatherFields(p, "analyze_change_impact")
    BY <1>3 DEF WeatherFields, Fetched, Derived
  <2> QED BY <1>1, <1>3, <2>1, <2>2, GotoEffect DEF Nodes, ActionNodes
<1> QED BY <1>2, <1>3 DEF BuildWeatherRepair

LEMMA DismissWeatherEventEffect ==
    ASSUME IInv, NEW p \in Procs, DismissWeatherEvent(p)
    PROVE  Effect(p)
<1>1. PICK x \in seen[p].events :
          Commit(p, [seen[p] EXCEPT
                !.events = ResolveEvent(@, x.id, "dismissed"),
                !.attention = NoEvent, !.status = "active"])
  BY DEF DismissWeatherEvent
<1> DEFINE events == ResolveEvent(seen[p].events, x.id, "dismissed")
           new == [seen[p] EXCEPT !.events = events, !.attention = NoEvent,
                                  !.status = "active"]
<1>2. phase[p] = "act" /\ seen[p] \in SessionRecord
  BY DEF DismissWeatherEvent, At, IInv, TypeOK
<1>3. Commit(p, new)
  BY <1>1
<1>4. session = seen[p] /\ SessionInv(seen[p])
  BY <1>2, <1>3, SaveEffect DEF Commit
<1>5. session.versions # <<>>
  BY <1>4 DEF SessionInv, Unselected
<1>6. events \in SUBSET [id : EventId, status : EventStatuses]
  BY <1>2, ResolveEventType DEF EventStatuses
<1> HIDE DEF events
<1>7. /\ new \in SessionRecord /\ new.status = "active"
      /\ new.versions = seen[p].versions /\ new.active = seen[p].active
      /\ new.previews = seen[p].previews /\ new.locks = seen[p].locks
  BY <1>2, <1>6 DEF SessionRecord, Statuses
<1>8. patch' \in [Procs -> Patch] /\ clar' \in [Procs -> Nat]
  BY DEF DismissWeatherEvent, IInv, TypeOK
<1> HIDE DEF new
<1> QED BY <1>2, <1>3, <1>5, <1>7, <1>8, KeepEffect

-----------------------------------------------------------------------------
(* The invariant is inductive                                              *)

LEMMA InitIInv == Init => IInv
<1> SUFFICES ASSUME Init PROVE IInv
  OBVIOUS
<1>1. NoRequest \in Request /\ NoPatch \in Patch
  BY DEF NoRequest, Request, Kinds, NoPatch, Patch
<1>2. PICK p \in Procs :
          node = [q \in Procs |-> IF q = p THEN "await_user_action" ELSE "idle"]
  BY DEF Init
<1>3. TypeOK
  BY <1>1, <1>2, NewSessionType DEF Init, TypeOK, Checkpoint, Nodes
<1>4. SessionInv(session)
  BY NewSessionInv DEF Init
<1>5. NoLostUpdate
  BY DEF Init, NoLostUpdate
<1>6. CopiesInv /\ WeatherInv
  BY <1>2 DEF Init, CopiesInv, WeatherInv, LateNodes, Fetched, Derived
<1> QED BY <1>3, <1>4, <1>5, <1>6 DEF IInv

LEMMA EffectKeepsIInv ==
    ASSUME IInv, NEW p \in Procs, Effect(p)
    PROVE  IInv'
<1>1. PICK n \in Nodes :
        /\ n \in LateNodes => session.versions # <<>>
        /\ WeatherFields(p, n)
        /\ node' = [node EXCEPT ![p] = n]
        /\ phase' = [phase EXCEPT ![p] = "read"]
        /\ seen' = seen \/ seen' = [seen EXCEPT ![p] = NewSession]
  BY DEF Effect, Moves
<1>2. TypeOK /\ SessionInv(session)
  BY DEF IInv
<1>3. SessionInv(session')
  BY <1>2 DEF Effect, Writes
<1>4. session.versions # <<>> => session'.versions # <<>>
  BY DEF Effect, Writes
<1>5. session' = session \/ session'.revision = session.revision + 1
  BY DEF Effect, Writes
<1>6. session.revision \in Nat
  BY <1>2, SessionFields DEF SessionInv
<1>7. /\ node' \in [Procs -> Nodes] /\ phase' \in [Procs -> {"read", "act"}]
      /\ seen' \in [Procs -> SessionRecord]
  BY <1>1, <1>2, NewSessionType DEF TypeOK
<1>8. TypeOK'
  BY <1>3, <1>7 DEF TypeOK, Effect, LocalsOK, SessionInv
<1>9. phase'[p] = "read" /\ node'[p] = n
  BY <1>1, <1>2 DEF TypeOK
<1>10. \A q \in Procs \ {p} : /\ phase'[q] = phase[q] /\ node'[q] = node[q]
                              /\ seen'[q] = seen[q]
  BY <1>1, <1>2 DEF TypeOK
<1>11. NoLostUpdate'
  <2>1. ASSUME NEW q \in Procs, phase'[q] = "act"
        PROVE  /\ seen'[q].revision <= session'.revision
               /\ seen'[q].revision = session'.revision => seen'[q] = session'
    <3>1. q # p /\ phase[q] = "act" /\ seen'[q] = seen[q]
      BY <1>9, <1>10, <2>1
    <3>2. /\ seen[q].revision <= session.revision
          /\ seen[q].revision = session.revision => seen[q] = session
      BY <3>1 DEF IInv, NoLostUpdate
    <3>3. seen[q].revision \in Nat
      BY <1>2, SessionFields DEF TypeOK
    <3> QED BY <1>5, <1>6, <3>1, <3>2, <3>3
  <2> QED BY <2>1 DEF NoLostUpdate
<1>12. CopiesInv'
  <2>1. ASSUME NEW q \in Procs, q # p
        PROVE  /\ node'[q] \in LateNodes => session'.versions # <<>>
               /\ phase'[q] = "act" /\ seen'[q].status # "awaiting_candidate_selection"
                     => session'.versions # <<>>
    BY <1>4, <1>10, <2>1 DEF IInv, CopiesInv
  <2> QED BY <1>1, <1>4, <1>9, <2>1 DEF CopiesInv
<1>13. WeatherInv'
  <2>1. ASSUME NEW q \in Procs, q # p
        PROVE  /\ node'[q] \in Fetched => forecast'[q] \in Forecasts
               /\ node'[q] \in Derived => event'[q] # NoEvent
    BY <1>1, <1>10, <2>1 DEF IInv, WeatherInv, WeatherFields
  <2> QED BY <1>1, <1>9, <2>1 DEF WeatherInv, WeatherFields
<1> QED BY <1>3, <1>8, <1>11, <1>12, <1>13 DEF IInv

LEMMA ReadKeepsIInv ==
    ASSUME IInv, NEW p \in Procs, ReadSession(p)
    PROVE  IInv'
<1>1. TypeOK /\ SessionInv(session)
  BY DEF IInv
<1>2. TypeOK'
  <2>1. ckpt' \in Checkpoint
    BY <1>1 DEF ReadSession, TypeOK, Checkpoint
  <2> QED BY <1>1, <2>1 DEF ReadSession, TypeOK
<1>3. SessionInv(session') /\ session' = session
  BY <1>1 DEF ReadSession
<1>4. /\ seen'[p] = session
      /\ \A q \in Procs \ {p} : phase'[q] = phase[q] /\ seen'[q] = seen[q]
  BY <1>1 DEF ReadSession, TypeOK
<1>5. NoLostUpdate'
  <2>1. session.revision \in Nat
    BY <1>1, SessionFields DEF SessionInv
  <2>2. \A q \in Procs \ {p} : phase'[q] = "act" =>
            /\ seen'[q].revision <= session'.revision
            /\ seen'[q].revision = session'.revision => seen'[q] = session'
    BY <1>3, <1>4 DEF IInv, NoLostUpdate
  <2> QED BY <1>3, <1>4, <2>1, <2>2 DEF NoLostUpdate
<1>6. CopiesInv'
  <2>1. \A q \in Procs \ {p} : phase'[q] = "act" =>
            (seen'[q].status # "awaiting_candidate_selection" => session'.versions # <<>>)
    BY <1>3, <1>4 DEF IInv, CopiesInv
  <2>2. seen'[p].status # "awaiting_candidate_selection" => session'.versions # <<>>
    BY <1>1, <1>3, <1>4 DEF SessionInv, Unselected
  <2> QED BY <1>3, <2>1, <2>2 DEF IInv, CopiesInv, ReadSession
<1>7. WeatherInv'
  BY DEF IInv, WeatherInv, ReadSession
<1> QED BY <1>2, <1>3, <1>5, <1>6, <1>7 DEF IInv

(* Every step but a read has the effect the lemmas describe.               *)
LEMMA StepEffect ==
    ASSUME IInv, Next
    PROVE  \E p \in Procs : ReadSession(p) \/ Effect(p)
<1>1. PICK p \in Procs : Step(p) \/ Crash(p) \/ \E r \in Requests : Resume(p, r)
  BY DEF Next
<1>2. CASE \E r \in Requests : Resume(p, r)
  BY <1>2, ResumeEffect
<1>3. CASE AwaitUserAction(p) \/ Raise(p) \/ Crash(p)
  BY <1>3, LeavingEffect
<1>4. CASE SelectCandidate(p) \/ ChangeLock(p)
  BY <1>4, SelectCandidateEffect, ChangeLockEffect
<1>5. CASE \/ ParseEdit(p) \/ ApplyEditClarification(p) \/ AskClarification(p)
           \/ RequireNewPlan(p) \/ AnalyzeChangeImpact(p)
  BY <1>5, ParseEditEffect, ApplyEditClarificationEffect, AskClarificationEffect,
     RequireNewPlanEffect, AnalyzeChangeImpactEffect
<1>6. CASE BuildPreview(p) \/ RejectPreview(p) \/ ApprovePreview(p)
  BY <1>6, BuildPreviewEffect, RejectPreviewEffect, ApprovePreviewEffect
<1>7. CASE \/ ResolveWeatherLocation(p) \/ FetchWeatherSnapshot(p)
           \/ WeatherFailure(p) \/ DeriveWeatherEvent(p)
  BY <1>7, ResolveWeatherLocationEffect, FetchWeatherSnapshotEffect,
     WeatherFailureEffect, DeriveWeatherEventEffect
<1>8. CASE \/ DeduplicateWeatherEvent(p) \/ AnalyzeWeatherImpact(p)
           \/ BuildWeatherRepair(p) \/ DismissWeatherEvent(p)
  BY <1>8, DeduplicateWeatherEventEffect, AnalyzeWeatherImpactEffect,
     BuildWeatherRepairEffect, DismissWeatherEventEffect
<1> QED BY <1>1, <1>2, <1>3, <1>4, <1>5, <1>6, <1>7, <1>8 DEF Step

LEMMA NextIInv == IInv /\ [Next]_vars => IInv'
<1>1. ASSUME IInv, Next PROVE IInv'
  BY <1>1, StepEffect, ReadKeepsIInv, EffectKeepsIInv
<1>2. ASSUME IInv, UNCHANGED vars PROVE IInv'
  BY <1>2 DEF vars, IInv, TypeOK, NoLostUpdate, CopiesInv, WeatherInv
<1> QED BY <1>1, <1>2

(* The inductive invariant holds in every reachable state, for any number  *)
(* of processes, items, days and requests and whatever crashes.            *)
THEOREM Invariance == Spec => []IInv
BY InitIInv, NextIInv, PTL DEF Spec

(* Type correctness of the repository record, checkpoint and resumes.      *)
THEOREM TypeCorrectness == Spec => []TypeOK
<1>1. IInv => TypeOK
  BY DEF IInv
<1> QED BY <1>1, Invariance, PTL

(* session_revision alone protects the whole record: two API processes     *)
(* never overwrite one another's save.                                     *)
THEOREM NoUpdateIsLost == Spec => []NoLostUpdate
<1>1. IInv => NoLostUpdate
  BY DEF IInv
<1> QED BY <1>1, Invariance, PTL

(* Versions form one line of descent, each approved exactly once.          *)
THEOREM HistoryIsLinear == Spec => []LinearHistory
<1>1. IInv => LinearHistory
  BY DEF IInv, SessionInv, Linear, ApprovedOnce, LinearHistory
<1> QED BY <1>1, Invariance, PTL

(* No locked item or day differs from what its lock recorded.              *)
THEOREM LocksAreHeld == Spec => []LocksHeld
<1>1. IInv => LocksHeld
  BY DEF IInv, SessionInv, Held, LocksHeld
<1> QED BY <1>1, Invariance, PTL

(* A session that waits for approval has an undecided preview over the     *)
(* active version.                                                         *)
THEOREM ApprovalsHavePreviews == Spec => []ApprovalHasPreview
<1>1. IInv => ApprovalHasPreview
  BY DEF IInv, SessionInv, HasPreview, ApprovalHasPreview
<1> QED BY <1>1, Invariance, PTL

(* Nothing moves under a preview without the revision showing it.          *)
THEOREM PreviewsAreCurrent == Spec => []PreviewsCurrent
<1>1. IInv => PreviewsCurrent
  BY DEF IInv, SessionInv, Current, PreviewsCurrent
<1> QED BY <1>1, Invariance, PTL

-----------------------------------------------------------------------------
(* The session implements a plan history                                   *)

Plans(vs) == [n \in 1 .. Len(vs) |-> vs[n].plan]

LEMMA PlansOfVersions ==
    ASSUME NEW vs \in Seq(Version)
    PROVE  /\ Plans(vs) \in Seq(Plan) /\ Len(Plans(vs)) = Len(vs)
           /\ Plans(vs) = <<>> <=> vs = <<>>
<1>1. \A n \in 1 .. Len(vs) : vs[n].plan \in Plan
  <2>1. \A n \in 1 .. Len(vs) : vs[n] \in Version
    OBVIOUS
  <2> QED BY <2>1 DEF Version
<1>2. Plans(vs) \in Seq(Plan) /\ Len(Plans(vs)) = Len(vs)
  BY <1>1 DEF Plans
<1>3. Plans(vs) = <<>> <=> vs = <<>>
  BY <1>2
<1> QED BY <1>2, <1>3

LEMMA PlansOfAppend ==
    ASSUME NEW vs \in Seq(Version), NEW v \in Version
    PROVE  Plans(Append(vs, v)) = Append(Plans(vs), v.plan)
<1> DEFINE ws == Append(vs, v)
<1>1. /\ ws \in Seq(Version) /\ Len(ws) = Len(vs) + 1 /\ ws[Len(vs) + 1] = v
      /\ \A n \in 1 .. Len(vs) : ws[n] = vs[n]
  OBVIOUS
<1>2. v.plan \in Plan
  BY DEF Version
<1>3. /\ Plans(ws) \in Seq(Plan) /\ Plans(vs) \in Seq(Plan)
      /\ Len(Plans(ws)) = Len(vs) + 1 /\ Len(Plans(vs)) = Len(vs)
  BY <1>1, PlansOfVersions
<1>4. /\ Append(Plans(vs), v.plan) \in Seq(Plan)
      /\ Len(Append(Plans(vs), v.plan)) = Len(vs) + 1
  BY <1>2, <1>3
<1>5. ASSUME NEW n \in 1 .. Len(vs) + 1
      PROVE  Plans(ws)[n] = Append(Plans(vs), v.plan)[n]
  <2>1. CASE n = Len(vs) + 1
    BY <1>1, <1>3, <2>1 DEF Plans
  <2>2. CASE n \in 1 .. Len(vs)
    BY <1>1, <1>3, <2>2 DEF Plans
  <2>3. n = Len(vs) + 1 \/ n \in 1 .. Len(vs)
    <3>1. Len(vs) \in Nat
      OBVIOUS
    <3> HIDE DEF ws
    <3> QED BY <3>1
  <2> QED BY <2>1, <2>2, <2>3
<1> HIDE DEF ws
<1>6. Plans(ws) = Append(Plans(vs), v.plan)
  BY <1>3, <1>4, <1>5
<1> QED BY <1>6 DEF ws

LEMMA PlansOfFirst ==
    ASSUME NEW plan \in Plan
    PROVE  Plans(<<[plan |-> plan, parent |-> 0]>>) = <<plan>>
<1> DEFINE v == [plan |-> plan, parent |-> 0]
<1>1. v.plan = plan /\ v \in Version
  BY DEF Version
<1> HIDE DEF v
<1>2. Plans(<<v>>) = <<v.plan>>
  BY DEF Plans
<1> QED BY <1>1, <1>2 DEF v

LEMMA RefinedInit == Init => History!HistoryInit
<1> SUFFICES ASSUME Init PROVE History!HistoryInit
  OBVIOUS
<1>1. session.versions = <<>> /\ session.locks = [t \in Targets |-> NoLock]
  BY DEF Init, NewSession
<1>2. Plans(session.versions) = <<>>
  BY <1>1 DEF Plans
<1> QED BY <1>1, <1>2 DEF History!HistoryInit, Plans, Targets, History!Targets

LEMMA RefinedStep ==
    ASSUME IInv, Next
    PROVE  History!HistoryNext \/ UNCHANGED History!historyVars
<1> DEFINE P == Plans(session.versions)
<1>1. session \in SessionRecord /\ Linear(session)
  BY DEF IInv, SessionInv
<1>2. session.versions \in Seq(Version) /\ Len(session.versions) \in Nat
  BY <1>1, SessionFields
<1>3. session' = session \/ HistoryStep
  BY StepEffect DEF ReadSession, Effect, Writes
<1>4. CASE session' = session
  BY <1>4 DEF History!historyVars
<1>5. CASE session'.versions = session.versions /\ session'.locks = session.locks
  BY <1>5 DEF History!historyVars
<1>6. CASE /\ session.versions = <<>> /\ session'.locks = session.locks
           /\ \E plan \in Plan : session'.versions = <<[plan |-> plan, parent |-> 0]>>
  <2>1. PICK plan \in Plan : session'.versions = <<[plan |-> plan, parent |-> 0]>>
    BY <1>6
  <2>2. P = <<>> /\ Plans(session'.versions) = <<plan>>
    BY <1>2, <1>6, <2>1, PlansOfFirst, PlansOfVersions
  <2>3. History!Choose(plan)
    BY <1>6, <2>2 DEF History!Choose, Plans
  <2> QED BY <2>3 DEF History!HistoryNext, Plan, History!Plan
<1>7. CASE /\ session.versions # <<>> /\ session'.versions = session.versions
           /\ \E t \in Targets :
                 \/ session'.locks = [session.locks EXCEPT
                                         ![t] = Fingerprint(ActivePlan(session), t)]
                 \/ /\ session.locks[t] # NoLock
                    /\ session'.locks = [session.locks EXCEPT ![t] = NoLock]
  <2>1. PICK t \in Targets :
                 \/ session'.locks = [session.locks EXCEPT
                                         ![t] = Fingerprint(ActivePlan(session), t)]
                 \/ /\ session.locks[t] # NoLock
                    /\ session'.locks = [session.locks EXCEPT ![t] = NoLock]
    BY <1>7
  <2>2. P # <<>> /\ Plans(session'.versions) = P
    BY <1>2, <1>7, PlansOfVersions
  <2>3. ActivePlan(session) = P[Len(P)]
    BY <1>1, <1>2, <1>7, PlansOfVersions DEF ActivePlan, Linear, Plans
  <2>4. Fingerprint(P[Len(P)], t) = History!Fingerprint(P[Len(P)], t)
    BY DEF Fingerprint, History!Fingerprint, Covers, History!Covers,
           Present, History!Present
  <2>5. History!Hold(t) \/ History!Release(t)
    BY <2>1, <2>2, <2>3, <2>4 DEF History!Hold, History!Release, Plans
  <2> QED BY <2>5 DEF History!HistoryNext, Targets, History!Targets
<1>8. CASE /\ session.versions # <<>> /\ session'.locks = session.locks
           /\ \E v \in Version : /\ session'.versions = Append(session.versions, v)
                                 /\ Agrees(v.plan, session.locks)
  <2>1. PICK v \in Version : /\ session'.versions = Append(session.versions, v)
                             /\ Agrees(v.plan, session.locks)
    BY <1>8
  <2>2. P # <<>> /\ Plans(session'.versions) = Append(P, v.plan)
    BY <1>2, <1>8, <2>1, PlansOfAppend, PlansOfVersions
  <2>3. History!Agrees(v.plan, session.locks)
    BY <2>1 DEF Agrees, History!Agrees, Targets, History!Targets,
                Fingerprint, History!Fingerprint, Covers, History!Covers,
                Present, History!Present
  <2>4. v.plan \in Plan
    BY DEF Version
  <2>5. History!Change(v.plan)
    BY <1>8, <2>2, <2>3 DEF History!Change, Plans
  <2> QED BY <2>4, <2>5 DEF History!HistoryNext, Plan, History!Plan
<1> QED BY <1>3, <1>4, <1>5, <1>6, <1>7, <1>8 DEF HistoryStep

(* PlanLifecycle implements PlanHistory: whatever its processes, graphs,   *)
(* previews and crashes do, the user sees a history of plans that only     *)
(* grows, and no change of the plan touches what is held.                  *)
THEOREM Refinement == Spec => ImplementsHistory
<1>1. IInv /\ [Next]_vars => [History!HistoryNext]_(History!historyVars)
  <2>1. ASSUME IInv, Next
        PROVE  [History!HistoryNext]_(History!historyVars)
    BY <2>1, RefinedStep
  <2>2. ASSUME UNCHANGED vars
        PROVE  [History!HistoryNext]_(History!historyVars)
    BY <2>2 DEF vars, History!historyVars
  <2> QED BY <2>1, <2>2
<1> QED BY <1>1, RefinedInit, Invariance, PTL
        DEF Spec, ImplementsHistory, History!HistorySpec

-----------------------------------------------------------------------------
(* What a save does to previews, weather events and receipts               *)

ShownAsBefore ==
    /\ session'.previews = session.previews
    /\ session'.events = session.events
    /\ session'.attention = session.attention

(* The nodes that handle an event after it was found to be a new one.      *)
Judging == Derived \cup {"analyze_change_impact", "build_preview"}

(* The event of the process was looked up, here or in an earlier node.     *)
LookedUp(p) == node[p] \in Judging \/ ~Known(session, event[p])

Notes(e, status) ==
    /\ session'.events =
          {x \in session.events : x.id # e} \cup {[id |-> e, status |-> status]}
    /\ session'.attention = IF status = "needs_user_attention" THEN e ELSE NoEvent

Observes(p) ==
    /\ event[p] # NoEvent /\ LookedUp(p)
    /\ session'.previews = session.previews
    /\ \E status \in {"no_plan_impact", "needs_user_attention"} : Notes(event[p], status)

Proposes(p) ==
    /\ node[p] = "build_preview"
    /\ \E v \in Preview :
          /\ v.event = event[p] /\ v.status \in {"pending", "invalid"}
          /\ session'.previews = Append(session.previews, v)
          /\ event[p] = NoEvent =>
                /\ session'.events = session.events
                /\ session'.attention = session.attention
          /\ event[p] # NoEvent =>
                Notes(event[p], IF v.status = "pending" THEN "preview_created"
                                ELSE "needs_user_attention")

Resolves ==
    /\ AwaitingApproval(session)
    /\ session'.attention = session.attention
    /\ \E status \in {"approved", "rejected"} :
          /\ session'.previews = Decide(session.previews, session.pending, status)
          /\ session'.events = ResolveEvent(session.events,
                 session.previews[session.pending].event, status)

Dismisses ==
    /\ session'.previews = session.previews
    /\ session'.attention = NoEvent
    /\ \E x \in session.events :
          /\ x.status = "needs_user_attention"
          /\ session'.events = ResolveEvent(session.events, x.id, "dismissed")

Outcome(p) ==
    ShownAsBefore \/ Observes(p) \/ Proposes(p) \/ Resolves \/ Dismisses

(* The one receipt a save may write. *)
Answers(p) ==
    \/ session'.receipts = session.receipts
    \/ /\ node[p] \in ActionNodes
       /\ session'.receipts =
             [session.receipts EXCEPT ![req[p].id] = session.revision + 1]

Result(p) == Outcome(p) /\ Answers(p)

(* What a commit leaves of the record it is given.                         *)
LEMMA CommitResult ==
    ASSUME IInv, NEW p \in Procs, phase[p] = "act", node[p] \in ActionNodes,
           NEW new, DOMAIN new = DOMAIN seen[p], Commit(p, new)
    PROVE  /\ session = seen[p] /\ Answers(p)
           /\ session'.previews = new.previews
           /\ session'.events = new.events
           /\ session'.attention = new.attention
<1> DEFINE receipts == [seen[p].receipts EXCEPT ![req[p].id] = seen[p].revision + 1]
<1>1. session = seen[p]
  BY SaveEffect DEF Commit
<1>2. session' = Stored(new, receipts, seen[p].revision + 1)
  BY DEF Commit, Save, Stored
<1>3. {"previews", "events", "attention", "receipts", "revision"} \subseteq DOMAIN new
  BY DEF IInv, TypeOK, SessionRecord
<1>4. session'.receipts = receipts
  BY <1>2, <1>3 DEF Stored
<1>5. Answers(p)
  BY <1>1, <1>4 DEF Answers
<1> HIDE DEF receipts
<1>6. /\ session'.previews = new.previews
      /\ session'.events = new.events
      /\ session'.attention = new.attention
  BY <1>2, <1>3 DEF Stored
<1> QED BY <1>1, <1>5, <1>6

LEMMA CommitShowsNothing ==
    ASSUME IInv, NEW p \in Procs, phase[p] = "act", node[p] \in ActionNodes,
           NEW new, DOMAIN new = DOMAIN seen[p], Commit(p, new),
           new.previews = seen[p].previews, new.events = seen[p].events,
           new.attention = seen[p].attention
    PROVE  Result(p)
BY CommitResult DEF Result, Outcome, ShownAsBefore

LEMMA IdleResult ==
    ASSUME NEW p \in Procs, session' = session
    PROVE  Result(p)
BY DEF Result, Outcome, ShownAsBefore, Answers

LEMMA SelectCandidateResult ==
    ASSUME IInv, NEW p \in Procs, SelectCandidate(p)
    PROVE  Result(p)
<1>1. PICK plan \in Candidates :
          Commit(p, [seen[p] EXCEPT !.versions = <<[plan |-> plan, parent |-> 0]>>,
                                    !.active = 1, !.status = "active"])
  BY DEF SelectCandidate
<1> DEFINE new == [seen[p] EXCEPT !.versions = <<[plan |-> plan, parent |-> 0]>>,
                                  !.active = 1, !.status = "active"]
<1>2. seen[p] \in SessionRecord /\ phase[p] = "act" /\ node[p] \in ActionNodes
  BY DEF IInv, TypeOK, SelectCandidate, At, ActionNodes
<1>3. /\ DOMAIN new = DOMAIN seen[p] /\ new.previews = seen[p].previews
      /\ new.events = seen[p].events /\ new.attention = seen[p].attention
  BY <1>2 DEF SessionRecord
<1>4. Commit(p, new)
  BY <1>1
<1> HIDE DEF new
<1> QED BY <1>2, <1>3, <1>4, CommitShowsNothing

LEMMA ChangeLockResult ==
    ASSUME IInv, NEW p \in Procs, ChangeLock(p)
    PROVE  Result(p)
<1>1. PICK t \in Targets :
          \/ Commit(p, [seen[p] EXCEPT
                   !.status = "active",
                   !.locks = [@ EXCEPT ![t] = Fingerprint(ActivePlan(seen[p]), t)]])
          \/ Commit(p, [seen[p] EXCEPT !.status = "active",
                                       !.locks = [@ EXCEPT ![t] = NoLock]])
  BY DEF ChangeLock
<1>2. PICK l : Commit(p, [seen[p] EXCEPT !.status = "active",
                                         !.locks = [@ EXCEPT ![t] = l]])
  BY <1>1
<1> DEFINE locks == [seen[p].locks EXCEPT ![t] = l]
           new == [seen[p] EXCEPT !.status = "active", !.locks = locks]
<1>3. seen[p] \in SessionRecord /\ phase[p] = "act" /\ node[p] \in ActionNodes
  BY DEF IInv, TypeOK, ChangeLock, At, ActionNodes
<1>4. Commit(p, new)
  BY <1>2
<1> HIDE DEF locks
<1>5. /\ DOMAIN new = DOMAIN seen[p] /\ new.previews = seen[p].previews
      /\ new.events = seen[p].events /\ new.attention = seen[p].attention
  BY <1>3 DEF SessionRecord
<1> HIDE DEF new
<1> QED BY <1>3, <1>4, <1>5, CommitShowsNothing

LEMMA ChangeImpactResult ==
    ASSUME IInv, NEW p \in Procs, AskClarification(p) \/ RequireNewPlan(p)
    PROVE  Result(p)
<1>1. PICK status : Commit(p, [seen[p] EXCEPT !.status = status])
  BY DEF AskClarification, RequireNewPlan
<1> DEFINE new == [seen[p] EXCEPT !.status = status]
<1>2. seen[p] \in SessionRecord /\ phase[p] = "act" /\ node[p] \in ActionNodes
  BY DEF IInv, TypeOK, AskClarification, RequireNewPlan, Applicable, At, ActionNodes
<1>3. Commit(p, new)
  BY <1>1
<1>4. /\ DOMAIN new = DOMAIN seen[p] /\ new.previews = seen[p].previews
      /\ new.events = seen[p].events /\ new.attention = seen[p].attention
  BY <1>2 DEF SessionRecord
<1> HIDE DEF new
<1> QED BY <1>2, <1>3, <1>4, CommitShowsNothing

LEMMA WeatherFailureResult ==
    ASSUME IInv, NEW p \in Procs, WeatherFailure(p)
    PROVE  Result(p)
<1>1. phase[p] = "act" /\ seen[p] \in SessionRecord
  BY DEF WeatherFailure, At, IInv, TypeOK
<1>2. /\ session = seen[p]
      /\ session' = [seen[p] EXCEPT !.revision = seen[p].revision + 1]
  BY <1>1, SaveEffect DEF WeatherFailure
<1>3. ShownAsBefore /\ session'.receipts = session.receipts
  BY <1>1, <1>2 DEF ShownAsBefore, SessionRecord
<1> QED BY <1>3 DEF Result, Outcome, Answers

(* What the record holds after an observation.                             *)
LEMMA WithEventNotes ==
    ASSUME NEW s \in SessionRecord, NEW e, NEW status, NEW w,
           w = WithEvent(s, e, status)
    PROVE  /\ DOMAIN w = DOMAIN s /\ w.previews = s.previews
           /\ w.events = {x \in s.events : x.id # e} \cup {[id |-> e, status |-> status]}
           /\ w.attention = IF status = "needs_user_attention" THEN e ELSE NoEvent
<1> DEFINE evs == {x \in s.events : x.id # e} \cup {[id |-> e, status |-> status]}
           att == IF status = "needs_user_attention" THEN e ELSE NoEvent
<1>1. w = [s EXCEPT !.events = evs, !.attention = att]
  BY DEF WithEvent
<1> HIDE DEF evs, att
<1>2. DOMAIN w = DOMAIN s /\ w.previews = s.previews /\ w.events = evs /\ w.attention = att
  BY <1>1 DEF SessionRecord
<1> QED BY <1>2 DEF evs, att

LEMMA WeatherTerminalResult ==
    ASSUME IInv, NEW p \in Procs, phase[p] = "act", node[p] \in ActionNodes,
           NEW s, DOMAIN s = DOMAIN seen[p], WeatherTerminal(p, s)
    PROVE  /\ session = seen[p] /\ Answers(p)
           /\ session'.previews = s.previews
           /\ session'.events = s.events
           /\ session'.attention = s.attention
<1> DEFINE new == [s EXCEPT !.snapshot = forecast[p], !.status = "active"]
<1>1. Commit(p, new)
  BY DEF WeatherTerminal
<1>2. DOMAIN new = DOMAIN seen[p]
  OBVIOUS
<1>3. {"previews", "events", "attention"} \subseteq DOMAIN s
  BY DEF IInv, TypeOK, SessionRecord
<1>4. /\ new.previews = s.previews /\ new.events = s.events
      /\ new.attention = s.attention
  BY <1>3
<1> HIDE DEF new
<1> QED BY <1>1, <1>2, <1>4, CommitResult

LEMMA WeatherEventResult ==
    ASSUME IInv, NEW p \in Procs, phase[p] = "act", node[p] \in ActionNodes,
           event[p] # NoEvent, node[p] \in Judging \/ ~Known(seen[p], event[p]),
           NEW status \in {"no_plan_impact", "needs_user_attention"},
           WeatherTerminal(p, WithEvent(seen[p], event[p], status))
    PROVE  Result(p)
<1> DEFINE w == WithEvent(seen[p], event[p], status)
<1>1. seen[p] \in SessionRecord
  BY DEF IInv, TypeOK
<1>2. WeatherTerminal(p, w)
  OBVIOUS
<1>3. /\ DOMAIN w = DOMAIN seen[p] /\ w.previews = seen[p].previews
      /\ w.events = {x \in seen[p].events : x.id # event[p]}
                        \cup {[id |-> event[p], status |-> status]}
      /\ w.attention = IF status = "needs_user_attention" THEN event[p] ELSE NoEvent
  BY <1>1, WithEventNotes
<1> HIDE DEF w
<1>4. /\ session = seen[p] /\ Answers(p)
      /\ session'.previews = w.previews
      /\ session'.events = w.events
      /\ session'.attention = w.attention
  BY <1>2, <1>3, WeatherTerminalResult
<1>5. Notes(event[p], status) /\ LookedUp(p)
  BY <1>3, <1>4 DEF Notes, LookedUp
<1> QED BY <1>3, <1>4, <1>5 DEF Result, Outcome, Observes

LEMMA WeatherNodesResult ==
    ASSUME IInv, NEW p \in Procs,
           \/ DeduplicateWeatherEvent(p)
           \/ AnalyzeWeatherImpact(p)
           \/ BuildWeatherRepair(p)
    PROVE  Result(p)
<1>1. phase[p] = "act" /\ node[p] \in ActionNodes /\ seen[p] \in SessionRecord
  BY DEF DeduplicateWeatherEvent, AnalyzeWeatherImpact, BuildWeatherRepair, At,
         ActionNodes, IInv, TypeOK
<1>2. CASE session' = session
  BY <1>2, IdleResult
<1>3. CASE WeatherTerminal(p, seen[p])
  BY <1>1, <1>3, WeatherTerminalResult DEF Result, Outcome, ShownAsBefore
<1>4. CASE DeduplicateWeatherEvent(p)
  <2>1. CASE /\ event[p] # NoEvent /\ ~Known(seen[p], event[p])
             /\ WeatherTerminal(p, WithEvent(seen[p], event[p], "no_plan_impact"))
    BY <1>1, <2>1, WeatherEventResult
  <2> QED BY <1>2, <1>3, <1>4, <2>1 DEF DeduplicateWeatherEvent
<1>5. CASE AnalyzeWeatherImpact(p) \/ BuildWeatherRepair(p)
  <2>1. node[p] \in Judging /\ event[p] # NoEvent
    BY <1>5 DEF AnalyzeWeatherImpact, BuildWeatherRepair, At, Judging, Derived,
                IInv, WeatherInv
  <2>2. CASE \E status \in {"no_plan_impact", "needs_user_attention"} :
                WeatherTerminal(p, WithEvent(seen[p], event[p], status))
    BY <1>1, <2>1, <2>2, WeatherEventResult
  <2> QED BY <1>2, <1>5, <2>2 DEF AnalyzeWeatherImpact, BuildWeatherRepair
<1> QED BY <1>4, <1>5

LEMMA BuildPreviewResult ==
    ASSUME IInv, NEW p \in Procs, BuildPreview(p)
    PROVE  Result(p)
<1>1. PICK plan \in Plan, valid \in BOOLEAN :
          Commit(p, [Observed(p, seen[p], valid) EXCEPT
                !.previews = Append(@, NewPreview(p, plan, valid)),
                !.pending = PreviewId(seen[p]),
                !.status = IF valid THEN "awaiting_change_approval"
                                    ELSE "change_rejected"])
  BY DEF BuildPreview
<1> DEFINE w == Observed(p, seen[p], valid)
           v == NewPreview(p, plan, valid)
           previews == Append(w.previews, v)
           pending == PreviewId(seen[p])
           status == IF valid THEN "awaiting_change_approval" ELSE "change_rejected"
           new == [w EXCEPT !.previews = previews, !.pending = pending,
                            !.status = status]
           told == IF valid THEN "preview_created" ELSE "needs_user_attention"
<1>2. /\ phase[p] = "act" /\ node[p] = "build_preview" /\ seen[p] \in SessionRecord
      /\ event[p] \in EventId \cup {NoEvent}
  BY DEF BuildPreview, At, IInv, TypeOK
<1>3. node[p] \in ActionNodes
  BY <1>2 DEF ActionNodes
<1>4. /\ v \in Preview /\ v.event = event[p]
      /\ v.status = IF valid THEN "pending" ELSE "invalid"
  BY <1>2, SessionFields DEF NewPreview, Preview, PreviewStatuses
<1>5. /\ DOMAIN w = DOMAIN seen[p] /\ w.previews = seen[p].previews
      /\ event[p] = NoEvent =>
            w.events = seen[p].events /\ w.attention = seen[p].attention
      /\ event[p] # NoEvent =>
            /\ w.events = {x \in seen[p].events : x.id # event[p]}
                              \cup {[id |-> event[p], status |-> told]}
            /\ w.attention = IF told = "needs_user_attention" THEN event[p] ELSE NoEvent
  <2>1. CASE event[p] = NoEvent
    BY <2>1 DEF Observed
  <2>2. CASE event[p] # NoEvent
    <3> DEFINE s1 == [seen[p] EXCEPT !.snapshot = forecast[p]]
    <3>1. s1 \in SessionRecord /\ DOMAIN s1 = DOMAIN seen[p]
          /\ s1.previews = seen[p].previews /\ s1.events = seen[p].events
      BY <1>2 DEF SessionRecord, IInv, TypeOK
    <3>2. w = WithEvent(s1, event[p], told)
      BY <2>2 DEF Observed
    <3> HIDE DEF s1, w, told
    <3>3. /\ DOMAIN w = DOMAIN s1 /\ w.previews = s1.previews
          /\ w.events = {x \in s1.events : x.id # event[p]}
                            \cup {[id |-> event[p], status |-> told]}
          /\ w.attention = IF told = "needs_user_attention" THEN event[p] ELSE NoEvent
      BY <3>1, <3>2, WithEventNotes
    <3> QED BY <2>2, <3>1, <3>3
  <2> QED BY <2>1, <2>2
<1>6. Commit(p, new)
  BY <1>1
<1>7. told = IF v.status = "pending" THEN "preview_created" ELSE "needs_user_attention"
  BY <1>4
<1> HIDE DEF w, v, pending, status, told
<1>8. {"previews", "events", "attention"} \subseteq DOMAIN w
  BY <1>2, <1>5 DEF SessionRecord
<1> HIDE DEF previews
<1>9. /\ DOMAIN new = DOMAIN seen[p] /\ new.previews = previews
      /\ new.events = w.events /\ new.attention = w.attention
  BY <1>5, <1>8
<1> HIDE DEF new
<1>10. /\ session = seen[p] /\ Answers(p)
       /\ session'.previews = previews
       /\ session'.events = w.events
       /\ session'.attention = w.attention
  BY <1>2, <1>3, <1>6, <1>9, CommitResult
<1>11. session'.previews = Append(session.previews, v)
  BY <1>5, <1>10 DEF previews
<1>12. event[p] # NoEvent => Notes(event[p], told)
  BY <1>5, <1>10 DEF Notes
<1>13. v.status \in {"pending", "invalid"}
  BY <1>4
<1>14. Proposes(p)
  BY <1>2, <1>4, <1>5, <1>7, <1>10, <1>11, <1>12, <1>13 DEF Proposes
<1> QED BY <1>10, <1>14 DEF Result, Outcome

LEMMA RejectPreviewResult ==
    ASSUME IInv, NEW p \in Procs, RejectPreview(p)
    PROVE  Result(p)
<1> DEFINE k == seen[p].pending
           previews == Decide(seen[p].previews, k, "rejected")
           events == ResolveEvent(seen[p].events, seen[p].previews[k].event, "rejected")
           new == [seen[p] EXCEPT !.previews = previews, !.events = events,
                                  !.status = "active"]
<1>1. /\ phase[p] = "act" /\ node[p] \in ActionNodes /\ seen[p] \in SessionRecord
      /\ AwaitingApproval(seen[p])
  BY DEF RejectPreview, At, ActionNodes, IInv, TypeOK
<1>2. Commit(p, new)
  BY DEF RejectPreview
<1> HIDE DEF previews, events
<1>3. /\ DOMAIN new = DOMAIN seen[p] /\ new.previews = previews
      /\ new.events = events /\ new.attention = seen[p].attention
  BY <1>1 DEF SessionRecord
<1> HIDE DEF new
<1>4. /\ session = seen[p] /\ Answers(p)
      /\ session'.previews = previews
      /\ session'.events = events
      /\ session'.attention = seen[p].attention
  BY <1>1, <1>2, <1>3, CommitResult
<1>5. Resolves
  BY <1>1, <1>4 DEF Resolves, previews, events
<1> QED BY <1>4, <1>5 DEF Result, Outcome

LEMMA ApprovePreviewResult ==
    ASSUME IInv, NEW p \in Procs, ApprovePreview(p)
    PROVE  Result(p)
<1> DEFINE k == seen[p].pending
           versions == Append(seen[p].versions, [plan |-> seen[p].previews[k].plan,
                                                 parent |-> seen[p].previews[k].base])
           active == Len(seen[p].versions) + 1
           previews == Decide(seen[p].previews, k, "approved")
           events == ResolveEvent(seen[p].events, seen[p].previews[k].event, "approved")
           new == [seen[p] EXCEPT !.versions = versions, !.active = active,
                                  !.previews = previews, !.events = events,
                                  !.status = "active"]
<1>1. /\ phase[p] = "act" /\ node[p] \in ActionNodes /\ seen[p] \in SessionRecord
      /\ AwaitingApproval(seen[p])
  BY DEF ApprovePreview, At, ActionNodes, IInv, TypeOK
<1>2. Commit(p, new)
  BY DEF ApprovePreview
<1> HIDE DEF previews, events, versions, active
<1>3. /\ DOMAIN new = DOMAIN seen[p] /\ new.previews = previews
      /\ new.events = events /\ new.attention = seen[p].attention
  BY <1>1 DEF SessionRecord
<1> HIDE DEF new
<1>4. /\ session = seen[p] /\ Answers(p)
      /\ session'.previews = previews
      /\ session'.events = events
      /\ session'.attention = seen[p].attention
  BY <1>1, <1>2, <1>3, CommitResult
<1>5. Resolves
  BY <1>1, <1>4 DEF Resolves, previews, events
<1> QED BY <1>4, <1>5 DEF Result, Outcome

LEMMA DismissWeatherEventResult ==
    ASSUME IInv, NEW p \in Procs, DismissWeatherEvent(p)
    PROVE  Result(p)
<1>1. PICK x \in seen[p].events :
          /\ x.status = "needs_user_attention"
          /\ Commit(p, [seen[p] EXCEPT
                !.events = ResolveEvent(@, x.id, "dismissed"),
                !.attention = NoEvent, !.status = "active"])
  BY DEF DismissWeatherEvent
<1> DEFINE events == ResolveEvent(seen[p].events, x.id, "dismissed")
           new == [seen[p] EXCEPT !.events = events, !.attention = NoEvent,
                                  !.status = "active"]
<1>2. phase[p] = "act" /\ node[p] \in ActionNodes /\ seen[p] \in SessionRecord
  BY DEF DismissWeatherEvent, At, ActionNodes, IInv, TypeOK
<1>3. Commit(p, new)
  BY <1>1
<1> HIDE DEF events
<1>4. /\ DOMAIN new = DOMAIN seen[p] /\ new.previews = seen[p].previews
      /\ new.events = events /\ new.attention = NoEvent
  BY <1>2 DEF SessionRecord
<1> HIDE DEF new
<1>5. /\ session = seen[p] /\ Answers(p)
      /\ session'.previews = seen[p].previews
      /\ session'.events = events
      /\ session'.attention = NoEvent
  BY <1>2, <1>3, <1>4, CommitResult
<1>6. Dismisses
  BY <1>1, <1>5 DEF Dismisses, events
<1> QED BY <1>5, <1>6 DEF Result, Outcome

LEMMA StepResult ==
    ASSUME IInv, Next
    PROVE  \E p \in Procs :
               /\ Step(p) \/ Crash(p) \/ \E r \in Requests : Resume(p, r)
               /\ Result(p)
<1>1. PICK p \in Procs : Step(p) \/ Crash(p) \/ \E r \in Requests : Resume(p, r)
  BY DEF Next
<1> SUFFICES Result(p)
  BY <1>1
<1>2. CASE \/ \E r \in Requests : Resume(p, r)
           \/ ReadSession(p) \/ AwaitUserAction(p) \/ Raise(p) \/ Crash(p)
           \/ ParseEdit(p) \/ ApplyEditClarification(p) \/ AnalyzeChangeImpact(p)
           \/ ResolveWeatherLocation(p) \/ FetchWeatherSnapshot(p)
           \/ DeriveWeatherEvent(p)
  <2>1. session' = session
    BY <1>2 DEF Resume, ReadSession, AwaitUserAction, Raise, Crash, ParseEdit,
                ApplyEditClarification, AnalyzeChangeImpact, ResolveWeatherLocation,
                FetchWeatherSnapshot, DeriveWeatherEvent
  <2> QED BY <2>1, IdleResult
<1>3. CASE SelectCandidate(p) \/ ChangeLock(p) \/ AskClarification(p) \/ RequireNewPlan(p)
  BY <1>3, SelectCandidateResult, ChangeLockResult, ChangeImpactResult
<1>4. CASE BuildPreview(p) \/ RejectPreview(p) \/ ApprovePreview(p)
  BY <1>4, BuildPreviewResult, RejectPreviewResult, ApprovePreviewResult
<1>5. CASE \/ WeatherFailure(p) \/ DismissWeatherEvent(p) \/ DeduplicateWeatherEvent(p)
           \/ AnalyzeWeatherImpact(p) \/ BuildWeatherRepair(p)
  BY <1>5, WeatherFailureResult, DismissWeatherEventResult, WeatherNodesResult
<1> QED BY <1>1, <1>2, <1>3, <1>4, <1>5 DEF Step

-----------------------------------------------------------------------------
(* Decisions                                                               *)

LEMMA ResultKeepsDecisions ==
    ASSUME IInv, NEW p \in Procs, Result(p)
    PROVE  DecisionsStand
<1>1. session \in SessionRecord /\ HasPreview(session)
  BY DEF IInv, SessionInv
<1>2. session.previews \in Seq(Preview) /\ Len(session.previews) \in Nat
  BY <1>1, SessionFields
<1>3. CASE session'.previews = session.previews
  BY <1>3 DEF DecisionsStand
<1>4. CASE Proposes(p)
  <2>1. PICK v \in Preview : session'.previews = Append(session.previews, v)
    BY <1>4 DEF Proposes
  <2> QED BY <1>2, <2>1 DEF DecisionsStand
<1>5. CASE Resolves
  <2> DEFINE k == session.pending
  <2>1. PICK status \in {"approved", "rejected"} :
            session'.previews = Decide(session.previews, k, status)
    BY <1>5 DEF Resolves
  <2>2. k \in 1 .. Len(session.previews) /\ session.previews[k].status = "pending"
    BY <1>1, <1>5 DEF Resolves, AwaitingApproval, HasPreview
  <2>3. /\ Len(session'.previews) = Len(session.previews)
        /\ \A j \in 1 .. Len(session.previews) : j # k =>
              session'.previews[j] = session.previews[j]
    BY <1>1, <2>1, <2>2, DecideFields DEF PreviewStatuses
  <2> QED BY <1>2, <2>2, <2>3 DEF DecisionsStand
<1> QED BY <1>3, <1>4, <1>5
        DEF Result, Outcome, ShownAsBefore, Observes, Dismisses

(* A decision on a preview is final, however many processes take requests  *)
(* on the session (the preview that await_user_action shows is undecided). *)
THEOREM DecisionsAreKept == Spec => [][DecisionsStand]_session
<1>1. IInv /\ [Next]_vars => [DecisionsStand]_session
  BY StepResult, ResultKeepsDecisions DEF vars
<1> QED BY <1>1, Invariance, PTL DEF Spec

-----------------------------------------------------------------------------
(* One API process                                                         *)

OneProcess == \A p, q \in Procs : p = q

(* A process that has the session to itself acts on what is stored, on a   *)
(* request that has no receipt and on an event that nobody has handled.    *)
Alone(p) ==
    /\ phase[p] = "act" => seen[p] = session
    /\ node[p] \in ActionNodes => session.receipts[req[p].id] = 0
    /\ node[p] \in {"parse_edit", "apply_edit_clarification"} => event[p] = NoEvent
    /\ node[p] \in Judging /\ event[p] # NoEvent => ~Known(session, event[p])

(* A weather event has one receipt.                                        *)
OneReceiptPerEvent ==
    \A x, y \in session.events : x.id = y.id => x = y

OInv ==
    /\ IInv
    /\ WeatherAgrees /\ OneReceiptPerEvent
    /\ \A p \in Procs : Alone(p)

LEMMA InitOInv == Init => OInv
<1> SUFFICES ASSUME Init PROVE OInv
  OBVIOUS
<1>1. IInv
  BY InitIInv
<1>2. WeatherAgrees /\ OneReceiptPerEvent
  BY DEF Init, NewSession, WeatherAgrees, OnePreviewPerEvent, EventFollowsPreview,
         AttentionIsOpen, OneReceiptPerEvent
<1>3. \A p \in Procs : Alone(p)
  BY DEF Init, Alone, ActionNodes, Judging, Derived
<1> QED BY <1>1, <1>2, <1>3 DEF OInv

(* Where a step may leave a process that is alone.                         *)
LEMMA AwayIsAlone ==
    ASSUME NEW p \in Procs, phase'[p] = "read", node'[p] \notin ActionNodes
    PROVE  Alone(p)'
BY DEF Alone, Judging, Derived, ActionNodes

LEMMA GoneIsAlone ==
    ASSUME TypeOK, NEW p \in Procs,
           Leave(p) \/ Goto(p, "await_user_action")
    PROVE  Alone(p)'
<1>1. phase'[p] = "read" /\ node'[p] \in {"idle", "await_user_action"}
  BY DEF TypeOK, Leave, Goto
<1> QED BY <1>1, AwayIsAlone DEF ActionNodes

LEMMA OnwardIsAlone ==
    ASSUME TypeOK, NEW p \in Procs, Alone(p), node[p] \in ActionNodes,
           NEW n, Goto(p, n), UNCHANGED <<session, req>>,
           n \in {"parse_edit", "apply_edit_clarification"} => event'[p] = NoEvent,
           n \in Judging /\ event'[p] # NoEvent => ~Known(session, event'[p])
    PROVE  Alone(p)'
<1>1. phase'[p] = "read" /\ node'[p] = n
  BY DEF TypeOK, Goto
<1> QED BY <1>1 DEF Alone, Known

LEMMA ResumeIsAlone ==
    ASSUME TypeOK, NEW p \in Procs, NEW r \in Requests, Resume(p, r)
    PROVE  Alone(p)'
<1>1. PICK kind \in ClientKinds, strict \in BOOLEAN :
          /\ req' = [req EXCEPT ![p] = [id |-> r, kind |-> kind, strict |-> strict,
                                        expected |-> session.revision]]
          /\ node' = [node EXCEPT ![p] = NodeOf(kind)]
  BY DEF Resume
<1>2. /\ req'[p].id = r /\ phase'[p] = "read" /\ event'[p] = NoEvent
      /\ session' = session /\ session.receipts[r] = 0
  BY <1>1 DEF Resume, TypeOK, Unanswered
<1> QED BY <1>2 DEF Alone

LEMMA ReadIsAlone ==
    ASSUME TypeOK, NEW p \in Procs, Alone(p), ReadSession(p)
    PROVE  Alone(p)'
<1>1. seen'[p] = session /\ UNCHANGED <<session, node, req, event>>
  BY DEF TypeOK, ReadSession
<1> QED BY <1>1 DEF Alone, Known

LEMMA LeavingIsAlone ==
    ASSUME TypeOK, NEW p \in Procs,
           \/ AwaitUserAction(p) \/ Raise(p) \/ Crash(p) \/ WeatherFailure(p)
           \/ SelectCandidate(p) \/ ChangeLock(p) \/ AskClarification(p)
           \/ RequireNewPlan(p) \/ BuildPreview(p) \/ RejectPreview(p)
           \/ ApprovePreview(p) \/ DismissWeatherEvent(p)
    PROVE  Alone(p)'
<1>1. Leave(p) \/ Goto(p, "await_user_action")
  BY DEF AwaitUserAction, Raise, Crash, WeatherFailure, SelectCandidate, ChangeLock,
         AskClarification, RequireNewPlan, BuildPreview, RejectPreview,
         ApprovePreview, DismissWeatherEvent, Commit
<1> QED BY <1>1, GoneIsAlone

LEMMA EditIsAlone ==
    ASSUME TypeOK, NEW p \in Procs, Alone(p),
           ParseEdit(p) \/ ApplyEditClarification(p) \/ AnalyzeChangeImpact(p)
    PROVE  Alone(p)'
<1>1. node[p] \in ActionNodes /\ UNCHANGED <<session, req, event>>
  BY DEF ParseEdit, ApplyEditClarification, AnalyzeChangeImpact, Applicable, At,
         ActionNodes
<1>2. event[p] # NoEvent => ~Known(session, event[p])
  BY DEF ParseEdit, ApplyEditClarification, AnalyzeChangeImpact, Applicable, At,
         Alone, Judging
<1>3. PICK n \in {"analyze_change_impact", "build_preview"} : Goto(p, n)
  BY DEF ParseEdit, ApplyEditClarification, AnalyzeChangeImpact
<1> QED BY <1>1, <1>2, <1>3, OnwardIsAlone

LEMMA ForecastIsAlone ==
    ASSUME TypeOK, NEW p \in Procs, Alone(p),
           ResolveWeatherLocation(p) \/ FetchWeatherSnapshot(p) \/ DeriveWeatherEvent(p)
    PROVE  Alone(p)'
<1>1. node[p] \in ActionNodes /\ UNCHANGED <<session, req>>
  BY DEF ResolveWeatherLocation, FetchWeatherSnapshot, DeriveWeatherEvent, At,
         ActionNodes
<1>2. PICK n \in {"fetch_weather_snapshot", "derive_weather_event",
                  "deduplicate_weather_event"} : Goto(p, n)
  BY DEF ResolveWeatherLocation, FetchWeatherSnapshot, DeriveWeatherEvent
<1>3. n \notin Judging
  BY DEF Judging, Derived
<1> QED BY <1>1, <1>2, <1>3, OnwardIsAlone

LEMMA WeatherIsAlone ==
    ASSUME TypeOK, NEW p \in Procs, Alone(p),
           \/ DeduplicateWeatherEvent(p)
           \/ AnalyzeWeatherImpact(p)
           \/ BuildWeatherRepair(p)
    PROVE  Alone(p)'
<1>1. node[p] \in ActionNodes /\ phase[p] = "act"
  BY DEF DeduplicateWeatherEvent, AnalyzeWeatherImpact, BuildWeatherRepair, At,
         ActionNodes
<1>2. CASE Goto(p, "await_user_action")
  BY <1>2, GoneIsAlone
<1>3. CASE /\ \E n \in Judging : Goto(p, n)
           /\ UNCHANGED <<session, req, event>>
           /\ event[p] # NoEvent => ~Known(session, event[p])
  <2>1. PICK n \in Judging : Goto(p, n)
    BY <1>3
  <2>2. n \notin {"parse_edit", "apply_edit_clarification"}
    BY DEF Judging, Derived
  <2> QED BY <1>1, <1>3, <2>1, <2>2, OnwardIsAlone
<1>4. CASE DeduplicateWeatherEvent(p)
  <2>1. ~Known(seen[p], event[p]) => ~Known(session, event[p])
    BY <1>1 DEF Alone
  <2> QED BY <1>2, <1>3, <1>4, <2>1
          DEF DeduplicateWeatherEvent, WeatherTerminal, Commit, Judging, Derived
<1>5. CASE AnalyzeWeatherImpact(p)
  <2>1. event[p] # NoEvent => ~Known(session, event[p])
    BY <1>5 DEF AnalyzeWeatherImpact, At, Alone, Judging, Derived
  <2> QED BY <1>2, <1>3, <1>5, <2>1
          DEF AnalyzeWeatherImpact, WeatherTerminal, Commit, Judging, Derived
<1>6. CASE BuildWeatherRepair(p)
  <2>1. event[p] # NoEvent => ~Known(session, event[p])
    BY <1>6 DEF BuildWeatherRepair, At, Alone, Judging, Derived
  <2> QED BY <1>2, <1>3, <1>6, <2>1
          DEF BuildWeatherRepair, WeatherTerminal, Commit, Judging
<1> QED BY <1>4, <1>5, <1>6

LEMMA StepIsAlone ==
    ASSUME TypeOK, NEW p \in Procs, Alone(p),
           Step(p) \/ Crash(p) \/ \E r \in Requests : Resume(p, r)
    PROVE  Alone(p)'
<1>1. CASE \E r \in Requests : Resume(p, r)
  BY <1>1, ResumeIsAlone
<1>2. CASE ReadSession(p)
  BY <1>2, ReadIsAlone
<1>3. CASE \/ AwaitUserAction(p) \/ Raise(p) \/ Crash(p) \/ WeatherFailure(p)
           \/ SelectCandidate(p) \/ ChangeLock(p) \/ AskClarification(p)
           \/ RequireNewPlan(p) \/ BuildPreview(p) \/ RejectPreview(p)
           \/ ApprovePreview(p) \/ DismissWeatherEvent(p)
  BY <1>3, LeavingIsAlone
<1>4. CASE ParseEdit(p) \/ ApplyEditClarification(p) \/ AnalyzeChangeImpact(p)
  BY <1>4, EditIsAlone
<1>5. CASE ResolveWeatherLocation(p) \/ FetchWeatherSnapshot(p) \/ DeriveWeatherEvent(p)
  BY <1>5, ForecastIsAlone
<1>6. CASE \/ DeduplicateWeatherEvent(p)
           \/ AnalyzeWeatherImpact(p)
           \/ BuildWeatherRepair(p)
  BY <1>6, WeatherIsAlone
<1> QED BY <1>1, <1>2, <1>3, <1>4, <1>5, <1>6 DEF Step

(* A request in progress has no receipt, so the one it writes is the first.*)
LEMMA AnswersKeepReceipts ==
    ASSUME TypeOK, NEW p \in Procs, Alone(p), Result(p)
    PROVE  ReceiptsStand
<1>1. session.receipts \in [Requests -> Nat]
  BY SessionFields DEF TypeOK
<1>2. CASE session'.receipts = session.receipts
  BY <1>2 DEF ReceiptsStand
<1>3. CASE /\ node[p] \in ActionNodes
           /\ session'.receipts =
                 [session.receipts EXCEPT ![req[p].id] = session.revision + 1]
  <2>1. session.receipts[req[p].id] = 0
    BY <1>3 DEF Alone
  <2> QED BY <1>1, <1>3, <2>1 DEF ReceiptsStand
<1> QED BY <1>2, <1>3 DEF Result, Answers

-----------------------------------------------------------------------------
(* Weather events, receipts and previews                                   *)

(* A new event gets a receipt and takes none away.                         *)
LEMMA NotedReceipts ==
    ASSUME NEW e, NEW status, ~Known(session, e), Notes(e, status)
    PROVE  /\ session'.events = session.events \cup {[id |-> e, status |-> status]}
           /\ session'.attention = IF status = "needs_user_attention" THEN e ELSE NoEvent
BY DEF Notes, Known

(* A decision or a dismissal rewrites the receipt of one event.            *)
LEMMA ResolvedReceipts ==
    ASSUME NEW e, NEW status, NEW events, NEW after,
           after = ResolveEvent(events, e, status)
    PROVE  /\ \A x \in events : x.id # e => x \in after
           /\ \A x \in events : x.id = e => [id |-> e, status |-> status] \in after
BY DEF ResolveEvent

LEMMA ResolvedUnique ==
    ASSUME OneReceiptPerEvent, NEW e, NEW status,
           session'.events = ResolveEvent(session.events, e, status)
    PROVE  OneReceiptPerEvent'
<1>1. \A y \in session'.events : \/ y = [id |-> e, status |-> status]
                                 \/ y \in session.events /\ y.id # e
  BY DEF ResolveEvent
<1>2. ASSUME NEW x \in session'.events, NEW y \in session'.events, x.id = y.id
      PROVE  x = y
  <2>1. CASE x.id = e
    BY <1>1, <1>2, <2>1
  <2>2. CASE x.id # e
    <3>1. x \in session.events /\ y \in session.events
      BY <1>1, <1>2, <2>2
    <3> QED BY <1>2, <3>1 DEF OneReceiptPerEvent
  <2> QED BY <2>1, <2>2
<1> QED BY <1>2 DEF OneReceiptPerEvent

LEMMA ShownAsBeforeAgrees ==
    ASSUME WeatherAgrees, OneReceiptPerEvent, ShownAsBefore
    PROVE  WeatherAgrees' /\ OneReceiptPerEvent'
BY DEF ShownAsBefore, WeatherAgrees, OneReceiptPerEvent, OnePreviewPerEvent,
       EventFollowsPreview, AttentionIsOpen

LEMMA NotedUnique ==
    ASSUME OneReceiptPerEvent, NEW e, NEW status, ~Known(session, e), Notes(e, status)
    PROVE  OneReceiptPerEvent' /\ AttentionIsOpen'
<1>1. /\ session'.events = session.events \cup {[id |-> e, status |-> status]}
      /\ session'.attention = IF status = "needs_user_attention" THEN e ELSE NoEvent
  BY NotedReceipts
<1>2. \A x \in session.events : x.id # e
  BY DEF Known
<1>3. OneReceiptPerEvent'
  BY <1>1, <1>2 DEF OneReceiptPerEvent
<1>4. AttentionIsOpen'
  <2>1. CASE status = "needs_user_attention"
    <3>1. [id |-> e, status |-> status] \in session'.events
      BY <1>1
    <3>2. session'.attention = e
      BY <1>1, <2>1
    <3> QED BY <2>1, <3>1, <3>2 DEF AttentionIsOpen
  <2>2. CASE status # "needs_user_attention"
    BY <1>1, <2>2 DEF AttentionIsOpen
  <2> QED BY <2>1, <2>2
<1> QED BY <1>3, <1>4

LEMMA ObservesAgrees ==
    ASSUME WeatherAgrees, OneReceiptPerEvent, NEW p \in Procs, Observes(p),
           ~Known(session, event[p])
    PROVE  WeatherAgrees' /\ OneReceiptPerEvent'
<1>1. PICK status : Notes(event[p], status)
  BY DEF Observes
<1>2. session.events \subseteq session'.events
  BY <1>1, NotedReceipts
<1>3. session'.previews = session.previews
  BY DEF Observes
<1>4. OnePreviewPerEvent'
  BY <1>3 DEF WeatherAgrees, OnePreviewPerEvent
<1>5. EventFollowsPreview'
  BY <1>2, <1>3 DEF WeatherAgrees, EventFollowsPreview
<1> QED BY <1>1, <1>4, <1>5, NotedUnique DEF WeatherAgrees

LEMMA ProposesAgrees ==
    ASSUME IInv, WeatherAgrees, OneReceiptPerEvent, NEW p \in Procs, Proposes(p),
           event[p] # NoEvent => ~Known(session, event[p])
    PROVE  WeatherAgrees' /\ OneReceiptPerEvent'
<1> DEFINE L == Len(session.previews)
           e == event[p]
<1>1. PICK v \in Preview :
        /\ v.event = e /\ v.status \in {"pending", "invalid"}
        /\ session'.previews = Append(session.previews, v)
        /\ e = NoEvent =>
              /\ session'.events = session.events
              /\ session'.attention = session.attention
        /\ e # NoEvent =>
              Notes(e, IF v.status = "pending" THEN "preview_created"
                       ELSE "needs_user_attention")
  BY DEF Proposes
<1>2. session.previews \in Seq(Preview) /\ L \in Nat
  BY SessionFields DEF IInv, TypeOK
<1>3. /\ Len(session'.previews) = L + 1 /\ session'.previews[L + 1] = v
      /\ \A k \in 1 .. L : session'.previews[k] = session.previews[k]
  BY <1>1, <1>2
<1>4. /\ OnePreviewPerEvent /\ EventFollowsPreview /\ AttentionIsOpen
      /\ \A k \in 1 .. L : session.previews[k].event # NoEvent =>
            Known(session, session.previews[k].event)
  BY DEF WeatherAgrees, EventFollowsPreview, Known
<1>5. OnePreviewPerEvent'
  <2>1. ASSUME NEW j \in 1 .. L + 1, NEW k \in 1 .. L + 1,
               session'.previews[j].event # NoEvent,
               session'.previews[j].event = session'.previews[k].event
        PROVE  j = k
    <3>1. CASE j \in 1 .. L /\ k \in 1 .. L
      BY <1>3, <1>4, <2>1, <3>1 DEF OnePreviewPerEvent
    <3>2. ASSUME NEW i \in 1 .. L, session.previews[i].event = e, e # NoEvent
          PROVE  FALSE
      BY <1>4, <3>2
    <3>3. CASE j \in 1 .. L /\ k = L + 1
      BY <1>1, <1>3, <2>1, <3>2, <3>3
    <3>4. CASE j = L + 1 /\ k \in 1 .. L
      BY <1>1, <1>3, <2>1, <3>2, <3>4
    <3> QED BY <1>2, <3>1, <3>3, <3>4
  <2> QED BY <1>3, <2>1 DEF OnePreviewPerEvent
<1>6. CASE e = NoEvent
  <2>1. OneReceiptPerEvent' /\ AttentionIsOpen'
    BY <1>1, <1>4, <1>6 DEF OneReceiptPerEvent, AttentionIsOpen
  <2>2. EventFollowsPreview'
    BY <1>1, <1>2, <1>3, <1>4, <1>6 DEF EventFollowsPreview
  <2> QED BY <1>5, <2>1, <2>2 DEF WeatherAgrees
<1>7. CASE e # NoEvent
  <2> DEFINE told == IF v.status = "pending" THEN "preview_created"
                     ELSE "needs_user_attention"
  <2>1. Notes(e, told) /\ ~Known(session, e)
    BY <1>1, <1>7
  <2>2. v.status = "pending" => told = "preview_created"
    OBVIOUS
  <2>3. v.status # "pending" => told = "needs_user_attention"
    OBVIOUS
  <2> HIDE DEF told
  <2>4. session'.events = session.events \cup {[id |-> e, status |-> told]}
    BY <2>1, NotedReceipts
  <2>5. OneReceiptPerEvent' /\ AttentionIsOpen'
    BY <2>1, NotedUnique
  <2>6. EventFollowsPreview'
    <3>1. ASSUME NEW k \in 1 .. L, session'.previews[k].event # NoEvent
          PROVE  \E x \in session'.events :
                   /\ x.id = session'.previews[k].event
                   /\ session'.previews[k].status = "pending" =>
                         x.status = "preview_created"
                   /\ session'.previews[k].status \in {"approved", "rejected"} =>
                         x.status = session'.previews[k].status
                   /\ session'.previews[k].status = "invalid" =>
                         x.status \in {"needs_user_attention", "dismissed"}
      BY <1>3, <1>4, <2>4, <3>1 DEF EventFollowsPreview
    <3>2. \E x \in session'.events :
                   /\ x.id = v.event
                   /\ v.status = "pending" => x.status = "preview_created"
                   /\ v.status \in {"approved", "rejected"} => x.status = v.status
                   /\ v.status = "invalid" =>
                         x.status \in {"needs_user_attention", "dismissed"}
      <4>1. [id |-> e, status |-> told] \in session'.events
        BY <2>4
      <4>2. v.status = "pending" \/ v.status = "invalid"
        BY <1>1
      <4>3. v.event = e
        BY <1>1
      <4> QED BY <2>2, <2>3, <4>1, <4>2, <4>3
    <3> QED BY <1>2, <1>3, <3>1, <3>2 DEF EventFollowsPreview
  <2> QED BY <1>5, <2>5, <2>6 DEF WeatherAgrees
<1> QED BY <1>6, <1>7

LEMMA ResolvesAgrees ==
    ASSUME IInv, WeatherAgrees, OneReceiptPerEvent, Resolves
    PROVE  WeatherAgrees' /\ OneReceiptPerEvent'
<1> DEFINE L == Len(session.previews)
           k == session.pending
           e == session.previews[k].event
<1>1. PICK status \in {"approved", "rejected"} :
          /\ session'.previews = Decide(session.previews, k, status)
          /\ session'.events = ResolveEvent(session.events, e, status)
  BY DEF Resolves
<1>2. /\ session \in SessionRecord /\ k \in 1 .. L
      /\ session.previews[k].status = "pending"
  BY DEF IInv, SessionInv, HasPreview, Resolves, AwaitingApproval
<1>3. /\ Len(session'.previews) = L
      /\ \A j \in 1 .. L : j # k => session'.previews[j] = session.previews[j]
      /\ session'.previews[k].status = status
      /\ session'.previews[k].event = e
  <2>1. status \in PreviewStatuses
    BY DEF PreviewStatuses
  <2> QED BY <1>1, <1>2, <2>1, DecideFields
<1>4. /\ \A x \in session.events : x.id # e => x \in session'.events
      /\ \A x \in session.events : x.id = e =>
            [id |-> e, status |-> status] \in session'.events
  BY <1>1, ResolvedReceipts
<1>5. OnePreviewPerEvent /\ EventFollowsPreview /\ AttentionIsOpen
  BY DEF WeatherAgrees
<1>6. e # NoEvent =>
          \E x \in session.events : x.id = e /\ x.status = "preview_created"
  BY <1>2, <1>5 DEF EventFollowsPreview
<1>7. OneReceiptPerEvent'
  BY <1>1, ResolvedUnique
<1>8. OnePreviewPerEvent'
  <2>1. \A j \in 1 .. L : session'.previews[j].event = session.previews[j].event
    BY <1>3
  <2> QED BY <1>3, <1>5, <2>1 DEF OnePreviewPerEvent
<1>9. EventFollowsPreview'
  <2>1. ASSUME NEW j \in 1 .. L, j # k, session.previews[j].event # NoEvent
        PROVE  session.previews[j].event # e
    BY <1>2, <1>5, <2>1 DEF OnePreviewPerEvent
  <2>2. ASSUME NEW j \in 1 .. L, j # k, session'.previews[j].event # NoEvent
        PROVE  \E x \in session'.events :
                   /\ x.id = session'.previews[j].event
                   /\ session'.previews[j].status = "pending" =>
                         x.status = "preview_created"
                   /\ session'.previews[j].status \in {"approved", "rejected"} =>
                         x.status = session'.previews[j].status
                   /\ session'.previews[j].status = "invalid" =>
                         x.status \in {"needs_user_attention", "dismissed"}
    BY <1>3, <1>4, <1>5, <2>1, <2>2 DEF EventFollowsPreview
  <2>3. e # NoEvent => [id |-> e, status |-> status] \in session'.events
    BY <1>4, <1>6
  <2>4. session'.previews[k].event # NoEvent =>
            \E x \in session'.events :
                   /\ x.id = session'.previews[k].event
                   /\ session'.previews[k].status = "pending" =>
                         x.status = "preview_created"
                   /\ session'.previews[k].status \in {"approved", "rejected"} =>
                         x.status = session'.previews[k].status
                   /\ session'.previews[k].status = "invalid" =>
                         x.status \in {"needs_user_attention", "dismissed"}
    BY <1>3, <2>3
  <2> QED BY <1>2, <1>3, <2>2, <2>4 DEF EventFollowsPreview
<1>10. AttentionIsOpen'
  <2>1. session'.attention = session.attention
    BY DEF Resolves
  <2>2. ASSUME session.attention # NoEvent
        PROVE  \E x \in session'.events :
                   x.id = session.attention /\ x.status = "needs_user_attention"
    <3>1. PICK x \in session.events :
              x.id = session.attention /\ x.status = "needs_user_attention"
      BY <1>5, <2>2 DEF AttentionIsOpen
    <3>2. x.id # e
      BY <1>6, <2>2, <3>1 DEF OneReceiptPerEvent
    <3> QED BY <1>4, <3>1, <3>2
  <2> QED BY <2>1, <2>2 DEF AttentionIsOpen
<1> QED BY <1>7, <1>8, <1>9, <1>10 DEF WeatherAgrees

LEMMA DismissesAgrees ==
    ASSUME IInv, WeatherAgrees, OneReceiptPerEvent, Dismisses
    PROVE  WeatherAgrees' /\ OneReceiptPerEvent'
<1>1. PICK y \in session.events :
          /\ y.status = "needs_user_attention"
          /\ session'.events = ResolveEvent(session.events, y.id, "dismissed")
  BY DEF Dismisses
<1>2. session'.previews = session.previews /\ session'.attention = NoEvent
  BY DEF Dismisses
<1>3. /\ \A x \in session.events : x.id # y.id => x \in session'.events
      /\ [id |-> y.id, status |-> "dismissed"] \in session'.events
  BY <1>1, ResolvedReceipts
<1>4. OneReceiptPerEvent'
  BY <1>1, ResolvedUnique
<1>5. OnePreviewPerEvent' /\ AttentionIsOpen'
  BY <1>2 DEF WeatherAgrees, OnePreviewPerEvent, AttentionIsOpen
<1>6. ASSUME NEW k \in 1 .. Len(session.previews),
             session.previews[k].event # NoEvent
      PROVE  \E x \in session'.events :
                   /\ x.id = session.previews[k].event
                   /\ session.previews[k].status = "pending" =>
                         x.status = "preview_created"
                   /\ session.previews[k].status \in {"approved", "rejected"} =>
                         x.status = session.previews[k].status
                   /\ session.previews[k].status = "invalid" =>
                         x.status \in {"needs_user_attention", "dismissed"}
  <2>1. PICK x \in session.events :
                   /\ x.id = session.previews[k].event
                   /\ session.previews[k].status = "pending" =>
                         x.status = "preview_created"
                   /\ session.previews[k].status \in {"approved", "rejected"} =>
                         x.status = session.previews[k].status
                   /\ session.previews[k].status = "invalid" =>
                         x.status \in {"needs_user_attention", "dismissed"}
    BY <1>6 DEF WeatherAgrees, EventFollowsPreview
  <2>2. CASE x.id # y.id
    BY <1>3, <2>1, <2>2
  <2>3. CASE x.id = y.id
    <3>1. x.status = "needs_user_attention"
      BY <1>1, <2>3 DEF OneReceiptPerEvent
    <3>2. session.previews[k].status = "invalid"
      BY <2>1, <3>1, PreviewFields DEF IInv, TypeOK, PreviewStatuses
    <3> QED BY <1>3, <2>1, <2>3, <3>2
  <2> QED BY <2>2, <2>3
<1>7. EventFollowsPreview'
  BY <1>2, <1>6 DEF EventFollowsPreview
<1> QED BY <1>4, <1>5, <1>7 DEF WeatherAgrees

LEMMA ResultAgrees ==
    ASSUME IInv, WeatherAgrees, OneReceiptPerEvent, NEW p \in Procs, Alone(p), Result(p)
    PROVE  WeatherAgrees' /\ OneReceiptPerEvent'
<1>1. CASE ShownAsBefore
  BY <1>1, ShownAsBeforeAgrees
<1>2. CASE Observes(p)
  <2>1. ~Known(session, event[p])
    <3>1. CASE node[p] \in Judging
      BY <1>2, <3>1 DEF Observes, Alone
    <3> QED BY <1>2, <3>1 DEF Observes, LookedUp
  <2> QED BY <1>2, <2>1, ObservesAgrees
<1>3. CASE Proposes(p)
  <2>1. event[p] # NoEvent => ~Known(session, event[p])
    BY <1>3 DEF Proposes, Alone, Judging
  <2> QED BY <1>3, <2>1, ProposesAgrees
<1>4. CASE Resolves
  BY <1>4, ResolvesAgrees
<1>5. CASE Dismisses
  BY <1>5, DismissesAgrees
<1> QED BY <1>1, <1>2, <1>3, <1>4, <1>5 DEF Result, Outcome

LEMMA NextOInv == ASSUME OneProcess PROVE OInv /\ [Next]_vars => OInv'
<1>1. ASSUME OInv, Next PROVE OInv'
  <2>1. PICK p \in Procs :
          /\ Step(p) \/ Crash(p) \/ \E r \in Requests : Resume(p, r)
          /\ Result(p)
    BY <1>1, StepResult DEF OInv
  <2>2. IInv' /\ WeatherAgrees' /\ OneReceiptPerEvent'
    BY <1>1, <2>1, NextIInv, ResultAgrees DEF OInv
  <2>3. Alone(p)'
    BY <1>1, <2>1, StepIsAlone DEF OInv, IInv
  <2>4. \A q \in Procs : Alone(q)'
    BY <2>3 DEF OneProcess
  <2> QED BY <2>2, <2>4 DEF OInv
<1>2. ASSUME OInv, UNCHANGED vars PROVE OInv'
  <2>1. IInv'
    BY <1>2, NextIInv DEF OInv
  <2>2. (WeatherAgrees /\ OneReceiptPerEvent)'
    BY <1>2 DEF OInv, vars, WeatherAgrees, OneReceiptPerEvent, OnePreviewPerEvent,
                EventFollowsPreview, AttentionIsOpen
  <2>3. ASSUME NEW p \in Procs PROVE Alone(p)'
    BY <1>2 DEF OInv, vars, Alone, Known
  <2> QED BY <2>1, <2>2, <2>3 DEF OInv
<1> QED BY <1>1, <1>2

(* With one API process a weather event has one preview, and its receipt   *)
(* and the attention it asks for follow what became of that preview, in    *)
(* whichever order refreshes, decisions, dismissals and crashes come.      *)
THEOREM WeatherIsConsistent == ASSUME OneProcess PROVE Spec => []WeatherAgrees
<1>1. OInv => WeatherAgrees
  BY DEF OInv
<1> QED BY <1>1, InitOInv, NextOInv, PTL DEF Spec

(* With one API process what was answered stands: the decision on a        *)
(* preview, and the receipt of a request that is retried after a lost      *)
(* answer or a crash.                                                      *)
THEOREM AnswersStand == ASSUME OneProcess PROVE Spec => AnswersAreFinal
<1>1. OInv /\ [Next]_vars => [DecisionsStand /\ ReceiptsStand]_session
  <2>1. ASSUME OInv, Next PROVE DecisionsStand /\ ReceiptsStand
    BY <2>1, StepResult, ResultKeepsDecisions, AnswersKeepReceipts DEF OInv, IInv
  <2> QED BY <2>1 DEF vars
<1> QED BY <1>1, InitOInv, NextOInv, PTL DEF Spec, AnswersAreFinal
=============================================================================

----------------------- MODULE PreferenceMemory_proofs ----------------------
(***************************************************************************)
(* Proofs about PreferenceMemory, for any number of users, of processes    *)
(* and of clients, any set of preferences and any bounds.                  *)
(*                                                                         *)
(* What makes them hard is that a call reads in one step and writes in a   *)
(* later one.  The invariant therefore says what a call that is under way  *)
(* still knows of the row, the proposal or the settings that it has read:  *)
(* a row of the same revision is the row that it read (RowsAsRead), the    *)
(* settings of the same revision are those that it read (SwitchAsRead),    *)
(* and a proposal keeps its owner and its value (ProposalAsRead).          *)
(***************************************************************************)
EXTENDS PreferenceMemory, PreferenceContext_proofs

(* A request that a call carries out.                                      *)
Message ==
    [value : Values \cup {None}, expires : Moments, enabled : BOOLEAN,
     request : Requests \cup {None}, op : Ops, at : Stages,
     read : Row \cup Proposal \cup Settings \cup {None},
     found : SUBSET Contents, target : Nat, expected : Nat, draft : SUBSET Fields]

(* The operations that pass through a stage.                               *)
OpsAt ==
    [idle |-> {"none"}, find |-> {"create", "confirm"},
     insert |-> {"create", "confirm"}, get |-> {"update", "revoke", "confirm"},
     save |-> {"update", "revoke"}, delete |-> {"delete"}, clear |-> {"clear"},
     propose |-> {"propose"}, proposal |-> {"confirm", "reject"},
     resolve |-> {"confirm", "reject"}, settings |-> {"toggle", "list", "context"},
     switch |-> {"toggle"}, list |-> {"list", "context"}]

MessageFits(c) ==
    /\ call[c].op \in OpsAt[call[c].at]
    /\ call[c].op \in {"create", "update", "propose"} => call[c].value \in Values
    /\ call[c].op = "create" => call[c].target = 0
    /\ call[c].op = "confirm" /\ call[c].at = "resolve" => call[c].found # {}

(* A change of a memory names one that was made.  Its owner stays; and as  *)
(* long as no call saved it on another revision than it had read, the row  *)
(* only grows in revision, so that the row of the revision that was read   *)
(* is the row read.                                                        *)
RowAsRead(c) ==
    LET m == call[c].target
    IN  /\ call[c].op \in {"update", "revoke"} => m \in 1..Len(made)
        /\ call[c].at = "save" => call[c].read \in Row
        /\ call[c].at = "save" /\ m \in DOMAIN rows =>
            /\ call[c].read.owner = rows[m].owner
            /\ m \notin guessed =>
                /\ call[c].read.revision <= rows[m].revision
                /\ call[c].read.revision = rows[m].revision => call[c].read = rows[m]

(* Settings of the revision that was read are the settings read.           *)
SwitchAsRead(c) ==
    call[c].at = "switch" =>
        LET current == SettingsOf(who[c])
        IN  /\ call[c].read \in Settings
            /\ call[c].read.revision <= current.revision
            /\ call[c].read.revision = current.revision => call[c].read = current

(* A proposal keeps the owner and the value that were read.                *)
ProposalAsRead(c) ==
    call[c].op \in {"confirm", "reject"} =>
        /\ call[c].target \in DOMAIN proposals /\ call[c].request \in Requests
        /\ call[c].at # "proposal" =>
            /\ call[c].read \in Proposal
            /\ call[c].read.owner = who[c]
            /\ call[c].read.value = proposals[call[c].target].value
            /\ call[c].read.owner = proposals[call[c].target].owner

CallFits(c) ==
    MessageFits(c) /\ RowAsRead(c) /\ SwitchAsRead(c) /\ ProposalAsRead(c)

(* A memory repository has one process.                                    *)
OneHome == backend = "memory" => \A c, d \in Calls : home[c] = home[d]

(* Only PostgreSQL lets a content hash and the value of its row differ.    *)
HashesFit ==
    backend # "postgres" => \A m \in DOMAIN rows : rows[m].hash = rows[m].value

(* PostgreSQL keeps the hash and the owner of a memory that was made for a *)
(* proposal, so that its UNIQUE constraint refuses a second one.           *)
ProposalsMemory ==
    backend = "postgres" =>
        \A m \in DOMAIN rows : made[m] # 0 =>
            /\ made[m] \in DOMAIN proposals
            /\ rows[m].owner = proposals[made[m]].owner
            /\ rows[m].hash = proposals[made[m]].value

StoreInv ==
    /\ StoreTypeOK /\ OneHome /\ HashesFit /\ ProposalsMemory
    /\ OneMemoryPerProposal

ReplyInv == ReplyTypeOK /\ AnswersWhatWasAskedLocally

IInv ==
    /\ StoreInv /\ ReplyInv
    /\ call \in [Calls -> Message] /\ \A c \in Calls : CallFits(c)

(* What every step of one call leaves to the others: rows and settings     *)
(* change with their revision, unless it was guessed; rows and proposals   *)
(* keep their owner, proposals their value.                                *)
RowsOnward ==
    /\ Len(made) <= Len(made') /\ guessed \subseteq guessed'
    /\ \A m \in DOMAIN rows' : m \in 1..Len(made) =>
        /\ m \in DOMAIN rows /\ rows'[m].owner = rows[m].owner
        /\ \/ rows'[m] = rows[m] \/ rows'[m].revision > rows[m].revision
           \/ m \in guessed'

SettingsOnward ==
    \A u \in Users : \/ SettingsOf(u)' = SettingsOf(u)
                     \/ SettingsOf(u)'.revision > SettingsOf(u).revision

ProposalsOnward ==
    \A i \in DOMAIN proposals :
        /\ i \in DOMAIN proposals'
        /\ proposals'[i].value = proposals[i].value
        /\ proposals'[i].owner = proposals[i].owner

-----------------------------------------------------------------------------
(* Helpers.                                                                *)

(* find_content_hash answers with one of the rows that it looks for.       *)
LEMMA FoundIsLive ==
    ASSUME StoreTypeOK, NEW u, NEW v, Found(u, v) # 0
    PROVE  /\ Found(u, v) \in DOMAIN rows
           /\ rows[Found(u, v)].hash = v
<1> DEFINE live == {m \in DOMAIN rows : /\ rows[m].owner = u /\ rows[m].hash = v
                                        /\ ~rows[m].revoked}
<1>1. live # {} /\ Found(u, v) = Min(live)
  BY DEF Found
<1>2. live \in SUBSET Nat
  BY DEF StoreTypeOK
<1>3. Min(live) \in live
  <2> HIDE DEF live
  <2> DEFINE R == OpToRel(<, Nat)
  <2>1. IsWellFoundedOn(R, Nat)
    BY NatLessThanWellFounded
  <2>2. \A i, j \in Nat : i < j => <<i, j>> \in R
    BY DEF OpToRel
  <2> HIDE DEF R
  <2>3. PICK n \in live : \A m \in live : <<m, n>> \notin R
    BY <1>1, <1>2, <2>1, WFMin
  <2>4. ASSUME NEW m \in live PROVE n <= m
    <3>1. m \in Nat /\ n \in Nat
      BY <1>2
    <3>2. ~(m < n)
      BY <3>1, <2>2, <2>3
    <3> QED
      BY <3>1, <3>2
  <2> QED
    BY <1>2, <2>4 DEF Min
<1> QED
  BY <1>1, <1>3

LEMMA SettingsType == DefaultSettings \in Settings
  BY DEF DefaultSettings, Settings

LEMMA SettingsHold ==
    ASSUME StoreTypeOK, NEW u \in Users
    PROVE  SettingsOf(u) \in Settings
  BY SettingsType DEF StoreTypeOK, SettingsOf

(* The parts of a call that the steps of others leave as they are.         *)
LEMMA CallKept ==
    ASSUME StoreTypeOK, StoreTypeOK', NEW c \in Calls, call[c] \in Message,
           CallFits(c), call'[c] = call[c], who' = who,
           RowsOnward, SettingsOnward, ProposalsOnward
    PROVE  CallFits(c)'
<1>1. MessageFits(c)'
  BY DEF CallFits, MessageFits
<1>2. RowAsRead(c)'
  <2> DEFINE m == call[c].target
  <2>1. /\ RowAsRead(c) /\ m \in Nat /\ call[c].expected \in Nat
        /\ Len(made) \in Nat /\ Len(made') \in Nat /\ Len(made) <= Len(made')
    BY DEF CallFits, Message, StoreTypeOK, RowsOnward
  <2>2. call[c].op \in {"update", "revoke"} => m \in 1..Len(made')
    BY <2>1 DEF RowAsRead
  <2>3. CASE call[c].at = "save" /\ m \in DOMAIN rows'
    <3>1. m \in 1..Len(made)
      BY <2>1, <2>3 DEF CallFits, MessageFits, OpsAt, RowAsRead
    <3>2. /\ m \in DOMAIN rows /\ rows[m].revision \in Nat /\ rows'[m].revision \in Nat
          /\ rows'[m].owner = rows[m].owner /\ (m \in guessed => m \in guessed')
          /\ \/ rows'[m] = rows[m] \/ rows'[m].revision > rows[m].revision
             \/ m \in guessed'
      BY <3>1, <2>3 DEF RowsOnward, StoreTypeOK, Row
    <3>3. call[c].at = "save" => call[c].read.revision \in Nat
      BY <2>1 DEF RowAsRead, Row
    <3> QED
      BY <2>1, <2>2, <2>3, <3>2, <3>3 DEF RowAsRead
  <2> QED
    BY <2>1, <2>2, <2>3 DEF RowAsRead, CallFits, MessageFits, OpsAt
<1>3. SwitchAsRead(c)'
  <2>1. who[c] \in Users /\ SettingsOf(who[c]) \in Settings
    BY SettingsHold DEF StoreTypeOK
  <2>2. SettingsOf(who[c])' \in Settings
    BY <2>1, SettingsType DEF StoreTypeOK, SettingsOf
  <2> QED
    BY <2>1, <2>2 DEF CallFits, SwitchAsRead, SettingsOnward, Settings
<1>4. ProposalAsRead(c)'
  BY DEF CallFits, ProposalAsRead, ProposalsOnward
<1> QED
  BY <1>1, <1>2, <1>3, <1>4 DEF CallFits

(* A call that has ended, or was lost with its process.                    *)
LEMMA IdleFits ==
    ASSUME NEW c \in Calls, call'[c] = Request("none", "idle")
    PROVE  call'[c] \in Message /\ CallFits(c)'
<1>1. call'[c] \in Message
  BY DEF Request, Message, Moments, Never, Ops, Stages
<1>2. MessageFits(c)'
  BY DEF Request, MessageFits, OpsAt
<1>3. RowAsRead(c)' /\ SwitchAsRead(c)' /\ ProposalAsRead(c)'
  BY DEF Request, RowAsRead, SwitchAsRead, ProposalAsRead
<1> QED
  BY <1>1, <1>2, <1>3 DEF CallFits

(* A step of one call.                                                     *)
LEMMA CallStep ==
    ASSUME IInv, NEW c \in Calls, call'[c] \in Message, CallFits(c)',
           call' = [call EXCEPT ![c] = call'[c]], who' = who,
           StoreInv', ReplyInv', RowsOnward, SettingsOnward, ProposalsOnward
    PROVE  IInv'
<1>1. call' \in [Calls -> Message]
  BY DEF IInv
<1>2. ASSUME NEW d \in Calls PROVE CallFits(d)'
  <2>1. CASE d = c
    BY <2>1
  <2>2. CASE d # c
    BY <2>2, CallKept DEF IInv, StoreInv
  <2> QED
    BY <2>1, <2>2
<1> QED
  BY <1>1, <1>2 DEF IInv

(* A step that leaves rows, proposals and settings alone.                  *)
LEMMA StoreKept ==
    ASSUME StoreInv, UNCHANGED <<backend, home, who, guessed, rows, made, proposals, settings>>,
           decided' \in [Processes -> SUBSET Decision], now' \in 0..1,
           sent' \in 0..MaxCalls, faults' \in 0..MaxFaults
    PROVE  StoreInv' /\ RowsOnward /\ SettingsOnward /\ ProposalsOnward
<1>1. StoreTypeOK'
  BY DEF StoreInv, StoreTypeOK
<1>2. OneHome' /\ HashesFit' /\ ProposalsMemory' /\ OneMemoryPerProposal'
  BY DEF StoreInv, OneHome, HashesFit, ProposalsMemory, OneMemoryPerProposal
<1>3. RowsOnward /\ SettingsOnward /\ ProposalsOnward
  BY DEF StoreInv, StoreTypeOK, RowsOnward, SettingsOnward, SettingsOf, ProposalsOnward
<1> QED
  BY <1>1, <1>2, <1>3 DEF StoreInv

LEMMA QuietStep ==
    ASSUME IInv, NEW c \in Calls, call'[c] \in Message, CallFits(c)',
           call' = [call EXCEPT ![c] = call'[c]],
           UNCHANGED <<backend, home, who, guessed, rows, made, proposals, settings>>,
           decided' \in [Processes -> SUBSET Decision], now' \in 0..1,
           sent' \in 0..MaxCalls, faults' \in 0..MaxFaults, ReplyInv'
    PROVE  IInv'
  BY StoreKept, CallStep DEF IInv

(* The answer of a call, and a step that gives none.                       *)
LEMMA Answered ==
    ASSUME IInv, NEW c \in Calls, NEW status \in Statuses, NEW seen \in SUBSET Contents,
           NEW trip \in Trip \cup {None}, Replies(c, status, seen, trip), call[c].at # "idle",
           backend' = backend,
           call[c].op = "create" /\ backend # "postgres"
             => \A x \in seen : x.value = call[c].value
    PROVE  /\ ReplyInv' /\ call'[c] \in Message /\ CallFits(c)'
           /\ call' = [call EXCEPT ![c] = call'[c]]
<1>1. /\ call' = [call EXCEPT ![c] = Request("none", "idle")]
      /\ call'[c] = Request("none", "idle")
  BY DEF Replies, IInv
<1>2. call[c].op \in Ops \ {"none"}
  BY DEF IInv, CallFits, MessageFits, OpsAt, Message, Ops, Stages
<1>3. ReplyTypeOK'
  BY <1>2 DEF Replies, ReplyTypeOK
<1>4. AnswersWhatWasAskedLocally'
  BY DEF Replies, AnswersWhatWasAskedLocally, AnswersWhatWasAsked
<1> QED
  BY <1>1, <1>3, <1>4, IdleFits DEF ReplyInv

LEMMA Silent ==
    ASSUME reply' = None
    PROVE  ReplyInv'
  BY DEF ReplyInv, ReplyTypeOK, AnswersWhatWasAskedLocally, AnswersWhatWasAsked

-----------------------------------------------------------------------------
(* Requests.                                                               *)

LEMMA Asked ==
    ASSUME IInv, NEW c \in Calls, NEW r \in Message, Ask(c, r),
           r.op \in OpsAt[r.at], r.at \notin {"resolve", "save", "switch"},
           r.op \in {"create", "update", "propose"} => r.value \in Values,
           r.op = "create" => r.target = 0,
           r.op \in {"update", "revoke"} => r.target \in 1..Len(made),
           r.op \in {"confirm", "reject"} =>
             /\ r.at = "proposal" /\ r.target \in DOMAIN proposals
             /\ r.request \in Requests
    PROVE  IInv'
<1>1. /\ call' = [call EXCEPT ![c] = r] /\ call'[c] = r
      /\ reply' = None /\ who' = who
      /\ UNCHANGED <<backend, home, guessed, rows, made, proposals, settings, decided, now, faults>>
  BY DEF Ask, MayAsk, IInv, stored
<1>2. sent' \in 0..MaxCalls /\ now' \in 0..1 /\ faults' \in 0..MaxFaults
  BY <1>1, MemoryAssumption DEF Ask, MayAsk, IInv, StoreInv, StoreTypeOK
<1>3. decided' \in [Processes -> SUBSET Decision]
  BY <1>1 DEF IInv, StoreInv, StoreTypeOK
<1>4. MessageFits(c)' /\ SwitchAsRead(c)'
  BY <1>1 DEF MessageFits, SwitchAsRead
<1>5. RowAsRead(c)'
  BY <1>1 DEF RowAsRead, OpsAt
<1>6. ProposalAsRead(c)'
  BY <1>1 DEF ProposalAsRead
<1> QED
  BY <1>1, <1>2, <1>3, <1>4, <1>5, <1>6, Silent, QuietStep DEF CallFits

(* A request on nothing but values: to create or to propose.               *)
LEMMA AskPlain ==
    ASSUME IInv, NEW c \in Calls, AskCreate(c) \/ AskPropose(c) \/ AskClear(c) \/ AskList(c)
    PROVE  IInv'
<1> USE DEF Request, Message, Moments, MomentsOf, Never, Ops, Stages, OpsAt
<1>1. CASE AskCreate(c)
  <2>1. PICK v \in Values, e \in Moments :
            Ask(c, [Request("create", "find") EXCEPT !.value = v, !.expires = e])
    BY <1>1 DEF AskCreate
  <2> QED
    BY <2>1, Asked
<1>2. CASE AskPropose(c)
  <2>1. PICK v \in Values, e \in Moments :
            Ask(c, [Request("propose", "propose") EXCEPT !.value = v, !.expires = e])
    BY <1>2 DEF AskPropose
  <2> QED
    BY <2>1, Asked
<1>3. CASE AskClear(c)
  BY <1>3, Asked DEF AskClear
<1>4. CASE AskList(c)
  BY <1>4, Asked DEF AskList
<1> QED
  BY <1>1, <1>2, <1>3, <1>4

(* A request to change or to delete a memory, at any revision.             *)
LEMMA AskMemory ==
    ASSUME IInv, NEW c \in Calls, AskUpdate(c) \/ AskRevoke(c) \/ AskDelete(c)
    PROVE  IInv'
<1> USE DEF Request, Message, Moments, MomentsOf, Never, Ops, Stages, OpsAt
<1>1. \A r \in Revisions : r \in Nat
  BY MemoryAssumption DEF Revisions
<1>2. \A m \in 1..Len(made) : m \in Nat
  BY DEF IInv, StoreInv, StoreTypeOK
<1>3. CASE AskUpdate(c)
  <2>1. PICK m \in 1..Len(made), v \in Values : \E e \in Moments, r \in Revisions :
            Ask(c, [Request("update", "get") EXCEPT !.target = m, !.value = v,
                                                   !.expires = e, !.expected = r])
    BY <1>3 DEF AskUpdate
  <2>2. PICK e \in Moments, r \in Revisions :
            Ask(c, [Request("update", "get") EXCEPT !.target = m, !.value = v,
                                                   !.expires = e, !.expected = r])
    BY <2>1
  <2> QED
    BY <1>1, <1>2, <2>2, Asked
<1>4. CASE AskRevoke(c)
  <2>1. PICK m \in 1..Len(made) : \E r \in Revisions :
            Ask(c, [Request("revoke", "get") EXCEPT !.target = m, !.expected = r])
    BY <1>4 DEF AskRevoke
  <2>2. PICK r \in Revisions :
            Ask(c, [Request("revoke", "get") EXCEPT !.target = m, !.expected = r])
    BY <2>1
  <2> QED
    BY <1>1, <1>2, <2>2, Asked
<1>5. CASE AskDelete(c)
  BY <1>2, <1>5, Asked DEF AskDelete
<1> QED
  BY <1>3, <1>4, <1>5

LEMMA AskSwitch ==
    ASSUME IInv, NEW c \in Calls, AskToggle(c) \/ AskContext(c)
    PROVE  IInv'
<1> USE DEF Request, Message, Moments, Never, Ops, Stages, OpsAt
<1>1. CASE AskToggle(c)
  <2>1. PICK b \in BOOLEAN,
             r \in Revisions \cup {0} :
            Ask(c, [Request("toggle", "settings") EXCEPT !.enabled = b, !.expected = r])
    BY <1>1 DEF AskToggle
  <2>2. r \in Nat
    BY MemoryAssumption DEF Revisions
  <2> QED
    BY <2>1, <2>2, Asked
<1>2. CASE AskContext(c)
  BY <1>2, Asked, MemoryAssumption DEF AskContext
<1> QED
  BY <1>1, <1>2

(* A decision that its process has made before is answered at once.        *)
LEMMA AskDecides ==
    ASSUME IInv, NEW c \in Calls, NEW op \in {"confirm", "reject"}, AskDecision(c, op)
    PROVE  IInv'
<1>1. PICK i \in 1..Len(proposals), r \in Requests :
        LET replays == {d \in decided[home[c]] : d.user = who[c] /\ d.proposal = i
                                            /\ d.request = r /\ d.op = op}
            request == [Request(op, "proposal") EXCEPT !.target = i, !.request = r]
        IN  \/ /\ replays = {}
               /\ Ask(c, request)
            \/ \E d \in replays :
                /\ MayAsk(c) /\ UNCHANGED call
                /\ reply' = [value |-> None, status |-> "ok", op |-> op, seen |-> d.seen,
                             trip |-> None, target |-> i, draft |-> {}]
  BY DEF AskDecision
<1>2. i \in Nat /\ i \in DOMAIN proposals
  BY DEF IInv, StoreInv, StoreTypeOK
<1>3. CASE Ask(c, [Request(op, "proposal") EXCEPT !.target = i, !.request = r])
  BY <1>2, <1>3, Asked DEF Request, Message, Moments, Never, Ops, Stages, OpsAt
<1>4. ASSUME NEW d \in decided[home[c]], MayAsk(c), UNCHANGED call,
             reply' = [value |-> None, status |-> "ok", op |-> op, seen |-> d.seen,
                       trip |-> None, target |-> i, draft |-> {}]
      PROVE  IInv'
  <2>1. d.seen \subseteq Contents
    BY DEF IInv, StoreInv, StoreTypeOK, Decision
  <2>2. ReplyInv'
    BY <1>4, <2>1 DEF ReplyInv, ReplyTypeOK, AnswersWhatWasAskedLocally,
                      AnswersWhatWasAsked, Ops, Statuses
  <2>3. /\ call' = [call EXCEPT ![c] = call'[c]] /\ call'[c] \in Message
        /\ UNCHANGED <<backend, home, who, guessed, rows, made, proposals, settings, decided,
                       now, faults>>
        /\ sent' \in 0..MaxCalls
    BY <1>4, MemoryAssumption DEF MayAsk, stored, IInv, StoreInv, StoreTypeOK
  <2>4. CallFits(c)'
    BY <1>4, <2>3 DEF IInv, CallFits, MessageFits, RowAsRead, SwitchAsRead, SettingsOf,
                      ProposalAsRead
  <2> QED
    BY <2>2, <2>3, <2>4, QuietStep DEF IInv, StoreInv, StoreTypeOK
<1> QED
  BY <1>1, <1>3, <1>4

-----------------------------------------------------------------------------
(* Steps of a call.                                                        *)

LEMMA Gone ==
    ASSUME IInv, NEW c \in Calls, NEW stage \in Stages,
           NEW read \in Row \cup Proposal \cup Settings \cup {None},
           NEW found \in SUBSET Contents, Goes(c, stage, read, found)
    PROVE  /\ ReplyInv' /\ call'[c] \in Message
           /\ call' = [call EXCEPT ![c] = call'[c]]
           /\ call'[c].at = stage /\ call'[c].read = read /\ call'[c].found = found
           /\ call'[c].op = call[c].op /\ call'[c].target = call[c].target
           /\ call'[c].value = call[c].value /\ call'[c].request = call[c].request
           /\ call'[c].expected = call[c].expected
<1>1. call[c] \in Message
  BY DEF IInv
<1>2. call'[c] = [call[c] EXCEPT !.at = stage, !.read = read, !.found = found]
  BY DEF Goes, IInv
<1>3. call' = [call EXCEPT ![c] = call'[c]]
  BY <1>2 DEF Goes, IInv
<1>4. call'[c] \in Message
  BY <1>1, <1>2 DEF Message
<1>5. ReplyInv'
  BY Silent DEF Goes
<1> QED
  BY <1>1, <1>2, <1>3, <1>4, <1>5 DEF Message

(* What is known of the call whose turn it is.                             *)
LEMMA Turned ==
    ASSUME IInv, NEW c \in Calls
    PROVE  /\ call[c] \in Message /\ call[c].op \in OpsAt[call[c].at]
           /\ MessageFits(c) /\ RowAsRead(c) /\ SwitchAsRead(c) /\ ProposalAsRead(c)
           /\ who[c] \in Users /\ home[c] \in Processes
           /\ StoreTypeOK /\ now \in 0..1 /\ sent \in 0..MaxCalls
           /\ faults \in 0..MaxFaults /\ decided \in [Processes -> SUBSET Decision]
  BY DEF IInv, CallFits, MessageFits, StoreInv, StoreTypeOK

LEMMA ContentFits ==
    ASSUME IInv, NEW m \in DOMAIN rows
    PROVE  Content(m) \in Contents
  BY MemoryAssumption DEF IInv, StoreInv, StoreTypeOK, Content, Contents, Ids, Row

(* A call that changes no memory has no row to remember.                   *)
LEMMA NoRowRead ==
    ASSUME NEW c \in Calls, call'[c].at # "save", call'[c].op \notin {"update", "revoke"}
    PROVE  RowAsRead(c)'
  BY DEF RowAsRead

LEMMA FindStep ==
    ASSUME IInv, NEW c \in Calls, Find(c)
    PROVE  IInv'
<1> DEFINE v == Wanted(c).value
           m == Found(who[c], v)
<1>1. /\ call[c].at = "find" /\ call[c].op \in {"create", "confirm"}
      /\ UNCHANGED <<backend, home, who, guessed, now, sent, faults,
                     rows, made, proposals, settings, decided>>
  BY Turned DEF Find, At, others, stored, OpsAt
<1>2. m # 0 => m \in DOMAIN rows /\ rows[m].hash = v /\ Content(m) \in Contents
  BY FoundIsLive, Turned, ContentFits
<1>3. CASE m # 0 /\ call[c].op = "create" /\ Ends(c, "ok", {Content(m)})
  <2>1. backend # "postgres" => \A x \in {Content(m)} : x.value = call[c].value
    BY <1>2, <1>3 DEF Wanted, Content, IInv, StoreInv, HashesFit
  <2>2. "ok" \in Statuses /\ {Content(m)} \in SUBSET Contents
    BY <1>2, <1>3 DEF Statuses
  <2> HIDE DEF m
  <2> QED
    BY <1>1, <1>3, <2>1, <2>2, Answered, Turned, QuietStep DEF Ends
<1>4. CASE Fails(c, "refused")
  BY <1>1, <1>4, Answered, Turned, QuietStep DEF Fails, Ends, Statuses
<1>5. CASE m # 0 /\ call[c].op = "confirm" /\ Goes(c, "resolve", call[c].read, {Content(m)})
  <2>1. /\ "resolve" \in Stages /\ {Content(m)} \in SUBSET Contents
        /\ call[c].read \in Row \cup Proposal \cup Settings \cup {None}
    BY <1>2, <1>5, Turned DEF Stages, Message
  <2> HIDE DEF m
  <2>2. CallFits(c)'
    BY <1>1, <1>5, <2>1, Gone, Turned
    DEF CallFits, MessageFits, RowAsRead, SwitchAsRead, ProposalAsRead, OpsAt
  <2> QED
    BY <1>1, <1>5, <2>1, <2>2, Gone, Turned, QuietStep
<1>6. CASE Goes(c, "insert", call[c].read, {})
  <2>1. /\ "insert" \in Stages /\ {} \in SUBSET Contents
        /\ call[c].read \in Row \cup Proposal \cup Settings \cup {None}
    BY Turned DEF Stages, Message
  <2>2. CallFits(c)'
    <3>1. MessageFits(c)'
      BY <1>1, <1>6, <2>1, Gone, Turned DEF MessageFits, OpsAt
    <3>2. RowAsRead(c)'
      BY <1>1, <1>6, <2>1, Gone, NoRowRead
    <3>3. SwitchAsRead(c)' /\ ProposalAsRead(c)'
      BY <1>1, <1>6, <2>1, Gone, Turned DEF SwitchAsRead, ProposalAsRead
    <3> QED
      BY <3>1, <3>2, <3>3 DEF CallFits
  <2> QED
    BY <1>1, <1>6, <2>1, <2>2, Gone, Turned, QuietStep
<1> QED
  BY <1>1, <1>3, <1>4, <1>5, <1>6 DEF Find

LEMMA WantedFits ==
    ASSUME IInv, NEW c \in Calls, call[c].at \in {"find", "insert"}
    PROVE  /\ call[c].op \in {"create", "confirm"} /\ call[c].target \in 0..MaxProposals
           /\ Wanted(c).value \in Values /\ Wanted(c).expires \in Moments
<1>1. call[c].op \in {"create", "confirm"}
  BY Turned DEF OpsAt
<1>2. CASE call[c].op = "create"
  BY <1>2, Turned, MemoryAssumption DEF Wanted, MessageFits, Message
<1>3. CASE call[c].op = "confirm"
  <2>1. /\ call[c].read \in Proposal /\ call[c].target \in DOMAIN proposals
        /\ proposals \in Seq(Proposal) /\ Len(proposals) <= MaxProposals
        /\ MaxProposals \in Nat
    BY <1>3, Turned, MemoryAssumption DEF ProposalAsRead, StoreTypeOK
  <2> QED
    BY <1>3, <2>1 DEF Wanted, Proposal
<1> QED
  BY <1>1, <1>2, <1>3

(* A second memory of a proposal would have the hash and the owner of the  *)
(* first.                                                                  *)
LEMMA InsertStores ==
    ASSUME IInv, NEW c \in Calls, call[c].at = "insert", ~Duplicate(who[c], Wanted(c).value),
           Len(made) + 1 <= MaxMemories,
           rows' = [i \in DOMAIN rows \cup {Len(made) + 1} |->
                      IF i = Len(made) + 1
                      THEN Created(who[c], Wanted(c).value, Wanted(c).expires)
                      ELSE rows[i]],
           made' = Append(made, call[c].target),
           UNCHANGED <<backend, home, who, guessed, now, sent, faults, proposals, settings, decided>>
    PROVE  StoreInv' /\ RowsOnward
<1> DEFINE m == Len(made) + 1
           row == Created(who[c], Wanted(c).value, Wanted(c).expires)
<1>1. /\ Len(made) \in Nat /\ made \in Seq(0..MaxProposals) /\ DOMAIN rows \subseteq 1..Len(made)
      /\ m \notin DOMAIN rows /\ m \in Nat
  BY DEF IInv, StoreInv, StoreTypeOK
<1>2. row \in Row /\ row.owner = who[c] /\ row.hash = Wanted(c).value /\ row.value = row.hash
  BY WantedFits, Turned DEF Created, Row
<1>3. /\ made' \in Seq(0..MaxProposals) /\ Len(made') = m /\ made'[m] = call[c].target
      /\ \A i \in DOMAIN rows : made'[i] = made[i]
  BY <1>1, WantedFits
<1>4. /\ DOMAIN rows' = DOMAIN rows \cup {m} /\ rows'[m] = row
      /\ \A i \in DOMAIN rows : rows'[i] = rows[i]
  BY <1>1
<1> HIDE DEF row, m
<1>5. StoreTypeOK'
  <2>1. DOMAIN rows' \subseteq 1..Len(made') /\ Len(made') <= MaxMemories
    BY <1>1, <1>3, <1>4 DEF m
  <2>2. \A i \in DOMAIN rows' : rows'[i] \in Row
    BY <1>2, <1>4 DEF IInv, StoreInv, StoreTypeOK
  <2>3. guessed' \subseteq 1..Len(made')
    BY <1>1, <1>3 DEF IInv, StoreInv, StoreTypeOK, m
  <2> QED
    BY <1>3, <2>1, <2>2, <2>3 DEF IInv, StoreInv, StoreTypeOK
<1>6. HashesFit' /\ OneHome'
  BY <1>2, <1>4 DEF IInv, StoreInv, HashesFit, OneHome
<1>7. backend = "postgres" /\ call[c].target # 0 =>
        /\ call[c].target \in DOMAIN proposals
        /\ row.owner = proposals[call[c].target].owner
        /\ row.hash = proposals[call[c].target].value
  BY <1>2, WantedFits, Turned DEF MessageFits, ProposalAsRead, Wanted
<1>8. ProposalsMemory'
  <2> SUFFICES ASSUME backend = "postgres", NEW i \in DOMAIN rows', made'[i] # 0
               PROVE  /\ made'[i] \in DOMAIN proposals
                      /\ rows'[i].owner = proposals[made'[i]].owner
                      /\ rows'[i].hash = proposals[made'[i]].value
    BY DEF ProposalsMemory
  <2>1. CASE i = m
    BY <1>3, <1>4, <1>7, <2>1
  <2>2. CASE i \in DOMAIN rows
    BY <1>3, <1>4, <2>2 DEF IInv, StoreInv, ProposalsMemory
  <2> QED
    BY <1>4, <2>1, <2>2
<1>9. OneMemoryPerProposal'
  <2>1. ASSUME backend = "postgres", call[c].target # 0, NEW i \in DOMAIN rows
        PROVE  made[i] # call[c].target
    <3>1. rows[i].owner # who[c] \/ rows[i].hash # Wanted(c).value
      BY <2>1 DEF Duplicate
    <3> QED
      BY <1>2, <1>7, <2>1, <3>1 DEF IInv, StoreInv, ProposalsMemory
  <2> SUFFICES ASSUME backend = "postgres", NEW i \in DOMAIN rows', NEW j \in DOMAIN rows',
                      made'[i] = made'[j], made'[i] # 0
               PROVE  i = j
    BY DEF OneMemoryPerProposal
  <2>2. CASE i = m \/ j = m
    BY <1>3, <1>4, <2>1, <2>2
  <2>3. CASE i \in DOMAIN rows /\ j \in DOMAIN rows
    BY <1>3, <2>3 DEF IInv, StoreInv, OneMemoryPerProposal
  <2> QED
    BY <1>4, <2>2, <2>3
<1>10. RowsOnward
  BY <1>1, <1>3, <1>4 DEF RowsOnward, m
<1> QED
  BY <1>5, <1>6, <1>8, <1>9, <1>10 DEF StoreInv

LEMMA InsertStep ==
    ASSUME IInv, NEW c \in Calls, Insert(c)
    PROVE  IInv'
<1> DEFINE m == Len(made) + 1
           new == [id |-> m, value |-> Wanted(c).value]
<1>1. /\ call[c].at = "insert" /\ call[c].op \in {"create", "confirm"} /\ m <= MaxMemories
      /\ UNCHANGED <<backend, home, who, guessed, now, sent, faults, proposals, settings, decided>>
  BY WantedFits DEF Insert, At, others
<1>2. CASE Duplicate(who[c], Wanted(c).value)
  BY <1>1, <1>2, Answered, Turned, QuietStep DEF Insert, Fails, Ends, Statuses
<1>3. CASE ~Duplicate(who[c], Wanted(c).value)
  <2>1. StoreInv' /\ RowsOnward
    BY <1>1, <1>3, InsertStores DEF Insert
  <2>2. SettingsOnward /\ ProposalsOnward
    BY <1>1 DEF SettingsOnward, SettingsOf, ProposalsOnward
  <2>3. {new} \in SUBSET Contents
    BY <1>1, WantedFits, MemoryAssumption, Turned DEF Contents, Ids, StoreTypeOK
  <2>4. CASE call[c].op = "create"
    <3>1. Ends(c, "ok", {new})
      BY <1>3, <2>4 DEF Insert
    <3>2. \A x \in {new} : x.value = call[c].value
      BY <2>4 DEF Wanted
    <3> HIDE DEF new
    <3> QED
      BY <1>1, <2>1, <2>2, <2>3, <3>1, <3>2, Answered, CallStep DEF Ends, Statuses
  <2>5. CASE call[c].op # "create"
    <3>1. /\ Goes(c, "resolve", call[c].read, {new}) /\ "resolve" \in Stages
          /\ call[c].read \in Row \cup Proposal \cup Settings \cup {None}
      BY <1>3, <2>5, Turned DEF Insert, Stages, Message
    <3> HIDE DEF new
    <3>2. MessageFits(c)'
      BY <1>1, <2>3, <2>5, <3>1, Gone, Turned DEF MessageFits, OpsAt
    <3>3. RowAsRead(c)'
      BY <1>1, <2>3, <2>5, <3>1, Gone, Turned, NoRowRead DEF OpsAt
    <3>4. SwitchAsRead(c)' /\ ProposalAsRead(c)'
      BY <1>1, <2>3, <2>5, <3>1, Gone, Turned DEF SwitchAsRead, ProposalAsRead
    <3> QED
      BY <1>1, <2>1, <2>2, <2>3, <3>1, <3>2, <3>3, <3>4, Gone, CallStep DEF CallFits
  <2> QED
    BY <2>4, <2>5
<1> QED
  BY <1>2, <1>3

LEMMA DecideFits ==
    ASSUME IInv, NEW c \in Calls, NEW seen \in SUBSET Contents, Decide(c, seen),
           call[c].op \in {"confirm", "reject"}
    PROVE  decided' \in [Processes -> SUBSET Decision]
<1>1. call[c].target \in Nat /\ call[c].request \in Requests
  BY Turned DEF Message, ProposalAsRead
<1> QED
  BY <1>1, Turned DEF Decide, Decision

LEMMA GetStep ==
    ASSUME IInv, NEW c \in Calls, Get(c)
    PROVE  IInv'
<1> DEFINE m == IF call[c].op = "confirm" THEN call[c].read.memory
                ELSE call[c].target
<1>1. /\ call[c].at = "get" /\ call[c].op \in {"update", "revoke", "confirm"}
      /\ UNCHANGED <<backend, home, who, guessed, now, sent, faults,
                     rows, made, proposals, settings>>
  BY Turned DEF Get, At, others, OpsAt
<1>2. CASE Fails(c, "not_found") /\ UNCHANGED decided
  BY <1>1, <1>2, Answered, Turned, QuietStep DEF Fails, Ends, Statuses
<1>3. CASE /\ call[c].op = "confirm" /\ m \in DOMAIN rows
           /\ Ends(c, "ok", {Content(m)}) /\ Decide(c, {Content(m)})
  <2>1. {Content(m)} \in SUBSET Contents
    BY <1>3, ContentFits
  <2> HIDE DEF m
  <2>2. decided' \in [Processes -> SUBSET Decision]
    BY <1>3, <2>1, DecideFits
  <2> QED
    BY <1>1, <1>3, <2>1, <2>2, Answered, Turned, QuietStep DEF Ends, Statuses
<1>4. CASE /\ call[c].op # "confirm" /\ m \in DOMAIN rows
           /\ Goes(c, "save", rows[m], {}) /\ UNCHANGED decided
  <2>1. m = call[c].target /\ rows[m] \in Row /\ "save" \in Stages
    BY <1>4, Turned DEF StoreTypeOK, Stages
  <2> HIDE DEF m
  <2>2. MessageFits(c)' /\ SwitchAsRead(c)' /\ ProposalAsRead(c)'
    BY <1>1, <1>4, <2>1, Gone, Turned DEF MessageFits, SwitchAsRead, ProposalAsRead, OpsAt
  <2>3. RowAsRead(c)'
    BY <1>1, <1>4, <2>1, Gone, Turned DEF RowAsRead, Row
  <2> QED
    BY <1>1, <1>4, <2>1, <2>2, <2>3, Gone, Turned, QuietStep DEF CallFits
<1> QED
  BY <1>2, <1>3, <1>4 DEF Get, Owned

(* The two changes of a row.                                               *)
LEMMA RowRevoked ==
    ASSUME NEW r \in Row
    PROVE  LET new == [r EXCEPT !.revoked = TRUE, !.revision = @ + 1]
           IN  /\ new \in Row /\ new.owner = r.owner
               /\ new.revoked /\ new.revision = r.revision + 1
<1> DEFINE new == [r EXCEPT !.revoked = TRUE, !.revision = @ + 1]
<1>1. r.revision + 1 \in Nat \ {0}
  BY DEF Row
<1>2. new \in Row
  BY <1>1 DEF Row
<1>3. new.owner = r.owner /\ new.revision = r.revision + 1
  BY DEF Row
<1>4. new.revoked
  BY DEF Row
<1> QED
  BY <1>2, <1>3, <1>4

LEMMA RowUpdated ==
    ASSUME NEW r \in Row, NEW v \in Values, NEW e \in Moments
    PROVE  LET new == [r EXCEPT !.value = v, !.expires = e, !.revision = @ + 1]
           IN  /\ new \in Row /\ new.owner = r.owner
               /\ new.revoked = r.revoked /\ new.revision = r.revision + 1
<1> DEFINE new == [r EXCEPT !.value = v, !.expires = e, !.revision = @ + 1]
<1>1. r.revision + 1 \in Nat \ {0}
  BY DEF Row
<1>2. new \in Row
  BY <1>1 DEF Row
<1>3. new.owner = r.owner /\ new.revision = r.revision + 1
  BY DEF Row
<1>4. new.revoked = r.revoked
  BY DEF Row
<1> QED
  BY <1>2, <1>3, <1>4

(* A save that is accepted writes a row of the same owner, and, unless a   *)
(* revision was guessed, over the row that the call has read.              *)
LEMMA SavesWhatItRead ==
    ASSUME IInv, NEW c \in Calls, call[c].at = "save",
           SaveAccepted(call[c].target, who[c], call[c].expected)
    PROVE  LET m == call[c].target IN
           /\ m \in DOMAIN rows /\ Changed(c) \in Row /\ Saved(m, Changed(c)) \in Row
           /\ Changed(c).owner = rows[m].owner
           /\ m \notin guessed /\ call[c].expected = call[c].read.revision =>
                /\ call[c].read = rows[m]
                /\ Changed(c).revision = rows[m].revision + 1
                /\ rows[m].revoked => Changed(c).revoked
<1> DEFINE m == call[c].target
           read == call[c].read
<1>1. m \in DOMAIN rows /\ rows[m] \in Row /\ read \in Row /\ read.owner = rows[m].owner
  BY Turned DEF SaveAccepted, Owned, StoreTypeOK, RowAsRead
<1>2. m \notin guessed /\ call[c].expected = read.revision => read = rows[m]
  BY <1>1, Turned DEF SaveAccepted, RowAsRead
<1>3. call[c].op \in {"update", "revoke"} /\ call[c].expires \in Moments
  BY Turned DEF OpsAt, Message
<1>4. /\ Changed(c) \in Row /\ Changed(c).owner = read.owner
      /\ Changed(c).revision = read.revision + 1
      /\ read.revoked => Changed(c).revoked
  <2>1. CASE call[c].op = "revoke"
    BY <1>1, <2>1, RowRevoked DEF Changed
  <2>2. CASE call[c].op = "update"
    <3>1. call[c].value \in Values
      BY <2>2, Turned DEF MessageFits
    <3> DEFINE new == [read EXCEPT !.value = call[c].value,
                          !.expires = call[c].expires, !.revision = @ + 1]
    <3>2. /\ new \in Row /\ new.owner = read.owner
          /\ new.revoked = read.revoked /\ new.revision = read.revision + 1
      BY <1>1, <1>3, <3>1, RowUpdated
    <3>3. Changed(c) = new
      BY <2>2 DEF Changed
    <3> HIDE DEF new
    <3> QED
      BY <3>2, <3>3
  <2> QED
    BY <1>3, <2>1, <2>2
<1>5. Saved(m, Changed(c)) \in Row
  <2> HIDE DEF m
  <2>1. \A h \in Values : [Changed(c) EXCEPT !.hash = h] \in Row
    BY <1>4 DEF Row
  <2> QED
    BY <1>1, <1>4, <2>1 DEF Saved, Row
<1> QED
  BY <1>1, <1>2, <1>4, <1>5

LEMMA SaveStores ==
    ASSUME IInv, NEW c \in Calls, call[c].at = "save",
           SaveAccepted(call[c].target, who[c], call[c].expected),
           rows' = [rows EXCEPT ![call[c].target] = Saved(call[c].target, Changed(c))],
           guessed' = guessed \cup {i \in {call[c].target} :
                                      call[c].expected # call[c].read.revision},
           UNCHANGED <<backend, home, who, now, sent, faults, made, proposals, settings,
                       decided>>
    PROVE  StoreInv' /\ RowsOnward
<1> DEFINE m == call[c].target
           row == Saved(m, Changed(c))
<1>1. /\ m \in DOMAIN rows /\ rows[m] \in Row /\ row \in Row /\ Changed(c) \in Row
      /\ DOMAIN rows' = DOMAIN rows /\ rows'[m] = row
      /\ \A i \in DOMAIN rows : i # m => rows'[i] = rows[i]
  BY SavesWhatItRead, Turned DEF StoreTypeOK
<1>2. /\ row.owner = rows[m].owner
      /\ m \notin guessed' => row.revision = rows[m].revision + 1
      /\ guessed \subseteq guessed' /\ guessed' \subseteq guessed \cup {m}
      /\ backend = "postgres" => row.hash = rows[m].hash
      /\ backend # "postgres" => row.hash = row.value
  BY <1>1, SavesWhatItRead DEF Saved, Row
<1> HIDE DEF row, m
<1>3. StoreTypeOK'
  <2>1. \A i \in DOMAIN rows' : rows'[i] \in Row
    BY <1>1, Turned DEF StoreTypeOK
  <2>2. guessed' \subseteq 1..Len(made')
    BY <1>1, <1>2, Turned DEF StoreTypeOK
  <2> QED
    BY <1>1, <2>1, <2>2, Turned DEF StoreTypeOK
<1>4. HashesFit' /\ OneHome'
  BY <1>1, <1>2 DEF IInv, StoreInv, HashesFit, OneHome
<1>5. ProposalsMemory' /\ OneMemoryPerProposal'
  BY <1>1, <1>2 DEF IInv, StoreInv, ProposalsMemory, OneMemoryPerProposal
<1>6. RowsOnward
  BY <1>1, <1>2, Turned DEF RowsOnward, StoreTypeOK, Row
<1> QED
  BY <1>3, <1>4, <1>5, <1>6 DEF StoreInv

LEMMA SaveStep ==
    ASSUME IInv, NEW c \in Calls, Save(c)
    PROVE  IInv'
<1> DEFINE m == call[c].target
           new == [id |-> m, value |-> Changed(c).value]
<1>1. /\ call[c].at = "save" /\ call[c].op \in {"update", "revoke"}
      /\ UNCHANGED <<backend, home, who, now, sent, faults, made, proposals, settings,
                     decided>>
  BY Turned DEF Save, At, OpsAt
<1>2. CASE SaveAccepted(m, who[c], call[c].expected)
  <2>1. StoreInv' /\ RowsOnward
    BY <1>1, <1>2, SaveStores DEF Save
  <2>2. SettingsOnward /\ ProposalsOnward
    BY <1>1 DEF SettingsOnward, SettingsOf, ProposalsOnward
  <2>3. Ends(c, "ok", {new}) /\ {new} \in SUBSET Contents
    <3>1. m \in Ids /\ Changed(c).value \in Values
      BY <1>1, <1>2, SavesWhatItRead, Turned, MemoryAssumption DEF StoreTypeOK, Ids, Row
    <3> QED
      BY <1>2, <3>1 DEF Save, Contents
  <2> HIDE DEF new
  <2> QED
    BY <1>1, <2>1, <2>2, <2>3, Answered, CallStep DEF Ends, Statuses
<1>3. CASE ~SaveAccepted(m, who[c], call[c].expected)
  <2>1. PICK status \in {"conflict", "not_found"} : Fails(c, status) /\ UNCHANGED <<rows, guessed>>
    BY <1>3 DEF Save
  <2> QED
    BY <1>1, <2>1, Answered, Turned, QuietStep DEF Fails, Ends, Statuses
<1> QED
  BY <1>2, <1>3

(* Memories only leave the store.                                          *)
LEMMA RowsRemoved ==
    ASSUME IInv, NEW S \in SUBSET DOMAIN rows, rows' = Restrict(rows, S),
           UNCHANGED <<backend, home, who, guessed, now, sent, faults, made, proposals, settings,
                       decided>>
    PROVE  StoreInv' /\ RowsOnward /\ SettingsOnward /\ ProposalsOnward
<1>1. DOMAIN rows' = S /\ \A i \in S : rows'[i] = rows[i]
  BY DEF Restrict
<1>2. StoreTypeOK'
  BY <1>1 DEF IInv, StoreInv, StoreTypeOK
<1>3. OneHome' /\ HashesFit' /\ ProposalsMemory' /\ OneMemoryPerProposal'
  BY <1>1 DEF IInv, StoreInv, OneHome, HashesFit, ProposalsMemory, OneMemoryPerProposal
<1>4. RowsOnward /\ SettingsOnward /\ ProposalsOnward
  BY <1>1, <1>2 DEF RowsOnward, SettingsOnward, SettingsOf, ProposalsOnward, StoreTypeOK
<1> QED
  BY <1>2, <1>3, <1>4 DEF StoreInv

LEMMA DeleteStep ==
    ASSUME IInv, NEW c \in Calls, Delete(c) \/ Clear(c)
    PROVE  IInv'
<1>1. /\ call[c].at \in {"delete", "clear"} /\ call[c].op \in {"delete", "clear"}
      /\ UNCHANGED <<backend, home, who, guessed, now, sent, faults, made, proposals, settings,
                     decided>>
  BY Turned DEF Delete, Clear, At, others, OpsAt
<1>2. \/ Fails(c, "not_found") /\ UNCHANGED rows
      \/ Ends(c, "ok", {}) /\ \E S \in SUBSET DOMAIN rows : rows' = Restrict(rows, S)
  BY DEF Delete, Clear
<1>3. CASE Fails(c, "not_found") /\ UNCHANGED rows
  BY <1>1, <1>3, Answered, Turned, QuietStep DEF Fails, Ends, Statuses
<1>4. CASE Ends(c, "ok", {}) /\ \E S \in SUBSET DOMAIN rows : rows' = Restrict(rows, S)
  BY <1>1, <1>4, Answered, RowsRemoved, CallStep DEF Ends, Statuses
<1> QED
  BY <1>2, <1>3, <1>4

(* Proposals are added, and their owners and values stay.                  *)
LEMMA ProposalsStored ==
    ASSUME IInv, proposals' \in Seq(Proposal), Len(proposals') <= MaxProposals,
           ProposalsOnward, decided' \in [Processes -> SUBSET Decision],
           UNCHANGED <<backend, home, who, guessed, now, sent, faults, rows, made, settings>>
    PROVE  StoreInv' /\ RowsOnward /\ SettingsOnward
<1>1. StoreTypeOK'
  BY DEF IInv, StoreInv, StoreTypeOK
<1>2. OneHome' /\ HashesFit' /\ OneMemoryPerProposal'
  BY DEF IInv, StoreInv, OneHome, HashesFit, OneMemoryPerProposal
<1>3. ProposalsMemory'
  BY DEF IInv, StoreInv, ProposalsMemory, ProposalsOnward
<1>4. RowsOnward /\ SettingsOnward
  BY DEF IInv, StoreInv, StoreTypeOK, RowsOnward, SettingsOnward, SettingsOf
<1> QED
  BY <1>1, <1>2, <1>3, <1>4 DEF StoreInv

LEMMA ProposeStep ==
    ASSUME IInv, NEW c \in Calls, Propose(c)
    PROVE  IInv'
<1> DEFINE new == [owner |-> who[c], value |-> call[c].value,
                   expires |-> call[c].expires, status |-> "pending", memory |-> 0]
<1>1. /\ call[c].at = "propose" /\ call[c].op = "propose" /\ call[c].value \in Values
      /\ UNCHANGED <<backend, home, who, guessed, now, sent, faults, rows, made, settings, decided>>
      /\ Ends(c, "ok", {})
  BY Turned DEF Propose, At, others, OpsAt, MessageFits
<1>2. new \in Proposal
  BY <1>1, Turned, MemoryAssumption DEF Proposal, Message
<1>3. proposals' = Append(proposals, new) /\ Len(proposals) < MaxProposals
  BY DEF Propose
<1> HIDE DEF new
<1>4. proposals' \in Seq(Proposal) /\ Len(proposals') <= MaxProposals /\ ProposalsOnward
  BY <1>2, <1>3, Turned, MemoryAssumption DEF StoreTypeOK, ProposalsOnward
<1> QED
  BY <1>1, <1>4, Turned, Answered, ProposalsStored, CallStep DEF Ends, Statuses

LEMMA GetProposalStep ==
    ASSUME IInv, NEW c \in Calls, GetProposal(c)
    PROVE  IInv'
<1> DEFINE proposal == proposals[call[c].target]
<1>1. /\ call[c].at = "proposal" /\ call[c].op \in {"confirm", "reject"}
      /\ UNCHANGED <<backend, home, who, guessed, now, sent, faults, rows, made, proposals, settings>>
      /\ call[c].target \in DOMAIN proposals
  BY Turned DEF GetProposal, At, others, OpsAt, ProposalAsRead
<1>2. proposal \in Proposal
  BY <1>1, Turned DEF StoreTypeOK
<1>3. decided' \in [Processes -> SUBSET Decision]
  BY <1>1, DecideFits, Turned DEF GetProposal
<1>4. CASE \E status \in {"not_found", "conflict", "ok"} : Ends(c, status, {})
  BY <1>1, <1>3, <1>4, Answered, Turned, QuietStep DEF Ends, Statuses
<1>5. ASSUME NEW stage \in {"get", "find", "resolve"}, Goes(c, stage, proposal, {}),
             proposal.owner = who[c],
             stage = "resolve" <=> call[c].op = "reject"
      PROVE  IInv'
  <2>1. stage \in Stages
    BY DEF Stages
  <2> HIDE DEF proposal
  <2>2. MessageFits(c)' /\ SwitchAsRead(c)' /\ RowAsRead(c)'
    BY <1>1, <1>2, <1>5, <2>1, Gone, Turned
    DEF MessageFits, SwitchAsRead, RowAsRead, OpsAt
  <2>3. ProposalAsRead(c)'
    BY <1>1, <1>2, <1>5, <2>1, Gone, Turned DEF ProposalAsRead, proposal
  <2> QED
    BY <1>1, <1>2, <1>3, <1>5, <2>1, <2>2, <2>3, Gone, Turned, QuietStep DEF CallFits
<1> QED
  BY <1>1, <1>4, <1>5 DEF GetProposal, Fails

(* Whatever is written over a proposal is what it was, and its decision.   *)
LEMMA ResolveStep ==
    ASSUME IInv, NEW c \in Calls, Resolve(c)
    PROVE  IInv'
<1> DEFINE resolved == IF call[c].op = "confirm"
                       THEN [call[c].read EXCEPT !.status = "confirmed",
                               !.memory = (CHOOSE x \in call[c].found : TRUE).id]
                       ELSE [call[c].read EXCEPT !.status = "rejected"]
           t == call[c].target
<1>1. /\ call[c].at = "resolve" /\ call[c].op \in {"confirm", "reject"}
      /\ UNCHANGED <<backend, home, who, guessed, now, sent, faults, rows, made, settings>>
      /\ Ends(c, "ok", call[c].found) /\ Decide(c, call[c].found)
      /\ proposals' = [proposals EXCEPT ![t] = resolved]
      /\ call[c].found \in SUBSET Contents
  BY Turned DEF Resolve, At, others, OpsAt, Message
<1>2. /\ t \in DOMAIN proposals /\ call[c].read \in Proposal
      /\ call[c].read.value = proposals[t].value
      /\ call[c].read.owner = proposals[t].owner
  BY <1>1, Turned DEF ProposalAsRead
<1>3. /\ resolved \in Proposal /\ resolved.value = proposals[t].value
      /\ resolved.owner = proposals[t].owner
  <2>1. CASE call[c].op = "confirm"
    <3>1. (CHOOSE x \in call[c].found : TRUE).id \in 0..MaxMemories
      <4>1. (CHOOSE x \in call[c].found : TRUE) \in call[c].found
        BY <1>1, <2>1, Turned DEF MessageFits
      <4> QED
        BY <1>1, <4>1, MemoryAssumption DEF Contents, Ids
    <3> QED
      BY <1>2, <2>1, <3>1 DEF Proposal
  <2>2. CASE call[c].op # "confirm"
    BY <1>2, <2>2 DEF Proposal
  <2> QED
    BY <2>1, <2>2
<1> HIDE DEF resolved, t
<1>4. decided' \in [Processes -> SUBSET Decision]
  BY <1>1, DecideFits
<1>5. proposals' \in Seq(Proposal) /\ Len(proposals') <= MaxProposals /\ ProposalsOnward
  BY <1>1, <1>2, <1>3, Turned DEF StoreTypeOK, ProposalsOnward
<1> QED
  BY <1>1, <1>4, <1>5, Answered, ProposalsStored, CallStep DEF Ends, Statuses

LEMMA SettingsStored ==
    ASSUME IInv, settings' \in [Users -> Settings \cup {None}], SettingsOnward,
           UNCHANGED <<backend, home, who, guessed, now, sent, faults, rows, made, proposals, decided>>
    PROVE  StoreInv' /\ RowsOnward /\ ProposalsOnward
<1>1. StoreTypeOK'
  BY DEF IInv, StoreInv, StoreTypeOK
<1>2. OneHome' /\ HashesFit' /\ OneMemoryPerProposal' /\ ProposalsMemory'
  BY DEF IInv, StoreInv, OneHome, HashesFit, OneMemoryPerProposal, ProposalsMemory
<1>3. RowsOnward /\ ProposalsOnward
  BY DEF IInv, StoreInv, StoreTypeOK, RowsOnward, ProposalsOnward
<1> QED
  BY <1>1, <1>2, <1>3 DEF StoreInv

(* Storing the default that is answered does not change the answer.        *)
LEMMA SettingsReadKeeps ==
    ASSUME IInv, NEW v \in Users, settings' = SettingsRead(v)
    PROVE  /\ settings' \in [Users -> Settings \cup {None}]
           /\ \A u \in Users : SettingsOf(u)' = SettingsOf(u)
           /\ \A u \in Users : settings[u] # None => settings'[u] = settings[u]
<1>1. settings \in [Users -> Settings \cup {None}] /\ SettingsOf(v) \in Settings
  BY SettingsHold, Turned DEF IInv, StoreInv, StoreTypeOK
<1>2. \A u \in Users : settings'[u] = settings[u] \/ (u = v /\ settings'[u] = SettingsOf(v))
  BY <1>1 DEF SettingsRead
<1> QED
  BY <1>1, <1>2 DEF SettingsRead, SettingsOf

LEMMA GetSettingsStep ==
    ASSUME IInv, NEW c \in Calls, GetSettings(c)
    PROVE  IInv'
<1> DEFINE current == SettingsOf(who[c])
<1>1. /\ call[c].at = "settings" /\ call[c].op \in {"toggle", "list", "context"}
      /\ UNCHANGED <<backend, home, who, guessed, now, sent, faults, rows, made, proposals, decided>>
      /\ settings' = SettingsRead(who[c])
  BY Turned DEF GetSettings, At, others, OpsAt
<1>2. /\ settings' \in [Users -> Settings \cup {None}]
      /\ \A u \in Users : SettingsOf(u)' = SettingsOf(u)
      /\ SettingsOnward /\ current \in Settings
  BY <1>1, SettingsReadKeeps, SettingsHold, Turned DEF SettingsOnward
<1>3. StoreInv' /\ RowsOnward /\ ProposalsOnward
  BY <1>1, <1>2, SettingsStored
<1>4. CASE call[c].op = "toggle" /\ Goes(c, "switch", current, {})
  <2>1. "switch" \in Stages
    BY DEF Stages
  <2>2. MessageFits(c)' /\ RowAsRead(c)' /\ ProposalAsRead(c)'
    BY <1>1, <1>2, <1>4, <2>1, Gone, Turned DEF MessageFits, RowAsRead, ProposalAsRead, OpsAt
  <2>3. SwitchAsRead(c)'
    <3>1. call'[c].read = current /\ SettingsOf(who[c])' = current /\ who' = who
      BY <1>1, <1>2, <1>4, <2>1, Gone, Turned
    <3>2. current.revision \in Nat
      BY <1>2 DEF Settings
    <3> HIDE DEF current
    <3> QED
      BY <1>2, <3>1, <3>2 DEF SwitchAsRead
  <2> QED
    BY <1>1, <1>2, <1>3, <1>4, <2>1, <2>2, <2>3, Gone, CallStep DEF CallFits
<1>5. CASE call[c].op = "context" /\ Goes(c, "list", None, {})
  <2>1. "list" \in Stages
    BY DEF Stages
  <2>2. call'[c].at = "list" /\ call'[c].op = "context"
    BY <1>1, <1>5, <2>1, Gone
  <2>3. CallFits(c)'
    BY <2>2 DEF CallFits, MessageFits, RowAsRead, SwitchAsRead, ProposalAsRead, OpsAt
  <2> QED
    BY <1>1, <1>2, <1>3, <1>5, <2>1, <2>3, Gone, CallStep
<1>6. CASE \E status \in {"ok", "conflict"}, seen \in SUBSET Contents,
             trip \in Trip \cup {None} : Replies(c, status, seen, trip)
  BY <1>1, <1>2, <1>3, <1>6, Answered, CallStep DEF Statuses
<1>7. \/ call[c].op = "toggle" /\ Goes(c, "switch", current, {})
      \/ call[c].op = "context" /\ Goes(c, "list", None, {})
      \/ Replies(c, "conflict", {}, None)
      \/ Replies(c, "ok", {}, AskedTrip)
      \/ Replies(c, "ok", call[c].found, None)
  BY <1>1 DEF GetSettings, Fails, Ends
<1>8. call[c].found \in SUBSET Contents /\ AskedTrip \in Trip
  BY Turned, MemoryAssumption DEF Message
<1> QED
  BY <1>4, <1>5, <1>6, <1>7, <1>8

(* A switch that is accepted writes over the settings that it has read.    *)
LEMMA SwitchesWhatItRead ==
    ASSUME IInv, NEW c \in Calls, call[c].at = "switch",
           SwitchAccepted(who[c], call[c].read.revision)
    PROVE  call[c].read = settings[who[c]] /\ call[c].read \in Settings
  BY Turned DEF SwitchAccepted, SwitchAsRead, SettingsOf

LEMMA SwitchStep ==
    ASSUME IInv, NEW c \in Calls, Switch(c)
    PROVE  IInv'
<1> DEFINE u == who[c]
           new == [enabled |-> call[c].enabled, revision |-> call[c].read.revision + 1]
<1>1. /\ call[c].at = "switch" /\ call[c].op = "toggle"
      /\ UNCHANGED <<backend, home, who, guessed, now, sent, faults, rows, made, proposals, decided>>
  BY Turned DEF Switch, At, others, OpsAt
<1>2. CASE ~SwitchAccepted(u, call[c].read.revision)
  BY <1>1, <1>2, Answered, Turned, QuietStep DEF Switch, Fails, Ends, Statuses
<1>3. CASE SwitchAccepted(u, call[c].read.revision)
  <2>1. /\ call[c].read = settings[u] /\ call[c].read \in Settings /\ u \in Users
        /\ settings[u] # None
        /\ settings' = [settings EXCEPT ![u] = new] /\ Ends(c, "ok", {})
    BY <1>1, <1>3, SwitchesWhatItRead, Turned DEF Switch, SwitchAccepted
  <2>2. /\ new \in Settings /\ new # None /\ new.revision = call[c].read.revision + 1
        /\ call[c].read.revision \in Nat
    BY <2>1, Turned, MemoryAssumption DEF Settings, Message
  <2> HIDE DEF new
  <2>3. settings' \in [Users -> Settings \cup {None}] /\ SettingsOnward
    BY <2>1, <2>2, Turned DEF StoreTypeOK, SettingsOnward, SettingsOf
  <2> QED
    BY <1>1, <2>1, <2>3, Answered, SettingsStored, CallStep DEF Ends, Statuses
<1> QED
  BY <1>2, <1>3

(* What list_memories answers is finite, which compose relies on.          *)
LEMMA MemoriesFit ==
    ASSUME IInv, NEW u
    PROVE  IsMemories(Restrict(rows, Listed(u)))
<1>1. DOMAIN rows \subseteq 1..Len(made) /\ Len(made) \in Nat /\ \A m \in DOMAIN rows : rows[m] \in Row
  BY DEF IInv, StoreInv, StoreTypeOK
<1>2. IsFiniteSet(1..Len(made))
  BY <1>1, FS_Interval
<1>3. DOMAIN Restrict(rows, Listed(u)) \in SUBSET (1..Len(made))
  BY <1>1 DEF Restrict, Listed
<1>4. IsFiniteSet(DOMAIN Restrict(rows, Listed(u)))
  BY <1>2, <1>3, FS_Subset
<1>5. \A m \in DOMAIN Restrict(rows, Listed(u)) :
        Restrict(rows, Listed(u))[m].value \in Values
  BY <1>1 DEF Restrict, Listed, Row
<1> QED
  BY <1>4, <1>5 DEF IsMemories

LEMMA ListStep ==
    ASSUME IInv, NEW c \in Calls, List(c)
    PROVE  IInv'
<1> DEFINE memories == Restrict(rows, Listed(who[c]))
<1>1. /\ call[c].at = "list" /\ call[c].op \in {"list", "context"}
      /\ UNCHANGED <<backend, home, who, guessed, now, sent, faults,
                     rows, made, proposals, settings, decided>>
  BY Turned DEF List, At, others, stored, OpsAt
<1>2. /\ DOMAIN memories \in SUBSET DOMAIN rows
      /\ \A m \in DOMAIN memories : memories[m] = rows[m] /\ Content(m) \in Contents
  BY ContentFits DEF Listed, Restrict
<1>3. CASE Goes(c, "settings", None, {Content(m) : m \in DOMAIN memories}) /\ call[c].op = "list"
  <2> DEFINE seen == {Content(m) : m \in DOMAIN memories}
  <2>1. "settings" \in Stages /\ seen \in SUBSET Contents
    BY <1>2 DEF Stages
  <2> HIDE DEF seen
  <2>2. call'[c].at = "settings" /\ call'[c].op = "list"
    BY <1>3, <2>1, Gone DEF seen
  <2>3. CallFits(c)'
    BY <2>2 DEF CallFits, MessageFits, RowAsRead, SwitchAsRead, ProposalAsRead, OpsAt
  <2> QED
    BY <1>1, <1>3, <2>1, <2>3, Gone, Turned, QuietStep DEF seen
<1>4. ASSUME NEW s \in Compose(memories, AskedTrip, call[c].draft, now),
             Replies(c, "ok", {Content(s[i]) : i \in DOMAIN s},
                     ApplyToTrip(AskedTrip, call[c].draft, memories, s)),
             call[c].op = "context"
      PROVE  IInv'
  <2>1. IsMemories(memories)
    BY MemoriesFit
  <2>2. \A i \in DOMAIN s : s[i] \in DOMAIN memories
    BY <2>1, ComposeSelects
  <2>3. ApplyToTrip(AskedTrip, call[c].draft, memories, s) \in Trip
    BY <2>1, ComposedTrip, MemoryAssumption DEF Agrees
  <2>4. {Content(s[i]) : i \in DOMAIN s} \in SUBSET Contents
    BY <1>2, <2>2
  <2> QED
    BY <1>1, <1>4, <2>3, <2>4, Answered, Turned, QuietStep DEF Statuses
<1> QED
  BY <1>1, <1>3, <1>4 DEF List

-----------------------------------------------------------------------------
(* Failures and the clock.                                                 *)

LEMMA FailureStep ==
    ASSUME IInv, NEW c \in Calls, RepositoryFails(c)
    PROVE  IInv'
<1>1. /\ UNCHANGED <<backend, home, who, guessed, now, sent, rows, made, proposals, settings, decided>>
      /\ Fails(c, "failed") /\ call[c].at # "idle" /\ faults' \in 0..MaxFaults
  BY Turned, MemoryAssumption DEF RepositoryFails, Resting, stored
<1> QED
  BY <1>1, Answered, Turned, QuietStep DEF Fails, Ends, Statuses

LEMMA TimeStep ==
    ASSUME IInv, TimePasses
    PROVE  IInv'
<1>1. /\ UNCHANGED <<backend, home, who, guessed, sent, faults, call, rows, made, proposals, settings,
                     decided>>
      /\ reply' = None /\ now' \in 0..1
  BY DEF TimePasses, stored
<1>2. StoreInv' /\ ReplyInv'
  BY <1>1, StoreKept, Silent DEF IInv, StoreInv, StoreTypeOK
<1>3. ASSUME NEW d \in Calls PROVE CallFits(d)'
  BY <1>1 DEF IInv, CallFits, MessageFits, RowAsRead, SwitchAsRead, SettingsOf, ProposalAsRead
<1> QED
  BY <1>1, <1>2, <1>3 DEF IInv

(* A process that holds the memories itself loses them with every call.    *)
LEMMA CrashStep ==
    ASSUME IInv, NEW p \in Processes, Crash(p)
    PROVE  IInv'
<1>1. /\ UNCHANGED <<backend, home, who, guessed, now, made, sent>> /\ reply' = None
      /\ decided' \in [Processes -> SUBSET Decision] /\ faults' \in 0..MaxFaults
      /\ call' = [c \in Calls |-> IF home[c] = p THEN Request("none", "idle") ELSE call[c]]
  BY Turned, MemoryAssumption DEF Crash, IInv, StoreInv, StoreTypeOK
<1>2. CASE backend = "memory"
  <2>1. /\ rows' = <<>> /\ proposals' = <<>> /\ settings' = [u \in Users |-> None]
    BY <1>2 DEF Crash
  <2>2. \A c \in Calls : call'[c] = Request("none", "idle")
    BY <1>1, <1>2 DEF Crash, IInv, StoreInv, OneHome
  <2>3. StoreTypeOK'
    <3>1. Len(proposals') <= MaxProposals /\ proposals' \in Seq(Proposal) /\ DOMAIN rows' = {}
      BY <2>1, MemoryAssumption
    <3> QED
      BY <1>1, <2>1, <3>1 DEF IInv, StoreInv, StoreTypeOK
  <2>4. OneHome' /\ HashesFit' /\ ProposalsMemory' /\ OneMemoryPerProposal'
    BY <1>1, <1>2, <2>1
    DEF IInv, StoreInv, OneHome, HashesFit, ProposalsMemory, OneMemoryPerProposal
  <2>5. \A c \in Calls : call'[c] \in Message /\ CallFits(c)'
    BY <2>2, IdleFits
  <2> QED
    BY <1>1, <2>3, <2>4, <2>5, Silent DEF IInv, StoreInv
<1>3. CASE backend # "memory"
  <2>1. UNCHANGED <<rows, proposals, settings>>
    BY <1>3 DEF Crash
  <2>2. StoreInv' /\ RowsOnward /\ SettingsOnward /\ ProposalsOnward
    BY <1>1, <2>1, StoreKept DEF IInv, StoreInv, StoreTypeOK
  <2>3. ASSUME NEW d \in Calls PROVE call'[d] \in Message /\ CallFits(d)'
    <3>1. CASE home[d] = p
      BY <1>1, <3>1, IdleFits
    <3>2. CASE home[d] # p
      BY <1>1, <2>2, <3>2, CallKept DEF IInv, StoreInv
    <3> QED
      BY <3>1, <3>2
  <2> QED
    BY <1>1, <2>2, <2>3, Silent DEF IInv
<1> QED
  BY <1>2, <1>3

-----------------------------------------------------------------------------
(* Theorems.                                                               *)

LEMMA Start == Init => IInv
<1> SUFFICES ASSUME Init PROVE IInv
  OBVIOUS
<1>1. StoreTypeOK
  <2>1. /\ rows = <<>> /\ made = <<>> /\ proposals = <<>> /\ now = 0 /\ sent = 0 /\ faults = 0
        /\ Len(made) <= MaxMemories /\ Len(proposals) <= MaxProposals
    BY MemoryAssumption DEF Init
  <2> QED
    BY <2>1, MemoryAssumption DEF Init, StoreTypeOK
<1>2. OneHome /\ HashesFit /\ ProposalsMemory /\ OneMemoryPerProposal
  BY DEF Init, OneHome, HashesFit, ProposalsMemory, OneMemoryPerProposal
<1>3. ReplyInv
  BY DEF Init, ReplyInv, ReplyTypeOK, AnswersWhatWasAskedLocally, AnswersWhatWasAsked
<1>4. ASSUME NEW c \in Calls PROVE call[c] \in Message /\ CallFits(c)
  <2>1. call[c] = Request("none", "idle")
    BY DEF Init
  <2>2. call[c] \in Message
    BY <2>1 DEF Request, Message, Moments, Never, Ops, Stages
  <2>3. MessageFits(c)
    BY <2>1 DEF Request, MessageFits, OpsAt
  <2>4. RowAsRead(c) /\ SwitchAsRead(c) /\ ProposalAsRead(c)
    BY <2>1 DEF Request, RowAsRead, SwitchAsRead, ProposalAsRead
  <2> QED
    BY <2>2, <2>3, <2>4 DEF CallFits
<1>5. call \in [Calls -> Message]
  BY <1>4 DEF Init
<1> QED
  BY <1>1, <1>2, <1>3, <1>4, <1>5 DEF IInv, StoreInv

LEMMA Inductive == IInv /\ [Next]_vars => IInv'
<1>1. ASSUME IInv, UNCHANGED vars PROVE IInv'
  BY <1>1 DEF vars, IInv, StoreInv, StoreTypeOK, OneHome, HashesFit, ProposalsMemory,
              OneMemoryPerProposal, ReplyInv, ReplyTypeOK, AnswersWhatWasAskedLocally,
              AnswersWhatWasAsked, CallFits, MessageFits, RowAsRead, SwitchAsRead,
              SettingsOf, ProposalAsRead
<1>2. ASSUME IInv, NEW c \in Calls, Asks(c) PROVE IInv'
  BY <1>2, AskPlain, AskMemory, AskSwitch, AskDecides DEF Asks
<1>3. ASSUME IInv, NEW c \in Calls, Step(c) PROVE IInv'
  BY <1>3, FindStep, InsertStep, GetStep, SaveStep, DeleteStep, ProposeStep,
     GetProposalStep, ResolveStep, GetSettingsStep, SwitchStep, ListStep DEF Step
<1> QED
  BY <1>1, <1>2, <1>3, FailureStep, CrashStep, TimeStep DEF Next

(* The inductive invariant.                                                *)
THEOREM Invariance == Spec => []IInv
  BY Start, Inductive, PTL DEF Spec

(* What the repositories hold is well formed, and on PostgreSQL no         *)
(* proposal has two memories, however confirmations interleave, fail and   *)
(* are tried again (confirm_proposal, UNIQUE on preference_memories).      *)
THEOREM StoreIsFit == Spec => []StoreFits
<1>1. IInv => StoreFits
  BY DEF IInv, StoreInv, StoreFits, TypeOK, CallTypeOK, ReplyInv, Message
<1> QED
  BY <1>1, Invariance, PTL

(* Where the hash follows the value, a request to create a memory is       *)
(* answered with the preference that was asked for (create_explicit).      *)
THEOREM CreatesWhatWasAsked == Spec => []AnswersWhatWasAskedLocally
<1>1. IInv => AnswersWhatWasAskedLocally
  BY DEF IInv, ReplyInv
<1> QED
  BY <1>1, Invariance, PTL

(* Every step but the last six leaves rows and settings as they are.       *)
LEMMA WhoWrites ==
    ASSUME IInv, Next
    PROVE  \/ UNCHANGED <<rows, settings, made>>
           \/ \E c \in Calls : \/ Insert(c) \/ Save(c) \/ Delete(c) \/ Clear(c)
                               \/ GetSettings(c) \/ Switch(c)
           \/ \E p \in Processes : Crash(p)
<1>1. ASSUME NEW c \in Calls, Asks(c) PROVE UNCHANGED <<rows, settings, made>>
  BY <1>1 DEF Asks, AskCreate, AskUpdate, AskRevoke, AskDelete, AskClear, AskPropose,
              AskDecision, AskToggle, AskList, AskContext, Ask, MayAsk, stored
<1>2. ASSUME NEW c \in Calls,
             \/ Find(c) \/ Get(c) \/ Propose(c) \/ GetProposal(c) \/ Resolve(c) \/ List(c)
             \/ RepositoryFails(c)
      PROVE  UNCHANGED <<rows, settings, made>>
  BY <1>2 DEF Find, Get, Propose, GetProposal, Resolve, List, RepositoryFails, stored
<1>3. TimePasses => UNCHANGED <<rows, settings, made>>
  BY DEF TimePasses, stored
<1> QED
  BY <1>1, <1>2, <1>3 DEF Next, Step

(* save_memory and save_personalization compare revisions, so that a       *)
(* change replaces exactly what its call had read: no update of another    *)
(* process is lost in between, in a memory whose every save named the      *)
(* revision that its call had read.                                        *)
THEOREM NoWriteIsLost == Spec => NoLostWrite
<1> DEFINE Rows == \A m \in (DOMAIN rows \cap DOMAIN rows') \ guessed' :
                rows'[m] # rows[m] =>
                    /\ rows'[m].revision = rows[m].revision + 1
                    /\ \E c \in Calls : call[c].at = "save" /\ call[c].read = rows[m]
           Switches == \A u \in Users : settings[u] # None /\ settings'[u] # settings[u] =>
                \/ \E p \in Processes : Crash(p)
                \/ /\ settings'[u].revision = settings[u].revision + 1
                   /\ \E c \in Calls : call[c].at = "switch" /\ who[c] = u
                                       /\ call[c].read = settings[u]
<1>1. ASSUME IInv, Next PROVE Rows
  <2>1. CASE UNCHANGED rows
    BY <2>1
  <2>2. ASSUME NEW c \in Calls, Insert(c) PROVE Rows
    <3>1. \A m \in DOMAIN rows : rows'[m] = rows[m]
      BY <1>1, <2>2, Turned DEF Insert, StoreTypeOK
    <3> QED
      BY <3>1
  <2>3. ASSUME NEW c \in Calls, Save(c), ~UNCHANGED rows PROVE Rows
    <3> DEFINE t == call[c].target
    <3>1. /\ call[c].at = "save" /\ SaveAccepted(t, who[c], call[c].expected)
          /\ rows' = [rows EXCEPT ![t] = Saved(t, Changed(c))]
      BY <2>3 DEF Save, At
    <3>2. t \notin guessed' =>
            t \notin guessed /\ call[c].expected = call[c].read.revision
      BY <2>3 DEF Save
    <3>3. t \notin guessed' =>
            /\ call[c].read = rows[t] /\ Changed(c) \in Row
            /\ Changed(c).revision = rows[t].revision + 1
      BY <1>1, <3>1, <3>2, SavesWhatItRead
    <3>4. t \notin guessed' => Saved(t, Changed(c)).revision = rows[t].revision + 1
      BY <3>3 DEF Saved, Row
    <3> HIDE DEF t
    <3> QED
      BY <3>1, <3>3, <3>4
  <2>4. ASSUME NEW c \in Calls, Delete(c) \/ Clear(c) PROVE Rows
    BY <2>4 DEF Delete, Clear, Restrict
  <2>5. ASSUME NEW p \in Processes, Crash(p) PROVE Rows
    BY <2>5 DEF Crash
  <2>6. ASSUME NEW c \in Calls, GetSettings(c) \/ Switch(c) PROVE UNCHANGED rows
    BY <2>6 DEF GetSettings, Switch
  <2> HIDE DEF Rows
  <2> QED
    BY <1>1, WhoWrites, <2>1, <2>2, <2>3, <2>4, <2>5, <2>6
<1>2. ASSUME IInv, Next PROVE Switches
  <2>1. CASE UNCHANGED settings
    BY <2>1
  <2>2. ASSUME NEW c \in Calls, GetSettings(c) PROVE Switches
    <3>1. \A u \in Users : settings[u] # None => settings'[u] = settings[u]
      BY <1>2, <2>2, SettingsReadKeeps, Turned DEF GetSettings
    <3> QED
      BY <3>1
  <2>3. ASSUME NEW c \in Calls, Switch(c), ~UNCHANGED settings PROVE Switches
    <3>1. /\ call[c].at = "switch" /\ SwitchAccepted(who[c], call[c].read.revision)
          /\ settings' = [settings EXCEPT ![who[c]] =
                  [enabled |-> call[c].enabled, revision |-> call[c].read.revision + 1]]
      BY <2>3 DEF Switch, At
    <3>2. /\ call[c].read = settings[who[c]] /\ who[c] \in Users
          /\ settings \in [Users -> Settings \cup {None}]
      BY <1>2, <3>1, SwitchesWhatItRead, Turned DEF StoreTypeOK
    <3>3. \A u \in Users : u # who[c] => settings'[u] = settings[u]
      BY <3>1, <3>2
    <3>4. settings'[who[c]].revision = settings[who[c]].revision + 1
      BY <3>1, <3>2
    <3> QED
      BY <3>1, <3>2, <3>3, <3>4
  <2>4. ASSUME NEW c \in Calls, Insert(c) \/ Save(c) \/ Delete(c) \/ Clear(c)
        PROVE  UNCHANGED settings
    BY <2>4 DEF Insert, Save, Delete, Clear
  <2>5. ASSUME NEW p \in Processes, Crash(p) PROVE Switches
    BY <2>5
  <2> HIDE DEF Switches
  <2> QED
    BY <1>2, WhoWrites, <2>1, <2>2, <2>3, <2>4, <2>5
<1>3. IInv /\ [Next]_vars => [Rows /\ Switches]_vars
  BY <1>1, <1>2
<1> QED
  BY <1>3, Invariance, PTL DEF NoLostWrite, Spec

(* delete_memory and clear_memories are final: an update or a confirmation *)
(* that has read a memory before does not bring it back.  revoke is final  *)
(* for a memory whose every save named the revision that its call read.    *)
THEOREM ErasureIsFinal == Spec => ErasedStaysErased
<1> DEFINE Erased == \A m \in 1..Len(made) :
                /\ m \notin DOMAIN rows => m \notin DOMAIN rows'
                /\ m \in (DOMAIN rows \cap DOMAIN rows') \ guessed' /\ rows[m].revoked
                     => rows'[m].revoked
<1>1. ASSUME IInv, Next PROVE Erased
  <2>1. CASE UNCHANGED rows
    BY <2>1
  <2>2. ASSUME NEW c \in Calls, Insert(c) PROVE Erased
    BY <1>1, <2>2, Turned DEF Insert, StoreTypeOK
  <2>3. ASSUME NEW c \in Calls, Save(c), ~UNCHANGED rows PROVE Erased
    <3> DEFINE t == call[c].target
    <3>1. /\ call[c].at = "save" /\ SaveAccepted(t, who[c], call[c].expected)
          /\ rows' = [rows EXCEPT ![t] = Saved(t, Changed(c))]
      BY <2>3 DEF Save, At
    <3>2. t \notin guessed' =>
            t \notin guessed /\ call[c].expected = call[c].read.revision
      BY <2>3 DEF Save
    <3>3. t \notin guessed' =>
            Changed(c) \in Row /\ (rows[t].revoked => Changed(c).revoked)
      BY <1>1, <3>1, <3>2, SavesWhatItRead
    <3>4. t \notin guessed' /\ rows[t].revoked => Saved(t, Changed(c)).revoked
      BY <3>3 DEF Saved, Row
    <3> HIDE DEF t
    <3> QED
      BY <3>1, <3>3, <3>4
  <2>4. ASSUME NEW c \in Calls, Delete(c) \/ Clear(c) PROVE Erased
    BY <2>4 DEF Delete, Clear, Restrict
  <2>5. ASSUME NEW p \in Processes, Crash(p) PROVE Erased
    BY <2>5 DEF Crash
  <2>6. ASSUME NEW c \in Calls, GetSettings(c) \/ Switch(c) PROVE UNCHANGED rows
    BY <2>6 DEF GetSettings, Switch
  <2> HIDE DEF Erased
  <2> QED
    BY <1>1, WhoWrites, <2>1, <2>2, <2>3, <2>4, <2>5, <2>6
<1>2. IInv /\ [Next]_vars => [Erased]_vars
  BY <1>1
<1> QED
  BY <1>2, Invariance, PTL DEF ErasedStaysErased, Spec

(* Only a run that has its memories listed, or is told that the traveller  *)
(* has switched them off, is given a trip.                                 *)
LEMMA WhoPersonalises ==
    ASSUME IInv, Next, Personalised'
    PROVE  \/ reply'.trip = AskedTrip /\ reply'.seen = {}
           \/ \E c \in Calls : List(c)
<1>1. ASSUME NEW c \in Calls, Asks(c) PROVE ~Personalised'
  <2>1. CASE \E r : Ask(c, r)
    BY <2>1 DEF Ask, Personalised
  <2>2. CASE AskDecision(c, "confirm") \/ AskDecision(c, "reject")
    <3>1. PICK op \in {"confirm", "reject"} : AskDecision(c, op)
      BY <2>2
    <3>2. ASSUME NEW i, NEW d,
                 reply' = [op |-> op, target |-> i, value |-> None, draft |-> {},
                           status |-> "ok", seen |-> d.seen, trip |-> None]
          PROVE  ~Personalised'
      BY <3>2 DEF Personalised
    <3>3. ASSUME NEW i, NEW r,
                 Ask(c, [Request(op, "proposal") EXCEPT !.target = i, !.request = r])
          PROVE  ~Personalised'
      BY <2>1, <3>3
    <3> QED
      BY <3>1, <3>2, <3>3 DEF AskDecision
  <2>3. AskCreate(c) \/ AskUpdate(c) \/ AskRevoke(c) => \E r : Ask(c, r)
    BY DEF AskCreate, AskUpdate, AskRevoke
  <2>4. AskDelete(c) \/ AskClear(c) \/ AskPropose(c) => \E r : Ask(c, r)
    BY DEF AskDelete, AskClear, AskPropose
  <2>5. AskToggle(c) \/ AskList(c) \/ AskContext(c) => \E r : Ask(c, r)
    BY DEF AskToggle, AskList, AskContext
  <2> QED
    BY <1>1, <2>1, <2>2, <2>3, <2>4, <2>5 DEF Asks
<1>2. ASSUME NEW c \in Calls, \/ \E status, seen : Ends(c, status, seen)
                              \/ \E stage, read, found : Goes(c, stage, read, found)
      PROVE  ~Personalised'
  <2>1. ASSUME NEW status, NEW seen, Ends(c, status, seen) PROVE reply'.trip = None
    BY <2>1 DEF Ends, Replies
  <2>2. ASSUME NEW stage, NEW read, NEW found, Goes(c, stage, read, found)
        PROVE  reply' = None
    BY <2>2 DEF Goes
  <2> QED
    BY <1>2, <2>1, <2>2 DEF Personalised
<1>3. ASSUME NEW c \in Calls, Find(c) \/ Insert(c) \/ Get(c) \/ Save(c)
      PROVE  ~Personalised'
  <2>1. Find(c) => ~Personalised'
    BY <1>2 DEF Find, Fails
  <2>2. Insert(c) => ~Personalised'
    BY <1>2 DEF Insert, Fails
  <2>3. Get(c) \/ Save(c) => ~Personalised'
    BY <1>2 DEF Get, Save, Fails
  <2> QED
    BY <1>3, <2>1, <2>2, <2>3
<1>4. ASSUME NEW c \in Calls,
             \/ Delete(c) \/ Clear(c) \/ Propose(c) \/ GetProposal(c) \/ Resolve(c)
             \/ Switch(c) \/ RepositoryFails(c)
      PROVE  ~Personalised'
  BY <1>2, <1>4 DEF Delete, Clear, Propose, GetProposal, Resolve, Switch, RepositoryFails,
                    Fails
<1>5. ASSUME NEW c \in Calls, GetSettings(c)
      PROVE  ~Personalised' \/ (reply'.trip = AskedTrip /\ reply'.seen = {})
  <2>1. CASE Replies(c, "ok", {}, AskedTrip)
    BY <2>1 DEF Replies
  <2> QED
    BY <1>2, <1>5, <2>1 DEF GetSettings, Fails
<1>6. TimePasses \/ (\E p \in Processes : Crash(p)) => ~Personalised'
  BY DEF TimePasses, Crash, Personalised
<1> QED
  BY <1>1, <1>3, <1>4, <1>5, <1>6 DEF Next, Step

(* What a run is given with its memories listed.                           *)
LEMMA ListAnswers ==
    ASSUME IInv, NEW c \in Calls, List(c), Personalised'
    PROVE  LET memories == Restrict(rows, Listed(who[c]))
           IN  \E s \in Compose(memories, AskedTrip, call[c].draft, now) :
                 /\ reply'.draft = call[c].draft
                 /\ reply'.trip = ApplyToTrip(AskedTrip, call[c].draft, memories, s)
                 /\ reply'.seen = {Content(s[i]) : i \in DOMAIN s}
<1> DEFINE memories == Restrict(rows, Listed(who[c]))
<1>1. ASSUME NEW found, Goes(c, "settings", None, found) PROVE FALSE
  BY <1>1 DEF Goes, Personalised
<1>2. \E s \in Compose(memories, AskedTrip, call[c].draft, now) :
        Replies(c, "ok", {Content(s[i]) : i \in DOMAIN s},
                ApplyToTrip(AskedTrip, call[c].draft, memories, s))
  BY <1>1 DEF List
<1> QED
  BY <1>2 DEF Replies

(* compose and apply_to_trip: whatever memories a traveller has, what the  *)
(* request gave explicitly is what the run plans with, and a place that    *)
(* must be visited is not avoided on behalf of a memory.                   *)
THEOREM RequestIsHonoured == Spec => []RequestWins
<1>1. Init => RequestWins
  BY DEF Init, RequestWins, Personalised
<1>2. ASSUME IInv, Next, Personalised' PROVE RequestWins'
  <2>1. CASE reply'.trip = AskedTrip
    BY <2>1, MemoryAssumption DEF RequestWins, Trip
  <2>2. ASSUME NEW c \in Calls, List(c) PROVE RequestWins'
    <3> DEFINE memories == Restrict(rows, Listed(who[c]))
    <3>1. PICK s \in Compose(memories, AskedTrip, call[c].draft, now) :
             /\ reply'.draft = call[c].draft
             /\ reply'.trip = ApplyToTrip(AskedTrip, call[c].draft, memories, s)
      BY <1>2, <2>2, ListAnswers
    <3>2. IsMemories(memories)
      BY <1>2, MemoriesFit
    <3> HIDE DEF memories
    <3>3. Agrees(reply'.trip, AskedTrip, reply'.draft)
      BY <3>1, <3>2, ComposedTrip, MemoryAssumption
    <3> QED
      BY <3>3 DEF Agrees, RequestWins
  <2> QED
    BY <1>2, <2>1, <2>2, WhoPersonalises
<1>3. IInv /\ RequestWins /\ [Next]_vars => RequestWins'
  <2>1. RequestWins /\ UNCHANGED vars => RequestWins'
    BY DEF vars, RequestWins, Personalised
  <2>2. ~Personalised' => RequestWins'
    BY DEF RequestWins
  <2> QED
    BY <1>2, <2>1, <2>2
<1> QED
  BY <1>1, <1>3, Invariance, PTL DEF Spec

(* compose and ConflictCategories: what a run is told does not contradict  *)
(* itself, and fits the budget of characters.                              *)
THEOREM WhatARunIsToldAgrees == Spec => []ContextAgrees
<1>1. Init => ContextAgrees
  BY DEF Init, ContextAgrees, Personalised
<1>2. ASSUME IInv, Next, Personalised' PROVE ContextAgrees'
  <2>1. CASE reply'.seen = {}
    BY <2>1, TotalOfNone DEF ContextAgrees
  <2>2. ASSUME NEW c \in Calls, List(c) PROVE ContextAgrees'
    <3> DEFINE memories == Restrict(rows, Listed(who[c]))
    <3>1. PICK s \in Compose(memories, AskedTrip, call[c].draft, now) :
             reply'.seen = {Content(s[i]) : i \in DOMAIN s}
      BY <1>2, <2>2, ListAnswers
    <3>2. IsMemories(memories)
      BY <1>2, MemoriesFit
    <3>3. \A m \in DOMAIN memories : memories[m] = rows[m]
      BY DEF Restrict
    <3> HIDE DEF memories
    <3>4. /\ \A i \in DOMAIN s : s[i] \in DOMAIN memories
          /\ \A i, j \in DOMAIN s :
               Category[memories[s[i]].value] = Category[memories[s[j]].value]
                 => Says[memories[s[i]].value] = Says[memories[s[j]].value]
      BY <3>1, <3>2, ComposeSelects
    <3>5. reply'.seen = Said(memories, s)
      BY <3>1, <3>3, <3>4 DEF Said, Content
    <3>6. \A x, y \in reply'.seen :
            Category[x.value] = Category[y.value] => Says[x.value] = Says[y.value]
      BY <3>4, <3>5 DEF Said
    <3>7. CharactersOf(reply'.seen) <= MaxCharacters
      BY <3>1, <3>2, <3>5, ComposeFits
    <3> QED
      BY <3>6, <3>7 DEF ContextAgrees
  <2> QED
    BY <1>2, <2>1, <2>2, WhoPersonalises
<1>3. IInv /\ ContextAgrees /\ [Next]_vars => ContextAgrees'
  <2>1. ContextAgrees /\ UNCHANGED vars => ContextAgrees'
    BY DEF vars, ContextAgrees, Personalised
  <2>2. ~Personalised' => ContextAgrees'
    BY DEF ContextAgrees
  <2> QED
    BY <1>2, <2>1, <2>2
<1> QED
  BY <1>1, <1>3, Invariance, PTL DEF Spec

=============================================================================

-------------------------- MODULE PreferenceMemory --------------------------
(***************************************************************************)
(* Long-term preferences: memories that a traveller writes or confirms,    *)
(* proposals that wait for a decision, and the switch for personalisation. *)
(*                                                                         *)
(* A service call is a sequence of repository calls; each is one step.  On *)
(* PostgreSQL the calls of all processes interleave at every step.  The    *)
(* SQLite and the in-memory repository never suspend, so that there a call *)
(* runs to its end before its process starts another.                      *)
(***************************************************************************)
EXTENDS PreferenceContext, FiniteSets, TLC

CONSTANTS Backends,   \* of "postgres", "sqlite" and "memory"
          Processes,  \* API and MCP processes that share the store
          Calls,      \* clients, each with one call under way at most
          Users,      \* a tenant and a user
          Requests,   \* request_id of a decision
          Temporary,  \* values that may be given a time of expiry
          AskedTrip,  \* the trip that a run personalises
          Drafts,     \* fields that its text gave explicitly
          MaxCalls, MaxMemories, MaxProposals, MaxFaults, \* bounds
          None

ASSUME MemoryAssumption ==
    /\ Backends \subseteq {"postgres", "sqlite", "memory"}
    /\ AskedTrip \in Trip /\ Drafts \subseteq SUBSET Fields
    /\ {MaxCalls, MaxMemories, MaxProposals, MaxFaults} \subseteq Nat
    /\ None \notin [enabled : BOOLEAN, revision : Nat]

VARIABLES backend,   \* MEMORY_STORE_BACKEND
          home,      \* the process that takes a client's calls
          who,       \* its user
          now,       \* the clock
          rows,      \* preference_memories, by memory_id
          made,      \* the proposal each memory_id was made for, 0 for none
          proposals, \* memory_proposals, by proposal_id
          settings,  \* personalization_settings, by user
          decided,   \* PreferenceMemoryService._decisions, by process
          call,      \* the call of each client
          reply,     \* the answer given in the last step, with its call
          guessed,   \* history: memories saved by a call that named another
                     \* revision than the one it had read; not in the code
          sent,      \* calls sent so far
          faults     \* failures so far

vars == <<backend, home, who, now, rows, made, proposals, settings, decided,
          call, reply, guessed, sent, faults>>

Never == 2
Moments == {1, Never}
MomentsOf(v) == IF v \in Temporary THEN Moments ELSE {Never}

Ids == 1..MaxMemories
Contents == [id : Ids, value : Values]

Row == [owner : Users, value : Values, hash : Values, expires : Moments,
        revoked : BOOLEAN, revision : Nat \ {0}]
Proposal == [owner : Users, value : Values, expires : Moments,
             status : {"pending", "confirmed", "rejected"}, memory : 0..MaxMemories]
Settings == [enabled : BOOLEAN, revision : Nat \ {0}]
Decision == [user : Users, proposal : Nat, request : Requests,
             op : {"confirm", "reject"}, seen : SUBSET Contents]

Ops == {"none", "create", "update", "revoke", "delete", "clear", "propose",
        "confirm", "reject", "toggle", "list", "context"}
Stages == {"idle", "find", "insert", "get", "save", "delete", "clear",
           "propose", "proposal", "resolve", "settings", "switch", "list"}
Statuses == {"ok", "not_found", "conflict", "refused", "failed"}

StoreTypeOK ==
    /\ backend \in Backends /\ now \in 0..1
    /\ home \in [Calls -> Processes] /\ who \in [Calls -> Users]
    /\ DOMAIN rows \subseteq 1..Len(made) /\ Len(made) <= MaxMemories
    /\ \A m \in DOMAIN rows : rows[m] \in Row
    /\ made \in Seq(0..MaxProposals)
    /\ proposals \in Seq(Proposal) /\ Len(proposals) <= MaxProposals
    /\ settings \in [Users -> Settings \cup {None}]
    /\ decided \in [Processes -> SUBSET Decision]
    /\ guessed \subseteq 1..Len(made)
    /\ sent \in 0..MaxCalls /\ faults \in 0..MaxFaults

CallTypeOK ==
    \A c \in Calls :
        /\ call[c].op \in Ops /\ call[c].at \in Stages
        /\ call[c].read \in Row \cup Proposal \cup Settings \cup {None}
        /\ call[c].found \subseteq Contents

ReplyTypeOK ==
    reply # None =>
        /\ reply.op \in Ops \ {"none"} /\ reply.status \in Statuses
        /\ reply.seen \subseteq Contents /\ reply.trip \in Trip \cup {None}

TypeOK == StoreTypeOK /\ CallTypeOK /\ ReplyTypeOK

-----------------------------------------------------------------------------
(* What a request carries: the fields that its operation does not use keep *)
(* these values.                                                           *)
Request(op, stage) ==
    [enabled |-> TRUE, value |-> None, expires |-> Never, request |-> None,
     op |-> op, at |-> stage, read |-> None, found |-> {}, target |-> 0,
     expected |-> 0, draft |-> {}]

Init ==
    /\ backend \in Backends
    /\ home \in [Calls -> Processes] /\ who \in [Calls -> Users]
    /\ backend = "memory" => \A c, d \in Calls : home[c] = home[d]
    /\ now = 0 /\ rows = <<>> /\ made = <<>> /\ proposals = <<>>
    /\ settings = [u \in Users |-> None]
    /\ decided = [p \in Processes |-> {}]
    /\ call = [c \in Calls |-> Request("none", "idle")] /\ reply = None
    /\ guessed = {} /\ sent = 0 /\ faults = 0

Resting(c) == call[c].at = "idle"

(* Nothing suspends a call between two steps, unless a driver awaits.      *)
Turn(c) ==
    backend # "postgres" =>
        \A d \in Calls \ {c} : ~Resting(d) => home[d] # home[c]

Content(m) == [id |-> m, value |-> rows[m].value]

Goes(c, stage, read, found) ==
    /\ call' = [call EXCEPT ![c].at = stage, ![c].read = read, ![c].found = found]
    /\ reply' = None

Replies(c, status, seen, trip) ==
    /\ call' = [call EXCEPT ![c] = Request("none", "idle")]
    /\ reply' = [value |-> call[c].value, status |-> status, op |-> call[c].op,
                 seen |-> seen, trip |-> trip, target |-> call[c].target,
                 draft |-> call[c].draft]

Ends(c, status, seen) == Replies(c, status, seen, None)

Fails(c, status) == Ends(c, status, {})

stored == <<rows, made, proposals, settings, decided>>
others == <<backend, home, who, now, guessed, sent, faults>>

-----------------------------------------------------------------------------
(* Requests.  Clients name memories and proposals they have heard of.      *)
MayAsk(c) ==
    /\ Resting(c) /\ Turn(c) /\ sent < MaxCalls
    /\ sent' = sent + 1
    /\ UNCHANGED <<backend, home, who, now, guessed, faults, stored>>

Ask(c, request) ==
    /\ MayAsk(c)
    /\ call' = [call EXCEPT ![c] = request]
    /\ reply' = None

AskCreate(c) ==
    \E v \in Values : \E e \in MomentsOf(v) :
        Ask(c, [Request("create", "find") EXCEPT !.value = v, !.expires = e])

(* expected_revision is any number from one up, shown to the client or     *)
(* not.  One call makes a memory and every revision after the first takes  *)
(* another, so that no call of MaxCalls can be accepted at a higher one;   *)
(* those end in a conflict, as a number does that is not reached in time.  *)
Revisions == 1..(MaxCalls - 1)

AskUpdate(c) ==
    \E m \in 1..Len(made), v \in Values : \E e \in MomentsOf(v), r \in Revisions :
        /\ m \in DOMAIN rows => /\ Category[v] = Category[rows[m].value]
                                /\ Place[v] = Place[rows[m].value]
        /\ Ask(c, [Request("update", "get") EXCEPT !.target = m, !.value = v,
                                                   !.expires = e, !.expected = r])

AskRevoke(c) ==
    \E m \in 1..Len(made) : \E r \in Revisions :
        Ask(c, [Request("revoke", "get") EXCEPT !.target = m, !.expected = r])

AskDelete(c) ==
    \E m \in 1..Len(made) :
        Ask(c, [Request("delete", "delete") EXCEPT !.target = m])

AskClear(c) == Ask(c, Request("clear", "clear"))

AskPropose(c) ==
    \E v \in Values : \E e \in MomentsOf(v) :
        Ask(c, [Request("propose", "propose") EXCEPT !.value = v, !.expires = e])

(* A repeated decision is answered from the process that made it.  A       *)
(* request id names one decision on one proposal.                          *)
AskDecision(c, op) ==
    \E i \in 1..Len(proposals), r \in Requests :
        LET replays == {d \in decided[home[c]] : d.user = who[c] /\ d.proposal = i
                                            /\ d.request = r /\ d.op = op}
            request == [Request(op, "proposal") EXCEPT !.target = i, !.request = r]
        IN  \/ /\ replays = {}
               /\ Ask(c, request)
            \/ \E d \in replays :
                /\ MayAsk(c) /\ UNCHANGED call
                /\ reply' = [value |-> None, status |-> "ok", op |-> op, seen |-> d.seen,
                             trip |-> None, target |-> i, draft |-> {}]

AskToggle(c) ==
    \E b \in BOOLEAN, r \in Revisions \cup {0} :
        Ask(c, [Request("toggle", "settings") EXCEPT !.enabled = b, !.expected = r])

AskList(c) == Ask(c, Request("list", "list"))

AskContext(c) ==
    \E d \in Drafts : Ask(c, [Request("context", "settings") EXCEPT !.draft = d])

-----------------------------------------------------------------------------
(* The repositories                                                        *)

(* find_content_hash: a row that is not revoked, whatever its expiry.      *)
Found(u, v) ==
    LET live == {m \in DOMAIN rows : /\ rows[m].owner = u /\ rows[m].hash = v
                                     /\ ~rows[m].revoked}
    IN  IF live = {} THEN 0 ELSE Min(live)

(* Mutant: the table has no UNIQUE constraint. *)
Duplicate_Slip(u, v) == FALSE

(* UNIQUE(tenant_id, user_id, content_hash), which only PostgreSQL has;    *)
(* it counts the revoked rows too.                                         *)
Duplicate(u, v) ==
    /\ backend = "postgres"
    /\ \E m \in DOMAIN rows : rows[m].owner = u /\ rows[m].hash = v

Owned(m, u) == m \in DOMAIN rows /\ rows[m].owner = u

(* Mutant: no repository writes the hash of the new value. *)
Saved_Slip(m, memory) == [memory EXCEPT !.hash = rows[m].hash]

(* save_memory: PostgreSQL leaves the content_hash column alone.           *)
Saved(m, memory) ==
    [memory EXCEPT !.hash = IF backend = "postgres" THEN rows[m].hash
                            ELSE memory.value]

(* Mutant: the revision is not compared. *)
SaveAccepted_Slip(m, u, expected) == Owned(m, u)

SaveAccepted(m, u, expected) == Owned(m, u) /\ rows[m].revision = expected

(* list_memories: PostgreSQL filters what is revoked, the others also what *)
(* has expired.                                                            *)
Listed(u) ==
    {m \in DOMAIN rows :
        /\ rows[m].owner = u
        /\ IF backend = "postgres" THEN ~rows[m].revoked
           ELSE ActiveAt(rows[m], now)}

DefaultSettings == [enabled |-> TRUE, revision |-> 1]

SettingsOf(u) == IF settings[u] = None THEN DefaultSettings ELSE settings[u]

(* get_personalization: all but PostgreSQL store the default they answer.  *)
SettingsRead(u) ==
    IF backend = "postgres" THEN settings
    ELSE [settings EXCEPT ![u] = SettingsOf(u)]

(* save_personalization with the revision that the service has read.       *)
SwitchAccepted(u, expected) ==
    settings[u] # None /\ settings[u].revision = expected

-----------------------------------------------------------------------------
(* Steps of a call: each is one repository call and what follows it up to  *)
(* the next                                                                *)
At(c, stage) == call[c].at = stage /\ Turn(c)

Wanted(c) == IF call[c].op = "create" THEN call[c] ELSE call[c].read

Decide(c, seen) ==
    decided' = [decided EXCEPT ![home[c]] = @ \cup
        {[user |-> who[c], proposal |-> call[c].target, op |-> call[c].op,
          request |-> call[c].request, seen |-> seen]}]

Find(c) ==
    LET m == Found(who[c], Wanted(c).value)
    IN  /\ At(c, "find")
        /\ CASE m # 0 /\ call[c].op = "create" -> Ends(c, "ok", {Content(m)})
             [] m # 0 /\ call[c].op = "confirm" ->
                    Goes(c, "resolve", call[c].read, {Content(m)})
             [] m = 0 /\ Wanted(c).expires <= now -> Fails(c, "refused")
             [] OTHER -> Goes(c, "insert", call[c].read, {})
        /\ UNCHANGED <<others, stored>>

Created(u, v, e) ==
    [revision |-> 1, value |-> v, owner |-> u, hash |-> v, expires |-> e,
     revoked |-> FALSE]

Insert(c) ==
    LET u == who[c]
        v == Wanted(c).value
        m == Len(made) + 1
    IN  /\ At(c, "insert") /\ m <= MaxMemories
        /\ IF Duplicate(u, v) THEN Fails(c, "conflict") /\ UNCHANGED <<rows, made>>
           ELSE /\ rows' = [i \in DOMAIN rows \cup {m} |->
                    IF i = m THEN Created(u, v, Wanted(c).expires) ELSE rows[i]]
                /\ made' = Append(made, call[c].target)
                /\ IF call[c].op = "create"
                   THEN Ends(c, "ok", {[id |-> m, value |-> v]})
                   ELSE Goes(c, "resolve", call[c].read, {[id |-> m, value |-> v]})
        /\ UNCHANGED <<others, proposals, settings, decided>>

(* get_memory, for a change of the memory or to confirm once more.         *)
Get(c) ==
    LET m == IF call[c].op = "confirm" THEN call[c].read.memory
             ELSE call[c].target
    IN  /\ At(c, "get")
        /\ IF ~Owned(m, who[c]) THEN Fails(c, "not_found") /\ UNCHANGED decided
           ELSE IF call[c].op = "confirm"
           THEN Ends(c, "ok", {Content(m)}) /\ Decide(c, {Content(m)})
           ELSE Goes(c, "save", rows[m], {}) /\ UNCHANGED decided
        /\ UNCHANGED <<others, rows, made, proposals, settings>>

(* Mutant: a revocation keeps the revision. *)
Changed_Slip(c) ==
    IF call[c].op = "revoke" THEN [call[c].read EXCEPT !.revoked = TRUE]
    ELSE [call[c].read EXCEPT !.value = call[c].value, !.expires = call[c].expires,
                              !.revision = @ + 1]

Changed(c) ==
    IF call[c].op = "revoke"
    THEN [call[c].read EXCEPT !.revoked = TRUE, !.revision = @ + 1]
    ELSE [call[c].read EXCEPT !.value = call[c].value, !.expires = call[c].expires,
                              !.revision = @ + 1]

Save(c) ==
    LET m == call[c].target
        guess == call[c].expected # call[c].read.revision
    IN  /\ At(c, "save")
        /\ IF SaveAccepted(m, who[c], call[c].expected)
           THEN /\ rows' = [rows EXCEPT ![m] = Saved(m, Changed(c))]
                /\ guessed' = guessed \cup {i \in {m} : guess}
                /\ Ends(c, "ok", {[id |-> m, value |-> Changed(c).value]})
           ELSE /\ Fails(c, IF Owned(m, who[c]) THEN "conflict" ELSE "not_found")
                /\ UNCHANGED <<rows, guessed>>
        /\ UNCHANGED <<backend, home, who, now, sent, faults, made, proposals, settings,
                       decided>>

Delete(c) ==
    LET m == call[c].target
    IN  /\ At(c, "delete")
        /\ IF Owned(m, who[c])
           THEN rows' = Restrict(rows, DOMAIN rows \ {m}) /\ Ends(c, "ok", {})
           ELSE UNCHANGED rows /\ Fails(c, "not_found")
        /\ UNCHANGED <<others, made, proposals, settings, decided>>

Clear(c) ==
    /\ At(c, "clear")
    /\ rows' = Restrict(rows, {m \in DOMAIN rows : rows[m].owner # who[c]})
    /\ Ends(c, "ok", {})
    /\ UNCHANGED <<others, made, proposals, settings, decided>>

Propose(c) ==
    /\ At(c, "propose") /\ Len(proposals) < MaxProposals
    /\ proposals' = Append(proposals,
            [owner |-> who[c], value |-> call[c].value,
             expires |-> call[c].expires, status |-> "pending", memory |-> 0])
    /\ Ends(c, "ok", {})
    /\ UNCHANGED <<others, rows, made, settings, decided>>

PendingAt(proposal) == proposal.status = "pending" /\ proposal.expires > now

(* get_proposal, and what confirm_proposal and reject_proposal make of its *)
(* status.                                                                 *)
GetProposal(c) ==
    LET proposal == proposals[call[c].target]
        confirms == call[c].op = "confirm"
        again == IF confirms THEN "confirmed" ELSE "rejected"
    IN  /\ At(c, "proposal")
        /\ CASE proposal.owner # who[c] -> Fails(c, "not_found")
             [] proposal.owner = who[c] /\ proposal.status = again ->
                    IF confirms THEN Goes(c, "get", proposal, {})
                    ELSE Ends(c, "ok", {})
             [] proposal.owner = who[c] /\ PendingAt(proposal) ->
                    Goes(c, IF confirms THEN "find" ELSE "resolve", proposal, {})
             [] OTHER -> Fails(c, "conflict")
        /\ IF proposal.owner = who[c] /\ proposal.status = "rejected"
              /\ ~confirms
           THEN Decide(c, {}) ELSE UNCHANGED decided
        /\ UNCHANGED <<others, rows, made, proposals, settings>>

(* save_proposal: whatever the proposal has become since it was read.      *)
Resolve(c) ==
    LET resolved == IF call[c].op = "confirm"
                    THEN [call[c].read EXCEPT !.status = "confirmed",
                            !.memory = (CHOOSE x \in call[c].found : TRUE).id]
                    ELSE [call[c].read EXCEPT !.status = "rejected"]
    IN  /\ At(c, "resolve")
        /\ proposals' = [proposals EXCEPT ![call[c].target] = resolved]
        /\ Decide(c, call[c].found)
        /\ Ends(c, "ok", call[c].found)
        /\ UNCHANGED <<others, rows, made, settings>>

(* What each caller of get_personalization does with the settings.         *)
GetSettings(c) ==
    LET current == SettingsOf(who[c])
    IN  /\ At(c, "settings")
        /\ settings' = SettingsRead(who[c])
        /\ CASE call[c].op = "toggle" ->
                    IF call[c].expected \in {0, current.revision}
                    THEN Goes(c, "switch", current, {}) ELSE Fails(c, "conflict")
             [] call[c].op = "context" ->
                    IF current.enabled THEN Goes(c, "list", None, {})
                    ELSE Replies(c, "ok", {}, AskedTrip)
             [] OTHER -> Ends(c, "ok", call[c].found)
        /\ UNCHANGED <<others, rows, made, proposals, decided>>

Switch(c) ==
    LET u == who[c]
    IN  /\ At(c, "switch")
        /\ IF SwitchAccepted(u, call[c].read.revision)
           THEN /\ settings' = [settings EXCEPT ![u] =
                        [enabled |-> call[c].enabled,
                         revision |-> call[c].read.revision + 1]]
                /\ Ends(c, "ok", {})
           ELSE UNCHANGED settings /\ Fails(c, "conflict")
        /\ UNCHANGED <<others, rows, made, proposals, decided>>

(* list_memories; a run composes its context from them and personalises    *)
(* the trip.                                                               *)
List(c) ==
    LET memories == Restrict(rows, Listed(who[c]))
    IN  /\ At(c, "list")
        /\ IF call[c].op = "list"
           THEN Goes(c, "settings", None, {Content(m) : m \in DOMAIN memories})
           ELSE \E s \in Compose(memories, AskedTrip, call[c].draft, now) :
                Replies(c, "ok", {Content(s[i]) : i \in DOMAIN s},
                        ApplyToTrip(AskedTrip, call[c].draft, memories, s))
        /\ UNCHANGED <<others, stored>>

Step(c) ==
    \/ Find(c) \/ Insert(c) \/ Get(c) \/ Save(c) \/ Delete(c) \/ Clear(c)
    \/ Propose(c) \/ GetProposal(c) \/ Resolve(c)
    \/ GetSettings(c) \/ Switch(c) \/ List(c)

-----------------------------------------------------------------------------
(* A repository call raises: the steps before it stand.                    *)
RepositoryFails(c) ==
    /\ ~Resting(c) /\ faults < MaxFaults
    /\ Fails(c, "failed") /\ faults' = faults + 1
    /\ UNCHANGED <<backend, home, who, now, guessed, sent, stored>>

(* A process dies with its calls and its decisions, and with the memories  *)
(* themselves if it holds them.                                            *)
Crash(p) ==
    /\ faults < MaxFaults /\ \E c \in Calls : home[c] = p
    /\ call' = [c \in Calls |-> IF home[c] = p THEN Request("none", "idle") ELSE call[c]]
    /\ reply' = None
    /\ decided' = [decided EXCEPT ![p] = {}]
    /\ faults' = faults + 1
    /\ IF backend = "memory"
       THEN /\ rows' = <<>> /\ proposals' = <<>>
            /\ settings' = [u \in Users |-> None]
       ELSE UNCHANGED <<rows, proposals, settings>>
    /\ UNCHANGED <<backend, home, who, now, made, guessed, sent>>

TimePasses ==
    /\ now = 0 /\ now' = 1 /\ reply' = None
    /\ UNCHANGED <<backend, home, who, guessed, sent, faults, call, stored>>

Asks(c) ==
    \/ AskCreate(c) \/ AskUpdate(c) \/ AskRevoke(c)
    \/ AskDelete(c) \/ AskClear(c) \/ AskPropose(c)
    \/ AskDecision(c, "confirm") \/ AskDecision(c, "reject")
    \/ AskToggle(c) \/ AskList(c) \/ AskContext(c)

Next ==
    \/ \E c \in Calls : Asks(c) \/ Step(c) \/ RepositoryFails(c)
    \/ \E p \in Processes : Crash(p)
    \/ TimePasses

Spec == Init /\ [][Next]_vars

-----------------------------------------------------------------------------
(* Properties *)

(* save_memory, save_personalization: a change of a memory or of a switch  *)
(* replaces exactly what its call had read, and raises the revision by     *)
(* one, however calls of several processes interleave.  update and revoke  *)
(* do not compare the revision that the client named with the one that     *)
(* they read: the memories which were ever saved on another one are left   *)
(* out, and EveryWriteIsSeen is the same without the exception.            *)
NoLostWrite ==
    [][/\ \A m \in (DOMAIN rows \cap DOMAIN rows') \ guessed' :
            rows'[m] # rows[m] =>
                /\ rows'[m].revision = rows[m].revision + 1
                /\ \E c \in Calls : call[c].at = "save" /\ call[c].read = rows[m]
       /\ \A u \in Users : settings[u] # None /\ settings'[u] # settings[u] =>
            \/ \E p \in Processes : Crash(p)
            \/ /\ settings'[u].revision = settings[u].revision + 1
               /\ \E c \in Calls : call[c].at = "switch" /\ who[c] = u
                                   /\ call[c].read = settings[u]]_vars

(* delete_memory and revoke: a memory that was deleted does not come back, *)
(* even if an update or a confirmation had read it before, and one that    *)
(* was revoked stays so, unless a call saved it that had read another      *)
(* revision than its client named.                                         *)
ErasedStaysErased ==
    [][\A m \in 1..Len(made) :
        /\ m \notin DOMAIN rows => m \notin DOMAIN rows'
        /\ m \in (DOMAIN rows \cap DOMAIN rows') \ guessed' /\ rows[m].revoked
                => rows'[m].revoked]_vars

(* confirm_proposal on PostgreSQL: two confirmations at once, or one that  *)
(* is retried after a crash between its two writes, leave one memory.      *)
OneMemoryPerProposal ==
    backend = "postgres" =>
        \A i, j \in DOMAIN rows : made[i] = made[j] /\ made[i] # 0 => i = j

(* What the repositories hold is well formed, without a second memory of   *)
(* one proposal.                                                           *)
StoreFits == TypeOK /\ OneMemoryPerProposal

(* create_explicit answers with the preference that was asked for, whether *)
(* it wrote it or found it by its hash.                                    *)
AnswersWhatWasAsked ==
    reply # None /\ reply.op = "create" =>
        \A x \in reply.seen : x.value = reply.value

(* The same where the hash column follows the value of the memory.         *)
AnswersWhatWasAskedLocally == backend # "postgres" => AnswersWhatWasAsked

(* update_personalization: a switch that saw the current revision is only  *)
(* refused if another call changed the settings meanwhile.                 *)
RefusedForAChange ==
    [][\A c \in Calls :
        call[c].at = "switch" /\ call'[c] # call[c] /\ reply' # None
            /\ reply'.status = "conflict"
            => SettingsOf(who[c]) # call[c].read]_vars

Personalised == reply # None /\ reply.trip # None

(* compose and apply_to_trip: a field that the request gave explicitly is  *)
(* the one the run plans with, unchanged by any memory, and no memory      *)
(* makes a place avoided that must be visited.  A memory of another        *)
(* category may still speak against the request: InterestsAreNotAvoided.   *)
RequestWins ==
    Personalised =>
        LET trip == reply.trip
            draft == reply.draft
        IN  /\ "pace" \in draft => trip.pace = AskedTrip.pace
            /\ "mobility" \in draft =>
                trip.walking = AskedTrip.walking /\ trip.rest = AskedTrip.rest
            /\ "interests" \in draft => trip.interests = AskedTrip.interests
            /\ "avoid" \in draft => trip.avoid = AskedTrip.avoid
            /\ trip.avoid \cap trip.must_visit \subseteq AskedTrip.avoid

(* compose: memories of one category that disagree are all left out, so    *)
(* that nothing a run is told contradicts itself, and the rest fits.       *)
ContextAgrees ==
    Personalised =>
        /\ \A x, y \in reply.seen :
            Category[x.value] = Category[y.value] =>
                Says[x.value] = Says[y.value]
        /\ CharactersOf(reply.seen) <= MaxCharacters

(* confirm_proposal is idempotent: a confirmation fails with a conflict    *)
(* only if the proposal was rejected or has expired.                       *)
ConfirmIsIdempotent ==
    reply # None /\ reply.op = "confirm" /\ reply.status = "conflict" =>
        \/ proposals[reply.target].status = "rejected"
        \/ proposals[reply.target].expires <= now

(* A decision on a proposal is final: what was confirmed is not rejected   *)
(* later, nor the other way round.                                         *)
DecisionIsFinal ==
    [][\A i \in DOMAIN proposals \cap DOMAIN proposals' :
        proposals[i].status # "pending" =>
            proposals'[i].status = proposals[i].status]_vars

(* update and revoke: a change of a memory replaces what its call had      *)
(* read, whatever revision the client names.                               *)
EveryWriteIsSeen ==
    [][\A m \in DOMAIN rows \cap DOMAIN rows' :
        rows'[m] # rows[m] =>
            \E c \in Calls : call[c].at = "save" /\ call[c].read = rows[m]]_vars

(* revoke: a memory that was revoked stays so, whatever revision the       *)
(* client names.                                                           *)
RevokedStaysRevoked ==
    [][\A m \in DOMAIN rows \cap DOMAIN rows' :
        rows[m].revoked => rows'[m].revoked]_vars

(* What the request asks for is not avoided on behalf of a memory.         *)
InterestsAreNotAvoided ==
    Personalised /\ "interests" \in reply.draft =>
        AskedTrip.interests \cap reply.trip.avoid \subseteq AskedTrip.avoid

(* What the context tells a run that the traveller needs is in its trip.   *)
NeedsAreApplied ==
    Personalised /\ "mobility" \notin reply.draft =>
        \A x \in reply.seen :
            Category[x.value] = "accessibility_needs" /\
            "frequent_rest" \in Terms[x.value] => reply.trip.rest
=============================================================================

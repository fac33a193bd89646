-------------------------- MODULE PreferenceContext --------------------------
(***************************************************************************)
(* What a trip sees of a traveller's preferences: the composer selects     *)
(* confirmed memories, leaves out what the request itself settles and what *)
(* contradicts itself, clips the rest to a budget and writes it into the   *)
(* trip.  Pure functions of the memories, the trip and the draft.          *)
(*                                                                         *)
(* A value stands for category, value and scope together, which is what    *)
(* content_hash tells apart.  The draft is the set of fields that the      *)
(* request gave explicitly.                                                *)
(***************************************************************************)
EXTENDS Naturals, SequencesExt

CONSTANTS Values,         \* the preferences there are
          Category,       \* MemoryCategory of a value
          Place,          \* scope_key of a value, "any" for the global scope
          Says,           \* what a value says whatever its scope, as one of the values
          Terms,          \* the terms of a list value
          Size,           \* characters of its summary
          MaxCharacters, MaxTokens

ASSUME ContextAssumption ==
    /\ \A v \in Values : /\ Terms[v] \subseteq STRING /\ Size[v] \in Nat
                          /\ Says[v] \in Values
    /\ MaxCharacters \in Nat /\ MaxTokens \in Nat

Fields == {"pace", "mobility", "interests", "avoid"}

(* The fields that apply_to_trip reads or writes.                          *)
Trip == [destination : STRING, pace : Values \cup {"balanced"},
         walking : Values \cup {"default"}, rest : BOOLEAN,
         interests : SUBSET STRING, avoid : SUBSET STRING,
         must_visit : SUBSET STRING]

-----------------------------------------------------------------------------
ActiveAt(memory, now) == ~memory.revoked /\ memory.expires > now

ScopeMatches(v, trip) == Place[v] \in {"any", trip.destination}

FieldOf == [pace |-> "pace", walking_tolerance |-> "mobility",
            preferred_categories |-> "interests",
            avoided_categories |-> "avoid"]

(* Mutant: no memory yields to the request. *)
ExplicitlyOverridden_Slip(v, draft) == FALSE

ExplicitlyOverridden(v, draft) ==
    Category[v] \in DOMAIN FieldOf /\ FieldOf[Category[v]] \in draft

(* The weights of the planner, the one role that the workflow asks for.    *)
RoleWeight(category) ==
    IF category \in {"pace", "preferred_categories", "avoided_categories",
                     "walking_tolerance", "accessibility_needs"} THEN 3 ELSE 2

Eligible(memories, trip, draft, now) ==
    {m \in DOMAIN memories :
        /\ ActiveAt(memories[m], now)
        /\ ScopeMatches(memories[m].value, trip)
        /\ ~ExplicitlyOverridden(memories[m].value, draft)}

(* Mutant: each memory is compared with itself only. *)
ConflictCategories_Slip(memories, ids) == {}

(* Every memory is compared with the first of its category, by what they   *)
(* say: two scopes may say the same.                                       *)
ConflictCategories(memories, ids) ==
    {Category[memories[m].value] : m \in
        {i \in ids : \E j \in ids :
            /\ Category[memories[i].value] = Category[memories[j].value]
            /\ Says[memories[i].value] # Says[memories[j].value]}}

(* Highest score first.  The weight decides; between equal weights the     *)
(* freshness does, which may order them in any way.                        *)
Ranked(memories, ids) ==
    {s \in SetToSeqs(ids) : \A i, j \in DOMAIN s : i < j =>
        RoleWeight(Category[memories[s[i]].value])
            >= RoleWeight(Category[memories[s[j]].value])}

Characters(memories, s) == FoldLeft(LAMBDA n, m : n + Size[memories[m].value], 0, s)

(* The characters of a set of contents.                                    *)
CharactersOf(contents) == MapThenSumSet(LAMBDA x : Size[x.value], contents)

Fits(memories, kept, m) ==
    LET n == Characters(memories, Append(kept, m))
    IN  n <= MaxCharacters /\ (n + 3) \div 4 <= MaxTokens

Clip(memories, s) ==
    FoldLeft(LAMBDA kept, m : IF Fits(memories, kept, m) THEN Append(kept, m)
                              ELSE kept, <<>>, s)

(* The selections that compose may answer, as sequences of memory ids.     *)
Compose(memories, trip, draft, now) ==
    LET ids == Eligible(memories, trip, draft, now)
        conflicts == ConflictCategories(memories, ids)
        clear == {m \in ids : Category[memories[m].value] \notin conflicts}
    IN  {Clip(memories, s) : s \in Ranked(memories, clear)}

-----------------------------------------------------------------------------
(* One summary written into the trip.  A walking tolerance starts again    *)
(* from the mobility of the trip as it was asked for.                      *)
ApplyOne(trip, asked, draft, v) ==
    CASE Category[v] = "pace" /\ "pace" \notin draft ->
            [trip EXCEPT !.pace = Says[v]]
      [] Category[v] = "walking_tolerance" /\ "mobility" \notin draft ->
            [trip EXCEPT !.walking = Says[v], !.rest = asked.rest]
      [] Category[v] = "preferred_categories" ->
            [trip EXCEPT !.interests = @ \cup Terms[v]]
      [] Category[v] = "avoided_categories" ->
            [trip EXCEPT !.avoid = @ \cup (Terms[v] \ asked.must_visit)]
      [] Category[v] = "accessibility_needs" /\ "mobility" \notin draft ->
            [trip EXCEPT !.rest = @ \/ "frequent_rest" \in Terms[v]]
      [] OTHER -> trip

ApplyToTrip(asked, draft, memories, selection) ==
    FoldLeft(LAMBDA trip, m : ApplyOne(trip, asked, draft, memories[m].value),
             asked, selection)
=============================================================================

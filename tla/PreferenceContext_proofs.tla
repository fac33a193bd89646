----------------------- MODULE PreferenceContext_proofs ---------------------
(***************************************************************************)
(* Proofs about the composer and about what it writes into a trip, for any *)
(* finite set of memories, any trip, draft and budget.                     *)
(*                                                                         *)
(* Both are folds, which the library defines by a recursive function on    *)
(* the subsets of the indices of a sequence.  FoldExists shows that there  *)
(* is such a function; what it computes on 1..k is the partial result      *)
(* after k elements.  From there the proofs go by induction on k, which is *)
(* the well-foundedness of the natural numbers (UpTo).                     *)
(***************************************************************************)
EXTENDS PreferenceContext, FiniteSetTheorems, WellFoundedInduction, SequenceTheorems,
        TLAPS

-----------------------------------------------------------------------------
(* Induction.                                                              *)

LEMMA UpTo ==
    ASSUME NEW T \in SUBSET Nat, 0 \in T, \A n \in T : n + 1 \in T
    PROVE  T = Nat
<1> SUFFICES ASSUME Nat \ T # {} PROVE FALSE
  OBVIOUS
<1> DEFINE R == OpToRel(<, Nat)
<1>1. IsWellFoundedOn(R, Nat)
  BY NatLessThanWellFounded
<1>2. \A i, j \in Nat : i < j => <<i, j>> \in R
  BY DEF OpToRel
<1> HIDE DEF R
<1>3. PICK n \in Nat \ T : \A m \in Nat \ T : <<m, n>> \notin R
  BY <1>1, WFMin
<1>4. n - 1 \in Nat /\ n - 1 < n
  BY <1>3
<1>5. n - 1 \in T
  BY <1>2, <1>3, <1>4
<1> QED
  BY <1>3, <1>4, <1>5

(* The same below a bound.                                                 *)
LEMMA UpToN ==
    ASSUME NEW n \in Nat, NEW T \in SUBSET (0..n), 0 \in T,
           \A k \in 0..(n - 1) : k \in T => k + 1 \in T
    PROVE  T = 0..n
<1> DEFINE U == T \cup {k \in Nat : k > n}
<1>1. U \in SUBSET Nat /\ 0 \in U
  <2>1. \A k \in 0..n : k \in Nat
    OBVIOUS
  <2> QED
    BY <2>1
<1>2. ASSUME NEW k \in U PROVE k + 1 \in U
  <2>1. CASE k \in T /\ k < n
    BY <2>1
  <2>2. CASE ~(k \in T /\ k < n)
    BY <1>1, <1>2, <2>2
  <2> QED
    BY <2>1, <2>2
<1>3. U = Nat
  <2> HIDE DEF U
  <2> QED
    BY <1>1, <1>2, UpTo
<1>4. ASSUME NEW k \in 0..n PROVE k \in T
  BY <1>3
<1> QED
  BY <1>4

LEMMA NoIndices == SUBSET (1..0) = {{}}
<1>1. 1..0 = {}
  OBVIOUS
<1> QED
  BY <1>1

(* The largest of some of the first n indices, and the rest.               *)
LEMMA Largest ==
    ASSUME NEW n \in Nat, NEW t \in SUBSET (1..n), t # {}
    PROVE  Max(t) \in t /\ t \ {Max(t)} \in SUBSET (1..(n - 1))
<1> DEFINE T == {k \in Nat : \A u \in SUBSET (1..k) :
                    u # {} => \E x \in u : \A y \in u : x >= y}
<1>1. 0 \in T
  BY NoIndices
<1>2. ASSUME NEW k \in T PROVE k + 1 \in T
  <2> SUFFICES ASSUME NEW u \in SUBSET (1..(k + 1)), u # {}
               PROVE  \E x \in u : \A y \in u : x >= y
    OBVIOUS
  <2>1. CASE k + 1 \in u
    BY <2>1
  <2>2. CASE k + 1 \notin u
    <3>1. u \in SUBSET (1..k)
      BY <2>2
    <3> QED
      BY <3>1
  <2> QED
    BY <2>1, <2>2
<1>3. T = Nat
  <2> HIDE DEF T
  <2>1. T \in SUBSET Nat
    BY DEF T
  <2> QED
    BY <1>1, <1>2, <2>1, UpTo
<1>4. PICK x \in t : \A y \in t : x >= y
  BY <1>3
<1>5. Max(t) \in t /\ \A y \in t : Max(t) >= y
  BY <1>4 DEF Max
<1>6. ASSUME NEW y \in t \ {Max(t)} PROVE y \in 1..(n - 1)
  <2>1. y \in 1..n /\ Max(t) \in 1..n /\ y <= Max(t) /\ y # Max(t)
    BY <1>5
  <2> QED
    BY <2>1
<1> QED
  BY <1>5, <1>6

LEMMA LargestOfAll ==
    ASSUME NEW k \in Nat
    PROVE  /\ Max(1..(k + 1)) = k + 1 /\ (1..(k + 1)) \ {k + 1} = 1..k
           /\ 1..(k + 1) # {}
<1> DEFINE t == 1..(k + 1)
<1>1. t # {} /\ k + 1 \in Nat /\ k + 1 \in t /\ (k + 1) - 1 = k
  OBVIOUS
<1>2. Max(t) \in t /\ t \ {Max(t)} \in SUBSET (1..k)
  <2> HIDE DEF t
  <2>1. t \in SUBSET (1..(k + 1))
    BY DEF t
  <2> QED
    BY <1>1, <2>1, Largest
<1>3. k + 1 \notin 1..k /\ t \ {k + 1} = 1..k
  OBVIOUS
<1> QED
  BY <1>1, <1>2, <1>3

(* A fold over n elements whose step, for results in X, is the function F. *)
IsFold(g, n, base, F) ==
    g = [t \in SUBSET (1..n) |->
            IF t = {} THEN base ELSE F[<<g[t \ {Max(t)}], Max(t)>>]]

LEMMA FoldExists ==
    ASSUME NEW n \in Nat, NEW X, NEW base \in X, NEW F \in [X \X (1..n) -> X]
    PROVE  \E g \in [SUBSET (1..n) -> X] : IsFold(g, n, base, F)
<1> DEFINE Some(k) == \E g \in [SUBSET (1..k) -> X] : IsFold(g, k, base, F)
           T == {k \in Nat : k <= n => Some(k)}
<1>1. Some(0)
  <2> DEFINE g == [t \in SUBSET (1..0) |-> base]
  <2>1. g \in [SUBSET (1..0) -> X] /\ \A t \in SUBSET (1..0) : t = {}
    BY NoIndices
  <2>2. IsFold(g, 0, base, F)
    BY <2>1 DEF IsFold
  <2> QED
    BY <2>1, <2>2
<1>2. ASSUME NEW k \in Nat, k + 1 <= n, Some(k) PROVE Some(k + 1)
  <2>1. PICK g \in [SUBSET (1..k) -> X] : IsFold(g, k, base, F)
    BY <1>2
  <2> DEFINE h == [t \in SUBSET (1..(k + 1)) |->
                     IF t = {} THEN base ELSE F[<<g[t \ {Max(t)}], Max(t)>>]]
  <2>2. ASSUME NEW t \in SUBSET (1..(k + 1)), t # {}
        PROVE  Max(t) \in 1..n /\ t \ {Max(t)} \in SUBSET (1..k)
    <3>1. k + 1 \in Nat /\ (k + 1) - 1 = k
      OBVIOUS
    <3>2. Max(t) \in t /\ t \ {Max(t)} \in SUBSET (1..k)
      BY <2>2, <3>1, Largest
    <3>3. t \in SUBSET (1..n)
      BY <1>2
    <3> QED
      BY <3>2, <3>3
  <2>3. h \in [SUBSET (1..(k + 1)) -> X]
    BY <2>1, <2>2
  <2>4. ASSUME NEW u \in SUBSET (1..k) PROVE h[u] = g[u]
    <3>1. u \in SUBSET (1..(k + 1))
      BY <1>2
    <3>2. g[u] = IF u = {} THEN base ELSE F[<<g[u \ {Max(u)}], Max(u)>>]
      BY <2>1 DEF IsFold
    <3> QED
      BY <3>1, <3>2
  <2>5. IsFold(h, k + 1, base, F)
    <3> HIDE DEF h
    <3>1. \A t \in SUBSET (1..(k + 1)) :
            h[t] = IF t = {} THEN base ELSE F[<<h[t \ {Max(t)}], Max(t)>>]
      BY <2>2, <2>4 DEF h
    <3> QED
      BY <2>3, <3>1 DEF IsFold
  <2> HIDE DEF h
  <2> QED
    BY <2>3, <2>5
<1> HIDE DEF Some
<1>3. \A k \in T : k + 1 \in T
  BY <1>2
<1>4. T = Nat
  <2>1. T \in SUBSET Nat /\ 0 \in T
    BY <1>1
  <2> HIDE DEF T
  <2> QED
    BY <1>3, <2>1, UpTo
<1>5. Some(n)
  BY <1>4
<1> QED
  BY <1>5 DEF Some

-----------------------------------------------------------------------------
(* The budget: Clip keeps some of the memories of a sequence.              *)

Kept(memories, kept, m) ==
    IF Fits(memories, kept, m) THEN Append(kept, m) ELSE kept

IsClip(g, memories, s) ==
    g = [t \in SUBSET DOMAIN s |->
            IF t = {} THEN <<>> ELSE Kept(memories, g[t \ {Max(t)}], s[Max(t)])]

LEMMA ClipIs ==
    ASSUME NEW memories, NEW s
    PROVE  Clip(memories, s) = (CHOOSE g : IsClip(g, memories, s))[DOMAIN s]
  BY DEF Clip, FoldLeft, MapThenFoldSet, IsClip, Kept

(* The partial results of Clip.                                            *)
ClipSteps(p, memories, S, s) ==
    /\ p \in [0..Len(s) -> Seq(S)]
    /\ p[0] = <<>> /\ Clip(memories, s) = p[Len(s)]
    /\ \A k \in 0..(Len(s) - 1) : p[k + 1] = Kept(memories, p[k], s[k + 1])

LEMMA ClipUnrolls ==
    ASSUME NEW memories, NEW S, NEW s \in Seq(S)
    PROVE  \E p : ClipSteps(p, memories, S, s)
<1> DEFINE n == Len(s)
           F == [x \in Seq(S) \X (1..n) |-> Kept(memories, x[1], s[x[2]])]
           g == CHOOSE f : IsClip(f, memories, s)
           p == [k \in 0..n |-> g[1..k]]
<1>1. n \in Nat /\ DOMAIN s = 1..n /\ \A i \in 1..n : s[i] \in S
  OBVIOUS
<1>2. F \in [Seq(S) \X (1..n) -> Seq(S)]
  BY <1>1 DEF Kept
<1>3. \E f \in [SUBSET (1..n) -> Seq(S)] : IsClip(f, memories, s)
  <2> HIDE DEF F
  <2>1. PICK f \in [SUBSET (1..n) -> Seq(S)] : IsFold(f, n, <<>>, F)
    BY <1>1, <1>2, FoldExists, <<>> \in Seq(S)
  <2>2. ASSUME NEW t \in SUBSET (1..n), t # {}
        PROVE  f[t] = Kept(memories, f[t \ {Max(t)}], s[Max(t)])
    <3>1. Max(t) \in 1..n /\ t \ {Max(t)} \in SUBSET (1..n)
      BY <1>1, <2>2, Largest
    <3>2. f[t] = F[<<f[t \ {Max(t)}], Max(t)>>]
      BY <2>1, <2>2 DEF IsFold
    <3> QED
      BY <3>1, <3>2 DEF F
  <2>3. f[{}] = <<>>
    BY <2>1 DEF IsFold
  <2> QED
    BY <1>1, <2>2, <2>3 DEF IsClip
<1>4. IsClip(g, memories, s)
  BY <1>3
<1> HIDE DEF F, g
<1>5. p[0] = <<>>
  BY <1>1, <1>4, NoIndices DEF IsClip
<1>6. ASSUME NEW k \in 0..(n - 1) PROVE p[k + 1] = Kept(memories, p[k], s[k + 1])
  <2>1. /\ k \in Nat /\ k \in 0..n /\ k + 1 \in 0..n /\ 1..(k + 1) \in SUBSET DOMAIN s
    BY <1>1
  <2>2. g[1..(k + 1)] = Kept(memories, g[1..k], s[k + 1])
    <3> DEFINE t == 1..(k + 1)
    <3>1. t # {} /\ Max(t) = k + 1 /\ t \ {k + 1} = 1..k
      BY <2>1, LargestOfAll
    <3>2. t \in SUBSET DOMAIN s
      BY <2>1
    <3> HIDE DEF t
    <3>3. g[t] = Kept(memories, g[t \ {Max(t)}], s[Max(t)])
      BY <1>4, <3>1, <3>2 DEF IsClip
    <3> QED
      BY <3>1, <3>3 DEF t
  <2> QED
    BY <2>1, <2>2
<1>7. Clip(memories, s) = p[n]
  BY <1>1, ClipIs DEF g
<1>8. \A k \in 0..n : p[k] \in Seq(S)
  <2> DEFINE T == {k \in 0..n : p[k] \in Seq(S)}
  <2> HIDE DEF p
  <2>1. T \in SUBSET (0..n) /\ 0 \in T
    <3>1. p[0] \in Seq(S)
      BY <1>5
    <3> QED
      BY <1>1, <3>1
  <2>2. ASSUME NEW k \in 0..(n - 1), k \in T PROVE k + 1 \in T
    <3>1. p[k] \in Seq(S) /\ s[k + 1] \in S /\ k + 1 \in 0..n
      BY <1>1, <2>2
    <3>2. p[k + 1] \in {p[k], Append(p[k], s[k + 1])}
      BY <1>6, <3>1 DEF Kept
    <3>3. Append(p[k], s[k + 1]) \in Seq(S)
      BY <3>1
    <3> QED
      BY <3>1, <3>2, <3>3
  <2>3. T = 0..n
    <3> HIDE DEF T
    <3> QED
      BY <1>1, <2>1, <2>2, UpToN
  <2> QED
    BY <2>3
<1>9. p \in [0..n -> Seq(S)]
  BY <1>8
<1> HIDE DEF p
<1> QED
  BY <1>1, <1>5, <1>6, <1>7, <1>9 DEF ClipSteps

(* What Clip keeps comes from the sequence, and is within the budget.      *)
LEMMA ClipFits ==
    ASSUME NEW memories, NEW S, NEW s \in Seq(S)
    PROVE  /\ Clip(memories, s) \in Seq(S)
           /\ \/ Clip(memories, s) = <<>>
              \/ Characters(memories, Clip(memories, s)) <= MaxCharacters
<1>0. PICK p : ClipSteps(p, memories, S, s)
  BY ClipUnrolls
<1>1. /\ p \in [0..Len(s) -> Seq(S)] /\ p[0] = <<>> /\ Clip(memories, s) = p[Len(s)]
      /\ \A k \in 0..(Len(s) - 1) : p[k + 1] = Kept(memories, p[k], s[k + 1])
  BY <1>0 DEF ClipSteps
<1> DEFINE n == Len(s)
           Within(q) == q = <<>> \/ Characters(memories, q) <= MaxCharacters
           T == {k \in 0..n : Within(p[k])}
<1>2. n \in Nat
  OBVIOUS
<1> HIDE DEF n
<1>3. T \in SUBSET (0..n) /\ 0 \in T
  BY <1>1, <1>2
<1>4. ASSUME NEW k \in 0..(n - 1), k \in T PROVE k + 1 \in T
  <2>1. p[k + 1] = Kept(memories, p[k], s[k + 1]) /\ k + 1 \in 0..n /\ Within(p[k])
    BY <1>1, <1>2, <1>4 DEF n
  <2>2. Within(p[k + 1])
    BY <2>1 DEF Kept, Fits
  <2> HIDE DEF Within
  <2> QED
    BY <2>1, <2>2
<1>5. T = 0..n
  <2> HIDE DEF T
  <2> QED
    BY <1>2, <1>3, <1>4, UpToN
<1> HIDE DEF Within
<1>6. Within(p[n])
  BY <1>2, <1>5
<1> QED
  BY <1>1, <1>2, <1>6 DEF n, Within

-----------------------------------------------------------------------------
(* What a trip becomes: ApplyToTrip writes one memory after the other.     *)

IsApplied(g, asked, draft, memories, s) ==
    g = [t \in SUBSET DOMAIN s |->
            IF t = {} THEN asked
            ELSE ApplyOne(g[t \ {Max(t)}], asked, draft, memories[s[Max(t)]].value)]

LEMMA ApplyIs ==
    ASSUME NEW asked, NEW draft, NEW memories, NEW s
    PROVE  ApplyToTrip(asked, draft, memories, s)
             = (CHOOSE g : IsApplied(g, asked, draft, memories, s))[DOMAIN s]
  BY DEF ApplyToTrip, FoldLeft, MapThenFoldSet, IsApplied

LEMMA OneKeepsTrip ==
    ASSUME NEW trip \in Trip, NEW asked \in Trip, NEW draft, NEW v \in Values
    PROVE  ApplyOne(trip, asked, draft, v) \in Trip
<1>1. Terms[v] \in SUBSET STRING /\ Says[v] \in Values
  BY ContextAssumption
<1>2. [trip EXCEPT !.pace = Says[v]] \in Trip
  BY <1>1 DEF Trip
<1>3. [trip EXCEPT !.walking = Says[v], !.rest = asked.rest] \in Trip
  BY <1>1 DEF Trip
<1>4. [trip EXCEPT !.interests = @ \cup Terms[v]] \in Trip
  BY <1>1 DEF Trip
<1>5. [trip EXCEPT !.avoid = @ \cup (Terms[v] \ asked.must_visit)] \in Trip
  BY <1>1 DEF Trip
<1>6. [trip EXCEPT !.rest = @ \/ "frequent_rest" \in Terms[v]] \in Trip
  <2>1. (trip.rest \/ "frequent_rest" \in Terms[v]) \in BOOLEAN
    OBVIOUS
  <2> QED
    BY <2>1 DEF Trip
<1> QED
  BY <1>2, <1>3, <1>4, <1>5, <1>6 DEF ApplyOne

(* The partial results of ApplyToTrip.                                     *)
ApplySteps(p, asked, draft, memories, s) ==
    /\ p[0] = asked /\ ApplyToTrip(asked, draft, memories, s) = p[Len(s)]
    /\ \A k \in 0..(Len(s) - 1) :
          p[k + 1] = ApplyOne(p[k], asked, draft, memories[s[k + 1]].value)

LEMMA ApplyUnrolls ==
    ASSUME NEW asked \in Trip, NEW draft, NEW memories, NEW S,
           \A m \in S : memories[m].value \in Values, NEW s \in Seq(S)
    PROVE  \E p : ApplySteps(p, asked, draft, memories, s)
<1> DEFINE n == Len(s)
           F == [x \in Trip \X (1..n) |-> ApplyOne(x[1], asked, draft, memories[s[x[2]]].value)]
           g == CHOOSE f : IsApplied(f, asked, draft, memories, s)
           p == [k \in 0..n |-> g[1..k]]
<1>1. n \in Nat /\ DOMAIN s = 1..n /\ \A i \in 1..n : memories[s[i]].value \in Values
  OBVIOUS
<1>2. F \in [Trip \X (1..n) -> Trip]
  BY <1>1, OneKeepsTrip
<1>3. \E f : IsApplied(f, asked, draft, memories, s)
  <2> HIDE DEF F
  <2>1. PICK f \in [SUBSET (1..n) -> Trip] : IsFold(f, n, asked, F)
    BY <1>1, <1>2, FoldExists
  <2>2. ASSUME NEW t \in SUBSET (1..n), t # {}
        PROVE  f[t] = ApplyOne(f[t \ {Max(t)}], asked, draft, memories[s[Max(t)]].value)
    <3>1. Max(t) \in 1..n /\ t \ {Max(t)} \in SUBSET (1..n)
      BY <1>1, <2>2, Largest
    <3>2. f[t] = F[<<f[t \ {Max(t)}], Max(t)>>]
      BY <2>1, <2>2 DEF IsFold
    <3> QED
      BY <3>1, <3>2 DEF F
  <2>3. f[{}] = asked
    BY <2>1 DEF IsFold
  <2> QED
    BY <1>1, <2>2, <2>3 DEF IsApplied
<1>4. IsApplied(g, asked, draft, memories, s)
  BY <1>3
<1> HIDE DEF F, g
<1>5. p[0] = asked
  BY <1>1, <1>4, NoIndices DEF IsApplied
<1>6. ASSUME NEW k \in 0..(n - 1)
      PROVE  p[k + 1] = ApplyOne(p[k], asked, draft, memories[s[k + 1]].value)
  <2> DEFINE t == 1..(k + 1)
  <2>1. k \in 0..n /\ k + 1 \in 0..n
    BY <1>1
  <2>2. t # {} /\ Max(t) = k + 1 /\ t \ {k + 1} = 1..k /\ t \in SUBSET DOMAIN s
    <3>1. k \in Nat
      OBVIOUS
    <3>2. t \in SUBSET DOMAIN s
      BY <1>1
    <3> QED
      BY <3>1, <3>2, LargestOfAll
  <2> HIDE DEF t
  <2>3. g[t] = ApplyOne(g[t \ {Max(t)}], asked, draft, memories[s[Max(t)]].value)
    BY <1>4, <2>2 DEF IsApplied
  <2> QED
    BY <2>1, <2>2, <2>3 DEF t
<1>7. ApplyToTrip(asked, draft, memories, s) = p[n]
  BY <1>1, ApplyIs DEF g
<1> QED
  BY <1>5, <1>6, <1>7 DEF ApplySteps

(* What one memory writes keeps what the request has settled: the fields   *)
(* that the draft gave, and the places that must be visited.               *)
Agrees(trip, asked, draft) ==
    /\ trip \in Trip /\ trip.must_visit = asked.must_visit
    /\ "pace" \in draft => trip.pace = asked.pace
    /\ "mobility" \in draft => trip.walking = asked.walking /\ trip.rest = asked.rest
    /\ "interests" \in draft => trip.interests = asked.interests
    /\ "avoid" \in draft => trip.avoid = asked.avoid
    /\ trip.avoid \cap trip.must_visit \subseteq asked.avoid

LEMMA OneAgrees ==
    ASSUME NEW trip, NEW asked \in Trip, NEW draft, NEW v \in Values,
           ~ExplicitlyOverridden(v, draft), Agrees(trip, asked, draft)
    PROVE  Agrees(ApplyOne(trip, asked, draft, v), asked, draft)
<1> DEFINE new == ApplyOne(trip, asked, draft, v)
<1>1. new \in Trip
  BY OneKeepsTrip DEF Agrees
<1>2. /\ Category[v] = "preferred_categories" => "interests" \notin draft
      /\ Category[v] = "avoided_categories" => "avoid" \notin draft
  BY DEF ExplicitlyOverridden, FieldOf
<1>3. CASE Category[v] = "pace" /\ "pace" \notin draft
  <2>1. new = [trip EXCEPT !.pace = Says[v]]
    BY <1>3 DEF ApplyOne
  <2> QED
    BY <1>1, <1>3, <2>1 DEF Agrees, Trip
<1>4. CASE Category[v] = "walking_tolerance" /\ "mobility" \notin draft
  <2>1. new = [trip EXCEPT !.walking = Says[v], !.rest = asked.rest]
    BY <1>4 DEF ApplyOne
  <2> QED
    BY <1>1, <1>4, <2>1 DEF Agrees, Trip
<1>5. CASE Category[v] = "preferred_categories"
  <2>1. new = [trip EXCEPT !.interests = @ \cup Terms[v]]
    BY <1>5 DEF ApplyOne
  <2> QED
    BY <1>1, <1>2, <1>5, <2>1 DEF Agrees, Trip
<1>6. CASE Category[v] = "avoided_categories"
  <2>1. new = [trip EXCEPT !.avoid = @ \cup (Terms[v] \ asked.must_visit)]
    BY <1>6 DEF ApplyOne
  <2> QED
    BY <1>1, <1>2, <1>6, <2>1 DEF Agrees, Trip
<1>7. CASE Category[v] = "accessibility_needs" /\ "mobility" \notin draft
  <2>1. new = [trip EXCEPT !.rest = @ \/ "frequent_rest" \in Terms[v]]
    BY <1>7 DEF ApplyOne
  <2> QED
    BY <1>1, <1>7, <2>1 DEF Agrees, Trip
<1>8. CASE /\ ~(Category[v] = "pace" /\ "pace" \notin draft)
           /\ ~(Category[v] = "walking_tolerance" /\ "mobility" \notin draft)
           /\ Category[v] \notin {"preferred_categories", "avoided_categories"}
           /\ ~(Category[v] = "accessibility_needs" /\ "mobility" \notin draft)
  <2>1. new = trip
    BY <1>8 DEF ApplyOne
  <2> QED
    BY <2>1
<1> QED
  BY <1>3, <1>4, <1>5, <1>6, <1>7, <1>8

LEMMA AppliedAgrees ==
    ASSUME NEW asked \in Trip, NEW draft, NEW memories, NEW S,
           \A m \in S : /\ memories[m].value \in Values
                        /\ ~ExplicitlyOverridden(memories[m].value, draft),
           NEW s \in Seq(S)
    PROVE  Agrees(ApplyToTrip(asked, draft, memories, s), asked, draft)
<1> DEFINE n == Len(s)
<1>1. PICK p : ApplySteps(p, asked, draft, memories, s)
  BY ApplyUnrolls
<1> DEFINE T == {k \in 0..n : Agrees(p[k], asked, draft)}
<1>2. n \in Nat /\ \A k \in 0..(n - 1) : s[k + 1] \in S /\ k + 1 \in 0..n
  OBVIOUS
<1>3. T \in SUBSET (0..n) /\ 0 \in T
  BY <1>1, <1>2 DEF ApplySteps, Agrees
<1>4. ASSUME NEW k \in 0..(n - 1), k \in T PROVE k + 1 \in T
  <2>1. p[k + 1] = ApplyOne(p[k], asked, draft, memories[s[k + 1]].value)
    BY <1>1 DEF ApplySteps
  <2> QED
    BY <1>2, <1>4, <2>1, OneAgrees
<1>5. T = 0..n
  <2> HIDE DEF T
  <2> QED
    BY <1>2, <1>3, <1>4, UpToN
<1> QED
  BY <1>1, <1>2, <1>5 DEF ApplySteps

-----------------------------------------------------------------------------
(* The characters of a sequence of memories, and of the set of what they   *)
(* say, which may only be fewer.                                           *)

IsCount(g, memories, s) ==
    g = [t \in SUBSET DOMAIN s |->
            IF t = {} THEN 0 ELSE g[t \ {Max(t)}] + Size[memories[s[Max(t)]].value]]

LEMMA CharactersAre ==
    ASSUME NEW memories, NEW s
    PROVE  Characters(memories, s) = (CHOOSE g : IsCount(g, memories, s))[DOMAIN s]
  BY DEF Characters, FoldLeft, MapThenFoldSet, IsCount

CountSteps(p, memories, s) ==
    /\ p \in [0..Len(s) -> Nat]
    /\ p[0] = 0 /\ Characters(memories, s) = p[Len(s)]
    /\ \A k \in 0..(Len(s) - 1) : p[k + 1] = p[k] + Size[memories[s[k + 1]].value]

LEMMA CharactersUnroll ==
    ASSUME NEW memories, NEW S, \A m \in S : memories[m].value \in Values, NEW s \in Seq(S)
    PROVE  \E p : CountSteps(p, memories, s)
<1> DEFINE n == Len(s)
           F == [x \in Nat \X (1..n) |-> x[1] + Size[memories[s[x[2]]].value]]
           g == CHOOSE f : IsCount(f, memories, s)
           p == [k \in 0..n |-> g[1..k]]
<1>1. /\ n \in Nat /\ DOMAIN s = 1..n
      /\ \A i \in 1..n : Size[memories[s[i]].value] \in Nat
  BY ContextAssumption
<1>2. F \in [Nat \X (1..n) -> Nat]
  BY <1>1
<1>3. \E f : IsCount(f, memories, s)
  <2> HIDE DEF F
  <2>1. PICK f \in [SUBSET (1..n) -> Nat] : IsFold(f, n, 0, F)
    BY <1>1, <1>2, FoldExists
  <2>2. ASSUME NEW t \in SUBSET (1..n), t # {}
        PROVE  f[t] = f[t \ {Max(t)}] + Size[memories[s[Max(t)]].value]
    <3>1. Max(t) \in 1..n /\ t \ {Max(t)} \in SUBSET (1..n)
      BY <1>1, <2>2, Largest
    <3>2. f[t] = F[<<f[t \ {Max(t)}], Max(t)>>]
      BY <2>1, <2>2 DEF IsFold
    <3> QED
      BY <3>1, <3>2 DEF F
  <2>3. f[{}] = 0
    BY <2>1 DEF IsFold
  <2> QED
    BY <1>1, <2>2, <2>3 DEF IsCount
<1>4. IsCount(g, memories, s)
  BY <1>3
<1> HIDE DEF F, g
<1>5. p[0] = 0
  BY <1>1, <1>4, NoIndices DEF IsCount
<1>6. ASSUME NEW k \in 0..(n - 1)
      PROVE  p[k + 1] = p[k] + Size[memories[s[k + 1]].value]
  <2> DEFINE t == 1..(k + 1)
  <2>1. k \in 0..n /\ k + 1 \in 0..n
    BY <1>1
  <2>2. t # {} /\ Max(t) = k + 1 /\ t \ {k + 1} = 1..k /\ t \in SUBSET DOMAIN s
    <3>1. k \in Nat
      OBVIOUS
    <3>2. t \in SUBSET DOMAIN s
      BY <1>1
    <3> QED
      BY <3>1, <3>2, LargestOfAll
  <2> HIDE DEF t
  <2>3. g[t] = g[t \ {Max(t)}] + Size[memories[s[Max(t)]].value]
    BY <1>4, <2>2 DEF IsCount
  <2> QED
    BY <2>1, <2>2, <2>3 DEF t
<1>7. Characters(memories, s) = p[n]
  <2>1. p[n] = g[DOMAIN s]
    BY <1>1
  <2>2. Characters(memories, s) = g[DOMAIN s]
    BY CharactersAre DEF g
  <2> QED
    BY <2>1, <2>2
<1>8. \A k \in 0..n : p[k] \in Nat
  <2> DEFINE T == {k \in 0..n : p[k] \in Nat}
  <2> HIDE DEF p
  <2>1. T \in SUBSET (0..n) /\ 0 \in T
    BY <1>1, <1>5
  <2>2. ASSUME NEW k \in 0..(n - 1), k \in T PROVE k + 1 \in T
    BY <1>1, <1>6, <2>2
  <2>3. T = 0..n
    <3> HIDE DEF T
    <3> QED
      BY <1>1, <2>1, <2>2, UpToN
  <2> QED
    BY <2>3
<1>9. p \in [0..n -> Nat]
  BY <1>8
<1> HIDE DEF p
<1> QED
  BY <1>1, <1>5, <1>6, <1>7, <1>9 DEF CountSteps

(* The library's sum over a finite set.                                    *)
IsTotal(h, U) ==
    h = [t \in SUBSET U |->
            IF t = {} THEN 0
            ELSE LET x == CHOOSE y \in t : TRUE IN Size[x.value] + h[t \ {x}]]

LEMMA TotalIs ==
    ASSUME NEW U
    PROVE  CharactersOf(U) = (CHOOSE h : IsTotal(h, U))[U]
  BY DEF CharactersOf, MapThenSumSet, MapThenFoldSet, IsTotal

LEMMA TotalExists ==
    ASSUME NEW U, IsFiniteSet(U), \A x \in U : Size[x.value] \in Nat
    PROVE  \E h \in [SUBSET U -> Nat] : IsTotal(h, U)
<1> DEFINE Small(k) == {t \in SUBSET U : Cardinality(t) <= k}
           Body(h, t) == IF t = {} THEN 0
                         ELSE LET x == CHOOSE y \in t : TRUE IN Size[x.value] + h[t \ {x}]
           Some(k) == \E h \in [Small(k) -> Nat] : \A t \in Small(k) : h[t] = Body(h, t)
           n == Cardinality(U)
<1>1. \A t \in SUBSET U : IsFiniteSet(t) /\ Cardinality(t) \in Nat /\ Cardinality(t) <= n
  BY FS_Subset, FS_CardinalityType
<1>2. n \in Nat
  BY FS_CardinalityType
<1>3. Some(0)
  <2> DEFINE h == [t \in Small(0) |-> 0]
  <2>1. \A t \in Small(0) : t = {}
    BY <1>1, FS_EmptySet
  <2>2. h \in [Small(0) -> Nat] /\ \A t \in Small(0) : h[t] = Body(h, t)
    BY <2>1
  <2> QED
    BY <2>2
<1>4. ASSUME NEW k \in Nat, Some(k) PROVE Some(k + 1)
  <2>1. PICK g \in [Small(k) -> Nat] : \A t \in Small(k) : g[t] = Body(g, t)
    BY <1>4
  <2> DEFINE h == [t \in Small(k + 1) |-> Body(g, t)]
  <2>2. ASSUME NEW t \in Small(k + 1), t # {}
        PROVE  /\ (CHOOSE y \in t : TRUE) \in U
               /\ t \ {CHOOSE y \in t : TRUE} \in Small(k)
    <3> DEFINE x == CHOOSE y \in t : TRUE
    <3>1. x \in t
      BY <2>2
    <3> HIDE DEF x
    <3>2. IsFiniteSet(t) /\ Cardinality(t \ {x}) = Cardinality(t) - 1
      BY <1>1, <3>1, FS_RemoveElement
    <3>3. Cardinality(t \ {x}) <= k
      BY <1>1, <3>2
    <3> QED
      BY <3>1, <3>3 DEF x
  <2>3. \A t \in Small(k) : t \in Small(k + 1) /\ h[t] = g[t]
    <3>1. \A t \in Small(k) : t \in Small(k + 1)
      BY <1>1
    <3> QED
      BY <2>1, <3>1
  <2>4. h \in [Small(k + 1) -> Nat]
    <3>1. ASSUME NEW t \in Small(k + 1) PROVE Body(g, t) \in Nat
      <4>1. CASE t = {}
        BY <4>1
      <4>2. CASE t # {}
        <5> DEFINE x == CHOOSE y \in t : TRUE
        <5>1. x \in U /\ t \ {x} \in Small(k)
          BY <2>2, <4>2
        <5> HIDE DEF x, Small
        <5>2. Size[x.value] \in Nat /\ g[t \ {x}] \in Nat
          BY <5>1
        <5>3. Body(g, t) = Size[x.value] + g[t \ {x}]
          BY <4>2 DEF x
        <5> QED
          BY <5>2, <5>3
      <4> QED
        BY <4>1, <4>2
    <3> QED
      BY <3>1
  <2>5. ASSUME NEW t \in Small(k + 1) PROVE h[t] = Body(h, t)
    <3>1. CASE t = {}
      BY <3>1
    <3>2. CASE t # {}
      <4> DEFINE x == CHOOSE y \in t : TRUE
      <4>1. t \ {x} \in Small(k)
        BY <2>2, <3>2
      <4>2. h[t \ {x}] = g[t \ {x}]
        BY <2>3, <4>1
      <4> HIDE DEF Small
      <4>3. h[t] = Body(g, t)
        OBVIOUS
      <4> HIDE DEF h
      <4> QED
        BY <3>2, <4>2, <4>3
    <3> QED
      BY <3>1, <3>2
  <2> HIDE DEF h, Body
  <2> QED
    BY <2>4, <2>5
<1> HIDE DEF Some
<1>5. Some(n)
  <2> DEFINE T == {k \in Nat : Some(k)}
  <2>1. T \in SUBSET Nat /\ 0 \in T
    BY <1>3
  <2>2. \A k \in T : k + 1 \in T
    BY <1>4
  <2>3. T = Nat
    <3> HIDE DEF T
    <3> QED
      BY <2>1, <2>2, UpTo
  <2> QED
    BY <1>2, <2>3
<1>6. Small(n) = SUBSET U
  BY <1>1
<1>7. PICK h \in [SUBSET U -> Nat] : \A t \in SUBSET U : h[t] = Body(h, t)
  BY <1>5, <1>6 DEF Some
<1>8. IsTotal(h, U)
  BY <1>7 DEF IsTotal
<1> QED
  BY <1>8

(* Such a sum is a number, whichever function of that kind it comes from.  *)
LEMMA TotalIsTyped ==
    ASSUME NEW U, IsFiniteSet(U), \A x \in U : Size[x.value] \in Nat,
           NEW h, IsTotal(h, U)
    PROVE  h \in [SUBSET U -> Nat]
<1> DEFINE Typed(k) == \A t \in SUBSET U : Cardinality(t) = k => h[t] \in Nat
<1>1. \A t \in SUBSET U : IsFiniteSet(t) /\ Cardinality(t) \in Nat
  BY FS_Subset, FS_CardinalityType
<1>2. ASSUME NEW t \in SUBSET U, t # {}
      PROVE  LET x == CHOOSE y \in t : TRUE
             IN  x \in t /\ h[t] = Size[x.value] + h[t \ {x}]
  BY <1>2 DEF IsTotal
<1>3. Typed(0)
  <2>1. \A t \in SUBSET U : Cardinality(t) = 0 => t = {}
    BY <1>1, FS_EmptySet
  <2>2. h[{}] = 0
    BY DEF IsTotal
  <2> QED
    BY <2>1, <2>2
<1>4. ASSUME NEW k \in Nat, Typed(k) PROVE Typed(k + 1)
  <2> SUFFICES ASSUME NEW t \in SUBSET U, Cardinality(t) = k + 1 PROVE h[t] \in Nat
    OBVIOUS
  <2> HIDE DEF Typed
  <2> DEFINE x == CHOOSE y \in t : TRUE
  <2>1. t # {}
    BY FS_EmptySet
  <2>2. x \in t /\ h[t] = Size[x.value] + h[t \ {x}]
    BY <1>2, <2>1
  <2> HIDE DEF x
  <2>3. t \ {x} \in SUBSET U /\ Cardinality(t \ {x}) = k
    <3>1. IsFiniteSet(t)
      BY <1>1
    <3>2. Cardinality(t \ {x}) = Cardinality(t) - 1
      BY <2>2, <3>1, FS_RemoveElement
    <3> QED
      BY <3>2
  <2>4. h[t \ {x}] \in Nat /\ Size[x.value] \in Nat
    BY <1>4, <2>2, <2>3 DEF Typed
  <2> QED
    BY <2>2, <2>4
<1> HIDE DEF Typed
<1>5. \A k \in Nat : Typed(k)
  <2> DEFINE T == {k \in Nat : Typed(k)}
  <2>1. T \in SUBSET Nat /\ 0 \in T
    BY <1>3
  <2>2. \A k \in T : k + 1 \in T
    BY <1>4
  <2>3. T = Nat
    <3> HIDE DEF T
    <3> QED
      BY <2>1, <2>2, UpTo
  <2> QED
    BY <2>3
<1>6. \A t \in SUBSET U : h[t] \in Nat
  BY <1>1, <1>5 DEF Typed
<1>7. h = [t \in SUBSET U |-> h[t]]
  BY DEF IsTotal
<1> QED
  BY <1>6, <1>7

(* Whatever element the sum takes first, another one adds its size.        *)
Additive(h, U) ==
    \A t \in SUBSET U, z \in U : z \notin t => h[t \cup {z}] = h[t] + Size[z.value]

LEMMA TotalAdds ==
    ASSUME NEW U, IsFiniteSet(U), \A x \in U : Size[x.value] \in Nat,
           NEW h, IsTotal(h, U)
    PROVE  Additive(h, U)
<1>0. h \in [SUBSET U -> Nat]
  BY TotalIsTyped
<1> DEFINE Adds(k) == \A s \in SUBSET U, y \in U :
              Cardinality(s) = k /\ y \notin s => h[s \cup {y}] = h[s] + Size[y.value]
<1>1. \A s \in SUBSET U : IsFiniteSet(s) /\ Cardinality(s) \in Nat
  BY FS_Subset, FS_CardinalityType
<1>2. ASSUME NEW s \in SUBSET U, s # {}
      PROVE  LET x == CHOOSE y \in s : TRUE
             IN  x \in s /\ h[s] = Size[x.value] + h[s \ {x}]
  BY <1>2 DEF IsTotal
<1>3. h[{}] = 0
  BY DEF IsTotal
<1>4. Adds(0)
  <2> SUFFICES ASSUME NEW s \in SUBSET U, NEW y \in U, Cardinality(s) = 0
               PROVE  h[s \cup {y}] = h[s] + Size[y.value]
    OBVIOUS
  <2>1. s = {}
    BY <1>1, FS_EmptySet
  <2>2. {y} \in SUBSET U /\ {y} # {} /\ {y} \ {y} = {} /\ (CHOOSE x \in {y} : TRUE) = y
    OBVIOUS
  <2>3. h[{y}] = Size[y.value] + h[{}]
    BY <1>2, <2>2
  <2> QED
    BY <1>3, <2>1, <2>3
<1>5. ASSUME NEW k \in Nat, Adds(k) PROVE Adds(k + 1)
  <2> SUFFICES ASSUME NEW s \in SUBSET U, NEW y \in U, Cardinality(s) = k + 1, y \notin s
               PROVE  h[s \cup {y}] = h[s] + Size[y.value]
    OBVIOUS
  <2> DEFINE u == s \cup {y}
             x == CHOOSE w \in u : TRUE
             r == s \ {x}
  <2>1. u \in SUBSET U /\ x \in u /\ h[u] = Size[x.value] + h[u \ {x}]
    <3>1. u \in SUBSET U /\ u # {}
      OBVIOUS
    <3> HIDE DEF u
    <3> QED
      BY <1>2, <3>1
  <2> HIDE DEF x
  <2>2. Size[x.value] \in Nat /\ Size[y.value] \in Nat /\ h[s] \in Nat /\ h[r] \in Nat
    BY <1>0, <2>1
  <2>3. CASE x = y
    <3>1. u \ {x} = s
      BY <2>3
    <3>2. h[u] = Size[y.value] + h[s]
      BY <2>1, <2>3, <3>1
    <3> QED
      BY <2>2, <3>2
  <2>4. CASE x # y
    <3>1. x \in s /\ u \ {x} = r \cup {y} /\ r \cup {x} = s /\ r \in SUBSET U /\ x \notin r
      BY <2>1, <2>4
    <3>2. Cardinality(r) = k
      <4>1. IsFiniteSet(s)
        BY <1>1
      <4>2. Cardinality(s \ {x}) = Cardinality(s) - 1
        BY <3>1, <4>1, FS_RemoveElement
      <4> QED
        BY <4>2
    <3> HIDE DEF r
    <3>3. h[r \cup {y}] = h[r] + Size[y.value]
      BY <1>5, <3>1, <3>2 DEF r
    <3>4. h[r \cup {x}] = h[r] + Size[x.value]
      BY <1>5, <2>1, <3>1, <3>2
    <3>5. h[u] = Size[x.value] + (h[r] + Size[y.value])
      <4> HIDE DEF u
      <4> QED
        BY <2>1, <3>1, <3>3
    <3>6. h[s] = h[r] + Size[x.value]
      BY <3>1, <3>4
    <3> QED
      BY <2>2, <3>5, <3>6
  <2> QED
    BY <2>3, <2>4
<1> HIDE DEF Adds
<1>6. \A k \in Nat : Adds(k)
  <2> DEFINE T == {k \in Nat : Adds(k)}
  <2>1. T \in SUBSET Nat /\ 0 \in T
    BY <1>4
  <2>2. \A k \in T : k + 1 \in T
    BY <1>5
  <2>3. T = Nat
    <3> HIDE DEF T
    <3> QED
      BY <2>1, <2>2, UpTo
  <2> QED
    BY <2>3
<1> QED
  BY <1>1, <1>6 DEF Adds, Additive

(* What the memories of a sequence say, with their ids.                    *)
Said(memories, s) == {[id |-> s[i], value |-> memories[s[i]].value] : i \in DOMAIN s}

LEMMA TotalWithin ==
    ASSUME NEW memories, NEW S, \A m \in S : memories[m].value \in Values, NEW s \in Seq(S)
    PROVE  /\ CharactersOf(Said(memories, s)) \in Nat
           /\ CharactersOf(Said(memories, s))
                <= Characters(memories, s)
<1> DEFINE n == Len(s)
           C(i) == [id |-> s[i], value |-> memories[s[i]].value]
           U == Said(memories, s)
           A(k) == {C(i) : i \in 1..k}
           h == CHOOSE f : IsTotal(f, U)
<1>1. n \in Nat /\ DOMAIN s = 1..n /\ U = A(n)
  BY DEF Said
<1>2. \A i \in 1..n : /\ C(i) \in U /\ C(i).value = memories[s[i]].value
                      /\ Size[memories[s[i]].value] \in Nat
  BY <1>1, ContextAssumption
<1> HIDE DEF C
<1>3. A(0) = {} /\ \A k \in 0..(n - 1) : A(k + 1) = A(k) \cup {C(k + 1)}
  <2>1. 1..0 = {}
    OBVIOUS
  <2>2. ASSUME NEW k \in 0..(n - 1) PROVE 1..(k + 1) = (1..k) \cup {k + 1}
    BY <1>1
  <2> QED
    BY <2>1, <2>2
<1>4. \A k \in 0..n : A(k) \in SUBSET U
  BY <1>1, <1>2
<1> HIDE DEF A
<1>5. IsFiniteSet(U)
  <2> DEFINE T == {k \in 0..n : IsFiniteSet(A(k))}
  <2> HIDE DEF U
  <2>1. T \in SUBSET (0..n) /\ 0 \in T
    BY <1>1, <1>3, FS_EmptySet
  <2>2. ASSUME NEW k \in 0..(n - 1), k \in T PROVE k + 1 \in T
    <3>1. IsFiniteSet(A(k) \cup {C(k + 1)})
      BY <2>2, FS_AddElement
    <3>2. k + 1 \in 0..n /\ A(k + 1) = A(k) \cup {C(k + 1)}
      BY <1>1, <1>3
    <3> QED
      BY <3>1, <3>2
  <2>3. T = 0..n
    <3> HIDE DEF T
    <3> QED
      BY <1>1, <2>1, <2>2, UpToN
  <2> QED
    BY <1>1, <2>3
<1>6. \A x \in U : Size[x.value] \in Nat
  <2>1. \A x \in U : \E i \in 1..n : x = C(i)
    BY <1>1 DEF A
  <2> QED
    BY <1>2, <2>1
<1> HIDE DEF U
<1>7. IsTotal(h, U) /\ h \in [SUBSET U -> Nat]
  <2>1. \E f : IsTotal(f, U)
    BY <1>5, <1>6, TotalExists
  <2>2. IsTotal(h, U)
    BY <2>1
  <2> HIDE DEF h
  <2> QED
    BY <1>5, <1>6, <2>2, TotalIsTyped
<1>8. CharactersOf(U) = h[U]
  BY TotalIs
<1> HIDE DEF h, n
<1>9. PICK p : CountSteps(p, memories, s)
  BY CharactersUnroll
<1>10. /\ p \in [0..n -> Nat] /\ p[0] = 0 /\ Characters(memories, s) = p[n]
       /\ \A k \in 0..(n - 1) : p[k + 1] = p[k] + Size[memories[s[k + 1]].value]
  BY <1>9 DEF CountSteps, n
<1>11. Additive(h, U)
  BY <1>5, <1>6, <1>7, TotalAdds
<1> DEFINE T == {k \in 0..n : h[A(k)] <= p[k]}
<1>12. T \in SUBSET (0..n) /\ 0 \in T
  <2>1. h[{}] = 0
    BY <1>7 DEF IsTotal
  <2>2. 0 \in 0..n /\ p[0] = 0
    BY <1>1, <1>10
  <2>3. h[A(0)] = 0
    <3>1. A(0) = {}
      BY <1>3
    <3> QED
      BY <2>1, <3>1
  <2> QED
    BY <2>2, <2>3
<1>13. ASSUME NEW k \in 0..(n - 1), k \in T PROVE k + 1 \in T
  <2> DEFINE z == C(k + 1)
             a == A(k)
  <2>1. k \in 0..n /\ k + 1 \in 0..n /\ k + 1 \in 1..n
    BY <1>1
  <2>2. /\ a \in SUBSET U /\ z \in U /\ Size[z.value] \in Nat /\ A(k + 1) = a \cup {z}
        /\ z.value = memories[s[k + 1]].value
    BY <1>2, <1>3, <1>4, <2>1
  <2>3. h[a] \in Nat /\ p[k] \in Nat /\ h[a] <= p[k] /\ p[k + 1] = p[k] + Size[z.value]
    BY <1>7, <1>10, <1>13, <2>1, <2>2
  <2> HIDE DEF z, a
  <2>4. h[a \cup {z}] <= h[a] + Size[z.value]
    <3>1. CASE z \in a
      <4>1. a \cup {z} = a
        BY <3>1
      <4>2. h[a \cup {z}] = h[a]
        BY <4>1
      <4> QED
        BY <2>2, <2>3, <4>2
    <3>2. CASE z \notin a
      <4>1. a \in SUBSET U /\ z \in U
        BY <2>2
      <4>2. h[a \cup {z}] = h[a] + Size[z.value]
        BY <1>11, <3>2, <4>1 DEF Additive
      <4> QED
        BY <2>2, <2>3, <4>2
    <3> QED
      BY <3>1, <3>2
  <2>5. h[a \cup {z}] \in Nat
    BY <1>7, <2>2
  <2>6. h[A(k + 1)] <= p[k + 1]
    <3>1. h[A(k + 1)] = h[a \cup {z}]
      BY <2>2
    <3> QED
      BY <2>2, <2>3, <2>4, <2>5, <3>1
  <2> QED
    BY <2>1, <2>6
<1>14. T = 0..n
  <2> HIDE DEF T
  <2> QED
    BY <1>1, <1>12, <1>13, UpToN
<1>15. h[U] \in Nat
  BY <1>7
<1> QED
  BY <1>1, <1>8, <1>10, <1>14, <1>15 DEF U

-----------------------------------------------------------------------------
(* What compose selects, and what a trip becomes with it.                  *)

IsMemories(memories) ==
    IsFiniteSet(DOMAIN memories) /\ \A m \in DOMAIN memories : memories[m].value \in Values

(* The memories that compose chooses from, before it clips them.           *)
Candidates(memories, trip, draft, now) ==
    LET ids == Eligible(memories, trip, draft, now)
    IN  {m \in ids : Category[memories[m].value] \notin ConflictCategories(memories, ids)}

LEMMA CandidatesFit ==
    ASSUME NEW memories, IsMemories(memories), NEW trip, NEW draft, NEW now
    PROVE  /\ Candidates(memories, trip, draft, now) \in SUBSET DOMAIN memories
           /\ \A m \in Candidates(memories, trip, draft, now) :
                /\ memories[m].value \in Values
                /\ ~ExplicitlyOverridden(memories[m].value, draft)
           /\ \A l, m \in Candidates(memories, trip, draft, now) :
                Category[memories[l].value] = Category[memories[m].value]
                  => Says[memories[l].value] = Says[memories[m].value]
<1> DEFINE ids == Eligible(memories, trip, draft, now)
           clear == Candidates(memories, trip, draft, now)
<1>1. /\ ids \in SUBSET DOMAIN memories
      /\ \A m \in ids : ~ExplicitlyOverridden(memories[m].value, draft)
  BY DEF Eligible
<1>2. /\ clear \in SUBSET ids
      /\ \A m \in clear : Category[memories[m].value] \notin ConflictCategories(memories, ids)
  BY DEF Candidates
<1> HIDE DEF ids, clear
<1>3. ASSUME NEW l \in clear, NEW m \in clear,
             Category[memories[l].value] = Category[memories[m].value]
      PROVE  Says[memories[l].value] = Says[memories[m].value]
  BY <1>2, <1>3 DEF ConflictCategories
<1> QED
  BY <1>1, <1>2, <1>3 DEF IsMemories, clear

LEMMA ComposeClips ==
    ASSUME NEW memories, IsMemories(memories), NEW trip, NEW draft, NEW now,
           NEW s \in Compose(memories, trip, draft, now)
    PROVE  \E r \in Seq(Candidates(memories, trip, draft, now)) : s = Clip(memories, r)
<1> DEFINE clear == Candidates(memories, trip, draft, now)
<1>1. PICK r \in Ranked(memories, clear) : s = Clip(memories, r)
  BY DEF Compose, Candidates
<1>2. IsFiniteSet(clear)
  BY CandidatesFit, FS_Subset DEF IsMemories
<1> HIDE DEF clear
<1>3. Cardinality(clear) \in Nat
  BY <1>2, FS_CardinalityType
<1>4. r \in [1..Cardinality(clear) -> clear]
  BY <1>1 DEF Ranked, SetToSeqs
<1>5. r \in Seq(clear)
  BY <1>3, <1>4
<1> QED
  BY <1>1, <1>5 DEF clear

(* compose selects memories that there are, and of one category only those *)
(* that agree.                                                             *)
LEMMA ComposeSelects ==
    ASSUME NEW memories, IsMemories(memories), NEW trip, NEW draft, NEW now,
           NEW s \in Compose(memories, trip, draft, now)
    PROVE  /\ s \in Seq(Candidates(memories, trip, draft, now))
           /\ \A i \in DOMAIN s : s[i] \in DOMAIN memories
           /\ \A i, j \in DOMAIN s :
                Category[memories[s[i]].value] = Category[memories[s[j]].value]
                  => Says[memories[s[i]].value] = Says[memories[s[j]].value]
<1> DEFINE clear == Candidates(memories, trip, draft, now)
<1>1. PICK r \in Seq(clear) : s = Clip(memories, r)
  BY ComposeClips
<1> HIDE DEF clear
<1>2. s \in Seq(clear)
  BY <1>1, ClipFits
<1>3. \A i \in DOMAIN s : s[i] \in clear
  BY <1>2
<1> QED
  BY <1>2, <1>3, CandidatesFit DEF clear

(* What it selects fits the budget of characters.                          *)
LEMMA ComposeFits ==
    ASSUME NEW memories, IsMemories(memories), NEW trip, NEW draft, NEW now,
           NEW s \in Compose(memories, trip, draft, now)
    PROVE  CharactersOf(Said(memories, s)) <= MaxCharacters
<1> DEFINE clear == Candidates(memories, trip, draft, now)
           sum == CharactersOf(Said(memories, s))
<1>1. PICK r \in Seq(clear) : s = Clip(memories, r)
  BY ComposeClips
<1>2. s \in Seq(clear) /\ \A m \in clear : memories[m].value \in Values
  BY ComposeSelects, CandidatesFit
<1> HIDE DEF clear
<1>3. s = <<>> \/ Characters(memories, s) <= MaxCharacters
  BY <1>1, ClipFits
<1>4. sum <= Characters(memories, s)
  BY <1>2, TotalWithin
<1>5. sum \in Nat
  BY <1>2, TotalWithin
<1>6. PICK p : CountSteps(p, memories, s)
  BY <1>2, CharactersUnroll
<1>7. Characters(memories, s) \in Nat /\ (s = <<>> => Characters(memories, s) = 0)
  BY <1>2, <1>6 DEF CountSteps
<1> HIDE DEF sum
<1>8. sum <= MaxCharacters
  BY <1>3, <1>4, <1>5, <1>7, ContextAssumption
<1> QED
  BY <1>8 DEF sum

(* The trip that a run plans with keeps what its request settled.          *)
LEMMA ComposedTrip ==
    ASSUME NEW memories, IsMemories(memories), NEW asked \in Trip, NEW draft, NEW now,
           NEW s \in Compose(memories, asked, draft, now)
    PROVE  Agrees(ApplyToTrip(asked, draft, memories, s), asked, draft)
<1> DEFINE clear == Candidates(memories, asked, draft, now)
<1>1. s \in Seq(clear)
  BY ComposeSelects
<1>2. \A m \in clear : /\ memories[m].value \in Values
                       /\ ~ExplicitlyOverridden(memories[m].value, draft)
  BY CandidatesFit
<1> HIDE DEF clear
<1> QED
  BY <1>1, <1>2, AppliedAgrees

(* The sum over no memory at all.                                          *)
LEMMA TotalOfNone ==
    CharactersOf({}) <= MaxCharacters
<1> DEFINE memories == <<>>
           sum == CharactersOf({})
<1>1. <<>> \in Seq({}) /\ Len(<<>>) = 0 /\ \A m \in {} : memories[m].value \in Values
  OBVIOUS
<1>2. Said(memories, <<>>) = {}
  BY DEF Said
<1> HIDE DEF memories
<1>3. PICK p : CountSteps(p, memories, <<>>)
  BY <1>1, CharactersUnroll
<1>4. Characters(memories, <<>>) = 0
  BY <1>1, <1>3 DEF CountSteps
<1>5. /\ CharactersOf(Said(memories, <<>>)) \in Nat
      /\ CharactersOf(Said(memories, <<>>))
           <= Characters(memories, <<>>)
  BY <1>1, TotalWithin
<1>6. sum \in Nat /\ sum <= 0
  BY <1>2, <1>4, <1>5
<1> HIDE DEF sum
<1>7. sum <= MaxCharacters
  BY <1>6, ContextAssumption
<1> QED
  BY <1>7 DEF sum

=============================================================================

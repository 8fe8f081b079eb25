--------------------------- MODULE OracleTheorems ---------------------------
(***************************************************************************)
(* What the reference loops of ScalarOracles compute, for every input.     *)
(*                                                                         *)
(* A loop is a recursive function there, and TLA+ defines it as some       *)
(* function that solves the loop's equation.  So of each loop two things   *)
(* are shown: the equation has a solution (the closed form, or one built   *)
(* downwards from the end of the data), and it has only one (the greatest  *)
(* argument at which two solutions differ would not be the greatest).      *)
(***************************************************************************)
EXTENDS ScalarOracles, SequenceTheorems, WellFoundedInduction, TLAPS

(* A set of numbers that is not empty has a least element. *)
LEMMA LeastExists ==
    ASSUME NEW S \in SUBSET Nat, S # {}
    PROVE  \E p \in S : \A q \in S : p <= q
  <1>1. IsWellFoundedOn(OpToRel(<, Nat), Nat)
    BY NatLessThanWellFounded, Zenon
  <1>2. \E p \in S : \A q \in S : ~(<<q, p>> \in OpToRel(<, Nat))
    BY <1>1, WFMin, Zenon
  <1>3. PICK p \in S : \A q \in S : ~(<<q, p>> \in OpToRel(<, Nat))
    BY <1>2, Zenon
  <1>4. \A q \in S : ~(q < p)
    BY <1>3 DEF OpToRel
  <1> QED
    BY <1>4

(* So a set of numbers that has a bound has a greatest one. *)
LEMMA GreatestExists ==
    ASSUME NEW l \in Nat, NEW S \in SUBSET (0..l), S # {}
    PROVE  \E p \in S : \A q \in S : q <= p
  <1> DEFINE T == {k \in 0..l : l - k \in S}
  <1>1. T \in SUBSET Nat
    OBVIOUS
  <1>2. T # {}
    <2>1. PICK s \in S : TRUE
      OBVIOUS
    <2>2. l - s \in 0..l /\ l - (l - s) = s
      OBVIOUS
    <2>3. l - s \in T
      BY <2>2
    <2> QED
      BY <2>3
  <1>3. PICK k \in T : \A m \in T : k <= m
    <2> HIDE DEF T
    <2> QED
      BY <1>1, <1>2, LeastExists
  <1>4. ASSUME NEW q \in S PROVE q <= l - k
    <2>1. l - q \in T /\ q \in 0..l /\ k \in 0..l
      OBVIOUS
    <2>2. k <= l - q
      BY <1>3, <2>1
    <2> HIDE DEF T
    <2> QED
      BY <2>1, <2>2
  <1> QED
    BY <1>3, <1>4

(* Downwards from l: what passes from each number to the one before it     *)
(* holds of every number up to l.                                          *)
LEMMA Downward ==
    ASSUME NEW l \in Nat, NEW S \in SUBSET (0..l), l \in S,
           \A k \in 0..(l - 1) : (\A m \in (k + 1)..l : m \in S) => k \in S
    PROVE  S = 0..l
  <1> SUFFICES ASSUME S # 0..l PROVE FALSE
    OBVIOUS
  <1> DEFINE T == (0..l) \ S
  <1>1. T # {} /\ T \in SUBSET (0..l)
    OBVIOUS
  <1>2. PICK k \in T : \A m \in T : m <= k
    <2> HIDE DEF T
    <2> QED
      BY <1>1, GreatestExists
  <1>3. k \in 0..(l - 1)
    OBVIOUS
  <1>4. \A m \in (k + 1)..l : m \in S
    BY <1>2, <1>3
  <1> QED
    BY <1>2, <1>3, <1>4
------------------------------------------------------------------------------
Pair == Nat \X Nat

(* w[s] is the ranges from s to l, each ending where e says. *)
IsWalk(w, e, l) ==
    w = [s \in 0..l |-> IF s = l THEN <<>> ELSE <<<<s, e[s]>>>> \o w[e[s]]]

(* Where each range ends: after it begins, and not after l. *)
IsEnds(e, l) == \A s \in 0..(l - 1) : e[s] \in (s + 1)..l

(* Such ends determine the walk. *)
LEMMA WalkUnique ==
    ASSUME NEW l \in Nat, NEW e, IsEnds(e, l), NEW v, NEW w, IsWalk(v, e, l), IsWalk(w, e, l)
    PROVE  v = w
  <1> DEFINE S == {s \in 0..l : v[s] = w[s]}
  <1>1. l \in S
    BY DEF IsWalk
  <1>2. ASSUME NEW k \in 0..(l - 1), \A m \in (k + 1)..l : m \in S PROVE k \in S
    <2>1. e[k] \in S /\ k # l /\ k \in 0..l
      BY <1>2 DEF IsEnds
    <2>2. v[e[k]] = w[e[k]]
      BY <2>1
    <2>3. v[k] = <<<<k, e[k]>>>> \o v[e[k]]
      BY <2>1, Zenon DEF IsWalk
    <2>4. w[k] = <<<<k, e[k]>>>> \o w[e[k]]
      BY <2>1, Zenon DEF IsWalk
    <2> QED
      BY <2>1, <2>2, <2>3, <2>4
  <1>3. S = 0..l
    <2> HIDE DEF S
    <2>1. S \in SUBSET (0..l)
      BY DEF S
    <2> QED
      BY <1>1, <1>2, <2>1, Downward
  <1>4. \A s \in 0..l : v[s] = w[s]
    BY <1>3
  <1>5. v = [s \in 0..l |-> v[s]] /\ w = [s \in 0..l |-> w[s]]
    BY Zenon DEF IsWalk
  <1> QED
    BY <1>4, <1>5, Zenon

(* There is one. *)
LEMMA WalkExists ==
    ASSUME NEW l \in Nat, NEW e, IsEnds(e, l)
    PROVE  \E w \in [0..l -> Seq(Pair)] : IsWalk(w, e, l)
  <1> DEFINE Rest(w, s) == IF s = l THEN <<>> ELSE <<<<s, e[s]>>>> \o w[e[s]]
             Upto(w, k) == \A s \in k..l : w[s] = Rest(w, s)
             S == {k \in 0..l : \E w \in [0..l -> Seq(Pair)] : Upto(w, k)}
  <1>1. l \in S
    <2> DEFINE w == [s \in 0..l |-> <<>>]
    <2>1. w \in [0..l -> Seq(Pair)]
      BY EmptySeq
    <2>2. \A s \in l..l : s = l /\ w[s] = <<>>
      OBVIOUS
    <2>3. Upto(w, l)
      <3> HIDE DEF w
      <3> QED
        BY <2>2
    <2> HIDE DEF w, Upto
    <2> QED
      BY <2>1, <2>3
  <1>2. ASSUME NEW k \in 0..(l - 1), \A m \in (k + 1)..l : m \in S PROVE k \in S
    <2>1. k + 1 \in (k + 1)..l
      OBVIOUS
    <2>2. PICK w \in [0..l -> Seq(Pair)] : Upto(w, k + 1)
      BY <1>2, <2>1
    <2> DEFINE new == <<<<k, e[k]>>>> \o w[e[k]]
               v == [w EXCEPT ![k] = new]
    <2>3. e[k] \in (k + 1)..l /\ e[k] \in 0..l /\ k \in 0..l
      BY DEF IsEnds
    <2>4. <<k, e[k]>> \in Pair
      BY <2>3 DEF Pair
    <2>5. new \in Seq(Pair)
      <3>1. <<<<k, e[k]>>>> \in Seq(Pair)
        BY <2>4
      <3>2. w[e[k]] \in Seq(Pair)
        BY <2>2, <2>3
      <3> QED
        BY <3>1, <3>2, ConcatProperties
    <2>6. v \in [0..l -> Seq(Pair)] /\ v[k] = new /\ \A s \in (k + 1)..l : v[s] = w[s]
      <3> HIDE DEF new
      <3> QED
        BY <2>2, <2>3, <2>5
    <2>7. ASSUME NEW s \in (k + 1)..l PROVE v[s] = Rest(v, s)
      <3>1. w[s] = Rest(w, s)
        BY <2>2
      <3>2. s = l \/ e[s] \in (k + 1)..l
        BY DEF IsEnds
      <3>3. Rest(w, s) = Rest(v, s)
        <4> HIDE DEF v
        <4> QED
          BY <2>6, <3>2
      <3> QED
        BY <2>6, <3>1, <3>3
    <2>8. v[k] = Rest(v, k)
      <3>1. v[e[k]] = w[e[k]] /\ k # l
        BY <2>3, <2>6
      <3> HIDE DEF v
      <3> QED
        BY <2>6, <3>1
    <2>9. Upto(v, k)
      <3> SUFFICES ASSUME NEW s \in k..l PROVE v[s] = Rest(v, s)
        OBVIOUS
      <3>1. s = k \/ s \in (k + 1)..l
        OBVIOUS
      <3> HIDE DEF v, Rest
      <3>2. CASE s = k
        BY <2>8, <3>2
      <3>3. CASE s \in (k + 1)..l
        BY <2>7, <3>3
      <3> QED
        BY <3>1, <3>2, <3>3
    <2> HIDE DEF v, Upto
    <2> QED
      BY <2>3, <2>6, <2>9
  <1>3. S = 0..l
    <2> HIDE DEF S
    <2>1. S \in SUBSET (0..l)
      BY DEF S
    <2> QED
      BY <1>1, <1>2, <2>1, Downward
  <1>4. PICK w \in [0..l -> Seq(Pair)] : \A s \in 0..l : w[s] = Rest(w, s)
    <2>1. 0 \in S
      <3> HIDE DEF S
      <3> QED
        BY <1>3
    <2> QED
      BY <2>1, Zenon
  <1>5. w = [s \in 0..l |-> Rest(w, s)]
    BY <1>4
  <1> QED
    BY <1>5 DEF IsWalk
------------------------------------------------------------------------------
(* f searches upwards from c for a stop. *)
IsSearch(f, stop, found, l) ==
    f = [c \in 0..l |-> IF c \in stop THEN found[c] ELSE f[c + 1]]

(* A search that stops at l at the latest has one result for each c. *)
LEMMA SearchUnique ==
    ASSUME NEW l \in Nat, NEW stop, l \in stop, NEW found,
           NEW f, NEW g, IsSearch(f, stop, found, l), IsSearch(g, stop, found, l)
    PROVE  f = g
  <1> DEFINE S == {c \in 0..l : f[c] = g[c]}
  <1>0. \A c \in 0..l : /\ f[c] = IF c \in stop THEN found[c] ELSE f[c + 1]
                        /\ g[c] = IF c \in stop THEN found[c] ELSE g[c + 1]
    BY Zenon DEF IsSearch
  <1>1. l \in S
    BY <1>0
  <1>2. ASSUME NEW k \in 0..(l - 1), \A m \in (k + 1)..l : m \in S PROVE k \in S
    <2>1. k + 1 \in S /\ k \in 0..l
      BY <1>2
    <2> QED
      BY <1>0, <2>1
  <1>3. S = 0..l
    <2> HIDE DEF S
    <2>1. S \in SUBSET (0..l)
      BY DEF S
    <2> QED
      BY <1>1, <1>2, <2>1, Downward
  <1>4. \A c \in 0..l : f[c] = g[c]
    BY <1>3
  <1>5. f = [c \in 0..l |-> f[c]] /\ g = [c \in 0..l |-> g[c]]
    BY Zenon DEF IsSearch
  <1> QED
    BY <1>4, <1>5, Zenon

(* The offsets from c on where d occurs in s, the first of them, and the   *)
(* offset after it; the end of s if there is none.                         *)
Hits(s, d, c) == {p \in c..Len(s) : MatchAt(s, d, p)}
FirstHit(s, d, c) ==
    IF Hits(s, d, c) = {} THEN Len(s)
    ELSE CHOOSE p \in Hits(s, d, c) : \A q \in Hits(s, d, c) : p <= q
AfterHit(s, d, c) ==
    IF Hits(s, d, c) = {} THEN Len(s) ELSE FirstHit(s, d, c) + Len(d)

(* The first hit is a hit, and the first. *)
LEMMA HitIsFirst ==
    ASSUME NEW B, NEW s \in Seq(B), NEW d, NEW c \in Nat, Hits(s, d, c) # {}
    PROVE  /\ FirstHit(s, d, c) \in Hits(s, d, c)
           /\ \A q \in Hits(s, d, c) : FirstHit(s, d, c) <= q
  <1> DEFINE H == Hits(s, d, c)
  <1>1. H \in SUBSET Nat
    BY DEF Hits
  <1>2. FirstHit(s, d, c) = CHOOSE p \in H : \A q \in H : p <= q
    BY DEF FirstHit
  <1> HIDE DEF H
  <1>3. H # {}
    BY DEF H
  <1>4. \E p \in H : \A q \in H : p <= q
    BY <1>1, <1>3, LeastExists
  <1>5. FirstHit(s, d, c) \in H /\ \A q \in H : FirstHit(s, d, c) <= q
    BY <1>2, <1>4
  <1> QED
    BY <1>5 DEF H

(* How the first hit from c on relates to the one from c + 1 on. *)
LEMMA HitSteps ==
    ASSUME NEW B, NEW s \in Seq(B), NEW d \in Seq(B), NEW c \in Nat
    PROVE  /\ MatchAt(s, d, c) /\ c <= Len(s) => FirstHit(s, d, c) = c /\ AfterHit(s, d, c) = c + Len(d)
           /\ ~MatchAt(s, d, c) /\ c < Len(s) =>
                FirstHit(s, d, c) = FirstHit(s, d, c + 1) /\ AfterHit(s, d, c) = AfterHit(s, d, c + 1)
           /\ c + Len(d) > Len(s) =>
                FirstHit(s, d, c) = Len(s) /\ AfterHit(s, d, c) = Len(s)
  <1>0. Len(s) \in Nat /\ Len(d) \in Nat
    OBVIOUS
  <1>1. CASE MatchAt(s, d, c) /\ c <= Len(s)
    <2>1. c \in Hits(s, d, c)
      BY <1>0, <1>1 DEF Hits
    <2>2. FirstHit(s, d, c) \in Hits(s, d, c) /\ FirstHit(s, d, c) <= c
      BY <2>1, HitIsFirst
    <2>3. FirstHit(s, d, c) = c
      BY <1>0, <2>2 DEF Hits
    <2>4. AfterHit(s, d, c) = c + Len(d)
      BY <2>1, <2>3 DEF AfterHit
    <2>5. c + Len(d) <= Len(s)
      BY <1>1 DEF MatchAt
    <2> QED
      BY <1>0, <1>1, <2>3, <2>4, <2>5
  <1>2. CASE ~MatchAt(s, d, c) /\ c < Len(s)
    <2>1. Hits(s, d, c) = Hits(s, d, c + 1)
      BY <1>0, <1>2 DEF Hits
    <2>2. FirstHit(s, d, c) = FirstHit(s, d, c + 1) /\ AfterHit(s, d, c) = AfterHit(s, d, c + 1)
      BY <2>1 DEF FirstHit, AfterHit
    <2>3. c + Len(d) > Len(s) => Hits(s, d, c) = {}
      BY <1>0 DEF Hits, MatchAt
    <2> QED
      BY <1>2, <2>2, <2>3 DEF FirstHit, AfterHit
  <1>3. CASE c >= Len(s) /\ ~(MatchAt(s, d, c) /\ c <= Len(s))
    <2>1. Hits(s, d, c) = {}
      BY <1>0, <1>3 DEF Hits
    <2> QED
      BY <1>0, <1>3, <2>1 DEF FirstHit, AfterHit
  <1> QED
    BY <1>0, <1>1, <1>2, <1>3

(* The offset after a hit is beyond c and not beyond the end. *)
LEMMA HitBounds ==
    ASSUME NEW B, NEW s \in Seq(B), NEW d \in Seq(B), Len(d) > 0, NEW c \in 0..Len(s)
    PROVE  /\ FirstHit(s, d, c) \in c..Len(s) /\ AfterHit(s, d, c) \in c..Len(s)
           /\ c < Len(s) => AfterHit(s, d, c) > c
           /\ AfterHit(s, d, c) = Len(s) \/ MatchAt(s, d, AfterHit(s, d, c) - Len(d))
  <1>0. Len(s) \in Nat /\ Len(d) \in Nat
    OBVIOUS
  <1>1. CASE Hits(s, d, c) = {}
    BY <1>0, <1>1 DEF FirstHit, AfterHit
  <1>2. CASE Hits(s, d, c) # {}
    <2> DEFINE p == FirstHit(s, d, c)
    <2>1. p \in Hits(s, d, c)
      BY <1>2, HitIsFirst
    <2>2. p \in c..Len(s) /\ MatchAt(s, d, p) /\ p + Len(d) <= Len(s)
      BY <2>1 DEF Hits, MatchAt
    <2>3. AfterHit(s, d, c) = p + Len(d)
      BY <1>2 DEF AfterHit
    <2> HIDE DEF p
    <2>4. (p + Len(d)) - Len(d) = p
      BY <1>0, <2>2
    <2> QED
      BY <1>0, <2>2, <2>3, <2>4 DEF p
  <1> QED
    BY <1>1, <1>2

(* After one byte: one offset further, or the end. *)
LEMMA AfterOneByte ==
    ASSUME NEW B, NEW s \in Seq(B), NEW d \in Seq(B), Len(d) = 1, NEW c \in 0..Len(s)
    PROVE  /\ FirstHit(s, d, c) \in c..Len(s)
           /\ AfterHit(s, d, c) = MinOf(FirstHit(s, d, c) + 1, Len(s))
  <1>0. Len(s) \in Nat
    OBVIOUS
  <1>1. CASE Hits(s, d, c) = {}
    BY <1>0, <1>1 DEF FirstHit, AfterHit, MinOf
  <1>2. CASE Hits(s, d, c) # {}
    <2> DEFINE p == FirstHit(s, d, c)
    <2>1. p \in Hits(s, d, c)
      BY <1>2, HitIsFirst
    <2>2. p \in c..Len(s) /\ p + Len(d) <= Len(s)
      BY <2>1 DEF Hits, MatchAt
    <2>3. AfterHit(s, d, c) = p + Len(d)
      BY <1>2 DEF AfterHit
    <2> HIDE DEF p
    <2> QED
      BY <1>0, <2>2, <2>3 DEF p, MinOf
  <1> QED
    BY <1>1, <1>2

(* It is what the planners' and scanners' searches stand for. *)
LEMMA HitIsMatch ==
    ASSUME NEW B, NEW s \in Seq(B), NEW d \in Seq(B), NEW c \in 0..Len(s)
    PROVE  /\ NoMatchIn(s, d, c, Len(s)) => FirstHit(s, d, c) = Len(s) /\ AfterHit(s, d, c) = Len(s)
           /\ \A p : FirstMatchIn(s, d, c, Len(s), p) =>
                /\ p \in Nat /\ FirstHit(s, d, c) = p
                /\ AfterHit(s, d, c) = p + Len(d) /\ p + Len(d) <= Len(s)
  <1>0. Len(s) \in Nat /\ Len(d) \in Nat
    OBVIOUS
  <1>1. ASSUME NoMatchIn(s, d, c, Len(s))
        PROVE  FirstHit(s, d, c) = Len(s) /\ AfterHit(s, d, c) = Len(s)
    <2>1. Hits(s, d, c) = {}
      BY <1>0, <1>1 DEF NoMatchIn, Hits, MatchAt
    <2> QED
      BY <2>1 DEF FirstHit, AfterHit
  <1>2. ASSUME NEW p, FirstMatchIn(s, d, c, Len(s), p)
        PROVE  /\ p \in Nat /\ FirstHit(s, d, c) = p
               /\ AfterHit(s, d, c) = p + Len(d) /\ p + Len(d) <= Len(s)
    <2>1. p \in c..Len(s) /\ p + Len(d) <= Len(s) /\ p \in Hits(s, d, c)
      BY <1>2 DEF FirstMatchIn, Hits
    <2> DEFINE q == FirstHit(s, d, c)
    <2>2. q \in Hits(s, d, c) /\ q <= p
      BY <2>1, HitIsFirst
    <2>3. q \in c..Len(s) /\ MatchAt(s, d, q) /\ AfterHit(s, d, c) = q + Len(d)
      BY <2>2 DEF Hits, AfterHit
    <2> HIDE DEF q
    <2>4. ~(q < p)
      <3>1. q < p => q \in c..(p - 1)
        BY <1>0, <2>1, <2>3
      <3> QED
        BY <1>2, <2>3, <3>1 DEF FirstMatchIn
    <2> QED
      BY <1>0, <2>1, <2>2, <2>3, <2>4 DEF q
  <1> QED
    BY <1>1, <1>2
------------------------------------------------------------------------------
(* Where a search for d in s stops, and what it then returns. *)
Stops(s, d) == {c \in 0..Len(s) : c + Len(d) > Len(s) \/ MatchAt(s, d, c)}
StopEnd(s, d) == [c \in 0..Len(s) |-> IF c + Len(d) > Len(s) THEN Len(s) ELSE c + Len(d)]

Ends(s, d) == [c \in 0..Len(s) |-> AfterHit(s, d, c)]

(* The offsets after the hits solve the equation of the pattern search. *)
LEMMA EndsSearch ==
    ASSUME NEW B, NEW s \in Seq(B), NEW d \in Seq(B), Len(d) > 0
    PROVE  /\ IsSearch(Ends(s, d), Stops(s, d), StopEnd(s, d), Len(s))
           /\ Len(s) \in Stops(s, d) /\ Len(s) \in Nat /\ Len(d) \in Nat
  <1>0. Len(s) \in Nat /\ Len(d) \in Nat
    OBVIOUS
  <1>1. Len(s) \in Stops(s, d)
    BY <1>0 DEF Stops
  <1>2. ASSUME NEW c \in 0..Len(s)
        PROVE  AfterHit(s, d, c) =
                 IF c \in Stops(s, d) THEN StopEnd(s, d)[c] ELSE Ends(s, d)[c + 1]
    <2>1. c \in Nat /\ c <= Len(s)
      BY <1>0
    <2>2. CASE c + Len(d) > Len(s)
      BY <2>1, <2>2, HitSteps DEF Stops, StopEnd
    <2>3. CASE c + Len(d) <= Len(s) /\ MatchAt(s, d, c)
      BY <1>0, <2>1, <2>3, HitSteps DEF Stops, StopEnd
    <2>4. CASE c + Len(d) <= Len(s) /\ ~MatchAt(s, d, c)
      <3>1. c < Len(s) /\ c \notin Stops(s, d) /\ c + 1 \in 0..Len(s)
        BY <1>0, <2>4 DEF Stops
      <3>2. AfterHit(s, d, c) = AfterHit(s, d, c + 1)
        BY <2>1, <2>4, <3>1, HitSteps
      <3> QED
        BY <3>1, <3>2 DEF Ends
    <2> QED
      BY <1>0, <2>1, <2>2, <2>3, <2>4
  <1>3. IsSearch(Ends(s, d), Stops(s, d), StopEnd(s, d), Len(s))
    BY <1>2 DEF IsSearch, Ends
  <1> QED
    BY <1>0, <1>1, <1>3

(* The steps of a search for one byte. *)
LEMMA OneByteSteps ==
    ASSUME NEW B, NEW s \in Seq(B), NEW d \in Seq(B), Len(d) = 1, NEW q \in Nat
    PROVE  /\ MatchAt(s, d, q) /\ q <= Len(s) => FirstHit(s, d, q) = q
           /\ ~MatchAt(s, d, q) /\ q < Len(s) => FirstHit(s, d, q) = FirstHit(s, d, q + 1)
           /\ q + 1 > Len(s) => FirstHit(s, d, q) = Len(s)
  <1>1. MatchAt(s, d, q) /\ q <= Len(s) => FirstHit(s, d, q) = q
    BY HitSteps
  <1>2. ~MatchAt(s, d, q) /\ q < Len(s) => FirstHit(s, d, q) = FirstHit(s, d, q + 1)
    BY HitSteps
  <1>3. q + Len(d) > Len(s) => FirstHit(s, d, q) = Len(s)
    BY HitSteps, ZenonT(60)
  <1> QED
    BY <1>1, <1>2, <1>3

(* The byte loop of the oracles: the loop variable it ends with. *)
LEMMA SkipToIs ==
    ASSUME NEW B, NEW s \in Seq(B), NEW d \in Seq(B), Len(d) = 1, NEW c \in 0..Len(s)
    PROVE  SkipTo(s, d[1], c) = FirstHit(s, d, c)
  <1> DEFINE l == Len(s)
             F(f) == [q \in 0..l |-> IF q < l /\ s[q + 1] # d[1] THEN f[q + 1] ELSE q]
             g == [q \in 0..l |-> FirstHit(s, d, q)]
             stop == {q \in 0..l : ~(q < l /\ s[q + 1] # d[1])}
             self == [q \in 0..l |-> q]
             skip == CHOOSE f : f = F(f)
  <1>0. l \in Nat 
    OBVIOUS
  <1>1. ASSUME NEW q \in 0..l
        PROVE  FirstHit(s, d, q) = IF q < l /\ s[q + 1] # d[1] THEN g[q + 1] ELSE q
    <2>0. q \in Nat /\ (MatchAt(s, d, q) <=> q < l /\ s[q + 1] = d[1])
      BY <1>0 DEF MatchAt
    <2>h. /\ MatchAt(s, d, q) /\ q <= l => FirstHit(s, d, q) = q
          /\ ~MatchAt(s, d, q) /\ q < l =>
                FirstHit(s, d, q) = FirstHit(s, d, q + 1)
          /\ q + 1 > l => FirstHit(s, d, q) = l
      BY <2>0, OneByteSteps
    <2>1. CASE q < l /\ s[q + 1] # d[1]
      <3>1. q + 1 \in 0..l
        BY <1>0, <2>1
      <3> QED
        BY <2>0, <2>h, <2>1, <3>1
    <2>2. CASE q < l /\ s[q + 1] = d[1]
      BY <1>0, <2>0, <2>h, <2>2
    <2>3. CASE ~(q < l)
      <3>1. q = l /\ q + 1 > l
        BY <1>0, <2>3
      <3> QED
        BY <2>3, <2>h, <3>1
    <2> QED
      BY <2>1, <2>2, <2>3
  <1>2. g = F(g)
    BY <1>1
  <1>3. \A f : f = F(f) => IsSearch(f, stop, self, l)
    <2> SUFFICES ASSUME NEW f, f = F(f) PROVE IsSearch(f, stop, self, l)
      OBVIOUS
    <2>1. \A q \in 0..l : (IF q < l /\ s[q + 1] # d[1] THEN f[q + 1] ELSE q)
                            = IF q \in stop THEN self[q] ELSE f[q + 1]
      OBVIOUS
    <2> QED
      BY <2>1, Zenon DEF IsSearch
  <1>4. l \in stop
    BY <1>0
  <1>5. SkipTo(s, d[1], c) = skip[c]
    BY DEF SkipTo
  <1>6. skip = F(skip)
    <2>1. \E f : f = F(f)
      BY <1>2, Zenon
    <2> HIDE DEF F
    <2> QED
      BY <2>1
  <1> HIDE DEF skip, F, g, stop, self
  <1>7. skip = g
    BY <1>0, <1>2, <1>3, <1>4, <1>6, SearchUnique
  <1> QED
    BY <1>5, <1>7 DEF g
------------------------------------------------------------------------------
(* The loops that carry a variable.                                        *)

(* Two sequences of rows agree if their last rows do and agreement passes  *)
(* from each row to the one before.                                        *)
LEMMA RowsAgree ==
    ASSUME NEW n \in Nat, n > 0, NEW v, NEW w, v[n] = w[n],
           \A i \in 1..(n - 1) : v[i + 1] = w[i + 1] => v[i] = w[i]
    PROVE  \A i \in 1..n : v[i] = w[i]
  <1> DEFINE S == {i \in 0..n : i = 0 \/ v[i] = w[i]}
  <1>1. n \in S
    OBVIOUS
  <1>2. ASSUME NEW k \in 0..(n - 1), \A m \in (k + 1)..n : m \in S PROVE k \in S
    <2>1. k + 1 \in (k + 1)..n /\ k + 1 # 0 /\ k \in 0..n
      OBVIOUS
    <2>2. v[k + 1] = w[k + 1]
      BY <1>2, <2>1
    <2>3. k = 0 \/ k \in 1..(n - 1)
      OBVIOUS
    <2> QED
      BY <2>1, <2>2, <2>3
  <1>3. S = 0..n
    <2> HIDE DEF S
    <2>1. S \in SUBSET (0..n)
      BY DEF S
    <2> QED
      BY <1>1, <1>2, <2>1, Downward
  <1> TAKE i \in 1..n
  <1>4. i \in 0..n /\ i # 0
    OBVIOUS
  <1>5. i \in S
    <2> HIDE DEF S
    <2> QED
      BY <1>3, <1>4
  <1> QED
    BY <1>4, <1>5

(* Rows built from the last one backwards. *)
IsRows(w, base, before, n) ==
    w[n] = base /\ \A i \in 1..(n - 1) : w[i] = before[i][w[i + 1]]

(* There are some. *)
LEMMA RowsExist ==
    ASSUME NEW n \in Nat, n > 0, NEW R, NEW base \in R, NEW before \in [1..n -> [R -> R]]
    PROVE  \E w \in [1..n -> R] : IsRows(w, base, before, n)
  <1> DEFINE Upto(w, k) == w[n] = base /\ \A i \in 1..(n - 1) : i >= k => w[i] = before[i][w[i + 1]]
             S == {k \in 0..n : \E w \in [1..n -> R] : Upto(w, k)}
  <1>1. n \in S
    <2> DEFINE w == [i \in 1..n |-> base]
    <2>1. w \in [1..n -> R]
      OBVIOUS
    <2>2. Upto(w, n)
      OBVIOUS
    <2> QED
      BY <2>1, <2>2
  <1>2. ASSUME NEW k \in 0..(n - 1), \A m \in (k + 1)..n : m \in S PROVE k \in S
    <2>1. k + 1 \in S
      <3> HIDE DEF S
      <3>1. k + 1 \in (k + 1)..n
        OBVIOUS
      <3> QED
        BY <1>2, <3>1
    <2>2. PICK w \in [1..n -> R] : Upto(w, k + 1)
      BY <2>1
    <2>3. CASE k = 0
      <3>1. Upto(w, 0)
        BY <2>2, <2>3
      <3> QED
        BY <2>3, <3>1
    <2>4. CASE k # 0
      <3> DEFINE new == before[k][w[k + 1]]
                 v == [w EXCEPT ![k] = new]
      <3>1. k \in 1..(n - 1) /\ k \in 1..n /\ k + 1 \in 1..n /\ n # k
        BY <2>4
      <3>2. w[k + 1] \in R /\ new \in R
        BY <3>1
      <3>3. v \in [1..n -> R] /\ v[k] = new /\ \A i \in 1..n : i # k => v[i] = w[i]
        BY <3>1, <3>2
      <3> HIDE DEF v
      <3>4. v[n] = base
        BY <2>2, <3>1, <3>3
      <3>5. ASSUME NEW i \in 1..(n - 1), i >= k PROVE v[i] = before[i][v[i + 1]]
        <4>1. i + 1 \in 1..n /\ i + 1 # k /\ i \in 1..n
          BY <3>1, <3>5
        <4>2. v[i + 1] = w[i + 1]
          BY <3>3, <4>1
        <4>3. CASE i = k
          BY <3>3, <4>2, <4>3
        <4>4. CASE i # k
          <5>1. i >= k + 1
            BY <3>1, <3>5, <4>4
          <5>2. w[i] = before[i][w[i + 1]]
            BY <2>2, <5>1
          <5> QED
            BY <3>3, <4>1, <4>2, <4>4, <5>2
        <4> QED
          BY <4>3, <4>4
      <3>6. Upto(v, k)
        BY <3>4, <3>5
      <3> QED
        BY <3>1, <3>3, <3>6
    <2> QED
      BY <2>3, <2>4
  <1>3. S = 0..n
    <2> HIDE DEF S
    <2>1. S \in SUBSET (0..n)
      BY DEF S
    <2> QED
      BY <1>1, <1>2, <2>1, Downward
  <1>4. 0 \in S
    <2> HIDE DEF S
    <2> QED
      BY <1>3
  <1>5. PICK w \in [1..n -> R] : Upto(w, 0)
    BY <1>4
  <1>6. \A i \in 1..(n - 1) : i >= 0
    OBVIOUS
  <1>7. IsRows(w, base, before, n)
    BY <1>5, <1>6 DEF IsRows
  <1> QED
    BY <1>7

(* f[i][last] is what a partition loop pushes from iteration i on: T[i]    *)
(* is the target of iteration i, C[t] the cut of target t, and a cut at l  *)
(* breaks the loop.                                                        *)
CutRow(f, T, C, l, i, last) ==
    IF T[i] <= last THEN f[i + 1][last]
    ELSE IF C[T[i]] = l THEN <<l>> ELSE <<C[T[i]]>> \o f[i + 1][C[T[i]]]

IsCuts(f, T, C, n, l) ==
    f = [i \in 1..n |-> [last \in 0..l |->
            IF i = n THEN <<>> ELSE CutRow(f, T, C, l, i, last)]]

(* Targets in the file, cuts at or after them. *)
CutArgs(T, C, n, l) ==
    /\ n \in Nat \ {0} /\ l \in Nat
    /\ \A i \in 1..(n - 1) : T[i] \in 0..(l - 1)
    /\ \A t \in 0..(l - 1) : C[t] \in t..l

(* A loop with such targets pushes one sequence of cuts. *)
LEMMA CutsUnique ==
    ASSUME NEW n, NEW l, NEW T, NEW C, CutArgs(T, C, n, l),
           NEW f, NEW g, IsCuts(f, T, C, n, l), IsCuts(g, T, C, n, l)
    PROVE  f = g
  <1>0. n \in Nat /\ n > 0 /\ l \in Nat /\ n \in 1..n
    BY DEF CutArgs
  <1>1. f[n] = g[n]
    <2>1. f[n] = [last \in 0..l |-> <<>>] /\ g[n] = [last \in 0..l |-> <<>>]
      <3>1. f[n] = [last \in 0..l |-> IF n = n THEN <<>> ELSE CutRow(f, T, C, l, n, last)]
        BY <1>0, Zenon DEF IsCuts
      <3>2. g[n] = [last \in 0..l |-> IF n = n THEN <<>> ELSE CutRow(g, T, C, l, n, last)]
        BY <1>0, Zenon DEF IsCuts
      <3> QED
        BY <3>1, <3>2, Zenon
    <2> QED
      BY <2>1, Zenon
  <1>2. ASSUME NEW i \in 1..(n - 1), f[i + 1] = g[i + 1] PROVE f[i] = g[i]
    <2>1. i \in 1..n
      BY <1>0
    <2>2. f[i] = [last \in 0..l |-> IF i = n THEN <<>> ELSE CutRow(f, T, C, l, i, last)]
      BY <2>1, Zenon DEF IsCuts
    <2>3. g[i] = [last \in 0..l |-> IF i = n THEN <<>> ELSE CutRow(g, T, C, l, i, last)]
      BY <2>1, Zenon DEF IsCuts
    <2>4. \A last \in 0..l : CutRow(f, T, C, l, i, last) = CutRow(g, T, C, l, i, last)
      BY <1>2, Zenon DEF CutRow
    <2> QED
      BY <2>2, <2>3, <2>4, Zenon
  <1>3. \A i \in 1..n : f[i] = g[i]
    <2>1. \A i \in 1..(n - 1) : f[i + 1] = g[i + 1] => f[i] = g[i]
      BY <1>2
    <2>2. n \in Nat /\ n > 0
      BY <1>0
    <2> QED
      BY <1>1, <2>1, <2>2, RowsAgree, SMTT(60)
  <1>4. f = [i \in 1..n |-> f[i]] /\ g = [i \in 1..n |-> g[i]]
    BY Zenon DEF IsCuts
  <1> QED
    BY <1>3, <1>4, Zenon

(* There is one. *)
LEMMA CutsExist ==
    ASSUME NEW n, NEW l, NEW T, NEW C, CutArgs(T, C, n, l)
    PROVE  \E f \in [1..n -> [0..l -> Seq(Nat)]] : IsCuts(f, T, C, n, l)
  <1> DEFINE R == [0..l -> Seq(Nat)]
             base == [last \in 0..l |-> <<>>]
             Row(i, r) == [last \in 0..l |->
                             IF i = n THEN <<>>
                             ELSE IF T[i] <= last THEN r[last]
                             ELSE IF C[T[i]] = l THEN <<l>> ELSE <<C[T[i]]>> \o r[C[T[i]]]]
             before == [i \in 1..n |-> [r \in R |-> Row(i, r)]]
  <1>0. n \in Nat /\ n > 0 /\ l \in Nat /\ n \in 1..n
    BY DEF CutArgs
  <1>1. base \in R
    OBVIOUS
  <1>2. ASSUME NEW i \in 1..n, NEW r \in R PROVE Row(i, r) \in R
    <2>1. ASSUME NEW last \in 0..l, i # n, ~(T[i] <= last)
          PROVE  <<l>> \in Seq(Nat) /\ <<C[T[i]]>> \o r[C[T[i]]] \in Seq(Nat)
      <3>1. i \in 1..(n - 1)
        BY <1>0, <2>1
      <3>2. T[i] \in 0..(l - 1)
        BY <3>1 DEF CutArgs
      <3>3. C[T[i]] \in T[i]..l
        BY <3>2 DEF CutArgs
      <3>4. C[T[i]] \in 0..l /\ C[T[i]] \in Nat
        BY <1>0, <3>2, <3>3
      <3>5. r[C[T[i]]] \in Seq(Nat) /\ <<C[T[i]]>> \in Seq(Nat)
        BY <3>4
      <3> QED
        BY <1>0, <3>5, ConcatProperties
    <2>2. ASSUME NEW last \in 0..l
          PROVE  (IF i = n THEN <<>>
                  ELSE IF T[i] <= last THEN r[last]
                  ELSE IF C[T[i]] = l THEN <<l>> ELSE <<C[T[i]]>> \o r[C[T[i]]]) \in Seq(Nat)
      <3>1. r[last] \in Seq(Nat) /\ <<>> \in Seq(Nat)
        OBVIOUS
      <3> QED
        BY <2>1, <3>1, Zenon
    <2> QED
      BY <2>2, Zenon
  <1>3. before \in [1..n -> [R -> R]]
    <2> HIDE DEF Row, R
    <2> QED
      BY <1>2, Zenon
  <1>h. PICK w \in [1..n -> R] : IsRows(w, base, before, n)
    <2> HIDE DEF before, R, base
    <2> QED
      BY <1>0, <1>1, <1>3, RowsExist
  <1>4. w[n] = base /\ \A i \in 1..(n - 1) : w[i] = before[i][w[i + 1]]
    BY <1>h, Zenon DEF IsRows
  <1>5. ASSUME NEW i \in 1..n
        PROVE  w[i] = [last \in 0..l |-> IF i = n THEN <<>> ELSE CutRow(w, T, C, l, i, last)]
    <2>1. CASE i = n
      BY <1>4, <2>1, Zenon
    <2>2. CASE i # n
      <3>1. i \in 1..(n - 1) /\ i + 1 \in 1..n
        BY <1>0, <2>2
      <3>2. w[i + 1] \in R
        BY <3>1
      <3>3. w[i] = Row(i, w[i + 1])
        <4> HIDE DEF Row, R
        <4>1. w[i] = before[i][w[i + 1]]
          BY <1>4, <3>1, Zenon
        <4>2. before[i] = [r \in R |-> Row(i, r)]
          BY Zenon
        <4> QED
          BY <3>2, <4>1, <4>2, Zenon
      <3> QED
        BY <3>3, Zenon DEF CutRow
    <2> QED
      BY <2>1, <2>2
  <1>6. w = [i \in 1..n |-> w[i]]
    <2> HIDE DEF R
    <2> QED
      OBVIOUS
  <1>7. IsCuts(w, T, C, n, l)
    BY <1>5, <1>6, Zenon DEF IsCuts
  <1> QED
    BY <1>7

(* The equation, row by row. *)
LEMMA CutsSteps ==
    ASSUME NEW n, NEW l, NEW T, NEW C, CutArgs(T, C, n, l), NEW f, IsCuts(f, T, C, n, l)
    PROVE  /\ \A last \in 0..l : f[n][last] = <<>>
           /\ \A i \in 1..(n - 1) : \A last \in 0..l : f[i][last] = CutRow(f, T, C, l, i, last)
  <1>0. n \in Nat /\ n > 0 /\ l \in Nat /\ n \in 1..n
    BY DEF CutArgs
  <1>1. \A i \in 1..n : f[i] = [last \in 0..l |-> IF i = n THEN <<>> ELSE CutRow(f, T, C, l, i, last)]
    BY Zenon DEF IsCuts
  <1>2. \A i \in 1..n : \A last \in 0..l :
          f[i][last] = IF i = n THEN <<>> ELSE CutRow(f, T, C, l, i, last)
    BY <1>1, Zenon
  <1>3. \A i \in 1..(n - 1) : i \in 1..n /\ i # n
    BY <1>0
  <1> QED
    BY <1>0, <1>2, <1>3, Zenon

(* Downwards to 1. *)
LEMMA DownToOne ==
    ASSUME NEW n \in Nat, n > 0, NEW S \in SUBSET (1..n), n \in S,
           \A i \in 1..(n - 1) : i + 1 \in S => i \in S
    PROVE  \A i \in 1..n : i \in S
  <1> DEFINE Z == S \cup {0}
  <1>1. Z \in SUBSET (0..n) /\ n \in Z
    OBVIOUS
  <1>2. ASSUME NEW k \in 0..(n - 1), \A m \in (k + 1)..n : m \in Z PROVE k \in Z
    <2>1. k + 1 \in (k + 1)..n /\ k + 1 # 0
      OBVIOUS
    <2>2. k + 1 \in S
      BY <1>2, <2>1
    <2>3. k = 0 \/ k \in 1..(n - 1)
      OBVIOUS
    <2> QED
      BY <2>2, <2>3
  <1>3. Z = 0..n
    <2> HIDE DEF Z
    <2> QED
      BY <1>1, <1>2, Downward
  <1> QED
    BY <1>3

(* Nothing is cut after the end. *)
LEMMA CutsAtEnd ==
    ASSUME NEW n, NEW l, NEW T, NEW C, CutArgs(T, C, n, l), NEW f, IsCuts(f, T, C, n, l)
    PROVE  \A i \in 1..n : f[i][l] = <<>>
  <1> DEFINE S == {i \in 1..n : f[i][l] = <<>>}
  <1>0. n \in Nat /\ n > 0 /\ l \in Nat /\ n \in 1..n /\ l \in 0..l
    BY DEF CutArgs
  <1>1. n \in S
    BY <1>0, CutsSteps
  <1>2. ASSUME NEW i \in 1..(n - 1), i + 1 \in S PROVE i \in S
    <2>1. f[i][l] = CutRow(f, T, C, l, i, l)
      BY <1>0, CutsSteps
    <2>2. T[i] \in 0..(l - 1)
      BY DEF CutArgs
    <2>3. T[i] <= l
      BY <1>0, <2>2
    <2>4. f[i][l] = f[i + 1][l]
      BY <2>1, <2>3 DEF CutRow
    <2>5. i \in 1..n
      BY <1>0
    <2> QED
      BY <1>2, <2>4, <2>5
  <1>3. \A i \in 1..n : i \in S
    <2> HIDE DEF S
    <2>1. S \in SUBSET (1..n)
      BY DEF S
    <2> QED
      BY <1>0, <1>1, <1>2, <2>1, DownToOne
  <1> QED
    BY <1>3
------------------------------------------------------------------------------
(* The ideal targets.                                                      *)

(* Floor division by a positive number. *)
LEMMA QuotientIs ==
    ASSUME NEW a \in Nat, NEW d \in Nat, d > 0
    PROVE  (a \div d) \in Nat /\ d * (a \div d) <= a /\ a < d * (a \div d) + d
  BY SMT

(* Multiplication keeps an order. *)
LEMMA ScaleMonotone ==
    ASSUME NEW a \in Nat, NEW q \in Nat, NEW d \in Nat, d > 0, q >= a
    PROVE  d * q >= d * a
  BY SMT

(* A smaller factor gives a smaller product. *)
LEMMA ScaleStrict ==
    ASSUME NEW l \in Nat, NEW k \in Nat, NEW d \in Nat, l > 0, k < d
    PROVE  l * k < d * l
  BY SMT

(* floor(file_len * i / n) is an offset of the file: indexing               *)
(* data[target - 1] and slicing data[target..] cannot panic.               *)
THEOREM TargetInFile ==
    ASSUME NEW l \in Nat, NEW k \in Nat, NEW d \in Nat, l > 0, k < d
    PROVE  IdealTarget(l, k, d) \in 0..(l - 1)
  <1> DEFINE q == (l * k) \div d
  <1>1. l * k \in Nat
    BY SMT
  <1>2. q \in Nat /\ d * q <= l * k
    BY <1>1, QuotientIs
  <1>3. l * k < d * l
    BY ScaleStrict
  <1>4. q >= l => d * q >= d * l
    BY <1>2, ScaleMonotone
  <1> HIDE DEF q
  <1>5. d * q \in Nat /\ d * l \in Nat
    BY <1>2, SMT
  <1>6. q < l
    BY <1>1, <1>2, <1>3, <1>4, <1>5, SMT
  <1> QED
    BY <1>2, <1>6 DEF IdealTarget, q

(* When more parts are requested than there are bytes, a target is at most *)
(* one byte beyond the target before it.                                   *)
LEMMA TargetsAreClose ==
    ASSUME NEW l \in Nat, NEW k \in Nat, NEW d \in Nat, l > 0, l <= d
    PROVE  (l * (k + 1)) \div d <= ((l * k) \div d) + 1
  <1> DEFINE a == l * k
             b == l * (k + 1)
             q == a \div d
             r == b \div d
  <1>1. a \in Nat /\ b \in Nat /\ b = a + l
    BY SMT
  <1> HIDE DEF a, b
  <1>2. q \in Nat /\ d * q <= a /\ a < d * q + d
    BY <1>1, QuotientIs
  <1>3. r \in Nat /\ d * r <= b
    BY <1>1, QuotientIs
  <1> HIDE DEF q, r
  <1>4. r >= q + 2 => d * r >= d * (q + 2)
    <2>1. q + 2 \in Nat
      BY <1>2
    <2> QED
      BY <1>3, <2>1, ScaleMonotone
  <1>5. d * (q + 2) = d * q + d + d /\ d * q \in Nat /\ d * r \in Nat
    BY <1>2, <1>3, SMT
  <1>6. r <= q + 1
    BY <1>1, <1>2, <1>3, <1>4, <1>5
  <1> QED
    BY <1>6 DEF q, r, a, b

(* One byte per part: the targets are the offsets. *)
LEMMA TargetsAreOffsets ==
    ASSUME NEW l \in Nat, NEW k \in Nat, l > 0
    PROVE  (l * k) \div l = k
  <1> DEFINE a == l * k
             q == a \div l
  <1>1. a \in Nat
    BY SMT
  <1>2. q \in Nat /\ l * q <= a /\ a < l * q + l
    BY <1>1, QuotientIs
  <1> HIDE DEF q
  <1>3. q >= k + 1 => l * q >= l * (k + 1)
    BY <1>2, ScaleMonotone
  <1>4. k >= q + 1 => l * k >= l * (q + 1)
    BY <1>2, ScaleMonotone
  <1>5. l * (k + 1) = a + l /\ l * (q + 1) = l * q + l /\ l * q \in Nat
    BY <1>2, SMT
  <1> HIDE DEF a
  <1>6. l * k = a
    BY DEF a
  <1>7. q = k
    BY <1>1, <1>2, <1>3, <1>4, <1>5, <1>6
  <1> QED
    BY <1>7 DEF q, a

Targets(l, n) == [i \in 1..n |-> (l * i) \div n]

(* The targets of a loop are in the file. *)
LEMMA TargetsInFile ==
    ASSUME NEW l \in Nat, NEW n \in Nat, l > 0, NEW i \in 1..(n - 1)
    PROVE  Targets(l, n)[i] = (l * i) \div n /\ Targets(l, n)[i] \in 0..(l - 1)
  <1>1. i \in 1..n /\ i \in Nat /\ i < n
    OBVIOUS
  <1>2. IdealTarget(l, i, n) \in 0..(l - 1)
    BY <1>1, TargetInFile
  <1> QED
    BY <1>1, <1>2 DEF Targets, IdealTarget

(* A loop over one target per byte skips to the target after the last cut. *)
LEMMA CutsSkip ==
    ASSUME NEW l \in Nat, l > 0, NEW C, CutArgs(Targets(l, l), C, l, l),
           NEW f, IsCuts(f, Targets(l, l), C, l, l), NEW last \in 0..(l - 1)
    PROVE  \A k \in 1..(last + 1) : f[k][last] = f[last + 1][last]
  <1> DEFINE n == last + 1
             S == {k \in 1..n : f[k][last] = f[n][last]}
  <1>0. n \in Nat /\ n > 0 /\ n \in 1..n /\ n <= l
    OBVIOUS
  <1>1. n \in S
    BY <1>0
  <1>2. ASSUME NEW k \in 1..(n - 1), k + 1 \in S PROVE k \in S
    <2>1. k \in 1..(l - 1) /\ last \in 0..l /\ k \in 1..n /\ k \in Nat /\ k <= last
      OBVIOUS
    <2>2. f[k][last] = CutRow(f, Targets(l, l), C, l, k, last)
      BY <2>1, CutsSteps
    <2>3. Targets(l, l)[k] = k
      BY <2>1, TargetsInFile, TargetsAreOffsets
    <2>4. f[k][last] = f[k + 1][last]
      BY <2>1, <2>2, <2>3 DEF CutRow
    <2> QED
      BY <1>2, <2>1, <2>4
  <1>3. \A k \in 1..n : k \in S
    <2> HIDE DEF S, n
    <2>1. S \in SUBSET (1..n)
      BY DEF S
    <2> QED
      BY <1>0, <1>1, <1>2, <2>1, DownToOne
  <1> QED
    BY <1>3

(* The cap on the request changes nothing: more parts than bytes are cut   *)
(* like one part per byte.                                                 *)
LEMMA CutsCapped ==
    ASSUME NEW l \in Nat, l > 0, NEW n \in Nat, n >= l, NEW C,
           CutArgs(Targets(l, n), C, n, l), CutArgs(Targets(l, l), C, l, l),
           NEW f, IsCuts(f, Targets(l, n), C, n, l),
           NEW g, IsCuts(g, Targets(l, l), C, l, l)
    PROVE  f[1][0] = g[1][0]
  <1> DEFINE t(i) == (l * i) \div n
             P(i) == \A last \in 0..(l - 1) : t(i) <= last + 1 => f[i][last] = g[last + 1][last]
             S == {i \in 1..n : P(i)}
  <1>0. n > 0 /\ n \in 1..n
    OBVIOUS
  <1>t. \A i \in 1..(n - 1) : Targets(l, n)[i] = t(i) /\ t(i) \in 0..(l - 1)
    BY TargetsInFile
  <1>c. \A i \in 1..n : t(i + 1) <= t(i) + 1 /\ t(i) \in Nat
    <2> TAKE i \in 1..n
    <2>1. t(i + 1) <= t(i) + 1
      BY TargetsAreClose
    <2>2. l * i \in Nat
      BY SMT
    <2> QED
      BY <1>0, <2>1, <2>2, QuotientIs
  <1>1. n \in S
    <2>1. ASSUME NEW last \in 0..(l - 1), t(n) <= last + 1 PROVE f[n][last] = g[last + 1][last]
      <3>1. t(n) = l
        <4>1. (n * l) \div n = l
          BY <1>0, TargetsAreOffsets
        <4>2. n * l = l * n
          BY SMT
        <4> QED
          BY <4>1, <4>2
      <3>2. last + 1 = l /\ last \in 0..l
        BY <2>1, <3>1
      <3>3. f[n][last] = <<>>
        BY <3>2, CutsSteps
      <3>4. g[l][last] = <<>>
        BY <3>2, CutsSteps
      <3> QED
        BY <3>2, <3>3, <3>4
    <2> QED
      BY <1>0, <2>1
  <1>2. ASSUME NEW i \in 1..(n - 1), i + 1 \in S PROVE i \in S
    <2>0. i \in 1..n /\ t(i) \in 0..(l - 1) /\ t(i + 1) <= t(i) + 1 /\ t(i) \in Nat /\ P(i + 1)
      <3>1. i \in 1..n
        OBVIOUS
      <3> QED
        BY <1>2, <1>t, <1>c, <3>1
    <2>n. t(i + 1) \in Nat
      <3>1. i + 1 \in 1..n
        OBVIOUS
      <3> QED
        BY <1>c, <3>1
    <2>1. ASSUME NEW last \in 0..(l - 1), t(i) <= last + 1 PROVE f[i][last] = g[last + 1][last]
      <3>0. last \in 0..l /\ last + 1 \in Nat
        OBVIOUS
      <3>1. f[i][last] = CutRow(f, Targets(l, n), C, l, i, last)
        BY <3>0, CutsSteps
      <3>2. f[i][last] = IF t(i) <= last THEN f[i + 1][last]
                         ELSE IF C[t(i)] = l THEN <<l>> ELSE <<C[t(i)]>> \o f[i + 1][C[t(i)]]
        BY <1>t, <3>1 DEF CutRow
      <3> HIDE DEF t
      <3>3. CASE t(i) <= last
        <4>1. t(i + 1) <= last + 1
          BY <2>0, <2>n, <3>3
        <4> QED
          BY <2>0, <3>2, <3>3, <4>1
      <3>4. CASE t(i) > last
        <4> DEFINE c == C[t(i)]
        <4>1. t(i) = last + 1 /\ last + 1 \in 1..(l - 1) /\ last + 1 \in 0..(l - 1)
          BY <2>0, <2>1, <3>4
        <4>2. c \in (last + 1)..l
          BY <4>1 DEF CutArgs
        <4>3. g[last + 1][last] = CutRow(g, Targets(l, l), C, l, last + 1, last)
          BY <3>0, <4>1, CutsSteps
        <4>4. Targets(l, l)[last + 1] = last + 1
          BY <4>1, TargetsInFile, TargetsAreOffsets
        <4>5. g[last + 1][last] = IF c = l THEN <<l>> ELSE <<c>> \o g[last + 2][c]
          <5>1. ~(last + 1 <= last) /\ (last + 1) + 1 = last + 2
            OBVIOUS
          <5> QED
            BY <4>1, <4>3, <4>4, <5>1 DEF CutRow
        <4>6. f[i][last] = IF c = l THEN <<l>> ELSE <<c>> \o f[i + 1][c]
          <5>1. ~(t(i) <= last)
            BY <2>0, <3>4
          <5> QED
            BY <3>2, <5>1
        <4> HIDE DEF c
        <4>7. CASE c = l
          BY <4>5, <4>6, <4>7
        <4>8. CASE c # l
          <5>1. c \in 0..(l - 1) /\ last + 2 \in 1..(c + 1) /\ t(i + 1) <= c + 1
            BY <2>0, <2>n, <4>1, <4>2, <4>8
          <5>2. f[i + 1][c] = g[c + 1][c]
            BY <2>0, <5>1
          <5>3. g[last + 2][c] = g[c + 1][c]
            BY <5>1, CutsSkip
          <5> QED
            BY <4>5, <4>6, <4>8, <5>2, <5>3
        <4> QED
          BY <4>7, <4>8
      <3> QED
        BY <2>0, <3>3, <3>4
    <2> QED
      BY <2>0, <2>1
  <1>3. \A i \in 1..n : i \in S
    <2> HIDE DEF S
    <2>1. S \in SUBSET (1..n)
      BY DEF S
    <2> QED
      BY <1>0, <1>1, <1>2, <2>1, DownToOne
  <1>4. P(1)
    BY <1>0, <1>3
  <1>5. t(1) <= 0 + 1
    <2>1. CASE n = 1
      <3>1. l = 1
        BY <2>1
      <3>2. l * 1 = 1 /\ 1 \div 1 = 1
        BY <3>1, SMT
      <3> QED
        BY <2>1, <3>2
    <2>2. CASE n > 1
      <3>1. t(0 + 1) <= ((l * 0) \div n) + 1
        BY TargetsAreClose
      <3>2. l * 0 = 0 /\ 0 \div n = 0
        BY SMT
      <3> QED
        BY <3>1, <3>2
    <2> QED
      BY <1>0, <2>1, <2>2
  <1>6. 0 \in 0..(l - 1) /\ 0 + 1 = 1
    OBVIOUS
  <1> HIDE DEF t
  <1> QED
    BY <1>4, <1>5, <1>6
------------------------------------------------------------------------------
(* g[k][start] is the ranges the assembly loop emits from cut k on.        *)
RangeRow(g, cuts, l, k, start) ==
    IF k <= Len(cuts)
    THEN (IF cuts[k] > start THEN <<<<start, cuts[k]>>>> ELSE <<>>) \o g[k + 1][cuts[k]]
    ELSE IF start < l THEN <<<<start, l>>>> ELSE <<>>

IsRanges(g, cuts, l) ==
    g = [k \in 1..(Len(cuts) + 1) |-> [start \in 0..l |-> RangeRow(g, cuts, l, k, start)]]

(* The equation, row by row. *)
LEMMA RangesSteps ==
    ASSUME NEW l \in Nat, NEW cuts \in Seq(0..l), NEW g, IsRanges(g, cuts, l)
    PROVE  \A k \in 1..(Len(cuts) + 1) : \A start \in 0..l :
             g[k][start] = RangeRow(g, cuts, l, k, start)
  <1>1. \A k \in 1..(Len(cuts) + 1) : g[k] = [start \in 0..l |-> RangeRow(g, cuts, l, k, start)]
    BY Zenon DEF IsRanges
  <1> QED
    BY <1>1, Zenon

(* There is one such g. *)
LEMMA RangesUnique ==
    ASSUME NEW l \in Nat, NEW cuts \in Seq(0..l), NEW g, NEW h,
           IsRanges(g, cuts, l), IsRanges(h, cuts, l)
    PROVE  g = h
  <1> DEFINE n == Len(cuts) + 1
  <1>0. n \in Nat /\ n > 0 /\ n \in 1..n /\ Len(cuts) \in Nat /\ ~(n <= Len(cuts))
    OBVIOUS
  <1>r. \A k \in 1..n : /\ g[k] = [start \in 0..l |-> RangeRow(g, cuts, l, k, start)]
                        /\ h[k] = [start \in 0..l |-> RangeRow(h, cuts, l, k, start)]
    BY Zenon DEF IsRanges
  <1>1. g[n] = h[n]
    <2>1. \A start \in 0..l : RangeRow(g, cuts, l, n, start) = RangeRow(h, cuts, l, n, start)
      BY <1>0, Zenon DEF RangeRow
    <2> QED
      BY <1>0, <1>r, <2>1, Zenon
  <1>2. ASSUME NEW i \in 1..(n - 1), g[i + 1] = h[i + 1] PROVE g[i] = h[i]
    <2>1. i \in 1..n
      BY <1>0
    <2>2. \A start \in 0..l : RangeRow(g, cuts, l, i, start) = RangeRow(h, cuts, l, i, start)
      BY <1>2, Zenon DEF RangeRow
    <2> QED
      BY <1>r, <2>1, <2>2, Zenon
  <1>3. \A i \in 1..n : g[i] = h[i]
    <2> HIDE DEF n
    <2>1. \A i \in 1..(n - 1) : g[i + 1] = h[i + 1] => g[i] = h[i]
      BY <1>2
    <2>2. n \in Nat /\ n > 0
      BY <1>0
    <2> QED
      BY <1>1, <2>1, <2>2, RowsAgree, SMTT(60)
  <1>4. g = [i \in 1..n |-> g[i]] /\ h = [i \in 1..n |-> h[i]]
    BY Zenon DEF IsRanges
  <1> QED
    BY <1>3, <1>4, Zenon

(* And it is a table of sequences of ranges. *)
LEMMA RangesExist ==
    ASSUME NEW l \in Nat, NEW cuts \in Seq(0..l)
    PROVE  \E g \in [1..(Len(cuts) + 1) -> [0..l -> Seq(Pair)]] : IsRanges(g, cuts, l)
  <1> DEFINE n == Len(cuts) + 1
             R == [0..l -> Seq(Pair)]
             tail(start) == IF start < l THEN <<<<start, l>>>> ELSE <<>>
             base == [start \in 0..l |-> tail(start)]
             head(k, start) == IF cuts[k] > start THEN <<<<start, cuts[k]>>>> ELSE <<>>
             Row(k, r) == [start \in 0..l |->
                             IF k <= Len(cuts) THEN head(k, start) \o r[cuts[k]] ELSE tail(start)]
             before == [k \in 1..n |-> [r \in R |-> Row(k, r)]]
  <1>0. n \in Nat /\ n > 0 /\ n \in 1..n /\ Len(cuts) \in Nat /\ ~(n <= Len(cuts))
    OBVIOUS
  <1>t. \A start \in 0..l : tail(start) \in Seq(Pair)
    <2> TAKE start \in 0..l
    <2>1. <<start, l>> \in Pair
      BY DEF Pair
    <2>2. <<<<start, l>>>> \in Seq(Pair) /\ <<>> \in Seq(Pair)
      BY <2>1
    <2> QED
      BY <2>2
  <1> HIDE DEF tail
  <1>1. base \in R
    BY <1>t
  <1>2. ASSUME NEW k \in 1..n, NEW r \in R PROVE Row(k, r) \in R
    <2>1. ASSUME NEW start \in 0..l, k <= Len(cuts)
          PROVE  head(k, start) \o r[cuts[k]] \in Seq(Pair)
      <3>1. k \in 1..Len(cuts)
        BY <1>0, <2>1
      <3>2. cuts[k] \in 0..l /\ cuts[k] \in Nat
        BY <3>1
      <3>3. <<start, cuts[k]>> \in Pair
        BY <3>2, SMTT(60) DEF Pair
      <3>4. <<<<start, cuts[k]>>>> \in Seq(Pair) /\ <<>> \in Seq(Pair)
        BY <3>3
      <3>5. head(k, start) \in Seq(Pair)
        BY <3>4
      <3>6. r[cuts[k]] \in Seq(Pair)
        BY <3>2
      <3> HIDE DEF head
      <3> QED
        BY <3>5, <3>6, ConcatProperties
    <2> HIDE DEF head
    <2>2. ASSUME NEW start \in 0..l
          PROVE  (IF k <= Len(cuts) THEN head(k, start) \o r[cuts[k]] ELSE tail(start)) \in Seq(Pair)
      BY <1>t, <2>1, Zenon
    <2> QED
      BY <2>2, Zenon
  <1>3. before \in [1..n -> [R -> R]]
    <2> HIDE DEF Row, R
    <2> QED
      BY <1>2, Zenon
  <1>h. PICK w \in [1..n -> R] : IsRows(w, base, before, n)
    <2> HIDE DEF before, R, base, n
    <2> QED
      BY <1>0, <1>1, <1>3, RowsExist
  <1>4. w[n] = base /\ \A i \in 1..(n - 1) : w[i] = before[i][w[i + 1]]
    BY <1>h, Zenon DEF IsRows
  <1>5. ASSUME NEW k \in 1..n
        PROVE  w[k] = [start \in 0..l |-> RangeRow(w, cuts, l, k, start)]
    <2>1. CASE k = n
      <3>1. \A start \in 0..l : RangeRow(w, cuts, l, k, start) = tail(start)
        BY <1>0, <2>1, Zenon DEF RangeRow, tail
      <3> QED
        BY <1>4, <2>1, <3>1, Zenon
    <2>2. CASE k # n
      <3>1. k \in 1..(n - 1) /\ k + 1 \in 1..n /\ k <= Len(cuts)
        BY <1>0, <2>2
      <3>2. w[k + 1] \in R
        BY <3>1
      <3>3. w[k] = Row(k, w[k + 1])
        <4> HIDE DEF Row, R
        <4>1. w[k] = before[k][w[k + 1]]
          BY <1>4, <3>1, Zenon
        <4>2. before[k] = [r \in R |-> Row(k, r)]
          BY Zenon
        <4> QED
          BY <3>2, <4>1, <4>2, Zenon
      <3>4. \A start \in 0..l : RangeRow(w, cuts, l, k, start) = head(k, start) \o w[k + 1][cuts[k]]
        BY <3>1, Zenon DEF RangeRow
      <3>5. \A start \in 0..l :
              (IF k <= Len(cuts) THEN head(k, start) \o w[k + 1][cuts[k]] ELSE tail(start))
                = RangeRow(w, cuts, l, k, start)
        BY <3>1, <3>4, Zenon
      <3> HIDE DEF head
      <3> QED
        BY <3>3, <3>5, Zenon
    <2> QED
      BY <2>1, <2>2
  <1>6. w = [k \in 1..n |-> w[k]]
    <2> HIDE DEF R
    <2> QED
      OBVIOUS
  <1>7. IsRanges(w, cuts, l)
    BY <1>5, <1>6, Zenon DEF IsRanges
  <1> QED
    BY <1>7

(* What the assembly loop of the oracles returns. *)
LEMMA CutRangesIs ==
    ASSUME NEW l \in Nat, NEW cuts \in Seq(0..l), NEW g, IsRanges(g, cuts, l)
    PROVE  CutRanges(cuts, l) = g[1][0]
  <1> DEFINE G(f) == [k \in 1..(Len(cuts) + 1) |-> [start \in 0..l |->
                IF k <= Len(cuts)
                THEN (IF cuts[k] > start THEN <<<<start, cuts[k]>>>> ELSE <<>>)
                        \o f[k + 1][cuts[k]]
                ELSE IF start < l THEN <<<<start, l>>>> ELSE <<>>]]
             from == CHOOSE f : f = G(f)
  <1>1. CutRanges(cuts, l) = from[1][0]
    BY DEF CutRanges
  <1>2. \A f : f = G(f) <=> IsRanges(f, cuts, l)
    BY Zenon DEF IsRanges, RangeRow
  <1> HIDE DEF G
  <1>3. from = G(from)
    BY <1>2
  <1> HIDE DEF from
  <1>4. from = g
    BY <1>2, <1>3, RangesUnique
  <1> QED
    BY <1>1, <1>4
------------------------------------------------------------------------------
(* Where the cut of a target falls: the target itself if it ends a record. *)
Snaps(s, d) ==
    [t \in 0..Len(s) |-> IF EndsRecord(s, d, t) THEN t ELSE AfterHit(s, d, t)]

(* The planners' targets and cuts are those of a cutting loop. *)
LEMMA SnapArgs ==
    ASSUME NEW B, NEW s \in Seq(B), NEW d \in Seq(B), Len(d) > 0, NEW n \in Nat, n > 0,
           Len(s) > 0
    PROVE  CutArgs(Targets(Len(s), n), Snaps(s, d), n, Len(s))
  <1>0. Len(s) \in Nat
    OBVIOUS
  <1>1. \A i \in 1..(n - 1) : Targets(Len(s), n)[i] \in 0..(Len(s) - 1)
    BY <1>0, TargetsInFile
  <1>2. ASSUME NEW t \in 0..(Len(s) - 1) PROVE Snaps(s, d)[t] \in t..Len(s)
    <2>1. t \in 0..Len(s)
      BY <1>0
    <2>2. AfterHit(s, d, t) \in t..Len(s)
      BY <2>1, HitBounds
    <2>3. t \in t..Len(s)
      BY <1>0
    <2> QED
      BY <2>1, <2>2, <2>3 DEF Snaps
  <1> QED
    BY <1>0, <1>1, <1>2 DEF CutArgs

(* The smaller of two numbers. *)
LEMMA MinIs ==
    ASSUME NEW a \in Nat, NEW b \in Nat
    PROVE  MinOf(a, b) \in Nat /\ ((MinOf(a, b) = a /\ a <= b) \/ (MinOf(a, b) = b /\ b <= a))
  BY DEF MinOf

(* The searches of the pattern oracles. *)
LEMMA PatternSearchIs ==
    ASSUME NEW B, NEW s \in Seq(B), NEW d \in Seq(B), Len(d) > 0
    PROVE  (CHOOSE f : f = [c \in 0..Len(s) |->
              IF c + Len(d) > Len(s) THEN Len(s)
              ELSE IF MatchAt(s, d, c) THEN c + Len(d) ELSE f[c + 1]]) = Ends(s, d)
  <1> DEFINE l == Len(s)
             F(f) == [c \in 0..l |->
                        IF c + Len(d) > l THEN l
                        ELSE IF MatchAt(s, d, c) THEN c + Len(d) ELSE f[c + 1]]
             end == CHOOSE f : f = F(f)
  <1>0. l \in Nat
    OBVIOUS
  <1>1. \A f : F(f) = [c \in 0..l |-> IF c \in Stops(s, d) THEN StopEnd(s, d)[c] ELSE f[c + 1]]
    <2>1. ASSUME NEW f, NEW c \in 0..l
          PROVE  (IF c + Len(d) > l THEN l ELSE IF MatchAt(s, d, c) THEN c + Len(d) ELSE f[c + 1])
                 = IF c \in Stops(s, d) THEN StopEnd(s, d)[c] ELSE f[c + 1]
      BY Zenon DEF Stops, StopEnd
    <2> QED
      BY <2>1, Zenon
  <1>2. \A f : f = F(f) <=> IsSearch(f, Stops(s, d), StopEnd(s, d), l)
    <2> HIDE DEF F
    <2> QED
      BY <1>1, Zenon DEF IsSearch
  <1>3. Ends(s, d) = F(Ends(s, d))
    BY <1>2, EndsSearch
  <1>d. end = CHOOSE f : f = F(f)
    OBVIOUS
  <1> HIDE DEF F, end
  <1>4. end = F(end)
    BY <1>3, <1>d
  <1>5. end = Ends(s, d)
    BY <1>0, <1>2, <1>3, <1>4, EndsSearch, SearchUnique
  <1> QED
    BY <1>5 DEF end, F

(* scalar_partition_boundaries_pattern: it does not cap the request. *)
LEMMA PatternPlanOracle ==
    ASSUME NEW B, NEW s \in Seq(B), NEW d \in Seq(B), Len(d) > 0, Len(s) > 0,
           NEW parts \in Nat, parts > 1,
           NEW f, IsCuts(f, Targets(Len(s), MinOf(parts, Len(s))), Snaps(s, d),
                         MinOf(parts, Len(s)), Len(s))
    PROVE  scalar_partition_boundaries_pattern(s, parts, d) = CutRanges(f[1][0], Len(s))
  <1> DEFINE l == Len(s)
             n == MinOf(parts, l)
             search == CHOOSE h : h = [c \in 0..l |->
                          IF c + Len(d) > l THEN l
                          ELSE IF MatchAt(s, d, c) THEN c + Len(d) ELSE h[c + 1]]
             Cut(t) == IF EndsRecord(s, d, t) THEN t ELSE search[t]
             G(h) == [i \in 1..parts |-> [last \in 0..l |->
                        IF i = parts THEN <<>>
                        ELSE IF (l * i) \div parts <= last THEN h[i + 1][last]
                        ELSE IF Cut((l * i) \div parts) = l THEN <<Cut((l * i) \div parts)>>
                             ELSE <<Cut((l * i) \div parts)>> \o h[i + 1][Cut((l * i) \div parts)]]]
             cuts == CHOOSE h : h = G(h)
  <1>l. l \in Nat /\ l > 0
    OBVIOUS
  <1>0. l \in Nat /\ l > 0 /\ parts > 0 /\ n \in Nat /\ n > 0 /\ (n = parts \/ (n = l /\ parts >= l))
    <2>1. n \in Nat /\ ((n = parts /\ parts <= l) \/ (n = l /\ l <= parts))
      BY <1>l, MinIs
    <2> HIDE DEF n, l
    <2> QED
      BY <1>l, <2>1
  <1>1. scalar_partition_boundaries_pattern(s, parts, d) = CutRanges(cuts[1][0], l)
    <2>1. l # 0 /\ parts # 0 /\ parts # 1
      BY <1>0
    <2> QED
      BY <2>1 DEF scalar_partition_boundaries_pattern
  <1>2. search = Ends(s, d)
    BY PatternSearchIs
  <1>3. \A t \in 0..(l - 1) : Cut(t) = Snaps(s, d)[t]
    <2> TAKE t \in 0..(l - 1)
    <2>1. t \in 0..l
      BY <1>0
    <2> HIDE DEF search
    <2> QED
      BY <1>2, <2>1 DEF Snaps, Ends
  <1> HIDE DEF Cut, search
  <1>4. \A h : h = G(h) <=> IsCuts(h, Targets(l, parts), Snaps(s, d), parts, l)
    <2>1. ASSUME NEW h, NEW i \in 1..parts, NEW last \in 0..l
          PROVE  (IF i = parts THEN <<>>
                  ELSE IF (l * i) \div parts <= last THEN h[i + 1][last]
                  ELSE IF Cut((l * i) \div parts) = l THEN <<Cut((l * i) \div parts)>>
                       ELSE <<Cut((l * i) \div parts)>> \o h[i + 1][Cut((l * i) \div parts)])
                 = IF i = parts THEN <<>> ELSE CutRow(h, Targets(l, parts), Snaps(s, d), l, i, last)
      <3>1. CASE i = parts
        BY <3>1
      <3>2. CASE i # parts
        <4> DEFINE t == (l * i) \div parts
        <4>1. i \in 1..(parts - 1)
          BY <3>2
        <4>2. Targets(l, parts)[i] = t /\ t \in 0..(l - 1)
          BY <1>0, <4>1, TargetsInFile
        <4>3. Cut(t) = Snaps(s, d)[t]
          BY <1>3, <4>2
        <4> HIDE DEF t
        <4>4. CutRow(h, Targets(l, parts), Snaps(s, d), l, i, last) =
                IF t <= last THEN h[i + 1][last]
                ELSE IF Cut(t) = l THEN <<Cut(t)>> ELSE <<Cut(t)>> \o h[i + 1][Cut(t)]
          BY <4>2, <4>3, Zenon DEF CutRow
        <4> QED
          BY <3>2, <4>4, Zenon DEF t
      <3> QED
        BY <3>1, <3>2
    <2>2. \A h : G(h) = [i \in 1..parts |-> [last \in 0..l |->
                  IF i = parts THEN <<>>
                  ELSE CutRow(h, Targets(l, parts), Snaps(s, d), l, i, last)]]
      BY <2>1, Zenon
    <2> HIDE DEF G
    <2> QED
      BY <2>2, Zenon DEF IsCuts
  <1> HIDE DEF G, l, n
  <1>a. CutArgs(Targets(l, parts), Snaps(s, d), parts, l)
    BY <1>0, SnapArgs DEF l
  <1>5. PICK u \in [1..parts -> [0..l -> Seq(Nat)]] :
          IsCuts(u, Targets(l, parts), Snaps(s, d), parts, l)
    BY <1>a, CutsExist
  <1>6. cuts = G(cuts)
    BY <1>4, <1>5
  <1> HIDE DEF cuts
  <1>7. IsCuts(cuts, Targets(l, parts), Snaps(s, d), parts, l)
    BY <1>4, <1>6
  <1>8. IsCuts(f, Targets(l, n), Snaps(s, d), n, l)
    BY DEF l, n
  <1>9. cuts[1][0] = f[1][0]
    <2>1. CASE n = parts
      BY <1>7, <1>8, <1>a, <2>1, CutsUnique
    <2>2. CASE n = l /\ parts >= l
      <3>1. CutArgs(Targets(l, l), Snaps(s, d), l, l)
        BY <1>0, SnapArgs DEF l
      <3>2. IsCuts(f, Targets(l, l), Snaps(s, d), l, l)
        BY <1>8, <2>2
      <3> QED
        BY <1>0, <1>7, <1>a, <2>2, <3>1, <3>2, CutsCapped
    <2> QED
      BY <1>0, <2>1, <2>2
  <1> QED
    BY <1>1, <1>9 DEF l

(* A byte ends a record where it stands before the target. *)
LEMMA OneByteSnaps ==
    ASSUME NEW B, NEW s \in Seq(B), NEW d \in Seq(B), Len(d) = 1, NEW t \in 1..(Len(s) - 1)
    PROVE  /\ SkipTo(s, d[1], t) \in t..Len(s)
           /\ Snaps(s, d)[t] = IF s[t] = d[1] THEN t ELSE MinOf(SkipTo(s, d[1], t) + 1, Len(s))
  <1>0. Len(s) \in Nat /\ t \in 0..Len(s) /\ t \in Nat
    OBVIOUS
  <1>1. SkipTo(s, d[1], t) = FirstHit(s, d, t)
    BY <1>0, SkipToIs
  <1>2. /\ FirstHit(s, d, t) \in t..Len(s)
        /\ AfterHit(s, d, t) = MinOf(FirstHit(s, d, t) + 1, Len(s))
    BY <1>0, AfterOneByte
  <1>3. EndsRecord(s, d, t) <=> s[t] = d[1]
    BY <1>0 DEF EndsRecord, MatchAt
  <1> QED
    BY <1>0, <1>1, <1>2, <1>3 DEF Snaps

(* scalar_partition_boundaries and the fuzz target's scalar_partition. *)
LEMMA BytePlanOracles ==
    ASSUME NEW B, NEW s \in Seq(B), NEW d \in Seq(B), Len(d) = 1, Len(s) > 0,
           NEW parts \in Nat, parts > 1,
           NEW f, IsCuts(f, Targets(Len(s), MinOf(parts, Len(s))), Snaps(s, d),
                         MinOf(parts, Len(s)), Len(s))
    PROVE  /\ scalar_partition_boundaries(s, parts, d[1]) = CutRanges(f[1][0], Len(s))
           /\ scalar_partition(s, parts, d[1]) = CutRanges(f[1][0], Len(s))
  <1> DEFINE l == Len(s)
             n == MinOf(parts, l)
             Cut(t) == IF s[t] = d[1] THEN t
                       ELSE IF SkipTo(s, d[1], t) < l THEN SkipTo(s, d[1], t) + 1 ELSE l
             G(h) == [i \in 1..n |-> [last \in 0..l |->
                        IF i = n THEN <<>>
                        ELSE IF (l * i) \div n <= last THEN h[i + 1][last]
                        ELSE IF Cut((l * i) \div n) = l THEN <<Cut((l * i) \div n)>>
                             ELSE <<Cut((l * i) \div n)>> \o h[i + 1][Cut((l * i) \div n)]]]
             cuts == CHOOSE h : h = G(h)
             Next1(t) == MinOf(SkipTo(s, d[1], t) + 1, l)
             K(h) == [i \in 1..n |-> [last \in 0..l |->
                        IF i = n THEN <<>>
                        ELSE IF (l * i) \div n <= last THEN h[i + 1][last]
                        ELSE IF s[(l * i) \div n] = d[1]
                             THEN <<(l * i) \div n>> \o h[i + 1][(l * i) \div n]
                        ELSE IF Next1((l * i) \div n) = l THEN <<l>>
                        ELSE <<Next1((l * i) \div n)>> \o h[i + 1][Next1((l * i) \div n)]]]
             fuzz == CHOOSE h : h = K(h)
             C == Snaps(s, d)
             T == Targets(l, n)
  <1>0. l \in Nat /\ l > 0 /\ n \in Nat /\ n > 0
    BY DEF MinOf
  <1>1. /\ scalar_partition_boundaries(s, parts, d[1]) = CutRanges(cuts[1][0], l)
        /\ scalar_partition(s, parts, d[1]) = CutRanges(fuzz[1][0], l)
    <2>1. l # 0 /\ parts # 0 /\ parts # 1
      BY <1>0
    <2>2. scalar_partition_boundaries(s, parts, d[1]) = CutRanges(cuts[1][0], l)
      BY <2>1 DEF scalar_partition_boundaries
    <2>3. scalar_partition(s, parts, d[1]) = CutRanges(fuzz[1][0], l)
      BY <2>1 DEF scalar_partition
    <2> QED
      BY <2>2, <2>3
  <1>2. \A t \in 1..(l - 1) : /\ Cut(t) = C[t]
                              /\ C[t] = IF s[t] = d[1] THEN t ELSE Next1(t)
    <2> TAKE t \in 1..(l - 1)
    <2>1. /\ SkipTo(s, d[1], t) \in t..l
          /\ C[t] = IF s[t] = d[1] THEN t ELSE Next1(t)
      BY OneByteSnaps
    <2> HIDE DEF C
    <2> QED
      BY <1>0, <2>1 DEF MinOf
  <1> HIDE DEF Cut, Next1, C
  <1>t. \A i \in 1..(n - 1) : T[i] = (l * i) \div n /\ T[i] \in 0..(l - 1)
    BY <1>0, TargetsInFile
  <1> HIDE DEF T
  <1>3. ASSUME NEW h, NEW i \in 1..n, NEW last \in 0..l
        PROVE  /\ (IF i = n THEN <<>>
                   ELSE IF (l * i) \div n <= last THEN h[i + 1][last]
                   ELSE IF Cut((l * i) \div n) = l THEN <<Cut((l * i) \div n)>>
                        ELSE <<Cut((l * i) \div n)>> \o h[i + 1][Cut((l * i) \div n)])
                  = IF i = n THEN <<>> ELSE CutRow(h, T, C, l, i, last)
               /\ (IF i = n THEN <<>>
                   ELSE IF (l * i) \div n <= last THEN h[i + 1][last]
                   ELSE IF s[(l * i) \div n] = d[1]
                        THEN <<(l * i) \div n>> \o h[i + 1][(l * i) \div n]
                   ELSE IF Next1((l * i) \div n) = l THEN <<l>>
                   ELSE <<Next1((l * i) \div n)>> \o h[i + 1][Next1((l * i) \div n)])
                  = IF i = n THEN <<>> ELSE CutRow(h, T, C, l, i, last)
    <2>1. CASE i = n
      BY <2>1
    <2>2. CASE i # n
      <3> DEFINE t == (l * i) \div n
      <3>1. i \in 1..(n - 1)
        BY <1>0, <2>2
      <3>2. T[i] = t /\ t \in 0..(l - 1)
        BY <1>t, <3>1
      <3> HIDE DEF t
      <3>3. CASE t <= last
        BY <2>2, <3>2, <3>3, Zenon DEF CutRow, t
      <3>4. CASE ~(t <= last)
        <4>1. t \in 1..(l - 1) /\ t # l
          BY <1>0, <3>2, <3>4
        <4>2. Cut(t) = C[t] /\ C[t] = IF s[t] = d[1] THEN t ELSE Next1(t)
          BY <1>2, <4>1
        <4>3. CutRow(h, T, C, l, i, last) = IF C[t] = l THEN <<l>> ELSE <<C[t]>> \o h[i + 1][C[t]]
          BY <3>2, <3>4, Zenon DEF CutRow
        <4>4. (IF Cut(t) = l THEN <<Cut(t)>> ELSE <<Cut(t)>> \o h[i + 1][Cut(t)])
              = CutRow(h, T, C, l, i, last)
          BY <4>2, <4>3, Zenon
        <4>5. (IF s[t] = d[1] THEN <<t>> \o h[i + 1][t]
               ELSE IF Next1(t) = l THEN <<l>> ELSE <<Next1(t)>> \o h[i + 1][Next1(t)])
              = CutRow(h, T, C, l, i, last)
          BY <4>1, <4>2, <4>3, Zenon
        <4> QED
          BY <2>2, <3>4, <4>4, <4>5, Zenon DEF t
      <3> QED
        BY <3>3, <3>4
    <2> QED
      BY <2>1, <2>2
  <1>4. \A h : (h = G(h) <=> IsCuts(h, T, C, n, l)) /\ (h = K(h) <=> IsCuts(h, T, C, n, l))
    <2>1. \A h : G(h) = [i \in 1..n |-> [last \in 0..l |->
                    IF i = n THEN <<>> ELSE CutRow(h, T, C, l, i, last)]]
      BY <1>3, ZenonT(60)
    <2>2. \A h : K(h) = [i \in 1..n |-> [last \in 0..l |->
                    IF i = n THEN <<>> ELSE CutRow(h, T, C, l, i, last)]]
      BY <1>3, ZenonT(60)
    <2> HIDE DEF G, K
    <2> QED
      BY <2>1, <2>2, Zenon DEF IsCuts
  <1> HIDE DEF G, K
  <1>5. IsCuts(f, T, C, n, l)
    BY DEF T, C
  <1>6. cuts = G(cuts) /\ fuzz = K(fuzz)
    BY <1>4, <1>5
  <1>a. CutArgs(T, C, n, l)
    BY <1>0, SnapArgs, SMTT(60) DEF T, C
  <1> HIDE DEF cuts, fuzz, l, n
  <1>7. cuts = f /\ fuzz = f
    BY <1>4, <1>5, <1>6, <1>a, CutsUnique
  <1> QED
    BY <1>1, <1>7 DEF l
=============================================================================

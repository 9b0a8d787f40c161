---------------------------- MODULE FoldTheorems ----------------------------
(***************************************************************************)
(* Facts about the folds of the community modules, for every operator op   *)
(* that is folded, and the induction they rest on.                         *)
(*                                                                         *)
(* A module that folds some operator instantiates this one with it:        *)
(*    Plus == INSTANCE FoldTheorems WITH op <- +                           *)
(* and shows that its fold is Plus!ChosenFold or Plus!LeftFold by          *)
(* expanding both.  Induction over the naturals is well-founded induction  *)
(* on a set: the least number outside of it would have a predecessor.      *)
(***************************************************************************)
EXTENDS Integers, Sequences, FiniteSets, SequencesExt, WellFoundedInduction,
        FiniteSetTheorems, TLAPS

CONSTANT op(_,_)

-----------------------------------------------------------------------------
(* Induction. *)

LEMMA Least ==
    ASSUME NEW S \in SUBSET Nat, S # {}
    PROVE  \E n \in S : \A m \in S : n <= m
<1> DEFINE R == OpToRel(<, Nat)
<1>1. IsWellFoundedOn(R, Nat)
  BY NatLessThanWellFounded
<1> HIDE DEF R
<1>2. PICK x \in S : \A y \in S : ~ (<<y, x>> \in R)
  BY <1>1, WFMin
<1>3. \A x0, y \in Nat : <<x0, y>> \in R <=> x0 < y
  BY DEF R, OpToRel
<1>5. \A y \in S : ~ (y < x)
  BY <1>2, <1>3
<1> QED BY <1>5

LEMMA Induct ==
    ASSUME NEW S, 0 \in S, \A n \in Nat : n \in S => n + 1 \in S
    PROVE  \A n \in Nat : n \in S
<1> SUFFICES ASSUME Nat \ S # {} PROVE FALSE
  OBVIOUS
<1>1. PICK n \in Nat \ S : \A m \in Nat \ S : n <= m
  BY Least
<1>2. n - 1 \in Nat /\ n - 1 \in S
  BY <1>1
<1> QED BY <1>1, <1>2

(* P has the empty set, and a part of S if it has all that are one smaller. *)
Grows(P, S) ==
    /\ {} \in P
    /\ \A s \in SUBSET S : s # {} /\ (\A x \in s : s \ {x} \in P) => s \in P

LEMMA InductSubsets ==
    ASSUME NEW S, IsFiniteSet(S), NEW P, Grows(P, S)
    PROVE  \A s \in SUBSET S : s \in P
<1> DEFINE N == {n \in Nat : \A s \in SUBSET S : Cardinality(s) = n => s \in P}
<1>1. \A s \in SUBSET S : IsFiniteSet(s) /\ Cardinality(s) \in Nat
  BY FS_Subset, FS_CardinalityType
<1>2. 0 \in N
  BY <1>1, FS_EmptySet DEF Grows
<1>3. ASSUME NEW n \in Nat, n \in N PROVE n + 1 \in N
  <2> SUFFICES ASSUME NEW s \in SUBSET S, Cardinality(s) = n + 1 PROVE s \in P
    OBVIOUS
  <2>1. ASSUME NEW x \in s
        PROVE  Cardinality(s \ {x}) = n /\ s \ {x} \in SUBSET S
    <3>1. IsFiniteSet(s)
      BY <1>1
    <3>2. Cardinality(s \ {x}) = Cardinality(s) - 1
      BY <3>1, FS_RemoveElement
    <3> QED  BY <3>2
  <2>2. s # {}
    BY FS_EmptySet
  <2> QED  BY <1>3, <2>1, <2>2 DEF Grows
<1>4. \A n \in Nat : n \in N
  <2> HIDE DEF N
  <2> QED  BY <1>2, <1>3, Induct
<1> QED  BY <1>1, <1>4

-----------------------------------------------------------------------------
(* Folds over a sequence, from the left. *)

LeftFold(base, seq) == FoldLeft(op, base, seq)

(* h[k] is the fold over the first k of n elements. *)
LeftRun(h, base, seq, n) ==
    /\ h[0] = base
    /\ \A k \in 1..n : h[k] = op(h[k - 1], seq[k])

LEMMA MaxOfInterval ==
    ASSUME NEW k \in Nat, NEW s \in SUBSET (1..(k + 1)), k + 1 \in s
    PROVE  Max(s) = k + 1
<1>1. \A x \in s : x >= k + 1 => x = k + 1
  OBVIOUS
<1>2. \A x \in s : k + 1 >= x
  OBVIOUS
<1>3. \A x \in s : (\A y \in s : x >= y) => x = k + 1
  BY <1>1
<1>4. \E x \in s : \A y \in s : x >= y
  BY <1>2
<1>5. Max(s) \in s /\ \A y \in s : Max(s) >= y
  BY <1>4 DEF Max
<1> QED BY <1>3, <1>5

(* A fold from the left has a run, and is what the run ends with: h[k] for   *)
(* the first k elements.                                                    *)
LEMMA FoldLeftRun ==
    ASSUME NEW base, NEW seq, NEW n \in Nat, DOMAIN seq = 1..n
    PROVE  \E h : LeftRun(h, base, seq, n) /\ LeftFold(base, seq) = h[n]
<1> DEFINE Goes(g, s) == g[s] = IF s = {} THEN base
                                ELSE op(g[s \ {Max(s)}], seq[Max(s)])
           Runs(k) == \E g : \A s \in SUBSET (1..k) : Goes(g, s)
           S == {k \in Nat : Runs(k)}
<1>1. 0 \in S
  <2> DEFINE g == [s \in {{}} |-> base]
  <2>1. SUBSET (1..0) = {{}}
    OBVIOUS
  <2>2. \A s \in SUBSET (1..0) : Goes(g, s)
    BY <2>1
  <2> QED  BY <2>2
<1>2. ASSUME NEW k \in Nat, k \in S PROVE k + 1 \in S
  <2>1. PICK g : \A s \in SUBSET (1..k) : Goes(g, s)
    BY <1>2
  <2> DEFINE f == [s \in SUBSET (1..(k + 1)) |->
                     IF k + 1 \in s THEN op(g[s \ {k + 1}], seq[k + 1]) ELSE g[s]]
  <2>2. ASSUME NEW s \in SUBSET (1..(k + 1)) PROVE Goes(f, s)
    <3>1. CASE k + 1 \in s
      <4>1. Max(s) = k + 1
        BY <3>1, MaxOfInterval
      <4>2. s \ {k + 1} \in SUBSET (1..(k + 1)) /\ k + 1 \notin s \ {k + 1}
        OBVIOUS
      <4>3. f[s \ {k + 1}] = g[s \ {k + 1}]
        BY <4>2
      <4>4. f[s] = op(g[s \ {k + 1}], seq[k + 1])
        BY <3>1
      <4> HIDE DEF f
      <4> QED  BY <3>1, <4>1, <4>3, <4>4
    <3>2. CASE k + 1 \notin s
      <4>0. \A x \in s : x \in 1..k
        BY <3>2
      <4>1. s \in SUBSET (1..k) /\ s \ {Max(s)} \in SUBSET (1..k)
        BY <4>0
      <4>2. Goes(g, s)
        BY <2>1, <4>1
      <4>3. \A t \in SUBSET (1..k) : f[t] = g[t]
        <5>1. \A t \in SUBSET (1..k) : t \in SUBSET (1..(k + 1)) /\ k + 1 \notin t
          OBVIOUS
        <5> QED  BY <5>1
      <4> HIDE DEF f
      <4> QED  BY <4>1, <4>2, <4>3
    <3> QED  BY <3>1, <3>2
  <2> HIDE DEF f, Goes
  <2>3. Runs(k + 1)
    BY <2>2
  <2> HIDE DEF Runs
  <2> QED  BY <2>3
<1>3. PICK g : \A s \in SUBSET (1..n) : Goes(g, s)
  <2> HIDE DEF Goes
  <2>1. \A k \in Nat : k \in S
    <3> HIDE DEF S
    <3> QED  BY <1>1, <1>2, Induct
  <2> QED  BY <2>1
<1> DEFINE iter == CHOOSE f : f = [s \in SUBSET (1..n) |->
                      IF s = {} THEN base
                      ELSE op(f[s \ {Max(s)}], seq[Max(s)])]
<1>4. iter = [s \in SUBSET (1..n) |->
                      IF s = {} THEN base
                      ELSE op(iter[s \ {Max(s)}], seq[Max(s)])]
  <2> DEFINE f == [s \in SUBSET (1..n) |-> g[s]]
  <2>1. f = [s \in SUBSET (1..n) |->
                      IF s = {} THEN base
                      ELSE op(f[s \ {Max(s)}], seq[Max(s)])]
    <3>1. \A s \in SUBSET (1..n) : s \ {Max(s)} \in SUBSET (1..n)
      OBVIOUS
    <3>2. \A s \in SUBSET (1..n) :
             f[s] = IF s = {} THEN base
                      ELSE op(f[s \ {Max(s)}], seq[Max(s)])
      BY <1>3, <3>1
    <3> QED  BY <3>2
  <2> HIDE DEF f
  <2> QED  BY <2>1
<1>5. LeftFold(base, seq) = iter[1..n]
  BY DEF LeftFold, FoldLeft, MapThenFoldSet
<1> HIDE DEF iter
<1> DEFINE h == [k \in 0..n |-> iter[1..k]]
<1>6. h[0] = base
  <2>1. 1..0 = {} /\ {} \in SUBSET (1..n)
    OBVIOUS
  <2> QED  BY <1>4, <2>1
<1>7. ASSUME NEW k \in 1..n PROVE h[k] = op(h[k - 1], seq[k])
  <2>1. 1..k \in SUBSET (1..n) /\ 1..k # {} /\ (1..k) \ {k} = 1..(k - 1)
    OBVIOUS
  <2>3. Max(1..k) = k
    <3> DEFINE j == k - 1
    <3>1. j \in Nat /\ 1..k \in SUBSET (1..(j + 1)) /\ j + 1 \in 1..k /\ j + 1 = k
      OBVIOUS
    <3> HIDE DEF j
    <3> QED  BY <3>1, MaxOfInterval
  <2>4. iter[1..k] = op(iter[1..(k - 1)], seq[k])
    BY <1>4, <2>1, <2>3
  <2>5. k \in 0..n /\ k - 1 \in 0..n
    OBVIOUS
  <2> QED  BY <2>4, <2>5
<1>8. h[n] = iter[1..n]
  OBVIOUS
<1> HIDE DEF h
<1> QED  BY <1>5, <1>6, <1>7, <1>8 DEF LeftRun

(* A fold from the left stays in a set that op does not lead out of. *)
LEMMA FoldLeftIn ==
    ASSUME NEW base, NEW seq, NEW n \in Nat, DOMAIN seq = 1..n,
           NEW T, base \in T, \A x \in T, k \in 1..n : op(x, seq[k]) \in T
    PROVE  LeftFold(base, seq) \in T
<1>1. PICK h : LeftRun(h, base, seq, n) /\ LeftFold(base, seq) = h[n]
  BY FoldLeftRun
<1> DEFINE S == {k \in Nat : k <= n => h[k] \in T}
<1>2. 0 \in S
  BY <1>1 DEF LeftRun
<1>3. ASSUME NEW k \in Nat, k \in S PROVE k + 1 \in S
  <2> SUFFICES ASSUME k + 1 <= n PROVE h[k + 1] \in T
    OBVIOUS
  <2>1. k + 1 \in 1..n /\ h[k + 1] = op(h[k + 1 - 1], seq[k + 1])
    BY <1>1 DEF LeftRun
  <2>2. h[k] \in T /\ k + 1 - 1 = k
    BY <1>3
  <2> QED  BY <2>1, <2>2
<1>4. \A k \in Nat : k \in S
  <2> HIDE DEF S
  <2> QED  BY <1>2, <1>3, Induct
<1> QED BY <1>1, <1>4

-----------------------------------------------------------------------------
(* Folds over a set, whose elements are taken in the order CHOOSE has them. *)

AnyOf(s) == CHOOSE x \in s : TRUE

(* h[s] is the fold of f over s, for every part s of S. *)
ChosenRun(h, base, f, S) ==
    \A s \in SUBSET S :
       h[s] = IF s = {} THEN base ELSE op(f[AnyOf(s)], h[s \ {AnyOf(s)}])

ChosenFold(base, f, S) ==
    MapThenFoldSet(op, base, LAMBDA x : f[x], LAMBDA s : CHOOSE x \in s : TRUE, S)

(* A fold over a finite set takes one element, and folds what is left: h[s]  *)
(* for every part s of the set.                                             *)
LEMMA FoldChosenRun ==
    ASSUME NEW base, NEW f, NEW S, IsFiniteSet(S)
    PROVE  \E h : /\ ChosenRun(h, base, f, S)
                  /\ ChosenFold(base, f, S) = h[S]
<1> DEFINE Goes(g, s) == g[s] = IF s = {} THEN base ELSE op(f[AnyOf(s)], g[s \ {AnyOf(s)}])
           Small(n) == {s \in SUBSET S : Cardinality(s) <= n}
           Runs(n) == \E g : \A s \in Small(n) : Goes(g, s)
           N == {n \in Nat : Runs(n)}
<1>1. \A s \in SUBSET S : IsFiniteSet(s) /\ Cardinality(s) \in Nat
  BY FS_Subset, FS_CardinalityType
<1>2. 0 \in N
  <2> DEFINE g == [s \in {{}} |-> base]
  <2>1. \A s \in Small(0) : s = {}
    BY <1>1, FS_EmptySet
  <2>2. \A s \in Small(0) : Goes(g, s)
    BY <2>1
  <2> QED  BY <2>2
<1>3. ASSUME NEW n \in Nat, n \in N PROVE n + 1 \in N
  <2>1. PICK g : \A s \in Small(n) : Goes(g, s)
    BY <1>3
  <2> DEFINE k == [s \in SUBSET S |->
                     IF Cardinality(s) = n + 1 THEN op(f[AnyOf(s)], g[s \ {AnyOf(s)}])
                     ELSE g[s]]
  <2>2. ASSUME NEW s \in Small(n + 1) PROVE Goes(k, s)
    <3> DEFINE t == s \ {AnyOf(s)}
    <3>1. s # {} => /\ t \in SUBSET S /\ Cardinality(t) = Cardinality(s) - 1
      <4>1. s # {} => AnyOf(s) \in s
        BY DEF AnyOf
      <4> QED  BY <1>1, <4>1, FS_RemoveElement
    <3>2. s # {} => k[t] = g[t]
      <4>1. Cardinality(s) \in Nat /\ Cardinality(s) <= n + 1
        BY <1>1
      <4>2. s # {} => Cardinality(t) # n + 1
        BY <3>1, <4>1
      <4> HIDE DEF t
      <4> QED  BY <3>1, <4>2
    <3>3. CASE Cardinality(s) = n + 1
      <4>1. s # {}
        BY <3>3, FS_EmptySet
      <4>2. k[s] = op(f[AnyOf(s)], g[t])
        BY <3>3
      <4> HIDE DEF k
      <4> QED  BY <3>2, <4>1, <4>2
    <3>4. CASE Cardinality(s) # n + 1
      <4>1. s \in Small(n)
        BY <1>1, <3>4
      <4>2. Goes(g, s) /\ k[s] = g[s]
        BY <2>1, <3>4, <4>1
      <4> HIDE DEF k
      <4> QED  BY <3>2, <4>2
    <3> QED  BY <3>3, <3>4
  <2> HIDE DEF k, Goes
  <2>3. Runs(n + 1)
    BY <2>2
  <2> HIDE DEF Runs
  <2> QED  BY <2>3
<1>4. PICK g : \A s \in SUBSET S : Goes(g, s)
  <2> HIDE DEF Goes
  <2>1. Runs(Cardinality(S))
    <3>1. \A n \in Nat : n \in N
      <4> HIDE DEF N
      <4> QED  BY <1>2, <1>3, Induct
    <3> QED  BY <1>1, <3>1
  <2>2. \A s \in SUBSET S : s \in Small(Cardinality(S))
    BY FS_Subset
  <2> QED  BY <2>1, <2>2
<1> DEFINE iter == CHOOSE k : k = [s \in SUBSET S |->
                      IF s = {} THEN base ELSE op(f[AnyOf(s)], k[s \ {AnyOf(s)}])]
<1>5. iter = [s \in SUBSET S |->
                      IF s = {} THEN base ELSE op(f[AnyOf(s)], iter[s \ {AnyOf(s)}])]
  <2> DEFINE k == [s \in SUBSET S |-> g[s]]
  <2>1. k = [s \in SUBSET S |->
                      IF s = {} THEN base ELSE op(f[AnyOf(s)], k[s \ {AnyOf(s)}])]
    <3>1. \A s \in SUBSET S : s \ {AnyOf(s)} \in SUBSET S
      OBVIOUS
    <3>2. \A s \in SUBSET S :
             k[s] = IF s = {} THEN base ELSE op(f[AnyOf(s)], k[s \ {AnyOf(s)}])
      BY <1>4, <3>1
    <3> QED  BY <3>2
  <2> HIDE DEF k
  <2> QED  BY <2>1
<1>6. ChosenFold(base, f, S) = iter[S]
  BY DEF ChosenFold, MapThenFoldSet, AnyOf
<1> HIDE DEF iter
<1> QED  BY <1>5, <1>6 DEF ChosenRun
=============================================================================

---------------------------- MODULE PacketsProofs ----------------------------
(***************************************************************************)
(* Proofs about Packets: its variables keep their types, the header frames *)
(* the packet, the Decoder leaves what it was given by eight bytes for     *)
(* each early double at the most, and the first message of a packet is     *)
(* read back as it was packed, or merged into what a used object held.     *)
(*                                                                         *)
(* The last two need what the body and the memory are made of (Bodied,     *)
(* Remembered), and, for each type of field, that popping undoes pushing.  The folds by which the     *)
(* fields and their bytes are pushed and popped are turned into runs (by   *)
(* FoldTheorems) f[0], f[1], .. and what is said of f[k] is proved for     *)
(* each k by the least-number principle (Induct), with the set of those k  *)
(* for which it holds in the place of a predicate.                         *)
(***************************************************************************)
EXTENDS Packets, FiniteSetTheorems, SequenceTheorems, TLAPS

Below256 == INSTANCE FoldTheorems WITH op <- Below
Sums == INSTANCE FoldTheorems WITH op <- Added
Pops == INSTANCE FoldTheorems WITH op <- pop
Takes == INSTANCE FoldTheorems WITH op <- pop_element
Reads == INSTANCE FoldTheorems WITH op <- PopField

-----------------------------------------------------------------------------
(* Sequences of sequences. *)

Flat(h, ss) ==
    /\ h[0] = <<>>
    /\ \A k \in 1..Len(ss) : h[k] = h[k - 1] \o ss[k]

LEMMA FlatType ==
    ASSUME NEW S, NEW ss \in Seq(Seq(S)), NEW h, Flat(h, ss)
    PROVE  \A k \in 0..Len(ss) : h[k] \in Seq(S)
<1> DEFINE T == {k \in Nat : k <= Len(ss) => h[k] \in Seq(S)}
<1>1. 0 \in T
  <2>1. h[0] = <<>> /\ <<>> \in Seq(S)
    BY EmptySeq DEF Flat
  <2> QED  BY <2>1
<1>2. ASSUME NEW k \in 1..Len(ss), h[k - 1] \in Seq(S) PROVE h[k] \in Seq(S)
  <2>1. ss[k] \in Seq(S)
    OBVIOUS
  <2>2. h[k] = h[k - 1] \o ss[k]
    BY DEF Flat
  <2> QED  BY <1>2, <2>1, <2>2, ConcatProperties
<1>3. ASSUME NEW k \in Nat, k \in T PROVE k + 1 \in T
  <2> SUFFICES ASSUME k + 1 <= Len(ss) PROVE h[k + 1] \in Seq(S)
    OBVIOUS
  <2>1. k + 1 \in 1..Len(ss) /\ k + 1 - 1 = k /\ h[k] \in Seq(S)
    BY <1>3
  <2> QED  BY <1>2, <2>1
<1>4. \A k \in Nat : k \in T
  <2> HIDE DEF T
  <2> QED  BY <1>1, <1>3, Pops!Induct
<1> QED BY <1>4

LEMMA FlattenRun ==
    ASSUME NEW S, NEW ss \in Seq(Seq(S))
    PROVE  \E h : Flat(h, ss) /\ FlattenSeq(ss) = h[Len(ss)]
<1> DEFINE Step(f, i) == IF i = 1 THEN ss[i] ELSE f[i - 1] \o ss[i]
           Runs(k) == \E f : \A i \in 1..k : f[i] = Step(f, i)
           T == {k \in Nat : Runs(k)}
<1>1. CASE Len(ss) = 0
  <2>1. ss = <<>> /\ FlattenSeq(ss) = <<>>
    BY <1>1 DEF FlattenSeq
  <2>2. Flat([k \in {0} |-> <<>>], ss)
    BY <1>1 DEF Flat
  <2> QED  BY <1>1, <2>1, <2>2
<1>2. CASE Len(ss) # 0
  <2>1. 0 \in T
    OBVIOUS
  <2>2. ASSUME NEW k \in Nat, k \in T PROVE k + 1 \in T
    <3>1. PICK f : \A i \in 1..k : f[i] = Step(f, i)
      BY <2>2
    <3> DEFINE g == [i \in 1..(k + 1) |-> IF i = k + 1 THEN Step(f, i) ELSE f[i]]
    <3>2. ASSUME NEW i \in 1..(k + 1) PROVE g[i] = Step(g, i)
      <4>1. i - 1 \in 1..k => g[i - 1] = f[i - 1]
        OBVIOUS
      <4>2. i # 1 => i - 1 \in 1..k
        OBVIOUS
      <4>3. Step(g, i) = Step(f, i)
        BY <4>1, <4>2
      <4>4. i \in 1..k \/ i = k + 1
        OBVIOUS
      <4>5. g[i] = Step(f, i)
        <5> HIDE DEF Step
        <5> QED  BY <3>1, <4>4
      <4> HIDE DEF g, Step
      <4> QED  BY <4>3, <4>5
    <3> HIDE DEF g, Step
    <3>3. Runs(k + 1)
      BY <3>2
    <3> HIDE DEF Runs
    <3> QED  BY <3>3
  <2>3. Len(ss) \in T
    <3>1. \A k \in Nat : k \in T
      <4> HIDE DEF T
      <4> QED  BY <2>1, <2>2, Pops!Induct
    <3>2. Len(ss) \in Nat
      OBVIOUS
    <3> HIDE DEF T
    <3> QED  BY <3>1, <3>2
  <2>4. PICK f : \A i \in 1..Len(ss) : f[i] = Step(f, i)
    BY <2>3
  <2> DEFINE flatten == CHOOSE g : g = [i \in 1..Len(ss) |-> Step(g, i)]
  <2>5. flatten = [i \in 1..Len(ss) |-> Step(flatten, i)]
    <3> DEFINE g == [i \in 1..Len(ss) |-> f[i]]
    <3>1. g = [i \in 1..Len(ss) |-> Step(g, i)]
      BY <2>4
    <3> HIDE DEF g, Step
    <3> QED  BY <3>1
  <2>6. FlattenSeq(ss) = flatten[Len(ss)]
    BY <1>2 DEF FlattenSeq
  <2> HIDE DEF flatten
  <2> DEFINE h == [k \in 0..Len(ss) |-> IF k = 0 THEN <<>> ELSE flatten[k]]
  <2>7. ASSUME NEW k \in 1..Len(ss) PROVE h[k] = h[k - 1] \o ss[k]
    <3>1. ss[k] \in Seq(S)
      OBVIOUS
    <3>2. flatten[k] = IF k = 1 THEN ss[k] ELSE flatten[k - 1] \o ss[k]
      BY <2>5
    <3>3. <<>> \o ss[k] = ss[k]
      BY <3>1
    <3>4. CASE k = 1
      <4>1. h[k] = flatten[k] /\ h[k - 1] = <<>>
        BY <3>4
      <4> HIDE DEF h
      <4> QED  BY <3>2, <3>3, <3>4, <4>1
    <3>5. CASE k # 1
      <4>1. k \in 0..Len(ss) /\ k - 1 \in 0..Len(ss) /\ k # 0 /\ k - 1 # 0
        BY <3>5
      <4>2. h[k] = flatten[k] /\ h[k - 1] = flatten[k - 1]
        BY <4>1
      <4> HIDE DEF h
      <4> QED  BY <3>2, <3>5, <4>2
    <3> QED  BY <3>4, <3>5
  <2>8. h[0] = <<>> /\ h[Len(ss)] = flatten[Len(ss)]
    BY <1>2
  <2> HIDE DEF h
  <2> QED  BY <2>6, <2>7, <2>8 DEF Flat
<1> QED BY <1>1, <1>2

LEMMA FlattenType ==
    ASSUME NEW S, NEW ss \in Seq(Seq(S))
    PROVE  FlattenSeq(ss) \in Seq(S)
<1>1. PICK h : Flat(h, ss) /\ FlattenSeq(ss) = h[Len(ss)]
  BY FlattenRun
<1>2. h[Len(ss)] \in Seq(S)
  BY <1>1, FlatType
<1> QED BY <1>1, <1>2

LEMMA FlattenConcat ==
    ASSUME NEW S, NEW a \in Seq(Seq(S)), NEW b \in Seq(Seq(S))
    PROVE  FlattenSeq(a \o b) = FlattenSeq(a) \o FlattenSeq(b)
<1> DEFINE c == a \o b
<1>1. c \in Seq(Seq(S)) /\ Len(c) = Len(a) + Len(b)
  BY ConcatProperties
<1> HIDE DEF c
<1>2. PICK f : Flat(f, c) /\ FlattenSeq(c) = f[Len(c)]
  BY <1>1, FlattenRun
<1>3. PICK g : Flat(g, a) /\ FlattenSeq(a) = g[Len(a)]
  BY FlattenRun
<1>4. PICK h : Flat(h, b) /\ FlattenSeq(b) = h[Len(b)]
  BY FlattenRun
<1> USE <1>1, <1>2, <1>3, <1>4
<1>5. /\ Len(a) \in Nat /\ Len(b) \in Nat
      /\ \A i \in 1..Len(a) : c[i] = a[i]
      /\ \A i \in 1..Len(b) : c[Len(a) + i] = b[i]
  BY <1>1, ConcatProperties DEF c
<1>6. /\ \A k \in 0..Len(a) : g[k] \in Seq(S)
      /\ \A k \in 0..Len(b) : h[k] \in Seq(S)
  BY FlatType
<1> DEFINE A == {k \in Nat : k <= Len(a) => f[k] = g[k]}
           Joined(k) == f[Len(a) + k] = g[Len(a)] \o h[k]
           B == {k \in Nat : k <= Len(b) => Joined(k)}
<1>7. ASSUME NEW k \in 1..Len(a), f[k - 1] = g[k - 1] PROVE f[k] = g[k]
  <2>1. k \in 1..Len(c) /\ c[k] = a[k]
    BY <1>5
  <2>2. f[k] = f[k - 1] \o c[k]
    BY <2>1 DEF Flat
  <2>3. g[k] = g[k - 1] \o a[k]
    BY DEF Flat
  <2>4. c[k] = a[k] /\ f[k - 1] = g[k - 1]
    BY <1>7, <2>1
  <2> QED  BY ONLY <2>2, <2>3, <2>4
<1>8. ASSUME NEW k \in 1..Len(b), NEW j, j = Len(a) + k, Joined(k - 1)
      PROVE  f[j] = g[Len(a)] \o h[k]
  <2>1. /\ j \in 1..Len(c) /\ c[j] = b[k] /\ j - 1 = Len(a) + (k - 1)
        /\ Len(a) \in 0..Len(a) /\ k - 1 \in 0..Len(b) /\ b[k] \in Seq(S)
    BY <1>5, <1>8
  <2>2. f[j] = f[j - 1] \o c[j]
    BY <2>1 DEF Flat
  <2>3. h[k] = h[k - 1] \o b[k]
    BY DEF Flat
  <2> DEFINE x == g[Len(a)]
             y == h[k - 1]
             z == b[k]
  <2>4. x \in Seq(S) /\ y \in Seq(S) /\ z \in Seq(S)
    BY <1>6, <2>1
  <2>5. f[j - 1] = x \o y
    BY <1>8, <2>1
  <2>6. f[j] = (x \o y) \o z /\ h[k] = y \o z
    BY <2>1, <2>2, <2>3, <2>5
  <2> HIDE DEF x, y, z
  <2>7. (x \o y) \o z = x \o (y \o z)
    BY ONLY <2>4, SMTT(40)
  <2>8. f[j] = x \o h[k]
    BY ONLY <2>6, <2>7
  <2> QED  BY ONLY <2>8 DEF x
<1>9. Len(a) \in A
  <2>1. 0 \in A
    BY DEF Flat
  <2>2. ASSUME NEW k \in Nat, k \in A PROVE k + 1 \in A
    <3> SUFFICES ASSUME k + 1 <= Len(a) PROVE f[k + 1] = g[k + 1]
      OBVIOUS
    <3>1. k + 1 \in 1..Len(a) /\ k + 1 - 1 = k /\ f[k] = g[k]
      BY <1>5, <2>2
    <3> QED  BY <1>7, <3>1
  <2>3. \A k \in Nat : k \in A
    <3> HIDE DEF A
    <3> QED  BY <2>1, <2>2, Pops!Induct
  <2> HIDE DEF A
  <2> QED  BY <1>5, <2>3
<1>10. Len(b) \in B
  <2>1. 0 \in B
    <3>1. f[Len(a)] = g[Len(a)]
      BY <1>5, <1>9
    <3>2. Len(a) \in 0..Len(a) /\ Len(a) + 0 = Len(a)
      BY <1>5
    <3>3. g[Len(a)] \in Seq(S) /\ h[0] = <<>>
      BY <1>6, <3>2 DEF Flat
    <3>4. g[Len(a)] \o <<>> = g[Len(a)]
      BY <3>3, ConcatEmptySeq
    <3> QED  BY <3>1, <3>2, <3>3, <3>4
  <2>2. ASSUME NEW k \in Nat, k \in B PROVE k + 1 \in B
    <3>1. CASE k + 1 <= Len(b)
      <4>1. k + 1 \in 1..Len(b) /\ k + 1 - 1 = k /\ k <= Len(b)
        BY <1>5, <3>1
      <4>2. Joined(k)
        <5> HIDE DEF Joined
        <5> QED  BY <2>2, <4>1
      <4>3. f[Len(a) + (k + 1)] = g[Len(a)] \o h[k + 1]
        <5> DEFINE i == k + 1
                   j == Len(a) + i
        <5>1. i \in 1..Len(b) /\ Joined(i - 1)
          <6> HIDE DEF Joined
          <6> QED  BY <4>1, <4>2
        <5> HIDE DEF Joined, i
        <5>2. f[j] = g[Len(a)] \o h[i]
          BY <1>8, <5>1
        <5> QED  BY <5>2 DEF i
      <4>4. Joined(k + 1)
        BY <4>3
      <4> HIDE DEF Joined
      <4> QED  BY <4>4
    <3>2. CASE ~ (k + 1 <= Len(b))
      <4> HIDE DEF Joined
      <4> QED  BY <3>2
    <3> QED  BY <3>1, <3>2
  <2>3. \A k \in Nat : k \in B
    <3> HIDE DEF B
    <3> QED  BY <2>1, <2>2, Pops!Induct
  <2> HIDE DEF B
  <2> QED  BY <1>5, <2>3
<1>11. Joined(Len(b))
  <2> HIDE DEF Joined
  <2> QED  BY <1>5, <1>10
<1> QED BY <1>11 DEF c

LEMMA FlattenOne ==
    ASSUME NEW S, NEW s \in Seq(S)
    PROVE  FlattenSeq(<<s>>) = s
<1> DEFINE t == <<s>>
<1>1. t \in Seq(Seq(S)) /\ Len(t) = 1 /\ t[1] = s
  OBVIOUS
<1> HIDE DEF t
<1>2. PICK h : Flat(h, t) /\ FlattenSeq(t) = h[1]
  BY <1>1, FlattenRun
<1>3. h[1] = h[1 - 1] \o t[1] /\ h[0] = <<>>
  BY <1>1, <1>2 DEF Flat
<1>4. <<>> \o s = s
  BY ConcatEmptySeq
<1>5. FlattenSeq(t) = s
  BY <1>1, <1>2, <1>3, <1>4
<1> QED BY <1>5 DEF t

-----------------------------------------------------------------------------
(* Numbers. *)

LEMMA OctetIs == \A b : b \in Octets <=> b \in Nat /\ b < 256
BY DEF Octets

LEMMA SizedSeq ==
    ASSUME NEW w \in Nat, NEW v \in Sized(w)
    PROVE  v \in Seq(Octets) /\ Len(v) = w /\ DOMAIN v = 1..w
BY DEF Sized

LEMMA Reversed ==
    ASSUME NEW bytes \in Seq(Octets)
    PROVE  /\ DOMAIN Reverse(bytes) = 1..Len(bytes)
           /\ \A i \in 1..Len(bytes) :
                 /\ Reverse(bytes)[i] = bytes[Len(bytes) - i + 1]
                 /\ Reverse(bytes)[i] \in Octets
<1>1. \A i \in 1..Len(bytes) : Len(bytes) - i + 1 \in 1..Len(bytes)
  OBVIOUS
<1> QED BY <1>1 DEF Reverse

LEMMA NumberFold ==
    ASSUME NEW bytes
    PROVE  Number(bytes) = Below256!LeftFold(0, Reverse(bytes))
BY DEF Number, FoldLeft, MapThenFoldSet, Max, Below256!LeftFold,
       Below256!FoldLeft, Below256!MapThenFoldSet, Below256!Max

LEMMA NumberType ==
    ASSUME NEW bytes \in Seq(Octets)
    PROVE  Number(bytes) \in Nat
<1>1. DOMAIN Reverse(bytes) = 1..Len(bytes) /\ Len(bytes) \in Nat
  BY Reversed
<1>2. \A x \in Nat, k \in 1..Len(bytes) : Below(x, Reverse(bytes)[k]) \in Nat
  <2>1. \A k \in 1..Len(bytes) : Reverse(bytes)[k] \in Octets
    BY Reversed
  <2>2. \A x \in Nat, b \in Octets : Below(x, b) \in Nat
    BY OctetIs DEF Below
  <2> QED  BY <2>1, <2>2
<1>3. Below256!LeftFold(0, Reverse(bytes)) \in Nat
  BY <1>1, <1>2, Below256!FoldLeftIn
<1> QED BY <1>3, NumberFold

LEMMA NumberOfTwo ==
    ASSUME NEW v \in Sized(2)
    PROVE  Number(v) = v[1] + 256 * v[2]
<1>1. v \in Seq(Octets) /\ Len(v) = 2 /\ v[1] \in Nat /\ v[2] \in Nat
  <2>1. v \in Seq(Octets) /\ Len(v) = 2
    BY SizedSeq
  <2>2. v[1] \in Nat /\ v[2] \in Nat
    BY OctetIs DEF Sized
  <2> QED  BY <2>1, <2>2
<1> DEFINE r == Reverse(v)
<1>2. DOMAIN r = 1..2 /\ r[1] = v[2] /\ r[2] = v[1]
  BY <1>1, Reversed
<1> HIDE DEF r
<1>3. PICK h : /\ Below256!LeftRun(h, 0, r, 2)
               /\ Below256!LeftFold(0, r) = h[2]
  <2>1. DOMAIN r = 1..2 /\ 2 \in Nat
    BY <1>2
  <2> QED  BY ONLY <2>1, Below256!FoldLeftRun
<1>4. h[0] = 0 /\ h[1] = Below(h[0], r[1]) /\ h[2] = Below(h[1], r[2])
  <2>1. \A k \in 1..2 : h[k] = Below(h[k - 1], r[k])
    BY <1>3 DEF Below256!LeftRun
  <2>2. 1 \in 1..2 /\ 2 \in 1..2 /\ 1 - 1 = 0 /\ 2 - 1 = 1
    OBVIOUS
  <2>3. h[0] = 0
    BY <1>3 DEF Below256!LeftRun
  <2> QED  BY <2>1, <2>2, <2>3
<1>5. h[2] = v[1] + 256 * v[2]
  BY <1>1, <1>2, <1>4 DEF Below
<1> QED BY <1>3, <1>5, NumberFold DEF r

LEMMA NumberOfFour ==
    ASSUME NEW v \in Sized(4)
    PROVE  Number(v) = v[1] + 256 * v[2] + 65536 * v[3] + 16777216 * v[4]
<1>1. /\ v \in Seq(Octets) /\ Len(v) = 4
      /\ v[1] \in Nat /\ v[2] \in Nat /\ v[3] \in Nat /\ v[4] \in Nat
  <2>1. v \in Seq(Octets) /\ Len(v) = 4
    BY SizedSeq
  <2>2. v[1] \in Nat /\ v[2] \in Nat /\ v[3] \in Nat /\ v[4] \in Nat
    BY OctetIs DEF Sized
  <2> QED  BY <2>1, <2>2
<1> DEFINE r == Reverse(v)
<1>2. DOMAIN r = 1..4 /\ r[1] = v[4] /\ r[2] = v[3] /\ r[3] = v[2] /\ r[4] = v[1]
  <2> HIDE DEF r
  <2>1. DOMAIN r = 1..4 /\ \A i \in 1..4 : r[i] = v[4 - i + 1]
    BY <1>1, Reversed DEF r
  <2>2. 4 - 1 + 1 = 4 /\ 4 - 2 + 1 = 3 /\ 4 - 3 + 1 = 2 /\ 4 - 4 + 1 = 1
    OBVIOUS
  <2>3. 1 \in 1..4 /\ 2 \in 1..4 /\ 3 \in 1..4 /\ 4 \in 1..4
    OBVIOUS
  <2>4. r[1] = v[4] /\ r[2] = v[3]
    BY <2>1, <2>2, <2>3
  <2>5. r[3] = v[2] /\ r[4] = v[1]
    BY <2>1, <2>2, <2>3
  <2> QED  BY <2>1, <2>4, <2>5
<1> HIDE DEF r
<1>3. PICK h : /\ Below256!LeftRun(h, 0, r, 4)
               /\ Below256!LeftFold(0, r) = h[4]
  <2>1. DOMAIN r = 1..4 /\ 4 \in Nat
    BY <1>2
  <2> QED  BY ONLY <2>1, Below256!FoldLeftRun
<1>4. /\ h[0] = 0 /\ h[1] = Below(h[0], r[1]) /\ h[2] = Below(h[1], r[2])
      /\ h[3] = Below(h[2], r[3]) /\ h[4] = Below(h[3], r[4])
  <2>1. \A k \in 1..4 : h[k] = Below(h[k - 1], r[k])
    BY <1>3 DEF Below256!LeftRun
  <2>2. /\ 1 \in 1..4 /\ 2 \in 1..4 /\ 3 \in 1..4 /\ 4 \in 1..4
        /\ 1 - 1 = 0 /\ 2 - 1 = 1 /\ 3 - 1 = 2 /\ 4 - 1 = 3
    OBVIOUS
  <2>3. h[0] = 0
    BY <1>3 DEF Below256!LeftRun
  <2>4. h[1] = Below(h[0], r[1]) /\ h[2] = Below(h[1], r[2])
    BY ONLY <2>1, <2>2
  <2>5. h[3] = Below(h[2], r[3]) /\ h[4] = Below(h[3], r[4])
    BY ONLY <2>1, <2>2
  <2> QED  BY <2>3, <2>4, <2>5
<1>5. h[4] = v[1] + 256 * v[2] + 65536 * v[3] + 16777216 * v[4]
  <2>1. /\ v[1] \in Nat /\ v[2] \in Nat /\ v[3] \in Nat /\ v[4] \in Nat
        /\ r[1] = v[4] /\ r[2] = v[3] /\ r[3] = v[2] /\ r[4] = v[1]
    BY <1>1, <1>2, SMTT(30)
  <2>2. h[2] = v[3] + 256 * v[4]
    BY ONLY <1>4, <2>1, SMT DEF Below
  <2>3. h[3] = v[2] + 256 * v[3] + 65536 * v[4]
    BY ONLY <1>4, <2>1, <2>2, SMT DEF Below
  <2> QED  BY ONLY <1>4, <2>1, <2>3, SMT DEF Below
<1> QED BY <1>3, <1>5, NumberFold DEF r

LEMMA BytesType ==
    ASSUME NEW n \in Nat, NEW w \in {2, 4}
    PROVE  Bytes(n, w) \in Sized(w)
<1>1. /\ Place[1] = 1 /\ Place[2] = 256 /\ Place[3] = 65536
      /\ Place[4] = 16777216
  BY DEF Place
<1>2. \A i \in 1..w : i \in {1, 2, 3, 4}
  OBVIOUS
<1>3. \A i \in 1..w : (n \div Place[i]) % 256 \in Octets
  BY <1>1, <1>2, OctetIs
<1> QED BY <1>3 DEF Bytes, Sized

(* What a count of 16 bits can hold. *)
Small(k) == k < 65536

LEMMA BytesOfNumber ==
    ASSUME NEW n \in Nat, Small(n), NEW w \in {2, 4}
    PROVE  Number(Bytes(n, w)) = n
<1>s. n < 65536
  BY DEF Small
<1> DEFINE v == Bytes(n, w)
<1>1. /\ Place[1] = 1 /\ Place[2] = 256 /\ Place[3] = 65536
      /\ Place[4] = 16777216
  BY DEF Place
<1>0. /\ 1 \in 1..w /\ 2 \in 1..w
      /\ w = 4 => 3 \in 1..w /\ 4 \in 1..w
  OBVIOUS
<1> DEFINE q == n \div 256
<1>q. /\ n \div 1 = n /\ q \in Nat /\ q < 256 /\ n \div 65536 = 0
      /\ n \div 16777216 = 0 /\ (n % 256) + 256 * q = n
  BY <1>s
<1>r. q % 256 = q /\ 0 % 256 = 0
  BY <1>q
<1> HIDE DEF q
<1>2. v[1] = n % 256 /\ v[2] = q
  <2>1. v[1] = (n \div Place[1]) % 256 /\ v[2] = (n \div Place[2]) % 256
    BY <1>0 DEF Bytes
  <2> HIDE DEF v
  <2> QED  BY <1>1, <1>q, <1>r, <2>1 DEF q
<1>3. ASSUME w = 4 PROVE v[3] = 0 /\ v[4] = 0
  <2>1. v[3] = (n \div Place[3]) % 256 /\ v[4] = (n \div Place[4]) % 256
    BY <1>0, <1>3 DEF Bytes
  <2> HIDE DEF v
  <2> QED  BY <1>1, <1>q, <1>r, <2>1
<1>4. v \in Sized(w)
  <2>1. n \in Nat
    OBVIOUS
  <2> HIDE DEF v
  <2> QED  BY <2>1, BytesType DEF v
<1> HIDE DEF v
<1>5. (n % 256) + 256 * q = n
  BY <1>q
<1>6. CASE w = 2
  BY <1>2, <1>4, <1>5, <1>6, NumberOfTwo DEF v
<1>7. CASE w = 4
  BY <1>2, <1>3, <1>4, <1>5, <1>7, NumberOfFour DEF v
<1> QED BY <1>6, <1>7

-----------------------------------------------------------------------------
(* The order of the elements of a set. *)

Increasing(q) == \A i, j \in DOMAIN q : i < j => Number(q[i]) < Number(q[j])

LEMMA NumberTells ==
    ASSUME NEW a \in Sized(2), NEW b \in Sized(2), Number(a) = Number(b)
    PROVE  a = b
<1>1. /\ a[1] \in Octets /\ a[2] \in Octets /\ b[1] \in Octets /\ b[2] \in Octets
      /\ a = [i \in 1..2 |-> a[i]] /\ b = [i \in 1..2 |-> b[i]]
  BY DEF Sized
<1>2. a[1] + 256 * a[2] = b[1] + 256 * b[2]
  BY NumberOfTwo
<1>3. a[1] = b[1] /\ a[2] = b[2]
  <2>1. ASSUME NEW i \in Nat, NEW j \in Nat, NEW k \in Nat, NEW l \in Nat,
               i < 256, k < 256, i + 256 * j = k + 256 * l
        PROVE  i = k /\ j = l
    BY <2>1
  <2>2. /\ a[1] \in Nat /\ a[2] \in Nat /\ a[1] < 256
        /\ b[1] \in Nat /\ b[2] \in Nat /\ b[1] < 256
    BY <1>1, OctetIs
  <2> QED  BY <1>2, <2>1, <2>2
<1>4. \A i \in 1..2 : i = 1 \/ i = 2
  OBVIOUS
<1> QED BY <1>1, <1>3, <1>4

LEMMA Greatest ==
    ASSUME NEW s \in SUBSET Sized(2), s # {}
    PROVE  \E x \in s : \A y \in s \ {x} : Number(y) < Number(x)
<1>1. \A y \in s : Number(y) \in Nat /\ Number(y) < 65536
  <2> SUFFICES ASSUME NEW y \in s PROVE Number(y) \in Nat /\ Number(y) < 65536
    OBVIOUS
  <2>1. y \in Sized(2) /\ y[1] \in Octets /\ y[2] \in Octets
    BY DEF Sized
  <2>2. Number(y) = y[1] + 256 * y[2]
    BY <2>1, NumberOfTwo
  <2>3. \A i, j \in Octets : i + 256 * j \in Nat /\ i + 256 * j < 65536
    BY OctetIs
  <2> QED  BY <2>1, <2>2, <2>3
<1> DEFINE D == {65535 - Number(y) : y \in s}
<1>2. D \in SUBSET Nat /\ D # {}
  BY <1>1
<1> HIDE DEF D
<1>3. PICK d \in D : \A e \in D : d <= e
  BY <1>2, Pops!Least
<1>4. PICK x \in s : d = 65535 - Number(x)
  BY DEF D
<1>5. ASSUME NEW y \in s \ {x} PROVE Number(y) < Number(x)
  <2>1. 65535 - Number(x) <= 65535 - Number(y)
    BY <1>3, <1>4 DEF D
  <2>2. Number(y) # Number(x)
    BY NumberTells
  <2>3. Number(y) \in Nat /\ Number(x) \in Nat
    BY <1>1
  <2> QED  BY <2>1, <2>2, <2>3
<1> QED BY <1>5

LEMMA OrderExists ==
    ASSUME NEW S \in SUBSET Sized(2), IsFiniteSet(S)
    PROVE  \E q \in [1..Cardinality(S) -> S] : Increasing(q)
<1> DEFINE Ordered(s) == \E q \in [1..Cardinality(s) -> s] : Increasing(q)
           P == {s \in SUBSET S : Ordered(s)}
<1>1. \A s \in SUBSET S : IsFiniteSet(s) /\ Cardinality(s) \in Nat
  BY FS_Subset, FS_CardinalityType
<1>2. {} \in P
  <2> DEFINE q == [i \in 1..0 |-> 0]
  <2>1. q \in [1..0 -> {}] /\ DOMAIN q = {}
    OBVIOUS
  <2> HIDE DEF q
  <2>2. Increasing(q)
    BY <2>1 DEF Increasing
  <2>3. Cardinality({}) = 0
    BY FS_EmptySet
  <2> QED  BY <2>1, <2>2, <2>3
<1>3. ASSUME NEW s \in SUBSET S, s # {}, \A x \in s : s \ {x} \in P
      PROVE  s \in P
  <2>1. PICK x \in s : \A y \in s \ {x} : Number(y) < Number(x)
    BY <1>3, Greatest
  <2> DEFINE t == s \ {x}
             n == Cardinality(t)
  <2>2. Cardinality(s) = n + 1 /\ n \in Nat
    <3>1. IsFiniteSet(s) /\ Cardinality(s) \in Nat /\ Cardinality(t) \in Nat
      BY <1>1
    <3>2. Cardinality(t) = Cardinality(s) - 1
      BY <3>1, FS_RemoveElement
    <3> QED  BY <3>1, <3>2
  <2>3. PICK q \in [1..n -> t] : Increasing(q)
    BY <1>3
  <2> HIDE DEF n
  <2> DEFINE r == [i \in 1..(n + 1) |-> IF i = n + 1 THEN x ELSE q[i]]
  <2>4. r \in [1..(n + 1) -> s]
    BY <2>2, <2>3
  <2>5. Increasing(r)
    <3> SUFFICES ASSUME NEW i \in 1..(n + 1), NEW j \in 1..(n + 1), i < j
                 PROVE  Number(r[i]) < Number(r[j])
      BY DEF Increasing
    <3>1. i \in 1..n /\ r[i] = q[i] /\ q[i] \in s \ {x}
      BY <2>2, <2>3
    <3>2. CASE j = n + 1
      <4>1. r[j] = x
        BY <3>2
      <4> HIDE DEF r
      <4> QED  BY <2>1, <3>1, <4>1
    <3>3. CASE j # n + 1
      <4>1. j \in 1..n /\ r[j] = q[j]
        BY <2>2, <3>3
      <4> HIDE DEF r
      <4> QED  BY <2>3, <3>1, <4>1 DEF Increasing
    <3> QED  BY <3>2, <3>3
  <2> HIDE DEF r
  <2> QED  BY <2>2, <2>4, <2>5
<1> HIDE DEF P
<1>4. Pops!Grows(P, S)
  BY <1>2, <1>3 DEF Pops!Grows
<1>5. Pops!IsFiniteSet(S)
  BY DEF IsFiniteSet, Pops!IsFiniteSet
<1>6. S \in P
  BY <1>4, <1>5, Pops!InductSubsets
<1> QED BY <1>6 DEF P

LEMMA InOrderFacts ==
    ASSUME NEW S \in SUBSET Sized(2), IsFiniteSet(S)
    PROVE  /\ Cardinality(S) \in Nat
           /\ InOrder(S) \in [1..Cardinality(S) -> S]
           /\ ToSet(InOrder(S)) = S
<1> DEFINE n == Cardinality(S)
           q == InOrder(S)
<1>1. n \in Nat
  BY FS_CardinalityType
<1>2. q \in [1..n -> S] /\ Increasing(q)
  <2>1. \E r \in [1..n -> S] : Increasing(r)
    BY OrderExists
  <2> QED  BY <2>1 DEF InOrder, Increasing
<1> HIDE DEF q
<1>3. ASSUME NEW i \in 1..n, NEW j \in 1..n, q[i] = q[j] PROVE i = j
  <2>1. q[i] \in Sized(2) /\ q[j] \in Sized(2)
    BY <1>2
  <2>2. Number(q[i]) \in Nat /\ Number(q[j]) \in Nat
    <3>1. q[i] \in Seq(Octets) /\ q[j] \in Seq(Octets)
      BY <2>1, SizedSeq
    <3> QED  BY <3>1, NumberType
  <2>3. ~ (i < j) /\ ~ (j < i)
    <3>1. DOMAIN q = 1..n
      BY <1>2
    <3> QED  BY <1>2, <1>3, <2>2, <3>1 DEF Increasing
  <2> QED  BY <1>1, <2>3
<1>4. q \in Injection(1..n, S)
  BY <1>2, <1>3 DEF Injection, IsInjective
<1>5. IsFiniteSet(1..n) /\ Cardinality(1..n) = n
  BY <1>1, FS_Interval
<1>6. q \in Surjection(1..n, S)
  BY <1>4, <1>5, FS_Injection
<1>7. ToSet(q) = S
  BY <1>2, <1>6 DEF Surjection, ToSet
<1> QED BY <1>1, <1>2, <1>7 DEF q

-----------------------------------------------------------------------------
(* What a message is marshalled to. *)

Strings == {"string", "string32"}

LEMMA OneOfTypes ==
    ASSUME NEW type \in Types
    PROVE  \/ type \in Strings \/ type \in Containers
           \/ /\ type \notin Strings /\ type \notin Containers
              /\ Width(type) \in {1, 2, 4, 8}
BY DEF Types, Strings, Containers, Width

LEMMA SomeSized ==
    ASSUME NEW w \in Nat, NEW v \in Seq(Sized(w))
    PROVE  v \in Seq(Seq(Octets))
<1>1. \A i \in 1..Len(v) : v[i] \in Seq(Octets)
  BY SizedSeq
<1> QED BY <1>1

LEMMA PushVector ==
    ASSUME NEW v \in Seq(Sized(2))
    PROVE  push_vector(v) \in Seq(Seq(Octets))
<1>1. Bytes(Len(v), 4) \in Seq(Octets)
  BY BytesType, SizedSeq
<1>2. v \in Seq(Seq(Octets))
  BY SomeSized
<1>3. <<Bytes(Len(v), 4)>> \in Seq(Seq(Octets))
  BY <1>1
<1> QED BY <1>2, <1>3, ConcatProperties DEF push_vector

LEMMA OrderType ==
    ASSUME NEW S \in SUBSET Sized(2), IsFiniteSet(S)
    PROVE  /\ InOrder(S) \in Seq(Sized(2))
           /\ Len(InOrder(S)) = Cardinality(S)
           /\ \A i \in 1..Len(InOrder(S)) : InOrder(S)[i] \in S
<1> DEFINE q == InOrder(S)
<1>1. q \in [1..Cardinality(S) -> S] /\ Cardinality(S) \in Nat
  BY InOrderFacts
<1> HIDE DEF q
<1>2. q \in Seq(Sized(2)) /\ Len(q) = Cardinality(S)
  BY <1>1
<1>3. \A i \in 1..Len(q) : q[i] \in S
  BY <1>1, <1>2
<1> QED BY <1>2, <1>3 DEF q

(* The keys and values of a map as they are pushed, in pairs. *)
PairsOf(c, keys) == [i \in DOMAIN keys |-> <<keys[i], c[keys[i]]>>]

LEMMA PairsType ==
    ASSUME NEW c, HasType("map", c), NEW keys, keys = InOrder(DOMAIN c)
    PROVE  /\ keys \in Seq(Sized(2)) /\ PairsOf(c, keys) \in Seq(Seq(Seq(Octets)))
           /\ Len(PairsOf(c, keys)) = Len(keys)
           /\ \A i \in 1..Len(keys) :
                 /\ keys[i] \in DOMAIN c /\ c[keys[i]] \in Sized(1)
                 /\ PairsOf(c, keys)[i] = <<keys[i], c[keys[i]]>>
<1>1. /\ DOMAIN c \in SUBSET Sized(2) /\ IsFiniteSet(DOMAIN c)
      /\ c \in [DOMAIN c -> Sized(1)]
  BY DEF HasType
<1>2. keys \in Seq(Sized(2)) /\ \A i \in 1..Len(keys) : keys[i] \in DOMAIN c
  BY <1>1, OrderType
<1>3. \A i \in 1..Len(keys) : c[keys[i]] \in Sized(1)
  BY <1>1, <1>2
<1>4. \A i \in 1..Len(keys) : <<keys[i], c[keys[i]]>> \in Seq(Seq(Octets))
  <2> SUFFICES ASSUME NEW i \in 1..Len(keys)
               PROVE  <<keys[i], c[keys[i]]>> \in Seq(Seq(Octets))
    OBVIOUS
  <2>1. keys[i] \in Sized(2) /\ c[keys[i]] \in Sized(1)
    BY <1>2, <1>3
  <2>2. keys[i] \in Seq(Octets) /\ c[keys[i]] \in Seq(Octets)
    BY <2>1, SizedSeq
  <2> QED  BY <2>2
<1>5. DOMAIN keys = 1..Len(keys) /\ Len(keys) \in Nat
  BY <1>2
<1>6. PairsOf(c, keys) \in [1..Len(keys) -> Seq(Seq(Octets))]
  BY <1>4, <1>5 DEF PairsOf
<1>7. /\ PairsOf(c, keys) \in Seq(Seq(Seq(Octets)))
      /\ Len(PairsOf(c, keys)) = Len(keys)
  <2> DEFINE pairs == PairsOf(c, keys)
  <2>1. pairs \in [1..Len(keys) -> Seq(Seq(Octets))]
    BY <1>6
  <2> HIDE DEF pairs
  <2>2. pairs \in Seq(Seq(Seq(Octets))) /\ Len(pairs) = Len(keys)
    BY <1>5, <2>1
  <2> QED  BY <2>2 DEF pairs
<1>8. \A i \in 1..Len(keys) : PairsOf(c, keys)[i] = <<keys[i], c[keys[i]]>>
  BY <1>5 DEF PairsOf
<1> QED BY <1>2, <1>3, <1>7, <1>8

LEMMA PushType ==
    ASSUME NEW type \in Types, NEW val, HasType(type, val)
    PROVE  PushField(type, val) \in Seq(Seq(Octets))
<1>1. CASE type \in Strings
  <2>1. val \in Seq(Octets)
    BY <1>1 DEF HasType, Strings
  <2>2. Bytes(Len(val), 2) \in Seq(Octets) /\ Bytes(Len(val), 4) \in Seq(Octets)
    BY <2>1, BytesType, SizedSeq
  <2>3. /\ push_varstr(val, 2) \in Seq(Seq(Octets))
        /\ push_varstr(val, 4) \in Seq(Seq(Octets))
    BY <2>1, <2>2 DEF push_varstr
  <2> QED  BY <1>1, <2>3 DEF PushField, Strings
<1>2. CASE type = "vector"
  <2>1. val \in Seq(Sized(2))
    BY <1>2 DEF HasType
  <2> QED  BY <1>2, <2>1, PushVector DEF PushField
<1>3. CASE type = "set"
  <2>1. val \in SUBSET Sized(2) /\ IsFiniteSet(val)
    BY <1>3 DEF HasType
  <2>2. push_set(val) \in Seq(Seq(Octets))
    BY <2>1, OrderType, PushVector DEF push_set
  <2> QED  BY <1>3, <2>2 DEF PushField
<1>4. CASE type = "map"
  <2> DEFINE keys == InOrder(DOMAIN val)
  <2>1. keys \in Seq(Sized(2)) /\ PairsOf(val, keys) \in Seq(Seq(Seq(Octets)))
    BY <1>4, PairsType
  <2>2. FlattenSeq(PairsOf(val, keys)) \in Seq(Seq(Octets))
    BY <2>1, FlattenType
  <2>3. Bytes(Len(keys), 4) \in Seq(Octets)
    BY <2>1, BytesType, SizedSeq
  <2>4. <<Bytes(Len(keys), 4)>> \in Seq(Seq(Octets))
    BY <2>3
  <2>5. push_map(val) = <<Bytes(Len(keys), 4)>> \o FlattenSeq(PairsOf(val, keys))
    BY DEF push_map, PairsOf
  <2> QED  BY <1>4, <2>2, <2>4, <2>5, ConcatProperties DEF PushField
<1>5. CASE type \notin Strings /\ type \notin Containers
  <2>1. val \in Sized(Width(type)) /\ Width(type) \in Nat
    BY <1>5, OneOfTypes DEF HasType, Strings, Containers
  <2>2. val \in Seq(Octets)
    BY <2>1, SizedSeq
  <2> QED  BY <1>5, <2>2 DEF PushField, Strings, Containers
<1> QED BY <1>1, <1>2, <1>3, <1>4, <1>5 DEF Containers

(* What each field of a message is pushed as. *)
PushesOf(m) == [i \in DOMAIN m.vals |-> PushField(Fields[m.cmd][i], m.vals[i])]

LEMMA MessageFacts ==
    ASSUME NEW m \in Messages
    PROVE  /\ m.cmd \in Cmds /\ Fields[m.cmd] \in Seq(Types)
           /\ DOMAIN m.vals = 1..Len(Fields[m.cmd])
           /\ \A i \in 1..Len(Fields[m.cmd]) :
                 /\ Fields[m.cmd][i] \in Types
                 /\ HasType(Fields[m.cmd][i], m.vals[i])
           /\ PushesOf(m) \in Seq(Seq(Seq(Octets)))
           /\ Len(PushesOf(m)) = Len(Fields[m.cmd])
           /\ marshal(m) = FlattenSeq(PushesOf(m))
<1> DEFINE types == Fields[m.cmd]
<1>1. /\ m.cmd \in Cmds /\ types \in Seq(Types)
      /\ m.vals = [i \in DOMAIN types |-> m.vals[i]]
      /\ \A i \in DOMAIN m.vals : HasType(types[i], m.vals[i])
  BY PacketAssumption
<1> HIDE DEF types
<1>2. DOMAIN m.vals = 1..Len(types) /\ Len(types) \in Nat
  BY <1>1
<1>3. \A i \in 1..Len(types) : types[i] \in Types /\ HasType(types[i], m.vals[i])
  BY <1>1, <1>2
<1> DEFINE ps == PushesOf(m)
<1>4. ps = [i \in 1..Len(types) |-> PushField(types[i], m.vals[i])]
  BY <1>2 DEF PushesOf, types
<1>5. \A i \in 1..Len(types) : PushField(types[i], m.vals[i]) \in Seq(Seq(Octets))
  BY <1>3, PushType
<1>6. ps \in [1..Len(types) -> Seq(Seq(Octets))]
  BY <1>4, <1>5
<1> HIDE DEF ps
<1>7. ps \in Seq(Seq(Seq(Octets))) /\ Len(ps) = Len(types)
  BY <1>2, <1>6
<1>8. marshal(m) = FlattenSeq(ps)
  BY DEF marshal, ps, PushesOf
<1> QED BY <1>1, <1>2, <1>3, <1>7, <1>8 DEF ps, types

LEMMA MarshalType ==
    ASSUME NEW m \in Messages
    PROVE  /\ marshal(m) \in Seq(Seq(Octets))
           /\ FlattenSeq(marshal(m)) \in Seq(Octets)
           /\ \A k \in DOMAIN marshal(m) :
                 FlattenSeq(SubSeq(marshal(m), 1, k - 1)) \in Seq(Octets)
<1> DEFINE ps == marshal(m)
<1>1. ps \in Seq(Seq(Octets))
  BY MessageFacts, FlattenType
<1> HIDE DEF ps
<1>2. ASSUME NEW k \in DOMAIN ps PROVE SubSeq(ps, 1, k - 1) \in Seq(Seq(Octets))
  <2>1. k - 1 \in Int /\ \A i \in 1..(k - 1) : ps[i] \in Seq(Octets)
    BY <1>1
  <2> QED  BY <2>1, SubSeqProperties
<1>3. \A k \in DOMAIN ps : FlattenSeq(SubSeq(ps, 1, k - 1)) \in Seq(Octets)
  BY <1>2, FlattenType
<1> QED BY <1>1, <1>3, FlattenType DEF ps

-----------------------------------------------------------------------------
(* A reader stays within the bytes it was given. *)

(* The readers of n bytes that have got the values g. *)
Readers(n, g) ==
    {r \in [at : Nat, left : Nat, last : Seq(Octets), got : {g}, ok : BOOLEAN] :
        r.at + r.left <= n}

Stays(r, n) == r \in Readers(n, r.got)

LEMMA ByteType ==
    ASSUME memory \in Seq(Octets)
    PROVE  \A i : Byte(i) \in Octets
BY OctetIs DEF Byte

LEMMA BytesRead ==
    ASSUME memory \in Seq(Octets), NEW at, NEW w \in Nat
    PROVE  [i \in 1..w |-> Byte(at + i)] \in Sized(w)
BY ByteType DEF Sized

LEMMA PassedFacts ==
    ASSUME NEW n \in Nat, NEW r, Stays(r, n), NEW w \in Nat
    PROVE  Passed(r, w) = [at |-> r.at + w, left |-> r.left,
                           last |-> [i \in 1..w |-> Byte(r.at + i)],
                           got |-> r.got, ok |-> r.ok]
<1> DEFINE at == r.at + w
           last == [i \in 1..w |-> Byte(r.at + i)]
           p == Passed(r, w)
<1>1. p = [[r EXCEPT !.at = at] EXCEPT !.last = last]
  BY DEF Passed
<1>2. r = [at |-> r.at, left |-> r.left, last |-> r.last, got |-> r.got, ok |-> r.ok]
  BY DEF Stays, Readers
<1> HIDE DEF at, last, p
<1>3. p = [at |-> at, left |-> r.left, last |-> last, got |-> r.got, ok |-> r.ok]
  BY <1>1, <1>2
<1> QED BY <1>3 DEF at, last, p

(* What pop does, and that it keeps a reader inside. *)
LEMMA PopFacts ==
    ASSUME memory \in Seq(Octets), NEW n \in Nat, NEW g, NEW r \in Readers(n, g), NEW w \in Nat
    PROVE  /\ pop(r, w) \in Readers(n, g)
           /\ IF r.ok /\ w <= r.left
              THEN pop(r, w) = [at |-> r.at + w, left |-> r.left - w,
                                last |-> [i \in 1..w |-> Byte(r.at + i)],
                                got |-> g, ok |-> TRUE]
              ELSE ~ pop(r, w).ok
<1>1. /\ r.at \in Nat /\ r.left \in Nat /\ r.last \in Seq(Octets) /\ r.ok \in BOOLEAN
      /\ r.got = g /\ r.at + r.left <= n
      /\ r = [at |-> r.at, left |-> r.left, last |-> r.last, got |-> g, ok |-> r.ok]
  BY DEF Readers
<1> DEFINE last == [i \in 1..w |-> Byte(r.at + i)]
<1>2. last \in Seq(Octets)
  <2>1. last \in Sized(w)
    BY <1>1, BytesRead
  <2> HIDE DEF last
  <2> QED  BY ONLY <2>1, SizedSeq
<1> HIDE DEF last
<1>3. CASE ~ r.ok
  BY <1>3 DEF pop
<1>4. CASE r.ok /\ ~ (w <= r.left)
  <2>1. pop(r, w) = [r EXCEPT !.ok = FALSE]
    BY <1>1, <1>4 DEF pop, Throw
  <2>2. pop(r, w) = [at |-> r.at, left |-> r.left, last |-> r.last, got |-> g,
                     ok |-> FALSE]
    BY <1>1, <2>1
  <2>3. pop(r, w) \in Readers(n, g)
    BY <1>1, <2>2 DEF Readers
  <2>4. ~ pop(r, w).ok
    BY <2>2
  <2> QED  BY <1>4, <2>3, <2>4
<1>5. CASE r.ok /\ w <= r.left
  <2>1. pop(r, w) = [Passed(r, w) EXCEPT !.left = @ - w]
    BY <1>1, <1>5 DEF pop
  <2> DEFINE at == r.at + w
             p == Passed(r, w)
  <2>2. p = [at |-> at, left |-> r.left, last |-> last, got |-> g, ok |-> TRUE]
    <3>1. p = [[r EXCEPT !.at = at] EXCEPT !.last = last]
      BY DEF Passed, last
    <3> HIDE DEF at, p
    <3> QED  BY <1>1, <1>5, <3>1
  <2>3. pop(r, w) = [at |-> at, left |-> r.left - w, last |-> last,
                     got |-> g, ok |-> TRUE]
    <3> DEFINE left == p.left - w
    <3>1. pop(r, w) = [p EXCEPT !.left = left]
      BY <2>1
    <3>2. left = r.left - w
      BY <2>2
    <3> HIDE DEF p, left, at
    <3> QED  BY <2>2, <3>1, <3>2
  <2>4. r.at + w \in Nat /\ r.left - w \in Nat /\ (r.at + w) + (r.left - w) <= n
    BY <1>1, <1>5
  <2>5. pop(r, w) \in Readers(n, g)
    BY <1>2, <2>3, <2>4 DEF Readers
  <2> QED  BY <1>5, <2>3, <2>5 DEF last
<1> QED BY <1>3, <1>4, <1>5

LEMMA GotStays ==
    ASSUME NEW n \in Nat, NEW r, Stays(r, n), NEW val
    PROVE  Stays(Got(r, val), n)
<1>1. CASE r.ok
  <2>1. r = [at |-> r.at, left |-> r.left, last |-> r.last, got |-> r.got, ok |-> r.ok]
    BY DEF Stays, Readers
  <2> DEFINE more == Append(r.got, val)
  <2>2. Got(r, val) = [r EXCEPT !.got = more]
    BY <1>1 DEF Got
  <2> HIDE DEF more
  <2>3. Got(r, val) = [at |-> r.at, left |-> r.left, last |-> r.last, got |-> more,
                       ok |-> r.ok]
    BY <2>1, <2>2
  <2> QED  BY <2>3 DEF Stays, Readers
<1>2. CASE ~ r.ok
  BY <1>2 DEF Got
<1> QED BY <1>1, <1>2

LEMMA GotFacts ==
    ASSUME NEW n \in Nat, NEW r, Stays(r, n), NEW val
    PROVE  /\ r.ok => /\ Got(r, val).ok /\ Got(r, val).at = r.at
                      /\ Got(r, val).left = r.left
                      /\ Got(r, val).got = Append(r.got, val)
           /\ ~ r.ok => ~ Got(r, val).ok
<1> DEFINE more == Append(r.got, val)
<1>1. r = [at |-> r.at, left |-> r.left, last |-> r.last, got |-> r.got, ok |-> r.ok]
  BY DEF Stays, Readers
<1>2. CASE r.ok
  <2>1. Got(r, val) = [r EXCEPT !.got = more]
    BY <1>2 DEF Got
  <2> HIDE DEF more
  <2>2. Got(r, val) = [at |-> r.at, left |-> r.left, last |-> r.last, got |-> more,
                       ok |-> r.ok]
    BY <1>1, <2>1
  <2> QED  BY <1>2, <2>2 DEF more
<1>3. CASE ~ r.ok
  BY <1>3 DEF Got
<1> QED BY <1>2, <1>3

LEMMA PopStays ==
    ASSUME memory \in Seq(Octets), NEW n \in Nat, NEW r, Stays(r, n), NEW w \in Nat
    PROVE  Stays(pop(r, w), n) /\ pop(r, w).got = r.got
<1>1. pop(r, w) \in Readers(n, r.got)
  BY PopFacts DEF Stays
<1> QED BY <1>1 DEF Stays, Readers

(* A pop of several numbers is the fold of pop. *)
LEMMA PopsFold ==
    ASSUME NEW r, NEW widths
    PROVE  FoldLeft(pop, r, widths) = Pops!LeftFold(r, widths)
BY DEF FoldLeft, MapThenFoldSet, Max, Pops!LeftFold, Pops!FoldLeft,
       Pops!MapThenFoldSet, Pops!Max

LEMMA PopsStay ==
    ASSUME memory \in Seq(Octets), NEW n \in Nat, NEW g, NEW r \in Readers(n, g),
           NEW widths \in Seq(Nat)
    PROVE  FoldLeft(pop, r, widths) \in Readers(n, g)
<1>1. DOMAIN widths = 1..Len(widths) /\ Len(widths) \in Nat
  OBVIOUS
<1>2. \A x \in Readers(n, g), k \in 1..Len(widths) :
         pop(x, widths[k]) \in Readers(n, g)
  <2> SUFFICES ASSUME NEW x \in Readers(n, g), NEW k \in 1..Len(widths)
               PROVE  pop(x, widths[k]) \in Readers(n, g)
    OBVIOUS
  <2>1. widths[k] \in Nat
    OBVIOUS
  <2> QED  BY <2>1, PopFacts
<1>3. Pops!LeftFold(r, widths) \in Readers(n, g)
  BY <1>1, <1>2, Pops!FoldLeftIn
<1> QED BY <1>3, PopsFold

LEMMA ElementsStay ==
    ASSUME memory \in Seq(Octets), NEW n \in Nat, NEW g, NEW r \in Readers(n, g),
           NEW count \in Nat, NEW type \in Containers
    PROVE  pop_elements(r, count, type) \in Readers(n, g)
<1> DEFINE most == IF count <= r.left THEN count ELSE r.left + 1
           parts == [i \in 1..most |-> Parts(type)]
<1>1. most \in Nat
  BY DEF Readers
<1> HIDE DEF most
<1>2. DOMAIN parts = 1..most /\ \A i \in 1..most : parts[i] = Parts(type)
  OBVIOUS
<1>3. Parts(type) \in Seq(Nat)
  BY DEF Parts
<1> HIDE DEF parts
<1>4. \A x \in Readers(n, g), k \in 1..most :
         pop_element(x, parts[k]) \in Readers(n, g)
  BY <1>2, <1>3, PopsStay DEF pop_element
<1>5. Takes!LeftFold(r, parts) \in Readers(n, g)
  BY <1>1, <1>2, <1>4, Takes!FoldLeftIn
<1>6. pop_elements(r, count, type) = FoldLeft(pop_element, r, parts)
  BY DEF pop_elements, most, parts
<1>7. FoldLeft(pop_element, r, parts) = Takes!LeftFold(r, parts)
  BY DEF FoldLeft, MapThenFoldSet, Max, Takes!LeftFold, Takes!FoldLeft,
         Takes!MapThenFoldSet, Takes!Max
<1> QED BY <1>5, <1>6, <1>7

LEMMA StaysType ==
    ASSUME NEW n \in Nat, NEW r, Stays(r, n)
    PROVE  /\ r.at \in Nat /\ r.left \in Nat /\ r.last \in Seq(Octets)
           /\ r.ok \in BOOLEAN /\ r.at + r.left <= n
BY DEF Stays, Readers

LEMMA VarstrStays ==
    ASSUME memory \in Seq(Octets), NEW n \in Nat, NEW r, Stays(r, n), NEW w \in Nat
    PROVE  Stays(pop_varstr(r, w), n)
<1> DEFINE l == pop(r, w)
           s == IF l.ok THEN pop(l, Number(l.last)) ELSE l
<1>1. Stays(l, n)
  BY PopStays
<1> HIDE DEF l
<1>2. Number(l.last) \in Nat
  BY <1>1, StaysType, NumberType
<1>3. Stays(s, n)
  BY <1>1, <1>2, PopStays
<1>4. pop_varstr(r, w) = Got(s, s.last)
  BY DEF pop_varstr, s, l
<1> HIDE DEF s
<1> QED BY <1>3, <1>4, GotStays

LEMMA ContainerStays ==
    ASSUME memory \in Seq(Octets), NEW n \in Nat, NEW r, Stays(r, n),
           NEW type \in Containers, NEW was
    PROVE  Stays(pop_container(r, type, was), n)
<1> DEFINE l == pop(r, 4)
           c == IF l.ok THEN pop_elements(l, Number(l.last), type) ELSE l
<1>1. Stays(l, n)
  BY PopStays
<1> HIDE DEF l
<1>2. Number(l.last) \in Nat
  BY <1>1, StaysType, NumberType
<1>3. pop_elements(l, Number(l.last), type) \in Readers(n, l.got)
  BY <1>1, <1>2, ElementsStay DEF Stays
<1>4. Stays(c, n)
  BY <1>1, <1>3 DEF Stays, Readers
<1>5. pop_container(r, type, was) = IF c.ok THEN Got(c, Fill(type, was, l, c)) ELSE c
  BY DEF pop_container, c, l
<1> HIDE DEF c
<1> QED BY <1>4, <1>5, GotStays

(* A double is inside, but the reader does not count its bytes as read.     *)
LEMMA DoubleStays ==
    ASSUME memory \in Seq(Octets), NEW n \in Nat, NEW r, Stays(r, n)
    PROVE  Stays(pop_double(r), n + 8) /\ pop_double(r).at <= n
<1> DEFINE d == pop_double(r)
           last == [i \in 1..8 |-> Byte(r.at + i)]
<1>1. /\ r.at \in Nat /\ r.left \in Nat /\ r.last \in Seq(Octets) /\ r.ok \in BOOLEAN
      /\ r.at + r.left <= n
      /\ r = [at |-> r.at, left |-> r.left, last |-> r.last, got |-> r.got, ok |-> r.ok]
  BY DEF Stays, Readers
<1>2. last \in Seq(Octets)
  <2>1. last \in Sized(8) /\ 8 \in Nat
    BY BytesRead
  <2> HIDE DEF last
  <2> QED  BY <2>1, SizedSeq
<1>3. ASSUME NEW x, x.at = r.at, x.left = r.left, x.last = r.last, x.got = r.got,
             x = [at |-> x.at, left |-> x.left, last |-> x.last, got |-> x.got,
                  ok |-> x.ok], x.ok \in BOOLEAN
      PROVE  Stays(x, n + 8) /\ x.at <= n
  BY <1>1, <1>3 DEF Stays, Readers
<1>4. CASE ~ r.ok
  <2>1. d = r
    BY <1>4 DEF pop_double
  <2> QED  BY <1>1, <1>3, <2>1
<1>5. CASE r.ok /\ r.left < 8
  <2>1. d = [r EXCEPT !.ok = FALSE]
    BY <1>5 DEF pop_double, Throw, Width
  <2>2. d = [at |-> r.at, left |-> r.left, last |-> r.last, got |-> r.got, ok |-> FALSE]
    BY <1>1, <2>1
  <2>3. /\ d.at = r.at /\ d.left = r.left /\ d.last = r.last /\ d.got = r.got
        /\ d.ok = FALSE
    BY <2>2
  <2> HIDE DEF d
  <2> QED  BY <1>3, <2>2, <2>3 DEF d
<1>6. CASE r.ok /\ ~ (r.left < 8)
  <2>1. d = Passed(r, 8)
    BY <1>6 DEF pop_double, Width
  <2>2. Passed(r, 8) = [at |-> r.at + 8, left |-> r.left, last |-> last,
                        got |-> r.got, ok |-> r.ok]
    <3>1. 8 \in Nat
      OBVIOUS
    <3> QED  BY <3>1, PassedFacts
  <2> HIDE DEF d, last
  <2>3. /\ d.at \in Nat /\ d.at <= n /\ d.at + r.left <= n + 8
        /\ d = [at |-> d.at, left |-> r.left, last |-> last, got |-> d.got, ok |-> r.ok]
    BY <1>1, <1>6, <2>1, <2>2
  <2>4. Stays(d, n + 8)
    BY <1>1, <1>2, <2>3 DEF Stays, Readers
  <2> QED  BY <2>3, <2>4 DEF d
<1> QED BY <1>4, <1>5, <1>6

(* A field that is no double leaves the reader inside with what is left to  *)
(* read; a double is inside too, but leaves it eight bytes too many.        *)
LEMMA FieldStays ==
    ASSUME memory \in Seq(Octets), NEW n \in Nat, NEW r, Stays(r, n),
           NEW field, field.type \in Types
    PROVE  /\ field.type # "double" => Stays(PopField(r, field), n)
           /\ field.type = "double" => Stays(PopField(r, field), n + 8)
           /\ PopField(r, field).at <= n
<1> DEFINE type == field.type
           x == PopField(r, field)
<1>0. ASSUME Stays(x, n), type # "double"
      PROVE  /\ type # "double" => Stays(x, n)
             /\ type = "double" => Stays(x, n + 8)
             /\ x.at <= n
  <2> HIDE DEF x
  <2>1. x.at \in Nat /\ x.left \in Nat /\ x.at + x.left <= n
    BY <1>0, StaysType
  <2> QED  BY <1>0, <2>1
<1>1. CASE type \in Strings
  <2>1. type = "string" \/ type = "string32"
    BY <1>1 DEF Strings
  <2>2. type = "string" => x = pop_varstr(r, 2)
    BY DEF PopField, Containers
  <2>3. type = "string32" => x = pop_varstr(r, 4)
    BY DEF PopField, Containers
  <2>4. Stays(x, n)
    <3> HIDE DEF x
    <3> QED  BY <2>1, <2>2, <2>3, VarstrStays
  <2> QED  BY <1>0, <2>1, <2>4
<1>2. CASE type \in Containers
  <2>1. x = pop_container(r, type, field.was)
    BY <1>2 DEF PopField, Containers
  <2>2. Stays(x, n)
    <3> HIDE DEF x
    <3> QED  BY <1>2, <2>1, ContainerStays
  <2> QED  BY <1>0, <1>2, <2>2 DEF Containers
<1>3. CASE type = "double"
  <2> DEFINE d == pop_double(r)
  <2>1. x = Got(d, d.last)
    BY <1>3 DEF PopField, Containers
  <2>2. Stays(d, n + 8) /\ d.at <= n /\ n + 8 \in Nat
    BY DoubleStays
  <2> HIDE DEF d, x
  <2>3. Stays(x, n + 8)
    BY <2>1, <2>2, GotStays
  <2>4. x.at = d.at
    <3>1. d.ok => x.at = d.at
      BY <2>1, <2>2, GotFacts
    <3>2. ~ d.ok => x = d
      BY <2>1 DEF Got
    <3> QED  BY <3>1, <3>2
  <2> QED  BY <1>3, <2>2, <2>3, <2>4 DEF x
<1>4. CASE type = "bool"
  <2> DEFINE u == pop(r, 1)
  <2>1. x = Got(u, IF u.last = <<0>> THEN <<0>> ELSE <<1>>)
    BY <1>4 DEF PopField, pop_bool, Containers
  <2>2. Stays(u, n)
    BY PopStays
  <2>3. Stays(x, n)
    BY <2>1, <2>2, GotStays
  <2> QED  BY <1>0, <1>4, <2>3
<1>5. CASE /\ type \notin Strings /\ type \notin Containers
           /\ type # "double" /\ type # "bool"
  <2> DEFINE u == pop(r, Width(type))
  <2>1. x = Got(u, u.last)
    BY <1>5 DEF PopField, Strings
  <2>2. Width(type) \in Nat
    BY <1>5, OneOfTypes
  <2>3. Stays(u, n)
    BY <2>2, PopStays
  <2>4. Stays(x, n)
    BY <2>1, <2>3, GotStays
  <2> QED  BY <1>0, <1>5, <2>4
<1> QED BY <1>1, <1>2, <1>3, <1>4, <1>5

LEMMA ReaderStays ==
    ASSUME NEW n \in 0..Max64K
    PROVE  Reader(n) \in Readers(n, <<>>)
<1>1. uint16(n) \in Nat /\ uint16(n) <= n
  BY PacketAssumption DEF uint16, HeaderSize
<1>2. <<>> \in Seq(Octets)
  BY EmptySeq
<1> QED BY <1>1, <1>2 DEF Reader, Readers

LEMMA FieldsFacts ==
    ASSUME NEW msg, msg.cmd \in Cmds
    PROVE  /\ Fields[msg.cmd] \in Seq(Types) /\ Len(Fields[msg.cmd]) \in Nat
           /\ DOMAIN FieldsOf(msg) = 1..Len(Fields[msg.cmd])
           /\ \A i \in 1..Len(Fields[msg.cmd]) :
                 /\ FieldsOf(msg)[i].type = Fields[msg.cmd][i]
                 /\ FieldsOf(msg)[i].was = msg.vals[i]
                 /\ FieldsOf(msg)[i].type \in Types
<1> DEFINE types == Fields[msg.cmd]
<1>1. types \in Seq(Types)
  BY PacketAssumption
<1>2. FieldsOf(msg) = [i \in DOMAIN types |-> [type |-> types[i], was |-> msg.vals[i]]]
  BY DEF FieldsOf
<1> HIDE DEF types
<1>3. /\ Len(types) \in Nat /\ DOMAIN types = 1..Len(types)
      /\ \A i \in 1..Len(types) : types[i] \in Types
  BY <1>1
<1>4. /\ DOMAIN FieldsOf(msg) = 1..Len(types)
      /\ \A i \in 1..Len(types) :
            FieldsOf(msg)[i] = [type |-> types[i], was |-> msg.vals[i]]
  BY <1>2, <1>3
<1>5. ASSUME NEW i \in 1..Len(types)
      PROVE  /\ FieldsOf(msg)[i].type = types[i]
             /\ FieldsOf(msg)[i].was = msg.vals[i]
             /\ FieldsOf(msg)[i].type \in Types
  <2>1. FieldsOf(msg)[i] = [type |-> types[i], was |-> msg.vals[i]]
    BY <1>4
  <2>2. types[i] \in Types /\ i \in DOMAIN types
    BY <1>3
  <2> QED  BY <2>1, <2>2
<1> QED BY <1>1, <1>3, <1>4, <1>5 DEF types

LEMMA UnmarshalFold ==
    ASSUME NEW r, NEW msg
    PROVE  unmarshal(r, msg) = Reads!LeftFold(r, FieldsOf(msg))
BY DEF unmarshal, FoldLeft, MapThenFoldSet, Max, Reads!LeftFold, Reads!FoldLeft,
       Reads!MapThenFoldSet, Reads!Max

(* The doubles among the first fields.                                      *)
DoublesTo(types, k) == {i \in 1..k : types[i] = "double"}

LEMMA DoublesCount ==
    ASSUME NEW types, NEW k \in Nat
    PROVE  /\ Cardinality(DoublesTo(types, k)) \in Nat
           /\ Cardinality(DoublesTo(types, k + 1))
                 = Cardinality(DoublesTo(types, k))
                      + IF types[k + 1] = "double" THEN 1 ELSE 0
<1> DEFINE E == DoublesTo(types, k)
           F == DoublesTo(types, k + 1)
<1>1. IsFiniteSet(E)
  <2>1. IsFiniteSet(1..k) /\ E \subseteq 1..k
    BY FS_Interval DEF DoublesTo
  <2> HIDE DEF E
  <2> QED  BY <2>1, FS_Subset
<1>2. k + 1 \notin E /\ F = IF types[k + 1] = "double" THEN E \cup {k + 1} ELSE E
  BY DEF DoublesTo
<1> HIDE DEF E, F
<1>3. Cardinality(E) \in Nat
  BY <1>1, FS_CardinalityType
<1>4. Cardinality(E \cup {k + 1}) = Cardinality(E) + 1
  BY <1>1, <1>2, FS_AddElement
<1>5. Cardinality(F) = Cardinality(E) + IF types[k + 1] = "double" THEN 1 ELSE 0
  BY <1>2, <1>3, <1>4
<1> QED BY <1>3, <1>5 DEF E, F

(* Behind each double the reader may be eight bytes further.                *)
LEMMA UnmarshalStays ==
    ASSUME memory \in Seq(Octets), NEW n \in Nat, NEW r, Stays(r, n), NEW msg, msg.cmd \in Cmds
    PROVE  /\ unmarshal(r, msg).at \in Nat
           /\ unmarshal(r, msg).at <= n + 8 * Cardinality(EarlyDoubles(msg.cmd))
<1> DEFINE types == Fields[msg.cmd]
           m == Len(types)
           fields == FieldsOf(msg)
           D(k) == Cardinality(DoublesTo(types, k))
<1>1. m \in Nat /\ DOMAIN fields = 1..m /\ DOMAIN types = 1..m
  <2>1. types \in Seq(Types) /\ m \in Nat /\ DOMAIN fields = 1..m
    BY FieldsFacts
  <2> HIDE DEF types, fields
  <2> QED  BY <2>1
<1>2. \A i \in 1..m : fields[i].type \in Types /\ fields[i].type = types[i]
  BY FieldsFacts
<1>3. EarlyDoubles(msg.cmd) = DoublesTo(types, m - 1)
  BY <1>1 DEF EarlyDoubles, DoublesTo
<1> HIDE DEF fields, m, types
<1>4. PICK h : Reads!LeftRun(h, r, fields, m) /\ Reads!LeftFold(r, fields) = h[m]
  BY <1>1, Reads!FoldLeftRun
<1>5. h[0] = r /\ \A k \in 1..m : h[k] = PopField(h[k - 1], fields[k])
  BY <1>4 DEF Reads!LeftRun
<1>6. \A k \in Nat : /\ D(k) \in Nat
                      /\ D(k + 1) = D(k) + IF types[k + 1] = "double" THEN 1 ELSE 0
  BY DoublesCount
<1>7. D(0) = 0
  BY FS_EmptySet DEF DoublesTo
<1> HIDE DEF D
<1> DEFINE S == {k \in Nat : k <= m => Stays(h[k], n + 8 * D(k))}
<1>8. 0 \in S
  <2>1. n + 8 * D(0) = n
    BY <1>7
  <2> QED  BY <1>5, <2>1
<1>9. ASSUME NEW k \in Nat, k + 1 <= m, Stays(h[k], n + 8 * D(k))
      PROVE  Stays(h[k + 1], n + 8 * D(k + 1)) /\ h[k + 1].at <= n + 8 * D(k)
  <2> DEFINE l == n + 8 * D(k)
  <2>0. D(k) \in Nat
    BY <1>6
  <2>1. k + 1 \in 1..m /\ k + 1 - 1 = k /\ l \in Nat
    BY <1>1, <1>9, <2>0
  <2>2. h[k + 1] = PopField(h[k], fields[k + 1])
    BY <1>5, <2>1
  <2>3. fields[k + 1].type \in Types /\ fields[k + 1].type = types[k + 1]
    BY <1>2, <2>1
  <2>4. Stays(h[k], l)
    BY <1>9
  <2>5. n + 8 * D(k + 1) = IF types[k + 1] = "double" THEN l + 8 ELSE l
    <3>1. D(k + 1) = D(k) + IF types[k + 1] = "double" THEN 1 ELSE 0
      BY <1>6
    <3> DEFINE i == D(k)
    <3>2. D(k + 1) = i + IF types[k + 1] = "double" THEN 1 ELSE 0
      BY <3>1
    <3>3. i \in Nat /\ l = n + 8 * i
      BY <2>0
    <3> HIDE DEF i, l
    <3> QED  BY <3>2, <3>3
  <2> HIDE DEF l
  <2>6. /\ types[k + 1] # "double" => Stays(h[k + 1], l)
        /\ types[k + 1] = "double" => Stays(h[k + 1], l + 8)
        /\ h[k + 1].at <= l
    BY <2>1, <2>2, <2>3, <2>4, FieldStays
  <2> QED  BY <2>5, <2>6 DEF l
<1>10. ASSUME NEW k \in Nat, k \in S PROVE k + 1 \in S
  <2>1. CASE k + 1 <= m
    <3>1. k <= m
      BY <1>1, <2>1
    <3> QED  BY <1>9, <1>10, <2>1, <3>1
  <2>2. CASE ~ (k + 1 <= m)
    BY <2>2
  <2> QED  BY <2>1, <2>2
<1>11. \A k \in Nat : k <= m => Stays(h[k], n + 8 * D(k))
  <2>1. \A k \in Nat : k \in S
    <3> HIDE DEF S
    <3> QED  BY <1>8, <1>10, Pops!Induct
  <2> QED  BY <2>1
<1>12. h[m].at \in Nat /\ h[m].at <= n + 8 * D(m - 1)
  <2>1. CASE m = 0
    <3>1. h[m] = r /\ r.at \in Nat /\ r.at <= n
      <4>1. r.at \in Nat /\ r.left \in Nat /\ r.at + r.left <= n
        BY StaysType
      <4> QED  BY <1>5, <2>1, <4>1
    <3>2. D(m - 1) = 0
      BY <2>1, FS_EmptySet DEF D, DoublesTo
    <3> QED  BY <3>1, <3>2
  <2>2. CASE m # 0
    <3> DEFINE k == m - 1
               l == n + 8 * D(m)
    <3>0. D(m) \in Nat
      BY <1>1, <1>6
    <3>1. k \in Nat /\ k + 1 = m /\ k <= m /\ l \in Nat
      BY <1>1, <2>2, <3>0
    <3> HIDE DEF k
    <3>2. h[m].at <= n + 8 * D(k)
      <4>1. Stays(h[k], n + 8 * D(k)) /\ k + 1 <= m
        BY <1>1, <1>11, <3>1
      <4> QED  BY <1>9, <3>1, <4>1
    <3>3. h[m].at \in Nat
      <4>1. Stays(h[m], l) /\ l \in Nat
        <5>1. m <= m
          BY <1>1
        <5> QED  BY <1>1, <1>11, <3>1, <5>1
      <4> HIDE DEF l
      <4> QED  BY <4>1, StaysType
    <3> QED  BY <3>2, <3>3 DEF k
  <2> QED  BY <2>1, <2>2
<1>13. unmarshal(r, msg) = h[m]
  BY <1>4, UnmarshalFold DEF fields
<1> QED BY <1>3, <1>12, <1>13 DEF D

LEMMA HeaderStays ==
    ASSUME memory \in Seq(Octets), NEW n \in 0..Max64K
    PROVE  PopHeader(Reader(n)) \in Readers(n, <<>>)
<1>1. <<2, 2, 4, 2, 2>> \in Seq(Nat) /\ n \in Nat
  BY PacketAssumption
<1>2. Reader(n) \in Readers(n, <<>>)
  BY ReaderStays
<1> QED BY <1>1, <1>2, PopsStay DEF PopHeader

-----------------------------------------------------------------------------
(* The types, and what a receiver cuts the stream by. *)

LEMMA CheckType ==
    ASSUME NEW bytes \in Seq(Octets)
    PROVE  Check(bytes) \in {0, 1}
<1>1. DOMAIN bytes = 1..Len(bytes) /\ Len(bytes) \in Nat
  OBVIOUS
<1>2. \A c \in {0, 1}, k \in 1..Len(bytes) : Added(c, bytes[k]) \in {0, 1}
  <2> SUFFICES ASSUME NEW c \in {0, 1}, NEW k \in 1..Len(bytes)
               PROVE  Added(c, bytes[k]) \in {0, 1}
    OBVIOUS
  <2>1. bytes[k] \in Octets
    OBVIOUS
  <2>2. bytes[k] \in Nat
    BY <2>1, OctetIs
  <2> QED  BY <2>2 DEF Added
<1>3. Sums!LeftFold(0, bytes) \in {0, 1}
  BY <1>1, <1>2, Sums!FoldLeftIn
<1>4. Check(bytes) = Sums!LeftFold(0, bytes)
  BY DEF Check, FoldLeft, MapThenFoldSet, Max, Sums!LeftFold, Sums!FoldLeft,
         Sums!MapThenFoldSet, Sums!Max
<1> QED BY <1>3, <1>4

LEMMA UintType ==
    ASSUME NEW n \in Nat
    PROVE  /\ uint16(n) \in 0..(Max64K - 1)
           /\ n <= MAX_PACKET_SIZE => uint16(n) = n
BY PacketAssumption DEF uint16, HeaderSize, MAX_PACKET_SIZE

(* What serialize leaves: the bytes of one more message, and their header.  *)
LEMMA SerializeFacts ==
    ASSUME TypeOK, NEW m \in Messages, serialize(m)
    PROVE  /\ body' \in Seq(Octets) /\ Fits(body')
           /\ size' \in Nat /\ size' <= Max64K
           /\ head' = Header(uint16(size'), m.cmd, Check(body'))
           /\ m_packetHeader' = head'
           /\ packed' = Append(packed, m)
<1>1. FlattenSeq(marshal(m)) \in Seq(Octets)
  BY MarshalType
<1>2. body' = body \o FlattenSeq(marshal(m)) /\ Fits(body')
  BY DEF serialize
<1>3. body' \in Seq(Octets)
  BY <1>1, <1>2, ConcatProperties DEF TypeOK
<1>4. size' \in Nat /\ size' <= Max64K
  BY <1>2, <1>3 DEF size, Fits, HeaderSize
<1>5. /\ head' = Header(uint16(size'), m.cmd, Check(body')) /\ m_packetHeader' = head'
      /\ packed' = Append(packed, m)
  BY DEF serialize, WriteHeader
<1> QED BY <1>2, <1>3, <1>4, <1>5

LEMMA EmptyFits ==
    <<>> \in Seq(Octets) /\ <<>> \in Seq(Messages) /\ Fits(<<>>)
<1>1. HeaderSize + 0 <= Max64K
  BY PacketAssumption DEF HeaderSize
<1>2. Len(<<>>) = 0
  OBVIOUS
<1>3. Fits(<<>>)
  BY <1>1, <1>2 DEF Fits
<1> QED BY <1>3, EmptySeq

LEMMA SizeType ==
    ASSUME TypeOK
    PROVE  size \in HeaderSize..Max64K /\ HeaderSize \in Nat /\ given \in 0..Max64K \cup {-1}
<1>1. Len(body) \in Nat /\ HeaderSize + Len(body) <= Max64K /\ given \in -1..size
  BY DEF TypeOK, Fits
<1>2. HeaderSize \in Nat /\ size = HeaderSize + Len(body)
  BY DEF size, HeaderSize
<1> HIDE DEF size
<1> QED BY <1>1, <1>2, PacketAssumption

LEMMA TypeInit == Init => TypeOK
<1> SUFFICES ASSUME Init PROVE TypeOK
  OBVIOUS
<1>1. ClearHeader \in Headers /\ ZeroHeader \in Headers
  BY PacketAssumption DEF ClearHeader, ZeroHeader, Header, Headers, HeaderSize
<1>2. <<>> \in Seq(Octets) /\ <<>> \in Seq(Messages) /\ Fits(<<>>)
  BY EmptyFits
<1>3. 0 \in 0..MaxThrows
  BY PacketAssumption
<1>4. -1 \in -1..size
  <2>1. size = HeaderSize + 0
    BY DEF Init, size
  <2> QED  BY <2>1 DEF HeaderSize
<1> QED BY <1>1, <1>2, <1>3, <1>4 DEF Init, TypeOK, NotDecoded, NoObject, NoBytes

(* What the steps of the Encoder do to the Decoder's variables.             *)
LEMMA RewrittenType ==
    ASSUME Rewritten, body' \in Seq(Octets)
    PROVE  /\ given' \in -1..size' /\ memory' \in Seq(Octets)
           /\ decoded'.at \in Nat \cup {-1}
<1>1. size' = HeaderSize + Len(body') /\ Len(body') \in Nat /\ HeaderSize = 12
  BY DEF size, HeaderSize
<1>2. -1 \in -1..size'
  <2> HIDE DEF size
  <2> QED  BY <1>1
<1> QED BY <1>2, EmptySeq DEF Rewritten, NoBytes, NotDecoded

LEMMA UnmarshalType ==
    ASSUME TypeOK, NEW used \in BOOLEAN, deserialize(used)
    PROVE  LET msg == IF used THEN object ELSE NewObject(pickSubCmd)
               r == unmarshal(PopHeader(Reader(given)), msg)
           IN  /\ given \in Nat /\ given \in 0..Max64K
               /\ msg.cmd \in Cmds /\ msg.cmd = pickSubCmd
               /\ decoded' = [used |-> used, was |-> msg.vals, ok |-> r.ok,
                              at |-> r.at, got |-> r.got]
               /\ r.at \in Nat
               /\ r.at <= given + 8 * Cardinality(EarlyDoubles(pickSubCmd))
<1> DEFINE msg == IF used THEN object ELSE NewObject(pickSubCmd)
           r == unmarshal(PopHeader(Reader(given)), msg)
<1>1. given # NoBytes /\ pickSubCmd \in Cmds /\ (used => object.cmd = pickSubCmd)
  BY DEF deserialize
<1>2. given \in Nat /\ given \in 0..Max64K
  BY <1>1, SizeType, PacketAssumption DEF NoBytes
<1>3. msg.cmd \in Cmds /\ msg.cmd = pickSubCmd
  BY <1>1 DEF NewObject
<1>4. decoded' = [used |-> used, was |-> msg.vals, ok |-> r.ok, at |-> r.at,
                  got |-> r.got]
  BY DEF deserialize
<1> HIDE DEF msg
<1>5. memory \in Seq(Octets)
  BY DEF TypeOK
<1>6. Stays(PopHeader(Reader(given)), given)
  BY <1>2, <1>5, HeaderStays DEF Stays, Readers
<1>7. r.at \in Nat /\ r.at <= given + 8 * Cardinality(EarlyDoubles(msg.cmd))
  BY <1>2, <1>3, <1>5, <1>6, UnmarshalStays
<1> HIDE DEF r
<1>8. r.at <= given + 8 * Cardinality(EarlyDoubles(pickSubCmd))
  BY <1>3, <1>7
<1> QED BY <1>2, <1>3, <1>4, <1>7, <1>8 DEF msg, r

LEMMA TypeNext == TypeOK /\ [Next]_vars => TypeOK'
<1> SUFFICES ASSUME TypeOK, [Next]_vars PROVE TypeOK'
  OBVIOUS
<1>1. 0 \in 0..MaxThrows
  BY PacketAssumption
<1>2. ASSUME NEW m \in Messages, serialize(m) PROVE TypeOK'
  <2>1. /\ body' \in Seq(Octets) /\ Fits(body')
        /\ size' \in Nat
        /\ head' = Header(uint16(size'), m.cmd, Check(body'))
        /\ m_packetHeader' = head'
    BY <1>2, SerializeFacts
  <2>2. uint16(size') \in 0..(Max64K - 1) /\ Check(body') \in {0, 1} /\ m.cmd \in Cmds
    BY <2>1, UintType, CheckType, MessageFacts
  <2>3. head' \in Headers /\ m_packetHeader' \in Headers
    <3> HIDE DEF size
    <3> QED  BY <2>1, <2>2 DEF Header, Headers
  <2>4. packed' \in Seq(Messages)
    BY <1>2 DEF serialize, TypeOK
  <2>5. UNCHANGED <<throws, object>> /\ Rewritten
    BY <1>2 DEF serialize
  <2>6. /\ given' \in -1..size' /\ memory' \in Seq(Octets)
        /\ decoded'.at \in Nat \cup {-1}
    BY <2>1, <2>5, RewrittenType
  <2> HIDE DEF size
  <2> QED  BY <2>1, <2>3, <2>4, <2>5, <2>6 DEF TypeOK, Fits
<1>3. ASSUME NEW m \in Messages, serializeThrows(m) PROVE TypeOK'
  <2>1. PICK k \in DOMAIN marshal(m) :
            /\ body' = body \o FlattenSeq(SubSeq(marshal(m), 1, k - 1))
            /\ Fits(body')
            /\ throws' = throws + 1 /\ Rewritten
            /\ UNCHANGED <<m_packetHeader, head, packed, object>>
    BY <1>3 DEF serializeThrows
  <2>2. FlattenSeq(SubSeq(marshal(m), 1, k - 1)) \in Seq(Octets)
    BY MarshalType
  <2>3. body' \in Seq(Octets)
    BY <2>1, <2>2, ConcatProperties DEF TypeOK
  <2>4. throws' \in 0..MaxThrows
    BY <1>3, <2>1, PacketAssumption DEF serializeThrows, TypeOK
  <2>5. /\ given' \in -1..size' /\ memory' \in Seq(Octets)
        /\ decoded'.at \in Nat \cup {-1}
    BY <2>1, <2>3, RewrittenType
  <2> HIDE DEF size
  <2> QED  BY <2>1, <2>3, <2>4, <2>5 DEF TypeOK, Fits
<1>4. ASSUME clear PROVE TypeOK'
  <2>1. ClearHeader \in Headers
    BY PacketAssumption DEF ClearHeader, Header, Headers, HeaderSize
  <2>2. <<>> \in Seq(Octets) /\ <<>> \in Seq(Messages) /\ Fits(<<>>)
    BY EmptyFits
  <2>3. /\ given' \in -1..size' /\ memory' \in Seq(Octets)
        /\ decoded'.at \in Nat \cup {-1}
    <3>1. Rewritten /\ body' \in Seq(Octets)
      BY <1>4, <2>2 DEF clear
    <3> QED  BY <3>1, RewrittenType
  <2> HIDE DEF size
  <2> QED  BY <1>1, <1>4, <2>1, <2>2, <2>3 DEF clear, TypeOK, Fits
<1>5. ASSUME NEW n \in 0..Max64K, NEW leftover \in Leftovers, Decoder(n, leftover)
      PROVE  TypeOK'
  <2>1. /\ UNCHANGED <<encoder, object>> /\ n \in 0..size /\ given' = n
        /\ decoded'.at = -1
        /\ memory' = SubSeq(body, 1, n - HeaderSize) \o leftover
    BY <1>5 DEF Decoder, NotDecoded
  <2>2. n - HeaderSize <= Len(body) /\ n - HeaderSize \in Int
    BY <2>1 DEF size, HeaderSize
  <2>3. memory' \in Seq(Octets)
    <3>1. SubSeq(body, 1, n - HeaderSize) \in Seq(Octets)
      <4>1. \A i \in 1..(n - HeaderSize) : body[i] \in Octets
        BY <2>2 DEF TypeOK, HeaderSize
      <4> QED  BY <2>2, <4>1, SubSeqProperties
    <3>2. leftover \in Seq(Octets)
      BY PacketAssumption
    <3> QED  BY <2>1, <3>1, <3>2, ConcatProperties
  <2>4. size' = size /\ n \in -1..size
    <3>1. size' = size
      BY <2>1 DEF encoder, size
    <3> HIDE DEF size
    <3> QED  BY <2>1, <3>1, SizeType
  <2> HIDE DEF size
  <2> QED  BY <2>1, <2>3, <2>4 DEF encoder, TypeOK, Fits
<1>6. ASSUME NEW used \in BOOLEAN, deserialize(used) PROVE TypeOK'
  <2>1. UNCHANGED <<encoder, given, memory>> /\ size' = size
    BY <1>6 DEF deserialize, encoder, size
  <2>2. decoded'.at \in Nat
    BY <1>6, UnmarshalType
  <2>3. object'.cmd \in Cmds \cup {NoCmd}
    <3>1. pickSubCmd \in Cmds /\ NewObject(pickSubCmd).cmd = pickSubCmd
      BY <1>6 DEF deserialize, NewObject
    <3>2. object.cmd \in Cmds \cup {NoCmd} /\ NoObject.cmd = NoCmd
      BY DEF TypeOK, NoObject
    <3>3. used => object.cmd \in Cmds
      BY <1>6, <3>1 DEF deserialize
    <3>4. \/ object' = object \/ object' = NoObject
          \/ object'.cmd = (IF used THEN object ELSE NewObject(pickSubCmd)).cmd
      BY <1>6 DEF deserialize
    <3> QED  BY <3>1, <3>2, <3>3, <3>4
  <2> HIDE DEF size
  <2> QED  BY <2>1, <2>2, <2>3 DEF encoder, TypeOK, Fits
<1>7. CASE UNCHANGED vars
  <2>1. UNCHANGED <<encoder, decoder, object>> /\ size' = size
    BY <1>7 DEF vars, encoder, size
  <2> HIDE DEF size
  <2> QED  BY <2>1 DEF encoder, decoder, TypeOK, Fits
<1> QED BY <1>2, <1>3, <1>4, <1>5, <1>6, <1>7 DEF Next

(* Every variable keeps its type, for any messages that have the types of   *)
(* their fields and any size of a packet up to 64K: the packet never is     *)
(* longer, and its length is one of 16 bits.                                *)
THEOREM TypeCorrect == Spec => []TypeOK
BY TypeInit, TypeNext, PTL DEF Spec

LEMMA FramedNext == TypeOK /\ Framed /\ [Next]_vars => Framed'
<1> SUFFICES ASSUME TypeOK, Framed, [Next]_vars PROVE Framed'
  OBVIOUS
<1>1. ASSUME NEW m \in Messages, serialize(m) PROVE Framed'
  <2>1. /\ size' \in Nat /\ size' <= Max64K
        /\ head' = Header(uint16(size'), m.cmd, Check(body'))
    BY <1>1, SerializeFacts
  <2>2. /\ pickLen' = uint16(size') /\ pickSubCmd' = m.cmd
        /\ pickCheckCode' = Check(body')
    BY <2>1 DEF Header, pickLen, pickSubCmd, pickCheckCode
  <2>3. size' <= MAX_PACKET_SIZE => uint16(size') = size'
    <3> HIDE DEF size
    <3> QED  BY <2>1, UintType
  <2>4. Last(packed') = m
    BY <1>1 DEF serialize, TypeOK, Last
  <2> QED  BY <2>2, <2>3, <2>4 DEF Framed
<1>2. ASSUME NEW m \in Messages, serializeThrows(m) PROVE Framed'
  <2>1. throws' # 0
    BY <1>2 DEF serializeThrows, TypeOK
  <2> QED  BY <2>1 DEF Framed
<1>3. ASSUME clear PROVE Framed'
  BY <1>3 DEF clear, Framed
<1>4. ASSUME UNCHANGED encoder PROVE Framed'
  BY <1>4 DEF encoder, Framed, size, pickLen, pickSubCmd, pickCheckCode
<1> QED BY <1>1, <1>2, <1>3, <1>4 DEF Next, Decoder, deserialize, vars

(* While serialize has not thrown, the header of a packet of at most        *)
(* MAX_PACKET_SIZE bytes names its size, and the check code of all of it,   *)
(* whatever came before.                                                    *)
THEOREM HeadersFrame == Spec => []Framed
<1>1. Init => Framed
  BY DEF Init, Framed
<1> QED BY <1>1, TypeInit, TypeNext, FramedNext, PTL DEF Spec

(* The Decoder looks behind the bytes that it was given by eight bytes for  *)
(* each early double of the message at the most, whatever the packet holds, *)
(* also when a serialize threw half way, and whatever is behind it.         *)
THEOREM DecoderStaysInside == Spec => []StaysInside
<1>1. Init => StaysInside
  BY DEF Init, StaysInside
<1>2. TypeOK /\ StaysInside /\ [Next]_vars => StaysInside'
  <2> SUFFICES ASSUME TypeOK, StaysInside, [Next]_vars PROVE StaysInside'
    OBVIOUS
  <2>1. ASSUME decoded' = NotDecoded PROVE StaysInside'
    BY <2>1 DEF StaysInside
  <2>2. ASSUME NEW used \in BOOLEAN, deserialize(used) PROVE StaysInside'
    <3>1. pickSubCmd' = pickSubCmd /\ given' = given
      BY <2>2 DEF deserialize, encoder, pickSubCmd
    <3> DEFINE early == Cardinality(EarlyDoubles(pickSubCmd))
    <3>2. decoded'.at <= given + 8 * early
      BY <2>2, UnmarshalType
    <3>3. EarlyDoubles(pickSubCmd)' = EarlyDoubles(pickSubCmd)
      BY <3>1 DEF EarlyDoubles
    <3>4. Width("double") = 8
      BY DEF Width
    <3>5. decoded'.at <= given' + Width("double") * Cardinality(EarlyDoubles(pickSubCmd)')
      BY <3>1, <3>2, <3>3, <3>4
    <3> QED  BY <3>5 DEF StaysInside
  <2>3. CASE UNCHANGED vars
    BY <2>3 DEF vars, encoder, decoder, StaysInside, EarlyDoubles, pickSubCmd
  <2> QED  BY <2>1, <2>2, <2>3 DEF Next, serialize, serializeThrows, clear, Rewritten, Decoder
<1> QED BY <1>1, <1>2, TypeInit, TypeNext, PTL DEF Spec

-----------------------------------------------------------------------------
(* Where the memory holds what, up to a limit: what is behind it does not  *)
(* matter to a reader that stays inside.                                   *)

Holds(lim, at, s) == \A i \in 1..Len(s) : at + i <= lim => Byte(at + i) = s[i]

LEMMA HoldsConcat ==
    ASSUME NEW S, NEW a \in Seq(S), NEW b \in Seq(S), NEW at \in Nat,
           NEW lim, Holds(lim, at, a \o b)
    PROVE  Holds(lim, at, a) /\ Holds(lim, at + Len(a), b)
<1> DEFINE c == a \o b
<1>1. /\ Len(a) \in Nat /\ Len(b) \in Nat /\ Len(c) = Len(a) + Len(b)
      /\ \A i \in 1..Len(a) : c[i] = a[i]
      /\ \A i \in 1..Len(b) : c[Len(a) + i] = b[i]
  BY ConcatProperties
<1>2. \A i \in 1..Len(c) : at + i <= lim => Byte(at + i) = c[i]
  BY DEF Holds
<1> HIDE DEF c
<1>3. ASSUME NEW i \in 1..Len(a), at + i <= lim PROVE Byte(at + i) = a[i]
  <2>1. i \in 1..Len(c)
    BY <1>1
  <2> QED  BY <1>1, <1>2, <1>3, <2>1
<1>4. ASSUME NEW i \in 1..Len(b), at + Len(a) + i <= lim
      PROVE  Byte(at + Len(a) + i) = b[i]
  <2> DEFINE j == Len(a) + i
  <2>1. j \in 1..Len(c) /\ c[j] = b[i] /\ at + j = at + Len(a) + i
    BY <1>1
  <2> HIDE DEF j
  <2> QED  BY <1>2, <1>4, <2>1
<1> QED BY <1>3, <1>4 DEF Holds

(* If the memory holds a sequence of pieces, it holds each where those      *)
(* before it end.                                                           *)
LEMMA HoldsPieces ==
    ASSUME NEW S, NEW ss \in Seq(Seq(S)), NEW f, Flat(f, ss),
           NEW at \in Nat, NEW lim, Holds(lim, at, f[Len(ss)])
    PROVE  \A k \in 1..Len(ss) : Holds(lim, at + Len(f[k - 1]), ss[k])
<1> DEFINE n == Len(ss)
           T == {j \in Nat : j <= n => Holds(lim, at, f[n - j])}
<1>1. \A k \in 0..n : f[k] \in Seq(S)
  BY FlatType
<1>2. n \in Nat /\ \A k \in 1..n : ss[k] \in Seq(S)
  OBVIOUS
<1>3. \A k \in 1..n : f[k] = f[k - 1] \o ss[k]
  BY DEF Flat
<1> HIDE DEF n
<1>4. ASSUME NEW k \in 1..n, Holds(lim, at, f[k])
      PROVE  Holds(lim, at, f[k - 1]) /\ Holds(lim, at + Len(f[k - 1]), ss[k])
  <2>0. k - 1 \in 0..n
    BY <1>2
  <2>1. f[k - 1] \in Seq(S) /\ ss[k] \in Seq(S) /\ f[k] = f[k - 1] \o ss[k]
    BY <1>1, <1>2, <1>3, <2>0
  <2>2. Holds(lim, at, f[k - 1] \o ss[k])
    BY <1>4, <2>1
  <2> QED  BY <2>1, <2>2, HoldsConcat
<1>5. 0 \in T
  <2>1. n - 0 = n
    BY <1>2
  <2> QED  BY <2>1 DEF n
<1>6. ASSUME NEW j \in Nat, j \in T PROVE j + 1 \in T
  <2>1. CASE j + 1 <= n
    <3>1. n - j \in 1..n /\ (n - j) - 1 = n - (j + 1) /\ Holds(lim, at, f[n - j])
      BY <1>2, <1>6, <2>1
    <3>2. Holds(lim, at, f[(n - j) - 1])
      BY <1>4, <3>1
    <3> QED  BY <3>1, <3>2
  <2>2. CASE ~ (j + 1 <= n)
    BY <2>2
  <2> QED  BY <2>1, <2>2
<1>7. \A j \in Nat : j \in T
  <2> HIDE DEF T
  <2> QED  BY <1>5, <1>6, Pops!Induct
<1>8. ASSUME NEW k \in 1..n PROVE Holds(lim, at + Len(f[k - 1]), ss[k])
  <2>1. n - k \in Nat /\ n - k <= n /\ n - (n - k) = k
    BY <1>2
  <2>2. Holds(lim, at, f[k])
    <3>1. n - k \in T
      <4> HIDE DEF T
      <4> QED  BY <1>7, <2>1
    <3> QED  BY <2>1, <3>1
  <2> QED  BY <1>4, <2>2
<1> QED BY <1>8 DEF n

LEMMA FlattenTwice ==
    ASSUME NEW S, NEW ss \in Seq(Seq(Seq(S))),
           NEW cs, cs = [i \in 1..Len(ss) |-> FlattenSeq(ss[i])]
    PROVE  cs \in Seq(Seq(S)) /\ Len(cs) = Len(ss)
           /\ FlattenSeq(FlattenSeq(ss)) = FlattenSeq(cs)
<1> DEFINE n == Len(ss)
<1>1. n \in Nat /\ \A k \in 1..n : ss[k] \in Seq(Seq(S))
  OBVIOUS
<1>2. \A k \in 1..n : FlattenSeq(ss[k]) \in Seq(S)
  BY <1>1, FlattenType
<1>3. cs \in [1..n -> Seq(S)] /\ \A k \in 1..n : cs[k] = FlattenSeq(ss[k])
  BY <1>2
<1>4. cs \in Seq(Seq(S)) /\ Len(cs) = n
  <2> DEFINE T == Seq(S)
  <2>1. cs \in [1..n -> T] /\ n \in Nat
    BY <1>1, <1>3
  <2> HIDE DEF T, n
  <2>2. cs \in Seq(T) /\ Len(cs) = n
    BY ONLY <2>1
  <2> QED  BY <2>2 DEF T
<1>5. PICK g : Flat(g, ss) /\ FlattenSeq(ss) = g[n]
  BY FlattenRun
<1>6. PICK f : Flat(f, cs) /\ FlattenSeq(cs) = f[n]
  BY <1>4, FlattenRun
<1>7. \A k \in 0..n : g[k] \in Seq(Seq(S))
  <2>1. Flat(g, ss)
    BY <1>5
  <2> QED  BY <2>1, FlatType
<1>8. /\ \A k \in 1..n : g[k] = g[k - 1] \o ss[k]
      /\ \A k \in 1..n : f[k] = f[k - 1] \o cs[k]
      /\ g[0] = <<>> /\ f[0] = <<>>
  BY <1>4, <1>5, <1>6 DEF Flat
<1> HIDE DEF n
<1> DEFINE T == {k \in Nat : k <= n => FlattenSeq(g[k]) = f[k]}
<1>9. 0 \in T
  <2>1. FlattenSeq(<<>>) = <<>>
    BY DEF FlattenSeq
  <2> QED  BY <1>8, <2>1
<1>10. ASSUME NEW k \in 1..n, FlattenSeq(g[k - 1]) = f[k - 1]
       PROVE  FlattenSeq(g[k]) = f[k]
  <2>1. g[k - 1] \in Seq(Seq(S)) /\ ss[k] \in Seq(Seq(S)) /\ cs[k] = FlattenSeq(ss[k])
    BY <1>1, <1>3, <1>7
  <2>2. FlattenSeq(g[k - 1] \o ss[k]) = FlattenSeq(g[k - 1]) \o FlattenSeq(ss[k])
    BY <2>1, FlattenConcat
  <2>3. g[k] = g[k - 1] \o ss[k] /\ f[k] = f[k - 1] \o cs[k]
    BY <1>8
  <2> QED  BY <1>10, <2>1, <2>2, <2>3
<1>11. ASSUME NEW k \in Nat, k \in T PROVE k + 1 \in T
  <2>1. CASE k + 1 <= n
    <3>1. k + 1 \in 1..n /\ k + 1 - 1 = k /\ FlattenSeq(g[k]) = f[k]
      BY <1>1, <1>11, <2>1
    <3> QED  BY <1>10, <3>1
  <2>2. CASE ~ (k + 1 <= n)
    BY <2>2
  <2> QED  BY <2>1, <2>2
<1>12. \A k \in Nat : k \in T
  <2> HIDE DEF T
  <2> QED  BY <1>9, <1>11, Pops!Induct
<1>13. FlattenSeq(g[n]) = f[n]
  BY <1>1, <1>12
<1> QED BY <1>4, <1>5, <1>6, <1>13 DEF n

(* Elements of w bytes each, one behind the other. *)
Laid(lim, at, es, w) ==
    \A i \in 1..Len(es) : \A b \in 1..w :
       at + w * (i - 1) + b <= lim => Byte(at + w * (i - 1) + b) = es[i][b]

LEMMA ElementsHeld ==
    ASSUME NEW w \in {2, 3}, NEW es \in Seq(Sized(w)),
           NEW at \in Nat, NEW lim, Holds(lim, at, FlattenSeq(es))
    PROVE  Len(FlattenSeq(es)) = w * Len(es) /\ Laid(lim, at, es, w)
<1> DEFINE n == Len(es)
<1>1. es \in Seq(Seq(Octets)) /\ n \in Nat
  BY SomeSized
<1>2. PICK f : Flat(f, es) /\ FlattenSeq(es) = f[n]
  BY <1>1, FlattenRun
<1>3. \A k \in 0..n : f[k] \in Seq(Octets)
  <2>1. Flat(f, es)
    BY <1>2
  <2> QED  BY <1>1, <2>1, FlatType
<1>4. \A k \in 1..n : f[k] = f[k - 1] \o es[k] /\ es[k] \in Seq(Octets) /\ Len(es[k]) = w
  <2> SUFFICES ASSUME NEW k \in 1..n
               PROVE  f[k] = f[k - 1] \o es[k] /\ es[k] \in Seq(Octets) /\ Len(es[k]) = w
    OBVIOUS
  <2>1. es[k] \in Sized(w) /\ w \in Nat
    OBVIOUS
  <2>2. es[k] \in Seq(Octets) /\ Len(es[k]) = w
    BY <2>1, SizedSeq
  <2> QED  BY <1>2, <2>2 DEF Flat
<1>5. \A k \in 1..n : Holds(lim, at + Len(f[k - 1]), es[k])
  <2>1. Flat(f, es) /\ Holds(lim, at, f[n])
    BY <1>2
  <2> QED  BY <1>1, <2>1, HoldsPieces
<1>6. f[0] = <<>>
  BY <1>2 DEF Flat
<1> HIDE DEF n
<1> DEFINE T == {k \in Nat : k <= n => Len(f[k]) = w * k}
<1>7. 0 \in T
  BY <1>6
<1>8. ASSUME NEW k \in Nat, k \in T PROVE k + 1 \in T
  <2>1. CASE k + 1 <= n
    <3>1. k + 1 \in 1..n /\ k + 1 - 1 = k /\ k \in 0..n /\ Len(f[k]) = w * k
      BY <1>1, <1>8, <2>1
    <3>2. Len(f[k + 1]) = Len(f[k]) + w
      <4> DEFINE j == k + 1
      <4>1. j \in 1..n /\ j - 1 = k
        BY <3>1
      <4> HIDE DEF j
      <4>2. f[j] = f[k] \o es[j] /\ es[j] \in Seq(Octets) /\ Len(es[j]) = w
        BY <1>4, <4>1
      <4>3. f[k] \in Seq(Octets)
        BY <1>3, <3>1
      <4>4. Len(f[j]) = Len(f[k]) + w
        <5> DEFINE a == f[k]
                   b == es[j]
        <5>1. a \in Seq(Octets) /\ b \in Seq(Octets) /\ Len(b) = w /\ f[j] = a \o b
          BY <4>2, <4>3
        <5> HIDE DEF a, b
        <5>2. Len(a \o b) = Len(a) + Len(b)
          BY <5>1, ConcatProperties
        <5> QED  BY <5>1, <5>2 DEF a
      <4> QED  BY <4>4 DEF j
    <3>3. w * k + w = w * (k + 1)
      <4>1. CASE w = 2
        BY <4>1
      <4>2. CASE w = 3
        BY <4>2
      <4> QED  BY <4>1, <4>2
    <3> QED  BY <3>1, <3>2, <3>3
  <2>2. CASE ~ (k + 1 <= n)
    BY <2>2
  <2> QED  BY <2>1, <2>2
<1>9. \A k \in Nat : k <= n => Len(f[k]) = w * k
  <2>1. \A k \in Nat : k \in T
    <3> HIDE DEF T
    <3> QED  BY <1>7, <1>8, Pops!Induct
  <2> QED  BY <2>1
<1>10. ASSUME NEW i \in 1..n, NEW b \in 1..w, at + w * (i - 1) + b <= lim
       PROVE  Byte(at + w * (i - 1) + b) = es[i][b]
  <2>0. i - 1 \in Nat /\ i - 1 <= n
    BY <1>1
  <2>1. i - 1 \in Nat /\ i - 1 <= n /\ Len(es[i]) = w
    BY <1>4, <2>0
  <2>2. Len(f[i - 1]) = w * (i - 1)
    BY <1>9, <2>1
  <2>3. Holds(lim, at + w * (i - 1), es[i])
    BY <1>5, <2>2
  <2> QED  BY <1>10, <2>1, <2>3 DEF Holds
<1>11. Len(f[n]) = w * n
  BY <1>1, <1>9
<1> QED BY <1>2, <1>10, <1>11 DEF n, Laid

-----------------------------------------------------------------------------
(* What a reader gets of the bytes that it reads. *)

(* What the reader r, at the bytes of code, is after it has read them, or   *)
(* found that there are not so many.                                        *)
Moved(r, x, len) ==
    IF len <= r.left
    THEN x.ok /\ x.at = r.at + len /\ x.left = r.left - len
    ELSE ~ x.ok

LEMMA PopHeld ==
    ASSUME memory \in Seq(Octets), NEW n \in Nat, NEW r, Stays(r, n), r.ok,
           NEW w \in Nat, NEW v \in Sized(w), Holds(n, r.at, v)
    PROVE  /\ Moved(r, pop(r, w), w) /\ pop(r, w).got = r.got
           /\ w <= r.left => pop(r, w).last = v
<1>1. v \in Seq(Octets) /\ Len(v) = w /\ v = [i \in 1..w |-> v[i]]
  BY SizedSeq DEF Sized
<1>2. ASSUME w <= r.left PROVE [i \in 1..w |-> Byte(r.at + i)] = v
  <2>1. \A i \in 1..w : r.at + i <= n
    BY <1>2, StaysType
  <2>2. \A i \in 1..w : Byte(r.at + i) = v[i]
    BY <1>1, <2>1 DEF Holds
  <2> QED  BY <1>1, <2>2
<1>3. IF r.ok /\ w <= r.left
      THEN pop(r, w) = [at |-> r.at + w, left |-> r.left - w,
                        last |-> [i \in 1..w |-> Byte(r.at + i)],
                        got |-> r.got, ok |-> TRUE]
      ELSE ~ pop(r, w).ok
  BY PopFacts DEF Stays
<1>4. pop(r, w).got = r.got
  BY PopStays
<1> QED BY <1>2, <1>3, <1>4 DEF Moved

LEMMA SeqSized ==
    ASSUME NEW s \in Seq(Octets)
    PROVE  Len(s) \in Nat /\ s \in Sized(Len(s))
BY DEF Sized

(* How many bytes an element has. *)
Wide(type) == IF type = "map" THEN 3 ELSE 2

LEMMA PopElement ==
    ASSUME memory \in Seq(Octets), NEW n \in Nat, NEW g, NEW r \in Readers(n, g),
           NEW type \in Containers
    PROVE  /\ pop_element(r, Parts(type)) \in Readers(n, g)
           /\ IF r.ok /\ Wide(type) <= r.left
              THEN /\ pop_element(r, Parts(type)).ok
                   /\ pop_element(r, Parts(type)).at = r.at + Wide(type)
                   /\ pop_element(r, Parts(type)).left = r.left - Wide(type)
              ELSE ~ pop_element(r, Parts(type)).ok
<1>1. Parts(type) \in Seq(Nat)
  BY DEF Parts
<1>2. pop_element(r, Parts(type)) \in Readers(n, g)
  BY <1>1, PopsStay DEF pop_element
<1>3. r.left \in Nat /\ r.at \in Nat
  BY DEF Readers
<1> DEFINE p == pop(r, 2)
<1>4. /\ p \in Readers(n, g)
      /\ IF r.ok /\ 2 <= r.left
         THEN p.ok /\ p.at = r.at + 2 /\ p.left = r.left - 2
         ELSE ~ p.ok
  BY PopFacts
<1>5. CASE type = "map"
  <2> DEFINE ws == <<2, 1>>
  <2>1. DOMAIN ws = 1..2 /\ ws[1] = 2 /\ ws[2] = 1 /\ Parts(type) = ws
    BY <1>5 DEF Parts
  <2> HIDE DEF ws
  <2>2. PICK h : Pops!LeftRun(h, r, ws, 2) /\ Pops!LeftFold(r, ws) = h[2]
    <3>1. DOMAIN ws = 1..2 /\ 2 \in Nat
      BY <2>1
    <3> QED  BY ONLY <3>1, Pops!FoldLeftRun
  <2>3. h[0] = r /\ \A k \in 1..2 : h[k] = pop(h[k - 1], ws[k])
    BY <2>2 DEF Pops!LeftRun
  <2>4. 1 \in 1..2 /\ 2 \in 1..2 /\ 1 - 1 = 0 /\ 2 - 1 = 1
    OBVIOUS
  <2>5. h[1] = p /\ h[2] = pop(h[1], 1)
    BY <2>1, <2>3, <2>4
  <2> HIDE DEF p
  <2> DEFINE q == pop(p, 1)
  <2>6. pop_element(r, Parts(type)) = q
    BY <2>1, <2>2, <2>5, PopsFold DEF pop_element
  <2>7. IF p.ok /\ 1 <= p.left
        THEN q.ok /\ q.at = p.at + 1 /\ q.left = p.left - 1
        ELSE ~ q.ok
    BY <1>4, PopFacts
  <2> HIDE DEF q
  <2> QED  BY <1>2, <1>3, <1>4, <1>5, <2>6, <2>7 DEF Wide
<1>6. CASE type # "map"
  <2> DEFINE ws == <<2>>
  <2>1. DOMAIN ws = 1..1 /\ ws[1] = 2 /\ Parts(type) = ws
    BY <1>6 DEF Parts
  <2> HIDE DEF ws
  <2>2. PICK h : Pops!LeftRun(h, r, ws, 1) /\ Pops!LeftFold(r, ws) = h[1]
    <3>1. DOMAIN ws = 1..1 /\ 1 \in Nat
      BY <2>1
    <3> QED  BY ONLY <3>1, Pops!FoldLeftRun
  <2>3. h[0] = r /\ \A k \in 1..1 : h[k] = pop(h[k - 1], ws[k])
    BY <2>2 DEF Pops!LeftRun
  <2>4. 1 \in 1..1 /\ 1 - 1 = 0
    OBVIOUS
  <2>5. h[1] = p
    BY <2>1, <2>3, <2>4
  <2> HIDE DEF p
  <2>6. pop_element(r, Parts(type)) = p
    BY <2>1, <2>2, <2>5, PopsFold DEF pop_element
  <2> QED  BY <1>2, <1>4, <1>6, <2>6 DEF Wide
<1> QED BY <1>5, <1>6

LEMMA PopElements ==
    ASSUME memory \in Seq(Octets), NEW n \in Nat, NEW g, NEW r \in Readers(n, g), r.ok,
           NEW count \in Nat, NEW type \in Containers
    PROVE  /\ pop_elements(r, count, type) \in Readers(n, g)
           /\ Moved(r, pop_elements(r, count, type), Wide(type) * count)
<1> DEFINE most == IF count <= r.left THEN count ELSE r.left + 1
           parts == [i \in 1..most |-> Parts(type)]
           w == Wide(type)
<1>1. r.left \in Nat /\ r.at \in Nat /\ most \in Nat /\ w \in {2, 3}
  BY DEF Readers, Wide
<1> HIDE DEF w
<1>2. /\ most = count \/ (most = r.left + 1 /\ count > r.left)
      /\ count > r.left => most # count \/ most = r.left + 1
  BY <1>1
<1> HIDE DEF most
<1>3. DOMAIN parts = 1..most /\ \A i \in 1..most : parts[i] = Parts(type)
  OBVIOUS
<1> HIDE DEF parts
<1>4. PICK h : Takes!LeftRun(h, r, parts, most) /\ Takes!LeftFold(r, parts) = h[most]
  BY <1>1, <1>3, Takes!FoldLeftRun
<1>5. h[0] = r /\ \A k \in 1..most : h[k] = pop_element(h[k - 1], Parts(type))
  BY <1>3, <1>4 DEF Takes!LeftRun
<1> DEFINE T == {k \in Nat : k <= most => h[k] \in Readers(n, g)
                                       /\ Moved(r, h[k], w * k)}
<1>6. 0 \in T
  <2>1. w * 0 = 0 /\ 0 <= r.left /\ r.at + 0 = r.at /\ r.left - 0 = r.left
    BY <1>1
  <2> QED  BY <1>5, <2>1 DEF Moved
<1>7. ASSUME NEW k \in 1..most, h[k - 1] \in Readers(n, g), Moved(r, h[k - 1], w * (k - 1))
      PROVE  h[k] \in Readers(n, g) /\ Moved(r, h[k], w * k)
  <2> DEFINE x == h[k - 1]
             y == h[k]
  <2>1. y = pop_element(x, Parts(type))
    BY <1>5
  <2>2. x \in Readers(n, g) /\ x.ok \in BOOLEAN /\ x.left \in Nat
    BY <1>7 DEF Readers
  <2>3. Moved(r, x, w * (k - 1))
    BY <1>7
  <2> HIDE DEF x, y
  <2>4. /\ y \in Readers(n, g)
        /\ IF x.ok /\ w <= x.left
           THEN y.ok /\ y.at = x.at + w /\ y.left = x.left - w
           ELSE ~ y.ok
    BY <2>1, <2>2, PopElement DEF w
  <2>5. k \in Nat
    BY <1>1
  <2>6. Moved(r, y, w * k)
    <3>1. CASE w = 2
      BY <1>1, <2>2, <2>3, <2>4, <2>5, <3>1 DEF Moved
    <3>2. CASE w = 3
      BY <1>1, <2>2, <2>3, <2>4, <2>5, <3>2 DEF Moved
    <3> QED  BY <1>1, <3>1, <3>2
  <2> QED  BY <2>4, <2>6 DEF y
<1>8. ASSUME NEW k \in Nat, k \in T PROVE k + 1 \in T
  <2>1. CASE k + 1 <= most
    <3> DEFINE j == k + 1
    <3>1. j \in 1..most /\ j - 1 = k /\ k <= most
      BY <1>1, <2>1
    <3> HIDE DEF j
    <3>2. h[j - 1] \in Readers(n, g) /\ Moved(r, h[j - 1], w * (j - 1))
      BY <1>8, <3>1
    <3>3. h[j] \in Readers(n, g) /\ Moved(r, h[j], w * j)
      BY <1>7, <3>1, <3>2
    <3>4. j \in T
      BY <3>1, <3>3
    <3> QED  BY <3>4 DEF j
  <2>2. CASE ~ (k + 1 <= most)
    BY <2>2
  <2> QED  BY <2>1, <2>2
<1>9. h[most] \in Readers(n, g) /\ Moved(r, h[most], w * most)
  <2>1. \A k \in Nat : k \in T
    <3> HIDE DEF T
    <3> QED  BY <1>6, <1>8, Pops!Induct
  <2>2. most \in T /\ most <= most
    <3> HIDE DEF T
    <3> QED  BY <1>1, <2>1
  <2> QED  BY <2>2
<1>10. Moved(r, h[most], w * count)
  <2>1. CASE most = count
    BY <1>9, <2>1
  <2>2. CASE most = r.left + 1 /\ count > r.left
    <3>1. ~ (w * most <= r.left) /\ ~ (w * count <= r.left)
      <4>1. CASE w = 2
        BY <1>1, <2>2, <4>1
      <4>2. CASE w = 3
        BY <1>1, <2>2, <4>2
      <4> QED  BY <1>1, <4>1, <4>2
    <3> QED  BY <1>9, <3>1 DEF Moved
  <2> QED  BY <1>2, <2>1, <2>2
<1>11. pop_elements(r, count, type) = FoldLeft(pop_element, r, parts)
  BY DEF pop_elements, most, parts
<1>12. FoldLeft(pop_element, r, parts) = Takes!LeftFold(r, parts)
  BY DEF FoldLeft, MapThenFoldSet, Max, Takes!LeftFold, Takes!FoldLeft,
         Takes!MapThenFoldSet, Takes!Max
<1> QED BY <1>4, <1>9, <1>10, <1>11, <1>12 DEF w

(* The bytes of a number of elements, and the elements. *)
Counted(es) == Bytes(Len(es), 4) \o FlattenSeq(es)

LEMMA CountedFacts ==
    ASSUME NEW w \in {2, 3}, NEW es \in Seq(Sized(w)), NEW at \in Nat,
           NEW lim, Holds(lim, at, Counted(es)), Small(Len(Counted(es)))
    PROVE  /\ Len(Counted(es)) = 4 + w * Len(es)
           /\ Small(Len(es))
           /\ Bytes(Len(es), 4) \in Sized(4) /\ Holds(lim, at, Bytes(Len(es), 4))
           /\ Laid(lim, at + 4, es, w)
<1>1. es \in Seq(Seq(Octets)) /\ Len(es) \in Nat
  BY SomeSized
<1>2. FlattenSeq(es) \in Seq(Octets)
  BY <1>1, FlattenType
<1>3. Bytes(Len(es), 4) \in Sized(4)
  BY <1>1, BytesType
<1>4. Bytes(Len(es), 4) \in Seq(Octets) /\ Len(Bytes(Len(es), 4)) = 4
  BY <1>3, SizedSeq
<1> DEFINE head4 == Bytes(Len(es), 4)
           rest == FlattenSeq(es)
<1>5. /\ head4 \in Seq(Octets) /\ Len(head4) = 4 /\ rest \in Seq(Octets)
      /\ Counted(es) = head4 \o rest
  BY <1>2, <1>4 DEF Counted
<1> HIDE DEF head4, rest
<1>6. Len(Counted(es)) = 4 + Len(rest)
  <2>1. Len(head4 \o rest) = Len(head4) + Len(rest)
    BY <1>5, ConcatProperties
  <2> QED  BY <1>5, <2>1
<1>7. Holds(lim, at, head4) /\ Holds(lim, at + 4, rest)
  <2>1. Holds(lim, at, head4 \o rest)
    BY <1>5
  <2> QED  BY <1>5, <2>1, HoldsConcat
<1>8. Len(rest) = w * Len(es) /\ Laid(lim, at + 4, es, w)
  <2>1. at + 4 \in Nat
    OBVIOUS
  <2> QED  BY <1>7, <2>1, ElementsHeld DEF rest
<1>9. Small(Len(es))
  <2>1. CASE w = 2
    BY <1>1, <1>6, <1>8, <2>1 DEF Small
  <2>2. CASE w = 3
    BY <1>1, <1>6, <1>8, <2>2 DEF Small
  <2> QED  BY <2>1, <2>2
<1> QED BY <1>3, <1>6, <1>7, <1>8, <1>9 DEF head4

(* The reader l was at the elements, and c is behind them. *)
Between(lim, l, c, es, w) ==
    /\ l.at \in Nat /\ c.at = l.at + w * Len(es) /\ c.at <= lim
    /\ Laid(lim, l.at, es, w)

(* The parts of p bytes of the elements, from a byte on. *)
PartsOf(es, p, from) == [i \in 1..Len(es) |-> [b \in 1..p |-> es[i][from + b]]]

LEMMA ElementsRead ==
    ASSUME NEW w \in {2, 3}, NEW es \in Seq(Sized(w)), NEW l, NEW c,
           NEW lim \in Nat, Between(lim, l, c, es, w), NEW p \in Nat, NEW from \in Nat, from + p <= w
    PROVE  Elements(l, c, p, w, from) = PartsOf(es, p, from)
<1>1. (c.at - l.at) \div w = Len(es)
  <2>1. Len(es) \in Nat
    OBVIOUS
  <2>2. CASE w = 2
    BY <2>1, <2>2 DEF Between
  <2>3. CASE w = 3
    BY <2>1, <2>3 DEF Between
  <2> QED  BY <2>2, <2>3
<1>2. ASSUME NEW i \in 1..Len(es), NEW b \in 1..p
      PROVE  Byte(l.at + w * (i - 1) + from + b) = es[i][from + b]
  <2> DEFINE j == from + b
             o == l.at + w * (i - 1)
  <2>1. j \in 1..w
    OBVIOUS
  <2>2. o \in Int
    <3>1. w * (i - 1) \in Int
      OBVIOUS
    <3> QED  BY <3>1 DEF Between
  <2>a. o + j <= lim
    <3>1. Len(es) \in Nat /\ c.at = l.at + w * Len(es) /\ c.at <= lim /\ l.at \in Nat
      BY DEF Between
    <3>2. w * (i - 1) + j <= w * Len(es)
      <4> HIDE DEF j
      <4>1. CASE w = 2
        BY <2>1, <3>1, <4>1
      <4>2. CASE w = 3
        BY <2>1, <3>1, <4>2
      <4> QED  BY <4>1, <4>2
    <3> DEFINE a == w * (i - 1)
               b0 == w * Len(es)
    <3>3. a \in Int /\ b0 \in Int /\ a + j <= b0 /\ l.at + b0 <= lim
      BY <3>1, <3>2
    <3> HIDE DEF a, b0, j
    <3>4. l.at + a + j <= lim
      BY <2>1, <3>1, <3>3
    <3> QED  BY <3>4 DEF a
  <2>3. Byte(o + j) = es[i][j]
    <3>1. \A b0 \in 1..w : o + b0 <= lim => Byte(o + b0) = es[i][b0]
      BY DEF Between, Laid
    <3> HIDE DEF j, o
    <3> QED  BY <2>1, <2>a, <3>1
  <2>4. o + j = o + from + b
    <3> HIDE DEF o
    <3> QED  BY <2>2
  <2> QED  BY <2>3, <2>4
<1> QED BY <1>1, <1>2 DEF Elements, PartsOf

(* What a container that held was is after the elements es were put in.     *)
Filled(type, was, es) ==
    CASE type = "vector" -> IF es = <<>> THEN was ELSE es
      [] type = "set" -> was \cup ToSet(es)
      [] type = "map" ->
            Inserted(was, PartsOf(es, 2, 0), PartsOf(es, 1, 2))

LEMMA FillRead ==
    ASSUME NEW type \in Containers, NEW w, w = Wide(type), NEW es \in Seq(Sized(w)),
           NEW l, NEW c, NEW was, NEW lim \in Nat, Between(lim, l, c, es, w)
    PROVE  Fill(type, was, l, c) = Filled(type, was, es)
<1>1. w \in {2, 3} /\ Len(es) \in Nat
  BY DEF Wide
<1>2. CASE type # "map"
  <2>1. w = 2
    BY <1>2 DEF Wide
  <2>2. Elements(l, c, 2, 2, 0) = PartsOf(es, 2, 0)
    <3>1. 2 \in {2, 3} /\ 0 + 2 <= 2 /\ 2 \in Nat /\ 0 \in Nat
      OBVIOUS
    <3>2. es \in Seq(Sized(2)) /\ Between(lim, l, c, es, 2)
      BY <2>1
    <3> QED  BY <3>1, <3>2, ElementsRead
  <2>3. es = [i \in 1..Len(es) |-> es[i]] /\ \A i \in 1..Len(es) : es[i] \in Sized(2)
    BY <2>1
  <2>4. \A i \in 1..Len(es) : es[i] = [b \in 1..2 |-> es[i][0 + b]]
    <3> SUFFICES ASSUME NEW i \in 1..Len(es) PROVE es[i] = [b \in 1..2 |-> es[i][0 + b]]
      OBVIOUS
    <3> DEFINE e == es[i]
    <3>1. e = [b \in 1..2 |-> e[b]]
      BY <2>3 DEF Sized
    <3>2. \A b \in 1..2 : 0 + b = b
      OBVIOUS
    <3> HIDE DEF e
    <3>3. e = [b \in 1..2 |-> e[0 + b]]
      BY <3>1, <3>2
    <3> QED  BY <3>3 DEF e
  <2>5. Elements(l, c, 2, 2, 0) = es
    BY <2>2, <2>3, <2>4 DEF PartsOf
  <2>6. c.at = l.at <=> es = <<>>
    BY <1>1, <2>1 DEF Between
  <2> QED  BY <1>2, <2>5, <2>6 DEF Fill, Filled, Containers
<1>3. CASE type = "map"
  <2>1. w = 3
    BY <1>3 DEF Wide
  <2>a. /\ 3 \in {2, 3} /\ 0 + 2 <= 3 /\ 2 + 1 <= 3
        /\ 0 \in Nat /\ 1 \in Nat /\ 2 \in Nat
    OBVIOUS
  <2>b. es \in Seq(Sized(3)) /\ Between(lim, l, c, es, 3)
    BY <2>1
  <2>2. Elements(l, c, 2, 3, 0) = PartsOf(es, 2, 0)
    BY <2>a, <2>b, ElementsRead
  <2>3. Elements(l, c, 1, 3, 2) = PartsOf(es, 1, 2)
    BY <2>a, <2>b, ElementsRead
  <2> QED  BY <1>3, <2>2, <2>3 DEF Fill, Filled
<1> QED BY <1>2, <1>3

LEMMA ContainerReads ==
    ASSUME memory \in Seq(Octets), NEW n \in Nat, NEW r, Stays(r, n), r.ok,
           NEW type \in Containers, NEW es \in Seq(Sized(Wide(type))), NEW was,
           Holds(n, r.at, Counted(es)), Small(Len(Counted(es)))
    PROVE  /\ Moved(r, pop_container(r, type, was), Len(Counted(es)))
           /\ Len(Counted(es)) <= r.left =>
                 pop_container(r, type, was).got = Append(r.got, Filled(type, was, es))
<1> DEFINE w == Wide(type)
           len == Len(es)
           l == pop(r, 4)
           c == IF l.ok THEN pop_elements(l, Number(l.last), type) ELSE l
           x == pop_container(r, type, was)
<1>1. w \in {2, 3} /\ r.at \in Nat /\ r.left \in Nat
  BY StaysType DEF Wide
<1>0. len \in Nat
  OBVIOUS
<1> HIDE DEF w
<1>2. /\ Len(Counted(es)) = 4 + w * len /\ Small(len)
      /\ Bytes(len, 4) \in Sized(4) /\ Holds(n, r.at, Bytes(len, 4))
      /\ Laid(n, r.at + 4, es, w)
  <2>1. es \in Seq(Sized(w))
    BY DEF w
  <2> QED  BY <1>1, <2>1, CountedFacts
<1>3. Number(Bytes(len, 4)) = len
  <2>1. 4 \in {2, 4} /\ Small(len)
    BY <1>2
  <2> HIDE DEF len, l, c, x
  <2> QED  BY <1>0, <2>1, BytesOfNumber
<1> HIDE DEF len
<1>4. w * len \in Nat
  BY <1>0, <1>1
<1>5. /\ Stays(l, n) /\ l.got = r.got /\ Moved(r, l, 4)
      /\ 4 <= r.left => l.last = Bytes(len, 4)
  BY <1>2, PopHeld, PopStays
<1>6. x = IF c.ok THEN Got(c, Fill(type, was, l, c)) ELSE c
  BY DEF pop_container
<1> HIDE DEF l, x
<1>7. CASE ~ (4 <= r.left)
  <2>1. ~ l.ok /\ ~ c.ok /\ ~ x.ok
    BY <1>5, <1>6, <1>7 DEF Moved
  <2>2. ~ (Len(Counted(es)) <= r.left)
    BY <1>1, <1>2, <1>4, <1>7
  <2> QED  BY <2>1, <2>2 DEF Moved, x
<1>8. CASE 4 <= r.left
  <2>1. l.ok /\ l.at = r.at + 4 /\ l.left = r.left - 4 /\ Number(l.last) = len
    BY <1>3, <1>5, <1>8 DEF Moved
  <2>2. c = pop_elements(l, len, type)
    BY <2>1
  <2> HIDE DEF c
  <2>3. l \in Readers(n, r.got)
    BY <1>5 DEF Stays
  <2>4. c \in Readers(n, r.got) /\ Moved(l, c, w * len)
    BY <1>0, <2>1, <2>2, <2>3, PopElements DEF w
  <2>5. Stays(c, n) /\ c.got = r.got
    BY <2>4 DEF Stays, Readers
  <2>6. CASE w * len <= l.left
    <3>1. c.ok /\ c.at = l.at + w * len /\ c.left = l.left - w * len
      BY <2>4, <2>6 DEF Moved
    <3>2. l.at \in Nat
      BY <1>1, <2>1
    <3>3. Fill(type, was, l, c) = Filled(type, was, es)
      <4>1. Between(n, l, c, es, w)
        <5>1. c.at \in Nat /\ c.left \in Nat /\ c.at + c.left <= n
          BY <2>5, StaysType
        <5>2. c.at <= n
          BY <5>1
        <5> QED  BY <1>2, <2>1, <3>1, <3>2, <5>2 DEF Between, len
      <4>2. es \in Seq(Sized(w)) /\ w = Wide(type)
        BY DEF w
      <4> QED  BY <4>1, <4>2, FillRead
    <3>4. x = Got(c, Filled(type, was, es))
      BY <1>6, <3>1, <3>3
    <3>5. /\ x.ok /\ x.at = c.at /\ x.left = c.left
          /\ x.got = Append(r.got, Filled(type, was, es))
      BY <2>5, <3>1, <3>4, GotFacts
    <3>6. x.at = r.at + (4 + w * len) /\ x.left = r.left - (4 + w * len)
      BY <1>1, <1>4, <2>1, <3>1, <3>5
    <3>7. 4 + w * len <= r.left
      BY <1>1, <1>4, <2>1, <2>6
    <3> QED  BY <1>2, <3>5, <3>6, <3>7 DEF Moved, x
  <2>7. CASE ~ (w * len <= l.left)
    <3>1. ~ c.ok /\ ~ x.ok
      BY <1>6, <2>4, <2>7 DEF Moved
    <3>2. ~ (4 + w * len <= r.left)
      BY <1>1, <1>4, <2>1, <2>7
    <3> QED  BY <1>2, <3>1, <3>2 DEF Moved, x
  <2> QED  BY <2>6, <2>7
<1> QED BY <1>7, <1>8

(* The bytes of a field. *)
CodeOf(type, val) == FlattenSeq(PushField(type, val))

Blank(type) == IF type = "set" THEN {} ELSE <<>>

(* What the value got for a field must be, if val was sent. *)
Matches(field, got, val) == got = Merged(field.type, field.was, val)

LEMMA MatchesBlank ==
    ASSUME NEW type, NEW val, HasType(type, val)
    PROVE  Merged(type, Blank(type), val) = val
<1>1. CASE type = "set"
  BY <1>1 DEF Merged, Blank
<1>2. CASE type = "map"
  <2>1. val = [k \in DOMAIN val |-> val[k]] /\ Blank(type) = <<>> /\ DOMAIN <<>> = {}
    BY <1>2 DEF HasType, Blank
  <2>2. Merged(type, <<>>, val) = [k \in DOMAIN val |-> val[k]]
    BY <1>2, <2>1 DEF Merged
  <2> QED  BY <2>1, <2>2
<1>3. CASE type = "vector"
  BY <1>3 DEF Merged, Blank
<1>4. CASE type \notin Containers
  BY <1>4 DEF Merged, Containers
<1> QED BY <1>1, <1>2, <1>3, <1>4 DEF Containers

(* The reader r got the value that was sent, or not all bytes of it; if it  *)
(* was a double, no less is left.                                           *)
FieldRead(r, x, field, val) ==
    LET len == Len(CodeOf(field.type, val)) IN
    IF len <= r.left
    THEN /\ x.ok /\ x.at = r.at + len
         /\ x.left = r.left - len \/ x.left = r.left
         /\ \E v : x.got = Append(r.got, v) /\ Matches(field, v, val)
    ELSE ~ x.ok

LEMMA SimpleReads ==
    ASSUME memory \in Seq(Octets), NEW n \in Nat, NEW r, Stays(r, n), r.ok,
           NEW field, field.type \in Types, NEW val, HasType(field.type, val),
           Holds(n, r.at, CodeOf(field.type, val)),
           field.type \notin Strings, field.type \notin Containers
    PROVE  FieldRead(r, PopField(r, field), field, val)
<1> DEFINE type == field.type
           w == Width(type)
           x == PopField(r, field)
           u == pop(r, w)
<1>1. val \in Sized(w) /\ w \in Nat /\ (type = "bool" => w = 1 /\ val \in {<<0>>, <<1>>})
  <2>1. val \in Sized(Width(type)) /\ (type = "bool" => val \in {<<0>>, <<1>>})
    BY DEF HasType, Strings
  <2>2. Width(type) \in {1, 2, 4, 8}
    BY OneOfTypes
  <2>3. Width("bool") = 1
    BY DEF Width
  <2> QED  BY <2>1, <2>2, <2>3
<1>2. val \in Seq(Octets) /\ Len(val) = w
  BY <1>1, SizedSeq
<1>3. CodeOf(type, val) = val
  <2>1. PushField(type, val) = <<val>>
    BY DEF PushField, Strings, Containers
  <2> QED  BY <1>2, <2>1, FlattenOne DEF CodeOf
<1>4. Holds(n, r.at, val)
  BY <1>3
<1>5. /\ Moved(r, u, w) /\ u.got = r.got /\ Stays(u, n)
      /\ w <= r.left => u.last = val
  BY <1>1, <1>4, PopHeld, PopStays
<1>6. Matches(field, val, val)
  BY DEF Matches, Merged, Containers
<1>7. CASE type # "double"
  <2>1. \E v : x = Got(u, v) /\ (u.last = val => v = val)
    <3>1. CASE type = "bool"
      <4>1. x = Got(u, IF u.last = <<0>> THEN <<0>> ELSE <<1>>)
        BY <1>1, <3>1 DEF PopField, pop_bool, Containers
      <4>2. u.last = val => (IF u.last = <<0>> THEN <<0>> ELSE <<1>>) = val
        BY <1>1, <3>1
      <4> QED  BY <4>1, <4>2
    <3>2. CASE type # "bool"
      <4>1. x = Got(u, u.last)
        BY <1>7, <3>2 DEF PopField, Strings
      <4> QED  BY <4>1
    <3> QED  BY <3>1, <3>2
  <2>2. PICK v : x = Got(u, v) /\ (u.last = val => v = val)
    BY <2>1
  <2> HIDE DEF x, u, w
  <2>3. CASE w <= r.left
    <3>1. u.ok /\ u.at = r.at + w /\ u.left = r.left - w /\ x = Got(u, val)
      BY <1>5, <2>2, <2>3 DEF Moved
    <3>2. x.ok /\ x.at = u.at /\ x.left = u.left /\ x.got = Append(r.got, val)
      BY <1>5, <3>1, GotFacts
    <3> QED  BY <1>2, <1>3, <1>6, <2>3, <3>1, <3>2 DEF FieldRead, x
  <2>4. CASE ~ (w <= r.left)
    <3>1. ~ u.ok
      BY <1>5, <2>4 DEF Moved
    <3>2. ~ x.ok
      BY <1>5, <2>2, <3>1, GotFacts
    <3> QED  BY <1>2, <1>3, <2>4, <3>2 DEF FieldRead, x
  <2> QED  BY <2>3, <2>4
<1>8. CASE type = "double"
  <2> DEFINE d == pop_double(r)
  <2>1. w = 8 /\ x = Got(d, d.last)
    BY <1>8 DEF Width, PopField, Containers
  <2>2. r.left \in Nat /\ r.at \in Nat
    BY StaysType
  <2>3. r = [at |-> r.at, left |-> r.left, last |-> r.last, got |-> r.got, ok |-> r.ok]
    BY DEF Stays, Readers
  <2>4. CASE w <= r.left
    <3>1. d = Passed(r, w)
      <4>1. ~ (r.left < w) /\ w = Width("double")
        BY <1>8, <2>1, <2>2, <2>4
      <4> HIDE DEF w
      <4> QED  BY <4>1 DEF pop_double
    <3>2. [i \in 1..w |-> Byte(r.at + i)] = val
      <4>1. val = [i \in 1..w |-> val[i]]
        BY <1>1 DEF Sized
      <4>2. \A i \in 1..w : r.at + i <= n
        <5>1. r.at + r.left <= n
          BY StaysType
        <5> HIDE DEF w
        <5> QED  BY <1>1, <2>2, <2>4, <5>1
      <4>3. \A i \in 1..w : Byte(r.at + i) = val[i]
        BY <1>2, <1>4, <4>2 DEF Holds
      <4> QED  BY <4>1, <4>3
    <3>3. Passed(r, w) = [at |-> r.at + w, left |-> r.left,
                          last |-> [i \in 1..w |-> Byte(r.at + i)],
                          got |-> r.got, ok |-> r.ok]
      BY <1>1, PassedFacts
    <3>4. d = [at |-> r.at + w, left |-> r.left, last |-> val, got |-> r.got, ok |-> TRUE]
      BY <3>1, <3>2, <3>3
    <3> HIDE DEF d, x, w
    <3> DEFINE more == Append(r.got, val)
    <3>5. Got(d, val) = [d EXCEPT !.got = more]
      BY <3>4 DEF Got
    <3> HIDE DEF more
    <3>6. x.ok /\ x.at = r.at + w /\ x.left = r.left /\ x.got = more
      BY <2>1, <3>4, <3>5
    <3> QED  BY <1>2, <1>3, <1>6, <1>8, <2>4, <3>6 DEF FieldRead, x, more
  <2>5. CASE ~ (w <= r.left)
    <3>1. d = Throw(r)
      BY <1>8, <2>1, <2>2, <2>5 DEF pop_double, w
    <3>2. ~ x.ok
      BY <2>1, <2>3, <3>1 DEF Throw, Got
    <3> QED  BY <1>2, <1>3, <2>5, <3>2 DEF FieldRead
  <2> QED  BY <2>4, <2>5
<1> QED BY <1>7, <1>8

LEMMA StringReads ==
    ASSUME memory \in Seq(Octets), NEW n \in Nat, NEW r, Stays(r, n), r.ok,
           NEW field, field.type \in Strings, NEW val, HasType(field.type, val),
           Holds(n, r.at, CodeOf(field.type, val)), Small(Len(CodeOf(field.type, val)))
    PROVE  FieldRead(r, PopField(r, field), field, val)
<1> DEFINE type == field.type
           w == IF type = "string" THEN 2 ELSE 4
           count == Bytes(Len(val), w)
           x == PopField(r, field)
           l == pop(r, w)
           s == IF l.ok THEN pop(l, Number(l.last)) ELSE l
<1>1. w \in {2, 4} /\ w \in Nat
  OBVIOUS
<1>2. x = Got(s, s.last)
  <2>1. type = "string" \/ type = "string32"
    BY DEF Strings
  <2>2. x = pop_varstr(r, w)
    <3>1. CASE type = "string"
      BY <3>1 DEF PopField, Containers
    <3>2. CASE type = "string32"
      BY <3>2 DEF PopField, Containers
    <3> QED  BY <2>1, <3>1, <3>2
  <2> QED  BY <2>2 DEF pop_varstr
<1>3. PushField(type, val) = <<count, val>>
  BY DEF PushField, push_varstr, Strings
<1> HIDE DEF w
<1>4. val \in Seq(Octets) /\ Len(val) \in Nat
  BY DEF HasType, Strings
<1>5. count \in Sized(w) /\ count \in Seq(Octets) /\ Len(count) = w
  BY <1>1, <1>4, BytesType, SizedSeq
<1>6. CodeOf(type, val) = count \o val
  <2> DEFINE a == <<count>>
             b == <<val>>
  <2>1. a \in Seq(Seq(Octets)) /\ b \in Seq(Seq(Octets)) /\ PushField(type, val) = a \o b
    BY <1>3, <1>4, <1>5
  <2>2. FlattenSeq(a) = count /\ FlattenSeq(b) = val
    BY <1>4, <1>5, FlattenOne
  <2> HIDE DEF a, b
  <2>3. FlattenSeq(a \o b) = FlattenSeq(a) \o FlattenSeq(b)
    BY <2>1, FlattenConcat
  <2> QED  BY <2>1, <2>2, <2>3 DEF CodeOf
<1>7. Len(CodeOf(type, val)) = w + Len(val) /\ Small(Len(val))
  <2> HIDE DEF count
  <2>1. Len(count \o val) = Len(count) + Len(val)
    BY <1>4, <1>5, ConcatProperties
  <2>2. Len(CodeOf(type, val)) = w + Len(val)
    BY <1>5, <1>6, <2>1
  <2> QED  BY <1>1, <1>4, <2>2 DEF Small
<1>8. Number(count) = Len(val)
  BY <1>1, <1>4, <1>7, BytesOfNumber
<1> HIDE DEF count
<1>9. Holds(n, r.at, count) /\ Holds(n, r.at + w, val) /\ r.at \in Nat /\ r.left \in Nat
  <2>1. Holds(n, r.at, count \o val) /\ r.at \in Nat /\ r.left \in Nat
    BY <1>6, StaysType
  <2> QED  BY <1>4, <1>5, <2>1, HoldsConcat
<1>10. /\ Moved(r, l, w) /\ l.got = r.got /\ Stays(l, n)
       /\ w <= r.left => l.last = count
  BY <1>1, <1>5, <1>9, PopHeld, PopStays
<1> HIDE DEF l, x
<1>11. CASE ~ (w <= r.left)
  <2>1. ~ l.ok /\ s = l
    BY <1>10, <1>11 DEF Moved
  <2>2. ~ x.ok
    BY <1>2, <1>10, <2>1, GotFacts
  <2>3. ~ (Len(CodeOf(type, val)) <= r.left)
    BY <1>1, <1>7, <1>9, <1>11
  <2> QED  BY <2>2, <2>3 DEF FieldRead, x
<1>12. CASE w <= r.left
  <2>1. l.ok /\ l.at = r.at + w /\ l.left = r.left - w /\ Number(l.last) = Len(val)
    BY <1>8, <1>10, <1>12 DEF Moved
  <2>2. s = pop(l, Len(val))
    BY <2>1
  <2>3. val \in Sized(Len(val)) /\ Holds(n, l.at, val)
    BY <1>4, <1>9, <2>1, SeqSized
  <2> HIDE DEF s
  <2>4. /\ Moved(l, s, Len(val)) /\ s.got = r.got /\ Stays(s, n)
        /\ Len(val) <= l.left => s.last = val
    <3> DEFINE k == Len(val)
    <3>1. /\ k \in Nat /\ s = pop(l, k) /\ val \in Sized(k) /\ Holds(n, l.at, val)
          /\ l.ok /\ Stays(l, n) /\ l.got = r.got
      BY <1>4, <1>10, <2>1, <2>2, <2>3
    <3> HIDE DEF k
    <3>2. /\ Moved(l, s, k) /\ s.got = l.got
          /\ k <= l.left => s.last = val
      BY <3>1, PopHeld
    <3>3. Stays(s, n)
      BY <3>1, PopStays
    <3> QED  BY <3>1, <3>2, <3>3 DEF k
  <2>5. CASE Len(val) <= l.left
    <3>1. s.ok /\ s.at = l.at + Len(val) /\ s.left = l.left - Len(val) /\ x = Got(s, val)
      BY <1>2, <2>4, <2>5 DEF Moved
    <3>2. x.ok /\ x.at = s.at /\ x.left = s.left /\ x.got = Append(r.got, val)
      <4>1. Stays(s, n) /\ s.ok /\ s.got = r.got /\ x = Got(s, val)
        BY <2>4, <3>1
      <4> HIDE DEF x, s
      <4> QED  BY ONLY <4>1, GotFacts
    <3>3. Matches(field, val, val)
      BY DEF Matches, Merged, Strings
    <3>4. /\ x.at = r.at + (w + Len(val)) /\ x.left = r.left - (w + Len(val))
          /\ w + Len(val) <= r.left
      <4> DEFINE k == Len(val)
      <4>1. /\ k \in Nat /\ r.at \in Nat /\ r.left \in Nat /\ w \in Nat
            /\ x.at = (r.at + w) + k /\ x.left = (r.left - w) - k /\ k <= r.left - w
        BY <1>1, <1>4, <1>9, <2>1, <2>5, <3>1, <3>2
      <4> HIDE DEF k
      <4>2. /\ x.at = r.at + (w + k) /\ x.left = r.left - (w + k)
            /\ w + k <= r.left
        BY <4>1
      <4> QED  BY <4>2 DEF k
    <3> QED  BY <1>7, <3>2, <3>3, <3>4 DEF FieldRead, x
  <2>6. CASE ~ (Len(val) <= l.left)
    <3>1. ~ s.ok
      BY <2>4, <2>6 DEF Moved
    <3>2. ~ x.ok
      BY <1>2, <2>4, <3>1, GotFacts
    <3>3. ~ (w + Len(val) <= r.left)
      BY <1>1, <1>4, <1>9, <2>1, <2>6
    <3> QED  BY <1>7, <3>2, <3>3 DEF FieldRead, x
  <2> QED  BY <2>5, <2>6
<1> QED BY <1>11, <1>12

LEMMA CountedCode ==
    ASSUME NEW es \in Seq(Seq(Octets)), NEW ps \in Seq(Seq(Octets)),
           FlattenSeq(ps) = FlattenSeq(es)
    PROVE  FlattenSeq(<<Bytes(Len(es), 4)>> \o ps) = Counted(es)
<1> DEFINE count == Bytes(Len(es), 4)
           a == <<count>>
<1>1. count \in Seq(Octets)
  BY BytesType, SizedSeq
<1> HIDE DEF count
<1>2. a \in Seq(Seq(Octets))
  BY <1>1
<1>3. FlattenSeq(a) = count
  BY <1>1, FlattenOne
<1> HIDE DEF a
<1>4. FlattenSeq(a \o ps) = FlattenSeq(a) \o FlattenSeq(ps)
  BY <1>2, FlattenConcat
<1>5. FlattenSeq(a \o ps) = count \o FlattenSeq(es)
  BY <1>3, <1>4
<1> QED BY <1>5 DEF Counted, a, count

LEMMA FirstFacts ==
    ASSUME NEW keys, NEW n \in Nat, DOMAIN keys = 1..n, NEW k \in ToSet(keys)
    PROVE  First(keys, k) \in 1..n /\ keys[First(keys, k)] = k
<1> DEFINE S == {i \in 1..n : keys[i] = k}
<1>1. S \in SUBSET Nat /\ S # {}
  BY DEF ToSet
<1> HIDE DEF S
<1>2. PICK i \in S : \A j \in S : i <= j
  BY <1>1, Pops!Least
<1>3. i \in DOMAIN keys /\ keys[i] = k
  BY <1>2 DEF S
<1>4. \A j \in 1..(i - 1) : keys[j] # k
  <2> SUFFICES ASSUME NEW j \in 1..(i - 1), keys[j] = k PROVE FALSE
    OBVIOUS
  <2>1. i \in 1..n /\ j \in 1..n
    BY <1>3
  <2>2. j \in S
    BY <2>1 DEF S
  <2> QED  BY <1>2, <2>1, <2>2
<1>5. \E i0 \in DOMAIN keys : keys[i0] = k /\ \A j \in 1..(i0 - 1) : keys[j] # k
  BY <1>3, <1>4
<1> QED BY <1>5 DEF First

LEMMA TwoPieces ==
    ASSUME NEW S, NEW x \in S, NEW y \in S
    PROVE  <<x, y>> = <<x>> \o <<y>> /\ <<x>> \in Seq(S) /\ <<y>> \in Seq(S)
<1> DEFINE a == <<x>>
           b == <<y>>
           c == a \o b
<1>1. a \in Seq(S) /\ b \in Seq(S) /\ Len(a) = 1 /\ Len(b) = 1 /\ a[1] = x /\ b[1] = y
  OBVIOUS
<1> HIDE DEF a, b
<1>2. c \in Seq(S) /\ Len(c) = Len(a) + Len(b)
  BY <1>1, ConcatProperties
<1>3. \A i \in 1..(Len(a) + Len(b)) : c[i] = IF i <= Len(a) THEN a[i] ELSE b[i - Len(a)]
  BY <1>1, ConcatProperties
<1> HIDE DEF c
<1>4. c[1] = x /\ c[2] = y /\ Len(c) = 2
  <2>1. c[1] = a[1] /\ c[2] = b[2 - 1] /\ 2 - 1 = 1 /\ Len(c) = 2
     BY <1>1, <1>2, <1>3
  <2> QED BY <1>1, <2>1
<1> DEFINE t == <<x, y>>
<1>5. t \in Seq(S) /\ Len(t) = 2 /\ t[1] = x /\ t[2] = y
  OBVIOUS
<1> HIDE DEF t
<1>6. c = t
  <2>1. \A i \in 1..2 : i = 1 \/ i = 2
    OBVIOUS
  <2>2. c \in [1..2 -> S] /\ t \in [1..2 -> S]
    <3>1. c \in [1..Len(c) -> S] /\ t \in [1..Len(t) -> S]
      BY <1>2, <1>5, LenProperties
    <3> QED  BY <1>4, <1>5, <3>1
  <2>3. \A i \in 1..2 : c[i] = t[i]
    BY <1>4, <1>5, <2>1
  <2> QED  BY <2>2, <2>3
<1> QED BY <1>1, <1>6 DEF c, a, b, t

(* Every container is pushed as its elements, counted, and what they are    *)
(* inserted into matches what was sent.                                     *)
LEMMA ContainerCode ==
    ASSUME NEW field, field.type \in Containers, NEW val, HasType(field.type, val)
    PROVE  \E es \in Seq(Sized(Wide(field.type))) :
              /\ CodeOf(field.type, val) = Counted(es)
              /\ Matches(field, Filled(field.type, field.was, es), val)
<1> DEFINE type == field.type
           was == field.was
<1>1. CASE type = "vector"
  <2>1. val \in Seq(Sized(2)) /\ Wide(type) = 2
    BY <1>1 DEF HasType, Wide
  <2>2. val \in Seq(Seq(Octets))
    BY <2>1, SomeSized
  <2>3. PushField(type, val) = <<Bytes(Len(val), 4)>> \o val
    BY <1>1 DEF PushField, push_vector
  <2>4. CodeOf(type, val) = Counted(val)
    BY <2>2, <2>3, CountedCode DEF CodeOf
  <2>5. Matches(field, Filled(type, was, val), val)
    BY <1>1 DEF Matches, Filled, Merged
  <2> QED  BY <2>1, <2>4, <2>5
<1>2. CASE type = "set"
  <2> DEFINE es == InOrder(val)
  <2>1. val \in SUBSET Sized(2) /\ IsFiniteSet(val) /\ Wide(type) = 2
    BY <1>2 DEF HasType, Wide
  <2>2. es \in Seq(Sized(2)) /\ ToSet(es) = val
    BY <2>1, OrderType, InOrderFacts
  <2>3. PushField(type, val) = <<Bytes(Len(es), 4)>> \o es
    BY <1>2 DEF PushField, push_set, push_vector
  <2> HIDE DEF es
  <2>4. es \in Seq(Seq(Octets))
    BY <2>2, SomeSized
  <2>5. CodeOf(type, val) = Counted(es)
    BY <2>3, <2>4, CountedCode DEF CodeOf
  <2>6. Matches(field, Filled(type, was, es), val)
    BY <1>2, <2>2 DEF Matches, Filled, Merged
  <2> QED  BY <2>1, <2>2, <2>5, <2>6
<1>3. CASE type = "map"
  <2> DEFINE keys == InOrder(DOMAIN val)
             n == Len(keys)
             pairs == PairsOf(val, keys)
             es == [i \in 1..n |-> FlattenSeq(pairs[i])]
  <2>1. HasType("map", val) /\ Wide(type) = 3
    BY <1>3 DEF Wide
  <2>2. /\ keys \in Seq(Sized(2)) /\ pairs \in Seq(Seq(Seq(Octets))) /\ Len(pairs) = n
        /\ \A i \in 1..n : /\ keys[i] \in DOMAIN val /\ val[keys[i]] \in Sized(1)
                            /\ pairs[i] = <<keys[i], val[keys[i]]>>
    BY <2>1, PairsType
  <2>3. /\ DOMAIN val \in SUBSET Sized(2) /\ IsFiniteSet(DOMAIN val)
        /\ val = [k \in DOMAIN val |-> val[k]]
    BY <2>1 DEF HasType
  <2>4. ToSet(keys) = DOMAIN val
    BY <2>3, InOrderFacts
  <2>5. PushField(type, val) = <<Bytes(n, 4)>> \o FlattenSeq(pairs)
    BY <1>3 DEF PushField, push_map, PairsOf
  <2> HIDE DEF keys, pairs
  <2>6. n \in Nat /\ \A i \in 1..n : keys[i] \in Sized(2)
    BY <2>2
  <2>7. ASSUME NEW i \in 1..n
        PROVE  /\ es[i] \in Sized(3)
               /\ keys[i] = [b \in 1..2 |-> es[i][0 + b]]
               /\ val[keys[i]] = [b \in 1..1 |-> es[i][2 + b]]
    <3> DEFINE k == keys[i]
               v == val[keys[i]]
               a == <<k>>
               c == <<v>>
    <3>1. /\ k \in Sized(2) /\ v \in Sized(1)
          /\ k = [b \in 1..2 |-> k[b]] /\ v = [b \in 1..1 |-> v[b]]
      BY <2>2, <2>6 DEF Sized
    <3>2. k \in Seq(Octets) /\ Len(k) = 2 /\ v \in Seq(Octets) /\ Len(v) = 1
      BY <3>1, SizedSeq
    <3>3. es[i] = FlattenSeq(<<k, v>>)
      BY <2>2
    <3> HIDE DEF k, v, es
    <3>4. <<k, v>> = a \o c /\ a \in Seq(Seq(Octets)) /\ c \in Seq(Seq(Octets))
      BY <3>2, TwoPieces
    <3>5. FlattenSeq(a) = k /\ FlattenSeq(c) = v
      BY <3>2, FlattenOne
    <3> HIDE DEF a, c
    <3>6. FlattenSeq(a \o c) = FlattenSeq(a) \o FlattenSeq(c)
      BY <3>4, FlattenConcat
    <3>7. es[i] = k \o v
      <4>1. FlattenSeq(<<k, v>>) = FlattenSeq(a \o c)
        BY <3>4
      <4> QED  BY ONLY <3>3, <3>5, <3>6, <4>1
    <3>8. es[i] \in Seq(Octets) /\ Len(es[i]) = 3
      <4>1. k \o v \in Seq(Octets) /\ Len(k \o v) = Len(k) + Len(v)
        BY ONLY <3>2, ConcatProperties
      <4>2. Len(k) + Len(v) = 3
        BY ONLY <3>2
      <4> QED  BY ONLY <3>7, <4>1, <4>2
    <3>9. es[i] \in Sized(3)
      BY <3>8, SeqSized
    <3>10. (\A b \in 1..2 : es[i][b] = k[b]) /\ es[i][3] = v[1]
      <4> DEFINE e == k \o v
      <4>1. \A b \in 1..(2 + 1) : e[b] = IF b <= 2 THEN k[b] ELSE v[b - 2]
        <5>1. \A b \in 1..(Len(k) + Len(v)) :
                 e[b] = IF b <= Len(k) THEN k[b] ELSE v[b - Len(k)]
          BY <3>2, ConcatProperties
        <5> QED  BY <3>2, <5>1
      <4> HIDE DEF e
      <4>2. \A b \in 1..2 : e[b] = k[b]
        BY <4>1
      <4>3. e[3] = v[3 - 2] /\ 3 - 2 = 1
        BY <4>1
      <4>4. e[3] = v[1]
        BY <4>3
      <4> QED  BY <3>7, <4>2, <4>4 DEF e
    <3>11. k = [b \in 1..2 |-> es[i][0 + b]]
      <4>1. \A b \in 1..2 : 0 + b = b
        OBVIOUS
      <4>2. \A b \in 1..2 : es[i][0 + b] = k[b]
        BY <3>10, <4>1
      <4> QED  BY <3>1, <4>2
    <3>12. v = [b \in 1..1 |-> es[i][2 + b]]
      <4>1. \A b \in 1..1 : b = 1 /\ 2 + b = 3
        OBVIOUS
      <4>2. \A b \in 1..1 : es[i][2 + b] = v[b]
        BY <3>10, <4>1
      <4> QED  BY <3>1, <4>2
    <3> QED  BY <3>9, <3>11, <3>12 DEF k, v
  <2>8. es \in Seq(Sized(3)) /\ Len(es) = n
    <3>1. es \in [1..n -> Sized(3)]
      BY <2>7
    <3> HIDE DEF es
    <3> QED  BY <2>6, <3>1
  <2>9. es \in Seq(Seq(Octets)) /\ FlattenSeq(FlattenSeq(pairs)) = FlattenSeq(es)
    <3>1. es = [i \in 1..Len(pairs) |-> FlattenSeq(pairs[i])]
      BY <2>2
    <3> HIDE DEF es
    <3> QED  BY <2>2, <3>1, FlattenTwice
  <2>10. FlattenSeq(pairs) \in Seq(Seq(Octets))
    BY <2>2, FlattenType
  <2> DEFINE K == PartsOf(es, 2, 0)
             V == PartsOf(es, 1, 2)
  <2>11. Filled(type, was, es) = Inserted(was, K, V)
    BY <1>3 DEF Filled
  <2>12. /\ K = keys
         /\ DOMAIN V = 1..n /\ \A i \in 1..n : V[i] = val[keys[i]]
    <3>1. keys = [i \in 1..n |-> keys[i]]
      BY <2>2
    <3> HIDE DEF es
    <3>2. DOMAIN K = 1..n /\ \A i \in 1..n : K[i] = [b \in 1..2 |-> es[i][0 + b]]
      BY <2>8 DEF PartsOf
    <3>3. \A i \in 1..n : K[i] = keys[i]
      BY <2>7, <3>2
    <3>4. K = [i \in 1..n |-> keys[i]]
      <4>1. K = [i \in 1..n |-> K[i]]
        BY <2>8 DEF PartsOf
      <4> HIDE DEF K
      <4> QED  BY <3>3, <4>1
    <3>5. DOMAIN V = 1..n /\ \A i \in 1..n : V[i] = [b \in 1..1 |-> es[i][2 + b]]
      BY <2>8 DEF PartsOf
    <3>6. \A i \in 1..n : V[i] = val[keys[i]]
      BY <2>7, <3>5
    <3> QED  BY <3>1, <3>4, <3>5, <3>6
  <2> HIDE DEF es, K, V
  <2>13. CodeOf(type, val) = Counted(es)
    BY <2>5, <2>8, <2>9, <2>10, CountedCode DEF CodeOf
  <2>14. Inserted(was, K, V)
           = [k \in DOMAIN was \cup DOMAIN val |->
                IF k \in DOMAIN was THEN was[k] ELSE V[First(keys, k)]]
    BY <2>4, <2>12 DEF Inserted
  <2>15. \A k \in DOMAIN val : V[First(keys, k)] = val[k]
    <3>1. DOMAIN keys = 1..n
      BY <2>2
    <3>2. \A k \in DOMAIN val : First(keys, k) \in 1..n /\ keys[First(keys, k)] = k
      BY <2>4, <2>6, <3>1, FirstFacts
    <3> QED  BY <2>12, <3>2
  <2>16. Inserted(was, K, V)
           = [k \in DOMAIN was \cup DOMAIN val |->
                IF k \in DOMAIN was THEN was[k] ELSE val[k]]
    BY <2>14, <2>15
  <2>17. Matches(field, Filled(type, was, es), val)
    BY <1>3, <2>11, <2>16 DEF Matches, Merged
  <2> QED  BY <2>1, <2>8, <2>13, <2>17
<1> QED BY <1>1, <1>2, <1>3 DEF Containers

LEMMA FieldReads ==
    ASSUME memory \in Seq(Octets), NEW n \in Nat, NEW r, Stays(r, n), r.ok,
           NEW field, field.type \in Types, NEW val, HasType(field.type, val),
           Holds(n, r.at, CodeOf(field.type, val)), Small(Len(CodeOf(field.type, val)))
    PROVE  FieldRead(r, PopField(r, field), field, val)
<1>1. CASE field.type \in Containers
  <2>1. PICK es \in Seq(Sized(Wide(field.type))) :
              /\ CodeOf(field.type, val) = Counted(es)
              /\ Matches(field, Filled(field.type, field.was, es), val)
    BY <1>1, ContainerCode
  <2> DEFINE x == PopField(r, field)
  <2>2. x = pop_container(r, field.type, field.was)
    BY <1>1 DEF PopField, Containers
  <2>3. /\ Moved(r, x, Len(Counted(es)))
        /\ Len(Counted(es)) <= r.left =>
              x.got = Append(r.got, Filled(field.type, field.was, es))
    <3>1. Holds(n, r.at, Counted(es)) /\ Small(Len(Counted(es)))
      BY <2>1
    <3> QED  BY <1>1, <2>2, <3>1, ContainerReads
  <2> HIDE DEF x
  <2>4. FieldRead(r, x, field, val)
    BY <2>1, <2>3 DEF FieldRead, Moved
  <2> QED  BY <2>4 DEF x
<1>2. CASE field.type \in Strings
  BY <1>2, StringReads
<1>3. CASE field.type \notin Containers /\ field.type \notin Strings
  BY <1>3, SimpleReads
<1> QED BY <1>1, <1>2, <1>3
-----------------------------------------------------------------------------
(* A message is read back field by field. *)

LEMMA PopFailed ==
    ASSUME NEW r, ~ r.ok, NEW field, field.type \in Types
    PROVE  ~ PopField(r, field).ok
<1> DEFINE type == field.type
           x == PopField(r, field)
<1>1. \A w : pop(r, w) = r
  BY DEF pop
<1>2. \A v : Got(r, v) = r
  BY DEF Got
<1>3. pop_double(r) = r
  BY DEF pop_double
<1>4. CASE type \in Strings
  <2>1. type = "string" \/ type = "string32"
    BY <1>4 DEF Strings
  <2>2. \A w : pop_varstr(r, w) = r
    BY <1>1, <1>2 DEF pop_varstr
  <2>3. type = "string" => x = pop_varstr(r, 2)
    BY DEF PopField, Containers
  <2>4. type = "string32" => x = pop_varstr(r, 4)
    BY DEF PopField, Containers
  <2>5. x = r
    <3> HIDE DEF x
    <3> QED  BY <2>1, <2>2, <2>3, <2>4
  <2> QED  BY <2>5
<1>5. CASE type \in Containers
  <2>1. x = pop_container(r, type, field.was)
    BY <1>5 DEF PopField, Containers
  <2>2. pop_container(r, type, field.was) = r
    BY <1>1 DEF pop_container
  <2> QED  BY <2>1, <2>2
<1>6. CASE type = "double"
  <2>1. x = Got(pop_double(r), pop_double(r).last)
    BY <1>6 DEF PopField, Containers
  <2>2. x = r
    <3> HIDE DEF x
    <3> QED  BY <1>2, <1>3, <2>1
  <2> QED  BY <2>2
<1>7. CASE type = "bool"
  <2>1. x = pop_bool(r)
    BY <1>7 DEF PopField, Containers
  <2>2. pop_bool(r) = r
    BY <1>1, <1>2 DEF pop_bool
  <2> QED  BY <2>1, <2>2
<1>8. CASE /\ type \notin Strings /\ type \notin Containers
           /\ type # "double" /\ type # "bool"
  <2> DEFINE u == pop(r, Width(type))
  <2>1. x = Got(u, u.last)
    BY <1>8 DEF PopField, Strings
  <2>2. x = r
    <3> HIDE DEF x
    <3> QED  BY <1>1, <1>2, <2>1
  <2> QED  BY <2>2
<1> QED BY <1>4, <1>5, <1>6, <1>7, <1>8

(* The header is read if all of it was given. *)
LEMMA HeaderRead ==
    ASSUME memory \in Seq(Octets), NEW n \in Nat, n <= MAX_PACKET_SIZE
    PROVE  LET r == PopHeader(Reader(n)) IN
           /\ Stays(r, n) /\ r.got = <<>>
           /\ IF HeaderSize <= n
              THEN r.ok /\ r.at = HeaderSize /\ r.left = n - HeaderSize
              ELSE ~ r.ok
<1> DEFINE ws == <<2, 2, 4, 2, 2>>
           r0 == Reader(n)
           r == PopHeader(r0)
<1>1. r0 \in Readers(n, <<>>) /\ r0.at = 0 /\ r0.left = n /\ r0.ok
  <2>1. n \in 0..Max64K /\ uint16(n) = n
    BY UintType, PacketAssumption DEF MAX_PACKET_SIZE
  <2>2. r0 \in Readers(n, <<>>)
    BY <2>1, ReaderStays
  <2> QED  BY <2>1, <2>2 DEF Reader
<1>2. /\ DOMAIN ws = 1..5 /\ ws \in Seq(Nat)
      /\ ws[1] = 2 /\ ws[2] = 2 /\ ws[3] = 4 /\ ws[4] = 2 /\ ws[5] = 2
  OBVIOUS
<1>3. r = FoldLeft(pop, r0, ws)
  BY DEF PopHeader
<1> HIDE DEF ws, r0, r
<1>4. r \in Readers(n, <<>>)
  BY <1>1, <1>2, <1>3, PopsStay
<1>5. PICK h : Pops!LeftRun(h, r0, ws, 5) /\ Pops!LeftFold(r0, ws) = h[5]
  <2>1. DOMAIN ws = 1..5 /\ 5 \in Nat
    BY <1>2
  <2> QED  BY ONLY <2>1, Pops!FoldLeftRun
<1>6. r = h[5]
  BY <1>3, <1>5, PopsFold
<1> DEFINE a == h[1]
           b == h[2]
           c == h[3]
           d == h[4]
           e == h[5]
<1>7. /\ a = pop(r0, 2) /\ b = pop(a, 2) /\ c = pop(b, 4) /\ d = pop(c, 2)
      /\ e = pop(d, 2)
  <2>1. h[0] = r0 /\ \A k \in 1..5 : h[k] = pop(h[k - 1], ws[k])
    BY <1>5 DEF Pops!LeftRun
  <2>2. /\ 1 \in 1..5 /\ 2 \in 1..5 /\ 3 \in 1..5 /\ 4 \in 1..5 /\ 5 \in 1..5
        /\ 1 - 1 = 0 /\ 2 - 1 = 1 /\ 3 - 1 = 2 /\ 4 - 1 = 3 /\ 5 - 1 = 4
    OBVIOUS
  <2>3. h[1] = pop(h[0], ws[1]) /\ h[2] = pop(h[1], ws[2])
    BY <2>1, <2>2
  <2>4. h[3] = pop(h[2], ws[3]) /\ h[4] = pop(h[3], ws[4])
    BY <2>1, <2>2
  <2>5. h[5] = pop(h[4], ws[5])
    BY <2>1, <2>2
  <2> QED  BY <1>2, <2>1, <2>3, <2>4, <2>5
<1> HIDE DEF a, b, c, d, e
<1> DEFINE Popped(x, y, w) == IF x.ok /\ w <= x.left
                            THEN y.ok /\ y.at = x.at + w /\ y.left = x.left - w
                            ELSE ~ y.ok
<1>8. ASSUME NEW x \in Readers(n, <<>>), NEW w \in Nat
      PROVE  pop(x, w) \in Readers(n, <<>>) /\ Popped(x, pop(x, w), w)
  BY PopFacts
<1> HIDE DEF Popped
<1>9. 2 \in Nat /\ 4 \in Nat
  OBVIOUS
<1>10. a \in Readers(n, <<>>) /\ Popped(r0, a, 2)
  BY <1>1, <1>7, <1>8, <1>9
<1>11. b \in Readers(n, <<>>) /\ Popped(a, b, 2)
  BY <1>7, <1>8, <1>9, <1>10
<1>12. c \in Readers(n, <<>>) /\ Popped(b, c, 4)
  BY <1>7, <1>8, <1>9, <1>11
<1>13. d \in Readers(n, <<>>) /\ Popped(c, d, 2)
  BY <1>7, <1>8, <1>9, <1>12
<1>14. Popped(d, e, 2)
  BY <1>7, <1>8, <1>9, <1>13
<1>15. IF 12 <= n THEN e.ok /\ e.at = 12 /\ e.left = n - 12 ELSE ~ e.ok
  <2>1. IF 4 <= n THEN b.ok /\ b.at = 4 /\ b.left = n - 4 ELSE ~ b.ok
    BY <1>1, <1>10, <1>11 DEF Popped
  <2>2. IF 8 <= n THEN c.ok /\ c.at = 8 /\ c.left = n - 8 ELSE ~ c.ok
    BY <1>1, <1>12, <2>1 DEF Popped
  <2>3. IF 10 <= n THEN d.ok /\ d.at = 10 /\ d.left = n - 10 ELSE ~ d.ok
    BY <1>1, <1>13, <2>2 DEF Popped
  <2> QED  BY <1>1, <1>14, <2>3 DEF Popped
<1>16. IF 12 <= n THEN r.ok /\ r.at = 12 /\ r.left = n - 12 ELSE ~ r.ok
  BY <1>6, <1>15 DEF e
<1>17. Stays(r, n) /\ r.got = <<>>
  BY <1>4 DEF Stays, Readers
<1> QED BY <1>16, <1>17 DEF HeaderSize, r, r0

(* The lengths of the beginnings of a flattened sequence. *)
LEMMA FlatLengths ==
    ASSUME NEW S, NEW ss \in Seq(Seq(S)), NEW f, Flat(f, ss)
    PROVE  /\ \A k \in 0..Len(ss) : Len(f[k]) \in Nat
           /\ \A k \in 1..Len(ss) : /\ Len(ss[k]) \in Nat
                                     /\ Len(f[k]) = Len(f[k - 1]) + Len(ss[k])
           /\ \A k \in 0..Len(ss) : Len(f[k]) <= Len(f[Len(ss)])
<1> DEFINE n == Len(ss)
<1>1. \A k \in 0..n : f[k] \in Seq(S)
  BY FlatType
<1>2. n \in Nat /\ \A k \in 1..n : ss[k] \in Seq(S)
  OBVIOUS
<1>3. \A k \in 1..n : f[k] = f[k - 1] \o ss[k]
  BY DEF Flat
<1> HIDE DEF n
<1>4. \A k \in 0..n : Len(f[k]) \in Nat
  BY <1>1
<1>5. ASSUME NEW k \in 1..n
      PROVE  Len(ss[k]) \in Nat /\ Len(f[k]) = Len(f[k - 1]) + Len(ss[k])
  <2>0. k - 1 \in 0..n
    BY <1>2
  <2> DEFINE a == f[k - 1]
             b == ss[k]
  <2>1. a \in Seq(S) /\ b \in Seq(S) /\ f[k] = a \o b
    BY <1>1, <1>2, <1>3, <2>0
  <2> HIDE DEF a, b
  <2>2. Len(a \o b) = Len(a) + Len(b) /\ Len(b) \in Nat
    BY <2>1, ConcatProperties
  <2> QED  BY <2>1, <2>2 DEF a, b
<1> DEFINE T == {j \in Nat : j <= n => Len(f[n - j]) <= Len(f[n])}
<1>6. 0 \in T
  <2>1. n - 0 = n /\ n \in 0..n
    BY <1>2
  <2>2. Len(f[n]) <= Len(f[n])
    BY <1>4, <2>1
  <2> QED  BY <2>1, <2>2
<1>7. ASSUME NEW j \in Nat, j \in T PROVE j + 1 \in T
  <2>1. CASE j + 1 <= n
    <3> DEFINE k == n - j
    <3>1. k \in 1..n /\ k - 1 \in 0..n /\ k - 1 = n - (j + 1) /\ n \in 0..n
      BY <1>2, <2>1
    <3>2. Len(f[k]) <= Len(f[n])
      BY <1>7, <1>2, <2>1
    <3> HIDE DEF k
    <3>3. /\ Len(f[k]) = Len(f[k - 1]) + Len(ss[k]) /\ Len(ss[k]) \in Nat
          /\ Len(f[k - 1]) \in Nat /\ Len(f[n]) \in Nat
      BY <1>4, <1>5, <3>1
    <3>4. Len(f[k - 1]) <= Len(f[n])
      <4> DEFINE x == Len(f[k - 1])
                 y == Len(ss[k])
                 z == Len(f[n])
      <4>1. x \in Nat /\ y \in Nat /\ z \in Nat /\ x + y <= z
        BY <3>2, <3>3
      <4> HIDE DEF x, y, z
      <4>2. x <= z
        BY <4>1
      <4> QED  BY <4>2 DEF x, z
    <3> QED  BY <3>1, <3>4
  <2>2. CASE ~ (j + 1 <= n)
    BY <2>2
  <2> QED  BY <2>1, <2>2
<1>8. \A j \in Nat : j \in T
  <2> HIDE DEF T
  <2> QED  BY <1>6, <1>7, Pops!Induct
<1>9. ASSUME NEW k \in 0..n PROVE Len(f[k]) <= Len(f[n])
  <2>1. n - k \in Nat /\ n - k <= n /\ n - (n - k) = k
    BY <1>2
  <2>2. n - k \in T
    <3> HIDE DEF T
    <3> QED  BY <1>8, <2>1
  <2> QED  BY <2>1, <2>2
<1> QED BY <1>4, <1>5, <1>9 DEF n

-----------------------------------------------------------------------------
(* The first message of a packet. *)

Own(m) == FlattenSeq(marshal(m))

(* While serialize has not thrown, the body is empty or begins with the     *)
(* bytes of the first message.                                              *)
Bodied ==
    throws = 0 =>
       /\ packed = <<>> => body = <<>>
       /\ packed # <<>> => \E rest \in Seq(Octets) : body = Own(packed[1]) \o rest

LEMMA BodiedNext == TypeOK /\ Bodied /\ [Next]_vars => Bodied'
<1> SUFFICES ASSUME TypeOK, Bodied, [Next]_vars PROVE Bodied'
  OBVIOUS
<1>1. packed \in Seq(Messages) /\ throws \in Nat
  BY PacketAssumption DEF TypeOK
<1>2. ASSUME NEW m \in Messages, serialize(m) PROVE Bodied'
  <2>1. /\ body' = body \o Own(m)
        /\ packed' = Append(packed, m) /\ throws' = throws
    BY <1>2, SerializeFacts DEF serialize, Own
  <2>2. /\ packed' # <<>>
        /\ packed'[1] = IF packed = <<>> THEN m ELSE packed[1]
    BY <1>1, <2>1
  <2>3. Own(m) \in Seq(Octets)
    BY MarshalType DEF Own
  <2>4. ASSUME throws' = 0, packed = <<>>
        PROVE  \E rest \in Seq(Octets) : body' = Own(packed'[1]) \o rest
    <3>1. body = <<>> /\ packed'[1] = m
      BY <2>1, <2>2, <2>4 DEF Bodied
    <3>2. <<>> \o Own(m) = Own(m) /\ Own(m) \o <<>> = Own(m) /\ <<>> \in Seq(Octets)
      BY <2>3, ConcatEmptySeq, EmptySeq
    <3>3. body' = Own(packed'[1]) \o <<>>
      BY <2>1, <3>1, <3>2
    <3> QED  BY <3>2, <3>3
  <2>5. ASSUME throws' = 0, packed # <<>>
        PROVE  \E rest \in Seq(Octets) : body' = Own(packed'[1]) \o rest
    <3> DEFINE own == Own(packed[1])
               more == Own(m)
    <3>1. PICK rest \in Seq(Octets) : body = own \o rest
      BY <2>1, <2>5 DEF Bodied
    <3>2. own \in Seq(Octets)
      <4>1. packed[1] \in Messages
        BY <1>1, <2>5
      <4> QED  BY <4>1, MarshalType DEF Own
    <3>3. body' = (own \o rest) \o more /\ packed'[1] = packed[1]
      BY <2>1, <2>2, <2>5, <3>1
    <3>4. more \in Seq(Octets)
      BY <2>3
    <3> HIDE DEF own, more
    <3>5. (own \o rest) \o more = own \o (rest \o more)
      BY ONLY <3>1, <3>2, <3>4, ConcatAssociative
    <3>6. rest \o more \in Seq(Octets)
      BY ONLY <3>1, <3>4, ConcatProperties
    <3>7. body' = own \o (rest \o more)
      BY <3>3, <3>5
    <3> QED  BY <3>3, <3>6, <3>7 DEF own
  <2> QED  BY <2>2, <2>4, <2>5 DEF Bodied
<1>3. ASSUME NEW m \in Messages, serializeThrows(m) PROVE Bodied'
  <2>1. throws' # 0
    BY <1>1, <1>3 DEF serializeThrows
  <2> QED  BY <2>1 DEF Bodied
<1>4. ASSUME clear PROVE Bodied'
  <2>1. packed' = <<>> /\ body' = <<>> /\ Len(<<>>) = 0
    BY <1>4 DEF clear
  <2> QED  BY <2>1 DEF Bodied
<1>5. ASSUME UNCHANGED encoder PROVE Bodied'
  BY <1>5 DEF encoder, Bodied
<1> QED BY <1>2, <1>3, <1>4, <1>5 DEF Next, Decoder, deserialize, vars

(* A Decoder finds the bytes of the packet that it was given, and anything  *)
(* behind them.                                                             *)
Remembered ==
    given # NoBytes =>
       \E rest \in Seq(Octets) : memory = SubSeq(body, 1, given - HeaderSize) \o rest

LEMMA RememberedNext == Remembered /\ [Next]_vars => Remembered'
<1> SUFFICES ASSUME Remembered, [Next]_vars PROVE Remembered'
  OBVIOUS
<1>1. ASSUME Rewritten PROVE Remembered'
  BY <1>1 DEF Rewritten, Remembered
<1>2. ASSUME NEW n \in 0..Max64K, NEW leftover \in Leftovers, Decoder(n, leftover)
      PROVE  Remembered'
  <2>1. leftover \in Seq(Octets)
    BY PacketAssumption
  <2>2. memory' = SubSeq(body', 1, given' - HeaderSize) \o leftover
    BY <1>2 DEF Decoder, encoder
  <2> QED  BY <2>1, <2>2 DEF Remembered
<1>3. ASSUME UNCHANGED <<body, given, memory>> PROVE Remembered'
  BY <1>3 DEF Remembered
<1> QED
  BY <1>1, <1>2, <1>3
     DEF Next, serialize, serializeThrows, clear, deserialize, vars, encoder, decoder

LEMMA MemoryHeld ==
    ASSUME TypeOK, Remembered, given # NoBytes, NEW i \in 1..Len(body),
           HeaderSize + i <= given
    PROVE  Byte(HeaderSize + i) = body[i]
<1> DEFINE n == given - HeaderSize
           part == SubSeq(body, 1, n)
           j == HeaderSize + i
<1>1. body \in Seq(Octets) /\ HeaderSize \in Nat /\ given \in Nat
  BY SizeType, PacketAssumption DEF TypeOK, NoBytes
<1>2. n \in Nat /\ n <= Len(body) /\ i \in 1..n
  <2>1. given <= size /\ size = HeaderSize + Len(body) /\ Len(body) \in Nat
    <3>1. given \in -1..size /\ size \in HeaderSize..Max64K
      BY SizeType DEF TypeOK
    <3>2. size = HeaderSize + Len(body)
      BY DEF size
    <3>3. size \in Int
      BY <1>1, <3>1, PacketAssumption
    <3> HIDE DEF size
    <3>4. given <= size
      BY <1>1, <3>1, <3>3
    <3> QED  BY <1>1, <3>2, <3>4
  <2> HIDE DEF size
  <2> QED  BY <1>1, <2>1
<1>3. PICK rest \in Seq(Octets) : memory = part \o rest
  BY DEF Remembered
<1>4. part \in Seq(Octets) /\ Len(part) = n /\ \A k \in 1..n : part[k] = body[k]
  <2> HIDE DEF n
  <2>1. \A k \in 1..n : body[k] \in Octets
    BY <1>1, <1>2
  <2> QED  BY <1>1, <1>2, <2>1, SubSeqProperties DEF part
<1> HIDE DEF part, n
<1>5. i \in 1..Len(memory) /\ memory[i] = part[i]
  <2>1. /\ Len(memory) = Len(part) + Len(rest) /\ Len(rest) \in Nat
        /\ \A k \in 1..Len(part) : memory[k] = part[k]
    <3>1. /\ Len(part \o rest) = Len(part) + Len(rest) /\ Len(rest) \in Nat
          /\ \A k \in 1..(Len(part) + Len(rest)) :
                (part \o rest)[k] = IF k <= Len(part) THEN part[k]
                                                     ELSE rest[k - Len(part)]
      <4>1. part \in Seq(Octets) /\ rest \in Seq(Octets) /\ Len(rest) \in Nat
        BY <1>4
      <4> QED  BY ONLY <4>1, ConcatProperties
    <3>2. \A k \in 1..Len(part) : k \in 1..(Len(part) + Len(rest)) /\ k <= Len(part)
      BY <1>2, <1>4, <3>1
    <3> QED  BY <1>3, <3>1, <3>2
  <2> QED  BY <1>2, <1>4, <2>1
<1>6. memory \in Seq(Octets) /\ j - HeaderSize = i
  BY <1>1 DEF TypeOK
<1> HIDE DEF j
<1>7. Byte(j) = body[i]
  BY <1>2, <1>4, <1>5, <1>6 DEF Byte
<1> QED BY <1>7 DEF j

(* The codes of the fields, one behind the other, are the body.             *)
Codes(m) == [i \in 1..Len(Fields[m.cmd]) |-> CodeOf(Fields[m.cmd][i], m.vals[i])]

LEMMA CodesOfMessage ==
    ASSUME NEW m \in Messages
    PROVE  /\ Codes(m) \in Seq(Seq(Octets)) /\ Len(Codes(m)) = Len(Fields[m.cmd])
           /\ FlattenSeq(marshal(m)) = FlattenSeq(Codes(m))
<1> DEFINE types == Fields[m.cmd]
           ps == PushesOf(m)
<1>1. /\ ps \in Seq(Seq(Seq(Octets))) /\ Len(ps) = Len(types)
      /\ marshal(m) = FlattenSeq(ps) /\ DOMAIN m.vals = 1..Len(types)
  BY MessageFacts
<1>2. \A i \in 1..Len(types) : ps[i] = PushField(types[i], m.vals[i])
  BY <1>1 DEF PushesOf
<1>3. Codes(m) = [i \in 1..Len(types) |-> CodeOf(types[i], m.vals[i])]
  BY DEF Codes
<1> HIDE DEF types, ps
<1>4. Codes(m) = [i \in 1..Len(ps) |-> FlattenSeq(ps[i])]
  BY <1>1, <1>2, <1>3 DEF CodeOf
<1>5. /\ Codes(m) \in Seq(Seq(Octets)) /\ Len(Codes(m)) = Len(ps)
      /\ FlattenSeq(FlattenSeq(ps)) = FlattenSeq(Codes(m))
  <2> DEFINE cs == Codes(m)
  <2>1. ps \in Seq(Seq(Seq(Octets))) /\ cs = [i \in 1..Len(ps) |-> FlattenSeq(ps[i])]
    BY <1>1, <1>4
  <2> HIDE DEF cs
  <2>2. /\ cs \in Seq(Seq(Octets)) /\ Len(cs) = Len(ps)
        /\ FlattenSeq(FlattenSeq(ps)) = FlattenSeq(cs)
    BY <2>1, FlattenTwice
  <2> QED  BY <2>2 DEF cs
<1> QED BY <1>1, <1>5 DEF types

(* The values got for the first k fields match those that were sent.        *)
GotAll(k, got, fields, vals) ==
    /\ \E S : got \in Seq(S)
    /\ Len(got) = k
    /\ \A i \in 1..k : Matches(fields[i], got[i], vals[i])

LEMMA GotMore ==
    ASSUME NEW k \in Nat, NEW got, NEW fields, NEW vals, GotAll(k, got, fields, vals),
           NEW v, Matches(fields[k + 1], v, vals[k + 1])
    PROVE  GotAll(k + 1, Append(got, v), fields, vals)
<1> DEFINE more == Append(got, v)
           j == k + 1
<1>1. PICK S : got \in Seq(S)
  BY DEF GotAll
<1> DEFINE T == S \cup {v}
<1>2. got \in Seq(T) /\ v \in T /\ Len(got) = k
  <2>1. S \subseteq T
    OBVIOUS
  <2>2. Seq(S) \subseteq Seq(T)
    BY <2>1, SeqMonotonic
  <2> QED  BY <1>1, <2>2 DEF GotAll
<1> HIDE DEF T
<1>3. /\ more \in Seq(T) /\ Len(more) = k + 1 /\ more[k + 1] = v
      /\ \A i \in 1..k : more[i] = got[i]
  BY <1>2
<1> HIDE DEF more
<1>4. ASSUME NEW i \in 1..(k + 1) PROVE Matches(fields[i], more[i], vals[i])
  <2>1. CASE i = k + 1
    BY <1>3, <2>1
  <2>2. CASE i # k + 1
    <3>1. i \in 1..k
      BY <2>2
    <3> QED  BY <1>3, <3>1 DEF GotAll
  <2> QED  BY <2>1, <2>2
<1>5. GotAll(k + 1, more, fields, vals)
  BY <1>3, <1>4 DEF GotAll
<1> QED BY <1>5 DEF more

(* A reader of n bytes that has passed k of the fields of which code begins *)
(* with end bytes: it was given so many or has failed.                      *)
PassedFields(x, n, end, k, fields, vals) ==
    IF HeaderSize + end <= n
    THEN x.ok /\ x.at = HeaderSize + end /\ GotAll(k, x.got, fields, vals)
    ELSE ~ x.ok

(* The reader is inside a limit, n bytes unless it has passed a double, and *)
(* has not less than n bytes left: as many, if n is the limit.              *)
Knows(x, n, lim, end) ==
    /\ Stays(x, lim)
    /\ HeaderSize + end <= n => x.left >= n - (HeaderSize + end)

LEMMA KnowsMore ==
    ASSUME NEW n \in Nat, NEW lim \in Nat, NEW x, NEW end \in Nat, Knows(x, n, lim, end)
    PROVE  Knows(x, n, lim + 8, end)
BY DEF Knows, Stays, Readers

LEMMA OneMoreField ==
    ASSUME memory \in Seq(Octets), NEW n \in Nat, NEW lim \in Nat, NEW x,
           NEW end \in Nat, NEW k \in Nat, NEW fields, NEW vals, NEW code,
           PassedFields(x, n, end, k, fields, vals), Knows(x, n, lim, end),
           fields[k + 1].type \in Types, HasType(fields[k + 1].type, vals[k + 1]),
           code = CodeOf(fields[k + 1].type, vals[k + 1]),
           Len(code) \in Nat, Small(Len(code)), Holds(lim, HeaderSize + end, code),
           lim = n \/ HeaderSize + (end + Len(code)) <= n
    PROVE  LET y == PopField(x, fields[k + 1]) IN
           /\ PassedFields(y, n, end + Len(code), k + 1, fields, vals)
           /\ fields[k + 1].type # "double" => Knows(y, n, lim, end + Len(code))
           /\ fields[k + 1].type = "double" => Knows(y, n, lim + 8, end + Len(code))
<1> DEFINE field == fields[k + 1]
           val == vals[k + 1]
           y == PopField(x, field)
           len == Len(code)
           type == field.type
<1>1. /\ type # "double" => Stays(y, lim)
      /\ type = "double" => Stays(y, lim + 8)
  BY FieldStays DEF Knows
<1>2. len \in Nat /\ HeaderSize \in Nat
  BY DEF HeaderSize
<1>3. CASE ~ x.ok
  <2>1. ~ (HeaderSize + end <= n) /\ ~ y.ok
    BY <1>3, PopFailed DEF PassedFields
  <2> HIDE DEF y, len, type
  <2>2. ~ (HeaderSize + (end + len) <= n)
    BY <1>2, <2>1
  <2> QED  BY <1>1, <2>1, <2>2 DEF PassedFields, Knows, y, len, type
<1>4. CASE x.ok
  <2>1. /\ HeaderSize + end <= n /\ x.at = HeaderSize + end
        /\ x.left >= n - (HeaderSize + end) /\ GotAll(k, x.got, fields, vals)
        /\ Stays(x, lim)
    BY <1>4 DEF PassedFields, Knows
  <2>2. FieldRead(x, y, field, val)
    <3>1. /\ Holds(lim, x.at, CodeOf(field.type, val))
          /\ Small(Len(CodeOf(field.type, val)))
          /\ field.type \in Types /\ HasType(field.type, val)
      BY <2>1
    <3> HIDE DEF field, val
    <3> QED  BY <1>4, <2>1, <3>1, FieldReads DEF y
  <2>3. IF len <= x.left
        THEN /\ y.ok /\ y.at = x.at + len
             /\ y.left = x.left - len \/ y.left = x.left
             /\ \E v : y.got = Append(x.got, v) /\ Matches(field, v, val)
        ELSE ~ y.ok
    <3> HIDE DEF y
    <3> QED  BY <2>2 DEF FieldRead
  <2>a. /\ x.left \in Nat /\ x.at \in Nat /\ x.at + x.left <= lim
        /\ lim = n \/ HeaderSize + (end + len) <= n
    BY <2>1, StaysType
  <2> HIDE DEF y, len, field, val, type
  <2>4. /\ len <= x.left <=> HeaderSize + (end + len) <= n
        /\ x.at + len = HeaderSize + (end + len)
        /\ x.left - len >= n - (HeaderSize + (end + len))
        /\ x.left >= n - (HeaderSize + (end + len))
    BY <1>2, <2>1, <2>a
  <2>5. CASE len <= x.left
    <3>1. PICK v : y.got = Append(x.got, v) /\ Matches(field, v, val)
      BY <2>3, <2>5
    <3>2. GotAll(k + 1, y.got, fields, vals)
      BY <2>1, <3>1, GotMore DEF field, val
    <3>3. PassedFields(y, n, end + len, k + 1, fields, vals)
      BY <2>3, <2>4, <2>5, <3>2 DEF PassedFields
    <3>4. /\ type # "double" => Knows(y, n, lim, end + len)
          /\ type = "double" => Knows(y, n, lim + 8, end + len)
      BY <1>1, <2>3, <2>4, <2>5 DEF Knows
    <3> QED  BY <3>3, <3>4 DEF y, len, field, type
  <2>6. CASE ~ (len <= x.left)
    <3>1. PassedFields(y, n, end + len, k + 1, fields, vals)
      BY <2>3, <2>4, <2>6 DEF PassedFields
    <3>2. /\ type # "double" => Knows(y, n, lim, end + len)
          /\ type = "double" => Knows(y, n, lim + 8, end + len)
      BY <1>1, <2>4, <2>6 DEF Knows
    <3> QED  BY <3>1, <3>2 DEF y, len, field, type
  <2> QED  BY <2>5, <2>6
<1> QED BY <1>3, <1>4, StaysType DEF Knows

LEMMA MessageRead ==
    ASSUME TypeOK, Bodied, Remembered, throws = 0, packed # <<>>,
           NEW n \in 0..size, n = given, n <= MAX_PACKET_SIZE,
           NEW msg, msg.cmd = packed[1].cmd,
           FirstEnd <= n \/ DoubleIsLast(msg.cmd)
    PROVE  LET r == unmarshal(PopHeader(Reader(n)), msg) IN
           IF n < FirstEnd THEN ~ r.ok
           ELSE r.ok /\ GotAll(Len(Fields[msg.cmd]), r.got, FieldsOf(msg), packed[1].vals)
<1> DEFINE m0 == packed[1]
           vals == m0.vals
           types == Fields[msg.cmd]
           fields == FieldsOf(msg)
           m == Len(types)
           cs == Codes(m0)
           r0 == PopHeader(Reader(n))
<1>1. m0 \in Messages /\ body \in Seq(Octets) /\ memory \in Seq(Octets)
  <2>1. packed \in Seq(Messages) /\ body \in Seq(Octets)
    BY DEF TypeOK
  <2>2. 1 \in 1..Len(packed) /\ memory \in Seq(Octets)
    BY DEF TypeOK
  <2> QED  BY <2>1, <2>2, ElementOfSeq
<1>2. /\ msg.cmd \in Cmds /\ m \in Nat /\ DOMAIN fields = 1..m
      /\ \A i \in 1..m : HasType(types[i], vals[i])
  BY <1>1, MessageFacts, FieldsFacts
<1>3. \A i \in 1..m : fields[i].type = types[i] /\ fields[i].type \in Types
  BY <1>2, FieldsFacts
<1>4. ASSUME DoubleIsLast(msg.cmd), NEW i \in 1..m, i < m PROVE types[i] # "double"
  <2>1. DOMAIN types = 1..m
    <3>1. types \in Seq(Types)
      BY <1>2, FieldsFacts
    <3> HIDE DEF types
    <3> QED  BY <3>1
  <2>2. i # m
    BY <1>2, <1>4
  <2> QED  BY <1>4, <2>1, <2>2 DEF DoubleIsLast
<1> DEFINE own == Own(m0)
<1>5. /\ cs \in Seq(Seq(Octets)) /\ Len(cs) = m /\ own = FlattenSeq(cs)
      /\ \A i \in 1..m : cs[i] = CodeOf(types[i], vals[i])
  BY <1>1, CodesOfMessage DEF Codes, Own
<1>a. own \in Seq(Octets)
  BY <1>1, MarshalType DEF Own
<1>b. PICK rest \in Seq(Octets) : body = own \o rest
  BY DEF Bodied
<1>c. FirstEnd = HeaderSize + Len(own)
  BY DEF FirstEnd, Own
<1> HIDE DEF own
<1> DEFINE total == Len(own)
<1>6. total \in Nat /\ HeaderSize + total <= Max64K /\ n \in Nat
  <2>1. Len(body) = total + Len(rest) /\ total \in Nat /\ Len(rest) \in Nat
    BY <1>a, <1>b, ConcatProperties
  <2>2. HeaderSize + Len(body) <= Max64K /\ n \in Nat
    BY <1>1, PacketAssumption DEF TypeOK, Fits, size, HeaderSize
  <2> HIDE DEF total
  <2> QED  BY <2>1, <2>2, PacketAssumption DEF HeaderSize
<1>7. /\ Stays(r0, n) /\ r0.got = <<>>
      /\ IF HeaderSize <= n
         THEN r0.ok /\ r0.at = HeaderSize /\ r0.left = n - HeaderSize
         ELSE ~ r0.ok
  BY <1>1, <1>6, HeaderRead
<1> DEFINE early == DoubleIsLast(msg.cmd)
           part == n < FirstEnd
<1>d. /\ part => early
      /\ part <=> ~ (HeaderSize + total <= n)
      /\ \A i \in 1..m : early /\ i < m => fields[i].type # "double"
  <2>1. part <=> ~ (HeaderSize + total <= n)
    BY <1>6, <1>c DEF HeaderSize
  <2>2. FirstEnd <= n \/ early
    OBVIOUS
  <2>3. FirstEnd <= n => ~ part
    BY <1>6, <1>c DEF HeaderSize
  <2> QED  BY <1>3, <1>4, <2>1, <2>3
<1> HIDE DEF m0, vals, types, fields, m, cs, r0, early, part
<1>8. PICK f : Flat(f, cs) /\ FlattenSeq(cs) = f[m]
  BY <1>5, FlattenRun
<1>9. f[0] = <<>> /\ f[m] = own
  BY <1>5, <1>8 DEF Flat
<1>10. /\ \A k \in 0..m : Len(f[k]) \in Nat /\ Len(f[k]) <= total
       /\ \A k \in 1..m : Len(cs[k]) \in Nat /\ Len(f[k]) = Len(f[k - 1]) + Len(cs[k])
  <2>1. Flat(f, cs)
    BY <1>8
  <2> QED  BY <1>5, <1>9, <2>1, FlatLengths
<1> DEFINE Lim(k) == IF part THEN n ELSE n + 8 * k
<1>11. ASSUME NEW lim, part => lim = n
       PROVE  \A k \in 1..m : Holds(lim, HeaderSize + Len(f[k - 1]), cs[k])
  <2>1. /\ body = own \o rest /\ Len(body) = total + Len(rest) /\ Len(rest) \in Nat
        /\ \A i \in 1..total : body[i] = own[i]
    BY <1>a, <1>b, ConcatProperties
  <2>2. ASSUME NEW i \in 1..total, HeaderSize + i <= lim
        PROVE  Byte(HeaderSize + i) = own[i]
    <3>1. HeaderSize + i <= n
      BY <1>6, <1>11, <1>d, <2>2 DEF HeaderSize
    <3>2. i \in 1..Len(body)
      <4> HIDE DEF total
      <4> QED  BY <1>6, <2>1
    <3>3. given # NoBytes /\ HeaderSize + i <= given
      BY <1>6, <3>1 DEF NoBytes
    <3>4. Byte(HeaderSize + i) = body[i]
      BY <3>2, <3>3, MemoryHeld
    <3> QED  BY <2>1, <3>4
  <2>3. Holds(lim, HeaderSize, own)
    BY <2>2 DEF Holds
  <2>4. Flat(f, cs) /\ Holds(lim, HeaderSize, f[Len(cs)]) /\ HeaderSize \in Nat
    BY <1>5, <1>8, <1>9, <2>3 DEF HeaderSize
  <2>5. \A k \in 1..Len(cs) : Holds(lim, HeaderSize + Len(f[k - 1]), cs[k])
    BY <1>5, <2>4, HoldsPieces
  <2> QED  BY <1>5, <2>5
<1>12. \A k \in 1..m : Small(Len(cs[k]))
  <2> SUFFICES ASSUME NEW k \in 1..m PROVE Small(Len(cs[k]))
    OBVIOUS
  <2>0. k - 1 \in 0..m /\ k \in 0..m
    BY <1>2
  <2> DEFINE a == Len(f[k - 1])
             b == Len(f[k])
             c == Len(cs[k])
  <2>1. /\ a \in Nat /\ c \in Nat /\ b = a + c /\ b <= total
        /\ total \in Nat /\ HeaderSize + total <= Max64K
    BY <1>6, <1>10, <2>0
  <2> HIDE DEF a, b, c, total
  <2>2. c < 65536
    BY <2>1, PacketAssumption DEF HeaderSize
  <2> QED  BY <2>2 DEF Small, c
<1>13. PICK h : Reads!LeftRun(h, r0, fields, m) /\ Reads!LeftFold(r0, fields) = h[m]
  BY <1>2, Reads!FoldLeftRun
<1>14. h[0] = r0 /\ \A k \in 1..m : h[k] = PopField(h[k - 1], fields[k])
  BY <1>13 DEF Reads!LeftRun
<1> DEFINE P(k) == /\ PassedFields(h[k], n, Len(f[k]), k, fields, vals)
                   /\ k < m => Knows(h[k], n, Lim(k), Len(f[k]))
           T == {k \in Nat : k <= m => P(k)}
<1>15. 0 \in T
  <2>1. Len(f[0]) = 0 /\ HeaderSize + 0 = HeaderSize
    BY <1>9 DEF HeaderSize
  <2>2. GotAll(0, <<>>, fields, vals)
    BY EmptySeq DEF GotAll
  <2>3. PassedFields(r0, n, 0, 0, fields, vals) /\ Knows(r0, n, n, 0)
    BY <1>6, <1>7, <2>1, <2>2 DEF PassedFields, Knows, HeaderSize
  <2>4. Lim(0) = n
    BY <1>6
  <2> HIDE DEF Lim
  <2> QED  BY <1>14, <2>1, <2>3, <2>4
<1>16. ASSUME NEW j \in Nat, j + 1 <= m, P(j) PROVE P(j + 1)
  <2> DEFINE k == j + 1
             x == h[j]
             end == Len(f[j])
             code == cs[k]
  <2>1. k \in 1..m /\ k - 1 = j /\ j \in 0..m /\ j < m
    BY <1>2, <1>16
  <2>2. h[k] = PopField(x, fields[k])
    BY <1>14, <2>1
  <2> DEFINE lim == Lim(j)
  <2>3. PassedFields(x, n, end, j, fields, vals) /\ Knows(x, n, lim, end)
    BY <1>16, <2>1
  <2>4. /\ end \in Nat /\ Len(code) \in Nat /\ Small(Len(code))
        /\ Len(f[k]) = end + Len(code) /\ Holds(lim, HeaderSize + end, code)
    <3>1. part => lim = n
      OBVIOUS
    <3> HIDE DEF lim
    <3>2. Holds(lim, HeaderSize + Len(f[k - 1]), cs[k])
      BY <1>11, <2>1, <3>1
    <3> QED  BY <1>10, <1>12, <2>1, <3>2
  <2>a. lim \in Nat /\ (part => lim = n) /\ (~ part => Lim(k) = lim + 8)
    BY <1>6
  <2>b. lim = n \/ HeaderSize + (end + Len(code)) <= n
    <3>1. Len(f[k]) <= total /\ Len(f[k]) \in Nat
      BY <1>2, <1>10, <2>1
    <3>2. ASSUME ~ part PROVE HeaderSize + Len(f[k]) <= n
      <4> DEFINE a == Len(f[k])
      <4> HIDE DEF a, total
      <4>1. HeaderSize + a <= n
        BY <1>6, <1>d, <3>1, <3>2 DEF HeaderSize, a
      <4> QED  BY <4>1 DEF a
    <3> QED  BY <2>4, <2>a, <3>2
  <2>5. /\ fields[k].type \in Types /\ HasType(fields[k].type, vals[k])
        /\ code = CodeOf(fields[k].type, vals[k])
        /\ part /\ k < m => fields[k].type # "double"
    <3> HIDE DEF k
    <3> QED  BY <1>2, <1>3, <1>5, <1>d, <2>1
  <2>c. Lim(k) = IF part THEN lim ELSE lim + 8
    BY <2>a
  <2> HIDE DEF x, end, code, lim, Lim
  <2> DEFINE y == PopField(x, fields[j + 1])
  <2>6. /\ PassedFields(y, n, end + Len(code), j + 1, fields, vals)
        /\ fields[j + 1].type # "double" => Knows(y, n, lim, end + Len(code))
        /\ fields[j + 1].type = "double" => Knows(y, n, lim + 8, end + Len(code))
    BY <1>1, <1>6, <2>3, <2>4, <2>5, <2>a, <2>b, OneMoreField
  <2>7. k < m => Knows(y, n, Lim(k), end + Len(code))
    <3>1. CASE part
      BY <2>5, <2>6, <2>c, <3>1
    <3>2. CASE ~ part
      <4>1. end + Len(code) \in Nat
        BY <2>4
      <4>2. Knows(y, n, lim + 8, end + Len(code))
        BY <1>6, <2>6, <2>a, <4>1, KnowsMore
      <4> QED  BY <2>c, <3>2, <4>2
    <3> QED  BY <3>1, <3>2
  <2> HIDE DEF y
  <2> QED  BY <2>2, <2>4, <2>6, <2>7 DEF y
<1>17. ASSUME NEW j \in Nat, j \in T PROVE j + 1 \in T
  <2>1. CASE j + 1 <= m
    <3>1. P(j)
      BY <1>2, <1>17, <2>1
    <3>2. P(j + 1)
      <4> HIDE DEF P
      <4> QED  BY <1>16, <2>1, <3>1
    <3> HIDE DEF P
    <3> QED  BY <3>2
  <2>2. CASE ~ (j + 1 <= m)
    BY <2>2
  <2> QED  BY <2>1, <2>2
<1>18. P(m)
  <2>1. \A k \in Nat : k \in T
    <3> HIDE DEF T
    <3> QED  BY <1>15, <1>17, Pops!Induct
  <2> HIDE DEF P
  <2>2. m <= m
    BY <1>2
  <2> QED  BY <1>2, <2>1, <2>2
<1>19. PassedFields(h[m], n, total, m, fields, vals)
  BY <1>9, <1>18
<1>20. unmarshal(r0, msg) = h[m]
  BY <1>13, UnmarshalFold DEF fields
<1> HIDE DEF total
<1> QED BY <1>19, <1>20, <1>d DEF PassedFields, part, r0, m, types, fields, vals, m0

(* What a deserialization of the first message gets.                        *)
LEMMA FirstRead ==
    ASSUME TypeOK, Bodied, Remembered, NEW used \in BOOLEAN, deserialize(used), ReadsFirst'
    PROVE  /\ given < FirstEnd /\ DoubleIsLast(pickSubCmd) => ~ decoded'.ok
           /\ given >= FirstEnd =>
                 /\ decoded'.ok
                 /\ decoded'.got
                       = [i \in DOMAIN Fields[pickSubCmd] |->
                            Merged(Fields[pickSubCmd][i], decoded'.was[i],
                                   packed[1].vals[i])]
<1> DEFINE msg == IF used THEN object ELSE NewObject(pickSubCmd)
           r == unmarshal(PopHeader(Reader(given)), msg)
           types == Fields[pickSubCmd]
           m == Len(types)
           vals == packed[1].vals
<1>1. /\ given \in Nat /\ msg.cmd \in Cmds /\ msg.cmd = pickSubCmd
      /\ decoded' = [used |-> used, was |-> msg.vals, ok |-> r.ok, at |-> r.at,
                     got |-> r.got]
  BY UnmarshalType
<1>2. /\ throws = 0 /\ packed # <<>> /\ pickSubCmd = packed[1].cmd
      /\ given <= MAX_PACKET_SIZE
  BY DEF deserialize, ReadsFirst, encoder, pickSubCmd
<1>3. given \in 0..size
  <2>1. given \in -1..size
    BY DEF TypeOK
  <2> HIDE DEF size
  <2> QED  BY <1>1, <2>1
<1> HIDE DEF msg, size
<1>4. ASSUME FirstEnd <= given \/ DoubleIsLast(pickSubCmd)
      PROVE  IF given < FirstEnd THEN ~ r.ok
             ELSE r.ok /\ GotAll(m, r.got, FieldsOf(msg), vals)
  BY <1>1, <1>2, <1>3, <1>4, MessageRead
<1>5. /\ m \in Nat /\ DOMAIN types = 1..m
      /\ \A i \in 1..m : /\ FieldsOf(msg)[i].type = types[i]
                         /\ FieldsOf(msg)[i].was = msg.vals[i]
  <2>1. /\ types \in Seq(Types) /\ m \in Nat
        /\ \A i \in 1..m : /\ FieldsOf(msg)[i].type = types[i]
                           /\ FieldsOf(msg)[i].was = msg.vals[i]
    BY <1>1, FieldsFacts
  <2>2. DOMAIN types = 1..m
    <3> HIDE DEF types
    <3> QED  BY <2>1
  <2> QED  BY <2>1, <2>2
<1> DEFINE got == r.got
<1>6. ASSUME GotAll(m, got, FieldsOf(msg), vals)
      PROVE  got = [i \in DOMAIN types |-> Merged(types[i], msg.vals[i], vals[i])]
  <2> HIDE DEF got, types, m, vals
  <2>1. PICK S : got \in Seq(S)
    BY <1>6 DEF GotAll
  <2>2. Len(got) = m /\ \A i \in 1..m : Matches(FieldsOf(msg)[i], got[i], vals[i])
    BY <1>6 DEF GotAll
  <2>3. got = [i \in 1..m |-> got[i]]
    <3>1. got \in [1..Len(got) -> S]
      BY <2>1, LenProperties
    <3> QED  BY <2>2, <3>1
  <2>4. \A i \in 1..m : got[i] = Merged(types[i], msg.vals[i], vals[i])
    BY <1>5, <2>2 DEF Matches
  <2> QED  BY <1>5, <2>3, <2>4
<1>7. FirstEnd \in Nat
  <2>1. packed[1] \in Messages
    <3>1. packed \in Seq(Messages) /\ 1 \in 1..Len(packed)
      BY <1>2 DEF TypeOK
    <3> QED  BY <3>1, ElementOfSeq
  <2>2. FlattenSeq(marshal(packed[1])) \in Seq(Octets)
    BY <2>1, MarshalType
  <2> QED  BY <2>2 DEF FirstEnd, HeaderSize
<1> HIDE DEF r, types, m, vals
<1>8. decoded'.ok = r.ok /\ decoded'.got = r.got /\ decoded'.was = msg.vals
  BY <1>1
<1>9. given < FirstEnd <=> ~ (FirstEnd <= given)
  BY <1>1, <1>7
<1>10. ASSUME given < FirstEnd, DoubleIsLast(pickSubCmd) PROVE ~ decoded'.ok
  BY <1>4, <1>8, <1>10
<1>11. ASSUME given >= FirstEnd
       PROVE  /\ decoded'.ok
              /\ decoded'.got = [i \in DOMAIN types |->
                                  Merged(types[i], decoded'.was[i], vals[i])]
  <2>1. FirstEnd <= given /\ ~ (given < FirstEnd)
    BY <1>1, <1>7, <1>11
  <2>2. r.ok /\ GotAll(m, r.got, FieldsOf(msg), vals)
    BY <1>4, <2>1
  <2> QED  BY <1>6, <1>8, <2>2
<1> QED BY <1>10, <1>11 DEF types, vals

LEMMA RoundTripRead ==
    ASSUME TypeOK, Bodied, Remembered, NEW used \in BOOLEAN, deserialize(used)
    PROVE  RoundTrip' /\ Refilled'
<1> SUFFICES ASSUME ReadsFirst' PROVE RoundTrip' /\ Refilled'
  BY DEF RoundTrip, Refilled
<1> DEFINE types == Fields[pickSubCmd]
           vals == packed[1].vals
           msg == IF used THEN object ELSE NewObject(pickSubCmd)
<1>1. /\ pickSubCmd' = pickSubCmd /\ packed' = packed /\ given' = given
      /\ FirstEnd' = FirstEnd /\ DoubleIsLast(pickSubCmd)' = DoubleIsLast(pickSubCmd)
  BY DEF deserialize, encoder, pickSubCmd, FirstEnd, DoubleIsLast
<1>2. decoded'.used = used /\ decoded'.was = msg.vals
  BY UnmarshalType
<1>3. /\ given < FirstEnd /\ DoubleIsLast(pickSubCmd) => ~ decoded'.ok
      /\ given >= FirstEnd =>
            /\ decoded'.ok
            /\ decoded'.got = [i \in DOMAIN types |->
                                Merged(types[i], decoded'.was[i], vals[i])]
  BY FirstRead
<1>4. ASSUME NEW i \in DOMAIN types, ~ used
      PROVE  Merged(types[i], decoded'.was[i], vals[i]) = vals[i]
  <2>1. decoded'.was[i] = Blank(types[i])
    <3>1. msg.vals = [j \in DOMAIN types |-> Blank(types[j])]
      BY <1>4 DEF NewObject, Blank
    <3> HIDE DEF msg, types
    <3> QED  BY <1>2, <3>1
  <2>2. HasType(types[i], vals[i])
    <3>1. packed[1] \in Messages /\ packed[1].cmd = pickSubCmd
      <4>1. packed \in Seq(Messages) /\ packed # <<>> /\ packed[1].cmd = pickSubCmd
        BY <1>1 DEF TypeOK, ReadsFirst
      <4>2. 1 \in 1..Len(packed)
        BY <4>1
      <4> QED  BY <4>1, <4>2, ElementOfSeq
    <3>2. /\ types \in Seq(Types)
          /\ \A j \in 1..Len(types) : HasType(types[j], vals[j])
      BY <3>1, MessageFacts
    <3> HIDE DEF types, vals
    <3>3. DOMAIN types = 1..Len(types)
      BY <3>2
    <3> QED  BY <3>2, <3>3
  <2> HIDE DEF types, vals
  <2> QED  BY <2>1, <2>2, MatchesBlank
<1>5. vals = [i \in DOMAIN types |-> vals[i]]
  <2>1. packed[1] \in Messages /\ packed[1].cmd = pickSubCmd
    <3>1. packed \in Seq(Messages) /\ packed # <<>> /\ packed[1].cmd = pickSubCmd
      BY <1>1 DEF TypeOK, ReadsFirst
    <3>2. 1 \in 1..Len(packed)
      BY <3>1
    <3> QED  BY <3>1, <3>2, ElementOfSeq
  <2> QED  BY <2>1, PacketAssumption
<1> HIDE DEF msg
<1> QED BY <1>1, <1>2, <1>3, <1>4, <1>5 DEF RoundTrip, Refilled

(* A Decoder that has the bytes of the first message of a packet puts what  *)
(* was sent into a new object, and one that has a part of them refuses it,  *)
(* unless a field of it is behind a double: whatever the types of the       *)
(* fields and their values, whatever is behind the message in the packet    *)
(* and in the memory, also after a serialize that threw was cleared away.   *)
THEOREM RoundTrips == Spec => []RoundTrip
<1>1. Init => Bodied /\ Remembered /\ RoundTrip
  BY EmptySeq DEF Init, Bodied, Remembered, RoundTrip, ReadsFirst
<1>2. TypeOK /\ Bodied /\ Remembered /\ RoundTrip /\ [Next]_vars => RoundTrip'
  <2> SUFFICES ASSUME TypeOK, Bodied, Remembered, RoundTrip, [Next]_vars PROVE RoundTrip'
    OBVIOUS
  <2>1. ASSUME decoded' = NotDecoded PROVE RoundTrip'
    BY <2>1 DEF RoundTrip, ReadsFirst
  <2>2. ASSUME NEW used \in BOOLEAN, deserialize(used) PROVE RoundTrip'
    BY <2>2, RoundTripRead
  <2>3. CASE UNCHANGED vars
    BY <2>3
       DEF vars, encoder, decoder, RoundTrip, ReadsFirst, FirstEnd, DoubleIsLast, pickSubCmd
  <2> QED  BY <2>1, <2>2, <2>3 DEF Next, serialize, serializeThrows, clear, Rewritten, Decoder
<1> QED BY <1>1, <1>2, TypeInit, TypeNext, BodiedNext, RememberedNext, PTL DEF Spec

(* A used object that the first message of a packet is read into holds      *)
(* what Merged says of what it held before and what was sent: in each       *)
(* field, for any fields, values and bytes behind them.                     *)
THEOREM Refills == Spec => []Refilled
<1>1. Init => Bodied /\ Remembered /\ Refilled
  BY EmptySeq DEF Init, Bodied, Remembered, Refilled, ReadsFirst
<1>2. TypeOK /\ Bodied /\ Remembered /\ Refilled /\ [Next]_vars => Refilled'
  <2> SUFFICES ASSUME TypeOK, Bodied, Remembered, Refilled, [Next]_vars PROVE Refilled'
    OBVIOUS
  <2>1. ASSUME decoded' = NotDecoded PROVE Refilled'
    BY <2>1 DEF Refilled, ReadsFirst
  <2>2. ASSUME NEW used \in BOOLEAN, deserialize(used) PROVE Refilled'
    BY <2>2, RoundTripRead
  <2>3. CASE UNCHANGED vars
    BY <2>3 DEF vars, encoder, decoder, Refilled, ReadsFirst, FirstEnd, pickSubCmd
  <2> QED  BY <2>1, <2>2, <2>3 DEF Next, serialize, serializeThrows, clear, Rewritten, Decoder
<1> QED BY <1>1, <1>2, TypeInit, TypeNext, BodiedNext, RememberedNext, PTL DEF Spec

=============================================================================

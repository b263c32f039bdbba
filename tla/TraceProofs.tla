---------------------------- MODULE TraceProofs ----------------------------
(***************************************************************************)
(* Proofs about Trace: for a memory of up to 256 bytes, the code's own     *)
(* choice, and every set of lengths, and for up to 512 bytes when messages *)
(* are shorter than 255 (WrapsCounted), the ring of elements is sound, the *)
(* DMA sends its first element in one piece, and the clock of the UART     *)
(* stops only when everything traced has been sent.                        *)
(*                                                                         *)
(* The argument: offsets that go on past the end of the memory, at most a  *)
(* lap further, give the elements a chain (Chain).  A part written where   *)
(* the chain ends makes it longer (AddPart, used twice for an element that *)
(* is split), the removal of the first element makes it shorter (Shorter), *)
(* and SplitIsCounted shows that Fits counts what CircularQueue_Add takes. *)
(*                                                                         *)
(* The same steps say what the elements hold (Contents): a message is put  *)
(* behind the others in one part or two (Grows), what the DMA sends is the *)
(* first.  Joined into one stream (the lemmas on FlattenSeq) these are the *)
(* steps of TraceStream.                                                   *)
(***************************************************************************)
EXTENDS Trace, WellFoundedInduction, SequenceTheorems, TLAPS
USE TraceAssumption DEF HeaderSize, Position

(***************************************************************************)
(* Arithmetic, and offsets                                                 *)
(***************************************************************************)

(* The remainder, where one subtraction gives it.                           *)
LEMMA Remainder ==
  ASSUME NEW x \in Nat, NEW n \in Nat
  PROVE  /\ x < n => x % n = x
         /\ n <= x /\ x < n + n => x % n = x - n
<1>1. ASSUME x < n PROVE x % n = x
  BY <1>1
<1>2. ASSUME n <= x, x < n + n PROVE x % n = x - n
  BY <1>2
<1>. QED  BY <1>1, <1>2

(* MOD, the macro of queue.c, is the remainder up to twice the memory.      *)
LEMMA ModIsRemainder ==
  ASSUME NEW x \in Nat, x < 2 * queueMaxSize
  PROVE  /\ x % queueMaxSize = MOD(x, queueMaxSize)
         /\ MOD(x, queueMaxSize) \in Position
<1>1. queueMaxSize \in Nat /\ x < queueMaxSize + queueMaxSize
  OBVIOUS
<1>2. /\ x < queueMaxSize => x % queueMaxSize = x
      /\ queueMaxSize <= x => x % queueMaxSize = x - queueMaxSize
  BY <1>1, Remainder
<1>. QED  BY <1>1, <1>2 DEF MOD, Position

(* Every set of numbers that is not empty has a smallest one.               *)
LEMMA SmallestNat ==
  ASSUME NEW T \in SUBSET Nat, T # {}
  PROVE  \E x \in T : \A y \in T : x <= y
<1>1. PICK x \in T : \A y \in T : ~ (<<y, x>> \in OpToRel(<, Nat))
  BY WFMin, NatLessThanWellFounded
<1>2. ASSUME NEW y \in T PROVE x <= y
  <2>1. y < x => <<y, x>> \in OpToRel(<, Nat)
    BY Zenon DEF OpToRel
  <2>2. ~(y < x)
    BY <1>1, <2>1, Zenon
  <2>. QED  BY <2>2
<1>. QED  BY <1>2

(* at solves the equation that defines Offset.                              *)
Offsets(at) ==
  at = [k \in 1 .. elementCount + 1 |->
          IF k = 1 THEN first
          ELSE at[k - 1] + SizeAt(qBuff, at[k - 1] % queueMaxSize) + HeaderSize]

(* The equation has one solution: two would differ first at some offset,    *)
(* although the lengths stored before it are the same.                      *)
LEMMA OffsetUnique ==
  ASSUME elementCount \in Nat, NEW at, Offsets(at) PROVE Offset = at
<1>. DEFINE T == {k \in 1 .. elementCount + 1 : Offset[k] # at[k]}
<1>1. Offset = CHOOSE f : Offsets(f)
  BY DEF Offset, Offsets
<1>2. Offsets(Offset)
  BY <1>1
<1>3. ASSUME T = {} PROVE Offset = at
  <2>1. \A k \in 1 .. elementCount + 1 : Offset[k] = at[k]
    BY <1>3
  <2>2. DOMAIN Offset = 1 .. elementCount + 1 /\ DOMAIN at = 1 .. elementCount + 1
    BY <1>2, Zenon DEF Offsets
  <2>3. Offset = [k \in DOMAIN Offset |-> Offset[k]] /\ at = [k \in DOMAIN at |-> at[k]]
    BY <1>2, Zenon DEF Offsets
  <2>. QED  BY <2>1, <2>2, <2>3, Zenon
<1>4. ASSUME NEW k \in T, \A j \in T : k <= j PROVE FALSE
  <2>1. k # 1
    BY <1>2, <1>4 DEF Offsets
  <2>2. Offset[k - 1] = at[k - 1]
    BY <1>4, <2>1
  <2>3. Offset[k] = Offset[k - 1] + SizeAt(qBuff, Offset[k - 1] % queueMaxSize) + HeaderSize
    BY <1>2, <1>4, <2>1 DEF Offsets
  <2>4. at[k] = at[k - 1] + SizeAt(qBuff, at[k - 1] % queueMaxSize) + HeaderSize
    BY <1>4, <2>1 DEF Offsets
  <2>. QED  BY <1>4, <2>2, <2>3, <2>4, Zenon
<1>5. T \in SUBSET Nat
  OBVIOUS
<1>. HIDE DEF T
<1>6. T = {}
  BY <1>4, <1>5, SmallestNat
<1>. QED  BY <1>3, <1>6

(***************************************************************************)
(* The messages as one stream                                              *)
(***************************************************************************)
Octets == Seq(0 .. 255)

(* Sequences of octets, one behind the other.                               *)
LEMMA OctetsJoin ==
  ASSUME NEW a \in Octets, NEW b \in Octets
  PROVE  /\ a \o b \in Octets /\ a \o <<>> = a /\ <<>> \o a = a
         /\ Len(a) \in Nat /\ Len(b) \in Nat /\ Len(a \o b) = Len(a) + Len(b)
         /\ \A i \in 1 .. Len(a) + Len(b) :
              (a \o b)[i] = IF i <= Len(a) THEN a[i] ELSE b[i - Len(a)]
<1>1. a \in Seq(0 .. 255) /\ b \in Seq(0 .. 255)
  BY DEF Octets
<1>2. a \o b \in Seq(0 .. 255)
  BY <1>1, ConcatProperties
<1>3. a \o <<>> = a /\ <<>> \o a = a
  BY <1>1, ConcatEmptySeq
<1>4. Len(a) \in Nat /\ Len(b) \in Nat
  BY <1>1, LenProperties
<1>5. /\ Len(a \o b) = Len(a) + Len(b)
      /\ \A i \in 1 .. Len(a) + Len(b) :
           (a \o b)[i] = IF i <= Len(a) THEN a[i] ELSE b[i - Len(a)]
  BY <1>1, ConcatProperties
<1>. QED  BY <1>2, <1>3, <1>4, <1>5 DEF Octets

(* Joining is associative.                                                  *)
LEMMA OctetsAssociate ==
  ASSUME NEW a \in Octets, NEW b \in Octets, NEW c \in Octets
  PROVE  (a \o b) \o c = a \o (b \o c)
<1>1. a \in Seq(0 .. 255) /\ b \in Seq(0 .. 255) /\ c \in Seq(0 .. 255)
  BY DEF Octets
<1>. QED  BY <1>1, ConcatAssociative

(* f joins the first n parts of s, one after the other.                     *)
Joins(f, s, n) == \A i \in 1 .. n : f[i] = IF i = 1 THEN s[i] ELSE f[i - 1] \o s[i]

(* Induction up to a bound.                                                 *)
LEMMA Upward ==
  ASSUME NEW n \in Nat, NEW S, 0 \in S, \A i \in 1 .. n : i - 1 \in S => i \in S
  PROVE  0 .. n \subseteq S
<1>. SUFFICES ASSUME ~(0 .. n \subseteq S) PROVE FALSE
  OBVIOUS
<1>. DEFINE T == {i \in 0 .. n : i \notin S}
<1>1. T \in SUBSET Nat /\ T # {}
  OBVIOUS
<1>2. PICK m \in T : \A i \in T : m <= i
  <2>. HIDE DEF T
  <2>. QED  BY <1>1, SmallestNat
<1>3. m \in 1 .. n
  BY <1>2
<1>4. m - 1 \notin T /\ m - 1 \in 0 .. n
  BY <1>2, <1>3
<1>. QED  BY <1>2, <1>3, <1>4

(* Any parts can be joined, in one way.                                     *)
LEMMA JoinExists == ASSUME NEW n \in Nat, NEW s PROVE \E f : Joins(f, s, n)
<1>. DEFINE S == {m \in 0 .. n : \E f : Joins(f, s, m)}
<1>1. 0 \in S
  <2>1. Joins(<<>>, s, 0)
    BY DEF Joins
  <2>. QED  BY <2>1
<1>2. ASSUME NEW m \in 1 .. n, m - 1 \in S PROVE m \in S
  <2>1. PICK f : Joins(f, s, m - 1)
    BY <1>2
  <2>. DEFINE g == [i \in 1 .. m |-> IF i < m THEN f[i] ELSE IF i = 1 THEN s[i] ELSE f[i - 1] \o s[i]]
  <2>2. ASSUME NEW i \in 1 .. m PROVE g[i] = IF i = 1 THEN s[i] ELSE g[i - 1] \o s[i]
    <3>1. i # 1 => g[i - 1] = f[i - 1]
      BY <2>2
    <3>2. CASE i = m
      BY <3>1, <3>2
    <3>3. CASE i # m
      <4>1. i \in 1 .. m - 1 /\ g[i] = f[i]
        BY <3>3
      <4>2. f[i] = IF i = 1 THEN s[i] ELSE f[i - 1] \o s[i]
        BY <2>1, <4>1 DEF Joins
      <4>. QED  BY <3>1, <4>1, <4>2
    <3>. QED  BY <3>2, <3>3
  <2>. HIDE DEF g
  <2>3. Joins(g, s, m)
    BY <2>2 DEF Joins
  <2>. QED  BY <2>3
<1>. HIDE DEF S
<1>3. 0 .. n \subseteq S
  BY <1>1, <1>2, Upward
<1>. QED  BY <1>3 DEF S

(* The joined parts depend on the parts only.                               *)
LEMMA JoinUnique ==
  ASSUME NEW n \in Nat, NEW s, NEW t, NEW f, NEW g, Joins(f, s, n), Joins(g, t, n),
         \A i \in 1 .. n : s[i] = t[i]
  PROVE  \A i \in 1 .. n : f[i] = g[i]
<1>. DEFINE S == {i \in 0 .. n : i = 0 \/ f[i] = g[i]}
<1>1. 0 \in S
  OBVIOUS
<1>2. ASSUME NEW i \in 1 .. n, i - 1 \in S PROVE i \in S
  BY <1>2 DEF Joins
<1>. HIDE DEF S
<1>3. 0 .. n \subseteq S
  BY <1>1, <1>2, Upward
<1>. QED  BY <1>3 DEF S

(* What FlattenSeq gives.                                                   *)
LEMMA Flattened ==
  ASSUME NEW s \in Seq(Octets), s # <<>>
  PROVE  /\ Len(s) \in Nat /\ Len(s) > 0
         /\ \E f : /\ Joins(f, s, Len(s)) /\ FlattenSeq(s) = f[Len(s)]
                   /\ \A i \in 1 .. Len(s) : f[i] \in Octets
<1>. DEFINE n == Len(s)
            Flat(f) == f = [i \in 1 .. n |-> IF i = 1 THEN s[i] ELSE f[i - 1] \o s[i]]
            flatten == CHOOSE f : Flat(f)
<1>1. n \in Nat /\ n > 0 /\ \A i \in 1 .. n : s[i] \in Octets
  BY EmptySeq, LenProperties, ElementOfSeq
<1>2. FlattenSeq(s) = flatten[n]
  BY <1>1 DEF FlattenSeq
<1>. HIDE DEF n
<1>3. PICK g : Joins(g, s, n)
  BY <1>1, JoinExists
<1>. DEFINE f == [i \in 1 .. n |-> g[i]]
<1>4. Joins(f, s, n)
  BY <1>1, <1>3 DEF Joins
<1>5. Flat(f)
  <2>. HIDE DEF f
  <2>1. f = [i \in 1 .. n |-> f[i]]
    BY DEF f
  <2>. QED  BY <1>4, <2>1, Zenon DEF Joins
<1>. HIDE DEF f
<1>6. Flat(flatten)
  <2>. HIDE DEF Flat
  <2>. QED  BY <1>5
<1>7. Joins(flatten, s, n)
  <2>. HIDE DEF flatten
  <2>. QED  BY <1>6 DEF Joins
<1>. HIDE DEF flatten
<1>8. \A i \in 1 .. n : flatten[i] \in Octets
  <2>. DEFINE S == {i \in 0 .. n : i = 0 \/ flatten[i] \in Octets}
  <2>1. 0 \in S
    BY <1>1
  <2>2. ASSUME NEW i \in 1 .. n, i - 1 \in S PROVE i \in S
    <3>1. flatten[i] = IF i = 1 THEN s[i] ELSE flatten[i - 1] \o s[i]
      BY <1>7 DEF Joins
    <3>2. s[i] \in Octets /\ i \in 0 .. n
      BY <1>1
    <3>3. i # 1 => flatten[i - 1] \in Octets
      BY <2>2
    <3>4. i # 1 => flatten[i - 1] \o s[i] \in Octets
      BY <3>2, <3>3, OctetsJoin
    <3>. QED  BY <3>1, <3>2, <3>4
  <2>. HIDE DEF S
  <2>3. 0 .. n \subseteq S
    BY <1>1, <2>1, <2>2, Upward
  <2>. QED  BY <1>1, <2>3 DEF S
<1>. QED  BY <1>1, <1>2, <1>7, <1>8 DEF n

(* No part makes an empty stream.                                           *)
LEMMA FlattenNone == FlattenSeq(<<>>) = <<>>
  BY DEF FlattenSeq

(* Parts that are octets make octets.                                       *)
LEMMA FlattenType == ASSUME NEW s \in Seq(Octets) PROVE FlattenSeq(s) \in Octets
<1>1. CASE s = <<>>
  BY <1>1, FlattenNone, EmptySeq DEF Octets
<1>2. CASE s # <<>>
  <2>1. PICK f : FlattenSeq(s) = f[Len(s)] /\ \A i \in 1 .. Len(s) : f[i] \in Octets
    BY <1>2, Flattened
  <2>2. Len(s) \in 1 .. Len(s)
    BY <1>2, Flattened
  <2>. QED  BY <2>1, <2>2
<1>. QED  BY <1>1, <1>2

(* One part more.                                                           *)
LEMMA FlattenAppend ==
  ASSUME NEW s \in Seq(Octets), NEW e \in Octets
  PROVE  FlattenSeq(Append(s, e)) = FlattenSeq(s) \o e
<1>1. PICK t : t = Append(s, e)
  OBVIOUS
<1>2. /\ t \in Seq(Octets) /\ t # <<>> /\ Len(t) = Len(s) + 1
      /\ \A i \in 1 .. Len(s) : t[i] = s[i]
      /\ t[Len(s) + 1] = e
  BY <1>1, AppendProperties
<1>3. PICK g : Joins(g, t, Len(t)) /\ FlattenSeq(t) = g[Len(t)]
  BY <1>2, Flattened
<1>4. CASE s = <<>>
  <2>1. Len(s) = 0
    BY <1>4
  <2>2. FlattenSeq(t) = e
    BY <1>2, <1>3, <2>1 DEF Joins
  <2>3. FlattenSeq(s) \o e = e
    BY <1>4, FlattenNone, OctetsJoin
  <2>. QED  BY <1>1, <2>2, <2>3
<1>5. CASE s # <<>>
  <2>0. PICK n \in Nat : n = Len(s) /\ n > 0
    BY <1>5, Flattened
  <2>1. PICK f : Joins(f, s, n) /\ FlattenSeq(s) = f[n]
    BY <1>5, <2>0, Flattened
  <2>2. Joins(g, t, n)
    BY <1>2, <1>3, <2>0 DEF Joins
  <2>3. g[n] = f[n]
    <3>1. \A i \in 1 .. n : f[i] = g[i]
      <4>1. \A i \in 1 .. n : s[i] = t[i]
        BY <1>2, <2>0
      <4>. QED  BY <2>1, <2>2, <4>1, JoinUnique
    <3>. QED  BY <2>0, <3>1
  <2>4. g[n + 1] = g[n] \o e
    <3>1. n + 1 \in 1 .. Len(t) /\ n + 1 # 1 /\ (n + 1) - 1 = n
      BY <1>2, <2>0
    <3>2. g[n + 1] = g[(n + 1) - 1] \o t[n + 1]
      BY <1>3, <3>1 DEF Joins
    <3>. QED  BY <1>2, <2>0, <3>1, <3>2
  <2>5. FlattenSeq(t) = g[n + 1]
    BY <1>2, <1>3, <2>0
  <2>. QED  BY <1>1, <2>1, <2>3, <2>4, <2>5
<1>. QED  BY <1>4, <1>5

(* The first part, and the others behind it.                                *)
LEMMA FlattenFirst ==
  ASSUME NEW s \in Seq(Octets), s # <<>>
  PROVE  FlattenSeq(s) = s[1] \o FlattenSeq(Tail(s))
<1>1. PICK t : t = Tail(s)
  OBVIOUS
<1>0. PICK n \in Nat : n = Len(s) /\ n > 0
  BY Flattened
<1>2. PICK f : Joins(f, s, n) /\ FlattenSeq(s) = f[n]
  BY <1>0, Flattened
<1>3. /\ t \in Seq(Octets) /\ Len(t) = n - 1
      /\ \A i \in 1 .. n - 1 : t[i] = s[i + 1]
      /\ \A i \in 1 .. n : s[i] \in Octets
  BY <1>0, <1>1, HeadTailProperties, ElementOfSeq
<1>4. s[1] \in Octets
  BY <1>0, <1>3
<1>5. CASE n = 1
  <2>1. t = <<>>
    BY <1>3, <1>5, EmptySeq
  <2>2. FlattenSeq(s) = s[1]
    BY <1>2, <1>5 DEF Joins
  <2>3. s[1] \o FlattenSeq(t) = s[1]
    BY <1>4, <2>1, FlattenNone, OctetsJoin
  <2>. QED  BY <1>1, <2>2, <2>3
<1>6. CASE n # 1
  <2>0. n - 1 \in Nat /\ n - 1 > 0 /\ Len(t) > 0
    BY <1>0, <1>3, <1>6
  <2>1. t # <<>>
    BY <2>0
  <2>2. PICK g : /\ Joins(g, t, n - 1) /\ FlattenSeq(t) = g[n - 1]
                 /\ \A i \in 1 .. n - 1 : g[i] \in Octets
    BY <1>3, <2>1, Flattened
  <2>. DEFINE S == {i \in 0 .. n - 1 : i = 0 \/ f[i + 1] = s[1] \o g[i]}
  <2>3. 0 \in S
    BY <2>0
  <2>4. ASSUME NEW i \in 1 .. n - 1, i - 1 \in S PROVE i \in S
    <3>0. i + 1 \in 1 .. n /\ i + 1 # 1 /\ (i + 1) - 1 = i
      BY <2>0
    <3>1. f[i + 1] = f[i] \o s[i + 1] /\ s[i + 1] = t[i]
      <4>1. f[i + 1] = f[(i + 1) - 1] \o s[i + 1]
        BY <1>2, <3>0 DEF Joins
      <4>. QED  BY <1>3, <3>0, <4>1
    <3>2. CASE i = 1
      <4>1. 1 \in 1 .. n /\ f[1] = s[1] /\ g[1] = t[1]
        BY <1>0, <1>2, <2>0, <2>2 DEF Joins
      <4>2. f[i + 1] = s[1] \o g[i]
        BY <3>1, <3>2, <4>1, Zenon
      <4>3. i \in 0 .. n - 1
        OBVIOUS
      <4>. QED  BY <4>2, <4>3, Zenon
    <3>3. CASE i # 1
      <4>1. i - 1 \in 1 .. n - 1 /\ (i - 1) + 1 = i
        BY <3>3
      <4>2. f[i] = s[1] \o g[i - 1]
        <5>1. i - 1 = 0 \/ f[(i - 1) + 1] = s[1] \o g[i - 1]
          BY <2>4
        <5>2. i - 1 # 0
          BY <3>3
        <5>. QED  BY <4>1, <5>1, <5>2, Zenon
      <4>3. g[i] = g[i - 1] \o t[i] /\ g[i - 1] \in Octets /\ t[i] \in Octets
        <5>1. g[i] = g[i - 1] \o t[i] /\ g[i - 1] \in Octets
          BY <2>2, <3>3, <4>1 DEF Joins
        <5>2. t[i] \in Octets
          BY <1>3, <3>0, <3>1
        <5>. QED  BY <5>1, <5>2
      <4>4. (s[1] \o g[i - 1]) \o t[i] = s[1] \o (g[i - 1] \o t[i])
        BY <1>4, <4>3, OctetsAssociate
      <4>5. f[i + 1] = s[1] \o g[i]
        BY <3>1, <4>2, <4>3, <4>4, Zenon
      <4>6. i \in 0 .. n - 1
        OBVIOUS
      <4>. QED  BY <4>5, <4>6, Zenon
    <3>. QED  BY <3>2, <3>3
  <2>. HIDE DEF S
  <2>5. 0 .. n - 1 \subseteq S
    BY <2>0, <2>3, <2>4, Upward
  <2>6. n - 1 \in S
    BY <2>0, <2>5
  <2>7. f[n] = s[1] \o g[n - 1]
    <3>1. (n - 1) + 1 = n
      BY <1>0
    <3>2. n - 1 = 0 \/ f[(n - 1) + 1] = s[1] \o g[n - 1]
      BY <2>6 DEF S
    <3>3. n - 1 # 0
      BY <2>0
    <3>. QED  BY <3>1, <3>2, <3>3, Zenon
  <2>. QED  BY <1>1, <1>2, <2>2, <2>7
<1>. QED  BY <1>5, <1>6

(* A message is put behind the parts there are, in one part or in two.      *)
Grows(s2, s, data) ==
  \/ s2 = Append(s, data)
  \/ \E d1, d2 \in Octets : s2 = Append(Append(s, d1), d2) /\ data = d1 \o d2

(* Grown parts make the stream grow by the message, whether the first part   *)
(* still counts or not.                                                     *)
LEMMA GrowsFlat ==
  ASSUME NEW s \in Seq(Octets), NEW data \in Octets, NEW s2, Grows(s2, s, data)
  PROVE  /\ FlattenSeq(s2) = FlattenSeq(s) \o data
         /\ s # <<>> => FlattenSeq(Tail(s2)) = FlattenSeq(Tail(s)) \o data
<1>1. ASSUME NEW t \in Seq(Octets), NEW d1 \in Octets, NEW d2 \in Octets
      PROVE  FlattenSeq(Append(Append(t, d1), d2)) = FlattenSeq(t) \o (d1 \o d2)
  <2>1. Append(t, d1) \in Seq(Octets) /\ FlattenSeq(t) \in Octets
    BY AppendProperties, FlattenType
  <2>2. FlattenSeq(Append(Append(t, d1), d2)) = (FlattenSeq(t) \o d1) \o d2
    BY <2>1, FlattenAppend
  <2>3. (FlattenSeq(t) \o d1) \o d2 = FlattenSeq(t) \o (d1 \o d2)
    BY <2>1, OctetsAssociate
  <2>. QED  BY <2>2, <2>3
<1>2. ASSUME s # <<>>, NEW d1 \in Octets, NEW d2 \in Octets
      PROVE  /\ Tail(s) \in Seq(Octets)
             /\ Tail(Append(s, d1)) = Append(Tail(s), d1)
             /\ Tail(Append(Append(s, d1), d2)) = Append(Append(Tail(s), d1), d2)
  <2>1. Tail(s) \in Seq(Octets)
    BY <1>2, HeadTailProperties
  <2>2. Tail(Append(s, d1)) = Append(Tail(s), d1)
    BY <1>2, HeadTailAppend
  <2>3. Append(s, d1) \in Seq(Octets) /\ Append(s, d1) # <<>>
    BY AppendProperties
  <2>4. Tail(Append(Append(s, d1), d2)) = Append(Tail(Append(s, d1)), d2)
    BY <2>3, HeadTailAppend
  <2>. QED  BY <2>1, <2>2, <2>4
<1>3. CASE s2 = Append(s, data)
  <2>1. FlattenSeq(s2) = FlattenSeq(s) \o data
    BY <1>3, FlattenAppend
  <2>2. ASSUME s # <<>> PROVE FlattenSeq(Tail(s2)) = FlattenSeq(Tail(s)) \o data
    <3>1. Tail(s) \in Seq(Octets) /\ Tail(s2) = Append(Tail(s), data)
      BY <1>2, <1>3, <2>2
    <3>. QED  BY <3>1, FlattenAppend
  <2>. QED  BY <2>1, <2>2
<1>4. ASSUME NEW d1 \in Octets, NEW d2 \in Octets,
             s2 = Append(Append(s, d1), d2), data = d1 \o d2
      PROVE  /\ FlattenSeq(s2) = FlattenSeq(s) \o data
             /\ s # <<>> => FlattenSeq(Tail(s2)) = FlattenSeq(Tail(s)) \o data
  <2>1. FlattenSeq(s2) = FlattenSeq(s) \o data
    BY <1>1, <1>4
  <2>2. ASSUME s # <<>> PROVE FlattenSeq(Tail(s2)) = FlattenSeq(Tail(s)) \o data
    <3>1. Tail(s) \in Seq(Octets) /\ Tail(s2) = Append(Append(Tail(s), d1), d2)
      BY <1>2, <1>4, <2>2
    <3>2. FlattenSeq(Append(Append(Tail(s), d1), d2)) = FlattenSeq(Tail(s)) \o (d1 \o d2)
      BY <1>1, <3>1
    <3>. QED  BY <1>4, <3>1, <3>2, Zenon
  <2>. QED  BY <2>1, <2>2
<1>. QED  BY <1>3, <1>4 DEF Grows

(***************************************************************************)
(* The ring                                                                *)
(***************************************************************************)
(* A memory of bytes.                                                       *)
Memory == [Position -> 0 .. 255]

(* The two memories agree from offset x on, up to offset y.                 *)
SameBytes(mem, mem2, x, y) ==
  \A i \in Nat : x <= i /\ i < y =>
    mem2[MOD(i, queueMaxSize)] = mem[MOD(i, queueMaxSize)]

(* What a chain says of one of its elements.                                *)
LEMMA Link ==
  ASSUME NEW mem, NEW f \in Position, NEW l, NEW c \in Nat, NEW m \in Nat, NEW at,
         Chain(mem, f, l, c, m, at), NEW k \in 1 .. m, NEW next, next = k + 1
  PROVE  /\ at[k] \in Nat /\ at[next] \in Nat
         /\ f <= at[k] /\ at[next] <= f + c
         /\ Element(mem, at[k], at[next])
<1>1. /\ at[k] \in Nat /\ at[next] \in Nat
      /\ at[1] = f /\ at[m + 1] = f + c
  <2>1. at \in [1 .. m + 1 -> Nat] /\ at[1] = f /\ at[m + 1] = f + c
    BY DEF Chain
  <2>2. k \in 1 .. m + 1 /\ next \in 1 .. m + 1
    OBVIOUS
  <2>. QED  BY <2>1, <2>2
<1>2. \A i, j \in 1 .. m + 1 : i <= j => at[i] + (j - i) <= at[j]
  BY DEF Chain
<1>3. 1 \in 1 .. m + 1 /\ k \in 1 .. m + 1 /\ next \in 1 .. m + 1 /\ m + 1 \in 1 .. m + 1
  OBVIOUS
<1>4. 1 <= k /\ next <= m + 1
  OBVIOUS
<1>5. at[1] + (k - 1) <= at[k]
  BY <1>2, <1>3, <1>4
<1>6. at[next] + ((m + 1) - next) <= at[m + 1]
  BY <1>2, <1>3, <1>4
<1>7. f <= at[k] /\ at[next] <= f + c
  BY <1>1, <1>4, <1>5, <1>6
<1>8. \A i \in 1 .. m : Element(mem, at[i], at[i + 1])
  BY DEF Chain
<1>9. Element(mem, at[k], at[next])
  BY <1>8, Zenon
<1>. QED  BY <1>1, <1>7, <1>9

(* The two bytes of a header, one after the other round the ring.           *)
LEMMA HeaderBytes ==
  ASSUME NEW p \in Nat, p < 2 * queueMaxSize - 1
  PROVE  /\ MOD(p, queueMaxSize) \in Position
         /\ MOD(MOD(p, queueMaxSize) + 1, queueMaxSize) = MOD(p + 1, queueMaxSize)
  BY DEF MOD

(***************************************************************************)
(* The data of the elements                                                *)
(***************************************************************************)
(* The data of the element from offset x to offset y, and of all elements.  *)
Data(mem, x, y) ==
  [i \in 1 .. y - x - HeaderSize |-> mem[MOD(x + HeaderSize, queueMaxSize) + i - 1]]
Contents(mem, m, at) == [k \in 1 .. m |-> Data(mem, at[k], at[k + 1])]

(* The data of an element are in the memory, in one piece.                  *)
LEMMA DataOfElement ==
  ASSUME NEW mem \in Memory, NEW x \in Nat, NEW y \in Nat, y < 2 * queueMaxSize,
         Element(mem, x, y)
  PROVE  /\ Data(mem, x, y) \in Octets /\ Len(Data(mem, x, y)) = y - x - HeaderSize
         /\ \A i \in 1 .. y - x - HeaderSize :
              /\ MOD(x + HeaderSize, queueMaxSize) + i - 1 \in Position
              /\ MOD(x + HeaderSize + i - 1, queueMaxSize)
                   = MOD(x + HeaderSize, queueMaxSize) + i - 1
              /\ Data(mem, x, y)[i] = mem[MOD(x + HeaderSize, queueMaxSize) + i - 1]
<1>1. PICK n \in Nat : n = y - x - HeaderSize
  BY DEF Element
<1>2. PICK body : body = MOD(x + HeaderSize, queueMaxSize)
  OBVIOUS
<1>3. body \in Position /\ body + n <= queueMaxSize
  BY <1>1, <1>2 DEF Element, MOD
<1>4. ASSUME NEW i \in 1 .. n
      PROVE  /\ body + i - 1 \in Position
             /\ MOD(x + HeaderSize + i - 1, queueMaxSize) = body + i - 1
  <2>1. body + i - 1 \in Position
    BY <1>3, <1>4
  <2>2. MOD(x + HeaderSize + i - 1, queueMaxSize) = body + i - 1
    BY <1>1, <1>2, <1>3, <1>4 DEF MOD
  <2>. QED  BY <2>1, <2>2
<1>5. PICK data : data = [i \in 1 .. n |-> mem[body + i - 1]]
  OBVIOUS
<1>6. data = Data(mem, x, y)
  BY <1>1, <1>2, <1>5, Zenon DEF Data
<1>7. \A i \in 1 .. n : data[i] = mem[body + i - 1] /\ data[i] \in 0 .. 255
  BY <1>4, <1>5 DEF Memory
<1>8. data \in Octets /\ Len(data) = n
  <2>1. DOMAIN data = 1 .. n /\ data \in [1 .. n -> 0 .. 255]
    BY <1>5, <1>7
  <2>. QED  BY <2>1, LenProperties DEF Octets
<1>. QED  BY <1>1, <1>2, <1>4, <1>6, <1>7, <1>8

(* Data that are not written to stay.                                       *)
LEMMA DataKept ==
  ASSUME NEW mem \in Memory, NEW mem2, NEW x \in Nat, NEW y \in Nat, y < 2 * queueMaxSize,
         Element(mem, x, y),
         NEW f \in Nat, NEW e \in Nat, f <= x, y <= e, SameBytes(mem, mem2, f, e)
  PROVE  Data(mem2, x, y) = Data(mem, x, y)
<1>1. PICK n \in Nat : n = y - x - HeaderSize
  BY DEF Element
<1>2. PICK body : body = MOD(x + HeaderSize, queueMaxSize)
  OBVIOUS
<1>3. ASSUME NEW i \in 1 .. n PROVE mem2[body + i - 1] = mem[body + i - 1]
  <2>1. PICK o \in Nat : o = x + HeaderSize + i - 1
    OBVIOUS
  <2>2. MOD(o, queueMaxSize) = body + i - 1
    <3>1. i \in 1 .. y - x - HeaderSize
      BY <1>1
    <3>2. MOD(x + HeaderSize + i - 1, queueMaxSize) = MOD(x + HeaderSize, queueMaxSize) + i - 1
      BY <3>1, DataOfElement
    <3>. QED  BY <1>2, <2>1, <3>2
  <2>3. f <= o /\ o < e
    BY <1>1, <2>1
  <2>. QED  BY <2>2, <2>3 DEF SameBytes
<1>4. [i \in 1 .. n |-> mem2[body + i - 1]] = [i \in 1 .. n |-> mem[body + i - 1]]
  BY <1>3, Zenon
<1>. QED  BY <1>1, <1>2, <1>4, Zenon DEF Data

(* A chain in a memory of bytes.                                            *)
Ring(mem, f, l, c, m, at) ==
  /\ mem \in Memory /\ f \in Position /\ c \in 0 .. queueMaxSize /\ m \in Nat
  /\ Chain(mem, f, l, c, m, at)

(* The contents of a chain.                                                 *)
LEMMA ContentsOfChain ==
  ASSUME NEW mem, NEW f, NEW l, NEW c, NEW m, NEW at, Ring(mem, f, l, c, m, at)
  PROVE  /\ Contents(mem, m, at) \in Seq(Octets) /\ Len(Contents(mem, m, at)) = m
         /\ \A k \in 1 .. m : Contents(mem, m, at)[k] = Data(mem, at[k], at[k + 1])
<1>. PICK s : s = Contents(mem, m, at)
  OBVIOUS
<1>0. /\ mem \in Memory /\ f \in Position /\ c \in Nat /\ c <= queueMaxSize /\ m \in Nat
      /\ Chain(mem, f, l, c, m, at)
  BY DEF Ring
<1>1. ASSUME NEW k \in 1 .. m PROVE Data(mem, at[k], at[k + 1]) \in Octets
  <2>1. PICK next : next = k + 1
    OBVIOUS
  <2>3. /\ at[k] \in Nat /\ at[next] \in Nat /\ at[next] <= f + c
        /\ Element(mem, at[k], at[next])
    BY <1>0, <2>1, Link, Zenon
  <2>4. at[next] < 2 * queueMaxSize
    BY <1>0, <2>3
  <2>5. Data(mem, at[k], at[next]) \in Octets
    BY <1>0, <2>3, <2>4, DataOfElement
  <2>. QED  BY <2>1, <2>5
<1>2. s = [k \in 1 .. m |-> Data(mem, at[k], at[k + 1])]
  BY DEF Contents
<1>4. /\ \A k \in 1 .. m : s[k] = Data(mem, at[k], at[k + 1])
      /\ DOMAIN s = 1 .. m /\ s \in [1 .. m -> Octets]
  BY <1>1, <1>2, Zenon
<1>5. s \in Seq(Octets) /\ Len(s) = m
  BY <1>0, <1>4, LenProperties
<1>. QED  BY <1>4, <1>5, Zenon

(* at2 begins with the offsets of m elements.                               *)
Extends(at2, at, m) == \A k \in 1 .. m + 1 : at2[k] = at[k]

(* e is where the next element starts.                                     *)
Reaches(m, m2, f, c, e) == m2 = m + 1 /\ e = f + c

(* A chain that is longer by one has one part more.                         *)
LEMMA LongerContents ==
  ASSUME NEW mem, NEW f, NEW l, NEW c, NEW m, NEW at, Ring(mem, f, l, c, m, at),
         NEW mem2, NEW l2, NEW c2, NEW m2, NEW at2, Ring(mem2, f, l2, c2, m2, at2),
         NEW e, Reaches(m, m2, f, c, e), SameBytes(mem, mem2, f, e), Extends(at2, at, m)
  PROVE  Contents(mem2, m2, at2) = Append(Contents(mem, m, at), Data(mem2, e, f + c2))
<1>0. m2 = m + 1 /\ e = f + c
  BY DEF Reaches
<1>1. PICK s, s2 : s = Contents(mem, m, at) /\ s2 = Contents(mem2, m2, at2)
  OBVIOUS
<1>2. /\ s \in Seq(Octets) /\ Len(s) = m
      /\ \A k \in 1 .. m : s[k] = Data(mem, at[k], at[k + 1])
  <2>1. /\ Contents(mem, m, at) \in Seq(Octets) /\ Len(Contents(mem, m, at)) = m
        /\ \A k \in 1 .. m : Contents(mem, m, at)[k] = Data(mem, at[k], at[k + 1])
    BY ContentsOfChain
  <2>. QED  BY <1>1, <2>1, Zenon
<1>3. /\ mem \in Memory /\ mem2 \in Memory /\ f \in Position /\ c \in Nat /\ c <= queueMaxSize
      /\ m \in Nat /\ m2 \in Nat /\ e \in Nat
      /\ Chain(mem, f, l, c, m, at) /\ Chain(mem2, f, l2, c2, m2, at2)
  BY <1>0 DEF Ring
<1>5. /\ s2 \in Seq(Octets) /\ Len(s2) = m2
      /\ \A k \in 1 .. m2 : s2[k] = Data(mem2, at2[k], at2[k + 1])
  <2>1. /\ Contents(mem2, m2, at2) \in Seq(Octets) /\ Len(Contents(mem2, m2, at2)) = m2
        /\ \A k \in 1 .. m2 : Contents(mem2, m2, at2)[k] = Data(mem2, at2[k], at2[k + 1])
    BY ContentsOfChain
  <2>. QED  BY <1>1, <2>1, Zenon
<1>6. ASSUME NEW k \in 1 .. m PROVE s2[k] = s[k]
  <2>1. PICK next : next = k + 1
    OBVIOUS
  <2>3. /\ at[k] \in Nat /\ at[next] \in Nat /\ f <= at[k] /\ at[next] <= f + c
        /\ Element(mem, at[k], at[next])
    BY <1>0, <1>3, <2>1, Link, Zenon
  <2>4. at[next] < 2 * queueMaxSize /\ at[next] <= e /\ f \in Nat
    BY <1>0, <1>3, <2>3
  <2>5. Data(mem2, at[k], at[next]) = Data(mem, at[k], at[next])
    BY <1>0, <1>3, <2>3, <2>4, DataKept
  <2>6. at2[k] = at[k] /\ at2[next] = at[next]
    <3>1. k \in 1 .. m + 1 /\ next \in 1 .. m + 1
      BY <1>0, <1>3, <2>1
    <3>. QED  BY <3>1 DEF Extends
  <2>7. k \in 1 .. m2
    BY <1>0, <1>3
  <2>. QED  BY <1>2, <1>5, <2>1, <2>5, <2>6, <2>7, Zenon
<1>7. s2[m + 1] = Data(mem2, e, f + c2)
  <2>1. at[m + 1] = e /\ m + 1 \in 1 .. m + 1
    BY <1>0, <1>3 DEF Chain
  <2>2. at2[m2 + 1] = f + c2
    BY <1>0, <1>3 DEF Chain
  <2>3. m2 \in 1 .. m2
    BY <1>0, <1>3
  <2>4. at2[m2] = e
    BY <1>0, <2>1 DEF Extends
  <2>. QED  BY <1>0, <1>5, <2>2, <2>3, <2>4, Zenon
<1>8. PICK d \in Octets : d = s2[m + 1]
  <2>1. m + 1 \in 1 .. Len(s2)
    BY <1>0, <1>3, <1>5
  <2>. QED  BY <1>0, <1>5, <2>1, ElementOfSeq
<1>9. s2 = Append(s, d)
  <2>1. /\ Append(s, d) \in Seq(Octets) /\ Len(Append(s, d)) = m + 1
        /\ \A k \in 1 .. m : Append(s, d)[k] = s[k]
        /\ Append(s, d)[m + 1] = d
    BY <1>2, AppendProperties
  <2>2. ASSUME NEW k \in 1 .. Len(s2) PROVE s2[k] = Append(s, d)[k]
    <3>1. k \in 1 .. m \/ k = m + 1
      BY <1>0, <1>3, <1>5
    <3>. QED  BY <1>6, <1>8, <2>1, <3>1
  <2>3. Len(s2) = Len(Append(s, d))
    BY <1>0, <1>3, <1>5, <2>1
  <2>. QED  BY <1>0, <1>5, <2>1, <2>2, <2>3, SeqEqual
<1>. QED  BY <1>0, <1>1, <1>7, <1>8, <1>9

(* The offsets of one element more, which ends at offset end.               *)
Extended(at, m, end) == [k \in 1 .. m + 2 |-> IF k = m + 2 THEN end ELSE at[k]]

(* An element put after the last one, where it does not wrap, makes the     *)
(* chain longer by one if it leaves the others as they were.                *)
LEMMA Longer ==
  ASSUME NEW mem \in Memory, NEW mem2 \in Memory, NEW f \in Position, NEW l, NEW c \in Nat,
         NEW m \in Nat, NEW at, Chain(mem, f, l, c, m, at),
         NEW n \in Nat, n > 0, c + n + HeaderSize <= queueMaxSize,
         Element(mem2, f + c, f + c + n + HeaderSize),
         SameBytes(mem, mem2, f, f + c)
  PROVE  Chain(mem2, f, MOD(f + c, queueMaxSize), c + n + HeaderSize, m + 1,
               Extended(at, m, f + c + n + HeaderSize))
<1>. DEFINE at2 == Extended(at, m, f + c + n + HeaderSize)
<1>1. /\ at \in [1 .. m + 1 -> Nat]
      /\ at[1] = f /\ at[m + 1] = f + c
  BY DEF Chain
<1>2. /\ at2 \in [1 .. m + 2 -> Nat]
      /\ at2[1] = f /\ at2[m + 1] = f + c /\ at2[m + 2] = f + (c + n + HeaderSize)
      /\ \A k \in 1 .. m + 1 : at2[k] = at[k]
  BY <1>1 DEF Extended
<1>. HIDE DEF at2
<1>3. ASSUME NEW k \in 1 .. m PROVE Element(mem2, at[k], at[k + 1])
  <2>1. PICK next : next = k + 1
    OBVIOUS
  <2>2. /\ at[k] \in Nat /\ at[next] \in Nat
        /\ f <= at[k] /\ at[next] <= f + c
        /\ Element(mem, at[k], at[next])
    BY <2>1, Link, Zenon
  <2>3. at[k] + 2 < f + c
    BY <2>2 DEF Element
  <2>4. /\ mem2[MOD(at[k], queueMaxSize)] = mem[MOD(at[k], queueMaxSize)]
        /\ mem2[MOD(at[k] + 1, queueMaxSize)] = mem[MOD(at[k] + 1, queueMaxSize)]
    BY <2>2, <2>3 DEF SameBytes
  <2>5. MOD(MOD(at[k], queueMaxSize) + 1, queueMaxSize) = MOD(at[k] + 1, queueMaxSize)
    BY <2>2, <2>3, HeaderBytes
  <2>6. SizeAt(mem2, MOD(at[k], queueMaxSize)) = SizeAt(mem, MOD(at[k], queueMaxSize))
    BY <2>4, <2>5 DEF SizeAt
  <2>7. Element(mem2, at[k], at[next])
    BY <2>2, <2>6 DEF Element
  <2>. QED  BY <2>1, <2>7
<1>4. ASSUME NEW k \in 1 .. m + 1 PROVE Element(mem2, at2[k], at2[k + 1])
  <2>1. CASE k = m + 1
    <3>1. at2[k] = f + c /\ at2[k + 1] = f + c + n + HeaderSize
      BY <1>2, <2>1
    <3>. QED  BY <3>1
  <2>2. CASE k # m + 1
    <3>1. at2[k] = at[k] /\ at2[k + 1] = at[k + 1]
      BY <1>2, <2>2
    <3>. QED  BY <1>3, <2>2, <3>1
  <2>. QED  BY <2>1, <2>2
<1>5. ASSUME NEW j \in 1 .. m + 2, NEW k \in 1 .. m + 2, j <= k
      PROVE  at2[j] + (k - j) <= at2[k]
  <2>1. \A i \in 1 .. m + 1 : i <= m + 1 /\ at[i] \in Nat /\ at[i] + (m + 1 - i) <= f + c
    BY <1>1 DEF Chain
  <2>2. CASE k = m + 2
    <3>1. CASE j = m + 2
      BY <1>2, <2>2, <3>1
    <3>2. CASE j # m + 2
      <4>1. at2[j] = at[j] /\ at[j] \in Nat
        BY <1>2, <2>1, <3>2
      <4>2. at[j] + (m + 1 - j) <= f + c
        BY <2>1, <3>2
      <4>. QED  BY <1>2, <2>2, <4>1, <4>2
    <3>. QED  BY <3>1, <3>2
  <2>3. CASE k # m + 2
    <3>1. j \in 1 .. m + 1 /\ k \in 1 .. m + 1
      BY <1>5, <2>3
    <3>2. \A i1, i2 \in 1 .. m + 1 : i1 <= i2 => at[i1] + (i2 - i1) <= at[i2]
      BY DEF Chain
    <3>3. at[j] + (k - j) <= at[k]
      BY <1>5, <3>1, <3>2
    <3>. QED  BY <1>2, <3>1, <3>3
  <2>. QED  BY <2>2, <2>3
<1>6. m + 1 # 0 /\ (m + 1) + 1 = m + 2
  OBVIOUS
<1>7. Chain(mem2, f, MOD(f + c, queueMaxSize), c + n + HeaderSize, m + 1, at2)
  BY <1>2, <1>4, <1>5, <1>6 DEF Chain
<1>. QED  BY <1>7 DEF at2

(* at2 are the offsets at but the first, in the lap of the first that is left. *)
Shifted(at2, at, m) ==
  m > 1 => \E lap \in {0, queueMaxSize} : \A k \in 1 .. m : at2[k] = at[k + 1] - lap

(* Without its first element the chain starts at the second one.            *)
LEMMA Shorter ==
  ASSUME NEW mem \in Memory, NEW f \in Position, NEW l, NEW c \in 0 .. queueMaxSize,
         NEW m \in Nat, m > 0, NEW at, Chain(mem, f, l, c, m, at),
         NEW n, n = SizeAt(mem, f),
         NEW f2, f2 = IF c - (n + HeaderSize) > 0 THEN MOD(f + n + HeaderSize, queueMaxSize) ELSE f
  PROVE  /\ n \in Nat /\ c - (n + HeaderSize) \in 0 .. queueMaxSize /\ f2 \in Position
         /\ \E at2 : Chain(mem, f2, l, c - (n + HeaderSize), m - 1, at2) /\ Shifted(at2, at, m)
         /\ c - (n + HeaderSize) > 0 <=> m > 1
<1>1. at[1] = f /\ at[m + 1] = f + c /\ at \in [1 .. m + 1 -> Nat]
  BY DEF Chain
<1>2. l = MOD(at[m], queueMaxSize)
  BY DEF Chain
<1>3. c \in Nat
  OBVIOUS
<1>4. \A j, k \in 1 .. m + 1 : j <= k => at[j] + (k - j) <= at[k]
  BY DEF Chain
<1>5. /\ at[2] \in Nat /\ at[2] <= f + c
      /\ Element(mem, f, at[2])
  <2>1. 1 \in 1 .. m /\ 2 = 1 + 1
    OBVIOUS
  <2>2. at[2] \in Nat /\ at[2] <= f + c /\ Element(mem, at[1], at[2])
    BY <1>3, <2>1, Link, Zenon
  <2>. QED  BY <1>1, <2>2
<1>6. MOD(f, queueMaxSize) = f
  BY DEF MOD
<1>7. n = at[2] - f - HeaderSize /\ n > 0 /\ n \in Nat
  BY <1>5, <1>6 DEF Element
<1>8. c - (n + HeaderSize) = f + c - at[2]
  BY <1>5, <1>7
<1>9. c - (n + HeaderSize) \in 0 .. queueMaxSize
  BY <1>5, <1>7, <1>8
<1>10. CASE m = 1
  <2>. DEFINE at2 == [k \in 1 .. 1 |-> f]
  <2>1. c - (n + HeaderSize) = 0 /\ f2 = f /\ l = f
    BY <1>1, <1>2, <1>6, <1>8, <1>10
  <2>2. Chain(mem, f, l, 0, 0, at2)
    BY <2>1 DEF Chain
  <2>3. Shifted(at2, at, m)
    BY <1>10 DEF Shifted
  <2>. QED  BY <1>7, <1>9, <1>10, <2>1, <2>2, <2>3
<1>11. CASE m > 1
  <2>. DEFINE lap == IF at[2] >= queueMaxSize THEN queueMaxSize ELSE 0
              at2 == [k \in 1 .. m |-> at[k + 1] - lap]
  <2>1. c - (n + HeaderSize) > 0
    <3>1. Element(mem, at[2], at[3]) /\ at[3] <= f + c /\ at[3] \in Nat
      <4>1. 2 \in 1 .. m /\ 3 = 2 + 1
        BY <1>11
      <4>. QED  BY <1>3, <4>1, Link, Zenon
    <3>. QED  BY <1>5, <1>8, <3>1 DEF Element
  <2>2. f2 = at[2] - lap /\ f2 \in Position
    BY <1>5, <1>7, <1>8, <2>1 DEF MOD
  <2>3. ASSUME NEW j \in 2 .. m + 1, NEW k \in 2 .. m + 1, j <= k
        PROVE  at[j] \in Nat /\ at[k] \in Nat /\ at[2] <= at[j] /\ at[j] + (k - j) <= at[k]
    <3>1. at[j] \in Nat /\ at[k] \in Nat
      BY <1>1
    <3>2. at[2] + (j - 2) <= at[j] /\ at[j] + (k - j) <= at[k]
      BY <1>4, <1>11, <2>3
    <3>. QED  BY <1>5, <3>1, <3>2
  <2>4. at2 \in [1 .. m -> Nat] /\ \A k \in 1 .. m : at2[k] = at[k + 1] - lap
    BY <1>5, <2>3
  <2>5. lap \in {0, queueMaxSize} /\ lap \in Nat
    OBVIOUS
  <2>6. at[2] < queueMaxSize => lap = 0
    BY <1>5
  <2>7. at[2] >= queueMaxSize => lap = queueMaxSize
    BY <1>5
  <2>. HIDE DEF lap, at2
  <2>8. at2[1] = f2
    BY <1>11, <2>2, <2>4
  <2>9. at2[m] = f2 + (c - (n + HeaderSize))
    <3>1. at2[m] = at[m + 1] - lap
      BY <1>11, <2>4
    <3>2. f2 + (c - (n + HeaderSize)) = (at[2] - lap) + (f + c - at[2])
      BY <1>8, <2>2
    <3>3. (at[2] - lap) + (f + c - at[2]) = (f + c) - lap
      BY <1>5, <2>5
    <3>4. at2[m] = (f + c) - lap
      BY <1>1, <3>1, Zenon
    <3>. QED  BY <3>2, <3>3, <3>4
  <2>10. ASSUME NEW i \in 2 .. m + 1
        PROVE  at[i] \in Nat /\ at[2] <= at[i] /\ at[i] <= f + c /\ at[i] - lap \in Nat
    <3>1. at[i] \in Nat
      BY <1>1
    <3>2. at[2] <= at[i]
      BY <1>11, <2>3, <2>10
    <3>3. at[i] + ((m + 1) - i) <= f + c
      BY <1>1, <1>4, <2>10
    <3>4. at[2] - lap \in Nat
      BY <2>2
    <3>5. at[i] - lap \in Nat
      BY <1>5, <2>5, <3>1, <3>2, <3>4
    <3>. QED  BY <1>1, <3>1, <3>2, <3>3, <3>5
  <2>11. ASSUME NEW i \in 2 .. m + 1, NEW d \in {0, HeaderSize},
               at[i] + d < 2 * queueMaxSize
        PROVE  MOD((at[i] - lap) + d, queueMaxSize) = MOD(at[i] + d, queueMaxSize)
    <3>1. at[i] \in Nat /\ at[2] <= at[i]
      BY <2>10
    <3>2. at[2] < queueMaxSize => lap = 0
      BY <2>6
    <3>3. at[2] >= queueMaxSize => lap = queueMaxSize /\ at[i] >= queueMaxSize
      BY <1>5, <2>7, <3>1
    <3>4. at[2] < queueMaxSize \/ at[2] >= queueMaxSize
      BY <1>5
    <3>5. \/ lap = 0
          \/ lap = queueMaxSize /\ at[i] >= queueMaxSize
      BY <3>2, <3>3, <3>4, Zenon
    <3>. QED  BY <2>5, <2>11, <3>1, <3>5 DEF MOD
  <2>12. ASSUME NEW k \in 1 .. m - 1
        PROVE  Element(mem, at2[k], at2[k + 1])
    <3>1. PICK this, next : this = k + 1 /\ next = this + 1
      OBVIOUS
    <3>2. this \in 2 .. m /\ next \in 2 .. m + 1 /\ this \in 1 .. m /\ this \in 2 .. m + 1
      BY <3>1
    <3>3. Element(mem, at[this], at[next])
      BY <1>3, <3>1, <3>2, Link, Zenon
    <3>4. /\ at[this] \in Nat /\ at[next] \in Nat /\ at[next] <= f + c
          /\ at[this] - lap \in Nat
      BY <2>10, <3>2
    <3>5. at[this] + HeaderSize < f + c
      BY <3>3, <3>4 DEF Element
    <3>6. MOD(at[this] - lap, queueMaxSize) = MOD(at[this], queueMaxSize)
      <4>1. MOD((at[this] - lap) + 0, queueMaxSize) = MOD(at[this] + 0, queueMaxSize)
        BY <2>11, <3>2, <3>4, <3>5
      <4>. QED  BY <3>4, <4>1
    <3>7. MOD((at[this] - lap) + HeaderSize, queueMaxSize) = MOD(at[this] + HeaderSize, queueMaxSize)
      BY <2>11, <3>2, <3>4, <3>5
    <3>8. (at[next] - lap) - (at[this] - lap) = at[next] - at[this]
      BY <2>5, <3>4
    <3>9. at2[k] = at[this] - lap /\ at2[k + 1] = at[next] - lap
      BY <2>4, <3>1
    <3>10. Element(mem, at[this] - lap, at[next] - lap)
      BY <2>5, <3>3, <3>4, <3>6, <3>7, <3>8 DEF Element
    <3>. QED  BY <3>9, <3>10
  <2>13. ASSUME NEW j \in 1 .. m, NEW k \in 1 .. m, j <= k
         PROVE  at2[j] + (k - j) <= at2[k]
    <3>1. j + 1 \in 2 .. m + 1 /\ k + 1 \in 2 .. m + 1 /\ j + 1 <= k + 1
      BY <2>13
    <3>2. /\ at[j + 1] \in Nat /\ at[k + 1] \in Nat
          /\ at[j + 1] + ((k + 1) - (j + 1)) <= at[k + 1]
      BY <2>3, <3>1
    <3>3. at2[j] = at[j + 1] - lap /\ at2[k] = at[k + 1] - lap
      BY <2>4
    <3>4. (at[j + 1] - lap) + (k - j) <= at[k + 1] - lap
      BY <2>5, <3>2
    <3>. QED  BY <3>3, <3>4
  <2>14. l = MOD(at2[m - 1], queueMaxSize)
    <3>1. at2[m - 1] = at[m] - lap
      BY <1>11, <2>4
    <3>2. m \in 2 .. m + 1 /\ m \in 1 .. m
      BY <1>11
    <3>3. Element(mem, at[m], at[m + 1])
      BY <1>3, <3>2, Link, Zenon
    <3>4. /\ at[m] \in Nat /\ at[m + 1] \in Nat /\ at[m + 1] <= f + c
          /\ at[m] - lap \in Nat
      BY <1>1, <2>10, <3>2
    <3>5. at[m] + HeaderSize < f + c
      BY <3>3, <3>4 DEF Element
    <3>6. MOD((at[m] - lap) + 0, queueMaxSize) = MOD(at[m] + 0, queueMaxSize)
      BY <2>11, <3>2, <3>4, <3>5
    <3>. QED  BY <1>2, <3>1, <3>4, <3>6
  <2>15. Chain(mem, f2, l, c - (n + HeaderSize), m - 1, at2)
    <3>1. (m - 1) + 1 = m /\ m - 1 # 0
      BY <1>11
    <3>. QED  BY <2>4, <2>8, <2>9, <2>12, <2>13, <2>14, <3>1 DEF Chain
  <2>16. Shifted(at2, at, m)
    BY <2>4, <2>5, Zenon DEF Shifted
  <2>. QED  BY <1>7, <1>9, <1>11, <2>1, <2>2, <2>15, <2>16
<1>. QED  BY <1>10, <1>11

(* What the chain without its first element holds.                          *)
LEMMA ShorterContents ==
  ASSUME NEW mem, NEW f, NEW l, NEW c, NEW m, NEW at, Ring(mem, f, l, c, m, at), m > 0,
         NEW f2, NEW c2, NEW m2, NEW at2, Ring(mem, f2, l, c2, m2, at2), m2 = m - 1,
         Shifted(at2, at, m)
  PROVE  Contents(mem, m2, at2) = Tail(Contents(mem, m, at))
<1>1. /\ mem \in Memory /\ f \in Position /\ f2 \in Position /\ c \in Nat /\ c2 \in Nat
      /\ c <= queueMaxSize /\ c2 <= queueMaxSize /\ m \in Nat /\ m2 \in Nat
      /\ Chain(mem, f, l, c, m, at) /\ Chain(mem, f2, l, c2, m2, at2)
  BY DEF Ring
<1>3. PICK s, s2 : s = Contents(mem, m, at) /\ s2 = Contents(mem, m2, at2)
  OBVIOUS
<1>4. /\ s \in Seq(Octets) /\ Len(s) = m
      /\ \A k \in 1 .. m : s[k] = Data(mem, at[k], at[k + 1])
  <2>1. /\ Contents(mem, m, at) \in Seq(Octets) /\ Len(Contents(mem, m, at)) = m
        /\ \A k \in 1 .. m : Contents(mem, m, at)[k] = Data(mem, at[k], at[k + 1])
    BY ContentsOfChain
  <2>. QED  BY <1>3, <2>1, Zenon
<1>5. /\ s2 \in Seq(Octets) /\ Len(s2) = m2
      /\ \A k \in 1 .. m2 : s2[k] = Data(mem, at2[k], at2[k + 1])
  <2>1. /\ Contents(mem, m2, at2) \in Seq(Octets) /\ Len(Contents(mem, m2, at2)) = m2
        /\ \A k \in 1 .. m2 : Contents(mem, m2, at2)[k] = Data(mem, at2[k], at2[k + 1])
    BY ContentsOfChain
  <2>. QED  BY <1>3, <2>1, Zenon
<1>6. s # <<>>
  BY <1>4
<1>7. /\ Tail(s) \in Seq(Octets) /\ Len(Tail(s)) = m2
      /\ \A k \in 1 .. m2 : Tail(s)[k] = s[k + 1]
  BY <1>1, <1>4, <1>6, HeadTailProperties
<1>8. ASSUME NEW k \in 1 .. m2 PROVE s2[k] = Tail(s)[k]
  <2>1. PICK lap \in {0, queueMaxSize} : \A i \in 1 .. m : at2[i] = at[i + 1] - lap
    BY <1>1, <1>8 DEF Shifted
  <2>2. PICK this, next : this = k + 1 /\ next = this + 1
    OBVIOUS
  <2>3. this \in 1 .. m /\ k \in 1 .. m /\ k \in 1 .. m2 /\ this = k + 1
    BY <1>1, <2>2
  <2>4. at[this] \in Nat /\ at[next] \in Nat /\ at[next] <= f + c /\ Element(mem, at[this], at[next])
    BY <1>1, <2>2, <2>3, Link, Zenon
  <2>5. at2[k] \in Nat /\ at2[this] \in Nat /\ at2[this] <= f2 + c2 /\ Element(mem, at2[k], at2[this])
    BY <1>1, <2>3, Link, Zenon
  <2>6. at2[k] = at[this] - lap /\ at2[this] = at[next] - lap
    BY <2>1, <2>2, <2>3
  <2>7. at2[this] - at2[k] = at[next] - at[this]
    BY <2>4, <2>5, <2>6
  <2>8. MOD(at2[k] + HeaderSize, queueMaxSize) = MOD(at[this] + HeaderSize, queueMaxSize)
    <3>1. at[this] + HeaderSize < 2 * queueMaxSize
      BY <1>1, <2>4 DEF Element
    <3>2. CASE lap = 0
      BY <2>4, <2>6, <3>2
    <3>3. CASE lap = queueMaxSize
      BY <2>4, <2>5, <2>6, <3>1, <3>3 DEF MOD
    <3>. QED  BY <3>2, <3>3
  <2>9. Data(mem, at2[k], at2[this]) = Data(mem, at[this], at[next])
    BY <2>7, <2>8, Zenon DEF Data
  <2>10. s2[k] = Data(mem, at2[k], at2[this])
    BY <1>5, <2>3, Zenon
  <2>11. Tail(s)[k] = Data(mem, at[this], at[next])
    BY <1>4, <1>7, <2>2, <2>3, Zenon
  <2>. QED  BY <2>9, <2>10, <2>11
<1>9. s2 = Tail(s)
  BY <1>5, <1>7, <1>8, SeqEqual
<1>. QED  BY <1>1, <1>3, <1>9

(* A chain has no element exactly when it takes no byte, and never more     *)
(* elements than bytes.                                                     *)
LEMMA EmptyChain ==
  ASSUME NEW mem, NEW f \in Position, NEW l, NEW c \in Nat, NEW m \in Nat, NEW at,
         Chain(mem, f, l, c, m, at)
  PROVE  m <= c /\ (m = 0 <=> c = 0)
<1>1. at[1] = f /\ at[m + 1] = f + c
  BY DEF Chain
<1>2. at[1] + ((m + 1) - 1) <= at[m + 1]
  BY DEF Chain
<1>3. m = 0 => c = 0
  BY <1>1
<1>. QED  BY <1>1, <1>2, <1>3

(* The first element of a chain, in one piece.                              *)
LEMMA FirstElement ==
  ASSUME NEW mem, NEW f \in Position, NEW l, NEW c \in Nat, NEW m \in Nat, m > 0, NEW at,
         Chain(mem, f, l, c, m, at)
  PROVE  /\ SizeAt(mem, f) \in Nat /\ SizeAt(mem, f) > 0
         /\ SizeAt(mem, f) + HeaderSize <= c
         /\ MOD(f + HeaderSize, queueMaxSize) + SizeAt(mem, f) <= queueMaxSize
<1>1. at[1] = f
  BY DEF Chain
<1>2. PICK one, two : one = 1 /\ two = one + 1 /\ one \in 1 .. m
  OBVIOUS
<1>3. at[two] \in Nat /\ at[two] <= f + c /\ Element(mem, at[one], at[two])
  BY <1>2, Link, Zenon
<1>4. at[two] \in Nat /\ at[two] <= f + c /\ Element(mem, f, at[two])
  BY <1>1, <1>2, <1>3
<1>5. MOD(f, queueMaxSize) = f
  BY DEF MOD
<1>. QED  BY <1>4, <1>5 DEF Element

(* The bytes the last element takes.                                        *)
LastSize(mem, l, c) == IF c = 0 THEN 0 ELSE SizeAt(mem, l) + HeaderSize

(* The end of the last element, where the code looks for it: either it is   *)
(* f + c itself or, when the last element starts in the second lap, one lap *)
(* less.                                                                    *)
LEMMA EndOfLast ==
  ASSUME NEW f \in Position, NEW l, NEW c \in 0 .. queueMaxSize, NEW m \in Nat, NEW at,
         NEW mem, Chain(mem, f, l, c, m, at)
  PROVE  /\ l \in Position /\ LastSize(mem, l, c) \in Nat
         /\ \/ l >= f /\ l + LastSize(mem, l, c) = f + c
            \/ l < f /\ l + LastSize(mem, l, c) = f + c - queueMaxSize
<1>1. PICK size : size = LastSize(mem, l, c)
  OBVIOUS
<1>2. at[1] = f /\ at[m + 1] = f + c /\ at \in [1 .. m + 1 -> Nat]
  BY DEF Chain
<1>3. CASE m = 0
  BY <1>1, <1>2, <1>3 DEF Chain, LastSize
<1>4. CASE m # 0
  <2>1. l = MOD(at[m], queueMaxSize)
    BY <1>4 DEF Chain
  <2>2. c # 0
    <3>1. c \in Nat
      OBVIOUS
    <3>. QED  BY <1>4, <3>1, EmptyChain, Zenon
  <2>3. PICK next : next = m + 1 /\ m \in 1 .. m
    BY <1>4
  <2>4. at[m] \in Nat /\ f <= at[m] /\ Element(mem, at[m], at[next])
    <3>1. c \in Nat
      OBVIOUS
    <3>. QED  BY <2>3, <3>1, Link, Zenon
  <2>5. Element(mem, at[m], f + c)
    BY <1>2, <2>3, <2>4
  <2>6. size = f + c - at[m] /\ size > HeaderSize
    BY <1>1, <2>1, <2>2, <2>4, <2>5 DEF Element, LastSize
  <2>. QED  BY <1>1, <2>1, <2>4, <2>6 DEF MOD
<1>. QED  BY <1>3, <1>4

(***************************************************************************)
(* Writing into the memory                                                 *)
(***************************************************************************)
(* A header is written: its length is read back, nothing else changes.      *)
LEMMA HeaderWritten ==
  ASSUME NEW mem \in Memory, NEW p \in Position, NEW n \in 0 .. 255
  PROVE  /\ WriteHeader(mem, p, n) \in Memory
         /\ SizeAt(WriteHeader(mem, p, n), p) = n
         /\ \A i \in Position : i # p /\ i # MOD(p + 1, queueMaxSize) =>
              WriteHeader(mem, p, n)[i] = mem[i]
<1>1. n % 256 = n /\ n \div 256 = 0
  OBVIOUS
<1>2. MOD(p + 1, queueMaxSize) \in Position /\ MOD(p + 1, queueMaxSize) # p
  BY DEF MOD
<1>3. WriteHeader(mem, p, n) = [mem EXCEPT ![p] = n, ![MOD(p + 1, queueMaxSize)] = 0]
  BY <1>1 DEF WriteHeader
<1>4. PICK q \in Position : q = MOD(p + 1, queueMaxSize) /\ q # p
  BY <1>2
<1>5. PICK mem2 : mem2 = [mem EXCEPT ![p] = n, ![q] = 0]
  OBVIOUS
<1>6. mem2 \in Memory
  <2>1. 0 \in 0 .. 255
    OBVIOUS
  <2>. HIDE DEF Position
  <2>2. \A i \in Position : mem2[i] \in 0 .. 255
    BY <1>5, <2>1 DEF Memory
  <2>. QED  BY <1>5, <2>2 DEF Memory
<1>7. /\ mem2[p] = n /\ mem2[q] = 0
      /\ \A i \in Position : i # p /\ i # q => mem2[i] = mem[i]
  BY <1>4, <1>5 DEF Memory
<1>8. SizeAt(mem2, p) = n
  BY <1>4, <1>7 DEF SizeAt
<1>9. mem2 = WriteHeader(mem, p, n)
  BY <1>3, <1>4, <1>5
<1>. QED  BY <1>4, <1>6, <1>7, <1>8, <1>9

(* Data are written: only their bytes change.                               *)
LEMMA DataWritten ==
  ASSUME NEW mem \in Memory, NEW p \in Position, NEW data \in Seq(0 .. 255)
  PROVE  /\ Write(mem, p, data) \in Memory
         /\ \A i \in Position : i < p \/ i >= p + Len(data) => Write(mem, p, data)[i] = mem[i]
         /\ \A i \in 1 .. Len(data) : p + i - 1 \in Position => Write(mem, p, data)[p + i - 1] = data[i]
<1>1. ASSUME NEW i \in Position, i >= p /\ i < p + Len(data)
      PROVE  data[(i - p) + 1] \in 0 .. 255
  <2>1. (i - p) + 1 \in 1 .. Len(data)
    BY <1>1, LenProperties
  <2>. QED  BY <2>1, ElementOfSeq
<1>2. Len(data) \in Nat
  BY LenProperties
<1>3. Write(mem, p, data) = [i \in Position |-> IF i >= p /\ i < p + Len(data)
                                               THEN data[(i - p) + 1] ELSE mem[i]]
  BY DEF Write
<1>4. Write(mem, p, data) \in Memory
  BY <1>1, <1>3 DEF Memory
<1>5. ASSUME NEW i \in Position, i < p \/ i >= p + Len(data)
      PROVE  Write(mem, p, data)[i] = mem[i]
  BY <1>2, <1>3, <1>5
<1>6. ASSUME NEW i \in 1 .. Len(data), p + i - 1 \in Position
      PROVE  Write(mem, p, data)[p + i - 1] = data[i]
  <2>1. PICK j \in Position : j = p + i - 1 /\ j >= p /\ j < p + Len(data) /\ (j - p) + 1 = i
    BY <1>2, <1>6
  <2>2. Write(mem, p, data)[j] = data[(j - p) + 1]
    BY <1>3, <2>1
  <2>. QED  BY <2>1, <2>2
<1>. QED  BY <1>4, <1>5, <1>6

(* The positions of offsets before x, and not a lap behind it, are not those *)
(* from x on.                                                               *)
LEMMA Apart ==
  ASSUME NEW x \in Nat, NEW y \in Nat, NEW n \in Nat, y < x, x + n <= y + queueMaxSize,
         x + n < 2 * queueMaxSize, MOD(x, queueMaxSize) + n <= queueMaxSize
  PROVE  \/ MOD(y, queueMaxSize) < MOD(x, queueMaxSize)
         \/ MOD(y, queueMaxSize) >= MOD(x, queueMaxSize) + n
<1>1. queueMaxSize \in Nat
  OBVIOUS
<1>. QED  BY <1>1 DEF MOD

(* The memory once a part, not split, is written from offset e on.          *)
Part(mem, e, n, data) ==
  Write(WriteHeader(mem, MOD(e, queueMaxSize), n), MOD(e + HeaderSize, queueMaxSize), data)

(* In memory mem2 the chain has one element more than at has in mem, data.   *)
OneMore(mem2, f, l2, c2, mem, m, at, data) ==
  \E at2 : /\ Chain(mem2, f, l2, c2, m + 1, at2)
           /\ Contents(mem2, m + 1, at2) = Append(Contents(mem, m, at), data)

(* CircularQueue_Add of a part that is not split: one element more.         *)
LEMMA AddPart ==
  ASSUME NEW mem \in Memory, NEW f \in Position, NEW l, NEW c \in Nat, NEW m \in Nat, NEW at,
         Chain(mem, f, l, c, m, at),
         NEW data \in Seq(0 .. 255), NEW n \in 1 .. 255, Len(data) = n,
         c + n + HeaderSize <= queueMaxSize,
         MOD(f + c + HeaderSize, queueMaxSize) + n <= queueMaxSize,
         NEW e, e = f + c, NEW mem2, mem2 = Part(mem, e, n, data)
  PROVE  /\ mem2 \in Memory
         /\ OneMore(mem2, f, MOD(f + c, queueMaxSize), c + n + HeaderSize, mem, m, at, data)
         /\ SameBytes(mem, mem2, f, e)
<1>1. e = f + c /\ e \in Nat
  OBVIOUS
<1>2. /\ MOD(e, queueMaxSize) \in Position /\ MOD(e + 1, queueMaxSize) \in Position
       /\ MOD(e + HeaderSize, queueMaxSize) \in Position
       /\ MOD(e + 1, queueMaxSize) = MOD(MOD(e, queueMaxSize) + 1, queueMaxSize)
  BY <1>1 DEF MOD
<1>3. PICK body \in Position : body = MOD(e + HeaderSize, queueMaxSize) /\ body + n <= queueMaxSize
  BY <1>1, <1>2
<1>4. PICK p \in Position, q \in Position :
        /\ p = MOD(e, queueMaxSize) /\ q = MOD(e + 1, queueMaxSize)
        /\ q = MOD(p + 1, queueMaxSize)
  BY <1>2, Zenon
<1>5. PICK mem1 : mem1 = WriteHeader(mem, p, n)
  OBVIOUS
<1>6. /\ mem1 \in Memory /\ SizeAt(mem1, p) = n
      /\ \A i \in Position : i # p /\ i # q => mem1[i] = mem[i]
  <2>1. n \in 0 .. 255
    OBVIOUS
  <2>2. p \in Position
    BY <1>4
  <2>3. mem1 \in Memory
    BY <1>5, <2>1, <2>2, HeaderWritten
  <2>4. SizeAt(mem1, p) = n
    BY <1>5, <2>1, <2>2, HeaderWritten
  <2>5. \A i \in Position : i # p /\ i # MOD(p + 1, queueMaxSize) => mem1[i] = mem[i]
    BY <1>5, <2>1, <2>2, HeaderWritten
  <2>6. \A i \in Position : i # p /\ i # q => mem1[i] = mem[i]
    BY <1>4, <2>5, Zenon
  <2>. QED  BY <2>3, <2>4, <2>6
<1>7. mem2 = Write(mem1, body, data)
  BY <1>1, <1>3, <1>4, <1>5 DEF Part
<1>8. /\ mem2 \in Memory
      /\ \A i \in Position : i < body \/ i >= body + n => mem2[i] = mem1[i]
  <2>1. PICK i0 \in Nat : i0 = body + n
    BY <1>3
  <2>2. Write(mem1, body, data) \in Memory
    BY <1>6, DataWritten
  <2>3. \A i \in Position : i < body \/ i >= body + Len(data) =>
          Write(mem1, body, data)[i] = mem1[i]
    BY <1>6, DataWritten
  <2>. QED  BY <1>7, <2>2, <2>3
<1>9. ASSUME NEW y \in Nat, f <= y, y < e + HeaderSize
      PROVE  mem2[MOD(y, queueMaxSize)] = mem1[MOD(y, queueMaxSize)]
  <2>1. MOD(y, queueMaxSize) \in Position
    BY <1>1, <1>9 DEF MOD
  <2>2. MOD(y, queueMaxSize) < body \/ MOD(y, queueMaxSize) >= body + n
    <3>1. PICK x \in Nat : x = e + HeaderSize
      OBVIOUS
    <3>2. y < x /\ x + n <= y + queueMaxSize /\ x + n < 2 * queueMaxSize
      BY <1>1, <1>9, <3>1
    <3>3. MOD(x, queueMaxSize) + n <= queueMaxSize /\ body = MOD(x, queueMaxSize) /\ n \in Nat
      BY <1>3, <3>1
    <3>. QED  BY <3>2, <3>3, Apart
  <2>. QED  BY <1>8, <2>1, <2>2
<1>10. SameBytes(mem, mem2, f, e)
  <2>1. ASSUME NEW y \in Nat, f <= y, y < e
        PROVE  mem2[MOD(y, queueMaxSize)] = mem[MOD(y, queueMaxSize)]
    <3>1. mem2[MOD(y, queueMaxSize)] = mem1[MOD(y, queueMaxSize)]
      BY <1>9, <2>1
    <3>2. /\ MOD(y, queueMaxSize) \in Position
          /\ MOD(y, queueMaxSize) # p /\ MOD(y, queueMaxSize) # q
      BY <1>1, <1>4, <2>1 DEF MOD
    <3>. QED  BY <1>6, <3>1, <3>2
  <2>. QED  BY <2>1 DEF SameBytes
<1>11. SizeAt(mem2, p) = n
  <2>1. mem2[p] = mem1[p] /\ mem2[q] = mem1[q]
    <3>1. f <= e /\ e < e + HeaderSize /\ f <= e + 1 /\ e + 1 < e + HeaderSize /\ e + 1 \in Nat
      BY <1>1
    <3>. QED  BY <1>4, <1>9, <3>1
  <2>. QED  BY <1>4, <1>6, <2>1 DEF SizeAt
<1>12. Element(mem2, f + c, f + c + n + HeaderSize)
  BY <1>1, <1>3, <1>4, <1>11 DEF Element
<1>13. PICK at2 : at2 = Extended(at, m, f + c + n + HeaderSize)
  OBVIOUS
<1>14. Chain(mem2, f, MOD(f + c, queueMaxSize), c + n + HeaderSize, m + 1, at2)
  <2>1. n \in Nat /\ n > 0 /\ SameBytes(mem, mem2, f, f + c)
    BY <1>1, <1>10
  <2>. QED  BY <1>8, <1>12, <1>13, <2>1, Longer, Zenon
<1>15. Data(mem2, e, f + (c + n + HeaderSize)) = data
  <2>1. PICK y \in Nat : y = f + (c + n + HeaderSize)
    OBVIOUS
  <2>2. Element(mem2, e, y) /\ y < 2 * queueMaxSize /\ y - e - HeaderSize = n
    <3>1. f + c + n + HeaderSize = y
      BY <2>1
    <3>. QED  BY <1>1, <1>12, <2>1, <3>1
  <2>3. /\ Data(mem2, e, y) \in Octets /\ Len(Data(mem2, e, y)) = n
        /\ \A i \in 1 .. n : body + i - 1 \in Position /\ Data(mem2, e, y)[i] = mem2[body + i - 1]
    <3>1. e \in Nat /\ mem2 \in Memory
      BY <1>1, <1>8
    <3>2. /\ Data(mem2, e, y) \in Octets /\ Len(Data(mem2, e, y)) = y - e - HeaderSize
          /\ \A i \in 1 .. y - e - HeaderSize :
               /\ MOD(e + HeaderSize, queueMaxSize) + i - 1 \in Position
               /\ Data(mem2, e, y)[i] = mem2[MOD(e + HeaderSize, queueMaxSize) + i - 1]
      BY <2>2, <3>1, DataOfElement, Zenon
    <3>. QED  BY <1>3, <2>2, <3>2, Zenon
  <2>4. \A i \in 1 .. n : body + i - 1 \in Position => mem2[body + i - 1] = data[i]
    <3>1. \A i \in 1 .. Len(data) : body + i - 1 \in Position =>
            Write(mem1, body, data)[body + i - 1] = data[i]
      BY <1>6, DataWritten
    <3>. QED  BY <1>7, <3>1, Zenon
  <2>5. \A i \in 1 .. n : Data(mem2, e, y)[i] = data[i]
    BY <2>3, <2>4
  <2>6. Data(mem2, e, y) \in Seq(0 .. 255)
    BY <2>3 DEF Octets
  <2>7. Data(mem2, e, y) = data
    BY <2>3, <2>5, <2>6, SeqEqual
  <2>. QED  BY <2>1, <2>7
<1>16. Contents(mem2, m + 1, at2) = Append(Contents(mem, m, at), data)
  <2>1. PICK c2, l2, m2 : c2 = c + n + HeaderSize /\ l2 = MOD(f + c, queueMaxSize) /\ m2 = m + 1
    OBVIOUS
  <2>2. Ring(mem2, f, l2, c2, m2, at2)
    BY <1>8, <1>14, <2>1 DEF Ring
  <2>3. Ring(mem, f, l, c, m, at)
    BY DEF Ring
  <2>4. Extends(at2, at, m)
    BY <1>13 DEF Extended, Extends
  <2>5. Contents(mem2, m2, at2) = Append(Contents(mem, m, at), Data(mem2, e, f + c2))
    <3>1. Reaches(m, m2, f, c, e)
      BY <1>1, <2>1 DEF Reaches
    <3>. QED  BY <1>10, <2>2, <2>3, <2>4, <3>1, LongerContents
  <2>. QED  BY <1>15, <2>1, <2>5, Zenon
<1>17. OneMore(mem2, f, MOD(f + c, queueMaxSize), c + n + HeaderSize, mem, m, at, data)
  BY <1>14, <1>16, Zenon DEF OneMore
<1>. QED  BY <1>8, <1>10, <1>17

(* A write behind the last element leaves the header of the first one.      *)
LEMMA FirstKept ==
  ASSUME NEW mem, NEW f \in Position, NEW l, NEW c \in Nat, NEW m \in Nat, m > 0, NEW at,
         Chain(mem, f, l, c, m, at),
         NEW e, e = f + c, NEW mem2, SameBytes(mem, mem2, f, e)
  PROVE  SizeAt(mem2, f) = SizeAt(mem, f)
<1>1. SizeAt(mem, f) > 0 /\ SizeAt(mem, f) \in Nat /\ SizeAt(mem, f) + HeaderSize <= c
  BY FirstElement, Zenon
<1>2. f < e /\ f + 1 < e /\ f <= f + 1 /\ f \in Nat /\ f + 1 \in Nat
  BY <1>1
<1>3. /\ mem2[MOD(f, queueMaxSize)] = mem[MOD(f, queueMaxSize)]
      /\ mem2[MOD(f + 1, queueMaxSize)] = mem[MOD(f + 1, queueMaxSize)]
  BY <1>2 DEF SameBytes
<1>4. MOD(f, queueMaxSize) = f
  BY DEF MOD
<1>. QED  BY <1>3, <1>4 DEF SizeAt

(***************************************************************************)
(* CircularQueue_Add                                                       *)
(***************************************************************************)

(* Where the code starts a new element: at the end of the chain.            *)
LEMMA StartsAtEnd ==
  ASSUME TypeOK, NEW ch, Chain(qBuff, first, last, byteCount, elementCount, ch)
  PROVE  /\ LastElementSize \in Nat
         /\ \/ last >= first /\ last + LastElementSize = first + byteCount
            \/ last < first /\ last + LastElementSize = first + byteCount - queueMaxSize
         /\ MOD(last + LastElementSize, queueMaxSize) = MOD(first + byteCount, queueMaxSize)
<1>1. /\ first \in Position /\ last \in Position
      /\ byteCount \in 0 .. queueMaxSize /\ elementCount \in Nat
  BY DEF TypeOK
<1>2. /\ LastElementSize \in Nat
      /\ \/ last >= first /\ last + LastElementSize = first + byteCount
         \/ last < first /\ last + LastElementSize = first + byteCount - queueMaxSize
  <2>1. LastElementSize = LastSize(qBuff, last, byteCount)
    BY DEF LastElementSize, LastSize
  <2>. QED  BY <1>1, <2>1, EndOfLast
<1>3. MOD(last + LastElementSize, queueMaxSize) = MOD(first + byteCount, queueMaxSize)
  BY <1>1, <1>2 DEF MOD
<1>. QED  BY <1>2, <1>3

(* An element that would run over the end of the memory after a whole       *)
(* header is one that Fits counted two headers for.                         *)
LEMMA SplitIsCounted ==
  ASSUME TypeOK, WrapsCounted, NEW ch,
         Chain(qBuff, first, last, byteCount, elementCount, ch),
         NEW n \in MsgSizes, Fits(n)
  PROVE  /\ n \in 1 .. 254
         /\ byteCount + n + HeaderSize <= queueMaxSize
         /\ queueMaxSize - MOD(first + byteCount + HeaderSize, queueMaxSize) < n =>
              /\ first + byteCount + HeaderSize < queueMaxSize
              /\ byteCount + n + 2 * HeaderSize <= queueMaxSize
<1>1. /\ first \in Position /\ last \in Position /\ byteCount \in 0 .. queueMaxSize
      /\ n \in 1 .. 254 /\ byteCount + n + HeaderSize + Overhead(n) <= queueMaxSize
      /\ Overhead(n) \in {0, HeaderSize}
  <2>1. /\ first \in Position /\ last \in Position /\ byteCount \in 0 .. queueMaxSize
        /\ byteCount + n + HeaderSize + Overhead(n) <= queueMaxSize
        /\ n \in Nat /\ n > 0
    BY SizesAssumption DEF TypeOK, Fits
  <2>2. Overhead(n) \in {0, HeaderSize}
    BY DEF Overhead
  <2>3. n < 255
    BY <2>1, <2>2 DEF WrapsCounted
  <2>. QED  BY <2>1, <2>2, <2>3
<1>2. byteCount + n + HeaderSize <= queueMaxSize
  BY <1>1
<1>3. ASSUME queueMaxSize - MOD(first + byteCount + HeaderSize, queueMaxSize) < n
      PROVE  /\ first + byteCount + HeaderSize < queueMaxSize
             /\ byteCount + n + 2 * HeaderSize <= queueMaxSize
  <2>1. first + byteCount + HeaderSize < queueMaxSize
    BY <1>1, <1>2, <1>3 DEF MOD
  <2>2. PICK room \in Nat : room = queueMaxSize - (first + byteCount)
    BY <1>1, <2>1
  <2>3. room > HeaderSize /\ room < n + HeaderSize
    BY <1>1, <1>3, <2>1, <2>2 DEF MOD
  <2>4. EndRoom = room
    BY <1>1, <2>1, <2>2, StartsAtEnd DEF EndRoom
  <2>5. room < 256
    BY <1>1, <2>3
  <2>6. room % (n + HeaderSize) = room
    <3>1. n + HeaderSize \in Nat
      BY <1>1
    <3>. QED  BY <2>2, <2>3, <3>1, Remainder
  <2>7. room % 256 = room
    BY <2>2, <2>5
  <2>8. Overhead(n) = HeaderSize
    <3>1. ~(n + HeaderSize < EndRoom)
      BY <1>1, <2>2, <2>3, <2>4
    <3>2. (EndRoom % (n + HeaderSize)) % 256 = room
      BY <2>4, <2>6, <2>7
    <3>. QED  BY <2>2, <2>3, <3>1, <3>2 DEF Overhead
  <2>. QED  BY <1>1, <2>1, <2>8
<1>. QED  BY <1>1, <1>2, <1>3

(* Adding an element that fits, in one part or two, keeps the chain and the *)
(* first element.                                                           *)
LEMMA AddKeepsChain ==
  ASSUME TypeOK, WrapsCounted, NEW ch,
         Chain(qBuff, first, last, byteCount, elementCount, ch),
         NEW n \in MsgSizes, Fits(n),
         NEW data \in Seq(0 .. 255), Len(data) = n, CircularQueue_Add(data)
  PROVE  /\ qBuff' \in Memory /\ first' = first /\ last' \in Position
         /\ byteCount' \in 1 .. queueMaxSize /\ elementCount' \in Nat /\ elementCount' > 0
         /\ \E ch2 : /\ Chain(qBuff', first', last', byteCount', elementCount', ch2)
                     /\ Grows(Contents(qBuff', elementCount', ch2), Contents(qBuff, elementCount, ch), data)
         /\ elementCount > 0 => SizeAt(qBuff', first) = SizeAt(qBuff, first)
<1>1. /\ first \in Position /\ byteCount \in 0 .. queueMaxSize /\ byteCount \in Nat
      /\ elementCount \in Nat /\ qBuff \in Memory
  BY DEF TypeOK, Memory
<1>2. /\ n \in 1 .. 255
      /\ byteCount + n + HeaderSize <= queueMaxSize
      /\ queueMaxSize - MOD(first + byteCount + HeaderSize, queueMaxSize) < n =>
           /\ first + byteCount + HeaderSize < queueMaxSize
           /\ byteCount + n + 2 * HeaderSize <= queueMaxSize
  BY SplitIsCounted
<1>3. /\ MOD(first + byteCount, queueMaxSize) \in Position
      /\ MOD(first + byteCount + HeaderSize, queueMaxSize) \in Position
      /\ MOD(first + byteCount + HeaderSize, queueMaxSize)
           = MOD(MOD(MOD(first + byteCount, queueMaxSize) + 1, queueMaxSize) + 1, queueMaxSize)
  BY <1>1, <1>2 DEF MOD
<1>4. PICK at \in Position : at = MOD(first + byteCount, queueMaxSize)
  BY <1>3
<1>5. at = MOD(last + LastElementSize, queueMaxSize)
  BY <1>4, StartsAtEnd
<1>6. PICK body \in Position :
        /\ body = MOD(first + byteCount + HeaderSize, queueMaxSize)
        /\ body = MOD(MOD(at + 1, queueMaxSize) + 1, queueMaxSize)
  BY <1>3, <1>4, Zenon
<1>7. CASE queueMaxSize - body >= n
  <2>1. /\ qBuff' = Write(WriteHeader(qBuff, at, n), body, data)
        /\ last' = at
        /\ byteCount' = byteCount + n + HeaderSize
        /\ elementCount' = elementCount + 1
        /\ first' = first
    BY <1>2, <1>5, <1>6, <1>7 DEF CircularQueue_Add
  <2>2. body + n <= queueMaxSize
    BY <1>2, <1>6, <1>7
  <2>3. /\ qBuff' \in Memory
        /\ \E ch2 : /\ Chain(qBuff', first, at, byteCount + n + HeaderSize, elementCount + 1, ch2)
                    /\ Contents(qBuff', elementCount + 1, ch2)
                         = Append(Contents(qBuff, elementCount, ch), data)
        /\ elementCount > 0 => SizeAt(qBuff', first) = SizeAt(qBuff, first)
    <3>1. PICK e : e = first + byteCount
      OBVIOUS
    <3>2. qBuff' = Part(qBuff, e, n, data)
      BY <1>4, <1>6, <2>1, <3>1, Zenon DEF Part
    <3>3. MOD(first + byteCount + HeaderSize, queueMaxSize) + n <= queueMaxSize
      BY <1>6, <2>2
    <3>. HIDE DEF Position
    <3>4. PICK mem2 : mem2 = qBuff'
      OBVIOUS
    <3>5. mem2 = Part(qBuff, e, n, data)
      BY <3>2, <3>4
    <3>6. mem2 \in Memory
      BY <1>1, <1>2, <3>1, <3>3, <3>5, AddPart
    <3>7. OneMore(mem2, first, MOD(first + byteCount, queueMaxSize), byteCount + n + HeaderSize,
                  qBuff, elementCount, ch, data)
      BY <1>1, <1>2, <3>1, <3>3, <3>5, AddPart
    <3>8. ASSUME elementCount > 0 PROVE SizeAt(mem2, first) = SizeAt(qBuff, first)
      <4>1. SameBytes(qBuff, mem2, first, e)
        BY <1>1, <1>2, <3>1, <3>3, <3>5, AddPart
      <4>. QED  BY <1>1, <3>1, <3>8, <4>1, FirstKept
    <3>. QED  BY <1>4, <3>4, <3>6, <3>7, <3>8 DEF OneMore
  <2>4. /\ byteCount' \in 1 .. queueMaxSize /\ elementCount' \in Nat /\ elementCount' > 0
    BY <1>1, <1>2, <2>1
  <2>5. PICK ch2 : /\ Chain(qBuff', first', last', byteCount', elementCount', ch2)
                   /\ Contents(qBuff', elementCount', ch2)
                        = Append(Contents(qBuff, elementCount, ch), data)
    BY <2>1, <2>3
  <2>6. Grows(Contents(qBuff', elementCount', ch2), Contents(qBuff, elementCount, ch), data)
    BY <2>5, Zenon DEF Grows
  <2>. QED  BY <2>1, <2>3, <2>4, <2>5, <2>6
<1>8. CASE queueMaxSize - body < n
  <2>1. /\ first + byteCount + HeaderSize < queueMaxSize
        /\ byteCount + n + 2 * HeaderSize <= queueMaxSize
    BY <1>2, <1>6, <1>8
  <2>2. PICK head, rest : head = queueMaxSize - body /\ rest = n - head
    OBVIOUS
  <2>3. /\ at = first + byteCount /\ body = first + byteCount + HeaderSize
        /\ head \in 1 .. 255 /\ rest \in 1 .. 255
        /\ body + head = queueMaxSize /\ head + rest = n /\ rest # 0
    BY <1>1, <1>2, <1>4, <1>6, <1>8, <2>1, <2>2 DEF MOD
  <2>4. PICK data1, data2 : data1 = SubSeq(data, 1, head) /\ data2 = SubSeq(data, head + 1, n)
    OBVIOUS
  <2>5. /\ data1 \in Seq(0 .. 255) /\ Len(data1) = head
        /\ data2 \in Seq(0 .. 255) /\ Len(data2) = rest
    <3>1. \A i \in 1 .. n : data[i] \in 0 .. 255
      BY ElementOfSeq
    <3>2. head \in Nat /\ rest \in Nat /\ n \in Nat /\ 1 <= head /\ 1 <= rest /\ head + rest = n
      BY <1>2, <2>3
    <3>3. /\ data1 \in Seq(0 .. 255) /\ Len(data1) = head
      <4>1. \A i \in 1 .. head : data[i] \in 0 .. 255
        BY <3>1, <3>2
      <4>2. 1 \in Int /\ head \in Int /\ 1 <= head /\ head - 1 + 1 = head
        BY <2>3
      <4>. QED  BY <2>4, <4>1, <4>2, SubSeqProperties
    <3>4. /\ data2 \in Seq(0 .. 255) /\ Len(data2) = rest
      <4>1. \A i \in head + 1 .. n : data[i] \in 0 .. 255
        BY <2>3, <3>1
      <4>2. /\ head + 1 \in Int /\ n \in Int /\ head + 1 <= n
            /\ n - (head + 1) + 1 = rest
        BY <3>2
      <4>. QED  BY <2>4, <4>1, <4>2, SubSeqProperties
    <3>. QED  BY <3>3, <3>4
  <2>6. PICK mem1 : mem1 = Write(WriteHeader(qBuff, at, head), body, data1)
    OBVIOUS
  <2>7. /\ qBuff' = Write(WriteHeader(mem1, 0, rest), HeaderSize, data2)
        /\ last' = 0
        /\ byteCount' = byteCount + n + 2 * HeaderSize
        /\ elementCount' = elementCount + 2
        /\ first' = first
    BY <1>5, <1>6, <1>8, <2>2, <2>3, <2>4, <2>6 DEF CircularQueue_Add
  <2>8. PICK e, c1 : e = first + byteCount /\ c1 = byteCount + head + HeaderSize
    OBVIOUS
  <2>9. mem1 = Part(qBuff, e, head, data1)
    <3>1. MOD(e, queueMaxSize) = at /\ MOD(e + HeaderSize, queueMaxSize) = body
      BY <1>4, <1>6, <2>8
    <3>. QED  BY <2>6, <3>1 DEF Part
  <2>10. /\ byteCount + head + HeaderSize <= queueMaxSize
         /\ MOD(first + byteCount + HeaderSize, queueMaxSize) + head <= queueMaxSize
    BY <1>1, <1>6, <2>1, <2>3
  <2>11. mem1 \in Memory
    BY <1>1, <2>3, <2>5, <2>8, <2>9, <2>10, AddPart
  <2>12. PICK ch1 : /\ Chain(mem1, first, MOD(e, queueMaxSize), byteCount + head + HeaderSize,
                             elementCount + 1, ch1)
                    /\ Contents(mem1, elementCount + 1, ch1)
                         = Append(Contents(qBuff, elementCount, ch), data1)
    <3>1. OneMore(mem1, first, MOD(first + byteCount, queueMaxSize), byteCount + head + HeaderSize,
                  qBuff, elementCount, ch, data1)
      BY <1>1, <2>3, <2>5, <2>8, <2>9, <2>10, AddPart
    <3>. QED  BY <2>8, <3>1 DEF OneMore
  <2>13. ASSUME elementCount > 0 PROVE SizeAt(mem1, first) = SizeAt(qBuff, first)
    <3>1. SameBytes(qBuff, mem1, first, e)
      BY <1>1, <2>3, <2>5, <2>8, <2>9, <2>10, AddPart
    <3>. QED  BY <1>1, <2>8, <2>13, <3>1, FirstKept
  <2>14. PICK e1, m1 : e1 = queueMaxSize /\ m1 = elementCount + 1
    OBVIOUS
  <2>15. /\ first + c1 = e1 /\ c1 \in Nat /\ m1 \in Nat /\ m1 > 0
         /\ c1 + rest + HeaderSize <= queueMaxSize
         /\ c1 + rest + HeaderSize = byteCount + n + 2 * HeaderSize
         /\ MOD(e1, queueMaxSize) = 0 /\ MOD(e1 + HeaderSize, queueMaxSize) = HeaderSize
         /\ HeaderSize + rest <= queueMaxSize
    BY <1>1, <2>1, <2>3, <2>8, <2>14 DEF MOD
  <2>16. PICK mem2 : mem2 = qBuff' /\ mem2 = Part(mem1, e1, rest, data2)
    BY <2>7, <2>15 DEF Part
  <2>17. Chain(mem1, first, MOD(e, queueMaxSize), c1, m1, ch1)
    BY <2>8, <2>12, <2>14
  <2>18. MOD(first + c1 + HeaderSize, queueMaxSize) + rest <= queueMaxSize
    BY <2>15
  <2>19. /\ first \in Position /\ c1 \in Nat /\ m1 \in Nat /\ m1 > 0 /\ rest \in 1 .. 255
         /\ data2 \in Seq(0 .. 255) /\ Len(data2) = rest
         /\ c1 + rest + HeaderSize <= queueMaxSize
         /\ e1 = first + c1
    BY <1>1, <2>3, <2>5, <2>15
  <2>20. mem2 = Part(mem1, e1, rest, data2)
    BY <2>16
  <2>21. mem2 \in Memory
    BY <2>11, <2>17, <2>18, <2>19, <2>20, AddPart
  <2>22. PICK ch2 : /\ Chain(mem2, first, MOD(first + c1, queueMaxSize), c1 + rest + HeaderSize,
                             m1 + 1, ch2)
                    /\ Contents(mem2, m1 + 1, ch2) = Append(Contents(mem1, m1, ch1), data2)
    <3>1. OneMore(mem2, first, MOD(first + c1, queueMaxSize), c1 + rest + HeaderSize,
                  mem1, m1, ch1, data2)
      BY <2>11, <2>17, <2>18, <2>19, <2>20, AddPart
    <3>. QED  BY <3>1 DEF OneMore
  <2>23. SizeAt(mem2, first) = SizeAt(mem1, first)
    <3>1. SameBytes(mem1, mem2, first, e1)
      BY <2>11, <2>17, <2>18, <2>19, <2>20, AddPart
    <3>. QED  BY <2>17, <2>19, <3>1, FirstKept
  <2>24. Chain(qBuff', first', last', byteCount', elementCount', ch2)
    <3>1. m1 + 1 = elementCount' /\ c1 + rest + HeaderSize = byteCount'
      BY <1>1, <2>7, <2>14, <2>15
    <3>2. MOD(first + c1, queueMaxSize) = last'
      BY <2>7, <2>15
    <3>. QED  BY <2>7, <2>16, <2>22, <3>1, <3>2
  <2>25. byteCount' \in 1 .. queueMaxSize /\ elementCount' \in Nat /\ elementCount' > 0
         /\ last' \in Position
    BY <1>1, <1>2, <2>1, <2>7
  <2>26. Grows(Contents(qBuff', elementCount', ch2), Contents(qBuff, elementCount, ch), data)
    <3>1. data = data1 \o data2
      <4>1. 1 \in 1 .. Len(data) + 1 /\ head \in 1 - 1 .. Len(data) /\ n \in head .. Len(data)
        BY <1>2, <2>3
      <4>2. data1 \o data2 = SubSeq(data, 1, n)
        BY <2>4, <4>1, ConcatAdjacentSubSeq
      <4>3. SubSeq(data, 1, n) = data
        BY SubSeqFull
      <4>. QED  BY <4>2, <4>3
    <3>2. data1 \in Octets /\ data2 \in Octets
      BY <2>5 DEF Octets
    <3>3. m1 + 1 = elementCount'
      BY <1>1, <2>7, <2>14
    <3>4. Contents(qBuff', elementCount', ch2)
            = Append(Append(Contents(qBuff, elementCount, ch), data1), data2)
      BY <2>12, <2>14, <2>16, <2>22, <3>3, Zenon
    <3>. QED  BY <3>1, <3>2, <3>4, Zenon DEF Grows
  <2>. QED  BY <2>7, <2>13, <2>16, <2>21, <2>23, <2>24, <2>25, <2>26
<1>9. queueMaxSize - body >= n \/ queueMaxSize - body < n
  BY <1>2, <1>6
<1>. QED  BY <1>7, <1>8, <1>9

(***************************************************************************)
(* The inductive invariant                                                 *)
(***************************************************************************)

(* Some offsets make the elements follow one another, exactly when those    *)
(* that the lengths in the memory give do.                                  *)
Follow == \E at : Chain(qBuff, first, last, byteCount, elementCount, at)

(* The offsets of a chain are those that the lengths in the memory give.    *)
LEMMA ChainIsOffset ==
  ASSUME TypeOK, NEW at, Chain(qBuff, first, last, byteCount, elementCount, at)
  PROVE  Offset = at
<1>1. /\ first \in Position /\ byteCount \in 0 .. queueMaxSize /\ byteCount \in Nat
      /\ elementCount \in Nat
  BY DEF TypeOK
<1>2. /\ at \in [1 .. elementCount + 1 -> Nat] /\ at[1] = first
  BY DEF Chain
<1>3. ASSUME NEW k \in 1 .. elementCount + 1, k # 1
      PROVE  at[k] = at[k - 1] + SizeAt(qBuff, at[k - 1] % queueMaxSize) + HeaderSize
  <2>1. PICK prev : prev = k - 1 /\ k = prev + 1 /\ prev \in 1 .. elementCount
    BY <1>1, <1>3
  <2>2. /\ at[prev] \in Nat /\ at[k] \in Nat /\ at[k] <= first + byteCount
        /\ Element(qBuff, at[prev], at[k])
    BY <1>1, <2>1, Link, Zenon
  <2>3. at[prev] < 2 * queueMaxSize
    BY <1>1, <2>2 DEF Element
  <2>4. at[prev] % queueMaxSize = MOD(at[prev], queueMaxSize)
    BY <2>2, <2>3, ModIsRemainder
  <2>5. SizeAt(qBuff, at[prev] % queueMaxSize) = at[k] - at[prev] - HeaderSize
    BY <2>2, <2>4 DEF Element
  <2>6. at[k] = at[prev] + SizeAt(qBuff, at[prev] % queueMaxSize) + HeaderSize
    BY <2>2, <2>5
  <2>. QED  BY <2>1, <2>6
<1>4. at = [k \in 1 .. elementCount + 1 |-> at[k]]
  BY <1>2
<1>5. Offsets(at)
  BY <1>2, <1>3, <1>4 DEF Offsets
<1>. QED  BY <1>1, <1>5, OffsetUnique

(* So the elements follow one another if any offsets make them do so.       *)
LEMMA FollowIsElementsFollow ==
  ASSUME TypeOK PROVE Follow <=> ElementsFollow
<1>1. ASSUME NEW at, Chain(qBuff, first, last, byteCount, elementCount, at)
      PROVE  ElementsFollow
  <2>1. Offset = at
    BY <1>1, ChainIsOffset
  <2>. QED  BY <1>1, <2>1 DEF ElementsFollow
<1>2. ElementsFollow => Follow
  BY DEF ElementsFollow, Follow
<1>. QED  BY <1>1, <1>2 DEF Follow

(* A conjunction equal to IInv, with the offsets left open.                 *)
Ind == TypeOK /\ Follow /\ HoldersAgree /\ DmaSendsFirst /\ StopOnlyWhenIdle

(* It is the same as IInv.                                                  *)
LEMMA IndIsIInv == Ind <=> IInv
  BY FollowIsElementsFollow DEF Ind, IInv

(* Initially.                                                               *)
LEMMA InitInd == Init => Ind
<1>. SUFFICES ASSUME Init PROVE Ind
  OBVIOUS
<1>1. /\ qBuff = [p \in Position |-> 0] /\ first = 0 /\ last = 0 /\ byteCount = 0
      /\ elementCount = 0 /\ ready = TRUE /\ uart = "idle" /\ dma = [pos |-> 0, size |-> 0]
      /\ stopModeDisable = {} /\ alarmNear = FALSE /\ cpu = "run" /\ stamp = 0
  BY DEF Init, CircularQueue_Init
<1>2. TypeOK
  <2>1. qBuff \in [Position -> 0 .. 255]
    BY <1>1
  <2>2. dma \in [pos : Position, size : 0 .. queueMaxSize]
    BY <1>1
  <2>3. stamp \in 0 .. Bytes - 1
    BY <1>1
  <2>. QED  BY <1>1, <2>1, <2>2, <2>3 DEF TypeOK
<1>3. Follow
  <2>. DEFINE at == [k \in 1 .. 1 |-> 0]
  <2>1. Chain(qBuff, first, last, byteCount, elementCount, at)
    BY <1>1 DEF Chain
  <2>. QED  BY <2>1 DEF Follow
<1>4. HoldersAgree /\ DmaSendsFirst /\ StopOnlyWhenIdle
  BY <1>1 DEF HoldersAgree, DmaSendsFirst, StopOnlyWhenIdle
<1>. QED  BY <1>2, <1>3, <1>4 DEF Ind

(* The number of the next byte stays in its range, and a message is bytes.  *)
LEMMA Numbered ==
  ASSUME NEW s \in 0 .. Bytes - 1, NEW n \in Nat
  PROVE  /\ Stream!Message(s, n) \in Seq(0 .. 255) /\ Len(Stream!Message(s, n)) = n
         /\ (s + n) % Bytes \in 0 .. Bytes - 1
<1>1. ASSUME NEW x \in Nat PROVE x % Bytes \in 0 .. Bytes - 1
  OBVIOUS
<1>2. \A i \in 1 .. n : (s + i - 1) % Bytes \in 0 .. 255
  <2>1. ASSUME NEW i \in 1 .. n PROVE (s + i - 1) % Bytes \in 0 .. Bytes - 1
    <3>1. s + i - 1 \in Nat
      OBVIOUS
    <3>. QED  BY <1>1, <3>1
  <2>. QED  BY <2>1
<1>3. PICK msg : msg = [i \in 1 .. n |-> (s + i - 1) % Bytes]
  OBVIOUS
<1>4. msg \in Seq(0 .. 255) /\ Len(msg) = n
  <2>1. n \in Nat /\ DOMAIN msg = 1 .. n /\ \A i \in 1 .. n : msg[i] \in 0 .. 255
    BY <1>2, <1>3
  <2>2. msg \in [1 .. n -> 0 .. 255]
    BY <1>3, <2>1
  <2>. QED  BY <2>1, <2>2, LenProperties
<1>5. Stream!Message(s, n) = msg
  BY <1>3 DEF Stream!Message
<1>6. s + n \in Nat
  OBVIOUS
<1>. QED  BY <1>1, <1>4, <1>5, <1>6

(* What a transfer of the first element is given.                           *)
LEMMA SenseFirst ==
  ASSUME NEW mem, NEW f \in Position, NEW l, NEW c \in 0 .. queueMaxSize,
         NEW m \in Nat, m > 0, NEW at, Chain(mem, f, l, c, m, at)
  PROVE  /\ CircularQueue_Sense(mem, f) \in [pos : Position, size : 0 .. queueMaxSize]
         /\ CircularQueue_Sense(mem, f).pos + CircularQueue_Sense(mem, f).size <= queueMaxSize
<1>1. c \in Nat
  OBVIOUS
<1>2. /\ SizeAt(mem, f) \in Nat /\ SizeAt(mem, f) + HeaderSize <= c
      /\ MOD(f + HeaderSize, queueMaxSize) + SizeAt(mem, f) <= queueMaxSize
  BY <1>1, FirstElement
<1>3. MOD(f + HeaderSize, queueMaxSize) \in Position
  BY DEF MOD
<1>4. PICK pos, size : pos = MOD(f + HeaderSize, queueMaxSize) /\ size = SizeAt(mem, f)
  OBVIOUS
<1>5. CircularQueue_Sense(mem, f) = [pos |-> pos, size |-> size]
  BY <1>4 DEF CircularQueue_Sense
<1>. QED  BY <1>2, <1>3, <1>4, <1>5

(* The message is added, the first transfer is started when none is under   *)
(* way, or the message is dropped.                                          *)
LEMMA TraceSendKeeps ==
  ASSUME WrapsCounted, Ind, NEW n \in MsgSizes, TraceSend(n) PROVE Ind'
<1>1. TypeOK /\ HoldersAgree /\ DmaSendsFirst /\ StopOnlyWhenIdle
  BY DEF Ind
<1>2. cpu = "run" /\ UNCHANGED <<alarmNear, cpu, out>>
  BY DEF TraceSend
<1>3. CASE ~Fits(n)
  <2>1. UNCHANGED <<queueVars, stamp, dma, ready, uart, stopModeDisable>>
    BY <1>3 DEF TraceSend
  <2>. QED  BY <1>2, <2>1 DEF Ind, TypeOK, Follow, HoldersAgree, DmaSendsFirst,
              StopOnlyWhenIdle, queueVars, Chain, Element, SizeAt
<1>4. CASE Fits(n)
  <2>1. PICK data : data = Stream!Message(stamp, n)
    OBVIOUS
  <2>2. /\ CircularQueue_Add(data) /\ stamp' = (stamp + n) % Bytes
        /\ IF ready
           THEN /\ dma' = CircularQueue_Sense(qBuff', first')
                /\ ready' = FALSE /\ uart' = "armed"
                /\ stopModeDisable' = stopModeDisable \cup {"UART_TX"}
           ELSE UNCHANGED <<dma, ready, uart, stopModeDisable>>
    BY <1>4, <2>1 DEF TraceSend, LPM_Disable
  <2>3. n \in Nat /\ stamp \in 0 .. Bytes - 1
    BY <1>1, SizesAssumption DEF TypeOK
  <2>4. data \in Seq(0 .. 255) /\ Len(data) = n /\ stamp' \in 0 .. Bytes - 1
    BY <2>1, <2>2, <2>3, Numbered
  <2>5. PICK ch : Chain(qBuff, first, last, byteCount, elementCount, ch)
    BY DEF Ind, Follow
  <2>6. /\ qBuff' \in Memory /\ first' = first /\ last' \in Position
        /\ byteCount' \in 1 .. queueMaxSize /\ elementCount' \in Nat /\ elementCount' > 0
        /\ \E ch2 : /\ Chain(qBuff', first', last', byteCount', elementCount', ch2)
                    /\ Grows(Contents(qBuff', elementCount', ch2),
                             Contents(qBuff, elementCount, ch), data)
        /\ elementCount > 0 => SizeAt(qBuff', first) = SizeAt(qBuff, first)
    BY <1>1, <1>4, <2>2, <2>4, <2>5, AddKeepsChain
  <2>7. Follow'
    BY <2>6 DEF Follow
  <2>8. PICK ch2 : Chain(qBuff', first', last', byteCount', elementCount', ch2)
    BY <2>6
  <2>9. first' \in Position /\ byteCount' \in 0 .. queueMaxSize /\ byteCount' \in Nat
    BY <1>1, <2>6 DEF TypeOK
  <2>10. elementCount' \in 0 .. queueMaxSize
    <3>1. elementCount' <= byteCount'
      BY <2>6, <2>8, <2>9, EmptyChain
    <3>. QED  BY <2>6, <2>9, <3>1
  <2>11. /\ CircularQueue_Sense(qBuff', first') \in [pos : Position, size : 0 .. queueMaxSize]
         /\ CircularQueue_Sense(qBuff', first').pos + CircularQueue_Sense(qBuff', first').size
              <= queueMaxSize
    BY <2>6, <2>8, <2>9, SenseFirst
  <2>12. TypeOK'
    <3>1. /\ dma' \in [pos : Position, size : 0 .. queueMaxSize]
          /\ ready' \in BOOLEAN /\ uart' \in {"idle", "armed", "busy", "done"}
          /\ stopModeDisable' \subseteq {"RTC", "UART_TX"}
      BY <1>1, <2>2, <2>11 DEF TypeOK
    <3>2. qBuff' \in [Position -> 0 .. 255]
      BY <2>6 DEF Memory
    <3>. QED  BY <1>1, <1>2, <2>4, <2>6, <2>9, <2>10, <3>1, <3>2 DEF TypeOK
  <2>13. HoldersAgree'
    BY <1>1, <1>2, <2>2 DEF HoldersAgree, TypeOK
  <2>14. uart' # "idle"
    BY <1>1, <2>2 DEF HoldersAgree
  <2>15. DmaSendsFirst'
    <3>1. dma' = CircularQueue_Sense(qBuff', first')
      <4>1. CASE ready
        BY <2>2, <4>1
      <4>2. CASE ~ready
        <5>1. /\ dma' = dma /\ elementCount > 0
              /\ dma = CircularQueue_Sense(qBuff, first)
          BY <1>1, <2>2, <4>2 DEF HoldersAgree, DmaSendsFirst
        <5>. QED  BY <2>6, <5>1 DEF CircularQueue_Sense
      <4>. QED  BY <4>1, <4>2
    <3>. QED  BY <2>6, <2>11, <3>1 DEF DmaSendsFirst
  <2>16. StopOnlyWhenIdle'
    BY <1>2, <2>14 DEF StopOnlyWhenIdle
  <2>. QED  BY <2>7, <2>12, <2>13, <2>15, <2>16 DEF Ind
<1>. QED  BY <1>3, <1>4

(* The sent element is removed; the next one is sent, or the Stop mode is   *)
(* allowed again.                                                           *)
LEMMA TxCpltKeeps ==
  ASSUME Ind, Trace_TxCpltCallback PROVE Ind'
<1>1. /\ TypeOK /\ HoldersAgree /\ DmaSendsFirst
      /\ first \in Position /\ last \in Position /\ byteCount \in 0 .. queueMaxSize
      /\ elementCount \in 0 .. queueMaxSize /\ elementCount \in Nat /\ qBuff \in Memory
  BY DEF Ind, TypeOK, Memory
<1>2. cpu = "run" /\ uart = "done" /\ UNCHANGED <<alarmNear, cpu, out, stamp>>
  BY DEF Trace_TxCpltCallback
<1>3. elementCount > 0
  BY <1>1, <1>2 DEF DmaSendsFirst
<1>4. PICK ch : Chain(qBuff, first, last, byteCount, elementCount, ch)
  BY DEF Ind, Follow
<1>5. PICK n, f2 :
        /\ n = SizeAt(qBuff, first)
        /\ f2 = IF byteCount - (n + HeaderSize) > 0
                THEN MOD(first + n + HeaderSize, queueMaxSize) ELSE first
  OBVIOUS
<1>6. /\ byteCount' = byteCount - (n + HeaderSize) /\ first' = f2
      /\ elementCount' = elementCount - 1 /\ qBuff' = qBuff /\ last' = last
  BY <1>5 DEF Trace_TxCpltCallback, CircularQueue_Remove
<1>7. /\ byteCount' \in 0 .. queueMaxSize /\ f2 \in Position
      /\ \E ch2 : /\ Chain(qBuff, f2, last, byteCount - (n + HeaderSize), elementCount - 1, ch2)
                  /\ Shifted(ch2, ch, elementCount)
      /\ byteCount - (n + HeaderSize) > 0 <=> elementCount > 1
  BY <1>1, <1>3, <1>4, <1>5, <1>6, Shorter
<1>8. PICK ch2 : Chain(qBuff', first', last', byteCount', elementCount', ch2)
  BY <1>6, <1>7
<1>9. Follow'
  BY <1>8 DEF Follow
<1>10. elementCount' \in 0 .. queueMaxSize /\ elementCount' \in Nat /\ first' \in Position
  BY <1>1, <1>3, <1>6, <1>7
<1>11. CASE byteCount' > 0
  <2>1. /\ dma' = CircularQueue_Sense(qBuff, first') /\ uart' = "armed"
        /\ UNCHANGED <<ready, stopModeDisable>> /\ elementCount' > 0
    BY <1>1, <1>6, <1>7, <1>11 DEF Trace_TxCpltCallback, CircularQueue_Remove
  <2>2. /\ CircularQueue_Sense(qBuff', first') \in [pos : Position, size : 0 .. queueMaxSize]
        /\ CircularQueue_Sense(qBuff', first').pos + CircularQueue_Sense(qBuff', first').size
             <= queueMaxSize
    BY <1>7, <1>8, <1>10, <2>1, SenseFirst
  <2>3. TypeOK'
    BY <1>1, <1>2, <1>6, <1>7, <1>10, <2>1, <2>2 DEF TypeOK
  <2>4. HoldersAgree' /\ DmaSendsFirst' /\ StopOnlyWhenIdle'
    BY <1>1, <1>2, <1>6, <2>1, <2>2 DEF HoldersAgree, DmaSendsFirst, StopOnlyWhenIdle
  <2>. QED  BY <1>9, <2>3, <2>4 DEF Ind
<1>12. CASE ~(byteCount' > 0)
  <2>1. /\ uart' = "idle" /\ ready' = TRUE /\ stopModeDisable' = stopModeDisable \ {"UART_TX"}
        /\ dma' = dma /\ byteCount' = 0
    BY <1>7, <1>12 DEF Trace_TxCpltCallback, LPM_Enable
  <2>2. TypeOK'
    BY <1>1, <1>2, <1>6, <1>7, <1>10, <2>1 DEF TypeOK
  <2>3. HoldersAgree' /\ DmaSendsFirst' /\ StopOnlyWhenIdle'
    BY <1>1, <1>2, <1>6, <2>1 DEF HoldersAgree, DmaSendsFirst, StopOnlyWhenIdle
  <2>. QED  BY <1>9, <2>2, <2>3 DEF Ind
<1>. QED  BY <1>11, <1>12

(* The steps that leave the queue alone.                                    *)
LEMMA OthersKeep ==
  ASSUME Ind,
         \/ OutputTrace \/ DmaDone \/ LPM_EnterLowPower \/ Wake
         \/ \E near \in BOOLEAN : HW_RTC_SetAlarm(near)
         \/ HW_RTC_IrqHandler
         \/ UNCHANGED vars
  PROVE  Ind'
<1>1. /\ qBuff' = qBuff /\ first' = first /\ last' = last /\ byteCount' = byteCount
      /\ elementCount' = elementCount /\ dma' = dma /\ stamp' = stamp /\ ready' = ready
  BY DEF OutputTrace, DmaDone, LPM_EnterLowPower, Wake, HW_RTC_SetAlarm,
         HW_RTC_IrqHandler, vars, queueVars, lowPowerVars
<1>2. Follow'
  BY <1>1 DEF Ind, Follow
<1>3. TypeOK /\ HoldersAgree /\ DmaSendsFirst /\ StopOnlyWhenIdle
  BY DEF Ind
<1>4. ASSUME OutputTrace \/ DmaDone
      PROVE  TypeOK' /\ HoldersAgree' /\ DmaSendsFirst' /\ StopOnlyWhenIdle'
  <2>1. /\ uart # "idle" /\ uart' \in {"busy", "done"} /\ UNCHANGED lowPowerVars
        /\ alarmNear' = alarmNear /\ cpu' = cpu /\ stopModeDisable' = stopModeDisable
    BY <1>4 DEF OutputTrace, DmaDone, lowPowerVars
  <2>2. TypeOK'
    BY <1>1, <1>3, <2>1 DEF TypeOK
  <2>3. HoldersAgree'
    BY <1>1, <1>3, <2>1 DEF HoldersAgree, StopOnlyWhenIdle, TypeOK
  <2>4. DmaSendsFirst'
    BY <1>1, <1>3, <2>1 DEF DmaSendsFirst, CircularQueue_Sense
  <2>5. StopOnlyWhenIdle'
    BY <1>1, <1>3, <2>1, <2>3 DEF StopOnlyWhenIdle, HoldersAgree, TypeOK
  <2>. QED  BY <2>2, <2>3, <2>4, <2>5
<1>5. ASSUME LPM_EnterLowPower \/ Wake
      PROVE  TypeOK' /\ HoldersAgree' /\ DmaSendsFirst' /\ StopOnlyWhenIdle'
  <2>1. /\ \/ cpu' \in {"run", "sleep"}
           \/ cpu' = "stop" /\ stopModeDisable = {}
        /\ uart' = uart /\ stopModeDisable' = stopModeDisable /\ alarmNear' = alarmNear
    BY <1>5 DEF LPM_EnterLowPower, Wake
  <2>2. TypeOK'
    BY <1>1, <1>3, <2>1 DEF TypeOK
  <2>3. HoldersAgree'
    BY <1>1, <1>3, <2>1 DEF HoldersAgree, StopOnlyWhenIdle, TypeOK
  <2>4. DmaSendsFirst'
    BY <1>1, <1>3, <2>1 DEF DmaSendsFirst, CircularQueue_Sense
  <2>5. StopOnlyWhenIdle'
    BY <1>1, <1>3, <2>1, <2>3 DEF StopOnlyWhenIdle, HoldersAgree, TypeOK
  <2>. QED  BY <2>2, <2>3, <2>4, <2>5
<1>6. ASSUME \/ \E near \in BOOLEAN : HW_RTC_SetAlarm(near)
             \/ HW_RTC_IrqHandler
      PROVE  TypeOK' /\ HoldersAgree' /\ DmaSendsFirst' /\ StopOnlyWhenIdle'
  <2>1. /\ cpu = "run" /\ cpu' = cpu /\ uart' = uart /\ alarmNear' \in BOOLEAN
        /\ \/ alarmNear' /\ stopModeDisable' = stopModeDisable \cup {"RTC"}
           \/ ~alarmNear' /\ stopModeDisable' = stopModeDisable \ {"RTC"}
    <3>1. CASE HW_RTC_IrqHandler
      BY <3>1, Zenon DEF HW_RTC_IrqHandler, LPM_Enable
    <3>2. CASE \E near \in BOOLEAN : HW_RTC_SetAlarm(near)
      <4>1. PICK near \in BOOLEAN : HW_RTC_SetAlarm(near)
        BY <3>2
      <4>2. /\ cpu = "run" /\ cpu' = cpu /\ uart' = uart /\ alarmNear' = near
            /\ IF near THEN stopModeDisable' = stopModeDisable \cup {"RTC"}
                       ELSE stopModeDisable' = stopModeDisable \ {"RTC"}
        BY <4>1, Zenon DEF HW_RTC_SetAlarm, LPM_Disable, LPM_Enable
      <4>. QED  BY <4>2, Zenon
    <3>. QED  BY <1>6, <3>1, <3>2
  <2>2. TypeOK'
    BY <1>1, <1>3, <2>1 DEF TypeOK
  <2>3. HoldersAgree'
    BY <1>1, <1>3, <2>1 DEF HoldersAgree, StopOnlyWhenIdle, TypeOK
  <2>4. DmaSendsFirst'
    BY <1>1, <1>3, <2>1 DEF DmaSendsFirst, CircularQueue_Sense
  <2>5. StopOnlyWhenIdle'
    BY <1>1, <1>3, <2>1, <2>3 DEF StopOnlyWhenIdle, HoldersAgree, TypeOK
  <2>. QED  BY <2>2, <2>3, <2>4, <2>5
<1>7. ASSUME UNCHANGED vars
      PROVE  TypeOK' /\ HoldersAgree' /\ DmaSendsFirst' /\ StopOnlyWhenIdle'
  BY <1>1, <1>3, <1>7 DEF vars, lowPowerVars, TypeOK, HoldersAgree, DmaSendsFirst,
       StopOnlyWhenIdle
<1>. QED  BY <1>2, <1>4, <1>5, <1>6, <1>7 DEF Ind

(* Every step keeps it.                                                     *)
LEMMA NextInd ==
  ASSUME WrapsCounted, Ind, [Next]_vars PROVE Ind'
<1>1. CASE \E n \in MsgSizes : TraceSend(n)
  BY <1>1, TraceSendKeeps, Zenon
<1>2. CASE Trace_TxCpltCallback
  BY <1>2, TxCpltKeeps, Zenon
<1>. QED  BY <1>1, <1>2, OthersKeep, Zenon DEF Next

(* Every reachable state satisfies the inductive invariant.                 *)
THEOREM Invariance ==
  ASSUME WrapsCounted PROVE Spec => []IInv
<1>1. Init => Ind
  BY InitInd
<1>2. Ind /\ [Next]_vars => Ind'
  BY NextInd
<1>3. Ind => IInv
  BY IndIsIInv
<1>. QED  BY <1>1, <1>2, <1>3, PTL DEF Spec

(* The lengths in the memory lead from the first element to the last, they  *)
(* account for every byte in use, and these fit in the memory.              *)
THEOREM RingSound ==
  ASSUME WrapsCounted PROVE Spec => []RingIsSound
<1>1. ASSUME IInv PROVE RingIsSound
  <2>1. /\ first \in Position /\ byteCount \in 0 .. queueMaxSize /\ byteCount \in Nat
        /\ elementCount \in Nat
    BY <1>1 DEF IInv, TypeOK
  <2>2. Chain(qBuff, first, last, byteCount, elementCount, Offset)
    BY <1>1 DEF IInv, ElementsFollow
  <2>3. PICK at : at = Offset
    OBVIOUS
  <2>4. Chain(qBuff, first, last, byteCount, elementCount, at)
    BY <2>2, <2>3
  <2>5. ASSUME elementCount # 0
        PROVE  last = at[elementCount] % queueMaxSize
    <3>1. PICK next : next = elementCount + 1 /\ elementCount \in 1 .. elementCount
      BY <2>1, <2>5
    <3>2. /\ at[elementCount] \in Nat /\ at[next] \in Nat /\ at[next] <= first + byteCount
          /\ Element(qBuff, at[elementCount], at[next])
      BY <2>1, <2>4, <3>1, Link, Zenon
    <3>3. at[elementCount] < 2 * queueMaxSize
      BY <2>1, <3>2 DEF Element
    <3>4. at[elementCount] % queueMaxSize = MOD(at[elementCount], queueMaxSize)
      BY <3>2, <3>3, ModIsRemainder
    <3>5. last = MOD(at[elementCount], queueMaxSize)
      BY <2>4, <2>5 DEF Chain
    <3>. QED  BY <3>4, <3>5
  <2>6. last = IF elementCount = 0 THEN first ELSE ElementAt[elementCount]
    <3>1. CASE elementCount = 0
      BY <2>4, <3>1 DEF Chain
    <3>2. CASE elementCount # 0
      <4>1. elementCount \in 1 .. elementCount
        BY <2>1, <3>2
      <4>2. ElementAt[elementCount] = at[elementCount] % queueMaxSize
        BY <2>3, <4>1 DEF ElementAt
      <4>. QED  BY <2>5, <3>2, <4>2
    <3>. QED  BY <3>1, <3>2
  <2>7. at[elementCount + 1] = first + byteCount
    BY <2>4 DEF Chain
  <2>. QED  BY <2>1, <2>3, <2>6, <2>7 DEF RingIsSound
<1>. QED  BY <1>1, Invariance, PTL

(* The DMA always sends the first element, in one piece.                    *)
THEOREM SendsFirst ==
  ASSUME WrapsCounted PROVE Spec => []DmaSendsFirst
<1>1. IInv => DmaSendsFirst
  BY DEF IInv
<1>. QED  BY <1>1, Invariance, PTL

(* The clock of the UART stops only when everything traced has been sent.   *)
THEOREM StopsWhenIdle ==
  ASSUME WrapsCounted PROVE Spec => []StopOnlyWhenIdle
<1>1. IInv => StopOnlyWhenIdle
  BY DEF IInv
<1>. QED  BY <1>1, Invariance, PTL

(***************************************************************************)
(* The stream                                                              *)
(***************************************************************************)
(* What is still to be sent of the contents of a chain.                     *)
PendingOf(mem, m, at, u) ==
  FlattenSeq(IF u = "done" THEN Tail(Contents(mem, m, at)) ELSE Contents(mem, m, at))
PendingFits ==
  \A at : Chain(qBuff, first, last, byteCount, elementCount, at) =>
            Pending = PendingOf(qBuff, elementCount, at, uart)

(* Pending, which reads the headers, is what the chain holds.               *)
LEMMA PendingIsOfChain == Ind => PendingFits
<1>. SUFFICES ASSUME Ind, NEW at, Chain(qBuff, first, last, byteCount, elementCount, at)
     PROVE  Pending = PendingOf(qBuff, elementCount, at, uart)
  BY DEF PendingFits
<1>1. /\ first \in Position /\ byteCount \in Nat /\ byteCount <= queueMaxSize
      /\ elementCount \in Nat /\ qBuff \in Memory /\ TypeOK
  BY DEF Ind, TypeOK, Memory
<1>2. Offset = at
  BY <1>1, ChainIsOffset
<1>3. ASSUME NEW k \in 1 .. elementCount PROVE DataAt(ElementAt[k]) = Data(qBuff, at[k], at[k + 1])
  <2>1. PICK next : next = k + 1
    OBVIOUS
  <2>2. /\ at[k] \in Nat /\ at[next] \in Nat /\ at[next] <= first + byteCount
        /\ Element(qBuff, at[k], at[next])
    BY <1>1, <2>1, Link, Zenon
  <2>3. PICK x, y : x = at[k] /\ y = at[next]
    OBVIOUS
  <2>4. x \in Nat /\ y \in Nat /\ Element(qBuff, x, y) /\ y < 2 * queueMaxSize /\ x + HeaderSize < y
    BY <1>1, <2>2, <2>3 DEF Element
  <2>5. PICK p : p = MOD(x, queueMaxSize)
    OBVIOUS
  <2>6. ElementAt[k] = p
    <3>1. ElementAt[k] = x % queueMaxSize
      BY <1>2, <2>3 DEF ElementAt
    <3>2. x < 2 * queueMaxSize
      BY <2>4
    <3>3. x % queueMaxSize = MOD(x, queueMaxSize)
      BY <2>4, <3>2, ModIsRemainder
    <3>. QED  BY <2>5, <3>1, <3>3
  <2>7. PICK n \in Nat : n = y - x - HeaderSize /\ SizeAt(qBuff, p) = n
    BY <2>4, <2>5 DEF Element
  <2>8. PICK body : body = MOD(x + HeaderSize, queueMaxSize) /\ body = MOD(p + HeaderSize, queueMaxSize)
    BY <2>4, <2>5 DEF MOD
  <2>9. ASSUME NEW i \in 1 .. n PROVE qBuff[(body + i - 1) % queueMaxSize] = qBuff[body + i - 1]
    <3>1. i \in 1 .. y - x - HeaderSize
      BY <2>7
    <3>2. MOD(x + HeaderSize, queueMaxSize) + i - 1 \in Position
      BY <1>1, <2>4, <3>1, DataOfElement
    <3>3. PICK j \in Nat : j = body + i - 1 /\ j < queueMaxSize
      BY <2>8, <3>2
    <3>4. j % queueMaxSize = j
      BY <3>3, Remainder
    <3>. QED  BY <3>3, <3>4
  <2>10. [i \in 1 .. n |-> qBuff[(body + i - 1) % queueMaxSize]] = [i \in 1 .. n |-> qBuff[body + i - 1]]
    BY <2>9, Zenon
  <2>11. DataAt(p) = [i \in 1 .. n |-> qBuff[(body + i - 1) % queueMaxSize]]
    BY <2>7, <2>8, Zenon DEF DataAt
  <2>12. Data(qBuff, x, y) = [i \in 1 .. n |-> qBuff[body + i - 1]]
    BY <2>7, <2>8, Zenon DEF Data
  <2>. QED  BY <2>1, <2>3, <2>6, <2>10, <2>11, <2>12, Zenon
<1>4. PICK d : d = [k \in 1 .. elementCount |-> DataAt(ElementAt[k])]
  OBVIOUS
<1>5. d = Contents(qBuff, elementCount, at)
  BY <1>3, <1>4, Zenon DEF Contents
<1>6. Pending = FlattenSeq(IF uart = "done" THEN Tail(d) ELSE d)
  BY <1>4, Zenon DEF Pending
<1>. QED  BY <1>5, <1>6, Zenon DEF PendingOf

(* The chain in a state of the invariant.                                   *)
LEMMA RingOfState ==
  ASSUME Ind, NEW at, Chain(qBuff, first, last, byteCount, elementCount, at)
  PROVE  Ring(qBuff, first, last, byteCount, elementCount, at)
  BY DEF Ind, TypeOK, Ring, Memory

(* Where the queue stays and nothing is sent, so does what is pending.      *)
LEMMA PendingStays ==
  ASSUME Ind, PendingFits, PendingFits', UNCHANGED queueVars, uart' = "done" <=> uart = "done"
  PROVE  Pending' = Pending
<1>1. PICK ch : Chain(qBuff, first, last, byteCount, elementCount, ch)
  BY DEF Ind, Follow
<1>2. /\ qBuff' = qBuff /\ first' = first /\ last' = last /\ byteCount' = byteCount
      /\ elementCount' = elementCount
  BY DEF queueVars
<1>3. Pending = PendingOf(qBuff, elementCount, ch, uart)
  BY <1>1 DEF PendingFits
<1>4. Pending' = PendingOf(qBuff', elementCount', ch, uart')
  BY <1>1, <1>2 DEF PendingFits
<1>. QED  BY <1>2, <1>3, <1>4 DEF PendingOf

(* A message that fits is accepted.                                         *)
LEMMA SendAccepts ==
  ASSUME WrapsCounted, Ind, PendingFits, PendingFits', NEW n \in MsgSizes, TraceSend(n), Fits(n)
  PROVE  Delivered!Accept
<1>1. /\ TypeOK /\ HoldersAgree /\ DmaSendsFirst
      /\ n \in Nat /\ stamp \in 0 .. Bytes - 1 /\ elementCount \in Nat
  BY SizesAssumption DEF Ind, TypeOK
<1>2. PICK data : data = Stream!Message(stamp, n)
  OBVIOUS
<1>3. /\ CircularQueue_Add(data) /\ stamp' = (stamp + n) % Bytes /\ out' = out
      /\ IF ready THEN uart' = "armed" ELSE uart' = uart
  BY <1>2 DEF TraceSend
<1>4. data \in Seq(0 .. 255) /\ Len(data) = n
  BY <1>1, <1>2, Numbered
<1>5. PICK ch : Chain(qBuff, first, last, byteCount, elementCount, ch)
  BY DEF Ind, Follow
<1>6. PICK ch2 : /\ Chain(qBuff', first', last', byteCount', elementCount', ch2)
                 /\ Grows(Contents(qBuff', elementCount', ch2), Contents(qBuff, elementCount, ch), data)
  BY <1>1, <1>3, <1>4, <1>5, AddKeepsChain
<1>7. PICK s, s2 : s = Contents(qBuff, elementCount, ch) /\ s2 = Contents(qBuff', elementCount', ch2)
  OBVIOUS
<1>8. s \in Seq(Octets) /\ Len(s) = elementCount
  <2>1. Ring(qBuff, first, last, byteCount, elementCount, ch)
    BY <1>5, RingOfState
  <2>2. /\ Contents(qBuff, elementCount, ch) \in Seq(Octets)
        /\ Len(Contents(qBuff, elementCount, ch)) = elementCount
    BY <2>1, ContentsOfChain
  <2>. QED  BY <1>7, <2>2
<1>9. data \in Octets /\ Grows(s2, s, data)
  BY <1>4, <1>6, <1>7 DEF Octets
<1>10. /\ FlattenSeq(s2) = FlattenSeq(s) \o data
       /\ s # <<>> => FlattenSeq(Tail(s2)) = FlattenSeq(Tail(s)) \o data
  BY <1>8, <1>9, GrowsFlat
<1>11. Pending = FlattenSeq(IF uart = "done" THEN Tail(s) ELSE s)
  BY <1>5, <1>7, Zenon DEF PendingFits, PendingOf
<1>12. Pending' = FlattenSeq(IF uart' = "done" THEN Tail(s2) ELSE s2)
  BY <1>6, <1>7, Zenon DEF PendingFits, PendingOf
<1>13. Pending' = Pending \o data
  <2>1. CASE uart = "done"
    <3>1. ~ready /\ elementCount > 0
      BY <1>1, <2>1 DEF HoldersAgree, DmaSendsFirst
    <3>2. uart' = "done" /\ s # <<>>
      BY <1>3, <1>8, <2>1, <3>1
    <3>. QED  BY <1>10, <1>11, <1>12, <2>1, <3>2
  <2>2. CASE uart # "done"
    <3>1. uart' # "done"
      BY <1>3, <2>2
    <3>. QED  BY <1>10, <1>11, <1>12, <2>2, <3>1
  <2>. QED  BY <2>1, <2>2
<1>14. Delivered!Message(stamp, n) = data
  BY <1>2 DEF Stream!Message, Delivered!Message
<1>. QED  BY <1>3, <1>13, <1>14 DEF Delivered!Accept

(* Two sequences, taken apart again.                                        *)
LEMMA TakenApart ==
  ASSUME NEW a \in Octets, NEW b \in Octets
  PROVE  /\ SubSeq(a \o b, 1, Len(a)) = a
         /\ SubSeq(a \o b, Len(a) + 1, Len(a \o b)) = b
<1>1. PICK s, n, m : s = a \o b /\ n = Len(a) /\ m = Len(b)
  OBVIOUS
<1>2. /\ s \in Octets /\ n \in Nat /\ m \in Nat /\ Len(s) = n + m
      /\ \A i \in 1 .. n + m : s[i] = IF i <= n THEN a[i] ELSE b[i - n]
  BY <1>1, OctetsJoin
<1>3. /\ a \in Seq(0 .. 255) /\ b \in Seq(0 .. 255)
      /\ \A i \in 1 .. n + m : s[i] \in 0 .. 255
  <2>1. a \in Seq(0 .. 255) /\ b \in Seq(0 .. 255) /\ s \in Seq(0 .. 255)
    BY <1>2 DEF Octets
  <2>2. \A i \in 1 .. Len(s) : s[i] \in 0 .. 255
    BY <2>1, ElementOfSeq
  <2>. QED  BY <1>2, <2>1, <2>2
<1>4. SubSeq(s, 1, n) = a
  <2>1. PICK t : t = SubSeq(s, 1, n)
    OBVIOUS
  <2>2. \A i \in 1 .. n : s[i] \in 0 .. 255
    BY <1>2, <1>3
  <2>3. t \in Seq(0 .. 255) /\ Len(t) = n /\ \A i \in 1 .. n : t[i] = s[i]
    BY <1>2, <2>1, <2>2, SubSeqProperties
  <2>4. \A i \in 1 .. n : t[i] = a[i]
    BY <1>2, <2>3
  <2>5. t = a
    BY <1>1, <1>3, <2>3, <2>4, SeqEqual
  <2>. QED  BY <2>1, <2>5
<1>5. SubSeq(s, n + 1, n + m) = b
  <2>1. PICK t : t = SubSeq(s, n + 1, n + m)
    OBVIOUS
  <2>2. \A i \in n + 1 .. n + m : s[i] \in 0 .. 255
    BY <1>2, <1>3
  <2>3. t \in Seq(0 .. 255) /\ Len(t) = m /\ \A i \in 1 .. m : t[i] = s[n + 1 + i - 1]
    BY <1>2, <2>1, <2>2, SubSeqProperties
  <2>4. \A i \in 1 .. m : t[i] = b[i]
    BY <1>2, <2>3
  <2>5. t = b
    BY <1>1, <1>3, <2>3, <2>4, SeqEqual
  <2>. QED  BY <2>1, <2>5
<1>. QED  BY <1>1, <1>2, <1>4, <1>5

(* The end of a transfer emits the first element.                           *)
LEMMA DmaEmits ==
  ASSUME Ind, PendingFits, PendingFits', DmaDone PROVE Delivered!Emit
<1>1. /\ first \in Position /\ byteCount \in Nat /\ byteCount <= queueMaxSize
      /\ elementCount \in Nat /\ qBuff \in Memory
  BY DEF Ind, TypeOK, Memory
<1>2. /\ uart = "busy" /\ uart' = "done" /\ stamp' = stamp
      /\ qBuff' = qBuff /\ first' = first /\ last' = last /\ byteCount' = byteCount
      /\ elementCount' = elementCount
      /\ out' = [i \in 1 .. dma.size |-> qBuff[MOD(dma.pos + i - 1, queueMaxSize)]]
  BY DEF DmaDone, queueVars
<1>3. elementCount > 0 /\ dma = CircularQueue_Sense(qBuff, first)
  BY <1>2 DEF Ind, DmaSendsFirst
<1>4. PICK ch : Chain(qBuff, first, last, byteCount, elementCount, ch)
  BY DEF Ind, Follow
<1>5. PICK s : s = Contents(qBuff, elementCount, ch)
  OBVIOUS
<1>6. /\ s \in Seq(Octets) /\ Len(s) = elementCount
      /\ \A k \in 1 .. elementCount : s[k] = Data(qBuff, ch[k], ch[k + 1])
  <2>1. Ring(qBuff, first, last, byteCount, elementCount, ch)
    BY <1>4, RingOfState
  <2>2. /\ Contents(qBuff, elementCount, ch) \in Seq(Octets)
        /\ Len(Contents(qBuff, elementCount, ch)) = elementCount
        /\ \A k \in 1 .. elementCount :
             Contents(qBuff, elementCount, ch)[k] = Data(qBuff, ch[k], ch[k + 1])
    BY <2>1, ContentsOfChain
  <2>. QED  BY <1>5, <2>2, Zenon
<1>7. PICK y : y = ch[2] /\ y \in Nat /\ y <= first + byteCount /\ Element(qBuff, first, y)
                /\ s[1] = Data(qBuff, first, y)
  <2>1. PICK one, two : one = 1 /\ two = one + 1 /\ one \in 1 .. elementCount
    BY <1>1, <1>3
  <2>2. ch[two] \in Nat /\ ch[two] <= first + byteCount /\ Element(qBuff, ch[one], ch[two])
    BY <1>1, <1>4, <2>1, Link, Zenon
  <2>3. s[one] = Data(qBuff, ch[one], ch[two])
    BY <1>6, <2>1, Zenon
  <2>4. ch[1] = first
    BY <1>4 DEF Chain
  <2>. QED  BY <2>1, <2>2, <2>3, <2>4
<1>8. PICK n \in Nat : n = y - first - HeaderSize /\ n > 0 /\ SizeAt(qBuff, first) = n
  BY <1>1, <1>7 DEF Element, MOD
<1>9. PICK pos : pos = MOD(first + HeaderSize, queueMaxSize) /\ dma.pos = pos /\ dma.size = n
  BY <1>3, <1>8 DEF CircularQueue_Sense
<1>10. /\ s[1] \in Octets /\ Len(s[1]) = n
       /\ \A i \in 1 .. n : pos + i - 1 \in Position
  <2>1. y < 2 * queueMaxSize /\ first \in Nat
    BY <1>1, <1>7
  <2>2. /\ Data(qBuff, first, y) \in Octets /\ Len(Data(qBuff, first, y)) = y - first - HeaderSize
        /\ \A i \in 1 .. y - first - HeaderSize :
             MOD(first + HeaderSize, queueMaxSize) + i - 1 \in Position
    BY <1>1, <1>7, <2>1, DataOfElement
  <2>. QED  BY <1>7, <1>8, <1>9, <2>2, Zenon
<1>11. out' = s[1]
  <2>1. \A i \in 1 .. n : MOD(pos + i - 1, queueMaxSize) = pos + i - 1
    BY <1>10 DEF MOD
  <2>2. [i \in 1 .. n |-> qBuff[MOD(pos + i - 1, queueMaxSize)]] = [i \in 1 .. n |-> qBuff[pos + i - 1]]
    BY <2>1, Zenon
  <2>3. out' = [i \in 1 .. n |-> qBuff[MOD(pos + i - 1, queueMaxSize)]]
    BY <1>2, <1>9, Zenon
  <2>4. Data(qBuff, first, y) = [i \in 1 .. n |-> qBuff[pos + i - 1]]
    BY <1>8, <1>9, Zenon DEF Data
  <2>. QED  BY <1>7, <2>2, <2>3, <2>4, Zenon
<1>12. PICK d, rest : d = s[1] /\ rest = FlattenSeq(Tail(s))
  OBVIOUS
<1>13. Pending = d \o rest
  <2>1. s # <<>>
    BY <1>3, <1>6
  <2>2. Pending = FlattenSeq(s)
    BY <1>2, <1>4, <1>5 DEF PendingFits, PendingOf
  <2>. QED  BY <1>6, <1>12, <2>1, <2>2, FlattenFirst
<1>14. Pending' = rest
  <2>1. Pending' = PendingOf(qBuff', elementCount', ch, uart')
    BY <1>2, <1>4 DEF PendingFits
  <2>. QED  BY <1>2, <1>5, <1>12, <2>1 DEF PendingOf
<1>15. d \in Octets /\ rest \in Octets /\ Len(d) = n
  <2>1. s # <<>>
    BY <1>3, <1>6
  <2>2. Tail(s) \in Seq(Octets)
    BY <1>6, <2>1, HeadTailProperties
  <2>. QED  BY <1>10, <1>12, <2>2, FlattenType
<1>16. n \in 1 .. Len(Pending)
  <2>1. Len(Pending) = Len(d) + Len(rest) /\ Len(rest) \in Nat
    BY <1>13, <1>15, OctetsJoin
  <2>. QED  BY <1>8, <1>15, <2>1
<1>17. /\ out' = SubSeq(Pending, 1, n)
       /\ Pending' = SubSeq(Pending, n + 1, Len(Pending))
  BY <1>11, <1>12, <1>13, <1>14, <1>15, TakenApart
<1>. QED  BY <1>2, <1>16, <1>17 DEF Delivered!Emit

(* The removal of a sent element changes nothing of what is pending.        *)
LEMMA RemovalKeepsPending ==
  ASSUME Ind, PendingFits, PendingFits', Trace_TxCpltCallback PROVE Pending' = Pending
<1>1. /\ first \in Position /\ byteCount \in 0 .. queueMaxSize /\ elementCount \in Nat
      /\ qBuff \in Memory
  BY DEF Ind, TypeOK, Memory
<1>2. uart = "done" /\ uart' # "done" /\ elementCount > 0
  BY DEF Trace_TxCpltCallback, Ind, DmaSendsFirst
<1>3. PICK ch : Chain(qBuff, first, last, byteCount, elementCount, ch)
  BY DEF Ind, Follow
<1>4. PICK n, f2 :
        /\ n = SizeAt(qBuff, first)
        /\ f2 = IF byteCount - (n + HeaderSize) > 0
                THEN MOD(first + n + HeaderSize, queueMaxSize) ELSE first
  OBVIOUS
<1>5. /\ byteCount' = byteCount - (n + HeaderSize) /\ first' = f2
      /\ elementCount' = elementCount - 1 /\ qBuff' = qBuff /\ last' = last
  BY <1>4 DEF Trace_TxCpltCallback, CircularQueue_Remove
<1>6. /\ byteCount' \in 0 .. queueMaxSize /\ f2 \in Position
      /\ \E ch2 : /\ Chain(qBuff, f2, last, byteCount - (n + HeaderSize), elementCount - 1, ch2)
                  /\ Shifted(ch2, ch, elementCount)
  BY <1>1, <1>2, <1>3, <1>4, <1>5, Shorter
<1>7. PICK ch2 : /\ Chain(qBuff, f2, last, byteCount', elementCount', ch2)
                 /\ Shifted(ch2, ch, elementCount)
  BY <1>5, <1>6
<1>8. Contents(qBuff, elementCount', ch2) = Tail(Contents(qBuff, elementCount, ch))
  <2>1. Ring(qBuff, first, last, byteCount, elementCount, ch)
    BY <1>3, RingOfState
  <2>2. PICK m2 : m2 = elementCount' /\ m2 = elementCount - 1 /\ m2 \in Nat
    BY <1>1, <1>2, <1>5
  <2>3. Ring(qBuff, f2, last, byteCount', m2, ch2)
    BY <1>1, <1>6, <1>7, <2>2 DEF Ring
  <2>. QED  BY <1>2, <1>7, <2>1, <2>2, <2>3, ShorterContents
<1>9. Pending = FlattenSeq(Tail(Contents(qBuff, elementCount, ch)))
  BY <1>2, <1>3 DEF PendingFits, PendingOf
<1>10. Pending' = FlattenSeq(Contents(qBuff, elementCount', ch2))
  <2>1. Pending' = PendingOf(qBuff', elementCount', ch2, uart')
    BY <1>5, <1>7 DEF PendingFits
  <2>. QED  BY <1>2, <1>5, <2>1 DEF PendingOf
<1>. QED  BY <1>8, <1>9, <1>10

(* Each step of Trace is a step of the stream or leaves it as it is.        *)
LEMMA StepDelivers ==
  ASSUME WrapsCounted, Ind, PendingFits, PendingFits', [Next]_vars
  PROVE  [Delivered!Next]_(Delivered!streamVars)
<1>1. ASSUME Pending' = Pending, out' = out, stamp' = stamp
      PROVE  UNCHANGED Delivered!streamVars
  BY <1>1 DEF Delivered!streamVars
<1>2. ASSUME NEW n \in MsgSizes, TraceSend(n) PROVE [Delivered!Next]_(Delivered!streamVars)
  <2>1. CASE Fits(n)
    <3>1. Delivered!Accept
      BY <1>2, <2>1, SendAccepts
    <3>. QED  BY <3>1 DEF Delivered!Next
  <2>2. CASE ~Fits(n)
    <3>1. UNCHANGED queueVars /\ uart' = uart /\ out' = out /\ stamp' = stamp
      BY <1>2, <2>2 DEF TraceSend
    <3>. QED  BY <1>1, <3>1, PendingStays
  <2>. QED  BY <2>1, <2>2
<1>3. ASSUME DmaDone PROVE [Delivered!Next]_(Delivered!streamVars)
  <2>1. Delivered!Emit
    BY <1>3, DmaEmits
  <2>. QED  BY <2>1 DEF Delivered!Next
<1>4. ASSUME Trace_TxCpltCallback PROVE UNCHANGED Delivered!streamVars
  <2>1. out' = out /\ stamp' = stamp
    BY <1>4 DEF Trace_TxCpltCallback
  <2>. QED  BY <1>1, <1>4, <2>1, RemovalKeepsPending
<1>5. ASSUME \/ OutputTrace \/ LPM_EnterLowPower \/ Wake
             \/ \E near \in BOOLEAN : HW_RTC_SetAlarm(near)
             \/ HW_RTC_IrqHandler
             \/ UNCHANGED vars
      PROVE  UNCHANGED Delivered!streamVars
  <2>1. /\ UNCHANGED queueVars /\ out' = out /\ stamp' = stamp
        /\ uart' = "done" <=> uart = "done"
    BY <1>5 DEF OutputTrace, LPM_EnterLowPower, Wake, HW_RTC_SetAlarm, HW_RTC_IrqHandler,
         vars, queueVars
  <2>. QED  BY <1>1, <2>1, PendingStays
<1>. QED  BY <1>2, <1>3, <1>4, <1>5, Zenon DEF Next

(* The bytes of the accepted messages leave through the UART in the order   *)
(* of acceptance, none is lost, changed or sent twice.                      *)
THEOREM Refinement ==
  ASSUME WrapsCounted PROVE Spec => DeliversSafely
<1>1. Init => Delivered!Init
  <2>. SUFFICES ASSUME Init PROVE Delivered!Init
    OBVIOUS
  <2>1. elementCount = 0 /\ uart = "idle" /\ out = <<>> /\ stamp = 0
    BY DEF Init, CircularQueue_Init
  <2>2. [k \in 1 .. elementCount |-> DataAt(ElementAt[k])] = <<>>
    BY <2>1
  <2>3. Pending = FlattenSeq(<<>>)
    BY <2>1, <2>2, Zenon DEF Pending
  <2>. QED  BY <2>1, <2>3, FlattenNone DEF Delivered!Init
<1>2. Init => Ind
  BY InitInd
<1>3. Ind /\ [Next]_vars => Ind'
  BY NextInd
<1>4. Ind => PendingFits
  BY PendingIsOfChain
<1>5. Ind /\ PendingFits /\ PendingFits' /\ [Next]_vars => [Delivered!Next]_(Delivered!streamVars)
  BY StepDelivers
<1>. QED  BY <1>1, <1>2, <1>3, <1>4, <1>5, PTL DEF Spec, DeliversSafely, Delivered!SafeSpec

=============================================================================

-------------------------- MODULE TimerServerProofs --------------------------
(***************************************************************************)
(* Proofs about TimerServer, for every set of timers and every value of    *)
(* the constants that satisfies TimerAssumption.                           *)
(***************************************************************************)
EXTENDS TimerServer, SequenceTheorems, FiniteSetTheorems, TLAPS

Distinct(s) == \A i, j \in 1..Len(s) : s[i] = s[j] => i = j

-------------------------------------------------------------------------------
(* The list operations                                                      *)

(* What SequencesExt!InsertAt returns, element by element.                  *)
LEMMA InsertAtElements ==
  ASSUME NEW S, NEW s \in Seq(S), NEW i \in 1..(Len(s) + 1), NEW e \in S
  PROVE  /\ InsertAt(s, i, e) \in Seq(S)
         /\ Len(InsertAt(s, i, e)) = Len(s) + 1
         /\ \A j \in 1..(Len(s) + 1) :
              InsertAt(s, i, e)[j] = IF j < i THEN s[j]
                                     ELSE IF j = i THEN e ELSE s[j - 1]
<1> DEFINE a == SubSeq(s, 1, i - 1)
           b == SubSeq(s, i, Len(s))
           c == a \o <<e>>
<1>0. /\ Len(s) \in Nat /\ i \in Int /\ i - 1 \in Int
      /\ \A j \in 1..Len(s) : s[j] \in S
  BY LenProperties, ElementOfSeq
<1>1. /\ a \in Seq(S) /\ Len(a) = i - 1
      /\ \A j \in 1..(i - 1) : a[j] = s[j]
  BY <1>0, SubSeqProperties, Z3
<1>2. /\ b \in Seq(S) /\ Len(b) = Len(s) - i + 1
      /\ \A j \in 1..(Len(s) - i + 1) : b[j] = s[i + j - 1]
  BY <1>0, SubSeqProperties, Z3
<1>3. /\ <<e>> \in Seq(S) /\ Len(<<e>>) = 1 /\ <<e>>[1] = e
  OBVIOUS
<1> HIDE DEF a, b
<1>4. /\ c \in Seq(S) /\ Len(c) = i
      /\ \A j \in 1..i : c[j] = IF j < i THEN s[j] ELSE e
  <2>1. /\ c \in Seq(S) /\ Len(c) = Len(a) + Len(<<e>>)
        /\ \A j \in 1..(Len(a) + Len(<<e>>)) :
             c[j] = IF j <= Len(a) THEN a[j] ELSE <<e>>[j - Len(a)]
    BY <1>1, <1>3, ConcatProperties
  <2> HIDE DEF c
  <2> QED BY <2>1, <1>0, <1>1, <1>3
<1> HIDE DEF c
<1>5. /\ c \o b \in Seq(S)
      /\ Len(c \o b) = Len(s) + 1
      /\ \A j \in 1..(Len(s) + 1) :
           (c \o b)[j] = IF j <= i THEN c[j] ELSE b[j - i]
  <2>1. /\ c \o b \in Seq(S) /\ Len(c \o b) = Len(c) + Len(b)
        /\ \A j \in 1..(Len(c) + Len(b)) :
             (c \o b)[j] = IF j <= Len(c) THEN c[j] ELSE b[j - Len(c)]
    BY <1>2, <1>4, ConcatProperties
  <2>2. Len(c) + Len(b) = Len(s) + 1
    BY <1>0, <1>2, <1>4
  <2> QED BY <2>1, <2>2, <1>4
<1>6. ASSUME NEW j \in 1..(Len(s) + 1)
      PROVE  (c \o b)[j] = IF j < i THEN s[j] ELSE IF j = i THEN e ELSE s[j - 1]
  <2>1. CASE j <= i
    BY <2>1, <1>0, <1>4, <1>5
  <2>2. CASE j > i
    <3>1. j - i \in 1..(Len(s) - i + 1) /\ i + (j - i) - 1 = j - 1
      BY <2>2, <1>0
    <3>2. b[j - i] = s[j - 1]
      BY <3>1, <1>2
    <3> QED BY <3>2, <2>2, <1>0, <1>5
  <2>3. j <= i \/ j > i
    BY <1>0
  <2> QED BY <2>1, <2>2, <2>3, Zenon
<1> QED BY <1>5, <1>6 DEF InsertAt, a, b, c

(* What SequencesExt!RemoveAt returns, element by element.                  *)
LEMMA RemoveAtElements ==
  ASSUME NEW S, NEW s \in Seq(S), NEW i \in 1..Len(s)
  PROVE  /\ RemoveAt(s, i) \in Seq(S)
         /\ Len(RemoveAt(s, i)) = Len(s) - 1
         /\ \A j \in 1..(Len(s) - 1) :
              RemoveAt(s, i)[j] = IF j < i THEN s[j] ELSE s[j + 1]
<1> DEFINE a == SubSeq(s, 1, i - 1)
           b == SubSeq(s, i + 1, Len(s))
<1>0. /\ Len(s) \in Nat /\ i \in Int /\ i - 1 \in Int /\ i + 1 \in Int
      /\ \A j \in 1..Len(s) : s[j] \in S
  BY LenProperties, ElementOfSeq
<1>1. /\ a \in Seq(S) /\ Len(a) = i - 1
      /\ \A j \in 1..(i - 1) : a[j] = s[j]
  BY <1>0, SubSeqProperties, Z3
<1>2. /\ b \in Seq(S) /\ Len(b) = Len(s) - i
      /\ \A j \in 1..(Len(s) - i) : b[j] = s[i + j]
  BY <1>0, SubSeqProperties, Z3
<1> HIDE DEF a, b
<1>3. /\ a \o b \in Seq(S)
      /\ Len(a \o b) = Len(s) - 1
      /\ \A j \in 1..(Len(s) - 1) :
           (a \o b)[j] = IF j <= i - 1 THEN a[j] ELSE b[j - (i - 1)]
  <2>1. /\ a \o b \in Seq(S) /\ Len(a \o b) = Len(a) + Len(b)
        /\ \A j \in 1..(Len(a) + Len(b)) :
             (a \o b)[j] = IF j <= Len(a) THEN a[j] ELSE b[j - Len(a)]
    BY <1>1, <1>2, ConcatProperties
  <2>2. Len(a) + Len(b) = Len(s) - 1
    BY <1>0, <1>1, <1>2
  <2> QED BY <2>1, <2>2, <1>1
<1>4. ASSUME NEW j \in 1..(Len(s) - 1)
      PROVE  (a \o b)[j] = IF j < i THEN s[j] ELSE s[j + 1]
  <2>1. CASE j < i
    BY <2>1, <1>0, <1>1, <1>3
  <2>2. CASE j >= i
    <3>1. j - (i - 1) \in 1..(Len(s) - i) /\ i + (j - (i - 1)) = j + 1
      BY <2>2, <1>0
    <3>2. b[j - (i - 1)] = s[j + 1]
      BY <3>1, <1>2
    <3>3. (a \o b)[j] = b[j - (i - 1)]
      <4>1. ~(j <= i - 1)
        BY <2>2, <1>0
      <4> QED BY <4>1, <1>3
    <3> QED BY <3>2, <3>3, <2>2, <1>0
  <2>3. j < i \/ j >= i
    BY <1>0
  <2> QED BY <2>1, <2>2, <2>3, Zenon
<1> QED BY <1>3, <1>4 DEF RemoveAt, a, b

(* The elements of a sequence, by position.                                 *)
LEMMA RangeByPosition ==
  ASSUME NEW S, NEW s \in Seq(S)
  PROVE  /\ Len(s) \in Nat
         /\ \A j \in 1..Len(s) : s[j] \in Range(s) /\ s[j] \in S
         /\ \A x \in Range(s) : x \in S /\ \E j \in 1..Len(s) : s[j] = x
<1>1. Range(s) = {s[j] : j \in 1..Len(s)}
  BY RangeEquality
<1> QED BY <1>1, LenProperties, ElementOfSeq

(* Linking an element that is not linked keeps the list acyclic.            *)
LEMMA InsertAtRange ==
  ASSUME NEW S, NEW s \in Seq(S), NEW i \in 1..(Len(s) + 1), NEW e \in S,
         e \notin Range(s), Distinct(s)
  PROVE  /\ Range(InsertAt(s, i, e)) = Range(s) \cup {e}
         /\ Distinct(InsertAt(s, i, e))
         /\ s # <<>> /\ i # 1 => Head(InsertAt(s, i, e)) = Head(s)
         /\ InsertAt(s, i, e) # <<>>
<1> DEFINE r == InsertAt(s, i, e)
<1>1. /\ r \in Seq(S) /\ Len(r) = Len(s) + 1
      /\ \A j \in 1..(Len(s) + 1) :
           r[j] = IF j < i THEN s[j] ELSE IF j = i THEN e ELSE s[j - 1]
  <2>1. /\ InsertAt(s, i, e) \in Seq(S)
        /\ Len(InsertAt(s, i, e)) = Len(s) + 1
        /\ \A j \in 1..(Len(s) + 1) :
             InsertAt(s, i, e)[j] = IF j < i THEN s[j]
                                    ELSE IF j = i THEN e ELSE s[j - 1]
    BY InsertAtElements
  <2> QED BY <2>1
<1> HIDE DEF r
<1>2. /\ Len(s) \in Nat
      /\ \A j \in 1..Len(s) : s[j] \in Range(s)
      /\ \A x \in Range(s) : \E j \in 1..Len(s) : s[j] = x
  BY RangeByPosition
<1>3. /\ \A j \in 1..Len(r) : r[j] \in Range(r)
      /\ \A x \in Range(r) : \E j \in 1..Len(r) : r[j] = x
  BY <1>1, RangeByPosition
<1>4. ASSUME NEW x \in Range(r) PROVE x \in Range(s) \cup {e}
  <2>1. PICK j \in 1..Len(r) : r[j] = x
    BY <1>3
  <2> QED BY <2>1, <1>1, <1>2
<1>5. e \in Range(r)
  <2>1. i \in 1..Len(r) /\ r[i] = e
    BY <1>1, <1>2
  <2> QED BY <2>1, <1>3
<1>6. ASSUME NEW x \in Range(s) PROVE x \in Range(r)
  <2>1. PICK j \in 1..Len(s) : s[j] = x
    BY <1>2
  <2>2. CASE j < i
    <3>1. j \in 1..Len(r) /\ r[j] = s[j]
      BY <2>2, <1>1, <1>2
    <3> QED BY <3>1, <2>1, <1>3
  <2>3. CASE j >= i
    <3>1. j + 1 \in 1..Len(r) /\ r[j + 1] = s[j]
      BY <2>3, <1>1, <1>2
    <3> QED BY <3>1, <2>1, <1>3
  <2> QED BY <2>2, <2>3, <1>2
<1>7. Distinct(r)
  <2> SUFFICES ASSUME NEW j \in 1..Len(r), NEW k \in 1..Len(r), r[j] = r[k]
               PROVE  j = k
    BY DEF Distinct
  <2> DEFINE old(n) == IF n < i THEN n ELSE n - 1
  <2>1. ASSUME NEW n \in 1..Len(r), n # i
        PROVE  old(n) \in 1..Len(s) /\ r[n] = s[old(n)] /\ r[n] # e
    <3>1. old(n) \in 1..Len(s) /\ r[n] = s[old(n)]
      BY <2>1, <1>1, <1>2
    <3> QED BY <3>1, <1>2
  <2>2. r[i] = e
    BY <1>1, <1>2
  <2>3. CASE j = i \/ k = i
    BY <2>1, <2>2, <2>3
  <2>4. CASE j # i /\ k # i
    <3>1. s[old(j)] = s[old(k)] /\ old(j) \in 1..Len(s) /\ old(k) \in 1..Len(s)
      BY <2>1, <2>4
    <3>2. old(j) = old(k)
      BY <3>1 DEF Distinct
    <3> QED BY <3>2, <2>4, <1>1, <1>2
  <2> QED BY <2>3, <2>4
<1>8. s # <<>> /\ i # 1 => Head(r) = Head(s)
  <2> HAVE s # <<>> /\ i # 1
  <2>1. Head(r) = r[1] /\ Head(s) = s[1] /\ Len(s) >= 1
    BY <1>1, <1>2, EmptySeq
  <2> QED BY <2>1, <1>1, <1>2
<1>9. r # <<>>
  BY <1>1, <1>2
<1> QED BY <1>4, <1>5, <1>6, <1>7, <1>8, <1>9 DEF r

(* Unlinking an element removes it and nothing else.                        *)
LEMMA RemoveAtRange ==
  ASSUME NEW S, NEW s \in Seq(S), NEW i \in 1..Len(s), Distinct(s)
  PROVE  /\ Range(RemoveAt(s, i)) = Range(s) \ {s[i]}
         /\ Distinct(RemoveAt(s, i))
         /\ i # 1 => RemoveAt(s, i) # <<>> /\ Head(RemoveAt(s, i)) = Head(s)
<1> DEFINE r == RemoveAt(s, i)
<1>1. /\ r \in Seq(S) /\ Len(r) = Len(s) - 1
      /\ \A j \in 1..(Len(s) - 1) : r[j] = IF j < i THEN s[j] ELSE s[j + 1]
  BY RemoveAtElements
<1> HIDE DEF r
<1>2. /\ Len(s) \in Nat
      /\ \A j \in 1..Len(s) : s[j] \in Range(s)
      /\ \A x \in Range(s) : \E j \in 1..Len(s) : s[j] = x
  BY RangeByPosition
<1>3. /\ \A j \in 1..Len(r) : r[j] \in Range(r)
      /\ \A x \in Range(r) : \E j \in 1..Len(r) : r[j] = x
  BY <1>1, RangeByPosition
<1>4. ASSUME NEW x \in Range(r) PROVE x \in Range(s) \ {s[i]}
  <2>1. PICK j \in 1..Len(r) : r[j] = x
    BY <1>3
  <2>2. CASE j < i
    BY <2>1, <2>2, <1>1, <1>2 DEF Distinct
  <2>3. CASE j >= i
    BY <2>1, <2>3, <1>1, <1>2 DEF Distinct
  <2> QED BY <2>2, <2>3, <1>1, <1>2
<1>5. ASSUME NEW x \in Range(s) \ {s[i]} PROVE x \in Range(r)
  <2>1. PICK j \in 1..Len(s) : s[j] = x
    BY <1>2
  <2>2. CASE j < i
    <3>1. j \in 1..Len(r)
      BY <2>2, <1>1, <1>2
    <3>2. r[j] = s[j]
      BY <3>1, <2>2, <1>1
    <3> QED BY <3>1, <3>2, <2>1, <1>3
  <2>3. CASE j > i
    <3>1. j - 1 \in 1..Len(r)
      BY <2>3, <1>1, <1>2
    <3>2. r[j - 1] = s[j]
      <4>1. ~(j - 1 < i) /\ (j - 1) + 1 = j
        BY <2>3, <1>2
      <4> QED BY <3>1, <4>1, <1>1
    <3> QED BY <3>1, <3>2, <2>1, <1>3
  <2>4. j < i \/ j > i
    <3>1. j # i
      BY <2>1
    <3> QED BY <3>1, <1>2
  <2> QED BY <2>2, <2>3, <2>4, Zenon
<1>6. Distinct(r)
  <2> SUFFICES ASSUME NEW j \in 1..Len(r), NEW k \in 1..Len(r), r[j] = r[k]
               PROVE  j = k
    BY DEF Distinct
  <2> DEFINE old(n) == IF n < i THEN n ELSE n + 1
  <2>1. ASSUME NEW n \in 1..Len(r)
        PROVE  old(n) \in 1..Len(s) /\ r[n] = s[old(n)]
    <3>1. n \in 1..(Len(s) - 1)
      BY <1>1
    <3>2. old(n) \in 1..Len(s)
      BY <3>1, <1>2
    <3>3. r[n] = s[old(n)]
      BY <3>1, <1>1
    <3> QED BY <3>2, <3>3
  <2>2. s[old(j)] = s[old(k)] /\ old(j) \in 1..Len(s) /\ old(k) \in 1..Len(s)
    BY <2>1
  <2>3. old(j) = old(k)
    BY <2>2 DEF Distinct
  <2> QED BY <2>3, <1>1, <1>2
<1>7. i # 1 => r # <<>> /\ Head(r) = Head(s)
  <2> HAVE i # 1
  <2>1. Len(r) >= 1 /\ r[1] = s[1]
    BY <1>1, <1>2
  <2>2. r # <<>> /\ s # <<>>
    BY <2>1, <1>1, <1>2
  <2> QED BY <2>1, <2>2, <1>1
<1> QED BY <1>4, <1>5, <1>6, <1>7 DEF r

(* Putting a new head on a list.                                            *)
LEMMA ConsRange ==
  ASSUME NEW S, NEW s \in Seq(S), NEW e \in S, e \notin Range(s), Distinct(s)
  PROVE  /\ Cons(e, s) \in Seq(S)
         /\ Range(Cons(e, s)) = Range(s) \cup {e}
         /\ Distinct(Cons(e, s))
         /\ Cons(e, s) # <<>> /\ Head(Cons(e, s)) = e
<1>1. Len(s) \in Nat /\ 1 \in 1..(Len(s) + 1)
  BY LenProperties
<1>2. InsertAt(s, 1, e) = Cons(e, s)
  <2>1. SubSeq(s, 1, 0) = <<>> /\ SubSeq(s, 1, Len(s)) = s
    BY SubSeqEmpty, SubSeqFull
  <2>2. <<e>> \in Seq(S) /\ <<>> \o <<e>> = <<e>>
    BY ConcatEmptySeq
  <2> QED BY <2>1, <2>2 DEF InsertAt, Cons
<1>3. /\ Range(InsertAt(s, 1, e)) = Range(s) \cup {e}
      /\ Distinct(InsertAt(s, 1, e))
      /\ InsertAt(s, 1, e) # <<>>
  BY <1>1, InsertAtRange
<1>4. /\ InsertAt(s, 1, e) \in Seq(S)
      /\ InsertAt(s, 1, e)[1] = e
  <2>1. /\ InsertAt(s, 1, e) \in Seq(S)
        /\ \A j \in 1..(Len(s) + 1) :
             InsertAt(s, 1, e)[j] = IF j < 1 THEN s[j]
                                    ELSE IF j = 1 THEN e ELSE s[j - 1]
    BY <1>1, InsertAtElements
  <2> QED BY <2>1, <1>1
<1> QED BY <1>2, <1>3, <1>4

(* Taking the head off a list.                                              *)
LEMMA TailRange ==
  ASSUME NEW S, NEW s \in Seq(S), s # <<>>, Distinct(s)
  PROVE  /\ Head(s) \in Range(s) /\ Head(s) \in S
         /\ Tail(s) \in Seq(S)
         /\ Range(Tail(s)) = Range(s) \ {Head(s)}
         /\ Distinct(Tail(s))
         /\ Tail(s) # <<>> => Head(Tail(s)) \in Range(Tail(s))
<1>1. /\ Len(s) \in Nat \ {0}
      /\ \A j \in 1..Len(s) : s[j] \in Range(s) /\ s[j] \in S
      /\ \A x \in Range(s) : \E j \in 1..Len(s) : s[j] = x
  BY RangeByPosition, EmptySeq
<1>2. /\ Tail(s) \in Seq(S) /\ Len(Tail(s)) = Len(s) - 1
      /\ \A j \in 1..Len(Tail(s)) : Tail(s)[j] = s[j + 1]
      /\ Head(s) = s[1]
  BY HeadTailProperties
<1>3. /\ \A j \in 1..Len(Tail(s)) : Tail(s)[j] \in Range(Tail(s))
      /\ \A x \in Range(Tail(s)) : \E j \in 1..Len(Tail(s)) : Tail(s)[j] = x
  <2> DEFINE t == Tail(s)
  <2>1. t \in Seq(S)
    BY <1>2
  <2> HIDE DEF t
  <2>2. /\ \A j \in 1..Len(t) : t[j] \in Range(t)
        /\ \A x \in Range(t) : \E j \in 1..Len(t) : t[j] = x
    BY <2>1, RangeByPosition
  <2> QED BY <2>2 DEF t
<1>4. ASSUME NEW x \in Range(Tail(s)) PROVE x \in Range(s) \ {Head(s)}
  <2>1. PICK j \in 1..Len(Tail(s)) : Tail(s)[j] = x
    BY <1>3
  <2>2. x = s[j + 1] /\ j + 1 \in 1..Len(s) /\ j + 1 # 1 /\ 1 \in 1..Len(s)
    BY <2>1, <1>1, <1>2
  <2> QED BY <2>2, <1>1, <1>2 DEF Distinct
<1>5. ASSUME NEW x \in Range(s) \ {Head(s)} PROVE x \in Range(Tail(s))
  <2>1. PICK j \in 1..Len(s) : s[j] = x
    BY <1>1
  <2>2. j - 1 \in 1..Len(Tail(s)) /\ Tail(s)[j - 1] = x
    BY <2>1, <1>1, <1>2
  <2> QED BY <2>2, <1>3
<1>6. Distinct(Tail(s))
  BY <1>1, <1>2 DEF Distinct
<1>7. Tail(s) # <<>> => Head(Tail(s)) \in Range(Tail(s))
  <2> HAVE Tail(s) # <<>>
  <2>1. Len(Tail(s)) \in Nat \ {0} /\ Head(Tail(s)) = Tail(s)[1]
    BY <1>2, EmptySeq
  <2> QED BY <2>1, <1>3
<1> QED BY <1>1, <1>2, <1>4, <1>5, <1>6, <1>7

-------------------------------------------------------------------------------
(* The inductive invariant                                                  *)

LEMMA DelaysAreNat == Delays \subseteq Nat /\ \A d \in Delays : d >= MinTimeout
  BY TimerAssumption DEF Delays

LEMMA LinkedTimers ==
  ASSUME TypeOK
  PROVE  /\ Linked \subseteq Timers
         /\ list # <<>> => Head(list) \in Linked /\ Head(list) \in Timers
         /\ list = <<>> => Linked = {}
<1>1. list \in Seq(Timers)
  BY DEF TypeOK
<1>2. Linked \subseteq Timers
  BY <1>1, RangeByPosition DEF Linked
<1>3. ASSUME list # <<>> PROVE Head(list) \in Linked
  <2>1. 1 \in 1..Len(list) /\ Head(list) = list[1]
    BY <1>1, <1>3, EmptySeq
  <2> QED BY <2>1, <1>1, RangeByPosition DEF Linked
<1>4. ASSUME list = <<>> PROVE Linked = {}
  <2>1. Len(list) = 0
    BY <1>1, <1>4, EmptySeq
  <2>2. \A x \in Range(list) : \E j \in 1..Len(list) : list[j] = x
    BY <1>1, RangeByPosition
  <2>3. 1..Len(list) = {}
    BY <2>1
  <2> QED BY <2>2, <2>3, Zenon DEF Linked
<1> QED BY <1>2, <1>3, <1>4

(* Programming the alarm never puts it in the past and never moves a        *)
(* timestamp back.                                                          *)
LEMMA SetTimeoutEffect ==
  ASSUME NEW t \in Timers, NEW stamps \in [Timers -> Nat], NEW now \in Nat,
         SetTimeout(t, stamps, now)
  PROVE  /\ Timestamp' \in [Timers -> Nat]
         /\ Timestamp'[t] >= stamps[t] /\ Timestamp'[t] >= now + MinTimeout
         /\ \A u \in Timers : u # t => Timestamp'[u] = stamps[u]
         /\ alarm' \in Nat /\ alarm' > now
         /\ alarm' \in (Timestamp'[t] - McuWakeUpTimeCal)..Timestamp'[t]
         /\ pending' = FALSE
<1> DEFINE d == Deadline(t, stamps, now)
<1>1. d \in Nat /\ d >= stamps[t] /\ d >= now + MinTimeout
  BY TimerAssumption DEF Deadline
<1>2. Timestamp' = [stamps EXCEPT ![t] = d] /\ pending' = FALSE
      /\ alarm' \in AlarmTargets(d, now)
  BY DEF SetTimeout
<1> HIDE DEF d
<1>3. alarm' \in Nat /\ alarm' > now /\ alarm' \in (d - McuWakeUpTimeCal)..d
  BY <1>1, <1>2, TimerAssumption DEF AlarmTargets
<1> QED BY <1>1, <1>2, <1>3

LEMMA InitAlarm == Init => AlarmInv
<1> SUFFICES ASSUME Init PROVE AlarmInv
  OBVIOUS
<1>1. list = <<>> /\ list \in Seq(Timers) /\ Len(list) = 0
  BY EmptySeq DEF Init
<1>2. TypeOK
  <2>1. IsRunning \in [Timers -> BOOLEAN] /\ pending \in BOOLEAN
    BY Zenon DEF Init
  <2>2. /\ Timestamp \in [Timers -> Nat] /\ ReloadValue \in [Timers -> Nat]
        /\ left \in [Timers -> Int] /\ elapsed \in Nat
        /\ busy \in 0..MaxBusy
    BY TimerAssumption DEF Init
  <2>3. alarm \in Nat \cup {NoAlarm} /\ cur \in Timers \cup {NoTimer}
    BY DEF Init
  <2> QED BY <1>1, <2>1, <2>2, <2>3 DEF TypeOK
<1>3. Linked = {}
  BY <1>1, <1>2, LinkedTimers
<1> QED BY <1>1, <1>2, <1>3 DEF AlarmInv, Init, ListIsAcyclic

(* The invariant in the form the steps use it.                              *)
LEMMA AlarmFacts ==
  ASSUME AlarmInv
  PROVE  /\ TypeOK
         /\ list \in Seq(Timers) /\ Distinct(list)
         /\ Timestamp \in [Timers -> Nat] /\ ReloadValue \in [Timers -> Nat]
         /\ IsRunning \in [Timers -> BOOLEAN] /\ left \in [Timers -> Int]
         /\ elapsed \in Nat /\ busy \in 0..MaxBusy
         /\ Linked \subseteq Timers /\ Linked = Range(list)
         /\ list # <<>> => Head(list) \in Linked /\ Head(list) \in Timers
         /\ list = <<>> => Linked = {}
  BY LinkedTimers DEF AlarmInv, TypeOK, ListIsAcyclic, Distinct, Linked

(* TimerInsertNewHeadTimer: the new head takes the alarm over.              *)
LEMMA NewHeadInv ==
  ASSUME AlarmInv, NEW t \in Timers, NEW now \in Nat,
         t \notin Linked, ReloadValue[t] > 0,
         list = <<>> \/ now = elapsed, elapsed' = now,
         InsertNewHeadTimer(t, ReloadValue[t] + now, now),
         left' = [left EXCEPT ![t] = ReloadValue[t]],
         UNCHANGED <<ReloadValue, cur, busy>>
  PROVE  AlarmInv'
<1> DEFINE stamps == [Timestamp EXCEPT ![t] = ReloadValue[t] + now]
<1>0. stamps \in [Timers -> Nat] /\ stamps[t] = ReloadValue[t] + now
      /\ \A u \in Timers : u # t => stamps[u] = Timestamp[u]
  BY AlarmFacts
<1>1. list' = Cons(t, list) /\ SetTimeout(t, stamps, now)
      /\ IsRunning' = [u \in Timers |->
                         u = t \/ (IsRunning[u] /\ (list # <<>> => u # Head(list)))]
  BY DEF InsertNewHeadTimer
<1> HIDE DEF stamps
<1>2. /\ list' \in Seq(Timers) /\ Distinct(list') /\ list' # <<>>
      /\ Linked' = Linked \cup {t} /\ Head(list') = t
  <2>1. /\ Cons(t, list) \in Seq(Timers) /\ Distinct(Cons(t, list))
        /\ Cons(t, list) # <<>> /\ Head(Cons(t, list)) = t
        /\ Range(Cons(t, list)) = Range(list) \cup {t}
    <3>1. list \in Seq(Timers) /\ Distinct(list) /\ t \notin Range(list)
      BY AlarmFacts DEF Linked
    <3> QED BY <3>1, ConsRange
  <2>2. Linked' = Range(list')
    BY DEF Linked
  <2> QED BY <1>1, <2>1, <2>2, AlarmFacts
<1>3. /\ Timestamp' \in [Timers -> Nat]
      /\ Timestamp'[t] >= stamps[t]
      /\ \A u \in Timers : u # t => Timestamp'[u] = Timestamp[u]
      /\ alarm' \in Nat /\ alarm' > now
      /\ alarm' \in (Timestamp'[t] - McuWakeUpTimeCal)..Timestamp'[t]
      /\ pending' = FALSE
  <2>1. /\ Timestamp' \in [Timers -> Nat]
        /\ Timestamp'[t] >= stamps[t]
        /\ \A u \in Timers : u # t => Timestamp'[u] = stamps[u]
        /\ alarm' \in Nat /\ alarm' > now
        /\ alarm' \in (Timestamp'[t] - McuWakeUpTimeCal)..Timestamp'[t]
        /\ pending' = FALSE
    BY <1>0, <1>1, SetTimeoutEffect
  <2> QED BY <2>1, <1>0
<1>4. TypeOK'
  <2>1. IsRunning' \in [Timers -> BOOLEAN] /\ pending' \in BOOLEAN
    BY <1>1, <1>3, Zenon
  <2>2. cur' \in Timers \cup {NoTimer}
    BY DEF AlarmInv, TypeOK
  <2>3. left' \in [Timers -> Int] /\ ReloadValue' \in [Timers -> Nat] /\ busy' \in 0..MaxBusy
    BY AlarmFacts
  <2> QED BY <1>2, <1>3, <2>1, <2>2, <2>3 DEF TypeOK
<1>5. ListIsAcyclic'
  BY <1>2 DEF ListIsAcyclic, Distinct
<1>6. \A u \in Timers : ReloadValue'[u] \in Delays \cup {0}
  BY DEF AlarmInv
<1>7. /\ IsRunning'[t] = TRUE
      /\ \A u \in Linked : IsRunning'[u] = FALSE
  <2>1. ASSUME NEW u \in Linked PROVE ~IsRunning'[u] /\ u \in Timers
    <3>1. u \in Timers /\ u # t
      BY AlarmFacts
    <3>2. list # <<>> /\ (IsRunning[u] => u = Head(list))
      BY AlarmFacts DEF AlarmInv
    <3> QED BY <3>1, <3>2, <1>1, Zenon
  <2> QED BY <2>1, <1>1, Zenon
<1>8. HeadOwnsAlarm'
  BY <1>2, <1>3 DEF HeadOwnsAlarm
<1>9. ASSUME NEW u \in Linked' PROVE left'[u] <= Timestamp'[u] - elapsed'
  <2>1. CASE u = t
    BY <2>1, <1>0, <1>3, AlarmFacts
  <2>2. CASE u # t
    <3>1. u \in Linked /\ u \in Timers /\ list # <<>>
      BY <1>2, <2>2, AlarmFacts
    <3>2. left[u] <= Timestamp[u] - elapsed /\ elapsed' = elapsed
      BY <3>1 DEF AlarmInv
    <3> QED BY <2>2, <3>1, <3>2, <1>3, AlarmFacts
  <2> QED BY <2>1, <2>2
<1>10. ASSUME NEW u \in Timers \ Linked' PROVE left'[u] = 0
  <2>1. u \in Timers \ Linked /\ u # t
    BY <1>2
  <2>2. left[u] = 0
    BY <2>1 DEF AlarmInv
  <2> QED BY <2>1, <2>2, AlarmFacts
<1> QED
  BY <1>2, <1>3, <1>4, <1>5, <1>6, <1>7, <1>8, <1>9, <1>10, Zenon DEF AlarmInv

(* TimerInsertTimer: a timer behind the head changes nothing for the head.  *)
LEMMA InsertInv ==
  ASSUME AlarmInv, NEW t \in Timers, t \notin Linked, ReloadValue[t] > 0,
         list # <<>>, InsertTimer(t, ReloadValue[t] + elapsed),
         left' = [left EXCEPT ![t] = ReloadValue[t]],
         UNCHANGED <<ReloadValue, cur, busy, elapsed>>
  PROVE  AlarmInv'
<1>1. PICK i \in 2..(Len(list) + 1) : list' = InsertAt(list, i, t)
  BY DEF InsertTimer
<1>2. /\ Timestamp' = [Timestamp EXCEPT ![t] = ReloadValue[t] + elapsed]
      /\ IsRunning' = [IsRunning EXCEPT ![t] = FALSE]
      /\ UNCHANGED <<alarm, pending>>
  BY DEF InsertTimer
<1>3. /\ list' \in Seq(Timers) /\ Distinct(list') /\ list' # <<>>
      /\ Linked' = Linked \cup {t} /\ Head(list') = Head(list)
  <2>1. i \in 1..(Len(list) + 1) /\ i # 1
    BY AlarmFacts, LenProperties
  <2>2. InsertAt(list, i, t) \in Seq(Timers)
    BY <2>1, AlarmFacts, InsertAtElements
  <2>3. /\ Range(InsertAt(list, i, t)) = Range(list) \cup {t}
        /\ Distinct(InsertAt(list, i, t)) /\ InsertAt(list, i, t) # <<>>
        /\ Head(InsertAt(list, i, t)) = Head(list)
    BY <2>1, AlarmFacts, InsertAtRange
  <2> QED BY <1>1, <2>2, <2>3, AlarmFacts DEF Linked
<1>4. TypeOK'
  <2>1. IsRunning' \in [Timers -> BOOLEAN]
    BY <1>2, AlarmFacts, Zenon
  <2>2. /\ cur' \in Timers \cup {NoTimer} /\ pending' \in BOOLEAN
        /\ alarm' \in Nat \cup {NoAlarm}
    BY <1>2 DEF AlarmInv, TypeOK
  <2>3. /\ left' \in [Timers -> Int] /\ ReloadValue' \in [Timers -> Nat]
        /\ Timestamp' \in [Timers -> Nat] /\ elapsed' \in Nat /\ busy' \in 0..MaxBusy
    BY <1>2, AlarmFacts
  <2> QED BY <1>3, <2>1, <2>2, <2>3 DEF TypeOK
<1>5. ListIsAcyclic'
  BY <1>3 DEF ListIsAcyclic, Distinct
<1>6. \A u \in Timers : ReloadValue'[u] \in Delays \cup {0}
  BY DEF AlarmInv
<1>7. Head(list) \in Linked /\ Head(list) \in Timers /\ Head(list) # t
  BY AlarmFacts
<1>8. ~IsRunning'[t] /\ \A u \in Linked : IsRunning'[u] = IsRunning[u]
  BY <1>2, AlarmFacts, Zenon
<1>9. HeadOwnsAlarm => HeadOwnsAlarm'
  <2>1. Timestamp'[Head(list')] = Timestamp[Head(list)]
    BY <1>2, <1>3, <1>7, AlarmFacts
  <2> QED BY <2>1, <1>2, <1>3 DEF HeadOwnsAlarm
<1>10. ASSUME NEW u \in Linked' PROVE left'[u] <= Timestamp'[u] - elapsed'
  <2>1. CASE u = t
    BY <2>1, <1>2, AlarmFacts
  <2>2. CASE u # t
    <3>1. u \in Linked /\ u \in Timers
      BY <1>3, <2>2, AlarmFacts
    <3>2. left[u] <= Timestamp[u] - elapsed
      BY <3>1 DEF AlarmInv
    <3> QED BY <2>2, <3>1, <3>2, <1>2, AlarmFacts
  <2> QED BY <2>1, <2>2
<1>11. ASSUME NEW u \in Timers \ Linked' PROVE left'[u] = 0
  <2>1. u \in Timers \ Linked /\ u # t
    BY <1>3
  <2>2. left[u] = 0
    BY <2>1 DEF AlarmInv
  <2> QED BY <2>1, <2>2, AlarmFacts
<1>12. \A u \in Linked' : IsRunning'[u] => u = Head(list')
  BY <1>3, <1>8, Zenon DEF AlarmInv
<1>13. ~InHandler' /\ list' # <<>> => IsRunning'[Head(list')]
  BY <1>3, <1>7, <1>8, Zenon DEF AlarmInv, InHandler
<1>14. list' # <<>> /\ IsRunning'[Head(list')] => HeadOwnsAlarm'
  BY <1>3, <1>7, <1>8, <1>9, Zenon DEF AlarmInv
<1>15. pending' => alarm' = NoAlarm
  BY <1>2 DEF AlarmInv
<1> QED
  BY <1>4, <1>5, <1>6, <1>10, <1>11, <1>12, <1>13, <1>14, <1>15, Zenon DEF AlarmInv

LEMMA StartInv ==
  ASSUME AlarmInv, NEW t \in Timers, TimerStart(t)
  PROVE  AlarmInv'
<1>1. /\ t \notin Linked /\ ReloadValue[t] > 0
      /\ left' = [left EXCEPT ![t] = ReloadValue[t]]
      /\ UNCHANGED <<ReloadValue, cur, busy>>
  BY DEF TimerStart, TimerExists
<1>2. CASE list = <<>>
  <2>1. elapsed' = 0 /\ InsertNewHeadTimer(t, ReloadValue[t], 0)
    BY <1>2 DEF TimerStart, TimerExists
  <2>2. ReloadValue[t] + 0 = ReloadValue[t]
    BY AlarmFacts
  <2> QED BY <2>1, <2>2, <1>1, <1>2, NewHeadInv
<1>3. CASE list # <<>>
  <2>1. /\ elapsed' = elapsed /\ elapsed \in Nat
        /\ \/ InsertNewHeadTimer(t, ReloadValue[t] + elapsed, elapsed)
           \/ InsertTimer(t, ReloadValue[t] + elapsed)
    BY <1>3, AlarmFacts DEF TimerStart, TimerExists
  <2> QED BY <2>1, <1>1, <1>3, NewHeadInv, InsertInv
<1> QED BY <1>2, <1>3

(* TimerStop, as TimerStop and TimerSetValue call it.                       *)
LEMMA StopInv ==
  ASSUME AlarmInv, NEW t \in Timers, StopIfLinked(t),
         ReloadValue' \in [Timers -> Delays \cup {0}]
  PROVE  AlarmInv'
<1>1. /\ left' = [left EXCEPT ![t] = 0]
      /\ UNCHANGED <<elapsed, cur, busy>>
  BY DEF StopIfLinked, TimerExists
<1>2. ReloadValue' \in [Timers -> Nat]
  <2>1. Delays \cup {0} \subseteq Nat
    BY DelaysAreNat
  <2> QED BY <2>1
<1>3. /\ left' \in [Timers -> Int] /\ elapsed' \in Nat /\ busy' \in 0..MaxBusy
      /\ cur' \in Timers \cup {NoTimer}
  BY <1>1, AlarmFacts DEF AlarmInv, TypeOK
<1>4. ASSUME NEW u \in Timers, u \notin Linked \ {t} PROVE left'[u] = 0
  <2>1. CASE u = t
    BY <2>1, <1>1, AlarmFacts
  <2>2. CASE u # t
    <3>1. left[u] = 0
      BY <2>2, <1>4 DEF AlarmInv
    <3> QED BY <2>2, <3>1, <1>1, AlarmFacts
  <2> QED BY <2>1, <2>2
<1>5. ASSUME NEW u \in Linked \ {t} PROVE left'[u] <= Timestamp[u] - elapsed'
  <2>1. u \in Timers /\ left[u] <= Timestamp[u] - elapsed
    BY AlarmFacts DEF AlarmInv
  <2> QED BY <2>1, <1>1, AlarmFacts
<1>6. /\ Unlink(t) \in [Timers -> Nat]
      /\ \A u \in Timers : u # t => Unlink(t)[u] = Timestamp[u]
  BY AlarmFacts DEF Unlink
<1>7. CASE t \notin Linked
  <2>1. UNCHANGED <<list, Timestamp, IsRunning, alarm, pending>>
    BY <1>7 DEF StopIfLinked, TimerExists
  <2>2. Linked' = Linked /\ Linked \ {t} = Linked
    BY <2>1, <1>7 DEF Linked
  <2>3. TypeOK'
    BY <2>1, <1>2, <1>3 DEF AlarmInv, TypeOK
  <2>4. ListIsAcyclic' /\ (HeadOwnsAlarm => HeadOwnsAlarm')
    BY <2>1, <1>1 DEF AlarmInv, ListIsAcyclic, HeadOwnsAlarm
  <2>5. /\ \A u \in Linked' : IsRunning'[u] => u = Head(list')
        /\ ~InHandler' /\ list' # <<>> => IsRunning'[Head(list')]
        /\ list' # <<>> /\ IsRunning'[Head(list')] => HeadOwnsAlarm'
        /\ pending' => alarm' = NoAlarm
    BY <2>1, <2>2, <2>4, <1>1, Zenon DEF AlarmInv, InHandler
  <2>6. /\ \A u \in Linked' : left'[u] <= Timestamp'[u] - elapsed'
        /\ \A u \in Timers \ Linked' : left'[u] = 0
        /\ \A u \in Timers : ReloadValue'[u] \in Delays \cup {0}
    BY <2>1, <2>2, <1>4, <1>5
  <2> QED BY <2>3, <2>4, <2>5, <2>6, Zenon DEF AlarmInv
<1>8. CASE t \in Linked /\ StopRunningHead(t)
  <2>1. t = Head(list) /\ IsRunning[t] /\ list' = Tail(list) /\ list # <<>>
    BY <1>8, AlarmFacts DEF StopRunningHead
  <2>2. /\ list' \in Seq(Timers) /\ Distinct(list')
        /\ Range(Tail(list)) = Range(list) \ {t}
        /\ list' # <<>> => Head(list') \in Range(list')
    BY <2>1, AlarmFacts, TailRange
  <2>3. Linked' = Linked \ {t}
    BY <2>1, <2>2, AlarmFacts DEF Linked
  <2>4. ListIsAcyclic'
    BY <2>2 DEF ListIsAcyclic, Distinct
  <2>5. \A u \in Linked \ {t} : ~IsRunning[u]
    BY <2>1, Zenon DEF AlarmInv
  <2>6. CASE Tail(list) = <<>>
    <3>1. /\ IsRunning' = [IsRunning EXCEPT ![t] = FALSE]
          /\ Timestamp' = Unlink(t) /\ alarm' = NoAlarm /\ pending' = FALSE
      BY <1>8, <2>6 DEF StopRunningHead, StopAlarm
    <3>2. Linked' = {} /\ list' = <<>>
      <4>1. Len(list') = 0
        BY <2>1, <2>2, <2>6, EmptySeq
      <4>2. \A x \in Range(list') : \E j \in 1..Len(list') : list'[j] = x
        BY <2>2, RangeByPosition
      <4>3. 1..Len(list') = {}
        BY <4>1
      <4>4. Range(list') = {}
        BY <4>2, <4>3, Zenon
      <4> QED BY <4>4, <2>1, <2>6 DEF Linked
    <3>3. TypeOK'
      <4>1. IsRunning' \in [Timers -> BOOLEAN] /\ pending' \in BOOLEAN
        BY <3>1, AlarmFacts, Zenon
      <4> QED BY <4>1, <3>1, <2>2, <1>2, <1>3, <1>6 DEF TypeOK
    <3>4. /\ \A u \in Timers \ Linked' : left'[u] = 0
          /\ \A u \in Timers : ReloadValue'[u] \in Delays \cup {0}
      BY <2>3, <1>4
    <3> QED BY <3>1, <3>2, <3>3, <3>4, <2>4, Zenon DEF AlarmInv
  <2>7. CASE Tail(list) # <<>>
    <3> DEFINE next == Head(Tail(list))
    <3>1. /\ IsRunning' = [IsRunning EXCEPT ![t] = FALSE, ![next] = TRUE]
          /\ SetTimeout(next, Unlink(t), elapsed)
      BY <1>8, <2>7 DEF StopRunningHead
    <3>2. next \in Linked \ {t} /\ next \in Timers /\ next = Head(list') /\ list' # <<>>
      BY <2>1, <2>2, <2>7, AlarmFacts
    <3> HIDE DEF next
    <3>3. /\ Timestamp' \in [Timers -> Nat]
          /\ Timestamp'[next] >= Unlink(t)[next]
          /\ \A u \in Timers : u # next => Timestamp'[u] = Unlink(t)[u]
          /\ alarm' \in Nat /\ alarm' > elapsed
          /\ alarm' \in (Timestamp'[next] - McuWakeUpTimeCal)..Timestamp'[next]
          /\ pending' = FALSE
      BY <3>1, <3>2, <1>6, AlarmFacts, SetTimeoutEffect
    <3>4. TypeOK'
      <4>1. IsRunning' \in [Timers -> BOOLEAN] /\ pending' \in BOOLEAN
        BY <3>1, <3>3, AlarmFacts, Zenon
      <4> QED BY <4>1, <3>3, <2>2, <1>2, <1>3 DEF TypeOK
    <3>5. /\ IsRunning'[next]
          /\ \A u \in Linked' : u # next => ~IsRunning'[u]
      BY <3>1, <3>2, <2>3, <2>5, AlarmFacts, Zenon
    <3>6. HeadOwnsAlarm'
      BY <3>2, <3>3, <1>1 DEF HeadOwnsAlarm
    <3>7. ASSUME NEW u \in Linked' PROVE left'[u] <= Timestamp'[u] - elapsed'
      <4>1. u \in Linked \ {t} /\ u \in Timers /\ u # t
        BY <2>3, AlarmFacts
      <4>2. left'[u] <= Timestamp[u] - elapsed' /\ Unlink(t)[u] = Timestamp[u]
        BY <4>1, <1>5, <1>6
      <4>3. Timestamp[u] \in Nat /\ Timestamp'[u] \in Nat
        BY <4>1, <3>3, AlarmFacts
      <4>4. Timestamp'[u] >= Unlink(t)[u]
        BY <4>1, <4>2, <4>3, <3>3
      <4>5. left'[u] \in Int /\ elapsed' \in Nat
        BY <4>1, <1>3
      <4> QED BY <4>2, <4>3, <4>4, <4>5
    <3>8. /\ \A u \in Timers \ Linked' : left'[u] = 0
          /\ \A u \in Timers : ReloadValue'[u] \in Delays \cup {0}
      BY <2>3, <1>4
    <3> QED BY <3>2, <3>3, <3>4, <3>5, <3>6, <3>7, <3>8, <2>4, Zenon DEF AlarmInv
  <2> QED BY <2>6, <2>7
<1>9. CASE t \in Linked /\ StopOther(t)
  <2>1. /\ ~(t = Head(list) /\ IsRunning[t]) /\ Timestamp' = Unlink(t)
        /\ UNCHANGED <<IsRunning, alarm, pending>>
    BY <1>9 DEF StopOther
  <2>2. PICK i \in 1..Len(list) : list[i] = t /\ list' = RemoveAt(list, i)
    BY <1>9 DEF StopOther
  <2>3. list # <<>> /\ list[1] = Head(list) /\ 1 \in 1..Len(list)
    BY <1>9, AlarmFacts, LenProperties, EmptySeq
  <2>4. /\ list' \in Seq(Timers) /\ Distinct(list') /\ Range(list') = Range(list) \ {t}
        /\ i # 1 => list' # <<>> /\ Head(list') = Head(list)
        /\ list' # <<>> => Head(list') \in Range(list')
    <3>1. RemoveAt(list, i) \in Seq(Timers)
      BY AlarmFacts, RemoveAtElements
    <3>2. /\ Range(RemoveAt(list, i)) = Range(list) \ {list[i]}
          /\ Distinct(RemoveAt(list, i))
          /\ i # 1 => RemoveAt(list, i) # <<>> /\ Head(RemoveAt(list, i)) = Head(list)
      BY AlarmFacts, RemoveAtRange
    <3>3. list' # <<>> => Head(list') \in Range(list')
      BY <2>2, <3>1, <3>2, TailRange
    <3> QED BY <2>2, <3>1, <3>2, <3>3
  <2>5. Linked' = Linked \ {t}
    BY <2>4, AlarmFacts DEF Linked
  <2>6. TypeOK' /\ ListIsAcyclic'
    <3>1. IsRunning' \in [Timers -> BOOLEAN] /\ pending' \in BOOLEAN
          /\ alarm' \in Nat \cup {NoAlarm}
      BY <2>1 DEF AlarmInv, TypeOK
    <3> QED BY <3>1, <2>1, <2>4, <1>2, <1>3, <1>6 DEF TypeOK, ListIsAcyclic, Distinct
  <2>7. CASE t = Head(list)
    <3>1. ~IsRunning[t] /\ \A u \in Linked : ~IsRunning[u]
      BY <2>1, <2>7, Zenon DEF AlarmInv
    <3>2. InHandler
      BY <2>3, <2>7, <3>1, Zenon DEF AlarmInv
    <3>3. InHandler' /\ (\A u \in Linked' : ~IsRunning'[u]) /\ (pending' => alarm' = NoAlarm)
      BY <3>1, <3>2, <2>1, <2>5, <1>1 DEF InHandler, AlarmInv
    <3>4. list' # <<>> => ~IsRunning'[Head(list')]
      BY <2>4, <3>3, Zenon DEF Linked
    <3>5. /\ \A u \in Linked' : left'[u] <= Timestamp'[u] - elapsed'
          /\ \A u \in Timers \ Linked' : left'[u] = 0
          /\ \A u \in Timers : ReloadValue'[u] \in Delays \cup {0}
      BY <2>1, <2>5, <1>4, <1>5, <1>6, AlarmFacts
    <3> QED BY <3>3, <3>4, <3>5, <2>6, Zenon DEF AlarmInv
  <2>8. CASE t # Head(list)
    <3>1. list' # <<>> /\ Head(list') = Head(list) /\ Head(list) \in Timers
      BY <2>2, <2>3, <2>4, <2>8, AlarmFacts
    <3>2. Timestamp'[Head(list')] = Timestamp[Head(list)]
      BY <2>1, <2>8, <3>1, <1>6
    <3>3. HeadOwnsAlarm => HeadOwnsAlarm'
      BY <3>1, <3>2, <2>1, <1>1 DEF HeadOwnsAlarm
    <3>4. /\ \A u \in Linked' : IsRunning'[u] => u = Head(list')
          /\ ~InHandler' /\ list' # <<>> => IsRunning'[Head(list')]
          /\ list' # <<>> /\ IsRunning'[Head(list')] => HeadOwnsAlarm'
          /\ pending' => alarm' = NoAlarm
      BY <3>1, <3>3, <2>1, <2>3, <2>5, <1>1, Zenon DEF AlarmInv, InHandler
    <3>5. /\ \A u \in Linked' : left'[u] <= Timestamp'[u] - elapsed'
          /\ \A u \in Timers \ Linked' : left'[u] = 0
          /\ \A u \in Timers : ReloadValue'[u] \in Delays \cup {0}
      BY <2>1, <2>5, <1>4, <1>5, <1>6, AlarmFacts
    <3> QED BY <3>4, <3>5, <2>6, Zenon DEF AlarmInv
  <2> QED BY <2>7, <2>8
<1> QED BY <1>7, <1>8, <1>9 DEF StopIfLinked, TimerExists

(* TimerInit touches no field of a linked timer.                            *)
LEMMA InitTimerInv ==
  ASSUME AlarmInv, NEW t \in Timers, TimerInit(t)
  PROVE  AlarmInv'
<1>1. /\ t \notin Linked /\ ReloadValue' = [ReloadValue EXCEPT ![t] = 0]
      /\ IsRunning' = [IsRunning EXCEPT ![t] = FALSE]
      /\ UNCHANGED <<list, Timestamp, elapsed, alarm, pending, cur, left, busy>>
  BY DEF TimerInit, rtcVars
<1>2. Linked' = Linked
  BY <1>1 DEF Linked
<1>3. TypeOK'
  <2>1. IsRunning' \in [Timers -> BOOLEAN]
    BY <1>1, AlarmFacts, Zenon
  <2>2. ReloadValue' \in [Timers -> Nat]
    BY <1>1, AlarmFacts
  <2> QED BY <2>1, <2>2, <1>1 DEF AlarmInv, TypeOK
<1>4. \A u \in Linked : IsRunning'[u] = IsRunning[u]
  BY <1>1, AlarmFacts, Zenon
<1>5. \A u \in Timers : ReloadValue'[u] \in Delays \cup {0}
  BY <1>1, AlarmFacts DEF AlarmInv
<1>6. ListIsAcyclic' /\ (HeadOwnsAlarm => HeadOwnsAlarm')
  BY <1>1 DEF AlarmInv, ListIsAcyclic, HeadOwnsAlarm
<1>7. /\ \A u \in Linked' : IsRunning'[u] => u = Head(list')
      /\ ~InHandler' /\ list' # <<>> => IsRunning'[Head(list')]
      /\ list' # <<>> /\ IsRunning'[Head(list')] => HeadOwnsAlarm'
  BY <1>1, <1>2, <1>4, <1>6, AlarmFacts, Zenon DEF AlarmInv, InHandler
<1>8. /\ pending' => alarm' = NoAlarm
      /\ \A u \in Linked' : left'[u] <= Timestamp'[u] - elapsed'
      /\ \A u \in Timers \ Linked' : left'[u] = 0
  BY <1>1, <1>2 DEF AlarmInv
<1> QED BY <1>3, <1>5, <1>6, <1>7, <1>8, Zenon DEF AlarmInv

(* Taking the head off to run its callback: no timer left in the list owns  *)
(* the alarm, and the handler has not returned.                             *)
LEMMA PopInv ==
  ASSUME AlarmInv, list # <<>>, PopHead, UNCHANGED <<ReloadValue, IsRunning, alarm, busy>>,
         Timestamp' \in [Timers -> Nat], elapsed' \in Nat, pending' \in BOOLEAN,
         pending' => pending,
         \A u \in Range(Tail(list)) : Timestamp'[u] - elapsed' >= Timestamp[u] - elapsed
  PROVE  AlarmInv'
<1>1. /\ list' = Tail(list) /\ cur' = Head(list)
      /\ left' = [left EXCEPT ![Head(list)] = 0]
  BY DEF PopHead
<1>2. /\ Head(list) \in Timers /\ list' \in Seq(Timers) /\ Distinct(list')
      /\ Range(list') = Linked \ {Head(list)}
      /\ list' # <<>> => Head(list') \in Range(list')
  <2>1. /\ Head(list) \in Timers /\ Tail(list) \in Seq(Timers) /\ Distinct(Tail(list))
        /\ Range(Tail(list)) = Range(list) \ {Head(list)}
        /\ Tail(list) # <<>> => Head(Tail(list)) \in Range(Tail(list))
    BY AlarmFacts, TailRange
  <2> QED BY <2>1, <1>1, AlarmFacts
<1>3. Linked' = Linked \ {Head(list)}
  BY <1>2 DEF Linked
<1>4. TypeOK'
  <2>1. left' \in [Timers -> Int]
    BY <1>1, <1>2, AlarmFacts
  <2>2. /\ ReloadValue' \in [Timers -> Nat] /\ IsRunning' \in [Timers -> BOOLEAN]
        /\ alarm' \in Nat \cup {NoAlarm} /\ busy' \in 0..MaxBusy
    BY DEF AlarmInv, TypeOK
  <2> QED BY <2>1, <2>2, <1>1, <1>2 DEF TypeOK
<1>5. ListIsAcyclic'
  BY <1>2 DEF ListIsAcyclic, Distinct
<1>6. InHandler'
  BY <1>1, <1>2, TimerAssumption DEF InHandler
<1>7. \A u \in Linked' : ~IsRunning'[u]
  BY <1>3, Zenon DEF AlarmInv
<1>8. list' # <<>> => ~IsRunning'[Head(list')]
  BY <1>2, <1>7, Zenon DEF Linked
<1>9. pending' => alarm' = NoAlarm
  BY DEF AlarmInv
<1>10. ASSUME NEW u \in Linked' PROVE left'[u] <= Timestamp'[u] - elapsed'
  <2>1. u \in Linked /\ u \in Timers /\ u # Head(list) /\ u \in Range(Tail(list))
    BY <1>1, <1>2, <1>3, AlarmFacts
  <2>2. left[u] <= Timestamp[u] - elapsed
    BY <2>1 DEF AlarmInv
  <2>3. left'[u] = left[u] /\ left[u] \in Int /\ Timestamp[u] \in Nat /\ elapsed \in Nat
    BY <2>1, <1>1, AlarmFacts
  <2>4. Timestamp'[u] \in Nat /\ Timestamp'[u] - elapsed' >= Timestamp[u] - elapsed
    BY <2>1
  <2> QED BY <2>2, <2>3, <2>4
<1>11. ASSUME NEW u \in Timers \ Linked' PROVE left'[u] = 0
  <2>1. u = Head(list) \/ u \notin Linked
    BY <1>3
  <2>2. u \notin Linked => left[u] = 0
    BY DEF AlarmInv
  <2> QED BY <2>1, <2>2, <1>1, AlarmFacts
<1>12. \A u \in Timers : ReloadValue'[u] \in Delays \cup {0}
  BY DEF AlarmInv
<1> QED
  BY <1>4, <1>5, <1>6, <1>7, <1>8, <1>9, <1>10, <1>11, <1>12, Zenon DEF AlarmInv

LEMMA IrqEnterInv ==
  ASSUME AlarmInv, IrqEnter
  PROVE  AlarmInv'
<1>1. /\ pending' = FALSE /\ elapsed' = 0
      /\ UNCHANGED <<ReloadValue, IsRunning, alarm>>
  BY DEF IrqEnter
<1>2. CASE list = <<>>
  <2>1. UNCHANGED <<list, Timestamp, left, cur>> /\ busy' = 0
    BY <1>2 DEF IrqEnter
  <2>2. Linked' = Linked /\ Linked = {}
    BY <2>1, <1>2, AlarmFacts DEF Linked
  <2>3. TypeOK' /\ ListIsAcyclic'
    <3>1. pending' \in BOOLEAN /\ elapsed' \in Nat
      BY <1>1
    <3>2. busy' \in 0..MaxBusy
      BY <2>1, TimerAssumption
    <3> QED BY <3>1, <3>2, <1>1, <2>1 DEF AlarmInv, TypeOK, ListIsAcyclic
  <2>4. /\ \A u \in Timers \ Linked' : left'[u] = 0
        /\ \A u \in Timers : ReloadValue'[u] \in Delays \cup {0}
    BY <1>1, <2>1, <2>2 DEF AlarmInv
  <2> QED BY <1>1, <1>2, <2>1, <2>2, <2>3, <2>4, Zenon DEF AlarmInv
<1>3. CASE list # <<>>
  <2>1. /\ Timestamp' = [t \in Timers |->
                           IF t \in Range(Tail(list)) /\ Timestamp[t] > elapsed
                           THEN Timestamp[t] - elapsed ELSE 0]
        /\ PopHead /\ busy' = busy
    BY <1>3 DEF IrqEnter, Rebased
  <2>2. Timestamp' \in [Timers -> Nat]
    BY <2>1, AlarmFacts
  <2>3. Range(Tail(list)) \subseteq Timers
    BY <1>3, AlarmFacts, TailRange
  <2>4. \A u \in Range(Tail(list)) : Timestamp'[u] - elapsed' >= Timestamp[u] - elapsed
    BY <1>1, <2>1, <2>3, AlarmFacts
  <2> QED BY <1>1, <1>3, <2>1, <2>2, <2>4, PopInv
<1> QED BY <1>2, <1>3

LEMMA IrqNextExpiredInv ==
  ASSUME AlarmInv, IrqNextExpired
  PROVE  AlarmInv'
<1>1. /\ list # <<>> /\ PopHead /\ Timestamp' = Unlink(Head(list))
      /\ UNCHANGED <<ReloadValue, IsRunning, elapsed, alarm, pending, busy>>
  BY DEF IrqNextExpired, HeadExpired, rtcVars
<1>2. Timestamp' \in [Timers -> Nat]
  BY <1>1, AlarmFacts DEF Unlink
<1>3. \A u \in Range(Tail(list)) : u \in Timers /\ u # Head(list)
  BY <1>1, AlarmFacts, TailRange
<1>4. \A u \in Range(Tail(list)) : Timestamp'[u] - elapsed' >= Timestamp[u] - elapsed
  BY <1>1, <1>3, AlarmFacts DEF Unlink
<1>5. elapsed' \in Nat /\ pending' \in BOOLEAN /\ (pending' => pending)
  BY <1>1 DEF AlarmInv, TypeOK
<1> QED BY <1>1, <1>2, <1>4, <1>5, PopInv

LEMMA IrqExitInv ==
  ASSUME AlarmInv, IrqExit
  PROVE  AlarmInv'
<1>1. /\ cur' = NoTimer /\ busy' = 0
      /\ UNCHANGED <<list, ReloadValue, elapsed, left>>
  BY DEF IrqExit
<1>2. /\ cur' \in Timers \cup {NoTimer} /\ busy' \in 0..MaxBusy /\ list' \in Seq(Timers)
      /\ ReloadValue' \in [Timers -> Nat] /\ elapsed' \in Nat /\ left' \in [Timers -> Int]
  BY <1>1, TimerAssumption, AlarmFacts
<1>3. ListIsAcyclic' /\ Linked' = Linked
  BY <1>1 DEF AlarmInv, ListIsAcyclic, Linked
<1>4. /\ \A u \in Timers \ Linked' : left'[u] = 0
      /\ \A u \in Timers : ReloadValue'[u] \in Delays \cup {0}
  BY <1>1, <1>3 DEF AlarmInv
<1>5. CASE list # <<>> /\ ~IsRunning[Head(list)]
  <2> DEFINE h == Head(list)
  <2>1. /\ h \in Timers /\ IsRunning' = [IsRunning EXCEPT ![h] = TRUE]
        /\ SetTimeout(h, Timestamp, elapsed)
    BY <1>5, AlarmFacts DEF IrqExit
  <2>2. h = Head(list')
    BY <1>1
  <2> HIDE DEF h
  <2>3. /\ Timestamp' \in [Timers -> Nat]
        /\ Timestamp'[h] >= Timestamp[h]
        /\ \A u \in Timers : u # h => Timestamp'[u] = Timestamp[u]
        /\ alarm' \in Nat /\ alarm' > elapsed
        /\ alarm' \in (Timestamp'[h] - McuWakeUpTimeCal)..Timestamp'[h]
        /\ pending' = FALSE
    BY <2>1, AlarmFacts, SetTimeoutEffect
  <2>4. TypeOK'
    <3>1. IsRunning' \in [Timers -> BOOLEAN] /\ pending' \in BOOLEAN
      BY <2>1, <2>3, AlarmFacts, Zenon
    <3> QED BY <3>1, <2>3, <1>2 DEF TypeOK
  <2>5. \A u \in Linked : u \in Timers /\ (u # h => ~IsRunning[u])
    BY AlarmFacts, Zenon DEF AlarmInv, h
  <2>6. IsRunning'[h] /\ \A u \in Linked' : IsRunning'[u] => u = h
    BY <2>1, <2>5, <1>3, AlarmFacts, Zenon
  <2>7. HeadOwnsAlarm'
    BY <2>2, <2>3, <1>1 DEF HeadOwnsAlarm
  <2>8. ASSUME NEW u \in Linked' PROVE left'[u] <= Timestamp'[u] - elapsed'
    <3>1. u \in Timers /\ left[u] <= Timestamp[u] - elapsed
      BY <1>3, AlarmFacts DEF AlarmInv
    <3>2. u = h \/ Timestamp'[u] = Timestamp[u]
      BY <3>1, <2>3
    <3>3. /\ left[u] \in Int /\ Timestamp[u] \in Nat /\ Timestamp'[u] \in Nat
          /\ elapsed \in Nat
      BY <3>1, <2>3, AlarmFacts
    <3>4. Timestamp'[u] >= Timestamp[u]
      BY <3>2, <3>3, <2>3
    <3> QED BY <3>1, <3>3, <3>4, <1>1
  <2> QED BY <2>2, <2>3, <2>4, <2>6, <2>7, <2>8, <1>3, <1>4, Zenon DEF AlarmInv
<1>6. CASE ~(list # <<>> /\ ~IsRunning[Head(list)])
  <2>1. UNCHANGED <<IsRunning, Timestamp, alarm, pending>>
    BY <1>6 DEF IrqExit
  <2>2. TypeOK'
    BY <2>1, <1>2 DEF AlarmInv, TypeOK
  <2>3. HeadOwnsAlarm => HeadOwnsAlarm'
    BY <2>1, <1>1 DEF HeadOwnsAlarm
  <2>4. /\ \A u \in Linked' : IsRunning'[u] => u = Head(list')
        /\ ~InHandler' /\ list' # <<>> => IsRunning'[Head(list')]
        /\ list' # <<>> /\ IsRunning'[Head(list')] => HeadOwnsAlarm'
        /\ pending' => alarm' = NoAlarm
    BY <1>1, <1>3, <1>6, <2>1, <2>3, Zenon DEF AlarmInv
  <2>5. \A u \in Linked' : left'[u] <= Timestamp'[u] - elapsed'
    BY <1>1, <1>3, <2>1 DEF AlarmInv
  <2> QED BY <2>2, <2>4, <2>5, <1>3, <1>4, Zenon DEF AlarmInv
<1> QED BY <1>5, <1>6

LEMMA TickInv ==
  ASSUME AlarmInv, Tick
  PROVE  AlarmInv'
<1>1. /\ busy' = (IF pending \/ InHandler THEN busy + 1 ELSE 0)
      /\ pending \/ InHandler => busy < MaxBusy
      /\ elapsed' = elapsed + 1
      /\ left' = [t \in Timers |-> IF t \in Linked THEN left[t] - 1 ELSE left[t]]
      /\ UNCHANGED <<list, Timestamp, ReloadValue, IsRunning, cur>>
  BY DEF Tick, listVars
<1>2. \/ alarm = elapsed + 1 /\ alarm' = NoAlarm /\ pending' = TRUE
      \/ alarm # elapsed + 1 /\ alarm' = alarm /\ pending' = pending
  BY DEF Tick
<1>3. /\ busy' \in 0..MaxBusy /\ elapsed' \in Nat /\ left' \in [Timers -> Int]
  <2>1. /\ elapsed \in Nat /\ busy \in 0..MaxBusy /\ MaxBusy \in Nat
        /\ left \in [Timers -> Int]
    BY TimerAssumption DEF AlarmInv, TypeOK
  <2>2. left' \in [Timers -> Int]
    BY <1>1, <2>1
  <2> QED BY <1>1, <2>1, <2>2
<1>4. pending' \in BOOLEAN /\ alarm' \in Nat \cup {NoAlarm}
  <2>1. pending \in BOOLEAN /\ alarm \in Nat \cup {NoAlarm}
    BY DEF AlarmInv, TypeOK
  <2> QED BY <2>1, <1>2, Zenon
<1>5. TypeOK' /\ ListIsAcyclic' /\ Linked' = Linked
  BY <1>1, <1>3, <1>4 DEF AlarmInv, TypeOK, ListIsAcyclic, Linked
<1>6. ASSUME list # <<>>, HeadOwnsAlarm PROVE HeadOwnsAlarm'
  <2> DEFINE h == Head(list)
             due == Timestamp[h] - McuWakeUpTimeCal
  <2>1. Timestamp[h] \in Nat /\ due \in Int /\ elapsed \in Nat
    BY <1>6, AlarmFacts, TimerAssumption
  <2>2. Timestamp'[Head(list')] = Timestamp[h]
    BY <1>1
  <2> HIDE DEF h
  <2>3. CASE pending
    <3>1. elapsed >= due
      BY <1>6, <2>3 DEF HeadOwnsAlarm, h
    <3>2. alarm = NoAlarm
      BY <2>3 DEF AlarmInv
    <3>3. alarm # elapsed + 1
      BY <3>2, <2>1, TimerAssumption
    <3>4. pending'
      BY <3>3, <2>3, <1>2, Zenon
    <3>5. elapsed' >= due
      BY <3>1, <2>1, <1>1
    <3> QED BY <3>4, <3>5, <2>2 DEF HeadOwnsAlarm
  <2>4. CASE ~pending
    <3>1. alarm \in Nat /\ alarm > elapsed /\ alarm \in due..Timestamp[h]
      BY <1>6, <2>4 DEF HeadOwnsAlarm, h
    <3>2. CASE alarm = elapsed + 1
      <4>1. pending' /\ elapsed' >= due
        BY <3>1, <3>2, <1>1, <1>2, <2>1
      <4> QED BY <4>1, <2>2 DEF HeadOwnsAlarm
    <3>3. CASE alarm # elapsed + 1
      <4>1. ~pending' /\ alarm' = alarm /\ alarm > elapsed'
        BY <3>1, <3>3, <1>1, <1>2, <2>1, <2>4
      <4> QED BY <4>1, <3>1, <2>2 DEF HeadOwnsAlarm
    <3> QED BY <3>2, <3>3
  <2> QED BY <2>3, <2>4
<1>7. /\ \A u \in Linked' : IsRunning'[u] => u = Head(list')
      /\ ~InHandler' /\ list' # <<>> => IsRunning'[Head(list')]
      /\ list' # <<>> /\ IsRunning'[Head(list')] => HeadOwnsAlarm'
  BY <1>1, <1>5, <1>6, Zenon DEF AlarmInv, InHandler
<1>8. pending' => alarm' = NoAlarm
  BY <1>2 DEF AlarmInv
<1>9. ASSUME NEW u \in Linked' PROVE left'[u] <= Timestamp'[u] - elapsed'
  <2>1. u \in Linked /\ u \in Timers /\ left[u] <= Timestamp[u] - elapsed
    BY <1>5, AlarmFacts DEF AlarmInv
  <2>2. left[u] \in Int /\ Timestamp[u] \in Nat /\ elapsed \in Nat
    BY <2>1, AlarmFacts
  <2>3. left'[u] = left[u] - 1 /\ Timestamp'[u] = Timestamp[u]
    BY <2>1, <1>1
  <2> QED BY <2>1, <2>2, <2>3, <1>1
<1>10. ASSUME NEW u \in Timers \ Linked' PROVE left'[u] = 0
  BY <1>1, <1>5 DEF AlarmInv
<1>11. \A u \in Timers : ReloadValue'[u] \in Delays \cup {0}
  BY <1>1 DEF AlarmInv
<1> QED BY <1>5, <1>7, <1>8, <1>9, <1>10, <1>11, Zenon DEF AlarmInv

(* Every step of the timer server keeps the invariant.                      *)
LEMMA StepAlarm == AlarmInv /\ [Next]_vars => AlarmInv'
<1> SUFFICES ASSUME AlarmInv, [Next]_vars PROVE AlarmInv'
  OBVIOUS
<1>1. ASSUME NEW t \in Timers, Call(t) PROVE AlarmInv'
  <2>1. CASE TimerStart(t)
    BY <2>1, StartInv
  <2>2. CASE TimerStop(t)
    <3>1. StopIfLinked(t) /\ ReloadValue' = ReloadValue
      BY <2>2 DEF TimerStop
    <3>2. ReloadValue' \in [Timers -> Delays \cup {0}]
      BY <3>1, AlarmFacts DEF AlarmInv
    <3> QED BY <3>1, <3>2, StopInv
  <2>3. CASE TimerInit(t)
    BY <2>3, InitTimerInv
  <2>4. ASSUME NEW ticks \in Timeouts, TimerSetValue(t, ticks) PROVE AlarmInv'
    <3>1. /\ StopIfLinked(t)
          /\ ReloadValue' = [ReloadValue EXCEPT ![t] = IF ticks < MinTimeout
                                                       THEN MinTimeout ELSE ticks]
      BY <2>4 DEF TimerSetValue
    <3> DEFINE delay == IF ticks < MinTimeout THEN MinTimeout ELSE ticks
    <3>2. delay \in Delays
      BY DEF Delays
    <3>3. ReloadValue \in [Timers -> Delays \cup {0}]
      BY AlarmFacts DEF AlarmInv
    <3>4. ReloadValue' = [ReloadValue EXCEPT ![t] = delay]
      BY <3>1
    <3> HIDE DEF delay
    <3>5. ReloadValue' \in [Timers -> Delays \cup {0}]
      BY <3>2, <3>3, <3>4
    <3> QED BY <3>1, <3>5, StopInv
  <2> QED BY <1>1, <2>1, <2>2, <2>3, <2>4 DEF Call
<1>2. CASE UNCHANGED vars
  <2>1. UNCHANGED <<list, Timestamp, ReloadValue, IsRunning, elapsed, alarm, pending,
                    cur, left, busy>>
    BY <1>2 DEF vars, listVars, rtcVars
  <2> QED BY <2>1 DEF AlarmInv, TypeOK, ListIsAcyclic, Linked, InHandler, HeadOwnsAlarm
<1> QED
  BY <1>1, <1>2, IrqEnterInv, IrqNextExpiredInv, IrqExitInv, TickInv DEF Next

-------------------------------------------------------------------------------
(* Lateness                                                                 *)

(* No list of distinct timers is longer than the timers are many.           *)
LEMMA LengthBound ==
  ASSUME NEW s \in Seq(Timers), Distinct(s)
  PROVE  Cardinality(Timers) \in Nat /\ Len(s) \in Nat /\ Len(s) <= Cardinality(Timers)
<1>1. Len(s) \in Nat /\ s \in [1..Len(s) -> Timers]
  BY LenProperties
<1>2. s \in Injection(1..Len(s), Timers)
  BY <1>1 DEF Distinct, Injection, IsInjective
<1>3. IsFiniteSet(Timers)
  BY TimerAssumption
<1>4. Cardinality(1..Len(s)) <= Cardinality(Timers) /\ Cardinality(Timers) \in Nat
  BY <1>2, <1>3, FS_Injection, FS_CardinalityType
<1>5. Cardinality(1..Len(s)) = Len(s)
  BY <1>1, FS_Interval
<1> QED BY <1>1, <1>4, <1>5

(* A bound of so many rounds.                                               *)
Rounds(n) == Round * n

LEMMA RoundsAdd ==
  ASSUME NEW n \in Int
  PROVE  /\ Round \in Nat /\ Rounds(n) \in Int
         /\ Rounds(n + 1) = Rounds(n) + Round
         /\ n >= 0 => Rounds(n) >= 0
<1>1. Round \in Nat
  BY TimerAssumption DEF Round
<1>2. \A k \in Nat : k * n \in Int /\ k * (n + 1) = k * n + k /\ (n >= 0 => k * n >= 0)
  OBVIOUS
<1> QED BY <1>1, <1>2 DEF Rounds

(* Position i of the list: how long its timer was due for.                  *)
LEMMA Positions ==
  ASSUME AlarmInv
  PROVE  /\ Len(list) \in Nat /\ Cardinality(Timers) \in Nat
         /\ Len(list) <= Cardinality(Timers)
         /\ \A i \in 1..Len(list) :
              /\ list[i] \in Timers /\ list[i] \in Linked
              /\ Timestamp[list[i]] \in Nat /\ left[list[i]] \in Int
              /\ left[list[i]] <= Timestamp[list[i]] - elapsed
         /\ list # <<>> <=> Len(list) > 0
         /\ list # <<>> => Head(list) = list[1]
<1>1. list \in Seq(Timers) /\ Distinct(list) /\ Linked = Range(list)
  BY AlarmFacts
<1>2. /\ Len(list) \in Nat
      /\ \A i \in 1..Len(list) : list[i] \in Range(list) /\ list[i] \in Timers
  BY <1>1, RangeByPosition
<1>3. \A i \in 1..Len(list) : left[list[i]] <= Timestamp[list[i]] - elapsed
  BY <1>1, <1>2 DEF AlarmInv
<1>4. \A i \in 1..Len(list) : Timestamp[list[i]] \in Nat /\ left[list[i]] \in Int
  BY <1>2, AlarmFacts
<1>5. (list # <<>> <=> Len(list) > 0) /\ (list # <<>> => Head(list) = list[1])
  BY <1>1, <1>2, EmptySeq
<1>6. Cardinality(Timers) \in Nat /\ Len(list) <= Cardinality(Timers)
  BY <1>1, LengthBound
<1> QED BY <1>1, <1>2, <1>3, <1>4, <1>5, <1>6

LEMMA NextPositions ==
  ASSUME AlarmInv'
  PROVE  /\ Len(list') \in Nat
         /\ Len(list') <= Cardinality(Timers)
         /\ \A i \in 1..Len(list') :
              /\ list'[i] \in Timers
              /\ Timestamp'[list'[i]] \in Nat /\ left'[list'[i]] \in Int
              /\ left'[list'[i]] <= Timestamp'[list'[i]] - elapsed'
         /\ list' # <<>> <=> Len(list') > 0
         /\ list' # <<>> => Head(list') = list'[1]
<1>1. list' \in Seq(Timers) /\ Distinct(list') /\ Linked' = Range(list')
  BY DEF AlarmInv, TypeOK, ListIsAcyclic, Linked, Distinct
<1>2. /\ Len(list') \in Nat
      /\ \A i \in 1..Len(list') : list'[i] \in Range(list') /\ list'[i] \in Timers
  BY <1>1, RangeByPosition
<1>3. \A i \in 1..Len(list') : left'[list'[i]] <= Timestamp'[list'[i]] - elapsed'
  BY <1>1, <1>2 DEF AlarmInv
<1>4. \A i \in 1..Len(list') : Timestamp'[list'[i]] \in Nat /\ left'[list'[i]] \in Int
  BY <1>2 DEF AlarmInv, TypeOK
<1>5. (list' # <<>> <=> Len(list') > 0) /\ (list' # <<>> => Head(list') = list'[1])
  BY <1>1, <1>2, EmptySeq
<1>6. Len(list') <= Cardinality(Timers)
  BY <1>1, LengthBound
<1> QED BY <1>1, <1>2, <1>3, <1>4, <1>5, <1>6

(* Ticks of the round are a number, and at most a round.                    *)
LEMMA SpentBound ==
  ASSUME AlarmInv, list # <<>>
  PROVE  /\ Spent \in Int /\ Spent <= Round
         /\ pending \/ InHandler => Spent = MinTimeout + busy
         /\ ~(pending \/ InHandler) =>
              Spent = MinTimeout - (Timestamp[list[1]] - elapsed)
<1>1. /\ busy \in 0..MaxBusy /\ elapsed \in Nat /\ MinTimeout \in Nat /\ MaxBusy \in Nat
  BY AlarmFacts, TimerAssumption
<1>2. Head(list) = list[1] /\ Timestamp[list[1]] \in Nat
  BY Positions
<1>3. CASE pending \/ InHandler
  BY <1>1, <1>3 DEF Spent, Round
<1>4. CASE ~(pending \/ InHandler)
  <2>1. Spent = MinTimeout - (Timestamp[list[1]] - elapsed)
    BY <1>2, <1>4 DEF Spent
  <2>2. IsRunning[Head(list)]
    BY <1>4, Zenon DEF AlarmInv
  <2>3. HeadOwnsAlarm
    BY <2>2, Zenon DEF AlarmInv
  <2>4. alarm \in Nat /\ alarm > elapsed /\ alarm <= Timestamp[list[1]]
    BY <1>1, <1>2, <1>4, <2>3, TimerAssumption DEF HeadOwnsAlarm
  <2>5. Spent \in Int /\ Spent <= Round
    BY <1>1, <1>2, <2>1, <2>4 DEF Round
  <2> QED BY <1>4, <2>1, <2>5
<1> QED BY <1>3, <1>4

(* A timer is taken out of the list at position p, and the others stay as   *)
(* they are: StopOther and the loop of the handler.                         *)
LEMMA RemovalLate ==
  ASSUME AlarmInv, LateInv, AlarmInv', NEW p \in 1..Len(list),
         Len(list') = Len(list) - 1,
         \A j \in 1..Len(list') : list'[j] = list[IF j < p THEN j ELSE j + 1],
         \A j \in 1..Len(list') : /\ Timestamp'[list'[j]] = Timestamp[list'[j]]
                                  /\ left'[list'[j]] = left[list'[j]],
         p = 1 => InHandler,
         p # 1 /\ list' # <<>> => IsRunning'[list[1]] = IsRunning[list[1]],
         InHandler' = InHandler, UNCHANGED <<elapsed, pending, busy>>
  PROVE  LateInv'
<1> DEFINE n == Cardinality(Timers)
           len == Len(list)
           s(j) == IF j < p THEN j ELSE j + 1
           T(j) == Timestamp[list[j]]
           L(j) == left[list[j]]
<1>1. /\ len \in Nat /\ n \in Nat /\ len <= n /\ elapsed \in Nat /\ MinTimeout \in Nat
      /\ busy \in Nat
  BY Positions, AlarmFacts, TimerAssumption
<1>2. \A j \in 1..len : T(j) \in Nat /\ L(j) \in Int
  BY Positions
<1>3. \A j \in 1..(len - 1) :
        /\ s(j) \in 1..len /\ s(j) >= j /\ s(j) \in Nat
        /\ s(j) = 1 => p # 1 /\ j = 1
        /\ j # 1 => s(j) # 1
        /\ list'[j] = list[s(j)]
        /\ Timestamp'[list'[j]] = T(s(j)) /\ left'[list'[j]] = L(s(j))
  BY <1>1
<1>4. \A i, j \in 1..(len - 1) : i < j => s(i) < s(j)
  BY <1>1
<1> HIDE DEF s
<1>5. SortedBehindHead'
  <2> SUFFICES ASSUME NEW i \in 2..(len - 1), NEW j \in 2..(len - 1), i < j
               PROVE  Timestamp'[list'[i]] <= Timestamp'[list'[j]]
    BY DEF SortedBehindHead
  <2>1. s(i) \in 2..len /\ s(j) \in 2..len /\ s(i) < s(j)
    BY <1>1, <1>3, <1>4
  <2>2. T(s(i)) <= T(s(j))
    BY <2>1 DEF LateInv, SortedBehindHead
  <2> QED BY <1>1, <1>3, <2>2
<1>6. HeadFirst'
  <2> SUFFICES ASSUME NEW j \in 2..(len - 1)
               PROVE  \/ Timestamp'[list'[1]] <= Timestamp'[list'[j]]
                      \/ /\ IsRunning'[list'[1]]
                         /\ Timestamp'[list'[1]] <= elapsed + MinTimeout
                         /\ InHandler => j < n
    BY DEF HeadFirst
  <2>1. 1 \in 1..(len - 1) /\ j \in 1..(len - 1)
    BY <1>1
  <2>2. s(j) \in 2..len /\ s(1) \in 1..len /\ s(1) < s(j) /\ s(j) >= j
    BY <1>1, <1>3, <1>4, <2>1
  <2>3. CASE s(1) # 1
    <3>1. T(s(1)) <= T(s(j))
      BY <1>1, <2>2, <2>3 DEF LateInv, SortedBehindHead
    <3> QED BY <1>3, <2>1, <3>1
  <2>4. CASE s(1) = 1
    <3>1. \/ T(1) <= T(s(j))
          \/ /\ IsRunning[list[1]]
             /\ T(1) <= elapsed + MinTimeout
             /\ InHandler => s(j) < n
      BY <2>2 DEF LateInv, HeadFirst
    <3>2. list'[1] = list[1] /\ p # 1
      BY <1>3, <2>1, <2>4
    <3>3. IsRunning'[list[1]] = IsRunning[list[1]]
      BY <3>2, <2>1, NextPositions
    <3>4. InHandler /\ s(j) < n => j < n
      BY <1>1, <2>1, <2>2
    <3> QED BY <1>3, <2>1, <2>4, <3>1, <3>2, <3>3, <3>4
  <2> QED BY <2>3, <2>4
<1>7. OffTimeIsNear'
  <2> SUFFICES ASSUME NEW i \in 1..(len - 1)
               PROVE  \/ left'[list'[i]] = Timestamp'[list'[i]] - elapsed
                      \/ Timestamp'[list'[i]] < elapsed + MinTimeout
                      \/ i = 1 /\ Timestamp'[list'[i]] = elapsed + MinTimeout
    BY DEF OffTimeIsNear, OnTime
  <2>1. s(i) \in 1..len /\ (s(i) = 1 => i = 1)
    BY <1>3
  <2>2. \/ L(s(i)) = T(s(i)) - elapsed
        \/ T(s(i)) < elapsed + MinTimeout
        \/ s(i) = 1 /\ T(s(i)) = elapsed + MinTimeout
    BY <2>1 DEF LateInv, OffTimeIsNear, OnTime
  <2> QED BY <1>3, <2>1, <2>2
<1>8. LateByRounds'
  <2> SUFFICES ASSUME NEW i \in 1..(len - 1)
               PROVE  IF InHandler
                      THEN \/ left'[list'[i]] = Timestamp'[list'[i]] - elapsed
                           \/ 0 - left'[list'[i]] <= Rounds(n - i - 1) + Spent'
                      ELSE 0 - left'[list'[i]] <= Rounds(n - i) + Spent'
    BY DEF LateByRounds, OnTime, Rounds
  <2>1. s(i) \in 1..len /\ (s(i) = i \/ s(i) = i + 1)
    BY <1>3 DEF s
  <2>2. /\ Rounds(n - s(i)) <= Rounds(n - i)
        /\ Rounds(n - s(i) - 1) <= Rounds(n - i - 1)
        /\ Rounds(n - s(i)) \in Int /\ Rounds(n - i) \in Int
        /\ Rounds(n - s(i) - 1) \in Int /\ Rounds(n - i - 1) \in Int
    <3>1. ASSUME NEW k \in Int PROVE Rounds(k) \in Int /\ Rounds(k) <= Rounds(k + 1)
      <4>1. Round \in Nat /\ Rounds(k) \in Int /\ Rounds(k + 1) = Rounds(k) + Round
        BY RoundsAdd
      <4> QED BY <4>1
    <3>2. /\ n - i \in Int /\ n - i - 1 \in Int /\ n - i - 2 \in Int
          /\ (n - i - 1) + 1 = n - i /\ (n - i - 2) + 1 = n - i - 1
      BY <1>1
    <3>3. n - s(i) = n - i \/ n - s(i) = n - i - 1
      BY <1>1, <2>1
    <3>4. n - s(i) - 1 = n - i - 1 \/ n - s(i) - 1 = n - i - 2
      BY <1>1, <2>1
    <3>5. /\ Rounds(n - i - 1) <= Rounds(n - i) /\ Rounds(n - i - 2) <= Rounds(n - i - 1)
          /\ Rounds(n - i) \in Int /\ Rounds(n - i - 1) \in Int /\ Rounds(n - i - 2) \in Int
      BY <3>1, <3>2
    <3> QED BY <3>3, <3>4, <3>5
  <2>3. Spent' = Spent /\ Spent \in Int
    <3>1. list # <<>> /\ list' # <<>>
      BY <1>1, Positions, NextPositions
    <3>2. Spent \in Int
      BY <3>1, SpentBound
    <3>3. CASE pending \/ InHandler
      BY <3>2, <3>3 DEF Spent
    <3>4. CASE ~(pending \/ InHandler)
      <4>1. p # 1 /\ 1 \in 1..(len - 1)
        BY <1>1, <3>4
      <4>2. list'[1] = list[1] /\ Timestamp'[list'[1]] = Timestamp[list[1]]
        BY <1>1, <1>3, <4>1 DEF s
      <4>3. Head(list') = list'[1] /\ Head(list) = list[1]
        BY <3>1, Positions, NextPositions
      <4> QED BY <3>2, <3>4, <4>2, <4>3 DEF Spent
    <3> QED BY <3>2, <3>3, <3>4
  <2>4. CASE InHandler
    <3>1. \/ L(s(i)) = T(s(i)) - elapsed
          \/ 0 - L(s(i)) <= Rounds(n - s(i) - 1) + Spent
      BY <2>1, <2>4 DEF LateInv, LateByRounds, OnTime, Rounds
    <3> QED BY <1>2, <1>3, <2>1, <2>2, <2>3, <2>4, <3>1
  <2>5. CASE ~InHandler
    <3>1. 0 - L(s(i)) <= Rounds(n - s(i)) + Spent
      BY <2>1, <2>5 DEF LateInv, LateByRounds, Rounds
    <3> QED BY <1>2, <1>3, <2>1, <2>2, <2>3, <2>5, <3>1
  <2> QED BY <2>4, <2>5
<1>9. InHandler' => elapsed' <= busy'
  BY DEF LateInv
<1> QED BY <1>5, <1>6, <1>7, <1>8, <1>9 DEF LateInv

(* The head is popped by the loop of the handler.                           *)
LEMMA IrqNextExpiredLate ==
  ASSUME AlarmInv, LateInv, AlarmInv', IrqNextExpired
  PROVE  LateInv'
<1>1. /\ list # <<>> /\ list' = Tail(list) /\ cur' = Head(list) /\ InHandler
      /\ left' = [left EXCEPT ![Head(list)] = 0]
      /\ Timestamp' = [Timestamp EXCEPT ![Head(list)] = 0]
      /\ UNCHANGED <<elapsed, alarm, pending, busy>>
  BY DEF IrqNextExpired, HeadExpired, PopHead, Unlink, rtcVars
<1>2. /\ list \in Seq(Timers) /\ Distinct(list) /\ Len(list) \in Nat /\ Len(list) > 0
      /\ Head(list) = list[1] /\ list[1] \in Timers
      /\ \A i \in 1..Len(list) : list[i] \in Timers
  BY <1>1, AlarmFacts, Positions
<1>3. /\ Len(list') = Len(list) - 1
      /\ \A j \in 1..Len(list') : list'[j] = list[j + 1]
  BY <1>1, <1>2, HeadTailProperties
<1>4. ASSUME NEW j \in 1..Len(list')
      PROVE  /\ Timestamp'[list'[j]] = Timestamp[list'[j]]
             /\ left'[list'[j]] = left[list'[j]]
  <2>1. j + 1 \in 1..Len(list) /\ 1 \in 1..Len(list) /\ j + 1 # 1
    BY <1>2, <1>3
  <2>2. list'[j] \in Timers /\ list'[j] # list[1]
    BY <1>2, <1>3, <2>1 DEF Distinct
  <2> QED BY <1>1, <1>2, <2>2, AlarmFacts
<1>5. InHandler'
  BY <1>1, <1>2, TimerAssumption DEF InHandler
<1>6. 1 \in 1..Len(list) /\ \A j \in 1..Len(list') : ~(j < 1)
  BY <1>2
<1> QED BY <1>1, <1>3, <1>4, <1>5, <1>6, RemovalLate

(* TimerStop of a timer that waits.                                         *)
LEMMA StopOtherLate ==
  ASSUME AlarmInv, LateInv, AlarmInv', NEW t \in Timers, StopOther(t),
         left' = [left EXCEPT ![t] = 0], UNCHANGED <<elapsed, cur, busy>>
  PROVE  LateInv'
<1>1. PICK p \in 1..Len(list) : list[p] = t /\ list' = RemoveAt(list, p)
  BY DEF StopOther
<1>2. /\ Timestamp' = [Timestamp EXCEPT ![t] = 0]
      /\ UNCHANGED <<IsRunning, alarm, pending>>
      /\ ~(t = Head(list) /\ IsRunning[t])
  BY DEF StopOther, Unlink
<1>3. /\ list \in Seq(Timers) /\ Distinct(list) /\ Len(list) \in Nat
      /\ \A i \in 1..Len(list) : list[i] \in Timers
  BY AlarmFacts, Positions
<1>4. /\ Len(list') = Len(list) - 1
      /\ \A j \in 1..(Len(list) - 1) : list'[j] = list[IF j < p THEN j ELSE j + 1]
  <2>1. \A j \in 1..(Len(list) - 1) :
          RemoveAt(list, p)[j] = IF j < p THEN list[j] ELSE list[j + 1]
    BY <1>3, RemoveAtElements
  <2>2. Len(RemoveAt(list, p)) = Len(list) - 1
    BY <1>3, RemoveAtElements
  <2> QED BY <1>1, <2>1, <2>2
<1>5. ASSUME NEW j \in 1..Len(list')
      PROVE  /\ Timestamp'[list'[j]] = Timestamp[list'[j]]
             /\ left'[list'[j]] = left[list'[j]]
  <2> DEFINE k == IF j < p THEN j ELSE j + 1
  <2>1. k \in 1..Len(list) /\ k # p /\ list'[j] = list[k]
    BY <1>3, <1>4
  <2> HIDE DEF k
  <2>2. list'[j] \in Timers /\ list'[j] # t
    BY <1>1, <1>3, <2>1 DEF Distinct
  <2> QED BY <1>2, <2>2, AlarmFacts
<1>6. InHandler' = InHandler
  BY DEF InHandler
<1>7. p = 1 => InHandler
  <2> SUFFICES ASSUME p = 1, ~InHandler PROVE FALSE
    OBVIOUS
  <2>1. list # <<>> /\ Head(list) = t
    BY <1>1, <1>3, Positions
  <2>2. IsRunning[Head(list)]
    BY <2>1, Zenon DEF AlarmInv
  <2> QED BY <1>2, <2>1, <2>2
<1>8. \A j \in 1..Len(list') : list'[j] = list[IF j < p THEN j ELSE j + 1]
  BY <1>4
<1>9. IsRunning'[list[1]] = IsRunning[list[1]]
  BY <1>2
<1> QED BY <1>2, <1>4, <1>5, <1>6, <1>7, <1>8, <1>9, RemovalLate

(* The deadline a new head is given.                                        *)
LEMMA SetTimeoutDeadline ==
  ASSUME NEW t \in Timers, NEW stamps \in [Timers -> Nat], NEW now \in Nat,
         SetTimeout(t, stamps, now)
  PROVE  /\ Timestamp'[t] = IF stamps[t] < now + MinTimeout THEN now + MinTimeout
                            ELSE stamps[t]
         /\ \A u \in Timers : u # t => Timestamp'[u] = stamps[u]
         /\ pending' = FALSE
  BY DEF SetTimeout, Deadline

(* The timers behind a head that is not put off are on time, and less late  *)
(* than it.                                                                 *)
LEMMA BehindDistantHead ==
  ASSUME AlarmInv, LateInv, list # <<>>, Timestamp[list[1]] > elapsed + MinTimeout,
         NEW j \in 1..Len(list)
  PROVE  /\ Timestamp[list[1]] <= Timestamp[list[j]]
         /\ left[list[j]] = Timestamp[list[j]] - elapsed
<1>1. /\ Len(list) \in Nat /\ elapsed \in Nat /\ MinTimeout \in Nat
      /\ \A i \in 1..Len(list) : Timestamp[list[i]] \in Nat /\ left[list[i]] \in Int
  BY Positions, AlarmFacts, TimerAssumption
<1>2. Timestamp[list[1]] <= Timestamp[list[j]]
  <2>1. CASE j = 1
    BY <1>1, <2>1
  <2>2. CASE j # 1
    <3>1. j \in 2..Len(list) /\ 1 \in 1..Len(list)
      BY <1>1, <2>2
    <3> QED BY <1>1, <3>1 DEF LateInv, HeadFirst
  <2> QED BY <2>1, <2>2
<1>3. left[list[j]] = Timestamp[list[j]] - elapsed
  <2>1. \/ left[list[j]] = Timestamp[list[j]] - elapsed
        \/ Timestamp[list[j]] < elapsed + MinTimeout
        \/ Timestamp[list[j]] = elapsed + MinTimeout
    BY DEF LateInv, OffTimeIsNear, OnTime
  <2>2. 1 \in 1..Len(list)
    BY <1>1
  <2> QED BY <1>1, <1>2, <2>1, <2>2
<1> QED BY <1>2, <1>3

(* The same behind the head, when the timer after it is far enough ahead.   *)
LEMMA BehindDistantSecond ==
  ASSUME AlarmInv, LateInv, Len(list) >= 2, Timestamp[list[2]] >= elapsed + MinTimeout,
         NEW j \in 2..Len(list)
  PROVE  /\ Timestamp[list[2]] <= Timestamp[list[j]]
         /\ left[list[j]] = Timestamp[list[j]] - elapsed
<1>1. /\ Len(list) \in Nat /\ elapsed \in Nat /\ MinTimeout \in Nat
      /\ \A i \in 1..Len(list) : Timestamp[list[i]] \in Nat /\ left[list[i]] \in Int
  BY Positions, AlarmFacts, TimerAssumption
<1>2. j \in 1..Len(list) /\ 2 \in 1..Len(list) /\ 2 \in 2..Len(list)
  BY <1>1
<1>3. Timestamp[list[2]] <= Timestamp[list[j]]
  <2>1. CASE j = 2
    BY <1>1, <1>2, <2>1
  <2>2. CASE j # 2
    <3>1. 2 < j
      BY <1>1, <2>2
    <3> QED BY <1>2, <3>1 DEF LateInv, SortedBehindHead
  <2> QED BY <2>1, <2>2
<1>4. left[list[j]] = Timestamp[list[j]] - elapsed
  <2>1. \/ left[list[j]] = Timestamp[list[j]] - elapsed
        \/ Timestamp[list[j]] < elapsed + MinTimeout
        \/ j = 1
    BY <1>2 DEF LateInv, OffTimeIsNear, OnTime
  <2> QED BY <1>1, <1>2, <1>3, <2>1
<1> QED BY <1>3, <1>4

(* TimerStop of the head that owns the alarm: the next one gets it, and a   *)
(* new round begins with one timer less.                                    *)
LEMMA StopRunningHeadLate ==
  ASSUME AlarmInv, LateInv, AlarmInv', NEW t \in Timers, t \in Linked, StopRunningHead(t),
         left' = [left EXCEPT ![t] = 0], UNCHANGED <<elapsed, cur, busy>>
  PROVE  LateInv'
<1> DEFINE n == Cardinality(Timers)
           len == Len(list)
           T(j) == Timestamp[list[j]]
           L(j) == left[list[j]]
<1>1. /\ len \in Nat /\ n \in Nat /\ len <= n /\ len > 0
      /\ elapsed \in Nat /\ MinTimeout \in Nat /\ MaxBusy \in Nat /\ busy \in 0..MaxBusy
      /\ list \in Seq(Timers) /\ Distinct(list) /\ Timestamp \in [Timers -> Nat]
      /\ left \in [Timers -> Int]
      /\ list # <<>> /\ Head(list) = list[1]
  BY Positions, AlarmFacts, TimerAssumption
<1>0. /\ len \in Nat /\ n \in Nat /\ len <= n /\ len > 0
      /\ elapsed \in Nat /\ MinTimeout \in Nat /\ MaxBusy \in Nat /\ busy \in Nat
  BY <1>1
<1>2. \A j \in 1..len : list[j] \in Timers /\ T(j) \in Nat /\ L(j) \in Int
  BY Positions
<1>3. /\ t = list[1] /\ list' = Tail(list)
      /\ Len(list') = len - 1
      /\ \A j \in 1..(len - 1) : list'[j] = list[j + 1]
  BY <1>1, HeadTailProperties DEF StopRunningHead
<1>4. InHandler' = InHandler /\ (InHandler => elapsed <= busy)
  BY DEF InHandler, LateInv
<1>5. CASE len = 1
  <2>0. Len(list') = 0
    BY <1>0, <1>3, <1>5
  <2>1. 1..Len(list') = {} /\ 2..Len(list') = {}
    BY <2>0
  <2> QED BY <1>4, <2>1 DEF LateInv, SortedBehindHead, HeadFirst, OffTimeIsNear, LateByRounds
<1>6. CASE len > 1
  <2>1. /\ 2 \in 1..len /\ 1 \in 1..(len - 1) /\ list[2] \in Timers
        /\ Tail(list) # <<>> /\ Head(Tail(list)) = list[2] /\ list'[1] = list[2]
    <3>1. 2 \in 1..len /\ 1 \in 1..(len - 1)
      BY <1>1, <1>6
    <3>2. list' # <<>> /\ Head(list') = list'[1]
      BY <1>3, <1>6, NextPositions
    <3>3. list'[1] = list[2]
      BY <1>3, <3>1
    <3> QED BY <1>2, <1>3, <3>1, <3>2, <3>3
  <2> DEFINE stamps == Unlink(t)
  <2>2. /\ IsRunning' = [IsRunning EXCEPT ![t] = FALSE, ![list[2]] = TRUE]
        /\ SetTimeout(list[2], stamps, elapsed)
    BY <1>3, <2>1 DEF StopRunningHead
  <2>3. /\ stamps \in [Timers -> Nat]
        /\ \A u \in Timers : u # t => stamps[u] = Timestamp[u]
    BY <1>1 DEF Unlink
  <2> HIDE DEF stamps
  <2>4. /\ Timestamp'[list[2]] = IF stamps[list[2]] < elapsed + MinTimeout
                                 THEN elapsed + MinTimeout ELSE stamps[list[2]]
        /\ \A u \in Timers : u # list[2] => Timestamp'[u] = stamps[u]
        /\ pending' = FALSE
    BY <1>1, <2>1, <2>2, <2>3, SetTimeoutDeadline
  <2>5. \A j \in 2..len : list[j] # t
    BY <1>1, <1>3 DEF Distinct
  <2>6. \A j \in 3..len : list[j] # list[2]
    BY <1>1, <2>1 DEF Distinct
  <2>7. Timestamp'[list'[1]] = IF T(2) < elapsed + MinTimeout THEN elapsed + MinTimeout
                               ELSE T(2)
    <3>1. stamps[list[2]] = T(2)
      BY <1>6, <1>1, <2>1, <2>3, <2>5
    <3> QED BY <2>1, <2>4, <3>1
  <2>8. ASSUME NEW j \in 2..(len - 1)
        PROVE  Timestamp'[list'[j]] = T(j + 1) /\ j + 1 \in 3..len /\ j + 1 \in 2..len
               /\ j + 1 \in 1..len
    <3>1. j + 1 \in 3..len /\ j \in 1..(len - 1) /\ j + 1 \in 2..len /\ j + 1 \in 1..len
      BY <1>1
    <3>2. list'[j] = list[j + 1] /\ list[j + 1] \in Timers /\ list[j + 1] # t
          /\ list[j + 1] # list[2]
      BY <1>2, <1>3, <2>5, <2>6, <3>1
    <3> QED BY <2>3, <2>4, <3>1, <3>2
  <2>9. ASSUME NEW j \in 1..(len - 1)
        PROVE  left'[list'[j]] = L(j + 1) /\ j + 1 \in 2..len /\ j + 1 \in 1..len
    <3>1. j + 1 \in 2..len /\ j + 1 \in 1..len
      BY <1>1
    <3>2. list'[j] = list[j + 1] /\ list[j + 1] # t /\ list[j + 1] \in Timers
      BY <1>2, <1>3, <2>5, <3>1
    <3> QED BY <1>1, <3>1, <3>2
  <2>10. SortedBehindHead'
    <3> SUFFICES ASSUME NEW i \in 2..(len - 1), NEW j \in 2..(len - 1), i < j
                 PROVE  Timestamp'[list'[i]] <= Timestamp'[list'[j]]
      BY <1>3 DEF SortedBehindHead
    <3>1. i + 1 < j + 1
      BY <1>1
    <3>2. T(i + 1) <= T(j + 1)
      BY <2>8, <3>1 DEF LateInv, SortedBehindHead
    <3> QED BY <2>8, <3>2
  <2>11. HeadFirst'
    <3> SUFFICES ASSUME NEW j \in 2..(len - 1)
                 PROVE  \/ Timestamp'[list'[1]] <= Timestamp'[list'[j]]
                        \/ /\ IsRunning'[list'[1]]
                           /\ Timestamp'[list'[1]] <= elapsed + MinTimeout
                           /\ j < n
      BY <1>3 DEF HeadFirst
    <3>1. j < n
      BY <1>1
    <3>2. IsRunning'[list'[1]]
      BY <2>1, <2>2, AlarmFacts, Zenon
    <3>3. CASE T(2) < elapsed + MinTimeout
      BY <1>1, <2>7, <3>1, <3>2, <3>3
    <3>4. CASE ~(T(2) < elapsed + MinTimeout)
      <4>1. T(2) <= T(j + 1)
        BY <1>1, <1>2, <2>1, <2>8, <3>4, BehindDistantSecond, <1>6
      <4> QED BY <2>7, <2>8, <3>4, <4>1
    <3> QED BY <3>3, <3>4
  <2>12. OffTimeIsNear'
    <3> SUFFICES ASSUME NEW i \in 1..(len - 1)
                 PROVE  \/ left'[list'[i]] = Timestamp'[list'[i]] - elapsed
                        \/ Timestamp'[list'[i]] < elapsed + MinTimeout
                        \/ i = 1 /\ Timestamp'[list'[i]] = elapsed + MinTimeout
      BY <1>3 DEF OffTimeIsNear, OnTime
    <3>1. \/ L(i + 1) = T(i + 1) - elapsed
          \/ T(i + 1) < elapsed + MinTimeout
          \/ i + 1 = 1
      BY <2>9 DEF LateInv, OffTimeIsNear, OnTime
    <3>2. i + 1 # 1 /\ (i = 1 => i + 1 = 2) /\ (i # 1 => i \in 2..(len - 1))
      BY <1>1
    <3>3. CASE i = 1
      BY <1>1, <1>2, <2>1, <2>7, <2>9, <3>1, <3>2, <3>3
    <3>4. CASE i # 1
      BY <2>8, <2>9, <3>1, <3>2, <3>4
    <3> QED BY <3>3, <3>4
  <2>13. LateByRounds'
    <3> SUFFICES ASSUME NEW i \in 1..(len - 1)
                 PROVE  IF InHandler
                        THEN \/ left'[list'[i]] = Timestamp'[list'[i]] - elapsed
                             \/ 0 - left'[list'[i]] <= Rounds(n - i - 1) + Spent'
                        ELSE 0 - left'[list'[i]] <= Rounds(n - i) + Spent'
      BY <1>3, <1>4 DEF LateByRounds, OnTime, Rounds
    <3>1. /\ Rounds(n - i - 1) \in Int /\ Rounds(n - i) = Rounds(n - i - 1) + Round
          /\ Rounds(n - i - 1) >= 0 /\ Round \in Nat
      <4>1. n - i - 1 \in Int /\ (n - i - 1) + 1 = n - i /\ n - i - 1 >= 0
        BY <1>1
      <4>2. /\ Rounds(n - i - 1) \in Int /\ Rounds((n - i - 1) + 1) = Rounds(n - i - 1) + Round
            /\ n - i - 1 >= 0 => Rounds(n - i - 1) >= 0
            /\ Round \in Nat
        BY <4>1, RoundsAdd
      <4> QED BY <4>1, <4>2
    <3>2. /\ Spent \in Int /\ Spent <= Round
          /\ pending \/ InHandler => Spent = MinTimeout + busy
      BY <1>1, SpentBound
    <3>3. n - (i + 1) = n - i - 1 /\ L(i + 1) \in Int /\ T(i + 1) \in Nat
      <4>1. n - (i + 1) = n - i - 1
        BY <1>0
      <4> QED BY <1>2, <2>9, <4>1
    <3>4. CASE InHandler
      <4>1. Spent' = MinTimeout + busy /\ Spent = MinTimeout + busy
        BY <1>4, <3>2, <3>4 DEF Spent
      <4>2. \/ L(i + 1) = T(i + 1) - elapsed
            \/ 0 - L(i + 1) <= Rounds(n - (i + 1) - 1) + Spent
        BY <2>9, <3>4 DEF LateInv, LateByRounds, OnTime, Rounds
      <4>3. elapsed <= busy
        BY <1>4, <3>4
      <4>4. 0 - L(i + 1) <= Rounds(n - i - 1) + Spent
        <5>1. CASE L(i + 1) = T(i + 1) - elapsed
          <6>1. 0 - L(i + 1) <= elapsed
            BY <1>0, <3>3, <5>1
          <6>2. elapsed <= Spent /\ Spent \in Int
            BY <1>0, <3>2, <4>1, <4>3
          <6> QED BY <1>0, <3>1, <3>3, <6>1, <6>2
        <5>2. CASE 0 - L(i + 1) <= Rounds(n - (i + 1) - 1) + Spent
          <6>1. n - (i + 1) - 1 = n - i - 2 /\ n - i - 2 \in Int /\ (n - i - 2) + 1 = n - i - 1
            BY <1>1
          <6>2. /\ Rounds(n - i - 2) \in Int
                /\ Rounds((n - i - 2) + 1) = Rounds(n - i - 2) + Round
            BY <6>1, RoundsAdd
          <6> QED BY <3>1, <3>2, <3>3, <5>2, <6>1, <6>2
        <5> QED BY <4>2, <5>1, <5>2
      <4> QED BY <2>9, <3>4, <4>1, <4>4
    <3>5. CASE ~InHandler
      <4>1. Spent' = MinTimeout - (Timestamp'[list'[1]] - elapsed)
        BY <1>3, <1>4, <2>1, <2>4, <3>5 DEF Spent
      <4>2. CASE T(2) < elapsed + MinTimeout
        <5>1. 0 - L(i + 1) <= Rounds(n - (i + 1)) + Spent
          BY <2>9, <3>5 DEF LateInv, LateByRounds, Rounds
        <5>2. Spent' = 0
          BY <1>1, <2>7, <4>1, <4>2
        <5> QED BY <2>9, <3>1, <3>2, <3>3, <3>5, <5>1, <5>2
      <4>3. CASE ~(T(2) < elapsed + MinTimeout)
        <5>1. T(2) <= T(i + 1) /\ L(i + 1) = T(i + 1) - elapsed
          <6>1. Len(list) >= 2 /\ Timestamp[list[2]] >= elapsed + MinTimeout /\ list[2] \in Timers
            BY <1>0, <1>2, <1>6, <2>1, <4>3
          <6> QED BY <2>9, <6>1, BehindDistantSecond
        <5>2. Spent' = MinTimeout - (T(2) - elapsed) /\ T(2) \in Nat
          BY <1>2, <2>1, <2>7, <4>1, <4>3
        <5>3. 0 - L(i + 1) <= Rounds(n - i) + Spent'
          <6>1. Rounds(n - i) \in Int /\ Rounds(n - i) >= 0
            BY <3>1
          <6>2. 0 - L(i + 1) <= Spent' /\ Spent' \in Int
            <7>1. 0 - L(i + 1) = elapsed - T(i + 1)
              BY <1>0, <3>3, <5>1
            <7>2. Spent' = MinTimeout + elapsed - T(2)
              BY <1>0, <5>2
            <7>3. \A e, x, y, m \in Nat : x <= y => e - y <= m + e - x /\ m + e - x \in Int
              OBVIOUS
            <7>4. T(2) \in Nat /\ T(i + 1) \in Nat /\ T(2) <= T(i + 1)
              BY <3>3, <5>1, <5>2
            <7>5. /\ elapsed - T(i + 1) <= MinTimeout + elapsed - T(2)
                  /\ MinTimeout + elapsed - T(2) \in Int
              BY <1>0, <7>3, <7>4
            <7> QED BY <7>1, <7>2, <7>5
          <6> QED BY <3>3, <6>1, <6>2
        <5> QED BY <2>9, <3>5, <5>3
      <4> QED BY <4>2, <4>3
    <3> QED BY <3>4, <3>5
  <2>14. InHandler' => elapsed' <= busy'
    BY <1>4
  <2> QED BY <2>10, <2>11, <2>12, <2>13, <2>14 DEF LateInv
<1>7. len = 1 \/ len > 1
  <2>1. \A k \in Nat : k > 0 => k = 1 \/ k > 1
    OBVIOUS
  <2> QED BY <1>0, <2>1
<1> QED BY <1>5, <1>6, <1>7

(* The interrupt takes the head out and moves the context.                  *)
LEMMA IrqEnterLate ==
  ASSUME AlarmInv, LateInv, AlarmInv', IrqEnter
  PROVE  LateInv'
<1> DEFINE n == Cardinality(Timers)
           len == Len(list)
           T(j) == Timestamp[list[j]]
           L(j) == left[list[j]]
<1>1. ~InHandler /\ pending /\ pending' = FALSE /\ elapsed' = 0
  BY DEF IrqEnter
<1>2. /\ len \in Nat /\ n \in Nat /\ len <= n /\ elapsed \in Nat /\ MinTimeout \in Nat \ {0}
      /\ busy \in Nat
      /\ list \in Seq(Timers) /\ Distinct(list)
  BY Positions, AlarmFacts, TimerAssumption
<1>3. \A j \in 1..len : list[j] \in Timers /\ T(j) \in Nat /\ L(j) \in Int
  BY Positions
<1>4. CASE list = <<>>
  <2>1. UNCHANGED <<list, cur>>
    BY <1>4 DEF IrqEnter
  <2>2. Len(list') = 0
    BY <1>4, <2>1, EmptySeq
  <2>3. 1..Len(list') = {} /\ 2..Len(list') = {}
    BY <2>2
  <2>4. ~InHandler'
    BY <1>1, <2>1 DEF InHandler
  <2> QED BY <2>3, <2>4 DEF LateInv, SortedBehindHead, HeadFirst, OffTimeIsNear, LateByRounds
<1>5. CASE list # <<>>
  <2>1. /\ list' = Tail(list) /\ cur' = Head(list) /\ busy' = busy
        /\ left' = [left EXCEPT ![Head(list)] = 0]
        /\ Timestamp' = [u \in Timers |-> IF u \in Range(Tail(list)) /\ Timestamp[u] > elapsed
                                          THEN Timestamp[u] - elapsed ELSE 0]
        /\ Head(list) = list[1] /\ len > 0
    BY <1>5, Positions DEF IrqEnter, PopHead, Rebased
  <2>2. /\ Len(list') = len - 1
        /\ \A j \in 1..(len - 1) : list'[j] = list[j + 1]
    BY <1>2, <1>5, <2>1, HeadTailProperties
  <2>3. InHandler' /\ Spent' = Spent /\ Spent = MinTimeout + busy
    <3>1. InHandler'
      BY <1>5, <2>1, AlarmFacts, TimerAssumption DEF InHandler
    <3> QED BY <1>1, <2>1, <3>1 DEF Spent
  <2>4. ASSUME NEW j \in 1..(len - 1)
        PROVE  /\ j + 1 \in 2..len /\ j + 1 \in 1..len
               /\ left'[list'[j]] = L(j + 1)
               /\ Timestamp'[list'[j]] = IF T(j + 1) > elapsed THEN T(j + 1) - elapsed ELSE 0
    <3>1. j + 1 \in 2..len /\ j + 1 \in 1..len /\ 1 \in 1..len /\ j + 1 # 1
      BY <1>2
    <3>2. list'[j] = list[j + 1] /\ list[j + 1] \in Timers /\ list[j + 1] # list[1]
      BY <1>2, <1>3, <2>2, <3>1 DEF Distinct
    <3>3. list'[j] \in Range(Tail(list))
      <4>1. Tail(list) \in Seq(Timers) /\ j \in 1..Len(Tail(list))
        BY <1>2, <1>5, <2>1, <2>2, HeadTailProperties
      <4> QED BY <2>1, <4>1, RangeByPosition
    <3>4. left'[list'[j]] = L(j + 1)
      BY <2>1, <3>2, AlarmFacts
    <3> QED BY <2>1, <3>1, <3>2, <3>3, <3>4
  <2>5. ASSUME NEW i \in 2..len, NEW j \in 2..len, i < j
        PROVE  T(i) <= T(j) /\ T(i) \in Nat /\ T(j) \in Nat
    <3>1. i \in 1..len /\ j \in 1..len
      BY <1>2
    <3> QED BY <1>3, <2>5, <3>1 DEF LateInv, SortedBehindHead
  <2>6. ASSUME NEW i \in 1..(len - 1), NEW j \in 1..(len - 1), i < j
        PROVE  Timestamp'[list'[i]] <= Timestamp'[list'[j]]
    <3>1. i + 1 < j + 1
      BY <1>2, <2>6
    <3>2. T(i + 1) <= T(j + 1) /\ T(i + 1) \in Nat /\ T(j + 1) \in Nat
      BY <2>4, <2>5, <3>1
    <3> QED BY <1>2, <2>4, <3>2
  <2>7. SortedBehindHead' /\ HeadFirst'
    <3>1. \A i, j \in 2..(len - 1) : i \in 1..(len - 1) /\ j \in 1..(len - 1)
      BY <1>2
    <3>2. \A j \in 2..(len - 1) : 1 \in 1..(len - 1) /\ j \in 1..(len - 1) /\ 1 < j
      BY <1>2
    <3>3. SortedBehindHead'
      BY <2>2, <2>6, <3>1 DEF SortedBehindHead
    <3>4. \A j \in 2..(len - 1) : Timestamp'[list'[1]] <= Timestamp'[list'[j]]
      BY <2>6, <3>2
    <3> QED BY <2>2, <3>3, <3>4 DEF HeadFirst
  <2>8. ASSUME NEW i \in 1..(len - 1)
        PROVE  \/ left'[list'[i]] = Timestamp'[list'[i]] - 0
               \/ Timestamp'[list'[i]] < 0 + MinTimeout
    <3>1. \/ L(i + 1) = T(i + 1) - elapsed
          \/ T(i + 1) < elapsed + MinTimeout
          \/ i + 1 = 1
      BY <2>4 DEF LateInv, OffTimeIsNear, OnTime
    <3>2. i + 1 # 1 /\ T(i + 1) \in Nat
      BY <1>2, <1>3, <2>4
    <3> QED BY <1>2, <2>4, <3>1, <3>2
  <2>9. OffTimeIsNear'
    BY <1>1, <2>2, <2>8 DEF OffTimeIsNear, OnTime
  <2>10. ASSUME NEW i \in 1..(len - 1)
         PROVE  0 - left'[list'[i]] <= Rounds(n - i - 1) + Spent'
    <3>1. 0 - L(i + 1) <= Rounds(n - (i + 1)) + Spent
      BY <1>1, <2>4 DEF LateInv, LateByRounds, Rounds
    <3>2. n - (i + 1) = n - i - 1
      BY <1>2
    <3> QED BY <2>3, <2>4, <3>1, <3>2
  <2>11. LateByRounds'
    BY <2>2, <2>3, <2>10 DEF LateByRounds, Rounds
  <2>12. elapsed' <= busy'
    BY <1>1, <1>2, <2>1
  <2> QED BY <2>7, <2>9, <2>11, <2>12 DEF LateInv
<1> QED BY <1>4, <1>5

(* Time goes on.                                                            *)
LEMMA TickLate ==
  ASSUME AlarmInv, LateInv, AlarmInv', Tick
  PROVE  LateInv'
<1> DEFINE n == Cardinality(Timers)
           len == Len(list)
           T(j) == Timestamp[list[j]]
           L(j) == left[list[j]]
<1>1. /\ busy' = (IF pending \/ InHandler THEN busy + 1 ELSE 0)
      /\ elapsed' = elapsed + 1
      /\ left' = [t \in Timers |-> IF t \in Linked THEN left[t] - 1 ELSE left[t]]
      /\ UNCHANGED <<list, Timestamp, ReloadValue, IsRunning, cur>>
  BY DEF Tick, listVars
<1>2. IF alarm = elapsed + 1 THEN pending' = TRUE ELSE pending' = pending
  BY DEF Tick
<1>3. /\ len \in Nat /\ n \in Nat /\ len <= n /\ elapsed \in Nat /\ MinTimeout \in Nat
      /\ busy \in Nat
  BY Positions, AlarmFacts, TimerAssumption
<1>4. \A j \in 1..len : T(j) \in Nat /\ L(j) \in Int /\ left'[list[j]] = L(j) - 1
  BY <1>1, Positions
<1>5. InHandler' = InHandler
  BY <1>1 DEF InHandler
<1>6. SortedBehindHead'
  BY <1>1 DEF LateInv, SortedBehindHead
<1>7. HeadFirst'
  <2> SUFFICES ASSUME NEW j \in 2..len
               PROVE  \/ T(1) <= T(j)
                      \/ /\ IsRunning[list[1]]
                         /\ T(1) <= elapsed + 1 + MinTimeout
                         /\ InHandler => j < n
    BY <1>1, <1>5 DEF HeadFirst
  <2>1. \/ T(1) <= T(j)
        \/ /\ IsRunning[list[1]]
           /\ T(1) <= elapsed + MinTimeout
           /\ InHandler => j < n
    BY DEF LateInv, HeadFirst
  <2>2. 1 \in 1..len
    BY <1>3
  <2> QED BY <1>3, <1>4, <2>1, <2>2
<1>8. OffTimeIsNear'
  <2> SUFFICES ASSUME NEW i \in 1..len
               PROVE  \/ left'[list[i]] = T(i) - (elapsed + 1)
                      \/ T(i) < elapsed + 1 + MinTimeout
    BY <1>1 DEF OffTimeIsNear, OnTime
  <2>1. \/ L(i) = T(i) - elapsed
        \/ T(i) < elapsed + MinTimeout
        \/ T(i) = elapsed + MinTimeout
    BY DEF LateInv, OffTimeIsNear, OnTime
  <2>2. L(i) \in Int /\ T(i) \in Nat /\ left'[list[i]] = L(i) - 1
    BY <1>4
  <2>3. CASE L(i) = T(i) - elapsed
    BY <1>3, <2>2, <2>3
  <2>4. CASE T(i) <= elapsed + MinTimeout
    BY <1>3, <2>2, <2>4
  <2> QED BY <1>3, <2>1, <2>2, <2>3, <2>4
<1>9. ASSUME len > 0
      PROVE  Spent \in Int /\ Spent' \in Int /\ Spent' >= Spent + 1
  <2>1. list # <<>> /\ Head(list) = list[1] /\ 1 \in 1..len /\ T(1) \in Nat
    BY <1>3, <1>4, <1>9, Positions
  <2>2. CASE pending \/ InHandler
    BY <1>1, <1>2, <1>3, <1>5, <2>2 DEF Spent
  <2>3. CASE ~(pending \/ InHandler)
    <3>1. Spent = MinTimeout - (T(1) - elapsed)
      BY <2>1, <2>3 DEF Spent
    <3>2. CASE alarm = elapsed + 1
      <4>1. IsRunning[Head(list)]
        BY <2>1, <2>3, Zenon DEF AlarmInv
      <4>2. HeadOwnsAlarm
        BY <2>1, <4>1, Zenon DEF AlarmInv
      <4>3. alarm <= T(1)
        BY <1>3, <2>1, <2>3, <4>2, TimerAssumption DEF HeadOwnsAlarm
      <4>4. Spent' = MinTimeout + 0
        BY <1>1, <1>2, <2>3, <3>2 DEF Spent
      <4> QED BY <1>3, <2>1, <3>1, <3>2, <4>3, <4>4
    <3>3. CASE alarm # elapsed + 1
      <4>1. Spent' = MinTimeout - (T(1) - (elapsed + 1))
        BY <1>1, <1>2, <1>5, <2>1, <2>3, <3>3 DEF Spent
      <4> QED BY <1>3, <2>1, <3>1, <4>1
    <3> QED BY <3>2, <3>3
  <2> QED BY <2>2, <2>3
<1>10. LateByRounds'
  <2> SUFFICES ASSUME NEW i \in 1..len
               PROVE  IF InHandler
                      THEN \/ left'[list[i]] = T(i) - (elapsed + 1)
                           \/ 0 - left'[list[i]] <= Rounds(n - i - 1) + Spent'
                      ELSE 0 - left'[list[i]] <= Rounds(n - i) + Spent'
    BY <1>1, <1>5 DEF LateByRounds, OnTime, Rounds
  <2>1. Spent \in Int /\ Spent' \in Int /\ Spent' >= Spent + 1
    BY <1>3, <1>9
  <2>2. Rounds(n - i - 1) \in Int /\ Rounds(n - i) \in Int
    <3>1. n - i - 1 \in Int /\ n - i \in Int
      BY <1>3
    <3> QED BY <3>1, RoundsAdd
  <2>3. L(i) \in Int /\ T(i) \in Nat /\ left'[list[i]] = L(i) - 1
    BY <1>4
  <2>4. CASE InHandler
    <3>1. \/ L(i) = T(i) - elapsed
          \/ 0 - L(i) <= Rounds(n - i - 1) + Spent
      BY <2>4 DEF LateInv, LateByRounds, OnTime, Rounds
    <3>2. CASE L(i) = T(i) - elapsed
      BY <1>3, <2>3, <2>4, <3>2
    <3>3. CASE 0 - L(i) <= Rounds(n - i - 1) + Spent
      <4>1. 0 - (L(i) - 1) <= Rounds(n - i - 1) + Spent'
        BY <2>1, <2>2, <2>3, <3>3
      <4> QED BY <2>3, <2>4, <4>1
    <3> QED BY <3>1, <3>2, <3>3
  <2>5. CASE ~InHandler
    <3>1. 0 - L(i) <= Rounds(n - i) + Spent
      BY <2>5 DEF LateInv, LateByRounds, Rounds
    <3> QED BY <2>1, <2>2, <2>3, <2>5, <3>1
  <2> QED BY <2>4, <2>5
<1>11. InHandler' => elapsed' <= busy'
  BY <1>1, <1>3, <1>5 DEF LateInv
<1> QED BY <1>6, <1>7, <1>8, <1>10, <1>11 DEF LateInv

(* The handler returns: a new round begins.                                 *)
LEMMA IrqExitLate ==
  ASSUME AlarmInv, LateInv, AlarmInv', IrqExit
  PROVE  LateInv'
<1> DEFINE n == Cardinality(Timers)
           len == Len(list)
           T(j) == Timestamp[list[j]]
           L(j) == left[list[j]]
<1>1. /\ InHandler /\ ~InHandler' /\ busy' = 0 /\ ~HeadExpired
      /\ UNCHANGED <<list, elapsed, left>>
  BY DEF IrqExit, InHandler
<1>2. /\ len \in Nat /\ n \in Nat /\ len <= n /\ elapsed \in Nat /\ MinTimeout \in Nat
      /\ busy \in Nat /\ MaxBusy \in Nat /\ busy <= MaxBusy /\ elapsed <= busy
      /\ list \in Seq(Timers) /\ Distinct(list)
  BY <1>1, Positions, AlarmFacts, TimerAssumption DEF LateInv
<1>3. \A j \in 1..len : list[j] \in Timers /\ T(j) \in Nat /\ L(j) \in Int
  BY Positions
<1>4. CASE list = <<>>
  <2>1. len = 0
    BY <1>4, EmptySeq
  <2>2. 1..len = {} /\ 2..len = {}
    BY <2>1
  <2> QED BY <1>1, <2>2 DEF LateInv, SortedBehindHead, HeadFirst, OffTimeIsNear, LateByRounds
<1>5. CASE list # <<>>
  <2>1. Head(list) = list[1] /\ len > 0 /\ 1 \in 1..len /\ list[1] \in Timers
        /\ T(1) \in Nat /\ T(1) >= elapsed
    <3>1. Head(list) = list[1] /\ len > 0
      BY <1>5, Positions
    <3>2. 1 \in 1..len
      BY <1>2, <3>1
    <3>3. ~(T(1) < elapsed)
      BY <1>1, <1>5, <3>1 DEF HeadExpired
    <3> QED BY <1>2, <1>3, <3>1, <3>2, <3>3
  <2>2. /\ \A j \in 2..len : Timestamp'[list[j]] = T(j)
        /\ Timestamp'[list[1]] =
             IF ~IsRunning[list[1]] /\ T(1) < elapsed + MinTimeout
             THEN elapsed + MinTimeout ELSE T(1)
        /\ IsRunning'[list[1]]
        /\ ~IsRunning[list[1]] => pending' = FALSE
    <3>1. CASE IsRunning[list[1]]
      <4>1. UNCHANGED <<IsRunning, Timestamp, alarm, pending>>
        BY <1>5, <2>1, <3>1 DEF IrqExit
      <4> QED BY <3>1, <4>1
    <3>2. CASE ~IsRunning[list[1]]
      <4>1. /\ IsRunning' = [IsRunning EXCEPT ![list[1]] = TRUE]
            /\ SetTimeout(list[1], Timestamp, elapsed)
        BY <1>5, <2>1, <3>2 DEF IrqExit
      <4>2. /\ Timestamp'[list[1]] = IF T(1) < elapsed + MinTimeout
                                     THEN elapsed + MinTimeout ELSE T(1)
            /\ \A u \in Timers : u # list[1] => Timestamp'[u] = Timestamp[u]
            /\ pending' = FALSE
        BY <1>2, <2>1, <4>1, AlarmFacts, SetTimeoutDeadline
      <4>3. ASSUME NEW j \in 2..len PROVE Timestamp'[list[j]] = T(j)
        <5>1. j \in 1..len /\ j # 1
          BY <1>2
        <5>2. list[j] \in Timers /\ list[j] # list[1]
          BY <1>2, <1>3, <2>1, <5>1 DEF Distinct
        <5> QED BY <4>2, <5>2
      <4>4. IsRunning'[list[1]]
        BY <2>1, <4>1, AlarmFacts, Zenon
      <4> QED BY <3>2, <4>2, <4>3, <4>4
    <3> QED BY <3>1, <3>2
  <2>3. ASSUME NEW i \in 1..len
        PROVE  \/ T(1) <= T(i)
               \/ /\ IsRunning[list[1]] /\ T(1) <= elapsed + MinTimeout
                  /\ i \in 2..len /\ i < n
    <3>1. CASE i = 1
      BY <2>1, <3>1
    <3>2. CASE i # 1
      <4>1. i \in 2..len
        BY <1>2, <3>2
      <4> QED BY <1>1, <4>1 DEF LateInv, HeadFirst
    <3> QED BY <3>1, <3>2
  <2>4. ASSUME NEW i \in 1..len
        PROVE  \/ L(i) = T(i) - elapsed
               \/ T(i) < elapsed + MinTimeout
               \/ i = 1 /\ T(i) = elapsed + MinTimeout
    BY DEF LateInv, OffTimeIsNear, OnTime
  <2>5. SortedBehindHead'
    BY <1>1, <2>2 DEF LateInv, SortedBehindHead
  <2>6. HeadFirst'
    <3> SUFFICES ASSUME NEW j \in 2..len
                 PROVE  \/ Timestamp'[list[1]] <= T(j)
                        \/ Timestamp'[list[1]] <= elapsed + MinTimeout
      BY <1>1, <2>2 DEF HeadFirst
    <3>1. j \in 1..len
      BY <1>2
    <3> QED BY <1>2, <2>1, <2>2, <2>3, <3>1
  <2>7. OffTimeIsNear'
    <3> SUFFICES ASSUME NEW i \in 1..len
                 PROVE  \/ L(i) = Timestamp'[list[i]] - elapsed
                        \/ Timestamp'[list[i]] < elapsed + MinTimeout
                        \/ i = 1 /\ Timestamp'[list[i]] = elapsed + MinTimeout
      BY <1>1 DEF OffTimeIsNear, OnTime
    <3>1. CASE i = 1
      BY <2>2, <2>4, <3>1
    <3>2. CASE i # 1
      <4>1. i \in 2..len
        BY <1>2, <3>2
      <4> QED BY <2>2, <2>4, <4>1
    <3> QED BY <3>1, <3>2
  <2>8. /\ Spent' \in Int
        /\ T(1) <= elapsed + MinTimeout => Spent' >= 0
        /\ elapsed - T(1) <= Spent'
    <3>1. list' # <<>> /\ Head(list') = list[1]
      BY <1>1, <1>5, <2>1
    <3>2. CASE pending'
      <4>1. Spent' = MinTimeout + 0
        BY <1>1, <3>2 DEF Spent
      <4> QED BY <1>2, <2>1, <4>1
    <3>3. CASE ~pending'
      <4>1. Spent' = MinTimeout - (Timestamp'[list[1]] - elapsed)
        BY <1>1, <3>1, <3>3 DEF Spent
      <4> QED BY <1>2, <2>1, <2>2, <4>1
    <3> QED BY <3>2, <3>3
  <2>9. LateByRounds'
    <3> SUFFICES ASSUME NEW i \in 1..len
                 PROVE  0 - L(i) <= Rounds(n - i) + Spent'
      BY <1>1 DEF LateByRounds, Rounds
    <3>1. /\ Rounds(n - i - 1) \in Int /\ Rounds(n - i) = Rounds(n - i - 1) + Round
          /\ Rounds(n - i) \in Int /\ Rounds(n - i) >= 0 /\ Round \in Nat
          /\ i < n => Rounds(n - i) >= Round
      <4>1. n - i - 1 \in Int /\ (n - i - 1) + 1 = n - i /\ n - i \in Int /\ n - i >= 0
            /\ (i < n => n - i - 1 >= 0)
        BY <1>2
      <4>2. /\ Rounds(n - i - 1) \in Int /\ Rounds((n - i - 1) + 1) = Rounds(n - i - 1) + Round
            /\ n - i - 1 >= 0 => Rounds(n - i - 1) >= 0
            /\ Round \in Nat
        BY <4>1, RoundsAdd
      <4>3. Rounds(n - i) \in Int /\ (n - i >= 0 => Rounds(n - i) >= 0)
        BY <4>1, RoundsAdd
      <4> QED BY <4>1, <4>2, <4>3
    <3>2. T(i) \in Nat /\ L(i) \in Int
      BY <1>3
    <3>3. MinTimeout + busy <= Round
      BY <1>2 DEF Round
    <3>4. CASE L(i) = T(i) - elapsed
      <4>1. CASE T(1) <= T(i)
        <5>1. 0 - L(i) <= elapsed - T(1)
          BY <1>2, <2>1, <3>2, <3>4, <4>1
        <5>2. elapsed - T(1) \in Int
          BY <1>2, <2>1
        <5> QED BY <2>8, <3>1, <3>2, <5>1, <5>2
      <4>2. CASE i < n /\ T(1) <= elapsed + MinTimeout
        <5>1. 0 - L(i) <= elapsed /\ elapsed <= Round /\ Spent' >= 0
          <6>1. 0 - L(i) <= elapsed
            BY <1>2, <3>2, <3>4
          <6>2. elapsed <= Round
            BY <1>2, <3>1, <3>3
          <6> QED BY <2>8, <4>2, <6>1, <6>2
        <5> QED BY <1>2, <2>8, <3>1, <3>2, <4>2, <5>1
      <4> QED BY <2>3, <4>1, <4>2
    <3>5. CASE L(i) # T(i) - elapsed
      <4>1. T(i) <= elapsed + MinTimeout
        BY <1>2, <2>4, <3>2, <3>5
      <4>2. T(1) <= elapsed + MinTimeout
        BY <1>2, <2>1, <2>3, <3>2, <4>1
      <4>3. 0 - L(i) <= Rounds(n - i - 1) + Spent
        BY <1>1, <3>5 DEF LateInv, LateByRounds, OnTime, Rounds
      <4>4. Spent = MinTimeout + busy /\ Spent' >= 0
        BY <1>1, <2>8, <4>2 DEF Spent
      <4> QED BY <1>2, <2>8, <3>1, <3>2, <3>3, <4>3, <4>4
    <3> QED BY <3>4, <3>5
  <2> QED BY <1>1, <2>5, <2>6, <2>7, <2>9 DEF LateInv
<1> QED BY <1>4, <1>5

(* A timer started as the new head comes before all others, and none of     *)
(* them is near: all are on time.                                           *)
LEMMA NewHeadLate ==
  ASSUME AlarmInv, LateInv, AlarmInv', NEW t \in Timers, NEW now \in Nat,
         t \notin Linked, ReloadValue[t] > 0,
         list # <<>> => now = elapsed /\ ReloadValue[t] + now < Timestamp[Head(list)],
         elapsed' = now, now <= elapsed,
         InsertNewHeadTimer(t, ReloadValue[t] + now, now),
         left' = [left EXCEPT ![t] = ReloadValue[t]],
         UNCHANGED <<ReloadValue, cur, busy>>
  PROVE  LateInv'
<1> DEFINE n == Cardinality(Timers)
           len == Len(list)
           T(j) == Timestamp[list[j]]
           L(j) == left[list[j]]
           R == ReloadValue[t]
           stamps == [Timestamp EXCEPT ![t] = ReloadValue[t] + now]
<1>1. /\ len \in Nat /\ n \in Nat /\ elapsed \in Nat /\ MinTimeout \in Nat
      /\ busy \in Nat /\ R \in Nat /\ R >= MinTimeout
      /\ list \in Seq(Timers) /\ t \notin Range(list)
  <2>1. R \in Delays \cup {0} /\ R # 0
    BY AlarmFacts DEF AlarmInv
  <2>2. R \in Nat /\ R >= MinTimeout
    BY <2>1, DelaysAreNat
  <2> QED BY <2>2, Positions, AlarmFacts, TimerAssumption
<1>2. /\ stamps \in [Timers -> Nat] /\ stamps[t] = R + now
      /\ \A u \in Timers : u # t => stamps[u] = Timestamp[u]
  BY <1>1, AlarmFacts
<1>3. list' = Cons(t, list) /\ SetTimeout(t, stamps, now)
  BY DEF InsertNewHeadTimer
<1> HIDE DEF stamps, R
<1>4. Timestamp'[t] = R + now /\ pending' = FALSE
      /\ \A u \in Timers : u # t => Timestamp'[u] = Timestamp[u]
  <2>1. ~(R + now < now + MinTimeout)
    BY <1>1
  <2>2. /\ Timestamp'[t] = IF stamps[t] < now + MinTimeout THEN now + MinTimeout
                           ELSE stamps[t]
        /\ \A u \in Timers : u # t => Timestamp'[u] = stamps[u]
        /\ pending' = FALSE
    BY <1>2, <1>3, SetTimeoutDeadline
  <2> QED BY <1>2, <2>1, <2>2
<1>5. /\ Len(list') = len + 1 /\ list'[1] = t
      /\ \A j \in 1..len : list'[j + 1] = list[j]
  <2>1. list' = <<t>> \o list
    BY <1>3 DEF Cons
  <2> QED BY <1>1, <2>1
<1>6. ASSUME NEW j \in 1..len
      PROVE  /\ Timestamp'[list'[j + 1]] = T(j) /\ left'[list'[j + 1]] = L(j)
             /\ T(j) \in Nat /\ L(j) \in Int
             /\ R + now < T(j) /\ L(j) = T(j) - now
  <2>1. list # <<>> /\ Head(list) = list[1] /\ 1 \in 1..len
    <3>1. len > 0 /\ 1 \in 1..len
      BY <1>1
    <3> QED BY <3>1, Positions
  <2>2. list[j] \in Timers /\ list[j] # t /\ T(j) \in Nat /\ L(j) \in Int
    BY <1>1, Positions, RangeByPosition
  <2>3. now = elapsed /\ R + now < T(1) /\ T(1) \in Nat
    BY <2>1, Positions DEF R
  <2>4. T(1) > elapsed + MinTimeout
    BY <1>1, <2>3
  <2>5. T(1) <= T(j) /\ L(j) = T(j) - elapsed
    BY <2>1, <2>4, BehindDistantHead
  <2>6. Timestamp'[list'[j + 1]] = T(j) /\ left'[list'[j + 1]] = L(j)
    BY <1>4, <1>5, <2>2, AlarmFacts
  <2>7. R + now < T(j)
    BY <1>1, <2>2, <2>3, <2>5
  <2> QED BY <2>2, <2>3, <2>5, <2>6, <2>7
<1>7. left'[t] = R
  BY AlarmFacts DEF R
<1>8. ASSUME NEW i \in 1..(len + 1)
      PROVE  /\ left'[list'[i]] = Timestamp'[list'[i]] - now
             /\ R + now <= Timestamp'[list'[i]] /\ Timestamp'[list'[i]] \in Nat
  <2>1. CASE i = 1
    BY <1>1, <1>4, <1>5, <1>7, <2>1
  <2>2. CASE i # 1
    <3>1. PICK j \in 1..len : j + 1 = i
      <4>1. i - 1 \in 1..len /\ (i - 1) + 1 = i
        BY <1>1, <2>2
      <4> QED BY <4>1
    <3>2. /\ Timestamp'[list'[i]] = T(j) /\ left'[list'[i]] = L(j)
          /\ T(j) \in Nat /\ L(j) \in Int /\ R + now < T(j) /\ L(j) = T(j) - now
      BY <1>6, <3>1
    <3>3. R + now <= T(j)
      BY <1>1, <3>2
    <3> QED BY <3>2, <3>3
  <2> QED BY <2>1, <2>2
<1>9. SortedBehindHead'
  <2> SUFFICES ASSUME NEW i \in 2..(len + 1), NEW j \in 2..(len + 1), i < j
               PROVE  Timestamp'[list'[i]] <= Timestamp'[list'[j]]
    BY <1>5 DEF SortedBehindHead
  <2>1. /\ i - 1 \in 1..len /\ j - 1 \in 1..len /\ (i - 1) + 1 = i /\ (j - 1) + 1 = j
        /\ i - 1 < j - 1 /\ j - 1 \in 2..len
    BY <1>1
  <2>2. T(i - 1) <= T(j - 1)
    <3>1. CASE i - 1 = 1
      <4>1. list # <<>> /\ Head(list) = list[1] /\ 1 \in 1..len
        BY <2>1, <3>1, <1>1, Positions
      <4>2. now = elapsed /\ R + now < T(1) /\ T(1) \in Nat
        BY <4>1, Positions DEF R
      <4>3. T(1) > elapsed + MinTimeout
        BY <1>1, <4>2
      <4> QED BY <2>1, <3>1, <4>1, <4>3, BehindDistantHead
    <3>2. CASE i - 1 # 1
      <4>1. i - 1 \in 2..len
        BY <1>1, <2>1, <3>2
      <4> QED BY <2>1, <4>1 DEF LateInv, SortedBehindHead
    <3> QED BY <3>1, <3>2
  <2> QED BY <1>6, <2>1, <2>2
<1>10. HeadFirst'
  <2> SUFFICES ASSUME NEW j \in 2..(len + 1)
               PROVE  Timestamp'[list'[1]] <= Timestamp'[list'[j]]
    BY <1>5 DEF HeadFirst
  <2>1. j \in 1..(len + 1)
    BY <1>1
  <2> QED BY <1>4, <1>5, <1>8, <2>1
<1>11. OffTimeIsNear'
  BY <1>5, <1>8 DEF OffTimeIsNear, OnTime
<1>12. LateByRounds'
  <2> SUFFICES ASSUME NEW i \in 1..(len + 1)
               PROVE  IF InHandler'
                      THEN left'[list'[i]] = Timestamp'[list'[i]] - now
                      ELSE 0 - left'[list'[i]] <= Rounds(n - i) + Spent'
    BY <1>5 DEF LateByRounds, OnTime, Rounds
  <2>1. CASE InHandler'
    BY <1>8, <2>1
  <2>2. CASE ~InHandler'
    <3>1. list' # <<>> /\ Head(list') = t
      BY <1>1, <1>5, NextPositions
    <3>2. Spent' = MinTimeout - ((R + now) - now)
      BY <1>4, <2>2, <3>1 DEF Spent
    <3>3. Rounds(n - i) \in Int /\ Rounds(n - i) >= 0
      <4>1. len + 1 <= n
        BY <1>5, NextPositions
      <4>2. n - i \in Int /\ n - i >= 0
        BY <1>1, <4>1
      <4> QED BY <4>2, RoundsAdd
    <3>4. 0 - left'[list'[i]] <= Spent' /\ Spent' \in Int /\ left'[list'[i]] \in Int
      <4>1. PICK x \in Nat : x = Timestamp'[list'[i]]
        BY <1>8
      <4>2. left'[list'[i]] = x - now /\ R + now <= x
        BY <1>8, <4>1
      <4>3. Spent' = MinTimeout - R
        BY <1>1, <3>2
      <4>4. 0 - (x - now) <= MinTimeout - R /\ MinTimeout - R \in Int /\ x - now \in Int
        BY <1>1, <4>2
      <4> QED BY <4>2, <4>3, <4>4
    <3> QED BY <2>2, <3>3, <3>4
  <2> QED BY <2>1, <2>2
<1>13. InHandler' => elapsed' <= busy'
  BY <1>1 DEF LateInv, InHandler
<1> QED BY <1>9, <1>10, <1>11, <1>12, <1>13 DEF LateInv

(* A timer started behind the head is put behind all that are near.         *)
LEMMA InsertLate ==
  ASSUME AlarmInv, LateInv, AlarmInv', NEW t \in Timers, t \notin Linked,
         ReloadValue[t] > 0, list # <<>>,
         ReloadValue[t] + elapsed >= Timestamp[Head(list)],
         InsertTimer(t, ReloadValue[t] + elapsed),
         left' = [left EXCEPT ![t] = ReloadValue[t]],
         UNCHANGED <<ReloadValue, cur, busy, elapsed>>
  PROVE  LateInv'
<1> DEFINE n == Cardinality(Timers)
           len == Len(list)
           T(j) == Timestamp[list[j]]
           L(j) == left[list[j]]
           R == ReloadValue[t]
           stamp == ReloadValue[t] + elapsed
<1>1. /\ len \in Nat /\ n \in Nat /\ elapsed \in Nat /\ MinTimeout \in Nat
      /\ busy \in Nat /\ R \in Nat /\ R >= MinTimeout /\ stamp \in Nat
      /\ stamp = R + elapsed /\ stamp >= elapsed + MinTimeout
      /\ list \in Seq(Timers) /\ t \notin Range(list)
      /\ len > 0 /\ Head(list) = list[1] /\ 1 \in 1..len /\ T(1) \in Nat /\ stamp >= T(1)
  <2>1. R \in Delays \cup {0} /\ R # 0
    BY AlarmFacts DEF AlarmInv
  <2>2. R \in Nat /\ R >= MinTimeout
    BY <2>1, DelaysAreNat
  <2>3. /\ len \in Nat /\ n \in Nat /\ elapsed \in Nat /\ MinTimeout \in Nat
        /\ busy \in Nat /\ list \in Seq(Timers) /\ t \notin Range(list)
    BY Positions, AlarmFacts, TimerAssumption
  <2>4. stamp \in Nat /\ stamp = R + elapsed /\ stamp >= elapsed + MinTimeout
    BY <2>2, <2>3
  <2>5. len > 0 /\ Head(list) = list[1]
    BY Positions
  <2>6. 1 \in 1..len
    BY <2>3, <2>5
  <2> QED BY <2>2, <2>3, <2>4, <2>5, <2>6, Positions
<1>2. /\ Timestamp' = [Timestamp EXCEPT ![t] = stamp]
      /\ IsRunning' = [IsRunning EXCEPT ![t] = FALSE]
      /\ UNCHANGED <<alarm, pending>>
  BY DEF InsertTimer
<1>3. PICK p \in 2..(len + 1) : InsertPosition(p, stamp) /\ list' = InsertAt(list, p, t)
  BY DEF InsertTimer
<1> HIDE DEF R, stamp
<1>4. /\ p <= len => stamp <= T(p)
      /\ \A j \in 2..(p - 1) : stamp > T(j)
  BY <1>3 DEF InsertPosition
<1>5. /\ Len(list') = len + 1
      /\ \A j \in 1..(len + 1) :
           list'[j] = IF j < p THEN list[j] ELSE IF j = p THEN t ELSE list[j - 1]
  <2>1. p \in 1..(len + 1)
    BY <1>1
  <2>2. Len(InsertAt(list, p, t)) = Len(list) + 1
    BY <1>1, <2>1, InsertAtElements
  <2>3. \A j \in 1..(Len(list) + 1) :
          InsertAt(list, p, t)[j] = IF j < p THEN list[j]
                                    ELSE IF j = p THEN t ELSE list[j - 1]
    BY <1>1, <2>1, InsertAtElements
  <2> QED BY <1>3, <2>2, <2>3
<1>6. \A j \in 1..len : /\ T(j) \in Nat /\ L(j) \in Int
                        /\ Timestamp'[list[j]] = T(j) /\ left'[list[j]] = L(j)
  <2> SUFFICES ASSUME NEW j \in 1..len
               PROVE  /\ T(j) \in Nat /\ L(j) \in Int
                      /\ Timestamp'[list[j]] = T(j) /\ left'[list[j]] = L(j)
    OBVIOUS
  <2>1. list[j] \in Timers /\ list[j] # t /\ T(j) \in Nat /\ L(j) \in Int
    BY <1>1, Positions, RangeByPosition
  <2> QED BY <1>2, <2>1, AlarmFacts
<1>7. Timestamp'[t] = stamp /\ left'[t] = R
  BY <1>2, AlarmFacts DEF R
(* In front of t nothing has changed...                                     *)
<1>8. ASSUME NEW j \in 1..(len + 1), j < p
      PROVE  /\ j \in 1..len /\ list'[j] = list[j]
             /\ Timestamp'[list'[j]] = T(j) /\ left'[list'[j]] = L(j)
  <2>1. j \in 1..len
    BY <1>1, <1>8
  <2> QED BY <1>5, <1>6, <1>8, <2>1
(* ... and t and those behind it are on time.                               *)
<1>9. ASSUME NEW j \in 1..(len + 1), ~(j < p)
      PROVE  /\ Timestamp'[list'[j]] \in Nat /\ Timestamp'[list'[j]] >= stamp
             /\ left'[list'[j]] = Timestamp'[list'[j]] - elapsed
             /\ j # p => /\ j - 1 \in 2..len /\ j - 1 >= p
                         /\ Timestamp'[list'[j]] = T(j - 1)
  <2>1. CASE j = p
    <3>1. list'[j] = t
      BY <1>5, <2>1
    <3>2. R = stamp - elapsed
      BY <1>1
    <3> QED BY <1>1, <1>7, <2>1, <3>1, <3>2
  <2>2. CASE j # p
    <3>1. j - 1 \in 1..len /\ j - 1 \in 2..len /\ p <= j - 1 /\ p \in 2..len /\ p <= len
      BY <1>1, <1>9, <2>2
    <3>2. list'[j] = list[j - 1]
      BY <1>5, <1>9, <2>2
    <3>3. T(p) <= T(j - 1) /\ T(p) \in Nat /\ T(j - 1) \in Nat
      <4>1. p \in 1..len
        BY <3>1
      <4>2. CASE p = j - 1
        BY <1>6, <3>1, <4>1, <4>2
      <4>3. CASE p < j - 1
        <5>1. T(p) <= T(j - 1)
          BY <3>1, <4>3 DEF LateInv, SortedBehindHead
        <5> QED BY <1>6, <3>1, <4>1, <5>1
      <4> QED BY <3>1, <4>2, <4>3
    <3>4. stamp <= T(j - 1)
      BY <1>1, <1>4, <3>1, <3>3
    <3>5. L(j - 1) = T(j - 1) - elapsed
      <4>1. \/ L(j - 1) = T(j - 1) - elapsed
            \/ T(j - 1) < elapsed + MinTimeout
            \/ j - 1 = 1
        BY <3>1 DEF LateInv, OffTimeIsNear, OnTime
      <4> QED BY <1>1, <3>1, <3>3, <3>4, <4>1
    <3> QED BY <1>6, <2>2, <3>1, <3>2, <3>3, <3>4, <3>5
  <2> QED BY <2>1, <2>2
<1>10. InHandler' = InHandler /\ (InHandler => elapsed <= busy)
  BY DEF InHandler, LateInv
<1>11. 1 \in 1..(len + 1) /\ 1 < p /\ list'[1] = list[1] /\ Timestamp'[list'[1]] = T(1)
  <2>1. 1 \in 1..(len + 1) /\ 1 < p
    BY <1>1
  <2> QED BY <1>8, <2>1
<1>12. SortedBehindHead'
  <2> SUFFICES ASSUME NEW i \in 2..(len + 1), NEW j \in 2..(len + 1), i < j
               PROVE  Timestamp'[list'[i]] <= Timestamp'[list'[j]]
    BY <1>5 DEF SortedBehindHead
  <2>1. i \in 1..(len + 1) /\ j \in 1..(len + 1)
    BY <1>1
  <2>2. CASE j < p
    <3>1. i < p /\ i \in 2..len /\ j \in 2..len
      BY <1>1, <2>2
    <3>2. T(i) <= T(j)
      BY <3>1 DEF LateInv, SortedBehindHead
    <3> QED BY <1>8, <2>1, <2>2, <3>1, <3>2
  <2>3. CASE ~(j < p) /\ i < p
    <3>1. i \in 2..(p - 1) /\ i \in 1..len
      BY <1>1, <2>3
    <3>2. T(i) < stamp /\ T(i) \in Nat
      BY <1>4, <1>6, <3>1
    <3> QED BY <1>1, <1>8, <1>9, <2>1, <2>3, <3>2
  <2>4. CASE ~(j < p) /\ i = p
    <3>1. Timestamp'[list'[i]] = stamp
      <4>1. list'[i] = t
        BY <1>5, <2>1, <2>4
      <4> QED BY <1>7, <4>1
    <3> QED BY <1>1, <1>9, <2>1, <2>4, <3>1
  <2>5. CASE ~(j < p) /\ ~(i < p) /\ i # p
    <3>1. i - 1 \in 2..len /\ j - 1 \in 2..len /\ i - 1 < j - 1 /\ j # p
      BY <1>1, <2>5
    <3>2. T(i - 1) <= T(j - 1)
      BY <3>1 DEF LateInv, SortedBehindHead
    <3> QED BY <1>9, <2>1, <2>5, <3>1, <3>2
  <2> QED BY <2>2, <2>3, <2>4, <2>5
<1>13. HeadFirst'
  <2> SUFFICES ASSUME NEW j \in 2..(len + 1)
               PROVE  \/ T(1) <= Timestamp'[list'[j]]
                      \/ /\ IsRunning'[list[1]]
                         /\ T(1) <= elapsed + MinTimeout
                         /\ InHandler => j < n
    BY <1>5, <1>10, <1>11 DEF HeadFirst
  <2>1. j \in 1..(len + 1)
    BY <1>1
  <2>2. CASE j < p
    <3>1. j \in 2..len
      BY <1>1, <2>2
    <3>2. \/ T(1) <= T(j)
          \/ /\ IsRunning[list[1]]
             /\ T(1) <= elapsed + MinTimeout
             /\ InHandler => j < n
      BY <3>1 DEF LateInv, HeadFirst
    <3>3. IsRunning'[list[1]] = IsRunning[list[1]]
      <4>1. list[1] \in Timers /\ list[1] # t
        BY <1>1, Positions, RangeByPosition
      <4> QED BY <1>2, <4>1, AlarmFacts
    <3> QED BY <1>8, <2>1, <2>2, <3>2, <3>3
  <2>3. CASE ~(j < p)
    BY <1>1, <1>9, <2>1, <2>3
  <2> QED BY <2>2, <2>3
<1>14. OffTimeIsNear'
  <2> SUFFICES ASSUME NEW i \in 1..(len + 1)
               PROVE  \/ left'[list'[i]] = Timestamp'[list'[i]] - elapsed
                      \/ Timestamp'[list'[i]] < elapsed + MinTimeout
                      \/ i = 1 /\ Timestamp'[list'[i]] = elapsed + MinTimeout
    BY <1>5 DEF OffTimeIsNear, OnTime
  <2>1. CASE i < p
    BY <1>8, <2>1 DEF LateInv, OffTimeIsNear, OnTime
  <2>2. CASE ~(i < p)
    BY <1>9, <2>2
  <2> QED BY <2>1, <2>2
<1>15. LateByRounds'
  <2> SUFFICES ASSUME NEW i \in 1..(len + 1)
               PROVE  IF InHandler
                      THEN \/ left'[list'[i]] = Timestamp'[list'[i]] - elapsed
                           \/ 0 - left'[list'[i]] <= Rounds(n - i - 1) + Spent'
                      ELSE 0 - left'[list'[i]] <= Rounds(n - i) + Spent'
    BY <1>5, <1>10 DEF LateByRounds, OnTime, Rounds
  <2>1. Spent' = Spent
    <3>1. list' # <<>>
      BY <1>1, <1>5, NextPositions
    <3>2. Head(list') = list[1] /\ Head(list) = list[1]
      BY <1>1, <1>11, <3>1, NextPositions
    <3> QED BY <1>2, <1>10, <1>11, <3>2 DEF Spent
  <2>2. CASE i < p
    BY <1>8, <2>1, <2>2 DEF LateInv, LateByRounds, OnTime, Rounds
  <2>3. CASE ~(i < p)
    <3>1. CASE InHandler
      BY <1>9, <2>3, <3>1
    <3>2. CASE ~InHandler
      <4>1. PICK x \in Nat : x = Timestamp'[list'[i]]
        BY <1>9, <2>3
      <4>2. x >= stamp /\ left'[list'[i]] = x - elapsed
        BY <1>9, <2>3, <4>1
      <4>3. Spent \in Int /\ elapsed - x <= Spent
        <5>1. /\ pending \/ InHandler => Spent = MinTimeout + busy
              /\ ~(pending \/ InHandler) => Spent = MinTimeout - (T(1) - elapsed)
          BY SpentBound
        <5>2. CASE pending
          <6>1. Spent = MinTimeout + busy
            BY <5>1, <5>2
          <6>2. elapsed - x <= 0 /\ elapsed - x \in Int
            BY <1>1, <4>2
          <6> QED BY <1>1, <6>1, <6>2
        <5>3. CASE ~pending
          <6>1. Spent = MinTimeout - (T(1) - elapsed)
            BY <3>2, <5>1, <5>3
          <6>2. T(1) <= x /\ T(1) \in Nat
            BY <1>1, <4>2
          <6>3. Spent = (elapsed - T(1)) + MinTimeout /\ elapsed - x <= elapsed - T(1)
            BY <1>1, <6>1, <6>2
          <6>4. elapsed - T(1) \in Int
            BY <1>1
          <6> QED BY <1>1, <6>3, <6>4
        <5> QED BY <5>2, <5>3
      <4>4. Rounds(n - i) \in Int /\ Rounds(n - i) >= 0
        <5>1. len + 1 <= n
          BY <1>5, NextPositions
        <5>2. n - i \in Int /\ n - i >= 0
          BY <1>1, <5>1
        <5> QED BY <5>2, RoundsAdd
      <4>5. 0 - (x - elapsed) <= Rounds(n - i) + Spent
        BY <1>1, <4>3, <4>4
      <4> QED BY <2>1, <3>2, <4>2, <4>5
    <3> QED BY <3>1, <3>2
  <2> QED BY <2>2, <2>3
<1>16. InHandler' => elapsed' <= busy'
  BY <1>10
<1> QED BY <1>12, <1>13, <1>14, <1>15, <1>16 DEF LateInv

(* Nothing the bound speaks of has changed.                                 *)
LEMMA SameLate ==
  ASSUME LateInv, UNCHANGED <<list, Timestamp, elapsed, pending, cur, busy>>,
         \A i \in 1..Len(list) : left'[list[i]] = left[list[i]],
         \A i \in 1..Len(list) : IsRunning'[list[i]] = IsRunning[list[i]]
  PROVE  LateInv'
<1>1. InHandler' = InHandler /\ Spent' = Spent
  BY DEF InHandler, Spent
<1>2. SortedBehindHead' /\ OffTimeIsNear' /\ LateByRounds'
  BY <1>1 DEF LateInv, SortedBehindHead, OffTimeIsNear, LateByRounds, OnTime
<1>3. HeadFirst'
  <2>1. \A j \in 2..Len(list) : IsRunning[list[1]] = IsRunning'[list[1]]
    <3> SUFFICES ASSUME NEW j \in 2..Len(list) PROVE 1 \in 1..Len(list)
      OBVIOUS
    <3> QED OBVIOUS
  <2> QED BY <1>1, <2>1 DEF LateInv, HeadFirst
<1> QED BY <1>1, <1>2, <1>3 DEF LateInv

LEMMA StartLate ==
  ASSUME AlarmInv, LateInv, AlarmInv', NEW t \in Timers, TimerStart(t)
  PROVE  LateInv'
<1>1. /\ t \notin Linked /\ ReloadValue[t] > 0
      /\ left' = [left EXCEPT ![t] = ReloadValue[t]]
      /\ UNCHANGED <<ReloadValue, cur, busy>>
      /\ elapsed \in Nat /\ ReloadValue[t] \in Nat
  BY AlarmFacts DEF TimerStart, TimerExists
<1>2. CASE list = <<>>
  <2>1. elapsed' = 0 /\ InsertNewHeadTimer(t, ReloadValue[t] + 0, 0)
    BY <1>1, <1>2 DEF TimerStart
  <2>2. 0 <= elapsed
    BY <1>1
  <2> QED BY <1>1, <1>2, <2>1, <2>2, NewHeadLate
<1>3. CASE list # <<>>
  <2>1. elapsed' = elapsed /\ Timestamp[Head(list)] \in Nat
    BY <1>3, AlarmFacts DEF TimerStart
  <2>2. CASE ReloadValue[t] + elapsed < Timestamp[Head(list)]
    <3>1. InsertNewHeadTimer(t, ReloadValue[t] + elapsed, elapsed)
      BY <1>3, <2>2 DEF TimerStart
    <3>2. elapsed <= elapsed
      BY <1>1
    <3> QED BY <1>1, <1>3, <2>1, <2>2, <3>1, <3>2, NewHeadLate
  <2>3. CASE ~(ReloadValue[t] + elapsed < Timestamp[Head(list)])
    <3>1. InsertTimer(t, ReloadValue[t] + elapsed)
      BY <1>3, <2>3 DEF TimerStart
    <3>2. ReloadValue[t] + elapsed >= Timestamp[Head(list)]
      BY <1>1, <2>1, <2>3
    <3> QED BY <1>1, <1>3, <2>1, <3>1, <3>2, InsertLate
  <2> QED BY <2>2, <2>3
<1> QED BY <1>2, <1>3

LEMMA StopLate ==
  ASSUME AlarmInv, LateInv, AlarmInv', NEW t \in Timers, StopIfLinked(t)
  PROVE  LateInv'
<1>1. /\ left' = [left EXCEPT ![t] = 0]
      /\ UNCHANGED <<elapsed, cur, busy>>
  BY DEF StopIfLinked, TimerExists
<1>2. CASE t \in Linked
  BY <1>1, <1>2, StopRunningHeadLate, StopOtherLate DEF StopIfLinked, TimerExists
<1>3. CASE t \notin Linked
  <2>1. UNCHANGED <<list, Timestamp, IsRunning, alarm, pending>>
    BY <1>3 DEF StopIfLinked, TimerExists
  <2>2. \A i \in 1..Len(list) : left'[list[i]] = left[list[i]]
    BY <1>1, <1>3, Positions, AlarmFacts
  <2> QED BY <1>1, <2>1, <2>2, SameLate
<1> QED BY <1>2, <1>3

LEMMA InitInv == Init => IInv
<1> SUFFICES ASSUME Init PROVE IInv
  OBVIOUS
<1>1. AlarmInv
  BY InitAlarm
<1>2. ~InHandler
  BY DEF Init, InHandler
<1>3. Len(list) = 0
  BY EmptySeq DEF Init
<1>4. 1..Len(list) = {} /\ 2..Len(list) = {}
  BY <1>3
<1>5. LateInv
  BY <1>2, <1>4 DEF LateInv, SortedBehindHead, HeadFirst, OffTimeIsNear, LateByRounds
<1> QED BY <1>1, <1>5 DEF IInv

LEMMA StepInv == IInv /\ [Next]_vars => IInv'
<1> SUFFICES ASSUME AlarmInv, LateInv, [Next]_vars PROVE IInv'
  BY DEF IInv
<1>1. AlarmInv'
  BY StepAlarm
<1>2. ASSUME NEW t \in Timers, Call(t) PROVE LateInv'
  <2>1. CASE TimerStart(t)
    BY <1>1, <2>1, StartLate
  <2>2. CASE StopIfLinked(t)
    BY <1>1, <2>2, StopLate
  <2>3. CASE TimerInit(t)
    <3>1. /\ t \notin Linked /\ IsRunning' = [IsRunning EXCEPT ![t] = FALSE]
          /\ UNCHANGED <<list, Timestamp, elapsed, pending, cur, left, busy>>
      BY <2>3 DEF TimerInit, rtcVars
    <3>2. \A i \in 1..Len(list) : IsRunning'[list[i]] = IsRunning[list[i]]
      BY <3>1, Positions, AlarmFacts
    <3> QED BY <3>1, <3>2, SameLate
  <2> QED BY <1>2, <2>1, <2>2, <2>3 DEF Call, TimerStop, TimerSetValue
<1>3. ASSUME UNCHANGED vars PROVE LateInv'
  <2>1. UNCHANGED <<list, Timestamp, IsRunning, elapsed, pending, cur, left, busy>>
    BY <1>3 DEF vars, listVars, rtcVars
  <2> QED BY <2>1, SameLate
<1>4. LateInv'
  BY <1>1, <1>2, <1>3, IrqEnterLate, IrqNextExpiredLate, IrqExitLate, TickLate DEF Next
<1> QED BY <1>1, <1>4 DEF IInv

(* No timer is late by more than a round for each of them.                  *)
LEMMA LatenessBound == IInv => NeverVeryLate
<1> SUFFICES ASSUME AlarmInv, LateInv, NEW t \in Linked
             PROVE  left[t] >= 0 - (MaxBusy + MinTimeout) * Cardinality(Timers)
  BY DEF IInv, NeverVeryLate
<1> DEFINE n == Cardinality(Timers)
<1>1. PICK i \in 1..Len(list) : list[i] = t
  BY AlarmFacts, RangeByPosition
<1>2. /\ Len(list) \in Nat /\ n \in Nat /\ Len(list) <= n
      /\ left[t] \in Int /\ Timestamp[t] \in Nat
  BY <1>1, Positions
<1>3. list # <<>>
  BY <1>1, <1>2, Positions
<1>4. Spent \in Int /\ Spent <= Round
  BY <1>3, SpentBound
<1>5. /\ Round \in Nat /\ Rounds(n - i) >= 0
      /\ Rounds(n - i + 1) = Rounds(n - i) + Round
      /\ Rounds(n - i) = Rounds(n - i - 1) + Round
      /\ Rounds(n - i) \in Int /\ Rounds(n - i - 1) \in Int
  <2>1. n - i \in Int /\ n - i >= 0 /\ n - i - 1 \in Int /\ (n - i - 1) + 1 = n - i
    BY <1>1, <1>2
  <2>2. Round \in Nat /\ Rounds(n - i) \in Int /\ (n - i >= 0 => Rounds(n - i) >= 0)
        /\ Rounds(n - i + 1) = Rounds(n - i) + Round
    BY <2>1, RoundsAdd
  <2>3. Rounds(n - i - 1) \in Int
        /\ Rounds((n - i - 1) + 1) = Rounds(n - i - 1) + Round
    BY <2>1, RoundsAdd
  <2> QED BY <2>1, <2>2, <2>3
<1>6. 0 - left[t] <= Rounds(n - i + 1)
  <2>1. CASE ~InHandler
    <3>1. 0 - left[t] <= Rounds(n - i) + Spent
      BY <1>1, <2>1 DEF LateInv, LateByRounds, Rounds
    <3> QED BY <1>2, <1>4, <1>5, <3>1
  <2>2. CASE InHandler
    <3>1. \/ left[t] = Timestamp[t] - elapsed
          \/ 0 - left[t] <= Rounds(n - i - 1) + Spent
      BY <1>1, <2>2 DEF LateInv, LateByRounds, OnTime, Rounds
    <3>2. elapsed \in Nat /\ elapsed <= Round
      <4>1. elapsed <= busy /\ elapsed \in Nat /\ busy \in 0..MaxBusy
        BY <2>2, AlarmFacts DEF LateInv
      <4> QED BY <4>1, TimerAssumption DEF Round
    <3> QED BY <1>2, <1>4, <1>5, <3>1, <3>2
  <2> QED BY <2>1, <2>2
<1>7. Rounds(n - i + 1) <= (MaxBusy + MinTimeout) * n
  <2>1. n - i + 1 <= n /\ n - i + 1 \in Nat /\ i - 1 \in Nat
    BY <1>1, <1>2
  <2>2. \A k, a, b \in Nat : a <= b => k * a <= k * b
    OBVIOUS
  <2> QED BY <1>2, <1>5, <2>1, <2>2 DEF Rounds, Round
<1>8. (MaxBusy + MinTimeout) * n \in Int
  BY <1>2, TimerAssumption
<1> QED BY <1>2, <1>5, <1>6, <1>7, <1>8

-------------------------------------------------------------------------------
(* How the operations change the set of linked timers                       *)

LEMMA StartLinks ==
  ASSUME AlarmInv, NEW t \in Timers, TimerStart(t)
  PROVE  Linked' = Linked \cup {t}
<1>1. t \notin Linked
  BY DEF TimerStart, TimerExists
<1>2. CASE list' = Cons(t, list)
  <2>1. list \in Seq(Timers) /\ Distinct(list) /\ t \notin Range(list)
    BY <1>1, AlarmFacts
  <2>2. Range(Cons(t, list)) = Range(list) \cup {t}
    BY <2>1, ConsRange
  <2> QED BY <1>2, <2>2 DEF Linked
<1>3. CASE list # <<>> /\ InsertTimer(t, ReloadValue[t] + elapsed)
  <2>1. PICK i \in 2..(Len(list) + 1) : list' = InsertAt(list, i, t)
    BY <1>3 DEF InsertTimer
  <2>2. i \in 1..(Len(list) + 1)
    BY AlarmFacts, LenProperties
  <2>3. Range(InsertAt(list, i, t)) = Range(list) \cup {t}
    BY <1>1, <2>2, AlarmFacts, InsertAtRange
  <2> QED BY <2>1, <2>3 DEF Linked
<1> QED BY <1>2, <1>3 DEF TimerStart, TimerExists, InsertNewHeadTimer

LEMMA StopUnlinks ==
  ASSUME AlarmInv, NEW t \in Timers, StopIfLinked(t)
  PROVE  Linked' = Linked \ {t}
<1>1. CASE t \notin Linked
  BY <1>1 DEF StopIfLinked, TimerExists, Linked
<1>2. CASE t \in Linked /\ StopRunningHead(t)
  <2>1. t = Head(list) /\ list' = Tail(list) /\ list # <<>>
    BY <1>2, AlarmFacts DEF StopRunningHead
  <2>2. Range(Tail(list)) = Range(list) \ {t}
    BY <2>1, AlarmFacts, TailRange
  <2> QED BY <2>1, <2>2 DEF Linked
<1>3. CASE t \in Linked /\ StopOther(t)
  <2>1. PICK i \in 1..Len(list) : list[i] = t /\ list' = RemoveAt(list, i)
    BY <1>3 DEF StopOther
  <2>2. Range(RemoveAt(list, i)) = Range(list) \ {t}
    BY <2>1, AlarmFacts, RemoveAtRange
  <2> QED BY <2>1, <2>2 DEF Linked
<1> QED BY <1>1, <1>2, <1>3 DEF StopIfLinked, TimerExists

LEMMA PopUnlinks ==
  ASSUME AlarmInv, list # <<>>, PopHead
  PROVE  Linked' = Linked \ {Head(list)}
<1>1. list' = Tail(list)
  BY DEF PopHead
<1>2. Range(Tail(list)) = Range(list) \ {Head(list)}
  BY AlarmFacts, TailRange
<1> QED BY <1>1, <1>2 DEF Linked

(* The interrupt handler runs no callback before its time: the alarm that   *)
(* was taken was programmed for the head, which is the timer it pops, and   *)
(* a timer found expired is past its deadline.                              *)
LEMMA PopNotEarly ==
  ASSUME AlarmInv, IrqEnter \/ IrqNextExpired, list # <<>>
  PROVE  left[Head(list)] <= McuWakeUpTimeCal
<1> DEFINE h == Head(list)
<1>1. /\ h \in Timers /\ h \in Linked /\ left[h] \in Int /\ Timestamp[h] \in Nat
      /\ elapsed \in Nat /\ McuWakeUpTimeCal \in Nat
  BY AlarmFacts, TimerAssumption
<1>2. left[h] <= Timestamp[h] - elapsed
  BY <1>1 DEF AlarmInv
<1> HIDE DEF h
<1>3. CASE IrqEnter
  <2>1. ~InHandler /\ pending
    BY <1>3 DEF IrqEnter
  <2>2. IsRunning[h]
    BY <2>1, Zenon DEF AlarmInv, h
  <2>3. HeadOwnsAlarm
    BY <2>2, Zenon DEF AlarmInv, h
  <2>4. elapsed >= Timestamp[h] - McuWakeUpTimeCal
    BY <2>1, <2>3 DEF HeadOwnsAlarm, h
  <2> QED BY <1>1, <1>2, <2>4 DEF h
<1>4. CASE IrqNextExpired
  <2>1. Timestamp[h] < elapsed
    BY <1>4 DEF IrqNextExpired, HeadExpired, h
  <2> QED BY <1>1, <1>2, <2>1 DEF h
<1> QED BY <1>3, <1>4

(* A step of the timer server is a step of the promise, or a stutter.       *)
LEMMA StepRefines ==
  AlarmInv /\ [Next]_vars => [Promise!Next]_(Promise!promiseVars)
<1> USE DEF Promise!Next, Promise!promiseVars
<1> SUFFICES ASSUME AlarmInv, [Next]_vars
             PROVE  Promise!Next \/ UNCHANGED <<Linked, left, cur>>
  OBVIOUS
<1>1. ASSUME NEW t \in Timers, Call(t)
      PROVE  Promise!Arm(t) \/ Promise!Disarm(t) \/ UNCHANGED <<Linked, left, cur>>
  <2>1. CASE TimerStart(t)
    <3>1. /\ t \notin Linked /\ ReloadValue[t] > 0 /\ UNCHANGED cur
          /\ left' = [left EXCEPT ![t] = ReloadValue[t]]
      BY <2>1 DEF TimerStart, TimerExists
    <3>2. ReloadValue[t] \in Delays
      <4>1. ReloadValue[t] \in Delays \cup {0}
        BY DEF AlarmInv
      <4> QED BY <4>1, <3>1
    <3> QED BY <2>1, <3>1, <3>2, StartLinks DEF Promise!Arm
  <2>2. CASE StopIfLinked(t)
    <3>1. left' = [left EXCEPT ![t] = 0] /\ UNCHANGED cur
      BY <2>2 DEF StopIfLinked, TimerExists
    <3>2. Linked' = Linked \ {t}
      BY <2>2, StopUnlinks
    <3>3. CASE t \in Linked
      BY <3>1, <3>2, <3>3 DEF Promise!Disarm
    <3>4. CASE t \notin Linked
      <4>1. left[t] = 0 /\ Linked' = Linked
        BY <3>2, <3>4 DEF AlarmInv
      <4> QED BY <3>1, <4>1, AlarmFacts
    <3> QED BY <3>3, <3>4
  <2>3. CASE TimerInit(t)
    BY <2>3 DEF TimerInit, Linked
  <2> QED BY <1>1, <2>1, <2>2, <2>3 DEF Call, TimerStop, TimerSetValue
<1>2. ASSUME IrqEnter \/ IrqNextExpired, list # <<>>
      PROVE  Promise!Expire(Head(list)) /\ Head(list) \in Timers
  <2>1. PopHead
    BY <1>2 DEF IrqEnter, IrqNextExpired
  <2>2. Linked' = Linked \ {Head(list)} /\ Head(list) \in Linked /\ Head(list) \in Timers
    BY <1>2, <2>1, PopUnlinks, AlarmFacts
  <2>3. left[Head(list)] <= McuWakeUpTimeCal
    BY <1>2, PopNotEarly
  <2> QED BY <2>1, <2>2, <2>3 DEF PopHead, Promise!Expire
<1>3. ASSUME IrqEnter, list = <<>>
      PROVE  UNCHANGED <<Linked, left, cur>>
  BY <1>3 DEF IrqEnter, Linked
<1>4. ASSUME IrqExit
      PROVE  Promise!Return
  BY <1>4 DEF IrqExit, InHandler, Linked, Promise!Return
<1>5. ASSUME Tick
      PROVE  Promise!Elapse
  BY <1>5 DEF Tick, listVars, Linked, Promise!Elapse
<1>6. CASE UNCHANGED vars
  BY <1>6 DEF vars, listVars, Linked
<1> QED BY <1>1, <1>2, <1>3, <1>4, <1>5, <1>6 DEF Next, IrqNextExpired, HeadExpired

-------------------------------------------------------------------------------
(* What the timer server guarantees, whatever its constants                 *)

(* The invariant, hence everything below, holds in every reachable state.   *)
THEOREM Invariance == Spec => []IInv
<1> QED BY InitInv, StepInv, PTL DEF Spec

(* Every field keeps its type: no timestamp goes below zero when the timer  *)
(* context moves, and TimerIrqHandler returns within its bound.             *)
THEOREM TypeCorrect == Spec => []TypeOK
<1>1. IInv => TypeOK
  BY DEF IInv, AlarmInv
<1> QED BY <1>1, Invariance, PTL

(* The Next links never make a cycle: TimerStart links no timer twice.      *)
THEOREM Acyclic == Spec => []ListIsAcyclic
<1>1. IInv => ListIsAcyclic
  BY DEF IInv, AlarmInv
<1> QED BY <1>1, Invariance, PTL

(* No timer is lost: the head of the list always has its alarm.             *)
THEOREM HeadIsServed == Spec => []AlarmServesHead
<1>1. ASSUME AlarmInv PROVE AlarmServesHead
  <2> SUFFICES ASSUME ~InHandler, list # <<>>
               PROVE  /\ IsRunning[Head(list)]
                      /\ \/ pending
                         \/ /\ alarm \in Nat /\ alarm > elapsed
                            /\ alarm \in (Timestamp[Head(list)] - McuWakeUpTimeCal)
                                         ..Timestamp[Head(list)]
    BY DEF AlarmServesHead
  <2>1. IsRunning[Head(list)]
    BY <1>1, Zenon DEF AlarmInv
  <2>2. HeadOwnsAlarm
    BY <1>1, <2>1, Zenon DEF AlarmInv
  <2> QED BY <2>1, <2>2 DEF HeadOwnsAlarm
<1>2. IInv => AlarmServesHead
  BY <1>1 DEF IInv
<1> QED BY <1>2, Invariance, PTL

(* No timer that is linked is overdue by more than a round for each timer:  *)
(* timers started, stopped and expired around it put it off only so often.  *)
THEOREM LatenessBounded == Spec => []NeverVeryLate
<1> QED BY LatenessBound, Invariance, PTL

(* No callback is run early, however timers are started and stopped.        *)
THEOREM CallbacksNotEarly == Spec => NeverEarly
<1>1. IInv /\ [Next]_vars
        => [(IrqEnter \/ IrqNextExpired) /\ list # <<>>
            => left[Head(list)] <= McuWakeUpTimeCal]_vars
  BY PopNotEarly DEF IInv
<1> QED BY <1>1, Invariance, PTL DEF Spec, NeverEarly

(* The list, the RTC alarm and its interrupt implement one-shot timers.     *)
THEOREM KeepsPromise == Spec => PromiseSafe
<1>1. Init => Promise!Init
  <2> SUFFICES ASSUME Init PROVE Promise!Init
    OBVIOUS
  <2>1. AlarmInv /\ list = <<>>
    BY InitAlarm DEF Init
  <2>2. Linked = {}
    BY <2>1, AlarmFacts
  <2> QED BY <2>2 DEF Init, Promise!Init
<1>2. IInv /\ [Next]_vars => [Promise!Next]_(Promise!promiseVars)
  BY StepRefines DEF IInv
<1> QED BY <1>1, <1>2, Invariance, PTL DEF Spec, PromiseSafe, Promise!SafeSpec
===============================================================================

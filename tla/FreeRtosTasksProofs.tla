------------------------- MODULE FreeRtosTasksProofs ------------------------
(***************************************************************************)
(* What the operations of the kernel do to its lists, for every set of     *)
(* tasks, every priority and every width of the counters.  Between two     *)
(* steps the lists are in order (Lists), every living task is in one of    *)
(* them by its generic item (Placed), a task that waits sleeps (Waits) and *)
(* none sleeps past its time (NoOverdueSleeper); each operation of tasks.c *)
(* keeps this, and a lemma says what it moves where.  A fold over a list   *)
(* is followed step by step (Unfolding), by the induction that the least   *)
(* element of a set of numbers gives.                                      *)
(***************************************************************************)
EXTENDS FreeRtosTasks, SequenceTheorems, FiniteSetTheorems,
        WellFoundedInduction, TLAPS

-----------------------------------------------------------------------------
(* Numbers.                                                                *)

LEMMA Least ==
  ASSUME NEW S \in SUBSET Nat, S # {}
  PROVE  \E m \in S : \A n \in S : m <= n
<1>1. PICK m \in S : \A n \in S : <<n, m>> \notin OpToRel(<, Nat)
  BY WFMin, NatLessThanWellFounded, Zenon
<1>2. \A n \in S : ~(n < m)
  <2>1. \A n \in S : <<n, m>> \in Nat \X Nat
    BY <1>1
  <2> QED
    BY <1>1, <2>1, Zenon DEF OpToRel
<1>3. \A n \in S : n \in Nat
  OBVIOUS
<1> QED
  BY <1>2, <1>3

LEMMA Induction ==
  ASSUME NEW S, 0 \in S, \A n \in Nat : n \in S => n + 1 \in S
  PROVE  Nat \subseteq S
<1> SUFFICES ASSUME Nat \ S # {} PROVE FALSE
  OBVIOUS
<1>1. PICK m \in Nat \ S : \A n \in Nat \ S : m <= n
  BY Least
<1>2. m - 1 \in Nat
  BY <1>1
<1>3. m - 1 \in S
  BY <1>1, <1>2
<1> QED
  BY <1>1, <1>2, <1>3

LEMMA MinOf ==
  ASSUME NEW S \in SUBSET Nat, S # {}
  PROVE  Min(S) \in S /\ \A n \in S : Min(S) <= n
  BY Least DEF Min

LEMMA MaxOf ==
  ASSUME NEW b \in Nat, NEW S \in SUBSET (0..b), S # {}
  PROVE  Max(S) \in S /\ \A n \in S : n <= Max(S)
<1> DEFINE D == {b - n : n \in S}
<1>0. \A n \in S : n \in 0..b
  OBVIOUS
<1>1. D \in SUBSET Nat /\ D # {}
  <2>1. \A n \in S : b - n \in Nat
    BY <1>0
  <2> QED
    BY <2>1
<1>2. PICK d \in D : \A e \in D : d <= e
  BY <1>1, Least
<1>3. PICK m \in S : d = b - m
  BY <1>2
<1>4. \A n \in S : b - n \in D
  OBVIOUS
<1>5. \A n \in S : m >= n
  BY <1>0, <1>2, <1>3, <1>4
<1> QED
  BY <1>0, <1>3, <1>5 DEF Max

(* Sequences.  An item is in a sequence at a position.                     *)
Once(s) == \A i, j \in 1..Len(s) : s[i] = s[j] => i = j

Ordered(s, key) == \A i, j \in 1..Len(s) : i <= j => key[s[i]] <= key[s[j]]

LEMMA ToSetIs ==
  ASSUME NEW S, NEW s \in Seq(S)
  PROVE  /\ ToSet(s) = {s[i] : i \in 1..Len(s)} /\ ToSet(s) \subseteq S
         /\ \A x : Contains(s, x) <=> x \in ToSet(s)
         /\ s = <<>> <=> ToSet(s) = {}
<1>1. DOMAIN s = 1..Len(s) /\ Len(s) \in Nat /\ \A i \in 1..Len(s) : s[i] \in S
  BY LenProperties, ElementOfSeq
<1>2. s # <<>> => 1 \in 1..Len(s)
  BY <1>1, EmptySeq
<1>3. s = <<>> => 1..Len(s) = {}
  BY EmptySeq
<1> QED
  BY <1>1, <1>2, <1>3 DEF ToSet, Contains

LEMMA DistinctIsOnce ==
  ASSUME NEW S, NEW s \in Seq(S)
  PROVE  Distinct(s) <=> Once(s)
<1>1. Len(s) \in Nat /\ s \in [1..Len(s) -> S]
  BY LenProperties
<1>2. ToSet(s) = {s[i] : i \in 1..Len(s)}
  BY ToSetIs
<1>3. s \in [1..Len(s) -> ToSet(s)]
  BY <1>1, <1>2
<1>4. s \in Surjection(1..Len(s), ToSet(s))
  BY <1>2, <1>3 DEF Surjection
<1>5. IsFiniteSet(1..Len(s)) /\ Cardinality(1..Len(s)) = Len(s)
  <2>1. IsFiniteSet(1..Len(s))
        /\ Cardinality(1..Len(s)) = IF 1 > Len(s) THEN 0 ELSE Len(s) - 1 + 1
    BY <1>1, FS_Interval
  <2> QED
    BY <2>1, <1>1
<1>6. Cardinality(ToSet(s)) = Cardinality(1..Len(s))
      <=> s \in Injection(1..Len(s), ToSet(s))
  BY <1>4, <1>5, FS_Surjection
<1>7. s \in Injection(1..Len(s), ToSet(s)) <=> Once(s)
  BY <1>3 DEF Once, Injection, IsInjective
<1>8. Distinct(s) <=> Cardinality(ToSet(s)) = Cardinality(1..Len(s))
  BY <1>5 DEF Distinct
<1> QED
  BY <1>6, <1>7, <1>8, Zenon

LEMMA SortedIsOrdered ==
  ASSUME NEW S, NEW s \in Seq(S), NEW key \in [S -> Int]
  PROVE  Sorted(s, key) <=> Ordered(s, key)
<1>1. Len(s) \in Nat /\ \A i \in 1..Len(s) : s[i] \in S /\ key[s[i]] \in Int
  BY LenProperties, ElementOfSeq
<1>2. ASSUME Ordered(s, key) PROVE Sorted(s, key)
  BY <1>1, <1>2 DEF Ordered, Sorted
<1>3. ASSUME Sorted(s, key) PROVE Ordered(s, key)
  <2> DEFINE T == {d \in Nat : \A i \in 1..Len(s) :
                     i + d \in 1..Len(s) => key[s[i]] <= key[s[i + d]]}
  <2>1. 0 \in T
    BY <1>1
  <2>2. ASSUME NEW d \in Nat, d \in T PROVE d + 1 \in T
    <3>1. ASSUME NEW i \in 1..Len(s), i + (d + 1) \in 1..Len(s)
          PROVE  key[s[i]] <= key[s[i + (d + 1)]]
      <4>1. /\ i + d \in 1..(Len(s) - 1) /\ i + d \in 1..Len(s)
            /\ (i + d) + 1 = i + (d + 1)
        BY <1>1, <3>1
      <4>2. key[s[i]] <= key[s[i + d]]
        BY <2>2, <4>1
      <4>3. key[s[i + d]] <= key[s[(i + d) + 1]]
        BY <1>3, <4>1 DEF Sorted
      <4>4. /\ key[s[i]] \in Int /\ key[s[i + d]] \in Int
            /\ key[s[(i + d) + 1]] \in Int
        BY <1>1, <3>1, <4>1
      <4> QED
        BY <4>1, <4>2, <4>3, <4>4
    <3> QED
      BY <3>1
  <2>3. Nat \subseteq T
    <3> HIDE DEF T
    <3> QED
      BY <2>1, <2>2, Induction
  <2>4. ASSUME NEW i \in 1..Len(s), NEW j \in 1..Len(s), i <= j
        PROVE  key[s[i]] <= key[s[j]]
    <3>1. j - i \in Nat /\ i + (j - i) = j
      BY <1>1, <2>4
    <3>2. j - i \in T
      BY <2>3, <3>1
    <3> QED
      BY <3>1, <3>2
  <2> QED
    BY <2>4 DEF Ordered
<1> QED
  BY <1>2, <1>3

LEMMA InsertAtIs ==
  ASSUME NEW S, NEW s \in Seq(S), NEW e \in S, NEW p \in 1..(Len(s) + 1)
  PROVE  /\ InsertAt(s, p, e) \in Seq(S)
         /\ Len(InsertAt(s, p, e)) = Len(s) + 1
         /\ \A i \in 1..(Len(s) + 1) : InsertAt(s, p, e)[i] =
              IF i < p THEN s[i] ELSE IF i = p THEN e ELSE s[i - 1]
<1> DEFINE a == SubSeq(s, 1, p - 1)
           c == SubSeq(s, p, Len(s))
<1>1. Len(s) \in Nat /\ \A i \in 1..Len(s) : s[i] \in S
  BY LenProperties, ElementOfSeq
<1>2. /\ a \in Seq(S) /\ Len(a) = p - 1 /\ \A i \in 1..(p - 1) : a[i] = s[i]
  <2>1. /\ 1 \in Int /\ p - 1 \in Int /\ \A i \in 1..(p - 1) : s[i] \in S
        /\ p - 1 - 1 + 1 = p - 1 /\ (p - 1 < 1 => p - 1 = 0)
    BY <1>1
  <2>2. /\ a \in Seq(S) /\ Len(a) = IF 1 <= p - 1 THEN p - 1 - 1 + 1 ELSE 0
        /\ \A i \in 1..(p - 1 - 1 + 1) : a[i] = s[1 + i - 1]
    BY <2>1, SubSeqProperties
  <2> QED
    BY <2>1, <2>2
<1>3. /\ c \in Seq(S) /\ Len(c) = Len(s) - p + 1
      /\ \A i \in 1..(Len(s) - p + 1) : c[i] = s[p + i - 1]
  <2>1. p \in Int /\ Len(s) \in Int /\ \A i \in p..Len(s) : s[i] \in S
    BY <1>1
  <2>2. /\ c \in Seq(S) /\ Len(c) = IF p <= Len(s) THEN Len(s) - p + 1 ELSE 0
        /\ \A i \in 1..(Len(s) - p + 1) : c[i] = s[p + i - 1]
    BY <2>1, SubSeqProperties
  <2> QED
    BY <1>1, <2>2
<1> HIDE DEF a, c
<1> DEFINE h == a \o <<e>>
           r == h \o c
<1>4. <<e>> \in Seq(S) /\ Len(<<e>>) = 1 /\ <<e>>[1] = e
  OBVIOUS
<1>5. /\ h \in Seq(S) /\ Len(h) = p
      /\ \A i \in 1..p : h[i] = IF i < p THEN s[i] ELSE e
  <2>1. /\ h \in Seq(S) /\ Len(h) = Len(a) + Len(<<e>>)
        /\ \A i \in 1..(Len(a) + Len(<<e>>)) : h[i] =
             IF i <= Len(a) THEN a[i] ELSE <<e>>[i - Len(a)]
    BY <1>2, <1>4, ConcatProperties
  <2> QED
    BY <1>2, <1>4, <2>1
<1> HIDE DEF h
<1>6. /\ r \in Seq(S)
      /\ Len(r) = p + (Len(s) - p + 1)
      /\ \A i \in 1..(p + (Len(s) - p + 1)) : r[i] =
           IF i <= p THEN h[i] ELSE c[i - p]
  <2>1. /\ r \in Seq(S)
        /\ Len(r) = Len(h) + Len(c)
        /\ \A i \in 1..(Len(h) + Len(c)) : r[i] =
             IF i <= Len(h) THEN h[i]
             ELSE c[i - Len(h)]
    BY <1>3, <1>5, ConcatProperties
  <2> QED
    BY <1>3, <1>5, <2>1
<1>7. InsertAt(s, p, e) = r
  BY DEF InsertAt, a, c, h, r
<1> HIDE DEF r
<1>8. p + (Len(s) - p + 1) = Len(s) + 1
  BY <1>1
<1>9. ASSUME NEW i \in 1..(Len(s) + 1)
      PROVE  r[i] =
                IF i < p THEN s[i] ELSE IF i = p THEN e ELSE s[i - 1]
  <2>0. r[i] = IF i <= p THEN h[i] ELSE c[i - p]
    BY <1>6, <1>8
  <2>1. CASE i <= p
    <3>1. i \in 1..p
      BY <2>1
    <3>2. h[i] = IF i < p THEN s[i] ELSE e
      BY <1>5, <3>1
    <3> QED
      BY <1>1, <2>0, <2>1, <3>2
  <2>2. CASE i > p
    <3>1. i - p \in 1..(Len(s) - p + 1) /\ p + (i - p) - 1 = i - 1
      BY <1>1, <2>2
    <3>2. c[i - p] = s[i - 1]
      BY <1>3, <3>1
    <3> QED
      BY <1>1, <2>0, <2>2, <3>2
  <2> QED
    BY <1>1, <2>1, <2>2
<1> QED
  BY <1>6, <1>7, <1>8, <1>9

LEMMA RemoveAtIs ==
  ASSUME NEW S, NEW s \in Seq(S), NEW p \in 1..Len(s)
  PROVE  /\ RemoveAt(s, p) \in Seq(S)
         /\ Len(RemoveAt(s, p)) = Len(s) - 1
         /\ \A i \in 1..(Len(s) - 1) :
              RemoveAt(s, p)[i] = IF i < p THEN s[i] ELSE s[i + 1]
<1> DEFINE a == SubSeq(s, 1, p - 1)
           c == SubSeq(s, p + 1, Len(s))
<1>1. Len(s) \in Nat /\ \A i \in 1..Len(s) : s[i] \in S
  BY LenProperties, ElementOfSeq
<1>2. /\ a \in Seq(S) /\ Len(a) = p - 1 /\ \A i \in 1..(p - 1) : a[i] = s[i]
  <2>1. /\ 1 \in Int /\ p - 1 \in Int /\ \A i \in 1..(p - 1) : s[i] \in S
        /\ p - 1 - 1 + 1 = p - 1 /\ (p - 1 < 1 => p - 1 = 0)
    BY <1>1
  <2>2. /\ a \in Seq(S) /\ Len(a) = IF 1 <= p - 1 THEN p - 1 - 1 + 1 ELSE 0
        /\ \A i \in 1..(p - 1 - 1 + 1) : a[i] = s[1 + i - 1]
    BY <2>1, SubSeqProperties
  <2> QED
    BY <2>1, <2>2
<1>3. /\ c \in Seq(S) /\ Len(c) = Len(s) - p
      /\ \A i \in 1..(Len(s) - p) : c[i] = s[p + i]
  <2>1. /\ p + 1 \in Int /\ Len(s) \in Int /\ \A i \in (p + 1)..Len(s) : s[i] \in S
        /\ Len(s) - (p + 1) + 1 = Len(s) - p
    BY <1>1
  <2>2. /\ c \in Seq(S)
        /\ Len(c) = IF p + 1 <= Len(s) THEN Len(s) - (p + 1) + 1 ELSE 0
        /\ \A i \in 1..(Len(s) - (p + 1) + 1) : c[i] = s[(p + 1) + i - 1]
    BY <2>1, SubSeqProperties
  <2> QED
    BY <1>1, <2>1, <2>2
<1> HIDE DEF a, c
<1> DEFINE r == a \o c
<1>4. /\ r \in Seq(S) /\ Len(r) = Len(a) + Len(c)
      /\ \A i \in 1..(Len(a) + Len(c)) :
           r[i] = IF i <= Len(a) THEN a[i] ELSE c[i - Len(a)]
  BY <1>2, <1>3, ConcatProperties
<1>5. RemoveAt(s, p) = r
  BY DEF RemoveAt, a, c
<1> HIDE DEF r
<1>6. Len(a) + Len(c) = Len(s) - 1
  BY <1>1, <1>2, <1>3
<1>7. ASSUME NEW i \in 1..(Len(s) - 1)
      PROVE  r[i] = IF i < p THEN s[i] ELSE s[i + 1]
  <2>0. r[i] = IF i <= p - 1 THEN a[i] ELSE c[i - (p - 1)]
    BY <1>2, <1>4, <1>6
  <2>1. CASE i < p
    <3>1. i \in 1..(p - 1)
      BY <2>1
    <3>2. a[i] = s[i]
      BY <1>2, <3>1
    <3> QED
      BY <1>1, <2>0, <2>1, <3>1, <3>2
  <2>2. CASE i >= p
    <3>1. i - (p - 1) \in 1..(Len(s) - p) /\ p + (i - (p - 1)) = i + 1
      BY <1>1, <2>2
    <3>2. c[i - (p - 1)] = s[i + 1]
      BY <1>3, <3>1
    <3> QED
      BY <1>1, <2>0, <2>2, <3>2
  <2> QED
    BY <1>1, <2>1, <2>2
<1> QED
  BY <1>4, <1>5, <1>6, <1>7

(* An item that is not yet in the sequence goes in at a place.             *)
Put(s, p, e, r) ==
  /\ Len(r) = Len(s) + 1
  /\ \A i \in 1..(Len(s) + 1) :
       r[i] = IF i < p THEN s[i] ELSE IF i = p THEN e ELSE s[i - 1]

LEMMA InsertAtPut ==
  ASSUME NEW S, NEW s \in Seq(S), NEW e \in S, NEW p \in 1..(Len(s) + 1)
  PROVE  InsertAt(s, p, e) \in Seq(S) /\ Put(s, p, e, InsertAt(s, p, e))
<1>1. /\ InsertAt(s, p, e) \in Seq(S) /\ Len(InsertAt(s, p, e)) = Len(s) + 1
      /\ \A i \in 1..(Len(s) + 1) :
           InsertAt(s, p, e)[i] = IF i < p THEN s[i] ELSE IF i = p THEN e ELSE s[i - 1]
  BY InsertAtIs
<1> QED
  BY <1>1 DEF Put

LEMMA Inserted ==
  ASSUME NEW S, NEW s \in Seq(S), Once(s), NEW e \in S, e \notin ToSet(s),
         NEW p \in 1..(Len(s) + 1), NEW r \in Seq(S), Put(s, p, e, r)
  PROVE  /\ Once(r) /\ ToSet(r) = ToSet(s) \cup {e}
<1>1. /\ Len(s) \in Nat /\ ToSet(s) = {s[i] : i \in 1..Len(s)}
      /\ Len(r) = Len(s) + 1
      /\ \A i \in 1..(Len(s) + 1) : r[i] =
           IF i < p THEN s[i] ELSE IF i = p THEN e ELSE s[i - 1]
  BY LenProperties, ToSetIs DEF Put
<1>2. ToSet(r) = {r[i] : i \in 1..(Len(s) + 1)}
  BY <1>1, ToSetIs
<1>3. \A i \in 1..Len(s) : s[i] # e
  BY <1>1
<1>4. ASSUME NEW i \in 1..(Len(s) + 1), NEW j \in 1..(Len(s) + 1), r[i] = r[j]
      PROVE  i = j
  <2> DEFINE at(k) == IF k < p THEN k ELSE k - 1
  <2>1. \A k \in 1..(Len(s) + 1) : k # p => at(k) \in 1..Len(s) /\ r[k] = s[at(k)]
    BY <1>1
  <2>2. r[p] = e
    BY <1>1
  <2>3. \A k, m \in 1..(Len(s) + 1) : k # p /\ m # p /\ at(k) = at(m) => k = m
    BY <1>1
  <2> HIDE DEF at
  <2>4. CASE i = p \/ j = p
    BY <1>3, <1>4, <2>1, <2>2, <2>4
  <2>5. CASE i # p /\ j # p
    BY <1>4, <2>1, <2>3, <2>5 DEF Once
  <2> QED
    BY <2>4, <2>5
<1>5. Once(r)
  BY <1>1, <1>4 DEF Once
<1>6. ToSet(r) \subseteq ToSet(s) \cup {e}
  <2>1. ASSUME NEW i \in 1..(Len(s) + 1) PROVE r[i] \in ToSet(s) \cup {e}
    <3>1. i < p => i \in 1..Len(s)
      BY <1>1
    <3>2. i > p => i - 1 \in 1..Len(s)
      BY <1>1
    <3> QED
      BY <1>1, <3>1, <3>2
  <2> QED
    BY <1>2, <2>1
<1>7. ToSet(s) \cup {e} \subseteq ToSet(r)
  <2>1. r[p] = e
    BY <1>1
  <2>2. ASSUME NEW i \in 1..Len(s)
        PROVE  \E j \in 1..(Len(s) + 1) : s[i] = r[j]
    <3>1. CASE i < p
      <4>1. r[i] = s[i] /\ i \in 1..(Len(s) + 1)
        BY <1>1, <3>1
      <4> QED
        BY <4>1
    <3>2. CASE i >= p
      <4>1. r[i + 1] = s[i] /\ i + 1 \in 1..(Len(s) + 1)
        BY <1>1, <3>2
      <4> QED
        BY <4>1
    <3> QED
      BY <1>1, <3>1, <3>2
  <2> QED
    BY <1>1, <1>2, <2>1, <2>2
<1> QED
  BY <1>5, <1>6, <1>7

LEMMA InsertedOrder ==
  ASSUME NEW S, NEW s \in Seq(S), NEW e, NEW p \in 1..(Len(s) + 1), NEW r,
         Put(s, p, e, r), NEW key, Ordered(s, key), key[e] <= key[e],
         \A i \in 1..Len(s) : IF i < p THEN key[s[i]] <= key[e]
                                       ELSE key[e] <= key[s[i]]
  PROVE  Ordered(r, key)
<1>0. /\ Len(s) \in Nat /\ Len(r) = Len(s) + 1
      /\ \A i \in 1..(Len(s) + 1) : r[i] =
           IF i < p THEN s[i] ELSE IF i = p THEN e ELSE s[i - 1]
  BY LenProperties DEF Put
<1>1. ASSUME NEW i \in 1..(Len(s) + 1), NEW j \in 1..(Len(s) + 1), i <= j
      PROVE  key[r[i]] <= key[r[j]]
  <2>1. \A k \in 1..(Len(s) + 1) : k # p =>
          IF k < p THEN k \in 1..Len(s) ELSE k - 1 \in 1..Len(s)
    BY <1>0
  <2>2. CASE i = p \/ j = p
    <3>1. CASE i = p /\ j = p
      <4>1. r[i] = e /\ r[j] = e
        BY <1>0, <3>1
      <4> QED
        BY <4>1
    <3>2. CASE i = p /\ j # p
      <4>1. j - 1 \in 1..Len(s) /\ ~(j - 1 < p) /\ r[j] = s[j - 1] /\ r[i] = e
        BY <1>0, <1>1, <3>2
      <4> QED
        BY <4>1
    <3>3. CASE i # p /\ j = p
      <4>1. i \in 1..Len(s) /\ i < p /\ r[i] = s[i] /\ r[j] = e
        BY <1>0, <1>1, <3>3
      <4> QED
        BY <4>1
    <3> QED
      BY <2>2, <3>1, <3>2, <3>3
  <2>3. CASE i # p /\ j # p
    <3> DEFINE at(k) == IF k < p THEN k ELSE k - 1
    <3>1. /\ at(i) \in 1..Len(s) /\ at(j) \in 1..Len(s) /\ at(i) <= at(j)
          /\ r[i] = s[at(i)] /\ r[j] = s[at(j)]
      BY <1>0, <1>1, <2>3
    <3> QED
      BY <3>1 DEF Ordered
  <2> QED
    BY <2>2, <2>3
<1> QED
  BY <1>0, <1>1 DEF Ordered


LEMMA OneTakenOut ==
  ASSUME NEW S, NEW s \in Seq(S), Once(s), NEW p \in 1..Len(s)
  PROVE  LET r == RemoveAt(s, p)
         IN /\ r \in Seq(S) /\ Len(r) = Len(s) - 1
            /\ Once(r) /\ ToSet(r) = ToSet(s) \ {s[p]}
            /\ \A key : Ordered(s, key) => Ordered(r, key)
<1> DEFINE r == RemoveAt(s, p)
<1>1. Len(s) \in Nat /\ ToSet(s) = {s[i] : i \in 1..Len(s)}
  BY LenProperties, ToSetIs
<1>2. /\ r \in Seq(S) /\ Len(r) = Len(s) - 1
      /\ \A i \in 1..(Len(s) - 1) : r[i] = IF i < p THEN s[i] ELSE s[i + 1]
  BY RemoveAtIs
<1> HIDE DEF r
<1>3. ToSet(r) = {r[i] : i \in 1..(Len(s) - 1)}
  BY <1>2, ToSetIs
<1> DEFINE at(i) == IF i < p THEN i ELSE i + 1
<1>4. \A i \in 1..(Len(s) - 1) : at(i) \in 1..Len(s) /\ r[i] = s[at(i)] /\ at(i) # p
  BY <1>1, <1>2
<1>5. \A i, j \in 1..(Len(s) - 1) : /\ at(i) = at(j) => i = j
                                    /\ i <= j => at(i) <= at(j)
  BY <1>1
<1>6. \A k \in 1..Len(s) : k # p => \E i \in 1..(Len(s) - 1) : at(i) = k
  <2>1. ASSUME NEW k \in 1..Len(s), k # p
        PROVE  \E i \in 1..(Len(s) - 1) : at(i) = k
    <3>1. CASE k < p
      <4>1. k \in 1..(Len(s) - 1) /\ at(k) = k
        BY <1>1, <3>1
      <4> QED
        BY <4>1
    <3>2. CASE k > p
      <4>1. k - 1 \in 1..(Len(s) - 1) /\ at(k - 1) = k
        BY <1>1, <3>2
      <4> QED
        BY <4>1
    <3> QED
      BY <1>1, <2>1, <3>1, <3>2
  <2> QED
    BY <2>1
<1> HIDE DEF at
<1>7. Once(r)
  <2>1. ASSUME NEW i \in 1..(Len(s) - 1), NEW j \in 1..(Len(s) - 1), r[i] = r[j]
        PROVE  i = j
    <3>1. at(i) = at(j)
      BY <1>4, <2>1 DEF Once
    <3> QED
      BY <1>5, <3>1
  <2> QED
    BY <1>2, <2>1 DEF Once
<1>8. \A key : Ordered(s, key) => Ordered(r, key)
  <2>1. ASSUME NEW key, Ordered(s, key),
               NEW i \in 1..(Len(s) - 1), NEW j \in 1..(Len(s) - 1), i <= j
        PROVE  key[r[i]] <= key[r[j]]
    BY <1>4, <1>5, <2>1 DEF Ordered
  <2> QED
    BY <1>2, <2>1 DEF Ordered
<1>9. ToSet(r) = ToSet(s) \ {s[p]}
  <2>1. \A i \in 1..(Len(s) - 1) : r[i] \in ToSet(s) \ {s[p]}
    BY <1>1, <1>4 DEF Once
  <2>2. \A k \in 1..Len(s) : s[k] # s[p] => \E i \in 1..(Len(s) - 1) : r[i] = s[k]
    BY <1>4, <1>6
  <2>3. ASSUME NEW x \in ToSet(s), x # s[p] PROVE x \in ToSet(r)
    BY <1>1, <1>3, <2>2, <2>3
  <2> QED
    BY <1>3, <2>1, <2>3
<1> QED
  BY <1>2, <1>7, <1>8, <1>9 DEF r

LEMMA Found ==
  ASSUME NEW S, NEW s \in Seq(S), NEW e \in ToSet(s)
  PROVE  LET p == SelectInSeq(s, LAMBDA x : x = e) IN p \in 1..Len(s) /\ s[p] = e
<1> DEFINE I == {i \in 1..Len(s) : s[i] = e}
<1>1. I \in SUBSET Nat /\ I # {}
  BY ToSetIs
<1>2. Min(I) \in I
  BY <1>1, MinOf
<1>3. SelectInSeq(s, LAMBDA x : x = e) = Min(I)
  BY <1>1 DEF SelectInSeq
<1> QED
  BY <1>2, <1>3

LEMMA RemoveFirstIs ==
  ASSUME NEW S, NEW s \in Seq(S), Once(s), NEW e
  PROVE  LET r == RemoveFirst(s, e)
         IN /\ r \in Seq(S) /\ Once(r) /\ ToSet(r) = ToSet(s) \ {e}
            /\ \A key : Ordered(s, key) => Ordered(r, key)
<1>1. CASE e \in ToSet(s)
  <2> DEFINE p == SelectInSeq(s, LAMBDA x : x = e)
  <2>1. p \in 1..Len(s) /\ s[p] = e
    BY <1>1, Found
  <2>2. RemoveFirst(s, e) = RemoveAt(s, p)
    BY <2>1 DEF RemoveFirst
  <2> HIDE DEF p
  <2> QED
    BY <2>1, <2>2, OneTakenOut
<1>2. CASE e \notin ToSet(s)
  <2>1. RemoveFirst(s, e) = s
    BY <1>2, ToSetIs DEF RemoveFirst, Contains
  <2> QED
    BY <1>2, <2>1
<1> QED
  BY <1>1, <1>2

LEMMA InsertSortedIs ==
  ASSUME NEW S, NEW s \in Seq(S), Once(s), NEW e \in S, e \notin ToSet(s),
         NEW key, \A x \in S : key[x] \in Int, Ordered(s, key)
  PROVE  LET r == InsertSorted(s, e, key)
         IN /\ r \in Seq(S) /\ Once(r) /\ ToSet(r) = ToSet(s) \cup {e}
            /\ Ordered(r, key)
<1> DEFINE I == {i \in 1..Len(s) : key[s[i]] > key[e]}
<1>0. /\ Len(s) \in Nat /\ key[e] \in Int
      /\ \A i \in 1..Len(s) : s[i] \in S /\ key[s[i]] \in Int
  BY LenProperties, ElementOfSeq
<1>1. SelectInSeq(s, LAMBDA x : key[x] > key[e]) = IF I # {} THEN Min(I) ELSE 0
  BY DEF SelectInSeq
<1>2. CASE I = {}
  <2> DEFINE r == Append(s, e)
             p == Len(s) + 1
  <2>1. InsertSorted(s, e, key) = r
    BY <1>1, <1>2 DEF InsertSorted
  <2>2. r \in Seq(S) /\ p \in 1..(Len(s) + 1) /\ Put(s, p, e, r)
    BY <1>0, AppendProperties DEF Put
  <2>3. \A i \in 1..Len(s) : i < p /\ key[s[i]] <= key[e]
    BY <1>0, <1>2
  <2>4. key[e] <= key[e]
    BY <1>0
  <2> HIDE DEF r, p
  <2> QED
    BY <2>1, <2>2, <2>3, <2>4, Inserted, InsertedOrder
<1>3. CASE I # {}
  <2> DEFINE p == Min(I)
             r == InsertAt(s, p, e)
  <2>0. p \in I /\ \A n \in I : p <= n
    <3>1. I \in SUBSET Nat
      BY <1>0
    <3> HIDE DEF I
    <3> QED
      BY <1>3, <3>1, MinOf
  <2>1. InsertSorted(s, e, key) = r
    <3>1. p # 0
      BY <2>0
    <3> QED
      BY <1>1, <1>3, <3>1 DEF InsertSorted
  <2>p. p \in 1..(Len(s) + 1) /\ p \in 1..Len(s) /\ key[s[p]] > key[e]
    BY <1>0, <2>0
  <2> HIDE DEF p
  <2>2. r \in Seq(S) /\ Put(s, p, e, r)
    BY <2>p, InsertAtPut
  <2>3. ASSUME NEW i \in 1..Len(s)
        PROVE  IF i < p THEN key[s[i]] <= key[e] ELSE key[e] <= key[s[i]]
    <3>1. CASE i < p
      <4>1. i \notin I
        BY <1>0, <2>0, <2>p, <3>1
      <4> QED
        BY <1>0, <3>1, <4>1
    <3>2. CASE ~(i < p)
      <4>1. key[s[p]] <= key[s[i]]
        BY <1>0, <2>p, <3>2 DEF Ordered
      <4> QED
        BY <1>0, <2>p, <3>2, <4>1
    <3> QED
      BY <3>1, <3>2
  <2>4. key[e] <= key[e]
    BY <1>0
  <2> HIDE DEF r
  <2> QED
    BY <2>p, <2>1, <2>2, <2>3, <2>4, Inserted, InsertedOrder
<1> QED
  BY <1>2, <1>3

LEMMA AppendIs ==
  ASSUME NEW S, NEW s \in Seq(S), Once(s), NEW e \in S, e \notin ToSet(s)
  PROVE  /\ Append(s, e) \in Seq(S) /\ Once(Append(s, e))
         /\ ToSet(Append(s, e)) = ToSet(s) \cup {e}
         /\ Len(Append(s, e)) = Len(s) + 1
<1> DEFINE r == Append(s, e)
           p == Len(s) + 1
<1>1. /\ r \in Seq(S) /\ Len(r) = Len(s) + 1 /\ p \in 1..(Len(s) + 1)
      /\ Put(s, p, e, r)
  BY LenProperties, AppendProperties DEF Put
<1> HIDE DEF r, p
<1>2. Once(r) /\ ToSet(r) = ToSet(s) \cup {e}
  BY <1>1, Inserted
<1> QED
  BY <1>1, <1>2 DEF r

LEMMA HeadIs ==
  ASSUME NEW S, NEW s \in Seq(S), s # <<>>
  PROVE  /\ Head(s) \in ToSet(s) /\ Head(s) = s[1]
         /\ \A key : Ordered(s, key) => \A x \in ToSet(s) : key[Head(s)] <= key[x]
<1>1. Len(s) \in Nat \ {0} /\ ToSet(s) = {s[i] : i \in 1..Len(s)}
  BY EmptySeq, ToSetIs
<1>2. Head(s) = s[1] /\ 1 \in 1..Len(s) /\ \A i \in 1..Len(s) : 1 <= i
  BY <1>1
<1> QED
  BY <1>1, <1>2 DEF Ordered

LEMMA OrderedByBoth ==
  ASSUME NEW S, NEW s \in Seq(S), NEW key, NEW other, Ordered(s, key),
         \A x \in ToSet(s) : other[x] = key[x]
  PROVE  Ordered(s, other)
<1>1. \A i \in 1..Len(s) : s[i] \in ToSet(s)
  BY ToSetIs
<1> QED
  BY <1>1 DEF Ordered

-----------------------------------------------------------------------------
(* The lists that are walked.                                              *)
Ring(l) == /\ l \in [items : Seq(Task), index : Nat]
           /\ Once(l.items) /\ l.index <= Len(l.items)

LEMMA EmptyIsRing == Ring(EmptyList) /\ ToSet(EmptyList.items) = {}
  BY EmptySeq DEF Ring, EmptyList, Once, ToSet

LEMMA InsertEndIs ==
  ASSUME NEW l, Ring(l), NEW t \in Task, t \notin ToSet(l.items)
  PROVE  /\ Ring(InsertEnd(l, t))
         /\ ToSet(InsertEnd(l, t).items) = ToSet(l.items) \cup {t}
<1> DEFINE r == InsertEnd(l, t)
<1>1. l.items \in Seq(Task) /\ Once(l.items) /\ l.index \in 0..Len(l.items)
      /\ Len(l.items) \in Nat
  BY LenProperties DEF Ring
<1>2. CASE l.index = 0
  <2>1. r.items = Append(l.items, t) /\ r.index = 0 /\ r \in [items : Seq(Task), index : Nat]
    BY <1>1, <1>2 DEF InsertEnd, Ring
  <2> HIDE DEF r
  <2> QED
    BY <1>1, <2>1, AppendIs DEF Ring, r
<1>3. CASE l.index # 0
  <2> DEFINE s == InsertAt(l.items, l.index, t)
  <2>1. l.index \in 1..(Len(l.items) + 1)
    BY <1>1, <1>3
  <2>2. /\ s \in Seq(Task) /\ Len(s) = Len(l.items) + 1
        /\ Put(l.items, l.index, t, s)
    <3> DEFINE q == l.items
    <3>1. q \in Seq(Task) /\ l.index \in 1..(Len(q) + 1)
      BY <1>1, <2>1
    <3> HIDE DEF q
    <3>2. InsertAt(q, l.index, t) \in Seq(Task) /\ Put(q, l.index, t, InsertAt(q, l.index, t))
      BY <3>1, InsertAtPut
    <3> QED
      BY <3>2 DEF q, Put
  <2>3. r = [items |-> s, index |-> l.index + 1]
    BY <1>3 DEF InsertEnd
  <2> HIDE DEF s, r
  <2>4. Once(s) /\ ToSet(s) = ToSet(l.items) \cup {t}
    BY <1>1, <2>1, <2>2, Inserted
  <2> QED
    BY <1>1, <2>2, <2>3, <2>4 DEF Ring, r
<1> QED
  BY <1>2, <1>3

LEMMA ListRemoveIs ==
  ASSUME NEW l, Ring(l), NEW t
  PROVE  /\ Ring(ListRemove(l, t))
         /\ ToSet(ListRemove(l, t).items) = ToSet(l.items) \ {t}
<1>1. l.items \in Seq(Task) /\ Once(l.items) /\ l.index \in 0..Len(l.items)
      /\ Len(l.items) \in Nat
  BY LenProperties DEF Ring
<1>2. CASE t \notin ToSet(l.items)
  <2>1. ListRemove(l, t) = l
    BY <1>1, <1>2, ToSetIs DEF ListRemove
  <2> QED
    BY <1>2, <2>1
<1>3. CASE t \in ToSet(l.items)
  <2> DEFINE p == SelectInSeq(l.items, LAMBDA x : x = t)
             s == RemoveAt(l.items, p)
             r == ListRemove(l, t)
  <2>1. p \in 1..Len(l.items) /\ l.items[p] = t
    BY <1>1, <1>3, Found
  <2>2. r = [items |-> s, index |-> IF p <= l.index THEN l.index - 1 ELSE l.index]
    BY <1>1, <1>3, ToSetIs DEF ListRemove
  <2> HIDE DEF p, r
  <2>3. s \in Seq(Task) /\ Len(s) = Len(l.items) - 1 /\ Once(s)
        /\ ToSet(s) = ToSet(l.items) \ {t}
    BY <1>1, <2>1, OneTakenOut
  <2> HIDE DEF s
  <2> QED
    BY <1>1, <2>1, <2>2, <2>3 DEF Ring, r
<1> QED
  BY <1>2, <1>3

LEMMA AdvanceIs ==
  ASSUME NEW l, Ring(l), l.items # <<>>
  PROVE  /\ Ring(Advance(l)) /\ Advance(l).items = l.items
         /\ l.items[Advance(l).index] \in ToSet(l.items)
<1>1. /\ l.items \in Seq(Task) /\ Once(l.items) /\ l.index \in 0..Len(l.items)
      /\ Len(l.items) \in Nat \ {0}
  BY LenProperties, EmptySeq DEF Ring
<1>2. /\ Advance(l).items = l.items /\ Advance(l).index \in 1..Len(l.items)
      /\ Advance(l) \in [items : Seq(Task), index : Nat]
  BY <1>1 DEF Advance, Ring
<1> QED
  BY <1>1, <1>2, ToSetIs DEF Ring

Kernels ==
  [ready : [0..TopPriority -> [items : Seq(Task), index : Nat]],
   top : 0..TopPriority, delayed : Seq(Task), overflow : Seq(Task),
   wake : [Task -> Ticks], event : [EventList -> Seq(Task)], pending : Seq(Task),
   next : Ticks, tick : Ticks, overflows : 0..(OverflowMod - 1),
   pended : 0..(PendedMod - 1), yield : BOOLEAN]

(* Every list is in order, whatever is in it.                              *)
ReadyOK(k) ==
  \A p \in 0..TopPriority :
    /\ Ring(k.ready[p]) /\ (k.ready[p].items # <<>> => p <= k.top)
    /\ \A t \in ToSet(k.ready[p].items) : Priority[t] = p

Lists(k) ==
  /\ k \in Kernels /\ ReadyOK(k)
  /\ Once(k.delayed) /\ Ordered(k.delayed, k.wake)
  /\ Once(k.overflow) /\ Ordered(k.overflow, k.wake)
  /\ Once(k.pending)
  /\ \A e \in EventList : Once(k.event[e]) /\ Ordered(k.event[e], EventValue)

LEMMA Constants ==
  /\ TopPriority \in Nat /\ \A t \in Task : Priority[t] \in 0..TopPriority
  /\ \E t \in Task : Priority[t] = TopPriority
  /\ Idle \in Task /\ Priority[Idle] = 0
  /\ \A t \in Task \ {Idle} : Priority[t] > 0
  /\ Ticks = 0..(TickMod - 1) /\ TickMod \in Nat \ {0, 1}
  /\ OverflowMod \in Nat \ {0} /\ PendedMod \in Nat \ {0}
  /\ MaxDelay = TickMod - 1 /\ MaxDelay \in Ticks /\ 0 \in Ticks
  /\ \A t \in Task : EventValue[t] \in Int
<1> DEFINE S == {Priority[t] : t \in Task}
<1>0. /\ IsFiniteSet(Task) /\ Idle \in Task /\ Priority[Idle] = 0
      /\ \A t \in Task : Priority[t] \in Nat
  BY KernelAssumption
<1>n. PICK n \in Nat : Surjection(1..n, Task) # {}
  BY <1>0, FS_NatSurjection DEF ExistsSurjection
<1>1. PICK f : f \in Surjection(1..n, Task)
  BY <1>n
<1>2. /\ \A i \in 1..n : f[i] \in Task
      /\ \A t \in Task : \E i \in 1..n : f[i] = t
  BY <1>1 DEF Surjection
<1>3. \E b \in Nat : \A i \in 1..n : Priority[f[i]] <= b
  <2> DEFINE T == {m \in Nat : m <= n => \E b \in Nat : \A i \in 1..m : Priority[f[i]] <= b}
  <2>1. 0 \in T
    OBVIOUS
  <2>2. ASSUME NEW m \in Nat, m \in T PROVE m + 1 \in T
    <3>1. CASE m + 1 <= n
      <4>1. PICK b \in Nat : \A i \in 1..m : Priority[f[i]] <= b
        BY <2>2, <3>1
      <4>2. Priority[f[m + 1]] \in Nat
        BY <1>0, <1>2, <3>1
      <4>3. b + Priority[f[m + 1]] \in Nat
            /\ \A i \in 1..(m + 1) : Priority[f[i]] <= b + Priority[f[m + 1]]
        <5>1. ASSUME NEW i \in 1..(m + 1) PROVE Priority[f[i]] <= b + Priority[f[m + 1]]
          <6>1. Priority[f[i]] \in Nat
            BY <1>0, <1>2, <3>1
          <6>2. CASE i = m + 1
            BY <4>2, <6>2
          <6>3. CASE i # m + 1
            <7>1. i \in 1..m
              BY <6>3
            <7> QED
              BY <4>1, <4>2, <6>1, <7>1
          <6> QED
            BY <6>2, <6>3
        <5> QED
          BY <4>2, <5>1
      <4> QED
        BY <4>3
    <3> QED
      BY <3>1
  <2>3. n \in T
    <3> HIDE DEF T
    <3> QED
      BY <2>1, <2>2, Induction
  <2> QED
    BY <2>3
<1>4. PICK b \in Nat : \A t \in Task : Priority[t] <= b
  BY <1>2, <1>3
<1>5. S \in SUBSET (0..b) /\ S # {}
  BY <1>0, <1>4
<1>6. Max(S) \in S /\ \A p \in S : p <= Max(S)
  <2> HIDE DEF S
  <2> QED
    BY <1>5, MaxOf
<1>7. /\ TopPriority \in Nat /\ \A t \in Task : Priority[t] \in 0..TopPriority
      /\ \E t \in Task : Priority[t] = TopPriority
  <2>1. TopPriority = Max(S)
    BY DEF TopPriority
  <2>2. \A t \in Task : Priority[t] \in S /\ Priority[t] <= TopPriority
    BY <1>6, <2>1
  <2>3. PICK t \in Task : TopPriority = Priority[t]
    BY <1>6, <2>1
  <2> QED
    BY <1>0, <2>2, <2>3
<1> QED
  BY <1>0, <1>7, KernelAssumption DEF Ticks, MaxDelay, EventValue

LEMMA KernelFields ==
  ASSUME NEW k \in Kernels
  PROVE  /\ k.ready \in [0..TopPriority -> [items : Seq(Task), index : Nat]]
         /\ k.top \in 0..TopPriority /\ k.delayed \in Seq(Task)
         /\ k.overflow \in Seq(Task) /\ k.wake \in [Task -> Ticks]
         /\ k.event \in [EventList -> Seq(Task)] /\ k.pending \in Seq(Task)
         /\ k.next \in Ticks /\ k.tick \in Ticks
         /\ k.overflows \in 0..(OverflowMod - 1)
         /\ k.pended \in 0..(PendedMod - 1) /\ k.yield \in BOOLEAN
  BY DEF Kernels

LEMMA ReadyIs ==
  ASSUME NEW k, k \in Kernels, ReadyOK(k)
  PROVE  /\ ReadyTasks(k) \subseteq Task
         /\ \A t \in Task : t \in ReadyTasks(k) <=>
                            t \in ToSet(k.ready[Priority[t]].items)
         /\ \A p \in 0..TopPriority :
              ToSet(k.ready[p].items) = {t \in ReadyTasks(k) : Priority[t] = p}
<1>1. \A p \in 0..TopPriority : k.ready[p].items \in Seq(Task)
  BY KernelFields
<1>2. \A t \in Task : Priority[t] \in 0..TopPriority
  BY Constants
<1>3. \A t \in Task : t \in ReadyTasks(k) <=> t \in ToSet(k.ready[Priority[t]].items)
  BY <1>1, <1>2, ToSetIs DEF ReadyTasks
<1>4. \A p \in 0..TopPriority : ToSet(k.ready[p].items) \subseteq Task
  BY <1>1, ToSetIs
<1>5. ReadyTasks(k) \subseteq Task
  BY DEF ReadyTasks
<1> QED
  BY <1>2, <1>3, <1>4, <1>5 DEF ReadyOK

(* A ready list is changed at one priority.                                *)
LEMMA ReadyAt ==
  ASSUME NEW k, k \in Kernels, ReadyOK(k), NEW r, r \in Kernels,
         NEW p \in 0..TopPriority, NEW l, Ring(l),
         \A t \in ToSet(l.items) : Priority[t] = p,
         r.ready = [k.ready EXCEPT ![p] = l], k.top <= r.top,
         l.items # <<>> => p <= r.top
  PROVE  /\ ReadyOK(r)
         /\ ReadyTasks(r) = {t \in ReadyTasks(k) : Priority[t] # p} \cup ToSet(l.items)
<1>1. \A q \in 0..TopPriority : r.ready[q] = IF q = p THEN l ELSE k.ready[q]
  BY KernelFields
<1>2. k.top \in Int /\ r.top \in Int /\ TopPriority \in Nat
  BY KernelFields, Constants
<1>3. ReadyOK(r)
  <2>1. ASSUME NEW q \in 0..TopPriority
        PROVE  /\ Ring(r.ready[q]) /\ (r.ready[q].items # <<>> => q <= r.top)
               /\ \A t \in ToSet(r.ready[q].items) : Priority[t] = q
    <3>1. CASE q = p
      BY <1>1, <3>1
    <3>2. CASE q # p
      BY <1>1, <1>2, <3>2 DEF ReadyOK
    <3> QED
      BY <3>1, <3>2
  <2> QED
    BY <2>1 DEF ReadyOK
<1>4. \A t \in Task : t \in ReadyTasks(r) <=> t \in ToSet(r.ready[Priority[t]].items)
  BY <1>3, ReadyIs
<1>5. ToSet(l.items) \subseteq Task
  BY ToSetIs DEF Ring
<1>6. \A t \in Task : Priority[t] \in 0..TopPriority
  BY Constants
<1>7. ReadyTasks(r) \subseteq Task
  BY <1>3, ReadyIs
<1>8. \A t \in Task : t \in ReadyTasks(r) <=>
        IF Priority[t] = p THEN t \in ToSet(l.items) ELSE t \in ReadyTasks(k)
  BY <1>1, <1>4, <1>6, ReadyIs
<1>9. ReadyTasks(k) \subseteq Task
  BY ReadyIs
<1> QED
  BY <1>3, <1>5, <1>7, <1>8, <1>9

(* What a step leaves of the clocks and of the marks.                      *)
SameClock(k, r) ==
  r.tick = k.tick /\ r.overflows = k.overflows /\ r.pended = k.pended

LEMMA RemoveGenericIs ==
  ASSUME NEW k, Lists(k), NEW t \in Task
  PROVE  LET r == RemoveGeneric(k, t)
         IN /\ Lists(r) /\ ReadyTasks(r) = ReadyTasks(k) \ {t}
            /\ ToSet(r.delayed) = ToSet(k.delayed) \ {t}
            /\ ToSet(r.overflow) = ToSet(k.overflow) \ {t}
            /\ r.wake = [k.wake EXCEPT ![t] = 0]
            /\ r.event = k.event /\ r.pending = k.pending
            /\ r.next = k.next /\ r.yield = k.yield /\ SameClock(k, r)
<1> DEFINE r == RemoveGeneric(k, t)
           p == Priority[t]
           l == ListRemove(k.ready[p], t)
<1>0. k \in Kernels /\ ReadyOK(k) /\ p \in 0..TopPriority /\ 0 \in Ticks
  BY Constants DEF Lists
<1>1. Ring(k.ready[p]) /\ \A x \in ToSet(k.ready[p].items) : Priority[x] = p
  BY <1>0 DEF ReadyOK
<1>2. Ring(l) /\ ToSet(l.items) = ToSet(k.ready[p].items) \ {t}
  BY <1>1, ListRemoveIs
<1>3. /\ RemoveFirst(k.delayed, t) \in Seq(Task) /\ Once(RemoveFirst(k.delayed, t))
      /\ ToSet(RemoveFirst(k.delayed, t)) = ToSet(k.delayed) \ {t}
      /\ Ordered(RemoveFirst(k.delayed, t), k.wake)
  BY <1>0, KernelFields, RemoveFirstIs DEF Lists
<1>4. /\ RemoveFirst(k.overflow, t) \in Seq(Task) /\ Once(RemoveFirst(k.overflow, t))
      /\ ToSet(RemoveFirst(k.overflow, t)) = ToSet(k.overflow) \ {t}
      /\ Ordered(RemoveFirst(k.overflow, t), k.wake)
  BY <1>0, KernelFields, RemoveFirstIs DEF Lists
<1>5. /\ r.ready = [k.ready EXCEPT ![p] = l]
      /\ r.delayed = RemoveFirst(k.delayed, t)
      /\ r.overflow = RemoveFirst(k.overflow, t)
      /\ r.wake = [k.wake EXCEPT ![t] = 0]
      /\ r.event = k.event /\ r.pending = k.pending /\ r.top = k.top
      /\ r.next = k.next /\ r.yield = k.yield /\ SameClock(k, r)
  BY <1>0 DEF RemoveGeneric, Kernels, SameClock
<1>6. r \in Kernels
  <2>1. l \in [items : Seq(Task), index : Nat]
    BY <1>2 DEF Ring
  <2> HIDE DEF l
  <2>2. [k.ready EXCEPT ![p] = l] \in [0..TopPriority -> [items : Seq(Task), index : Nat]]
    BY <1>0, <2>1, KernelFields
  <2>3. [k.wake EXCEPT ![t] = 0] \in [Task -> Ticks]
    BY <1>0, KernelFields
  <2> QED
    BY <1>0, <1>3, <1>4, <2>2, <2>3 DEF RemoveGeneric, Kernels, l
<1> HIDE DEF r, l
<1>7. \A x \in ToSet(l.items) : Priority[x] = p
  BY <1>1, <1>2
<1>8. k.top <= r.top /\ (l.items # <<>> => p <= r.top)
  <2>1. k.top \in Int
    BY <1>0, KernelFields, Constants
  <2>2. l.items # <<>> => k.ready[p].items # <<>>
    <3>1. l.items \in Seq(Task) /\ k.ready[p].items \in Seq(Task)
      BY <1>1, <1>2 DEF Ring
    <3> QED
      BY <1>2, <3>1, ToSetIs
  <2> QED
    BY <1>0, <1>5, <2>1, <2>2 DEF ReadyOK
<1>9. /\ ReadyOK(r)
      /\ ReadyTasks(r) = {x \in ReadyTasks(k) : Priority[x] # p} \cup ToSet(l.items)
  BY <1>0, <1>2, <1>5, <1>6, <1>7, <1>8, ReadyAt
<1>10. ReadyTasks(r) = ReadyTasks(k) \ {t}
  <2>1. ToSet(k.ready[p].items) = {x \in ReadyTasks(k) : Priority[x] = p}
    BY <1>0, ReadyIs
  <2> QED
    BY <1>2, <1>9, <2>1
<1>11. Ordered(r.delayed, r.wake) /\ Ordered(r.overflow, r.wake)
  <2>1. \A x \in ToSet(r.delayed) \cup ToSet(r.overflow) : r.wake[x] = k.wake[x]
    <3>1. ToSet(r.delayed) \cup ToSet(r.overflow) \subseteq Task
      BY <1>3, <1>4, <1>5, ToSetIs
    <3> QED
      BY <1>0, <1>3, <1>4, <1>5, <3>1, KernelFields
  <2>2. /\ r.delayed \in Seq(Task) /\ Ordered(r.delayed, k.wake)
        /\ r.overflow \in Seq(Task) /\ Ordered(r.overflow, k.wake)
    BY <1>3, <1>4, <1>5
  <2> QED
    BY <2>1, <2>2, OrderedByBoth
<1> QED
  BY <1>3, <1>4, <1>5, <1>6, <1>9, <1>10, <1>11 DEF Lists, r

LEMMA RemoveEventIs ==
  ASSUME NEW k, Lists(k), NEW t \in Task
  PROVE  LET r == RemoveEvent(k, t)
         IN /\ Lists(r) /\ ReadyTasks(r) = ReadyTasks(k)
            /\ r.delayed = k.delayed /\ r.overflow = k.overflow /\ r.wake = k.wake
            /\ \A e \in EventList : ToSet(r.event[e]) = ToSet(k.event[e]) \ {t}
            /\ ToSet(r.pending) = ToSet(k.pending) \ {t}
            /\ r.next = k.next /\ r.yield = k.yield /\ SameClock(k, r)
<1> DEFINE r == RemoveEvent(k, t)
<1>0. k \in Kernels /\ ReadyOK(k)
  BY DEF Lists
<1>1. /\ RemoveFirst(k.pending, t) \in Seq(Task) /\ Once(RemoveFirst(k.pending, t))
      /\ ToSet(RemoveFirst(k.pending, t)) = ToSet(k.pending) \ {t}
  BY <1>0, KernelFields, RemoveFirstIs DEF Lists
<1>2. \A e \in EventList :
        /\ RemoveFirst(k.event[e], t) \in Seq(Task)
        /\ Once(RemoveFirst(k.event[e], t))
        /\ ToSet(RemoveFirst(k.event[e], t)) = ToSet(k.event[e]) \ {t}
        /\ Ordered(RemoveFirst(k.event[e], t), EventValue)
  <2>1. \A e \in EventList : k.event[e] \in Seq(Task)
    BY <1>0, KernelFields
  <2> QED
    BY <2>1, RemoveFirstIs DEF Lists
<1>3. /\ r.event = [e \in EventList |-> RemoveFirst(k.event[e], t)]
      /\ r.pending = RemoveFirst(k.pending, t)
      /\ r.ready = k.ready /\ r.top = k.top /\ r.delayed = k.delayed
      /\ r.overflow = k.overflow /\ r.wake = k.wake
      /\ r.next = k.next /\ r.yield = k.yield /\ SameClock(k, r)
  BY <1>0 DEF RemoveEvent, Kernels, SameClock
<1>4. r \in Kernels
  BY <1>0, <1>1, <1>2 DEF RemoveEvent, Kernels
<1> HIDE DEF r
<1>5. ReadyOK(r) /\ ReadyTasks(r) = ReadyTasks(k)
  BY <1>0, <1>3 DEF ReadyOK, ReadyTasks
<1> QED
  BY <1>1, <1>2, <1>3, <1>4, <1>5 DEF Lists, r

LEMMA AddToReadyIs ==
  ASSUME NEW k, Lists(k), NEW t \in Task, t \notin ReadyTasks(k)
  PROVE  LET r == AddToReady(k, t)
         IN /\ Lists(r) /\ ReadyTasks(r) = ReadyTasks(k) \cup {t}
            /\ r.delayed = k.delayed /\ r.overflow = k.overflow /\ r.wake = k.wake
            /\ r.event = k.event /\ r.pending = k.pending
            /\ r.next = k.next /\ r.yield = k.yield /\ SameClock(k, r)
<1> DEFINE r == AddToReady(k, t)
           p == Priority[t]
           l == InsertEnd(k.ready[p], t)
           top == Max({k.top, p})
<1>0. k \in Kernels /\ ReadyOK(k) /\ p \in 0..TopPriority /\ TopPriority \in Nat
      /\ k.top \in 0..TopPriority
  BY Constants, KernelFields DEF Lists
<1>1. Ring(k.ready[p]) /\ \A x \in ToSet(k.ready[p].items) : Priority[x] = p
  BY <1>0 DEF ReadyOK
<1>2. ToSet(k.ready[p].items) = {x \in ReadyTasks(k) : Priority[x] = p}
  BY <1>0, ReadyIs
<1>3. Ring(l) /\ ToSet(l.items) = ToSet(k.ready[p].items) \cup {t}
  BY <1>1, <1>2, InsertEndIs
<1>4. top \in {k.top, p} /\ k.top <= top /\ p <= top
  <2>1. {k.top, p} \in SUBSET (0..TopPriority) /\ {k.top, p} # {}
    BY <1>0
  <2> QED
    BY <1>0, <2>1, MaxOf
<1>5. /\ r.ready = [k.ready EXCEPT ![p] = l] /\ r.top = top
      /\ r.delayed = k.delayed /\ r.overflow = k.overflow /\ r.wake = k.wake
      /\ r.event = k.event /\ r.pending = k.pending
      /\ r.next = k.next /\ r.yield = k.yield /\ SameClock(k, r)
  BY <1>0 DEF AddToReady, Kernels, SameClock
<1>6. r \in Kernels
  <2>1. l \in [items : Seq(Task), index : Nat]
    BY <1>3 DEF Ring
  <2> HIDE DEF l, top
  <2>2. [k.ready EXCEPT ![p] = l] \in [0..TopPriority -> [items : Seq(Task), index : Nat]]
    BY <1>0, <2>1, KernelFields
  <2>3. top \in 0..TopPriority
    BY <1>0, <1>4
  <2> QED
    BY <1>0, <2>2, <2>3 DEF AddToReady, Kernels, l, top
<1> HIDE DEF r, l, top
<1>7. \A x \in ToSet(l.items) : Priority[x] = p
  BY <1>1, <1>3
<1>9. /\ ReadyOK(r)
      /\ ReadyTasks(r) = {x \in ReadyTasks(k) : Priority[x] # p} \cup ToSet(l.items)
  BY <1>0, <1>3, <1>4, <1>5, <1>6, <1>7, ReadyAt
<1>10. ReadyTasks(r) = ReadyTasks(k) \cup {t}
  BY <1>2, <1>3, <1>9
<1> QED
  BY <1>5, <1>6, <1>9, <1>10 DEF Lists, r

(* The tasks of X are made ready, wherever they were.                      *)
Freed(k, r, X) ==
  /\ Lists(r) /\ ReadyTasks(r) = ReadyTasks(k) \cup X
  /\ ToSet(r.delayed) = ToSet(k.delayed) \ X
  /\ ToSet(r.overflow) = ToSet(k.overflow) \ X
  /\ ToSet(r.pending) = ToSet(k.pending) \ X
  /\ \A e \in EventList : ToSet(r.event[e]) = ToSet(k.event[e]) \ X
  /\ r.wake = [t \in Task |-> IF t \in X THEN 0 ELSE k.wake[t]]
  /\ r.next = k.next /\ SameClock(k, r)

LEMMA FreedTogether ==
  ASSUME NEW k, NEW q, NEW r, NEW X, NEW Y, Freed(k, q, X), Freed(q, r, Y)
  PROVE  Freed(k, r, X \cup Y)
<1>1. r.wake = [t \in Task |-> IF t \in X \cup Y THEN 0 ELSE k.wake[t]]
  BY DEF Freed
<1> QED
  BY <1>1 DEF Freed, SameClock

LEMMA UnblockIs ==
  ASSUME NEW k, Lists(k), NEW t \in Task
  PROVE  Freed(k, Unblock(k, t), {t}) /\ Unblock(k, t).yield = k.yield
<1> DEFINE q == RemoveGeneric(k, t)
           s == RemoveEvent(q, t)
           r == AddToReady(s, t)
<1>1. /\ Lists(q) /\ ReadyTasks(q) = ReadyTasks(k) \ {t}
      /\ ToSet(q.delayed) = ToSet(k.delayed) \ {t}
      /\ ToSet(q.overflow) = ToSet(k.overflow) \ {t}
      /\ q.wake = [k.wake EXCEPT ![t] = 0]
      /\ q.event = k.event /\ q.pending = k.pending
      /\ q.next = k.next /\ q.yield = k.yield /\ SameClock(k, q)
  BY RemoveGenericIs
<1> HIDE DEF q
<1>2. /\ Lists(s) /\ ReadyTasks(s) = ReadyTasks(q)
      /\ s.delayed = q.delayed /\ s.overflow = q.overflow /\ s.wake = q.wake
      /\ \A e \in EventList : ToSet(s.event[e]) = ToSet(q.event[e]) \ {t}
      /\ ToSet(s.pending) = ToSet(q.pending) \ {t}
      /\ s.next = q.next /\ s.yield = q.yield /\ SameClock(q, s)
  BY <1>1, RemoveEventIs
<1> HIDE DEF s
<1>3. /\ Lists(r) /\ ReadyTasks(r) = ReadyTasks(s) \cup {t}
      /\ r.delayed = s.delayed /\ r.overflow = s.overflow /\ r.wake = s.wake
      /\ r.event = s.event /\ r.pending = s.pending
      /\ r.next = s.next /\ r.yield = s.yield /\ SameClock(s, r)
  BY <1>1, <1>2, AddToReadyIs
<1> HIDE DEF r
<1>4. r.wake = [x \in Task |-> IF x \in {t} THEN 0 ELSE k.wake[x]]
  <2>1. k.wake \in [Task -> Ticks]
    BY KernelFields DEF Lists
  <2> QED
    BY <1>1, <1>2, <1>3, <2>1
<1>5. Freed(k, r, {t}) /\ r.yield = k.yield
  BY <1>1, <1>2, <1>3, <1>4 DEF Freed, SameClock
<1> QED
  BY <1>5 DEF Unblock, q, s, r

-----------------------------------------------------------------------------
(* Folds.  FoldLeft over a sequence goes through the subsets of its        *)
(* domain, the greatest index last.                                        *)

LEMMA IntervalTop ==
  ASSUME NEW m \in Nat
  PROVE  /\ 1..(m + 1) # {} /\ Max(1..(m + 1)) = m + 1
         /\ (1..(m + 1)) \ {m + 1} = 1..m /\ 1..0 = {}
<1> DEFINE S == 1..(m + 1)
<1>1. S \in SUBSET (0..(m + 1)) /\ S # {} /\ m + 1 \in S /\ m + 1 \in Nat
      /\ \A i \in S : i \in Int /\ i <= m + 1
  OBVIOUS
<1>2. S \ {m + 1} = 1..m /\ 1..0 = {}
  OBVIOUS
<1> HIDE DEF S
<1>3. Max(S) \in S /\ \A n \in S : n <= Max(S)
  BY <1>1, MaxOf
<1>4. Max(S) = m + 1
  <2>1. Max(S) \in Int /\ Max(S) <= m + 1 /\ m + 1 <= Max(S) /\ m + 1 \in Int
    BY <1>1, <1>3
  <2> QED
    BY <2>1
<1> QED
  BY <1>1, <1>2, <1>4 DEF S

LEMMA SubsetTop ==
  ASSUME NEW m \in Nat, NEW s \in SUBSET (1..(m + 1)), s # {}
  PROVE  Max(s) \in 1..(m + 1) /\ s \ {Max(s)} \in SUBSET (1..m)
<1>1. s \in SUBSET (0..(m + 1)) /\ m + 1 \in Nat
      /\ \A i \in s : i \in Int /\ 1 <= i /\ i <= m + 1
  OBVIOUS
<1>2. Max(s) \in s /\ \A i \in s : i <= Max(s)
  BY <1>1, MaxOf
<1>3. ASSUME NEW i \in s, i # Max(s) PROVE i \in 1..m
  <2>1. i <= Max(s) /\ i \in Int /\ Max(s) \in Int /\ Max(s) <= m + 1 /\ 1 <= i
    BY <1>1, <1>2
  <2> QED
    BY <1>3, <2>1
<1> QED
  BY <1>2, <1>3

Folded(g, n, base, F) ==
  \A s \in SUBSET (1..n) :
    g[s] = IF s = {} THEN base ELSE F[<<g[s \ {Max(s)}], Max(s)>>]

LEMMA Folding ==
  ASSUME NEW n \in Nat, NEW K, NEW base \in K, NEW F \in [K \X (1..n) -> K]
  PROVE  \E g \in [SUBSET (1..n) -> K] : Folded(g, n, base, F)
<1> DEFINE Good(m) == \E g \in [SUBSET (1..m) -> K] : Folded(g, m, base, F)
           T == {m \in Nat : m <= n => Good(m)}
<1>1. Good(0)
  <2> DEFINE g == [s \in SUBSET (1..0) |-> base]
  <2>1. \A s \in SUBSET (1..0) : s = {}
    BY IntervalTop
  <2>2. g \in [SUBSET (1..0) -> K] /\ Folded(g, 0, base, F)
    BY <2>1 DEF Folded
  <2> QED
    BY <2>2
<1>2. ASSUME NEW m \in Nat, Good(m), m + 1 <= n PROVE Good(m + 1)
  <2>1. PICK g \in [SUBSET (1..m) -> K] : Folded(g, m, base, F)
    BY <1>2
  <2> DEFINE up(s) == IF s = {} THEN base ELSE F[<<g[s \ {Max(s)}], Max(s)>>]
             f == [s \in SUBSET (1..(m + 1)) |-> up(s)]
  <2>2. ASSUME NEW s \in SUBSET (1..(m + 1)) PROVE up(s) \in K
    <3>1. CASE s = {}
      BY <3>1
    <3>2. CASE s # {}
      <4>1. g[s \ {Max(s)}] \in K /\ Max(s) \in 1..n
        BY <1>2, <3>2, SubsetTop
      <4> QED
        BY <3>2, <4>1
    <3> QED
      BY <3>1, <3>2
  <2>3. f \in [SUBSET (1..(m + 1)) -> K]
    BY <2>2
  <2>4. \A s \in SUBSET (1..m) : s \in SUBSET (1..(m + 1)) /\ up(s) = g[s]
    BY <2>1 DEF Folded
  <2>5. \A s \in SUBSET (1..(m + 1)) : f[s] = up(s)
    OBVIOUS
  <2> HIDE DEF f
  <2>6. ASSUME NEW s \in SUBSET (1..(m + 1))
        PROVE  f[s] = IF s = {} THEN base ELSE F[<<f[s \ {Max(s)}], Max(s)>>]
    <3>1. CASE s = {}
      BY <2>5, <3>1
    <3>2. CASE s # {}
      <4>1. s \ {Max(s)} \in SUBSET (1..m)
        BY <3>2, SubsetTop
      <4>2. f[s \ {Max(s)}] = g[s \ {Max(s)}]
        BY <2>4, <2>5, <4>1
      <4> QED
        BY <2>5, <3>2, <4>2
    <3> QED
      BY <3>1, <3>2
  <2> QED
    BY <2>3, <2>6 DEF Folded
<1> HIDE DEF Good
<1>3. 0 \in T /\ \A m \in Nat : m \in T => m + 1 \in T
  BY <1>1, <1>2
<1> HIDE DEF T
<1>4. n \in T
  BY <1>3, Induction
<1>5. Good(n)
  BY <1>4 DEF T
<1> QED
  BY <1>5 DEF Good

LEMMA TopOf ==
  ASSUME NEW n \in Nat, NEW s \in SUBSET (1..n), s # {}
  PROVE  Max(s) \in 1..n
<1>1. s \in SUBSET (0..n)
  OBVIOUS
<1> QED
  BY <1>1, MaxOf

Chained(iter, n, K, F) ==
  \A s \in SUBSET (1..n) : s # {} /\ iter[s \ {Max(s)}] \in K =>
    iter[s] = F[<<iter[s \ {Max(s)}], Max(s)>>]

Leads(base, n, K, F, last) ==
  \E h \in [0..n -> K] : /\ h[0] = base /\ h[n] = last
                          /\ \A i \in 1..n : h[i] = F[<<h[i - 1], i>>]

(* Along the intervals of its domain a fold is a chain of steps.           *)
LEMMA FoldChain ==
  ASSUME NEW n \in Nat, NEW K, NEW base \in K, NEW F \in [K \X (1..n) -> K],
         NEW iter, iter[{}] = base, Chained(iter, n, K, F)
  PROVE  Leads(base, n, K, F, iter[1..n])
<1> DEFINE h == [m \in 0..n |-> iter[1..m]]
           T == {m \in Nat : m <= n => iter[1..m] \in K}
<1>1. ASSUME NEW m \in Nat, m + 1 <= n, iter[1..m] \in K
      PROVE  iter[1..(m + 1)] = F[<<iter[1..m], m + 1>>] /\ iter[1..(m + 1)] \in K
  <2> DEFINE s == 1..(m + 1)
  <2>1. s # {} /\ Max(s) = m + 1 /\ s \ {m + 1} = 1..m
    BY IntervalTop
  <2>2. s \in SUBSET (1..n) /\ m + 1 \in 1..n
    BY <1>1
  <2> HIDE DEF s
  <2>3. iter[s] = F[<<iter[1..m], m + 1>>]
    BY <1>1, <2>1, <2>2 DEF Chained
  <2>4. F[<<iter[1..m], m + 1>>] \in K
    BY <1>1, <2>2
  <2> QED
    BY <2>3, <2>4 DEF s
<1>2. iter[1..0] = base
  BY IntervalTop
<1>3. Nat \subseteq T
  <2>1. 0 \in T
    BY <1>2
  <2>2. ASSUME NEW m \in Nat, m \in T PROVE m + 1 \in T
    <3>1. m + 1 <= n => m <= n
      OBVIOUS
    <3>2. ASSUME m + 1 <= n PROVE iter[1..(m + 1)] \in K
      <4>1. iter[1..m] \in K
        BY <2>2, <3>1, <3>2
      <4> QED
        BY <1>1, <3>2, <4>1
    <3> QED
      BY <3>2
  <2> HIDE DEF T
  <2> QED
    BY <2>1, <2>2, Induction
<1>4. \A m \in 0..n : iter[1..m] \in K
  BY <1>3
<1>5. ASSUME NEW i \in 1..n PROVE h[i] = F[<<h[i - 1], i>>]
  <2>1. i - 1 \in Nat /\ (i - 1) + 1 = i /\ i \in 0..n /\ i - 1 \in 0..n
    OBVIOUS
  <2>2. iter[1..i] = F[<<iter[1..(i - 1)], i>>]
    <3> DEFINE m == i - 1
    <3>1. m \in Nat /\ m + 1 <= n /\ m + 1 = i /\ iter[1..m] \in K
      BY <1>4, <2>1
    <3> HIDE DEF m
    <3>2. iter[1..(m + 1)] = F[<<iter[1..m], m + 1>>]
      BY <1>1, <3>1
    <3> QED
      BY <3>1, <3>2 DEF m
  <2> QED
    BY <2>1, <2>2
<1>6. h \in [0..n -> K] /\ h[0] = base /\ iter[1..n] = h[n]
  BY <1>2, <1>4
<1> QED
  BY <1>5, <1>6 DEF Leads

Inductive(I, n, K, F) ==
  \A i \in 1..n, k \in K : <<i - 1, k>> \in I => <<i, F[<<k, i>>]>> \in I

LEMMA Unfolding ==
  ASSUME NEW n \in Nat, NEW K, NEW base \in K, NEW F \in [K \X (1..n) -> K],
         NEW last, Leads(base, n, K, F, last),
         NEW I, <<0, base>> \in I, Inductive(I, n, K, F)
  PROVE  last \in K /\ <<n, last>> \in I
<1>1. PICK h \in [0..n -> K] : /\ h[0] = base /\ h[n] = last
                              /\ \A i \in 1..n : h[i] = F[<<h[i - 1], i>>]
  BY DEF Leads
<1> DEFINE T == {m \in Nat : m <= n => <<m, h[m]>> \in I}
<1>2. 0 \in T
  BY <1>1
<1>3. ASSUME NEW m \in Nat, m \in T PROVE m + 1 \in T
  <2>1. ASSUME m + 1 <= n PROVE <<m + 1, h[m + 1]>> \in I
    <3> DEFINE i == m + 1
    <3>1. i \in 1..n /\ i - 1 = m /\ m \in 0..n /\ m <= n
      BY <2>1
    <3>2. h[m] \in K /\ <<m, h[m]>> \in I
      BY <1>1, <1>3, <3>1
    <3> HIDE DEF i
    <3>3. h[i] = F[<<h[m], i>>]
      BY <1>1, <3>1
    <3>4. <<i, F[<<h[m], i>>]>> \in I
      BY <3>1, <3>2 DEF Inductive
    <3> QED
      BY <3>3, <3>4 DEF i
  <2> QED
    BY <2>1
<1>4. n \in T
  <2> HIDE DEF T
  <2> QED
    BY <1>2, <1>3, Induction
<1> QED
  BY <1>1, <1>4

LEMMA AddToReadyFold ==
  ASSUME NEW K, NEW base \in K, NEW seq \in Seq(Task),
         \A k \in K, t \in Task : AddToReady(k, t) \in K
  PROVE  Leads(base, Len(seq), K,
               [p \in K \X (1..Len(seq)) |-> AddToReady(p[1], seq[p[2]])],
               FoldLeft(AddToReady, base, seq))
<1> DEFINE n == Len(seq)
           F == [p \in K \X (1..n) |-> AddToReady(p[1], seq[p[2]])]
           Iter(g) == g = [s \in SUBSET DOMAIN seq |->
                             IF s = {} THEN base
                             ELSE AddToReady(g[s \ {Max(s)}], seq[Max(s)])]
           iter == CHOOSE g : Iter(g)
<1>0. n \in Nat /\ DOMAIN seq = 1..n /\ \A i \in 1..n : seq[i] \in Task
  BY LenProperties, ElementOfSeq
<1>1. F \in [K \X (1..n) -> K]
  BY <1>0
<1>2. ASSUME NEW g, NEW s \in SUBSET (1..n), s # {}, g[s \ {Max(s)}] \in K
      PROVE  F[<<g[s \ {Max(s)}], Max(s)>>]
             = AddToReady(g[s \ {Max(s)}], seq[Max(s)])
  <2>1. Max(s) \in 1..n
    BY <1>0, <1>2, TopOf
  <2> QED
    BY <1>2, <2>1
<1>3. PICK g \in [SUBSET (1..n) -> K] : Folded(g, n, base, F)
  <2> HIDE DEF F, n
  <2> QED
    BY <1>0, <1>1, Folding
<1>4. Iter(g)
  <2>1. \A s \in SUBSET (1..n) : s # {} => g[s \ {Max(s)}] \in K
    OBVIOUS
  <2> QED
    BY <1>0, <1>2, <1>3, <2>1 DEF Folded
<1>5. Iter(iter)
  BY <1>4
<1>6. FoldLeft(AddToReady, base, seq) = iter[1..n]
  BY <1>0 DEF FoldLeft, MapThenFoldSet
<1> HIDE DEF F, iter
<1>7. Chained(iter, n, K, F)
  BY <1>0, <1>2, <1>5 DEF Chained
<1>8. iter[{}] = base
  BY <1>5
<1>9. Leads(base, n, K, F, iter[1..n])
  <2> HIDE DEF n
  <2> QED
    BY <1>0, <1>1, <1>7, <1>8, FoldChain
<1> QED
  BY <1>6, <1>9 DEF F

LEMMA UnblockFold ==
  ASSUME NEW K, NEW base \in K, NEW seq \in Seq(Task),
         \A k \in K, t \in Task : Unblock(k, t) \in K
  PROVE  Leads(base, Len(seq), K,
               [p \in K \X (1..Len(seq)) |-> Unblock(p[1], seq[p[2]])],
               FoldLeft(Unblock, base, seq))
<1> DEFINE n == Len(seq)
           F == [p \in K \X (1..n) |-> Unblock(p[1], seq[p[2]])]
           Iter(g) == g = [s \in SUBSET DOMAIN seq |->
                             IF s = {} THEN base
                             ELSE Unblock(g[s \ {Max(s)}], seq[Max(s)])]
           iter == CHOOSE g : Iter(g)
<1>0. n \in Nat /\ DOMAIN seq = 1..n /\ \A i \in 1..n : seq[i] \in Task
  BY LenProperties, ElementOfSeq
<1>1. F \in [K \X (1..n) -> K]
  BY <1>0
<1>2. ASSUME NEW g, NEW s \in SUBSET (1..n), s # {}, g[s \ {Max(s)}] \in K
      PROVE  F[<<g[s \ {Max(s)}], Max(s)>>]
             = Unblock(g[s \ {Max(s)}], seq[Max(s)])
  <2>1. Max(s) \in 1..n
    BY <1>0, <1>2, TopOf
  <2> QED
    BY <1>2, <2>1
<1>3. PICK g \in [SUBSET (1..n) -> K] : Folded(g, n, base, F)
  <2> HIDE DEF F, n
  <2> QED
    BY <1>0, <1>1, Folding
<1>4. Iter(g)
  <2>1. \A s \in SUBSET (1..n) : s # {} => g[s \ {Max(s)}] \in K
    OBVIOUS
  <2> QED
    BY <1>0, <1>2, <1>3, <2>1 DEF Folded
<1>5. Iter(iter)
  BY <1>4
<1>6. FoldLeft(Unblock, base, seq) = iter[1..n]
  BY <1>0 DEF FoldLeft, MapThenFoldSet
<1> HIDE DEF F, iter
<1>7. Chained(iter, n, K, F)
  BY <1>0, <1>2, <1>5 DEF Chained
<1>8. iter[{}] = base
  BY <1>5
<1>9. Leads(base, n, K, F, iter[1..n])
  <2> HIDE DEF n
  <2> QED
    BY <1>0, <1>1, <1>7, <1>8, FoldChain
<1> QED
  BY <1>6, <1>9 DEF F

(* One task of the pending list is let go, as xTaskResumeAll does it.      *)
LetGo(k, t, cur) ==
  [Unblock(k, t) EXCEPT !.yield = @ \/ Priority[t] >= Priority[cur]]

LEMMA ReleasePendingFold ==
  ASSUME NEW K, NEW base \in K, NEW cur, base.pending \in Seq(Task),
         \A k \in K, t \in Task : LetGo(k, t, cur) \in K
  PROVE  LET seq == base.pending
         IN Leads(base, Len(seq), K,
                  [p \in K \X (1..Len(seq)) |-> LetGo(p[1], seq[p[2]], cur)],
                  ReleasePending(base, cur))
<1> DEFINE seq == base.pending
<1> DEFINE n == Len(seq)
           F == [p \in K \X (1..n) |-> LetGo(p[1], seq[p[2]], cur)]
           Iter(g) == g = [s \in SUBSET DOMAIN seq |->
                             IF s = {} THEN base
                             ELSE LetGo(g[s \ {Max(s)}], seq[Max(s)], cur)]
           iter == CHOOSE g : Iter(g)
<1>0. n \in Nat /\ DOMAIN seq = 1..n /\ \A i \in 1..n : seq[i] \in Task
  BY LenProperties, ElementOfSeq
<1>1. F \in [K \X (1..n) -> K]
  BY <1>0
<1>2. ASSUME NEW g, NEW s \in SUBSET (1..n), s # {}, g[s \ {Max(s)}] \in K
      PROVE  F[<<g[s \ {Max(s)}], Max(s)>>]
             = LetGo(g[s \ {Max(s)}], seq[Max(s)], cur)
  <2>1. Max(s) \in 1..n
    BY <1>0, <1>2, TopOf
  <2> QED
    BY <1>2, <2>1
<1>3. PICK g \in [SUBSET (1..n) -> K] : Folded(g, n, base, F)
  <2> HIDE DEF F, n
  <2> QED
    BY <1>0, <1>1, Folding
<1>4. Iter(g)
  <2>1. \A s \in SUBSET (1..n) : s # {} => g[s \ {Max(s)}] \in K
    OBVIOUS
  <2> QED
    BY <1>0, <1>2, <1>3, <2>1 DEF Folded
<1>5. Iter(iter)
  BY <1>4
<1>6. ReleasePending(base, cur) = iter[1..n]
  BY <1>0 DEF FoldLeft, MapThenFoldSet, ReleasePending, LetGo
<1> HIDE DEF F, iter
<1>7. Chained(iter, n, K, F)
  BY <1>0, <1>2, <1>5 DEF Chained
<1>8. iter[{}] = base
  BY <1>5
<1>9. Leads(base, n, K, F, iter[1..n])
  <2> HIDE DEF n
  <2> QED
    BY <1>0, <1>1, <1>7, <1>8, FoldChain
<1> QED
  BY <1>6, <1>9 DEF F

(* One of the ticks that were held back.                                   *)
OneTick(k, cur) == [IncrementTick(k) EXCEPT !.yield = SwitchRequired(k, cur)]

TicksLead(base, K, cur) ==
  \E last : /\ Leads(base, base.pended, K,
                     [p \in K \X (1..base.pended) |-> OneTick(p[1], cur)], last)
            /\ ReleaseTicks(base, cur) = [last EXCEPT !.pended = 0]

LEMMA ReleaseTicksFold ==
  ASSUME NEW K, NEW base \in K, NEW cur, base.pended \in Nat,
         \A k \in K : OneTick(k, cur) \in K
  PROVE  TicksLead(base, K, cur)
<1> DEFINE seq == [i \in 1..base.pended |-> i]
           last == FoldLeft(LAMBDA s, i : [IncrementTick(s) EXCEPT
                                             !.yield = SwitchRequired(s, cur)],
                            base, seq)
<1> DEFINE n == base.pended
           F == [p \in K \X (1..n) |-> OneTick(p[1], cur)]
           Iter(g) == g = [s \in SUBSET DOMAIN seq |->
                             IF s = {} THEN base
                             ELSE OneTick(g[s \ {Max(s)}], cur)]
           iter == CHOOSE g : Iter(g)
<1>0. n \in Nat /\ DOMAIN seq = 1..n /\ \A i \in 1..n : seq[i] = i
  OBVIOUS
<1>1. F \in [K \X (1..n) -> K]
  BY <1>0
<1>2. ASSUME NEW g, NEW s \in SUBSET (1..n), s # {}, g[s \ {Max(s)}] \in K
      PROVE  F[<<g[s \ {Max(s)}], Max(s)>>]
             = OneTick(g[s \ {Max(s)}], cur)
  <2>1. Max(s) \in 1..n
    BY <1>0, <1>2, TopOf
  <2> QED
    BY <1>2, <2>1
<1>3. PICK g \in [SUBSET (1..n) -> K] : Folded(g, n, base, F)
  <2> HIDE DEF F, n
  <2> QED
    BY <1>0, <1>1, Folding
<1>4. Iter(g)
  <2>1. \A s \in SUBSET (1..n) : s # {} => g[s \ {Max(s)}] \in K
    OBVIOUS
  <2> QED
    BY <1>0, <1>2, <1>3, <2>1 DEF Folded
<1>5. Iter(iter)
  BY <1>4
<1>6. last = iter[1..n]
  BY <1>0 DEF FoldLeft, MapThenFoldSet, OneTick
<1> HIDE DEF F, iter
<1>7. Chained(iter, n, K, F)
  BY <1>0, <1>2, <1>5 DEF Chained
<1>8. iter[{}] = base
  BY <1>5
<1>9. Leads(base, n, K, F, iter[1..n])
  <2> HIDE DEF n
  <2> QED
    BY <1>0, <1>1, <1>7, <1>8, FoldChain
<1>10. ReleaseTicks(base, cur) = [last EXCEPT !.pended = 0]
  BY DEF ReleaseTicks
<1> HIDE DEF last
<1> QED
  BY <1>6, <1>9, <1>10 DEF F, TicksLead

(* Every living task is in one list by its generic item, and a task that   *)
(* waits in one by its event item.                                         *)
Sleepers(k) == ToSet(k.delayed) \cup ToSet(k.overflow)

Placed(k, alive) ==
  /\ ReadyTasks(k) \cup Sleepers(k) = alive
  /\ ReadyTasks(k) \cap Sleepers(k) = {}
  /\ ToSet(k.delayed) \cap ToSet(k.overflow) = {}

Waits(k) ==
  /\ ToSet(k.pending) \subseteq Sleepers(k)
  /\ \A e \in EventList : /\ ToSet(k.event[e]) \subseteq Sleepers(k)
                          /\ ToSet(k.event[e]) \cap ToSet(k.pending) = {}

LEMMA FreedPlaced ==
  ASSUME NEW k, NEW r, NEW X, Freed(k, r, X)
  PROVE  /\ Sleepers(r) = Sleepers(k) \ X
         /\ \A alive : Placed(k, alive) /\ X \subseteq alive => Placed(r, alive)
         /\ Waits(k) => Waits(r)
  BY DEF Freed, Placed, Waits, Sleepers

LEMMA FreedOverdue ==
  ASSUME NEW k, NEW due, Lists(k), NoOverdueSleeper(k, due), NEW r, NEW X, Freed(k, r, X)
  PROVE  NoOverdueSleeper(r, due)
<1>1. /\ \A t \in ToSet(r.delayed) : t \in ToSet(k.delayed) /\ t \notin X
      /\ \A t \in ToSet(r.overflow) : t \in ToSet(k.overflow) /\ t \notin X
  BY DEF Freed
<1>2. ToSet(k.delayed) \subseteq Task /\ ToSet(k.overflow) \subseteq Task
  BY KernelFields, ToSetIs DEF Lists
<1>3. \A t \in Task : t \notin X => r.wake[t] = k.wake[t]
  BY DEF Freed
<1> QED
  BY <1>1, <1>2, <1>3 DEF Freed, NoOverdueSleeper, SameClock

(* The tasks of a sequence are unblocked, one after the other.             *)
LEMMA UnblockAllIs ==
  ASSUME NEW k, Lists(k), NEW seq \in Seq(Task)
  PROVE  LET r == FoldLeft(Unblock, k, seq)
         IN Freed(k, r, ToSet(seq)) /\ r.yield = k.yield
<1> DEFINE K == {q \in Kernels : Lists(q)}
           n == Len(seq)
           F == [p \in K \X (1..n) |-> Unblock(p[1], seq[p[2]])]
           X(i) == {seq[j] : j \in 1..i}
           Done(i, q) == Freed(k, q, X(i)) /\ q.yield = k.yield
           I == {p \in (0..n) \X K : Done(p[1], p[2])}
           r == FoldLeft(Unblock, k, seq)
<1>0. n \in Nat /\ (\A i \in 1..n : seq[i] \in Task) /\ ToSet(seq) = X(n)
  BY LenProperties, ElementOfSeq, ToSetIs
<1>1. k \in K
  BY DEF Lists
<1>2. \A q \in K, t \in Task : Unblock(q, t) \in K /\ Unblock(q, t).yield = q.yield
                               /\ Freed(q, Unblock(q, t), {t})
  <2>1. ASSUME NEW q \in K, NEW t \in Task
        PROVE  Unblock(q, t) \in K /\ Unblock(q, t).yield = q.yield
               /\ Freed(q, Unblock(q, t), {t})
    <3>1. Lists(q)
      OBVIOUS
    <3>2. Freed(q, Unblock(q, t), {t}) /\ Unblock(q, t).yield = q.yield
      BY <3>1, UnblockIs
    <3>3. Lists(Unblock(q, t)) /\ Unblock(q, t) \in Kernels
      BY <3>2 DEF Freed, Lists
    <3> QED
      BY <3>2, <3>3
  <2> QED
    BY <2>1
<1>3. Leads(k, n, K, F, r)
  <2> HIDE DEF K
  <2> QED
    BY <1>1, <1>2, UnblockFold
<1>4. F \in [K \X (1..n) -> K]
  BY <1>0, <1>2
<1>5. <<0, k>> \in I
  <2>1. X(0) = {}
    OBVIOUS
  <2>2. k.wake \in [Task -> Ticks]
    BY <1>1, KernelFields
  <2>3. k.wake = [t \in Task |-> IF t \in {} THEN 0 ELSE k.wake[t]]
    BY <2>2
  <2>4. Freed(k, k, {})
    BY <2>3 DEF Freed, SameClock
  <2>5. Done(0, k)
    BY <2>1, <2>4
  <2> HIDE DEF Done, K
  <2> QED
    BY <1>0, <1>1, <2>5
<1>6. ASSUME NEW i \in 1..n, NEW q \in K, <<i - 1, q>> \in I
      PROVE  <<i, F[<<q, i>>]>> \in I
  <2> DEFINE u == Unblock(q, seq[i])
  <2>1. /\ Freed(k, q, X(i - 1)) /\ q.yield = k.yield
        /\ F[<<q, i>>] = u /\ seq[i] \in Task /\ i \in 0..n
    <3>1. Done(i - 1, q)
      BY <1>6
    <3>2. F[<<q, i>>] = u
      OBVIOUS
    <3> QED
      BY <1>0, <3>1, <3>2
  <2>2. u \in K /\ u.yield = k.yield /\ Freed(q, u, {seq[i]})
    BY <1>2, <2>1
  <2>3. X(i) = X(i - 1) \cup {seq[i]}
    BY <1>0
  <2> HIDE DEF u, K, F
  <2>4. Freed(k, u, X(i))
    <3>1. Freed(k, u, X(i - 1) \cup {seq[i]})
      <4> HIDE DEF X
      <4> QED
        BY <2>1, <2>2, FreedTogether
    <3> QED
      BY <2>3, <3>1
  <2> HIDE DEF X
  <2> QED
    BY <2>1, <2>2, <2>4
<1>7. r \in K /\ <<n, r>> \in I
  <2>1. Inductive(I, n, K, F)
    BY <1>6 DEF Inductive
  <2> HIDE DEF K, F, I, n, r
  <2> QED
    BY <1>0, <1>1, <1>3, <1>4, <1>5, <2>1, Unfolding
<1> QED
  BY <1>0, <1>7

(* The tasks whose time has come are those at the head of the list.        *)
UpTo(s, key, now) ==
  LET later == {i \in 1..Len(s) : key[s[i]] > now}
      first == IF later # {} THEN Min(later) ELSE 0
  IN IF first = 0 THEN s ELSE SubSeq(s, 1, first - 1)

LEMMA UpToIs ==
  ASSUME NEW S, NEW s \in Seq(S), NEW key, \A x \in S : key[x] \in Int,
         NEW now \in Int, Ordered(s, key)
  PROVE  /\ UpTo(s, key, now) \in Seq(S)
         /\ ToSet(UpTo(s, key, now)) = {t \in ToSet(s) : key[t] <= now}
<1> DEFINE I == {i \in 1..Len(s) : key[s[i]] > now}
           later == IF I # {} THEN Min(I) ELSE 0
<1>0. /\ Len(s) \in Nat /\ \A i \in 1..Len(s) : s[i] \in S /\ key[s[i]] \in Int
      /\ ToSet(s) = {s[i] : i \in 1..Len(s)}
  BY LenProperties, ElementOfSeq, ToSetIs
<1>2. later = IF I # {} THEN Min(I) ELSE 0
  OBVIOUS
<1>3. UpTo(s, key, now) = IF later = 0 THEN s ELSE SubSeq(s, 1, later - 1)
  BY DEF UpTo
<1> HIDE DEF later
<1>4. CASE I = {}
  <2>1. \A i \in 1..Len(s) : key[s[i]] <= now
    BY <1>0, <1>4
  <2>2. later = 0
    BY <1>2, <1>4
  <2> QED
    BY <1>0, <1>3, <2>1, <2>2
<1>5. CASE I # {}
  <2>1. Min(I) \in I /\ \A i \in I : Min(I) <= i
    <3>1. I \in SUBSET Nat
      BY <1>0
    <3> HIDE DEF I
    <3> QED
      BY <1>5, <3>1, MinOf
  <2>2. /\ later \in 1..Len(s) /\ later # 0 /\ key[s[later]] > now
        /\ \A i \in 1..Len(s) : key[s[i]] > now => later <= i
    BY <1>0, <1>2, <1>5, <2>1
  <2> HIDE DEF I
  <2> DEFINE x == SubSeq(s, 1, later - 1)
  <2>4. /\ x \in Seq(S) /\ Len(x) = later - 1
        /\ \A i \in 1..(later - 1) : x[i] = s[i]
    <3>1. /\ 1 \in Int /\ later - 1 \in Int /\ \A i \in 1..(later - 1) : s[i] \in S
          /\ later - 1 - 1 + 1 = later - 1 /\ (later - 1 < 1 => later - 1 = 0)
      BY <1>0, <2>2
    <3>2. /\ x \in Seq(S) /\ Len(x) = IF 1 <= later - 1 THEN later - 1 - 1 + 1 ELSE 0
          /\ \A i \in 1..(later - 1 - 1 + 1) : x[i] = s[1 + i - 1]
      BY <3>1, SubSeqProperties
    <3> QED
      BY <3>1, <3>2
  <2> HIDE DEF x
  <2>5. ToSet(x) = {x[i] : i \in 1..(later - 1)}
    BY <2>4, ToSetIs
  <2>6. ASSUME NEW i \in 1..Len(s)
        PROVE  key[s[i]] <= now <=> i < later
    <3>1. CASE i < later
      BY <1>0, <2>2, <3>1
    <3>2. CASE ~(i < later)
      <4>1. later <= i
        BY <1>0, <2>2, <3>2
      <4>2. key[s[later]] <= key[s[i]]
        BY <2>2, <4>1 DEF Ordered
      <4>3. key[s[later]] \in Int /\ key[s[i]] \in Int
        BY <1>0, <2>2
      <4> QED
        BY <2>2, <3>2, <4>2, <4>3
    <3> QED
      BY <3>1, <3>2
  <2>7. ASSUME NEW i \in 1..(later - 1)
        PROVE  x[i] \in ToSet(s) /\ key[x[i]] <= now
    <3>1. i \in 1..Len(s) /\ i < later
      BY <1>0, <2>2
    <3> QED
      BY <1>0, <2>4, <2>6, <3>1
  <2>8. ASSUME NEW i \in 1..Len(s), key[s[i]] <= now
        PROVE  s[i] \in ToSet(x)
    <3>1. i \in 1..(later - 1)
      <4>1. i < later
        BY <2>6, <2>8
      <4> QED
        BY <1>0, <2>2, <4>1
    <3> QED
      BY <2>4, <2>5, <3>1
  <2>9. ToSet(x) \subseteq {t \in ToSet(s) : key[t] <= now}
    BY <2>5, <2>7
  <2>10. {t \in ToSet(s) : key[t] <= now} \subseteq ToSet(x)
    BY <1>0, <2>8
  <2> QED
    BY <1>3, <2>2, <2>4, <2>9, <2>10 DEF x
<1> QED
  BY <1>4, <1>5

LEMMA ExpiredIs ==
  ASSUME NEW k, Lists(k)
  PROVE  /\ Expired(k) \in Seq(Task)
         /\ ToSet(Expired(k)) = {t \in ToSet(k.delayed) : k.wake[t] <= k.tick}
<1>1. /\ k.delayed \in Seq(Task) /\ k.tick \in Int /\ Ordered(k.delayed, k.wake)
      /\ \A t \in Task : k.wake[t] \in Int
  BY KernelFields, Constants DEF Lists
<1> DEFINE s == k.delayed
           key == k.wake
           now == k.tick
<1>2. Expired(k) = UpTo(s, key, now)
  BY DEF Expired, UpTo, SelectInSeq
<1>3. /\ s \in Seq(Task) /\ now \in Int /\ Ordered(s, key)
      /\ \A t \in Task : key[t] \in Int
  BY <1>1
<1>4. UpTo(s, key, now) \in Seq(Task)
      /\ ToSet(UpTo(s, key, now)) = {t \in ToSet(s) : key[t] <= now}
  <2> HIDE DEF s, key, now
  <2> QED
    BY <1>3, UpToIs
<1> QED
  BY <1>2, <1>4

(* The tasks of X are made ready, whatever the clocks and marks do.        *)
Roused(k, r, X) ==
  /\ Lists(r) /\ ReadyTasks(r) = ReadyTasks(k) \cup X
  /\ Sleepers(r) = Sleepers(k) \ X
  /\ ToSet(r.delayed) \cap ToSet(r.overflow)
       \subseteq ToSet(k.delayed) \cap ToSet(k.overflow)
  /\ ToSet(r.pending) = ToSet(k.pending) \ X
  /\ \A e \in EventList : ToSet(r.event[e]) = ToSet(k.event[e]) \ X
  /\ r.wake = [t \in Task |-> IF t \in X THEN 0 ELSE k.wake[t]]

LEMMA NobodyRoused ==
  ASSUME NEW k, Lists(k)
  PROVE  Roused(k, k, {})
<1>1. k.wake \in [Task -> Ticks]
  BY KernelFields DEF Lists
<1>2. k.wake = [t \in Task |-> IF t \in {} THEN 0 ELSE k.wake[t]]
  BY <1>1
<1> QED
  BY <1>2 DEF Roused

LEMMA FreedRoused ==
  ASSUME NEW k, NEW r, NEW X, Freed(k, r, X)
  PROVE  Roused(k, r, X)
  BY DEF Freed, Roused, Sleepers

LEMMA RousedTogether ==
  ASSUME NEW k, NEW q, NEW r, NEW X, NEW Y, Roused(k, q, X), Roused(q, r, Y)
  PROVE  Roused(k, r, X \cup Y)
<1>1. r.wake = [t \in Task |-> IF t \in X \cup Y THEN 0 ELSE k.wake[t]]
  BY DEF Roused
<1> QED
  BY <1>1 DEF Roused

LEMMA RousedPlaced ==
  ASSUME NEW k, NEW r, NEW X, Roused(k, r, X)
  PROVE  /\ \A alive : Placed(k, alive) /\ X \subseteq alive => Placed(r, alive)
         /\ Waits(k) => Waits(r)
  BY DEF Roused, Placed, Waits

(* The next look at the delayed list is due when its first task is.        *)
LEMMA ResetNextUnblockIs ==
  ASSUME NEW k, Lists(k)
  PROVE  LET r == ResetNextUnblock(k)
         IN /\ Lists(r) /\ ReadyTasks(r) = ReadyTasks(k)
            /\ r.delayed = k.delayed /\ r.overflow = k.overflow
            /\ r.pending = k.pending /\ r.event = k.event /\ r.wake = k.wake
            /\ r.yield = k.yield /\ SameClock(k, r)
            /\ \A t \in ToSet(k.delayed) : r.next <= k.wake[t]
<1> DEFINE next == IF k.delayed = <<>> THEN MaxDelay ELSE k.wake[Head(k.delayed)]
           r == ResetNextUnblock(k)
<1>0. /\ k \in Kernels /\ ReadyOK(k) /\ k.delayed \in Seq(Task)
      /\ k.wake \in [Task -> Ticks] /\ MaxDelay \in Ticks
  BY KernelFields, Constants DEF Lists
<1>1. k.delayed # <<>> => /\ Head(k.delayed) \in ToSet(k.delayed)
                          /\ \A t \in ToSet(k.delayed) : k.wake[Head(k.delayed)] <= k.wake[t]
  BY <1>0, HeadIs DEF Lists
<1>2. ToSet(k.delayed) \subseteq Task /\ (k.delayed = <<>> => ToSet(k.delayed) = {})
  BY <1>0, ToSetIs
<1>3. next \in Ticks /\ \A t \in ToSet(k.delayed) : next <= k.wake[t]
  BY <1>0, <1>1, <1>2
<1>4. r = [k EXCEPT !.next = next]
  BY DEF ResetNextUnblock
<1> HIDE DEF next
<1>5. /\ r \in Kernels /\ r.ready = k.ready /\ r.top = k.top
      /\ r.delayed = k.delayed /\ r.overflow = k.overflow
      /\ r.pending = k.pending /\ r.event = k.event /\ r.wake = k.wake
      /\ r.yield = k.yield /\ SameClock(k, r) /\ r.next = next
  BY <1>0, <1>3, <1>4 DEF Kernels, SameClock
<1> HIDE DEF r
<1>6. ReadyOK(r) /\ ReadyTasks(r) = ReadyTasks(k)
  BY <1>0, <1>5 DEF ReadyOK, ReadyTasks
<1> QED
  BY <1>3, <1>5, <1>6 DEF Lists, r

(* The clocks, one tick later.                                             *)
Ticked(k, r) ==
  /\ r.tick = (k.tick + 1) % TickMod
  /\ r.overflows = IF r.tick = 0 THEN (k.overflows + 1) % OverflowMod
                                 ELSE k.overflows
  /\ r.pended = k.pended

LEMMA NextTick ==
  ASSUME NEW i \in Ticks
  PROVE  (i + 1) % TickMod = IF i = MaxDelay THEN 0 ELSE i + 1
<1>1. TickMod \in Nat \ {0, 1} /\ MaxDelay = TickMod - 1 /\ i \in 0..(TickMod - 1)
  BY Constants
<1>2. CASE i = MaxDelay
  BY <1>1, <1>2
<1>3. CASE i # MaxDelay
  BY <1>1, <1>3
<1> QED
  BY <1>2, <1>3

(* The two delayed lists are swapped when the count of the ticks wraps,    *)
(* and then nobody sleeps in the first.                                    *)
LEMMA SwitchDelayedListsIs ==
  ASSUME NEW k, Lists(k)
  PROVE  LET r == SwitchDelayedLists(k)
         IN /\ Lists(r) /\ ReadyTasks(r) = ReadyTasks(k)
            /\ r.delayed = k.overflow /\ r.overflow = k.delayed
            /\ r.pending = k.pending /\ r.event = k.event /\ r.wake = k.wake
            /\ r.yield = k.yield /\ r.tick = k.tick /\ r.pended = k.pended
            /\ r.overflows = (k.overflows + 1) % OverflowMod
            /\ \A t \in ToSet(r.delayed) : r.next <= k.wake[t]
<1> DEFINE s == [k EXCEPT !.delayed = k.overflow, !.overflow = k.delayed,
                          !.overflows = (@ + 1) % OverflowMod]
<1>0. k \in Kernels /\ ReadyOK(k) /\ OverflowMod \in Nat \ {0}
      /\ k.overflows \in 0..(OverflowMod - 1)
  BY KernelFields, Constants DEF Lists
<1>1. (k.overflows + 1) % OverflowMod \in 0..(OverflowMod - 1)
  BY <1>0
<1>2. /\ s \in Kernels /\ s.ready = k.ready /\ s.top = k.top
      /\ s.delayed = k.overflow /\ s.overflow = k.delayed
      /\ s.pending = k.pending /\ s.event = k.event /\ s.wake = k.wake
      /\ s.yield = k.yield /\ s.tick = k.tick /\ s.pended = k.pended
      /\ s.overflows = (k.overflows + 1) % OverflowMod
  BY <1>0, <1>1 DEF Kernels
<1>3. SwitchDelayedLists(k) = ResetNextUnblock(s)
  BY <1>0 DEF SwitchDelayedLists, Kernels
<1> HIDE DEF s
<1>4. ReadyOK(s) /\ ReadyTasks(s) = ReadyTasks(k)
  BY <1>0, <1>2 DEF ReadyOK, ReadyTasks
<1>5. Lists(s)
  BY <1>2, <1>4 DEF Lists
<1>6. LET r == ResetNextUnblock(s)
      IN /\ Lists(r) /\ ReadyTasks(r) = ReadyTasks(s)
         /\ r.delayed = s.delayed /\ r.overflow = s.overflow
         /\ r.pending = s.pending /\ r.event = s.event /\ r.wake = s.wake
         /\ r.yield = s.yield /\ SameClock(s, r)
         /\ \A t \in ToSet(s.delayed) : r.next <= s.wake[t]
  BY <1>5, ResetNextUnblockIs
<1> QED
  BY <1>2, <1>3, <1>4, <1>6 DEF SameClock

(* The clocks after the tick and the lists in the order of the round.      *)
LEMMA RoundIs ==
  ASSUME NEW k, NEW due, Lists(k), NoOverdueSleeper(k, due)
  PROVE  LET now == [k EXCEPT !.tick = (@ + 1) % TickMod]
             r == IF now.tick = 0 THEN SwitchDelayedLists(now) ELSE now
         IN /\ Lists(r) /\ Ticked(k, r) /\ r.yield = k.yield
            /\ Roused(k, r, {})
            /\ \A t \in ToSet(r.delayed) :
                 r.next <= r.wake[t] /\ (r.tick <= r.wake[t] \/ t \in due)
            /\ \A t \in ToSet(r.overflow) : r.wake[t] < r.tick
<1> DEFINE now == [k EXCEPT !.tick = (@ + 1) % TickMod]
           r == IF now.tick = 0 THEN SwitchDelayedLists(now) ELSE now
<1>0. /\ k \in Kernels /\ ReadyOK(k) /\ k.tick \in Ticks
      /\ TickMod \in Nat \ {0, 1} /\ MaxDelay = TickMod - 1 /\ Ticks = 0..MaxDelay
      /\ k.wake \in [Task -> Ticks]
      /\ ToSet(k.delayed) \subseteq Task /\ ToSet(k.overflow) \subseteq Task
  BY KernelFields, Constants, ToSetIs DEF Lists, Ticks
<1>1. (k.tick + 1) % TickMod = IF k.tick = MaxDelay THEN 0 ELSE k.tick + 1
  BY <1>0, NextTick
<1>2. (k.tick + 1) % TickMod \in Ticks
  BY <1>0, <1>1
<1>3. /\ now \in Kernels /\ now.ready = k.ready /\ now.top = k.top
      /\ now.delayed = k.delayed /\ now.overflow = k.overflow
      /\ now.pending = k.pending /\ now.event = k.event /\ now.wake = k.wake
      /\ now.yield = k.yield /\ now.overflows = k.overflows /\ now.next = k.next
      /\ now.tick = (k.tick + 1) % TickMod /\ now.pended = k.pended
  BY <1>0, <1>2 DEF Kernels
<1> HIDE DEF now
<1>4. ReadyOK(now) /\ ReadyTasks(now) = ReadyTasks(k)
  BY <1>0, <1>3 DEF ReadyOK, ReadyTasks
<1>5. Lists(now)
  BY <1>3, <1>4 DEF Lists
<1>6. Roused(k, k, {})
  BY NobodyRoused
<1>7. CASE now.tick = 0
  <2>1. k.tick = MaxDelay
    BY <1>0, <1>1, <1>3, <1>7
  <2>2. ToSet(k.delayed) = {}
    <3>1. \A t \in ToSet(k.delayed) : k.wake[t] <= MaxDelay
      BY <1>0
    <3> QED
      BY <1>0, <2>1, <3>1 DEF NoOverdueSleeper
  <2> DEFINE s == SwitchDelayedLists(now)
  <2>3. /\ Lists(s) /\ ReadyTasks(s) = ReadyTasks(now)
        /\ s.delayed = now.overflow /\ s.overflow = now.delayed
        /\ s.pending = now.pending /\ s.event = now.event /\ s.wake = now.wake
        /\ s.yield = now.yield /\ s.tick = now.tick /\ s.pended = now.pended
        /\ s.overflows = (now.overflows + 1) % OverflowMod
        /\ \A t \in ToSet(s.delayed) : s.next <= now.wake[t]
    BY <1>5, SwitchDelayedListsIs
  <2>4. r = s
    BY <1>7
  <2> HIDE DEF s, r
  <2>5. Ticked(k, s) /\ s.yield = k.yield
    BY <1>3, <1>7, <2>3 DEF Ticked
  <2>6. Roused(k, s, {})
    BY <1>3, <1>4, <1>6, <2>3 DEF Roused, Sleepers
  <2>7. /\ \A t \in ToSet(s.delayed) :
             s.next <= s.wake[t] /\ (s.tick <= s.wake[t] \/ t \in due)
        /\ \A t \in ToSet(s.overflow) : s.wake[t] < s.tick
    BY <1>0, <1>3, <1>7, <2>2, <2>3
  <2>8. Lists(r) /\ Ticked(k, r) /\ r.yield = k.yield /\ Roused(k, r, {})
        /\ (\A t \in ToSet(r.delayed) :
              r.next <= r.wake[t] /\ (r.tick <= r.wake[t] \/ t \in due))
        /\ \A t \in ToSet(r.overflow) : r.wake[t] < r.tick
    BY <2>3, <2>4, <2>5, <2>6, <2>7
  <2> QED
    BY <2>8 DEF r, now
<1>8. CASE now.tick # 0
  <2>1. k.tick # MaxDelay /\ now.tick = k.tick + 1
    BY <1>0, <1>1, <1>3, <1>8
  <2>2. r = now
    BY <1>8
  <2>3. Ticked(k, now)
    BY <1>3, <1>8 DEF Ticked
  <2>4. Roused(k, now, {})
    BY <1>3, <1>4, <1>5, <1>6 DEF Roused, Sleepers
  <2>5. /\ \A t \in ToSet(now.delayed) :
             now.next <= now.wake[t] /\ (now.tick <= now.wake[t] \/ t \in due)
        /\ \A t \in ToSet(now.overflow) : now.wake[t] < now.tick
    BY <1>0, <1>3, <2>1 DEF NoOverdueSleeper
  <2> HIDE DEF r
  <2>8. Lists(r) /\ Ticked(k, r) /\ r.yield = k.yield /\ Roused(k, r, {})
        /\ (\A t \in ToSet(r.delayed) :
              r.next <= r.wake[t] /\ (r.tick <= r.wake[t] \/ t \in due))
        /\ \A t \in ToSet(r.overflow) : r.wake[t] < r.tick
    BY <1>3, <1>5, <2>2, <2>3, <2>4, <2>5
  <2> QED
    BY <2>8 DEF r, now
<1> QED
  BY <1>7, <1>8

(* A tick makes ready exactly the tasks whose time it is, those that were  *)
(* due already among them, and leaves no sleeper past its time.            *)
LEMMA IncrementTickIs ==
  ASSUME NEW k, NEW due, Lists(k), NoOverdueSleeper(k, due)
  PROVE  LET r == IncrementTick(k)
         IN /\ NoOverdueSleeper(r, due) /\ Ticked(k, r) /\ r.yield = k.yield
            /\ \E X \in SUBSET Sleepers(k) :
                 Roused(k, r, X) /\ \A t \in X : k.wake[t] = r.tick \/ t \in due
<1> DEFINE now == [k EXCEPT !.tick = (@ + 1) % TickMod]
           cut == IF now.tick = 0 THEN SwitchDelayedLists(now) ELSE now
           r == IncrementTick(k)
<1>1. /\ Lists(cut) /\ Ticked(k, cut) /\ cut.yield = k.yield
      /\ Roused(k, cut, {})
      /\ \A t \in ToSet(cut.delayed) :
           cut.next <= cut.wake[t] /\ (cut.tick <= cut.wake[t] \/ t \in due)
      /\ \A t \in ToSet(cut.overflow) : cut.wake[t] < cut.tick
  BY RoundIs
<1>2. r = IF cut.tick < cut.next THEN cut
          ELSE ResetNextUnblock(FoldLeft(Unblock, cut, Expired(cut)))
  BY DEF IncrementTick
<1> HIDE DEF cut, r
<1>0. /\ Sleepers(cut) = Sleepers(k) /\ cut.wake = k.wake
      /\ cut.tick \in Int /\ cut.next \in Int /\ \A t \in Task : cut.wake[t] \in Int
      /\ ToSet(cut.delayed) \subseteq Task /\ ToSet(cut.overflow) \subseteq Task
  <2>1. cut.wake = [t \in Task |-> k.wake[t]] /\ k.wake \in [Task -> Ticks]
    BY <1>1, KernelFields DEF Roused, Lists
  <2>2. cut.wake = k.wake
    BY <2>1
  <2> QED
    BY <1>1, <2>2, KernelFields, Constants, ToSetIs DEF Roused, Lists
<1>3. CASE cut.tick < cut.next
  <2>1. NoOverdueSleeper(cut, due)
    <3>1. ASSUME NEW t \in ToSet(cut.delayed)
          PROVE  cut.next <= cut.wake[t] /\ cut.tick < cut.wake[t]
      <4>1. cut.wake[t] \in Int /\ cut.next <= cut.wake[t]
        BY <1>0, <1>1
      <4> QED
        BY <1>0, <1>3, <4>1
    <3>2. \A t \in ToSet(cut.overflow) : cut.wake[t] < cut.tick
      BY <1>1
    <3> QED
      BY <3>1, <3>2 DEF NoOverdueSleeper
  <2>2. {} \in SUBSET Sleepers(k) /\ Roused(k, cut, {})
        /\ \A t \in {} : k.wake[t] = cut.tick \/ t \in due
    BY <1>1
  <2>3. r = cut
    BY <1>2, <1>3
  <2> QED
    BY <1>1, <2>1, <2>2, <2>3 DEF r
<1>4. CASE ~(cut.tick < cut.next)
  <2> DEFINE seq == Expired(cut)
             X == ToSet(seq)
             u == FoldLeft(Unblock, cut, seq)
             s == ResetNextUnblock(u)
  <2>1. seq \in Seq(Task) /\ X = {t \in ToSet(cut.delayed) : cut.wake[t] <= cut.tick}
    BY <1>1, ExpiredIs
  <2>2. Freed(cut, u, X) /\ u.yield = cut.yield
    <3> HIDE DEF seq
    <3> QED
      BY <1>1, <2>1, UnblockAllIs
  <2>3. r = s
    BY <1>2, <1>4
  <2> HIDE DEF u, X
  <2>4. /\ Lists(s) /\ ReadyTasks(s) = ReadyTasks(u)
        /\ s.delayed = u.delayed /\ s.overflow = u.overflow
        /\ s.pending = u.pending /\ s.event = u.event /\ s.wake = u.wake
        /\ s.yield = u.yield /\ SameClock(u, s)
        /\ \A t \in ToSet(u.delayed) : s.next <= u.wake[t]
    BY <2>2, ResetNextUnblockIs DEF Freed
  <2> HIDE DEF s
  <2>5. Roused(cut, s, X)
    BY <2>2, <2>4, FreedRoused DEF Roused, Sleepers
  <2>6. Roused(k, s, X)
    <3>1. {} \cup X = X
      OBVIOUS
    <3> QED
      BY <1>1, <2>5, <3>1, RousedTogether
  <2>7. \A t \in X : k.wake[t] = cut.tick \/ t \in due
    BY <1>0, <1>1, <2>1
  <2>8. X \in SUBSET Sleepers(k)
    BY <1>0, <2>1 DEF Sleepers
  <2>9. NoOverdueSleeper(s, due)
    <3>1. s.tick = cut.tick
      BY <2>2, <2>4 DEF Freed, SameClock
    <3>2. /\ ToSet(s.delayed) = ToSet(cut.delayed) \ X
          /\ ToSet(s.overflow) = ToSet(cut.overflow) \ X
      BY <2>2, <2>4 DEF Freed
    <3>3. \A t \in Task : t \notin X => u.wake[t] = cut.wake[t] /\ s.wake[t] = cut.wake[t]
      BY <2>2, <2>4 DEF Freed
    <3>4. ASSUME NEW t \in ToSet(s.delayed)
          PROVE  s.tick < s.wake[t] /\ s.next <= s.wake[t]
      <4>1. t \in Task /\ t \notin X /\ t \in ToSet(cut.delayed)
        BY <1>0, <3>2, <3>4
      <4>2. cut.tick < cut.wake[t]
        BY <1>0, <2>1, <4>1
      <4>3. s.next <= s.wake[t]
        BY <2>4, <3>4
      <4> QED
        BY <3>1, <3>3, <4>1, <4>2, <4>3
    <3>5. ASSUME NEW t \in ToSet(s.overflow)
          PROVE  s.wake[t] < s.tick
      BY <1>0, <1>1, <3>1, <3>2, <3>3
    <3> QED
      BY <3>4, <3>5 DEF NoOverdueSleeper
  <2>10. Ticked(k, s) /\ s.yield = k.yield /\ s.tick = cut.tick
    BY <1>1, <2>2, <2>4 DEF Ticked, Freed, SameClock
  <2> QED
    BY <2>3, <2>6, <2>7, <2>8, <2>9, <2>10 DEF r
<1> QED
  BY <1>3, <1>4

-----------------------------------------------------------------------------
(* Scheduling: of the ready tasks one of the highest priority.             *)
SameLists(k, r) ==
  /\ Lists(r) /\ ReadyTasks(r) = ReadyTasks(k)
  /\ r.delayed = k.delayed /\ r.overflow = k.overflow /\ r.wake = k.wake
  /\ r.event = k.event /\ r.pending = k.pending
  /\ r.next = k.next /\ SameClock(k, r)

LEMMA SameListsKeep ==
  ASSUME NEW k, NEW r, SameLists(k, r)
  PROVE  /\ Sleepers(r) = Sleepers(k)
         /\ \A alive : Placed(k, alive) => Placed(r, alive)
         /\ Waits(k) => Waits(r)
         /\ \A due : NoOverdueSleeper(k, due) => NoOverdueSleeper(r, due)
  BY DEF SameLists, SameClock, Placed, Waits, Sleepers, NoOverdueSleeper

LEMMA HighestIs ==
  ASSUME NEW k, Lists(k), ReadyTasks(k) # {}
  PROVE  /\ Highest(k) \in 0..k.top /\ k.ready[Highest(k)].items # <<>>
         /\ \A t \in ReadyTasks(k) : Priority[t] <= Highest(k)
<1> DEFINE P == {p \in 0..k.top : k.ready[p].items # <<>>}
<1>0. /\ k \in Kernels /\ ReadyOK(k) /\ k.top \in 0..TopPriority
      /\ TopPriority \in Nat /\ \A t \in Task : Priority[t] \in 0..TopPriority
  BY KernelFields, Constants DEF Lists
<1>1. ASSUME NEW t \in ReadyTasks(k) PROVE Priority[t] \in P
  <2>1. t \in Task /\ t \in ToSet(k.ready[Priority[t]].items)
    BY <1>0, ReadyIs
  <2>2. k.ready[Priority[t]].items \in Seq(Task)
    BY <1>0, <2>1, KernelFields
  <2>3. k.ready[Priority[t]].items # <<>>
    BY <2>1, <2>2, ToSetIs
  <2> QED
    BY <1>0, <2>1, <2>3 DEF ReadyOK
<1>2. P \in SUBSET (0..k.top) /\ P # {} /\ k.top \in Nat
  BY <1>0, <1>1
<1>3. Highest(k) = Max(P)
  BY DEF Highest
<1>4. Max(P) \in P /\ \A p \in P : p <= Max(P)
  <2> HIDE DEF P
  <2> QED
    BY <1>2, MaxOf
<1> QED
  BY <1>1, <1>3, <1>4

LEMMA SwitchContextIs ==
  ASSUME NEW k, Lists(k), ReadyTasks(k) # {}
  PROVE  /\ SameLists(k, SwitchContext(k)) /\ SwitchContext(k).yield = FALSE
         /\ Chosen(k) \in ReadyTasks(k)
         /\ \A t \in ReadyTasks(k) : Priority[t] <= Priority[Chosen(k)]
<1> DEFINE h == Highest(k)
           l == Advance(k.ready[h])
           r == SwitchContext(k)
<1>0. /\ k \in Kernels /\ ReadyOK(k) /\ k.top \in 0..TopPriority /\ TopPriority \in Nat
      /\ k.ready \in [0..TopPriority -> [items : Seq(Task), index : Nat]]
      /\ \A t \in Task : Priority[t] \in 0..TopPriority
  BY KernelFields, Constants DEF Lists
<1>1. /\ h \in 0..k.top /\ k.ready[h].items # <<>>
      /\ \A t \in ReadyTasks(k) : Priority[t] <= h
  BY HighestIs
<1> HIDE DEF h
<1>2. h \in 0..TopPriority
  BY <1>0, <1>1
<1>3. Ring(k.ready[h])
  BY <1>0, <1>2 DEF ReadyOK
<1>4. /\ Ring(l) /\ l.items = k.ready[h].items
      /\ k.ready[h].items[l.index] \in ToSet(k.ready[h].items)
  BY <1>1, <1>3, AdvanceIs
<1>5. l \in [items : Seq(Task), index : Nat]
  BY <1>4 DEF Ring
<1> HIDE DEF l
<1>6. [k.ready EXCEPT ![h] = l] \in [0..TopPriority -> [items : Seq(Task), index : Nat]]
  BY <1>0, <1>5
<1>7. r = [k EXCEPT !.top = h, !.ready = [k.ready EXCEPT ![h] = l], !.yield = FALSE]
  BY <1>0 DEF SwitchContext, Kernels, h, l
<1>8. /\ r \in Kernels /\ r.ready = [k.ready EXCEPT ![h] = l] /\ r.top = h
      /\ r.delayed = k.delayed /\ r.overflow = k.overflow /\ r.wake = k.wake
      /\ r.event = k.event /\ r.pending = k.pending /\ r.yield = FALSE
      /\ r.next = k.next /\ SameClock(k, r)
  BY <1>0, <1>2, <1>6, <1>7 DEF Kernels, SameClock
<1> HIDE DEF r
<1>9. \A p \in 0..TopPriority : Ring(r.ready[p]) /\ r.ready[p].items = k.ready[p].items
  BY <1>0, <1>2, <1>4, <1>8 DEF ReadyOK
<1>10. ReadyTasks(r) = ReadyTasks(k)
  BY <1>0, <1>9 DEF ReadyTasks
<1>11. ASSUME NEW p \in 0..TopPriority, r.ready[p].items # <<>> PROVE p <= r.top
  <2>1. k.ready[p].items \in Seq(Task) /\ k.ready[p].items # <<>>
    BY <1>0, <1>9, <1>11
  <2>2. PICK t \in ToSet(k.ready[p].items) : TRUE
    BY <2>1, ToSetIs
  <2>3. t \in ReadyTasks(k) /\ Priority[t] = p
    BY <1>0, <2>2, ReadyIs
  <2> QED
    BY <1>1, <1>8, <2>3
<1>12. ReadyOK(r)
  BY <1>0, <1>9, <1>11 DEF ReadyOK
<1>13. SameLists(k, r)
  BY <1>8, <1>10, <1>12 DEF SameLists, Lists
<1>14. Chosen(k) = k.ready[h].items[l.index]
  <2>1. r.ready[h] = l
    BY <1>0, <1>2, <1>8
  <2>2. Chosen(k) = r.ready[h].items[r.ready[h].index]
    BY DEF Chosen, r, h
  <2> QED
    BY <1>4, <2>1, <2>2
<1>15. Chosen(k) \in ReadyTasks(k) /\ Priority[Chosen(k)] = h
  BY <1>0, <1>2, <1>4, <1>14, ReadyIs
<1> QED
  BY <1>1, <1>8, <1>13, <1>15 DEF r

-----------------------------------------------------------------------------
(* Blocking: a ready task goes to sleep, and its time is still to come, or *)
(* it is one that may be due.                                              *)
LEMMA AddToDelayedIs ==
  ASSUME NEW k, NEW due, Lists(k), NoOverdueSleeper(k, due),
         ToSet(k.delayed) \cap ToSet(k.overflow) = {},
         NEW t \in Task, t \notin Sleepers(k), NEW w \in Ticks,
         w # k.tick \/ (t \in due /\ k.tick < MaxDelay)
  PROVE  LET r == AddToDelayed(k, t, w)
         IN /\ Lists(r) /\ ReadyTasks(r) = ReadyTasks(k)
            /\ Sleepers(r) = Sleepers(k) \cup {t}
            /\ ToSet(r.delayed) \cap ToSet(r.overflow) = {}
            /\ r.wake = [k.wake EXCEPT ![t] = w]
            /\ r.event = k.event /\ r.pending = k.pending
            /\ r.yield = k.yield /\ SameClock(k, r) /\ NoOverdueSleeper(r, due)
<1> DEFINE wake == [k.wake EXCEPT ![t] = w]
           r == AddToDelayed(k, t, w)
           d == InsertSorted(k.delayed, t, wake)
           o == InsertSorted(k.overflow, t, wake)
           next == IF w < k.next THEN w ELSE k.next
<1>0. /\ k \in Kernels /\ ReadyOK(k) /\ k.tick \in Int /\ k.next \in Ticks
      /\ k.wake \in [Task -> Ticks] /\ Ticks = 0..MaxDelay /\ w \in Int
      /\ k.delayed \in Seq(Task) /\ k.overflow \in Seq(Task)
      /\ MaxDelay \in Nat
  BY KernelFields, Constants DEF Lists, Ticks
<1>1. /\ wake \in [Task -> Ticks] /\ wake[t] = w
      /\ (\A x \in Task : wake[x] \in Int)
      /\ \A x \in Task : x # t => wake[x] = k.wake[x]
  BY <1>0
<1>2. /\ ToSet(k.delayed) \subseteq Task \ {t} /\ ToSet(k.overflow) \subseteq Task \ {t}
  BY <1>0, ToSetIs DEF Sleepers
<1> HIDE DEF wake
<1>3. Ordered(k.delayed, wake) /\ Ordered(k.overflow, wake)
  <2>1. /\ \A x \in ToSet(k.delayed) : wake[x] = k.wake[x]
        /\ \A x \in ToSet(k.overflow) : wake[x] = k.wake[x]
    BY <1>1, <1>2
  <2> QED
    BY <1>0, <2>1, OrderedByBoth DEF Lists
<1>4. /\ d \in Seq(Task) /\ Once(d) /\ ToSet(d) = ToSet(k.delayed) \cup {t}
      /\ Ordered(d, wake)
  BY <1>0, <1>1, <1>2, <1>3, InsertSortedIs DEF Lists
<1>5. /\ o \in Seq(Task) /\ Once(o) /\ ToSet(o) = ToSet(k.overflow) \cup {t}
      /\ Ordered(o, wake)
  BY <1>0, <1>1, <1>2, <1>3, InsertSortedIs DEF Lists
<1> HIDE DEF d, o
<1>6. CASE w < k.tick
  <2>1. r = [k EXCEPT !.wake = wake, !.overflow = o]
    BY <1>0, <1>6 DEF AddToDelayed, Kernels, wake, o
  <2>2. /\ r \in Kernels /\ r.ready = k.ready /\ r.top = k.top
        /\ r.delayed = k.delayed /\ r.overflow = o /\ r.wake = wake
        /\ r.event = k.event /\ r.pending = k.pending
        /\ r.yield = k.yield /\ r.next = k.next /\ SameClock(k, r) /\ r.tick = k.tick
    BY <1>0, <1>1, <1>5, <2>1 DEF Kernels, SameClock
  <2> HIDE DEF r
  <2>3. ReadyOK(r) /\ ReadyTasks(r) = ReadyTasks(k)
    BY <1>0, <2>2 DEF ReadyOK, ReadyTasks
  <2>4. Lists(r)
    BY <1>3, <1>5, <2>2, <2>3 DEF Lists
  <2>5. NoOverdueSleeper(r, due)
    BY <1>1, <1>2, <1>5, <1>6, <2>2 DEF NoOverdueSleeper
  <2> QED
    BY <1>2, <1>5, <2>2, <2>3, <2>4, <2>5 DEF Sleepers, r, wake
<1>7. CASE ~(w < k.tick)
  <2>1. r = [k EXCEPT !.wake = wake, !.delayed = d, !.next = next]
    BY <1>0, <1>7 DEF AddToDelayed, Kernels, wake, d
  <2>2. next \in Ticks /\ next <= w /\ next <= k.next
    BY <1>0
  <2> HIDE DEF next
  <2>3. /\ r \in Kernels /\ r.ready = k.ready /\ r.top = k.top
        /\ r.delayed = d /\ r.overflow = k.overflow /\ r.wake = wake
        /\ r.event = k.event /\ r.pending = k.pending
        /\ r.yield = k.yield /\ r.next = next /\ SameClock(k, r) /\ r.tick = k.tick
    BY <1>0, <1>1, <1>4, <2>1, <2>2 DEF Kernels, SameClock
  <2> HIDE DEF r
  <2>4. ReadyOK(r) /\ ReadyTasks(r) = ReadyTasks(k)
    BY <1>0, <2>3 DEF ReadyOK, ReadyTasks
  <2>5. Lists(r)
    BY <1>3, <1>4, <2>3, <2>4 DEF Lists
  <2>6. NoOverdueSleeper(r, due)
    <3>1. ASSUME NEW x \in ToSet(r.delayed)
          PROVE  /\ r.next <= r.wake[x]
                 /\ \/ r.tick < r.wake[x]
                    \/ x \in due /\ r.tick = r.wake[x] /\ r.tick < MaxDelay
      <4>1. CASE x = t
        BY <1>0, <1>1, <1>7, <2>2, <2>3, <4>1
      <4>2. CASE x # t
        <5>1. x \in ToSet(k.delayed) /\ x \in Task /\ wake[x] = k.wake[x]
          BY <1>1, <1>2, <1>4, <2>3, <4>2
        <5>2. /\ k.next <= k.wake[x] /\ k.wake[x] \in Int
              /\ \/ k.tick < k.wake[x]
                 \/ x \in due /\ k.tick = k.wake[x] /\ k.tick < MaxDelay
          BY <1>0, <5>1 DEF NoOverdueSleeper
        <5> QED
          BY <1>0, <2>2, <2>3, <5>1, <5>2
      <4> QED
        BY <4>1, <4>2
    <3>2. \A x \in ToSet(r.overflow) : r.wake[x] < r.tick
      BY <1>1, <1>2, <2>3 DEF NoOverdueSleeper
    <3> QED
      BY <3>1, <3>2 DEF NoOverdueSleeper
  <2> QED
    BY <1>2, <1>4, <2>3, <2>4, <2>5, <2>6 DEF Sleepers, r, wake
<1> QED
  BY <1>6, <1>7

LEMMA WakeTimeIs ==
  ASSUME NEW now \in Ticks, NEW ticks \in Ticks
  PROVE  /\ (now + ticks) % TickMod \in Ticks
         /\ (now + ticks) % TickMod = now => ticks = 0
<1>1. /\ TickMod \in Nat \ {0, 1} /\ Ticks = 0..(TickMod - 1)
      /\ now \in 0..(TickMod - 1) /\ ticks \in 0..(TickMod - 1)
  BY Constants
<1>2. (now + ticks) % TickMod = IF now + ticks < TickMod THEN now + ticks
                                                         ELSE now + ticks - TickMod
  BY <1>1
<1> QED
  BY <1>1, <1>2

(* What blocking takes: t is ready, and only one that may be due at once   *)
(* is given no ticks at all.                                               *)
MaySleep(k, t, ticks, due, alive) ==
  /\ Lists(k) /\ NoOverdueSleeper(k, due) /\ Placed(k, alive)
  /\ t \in ReadyTasks(k) /\ ticks \in Ticks
  /\ ticks # 0 \/ (t \in due /\ k.tick < MaxDelay)

(* ... and what it makes of the kernel.                                    *)
Blocked(k, r, t, ticks, due, alive) ==
  /\ Lists(r) /\ ReadyTasks(r) = ReadyTasks(k) \ {t}
  /\ Sleepers(r) = Sleepers(k) \cup {t} /\ Placed(r, alive)
  /\ r.wake = [k.wake EXCEPT ![t] = (k.tick + ticks) % TickMod]
  /\ r.event = k.event /\ r.pending = k.pending
  /\ r.yield = k.yield /\ SameClock(k, r) /\ NoOverdueSleeper(r, due)

LEMMA DelayIs ==
  ASSUME NEW k, NEW due, NEW alive, NEW t, NEW ticks,
         MaySleep(k, t, ticks, due, alive)
  PROVE  Blocked(k, Delay(k, t, ticks), t, ticks, due, alive)
<1> DEFINE q == RemoveGeneric(k, t)
           w == (k.tick + ticks) % TickMod
           r == AddToDelayed(q, t, w)
<1> USE DEF MaySleep
<1>0. /\ k \in Kernels /\ k.tick \in Ticks /\ k.wake \in [Task -> Ticks]
      /\ t \in Task /\ t \in alive /\ t \notin Sleepers(k)
      /\ ToSet(k.delayed) \subseteq Task /\ ToSet(k.overflow) \subseteq Task
  BY KernelFields, ToSetIs DEF Lists, Placed, ReadyTasks
<1>1. w \in Ticks /\ (w # k.tick \/ (t \in due /\ k.tick < MaxDelay))
  BY <1>0, WakeTimeIs DEF MaySleep
<1> HIDE DEF w
<1>2. /\ Lists(q) /\ ReadyTasks(q) = ReadyTasks(k) \ {t}
      /\ ToSet(q.delayed) = ToSet(k.delayed) \ {t}
      /\ ToSet(q.overflow) = ToSet(k.overflow) \ {t}
      /\ q.wake = [k.wake EXCEPT ![t] = 0]
      /\ q.event = k.event /\ q.pending = k.pending
      /\ q.next = k.next /\ q.yield = k.yield /\ SameClock(k, q)
  BY <1>0, RemoveGenericIs
<1> HIDE DEF q
<1>3. /\ ToSet(q.delayed) = ToSet(k.delayed) /\ ToSet(q.overflow) = ToSet(k.overflow)
      /\ Sleepers(q) = Sleepers(k)
  BY <1>0, <1>2 DEF Sleepers
<1>4. \A x \in Sleepers(k) : q.wake[x] = k.wake[x]
  BY <1>0, <1>2 DEF Sleepers
<1>5. NoOverdueSleeper(q, due)
  BY <1>2, <1>3, <1>4 DEF NoOverdueSleeper, SameClock, Sleepers
<1>6. ToSet(q.delayed) \cap ToSet(q.overflow) = {} /\ t \notin Sleepers(q)
      /\ (w # q.tick \/ (t \in due /\ q.tick < MaxDelay))
  BY <1>0, <1>1, <1>2, <1>3 DEF Placed, SameClock
<1>7. /\ Lists(r) /\ ReadyTasks(r) = ReadyTasks(q)
      /\ Sleepers(r) = Sleepers(q) \cup {t}
      /\ ToSet(r.delayed) \cap ToSet(r.overflow) = {}
      /\ r.wake = [q.wake EXCEPT ![t] = w]
      /\ r.event = q.event /\ r.pending = q.pending
      /\ r.yield = q.yield /\ SameClock(q, r) /\ NoOverdueSleeper(r, due)
  BY <1>0, <1>1, <1>2, <1>5, <1>6, AddToDelayedIs
<1>8. Delay(k, t, ticks) = r
  BY DEF Delay, q, w
<1> HIDE DEF r
<1>9. r.wake = [k.wake EXCEPT ![t] = w]
  BY <1>0, <1>2, <1>7
<1>10. Placed(r, alive)
  BY <1>0, <1>2, <1>3, <1>7 DEF Placed
<1>11. SameClock(k, r)
  BY <1>2, <1>7 DEF SameClock
<1> QED
  BY <1>2, <1>3, <1>7, <1>8, <1>9, <1>10, <1>11 DEF w, Blocked

LEMMA PlaceOnEventListIs ==
  ASSUME NEW k, NEW due, NEW alive, NEW t, NEW ticks, NEW e \in EventList,
         Waits(k), MaySleep(k, t, ticks, due, alive)
  PROVE  LET r == PlaceOnEventList(k, t, e, ticks)
         IN /\ Lists(r) /\ ReadyTasks(r) = ReadyTasks(k) \ {t}
            /\ Sleepers(r) = Sleepers(k) \cup {t} /\ Placed(r, alive) /\ Waits(r)
            /\ \A f \in EventList : ToSet(r.event[f]) =
                 ToSet(k.event[f]) \cup (IF f = e THEN {t} ELSE {})
            /\ r.pending = k.pending
            /\ r.yield = k.yield /\ SameClock(k, r) /\ NoOverdueSleeper(r, due)
<1> DEFINE s == InsertSorted(k.event[e], t, EventValue)
           q == [k EXCEPT !.event = [k.event EXCEPT ![e] = s]]
           r == Delay(q, t, ticks)
<1>0. /\ k \in Kernels /\ ReadyOK(k) /\ k.event \in [EventList -> Seq(Task)]
      /\ \A x \in Task : EventValue[x] \in Int
      /\ t \in Task /\ t \notin Sleepers(k) /\ Lists(k) /\ Placed(k, alive)
      /\ NoOverdueSleeper(k, due) /\ t \in ReadyTasks(k)
  BY KernelFields, Constants DEF MaySleep, Lists, Placed, ReadyTasks
<1>1. t \notin ToSet(k.event[e])
  BY <1>0 DEF Waits
<1>2. /\ s \in Seq(Task) /\ Once(s) /\ ToSet(s) = ToSet(k.event[e]) \cup {t}
      /\ Ordered(s, EventValue)
  BY <1>0, <1>1, InsertSortedIs DEF Lists
<1>3. PlaceOnEventList(k, t, e, ticks) = r
  BY <1>0 DEF PlaceOnEventList, Kernels
<1> HIDE DEF s
<1>4. [k.event EXCEPT ![e] = s] \in [EventList -> Seq(Task)]
  BY <1>0, <1>2
<1>5. /\ q \in Kernels /\ q.event = [k.event EXCEPT ![e] = s]
      /\ q.ready = k.ready /\ q.top = k.top /\ q.delayed = k.delayed
      /\ q.overflow = k.overflow /\ q.wake = k.wake /\ q.pending = k.pending
      /\ q.next = k.next /\ q.yield = k.yield /\ SameClock(k, q)
  BY <1>0, <1>4 DEF Kernels, SameClock
<1> HIDE DEF q
<1>6. \A f \in EventList : q.event[f] = IF f = e THEN s ELSE k.event[f]
  BY <1>0, <1>5
<1>7. ReadyOK(q) /\ ReadyTasks(q) = ReadyTasks(k) /\ Sleepers(q) = Sleepers(k)
  BY <1>0, <1>5 DEF ReadyOK, ReadyTasks, Sleepers
<1>8. Lists(q)
  <2>1. \A f \in EventList : Once(q.event[f]) /\ Ordered(q.event[f], EventValue)
    BY <1>0, <1>2, <1>6 DEF Lists
  <2> QED
    BY <1>0, <1>5, <1>7, <2>1 DEF Lists
<1>9. NoOverdueSleeper(q, due) /\ Placed(q, alive)
  BY <1>0, <1>5, <1>7 DEF NoOverdueSleeper, SameClock, Placed
<1>10. t \in ReadyTasks(q) /\ q.tick = k.tick
  BY <1>0, <1>5, <1>7 DEF SameClock
<1>11. /\ Lists(r) /\ ReadyTasks(r) = ReadyTasks(q) \ {t}
       /\ Sleepers(r) = Sleepers(q) \cup {t} /\ Placed(r, alive)
       /\ r.event = q.event /\ r.pending = q.pending
       /\ r.yield = q.yield /\ SameClock(q, r) /\ NoOverdueSleeper(r, due)
  <2>1. MaySleep(q, t, ticks, due, alive)
    BY <1>8, <1>9, <1>10 DEF MaySleep
  <2> HIDE DEF r
  <2>2. Blocked(q, r, t, ticks, due, alive)
    BY <2>1, DelayIs DEF r
  <2> QED
    BY <2>2 DEF Blocked
<1> HIDE DEF r
<1>12. \A f \in EventList : ToSet(r.event[f]) =
         ToSet(k.event[f]) \cup (IF f = e THEN {t} ELSE {})
  BY <1>2, <1>6, <1>11
<1>13. Waits(r)
  <2>1. t \notin ToSet(k.pending)
    BY <1>0 DEF Waits
  <2> QED
    BY <1>5, <1>7, <1>11, <1>12, <2>1 DEF Waits
<1> QED
  BY <1>3, <1>5, <1>7, <1>11, <1>12, <1>13 DEF SameClock

-----------------------------------------------------------------------------
(* Waking the head of an event list: it is of the highest priority there.  *)
(* While the scheduler is suspended it moves to the pending list.          *)
Took(k, r, e, cur, held) ==
  LET t == Head(k.event[e])
  IN /\ k.event[e] # <<>> /\ t \in ToSet(k.event[e])
     /\ \A x \in ToSet(k.event[e]) : Priority[x] <= Priority[t]
     /\ \A f \in EventList : ToSet(r.event[f]) = ToSet(k.event[f]) \ {t}
     /\ r.yield = (k.yield \/ Priority[t] > Priority[cur])
     /\ IF held THEN /\ ReadyTasks(r) = ReadyTasks(k) /\ Sleepers(r) = Sleepers(k)
                     /\ ToSet(r.pending) = ToSet(k.pending) \cup {t}
                ELSE Roused(k, r, {t})

LEMMA RemoveFromEventListIs ==
  ASSUME NEW k, NEW due, Lists(k), NoOverdueSleeper(k, due), NEW e \in EventList,
         k.event[e] # <<>>, NEW cur, NEW held \in BOOLEAN
  PROVE  LET r == RemoveFromEventList(k, e, cur, held)
         IN /\ Lists(r) /\ NoOverdueSleeper(r, due) /\ SameClock(k, r)
            /\ Took(k, r, e, cur, held)
            /\ held => r.delayed = k.delayed /\ r.overflow = k.overflow
<1> DEFINE t == Head(k.event[e])
           off == RemoveEvent(k, t)
           later == [off EXCEPT !.pending = Append(@, t)]
           now == AddToReady(RemoveGeneric(off, t), t)
           mid == IF held THEN later ELSE now
           y == k.yield \/ Priority[t] > Priority[cur]
           r == RemoveFromEventList(k, e, cur, held)
<1>0. /\ k \in Kernels /\ k.event[e] \in Seq(Task) /\ k.yield \in BOOLEAN
      /\ \A x \in Task : Priority[x] \in Nat /\ EventValue[x] = TopPriority - Priority[x]
      /\ TopPriority \in Nat
  <2>1. k \in Kernels /\ k.event[e] \in Seq(Task) /\ k.yield \in BOOLEAN
    BY KernelFields DEF Lists
  <2>2. TopPriority \in Nat /\ \A x \in Task : Priority[x] \in Nat
    BY Constants
  <2>3. \A x \in Task : EventValue[x] = TopPriority - Priority[x]
    BY DEF EventValue
  <2> QED
    BY <2>1, <2>2, <2>3
<1>1. /\ t \in ToSet(k.event[e]) /\ t \in Task /\ ToSet(k.event[e]) \subseteq Task
      /\ \A x \in ToSet(k.event[e]) : EventValue[t] <= EventValue[x]
  BY <1>0, HeadIs, ToSetIs DEF Lists
<1> HIDE DEF t
<1>2. \A x \in ToSet(k.event[e]) : Priority[x] <= Priority[t]
  BY <1>0, <1>1
<1>3. /\ Lists(off) /\ ReadyTasks(off) = ReadyTasks(k)
      /\ off.delayed = k.delayed /\ off.overflow = k.overflow /\ off.wake = k.wake
      /\ \A f \in EventList : ToSet(off.event[f]) = ToSet(k.event[f]) \ {t}
      /\ ToSet(off.pending) = ToSet(k.pending) \ {t}
      /\ off.next = k.next /\ off.yield = k.yield /\ SameClock(k, off)
  BY <1>1, RemoveEventIs
<1> HIDE DEF off
<1>4. r = [mid EXCEPT !.yield = @ \/ Priority[t] > Priority[cur]]
  BY DEF RemoveFromEventList, t, off
<1>5. CASE held
  <2> DEFINE p == Append(off.pending, t)
             s == [off EXCEPT !.pending = p, !.yield = y]
  <2>1. off \in Kernels /\ off.pending \in Seq(Task) /\ t \notin ToSet(off.pending)
    BY <1>3, KernelFields DEF Lists
  <2>2. p \in Seq(Task) /\ Once(p) /\ ToSet(p) = ToSet(off.pending) \cup {t}
    BY <1>1, <1>3, <2>1, AppendIs DEF Lists
  <2>3. r = s
    BY <1>3, <1>4, <1>5, <2>1 DEF Kernels
  <2> HIDE DEF p, y, r
  <2>4. y \in BOOLEAN
    BY <1>0 DEF y
  <2>5. /\ s \in Kernels /\ s.ready = off.ready /\ s.top = off.top
        /\ s.delayed = off.delayed /\ s.overflow = off.overflow
        /\ s.wake = off.wake /\ s.event = off.event /\ s.pending = p
        /\ s.next = off.next /\ s.yield = y /\ SameClock(off, s)
    BY <2>1, <2>2, <2>4 DEF Kernels, SameClock
  <2> HIDE DEF s
  <2>6. ReadyOK(s) /\ ReadyTasks(s) = ReadyTasks(off)
    BY <1>3, <2>5 DEF ReadyOK, ReadyTasks, Lists
  <2>7. Lists(s)
    BY <1>3, <2>2, <2>5, <2>6 DEF Lists
  <2>8. NoOverdueSleeper(s, due) /\ SameClock(k, s)
    BY <1>3, <2>5 DEF NoOverdueSleeper, SameClock
  <2>9. Sleepers(s) = Sleepers(k)
    BY <1>3, <2>5 DEF Sleepers
  <2>10. ToSet(s.pending) = ToSet(k.pending) \cup {t}
    BY <1>3, <2>2, <2>5
  <2>11. Took(k, s, e, cur, held)
    BY <1>1, <1>2, <1>3, <1>5, <2>5, <2>6, <2>9, <2>10 DEF Took, t, y
  <2> QED
    BY <1>3, <1>5, <2>3, <2>5, <2>7, <2>8, <2>11 DEF r
<1>6. CASE ~held
  <2> DEFINE gone == RemoveGeneric(off, t)
  <2>1. /\ Lists(gone) /\ ReadyTasks(gone) = ReadyTasks(off) \ {t}
        /\ ToSet(gone.delayed) = ToSet(off.delayed) \ {t}
        /\ ToSet(gone.overflow) = ToSet(off.overflow) \ {t}
        /\ gone.wake = [off.wake EXCEPT ![t] = 0]
        /\ gone.event = off.event /\ gone.pending = off.pending
        /\ gone.next = off.next /\ gone.yield = off.yield /\ SameClock(off, gone)
    BY <1>1, <1>3, RemoveGenericIs
  <2> DEFINE in == AddToReady(gone, t)
  <2> HIDE DEF gone
  <2>2. /\ Lists(in) /\ ReadyTasks(in) = ReadyTasks(gone) \cup {t}
        /\ in.delayed = gone.delayed /\ in.overflow = gone.overflow /\ in.wake = gone.wake
        /\ in.event = gone.event /\ in.pending = gone.pending
        /\ in.next = gone.next /\ in.yield = gone.yield /\ SameClock(gone, in)
    BY <1>1, <2>1, AddToReadyIs
  <2> HIDE DEF in
  <2> DEFINE s == [in EXCEPT !.yield = y]
  <2>3. in \in Kernels /\ in.yield = k.yield
    BY <1>3, <2>1, <2>2 DEF Lists
  <2>4. r = s
    BY <1>4, <1>6, <2>3 DEF Kernels, in, gone
  <2> HIDE DEF y, r
  <2>5. y \in BOOLEAN
    BY <1>0 DEF y
  <2>6. /\ s \in Kernels /\ s.ready = in.ready /\ s.top = in.top
        /\ s.delayed = in.delayed /\ s.overflow = in.overflow
        /\ s.wake = in.wake /\ s.event = in.event /\ s.pending = in.pending
        /\ s.next = in.next /\ s.yield = y /\ SameClock(in, s)
    BY <2>3, <2>5 DEF Kernels, SameClock
  <2> HIDE DEF s
  <2>7. ReadyOK(s) /\ ReadyTasks(s) = ReadyTasks(in)
    BY <2>2, <2>6 DEF ReadyOK, ReadyTasks, Lists
  <2>8. Lists(s)
    BY <2>2, <2>6, <2>7 DEF Lists
  <2>9. s.wake = [x \in Task |-> IF x \in {t} THEN 0 ELSE k.wake[x]]
    <3>1. k.wake \in [Task -> Ticks]
      BY <1>0, KernelFields
    <3> QED
      BY <1>3, <2>1, <2>2, <2>6, <3>1
  <2>10. Freed(k, s, {t})
    <3>1. ReadyTasks(s) = ReadyTasks(k) \cup {t}
      BY <1>3, <2>1, <2>2, <2>7
    <3>2. /\ ToSet(s.delayed) = ToSet(k.delayed) \ {t}
          /\ ToSet(s.overflow) = ToSet(k.overflow) \ {t}
      BY <1>3, <2>1, <2>2, <2>6
    <3>3. /\ \A f \in EventList : ToSet(s.event[f]) = ToSet(k.event[f]) \ {t}
          /\ ToSet(s.pending) = ToSet(k.pending) \ {t}
      BY <1>3, <2>1, <2>2, <2>6
    <3>4. s.next = k.next /\ SameClock(k, s)
      BY <1>3, <2>1, <2>2, <2>6 DEF SameClock
    <3> QED
      BY <2>8, <2>9, <3>1, <3>2, <3>3, <3>4 DEF Freed
  <2>11. NoOverdueSleeper(s, due) /\ SameClock(k, s) /\ Roused(k, s, {t})
    BY <2>10, FreedOverdue, FreedRoused DEF Freed
  <2>12. Took(k, s, e, cur, held)
    BY <1>1, <1>2, <1>3, <1>6, <2>6, <2>10, <2>11 DEF Took, t, y, Freed
  <2> QED
    BY <1>6, <2>4, <2>8, <2>11, <2>12 DEF r
<1> QED
  BY <1>5, <1>6

LEMMA WakeOneIs ==
  ASSUME NEW k, NEW due, Lists(k), NoOverdueSleeper(k, due), Waits(k), NEW e \in EventList,
         NEW cur, NEW held \in BOOLEAN, NEW alive, Placed(k, alive)
  PROVE  LET r == WakeOne(k, e, cur, held)
         IN /\ Lists(r) /\ NoOverdueSleeper(r, due) /\ SameClock(k, r)
            /\ Waits(r) /\ Placed(r, alive)
            /\ IF k.event[e] = <<>> THEN r = k ELSE Took(k, r, e, cur, held)
<1> DEFINE r == WakeOne(k, e, cur, held)
<1>1. CASE k.event[e] = <<>>
  BY <1>1 DEF WakeOne, SameClock
<1>2. CASE k.event[e] # <<>>
  <2> DEFINE s == RemoveFromEventList(k, e, cur, held)
             t == Head(k.event[e])
  <2>1. /\ Lists(s) /\ NoOverdueSleeper(s, due) /\ SameClock(k, s)
        /\ Took(k, s, e, cur, held)
        /\ held => s.delayed = k.delayed /\ s.overflow = k.overflow
    BY <1>2, RemoveFromEventListIs
  <2>2. r = s
    BY <1>2 DEF WakeOne
  <2> HIDE DEF s, r
  <2>3. t \in ToSet(k.event[e])
    BY <2>1 DEF Took
  <2>4. t \in Sleepers(k) /\ t \in alive
    BY <2>3 DEF Waits, Placed
  <2>5. CASE held
    <3>1. /\ ReadyTasks(s) = ReadyTasks(k) /\ Sleepers(s) = Sleepers(k)
          /\ ToSet(s.pending) = ToSet(k.pending) \cup {t}
          /\ \A f \in EventList : ToSet(s.event[f]) = ToSet(k.event[f]) \ {t}
      BY <2>1, <2>5 DEF Took
    <3>2. Waits(s)
      BY <2>4, <3>1 DEF Waits
    <3>3. Placed(s, alive)
      BY <2>1, <2>5, <3>1 DEF Placed
    <3> QED
      BY <1>2, <2>1, <2>2, <3>2, <3>3 DEF r
  <2>6. CASE ~held
    <3>1. Roused(k, s, {t})
      BY <2>1, <2>6 DEF Took
    <3>2. Waits(s) /\ Placed(s, alive)
      BY <2>4, <3>1, RousedPlaced
    <3> QED
      BY <1>2, <2>1, <2>2, <3>2 DEF r
  <2> QED
    BY <2>5, <2>6
<1> QED
  BY <1>1, <1>2

-----------------------------------------------------------------------------
(* xTaskResumeAll: the pending tasks are made ready ...                    *)
LEMMA LetGoIs ==
  ASSUME NEW k, Lists(k), NEW t \in Task, NEW cur
  PROVE  LET r == LetGo(k, t, cur)
         IN Freed(k, r, {t}) /\ r.yield = (k.yield \/ Priority[t] >= Priority[cur])
<1> DEFINE u == Unblock(k, t)
           y == k.yield \/ Priority[t] >= Priority[cur]
           r == [u EXCEPT !.yield = y]
<1>1. Freed(k, u, {t}) /\ u.yield = k.yield
  BY UnblockIs
<1> HIDE DEF u
<1>2. u \in Kernels /\ ReadyOK(u) /\ k.yield \in BOOLEAN
  BY <1>1, KernelFields DEF Freed, Lists
<1>3. y \in BOOLEAN
  BY <1>2
<1>4. LetGo(k, t, cur) = r
  BY <1>1, <1>2 DEF LetGo, u, Kernels
<1> HIDE DEF y
<1>5. /\ r \in Kernels /\ r.ready = u.ready /\ r.top = u.top
      /\ r.delayed = u.delayed /\ r.overflow = u.overflow
      /\ r.wake = u.wake /\ r.event = u.event /\ r.pending = u.pending
      /\ r.next = u.next /\ r.yield = y /\ SameClock(u, r)
  BY <1>2, <1>3 DEF Kernels, SameClock
<1> HIDE DEF r
<1>6. ReadyOK(r) /\ ReadyTasks(r) = ReadyTasks(u)
  BY <1>2, <1>5 DEF ReadyOK, ReadyTasks
<1>7. Lists(r)
  BY <1>1, <1>5, <1>6 DEF Lists, Freed
<1> QED
  BY <1>1, <1>4, <1>5, <1>6, <1>7 DEF Freed, SameClock, y

LEMMA ReleasePendingIs ==
  ASSUME NEW k, Lists(k), NEW cur
  PROVE  LET r == ReleasePending(k, cur)
         IN /\ Freed(k, r, ToSet(k.pending))
            /\ r.yield = (k.yield \/ \E t \in ToSet(k.pending) : Priority[t] >= Priority[cur])
<1> DEFINE K == {q \in Kernels : Lists(q)}
           seq == k.pending
           n == Len(seq)
           F == [p \in K \X (1..n) |-> LetGo(p[1], seq[p[2]], cur)]
           X(i) == {seq[j] : j \in 1..i}
           Y(i) == k.yield \/ \E t \in X(i) : Priority[t] >= Priority[cur]
           Done(i, q) == Freed(k, q, X(i)) /\ q.yield = Y(i)
           I == {p \in (0..n) \X K : Done(p[1], p[2])}
           r == ReleasePending(k, cur)
<1>s. seq \in Seq(Task) /\ k.yield \in BOOLEAN
  BY KernelFields DEF Lists
<1>0. n \in Nat /\ (\A i \in 1..n : seq[i] \in Task) /\ ToSet(seq) = X(n)
  BY <1>s, LenProperties, ElementOfSeq, ToSetIs
<1>1. k \in K
  BY DEF Lists
<1>2. ASSUME NEW q \in K, NEW t \in Task
      PROVE  /\ LetGo(q, t, cur) \in K /\ Freed(q, LetGo(q, t, cur), {t})
             /\ LetGo(q, t, cur).yield = (q.yield \/ Priority[t] >= Priority[cur])
  <2>1. Lists(q)
    OBVIOUS
  <2>2. /\ Freed(q, LetGo(q, t, cur), {t})
        /\ LetGo(q, t, cur).yield = (q.yield \/ Priority[t] >= Priority[cur])
    BY <2>1, LetGoIs
  <2>3. Lists(LetGo(q, t, cur)) /\ LetGo(q, t, cur) \in Kernels
    BY <2>2 DEF Freed, Lists
  <2> QED
    BY <2>2, <2>3
<1>c. \A q \in K, t \in Task : LetGo(q, t, cur) \in K
  BY <1>2
<1>3. Leads(k, n, K, F, r)
  <2> HIDE DEF K
  <2> QED
    BY <1>s, <1>1, <1>c, ReleasePendingFold
<1>4. F \in [K \X (1..n) -> K]
  BY <1>0, <1>c
<1>5. <<0, k>> \in I
  <2>1. X(0) = {}
    OBVIOUS
  <2>2. k.wake \in [Task -> Ticks]
    BY <1>1, KernelFields
  <2>3. k.wake = [t \in Task |-> IF t \in {} THEN 0 ELSE k.wake[t]]
    BY <2>2
  <2>4. Freed(k, k, {})
    BY <2>3 DEF Freed, SameClock
  <2>5. k.yield = Y(0)
    BY <2>1, <1>s
  <2>6. Done(0, k)
    <3> HIDE DEF X, Y
    <3>1. Freed(k, k, X(0))
      BY <2>1, <2>4
    <3> QED
      BY <3>1, <2>5
  <2> HIDE DEF Done, K
  <2> QED
    BY <1>0, <1>1, <2>6
<1>6. ASSUME NEW i \in 1..n, NEW q \in K, <<i - 1, q>> \in I
      PROVE  <<i, F[<<q, i>>]>> \in I
  <2> DEFINE u == LetGo(q, seq[i], cur)
  <2>1. /\ Freed(k, q, X(i - 1)) /\ q.yield = Y(i - 1)
        /\ F[<<q, i>>] = u /\ seq[i] \in Task /\ i \in 0..n
    <3>1. Done(i - 1, q)
      BY <1>6
    <3>2. F[<<q, i>>] = u
      OBVIOUS
    <3> HIDE DEF F
    <3> QED
      BY <1>0, <3>1, <3>2
  <2>2. /\ u \in K /\ Freed(q, u, {seq[i]})
        /\ u.yield = (q.yield \/ Priority[seq[i]] >= Priority[cur])
    BY <1>2, <2>1
  <2>3. X(i) = X(i - 1) \cup {seq[i]}
    BY <1>0
  <2> HIDE DEF u, K, F
  <2>4. Freed(k, u, X(i))
    <3>1. Freed(k, u, X(i - 1) \cup {seq[i]})
      <4> HIDE DEF X
      <4> QED
        BY <2>1, <2>2, FreedTogether
    <3> QED
      BY <2>3, <3>1
  <2> HIDE DEF X
  <2>5. u.yield = Y(i)
    BY <2>1, <2>2, <2>3
  <2>6. Done(i, u)
    BY <2>4, <2>5
  <2> HIDE DEF Done
  <2> QED
    BY <2>1, <2>2, <2>6
<1>7. r \in K /\ <<n, r>> \in I
  <2>1. Inductive(I, n, K, F)
    BY <1>6 DEF Inductive
  <2> HIDE DEF K, F, I, n, r
  <2> QED
    BY <1>0, <1>1, <1>3, <1>4, <1>5, <2>1, Unfolding
<1>8. Done(n, r)
  BY <1>7
<1> QED
  BY <1>0, <1>8

(* One more: the remainder and the quotient.                               *)
LEMMA OneMore ==
  ASSUME NEW m \in Nat \ {0}, NEW n \in Nat
  PROVE  /\ (n + 1) % m = IF n % m = m - 1 THEN 0 ELSE (n % m) + 1
         /\ (n + 1) \div m = IF n % m = m - 1 THEN n \div m + 1 ELSE n \div m
<1> DEFINE q == n \div m
           r == n % m
           p == (n + 1) \div m
           s == (n + 1) % m
<1>1. q \in Int /\ r \in 0..(m - 1) /\ n = m * q + r
  OBVIOUS
<1>2. p \in Int /\ s \in 0..(m - 1) /\ n + 1 = m * p + s
  OBVIOUS
<1> HIDE DEF q, r, p, s
<1>3. m * (p - q) = r + 1 - s
  BY <1>1, <1>2
<1>4. p - q \in Int /\ r + 1 - s <= m /\ r + 1 - s >= 1 - (m - 1)
  BY <1>1, <1>2
<1>5. ~(p - q >= 2)
  <2>1. p - q >= 2 => m * (p - q) >= m * 2
    BY <1>4
  <2> QED
    BY <1>3, <1>4, <2>1
<1>6. ~(p - q <= -1)
  <2>1. p - q <= -1 => m * (p - q) <= m * (-1)
    BY <1>4
  <2> QED
    BY <1>3, <1>4, <2>1
<1>7. p - q \in {0, 1}
  BY <1>4, <1>5, <1>6
<1>8. CASE p = q
  <2>1. s = r + 1
    BY <1>1, <1>2, <1>8
  <2> QED
    BY <1>1, <1>2, <1>8, <2>1 DEF p, q, r, s
<1>9. CASE p = q + 1
  <2>1. m * p = m * q + m
    BY <1>1, <1>9
  <2>2. s = r + 1 - m
    BY <1>1, <1>2, <2>1
  <2>3. s = 0 /\ r = m - 1
    BY <1>1, <1>2, <2>2
  <2> QED
    BY <1>1, <1>2, <1>9, <2>3 DEF p, q, r, s
<1> QED
  BY <1>1, <1>2, <1>7, <1>8, <1>9

(* The kernel's two counters, e ticks after they were at from.             *)
After(k, from, e) ==
  /\ k.tick = (from.tick + e) % TickMod
  /\ k.overflows = (from.overflows + (from.tick + e) \div TickMod) % OverflowMod

LEMMA AfterNothing ==
  ASSUME NEW k, Lists(k)
  PROVE  After(k, TimeOut(k), 0)
<1>1. /\ k.tick \in 0..(TickMod - 1) /\ TickMod \in Nat \ {0, 1}
      /\ k.overflows \in 0..(OverflowMod - 1) /\ OverflowMod \in Nat \ {0}
  BY KernelFields, Constants DEF Lists
<1>2. (k.tick + 0) % TickMod = k.tick /\ (k.tick + 0) \div TickMod = 0
  BY <1>1
<1>3. (k.overflows + 0) % OverflowMod = k.overflows
  BY <1>1
<1> QED
  BY <1>2, <1>3 DEF After, TimeOut

LEMMA ClockTick ==
  ASSUME NEW k, k.tick \in Ticks, k.overflows \in 0..(OverflowMod - 1),
         NEW r, Ticked(k, r), NEW from, from.tick \in Nat,
         from.overflows \in Nat, NEW e \in Nat, After(k, from, e)
  PROVE  After(r, from, e + 1)
<1> DEFINE n == from.tick + e
           a == from.overflows + n \div TickMod
<1>0. /\ TickMod \in Nat \ {0} /\ OverflowMod \in Nat \ {0} /\ MaxDelay = TickMod - 1
  BY Constants
<1>1. n \in Nat /\ n \div TickMod \in Nat
  BY <1>0
<1>2. a \in Nat
  BY <1>1
<1>3. k.tick = n % TickMod /\ k.overflows = a % OverflowMod
  BY DEF After
<1>4. from.tick + (e + 1) = n + 1
  OBVIOUS
<1> HIDE DEF n
<1>5. /\ (n + 1) % TickMod = IF n % TickMod = MaxDelay THEN 0 ELSE (n % TickMod) + 1
      /\ (n + 1) \div TickMod = IF n % TickMod = MaxDelay THEN n \div TickMod + 1
                                                          ELSE n \div TickMod
  BY <1>0, <1>1, OneMore
<1>6. r.tick = IF k.tick = MaxDelay THEN 0 ELSE k.tick + 1
  BY <1>0, NextTick DEF Ticked
<1>7. r.tick = (n + 1) % TickMod
  BY <1>3, <1>5, <1>6
<1>8. r.overflows = (from.overflows + (n + 1) \div TickMod) % OverflowMod
  <2>1. CASE k.tick = MaxDelay
    <3>1. r.overflows = (k.overflows + 1) % OverflowMod
      BY <1>6, <2>1 DEF Ticked
    <3>2. from.overflows + (n + 1) \div TickMod = a + 1
      BY <1>1, <1>3, <1>5, <2>1
    <3> HIDE DEF a
    <3>3. (a + 1) % OverflowMod = IF a % OverflowMod = OverflowMod - 1 THEN 0
                                  ELSE (a % OverflowMod) + 1
      BY <1>0, <1>2, OneMore
    <3>4. (k.overflows + 1) % OverflowMod
            = IF k.overflows = OverflowMod - 1 THEN 0 ELSE k.overflows + 1
      <4>1. CASE k.overflows = OverflowMod - 1
        BY <1>0, <4>1
      <4>2. CASE k.overflows # OverflowMod - 1
        BY <1>0, <4>2
      <4> QED
        BY <4>1, <4>2
    <3> QED
      BY <1>3, <3>1, <3>2, <3>3, <3>4
  <2>2. CASE k.tick # MaxDelay
    <3>1. r.tick # 0
      BY <1>0, <1>6, <2>2 DEF Ticks
    <3> QED
      BY <1>3, <1>5, <2>2, <3>1 DEF Ticked
  <2> QED
    BY <2>1, <2>2
<1> QED
  BY <1>4, <1>7, <1>8 DEF After

LEMMA AfterTick ==
  ASSUME NEW k, Lists(k), NEW r, Ticked(k, r), NEW from, from.tick \in Nat,
         from.overflows \in Nat, NEW e \in Nat, After(k, from, e)
  PROVE  After(r, from, e + 1)
  BY KernelFields, ClockTick DEF Lists

LEMMA Unwrapped ==
  ASSUME NEW m \in Nat \ {0}, NEW n \in 0..(m - 1)
  PROVE  (n + 0) % m = n /\ (n + 0) \div m = 0
  OBVIOUS

LEMMA Division ==
  ASSUME NEW n \in Nat, NEW m \in Nat \ {0}
  PROVE  n \div m \in Nat /\ n % m \in 0..(m - 1)
  OBVIOUS

(* Times add up.                                                           *)
LEMMA AfterBoth ==
  ASSUME NEW k, k.tick \in Ticks, k.overflows \in 0..(OverflowMod - 1),
         NEW from, from.tick \in Nat, from.overflows \in Nat,
         NEW e \in Nat, After(k, from, e),
         NEW p \in Nat, NEW r, After(r, TimeOut(k), p)
  PROVE  After(r, from, e + p)
<1> DEFINE Clock(f, i) ==
             [tick |-> (f.tick + i) % TickMod,
              overflows |-> (f.overflows + (f.tick + i) \div TickMod) % OverflowMod,
              pended |-> 0]
           S == {i \in Nat : Clock(TimeOut(k), i) = Clock(from, e + i)}
<1>0. /\ TickMod \in Nat \ {0} /\ OverflowMod \in Nat \ {0} /\ Ticks = 0..(TickMod - 1)
      /\ TimeOut(k).tick = k.tick /\ TimeOut(k).overflows = k.overflows
      /\ k.tick \in 0..(TickMod - 1) /\ k.tick \in Nat /\ k.overflows \in Nat
  BY Constants DEF TimeOut
<1>1. 0 \in S
  <2>1. (k.tick + 0) % TickMod = k.tick /\ (k.tick + 0) \div TickMod = 0
    BY <1>0, Unwrapped
  <2>2. (k.overflows + 0) % OverflowMod = k.overflows
    BY <1>0, Unwrapped
  <2>3. e + 0 = e
    OBVIOUS
  <2> QED
    BY <1>0, <2>1, <2>2, <2>3 DEF After
<1>2. ASSUME NEW i \in Nat, i \in S PROVE i + 1 \in S
  <2> DEFINE q == Clock(TimeOut(k), i)
             t == (q.tick + 1) % TickMod
             n == [tick |-> t, pended |-> q.pended,
                   overflows |-> IF t = 0 THEN (q.overflows + 1) % OverflowMod
                                 ELSE q.overflows]
  <2>1. After(q, TimeOut(k), i) /\ After(q, from, e + i)
    BY <1>2 DEF After
  <2>2. q.tick \in Ticks /\ q.overflows \in 0..(OverflowMod - 1)
    <3>1. k.tick + i \in Nat
      BY <1>0
    <3>2. (k.tick + i) % TickMod \in Ticks /\ (k.tick + i) \div TickMod \in Nat
      BY <1>0, <3>1, Division
    <3>3. k.overflows + (k.tick + i) \div TickMod \in Nat
      BY <1>0, <3>2
    <3>4. (k.overflows + (k.tick + i) \div TickMod) % OverflowMod \in 0..(OverflowMod - 1)
      BY <1>0, <3>3, Division
    <3> QED
      BY <1>0, <3>2, <3>4
  <2>3. Ticked(q, n)
    BY DEF Ticked
  <2> HIDE DEF q, n
  <2>4. After(n, TimeOut(k), i + 1) /\ After(n, from, e + i + 1) /\ e + i + 1 = e + (i + 1)
    BY <1>0, <2>1, <2>2, <2>3, ClockTick
  <2> QED
    BY <2>4 DEF After
<1>3. p \in S
  <2> HIDE DEF S
  <2> QED
    BY <1>1, <1>2, Induction
<1> QED
  BY <1>3 DEF After

(* A task that outranks the running one finds a switch pending.            *)
SwitchDue(k, cur) ==
  \A t \in ReadyTasks(k) : Priority[t] > Priority[cur] => k.yield

LEMMA SwitchRequiredIs ==
  ASSUME NEW k, Lists(k), NEW cur \in Task, SwitchDue(k, cur),
         ~SwitchRequired(k, cur), NEW t \in ReadyTasks(IncrementTick(k))
  PROVE  ~(Priority[t] > Priority[cur])
<1>1. t \in Task /\ Priority[t] \in Nat /\ Priority[cur] \in Nat
  BY Constants DEF ReadyTasks
<1>2. ~k.yield
  BY DEF SwitchRequired
<1>3. t \notin ReadyTasks(k) => ~(Priority[t] >= Priority[cur])
  BY DEF SwitchRequired
<1> QED
  BY <1>1, <1>2, <1>3 DEF SwitchDue

LEMMA OneTickIs ==
  ASSUME NEW k, NEW due, Lists(k), NoOverdueSleeper(k, due), NEW cur \in Task
  PROVE  LET r == OneTick(k, cur)
         IN /\ Lists(r) /\ NoOverdueSleeper(r, due) /\ Ticked(k, r)
            /\ SwitchDue(k, cur) => SwitchDue(r, cur)
            /\ \E X \in SUBSET Sleepers(k) :
                 Roused(k, r, X) /\ \A t \in X : k.wake[t] = r.tick \/ t \in due
<1> DEFINE u == IncrementTick(k)
           y == SwitchRequired(k, cur)
           r == [u EXCEPT !.yield = y]
<1>1. NoOverdueSleeper(u, due) /\ Ticked(k, u) /\ u.yield = k.yield
  BY IncrementTickIs
<1>2. PICK X \in SUBSET Sleepers(k) :
        Roused(k, u, X) /\ \A t \in X : k.wake[t] = u.tick \/ t \in due
  BY IncrementTickIs
<1>3. SwitchDue(k, cur) /\ ~y => \A t \in ReadyTasks(u) : ~(Priority[t] > Priority[cur])
  BY SwitchRequiredIs
<1>4. OneTick(k, cur) = r
  BY DEF OneTick
<1>5. y \in BOOLEAN
  <2>1. k.yield \in BOOLEAN
    BY KernelFields DEF Lists
  <2> QED
    BY <2>1 DEF SwitchRequired
<1> HIDE DEF u, y
<1>6. /\ r \in Kernels /\ r.ready = u.ready /\ r.top = u.top
      /\ r.delayed = u.delayed /\ r.overflow = u.overflow
      /\ r.wake = u.wake /\ r.event = u.event /\ r.pending = u.pending
      /\ r.next = u.next /\ r.yield = y /\ SameClock(u, r)
  BY <1>2, <1>5 DEF Kernels, SameClock, Roused, Lists
<1> HIDE DEF r
<1>7. ReadyOK(r) /\ ReadyTasks(r) = ReadyTasks(u)
  BY <1>2, <1>6 DEF ReadyOK, ReadyTasks, Roused, Lists
<1>8. Lists(r)
  BY <1>2, <1>6, <1>7 DEF Lists, Roused
<1>9. Roused(k, r, X)
  BY <1>2, <1>6, <1>7, <1>8 DEF Roused, Sleepers
<1>10. NoOverdueSleeper(r, due) /\ Ticked(k, r)
  BY <1>1, <1>6 DEF NoOverdueSleeper, Ticked, SameClock
<1>11. SwitchDue(k, cur) => SwitchDue(r, cur)
  BY <1>3, <1>5, <1>6, <1>7 DEF SwitchDue
<1>12. \A t \in X : k.wake[t] = r.tick \/ t \in due
  BY <1>2, <1>6 DEF SameClock
<1> QED
  BY <1>4, <1>8, <1>9, <1>10, <1>11, <1>12 DEF r

(* The ticks a sleeper has left: one less with each that comes, and none   *)
(* when it is woken.                                                       *)
Left(k, t) == IF k.wake[t] > k.tick THEN k.wake[t] - k.tick
                                    ELSE k.wake[t] - k.tick + TickMod

InTurn(k, r, X, i) ==
  /\ \A t \in Sleepers(r) : Left(r, t) = Left(k, t) - i
  /\ \A t \in X : Left(k, t) <= i

LEMMA TickInTurn ==
  ASSUME NEW k, Lists(k), NoOverdueSleeper(k, {}), NEW r, NoOverdueSleeper(r, {}),
         Ticked(k, r), NEW X \in SUBSET Sleepers(k), Roused(k, r, X),
         \A t \in X : k.wake[t] = r.tick
  PROVE  InTurn(k, r, X, 1)
<1>1. /\ TickMod \in Nat \ {0, 1} /\ k.tick \in 0..(TickMod - 1)
      /\ r.tick = IF k.tick = TickMod - 1 THEN 0 ELSE k.tick + 1
      /\ k.wake \in [Task -> 0..(TickMod - 1)]
  BY KernelFields, NextTick, Constants DEF Lists, Ticked
<1>2. Sleepers(k) \subseteq Task /\ Sleepers(r) = Sleepers(k) \ X
  <2>1. k.delayed \in Seq(Task) /\ k.overflow \in Seq(Task)
    BY KernelFields DEF Lists
  <2> QED
    BY <2>1, ToSetIs DEF Sleepers, Roused
<1>3. ASSUME NEW t \in Sleepers(r) PROVE Left(r, t) = Left(k, t) - 1
  <2>1. t \in Task /\ r.wake[t] = k.wake[t] /\ k.wake[t] \in 0..(TickMod - 1)
    BY <1>1, <1>2, <1>3 DEF Roused
  <2>2. r.wake[t] # r.tick
    <3>1. \/ t \in ToSet(r.delayed) /\ r.tick < r.wake[t]
          \/ t \in ToSet(r.overflow) /\ r.wake[t] < r.tick
      BY <1>3 DEF Sleepers, NoOverdueSleeper
    <3> QED
      BY <1>1, <2>1, <3>1
  <2> QED
    BY <1>1, <2>1, <2>2 DEF Left
<1>4. ASSUME NEW t \in X PROVE Left(k, t) <= 1
  BY <1>1, <1>4 DEF Left
<1> QED
  BY <1>3, <1>4 DEF InTurn

LEMMA LeftIs ==
  ASSUME NEW k, Lists(k), NoOverdueSleeper(k, {}), NEW t \in Sleepers(k)
  PROVE  /\ Left(k, t) \in 1..(TickMod - 1) /\ t \in Task
         /\ t \in ToSet(k.delayed) => Left(k, t) = k.wake[t] - k.tick
         /\ t \in ToSet(k.overflow) => Left(k, t) = k.wake[t] - k.tick + TickMod
<1>1. k.delayed \in Seq(Task) /\ k.overflow \in Seq(Task)
      /\ TickMod \in Nat \ {0, 1} /\ k.tick \in 0..(TickMod - 1)
      /\ k.wake \in [Task -> 0..(TickMod - 1)]
  BY KernelFields, Constants DEF Lists
<1>2. t \in Task
  BY <1>1, ToSetIs DEF Sleepers
<1>3. /\ t \in ToSet(k.delayed) => k.tick < k.wake[t]
      /\ t \in ToSet(k.overflow) => k.wake[t] < k.tick
      /\ t \in ToSet(k.delayed) \/ t \in ToSet(k.overflow)
  BY DEF NoOverdueSleeper, Sleepers
<1>4. k.wake[t] \in 0..(TickMod - 1)
  BY <1>1, <1>2
<1> QED
  BY <1>1, <1>2, <1>3, <1>4 DEF Left

(* ... and the ticks that were held back are made up for.                  *)
MadeUp(k, r, cur, i, due) ==
  /\ Lists(r) /\ NoOverdueSleeper(r, due) /\ After(r, TimeOut(k), i)
  /\ SwitchDue(k, cur) => SwitchDue(r, cur)
  /\ \E X \in SUBSET Sleepers(k) :
       Roused(k, r, X) /\ (due = {} => InTurn(k, r, X, i))

LEMMA MadeUpMore ==
  ASSUME NEW k, NEW due, Lists(k), NoOverdueSleeper(k, due), NEW q, NEW cur \in Task,
         NEW i \in Nat, MadeUp(k, q, cur, i, due)
  PROVE  MadeUp(k, OneTick(q, cur), cur, i + 1, due)
<1> DEFINE r == OneTick(q, cur)
<1>1. Lists(q) /\ NoOverdueSleeper(q, due) /\ After(q, TimeOut(k), i)
      /\ (SwitchDue(k, cur) => SwitchDue(q, cur))
  BY DEF MadeUp
<1>2. /\ Lists(r) /\ NoOverdueSleeper(r, due) /\ Ticked(q, r)
      /\ SwitchDue(q, cur) => SwitchDue(r, cur)
  BY <1>1, OneTickIs
<1>3. PICK Y \in SUBSET Sleepers(q) :
        Roused(q, r, Y) /\ \A t \in Y : q.wake[t] = r.tick \/ t \in due
  BY <1>1, OneTickIs
<1>4. PICK X \in SUBSET Sleepers(k) :
        Roused(k, q, X) /\ (due = {} => InTurn(k, q, X, i))
  BY DEF MadeUp
<1> HIDE DEF r
<1>5. Roused(k, r, X \cup Y)
  BY <1>3, <1>4, RousedTogether
<1>6. X \cup Y \in SUBSET Sleepers(k)
  BY <1>3, <1>4 DEF Roused
<1>7. After(r, TimeOut(k), i + 1)
  <2>1. TimeOut(k).tick \in Nat /\ TimeOut(k).overflows \in Nat
    BY KernelFields, Constants DEF Lists, TimeOut
  <2> QED
    BY <1>1, <1>2, <2>1, AfterTick
<1>8. ASSUME due = {} PROVE InTurn(q, r, Y, 1)
  <2>1. /\ NoOverdueSleeper(q, {}) /\ NoOverdueSleeper(r, {})
        /\ \A t \in Y : q.wake[t] = r.tick
    BY <1>1, <1>2, <1>3, <1>8
  <2> QED
    BY <1>1, <1>2, <1>3, <2>1, TickInTurn
<1>9. ASSUME due = {} PROVE InTurn(k, r, X \cup Y, i + 1)
  <2>1. /\ \A t \in Sleepers(q) : Left(q, t) \in Int /\ Left(q, t) = Left(k, t) - i
        /\ \A t \in Sleepers(k) : Left(k, t) \in Int
        /\ \A t \in Sleepers(r) : Left(r, t) \in Int /\ t \in Sleepers(q)
        /\ Sleepers(q) \subseteq Sleepers(k)
    <3>0. NoOverdueSleeper(k, {}) /\ NoOverdueSleeper(q, {}) /\ NoOverdueSleeper(r, {})
      BY <1>1, <1>2, <1>9
    <3>1. \A t \in Sleepers(k) : Left(k, t) \in Int
      BY <3>0, LeftIs
    <3>2. \A t \in Sleepers(q) : Left(q, t) \in Int
      BY <1>1, <3>0, LeftIs
    <3>3. \A t \in Sleepers(r) : Left(r, t) \in Int
      BY <1>2, <3>0, LeftIs
    <3> QED
      BY <3>1, <3>2, <3>3, <1>3, <1>4, <1>9 DEF Roused, InTurn
  <2> QED
    BY <1>3, <1>4, <1>8, <1>9, <2>1 DEF InTurn
<1> QED
  BY <1>1, <1>2, <1>5, <1>6, <1>7, <1>9 DEF MadeUp, r

LEMMA ReleaseTicksIs ==
  ASSUME NEW k, NEW due, Lists(k), NoOverdueSleeper(k, due), NEW cur \in Task
  PROVE  /\ MadeUp(k, ReleaseTicks(k, cur), cur, k.pended, due)
         /\ ReleaseTicks(k, cur).pended = 0
<1> DEFINE K == {q \in Kernels : Lists(q) /\ NoOverdueSleeper(q, due)}
           n == k.pended
           F == [p \in K \X (1..n) |-> OneTick(p[1], cur)]
           I == {p \in (0..n) \X K : MadeUp(k, p[2], cur, p[1], due)}
           r == ReleaseTicks(k, cur)
<1>0. n \in Nat /\ k \in K
  BY KernelFields, Constants DEF Lists
<1>1. ASSUME NEW q \in K PROVE OneTick(q, cur) \in K
  <2>1. Lists(OneTick(q, cur)) /\ NoOverdueSleeper(OneTick(q, cur), due)
    BY OneTickIs
  <2> QED
    BY <2>1 DEF Lists
<1>2. \A q \in K : OneTick(q, cur) \in K
  BY <1>1
<1>3. PICK last : Leads(k, n, K, F, last) /\ r = [last EXCEPT !.pended = 0]
  <2>1. TicksLead(k, K, cur)
    <3> HIDE DEF K
    <3> QED
      BY <1>0, <1>2, ReleaseTicksFold
  <2> HIDE DEF K
  <2> QED
    BY <2>1 DEF TicksLead
<1>4. F \in [K \X (1..n) -> K]
  BY <1>2
<1>5. <<0, k>> \in I
  <2>1. {} \in SUBSET Sleepers(k) /\ Roused(k, k, {})
    BY NobodyRoused
  <2>2. due = {} => InTurn(k, k, {}, 0)
    BY LeftIs DEF InTurn
  <2>3. MadeUp(k, k, cur, 0, due)
    BY <2>1, <2>2, AfterNothing DEF MadeUp
  <2> HIDE DEF K
  <2> QED
    BY <1>0, <2>3
<1>6. ASSUME NEW i \in 1..n, NEW q \in K, <<i - 1, q>> \in I
      PROVE  <<i, F[<<q, i>>]>> \in I
  <2>1. MadeUp(k, q, cur, i - 1, due) /\ F[<<q, i>>] = OneTick(q, cur)
        /\ OneTick(q, cur) \in K
    BY <1>1, <1>6
  <2>2. i - 1 \in Nat /\ i \in 0..n
    BY <1>0
  <2>3. MadeUp(k, OneTick(q, cur), cur, i - 1 + 1, due) /\ i - 1 + 1 = i
    BY <2>1, <2>2, MadeUpMore
  <2> HIDE DEF K, F
  <2> QED
    BY <2>1, <2>2, <2>3
<1>7. last \in K /\ <<n, last>> \in I
  <2>1. Inductive(I, n, K, F)
    BY <1>6 DEF Inductive
  <2> HIDE DEF K, F, I, n, r
  <2> QED
    BY <1>0, <1>3, <1>4, <1>5, <2>1, Unfolding
<1>8. MadeUp(k, last, cur, n, due) /\ last \in Kernels
  BY <1>7
<1> HIDE DEF r
<1>9. 0 \in 0..(PendedMod - 1)
  BY Constants
<1>10. /\ r \in Kernels /\ r.ready = last.ready /\ r.top = last.top
       /\ r.delayed = last.delayed /\ r.overflow = last.overflow
       /\ r.wake = last.wake /\ r.event = last.event /\ r.pending = last.pending
       /\ r.next = last.next /\ r.yield = last.yield /\ r.tick = last.tick
       /\ r.overflows = last.overflows /\ r.pended = 0
  BY <1>3, <1>8, <1>9 DEF Kernels
<1>11. Lists(last) /\ NoOverdueSleeper(last, due) /\ After(last, TimeOut(k), n)
       /\ (SwitchDue(k, cur) => SwitchDue(last, cur))
  BY <1>8 DEF MadeUp
<1>12. PICK X \in SUBSET Sleepers(k) :
         Roused(k, last, X) /\ (due = {} => InTurn(k, last, X, n))
  BY <1>8 DEF MadeUp
<1>13. ReadyOK(r) /\ ReadyTasks(r) = ReadyTasks(last) /\ Sleepers(r) = Sleepers(last)
  BY <1>10, <1>11 DEF ReadyOK, ReadyTasks, Lists, Sleepers
<1>14. Lists(r)
  BY <1>10, <1>11, <1>13 DEF Lists
<1>15. NoOverdueSleeper(r, due) /\ After(r, TimeOut(k), n)
  BY <1>10, <1>11 DEF NoOverdueSleeper, After
<1>16. SwitchDue(k, cur) => SwitchDue(r, cur)
  BY <1>10, <1>11, <1>13 DEF SwitchDue
<1>17. Roused(k, r, X)
  BY <1>10, <1>12, <1>13, <1>14 DEF Roused
<1>18. due = {} => InTurn(k, r, X, n)
  BY <1>10, <1>12, <1>13 DEF InTurn, Left
<1> QED
  BY <1>10, <1>14, <1>15, <1>16, <1>17, <1>18 DEF MadeUp, r

(* Together: the pending tasks are ready, the clock is right again, nobody *)
(* sleeps past its time, and a switch that is due is seen.                 *)
LEMMA ReleasedIs ==
  ASSUME NEW k, NEW due, Lists(k), NoOverdueSleeper(k, due), NEW cur \in Task
  PROVE  LET r == ResumeAll(k, cur)
         IN /\ Lists(r) /\ NoOverdueSleeper(r, due) /\ r.pended = 0
            /\ After(r, TimeOut(k), k.pended)
            /\ SwitchDue(k, cur) => SwitchDue(r, cur)
            /\ \E X \in SUBSET Sleepers(k) :
                 /\ Roused(k, r, X \cup ToSet(k.pending))
                 /\ due = {} => InTurn(k, r, X, k.pended)
<1> DEFINE q == ReleasePending(k, cur)
           r == ReleaseTicks(q, cur)
           P == ToSet(k.pending)
<1>1. /\ Freed(k, q, P)
      /\ q.yield = (k.yield \/ \E t \in P : Priority[t] >= Priority[cur])
  BY ReleasePendingIs
<1> HIDE DEF q
<1>2. Lists(q) /\ NoOverdueSleeper(q, due) /\ SameClock(k, q) /\ Roused(k, q, P)
  BY <1>1, FreedOverdue, FreedRoused DEF Freed
<1>3. MadeUp(q, r, cur, q.pended, due) /\ r.pended = 0
  BY <1>2, ReleaseTicksIs
<1> HIDE DEF r
<1>4. PICK Y \in SUBSET Sleepers(q) :
        Roused(q, r, Y) /\ (due = {} => InTurn(q, r, Y, q.pended))
  BY <1>3 DEF MadeUp
<1>5. Roused(k, r, P \cup Y)
  BY <1>2, <1>4, RousedTogether
<1>6. Y \in SUBSET Sleepers(k) /\ Sleepers(r) \subseteq Sleepers(q)
      /\ Sleepers(q) = Sleepers(k) \ P
  BY <1>2, <1>4 DEF Roused
<1>7. ASSUME due = {} PROVE InTurn(k, r, Y, k.pended)
  <2>0. NoOverdueSleeper(q, {})
    BY <1>2, <1>7
  <2>1. ASSUME NEW t \in Sleepers(q) PROVE Left(q, t) = Left(k, t)
    <3>1. t \in Task /\ t \notin P
      BY <1>2, <1>6, <2>0, <2>1, LeftIs
    <3>2. q.wake[t] = k.wake[t] /\ q.tick = k.tick
      BY <1>2, <3>1 DEF Roused, SameClock
    <3> QED
      BY <3>2 DEF Left
  <2> QED
    BY <1>2, <1>4, <1>6, <1>7, <2>1 DEF InTurn, SameClock
<1>8. SwitchDue(k, cur) => SwitchDue(q, cur)
  <2>1. ASSUME SwitchDue(k, cur), NEW t \in ReadyTasks(q), Priority[t] > Priority[cur]
        PROVE  q.yield
    <3>1. t \in Task /\ Priority[t] \in Nat /\ Priority[cur] \in Nat
      BY Constants DEF ReadyTasks
    <3>2. t \in ReadyTasks(k) \/ t \in P
      BY <1>2, <2>1 DEF Roused
    <3>3. CASE t \in ReadyTasks(k)
      BY <1>1, <2>1, <3>3 DEF SwitchDue
    <3>4. CASE t \in P
      <4>1. Priority[t] >= Priority[cur]
        BY <2>1, <3>1
      <4> QED
        BY <1>1, <3>4, <4>1
    <3> QED
      BY <3>2, <3>3, <3>4
  <2> QED
    BY <2>1 DEF SwitchDue
<1>9. After(r, TimeOut(k), k.pended)
  BY <1>2, <1>3 DEF MadeUp, SameClock, TimeOut
<1>10. Lists(r) /\ NoOverdueSleeper(r, due) /\ (SwitchDue(q, cur) => SwitchDue(r, cur))
  BY <1>3 DEF MadeUp
<1>11. ResumeAll(k, cur) = r
  BY DEF ResumeAll, q, r
<1>12. P \cup Y = Y \cup P
  OBVIOUS
<1> QED
  BY <1>3, <1>5, <1>6, <1>7, <1>8, <1>9, <1>10, <1>11, <1>12

LEMMA ResumeAllIs ==
  ASSUME NEW k, NEW due, Lists(k), NoOverdueSleeper(k, due), Waits(k), NEW cur \in Task
  PROVE  LET r == ResumeAll(k, cur)
         IN /\ Lists(r) /\ NoOverdueSleeper(r, due) /\ Waits(r) /\ r.pended = 0
            /\ After(r, TimeOut(k), k.pended)
            /\ \A alive : Placed(k, alive) => Placed(r, alive)
            /\ SwitchDue(k, cur) => SwitchDue(r, cur)
            /\ \E X \in SUBSET Sleepers(k) : Roused(k, r, X) /\ ToSet(k.pending) \subseteq X
<1> DEFINE r == ResumeAll(k, cur)
           P == ToSet(k.pending)
<1>1. /\ Lists(r) /\ NoOverdueSleeper(r, due) /\ r.pended = 0
      /\ After(r, TimeOut(k), k.pended)
      /\ SwitchDue(k, cur) => SwitchDue(r, cur)
  BY ReleasedIs
<1>2. PICK Y \in SUBSET Sleepers(k) : Roused(k, r, Y \cup P)
  BY ReleasedIs
<1>3. Y \cup P \in SUBSET Sleepers(k) /\ P \subseteq Y \cup P
  BY <1>2 DEF Waits
<1>4. Waits(r) /\ \A alive : Placed(k, alive) => Placed(r, alive)
  BY <1>2, <1>3, RousedPlaced DEF Placed
<1> QED
  BY <1>1, <1>2, <1>3, <1>4

-----------------------------------------------------------------------------
(* The start: every task is ready, and one of the highest priority runs.   *)
LEMMA CreatedIs ==
  ASSUME NEW order \in CreationOrders
  PROVE  LET created == Append(order, Idle)
         IN created \in Seq(Task) /\ Once(created) /\ ToSet(created) = Task
<1> DEFINE S == Task \ {Idle}
           n == Cardinality(S)
           created == Append(order, Idle)
<1>0. IsFiniteSet(Task) /\ Idle \in Task
  BY KernelAssumption
<1>1. IsFiniteSet(S) /\ n \in Nat
  BY <1>0, FS_RemoveElement, FS_CardinalityType
<1> HIDE DEF n
<1>2. /\ order \in [1..n -> S]
      /\ \A i, j \in 1..n : i # j => order[i] # order[j]
  BY DEF CreationOrders, SetToSeqs, n
<1>3. order \in Injection(1..n, S)
  BY <1>2 DEF Injection, IsInjective
<1>4. Cardinality(1..n) = n
  BY <1>1, FS_Interval
<1>5. order \in Surjection(1..n, S)
  <2> HIDE DEF S
  <2> QED
    BY <1>1, <1>3, <1>4, FS_Injection DEF n
<1>6. order \in Seq(Task) /\ Len(order) = n
  BY <1>1, <1>2
<1>7. Once(order)
  BY <1>2, <1>6 DEF Once
<1>8. ToSet(order) = S
  <2>1. ToSet(order) = {order[i] : i \in 1..n}
    BY <1>6, ToSetIs
  <2> QED
    BY <1>2, <1>5, <2>1 DEF Surjection
<1>9. Idle \notin ToSet(order)
  BY <1>8
<1>10. /\ created \in Seq(Task) /\ Once(created)
       /\ ToSet(created) = ToSet(order) \cup {Idle}
  BY <1>0, <1>6, <1>7, <1>9, AppendIs
<1> QED
  BY <1>0, <1>8, <1>10

LEMMA FirstTaskIs ==
  ASSUME NEW order \in CreationOrders
  PROVE  FirstTask(order) \in Task /\ Priority[FirstTask(order)] = TopPriority
<1> DEFINE created == Append(order, Idle)
           I == {i \in 1..Len(created) : Priority[created[i]] = TopPriority}
<1>1. created \in Seq(Task) /\ Once(created) /\ ToSet(created) = Task
  BY CreatedIs
<1>2. FirstTask(order) = created[IF I # {} THEN Max(I) ELSE 0]
  BY DEF FirstTask, SelectLastInSeq
<1> HIDE DEF created
<1>3. /\ Len(created) \in Nat /\ \A i \in 1..Len(created) : created[i] \in Task
      /\ ToSet(created) = {created[i] : i \in 1..Len(created)}
  BY <1>1, LenProperties, ElementOfSeq, ToSetIs
<1>4. PICK t \in Task : Priority[t] = TopPriority
  BY Constants
<1>5. I # {}
  BY <1>1, <1>3, <1>4
<1>6. Max(I) \in I
  <2>1. I \in SUBSET (0..Len(created))
    BY <1>3
  <2> HIDE DEF I
  <2> QED
    BY <1>3, <1>5, <2>1, MaxOf
<1> QED
  BY <1>2, <1>3, <1>5, <1>6

(* Tasks that are created go to the end of lists nobody has walked yet.    *)
Fresh(k) == k \in Kernels /\ \A p \in 0..TopPriority : k.ready[p].index = 0

LEMMA AddToFresh ==
  ASSUME NEW k, Fresh(k), NEW t \in Task
  PROVE  Fresh(AddToReady(k, t))
<1> DEFINE p == Priority[t]
           l == InsertEnd(k.ready[p], t)
           top == Max({k.top, p})
           r == AddToReady(k, t)
<1>0. /\ k \in Kernels /\ p \in 0..TopPriority /\ TopPriority \in Nat
      /\ k.top \in 0..TopPriority
      /\ k.ready \in [0..TopPriority -> [items : Seq(Task), index : Nat]]
      /\ \A q \in 0..TopPriority : k.ready[q].index = 0
  BY Constants, KernelFields DEF Fresh
<1>1. l \in [items : Seq(Task), index : Nat] /\ l.index = 0
  <2>1. k.ready[p] \in [items : Seq(Task), index : Nat] /\ k.ready[p].index = 0
    BY <1>0
  <2>2. Append(k.ready[p].items, t) \in Seq(Task)
    BY <2>1, AppendProperties
  <2>3. l = [k.ready[p] EXCEPT !.items = Append(@, t)]
    BY <2>1 DEF InsertEnd
  <2> QED
    BY <2>1, <2>2, <2>3
<1>2. top \in 0..TopPriority
  <2>1. {k.top, p} \in SUBSET (0..TopPriority) /\ {k.top, p} # {}
    BY <1>0
  <2>2. top \in {k.top, p}
    BY <1>0, <2>1, MaxOf
  <2> QED
    BY <1>0, <2>2
<1> HIDE DEF l, top
<1>3. /\ [k.ready EXCEPT ![p] = l] \in [0..TopPriority -> [items : Seq(Task), index : Nat]]
      /\ \A q \in 0..TopPriority : [k.ready EXCEPT ![p] = l][q].index = 0
  BY <1>0, <1>1
<1>4. r = [k EXCEPT !.top = top, !.ready = [k.ready EXCEPT ![p] = l]]
  BY <1>0 DEF AddToReady, Kernels, top, l
<1>5. r \in Kernels /\ r.ready = [k.ready EXCEPT ![p] = l]
  BY <1>0, <1>2, <1>3, <1>4 DEF Kernels
<1> QED
  BY <1>3, <1>5 DEF Fresh

(* Nobody sleeps or waits, no time has passed, no switch is asked for.     *)
JustStarted(k, X) ==
  /\ Lists(k) /\ ReadyTasks(k) = X /\ k.delayed = <<>> /\ k.overflow = <<>>
  /\ k.pending = <<>> /\ k.event = [e \in EventList |-> <<>>]
  /\ k.tick = 0 /\ k.overflows = 0 /\ k.pended = 0 /\ k.yield = FALSE

LEMMA KernelInitIs ==
  ASSUME NEW order \in CreationOrders
  PROVE  JustStarted(KernelInit(order), Task)
<1> DEFINE base == [ready |-> [p \in 0..TopPriority |-> EmptyList], top |-> 0,
                    delayed |-> <<>>, overflow |-> <<>>,
                    wake |-> [t \in Task |-> 0],
                    event |-> [e \in EventList |-> <<>>], pending |-> <<>>,
                    next |-> MaxDelay, tick |-> 0, overflows |-> 0, pended |-> 0,
                    yield |-> FALSE]
           seq == Append(order, Idle)
           K == {q \in Kernels : Fresh(q)}
           n == Len(seq)
           F == [p \in K \X (1..n) |-> AddToReady(p[1], seq[p[2]])]
           X(i) == {seq[j] : j \in 1..i}
           I == {p \in (0..n) \X K : JustStarted(p[2], X(p[1]))}
           r == KernelInit(order)
<1>s. seq \in Seq(Task) /\ Once(seq) /\ ToSet(seq) = Task
  BY CreatedIs
<1>r. r = FoldLeft(AddToReady, base, seq)
  BY DEF KernelInit
<1>b. Fresh(base) /\ JustStarted(base, {})
  <2>1. /\ TopPriority \in Nat /\ MaxDelay \in Ticks /\ 0 \in Ticks
        /\ 0 \in 0..(OverflowMod - 1) /\ 0 \in 0..(PendedMod - 1)
        /\ \A t \in Task : Priority[t] \in 0..TopPriority
    BY Constants
  <2>2. <<>> \in Seq(Task) /\ Once(<<>>) /\ ToSet(<<>>) = {}
        /\ \A key : Ordered(<<>>, key)
    BY EmptySeq DEF Once, Ordered, ToSet
  <2>3. Ring(EmptyList) /\ EmptyList.items = <<>> /\ EmptyList.index = 0
    BY EmptyIsRing DEF EmptyList
  <2>4. EmptyList \in [items : Seq(Task), index : Nat]
    BY <2>3 DEF Ring
  <2>5. /\ base \in Kernels /\ base.ready = [p \in 0..TopPriority |-> EmptyList]
        /\ base.delayed = <<>> /\ base.overflow = <<>> /\ base.pending = <<>>
        /\ base.event = [e \in EventList |-> <<>>]
        /\ base.tick = 0 /\ base.overflows = 0 /\ base.pended = 0 /\ base.yield = FALSE
    BY <2>1, <2>2, <2>4 DEF Kernels
  <2> HIDE DEF base
  <2>6. \A p \in 0..TopPriority : base.ready[p] = EmptyList
    BY <2>5
  <2>7. Fresh(base) /\ ReadyOK(base)
    BY <2>2, <2>3, <2>5, <2>6 DEF Fresh, ReadyOK
  <2>8. ReadyTasks(base) = {}
    BY <2>1, <2>2, <2>3, <2>5, <2>6, <2>7, ReadyIs
  <2>9. Lists(base)
    BY <2>2, <2>5, <2>7 DEF Lists
  <2> QED
    BY <2>5, <2>7, <2>8, <2>9 DEF JustStarted
<1> HIDE DEF base, seq
<1>0. /\ n \in Nat /\ (\A i \in 1..n : seq[i] \in Task) /\ X(n) = Task
      /\ \A i \in 1..n : seq[i] \notin X(i - 1)
  <2>1. n \in Nat /\ (\A i \in 1..n : seq[i] \in Task) /\ ToSet(seq) = X(n)
    BY <1>s, LenProperties, ElementOfSeq, ToSetIs
  <2>2. ASSUME NEW i \in 1..n, NEW j \in 1..(i - 1) PROVE seq[i] # seq[j]
    <3>1. j \in 1..n /\ i # j
      BY <2>1
    <3> QED
      BY <1>s, <3>1 DEF Once
  <2> QED
    BY <1>s, <2>1, <2>2
<1>1. base \in K
  BY <1>b DEF Fresh
<1>c. \A q \in K, t \in Task : AddToReady(q, t) \in K
  BY AddToFresh DEF Fresh
<1>3. Leads(base, n, K, F, r)
  <2>1. Leads(base, n, K, F, FoldLeft(AddToReady, base, seq))
    <3> HIDE DEF K
    <3> QED
      BY <1>s, <1>1, <1>c, AddToReadyFold
  <2> HIDE DEF F, r, n
  <2> QED
    BY <1>r, <2>1
<1>4. F \in [K \X (1..n) -> K]
  BY <1>0, <1>c
<1>5. <<0, base>> \in I
  <2>1. X(0) = {}
    OBVIOUS
  <2>2. JustStarted(base, X(0))
    BY <1>b, <2>1
  <2> HIDE DEF X, K
  <2> QED
    BY <1>0, <1>1, <2>2
<1>6. ASSUME NEW i \in 1..n, NEW q \in K, <<i - 1, q>> \in I
      PROVE  <<i, F[<<q, i>>]>> \in I
  <2> DEFINE u == AddToReady(q, seq[i])
  <2>1. JustStarted(q, X(i - 1)) /\ F[<<q, i>>] = u /\ seq[i] \in Task /\ i \in 0..n
        /\ u \in K /\ seq[i] \notin X(i - 1)
    <3>1. JustStarted(q, X(i - 1))
      BY <1>6
    <3>2. F[<<q, i>>] = u
      OBVIOUS
    <3> HIDE DEF F, X, K
    <3> QED
      BY <1>0, <1>c, <3>1, <3>2
  <2>3. X(i) = X(i - 1) \cup {seq[i]}
    BY <1>0
  <2> HIDE DEF K, F
  <2>4. Lists(q) /\ seq[i] \notin ReadyTasks(q)
    <3> HIDE DEF X
    <3> QED
      BY <2>1 DEF JustStarted
  <2>5. /\ Lists(u) /\ ReadyTasks(u) = ReadyTasks(q) \cup {seq[i]}
        /\ u.delayed = q.delayed /\ u.overflow = q.overflow /\ u.wake = q.wake
        /\ u.event = q.event /\ u.pending = q.pending
        /\ u.next = q.next /\ u.yield = q.yield /\ SameClock(q, u)
    BY <2>1, <2>4, AddToReadyIs
  <2> HIDE DEF X, u
  <2>6. JustStarted(u, X(i))
    BY <2>1, <2>3, <2>5 DEF JustStarted, SameClock
  <2> QED
    BY <2>1, <2>6
<1>7. r \in K /\ <<n, r>> \in I
  <2>1. Inductive(I, n, K, F)
    BY <1>6 DEF Inductive
  <2> HIDE DEF K, F, I, n, r
  <2> QED
    BY <1>0, <1>1, <1>3, <1>4, <1>5, <2>1, Unfolding
<1>8. JustStarted(r, X(n))
  BY <1>7
<1> QED
  BY <1>0, <1>8

-----------------------------------------------------------------------------
(* Times.                                                                  *)

LEMMA WrapOnce ==
  ASSUME NEW n \in Nat \ {0}, NEW a \in 0..(n - 1), NEW b \in 0..(n - 1)
  PROVE  /\ (a + b) % n = IF a + b < n THEN a + b ELSE a + b - n
         /\ (a + b) \div n = IF a + b < n THEN 0 ELSE 1
  OBVIOUS

(* vTaskDelayUntil sleeps exactly when the time it is to wake at is still  *)
(* to come, wherever the counter wraps in between, as long as the task is  *)
(* less than a round of the counter late (tasks.c:840).                    *)
THEOREM PeriodsAreExact ==
  ASSUME NEW previous \in Ticks, NEW increment \in Ticks \ {0}, NEW e \in Ticks
  PROVE  ShouldDelay(previous, (previous + increment) % TickMod,
                     (previous + e) % TickMod)
         <=> e < increment
<1>1. TickMod \in Nat \ {0} /\ Ticks = 0..(TickMod - 1)
  BY KernelAssumption DEF Ticks, MaxDelay
<1>2. (previous + increment) % TickMod = IF previous + increment < TickMod
        THEN previous + increment ELSE previous + increment - TickMod
  BY <1>1, WrapOnce
<1>3. (previous + e) % TickMod = IF previous + e < TickMod
        THEN previous + e ELSE previous + e - TickMod
  BY <1>1, WrapOnce
<1> QED
  BY <1>1, <1>2, <1>3 DEF ShouldDelay

-----------------------------------------------------------------------------
(* The lists as the type invariants state them.                            *)
LEMMA ListsAreConsistent ==
  ASSUME NEW k, Lists(k), NEW alive, Placed(k, alive),
         \A e \in EventList : ToSet(k.event[e]) \cap ToSet(k.pending) = {}
  PROVE  ListsConsistent(k, alive)
<1>0. /\ k \in Kernels /\ ReadyOK(k) /\ k.delayed \in Seq(Task)
      /\ k.overflow \in Seq(Task) /\ k.pending \in Seq(Task)
      /\ \A e \in EventList : k.event[e] \in Seq(Task)
      /\ k.wake \in [Task -> Int] /\ EventValue \in [Task -> Int]
  <2>1. k.wake \in [Task -> Ticks] /\ Ticks \subseteq Int
    BY KernelFields, Constants DEF Lists
  <2>2. EventValue \in [Task -> Int]
    BY Constants DEF EventValue
  <2> QED
    BY <2>1, <2>2, KernelFields DEF Lists
<1>1. \A p \in 0..TopPriority :
        /\ Distinct(k.ready[p].items) /\ k.ready[p].index <= Len(k.ready[p].items)
        /\ k.ready[p].items # <<>> => p <= k.top
  <2>1. ASSUME NEW p \in 0..TopPriority
        PROVE  Distinct(k.ready[p].items)
    <3>1. k.ready[p].items \in Seq(Task) /\ Once(k.ready[p].items)
      BY <1>0 DEF ReadyOK, Ring
    <3> QED
      BY <3>1, DistinctIsOnce
  <2> QED
    BY <1>0, <2>1 DEF ReadyOK, Ring
<1>2. /\ Distinct(k.delayed) /\ Sorted(k.delayed, k.wake)
      /\ Distinct(k.overflow) /\ Sorted(k.overflow, k.wake) /\ Distinct(k.pending)
  BY <1>0, DistinctIsOnce, SortedIsOrdered DEF Lists
<1>3. ASSUME NEW e \in EventList
      PROVE  Distinct(k.event[e]) /\ Sorted(k.event[e], EventValue)
  BY <1>0, DistinctIsOnce, SortedIsOrdered DEF Lists
<1>4. LET lists == <<ReadyTasks(k), ToSet(k.delayed), ToSet(k.overflow)>>
      IN /\ UNION ToSet(lists) = alive
         /\ \A i, j \in 1..3 : i # j => lists[i] \cap lists[j] = {}
  <2> DEFINE R == ReadyTasks(k)
             D == ToSet(k.delayed)
             O == ToSet(k.overflow)
             lists == <<R, D, O>>
  <2>1. R \cup (D \cup O) = alive /\ R \cap D = {} /\ R \cap O = {} /\ D \cap O = {}
    BY DEF Placed, Sleepers
  <2> HIDE DEF R, D, O
  <2>2. ToSet(lists) = {R, D, O}
    <3>1. lists \in Seq({R, D, O}) /\ Len(lists) = 3
      OBVIOUS
    <3>2. ToSet(lists) = {lists[i] : i \in 1..3}
      BY <3>1, ToSetIs
    <3>3. lists[1] = R /\ lists[2] = D /\ lists[3] = O
      OBVIOUS
    <3> HIDE DEF lists
    <3> QED
      BY <3>2, <3>3
  <2>3. UNION ToSet(lists) = alive
    BY <2>1, <2>2
  <2>4. \A i, j \in 1..3 : i # j => lists[i] \cap lists[j] = {}
    BY <2>1
  <2> QED
    BY <2>3, <2>4 DEF R, D, O
<1> QED
  BY <1>1, <1>2, <1>3, <1>4 DEF ListsConsistent
=============================================================================

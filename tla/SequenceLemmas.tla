---------------------------- MODULE SequenceLemmas ----------------------------
(***************************************************************************)
(* Facts that the proofs about several components use: the queue of jobs   *)
(* in which the mini server's requests and the device's notifications wait *)
(* for a thread of the pool, sequences that are put together, and the      *)
(* least and the greatest of some numbers.                                 *)
(***************************************************************************)
EXTENDS Integers, SequencesExt, SequenceTheorems, FiniteSetTheorems,
        WellFoundedInduction, TLAPS

(* A set of numbers, such as that of the free descriptors, has a least one. *)
LEMMA LeastElement ==
    ASSUME NEW S \in SUBSET Nat, S # {}
    PROVE  \E f \in S : \A g \in S : f <= g
<1> DEFINE R == OpToRel(<, Nat)
<1>1. IsWellFoundedOn(R, Nat)
  BY NatLessThanWellFounded, Zenon
<1>2. \A f, g \in Nat : g < f => <<g, f>> \in R
  BY Zenon DEF OpToRel
<1> HIDE DEF R
<1>3. PICK f \in S : \A g \in S : ~(<<g, f>> \in R)
  BY <1>1, WFMin
<1>4. \A g \in S : ~(g < f)
  BY <1>2, <1>3, Zenon
<1> QED
  BY <1>4

(* The queue of the pool grows at its end ... *)
LEMMA JobAdded ==
    ASSUME NEW S, NEW q \in Seq(S), NEW x \in S
    PROVE  /\ Append(q, x) \in Seq(S)
           /\ Len(q) \in Nat /\ DOMAIN q = 1 .. Len(q)
           /\ DOMAIN Append(q, x) = 1 .. Len(q) + 1
           /\ \A i \in DOMAIN q : Append(q, x)[i] = q[i]
           /\ Append(q, x)[Len(q) + 1] = x
<1>1. Append(q, x) \in Seq(S) /\ Len(Append(q, x)) = Len(q) + 1
  BY AppendProperties
<1> QED
  BY <1>1, AppendProperties, LenProperties

(* ... and shrinks at its front. *)
LEMMA JobTaken ==
    ASSUME NEW S, NEW q \in Seq(S), q # <<>>
    PROVE  /\ Tail(q) \in Seq(S) /\ Head(q) \in S
           /\ 1 \in DOMAIN q /\ Head(q) = q[1]
           /\ \A i \in DOMAIN Tail(q) : i + 1 \in DOMAIN q /\ i + 1 # 1 /\ Tail(q)[i] = q[i + 1]
           /\ \A i \in DOMAIN q : i # 1 => i - 1 \in DOMAIN Tail(q) /\ Tail(q)[i - 1] = q[i]
<1>1. Len(q) \in Nat \ {0} /\ DOMAIN q = 1 .. Len(q)
  BY EmptySeq, LenProperties
<1>2. /\ Tail(q) \in Seq(S) /\ Head(q) \in S /\ Len(Tail(q)) = Len(q) - 1
      /\ \A i \in 1 .. Len(q) - 1 : Tail(q)[i] = q[i + 1]
  BY HeadTailProperties
<1>3. DOMAIN Tail(q) = 1 .. Len(q) - 1
  BY <1>2, LenProperties
<1>4. \A i \in DOMAIN Tail(q) : i + 1 \in DOMAIN q /\ i + 1 # 1 /\ Tail(q)[i] = q[i + 1]
  BY <1>1, <1>2, <1>3
<1>5. ASSUME NEW i \in DOMAIN q, i # 1
      PROVE  i - 1 \in DOMAIN Tail(q) /\ Tail(q)[i - 1] = q[i]
  <2>1. i - 1 \in DOMAIN Tail(q) /\ (i - 1) + 1 = i
    BY <1>1, <1>3, <1>5
  <2> QED
    BY <2>1, <1>4
<1> QED
  BY <1>1, <1>2, <1>4, <1>5

(* Several jobs are added at once, as by genaNotifyAll. *)
LEMMA JobsAdded ==
    ASSUME NEW S, NEW q \in Seq(S), NEW r \in Seq(S)
    PROVE  /\ q \o r \in Seq(S)
           /\ \A i \in DOMAIN q : i \in DOMAIN (q \o r) /\ (q \o r)[i] = q[i]
           /\ \A i \in DOMAIN (q \o r) :
                 \/ i \in DOMAIN q
                 \/ i - Len(q) \in DOMAIN r /\ (q \o r)[i] = r[i - Len(q)]
<1>1. /\ q \o r \in Seq(S) /\ Len(q \o r) = Len(q) + Len(r)
      /\ \A i \in 1 .. Len(q) + Len(r) :
            (q \o r)[i] = IF i <= Len(q) THEN q[i] ELSE r[i - Len(q)]
  BY ConcatProperties
<1>2. Len(q) \in Nat /\ DOMAIN q = 1 .. Len(q) /\ Len(r) \in Nat /\ DOMAIN r = 1 .. Len(r)
  BY LenProperties
<1>3. DOMAIN (q \o r) = 1 .. Len(q) + Len(r)
  BY <1>1, LenProperties
<1> QED
  BY <1>1, <1>2, <1>3
-----------------------------------------------------------------------------
(* FlattenSeq is computed from the front. *)
Flatten(ss, f, i) == IF i = 1 THEN ss[i] ELSE f[i-1] \o ss[i]
Flattened(ss, n, f) == f = [i \in 1..n |-> Flatten(ss, f, i)]

LEMMA FlattenedAt ==
    ASSUME NEW ss, NEW n \in Nat, NEW f, Flattened(ss, n, f)
    PROVE  \A i \in 1..n : f[i] = Flatten(ss, f, i)
  BY DEF Flattened

LEMMA FlattenedExists ==
    ASSUME NEW ss, NEW n \in Nat
    PROVE  \E f : Flattened(ss, n, f)
<1> DEFINE Bad == {m \in Nat : ~ \E f : Flattened(ss, m, f)}
<1>1. SUFFICES ASSUME Bad # {} PROVE FALSE
  OBVIOUS
<1>2. PICK m \in Bad : \A k \in Bad : m <= k
  <2> HIDE DEF Bad
  <2>1. Bad \in SUBSET Nat
    BY DEF Bad
  <2> QED
    BY <1>1, <2>1, LeastElement
<1>3. m # 0
  <2>1. Flattened(ss, 0, [i \in 1..0 |-> ss[i]])
    BY DEF Flattened
  <2> QED
    BY <2>1
<1>4. m - 1 \in Nat /\ m - 1 \notin Bad
  BY <1>2, <1>3
<1>5. PICK f : Flattened(ss, m - 1, f)
  BY <1>4
<1>6. \A i \in 1..(m-1) : f[i] = Flatten(ss, f, i)
  BY <1>4, <1>5, FlattenedAt
<1> DEFINE g == [i \in 1..m |-> IF i = m THEN Flatten(ss, f, m) ELSE f[i]]
<1>7. ASSUME NEW i \in 1..m PROVE g[i] = Flatten(ss, g, i)
  <2>1. CASE i = 1
    <3>1. g[i] = Flatten(ss, f, i)
      BY <1>2, <1>6, <2>1
    <3> QED
      BY <3>1, <2>1 DEF Flatten
  <2>2. CASE i # 1
    <3>1. g[i] = Flatten(ss, f, i)
      BY <1>2, <1>6, <2>2
    <3>2. g[i-1] = f[i-1]
      BY <2>2, <1>2
    <3> QED
      BY <3>1, <3>2, <2>2, Zenon DEF Flatten
  <2> QED
    BY <2>1, <2>2
<1>8. Flattened(ss, m, g)
  <2> DEFINE h == [i \in 1..m |-> Flatten(ss, g, i)]
  <2>1. g = h
    <3> HIDE DEF h, g
    <3>1. \A i \in 1..m : g[i] = h[i]
      BY <1>7 DEF h
    <3>2. g = [i \in 1..m |-> g[i]] /\ h = [i \in 1..m |-> h[i]]
      BY DEF g, h
    <3> QED
      BY <3>1, <3>2
  <2> QED
    BY <2>1, Zenon DEF Flattened
<1> QED
  BY <1>2, <1>8

LEMMA FlattenedIs ==
    ASSUME NEW ss, Len(ss) \in Nat, Len(ss) # 0
    PROVE  \E f : /\ FlattenSeq(ss) = f[Len(ss)]
                  /\ f[1] = ss[1]
                  /\ \A i \in 2..Len(ss) : f[i] = f[i-1] \o ss[i]
<1> DEFINE f == CHOOSE f : Flattened(ss, Len(ss), f)
<1>1. FlattenSeq(ss) = f[Len(ss)]
  BY Zenon DEF FlattenSeq, Flattened, Flatten
<1>2. Flattened(ss, Len(ss), f)
  BY FlattenedExists
<1> HIDE DEF f
<1>3. \A i \in 1..Len(ss) : f[i] = Flatten(ss, f, i)
  BY <1>2, FlattenedAt
<1>4. f[1] = ss[1]
  BY <1>3 DEF Flatten
<1>5. ASSUME NEW i \in 2..Len(ss) PROVE f[i] = f[i-1] \o ss[i]
  <2>1. i \in 1..Len(ss) /\ i # 1
    OBVIOUS
  <2> QED
    BY <2>1, <1>3, Zenon DEF Flatten
<1> QED
  BY <1>1, <1>4, <1>5

LEMMA FlattenedRange ==
    ASSUME NEW S, NEW ss \in Seq(Seq(S))
    PROVE  /\ FlattenSeq(ss) \in Seq(S)
           /\ \A x : x \in Range(FlattenSeq(ss)) <=> \E i \in DOMAIN ss : x \in Range(ss[i])
<1>0. Len(ss) \in Nat /\ DOMAIN ss = 1..Len(ss) /\ \A i \in 1..Len(ss) : ss[i] \in Seq(S)
  OBVIOUS
<1>1. CASE Len(ss) = 0
  <2>1. FlattenSeq(ss) = <<>>
    BY <1>1 DEF FlattenSeq
  <2> QED
    BY <2>1, <1>0, <1>1 DEF Range
<1>2. CASE Len(ss) # 0
  <2>1. PICK f : /\ FlattenSeq(ss) = f[Len(ss)]
                 /\ f[1] = ss[1]
                 /\ \A i \in 2..Len(ss) : f[i] = f[i-1] \o ss[i]
    BY <1>0, <1>2, FlattenedIs
  <2> DEFINE Ok(n) == /\ f[n] \in Seq(S)
                      /\ \A x : x \in Range(f[n]) <=> \E i \in 1..n : x \in Range(ss[i])
             Bad == {n \in 1..Len(ss) : ~Ok(n)}
  <2>2. SUFFICES ASSUME Bad # {} PROVE FALSE
    <3>1. Ok(Len(ss))
      <4> HIDE DEF Ok
      <4> QED
        BY <2>2, <1>0, <1>2
    <3> QED
      BY <1>0, <2>1, <3>1, Zenon
  <2>3. PICK n \in Bad : \A k \in Bad : n <= k
    <3> HIDE DEF Bad
    <3>1. Bad \in SUBSET Nat
      BY <1>0 DEF Bad
    <3> QED
      BY <2>2, <3>1, LeastElement
  <2>4. n # 1
    <3>1. Ok(1)
      <4>1. 1..1 = {1}
        OBVIOUS
      <4> QED
        BY <2>1, <1>0, <1>2, <4>1
    <3> QED
      BY <3>1
  <2>5. n - 1 \in 1..Len(ss) /\ n \in 2..Len(ss)
    BY <2>4, <1>0
  <2>6. Ok(n - 1)
    <3> HIDE DEF Ok
    <3> QED
      BY <2>3, <2>5, <1>0
  <2>7. f[n] = f[n-1] \o ss[n]
    BY <2>1, <2>5
  <2>8. ss[n] \in Seq(S) /\ f[n-1] \in Seq(S)
    BY <1>0, <2>5, <2>6
  <2>9. f[n] \in Seq(S) /\ Range(f[n]) = Range(f[n-1]) \cup Range(ss[n])
    BY <2>7, <2>8, RangeConcatenation, ConcatProperties
  <2>10. \A i : i \in 1..n <=> i \in 1..(n-1) \/ i = n
    BY <2>5
  <2>11. Ok(n)
    BY <2>6, <2>9, <2>10, Zenon
  <2> QED
    BY <2>11
<1> QED
  BY <1>1, <1>2

(* One list of each: the lists in order. *)
LEMMA FlattenedSingles ==
    ASSUME NEW S, NEW ss \in Seq(Seq(S)), \A i \in DOMAIN ss : Len(ss[i]) = 1
    PROVE  /\ Len(FlattenSeq(ss)) = Len(ss)
           /\ \A i \in DOMAIN ss : FlattenSeq(ss)[i] = ss[i][1]
<1>0. /\ Len(ss) \in Nat /\ DOMAIN ss = 1..Len(ss)
      /\ \A i \in 1..Len(ss) : ss[i] \in Seq(S) /\ Len(ss[i]) = 1
  OBVIOUS
<1>1. CASE Len(ss) = 0
  <2>1. FlattenSeq(ss) = ss
    BY <1>1 DEF FlattenSeq
  <2> QED
    BY <2>1, <1>0, <1>1
<1>2. CASE Len(ss) # 0
  <2>1. PICK f : /\ FlattenSeq(ss) = f[Len(ss)]
                 /\ f[1] = ss[1]
                 /\ \A i \in 2..Len(ss) : f[i] = f[i-1] \o ss[i]
    BY <1>0, <1>2, FlattenedIs
  <2> DEFINE Ok(n) == /\ f[n] \in Seq(S) /\ Len(f[n]) = n
                      /\ \A i \in 1..n : f[n][i] = ss[i][1]
             Bad == {n \in 1..Len(ss) : ~Ok(n)}
  <2>2. SUFFICES ASSUME Bad # {} PROVE FALSE
    <3>1. Ok(Len(ss))
      <4> HIDE DEF Ok
      <4> QED
        BY <2>2, <1>0, <1>2
    <3> QED
      BY <1>0, <2>1, <3>1, Zenon
  <2>3. PICK n \in Bad : \A k \in Bad : n <= k
    <3> HIDE DEF Bad
    <3>1. Bad \in SUBSET Nat
      BY <1>0 DEF Bad
    <3> QED
      BY <2>2, <3>1, LeastElement
  <2>4. n # 1
    <3>1. Ok(1)
      <4>1. 1..1 = {1}
        OBVIOUS
      <4> QED
        BY <2>1, <1>0, <1>2, <4>1
    <3> QED
      BY <3>1
  <2>5. n - 1 \in 1..Len(ss) /\ n \in 2..Len(ss)
    BY <2>4, <1>0
  <2>6. Ok(n - 1)
    <3> HIDE DEF Ok
    <3> QED
      BY <2>3, <2>5, <1>0
  <2>7. f[n] = f[n-1] \o ss[n]
    BY <2>1, <2>5
  <2>8. ss[n] \in Seq(S) /\ f[n-1] \in Seq(S) /\ Len(ss[n]) = 1 /\ Len(f[n-1]) = n - 1
    BY <1>0, <2>5, <2>6
  <2>9. /\ f[n] \in Seq(S) /\ Len(f[n]) = n
        /\ \A i \in 1..n : f[n][i] = IF i <= n - 1 THEN f[n-1][i] ELSE ss[n][i - (n-1)]
    <3> DEFINE a == f[n-1]
               b == ss[n]
    <3>1. a \in Seq(S) /\ b \in Seq(S) /\ Len(a) = n - 1 /\ Len(b) = 1 /\ f[n] = a \o b
      BY <2>7, <2>8
    <3> HIDE DEF a, b
    <3>2. /\ a \o b \in Seq(S) /\ Len(a \o b) = (n - 1) + 1
          /\ \A i \in 1..(n-1)+1 : (a \o b)[i] = IF i <= n - 1 THEN a[i] ELSE b[i - (n-1)]
      <4>1. /\ a \o b \in Seq(S) /\ Len(a \o b) = Len(a) + Len(b)
            /\ \A i \in 1..Len(a) + Len(b) :
                  (a \o b)[i] = IF i <= Len(a) THEN a[i] ELSE b[i - Len(a)]
        BY <3>1, ConcatProperties
      <4> QED
        BY <3>1, <4>1
    <3>3. (n - 1) + 1 = n
      BY <2>5
    <3> QED
      BY <3>1, <3>2, <3>3, Zenon DEF a, b
  <2>11. ASSUME NEW i \in 1..n PROVE f[n][i] = ss[i][1]
    <3>1. CASE i <= n - 1
      BY <3>1, <2>9, <2>6, <2>5
    <3>2. CASE i = n
      BY <3>2, <2>9, <2>5, <1>0
    <3> QED
      BY <3>1, <3>2, <2>5
  <2> QED
    BY <2>9, <2>11
<1> QED
  BY <1>1, <1>2

(* The greatest of some numbers up to n. *)
LEMMA GreatestElement ==
    ASSUME NEW n \in Nat, NEW s \in SUBSET (1..n), s # {}
    PROVE  Max(s) \in s /\ \A y \in s : y <= Max(s)
<1> DEFINE B == {m \in Nat : \A y \in s : y <= m}
<1>1. B \in SUBSET Nat /\ n \in B
  OBVIOUS
<1>2. PICK m \in B : \A k \in B : m <= k
  <2> HIDE DEF B
  <2> QED
    BY <1>1, LeastElement
<1>3. m \in Nat /\ \A y \in s : y <= m
  BY <1>2
<1>4. m \in s
  <2>1. SUFFICES ASSUME m \notin s PROVE FALSE
    OBVIOUS
  <2>2. \A y \in s : y <= m - 1
    BY <1>3, <2>1
  <2>3. m - 1 \in Nat
    <3>1. PICK y \in s : TRUE
      OBVIOUS
    <3> QED
      BY <1>3, <3>1
  <2> QED
    BY <1>2, <1>3, <2>2, <2>3
<1>5. \A y \in s : y \in Int
  OBVIOUS
<1>6. \E x \in s : \A y \in s : x >= y
  BY <1>3, <1>4, <1>5
<1> DEFINE x == CHOOSE x \in s : \A y \in s : x >= y
<1>7. x \in s /\ \A y \in s : x >= y
  BY <1>6
<1>8. Max(s) = x
  BY Zenon DEF Max
<1> HIDE DEF x
<1> QED
  BY <1>5, <1>7, <1>8

(* Places are numbered. *)
Numbered(q, n) == DOMAIN q = 1..n
=============================================================================

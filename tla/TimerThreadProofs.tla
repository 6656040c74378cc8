------------------------- MODULE TimerThreadProofs --------------------------
(***************************************************************************)
(* Proofs about TimerThread, for any number of events, any time-outs and   *)
(* any bounds on ids and on the clock.                                     *)
(***************************************************************************)
EXTENDS TimerThread, SequenceTheorems, FiniteSetTheorems, TLAPS

QueuedEvent == [ev : Events, time : Int, eventId : 0 .. MaxId]

-----------------------------------------------------------------------------
(* The list. *)

(* ScheduleTimerEvent puts the event between those that are due earlier and
   the others, and moves no other. *)
LEMMA InsertedProperties ==
    ASSUME NEW q \in Seq(QueuedEvent), NEW x \in QueuedEvent
    PROVE  /\ Inserted(q, x) \in Seq(QueuedEvent)
           /\ Len(Inserted(q, x)) = Len(q) + 1
           /\ \E n \in 0 .. Len(q) :
                /\ \A i \in 1 .. n : q[i].time < x.time /\ Inserted(q, x)[i] = q[i]
                /\ Inserted(q, x)[n + 1] = x
                /\ \A i \in n + 1 .. Len(q) : Inserted(q, x)[i + 1] = q[i]
                /\ n < Len(q) => ~(q[n + 1].time < x.time)
<1> DEFINE A == {i \in DOMAIN q : \A j \in 1 .. i : q[j].time < x.time}
           n == Cardinality(A)
           before == SubSeq(q, 1, n)
           after == SubSeq(q, n + 1, Len(q))
<1>1. Len(q) \in Nat /\ DOMAIN q = 1 .. Len(q) /\ \A i \in 1 .. Len(q) : q[i] \in QueuedEvent
  BY LenProperties, ElementOfSeq
<1>2. IsFiniteSet(1 .. Len(q)) /\ Cardinality(1 .. Len(q)) = Len(q)
  <2>1. IsFiniteSet(1 .. Len(q))
    BY <1>1, FS_Interval
  <2>2. Cardinality(1 .. Len(q)) = IF 1 > Len(q) THEN 0 ELSE Len(q) - 1 + 1
    BY <1>1, FS_Interval
  <2> QED
    BY <1>1, <2>1, <2>2
<1>3. A \in SUBSET (1 .. Len(q))
  BY <1>1
<1>4. IsFiniteSet(A) /\ n \in Nat /\ n <= Len(q)
  BY <1>2, <1>3, FS_Subset, FS_CardinalityType
<1>5. A = 1 .. n
  <2>1. \A i \in A : i <= n
    <3> SUFFICES ASSUME NEW i \in A PROVE i <= n
      OBVIOUS
    <3>1. i \in Nat /\ 1 .. i \in SUBSET A
      BY <1>1
    <3>2. Cardinality(1 .. i) = i
      BY <3>1, FS_Interval
    <3>3. Cardinality(1 .. i) <= n
      BY <3>1, <1>4, FS_Subset
    <3> QED
      BY <3>2, <3>3
  <2>2. A \in SUBSET (1 .. n)
    BY <1>3, <2>1, <1>1
  <2>3. IsFiniteSet(1 .. n) /\ Cardinality(1 .. n) = n
    BY <1>4, FS_Interval
  <2> QED
    BY <2>2, <2>3, FS_Subset
<1> HIDE DEF A
<1>6. /\ before \in Seq(QueuedEvent) /\ Len(before) = n
      /\ \A i \in 1 .. n : before[i] = q[i]
  <2>1. \A i \in 1 .. n : q[i] \in QueuedEvent
    BY <1>1, <1>4
  <2>2. /\ SubSeq(q, 1, n) \in Seq(QueuedEvent)
        /\ Len(SubSeq(q, 1, n)) = IF 1 <= n THEN n - 1 + 1 ELSE 0
        /\ \A i \in 1 .. n - 1 + 1 : SubSeq(q, 1, n)[i] = q[1 + i - 1]
    BY <2>1, <1>4, SubSeqProperties
  <2> QED
    BY <2>2, <1>4
<1>7. /\ after \in Seq(QueuedEvent) /\ Len(after) = Len(q) - n
      /\ \A i \in 1 .. Len(q) - n : after[i] = q[n + i]
  <2>1. \A i \in n + 1 .. Len(q) : q[i] \in QueuedEvent
    BY <1>1, <1>4
  <2>2. /\ SubSeq(q, n + 1, Len(q)) \in Seq(QueuedEvent)
        /\ Len(SubSeq(q, n + 1, Len(q))) =
              IF n + 1 <= Len(q) THEN Len(q) - (n + 1) + 1 ELSE 0
        /\ \A i \in 1 .. Len(q) - (n + 1) + 1 :
              SubSeq(q, n + 1, Len(q))[i] = q[n + 1 + i - 1]
    BY <2>1, <1>1, <1>4, SubSeqProperties
  <2> QED
    BY <2>2, <1>1, <1>4
<1> DEFINE one == << x >>
           new == before \o one
<1>8. one \in Seq(QueuedEvent) /\ Len(one) = 1 /\ one[1] = x
  OBVIOUS
<1>9. Inserted(q, x) = new \o after
  BY DEF Inserted, A
<1> HIDE DEF before, after, n, one
<1>10. /\ new \in Seq(QueuedEvent) /\ Len(new) = n + 1
       /\ \A i \in 1 .. n + 1 : new[i] = IF i <= n THEN before[i] ELSE one[i - n]
  <2>1. /\ before \o one \in Seq(QueuedEvent)
        /\ Len(before \o one) = Len(before) + Len(one)
        /\ \A i \in 1 .. Len(before) + Len(one) :
              (before \o one)[i] = IF i <= Len(before) THEN before[i] ELSE one[i - Len(before)]
    BY <1>6, <1>8, ConcatProperties, Zenon
  <2> QED
    BY <2>1, <1>6, <1>8
<1> HIDE DEF new
<1>11. /\ Inserted(q, x) \in Seq(QueuedEvent)
       /\ Len(Inserted(q, x)) = n + 1 + (Len(q) - n)
       /\ \A i \in 1 .. n + 1 + (Len(q) - n) :
             Inserted(q, x)[i] = IF i <= n + 1 THEN new[i] ELSE after[i - (n + 1)]
  <2>1. /\ new \o after \in Seq(QueuedEvent)
        /\ Len(new \o after) = Len(new) + Len(after)
        /\ \A i \in 1 .. Len(new) + Len(after) :
              (new \o after)[i] = IF i <= Len(new) THEN new[i] ELSE after[i - Len(new)]
    BY <1>7, <1>10, ConcatProperties, Zenon
  <2> QED
    BY <2>1, <1>7, <1>9, <1>10
<1>12. \A i \in 1 .. n : q[i].time < x.time /\ Inserted(q, x)[i] = q[i]
  <2> SUFFICES ASSUME NEW i \in 1 .. n
               PROVE  q[i].time < x.time /\ Inserted(q, x)[i] = q[i]
    OBVIOUS
  <2>1. i \in A
    BY <1>5
  <2>2. q[i].time < x.time
    BY <2>1, <1>4 DEF A
  <2>3. Inserted(q, x)[i] = new[i] /\ new[i] = before[i] /\ before[i] = q[i]
    BY <1>1, <1>4, <1>6, <1>10, <1>11
  <2> QED
    BY <2>2, <2>3
<1>13. Inserted(q, x)[n + 1] = x
  <2>1. Inserted(q, x)[n + 1] = new[n + 1]
    BY <1>1, <1>4, <1>11
  <2>2. new[n + 1] = one[1]
    BY <1>4, <1>10
  <2> QED
    BY <2>1, <2>2, <1>8
<1>14. \A i \in n + 1 .. Len(q) : Inserted(q, x)[i + 1] = q[i]
  <2> SUFFICES ASSUME NEW i \in n + 1 .. Len(q) PROVE Inserted(q, x)[i + 1] = q[i]
    OBVIOUS
  <2>0. i + 1 \in 1 .. n + 1 + (Len(q) - n) /\ ~(i + 1 <= n + 1) /\ (i + 1) - (n + 1) = i - n
    BY <1>1, <1>4
  <2>1. Inserted(q, x)[i + 1] = after[(i + 1) - (n + 1)]
    BY <1>11, <2>0, Zenon
  <2>2. after[i - n] = q[n + (i - n)]
    BY <1>1, <1>4, <1>7
  <2> QED
    BY <2>0, <2>1, <2>2, <1>4
<1>15. n < Len(q) => ~(q[n + 1].time < x.time)
  <2> SUFFICES ASSUME n < Len(q), q[n + 1].time < x.time PROVE FALSE
    OBVIOUS
  <2>1. \A j \in 1 .. n + 1 : q[j].time < x.time
    BY <1>4, <1>12
  <2>2. n + 1 \in A
    BY <2>1, <1>1, <1>4 DEF A
  <2> QED
    BY <2>2, <1>4, <1>5
<1>16. Len(Inserted(q, x)) = Len(q) + 1
  BY <1>1, <1>4, <1>11
<1>17. n \in 0 .. Len(q)
  BY <1>1, <1>4
<1> QED
  BY <1>11, <1>12, <1>13, <1>14, <1>15, <1>16, <1>17

(* RemoveTimerEvent takes one event out of the list, and moves no other. *)
LEMMA RemovedProperties ==
    ASSUME NEW q \in Seq(QueuedEvent), NEW i \in 1 .. Len(q)
    PROVE  LET r == SubSeq(q, 1, i - 1) \o SubSeq(q, i + 1, Len(q))
           IN  /\ r \in Seq(QueuedEvent)
               /\ Len(r) = Len(q) - 1
               /\ \A j \in 1 .. i - 1 : r[j] = q[j]
               /\ \A j \in i .. Len(q) - 1 : r[j] = q[j + 1]
<1> DEFINE before == SubSeq(q, 1, i - 1)
           after == SubSeq(q, i + 1, Len(q))
           r == before \o after
<1>1. Len(q) \in Nat /\ \A j \in 1 .. Len(q) : q[j] \in QueuedEvent
  BY LenProperties, ElementOfSeq
<1>2. i \in Nat /\ 1 <= i /\ i <= Len(q) /\ i - 1 \in Int /\ i + 1 \in Int /\ Len(q) \in Int
  BY <1>1
<1>3. /\ before \in Seq(QueuedEvent) /\ Len(before) = i - 1
      /\ \A j \in 1 .. i - 1 : before[j] = q[j]
  <2>1. \A j \in 1 .. i - 1 : q[j] \in QueuedEvent
    BY <1>1, <1>2
  <2>2. /\ SubSeq(q, 1, i - 1) \in Seq(QueuedEvent)
        /\ Len(SubSeq(q, 1, i - 1)) = IF 1 <= i - 1 THEN i - 1 - 1 + 1 ELSE 0
        /\ \A j \in 1 .. i - 1 - 1 + 1 : SubSeq(q, 1, i - 1)[j] = q[1 + j - 1]
    BY <2>1, <1>2, SubSeqProperties
  <2> QED
    BY <2>2, <1>2
<1>4. /\ after \in Seq(QueuedEvent) /\ Len(after) = Len(q) - i
      /\ \A j \in 1 .. Len(q) - i : after[j] = q[i + j]
  <2>1. \A j \in i + 1 .. Len(q) : q[j] \in QueuedEvent
    BY <1>1, <1>2
  <2>2. /\ SubSeq(q, i + 1, Len(q)) \in Seq(QueuedEvent)
        /\ Len(SubSeq(q, i + 1, Len(q))) =
              IF i + 1 <= Len(q) THEN Len(q) - (i + 1) + 1 ELSE 0
        /\ \A j \in 1 .. Len(q) - (i + 1) + 1 :
              SubSeq(q, i + 1, Len(q))[j] = q[i + 1 + j - 1]
    BY <2>1, <1>2, SubSeqProperties
  <2> QED
    BY <2>2, <1>2
<1> HIDE DEF before, after
<1>5. /\ before \o after \in Seq(QueuedEvent)
      /\ Len(before \o after) = Len(before) + Len(after)
      /\ \A j \in 1 .. Len(before) + Len(after) :
            (before \o after)[j] = IF j <= Len(before) THEN before[j]
                                   ELSE after[j - Len(before)]
  BY <1>3, <1>4, ConcatProperties, Zenon
<1>6. \A j \in 1 .. i - 1 : r[j] = q[j]
  BY <1>2, <1>3, <1>4, <1>5
<1>7. \A j \in i .. Len(q) - 1 : r[j] = q[j + 1]
  <2> SUFFICES ASSUME NEW j \in i .. Len(q) - 1 PROVE r[j] = q[j + 1]
    OBVIOUS
  <2>1. j \in 1 .. Len(before) + Len(after) /\ ~(j <= Len(before))
    BY <1>2, <1>3, <1>4
  <2>2. r[j] = after[j - Len(before)]
    BY <1>5, <2>1, Zenon
  <2>3. j - Len(before) \in 1 .. Len(q) - i /\ i + (j - Len(before)) = j + 1
    BY <1>2, <1>3
  <2> HIDE DEF r
  <2>4. after[j - Len(before)] = q[i + (j - Len(before))]
    BY <1>4, <2>3, Zenon
  <2> QED
    BY <2>2, <2>3, <2>4
<1>8. Len(r) = Len(q) - 1
  BY <1>2, <1>3, <1>4, <1>5
<1>9. r \in Seq(QueuedEvent)
  BY <1>5
<1> QED
  BY <1>6, <1>7, <1>8, <1>9 DEF before, after

-----------------------------------------------------------------------------
(* The list as a set with an order: it is sorted by time, and no event is  *)
(* in it twice.                                                            *)

Elements(q) == {q[i] : i \in DOMAIN q}
Ordered(q) ==
    \A i, j \in DOMAIN q : i < j => q[i].time <= q[j].time /\ q[i].ev # q[j].ev

(* The list with one more record is sorted, and holds it once. *)
LEMMA InsertedOrdered ==
    ASSUME NEW q \in Seq(QueuedEvent), NEW x \in QueuedEvent, Ordered(q),
           \A y \in Elements(q) : y.ev # x.ev
    PROVE  /\ Inserted(q, x) \in Seq(QueuedEvent)
           /\ Ordered(Inserted(q, x))
           /\ Elements(Inserted(q, x)) = Elements(q) \cup {x}
<1> DEFINE r == Inserted(q, x)
<1>1. /\ r \in Seq(QueuedEvent) /\ Len(r) = Len(q) + 1
      /\ \E n \in 0 .. Len(q) :
           /\ \A i \in 1 .. n : q[i].time < x.time /\ r[i] = q[i]
           /\ r[n + 1] = x
           /\ \A i \in n + 1 .. Len(q) : r[i + 1] = q[i]
           /\ n < Len(q) => ~(q[n + 1].time < x.time)
  BY InsertedProperties
<1> HIDE DEF r
<1>2. PICK n \in 0 .. Len(q) :
           /\ \A i \in 1 .. n : q[i].time < x.time /\ r[i] = q[i]
           /\ r[n + 1] = x
           /\ \A i \in n + 1 .. Len(q) : r[i + 1] = q[i]
           /\ n < Len(q) => ~(q[n + 1].time < x.time)
  BY <1>1
<1>3. /\ Len(q) \in Nat /\ DOMAIN q = 1 .. Len(q) /\ DOMAIN r = 1 .. Len(q) + 1
      /\ \A i \in 1 .. Len(q) : q[i] \in QueuedEvent
  BY <1>1, LenProperties, ElementOfSeq
<1>4. n \in Nat /\ n <= Len(q)
  BY <1>3
<1>5. \A i \in DOMAIN r : \/ i <= n /\ i \in DOMAIN q /\ r[i] = q[i]
                          \/ i = n + 1 /\ r[i] = x
                          \/ i > n + 1 /\ i - 1 \in DOMAIN q /\ r[i] = q[i - 1]
  <2> SUFFICES ASSUME NEW i \in DOMAIN r, i > n + 1
               PROVE  i - 1 \in DOMAIN q /\ r[i] = q[i - 1]
    BY <1>2, <1>3, <1>4
  <2>1. i - 1 \in n + 1 .. Len(q) /\ (i - 1) + 1 = i
    BY <1>3, <1>4
  <2>2. r[(i - 1) + 1] = q[i - 1]
    BY <1>2, <2>1, Zenon
  <2> QED
    BY <1>3, <1>4, <2>1, <2>2
<1>6. \A i \in n + 1 .. Len(q) : x.time <= q[i].time
  <2> SUFFICES ASSUME NEW i \in n + 1 .. Len(q) PROVE x.time <= q[i].time
    OBVIOUS
  <2>1. n + 1 \in 1 .. Len(q) /\ i \in 1 .. Len(q) /\ n < Len(q)
    BY <1>3, <1>4
  <2>2. q[n + 1] \in QueuedEvent /\ q[i] \in QueuedEvent
    BY <1>3, <2>1
  <2>3. q[n + 1].time \in Int /\ q[i].time \in Int /\ x.time \in Int
    BY <2>2 DEF QueuedEvent
  <2>4. q[n + 1].time <= q[i].time
    BY <1>3, <1>4, <2>1, <2>3 DEF Ordered
  <2> QED
    BY <1>2, <2>1, <2>3, <2>4
<1>7. \A i \in DOMAIN q : q[i].time \in Int /\ q[i].ev # x.ev
  BY <1>3 DEF QueuedEvent, Elements
<1>8. x.time \in Int
  BY DEF QueuedEvent
<1>9. Ordered(r)
  <2> SUFFICES ASSUME NEW i \in DOMAIN r, NEW j \in DOMAIN r, i < j
               PROVE  r[i].time <= r[j].time /\ r[i].ev # r[j].ev
    BY DEF Ordered
  <2>1. i \in Nat /\ j \in Nat
    BY <1>3
  <2>2. CASE j <= n
    BY <2>1, <2>2, <1>4, <1>5 DEF Ordered
  <2>3. CASE j = n + 1
    <3>1. i \in 1 .. n /\ i \in DOMAIN q /\ r[i] = q[i] /\ r[j] = x
      BY <2>1, <2>3, <1>3, <1>4, <1>5
    <3>2. q[i].time < x.time
      BY <1>2, <3>1
    <3> QED
      BY <3>1, <3>2, <1>7, <1>8
  <2>4. CASE j > n + 1
    <3>1. j - 1 \in DOMAIN q /\ r[j] = q[j - 1] /\ j - 1 \in n + 1 .. Len(q)
      BY <2>1, <2>4, <1>3, <1>4, <1>5
    <3>2. CASE i <= n
      BY <2>1, <2>4, <3>1, <3>2, <1>4, <1>5 DEF Ordered
    <3>3. CASE i = n + 1
      BY <3>1, <3>3, <1>4, <1>5, <1>6, <1>7
    <3>4. CASE i > n + 1
      <4>1. i - 1 \in DOMAIN q /\ r[i] = q[i - 1] /\ i - 1 < j - 1
        BY <2>1, <3>4, <1>4, <1>5
      <4> QED
        BY <3>1, <4>1 DEF Ordered
    <3> QED
      BY <2>1, <1>4, <3>2, <3>3, <3>4
  <2> QED
    BY <2>1, <1>4, <2>2, <2>3, <2>4
<1>10. Elements(r) = Elements(q) \cup {x}
  <2>1. Elements(r) \subseteq Elements(q) \cup {x}
    BY <1>5 DEF Elements
  <2>2. x \in Elements(r)
    BY <1>2, <1>3, <1>4 DEF Elements
  <2>3. \A i \in DOMAIN q : q[i] \in Elements(r)
    <3> SUFFICES ASSUME NEW i \in DOMAIN q PROVE q[i] \in Elements(r)
      OBVIOUS
    <3>1. CASE i <= n
      BY <3>1, <1>2, <1>3, <1>4 DEF Elements
    <3>2. CASE ~(i <= n)
      <4>1. i \in n + 1 .. Len(q) /\ i + 1 \in DOMAIN r
        BY <3>2, <1>3, <1>4
      <4>2. r[i + 1] = q[i]
        BY <1>2, <4>1
      <4> QED
        BY <4>1, <4>2 DEF Elements
    <3> QED
      BY <3>1, <3>2
  <2> QED
    BY <2>1, <2>2, <2>3 DEF Elements
<1> QED
  BY <1>1, <1>9, <1>10 DEF r

(* The list without one of its records is sorted, and no longer holds it. *)
LEMMA RemovedOrdered ==
    ASSUME NEW q \in Seq(QueuedEvent), NEW i \in DOMAIN q, Ordered(q)
    PROVE  LET r == SubSeq(q, 1, i - 1) \o SubSeq(q, i + 1, Len(q))
           IN  /\ r \in Seq(QueuedEvent)
               /\ Ordered(r)
               /\ Elements(r) = Elements(q) \ {q[i]}
<1> DEFINE r == SubSeq(q, 1, i - 1) \o SubSeq(q, i + 1, Len(q))
<1>1. Len(q) \in Nat /\ DOMAIN q = 1 .. Len(q) /\ i \in 1 .. Len(q)
  BY LenProperties
<1>2. /\ r \in Seq(QueuedEvent) /\ Len(r) = Len(q) - 1
      /\ \A j \in 1 .. i - 1 : r[j] = q[j]
      /\ \A j \in i .. Len(q) - 1 : r[j] = q[j + 1]
  BY <1>1, RemovedProperties
<1> HIDE DEF r
<1>3. DOMAIN r = 1 .. Len(q) - 1
  BY <1>2, LenProperties
<1>4. \A j \in DOMAIN r : \/ j < i /\ j \in DOMAIN q /\ r[j] = q[j]
                          \/ ~(j < i) /\ j + 1 \in DOMAIN q /\ r[j] = q[j + 1]
  BY <1>1, <1>2, <1>3
<1>5. Ordered(r)
  <2> SUFFICES ASSUME NEW j \in DOMAIN r, NEW k \in DOMAIN r, j < k
               PROVE  r[j].time <= r[k].time /\ r[j].ev # r[k].ev
    BY DEF Ordered
  <2>1. PICK a \in DOMAIN q : r[j] = q[a] /\ ((a = j /\ j < i) \/ (a = j + 1 /\ ~(j < i)))
    BY <1>4
  <2>2. PICK b \in DOMAIN q : r[k] = q[b] /\ ((b = k /\ k < i) \/ (b = k + 1 /\ ~(k < i)))
    BY <1>4
  <2>3. a < b
    BY <2>1, <2>2, <1>1, <1>3
  <2> QED
    BY <2>1, <2>2, <2>3 DEF Ordered
<1>6. Elements(r) = Elements(q) \ {q[i]}
  <2>1. \A j, k \in DOMAIN q : j # k => q[j] # q[k]
    BY <1>1 DEF Ordered
  <2>2. \A j \in DOMAIN r : r[j] \in Elements(q) \ {q[i]}
    <3> SUFFICES ASSUME NEW j \in DOMAIN r PROVE r[j] \in Elements(q) \ {q[i]}
      OBVIOUS
    <3>1. PICK a \in DOMAIN q : r[j] = q[a] /\ ((a = j /\ j < i) \/ (a = j + 1 /\ ~(j < i)))
      BY <1>4
    <3>2. a # i
      BY <3>1, <1>1, <1>3
    <3> QED
      BY <3>1, <3>2, <2>1 DEF Elements
  <2>3. \A a \in DOMAIN q : a # i => q[a] \in Elements(r)
    <3> SUFFICES ASSUME NEW a \in DOMAIN q, a # i PROVE q[a] \in Elements(r)
      OBVIOUS
    <3>1. CASE a < i
      BY <3>1, <1>1, <1>2, <1>3 DEF Elements
    <3>2. CASE ~(a < i)
      <4>1. a - 1 \in i .. Len(q) - 1 /\ (a - 1) + 1 = a /\ a - 1 \in DOMAIN r
        BY <3>2, <1>1, <1>3
      <4>2. r[a - 1] = q[(a - 1) + 1]
        BY <4>1, <1>2, Zenon
      <4> QED
        BY <4>1, <4>2 DEF Elements
    <3> QED
      BY <3>1, <3>2
  <2> QED
    BY <2>2, <2>3 DEF Elements
<1> QED
  BY <1>2, <1>5, <1>6 DEF r

(* The head of the list is a record due no later than any other. *)
LEMMA TailOrdered ==
    ASSUME NEW q \in Seq(QueuedEvent), q # << >>, Ordered(q)
    PROVE  /\ Tail(q) \in Seq(QueuedEvent)
           /\ Ordered(Tail(q))
           /\ Head(q) \in Elements(q)
           /\ Elements(Tail(q)) = Elements(q) \ {Head(q)}
           /\ \A x \in Elements(q) : Head(q).time <= x.time
<1>1. Len(q) \in Nat \ {0} /\ DOMAIN q = 1 .. Len(q) /\ \A j \in 1 .. Len(q) : q[j] \in QueuedEvent
  BY EmptySeq, LenProperties, ElementOfSeq
<1>2. /\ Tail(q) \in Seq(QueuedEvent) /\ Len(Tail(q)) = Len(q) - 1
      /\ \A j \in 1 .. Len(q) - 1 : Tail(q)[j] = q[j + 1]
  BY HeadTailProperties
<1>3. DOMAIN Tail(q) = 1 .. Len(q) - 1
  BY <1>2, LenProperties
<1>4. Head(q) = q[1] /\ 1 \in DOMAIN q
  BY <1>1
<1>5. \A j \in DOMAIN Tail(q) : j + 1 \in DOMAIN q /\ Tail(q)[j] = q[j + 1]
  BY <1>1, <1>2, <1>3
<1>6. Ordered(Tail(q))
  BY <1>1, <1>3, <1>5 DEF Ordered
<1>7. Elements(Tail(q)) = Elements(q) \ {Head(q)}
  <2>1. \A j \in DOMAIN Tail(q) : Tail(q)[j] \in Elements(q) \ {Head(q)}
    BY <1>1, <1>3, <1>4, <1>5 DEF Elements, Ordered
  <2>2. \A a \in DOMAIN q : a # 1 => q[a] \in Elements(Tail(q))
    <3> SUFFICES ASSUME NEW a \in DOMAIN q, a # 1 PROVE q[a] \in Elements(Tail(q))
      OBVIOUS
    <3>1. a - 1 \in DOMAIN Tail(q) /\ (a - 1) + 1 = a
      BY <1>1, <1>3
    <3>2. Tail(q)[a - 1] = q[(a - 1) + 1]
      BY <3>1, <1>5, Zenon
    <3> QED
      BY <3>1, <3>2 DEF Elements
  <2> QED
    BY <2>1, <2>2, <1>4 DEF Elements
<1>8. \A x \in Elements(q) : Head(q).time <= x.time
  <2> SUFFICES ASSUME NEW a \in DOMAIN q PROVE q[1].time <= q[a].time
    BY <1>4 DEF Elements
  <2>1. q[1].time \in Int
    BY <1>1, <1>4 DEF QueuedEvent
  <2> QED
    BY <1>1, <1>4, <2>1 DEF Ordered
<1> QED
  BY <1>2, <1>4, <1>6, <1>7, <1>8 DEF Elements

(* The events of the list are those of its records. *)
LEMMA QueuedElements == Queued = {x.ev : x \in Elements(eventQ)}
  BY DEF Queued, Elements

(* No event has two records. *)
LEMMA OneElement ==
    ASSUME NEW q \in Seq(QueuedEvent), Ordered(q),
           NEW x \in Elements(q), NEW y \in Elements(q), x.ev = y.ev
    PROVE  x = y
<1>1. Len(q) \in Nat /\ DOMAIN q = 1 .. Len(q)
  BY LenProperties
<1>2. PICK i \in DOMAIN q, j \in DOMAIN q : x = q[i] /\ y = q[j]
  BY DEF Elements
<1>3. i = j
  BY <1>1, <1>2 DEF Ordered
<1> QED
  BY <1>2, <1>3

-----------------------------------------------------------------------------
(* The invariant.  TypeOK alone does not say which events may still be     *)
(* added; an event is in one place at most - its call, the list, the       *)
(* thread's hands or those of StopTimerThread.                             *)

(* Once StopTimerThread has given the thread its last signal, the list     *)
(* stays empty and the thread does not wait again.                         *)
StopInv ==
    /\ shutdown <=> stop # "no"
    /\ stop \in {"unlocked", "destroyed"} => newEvent /\ pc # "waiting" /\ eventQ = << >>

PlacesInv ==
    /\ Ordered(eventQ)
    /\ \A x \in Elements(eventQ) :
          /\ call[x.ev] = "returned" /\ x.time = expireTime[x.ev] /\ x.eventId = id[x.ev]
          /\ x.ev # current /\ x.ev # stopping
    /\ IF pc = "handing" THEN current \in Events ELSE current = NoEvent
    /\ IF stop = "callback" THEN stopping \in Events ELSE stopping = NoEvent
    /\ current \in Events => call[current] = "returned" /\ current # stopping
    /\ stopping \in Events => call[stopping] = "returned"
    /\ \A e \in Events : call[e] # "returned" => given[e] = 0

(* Ids are given out once each: there are at least as many as events.      *)
Named == {e \in Events : id[e] # NoId}
IdsInv ==
    /\ \A e \in Named : call[e] = "returned" /\ id[e] < Cardinality(Named)
    /\ \A e, f \in Named : id[e] = id[f] => e = f
    /\ currentEventId = IF Cardinality(Named) = MaxId + 1 THEN 0 ELSE Cardinality(Named)

TimerInv == TypeOK /\ StopInv /\ PlacesInv /\ IdsInv

(* Nothing is scheduled when InitTimerThread returns. *)
LEMMA TimerInit == Init => TimerInv
<1> SUFFICES ASSUME Init PROVE TimerInv
  OBVIOUS
<1>1. TypeOK
  <2>1. eventQ \in Seq([ev : Events, time : Int, eventId : 0 .. MaxId])
    BY DEF Init
  <2>2. newEvent \in BOOLEAN /\ shutdown \in BOOLEAN
    BY DEF Init
  <2>3. currentEventId \in 0 .. MaxId /\ now \in Nat
    BY TimerAssumption DEF Init
  <2>4. /\ pc \in {"top", "waiting", "awake", "handing", "done"}
        /\ retcode \in {"ok", "ETIMEDOUT"}
        /\ stop \in {"no", "callback", "loop", "unlocked", "destroyed"}
    BY DEF Init
  <2>5. timeout \in Int
    BY DEF Init, NoDeadline
  <2>6. current \in Events \cup {NoEvent} /\ stopping \in Events \cup {NoEvent}
    BY DEF Init
  <2>7. /\ call \in [Events -> {"uncalled", "timed", "returned"}]
        /\ expireTime \in [Events -> Int] /\ given \in [Events -> Nat]
    BY DEF Init
  <2>8. id \in [Events -> 0 .. MaxId \cup {NoId}]
    BY DEF Init
  <2> QED
    BY <2>1, <2>2, <2>3, <2>4, <2>5, <2>6, <2>7, <2>8 DEF TypeOK
<1>2. StopInv
  BY DEF Init, StopInv
<1>3. PlacesInv
  BY TimerAssumption DEF Init, PlacesInv, Ordered, Elements
<1>4. Named = {}
  BY DEF Init, Named
<1>5. IdsInv
  BY <1>4, FS_EmptySet, TimerAssumption DEF Init, IdsInv
<1> QED
  BY <1>1, <1>2, <1>3, <1>5 DEF TimerInv

(* What each change of the list does to it. *)
LEMMA ListAdded ==
    ASSUME TimerInv, NEW e \in Events, ScheduleTimerEvent(e), ~shutdown
    PROVE  LET x == [ev |-> e, time |-> expireTime[e], eventId |-> currentEventId]
           IN  /\ x \in QueuedEvent
               /\ eventQ' \in Seq(QueuedEvent) /\ Ordered(eventQ')
               /\ Elements(eventQ') = Elements(eventQ) \cup {x}
<1> DEFINE x == [ev |-> e, time |-> expireTime[e], eventId |-> currentEventId]
<1>1. x \in QueuedEvent
  BY DEF TimerInv, TypeOK, QueuedEvent
<1>2. eventQ \in Seq(QueuedEvent) /\ Ordered(eventQ)
  BY DEF TimerInv, TypeOK, QueuedEvent, PlacesInv
<1>3. \A y \in Elements(eventQ) : y.ev # x.ev
  BY DEF TimerInv, PlacesInv, ScheduleTimerEvent
<1>4. eventQ' = Inserted(eventQ, x)
  BY DEF ScheduleTimerEvent
<1> HIDE DEF x
<1>5. /\ Inserted(eventQ, x) \in Seq(QueuedEvent) /\ Ordered(Inserted(eventQ, x))
      /\ Elements(Inserted(eventQ, x)) = Elements(eventQ) \cup {x}
  BY <1>1, <1>2, <1>3, InsertedOrdered, Zenon
<1> QED
  BY <1>1, <1>4, <1>5 DEF x

LEMMA ListRemoved ==
    ASSUME TimerInv, NEW e \in Events, RemoveTimerEvent(e)
    PROVE  /\ eventQ' \in Seq(QueuedEvent) /\ Ordered(eventQ')
           /\ \E x \in Elements(eventQ) :
                 /\ x \in QueuedEvent /\ x.eventId = id[e]
                 /\ Elements(eventQ') = Elements(eventQ) \ {x}
                 /\ given' = [given EXCEPT ![x.ev] = @ + 1]
<1>1. eventQ \in Seq(QueuedEvent) /\ Ordered(eventQ)
  BY DEF TimerInv, TypeOK, QueuedEvent, PlacesInv
<1>2. PICK i \in DOMAIN eventQ :
          /\ eventQ[i].eventId = id[e]
          /\ eventQ' = SubSeq(eventQ, 1, i - 1) \o SubSeq(eventQ, i + 1, Len(eventQ))
          /\ given' = [given EXCEPT ![eventQ[i].ev] = @ + 1]
  BY DEF RemoveTimerEvent
<1>3. eventQ' \in Seq(QueuedEvent) /\ Ordered(eventQ')
      /\ Elements(eventQ') = Elements(eventQ) \ {eventQ[i]}
  BY <1>1, <1>2, RemovedOrdered
<1>4. eventQ[i] \in Elements(eventQ) /\ eventQ[i] \in QueuedEvent
  BY <1>1, LenProperties, ElementOfSeq DEF Elements
<1> QED
  BY <1>2, <1>3, <1>4

LEMMA ListTaken ==
    ASSUME TimerInv, eventQ # << >>, eventQ' = Tail(eventQ)
    PROVE  /\ eventQ' \in Seq(QueuedEvent) /\ Ordered(eventQ')
           /\ Head(eventQ) \in Elements(eventQ) /\ Head(eventQ) \in QueuedEvent
           /\ Elements(eventQ') = Elements(eventQ) \ {Head(eventQ)}
           /\ \A x \in Elements(eventQ) : Head(eventQ).time <= x.time
<1>1. eventQ \in Seq(QueuedEvent) /\ Ordered(eventQ)
  BY DEF TimerInv, TypeOK, QueuedEvent, PlacesInv
<1> QED
  BY <1>1, TailOrdered, HeadTailProperties
-----------------------------------------------------------------------------
(* The steps. *)

(* The actions keep the types; the events given away are always real ones. *)
LEMMA TypeStep == TimerInv /\ [Next]_vars => TypeOK'
<1> SUFFICES ASSUME TimerInv, [Next]_vars PROVE TypeOK'
  OBVIOUS
<1>0. TypeOK
  BY DEF TimerInv
<1>n. NextId(currentEventId) \in 0 .. MaxId
  BY <1>0, TimerAssumption DEF TypeOK, NextId
<1>1. ASSUME NEW e \in Events, NEW t \in TimeOuts, ReadClock(e, t)
      PROVE  TypeOK'
  <2>1. now + t \in Int
    BY <1>0, TimerAssumption DEF TypeOK
  <2> QED
    BY <1>0, <1>1, <2>1 DEF TypeOK, ReadClock, threadVars, stopVars
<1>2. ASSUME NEW e \in Events, ScheduleTimerEvent(e) PROVE TypeOK'
  <2>1. CASE shutdown
    BY <1>0, <1>2, <2>1 DEF TypeOK, ScheduleTimerEvent, stopVars
  <2>2. CASE ~shutdown
    <3>1. eventQ' \in Seq([ev : Events, time : Int, eventId : 0 .. MaxId])
      BY <1>2, <2>2, ListAdded DEF QueuedEvent
    <3>2. id' \in [Events -> 0 .. MaxId \cup {NoId}]
      BY <1>0, <1>2, <2>2 DEF TypeOK, ScheduleTimerEvent
    <3> QED
      BY <1>0, <1>n, <1>2, <2>2, <3>1, <3>2
         DEF TypeOK, ScheduleTimerEvent, Signal, stopVars
  <2> QED
    BY <2>1, <2>2
<1>3. ASSUME NEW e \in Events, RemoveTimerEvent(e) PROVE TypeOK'
  <2>1. eventQ' \in Seq([ev : Events, time : Int, eventId : 0 .. MaxId])
    BY <1>3, ListRemoved DEF QueuedEvent
  <2>2. PICK x \in QueuedEvent : given' = [given EXCEPT ![x.ev] = @ + 1]
    BY <1>3, ListRemoved
  <2>3. given' \in [Events -> Nat]
    BY <1>0, <2>2 DEF TypeOK, QueuedEvent
  <2> QED
    BY <1>0, <1>3, <2>1, <2>3
       DEF TypeOK, RemoveTimerEvent, Signal, callVars, stopVars
<1>4. CASE ThreadStops
  BY <1>0, <1>4 DEF TypeOK, ThreadStops, callVars, stopVars
<1>5. CASE TakeDue
  <2>1. /\ eventQ' \in Seq([ev : Events, time : Int, eventId : 0 .. MaxId])
        /\ Head(eventQ).ev \in Events
    BY <1>5, ListTaken DEF TakeDue, Due, QueuedEvent
  <2> QED
    BY <1>0, <1>5, <2>1 DEF TypeOK, TakeDue, callVars, stopVars
<1>6. CASE WaitForEvent
  <2>1. timeout' \in Int
    <3>1. CASE eventQ = << >>
      BY <1>6, <3>1 DEF WaitForEvent, NoDeadline
    <3>2. CASE eventQ # << >>
      <4>1. Head(eventQ) \in [ev : Events, time : Int, eventId : 0 .. MaxId]
        BY <1>0, <3>2, HeadTailProperties DEF TypeOK
      <4> QED
        BY <1>6, <3>2, <4>1 DEF WaitForEvent
    <3> QED
      BY <3>1, <3>2
  <2> QED
    BY <1>0, <1>6, <2>1 DEF TypeOK, WaitForEvent, callVars, stopVars
<1>7. CASE Awake
  BY <1>0, <1>7 DEF TypeOK, Awake, callVars, stopVars
<1>8. CASE HandOver
  <2>1. current \in Events
    BY <1>8 DEF TimerInv, PlacesInv, HandOver
  <2>2. given' = given \/ given' = [given EXCEPT ![current] = @ + 1]
    BY <1>8 DEF HandOver
  <2>3. given' \in [Events -> Nat]
    <3>1. given \in [Events -> Nat]
      BY <1>0 DEF TypeOK
    <3>2. [given EXCEPT ![current] = @ + 1] \in [Events -> Nat]
      BY <2>1, <3>1
    <3> QED
      BY <2>2, <3>1, <3>2
  <2> QED
    BY <1>0, <1>8, <2>3 DEF TypeOK, HandOver, callVars, stopVars
<1>9. CASE TimedOut \/ SpuriousWakeup
  BY <1>0, <1>9 DEF TypeOK, TimedOut, SpuriousWakeup, callVars, stopVars
<1>10. CASE StopTimerThread \/ StopLoop
  <2>1. CASE eventQ # << >>
    <3>1. /\ eventQ' = Tail(eventQ) /\ stopping' = Head(eventQ).ev /\ stop' = "callback"
          /\ newEvent' = newEvent /\ pc' = pc /\ retcode' = retcode
      BY <1>10, <2>1 DEF StopTimerThread, StopLoop, FlushNext
    <3>2. /\ eventQ' \in Seq([ev : Events, time : Int, eventId : 0 .. MaxId])
          /\ Head(eventQ).ev \in Events
      BY <2>1, <3>1, ListTaken DEF QueuedEvent
    <3> QED
      BY <1>0, <1>10, <3>1, <3>2 DEF TypeOK, StopTimerThread, StopLoop, callVars
  <2>2. CASE eventQ = << >>
    BY <1>0, <1>10, <2>2
       DEF TypeOK, StopTimerThread, StopLoop, FlushNext, Signal, callVars
  <2> QED
    BY <2>1, <2>2
<1>11. CASE StopCallback
  <2>1. stopping \in Events
    BY <1>11 DEF TimerInv, PlacesInv, StopCallback
  <2>2. given' \in [Events -> Nat]
    BY <1>0, <1>11, <2>1 DEF TypeOK, StopCallback
  <2> QED
    BY <1>0, <1>11, <2>2 DEF TypeOK, StopCallback, threadVars, callVars
<1>12. CASE StopDestroy
  BY <1>0, <1>12 DEF TypeOK, StopDestroy, threadVars, callVars
<1>13. CASE Tick
  BY <1>0, <1>13 DEF TypeOK, Tick, threadVars, callVars, stopVars
<1>14. CASE UNCHANGED vars
  BY <1>0, <1>14 DEF TypeOK, vars, threadVars, callVars, stopVars
<1> QED
  BY <1>1, <1>2, <1>3, <1>4, <1>5, <1>6, <1>7, <1>8, <1>9, <1>10, <1>11,
     <1>12, <1>13, <1>14 DEF Next, Thread

(* The last signal of StopTimerThread finds the thread waiting or makes it
   find newEvent set, which nobody resets after shutdown. *)
LEMMA StopStep == TimerInv /\ [Next]_vars => StopInv'
<1> SUFFICES ASSUME TimerInv, [Next]_vars PROVE StopInv'
  OBVIOUS
<1> USE DEF StopInv
<1>0. StopInv /\ shutdown \in BOOLEAN /\ newEvent \in BOOLEAN
  BY DEF TimerInv, TypeOK
<1>1. ASSUME NEW e \in Events, NEW t \in TimeOuts, ReadClock(e, t)
      PROVE  StopInv'
  BY <1>0, <1>1 DEF ReadClock, threadVars, stopVars
<1>2. ASSUME NEW e \in Events, ScheduleTimerEvent(e) PROVE StopInv'
  BY <1>0, <1>2 DEF ScheduleTimerEvent, Signal, stopVars
<1>3. ASSUME NEW e \in Events, RemoveTimerEvent(e) PROVE StopInv'
  <2>1. eventQ # << >>
    BY <1>3 DEF RemoveTimerEvent
  <2> QED
    BY <1>0, <1>3, <2>1 DEF RemoveTimerEvent, stopVars
<1>4. CASE Thread
  BY <1>0, <1>4
     DEF Thread, ThreadStops, TakeDue, WaitForEvent, Awake, HandOver, stopVars
<1>5. CASE TimedOut \/ SpuriousWakeup
  BY <1>0, <1>5 DEF TimedOut, SpuriousWakeup, stopVars
<1>6. CASE StopTimerThread
  BY <1>0, <1>6 DEF StopTimerThread, FlushNext, Signal
<1>7. CASE StopLoop
  BY <1>0, <1>7 DEF StopLoop, FlushNext, Signal
<1>8. CASE StopCallback \/ StopDestroy
  BY <1>0, <1>8 DEF StopCallback, StopDestroy, threadVars
<1>9. CASE Tick \/ UNCHANGED vars
  BY <1>0, <1>9 DEF Tick, vars, threadVars, stopVars
<1> QED
  BY <1>1, <1>2, <1>3, <1>4, <1>5, <1>6, <1>7, <1>8, <1>9 DEF Next

(* An event moves from its call to the list, and from there to the client
   that removes it, to the thread or to StopTimerThread, but never to two of
   them: each of them takes it off the list first. *)
LEMMA PlacesStep == TimerInv /\ [Next]_vars => PlacesInv'
<1> SUFFICES ASSUME TimerInv, [Next]_vars PROVE PlacesInv'
  OBVIOUS
<1>0. TypeOK /\ StopInv /\ PlacesInv
  BY DEF TimerInv
<1>t. /\ eventQ \in Seq(QueuedEvent)
      /\ \A x \in Elements(eventQ) : x \in QueuedEvent /\ x.ev \in Events
  <2>1. eventQ \in Seq(QueuedEvent)
    BY <1>0 DEF TypeOK, QueuedEvent
  <2>2. \A i \in DOMAIN eventQ : eventQ[i] \in QueuedEvent
    BY <2>1, LenProperties, ElementOfSeq
  <2> QED
    BY <2>1, <2>2 DEF Elements, QueuedEvent
<1>e. NoEvent \notin Events
  BY TimerAssumption
<1>a. ASSUME UNCHANGED <<eventQ, current, stopping, call, expireTime, id, given>>,
             pc' = "handing" <=> pc = "handing",
             stop' = "callback" <=> stop = "callback"
      PROVE  PlacesInv'
  BY <1>0, <1>a DEF PlacesInv, Ordered, Elements
<1>1. ASSUME NEW e \in Events, NEW t \in TimeOuts, ReadClock(e, t)
      PROVE  PlacesInv'
  <2>1. /\ call[e] = "uncalled" /\ call' = [call EXCEPT ![e] = "timed"]
        /\ \A f \in Events : f # e => expireTime'[f] = expireTime[f]
        /\ UNCHANGED <<eventQ, pc, current, stop, stopping, id, given>>
    BY <1>0, <1>1 DEF TypeOK, ReadClock, threadVars, stopVars
  <2>2. \A f \in Events : f # e => call'[f] = call[f]
    BY <1>0, <2>1 DEF TypeOK
  <2>3. call'[e] = "timed"
    BY <1>0, <2>1 DEF TypeOK
  <2>4. Elements(eventQ)' = Elements(eventQ) /\ Ordered(eventQ)'
    BY <1>0, <2>1 DEF PlacesInv, Elements, Ordered
  <2>5. \A x \in Elements(eventQ) : x.ev # e
    BY <1>0, <2>1 DEF PlacesInv
  <2> QED
    BY <1>0, <1>t, <2>1, <2>2, <2>3, <2>4, <2>5 DEF PlacesInv
<1>2. ASSUME NEW e \in Events, ScheduleTimerEvent(e) PROVE PlacesInv'
  <2>1. /\ call[e] = "timed" /\ call' = [call EXCEPT ![e] = "returned"]
        /\ pc' = "handing" <=> pc = "handing"
        /\ UNCHANGED <<current, expireTime, stop, stopping, given>>
    BY <1>2 DEF ScheduleTimerEvent, Signal, stopVars
  <2>2. call'[e] = "returned" /\ \A f \in Events : f # e => call'[f] = call[f]
    BY <1>0, <2>1 DEF TypeOK
  <2>3. current # e /\ stopping # e
    BY <1>0, <2>1 DEF PlacesInv
  <2>4. \A x \in Elements(eventQ) : x.ev # e
    BY <1>0, <2>1 DEF PlacesInv
  <2>5. CASE shutdown
    <3>1. UNCHANGED <<eventQ, id>>
      BY <1>2, <2>5 DEF ScheduleTimerEvent
    <3>2. Elements(eventQ)' = Elements(eventQ) /\ Ordered(eventQ)'
      BY <1>0, <3>1 DEF PlacesInv, Elements, Ordered
    <3> QED
      BY <1>0, <1>t, <2>1, <2>2, <2>3, <2>4, <3>1, <3>2 DEF PlacesInv
  <2>6. CASE ~shutdown
    <3> DEFINE x == [ev |-> e, time |-> expireTime[e], eventId |-> currentEventId]
    <3>1. Ordered(eventQ') /\ Elements(eventQ') = Elements(eventQ) \cup {x}
      BY <1>2, <2>6, ListAdded
    <3>2. id' = [id EXCEPT ![e] = currentEventId]
      BY <1>2, <2>6 DEF ScheduleTimerEvent
    <3>3. id'[e] = currentEventId /\ \A f \in Events : f # e => id'[f] = id[f]
      BY <1>0, <3>2 DEF TypeOK
    <3>4. x.ev = e /\ x.time = expireTime[e] /\ x.eventId = currentEventId
      OBVIOUS
    <3> HIDE DEF x
    <3>5. \A y \in Elements(eventQ') :
             /\ call'[y.ev] = "returned"
             /\ y.time = expireTime'[y.ev] /\ y.eventId = id'[y.ev]
             /\ y.ev # current' /\ y.ev # stopping'
      BY <1>0, <1>t, <2>1, <2>2, <2>3, <2>4, <3>1, <3>3, <3>4 DEF PlacesInv
    <3>6. \A f \in Events : call'[f] # "returned" => given'[f] = 0
      BY <1>0, <2>1, <2>2 DEF PlacesInv
    <3> QED
      BY <1>0, <2>1, <2>2, <3>1, <3>5, <3>6 DEF PlacesInv
  <2> QED
    BY <2>5, <2>6
<1>3. ASSUME NEW e \in Events, RemoveTimerEvent(e) PROVE PlacesInv'
  <2>1. /\ pc' = "handing" <=> pc = "handing"
        /\ UNCHANGED <<current, call, expireTime, id, stop, stopping>>
    BY <1>3 DEF RemoveTimerEvent, Signal, callVars, stopVars
  <2>2. Ordered(eventQ')
    BY <1>3, ListRemoved
  <2>3. PICK x \in Elements(eventQ) :
          /\ Elements(eventQ') = Elements(eventQ) \ {x}
          /\ given' = [given EXCEPT ![x.ev] = @ + 1]
    BY <1>3, ListRemoved
  <2>4. \A f \in Events : call[f] # "returned" => given'[f] = given[f]
    BY <1>0, <1>t, <2>3 DEF TypeOK, PlacesInv
  <2> QED
    BY <1>0, <2>1, <2>2, <2>3, <2>4 DEF PlacesInv
<1>4. CASE TakeDue
  <2>1. /\ pc' = "handing" /\ pc = "top" /\ current' = Head(eventQ).ev
        /\ UNCHANGED <<call, expireTime, id, stop, stopping, given>>
    BY <1>4 DEF TakeDue, callVars, stopVars
  <2>2. /\ Ordered(eventQ') /\ Head(eventQ) \in Elements(eventQ)
        /\ Elements(eventQ') = Elements(eventQ) \ {Head(eventQ)}
    BY <1>4, ListTaken DEF TakeDue, Due
  <2>3. \A x \in Elements(eventQ') : x.ev # Head(eventQ).ev
    BY <1>0, <1>t, <2>2, OneElement DEF PlacesInv
  <2> QED
    BY <1>0, <1>t, <2>1, <2>2, <2>3 DEF PlacesInv
<1>5. CASE HandOver
  <2>1. /\ pc = "handing" /\ pc' = "top" /\ current' = NoEvent
        /\ given' = given \/ given' = [given EXCEPT ![current] = @ + 1]
        /\ UNCHANGED <<eventQ, call, expireTime, id, stop, stopping>>
    BY <1>5 DEF HandOver, callVars, stopVars
  <2>2. current \in Events /\ call[current] = "returned"
    BY <1>0, <2>1 DEF PlacesInv
  <2>3. \A f \in Events : call[f] # "returned" => given'[f] = given[f]
    BY <1>0, <2>1, <2>2 DEF TypeOK
  <2>4. Elements(eventQ)' = Elements(eventQ) /\ Ordered(eventQ)'
    BY <1>0, <2>1 DEF PlacesInv, Elements, Ordered
  <2> QED
    BY <1>0, <1>e, <1>t, <2>1, <2>3, <2>4 DEF PlacesInv
<1>6. CASE ThreadStops \/ WaitForEvent \/ Awake \/ TimedOut \/ SpuriousWakeup
  BY <1>6, <1>a
     DEF ThreadStops, WaitForEvent, Awake, TimedOut, SpuriousWakeup, callVars, stopVars
<1>7. CASE StopTimerThread \/ StopLoop
  <2>1. /\ stop # "callback"
        /\ UNCHANGED <<current, call, expireTime, id, given>>
    BY <1>7 DEF StopTimerThread, StopLoop, callVars
  <2>2. CASE eventQ # << >>
    <3>1. /\ eventQ' = Tail(eventQ) /\ stopping' = Head(eventQ).ev
          /\ stop' = "callback" /\ pc' = pc
      BY <1>7, <2>2 DEF StopTimerThread, StopLoop, FlushNext
    <3>2. /\ Ordered(eventQ') /\ Head(eventQ) \in Elements(eventQ)
          /\ Elements(eventQ') = Elements(eventQ) \ {Head(eventQ)}
      BY <2>2, <3>1, ListTaken
    <3>3. \A x \in Elements(eventQ') : x.ev # Head(eventQ).ev
      BY <1>0, <1>t, <3>2, OneElement DEF PlacesInv
    <3> QED
      BY <1>0, <1>t, <2>1, <3>1, <3>2, <3>3 DEF PlacesInv
  <2>3. CASE eventQ = << >>
    <3>1. /\ UNCHANGED <<eventQ, stopping>> /\ stop' # "callback"
          /\ pc' = "handing" <=> pc = "handing"
      BY <1>7, <2>3 DEF StopTimerThread, StopLoop, FlushNext, Signal
    <3> QED
      BY <2>1, <3>1, <1>a
  <2> QED
    BY <2>2, <2>3
<1>8. CASE StopCallback
  <2>1. /\ stop = "callback" /\ stop' = "loop" /\ stopping' = NoEvent
        /\ given' = [given EXCEPT ![stopping] = @ + 1]
        /\ UNCHANGED <<eventQ, pc, current, call, expireTime, id>>
    BY <1>8 DEF StopCallback, callVars, threadVars
  <2>2. stopping \in Events /\ call[stopping] = "returned"
    BY <1>0, <2>1 DEF PlacesInv
  <2>3. \A f \in Events : call[f] # "returned" => given'[f] = given[f]
    BY <1>0, <2>1, <2>2 DEF TypeOK
  <2>4. Elements(eventQ)' = Elements(eventQ) /\ Ordered(eventQ)'
    BY <1>0, <2>1 DEF PlacesInv, Elements, Ordered
  <2> QED
    BY <1>0, <1>e, <1>t, <2>1, <2>3, <2>4 DEF PlacesInv
<1>9. CASE StopDestroy \/ Tick \/ UNCHANGED vars
  BY <1>9, <1>a DEF StopDestroy, Tick, vars, threadVars, callVars, stopVars
<1> QED
  BY <1>1, <1>2, <1>3, <1>4, <1>5, <1>6, <1>7, <1>8, <1>9 DEF Next, Thread

(* A client that gets an id gets the number of those that had one before:
   the ids do not wrap around while they are in use. *)
LEMMA IdsStep == TimerInv /\ [Next]_vars => IdsInv'
<1> SUFFICES ASSUME TimerInv, [Next]_vars PROVE IdsInv'
  OBVIOUS
<1>0. TypeOK /\ IdsInv
  BY DEF TimerInv
<1>f. /\ IsFiniteSet(Named) /\ Cardinality(Named) \in Nat
      /\ IsFiniteSet(Events) /\ Cardinality(Events) \in Nat
      /\ Cardinality(Events) <= MaxId + 1 /\ MaxId \in Nat
  BY TimerAssumption, FS_Subset, FS_CardinalityType DEF Named
<1>a. ASSUME UNCHANGED <<id, currentEventId>>,
             \A e \in Named : call'[e] = call[e]
      PROVE  IdsInv'
  <2>1. Named' = Named
    BY <1>a DEF Named
  <2> QED
    BY <1>0, <1>a, <2>1 DEF IdsInv
<1>1. ASSUME NEW e \in Events, NEW t \in TimeOuts, ReadClock(e, t)
      PROVE  IdsInv'
  <2>1. e \notin Named
    BY <1>0, <1>1 DEF IdsInv, ReadClock
  <2>2. \A f \in Named : call'[f] = call[f]
    BY <1>0, <1>1, <2>1 DEF TypeOK, ReadClock, Named
  <2> QED
    BY <1>1, <1>a, <2>2 DEF ReadClock
<1>2. ASSUME NEW e \in Events, ScheduleTimerEvent(e) PROVE IdsInv'
  <2>1. call[e] = "timed" /\ call' = [call EXCEPT ![e] = "returned"]
    BY <1>2 DEF ScheduleTimerEvent
  <2>2. e \notin Named /\ Named \in SUBSET Events
    BY <1>0, <2>1 DEF IdsInv, Named
  <2>3. call'[e] = "returned" /\ \A f \in Events : f # e => call'[f] = call[f]
    BY <1>0, <2>1 DEF TypeOK
  <2>4. CASE shutdown
    BY <1>2, <1>a, <2>2, <2>3, <2>4 DEF ScheduleTimerEvent
  <2>5. CASE ~shutdown
    <3> DEFINE n == Cardinality(Named)
    <3>1. id' = [id EXCEPT ![e] = currentEventId] /\ currentEventId' = NextId(currentEventId)
      BY <1>2, <2>5 DEF ScheduleTimerEvent
    <3>2. Cardinality(Named \cup {e}) = n + 1
      BY <1>f, <2>2, FS_AddElement
    <3>3. n + 1 <= Cardinality(Events)
      <4>1. Named \cup {e} \in SUBSET Events
        BY <2>2
      <4>2. Cardinality(Named \cup {e}) <= Cardinality(Events)
        BY <1>f, <4>1, FS_Subset
      <4> QED
        BY <3>2, <4>2
    <3>4. n \in Nat /\ n < MaxId + 1 /\ currentEventId = n
      BY <1>0, <1>f, <3>3 DEF IdsInv
    <3>5. id'[e] = n /\ \A f \in Events : f # e => id'[f] = id[f]
      BY <1>0, <3>1, <3>4 DEF TypeOK
    <3>6. Named' = Named \cup {e}
      BY <3>4, <3>5 DEF Named, NoId
    <3>7. Cardinality(Named)' = n + 1
      BY <3>2, <3>6
    <3>8. \A f \in Named : id[f] \in Int /\ id[f] < n /\ call[f] = "returned" /\ f # e
      BY <1>0, <2>2 DEF TypeOK, IdsInv, NoId
    <3>9. currentEventId' = IF n + 1 = MaxId + 1 THEN 0 ELSE n + 1
      BY <1>f, <3>1, <3>4 DEF NextId
    <3> HIDE DEF n
    <3>10. \A f \in Named' : call'[f] = "returned" /\ id'[f] < n + 1
      BY <2>2, <2>3, <3>4, <3>5, <3>6, <3>8
    <3>11. \A f, g \in Named' : id'[f] = id'[g] => f = g
      BY <1>0, <2>2, <3>4, <3>5, <3>6, <3>8 DEF IdsInv
    <3> QED
      BY <3>7, <3>9, <3>10, <3>11 DEF IdsInv
  <2> QED
    BY <2>4, <2>5
<1>3. ASSUME NEW e \in Events, RemoveTimerEvent(e) PROVE IdsInv'
  BY <1>3, <1>a DEF RemoveTimerEvent, callVars
<1>4. CASE Thread \/ TimedOut \/ SpuriousWakeup
  BY <1>4, <1>a DEF Thread, ThreadStops, TakeDue, WaitForEvent, Awake, HandOver,
     TimedOut, SpuriousWakeup, callVars
<1>5. CASE StopTimerThread \/ StopCallback \/ StopLoop \/ StopDestroy
  BY <1>5, <1>a DEF StopTimerThread, StopCallback, StopLoop, StopDestroy, callVars
<1>6. CASE Tick \/ UNCHANGED vars
  BY <1>6, <1>a DEF Tick, vars, callVars
<1> QED
  BY <1>1, <1>2, <1>3, <1>4, <1>5, <1>6 DEF Next

(* TimerInv is inductive. *)
LEMMA TimerStep == TimerInv /\ [Next]_vars => TimerInv'
  BY TypeStep, StopStep, PlacesStep, IdsStep DEF TimerInv

(* What TimerThread and its clients share keeps its types, and when
   StopTimerThread destroys newEventCond the thread neither waits on it nor
   ever will, and the list is empty. *)
THEOREM StopIsClean == Spec => []TimerSound
<1>1. TimerInv => TimerSound
  BY DEF TimerInv, StopInv, TimerSound, StopsClean
<1> QED
  BY TimerInit, TimerStep, <1>1, PTL DEF Spec

-----------------------------------------------------------------------------
(* Who gets an event. *)

(* What the invariant says of the records in the list. *)
LEMMA InvElements ==
    ASSUME TimerInv
    PROVE  /\ Queued = {x.ev : x \in Elements(eventQ)}
           /\ eventQ \in Seq(QueuedEvent) /\ Ordered(eventQ)
           /\ \A x \in Elements(eventQ) :
                 /\ x \in QueuedEvent /\ x.ev \in Events
                 /\ x.time = expireTime[x.ev] /\ x.eventId = id[x.ev]
                 /\ call[x.ev] = "returned" /\ x.ev \notin {current, stopping}
<1>1. eventQ \in Seq(QueuedEvent) /\ Ordered(eventQ)
  BY DEF TimerInv, TypeOK, PlacesInv, QueuedEvent
<1>2. \A i \in DOMAIN eventQ : eventQ[i] \in QueuedEvent
  BY <1>1, LenProperties, ElementOfSeq
<1> QED
  BY <1>1, <1>2, QueuedElements DEF TimerInv, PlacesInv, Elements, QueuedEvent

(* Taking one record off the list takes its event off, and no other. *)
LEMMA QueuedWithout ==
    ASSUME TimerInv, NEW x \in Elements(eventQ),
           Elements(eventQ') = Elements(eventQ) \ {x}
    PROVE  Queued' = Queued \ {x.ev} /\ x.ev \in Queued
<1>1. Queued' = {y.ev : y \in Elements(eventQ')}
  BY DEF Queued, Elements
<1>2. \A y \in Elements(eventQ) : y.ev = x.ev => y = x
  BY InvElements, OneElement
<1> QED
  BY <1>1, <1>2, InvElements

(* The event that RemoveTimerEvent finds has the id of the client's event,
   and no two events have had the same id. *)
LEMMA RemovesOwn ==
    ASSUME TimerInv, NEW e \in Events, RemoveTimerEvent(e)
    PROVE  Queued' = Queued \ {e} /\ e \in Queued /\ given' = [given EXCEPT ![e] = @ + 1]
<1>1. PICK x \in Elements(eventQ) :
         /\ x \in QueuedEvent /\ x.eventId = id[e]
         /\ Elements(eventQ') = Elements(eventQ) \ {x}
         /\ given' = [given EXCEPT ![x.ev] = @ + 1]
  BY ListRemoved
<1>2. x.ev \in Events /\ id[x.ev] = id[e]
  BY <1>1, InvElements
<1>3. id[e] # NoId
  BY DEF RemoveTimerEvent
<1>4. x.ev = e
  BY <1>2, <1>3 DEF TimerInv, IdsInv, Named
<1> QED
  BY <1>1, <1>4, QueuedWithout

(* A client's RemoveTimerEvent never takes another client's event off the
   list, although the id it uses may be that of an event that has fired: the
   ids given out are distinct as long as there are no more than MaxId + 1 of
   them. *)
THEOREM RemovalIsOwn == Spec => RemovesOwnEvent
<1>1. TimerInv /\ [Next]_vars =>
         [\A e \in Events : RemoveTimerEvent(e) => Queued \ Queued' \subseteq {e}]_vars
  BY RemovesOwn
<1> QED
  BY TimerInit, TimerStep, <1>1, PTL DEF Spec, RemovesOwnEvent

-----------------------------------------------------------------------------
(* The refinement. *)

(* The timer starts as a service that nobody has asked anything. *)
LEMMA ServiceInit == Init => Service!Init
  BY DEF Init, Service!Init, Queued

(* Each critical section is one step of the service or none: the thread and
   StopTimerThread fire an event when they take it off the list, and deliver
   it when they hand it over or call it. *)
LEMMA ServiceStep == TimerInv /\ [Next]_vars => [Service!Next]_(Service!vars)
<1> SUFFICES ASSUME TimerInv, [Next]_vars
             PROVE  [Service!Next]_(Service!vars)
  OBVIOUS
<1>0. TypeOK /\ PlacesInv /\ StopInv
  BY DEF TimerInv
<1>e. NoEvent \notin Events
  BY TimerAssumption
<1>q. ASSUME eventQ' = eventQ PROVE Queued' = Queued
  BY <1>q DEF Queued
<1>a. ASSUME UNCHANGED <<eventQ, call, expireTime, current, stopping, given,
                         shutdown, now>>
      PROVE  UNCHANGED Service!vars
  BY <1>a, <1>q DEF Service!vars
<1>1. ASSUME NEW e \in Events, NEW t \in TimeOuts, ReadClock(e, t)
      PROVE  Service!Ask(e, t)
  <2>1. {f \in Events : call'[f] # "uncalled"}
           = {f \in Events : call[f] # "uncalled"} \cup {e}
    BY <1>0, <1>1 DEF TypeOK, ReadClock
  <2> QED
    BY <1>1, <1>q, <2>1 DEF Service!Ask, ReadClock, threadVars, stopVars
<1>2. ASSUME NEW e \in Events, ScheduleTimerEvent(e)
      PROVE  Service!Arm(e) \/ UNCHANGED Service!vars
  <2>1. /\ call[e] = "timed" /\ call' = [call EXCEPT ![e] = "returned"]
        /\ UNCHANGED <<expireTime, current, stopping, given, shutdown, now>>
    BY <1>2 DEF ScheduleTimerEvent, stopVars
  <2>2. {f \in Events : call'[f] # "uncalled"} = {f \in Events : call[f] # "uncalled"}
    BY <1>0, <2>1 DEF TypeOK
  <2>3. CASE shutdown
    <3>1. eventQ' = eventQ
      BY <1>2, <2>3 DEF ScheduleTimerEvent
    <3> QED
      BY <1>q, <2>1, <2>2, <3>1 DEF Service!vars
  <2>4. CASE ~shutdown
    <3> DEFINE x == [ev |-> e, time |-> expireTime[e], eventId |-> currentEventId]
    <3>1. Elements(eventQ') = Elements(eventQ) \cup {x}
      BY <1>2, <2>4, ListAdded
    <3>2. Queued' = {y.ev : y \in Elements(eventQ')}
      BY DEF Queued, Elements
    <3>3. Queued' = Queued \cup {e}
      <4>1. x.ev = e
        OBVIOUS
      <4>2. Queued = {y.ev : y \in Elements(eventQ)}
        BY InvElements
      <4> HIDE DEF x
      <4> QED
        BY <3>1, <3>2, <4>1, <4>2
    <3>4. e \notin Queued /\ e \notin {current, stopping} /\ given[e] = 0
      BY <1>0, <2>1, InvElements DEF PlacesInv
    <3>5. e \in {f \in Events : call[f] # "uncalled"}
      BY <2>1
    <3> QED
      BY <2>1, <2>2, <2>4, <3>3, <3>4, <3>5 DEF Service!Arm
  <2> QED
    BY <2>3, <2>4
<1>3. ASSUME NEW e \in Events, RemoveTimerEvent(e) PROVE Service!Cancel(e)
  BY <1>3, RemovesOwn DEF Service!Cancel, RemoveTimerEvent, callVars, stopVars
<1>h. ASSUME eventQ # << >>, eventQ' = Tail(eventQ), UNCHANGED <<expireTime>>
      PROVE  LET h == Head(eventQ).ev
             IN  /\ h \in Events /\ Service!Earliest(h)
                 /\ expireTime[h] = Head(eventQ).time
                 /\ Queued' = Queued \ {h}
  <2>1. /\ Head(eventQ) \in Elements(eventQ)
        /\ Elements(eventQ') = Elements(eventQ) \ {Head(eventQ)}
        /\ \A x \in Elements(eventQ) : Head(eventQ).time <= x.time
    BY <1>h, ListTaken
  <2>2. Queued' = Queued \ {Head(eventQ).ev} /\ Head(eventQ).ev \in Queued
    BY <2>1, QueuedWithout
  <2>3. \A f \in Queued : expireTime[Head(eventQ).ev] <= expireTime[f]
    BY <2>1, InvElements
  <2> QED
    BY <2>1, <2>2, <2>3, InvElements DEF Service!Earliest
<1>4. CASE TakeDue
  <2>1. /\ pc = "top" /\ current' = Head(eventQ).ev /\ ~shutdown /\ Head(eventQ).time <= now
        /\ eventQ # << >> /\ eventQ' = Tail(eventQ)
        /\ UNCHANGED <<call, expireTime, stopping, shutdown, given, now>>
    <3>1. Head(eventQ) \in QueuedEvent
      BY <1>4, ListTaken DEF TakeDue, Due
    <3> QED
      BY <1>0, <1>4, <3>1 DEF TakeDue, Due, TypeOK, QueuedEvent, callVars, stopVars
  <2>2. {current', stopping'} \ {NoEvent}
           = ({current, stopping} \ {NoEvent}) \cup {Head(eventQ).ev}
    BY <1>0, <1>e, <1>h, <2>1 DEF PlacesInv
  <2>3. Service!Fire(Head(eventQ).ev)
    BY <1>h, <2>1, <2>2 DEF Service!Fire
  <2> QED
    BY <1>h, <2>1, <2>3 DEF Service!Next
<1>5. CASE HandOver
  <2>1. /\ pc = "handing" /\ current' = NoEvent
        /\ given' \in {given, [given EXCEPT ![current] = @ + 1]}
        /\ UNCHANGED <<eventQ, call, expireTime, stopping, shutdown, now>>
    BY <1>5 DEF HandOver, callVars, stopVars
  <2>2. current \in Events /\ current # stopping
    BY <1>0, <2>1 DEF PlacesInv
  <2>3. {current', stopping'} \ {NoEvent} = ({current, stopping} \ {NoEvent}) \ {current}
    BY <1>e, <2>1, <2>2
  <2>4. Service!Deliver(current)
    BY <1>e, <1>q, <2>1, <2>2, <2>3 DEF Service!Deliver
  <2> QED
    BY <2>2, <2>4 DEF Service!Next
<1>6. CASE StopTimerThread \/ StopLoop
  <2>1. /\ stop # "callback" /\ shutdown' = TRUE
        /\ UNCHANGED <<call, expireTime, current, given, now>>
    BY <1>0, <1>6 DEF StopTimerThread, StopLoop, callVars, StopInv, TypeOK
  <2>2. CASE eventQ # << >>
    <3>1. eventQ' = Tail(eventQ) /\ stopping' = Head(eventQ).ev
      BY <1>6, <2>2 DEF StopTimerThread, StopLoop, FlushNext
    <3>2. {current', stopping'} \ {NoEvent}
             = ({current, stopping} \ {NoEvent}) \cup {Head(eventQ).ev}
      BY <1>0, <1>e, <1>h, <2>1, <2>2, <3>1 DEF PlacesInv
    <3>3. Service!Fire(Head(eventQ).ev)
      BY <1>h, <2>1, <2>2, <3>1, <3>2 DEF Service!Fire
    <3> QED
      BY <1>h, <2>1, <2>2, <3>1, <3>3 DEF Service!Next
  <2>3. CASE eventQ = << >>
    <3>1. UNCHANGED <<eventQ, stopping>>
      BY <1>6, <2>3 DEF StopTimerThread, StopLoop, FlushNext
    <3> QED
      BY <1>q, <2>1, <3>1 DEF Service!Close, Service!Next
  <2> QED
    BY <2>2, <2>3
<1>7. CASE StopCallback
  <2>1. /\ stop = "callback" /\ stopping' = NoEvent
        /\ given' = [given EXCEPT ![stopping] = @ + 1]
        /\ UNCHANGED <<eventQ, call, expireTime, current, shutdown, now>>
    BY <1>7 DEF StopCallback, callVars, threadVars
  <2>2. stopping \in Events /\ current # stopping
    BY <1>0, <1>e, <2>1 DEF PlacesInv
  <2>3. {current', stopping'} \ {NoEvent} = ({current, stopping} \ {NoEvent}) \ {stopping}
    BY <1>e, <2>1, <2>2
  <2>4. Service!Deliver(stopping)
    BY <1>e, <1>q, <2>1, <2>2, <2>3 DEF Service!Deliver
  <2> QED
    BY <2>2, <2>4 DEF Service!Next
<1>8. CASE Tick
  BY <1>8, <1>q
     DEF Tick, Service!Tick, Service!Next, threadVars, callVars, stopVars
<1>9. CASE \/ ThreadStops \/ WaitForEvent \/ Awake \/ TimedOut
           \/ SpuriousWakeup \/ StopDestroy \/ UNCHANGED vars
  BY <1>9, <1>a
     DEF ThreadStops, WaitForEvent, Awake, TimedOut, SpuriousWakeup,
         StopDestroy, vars, threadVars, callVars, stopVars
<1> QED
  BY <1>1, <1>2, <1>3, <1>4, <1>5, <1>6, <1>7, <1>8, <1>9
     DEF Next, Thread, Service!Next

(* The timer implements TimerService: an event fires when it is due and no
   earlier one waits, or because the timer is stopped; its argument goes to
   its callback or to the client that removed it, whoever took the event off
   the list, and never to both. *)
THEOREM TimerImplementsService == Spec => ImplementsTimerService
  BY TimerInit, TimerStep, ServiceInit, ServiceStep, PTL
     DEF Spec, ImplementsTimerService, Service!Spec
=============================================================================

-------------------------- MODULE GenaDeviceProofs --------------------------
(***************************************************************************)
(* Proofs about GenaDevice, for any subscribers, threads, events, maxima,  *)
(* time-outs and faults, and for any width of the event key.               *)
(***************************************************************************)
EXTENDS GenaDevice, SequenceLemmas, SequenceTheorems, FiniteSetTheorems, FunctionTheorems, TLAPS

-----------------------------------------------------------------------------
(* The inductive invariant. *)

(* The subscription list, its count, and what was ever given out. *)
ListInv ==
    /\ subs \subseteq used
    /\ ~Service => subs = {}
    /\ TotalExact
    /\ \A s \in Sids : s \notin used => ~sub[s].active
    /\ \A s \in Sids : ~sub[s].active => issued[s] = << >>

(* The keys that a subscription was given number its events in order, and
   fewer than MaxKey of them wait, so that the keys of those differ. *)
StreamsInv == \A s \in Sids :
    /\ Len(sent[s]) <= Len(issued[s])
    /\ Len(issued[s]) > 1 => Len(issued[s]) - Len(sent[s]) < MaxKey
    /\ \A n \in DOMAIN issued[s] : issued[s][n] <= nev
    /\ \A m, n \in DOMAIN issued[s] : m < n => issued[s][m] < issued[s][n]
    /\ sub[s].eventKey = Stream!SeqNumber(Len(issued[s]) + 1)

(* j is the job of the n-th event given to its subscription ... *)
JobOf(j, n) == /\ j \in Job
               /\ n \in DOMAIN issued[j.sid]
               /\ issued[j.sid][n] = j.ev
               /\ j.eventKey = Stream!SeqNumber(n)

(* ... and nothing as late was sent. *)
Waits(j) == \E n \in Nat : n > Len(sent[j.sid]) /\ JobOf(j, n)

JobsInv ==
    /\ \A i \in DOMAIN pool : Waits(pool[i])
    /\ \A w \in Workers :
          /\ pc[w] = "idle" => in[w] = NoJob
          /\ pc[w] = "start" => Waits(in[w])
          /\ Transmitting(w) => JobOf(in[w], Len(sent[in[w].sid]))

(* An event has one job for each of its subscriptions. *)
Same(j, k) == j.sid = k.sid /\ j.ev = k.ev

ApartInv ==
    /\ \A i, k \in DOMAIN pool : Same(pool[i], pool[k]) => i = k
    /\ \A w, v \in Workers :
          pc[w] # "idle" /\ pc[v] # "idle" /\ Same(in[w], in[v]) => w = v
    /\ \A i \in DOMAIN pool, w \in Workers : pc[w] # "idle" => ~Same(pool[i], in[w])

(* Whose turn it is: the event after the last one sent, or the last one as
   long as its job has not finished. *)
Busy(s) == \E w \in Workers : Transmitting(w) /\ in[w].sid = s

TurnInv == \A s \in subs :
    sub[s].ToSendEventKey =
        Stream!SeqNumber(IF Busy(s) THEN Len(sent[s]) ELSE Len(sent[s]) + 1)

(* The subscriptions for which event e has a job, each of which holds one
   reference to the shared parts of the event. *)
Pending(e) == {s \in Sids :
    \/ \E i \in DOMAIN pool : pool[i].sid = s /\ pool[i].ev = e
    \/ \E w \in Workers : pc[w] # "idle" /\ in[w].sid = s /\ in[w].ev = e}

BuffersInv == \A e \in Events :
    /\ Cardinality(Pending(e)) <= refs[e]
    /\ e \in freed => Pending(e) = {}
    /\ e > nev => e \notin freed

GenaInv == /\ TypeOK /\ ListInv /\ StreamsInv /\ JobsInv
           /\ ApartInv /\ TurnInv /\ BuffersInv

-----------------------------------------------------------------------------
(* The numbers of events and their keys. *)

(* Division with remainder, for the wrap of the event keys. *)
LEMMA Division ==
    ASSUME NEW K \in Nat \ {0}, NEW a \in Nat
    PROVE  /\ a = K * (a \div K) + (a % K)
           /\ a \div K \in Int /\ a % K \in 0 .. K - 1
OBVIOUS

(* A multiple of K adds nothing to a remainder. *)
LEMMA Remainder ==
    ASSUME NEW K \in Nat \ {0}, NEW q \in Int, NEW r \in 0 .. K - 1
    PROVE  ((K * q) + r) % K = r
OBVIOUS

(* The remainder of the successor. *)
LEMMA NextRemainder ==
    ASSUME NEW K \in Nat \ {0}, NEW a \in Nat
    PROVE  (a + 1) % K = IF a % K = K - 1 THEN 0 ELSE (a % K) + 1
<1> DEFINE q == a \div K
           r == a % K
<1>1. a = K * q + r /\ q \in Int /\ r \in 0 .. K - 1
  BY Division
<1> HIDE DEF q, r
<1>2. CASE r = K - 1
  <2>1. a + 1 = (K * (q + 1)) + 0 /\ q + 1 \in Int
    BY <1>1, <1>2
  <2>2. ((K * (q + 1)) + 0) % K = 0
    BY <1>1, Remainder
  <2> QED
    BY <1>2, <2>1, <2>2 DEF r
<1>3. CASE r # K - 1
  <2>1. a + 1 = (K * q) + (r + 1) /\ r + 1 \in 0 .. K - 1
    BY <1>1, <1>3
  <2>2. ((K * q) + (r + 1)) % K = r + 1
    BY <1>1, <2>1, Remainder
  <2> QED
    BY <1>3, <2>1, <2>2 DEF r
<1> QED
  BY <1>2, <1>3

(* Numbers with the same remainder are at least K apart. *)
LEMMA SameRemainder ==
    ASSUME NEW K \in Nat \ {0}, NEW a \in Nat, NEW b \in Nat, a < b, a % K = b % K
    PROVE  b - a >= K
<1> DEFINE x == a \div K
           y == b \div K
           r == a % K
<1>1. a = K * x + r /\ x \in Int /\ r \in 0 .. K - 1
  BY Division
<1>2. b = K * y + r /\ y \in Int
  BY Division
<1> HIDE DEF x, y, r
<1>3. b - a = K * (y - x)
  BY <1>1, <1>2
<1>4. y - x >= 1
  <2>1. SUFFICES ASSUME y - x <= 0 PROVE FALSE
    BY <1>1, <1>2
  <2>2. K * (y - x) <= 0
    BY <1>1, <1>2, <2>1
  <2> QED
    BY <1>3, <2>2
<1> QED
  BY <1>1, <1>2, <1>3, <1>4

(* SEQ starts at 0, stays in its width, and its successor is the one the code
   computes, with the wrap from INT_MAX to 1. *)
LEMMA SeqNumbers ==
    /\ Stream!SeqNumber(1) = 0
    /\ \A n \in Nat \ {0} : /\ Stream!SeqNumber(n) \in 0 .. MaxKey
                            /\ NextKey(Stream!SeqNumber(n)) = Stream!SeqNumber(n + 1)
<1>0. MaxKey \in Nat \ {0}
  BY GenaAssumption
<1>1. Stream!SeqNumber(1) = 0
  BY <1>0 DEF Stream!SeqNumber
<1>2. ASSUME NEW n \in Nat \ {0} PROVE Stream!SeqNumber(n) \in 0 .. MaxKey
  <2>1. CASE n <= MaxKey + 1
    BY <1>0, <2>1 DEF Stream!SeqNumber
  <2>2. CASE n > MaxKey + 1
    <3>1. n - 2 \in Nat /\ Stream!SeqNumber(n) = ((n - 2) % MaxKey) + 1
      BY <1>0, <2>2 DEF Stream!SeqNumber
    <3>2. (n - 2) % MaxKey \in 0 .. MaxKey - 1
      BY <1>0, <3>1, Division
    <3> QED
      BY <1>0, <3>1, <3>2
  <2> QED
    BY <1>0, <2>1, <2>2
<1>3. ASSUME NEW n \in Nat \ {0}
      PROVE  NextKey(Stream!SeqNumber(n)) = Stream!SeqNumber(n + 1)
  <2>1. CASE n <= MaxKey
    BY <1>0, <2>1 DEF Stream!SeqNumber, NextKey
  <2>2. CASE n = MaxKey + 1
    <3>1. ((MaxKey * 1) + 0) % MaxKey = 0
      BY <1>0, Remainder
    <3>2. (n + 1) - 2 = (MaxKey * 1) + 0
      BY <1>0, <2>2
    <3>3. Stream!SeqNumber(n + 1) = (((n + 1) - 2) % MaxKey) + 1
      BY <1>0, <2>2 DEF Stream!SeqNumber
    <3> QED
      BY <1>0, <2>2, <3>1, <3>2, <3>3 DEF Stream!SeqNumber, NextKey
  <2>3. CASE n > MaxKey + 1
    <3>1. /\ n - 2 \in Nat /\ (n + 1) - 2 = (n - 2) + 1
          /\ Stream!SeqNumber(n) = ((n - 2) % MaxKey) + 1
          /\ Stream!SeqNumber(n + 1) = (((n + 1) - 2) % MaxKey) + 1
      BY <1>0, <2>3 DEF Stream!SeqNumber
    <3>2. /\ (n - 2) % MaxKey \in 0 .. MaxKey - 1
          /\ ((n - 2) + 1) % MaxKey = IF (n - 2) % MaxKey = MaxKey - 1 THEN 0
                                      ELSE ((n - 2) % MaxKey) + 1
      BY <1>0, <3>1, Division, NextRemainder
    <3> QED
      BY <1>0, <3>1, <3>2 DEF NextKey
  <2> QED
    BY <1>0, <2>1, <2>2, <2>3
<1> QED
  BY <1>1, <1>2, <1>3

(* Two events fewer than MaxKey apart have different keys. *)
LEMMA KeysDiffer ==
    ASSUME NEW m \in Nat \ {0}, NEW n \in Nat, m < n, n - m < MaxKey
    PROVE  Stream!SeqNumber(m) # Stream!SeqNumber(n)
<1>0. MaxKey \in Nat \ {0}
  BY GenaAssumption
<1> DEFINE Key(k) == ((k - 2) % MaxKey) + 1
<1>1. ASSUME NEW k \in Nat, k >= 2
      PROVE  k - 2 \in Nat /\ Stream!SeqNumber(k) = Key(k) /\ Key(k) \in 1 .. MaxKey
  <2>1. k - 2 \in Nat
    BY <1>1
  <2>2. (k - 2) % MaxKey \in 0 .. MaxKey - 1
    BY <1>0, <2>1, Division
  <2>3. CASE k <= MaxKey + 1
    <3>1. ((MaxKey * 0) + (k - 2)) % MaxKey = k - 2
      BY <1>0, <1>1, <2>3, Remainder
    <3>2. (MaxKey * 0) + (k - 2) = k - 2
      BY <1>0, <1>1
    <3> QED
      BY <1>0, <1>1, <2>1, <2>2, <2>3, <3>1, <3>2 DEF Stream!SeqNumber
  <2>4. CASE k > MaxKey + 1
    BY <1>0, <1>1, <2>1, <2>2, <2>4 DEF Stream!SeqNumber
  <2> QED
    BY <1>0, <1>1, <2>3, <2>4
<1>2. CASE m = 1
  <2>1. Stream!SeqNumber(m) = 0
    BY <1>2, SeqNumbers
  <2>2. Stream!SeqNumber(n) >= 1
    BY <1>0, <1>1, <1>2
  <2> QED
    BY <2>1, <2>2
<1>3. CASE m >= 2
  <2>1. SUFFICES ASSUME Key(m) = Key(n) PROVE FALSE
    BY <1>1, <1>3
  <2>2. m - 2 \in Nat /\ n - 2 \in Nat /\ m - 2 < n - 2
    BY <1>3
  <2>3. (m - 2) % MaxKey = (n - 2) % MaxKey
    <3>1. (m - 2) % MaxKey \in 0 .. MaxKey - 1 /\ (n - 2) % MaxKey \in 0 .. MaxKey - 1
      BY <1>0, <2>2, Division
    <3> QED
      BY <1>0, <2>1, <3>1
  <2>4. (n - 2) - (m - 2) >= MaxKey
    BY <1>0, <2>2, <2>3, SameRemainder
  <2> QED
    BY <1>0, <2>4
<1> QED
  BY <1>2, <1>3
-----------------------------------------------------------------------------
(* What the actions do, in the terms of the invariant. *)

Subscription == [eventKey : 0 .. MaxKey, ToSendEventKey : 0 .. MaxKey,
                 active : BOOLEAN, expireTime : Nat]

(* No job, event or message is touched. *)
Quiet == UNCHANGED <<pool, pc, in, result, bufVars, histVars>>

(* An event is given to the subscriptions K, and the jobs q for those of J are
   queued. *)
Published(K, J, q) ==
    /\ nev' = nev + 1 /\ nev' \in Events
    /\ K \subseteq subs /\ J \subseteq K
    /\ \A s \in K : issued[s] = << >> \/ Len(issued[s]) - Len(sent[s]) + 1 < MaxKey
    /\ sub' \in [Sids -> Subscription]
    /\ \A s \in Sids \ K : sub'[s] = sub[s]
    /\ \A s \in K : /\ sub'[s].eventKey = NextKey(sub[s].eventKey)
                    /\ sub'[s].ToSendEventKey = sub[s].ToSendEventKey
                    /\ sub'[s].active
    /\ issued' \in [Sids -> Seq(Events)]
    /\ \A s \in Sids : issued'[s] = IF s \in K THEN Append(issued[s], nev') ELSE issued[s]
    /\ q \in Seq(Job) /\ pool' = pool \o q
    /\ \A i \in DOMAIN q : /\ q[i].sid \in J /\ q[i].ev = nev'
                           /\ q[i].eventKey = sub[q[i].sid].eventKey
    /\ \A i, k \in DOMAIN q : q[i].sid = q[k].sid => i = k
    /\ refs' \in [Events -> Int]
    /\ \A e \in Events : e # nev' => refs'[e] = refs[e]
    /\ Cardinality(J) <= refs'[nev']
    /\ freed' \in {freed, freed \cup {nev'}}
    /\ nev' \in freed' => J = {}
    /\ UNCHANGED <<pc, in, result, sent>>

(* The subscriptions that are unlinked are counted out. *)
LEMMA Unlinking ==
    ASSUME TypeOK, ListInv, NEW E \in SUBSET subs, subs' = subs \ E,
           total' = total - Cardinality(E)
    PROVE  subs' \in SUBSET Sids /\ total' \in Nat /\ total' = Cardinality(subs')
<1>1. IsFiniteSet(Sids) /\ subs \in SUBSET Sids /\ total = Cardinality(subs)
  BY GenaAssumption DEF TypeOK, ListInv, TotalExact
<1>2. IsFiniteSet(subs)
  BY <1>1, FS_Subset
<1>3. Cardinality(subs \ E) = Cardinality(subs) - Cardinality(subs \cap E) /\ IsFiniteSet(subs \ E)
  BY <1>2, FS_Difference
<1>4. subs \cap E = E
  OBVIOUS
<1>5. Cardinality(subs \ E) \in Nat
  BY <1>3, FS_CardinalityType
<1> QED
  BY <1>1, <1>3, <1>4, <1>5

(* RemoveSubscriptionSID counts out the one subscription it unlinks. *)
LEMMA Removing ==
    ASSUME TypeOK, ListInv, NEW s \in subs, RemoveSubscriptionSID(s)
    PROVE  /\ subs' = subs \ {s}
           /\ subs' \in SUBSET Sids /\ total' \in Nat /\ total' = Cardinality(subs')
<1>1. Cardinality({s}) = 1
  BY FS_Singleton
<1>2. subs' = subs \ {s} /\ total' = total - Cardinality({s})
  BY <1>1 DEF RemoveSubscriptionSID
<1> QED
  BY <1>2, Unlinking

(* An ordering of a set lists each of its members once. *)
LEMMA OrderOnce ==
    ASSUME NEW J, IsFiniteSet(J), NEW o \in Orders(J)
    PROVE  /\ DOMAIN o = 1 .. Cardinality(J) /\ Cardinality(J) \in Nat
           /\ \A i \in DOMAIN o : o[i] \in J
           /\ \A i, k \in DOMAIN o : o[i] = o[k] => i = k
<1> DEFINE D == 1 .. Cardinality(J)
<1>1. Cardinality(J) \in Nat
  BY FS_CardinalityType
<1>2. /\ o \in [D -> J] /\ \A s \in J : \E i \in D : o[i] = s
  BY DEF Orders
<1>3. IsFiniteSet(D) /\ Cardinality(D) = Cardinality(J)
  BY <1>1, FS_Interval
<1>4. o \in Surjection(D, J)
  BY <1>2 DEF Surjection
<1>5. o \in Injection(D, J)
  <2> HIDE DEF D
  <2> QED
    BY <1>3, <1>4, FS_SurjSameCardinalityImpliesInj
<1>6. \A i, k \in D : o[i] = o[k] => i = k
  BY <1>5 DEF Injection, IsInjective
<1> QED
  BY <1>1, <1>2, <1>6

(* Every way through genaNotifyAll. *)
LEMMA Distributing ==
    ASSUME GenaInv, NEW K \in SUBSET Targets, NEW J \in SUBSET K, NEW E \in SUBSET Stale,
           Distribute(K, J, E), UNCHANGED <<pc, in, result, sent>>
    PROVE  /\ \E q : Published(K, J, q)
           /\ subs' = subs \ E
           /\ subs' \in SUBSET Sids /\ total' \in Nat /\ total' = Cardinality(subs')
<1>0. TypeOK /\ ListInv /\ BuffersInv
  BY DEF GenaInv
<1>1. /\ K \subseteq subs /\ \A s \in K : s \in Sids /\ sub[s].active
      /\ E \in SUBSET subs
  BY <1>0 DEF Targets, Stale, TypeOK
<1>2. IsFiniteSet(K) /\ IsFiniteSet(J) /\ Cardinality(J) <= Cardinality(K)
      /\ Cardinality(K) \in Nat
  <2>1. IsFiniteSet(Sids) /\ K \in SUBSET Sids
    BY <1>1, GenaAssumption
  <2>2. IsFiniteSet(K)
    BY <2>1, FS_Subset
  <2> QED
    BY <2>2, FS_Subset, FS_CardinalityType
<1>3. nev' = nev + 1 /\ nev' \in Events
  BY <1>0, GenaAssumption DEF Distribute, TypeOK, Events
<1>4. sub' \in [Sids -> Subscription]
  <2>1. \A k \in 0 .. MaxKey : NextKey(k) \in 0 .. MaxKey
    BY GenaAssumption DEF NextKey
  <2>2. \A s \in Sids : sub[s] \in Subscription
    BY <1>0 DEF TypeOK, Subscription
  <2>3. \A s \in Sids : [sub[s] EXCEPT !.eventKey = NextKey(@)] \in Subscription
    BY <2>1, <2>2 DEF Subscription
  <2>4. sub' = [s \in Sids |-> IF s \in K THEN [sub[s] EXCEPT !.eventKey = NextKey(@)]
                               ELSE sub[s]]
    BY DEF Distribute
  <2> QED
    BY <2>2, <2>3, <2>4
<1>5. /\ \A s \in Sids \ K : sub'[s] = sub[s]
      /\ \A s \in K : /\ sub'[s].eventKey = NextKey(sub[s].eventKey)
                      /\ sub'[s].ToSendEventKey = sub[s].ToSendEventKey
                      /\ sub'[s].active
  <2>1. \A s \in Sids : sub[s] \in Subscription
    BY <1>0 DEF TypeOK, Subscription
  <2> QED
    BY <1>1, <2>1 DEF Distribute, Subscription
<1>6. /\ issued' \in [Sids -> Seq(Events)]
      /\ \A s \in Sids : issued'[s] = IF s \in K THEN Append(issued[s], nev') ELSE issued[s]
  <2>1. \A s \in Sids : issued[s] \in Seq(Events)
    BY <1>0 DEF TypeOK
  <2>2. \A s \in Sids : Append(issued[s], nev') \in Seq(Events)
    BY <1>3, <2>1, JobAdded
  <2>3. issued' = [s \in Sids |-> IF s \in K THEN Append(issued[s], nev') ELSE issued[s]]
    BY DEF Distribute
  <2> QED
    BY <2>1, <2>2, <2>3
<1>7. PICK o \in Orders(J) : pool' = pool \o [i \in DOMAIN o |->
                                [sid |-> o[i], ev |-> nev', eventKey |-> sub[o[i]].eventKey]]
  BY DEF Distribute
<1> DEFINE q == [i \in DOMAIN o |-> [sid |-> o[i], ev |-> nev', eventKey |-> sub[o[i]].eventKey]]
<1>8. /\ DOMAIN o = 1 .. Cardinality(J) /\ Cardinality(J) \in Nat
      /\ \A i \in DOMAIN o : o[i] \in J
      /\ \A i, k \in DOMAIN o : o[i] = o[k] => i = k
  BY <1>2, OrderOnce
<1>9. /\ q \in Seq(Job) /\ pool' = pool \o q /\ DOMAIN q = DOMAIN o
      /\ \A i \in DOMAIN q : q[i].sid = o[i] /\ q[i].ev = nev' /\ q[i].eventKey = sub[o[i]].eventKey
  <2>1. \A i \in DOMAIN o :
           [sid |-> o[i], ev |-> nev', eventKey |-> sub[o[i]].eventKey] \in Job
    BY <1>0, <1>1, <1>3, <1>8 DEF Job, TypeOK
  <2>2. q \in [1 .. Cardinality(J) -> Job]
    BY <1>8, <2>1
  <2>3. q \in Seq(Job)
    BY <1>8, <2>2, SeqDef
  <2> QED
    BY <1>7, <2>3
<1>10. /\ refs' \in [Events -> Int]
       /\ \A e \in Events : e # nev' => refs'[e] = refs[e]
       /\ Cardinality(J) <= refs'[nev']
  <2>1. refs \in [Events -> Int] /\ refs' = [refs EXCEPT ![nev'] = Cardinality(K)]
    BY <1>0 DEF TypeOK, Distribute
  <2> QED
    BY <1>2, <1>3, <2>1
<1>11. freed' \in {freed, freed \cup {nev'}} /\ (nev' \in freed' => J = {})
  <2>1. nev' > nev /\ nev' \notin freed
    BY <1>0, <1>3 DEF BuffersInv, TypeOK
  <2> QED
    BY <2>1 DEF Distribute
<1> HIDE DEF q
<1>12. /\ \A i \in DOMAIN q : /\ q[i].sid \in J /\ q[i].ev = nev'
                              /\ q[i].eventKey = sub[q[i].sid].eventKey
       /\ \A i, k \in DOMAIN q : q[i].sid = q[k].sid => i = k
  BY <1>8, <1>9
<1>13. \A s \in K : issued[s] = << >> \/ Len(issued[s]) - Len(sent[s]) + 1 < MaxKey
  BY DEF Distribute
<1>14. Published(K, J, q)
  BY <1>1, <1>3, <1>4, <1>5, <1>6, <1>9, <1>10, <1>11, <1>12, <1>13 DEF Published
<1>15. subs' = subs \ E /\ total' = total - Cardinality(E)
  BY DEF Distribute
<1> QED
  BY <1>0, <1>1, <1>14, <1>15, Unlinking

(* Every way through genaInitNotify. *)
LEMMA Initiating ==
    ASSUME GenaInv, NEW s \in Sids, genaInitNotify(s)
    PROVE  /\ UNCHANGED <<used, devVars, now>>
           /\ \/ Quiet /\ sub' = sub /\ s \in subs /\ RemoveSubscriptionSID(s)
              \/ Quiet /\ s \in subs /\ sub' = [sub EXCEPT ![s].active = TRUE]
                 /\ UNCHANGED <<subs, total>>
              \/ /\ \E J, q : Published({s}, J, q)
                 /\ ~sub[s].active
                 /\ UNCHANGED <<subs, total>>
<1>0. TypeOK /\ ListInv /\ StreamsInv /\ BuffersInv
  BY DEF GenaInv
<1>u. UNCHANGED <<used, devVars, now>>
  BY DEF genaInitNotify
<1>1. CASE FoundExpired(s) /\ RemoveSubscriptionSID(s) /\ UNCHANGED <<sub, jobVars, bufVars, histVars>>
  BY <1>u, <1>1 DEF FoundExpired, Quiet, jobVars
<1>2. CASE /\ Found(s) /\ ~sub[s].active
           /\ sub' = [sub EXCEPT ![s].active = TRUE]
           /\ UNCHANGED <<subs, total, jobVars, bufVars, histVars>>
  BY <1>u, <1>2 DEF Found, Quiet, jobVars
<1>3. CASE /\ Found(s) /\ ~sub[s].active
           /\ nev < MaxEvents
           /\ nev' = nev + 1
           /\ sub' = [sub EXCEPT ![s].active = TRUE, ![s].eventKey = @ + 1]
           /\ issued' = [issued EXCEPT ![s] = Append(@, nev')]
           /\ \/ /\ pool' = Append(pool, [sid |-> s, ev |-> nev', eventKey |-> sub[s].eventKey])
                 /\ refs' = [refs EXCEPT ![nev'] = 1]
                 /\ UNCHANGED freed
              \/ /\ freed' = freed \cup {nev'}
                 /\ UNCHANGED <<pool, refs>>
           /\ UNCHANGED <<subs, total, pc, in, result, sent>>
  <2>1. s \in subs /\ nev' \in Events /\ issued[s] = << >>
    <3>1. s \in subs /\ ~sub[s].active /\ nev < MaxEvents /\ nev' = nev + 1
      BY <1>3 DEF Found
    <3>2. nev \in Nat /\ MaxEvents \in Nat
      BY <1>0, GenaAssumption DEF TypeOK
    <3> QED
      BY <1>0, <3>1, <3>2 DEF Events, ListInv
  <2>2. sub[s].eventKey = 0 /\ NextKey(0) = 1
    <3>1. Len(issued[s]) + 1 = 1
      BY <2>1
    <3>2. sub[s].eventKey = Stream!SeqNumber(Len(issued[s]) + 1)
      BY <1>0 DEF StreamsInv
    <3>3. sub[s].eventKey = Stream!SeqNumber(1)
      BY <3>1, <3>2
    <3> QED
      BY <3>3, SeqNumbers, GenaAssumption DEF NextKey
  <2>3. /\ sub' \in [Sids -> Subscription]
        /\ \A t \in Sids \ {s} : sub'[t] = sub[t]
        /\ sub'[s].eventKey = 1 /\ sub'[s].active
        /\ sub'[s].ToSendEventKey = sub[s].ToSendEventKey
    <3>1. sub' = [sub EXCEPT ![s].active = TRUE, ![s].eventKey = @ + 1]
      BY <1>3
    <3>2. sub \in [Sids -> Subscription] /\ 1 \in 0 .. MaxKey
      BY <1>0, GenaAssumption DEF TypeOK, Subscription
    <3> QED
      BY <2>2, <3>1, <3>2 DEF Subscription
  <2>4. /\ issued' \in [Sids -> Seq(Events)]
        /\ \A t \in Sids : issued'[t] = IF t \in {s} THEN Append(issued[t], nev') ELSE issued[t]
    <3>1. Append(issued[s], nev') \in Seq(Events)
      BY <1>0, <2>1, JobAdded DEF TypeOK
    <3> QED
      BY <1>0, <1>3, <3>1 DEF TypeOK
  <2> DEFINE j == [sid |-> s, ev |-> nev', eventKey |-> sub[s].eventKey]
  <2>5. j \in Job /\ j.sid = s /\ j.ev = nev' /\ j.eventKey = sub[s].eventKey
    BY <1>0, <2>1, <2>2, GenaAssumption DEF Job
  <2>6. CASE pool' = Append(pool, j) /\ refs' = [refs EXCEPT ![nev'] = 1] /\ UNCHANGED freed
    <3> HIDE DEF j
    <3>1. /\ <<j>> \in Seq(Job) /\ DOMAIN <<j>> = {1} /\ <<j>>[1] = j
      BY <2>5
    <3>2. pool' = pool \o <<j>>
      BY <1>0, <2>5, <2>6, AppendIsConcat DEF TypeOK
    <3>3. Cardinality({s}) = 1
      BY FS_Singleton
    <3>4. /\ refs' \in [Events -> Int] /\ refs'[nev'] = 1
          /\ \A e \in Events : e # nev' => refs'[e] = refs[e]
      BY <1>0, <2>1, <2>6 DEF TypeOK
    <3>5. nev' \notin freed'
      BY <1>0, <1>3, <2>1, <2>6 DEF BuffersInv, TypeOK
    <3>6. Published({s}, {s}, <<j>>)
      BY <1>3, <2>1, <2>2, <2>3, <2>4, <2>5, <2>6, <3>1, <3>2, <3>3, <3>4, <3>5 DEF Published
    <3> QED
      BY <1>u, <1>3, <3>6
  <2>7. CASE freed' = freed \cup {nev'} /\ UNCHANGED <<pool, refs>>
    <3>1. << >> \in Seq(Job) /\ DOMAIN << >> = {}
      OBVIOUS
    <3>2. pool' = pool \o << >>
      BY <1>0, <2>7, ConcatEmptySeq DEF TypeOK
    <3>3. Cardinality({}) <= refs[nev']
      <4>1. Cardinality(Pending(nev')) <= refs[nev']
        BY <1>0, <2>1 DEF BuffersInv
      <4>2. IsFiniteSet(Sids) /\ Pending(nev') \in SUBSET Sids
        BY GenaAssumption DEF Pending
      <4>3. Cardinality(Pending(nev')) \in Nat
        BY <4>2, FS_Subset, FS_CardinalityType
      <4>4. Cardinality({}) = 0 /\ refs[nev'] \in Int
        BY <1>0, <2>1, FS_EmptySet DEF TypeOK
      <4> QED
        BY <4>1, <4>3, <4>4
    <3>4. Published({s}, {}, << >>)
      BY <1>0, <1>3, <2>1, <2>2, <2>3, <2>4, <2>7, <3>1, <3>2, <3>3 DEF Published, TypeOK
    <3> QED
      BY <1>u, <1>3, <3>4
  <2> QED
    BY <1>3, <2>6, <2>7
<1> QED
  BY <1>1, <1>2, <1>3 DEF genaInitNotify

(* genaNotifyAll, as a whole. *)
LEMMA Notifying ==
    ASSUME GenaInv, genaNotifyAll
    PROVE  \E K \in SUBSET Targets, E \in SUBSET Stale :
              /\ \E J, q : Published(K, J, q)
              /\ subs' = subs \ E
              /\ subs' \in SUBSET Sids /\ total' \in Nat /\ total' = Cardinality(subs')
              /\ UNCHANGED <<used, devVars, now>>
<1>0. UNCHANGED <<used, devVars, now, pc, in, result, sent>>
  BY DEF genaNotifyAll
<1>1. PICK K \in SUBSET Targets, E \in SUBSET Stale : \E J \in SUBSET K : Distribute(K, J, E)
  BY DEF genaNotifyAll
<1>2. PICK J \in SUBSET K : Distribute(K, J, E)
  BY <1>1
<1> QED
  BY <1>0, <1>2, Distributing

(* A thread takes the first job of the pool. *)
LEMMA Dequeuing ==
    ASSUME TypeOK, NEW w \in Workers, Dequeue(w)
    PROVE  /\ pool' \in Seq(Job) /\ 1 \in DOMAIN pool /\ pool[1] \in Job
           /\ \A i \in DOMAIN pool' :
                 i + 1 \in DOMAIN pool /\ i + 1 # 1 /\ pool'[i] = pool[i + 1]
           /\ \A i \in DOMAIN pool : i # 1 => i - 1 \in DOMAIN pool' /\ pool'[i - 1] = pool[i]
           /\ pc[w] = "idle" /\ pc'[w] = "start" /\ in'[w] = pool[1]
           /\ \A v \in Workers : v # w => pc'[v] = pc[v] /\ in'[v] = in[v]
           /\ pc' \in [Workers -> {"idle", "start", "transmit", "finish"}]
           /\ in' \in [Workers -> Job \cup {NoJob}]
           /\ UNCHANGED <<result, devVars, subVars, now, bufVars, histVars>>
<1>1. pool \in Seq(Job) /\ pool # << >>
  BY DEF TypeOK, Dequeue
<1>2. /\ Head(pool) \in Job /\ Head(pool) = pool[1] /\ 1 \in DOMAIN pool
      /\ Tail(pool) \in Seq(Job)
      /\ \A i \in DOMAIN Tail(pool) :
            i + 1 \in DOMAIN pool /\ i + 1 # 1 /\ Tail(pool)[i] = pool[i + 1]
      /\ \A i \in DOMAIN pool : i # 1 => i - 1 \in DOMAIN Tail(pool) /\ Tail(pool)[i - 1] = pool[i]
  BY <1>1, JobTaken
<1> QED
  BY <1>2 DEF Dequeue, TypeOK

(* A job ends: its thread is free and its reference is given back. *)
LEMMA Ending ==
    ASSUME TypeOK, JobsInv, NEW w \in Workers, NotifyDrop(w) \/ NotifyFinish(w)
    PROVE  /\ pc[w] # "idle" /\ in[w] \in Job
           /\ pc'[w] = "idle" /\ in'[w] = NoJob
           /\ \A v \in Workers : v # w => pc'[v] = pc[v] /\ in'[v] = in[v]
           /\ pc' \in [Workers -> {"idle", "start", "transmit", "finish"}]
           /\ in' \in [Workers -> Job \cup {NoJob}]
           /\ result' \in [Workers -> {"none", "done", "412"}]
           /\ refs' \in [Events -> Int]
           /\ refs'[in[w].ev] = refs[in[w].ev] - 1
           /\ \A e \in Events : e # in[w].ev => refs'[e] = refs[e]
           /\ freed' = IF refs'[in[w].ev] = 0 THEN freed \cup {in[w].ev} ELSE freed
           /\ UNCHANGED <<pool, nev, used, devVars, now, histVars>>
           /\ \/ UNCHANGED <<subs, total>>
              \/ in[w].sid \in subs /\ RemoveSubscriptionSID(in[w].sid)
<1>1. pc[w] # "idle" /\ in[w] \in Job
  BY DEF NotifyDrop, NotifyFinish, JobsInv, Waits, JobOf, Transmitting
<1>2. Idle(w) /\ free_notify_struct(in[w]) /\ UNCHANGED <<pool, used, devVars, now, histVars>>
  BY DEF NotifyDrop, NotifyFinish
<1>3. \/ UNCHANGED <<subs, total>>
      \/ in[w].sid \in subs /\ RemoveSubscriptionSID(in[w].sid)
  BY DEF NotifyDrop, NotifyFinish, FoundExpired, Found
<1>4. in[w].ev \in Events
  BY <1>1 DEF Job
<1>5. /\ refs' \in [Events -> Int]
      /\ refs'[in[w].ev] = refs[in[w].ev] - 1
      /\ \A e \in Events : e # in[w].ev => refs'[e] = refs[e]
      /\ freed' = IF refs'[in[w].ev] = 0 THEN freed \cup {in[w].ev} ELSE freed
      /\ nev' = nev
  BY <1>2, <1>4 DEF free_notify_struct, TypeOK
<1>6. /\ pc'[w] = "idle" /\ in'[w] = NoJob
      /\ \A v \in Workers : v # w => pc'[v] = pc[v] /\ in'[v] = in[v]
      /\ pc' \in [Workers -> {"idle", "start", "transmit", "finish"}]
      /\ in' \in [Workers -> Job \cup {NoJob}]
      /\ result' \in [Workers -> {"none", "done", "412"}]
  BY <1>2 DEF Idle, TypeOK
<1> QED
  BY <1>1, <1>2, <1>3, <1>5, <1>6

(* A job that has to wait goes back to the end of the queue, or is lost when
   the pool refuses it. *)
LEMMA Requeuing ==
    ASSUME TypeOK, JobsInv, NEW w \in Workers, NotifyRequeue(w)
    PROVE  /\ pc[w] = "start" /\ in[w] \in Job
           /\ pc'[w] = "idle" /\ in'[w] = NoJob
           /\ \A v \in Workers : v # w => pc'[v] = pc[v] /\ in'[v] = in[v]
           /\ pc' \in [Workers -> {"idle", "start", "transmit", "finish"}]
           /\ in' \in [Workers -> Job \cup {NoJob}]
           /\ result' \in [Workers -> {"none", "done", "412"}]
           /\ pool' \in Seq(Job)
           /\ \/ pool' = pool
              \/ /\ Len(pool) \in Nat /\ DOMAIN pool = 1 .. Len(pool)
                 /\ DOMAIN pool' = 1 .. Len(pool) + 1
                 /\ \A i \in DOMAIN pool : pool'[i] = pool[i]
                 /\ pool'[Len(pool) + 1] = in[w]
           /\ UNCHANGED <<devVars, subVars, now, bufVars, histVars>>
<1>1. pc[w] = "start" /\ in[w] \in Job /\ pool \in Seq(Job)
  BY DEF NotifyRequeue, JobsInv, Waits, JobOf, TypeOK
<1>2. /\ Append(pool, in[w]) \in Seq(Job)
      /\ Len(pool) \in Nat /\ DOMAIN pool = 1 .. Len(pool)
      /\ DOMAIN Append(pool, in[w]) = 1 .. Len(pool) + 1
      /\ \A i \in DOMAIN pool : Append(pool, in[w])[i] = pool[i]
      /\ Append(pool, in[w])[Len(pool) + 1] = in[w]
  BY <1>1, JobAdded
<1>3. pool' = pool \/ pool' = Append(pool, in[w])
  BY DEF NotifyRequeue
<1>4. /\ pc'[w] = "idle" /\ in'[w] = NoJob
      /\ \A v \in Workers : v # w => pc'[v] = pc[v] /\ in'[v] = in[v]
      /\ pc' \in [Workers -> {"idle", "start", "transmit", "finish"}]
      /\ in' \in [Workers -> Job \cup {NoJob}]
      /\ result' \in [Workers -> {"none", "done", "412"}]
  BY DEF NotifyRequeue, Idle, TypeOK
<1> QED
  BY <1>1, <1>2, <1>3, <1>4 DEF NotifyRequeue

(* The job whose key is ToSendEventKey is that of the event after the last
   one sent, and no other thread transmits to the subscription. *)
LEMMA Turn ==
    ASSUME TypeOK, StreamsInv, JobsInv, TurnInv, NEW j, Waits(j), j.sid \in subs,
           j.eventKey = sub[j.sid].ToSendEventKey
    PROVE  ~Busy(j.sid) /\ JobOf(j, Len(sent[j.sid]) + 1)
<1> DEFINE s == j.sid
           t == Len(sent[s])
           i == Len(issued[s])
<1>1. PICK n \in Nat : n > t /\ JobOf(j, n)
  BY DEF Waits
<1>2. /\ s \in Sids /\ t \in Nat /\ i \in Nat /\ t <= i /\ n <= i
      /\ j.eventKey = Stream!SeqNumber(n)
  <2>1. s \in Sids /\ n \in DOMAIN issued[s] /\ j.eventKey = Stream!SeqNumber(n)
    BY <1>1 DEF JobOf, Job
  <2>2. issued[s] \in Seq(Events) /\ sent[s] \in Seq([seq : 0 .. MaxKey, ev : Events])
    BY <2>1 DEF TypeOK
  <2>3. t \in Nat /\ i \in Nat /\ DOMAIN issued[s] = 1 .. i
    BY <2>2, LenProperties
  <2> QED
    <3>1. t <= i
      BY <2>1 DEF StreamsInv
    <3> HIDE DEF t, i
    <3> QED
      BY <2>1, <2>3, <3>1
<1>3. i > 1 => i - t < MaxKey
  BY <1>2 DEF StreamsInv
<1>4. j.eventKey = Stream!SeqNumber(IF Busy(s) THEN t ELSE t + 1)
  BY DEF TurnInv
<1> HIDE DEF s, t, i
<1>5. ASSUME NEW m \in Nat \ {0}, t <= m, m < n PROVE j.eventKey # Stream!SeqNumber(m)
  BY <1>1, <1>2, <1>3, <1>5, KeysDiffer, GenaAssumption
<1>6. ~Busy(s)
  <2>1. SUFFICES ASSUME Busy(s) PROVE FALSE
    OBVIOUS
  <2>2. PICK v \in Workers : JobOf(in[v], Len(sent[s]))
    BY <2>1 DEF Busy, JobsInv
  <2>3. t # 0
    <3>1. in[v].sid \in Sids /\ t \in DOMAIN issued[in[v].sid]
      BY <2>2 DEF JobOf, Job, t
    <3>2. issued[in[v].sid] \in Seq(Events)
      BY <3>1 DEF TypeOK
    <3> QED
      BY <3>1, <3>2, LenProperties
  <2> QED
    BY <1>1, <1>2, <1>4, <1>5, <2>1, <2>3
<1>7. n = t + 1
  BY <1>1, <1>2, <1>4, <1>5, <1>6
<1> QED
  BY <1>1, <1>6, <1>7 DEF s, t

(* A NOTIFY is started. *)
LEMMA Starting ==
    ASSUME GenaInv, NEW w \in Workers, NotifyStart(w)
    PROVE  /\ pc[w] = "start" /\ pc'[w] = "transmit" /\ in' = in
           /\ \A v \in Workers : v # w => pc'[v] = pc[v]
           /\ pc' \in [Workers -> {"idle", "start", "transmit", "finish"}]
           /\ in[w].sid \in subs /\ ~Busy(in[w].sid)
           /\ JobOf(in[w], Len(sent[in[w].sid]) + 1)
           /\ in[w].eventKey = sub[in[w].sid].ToSendEventKey
           /\ sent' \in [Sids -> Seq([seq : 0 .. MaxKey, ev : Events])]
           /\ sent'[in[w].sid] = Append(sent[in[w].sid],
                                        [seq |-> in[w].eventKey, ev |-> in[w].ev])
           /\ sent[in[w].sid] \in Seq([seq : 0 .. MaxKey, ev : Events])
           /\ Len(sent[in[w].sid]) \in Nat
           /\ Len(sent'[in[w].sid]) = Len(sent[in[w].sid]) + 1
           /\ \A s \in Sids : s # in[w].sid => sent'[s] = sent[s]
           /\ UNCHANGED <<pool, result, devVars, subVars, now, bufVars, issued>>
<1>0. TypeOK /\ StreamsInv /\ JobsInv /\ TurnInv
  BY DEF GenaInv
<1> DEFINE s == in[w].sid
           m == [seq |-> in[w].eventKey, ev |-> in[w].ev]
<1>1. /\ pc[w] = "start" /\ s \in subs /\ in[w].eventKey = sub[s].ToSendEventKey
      /\ sent' = [sent EXCEPT ![s] = Append(@, m)]
      /\ pc' = [pc EXCEPT ![w] = "transmit"]
      /\ UNCHANGED <<pool, in, result, devVars, subVars, now, bufVars, issued>>
  BY DEF NotifyStart, Found
<1>2. Waits(in[w])
  BY <1>0, <1>1 DEF JobsInv
<1>3. ~Busy(s) /\ JobOf(in[w], Len(sent[s]) + 1)
  BY <1>0, <1>1, <1>2, Turn
<1>4. s \in Sids /\ m \in [seq : 0 .. MaxKey, ev : Events]
  BY <1>3 DEF JobOf, Job
<1>5. sent[s] \in Seq([seq : 0 .. MaxKey, ev : Events])
  BY <1>0, <1>4 DEF TypeOK
<1>6. pc' \in [Workers -> {"idle", "start", "transmit", "finish"}] /\ pc'[w] = "transmit"
      /\ \A v \in Workers : v # w => pc'[v] = pc[v]
  BY <1>0, <1>1 DEF TypeOK
<1> HIDE DEF m
<1>7. Append(sent[s], m) \in Seq([seq : 0 .. MaxKey, ev : Events])
      /\ Len(Append(sent[s], m)) = Len(sent[s]) + 1 /\ Len(sent[s]) \in Nat
  BY <1>4, <1>5, AppendProperties, LenProperties
<1>8. /\ sent' \in [Sids -> Seq([seq : 0 .. MaxKey, ev : Events])]
      /\ sent'[s] = Append(sent[s], m)
      /\ \A u \in Sids : u # s => sent'[u] = sent[u]
  <2>1. sent \in [Sids -> Seq([seq : 0 .. MaxKey, ev : Events])]
    BY <1>0 DEF TypeOK
  <2> QED
    BY <1>1, <1>4, <1>7, <2>1
<1> QED
  BY <1>1, <1>3, <1>5, <1>6, <1>7, <1>8 DEF m

(* An expiry time is a time, whatever TIMEOUT a request asks for. *)
LEMMA ExpireType ==
    ASSUME TypeOK, NEW t \in TimeOuts
    PROVE  ExpireTime(t) \in Nat
BY GenaAssumption DEF TypeOK, ExpireTime, Granted, Infinite

-----------------------------------------------------------------------------
(* Each part of the invariant is kept. *)

(* The initial state. *)
LEMMA GenaInit == Init => GenaInv
<1> SUFFICES ASSUME Init PROVE GenaInv
  OBVIOUS
<1>0. MaxKey \in Nat \ {0} /\ MaxEvents \in Nat
  BY GenaAssumption
<1>1. TypeOK
  <2>1. /\ sub \in [Sids -> [eventKey : 0 .. MaxKey, ToSendEventKey : 0 .. MaxKey,
                        active : BOOLEAN, expireTime : Nat]]
        /\ issued \in [Sids -> Seq(Events)]
        /\ sent \in [Sids -> Seq([seq : 0 .. MaxKey, ev : Events])]
    BY <1>0 DEF Init, NewSub
  <2>2. /\ pc \in [Workers -> {"idle", "start", "transmit", "finish"}]
        /\ in \in [Workers -> Job \cup {NoJob}]
        /\ result \in [Workers -> {"none", "done", "412"}]
        /\ refs \in [Events -> Int] /\ pool \in Seq(Job)
    BY DEF Init
  <2> QED
    BY <1>0, <2>1, <2>2 DEF Init, TypeOK
<1>2. ListInv
  BY FS_EmptySet DEF Init, ListInv, TotalExact, NewSub, Service
<1>3. /\ pool = << >> /\ DOMAIN pool = {} /\ subs = {} /\ freed = {}
      /\ \A w \in Workers : pc[w] = "idle" /\ in[w] = NoJob
      /\ \A s \in Sids : issued[s] = << >> /\ sent[s] = << >> /\ sub[s].eventKey = 0
      /\ \A e \in Events : refs[e] = 0
  BY DEF Init, NewSub
<1>4. StreamsInv
  <2>1. \A s \in Sids : /\ Len(issued[s]) = 0 /\ Len(sent[s]) = 0 /\ DOMAIN issued[s] = {}
                       /\ sub[s].eventKey = 0
    BY <1>3
  <2>2. \A s \in Sids : Stream!SeqNumber(Len(issued[s]) + 1) = 0
    <3>1. \A s \in Sids : Len(issued[s]) + 1 = 1
      BY <2>1
    <3>2. Stream!SeqNumber(1) = 0
      BY SeqNumbers
    <3> QED
      BY <3>1, <3>2, Zenon
  <2>3. ASSUME NEW s \in Sids
        PROVE  /\ Len(sent[s]) <= Len(issued[s])
               /\ Len(issued[s]) > 1 => Len(issued[s]) - Len(sent[s]) < MaxKey
               /\ \A n \in DOMAIN issued[s] : issued[s][n] <= nev
               /\ \A m, n \in DOMAIN issued[s] : m < n => issued[s][m] < issued[s][n]
    <3>1. Len(issued[s]) = 0 /\ Len(sent[s]) = 0 /\ \A n : n \notin DOMAIN issued[s]
      BY <2>1
    <3>2. Len(sent[s]) <= Len(issued[s]) /\ ~(Len(issued[s]) > 1)
      BY <3>1
    <3> QED
      BY <3>1, <3>2, Zenon
  <2> QED
    BY <2>1, <2>2, <2>3, Zenon DEF StreamsInv
<1>5. JobsInv /\ ApartInv /\ TurnInv
  BY <1>3 DEF JobsInv, ApartInv, TurnInv, Transmitting
<1>6. BuffersInv
  <2>1. \A e \in Events : Pending(e) = {}
    BY <1>3 DEF Pending
  <2>2. \A e \in Events : Cardinality(Pending(e)) = 0
    BY <2>1, FS_EmptySet, Zenon
  <2> QED
    BY <1>3, <2>1, <2>2 DEF BuffersInv
<1> QED
  BY <1>1, <1>2, <1>4, <1>5, <1>6 DEF GenaInv

(* Every action keeps the fields, the locals and the ghosts in their types. *)
LEMMA TypeStep == GenaInv /\ [Next]_vars => TypeOK'
<1> SUFFICES ASSUME GenaInv, [Next]_vars PROVE TypeOK'
  OBVIOUS
<1>0. TypeOK /\ ListInv /\ JobsInv
  BY DEF GenaInv
<1>s. sub \in [Sids -> Subscription]
  BY <1>0 DEF TypeOK, Subscription
<1>k. MaxKey \in Nat \ {0}
  BY GenaAssumption
<1>1. ASSUME NEW s \in Sids, NEW t \in TimeOuts, genaSubscriptionRequest(s, t)
      PROVE TypeOK'
  <2>1. NewSub(ExpireTime(t)) \in Subscription
    BY <1>0, <1>k, ExpireType DEF NewSub, Subscription
  <2>2. sub' \in [Sids -> Subscription]
    BY <1>s, <1>1, <2>1 DEF genaSubscriptionRequest
  <2>3. subs' \in SUBSET Sids /\ used' \in SUBSET Sids /\ total' \in Nat
    BY <1>0, <1>1 DEF genaSubscriptionRequest, TypeOK
  <2> QED
    BY <1>0, <1>1, <2>2, <2>3
       DEF genaSubscriptionRequest, TypeOK, Subscription, devVars, jobVars, bufVars, histVars
<1>2. ASSUME NEW s \in Sids, NEW t \in TimeOuts, genaRenewRequest(s, t)
      PROVE TypeOK'
  <2>1. sub' \in [Sids -> Subscription]
    <3>1. sub' = sub \/ sub' = [sub EXCEPT ![s].expireTime = ExpireTime(t)]
      BY <1>2 DEF genaRenewRequest
    <3>2. ExpireTime(t) \in Nat
      BY <1>0, ExpireType
    <3> QED
      BY <1>s, <3>1, <3>2 DEF Subscription
  <2>2. subs' \in SUBSET Sids /\ total' \in Nat
    <3>1. \/ UNCHANGED <<subs, total>>
          \/ s \in subs /\ RemoveSubscriptionSID(s)
      BY <1>2 DEF genaRenewRequest, Found, FoundExpired
    <3> QED
      BY <1>0, <3>1, Removing DEF TypeOK
  <2> QED
    BY <1>0, <1>2, <2>1, <2>2
       DEF genaRenewRequest, TypeOK, Subscription, devVars, jobVars, bufVars, histVars
<1>3. ASSUME NEW s \in Sids, genaUnsubscribeRequest(s) PROVE TypeOK'
  <2>1. subs' \in SUBSET Sids /\ total' \in Nat
    BY <1>0, <1>3, Removing DEF genaUnsubscribeRequest, Found, FoundExpired
  <2> QED
    BY <1>0, <1>3, <2>1
       DEF genaUnsubscribeRequest, TypeOK, devVars, jobVars, bufVars, histVars
<1>p. ASSUME NEW K, NEW J, NEW q, Published(K, J, q),
             subs' \in SUBSET Sids, total' \in Nat, UNCHANGED <<used, devVars, now>>
      PROVE TypeOK'
  <2>1. pool' \in Seq(Job)
    BY <1>0, <1>p, JobsAdded DEF Published, TypeOK
  <2>2. nev' \in 0 .. MaxEvents /\ freed' \in SUBSET Events
    BY <1>0, <1>p DEF Published, Events, TypeOK
  <2> QED
    BY <1>0, <1>p, <2>1, <2>2 DEF Published, TypeOK, Subscription, devVars
<1>4. ASSUME NEW s \in Sids, genaInitNotify(s) PROVE TypeOK'
  <2>1. CASE Quiet
    <3>1. sub' \in [Sids -> Subscription] \/ \E J, q : Published({s}, J, q)
      <4>1. sub' = sub \/ sub' = [sub EXCEPT ![s].active = TRUE] \/ \E J, q : Published({s}, J, q)
        BY <1>4, Initiating
      <4> QED
        BY <1>s, <4>1 DEF Subscription
    <3>2. sub' \in [Sids -> Subscription]
      BY <3>1 DEF Published
    <3>3. subs' \in SUBSET Sids /\ total' \in Nat /\ UNCHANGED <<used, devVars, now>>
      BY <1>0, <1>4, Initiating, Removing DEF TypeOK
    <3> QED
      BY <1>0, <2>1, <3>2, <3>3
         DEF Quiet, TypeOK, Subscription, devVars, bufVars, histVars
  <2>2. CASE ~Quiet
    <3>1. (\E J, q : Published({s}, J, q)) /\ UNCHANGED <<subs, total, used, devVars, now>>
      BY <1>4, <2>2, Initiating
    <3> QED
      BY <1>0, <1>p, <3>1 DEF TypeOK
  <2> QED
    BY <2>1, <2>2
<1>5. CASE genaNotifyAll
  <2>1. PICK K \in SUBSET Targets, E \in SUBSET Stale :
           /\ \E J, q : Published(K, J, q)
           /\ subs' \in SUBSET Sids /\ total' \in Nat
           /\ UNCHANGED <<used, devVars, now>>
    BY <1>5, Notifying
  <2> QED
    BY <1>p, <2>1
<1>6. ASSUME NEW w \in Workers, Dequeue(w) PROVE TypeOK'
  <2>1. /\ pool' \in Seq(Job)
        /\ pc' \in [Workers -> {"idle", "start", "transmit", "finish"}]
        /\ in' \in [Workers -> Job \cup {NoJob}]
        /\ UNCHANGED <<result, devVars, subVars, now, bufVars, histVars>>
    BY <1>0, <1>6, Dequeuing
  <2> QED
    BY <1>0, <2>1 DEF TypeOK, devVars, subVars, bufVars, histVars
<1>7. ASSUME NEW w \in Workers, NotifyDrop(w) \/ NotifyFinish(w) PROVE TypeOK'
  <2>1. subs' \in SUBSET Sids /\ total' \in Nat
    BY <1>0, <1>7, Ending, Removing DEF TypeOK
  <2>2. sub' \in [Sids -> Subscription]
    <3>1. sub' = sub \/ sub' = [sub EXCEPT ![in[w].sid].ToSendEventKey = NextKey(@)]
      BY <1>7 DEF NotifyDrop, NotifyFinish
    <3>2. in[w].sid \in Sids
      BY <1>0, <1>7, Ending DEF Job
    <3>3. \A k \in 0 .. MaxKey : NextKey(k) \in 0 .. MaxKey
      BY <1>k DEF NextKey
    <3> QED
      BY <1>s, <3>1, <3>2, <3>3 DEF Subscription
  <2>3. freed' \in SUBSET Events
    <3>1. in[w].ev \in Events /\ freed \in SUBSET Events
      BY <1>0, <1>7, Ending DEF TypeOK, Job
    <3>2. freed' = freed \/ freed' = freed \cup {in[w].ev}
      BY <1>0, <1>7, Ending
    <3> QED
      BY <3>1, <3>2
  <2> QED
    BY <1>0, <1>7, <2>1, <2>2, <2>3, Ending DEF TypeOK, Subscription, devVars, histVars
<1>8. ASSUME NEW w \in Workers, NotifyRequeue(w) PROVE TypeOK'
  BY <1>0, <1>8, Requeuing DEF TypeOK, devVars, subVars, bufVars, histVars
<1>9. ASSUME NEW w \in Workers, NotifyStart(w) PROVE TypeOK'
  BY <1>0, <1>9, Starting DEF TypeOK, devVars, subVars, bufVars
<1>10. ASSUME NEW w \in Workers, genaNotify(w) PROVE TypeOK'
  BY <1>0, <1>10 DEF genaNotify, TypeOK, devVars, subVars, bufVars, histVars
<1>11. ASSUME \/ \E n \in SubscriptionMaxima : UpnpSetMaxSubscriptions(n)
              \/ \E n \in TimeOutMaxima : UpnpSetMaxSubscriptionTimeOut(n)
              \/ genaUnregisterDevice \/ FreeHandle \/ UpnpRegisterRootDevice
              \/ Tick
       PROVE TypeOK'
  <2>1. /\ maxSubs' \in Nat \cup {Infinite} /\ maxTimeOut' \in Nat \cup {Infinite}
        /\ handle' \in BOOLEAN /\ table' \in BOOLEAN /\ now' \in Nat
    <3>1. maxSubs' \in Nat \cup {Infinite} /\ maxTimeOut' \in Nat \cup {Infinite}
      <4>1. \/ maxSubs' = maxSubs \/ maxSubs' \in SubscriptionMaxima \/ maxSubs' = Infinite
        BY <1>11
           DEF UpnpSetMaxSubscriptions, UpnpSetMaxSubscriptionTimeOut, genaUnregisterDevice,
               FreeHandle, UpnpRegisterRootDevice, Tick, devVars
      <4>2. \/ maxTimeOut' = maxTimeOut \/ maxTimeOut' \in TimeOutMaxima \/ maxTimeOut' = Infinite
        BY <1>11
           DEF UpnpSetMaxSubscriptions, UpnpSetMaxSubscriptionTimeOut, genaUnregisterDevice,
               FreeHandle, UpnpRegisterRootDevice, Tick, devVars
      <4> QED
        BY <1>0, <4>1, <4>2, GenaAssumption DEF TypeOK
    <3>2. handle' \in BOOLEAN /\ table' \in BOOLEAN
      BY <1>0, <1>11
         DEF UpnpSetMaxSubscriptions, UpnpSetMaxSubscriptionTimeOut, genaUnregisterDevice,
             FreeHandle, UpnpRegisterRootDevice, Tick, TypeOK, devVars
    <3>3. now' = now \/ now' = now + 1
      BY <1>11
         DEF UpnpSetMaxSubscriptions, UpnpSetMaxSubscriptionTimeOut, genaUnregisterDevice,
             FreeHandle, UpnpRegisterRootDevice, Tick
    <3> QED
      BY <1>0, <3>1, <3>2, <3>3 DEF TypeOK
  <2>2. /\ subs' \in SUBSET Sids /\ total' \in Nat
        /\ UNCHANGED <<sub, used, jobVars, bufVars, histVars>>
    BY <1>0, <1>11
       DEF UpnpSetMaxSubscriptions, UpnpSetMaxSubscriptionTimeOut, genaUnregisterDevice,
           FreeHandle, UpnpRegisterRootDevice, Tick, TypeOK, subVars
  <2> QED
    BY <1>0, <2>1, <2>2 DEF TypeOK, jobVars, bufVars, histVars
<1>12. CASE UNCHANGED vars
  BY <1>0, <1>12 DEF vars, TypeOK, devVars, subVars, jobVars, bufVars, histVars
<1> QED
  BY <1>1, <1>2, <1>3, <1>4, <1>5, <1>6, <1>7, <1>8, <1>9, <1>10, <1>11, <1>12 DEF Next

(* TotalSubscriptions counts the list, whichever way a subscription comes and
   goes; a list that was freed stays empty; and what was never accepted was
   given no event. *)
LEMMA ListStep == GenaInv /\ [Next]_vars => ListInv'
<1> SUFFICES ASSUME GenaInv, [Next]_vars PROVE ListInv'
  OBVIOUS
<1>0. TypeOK /\ ListInv /\ JobsInv
  BY DEF GenaInv
<1>f. IsFiniteSet(subs)
  BY <1>0, GenaAssumption, FS_Subset DEF TypeOK
<1>1. ASSUME NEW s \in Sids, NEW t \in TimeOuts, genaSubscriptionRequest(s, t)
      PROVE ListInv'
  <2>1. /\ s \notin subs /\ subs' = subs \cup {s} /\ total' = total + 1
        /\ used' = used \cup {s} /\ Service /\ UNCHANGED <<handle, table, issued>>
    BY <1>0, <1>1 DEF genaSubscriptionRequest, ListInv, devVars, histVars
  <2>2. TotalExact'
    <3>1. Cardinality(subs \cup {s}) = Cardinality(subs) + 1
      BY <1>f, <2>1, FS_AddElement
    <3> QED
      BY <1>0, <2>1, <3>1 DEF ListInv, TotalExact
  <2>3. ~sub'[s].active /\ \A u \in Sids : u # s => sub'[u] = sub[u]
    BY <1>0, <1>1 DEF genaSubscriptionRequest, NewSub, TypeOK
  <2>4. issued[s] = << >>
    BY <1>0, <1>1 DEF genaSubscriptionRequest, ListInv
  <2> QED
    BY <1>0, <2>1, <2>2, <2>3, <2>4 DEF ListInv, Service
<1>r. ASSUME NEW s \in subs, RemoveSubscriptionSID(s) PROVE subs' \subseteq subs /\ TotalExact'
  BY <1>0, <1>r, Removing DEF TotalExact
<1>k. ASSUME subs' \subseteq subs, TotalExact',
             \A s \in Sids : sub'[s].active <=> sub[s].active,
             UNCHANGED <<handle, table, used, issued>>
      PROVE ListInv'
  BY <1>0, <1>k DEF ListInv, Service
<1>2. ASSUME NEW s \in Sids, NEW t \in TimeOuts, genaRenewRequest(s, t)
      PROVE ListInv'
  <2>1. \A u \in Sids : sub'[u].active <=> sub[u].active
    <3>1. sub' = sub \/ sub' = [sub EXCEPT ![s].expireTime = ExpireTime(t)]
      BY <1>2 DEF genaRenewRequest
    <3> QED
      BY <1>0, <3>1 DEF TypeOK
  <2>2. subs' \subseteq subs /\ TotalExact'
    <3>1. \/ UNCHANGED <<subs, total>>
          \/ s \in subs /\ RemoveSubscriptionSID(s)
      BY <1>2 DEF genaRenewRequest, Found, FoundExpired
    <3> QED
      BY <1>0, <1>r, <3>1 DEF ListInv, TotalExact
  <2> QED
    BY <1>2, <1>k, <2>1, <2>2 DEF genaRenewRequest, devVars, histVars
<1>3. ASSUME NEW s \in Sids, genaUnsubscribeRequest(s) PROVE ListInv'
  BY <1>3, <1>k, <1>r DEF genaUnsubscribeRequest, Found, FoundExpired, devVars, histVars
<1>4. ASSUME NEW s \in Sids, genaInitNotify(s) PROVE ListInv'
  <2>0. UNCHANGED <<used, handle, table>>
    BY <1>4, Initiating DEF devVars
  <2>1. CASE Quiet /\ sub' = sub /\ s \in subs /\ RemoveSubscriptionSID(s)
    BY <1>k, <1>r, <2>0, <2>1 DEF Quiet, histVars
  <2>2. CASE Quiet /\ s \in subs /\ sub' = [sub EXCEPT ![s].active = TRUE] /\ UNCHANGED <<subs, total>>
    <3>1. \A u \in Sids : ~sub'[u].active => u # s /\ ~sub[u].active
      BY <1>0, <2>2 DEF TypeOK
    <3>2. s \in used /\ \A u \in Sids : u # s => sub'[u] = sub[u]
      BY <1>0, <2>2 DEF ListInv, TypeOK
    <3> QED
      BY <1>0, <2>0, <2>2, <3>1, <3>2 DEF ListInv, Service, TotalExact, Quiet, histVars
  <2>3. CASE (\E J, q : Published({s}, J, q)) /\ UNCHANGED <<subs, total>>
    <3>1. PICK J, q : Published({s}, J, q)
      BY <2>3
    <3>2. /\ s \in subs /\ sub'[s].active
          /\ \A u \in Sids : u # s => sub'[u] = sub[u] /\ issued'[u] = issued[u]
      BY <3>1 DEF Published
    <3>3. /\ \A u \in Sids : u \notin used' => ~sub'[u].active
          /\ \A u \in Sids : ~sub'[u].active => issued'[u] = << >>
      BY <1>0, <2>0, <3>2 DEF ListInv
    <3> QED
      BY <1>0, <2>0, <2>3, <3>3 DEF ListInv, Service, TotalExact
  <2> QED
    BY <1>4, <2>1, <2>2, <2>3, Initiating
<1>5. CASE genaNotifyAll
  <2>1. PICK K \in SUBSET Targets, E \in SUBSET Stale :
           /\ \E J, q : Published(K, J, q)
           /\ subs' = subs \ E /\ total' = Cardinality(subs')
           /\ UNCHANGED <<used, devVars, now>>
    BY <1>5, Notifying
  <2>2. PICK J, q : Published(K, J, q)
    BY <2>1
  <2>3. /\ \A s \in K : sub[s].active /\ sub'[s].active
        /\ \A s \in Sids \ K : sub'[s] = sub[s] /\ issued'[s] = issued[s]
    BY <2>1, <2>2 DEF Published, Targets
  <2> QED
    BY <1>0, <2>1, <2>3 DEF ListInv, Service, TotalExact, devVars
<1>6. ASSUME NEW w \in Workers, \/ Dequeue(w) \/ NotifyRequeue(w) \/ NotifyStart(w) \/ genaNotify(w)
      PROVE ListInv'
  BY <1>0, <1>6
     DEF Dequeue, NotifyRequeue, NotifyStart, genaNotify, ListInv, Service, TotalExact,
         devVars, subVars, histVars
<1>7. ASSUME NEW w \in Workers, NotifyDrop(w) \/ NotifyFinish(w) PROVE ListInv'
  <2>1. subs' \subseteq subs /\ TotalExact' /\ UNCHANGED <<used, devVars, histVars>>
    BY <1>0, <1>7, <1>r, Ending DEF ListInv, TotalExact
  <2>2. \A s \in Sids : sub'[s].active <=> sub[s].active
    <3>1. sub' = sub \/ sub' = [sub EXCEPT ![in[w].sid].ToSendEventKey = NextKey(@)]
      BY <1>7 DEF NotifyDrop, NotifyFinish
    <3>2. in[w].sid \in Sids /\ sub \in [Sids -> Subscription]
      BY <1>0, <1>7, Ending DEF Job, TypeOK, Subscription
    <3> QED
      BY <3>1, <3>2 DEF Subscription
  <2> QED
    BY <1>k, <2>1, <2>2 DEF devVars, histVars
<1>8. ASSUME \/ \E n \in SubscriptionMaxima : UpnpSetMaxSubscriptions(n)
             \/ \E n \in TimeOutMaxima : UpnpSetMaxSubscriptionTimeOut(n)
             \/ FreeHandle \/ UpnpRegisterRootDevice \/ Tick
      PROVE ListInv'
  <2>1. UNCHANGED <<subVars, histVars>> /\ (~Service' => subs = {})
    BY <1>0, <1>8
       DEF UpnpSetMaxSubscriptions, UpnpSetMaxSubscriptionTimeOut, FreeHandle,
           UpnpRegisterRootDevice, Tick, ListInv, Service, devVars
  <2> QED
    BY <1>0, <2>1 DEF ListInv, TotalExact, subVars, histVars
<1>9. CASE genaUnregisterDevice
  <2>1. Cardinality({}) = 0
    BY FS_EmptySet
  <2> QED
    BY <1>0, <1>9, <2>1 DEF genaUnregisterDevice, ListInv, TotalExact, histVars
<1>10. CASE UNCHANGED vars
  BY <1>0, <1>10 DEF vars, ListInv, Service, TotalExact, devVars, subVars, histVars
<1> QED
  BY <1>1, <1>2, <1>3, <1>4, <1>5, <1>6, <1>7, <1>8, <1>9, <1>10 DEF Next

(* The events of a subscription, and those it is given. *)
LEMMA Given ==
    ASSUME TypeOK, NEW K, NEW J, NEW q, Published(K, J, q), NEW s \in Sids
    PROVE  /\ Len(issued[s]) \in Nat /\ DOMAIN issued[s] = 1 .. Len(issued[s])
           /\ Len(issued'[s]) \in Nat /\ DOMAIN issued'[s] = 1 .. Len(issued'[s])
           /\ \A n \in DOMAIN issued[s] : /\ n \in DOMAIN issued'[s]
                                          /\ issued'[s][n] = issued[s][n]
           /\ s \in K => /\ Len(issued'[s]) = Len(issued[s]) + 1
                         /\ issued'[s][Len(issued[s]) + 1] = nev'
           /\ s \notin K => issued'[s] = issued[s]
<1>1. issued[s] \in Seq(Events) /\ nev' \in Events
  BY DEF TypeOK, Published
<1>2. issued'[s] = IF s \in K THEN Append(issued[s], nev') ELSE issued[s]
  BY DEF Published
<1>3. Len(issued[s]) \in Nat /\ DOMAIN issued[s] = 1 .. Len(issued[s])
  BY <1>1, LenProperties
<1>4. CASE s \in K
  <2>1. /\ DOMAIN Append(issued[s], nev') = 1 .. Len(issued[s]) + 1
        /\ \A i \in DOMAIN issued[s] : Append(issued[s], nev')[i] = issued[s][i]
        /\ Append(issued[s], nev')[Len(issued[s]) + 1] = nev'
    BY <1>1, JobAdded
  <2>2. Len(Append(issued[s], nev')) = Len(issued[s]) + 1
    BY <1>1, AppendProperties
  <2> QED
    BY <1>2, <1>3, <1>4, <2>1, <2>2
<1>5. CASE s \notin K
  BY <1>2, <1>3, <1>5
<1> QED
  BY <1>4, <1>5

(* The messages and events of a subscription are finite sequences. *)
LEMMA SentType ==
    ASSUME TypeOK, NEW s \in Sids
    PROVE  /\ Len(sent[s]) \in Nat /\ DOMAIN sent[s] = 1 .. Len(sent[s])
           /\ Len(issued[s]) \in Nat /\ DOMAIN issued[s] = 1 .. Len(issued[s])
           /\ \A n \in DOMAIN issued[s] : issued[s][n] \in Events
<1>1. sent[s] \in Seq([seq : 0 .. MaxKey, ev : Events]) /\ issued[s] \in Seq(Events)
  BY DEF TypeOK
<1> QED
  BY <1>1, LenProperties, ElementOfSeq

(* Requests, the calls of the application that notify nobody and the clock
   leave the keys of a subscription alone, unless it is new. *)
Requested ==
    /\ Quiet
    /\ \A s \in Sids :
          \/ /\ sub'[s].eventKey = sub[s].eventKey
             /\ sub'[s].ToSendEventKey = sub[s].ToSendEventKey
             /\ s \in subs' => s \in subs
          \/ /\ issued[s] = << >>
             /\ sub'[s].eventKey = 0 /\ sub'[s].ToSendEventKey = 0

(* A step is a request, gives out an event or is one of a thread. *)
LEMMA Steps ==
    ASSUME GenaInv, [Next]_vars
    PROVE  \/ Requested
           \/ \E K, J, q : Published(K, J, q) /\ subs' \subseteq subs
           \/ \E w \in Workers : \/ Dequeue(w) \/ NotifyDrop(w) \/ NotifyRequeue(w)
                                 \/ NotifyStart(w) \/ genaNotify(w) \/ NotifyFinish(w)
<1>0. TypeOK /\ ListInv
  BY DEF GenaInv
<1>s. sub \in [Sids -> Subscription]
  BY <1>0 DEF TypeOK, Subscription
<1>u. ASSUME Quiet, sub' = sub, subs' \subseteq subs PROVE Requested
  BY <1>u DEF Requested
<1>1. ASSUME NEW s \in Sids, NEW t \in TimeOuts, genaSubscriptionRequest(s, t) PROVE Requested
  <2>1. Quiet /\ issued[s] = << >> /\ subs' = subs \cup {s}
    BY <1>0, <1>1 DEF genaSubscriptionRequest, ListInv, Quiet, jobVars
  <2>2. sub' = [sub EXCEPT ![s] = NewSub(ExpireTime(t))]
    BY <1>1 DEF genaSubscriptionRequest
  <2>3. /\ sub'[s].eventKey = 0 /\ sub'[s].ToSendEventKey = 0
        /\ \A u \in Sids : u # s => sub'[u] = sub[u]
    BY <1>s, <2>2 DEF NewSub
  <2> QED
    BY <2>1, <2>3 DEF Requested
<1>2. ASSUME NEW s \in Sids, NEW t \in TimeOuts, genaRenewRequest(s, t) PROVE Requested
  <2>1. Quiet /\ subs' \subseteq subs
    BY <1>2 DEF genaRenewRequest, RemoveSubscriptionSID, Quiet, jobVars
  <2>2. sub' = sub \/ sub' = [sub EXCEPT ![s].expireTime = ExpireTime(t)]
    BY <1>2 DEF genaRenewRequest
  <2>3. \A u \in Sids : /\ sub'[u].eventKey = sub[u].eventKey
                        /\ sub'[u].ToSendEventKey = sub[u].ToSendEventKey
    BY <1>s, <2>2 DEF Subscription
  <2> QED
    BY <2>1, <2>3 DEF Requested
<1>3. ASSUME NEW s \in Sids, genaUnsubscribeRequest(s) PROVE Requested
  BY <1>3, <1>u DEF genaUnsubscribeRequest, RemoveSubscriptionSID, Quiet, jobVars
<1>4. ASSUME NEW s \in Sids, genaInitNotify(s)
      PROVE  Requested \/ \E K, J, q : Published(K, J, q) /\ subs' \subseteq subs
  <2>1. CASE Quiet /\ sub' = sub /\ RemoveSubscriptionSID(s)
    BY <1>u, <2>1 DEF RemoveSubscriptionSID
  <2>2. CASE Quiet /\ sub' = [sub EXCEPT ![s].active = TRUE] /\ UNCHANGED subs
    <3>1. \A u \in Sids : /\ sub'[u].eventKey = sub[u].eventKey
                          /\ sub'[u].ToSendEventKey = sub[u].ToSendEventKey
      BY <1>s, <2>2 DEF Subscription
    <3> QED
      BY <2>2, <3>1 DEF Requested
  <2>3. CASE (\E J, q : Published({s}, J, q)) /\ UNCHANGED subs
    BY <2>3
  <2> QED
    BY <1>4, <2>1, <2>2, <2>3, Initiating
<1>5. CASE genaNotifyAll
  <2>1. PICK K \in SUBSET Targets, E \in SUBSET Stale :
           (\E J, q : Published(K, J, q)) /\ subs' = subs \ E
    BY <1>5, Notifying
  <2> QED
    BY <2>1
<1>6. ASSUME \/ \E n \in SubscriptionMaxima : UpnpSetMaxSubscriptions(n)
             \/ \E n \in TimeOutMaxima : UpnpSetMaxSubscriptionTimeOut(n)
             \/ genaUnregisterDevice \/ FreeHandle \/ UpnpRegisterRootDevice \/ Tick
             \/ UNCHANGED vars
      PROVE Requested
  <2>1. Quiet /\ sub' = sub /\ subs' \subseteq subs
    BY <1>6
       DEF UpnpSetMaxSubscriptions, UpnpSetMaxSubscriptionTimeOut, genaUnregisterDevice,
           FreeHandle, UpnpRegisterRootDevice, Tick, vars, Quiet, jobVars, subVars
  <2> QED
    BY <1>u, <2>1
<1> QED
  BY <1>1, <1>2, <1>3, <1>4, <1>5, <1>6 DEF Next

(* No event that was given out is later than the last one published. *)
LEMMA Numbers ==
    ASSUME TypeOK, StreamsInv, NEW s \in Sids
    PROVE  \A n \in DOMAIN issued[s] : issued[s][n] \in Nat /\ issued[s][n] <= nev
<1>1. \A n \in DOMAIN issued[s] : issued[s][n] \in Events
  BY SentType
<1>2. \A e \in Events : e \in Nat
  BY GenaAssumption DEF Events
<1>3. \A n \in DOMAIN issued[s] : issued[s][n] <= nev
  BY DEF StreamsInv
<1> QED
  BY <1>1, <1>2, <1>3

(* An event gets the next key of each of its subscriptions. *)
LEMMA StreamsStep == GenaInv /\ [Next]_vars => StreamsInv'
<1> SUFFICES ASSUME GenaInv, [Next]_vars PROVE StreamsInv'
  OBVIOUS
<1>0. TypeOK /\ ListInv /\ StreamsInv
  BY DEF GenaInv
<1>1. CASE Requested
  <2>1. UNCHANGED <<issued, sent, nev>>
    BY <1>1 DEF Requested, Quiet, bufVars, histVars
  <2>2. ASSUME NEW s \in Sids
        PROVE  sub'[s].eventKey = Stream!SeqNumber(Len(issued[s]) + 1)
    <3>1. CASE sub'[s].eventKey = sub[s].eventKey
      BY <1>0, <3>1 DEF StreamsInv
    <3>2. CASE issued[s] = << >> /\ sub'[s].eventKey = 0
      <4>1. Len(issued[s]) + 1 = 1
        BY <3>2
      <4>2. Stream!SeqNumber(1) = 0
        BY SeqNumbers
      <4> QED
        BY <3>2, <4>1, <4>2, Zenon
    <3> QED
      BY <1>1, <3>1, <3>2 DEF Requested
  <2> QED
    BY <1>0, <2>1, <2>2 DEF StreamsInv
<1>2. ASSUME NEW K, NEW J, NEW q, Published(K, J, q) PROVE StreamsInv'
  <2>1. nev \in Nat /\ nev' = nev + 1 /\ UNCHANGED sent /\ MaxKey \in Nat
    BY <1>0, <1>2, GenaAssumption DEF Published, TypeOK
  <2>2. ASSUME NEW s \in K
        PROVE  /\ Len(sent'[s]) <= Len(issued'[s])
               /\ Len(issued'[s]) > 1 => Len(issued'[s]) - Len(sent'[s]) < MaxKey
               /\ \A n \in DOMAIN issued'[s] : issued'[s][n] <= nev'
               /\ \A m, n \in DOMAIN issued'[s] : m < n => issued'[s][m] < issued'[s][n]
               /\ sub'[s].eventKey = Stream!SeqNumber(Len(issued'[s]) + 1)
    <3>1. s \in Sids
      BY <1>0, <1>2 DEF Published, TypeOK
    <3>2. /\ Len(issued[s]) \in Nat /\ Len(sent[s]) \in Nat
          /\ Len(sent[s]) <= Len(issued[s])
          /\ sub[s].eventKey = Stream!SeqNumber(Len(issued[s]) + 1)
      BY <1>0, <3>1, SentType DEF StreamsInv
    <3>3. /\ Len(issued'[s]) = Len(issued[s]) + 1
          /\ DOMAIN issued[s] = 1 .. Len(issued[s])
          /\ DOMAIN issued'[s] = 1 .. Len(issued[s]) + 1
          /\ issued'[s][Len(issued[s]) + 1] = nev'
          /\ \A n \in DOMAIN issued[s] : issued'[s][n] = issued[s][n]
      BY <1>0, <1>2, <3>1, Given
    <3>4. Len(issued'[s]) > 1 => Len(issued'[s]) - Len(sent'[s]) < MaxKey
      <4>1. issued[s] = << >> \/ Len(issued[s]) - Len(sent[s]) + 1 < MaxKey
        BY <1>2 DEF Published
      <4>2. issued[s] = << >> => Len(issued[s]) = 0
        OBVIOUS
      <4>3. sent'[s] = sent[s]
        BY <2>1
      <4> DEFINE i == Len(issued[s])
                 t == Len(sent[s])
      <4>4. i \in Nat /\ t \in Nat /\ Len(issued'[s]) = i + 1 /\ (i = 0 \/ (i - t) + 1 < MaxKey)
        BY <3>2, <3>3, <4>1, <4>2
      <4> HIDE DEF i, t
      <4>5. i + 1 > 1 => (i + 1) - t < MaxKey
        BY <2>1, <4>4
      <4> QED
        BY <4>3, <4>4, <4>5 DEF t
    <3>5. \A n \in DOMAIN issued[s] : issued[s][n] \in Nat /\ issued[s][n] <= nev
      BY <1>0, <3>1, Numbers
    <3>6. \A m, n \in DOMAIN issued[s] : m < n => issued[s][m] < issued[s][n]
      BY <1>0, <3>1 DEF StreamsInv
    <3>7. \A m, n \in DOMAIN issued'[s] : m < n => issued'[s][m] < issued'[s][n]
      BY <2>1, <3>2, <3>3, <3>5, <3>6
    <3>8. \A n \in DOMAIN issued'[s] : issued'[s][n] <= nev'
      BY <2>1, <3>2, <3>3, <3>5
    <3>9. sub'[s].eventKey = Stream!SeqNumber(Len(issued'[s]) + 1)
      <4>1. sub'[s].eventKey = NextKey(Stream!SeqNumber(Len(issued[s]) + 1))
        BY <1>2, <3>2 DEF Published
      <4>2. Len(issued[s]) + 1 \in Nat \ {0}
        BY <3>2
      <4>3. NextKey(Stream!SeqNumber(Len(issued[s]) + 1)) = Stream!SeqNumber((Len(issued[s]) + 1) + 1)
        BY <4>2, SeqNumbers
      <4> QED
        BY <3>3, <4>1, <4>3
    <3>10. sent'[s] = sent[s]
      BY <2>1
    <3>11. Len(sent'[s]) <= Len(issued'[s])
      BY <3>2, <3>3, <3>10
    <3> QED
      BY <3>4, <3>7, <3>8, <3>9, <3>11, Zenon
  <2>3. ASSUME NEW s \in Sids, s \notin K
        PROVE  /\ issued'[s] = issued[s] /\ sub'[s] = sub[s]
               /\ \A n \in DOMAIN issued[s] : issued[s][n] <= nev'
    <3>1. issued'[s] = issued[s] /\ sub'[s] = sub[s]
      BY <1>2, <2>3 DEF Published
    <3>2. \A n \in DOMAIN issued[s] : issued[s][n] \in Nat /\ issued[s][n] <= nev
      BY <1>0, Numbers
    <3> QED
      BY <2>1, <3>1, <3>2
  <2> QED
    BY <1>0, <2>1, <2>2, <2>3 DEF StreamsInv
<1>3. ASSUME NEW w \in Workers, Dequeue(w) \/ NotifyRequeue(w) \/ genaNotify(w) PROVE StreamsInv'
  BY <1>0, <1>3 DEF Dequeue, NotifyRequeue, genaNotify, StreamsInv, subVars, bufVars, histVars
<1>4. ASSUME NEW w \in Workers, NotifyDrop(w) \/ NotifyFinish(w) PROVE StreamsInv'
  <2>1. \A s \in Sids : sub'[s].eventKey = sub[s].eventKey
    <3>1. sub' = sub \/ sub' = [sub EXCEPT ![in[w].sid].ToSendEventKey = NextKey(@)]
      BY <1>4 DEF NotifyDrop, NotifyFinish
    <3>2. sub \in [Sids -> Subscription]
      BY <1>0 DEF TypeOK, Subscription
    <3> QED
      BY <3>1, <3>2 DEF Subscription
  <2>2. UNCHANGED <<nev, issued, sent>>
    BY <1>4 DEF NotifyDrop, NotifyFinish, free_notify_struct, histVars
  <2> QED
    BY <1>0, <2>1, <2>2 DEF StreamsInv
<1>5. ASSUME NEW w \in Workers, NotifyStart(w) PROVE StreamsInv'
  <2> DEFINE s == in[w].sid
  <2>1. /\ UNCHANGED <<nev, issued, sub>>
        /\ s \in subs /\ JobOf(in[w], Len(sent[s]) + 1)
        /\ Len(sent'[s]) = Len(sent[s]) + 1
        /\ \A u \in Sids : u # s => sent'[u] = sent[u]
    BY <1>5, Starting DEF subVars, bufVars
  <2>2. s \in Sids /\ Len(sent[s]) + 1 \in DOMAIN issued[s]
    BY <2>1 DEF JobOf, Job
  <2>3. /\ Len(sent[s]) \in Nat /\ Len(issued[s]) \in Nat /\ Len(sent[s]) + 1 <= Len(issued[s])
        /\ MaxKey \in Nat
    BY <1>0, <2>2, SentType, GenaAssumption
  <2> HIDE DEF s
  <2>4. \A u \in Sids : /\ Len(sent'[u]) <= Len(issued[u])
                        /\ Len(issued[u]) > 1 => Len(issued[u]) - Len(sent'[u]) < MaxKey
    <3>1. ASSUME NEW u \in Sids
          PROVE  /\ Len(sent[u]) <= Len(issued[u])
                 /\ Len(issued[u]) > 1 => Len(issued[u]) - Len(sent[u]) < MaxKey
      BY <1>0 DEF StreamsInv
    <3>2. /\ Len(sent'[s]) <= Len(issued[s])
          /\ Len(issued[s]) > 1 => Len(issued[s]) - Len(sent'[s]) < MaxKey
      <4> DEFINE i == Len(issued[s])
                 t == Len(sent[s])
      <4>1. /\ i \in Nat /\ t \in Nat /\ t + 1 <= i /\ (i > 1 => i - t < MaxKey)
            /\ Len(sent'[s]) = t + 1
        BY <2>1, <2>2, <2>3, <3>1
      <4> HIDE DEF i, t
      <4>2. t + 1 <= i /\ (i > 1 => i - (t + 1) < MaxKey)
        BY <2>3, <4>1
      <4> QED
        BY <4>1, <4>2 DEF i
    <3> QED
      BY <2>1, <3>1, <3>2
  <2> QED
    BY <1>0, <2>1, <2>4 DEF StreamsInv
<1> QED
  BY <1>1, <1>2, <1>3, <1>4, <1>5, Steps

(* A job stays the job of its event, whatever else is published. *)
LEMMA JobsPersist ==
    ASSUME TypeOK, NEW K, NEW J, NEW q, Published(K, J, q), NEW j
    PROVE  /\ \A n : JobOf(j, n) => JobOf(j, n)'
           /\ Waits(j) => Waits(j)'
<1>1. ASSUME NEW n, JobOf(j, n) PROVE JobOf(j, n)'
  <2>1. j.sid \in Sids /\ n \in DOMAIN issued[j.sid]
    BY <1>1 DEF JobOf, Job
  <2>2. n \in DOMAIN issued'[j.sid] /\ issued'[j.sid][n] = issued[j.sid][n]
    BY <2>1, Given
  <2> QED
    BY <1>1, <2>2 DEF JobOf
<1>2. sent' = sent
  BY DEF Published
<1> QED
  BY <1>1, <1>2 DEF Waits

(* A new job waits: its event is the last one of its subscription. *)
LEMMA JobsArrive ==
    ASSUME TypeOK, StreamsInv, NEW K, NEW J, NEW q, Published(K, J, q),
           NEW j, NEW i \in DOMAIN q, j = q[i]
    PROVE  Waits(j)'
<1> DEFINE s == j.sid
           n == Len(issued[s]) + 1
<1>1. j \in Job /\ s \in K /\ j.ev = nev' /\ j.eventKey = sub[s].eventKey
  <2>1. q \in Seq(Job)
    BY DEF Published
  <2>2. q[i] \in Job
    BY <2>1, ElementOfSeq, LenProperties
  <2> QED
    BY <2>2 DEF Published
<1>2. s \in Sids
  BY <1>1 DEF Job
<1>3. /\ Len(issued[s]) \in Nat /\ n \in DOMAIN issued'[s] /\ issued'[s][n] = nev'
  <2>1. /\ Len(issued[s]) \in Nat /\ DOMAIN issued'[s] = 1 .. Len(issued'[s])
        /\ Len(issued'[s]) = Len(issued[s]) + 1 /\ issued'[s][Len(issued[s]) + 1] = nev'
    BY <1>1, <1>2, Given
  <2> QED
    BY <2>1
<1>4. j.eventKey = Stream!SeqNumber(n)
  BY <1>1, <1>2 DEF StreamsInv
<1>5. sent' = sent /\ Len(sent[s]) <= Len(issued[s]) /\ Len(sent[s]) \in Nat
  BY <1>2, SentType DEF StreamsInv, Published
<1>6. n \in Nat /\ n > Len(sent'[s])
  BY <1>3, <1>5
<1>7. \A m : m = n => JobOf(j, m)'
  BY <1>1, <1>3, <1>4 DEF JobOf
<1> HIDE DEF n
<1>8. \A m : m = n => m \in Nat /\ m > Len(sent'[j.sid]) /\ JobOf(j, m)'
  BY <1>6, <1>7
<1> QED
  BY <1>8 DEF Waits

(* When a NOTIFY is started, the jobs of other events still wait. *)
LEMMA JobsRemain ==
    ASSUME GenaInv, NEW w \in Workers, NotifyStart(w), NEW j, Waits(j), ~Same(j, in[w])
    PROVE  Waits(j)'
<1> DEFINE s == in[w].sid
           t == Len(sent[s])
<1>1. /\ JobOf(in[w], t + 1) /\ Len(sent'[s]) = t + 1 /\ t \in Nat
      /\ \A u \in Sids : u # s => sent'[u] = sent[u]
      /\ issued' = issued
  BY Starting
<1>2. PICK n \in Nat : n > Len(sent[j.sid]) /\ JobOf(j, n)
  BY DEF Waits
<1>3. JobOf(j, n)'
  BY <1>1, <1>2 DEF JobOf
<1>4. n > Len(sent'[j.sid])
  <2>1. CASE j.sid # s
    BY <1>1, <1>2, <2>1 DEF JobOf, Job
  <2>2. CASE j.sid = s
    <3>1. n # t + 1
      BY <1>1, <1>2, <2>2 DEF JobOf, Same
    <3> HIDE DEF t
    <3> QED
      BY <1>1, <1>2, <2>2, <3>1 DEF t
  <2> QED
    BY <2>1, <2>2
<1> QED
  BY <1>3, <1>4 DEF Waits

(* The invariant of the jobs, read in the state after a step. *)
LEMMA JobsAgain ==
    ASSUME \A i \in DOMAIN pool' : \A j : j = pool'[i] => Waits(j)',
           \A v \in Workers : pc'[v] = "idle" => in'[v] = NoJob,
           \A v \in Workers : \A j : pc'[v] = "start" /\ j = in'[v] => Waits(j)',
           \A v \in Workers : \A j, n :
              pc'[v] \in {"transmit", "finish"} /\ j = in'[v] /\ n = Len(sent'[in'[v].sid])
                 => JobOf(j, n)'
    PROVE  JobsInv'
<1>1. \A i \in DOMAIN pool' : Waits(pool[i])'
  BY Zenon DEF Waits, JobOf
<1>2. \A v \in Workers : pc'[v] = "start" => Waits(in[v])'
  BY Zenon DEF Waits, JobOf
<1>3. \A v \in Workers : Transmitting(v)' => JobOf(in[v], Len(sent[in[v].sid]))'
  BY Zenon DEF JobOf, Transmitting
<1> QED
  BY <1>1, <1>2, <1>3 DEF JobsInv

(* A job waits until its NOTIFY is started, and that is then the last one. *)
LEMMA JobsStep == GenaInv /\ [Next]_vars => JobsInv'
<1> SUFFICES ASSUME GenaInv, [Next]_vars PROVE JobsInv'
  OBVIOUS
<1>0. TypeOK /\ StreamsInv /\ JobsInv /\ ApartInv
  BY DEF GenaInv
<1>1. CASE Requested
  BY <1>0, <1>1 DEF Requested, Quiet, histVars, JobsInv, Waits, JobOf, Transmitting
<1>2. ASSUME NEW K, NEW J, NEW q, Published(K, J, q) PROVE JobsInv'
  <2>1. UNCHANGED <<pc, in, sent>> /\ pool' = pool \o q /\ pool \in Seq(Job) /\ q \in Seq(Job)
    BY <1>0, <1>2 DEF Published, TypeOK
  <2>2. ASSUME NEW i \in DOMAIN pool'
        PROVE  \/ i \in DOMAIN pool /\ pool'[i] = pool[i]
               \/ i - Len(pool) \in DOMAIN q /\ pool'[i] = q[i - Len(pool)]
    BY <2>1, JobsAdded
  <2>3. \A i \in DOMAIN pool' : \A j : j = pool'[i] => Waits(j)'
    BY <1>0, <1>2, <2>2, JobsPersist, JobsArrive DEF JobsInv
  <2>4. \A w \in Workers : \A j : pc[w] = "start" /\ j = in[w] => Waits(j)'
    BY <1>0, <1>2, JobsPersist DEF JobsInv
  <2>5. \A w \in Workers : \A j, n :
           pc[w] \in {"transmit", "finish"} /\ j = in[w] /\ n = Len(sent[in[w].sid])
              => JobOf(j, n)'
    BY <1>0, <1>2, JobsPersist DEF JobsInv, Transmitting
  <2>6. \A w \in Workers : pc[w] = "idle" => in[w] = NoJob
    BY <1>0 DEF JobsInv
  <2> QED
    BY <2>1, <2>3, <2>4, <2>5, <2>6, JobsAgain
<1>3. ASSUME NEW w \in Workers, Dequeue(w) PROVE JobsInv'
  <2>1. /\ 1 \in DOMAIN pool
        /\ \A i \in DOMAIN pool' : i + 1 \in DOMAIN pool /\ pool'[i] = pool[i + 1]
        /\ pc'[w] = "start" /\ in'[w] = pool[1]
        /\ \A v \in Workers : v # w => pc'[v] = pc[v] /\ in'[v] = in[v]
        /\ UNCHANGED <<issued, sent>>
    BY <1>0, <1>3, Dequeuing DEF histVars
  <2>2. \A j : Waits(j) => Waits(j)'
    BY <2>1 DEF Waits, JobOf
  <2>3. \A i \in DOMAIN pool' : \A j : j = pool'[i] => Waits(j)'
    BY <1>0, <2>1, <2>2 DEF JobsInv
  <2>4. \A j : j = in'[w] => Waits(j)'
    BY <1>0, <2>1, <2>2 DEF JobsInv
  <2>5. ASSUME NEW v \in Workers, v # w
        PROVE  /\ pc'[v] = "idle" => in'[v] = NoJob
               /\ \A j : pc'[v] = "start" /\ j = in'[v] => Waits(j)'
               /\ \A j, n : pc'[v] \in {"transmit", "finish"} /\ j = in'[v] /\ n = Len(sent'[in'[v].sid])
                     => JobOf(j, n)'
    <3>1. pc'[v] = pc[v] /\ in'[v] = in[v]
      BY <2>1, <2>5
    <3> QED
      BY <1>0, <2>1, <2>2, <3>1 DEF JobsInv, Transmitting, JobOf
  <2> QED
    BY <2>1, <2>3, <2>4, <2>5, JobsAgain
<1>4. ASSUME NEW w \in Workers, NotifyDrop(w) \/ NotifyFinish(w) PROVE JobsInv'
  <2>1. /\ pc'[w] = "idle" /\ in'[w] = NoJob
        /\ \A v \in Workers : v # w => pc'[v] = pc[v] /\ in'[v] = in[v]
        /\ UNCHANGED <<pool, issued, sent>>
    BY <1>0, <1>4, Ending DEF histVars
  <2> QED
    BY <1>0, <2>1 DEF JobsInv, Waits, JobOf, Transmitting
<1>5. ASSUME NEW w \in Workers, NotifyRequeue(w) PROVE JobsInv'
  <2>1. /\ pc[w] = "start" /\ pc'[w] = "idle" /\ in'[w] = NoJob
        /\ \A v \in Workers : v # w => pc'[v] = pc[v] /\ in'[v] = in[v]
        /\ \A i \in DOMAIN pool' : \/ i \in DOMAIN pool /\ pool'[i] = pool[i]
                                   \/ pool'[i] = in[w]
        /\ UNCHANGED <<issued, sent>>
    BY <1>0, <1>5, Requeuing DEF histVars
  <2> QED
    BY <1>0, <2>1 DEF JobsInv, Waits, JobOf, Transmitting
<1>6. ASSUME NEW w \in Workers, NotifyStart(w) PROVE JobsInv'
  <2> DEFINE s == in[w].sid
  <2>1. /\ pc[w] = "start" /\ pc'[w] = "transmit" /\ in' = in
        /\ \A v \in Workers : v # w => pc'[v] = pc[v]
        /\ ~Busy(s) /\ JobOf(in[w], Len(sent[s]) + 1)
        /\ Len(sent'[s]) = Len(sent[s]) + 1
        /\ \A u \in Sids : u # s => sent'[u] = sent[u]
        /\ UNCHANGED <<pool, issued>>
    BY <1>6, Starting
  <2>2. \A i \in DOMAIN pool' : \A j : j = pool'[i] => Waits(j)'
    BY <1>0, <1>6, <2>1, JobsRemain DEF JobsInv, ApartInv
  <2>3. ASSUME NEW v \in Workers, v # w
        PROVE  /\ pc'[v] = "idle" => in'[v] = NoJob
               /\ \A j : pc'[v] = "start" /\ j = in'[v] => Waits(j)'
               /\ \A j, n : pc'[v] \in {"transmit", "finish"} /\ j = in'[v] /\ n = Len(sent'[in'[v].sid])
                     => JobOf(j, n)'
    <3>1. pc'[v] = pc[v] /\ in'[v] = in[v]
      BY <2>1, <2>3
    <3>2. ASSUME pc[v] = "start", NEW j, j = in[v] PROVE Waits(j)'
      <4>1. ~Same(j, in[w])
        BY <1>0, <2>1, <2>3, <3>2 DEF ApartInv
      <4> QED
        BY <1>0, <1>6, <3>2, <4>1, JobsRemain DEF JobsInv
    <3>3. ASSUME Transmitting(v) PROVE JobOf(in[v], Len(sent'[in[v].sid]))
      <4>1. in[v].sid # s /\ JobOf(in[v], Len(sent[in[v].sid]))
        BY <1>0, <2>1, <3>3 DEF Busy, JobsInv
      <4>2. in[v].sid \in Sids
        BY <4>1 DEF JobOf, Job
      <4> QED
        BY <2>1, <4>1, <4>2
    <3> QED
      BY <1>0, <2>1, <3>1, <3>2, <3>3 DEF JobsInv, Transmitting, JobOf
  <2>4. \A j, n : j = in[w] /\ n = Len(sent[s]) + 1 => JobOf(j, n)'
    BY <2>1 DEF JobOf
  <2> QED
    BY <2>1, <2>2, <2>3, <2>4, JobsAgain
<1>7. ASSUME NEW w \in Workers, genaNotify(w) PROVE JobsInv'
  <2>1. /\ pc[w] = "transmit" /\ pc'[w] = "finish"
        /\ \A v \in Workers : v # w => pc'[v] = pc[v]
        /\ UNCHANGED <<pool, in, issued, sent>>
    BY <1>0, <1>7 DEF genaNotify, TypeOK, histVars
  <2> QED
    BY <1>0, <2>1 DEF JobsInv, Waits, JobOf, Transmitting
<1> QED
  BY <1>1, <1>2, <1>3, <1>4, <1>5, <1>6, <1>7, Steps

(* The event of a job was published. *)
LEMMA JobsPast ==
    ASSUME TypeOK, StreamsInv, NEW j, NEW n, JobOf(j, n)
    PROVE  j.sid \in Sids /\ j.ev \in Nat /\ j.ev <= nev /\ nev \in Nat
<1>1. j.sid \in Sids /\ n \in DOMAIN issued[j.sid] /\ issued[j.sid][n] = j.ev
  BY DEF JobOf, Job
<1>2. nev \in Nat
  BY GenaAssumption DEF TypeOK
<1> QED
  BY <1>1, <1>2, Numbers

(* There is never a second job for the same event and subscription. *)
LEMMA ApartStep == GenaInv /\ [Next]_vars => ApartInv'
<1> SUFFICES ASSUME GenaInv, [Next]_vars PROVE ApartInv'
  OBVIOUS
<1>0. TypeOK /\ StreamsInv /\ JobsInv /\ ApartInv
  BY DEF GenaInv
<1>1. CASE Requested
  BY <1>0, <1>1 DEF Requested, Quiet, ApartInv
<1>2. ASSUME NEW K, NEW J, NEW q, Published(K, J, q) PROVE ApartInv'
  <2>1. /\ UNCHANGED <<pc, in, sent>> /\ pool' = pool \o q
        /\ pool \in Seq(Job) /\ q \in Seq(Job)
        /\ nev \in Nat /\ nev' = nev + 1
        /\ \A i \in DOMAIN q : q[i].ev = nev'
        /\ \A i, k \in DOMAIN q : q[i].sid = q[k].sid => i = k
    BY <1>0, <1>2, GenaAssumption DEF Published, TypeOK
  <2>2. ASSUME NEW i \in DOMAIN pool'
        PROVE  \/ i \in DOMAIN pool /\ pool'[i] = pool[i]
               \/ i - Len(pool) \in DOMAIN q /\ pool'[i] = q[i - Len(pool)]
    BY <2>1, JobsAdded
  <2>3. DOMAIN pool' \subseteq Nat /\ Len(pool) \in Nat
    <3>1. pool \o q \in Seq(Job)
      BY <2>1, JobsAdded
    <3> QED
      BY <2>1, <3>1, LenProperties
  <2>4. ASSUME NEW i \in DOMAIN pool PROVE pool[i].ev # nev'
    <3>1. PICK n : JobOf(pool[i], n)
      BY <1>0 DEF JobsInv, Waits
    <3> QED
      BY <1>0, <2>1, <3>1, JobsPast
  <2>5. ASSUME NEW w \in Workers, pc[w] # "idle" PROVE in[w].ev # nev'
    <3>1. PICK n : JobOf(in[w], n)
      BY <1>0, <2>5 DEF JobsInv, Waits, Transmitting, TypeOK
    <3> QED
      BY <1>0, <2>1, <3>1, JobsPast
  <2>6. ASSUME NEW i \in DOMAIN pool', NEW k \in DOMAIN pool', Same(pool'[i], pool'[k])
        PROVE  i = k
    <3>1. CASE i \in DOMAIN pool /\ pool'[i] = pool[i]
      <4>1. k \in DOMAIN pool /\ pool'[k] = pool[k]
        BY <2>1, <2>2, <2>4, <2>6, <3>1 DEF Same
      <4> QED
        BY <1>0, <2>6, <3>1, <4>1 DEF ApartInv
    <3>2. CASE i - Len(pool) \in DOMAIN q /\ pool'[i] = q[i - Len(pool)]
      <4>1. k - Len(pool) \in DOMAIN q /\ pool'[k] = q[k - Len(pool)]
        BY <2>1, <2>2, <2>4, <2>6, <3>2 DEF Same
      <4>2. i - Len(pool) = k - Len(pool)
        BY <2>1, <2>6, <3>2, <4>1 DEF Same
      <4> QED
        BY <2>3, <4>2
    <3> QED
      BY <2>2, <3>1, <3>2
  <2>7. ASSUME NEW i \in DOMAIN pool', NEW w \in Workers, pc[w] # "idle"
        PROVE  ~Same(pool'[i], in[w])
    <3>1. CASE i \in DOMAIN pool /\ pool'[i] = pool[i]
      BY <1>0, <2>7, <3>1 DEF ApartInv
    <3>2. CASE pool'[i].ev = nev'
      BY <2>5, <2>7, <3>2 DEF Same
    <3> QED
      BY <2>1, <2>2, <3>1, <3>2
  <2>8. \A w, v \in Workers : pc'[w] # "idle" /\ pc'[v] # "idle" /\ Same(in'[w], in'[v]) => w = v
    BY <1>0, <2>1 DEF ApartInv
  <2> QED
    BY <2>1, <2>6, <2>7, <2>8 DEF ApartInv, Same
<1>3. ASSUME NEW w \in Workers, Dequeue(w) PROVE ApartInv'
  <2>1. /\ 1 \in DOMAIN pool
        /\ \A i \in DOMAIN pool' : i + 1 \in DOMAIN pool /\ i + 1 # 1 /\ pool'[i] = pool[i + 1]
        /\ pc[w] = "idle" /\ in'[w] = pool[1]
        /\ \A v \in Workers : v # w => pc'[v] = pc[v] /\ in'[v] = in[v]
        /\ pool' \in Seq(Job)
    BY <1>0, <1>3, Dequeuing
  <2>2. DOMAIN pool' \subseteq Nat
    BY <2>1, LenProperties
  <2>3. ASSUME NEW i \in DOMAIN pool', NEW k \in DOMAIN pool', Same(pool'[i], pool'[k])
        PROVE  i = k
    <3>1. i + 1 = k + 1
      BY <1>0, <2>1, <2>3 DEF ApartInv
    <3> QED
      BY <2>2, <3>1
  <2>4. ASSUME NEW v \in Workers, NEW u \in Workers,
               pc'[v] # "idle", pc'[u] # "idle", Same(in'[v], in'[u])
        PROVE  v = u
    BY <1>0, <2>1, <2>4 DEF ApartInv, Same
  <2>5. ASSUME NEW i \in DOMAIN pool', NEW v \in Workers, pc'[v] # "idle"
        PROVE  ~Same(pool'[i], in'[v])
    BY <1>0, <2>1, <2>5 DEF ApartInv
  <2> QED
    BY <2>3, <2>4, <2>5 DEF ApartInv, Same
<1>4. ASSUME NEW w \in Workers, NotifyDrop(w) \/ NotifyFinish(w) PROVE ApartInv'
  <2>1. /\ pc'[w] = "idle" /\ pool' = pool
        /\ \A v \in Workers : v # w => pc'[v] = pc[v] /\ in'[v] = in[v]
    BY <1>0, <1>4, Ending
  <2> QED
    BY <1>0, <2>1 DEF ApartInv, Same
<1>5. ASSUME NEW w \in Workers, NotifyRequeue(w) PROVE ApartInv'
  <2>1. /\ pc[w] # "idle" /\ pc'[w] = "idle"
        /\ \A v \in Workers : v # w => pc'[v] = pc[v] /\ in'[v] = in[v]
        /\ \/ pool' = pool
           \/ /\ Len(pool) \in Nat /\ DOMAIN pool = 1 .. Len(pool)
              /\ DOMAIN pool' = 1 .. Len(pool) + 1
              /\ \A i \in DOMAIN pool : pool'[i] = pool[i]
              /\ pool'[Len(pool) + 1] = in[w]
    BY <1>0, <1>5, Requeuing
  <2>2. \A v, u \in Workers : pc'[v] # "idle" /\ pc'[u] # "idle" /\ Same(in'[v], in'[u]) => v = u
    BY <1>0, <2>1 DEF ApartInv
  <2>3. CASE pool' = pool
    BY <1>0, <2>1, <2>2, <2>3 DEF ApartInv, Same
  <2>4. CASE pool' # pool
    <3> DEFINE n == Len(pool) + 1
    <3>1. /\ \A i \in DOMAIN pool' : i \in DOMAIN pool \/ i = n
          /\ \A i \in DOMAIN pool : pool'[i] = pool[i]
          /\ pool'[n] = in[w]
      BY <2>1, <2>4
    <3> HIDE DEF n
    <3>2. \A i, k \in DOMAIN pool' : Same(pool'[i], pool'[k]) => i = k
      BY <1>0, <2>1, <3>1 DEF ApartInv, Same
    <3>3. \A i \in DOMAIN pool', v \in Workers : pc'[v] # "idle" => ~Same(pool'[i], in'[v])
      BY <1>0, <2>1, <3>1 DEF ApartInv, Same
    <3> QED
      BY <2>2, <3>2, <3>3 DEF ApartInv, Same
  <2> QED
    BY <2>3, <2>4
<1>6. ASSUME NEW w \in Workers, NotifyStart(w) \/ genaNotify(w) PROVE ApartInv'
  <2>1. /\ UNCHANGED <<pool, in>>
        /\ \A v \in Workers : pc'[v] # "idle" => pc[v] # "idle"
    BY <1>0, <1>6 DEF NotifyStart, genaNotify, TypeOK
  <2> QED
    BY <1>0, <2>1 DEF ApartInv, Same
<1> QED
  BY <1>1, <1>2, <1>3, <1>4, <1>5, <1>6, Steps

(* Two threads never transmit to one subscription: both would have the job of
   the last event sent. *)
LEMMA OneTransmits ==
    ASSUME JobsInv, ApartInv
    PROVE  OneInFlight
<1> SUFFICES ASSUME NEW w \in Workers, NEW v \in Workers, Transmitting(w), Transmitting(v),
                    in[w].sid = in[v].sid
             PROVE  w = v
  BY DEF OneInFlight
<1>1. Same(in[w], in[v])
  BY DEF JobsInv, JobOf, Same
<1> QED
  BY <1>1 DEF ApartInv, Transmitting

(* Whether a NOTIFY of a subscription is being transmitted, after a step. *)
LEMMA BusyAgain ==
    ASSUME NEW s,
           \A v \in Workers : (pc'[v] \in {"transmit", "finish"} /\ in'[v].sid = s)
                                 <=> (Transmitting(v) /\ in[v].sid = s)
    PROVE  Busy(s)' <=> Busy(s)
BY DEF Busy, Transmitting

(* The turn passes to the next event when the job of the last one finishes. *)
LEMMA TurnStep == GenaInv /\ [Next]_vars => TurnInv'
<1> SUFFICES ASSUME GenaInv, [Next]_vars PROVE TurnInv'
  OBVIOUS
<1>0. /\ TypeOK /\ ListInv /\ StreamsInv /\ JobsInv /\ ApartInv /\ TurnInv
      /\ subs \subseteq Sids
  BY DEF GenaInv, TypeOK
<1>t. subs' \subseteq Sids
  BY TypeStep DEF TypeOK
<1>k. ASSUME NEW s \in subs, sub'[s].ToSendEventKey = sub[s].ToSendEventKey,
             sent'[s] = sent[s], Busy(s)' <=> Busy(s)
      PROVE  sub'[s].ToSendEventKey =
                Stream!SeqNumber(IF Busy(s)' THEN Len(sent'[s]) ELSE Len(sent'[s]) + 1)
  BY <1>0, <1>k DEF TurnInv
<1>1. CASE Requested
  <2>1. UNCHANGED <<pc, in, issued, sent>>
    BY <1>1 DEF Requested, Quiet, histVars
  <2>2. ASSUME NEW s \in subs'
        PROVE  sub'[s].ToSendEventKey =
                  Stream!SeqNumber(IF Busy(s)' THEN Len(sent'[s]) ELSE Len(sent'[s]) + 1)
    <3>0. s \in Sids
      BY <1>t
    <3>1. Busy(s)' <=> Busy(s)
      BY <2>1, BusyAgain DEF Transmitting
    <3>2. CASE sub'[s].ToSendEventKey = sub[s].ToSendEventKey /\ s \in subs
      BY <1>k, <2>1, <3>1, <3>2
    <3>3. CASE issued[s] = << >> /\ sub'[s].ToSendEventKey = 0
      <4>1. DOMAIN issued[s] = {} /\ Len(issued[s]) = 0
        BY <3>3
      <4>2. ~Busy(s)
        BY <1>0, <4>1 DEF Busy, JobsInv, JobOf
      <4>3. Len(sent[s]) = 0
        <5>1. Len(sent[s]) \in Nat
          BY <1>0, <3>0, SentType
        <5>2. Len(sent[s]) <= Len(issued[s])
          BY <1>0, <3>0 DEF StreamsInv
        <5>3. Len(issued[s]) = 0
          BY <4>1
        <5> QED
          BY <5>1, <5>2, <5>3
      <4>4. Len(sent'[s]) + 1 = 1
        BY <2>1, <4>3
      <4>5. Stream!SeqNumber(1) = 0
        BY SeqNumbers
      <4>6. ~Busy(s)'
        BY <3>1, <4>2, Zenon
      <4>7. sub'[s].ToSendEventKey = Stream!SeqNumber(Len(sent'[s]) + 1)
        BY <3>3, <4>4, <4>5, Zenon
      <4> QED
        BY <4>6, <4>7, Zenon
    <3> QED
      BY <1>1, <3>0, <3>2, <3>3 DEF Requested
  <2> QED
    BY <2>2 DEF TurnInv
<1>2. ASSUME NEW K, NEW J, NEW q, Published(K, J, q), subs' \subseteq subs PROVE TurnInv'
  <2>1. UNCHANGED <<pc, in, sent>>
    BY <1>2 DEF Published
  <2>2. \A s \in subs' : Busy(s)' <=> Busy(s)
    BY <2>1, BusyAgain DEF Transmitting
  <2>3. \A s \in subs' : sub'[s].ToSendEventKey = sub[s].ToSendEventKey
    BY <1>t, <1>2 DEF Published
  <2> QED
    BY <1>k, <1>2, <2>1, <2>2, <2>3 DEF TurnInv
<1>3. ASSUME NEW w \in Workers,
             Dequeue(w) \/ NotifyDrop(w) \/ NotifyRequeue(w) \/ genaNotify(w)
      PROVE  TurnInv'
  <2>1. subs' \subseteq subs /\ UNCHANGED <<sub, sent>>
    BY <1>3 DEF Dequeue, NotifyDrop, NotifyRequeue, genaNotify, RemoveSubscriptionSID,
                subVars, histVars
  <2>2. \A v \in Workers : /\ pc'[v] \in {"transmit", "finish"} <=> Transmitting(v)
                           /\ Transmitting(v) => in'[v] = in[v]
    BY <1>0, <1>3
       DEF Dequeue, NotifyDrop, NotifyRequeue, genaNotify, Idle, Transmitting, TypeOK
  <2>3. \A s \in subs' : Busy(s)' <=> Busy(s)
    BY <2>2, BusyAgain
  <2> QED
    BY <1>k, <2>1, <2>3 DEF TurnInv
<1>4. ASSUME NEW w \in Workers, NotifyStart(w) PROVE TurnInv'
  <2> DEFINE s == in[w].sid
  <2>1. /\ pc[w] = "start" /\ pc'[w] = "transmit" /\ in' = in
        /\ \A v \in Workers : v # w => pc'[v] = pc[v]
        /\ s \in subs /\ ~Busy(s)
        /\ Len(sent'[s]) = Len(sent[s]) + 1
        /\ \A u \in Sids : u # s => sent'[u] = sent[u]
        /\ UNCHANGED <<subs, sub>>
    BY <1>4, Starting DEF subVars
  <2> HIDE DEF s
  <2>2. \A u : u = s => Busy(u)'
    BY <2>1 DEF Busy, Transmitting, s
  <2>3. \A u \in subs : u # s => (Busy(u)' <=> Busy(u))
    BY <2>1, BusyAgain DEF Transmitting, s
  <2>4. ASSUME NEW u \in subs
        PROVE  sub'[u].ToSendEventKey =
                  Stream!SeqNumber(IF Busy(u)' THEN Len(sent'[u]) ELSE Len(sent'[u]) + 1)
    <3>1. CASE u = s
      BY <1>0, <2>1, <2>2, <3>1 DEF TurnInv
    <3>2. CASE u # s
      BY <1>0, <1>k, <2>1, <2>3, <3>2
    <3> QED
      BY <3>1, <3>2
  <2> QED
    BY <2>1, <2>4 DEF TurnInv
<1>5. ASSUME NEW w \in Workers, NotifyFinish(w) PROVE TurnInv'
  <2> DEFINE s == in[w].sid
  <2>1. /\ pc[w] = "finish" /\ pc'[w] = "idle" /\ s \in Sids
        /\ \A v \in Workers : v # w => pc'[v] = pc[v] /\ in'[v] = in[v]
        /\ subs' \subseteq subs /\ UNCHANGED sent
    BY <1>0, <1>5, Ending DEF NotifyFinish, RemoveSubscriptionSID, Job, histVars
  <2>2. sub' = sub \/ sub' = [sub EXCEPT ![s].ToSendEventKey = NextKey(@)]
    BY <1>5 DEF NotifyFinish
  <2>3. s \in subs' => sub' = [sub EXCEPT ![s].ToSendEventKey = NextKey(@)]
    BY <1>0, <1>5 DEF NotifyFinish, RemoveSubscriptionSID, ListInv
  <2>4. sub \in [Sids -> Subscription]
    BY <1>0 DEF TypeOK, Subscription
  <2> HIDE DEF s
  <2>5. ASSUME NEW u \in subs', u # s
        PROVE  sub'[u].ToSendEventKey =
                  Stream!SeqNumber(IF Busy(u)' THEN Len(sent'[u]) ELSE Len(sent'[u]) + 1)
    <3>1. sub'[u].ToSendEventKey = sub[u].ToSendEventKey
      BY <1>0, <2>1, <2>2, <2>4, <2>5 DEF Subscription
    <3>2. Busy(u)' <=> Busy(u)
      BY <2>1, <2>5, BusyAgain DEF Transmitting, s
    <3> QED
      BY <1>k, <2>1, <3>1, <3>2
  <2>6. ASSUME NEW u \in subs', u = s
        PROVE  sub'[u].ToSendEventKey =
                  Stream!SeqNumber(IF Busy(u)' THEN Len(sent'[u]) ELSE Len(sent'[u]) + 1)
    <3>1. Transmitting(w) /\ Busy(s)
      BY <2>1 DEF Transmitting, Busy, s
    <3>2. \A v \in Workers : Transmitting(v) /\ in[v].sid = s => v = w
      BY <1>0, <3>1, OneTransmits DEF OneInFlight, s
    <3>3. ~Busy(u)'
      BY <2>1, <2>6, <3>2 DEF Busy, Transmitting
    <3>4. sub[s].ToSendEventKey = Stream!SeqNumber(Len(sent[s]))
      BY <1>0, <2>1, <2>6, <3>1 DEF TurnInv
    <3>5. Len(sent[s]) \in Nat \ {0}
      <4>1. Len(sent[s]) \in DOMAIN issued[s]
        BY <1>0, <3>1 DEF JobsInv, JobOf, s
      <4> QED
        BY <1>0, <2>1, <4>1, SentType
    <3>6. sub'[s].ToSendEventKey = NextKey(sub[s].ToSendEventKey)
      BY <2>1, <2>3, <2>4, <2>6 DEF Subscription
    <3>7. NextKey(Stream!SeqNumber(Len(sent[s]))) = Stream!SeqNumber(Len(sent[s]) + 1)
      BY <3>5, SeqNumbers
    <3> QED
      BY <2>1, <2>6, <3>3, <3>4, <3>6, <3>7
  <2> QED
    BY <2>5, <2>6 DEF TurnInv
<1> QED
  BY <1>1, <1>2, <1>3, <1>4, <1>5, Steps

(* Pending sets can be counted. *)
LEMMA PendingFinite ==
    ASSUME NEW e
    PROVE  Pending(e) \subseteq Sids /\ IsFiniteSet(Pending(e)) /\ Cardinality(Pending(e)) \in Nat
<1>1. Pending(e) \in SUBSET Sids /\ IsFiniteSet(Sids)
  BY GenaAssumption DEF Pending
<1>2. IsFiniteSet(Pending(e))
  BY <1>1, FS_Subset
<1> QED
  BY <1>1, <1>2, FS_CardinalityType

(* The references cover the jobs still when an event loses some of them. *)
LEMMA BuffersKept ==
    ASSUME TypeOK, BuffersInv, NEW e \in Events, NEW P, P \subseteq Pending(e)
    PROVE  Cardinality(P) <= refs[e] /\ (e \in freed => P = {})
<1>1. IsFiniteSet(Pending(e)) /\ Cardinality(Pending(e)) \in Nat /\ refs[e] \in Int
  BY PendingFinite DEF TypeOK
<1>2. IsFiniteSet(P) /\ Cardinality(P) <= Cardinality(Pending(e))
  BY <1>1, FS_Subset
<1>3. Cardinality(P) \in Nat
  BY <1>2, FS_CardinalityType
<1>4. Cardinality(Pending(e)) <= refs[e] /\ (e \in freed => Pending(e) = {})
  BY DEF BuffersInv
<1>5. e \in freed => P = {}
  BY <1>4
<1>6. Cardinality(P) <= refs[e]
  BY <1>1, <1>2, <1>3, <1>4
<1> QED
  BY <1>5, <1>6

(* The jobs of a new event are those that hold its references. *)
LEMMA PendingPublished ==
    ASSUME TypeOK, StreamsInv, JobsInv, NEW K, NEW J, NEW q, Published(K, J, q)
    PROVE  /\ \A e : e = nev' => Pending(e)' \subseteq J
           /\ \A e \in Events : e # nev' => Pending(e)' \subseteq Pending(e)
<1>1. /\ UNCHANGED <<pc, in, sent>> /\ pool' = pool \o q
      /\ pool \in Seq(Job) /\ q \in Seq(Job)
      /\ nev \in Nat /\ nev' = nev + 1
      /\ \A i \in DOMAIN q : q[i].ev = nev' /\ q[i].sid \in J
  BY GenaAssumption DEF Published, TypeOK
<1>2. ASSUME NEW i \in DOMAIN pool'
      PROVE  \/ i \in DOMAIN pool /\ pool'[i] = pool[i]
             \/ i - Len(pool) \in DOMAIN q /\ pool'[i] = q[i - Len(pool)]
  BY <1>1, JobsAdded
<1>3. ASSUME NEW i \in DOMAIN pool PROVE pool[i].ev # nev'
  <2>1. PICK n : JobOf(pool[i], n)
    BY DEF JobsInv, Waits
  <2> QED
    BY <1>1, <2>1, JobsPast
<1>4. ASSUME NEW w \in Workers, pc[w] # "idle" PROVE in[w].ev # nev'
  <2>1. PICK n : JobOf(in[w], n)
    BY <1>4 DEF JobsInv, Waits, Transmitting, TypeOK
  <2> QED
    BY <1>1, <2>1, JobsPast
<1>5. ASSUME NEW i \in DOMAIN pool'
      PROVE  \/ i \in DOMAIN pool /\ pool'[i] = pool[i] /\ pool[i].ev # nev'
             \/ pool'[i].ev = nev' /\ pool'[i].sid \in J
  BY <1>1, <1>2, <1>3
<1>6. \A e : e = nev' => Pending(e)' \subseteq J
  BY <1>1, <1>4, <1>5 DEF Pending
<1>7. \A e \in Events : e # nev' => Pending(e)' \subseteq Pending(e)
  BY <1>1, <1>5 DEF Pending
<1> QED
  BY <1>6, <1>7

(* A job that ends gives up its place among those of its event. *)
LEMMA PendingEnded ==
    ASSUME TypeOK, JobsInv, ApartInv, NEW w \in Workers, NotifyDrop(w) \/ NotifyFinish(w)
    PROVE  /\ \A e \in Events : Pending(e)' \subseteq Pending(e)
           /\ \A e : e = in[w].ev => Pending(e)' \subseteq Pending(e) \ {in[w].sid}
           /\ in[w].sid \in Pending(in[w].ev)
<1>1. /\ pc[w] # "idle" /\ in[w] \in Job /\ pc'[w] = "idle" /\ pool' = pool
      /\ \A v \in Workers : v # w => pc'[v] = pc[v] /\ in'[v] = in[v]
  BY Ending
<1>2. in[w].sid \in Pending(in[w].ev)
  BY <1>1 DEF Pending, Job
<1>3. \A e : Pending(e)' \subseteq Pending(e)
  BY <1>1 DEF Pending
<1>4. ASSUME NEW e, e = in[w].ev, in[w].sid \in Pending(e)' PROVE FALSE
  <2>1. \A i \in DOMAIN pool : ~Same(pool[i], in[w])
    BY <1>1 DEF ApartInv
  <2>2. \A v \in Workers : v # w /\ pc[v] # "idle" => ~Same(in[v], in[w])
    BY <1>1 DEF ApartInv
  <2> QED
    BY <1>1, <1>4, <2>1, <2>2 DEF Pending, Same
<1> QED
  BY <1>2, <1>3, <1>4

(* The shared parts of an event are freed with its last job. *)
LEMMA BuffersStep == GenaInv /\ [Next]_vars => BuffersInv'
<1> SUFFICES ASSUME GenaInv, [Next]_vars PROVE BuffersInv'
  OBVIOUS
<1>t. TypeOK /\ StreamsInv /\ JobsInv /\ ApartInv /\ BuffersInv
  BY DEF GenaInv
<1>e. nev \in Nat /\ \A e \in Events : e \in Nat
  BY <1>t, GenaAssumption DEF TypeOK, Events
<1>0. /\ TypeOK /\ StreamsInv /\ JobsInv /\ ApartInv /\ BuffersInv
      /\ nev \in Nat /\ \A e \in Events : e \in Nat
  BY <1>t, <1>e
<1>k. ASSUME UNCHANGED <<nev, refs, freed>>, \A e \in Events : Pending(e)' \subseteq Pending(e)
      PROVE  BuffersInv'
  <2>1. ASSUME NEW e \in Events
        PROVE Cardinality(Pending(e)') <= refs[e] /\ (e \in freed => Pending(e)' = {})
    BY <1>0, <1>k, BuffersKept
  <2> QED
    BY <1>0, <1>k, <2>1 DEF BuffersInv
<1>1. CASE Requested
  <2>1. UNCHANGED <<pool, pc, in, nev, refs, freed>>
    BY <1>1 DEF Requested, Quiet, bufVars
  <2>2. \A e \in Events : Pending(e)' \subseteq Pending(e)
    BY <2>1 DEF Pending
  <2> QED
    BY <1>k, <2>1, <2>2
<1>2. ASSUME NEW K, NEW J, NEW q, Published(K, J, q) PROVE BuffersInv'
  <2>1. /\ nev' = nev + 1 /\ nev' \in Events
        /\ \A e \in Events : e # nev' => refs'[e] = refs[e]
        /\ Cardinality(J) <= refs'[nev'] /\ refs'[nev'] \in Int
        /\ freed' \in {freed, freed \cup {nev'}}
        /\ nev' \in freed' => J = {}
        /\ J \in SUBSET Sids
    BY <1>0, <1>2 DEF Published, TypeOK
  <2>2. ASSUME NEW e \in Events, e # nev'
        PROVE  /\ Cardinality(Pending(e)') <= refs'[e]
               /\ e \in freed' => Pending(e)' = {}
               /\ e > nev' => e \notin freed'
    <3>1. Pending(e)' \subseteq Pending(e)
      BY <1>0, <1>2, <2>2, PendingPublished
    <3>2. Cardinality(Pending(e)') <= refs[e] /\ (e \in freed => Pending(e)' = {})
      BY <1>0, <3>1, BuffersKept
    <3>3. e > nev' => e > nev
      BY <1>0, <2>1
    <3> QED
      BY <1>0, <2>1, <2>2, <3>2, <3>3 DEF BuffersInv
  <2>3. ASSUME NEW e \in Events, e = nev'
        PROVE  /\ Cardinality(Pending(e)') <= refs'[e]
               /\ e \in freed' => Pending(e)' = {}
               /\ e > nev' => e \notin freed'
    <3>1. Pending(e)' \in SUBSET J /\ IsFiniteSet(Sids)
      BY <1>0, <1>2, <2>3, PendingPublished, GenaAssumption
    <3>2. IsFiniteSet(J)
      BY <2>1, <3>1, FS_Subset
    <3>3. IsFiniteSet(Pending(e)') /\ Cardinality(Pending(e)') <= Cardinality(J)
      BY <3>1, <3>2, FS_Subset
    <3>4. Cardinality(J) \in Nat /\ Cardinality(Pending(e)') \in Nat
      BY <3>2, <3>3, FS_CardinalityType
    <3>5. Cardinality(Pending(e)') <= refs'[e]
      BY <2>1, <2>3, <3>3, <3>4
    <3>6. e \in freed' => Pending(e)' = {}
      BY <2>1, <2>3, <3>1
    <3>7. ~(e > nev')
      BY <1>0, <2>3
    <3> QED
      BY <3>5, <3>6, <3>7
  <2> QED
    BY <2>2, <2>3 DEF BuffersInv
<1>3. ASSUME NEW w \in Workers, Dequeue(w) PROVE BuffersInv'
  <2>1. /\ 1 \in DOMAIN pool
        /\ \A i \in DOMAIN pool' : i + 1 \in DOMAIN pool /\ pool'[i] = pool[i + 1]
        /\ in'[w] = pool[1]
        /\ \A v \in Workers : v # w => pc'[v] = pc[v] /\ in'[v] = in[v]
        /\ UNCHANGED <<nev, refs, freed>>
    BY <1>0, <1>3, Dequeuing DEF bufVars
  <2>2. \A e \in Events : Pending(e)' \subseteq Pending(e)
    BY <2>1 DEF Pending
  <2> QED
    BY <1>k, <2>1, <2>2
<1>4. ASSUME NEW w \in Workers, NotifyDrop(w) \/ NotifyFinish(w) PROVE BuffersInv'
  <2> DEFINE d == in[w].ev
  <2>1. /\ in[w] \in Job /\ d \in Events
        /\ \A e \in Events : e # d => refs'[e] = refs[e]
        /\ refs'[d] = refs[d] - 1
        /\ freed' = IF refs'[d] = 0 THEN freed \cup {d} ELSE freed
        /\ nev' = nev
    BY <1>0, <1>4, Ending DEF Job
  <2>2. /\ \A e \in Events : Pending(e)' \subseteq Pending(e)
        /\ \A e : e = d => Pending(e)' \subseteq Pending(e) \ {in[w].sid}
        /\ in[w].sid \in Pending(d)
    BY <1>0, <1>4, PendingEnded
  <2>3. d <= nev
    <3>1. PICK n : JobOf(in[w], n)
      BY <1>0, <1>4 DEF NotifyDrop, NotifyFinish, JobsInv, Waits, Transmitting
    <3> QED
      BY <1>0, <3>1, JobsPast
  <2> HIDE DEF d
  <2>4. ASSUME NEW e \in Events, e # d
        PROVE  /\ Cardinality(Pending(e)') <= refs'[e]
               /\ e \in freed' => Pending(e)' = {}
               /\ e > nev' => e \notin freed'
    <3>1. Cardinality(Pending(e)') <= refs[e] /\ (e \in freed => Pending(e)' = {})
      BY <1>0, <2>2, BuffersKept
    <3> QED
      BY <1>0, <2>1, <2>4, <3>1 DEF BuffersInv
  <2>5. ASSUME NEW e \in Events, e = d
        PROVE  /\ Cardinality(Pending(e)') <= refs'[e]
               /\ e \in freed' => Pending(e)' = {}
               /\ e > nev' => e \notin freed'
    <3> DEFINE P == Pending(e) \ {in[w].sid}
    <3>1. in[w].sid \in Pending(e) /\ Pending(e)' \in SUBSET P
      BY <2>2, <2>5
    <3>2. IsFiniteSet(Pending(e)) /\ Cardinality(Pending(e)) \in Nat
      BY PendingFinite
    <3>3. IsFiniteSet(P) /\ Cardinality(P) = Cardinality(Pending(e)) - 1
      BY <3>1, <3>2, FS_RemoveElement
    <3> HIDE DEF P
    <3>4. IsFiniteSet(Pending(e)') /\ Cardinality(Pending(e)') <= Cardinality(P)
      BY <3>1, <3>3, FS_Subset
    <3>5. Cardinality(Pending(e)') \in Nat /\ Cardinality(P) \in Nat
      BY <3>3, <3>4, FS_CardinalityType
    <3>6. Cardinality(Pending(e)) <= refs[e] /\ refs[e] \in Int /\ e \notin freed
      BY <1>0, <3>1 DEF BuffersInv, TypeOK
    <3>7. Cardinality(Pending(e)') <= refs'[e]
      BY <2>1, <2>5, <3>2, <3>3, <3>4, <3>5, <3>6
    <3>8. ASSUME e \in freed' PROVE Pending(e)' = {}
      <4>1. refs'[e] = 0
        BY <2>1, <2>5, <3>6, <3>8
      <4>2. Cardinality(Pending(e)') = 0
        BY <3>5, <3>7, <4>1
      <4> QED
        BY <3>4, <4>2, FS_EmptySet, Zenon
    <3>9. ~(e > nev')
      BY <1>0, <2>1, <2>3, <2>5
    <3> QED
      BY <3>7, <3>8, <3>9
  <2> QED
    BY <2>4, <2>5 DEF BuffersInv
<1>5. ASSUME NEW w \in Workers, NotifyRequeue(w) PROVE BuffersInv'
  <2>1. /\ pc[w] # "idle" /\ pc'[w] = "idle"
        /\ \A v \in Workers : v # w => pc'[v] = pc[v] /\ in'[v] = in[v]
        /\ \A i \in DOMAIN pool' : \/ i \in DOMAIN pool /\ pool'[i] = pool[i]
                                   \/ pool'[i] = in[w]
        /\ UNCHANGED <<nev, refs, freed>>
    BY <1>0, <1>5, Requeuing DEF bufVars
  <2>2. \A e \in Events : Pending(e)' \subseteq Pending(e)
    BY <2>1 DEF Pending
  <2> QED
    BY <1>k, <2>1, <2>2
<1>6. ASSUME NEW w \in Workers, NotifyStart(w) \/ genaNotify(w) PROVE BuffersInv'
  <2>1. /\ UNCHANGED <<pool, in, nev, refs, freed>>
        /\ \A v \in Workers : pc'[v] # "idle" => pc[v] # "idle"
    BY <1>0, <1>6 DEF NotifyStart, genaNotify, TypeOK, bufVars
  <2>2. \A e \in Events : Pending(e)' \subseteq Pending(e)
    BY <2>1 DEF Pending
  <2> QED
    BY <1>k, <2>1, <2>2
<1> QED
  BY <1>1, <1>2, <1>3, <1>4, <1>5, <1>6, Steps

(* The invariant is inductive. *)
LEMMA GenaStep == GenaInv /\ [Next]_vars => GenaInv'
<1> SUFFICES ASSUME GenaInv, [Next]_vars PROVE GenaInv'
  OBVIOUS
<1>1. TypeOK'
  BY TypeStep
<1>2. ListInv' /\ StreamsInv' /\ JobsInv'
  BY ListStep, StreamsStep, JobsStep
<1>3. ApartInv' /\ TurnInv' /\ BuffersInv'
  BY ApartStep, TurnStep, BuffersStep
<1> QED
  BY <1>1, <1>2, <1>3 DEF GenaInv

(* It holds in every state of the program. *)
LEMMA GenaInvariant == Spec => []GenaInv
BY GenaInit, GenaStep, PTL DEF Spec

-----------------------------------------------------------------------------
(* What the list, the threads and the buffers may rely on. *)

(* The list and its count agree, and no two threads transmit to one
   subscription, through every request, expiry, 412 answer, lost job and
   unregistration, and when the event keys wrap. *)
THEOREM SubscriptionsAreSound == Spec => []SubscriptionsSound
<1>1. GenaInv => SubscriptionsSound
  <2> SUFFICES ASSUME GenaInv PROVE SubscriptionsSound
    OBVIOUS
  <2>1. TypeOK /\ TotalExact /\ JobsInv /\ ApartInv
    BY DEF GenaInv, ListInv
  <2> QED
    BY <2>1, OneTransmits DEF SubscriptionsSound
<1> QED
  BY <1>1, GenaInvariant, PTL

(* A job points to its event, and distinct jobs of an event belong to distinct
   subscriptions: as many wait and run as subscriptions are pending. *)
LEMMA OutstandingPending ==
    ASSUME TypeOK, JobsInv, ApartInv, NEW e \in Events
    PROVE  Outstanding(e) <= Cardinality(Pending(e)) /\ Outstanding(e) \in Nat
<1> DEFINE H == Holders(e)
           U == Users(e)
           SH == {s \in Sids : \E i \in DOMAIN pool : pool[i].sid = s /\ pool[i].ev = e}
           SU == {s \in Sids : \E w \in Workers : pc[w] # "idle" /\ in[w].sid = s /\ in[w].ev = e}
<1>1. /\ \A i \in DOMAIN pool : pool[i] \in Job
      /\ \A w \in Workers : in[w] # NoJob => pc[w] # "idle"
      /\ \A w \in Workers : pc[w] # "idle" => in[w] \in Job
  <2>1. \A i \in DOMAIN pool : pool[i] \in Job
    BY DEF JobsInv, Waits, JobOf
  <2>2. \A w \in Workers : in[w] # NoJob => pc[w] # "idle"
    BY DEF JobsInv
  <2>3. \A w \in Workers : pc[w] # "idle" => in[w] \in Job
    BY DEF JobsInv, Waits, JobOf, Transmitting, TypeOK
  <2> QED
    BY <2>1, <2>2, <2>3
<1>2. [i \in H |-> pool[i].sid] \in Injection(H, SH)
  <2>1. \A i \in H : pool[i].sid \in SH
    BY <1>1 DEF Holders, Job
  <2>2. \A i, k \in H : pool[i].sid = pool[k].sid => i = k
    BY DEF Holders, ApartInv, Same
  <2> HIDE DEF H, SH
  <2> QED
    BY <2>1, <2>2 DEF Injection, IsInjective
<1>3. [w \in U |-> in[w].sid] \in Injection(U, SU)
  <2>1. \A w \in U : in[w].sid \in SU
    BY <1>1 DEF Users, Job
  <2>2. \A w, v \in U : in[w].sid = in[v].sid => w = v
    BY <1>1 DEF Users, ApartInv, Same
  <2> HIDE DEF U, SU
  <2> QED
    BY <2>1, <2>2 DEF Injection, IsInjective
<1>4. SH \cap SU = {} /\ Pending(e) = SH \cup SU
  <2>1. Pending(e) = SH \cup SU
    BY DEF Pending
  <2>2. ASSUME NEW s \in SH, s \in SU PROVE FALSE
    BY <2>2 DEF ApartInv, Same
  <2> QED
    BY <2>1, <2>2
<1>5. SH \in SUBSET Sids /\ SU \in SUBSET Sids /\ IsFiniteSet(Sids)
  BY GenaAssumption
<1>6. Outstanding(e) = Cardinality(H) + Cardinality(U)
  BY DEF Outstanding
<1> HIDE DEF H, U, SH, SU
<1>7. IsFiniteSet(SH) /\ IsFiniteSet(SU)
  BY <1>5, FS_Subset
<1>8. IsFiniteSet(H) /\ Cardinality(H) <= Cardinality(SH)
  BY <1>2, <1>7, FS_Injection
<1>9. IsFiniteSet(U) /\ Cardinality(U) <= Cardinality(SU)
  BY <1>3, <1>7, FS_Injection
<1>10. Cardinality(SH \cup SU) = Cardinality(SH) + Cardinality(SU) - Cardinality(SH \cap SU)
  BY <1>7, FS_Union
<1>11. Cardinality(SH \cap SU) = 0
  BY <1>4, FS_EmptySet, Zenon
<1>12. /\ Cardinality(H) \in Nat /\ Cardinality(U) \in Nat
       /\ Cardinality(SH) \in Nat /\ Cardinality(SU) \in Nat
  BY <1>7, <1>8, <1>9, FS_CardinalityType
<1>13. Cardinality(Pending(e)) = Cardinality(SH \cup SU)
  BY <1>4, Zenon
<1> QED
  BY <1>6, <1>8, <1>9, <1>10, <1>11, <1>12, <1>13

(* No job, queued or running, points to headers or a property set that was
   freed, and there is a reference for each. *)
THEOREM BuffersAreSafe == Spec => []BuffersSafe
<1>1. GenaInv => BuffersSafe
  <2> SUFFICES ASSUME GenaInv, NEW e \in Events
               PROVE  Outstanding(e) <= refs[e] /\ (e \in freed => Outstanding(e) = 0)
    BY DEF BuffersSafe
  <2>0. TypeOK /\ JobsInv /\ ApartInv /\ BuffersInv
    BY DEF GenaInv
  <2>1. Outstanding(e) <= Cardinality(Pending(e)) /\ Outstanding(e) \in Nat
    BY <2>0, OutstandingPending
  <2>2. Cardinality(Pending(e)) \in Nat /\ refs[e] \in Int
    BY <2>0, PendingFinite DEF TypeOK
  <2>3. Cardinality(Pending(e)) <= refs[e]
    BY <2>0 DEF BuffersInv
  <2>4. e \in freed => Cardinality(Pending(e)) = 0
    BY <2>0, FS_EmptySet, Zenon DEF BuffersInv
  <2> QED
    BY <2>1, <2>2, <2>3, <2>4
<1> QED
  BY <1>1, GenaInvariant, PTL

-----------------------------------------------------------------------------
(* Eventing implements the streams of EventStream. *)

(* The abstract state of each subscription. *)
StreamState == [s \in Sids |-> IF s \in subs
                               THEN IF sub[s].active THEN "active" ELSE "pending"
                               ELSE IF s \in used THEN "ended" ELSE "none"]

(* No subscription, no event, no message. *)
LEMMA StreamInit == Init => Stream!Init
BY DEF Init, Stream!Init

(* Subscriptions that leave the list have ended. *)
LEMMA StreamEnds ==
    ASSUME TypeOK, ListInv, subs' \subseteq subs, used' = used,
           \A s \in Sids : sub'[s].active <=> sub[s].active,
           UNCHANGED <<issued, sent>>
    PROVE  Stream!Next
<1>0. PICK E : E = subs \ subs'
  OBVIOUS
<1>1. E \in SUBSET Sids /\ subs \subseteq used /\ subs' \subseteq Sids
  BY <1>0 DEF TypeOK, ListInv
<1>2. E \subseteq {s \in Sids : StreamState[s] \in {"pending", "active"}}
  BY <1>0, <1>1 DEF StreamState
<1>3. StreamState' = [s \in Sids |-> IF s \in E THEN "ended" ELSE StreamState[s]]
  <2>1. ASSUME NEW s \in Sids
        PROVE  (IF s \in subs' THEN IF sub'[s].active THEN "active" ELSE "pending"
                ELSE IF s \in used' THEN "ended" ELSE "none")
               = (IF s \in E THEN "ended" ELSE StreamState[s])
    <3>1. StreamState[s] = IF s \in subs THEN IF sub[s].active THEN "active" ELSE "pending"
                           ELSE IF s \in used THEN "ended" ELSE "none"
      BY DEF StreamState
    <3>2. sub'[s].active <=> sub[s].active
      OBVIOUS
    <3> QED
      BY <1>0, <1>1, <3>1, <3>2
  <2> QED
    BY <2>1 DEF StreamState
<1>4. Stream!End(E)
  BY <1>2, <1>3 DEF Stream!End, Stream!Ending, StreamState
<1> QED
  BY <1>1, <1>4 DEF Stream!Next

(* A subscription is accepted, whether or not its initial event goes out. *)
LEMMA StreamAccepts ==
    ASSUME TypeOK, ListInv, NEW s \in subs, ~sub[s].active, sub'[s].active,
           \A u \in Sids : u # s => sub'[u] = sub[u],
           UNCHANGED <<subs, used, sent>>,
           \/ issued' = issued
           \/ \E e \in Events : issued' = Stream!Publishing({s}, e)
    PROVE  Stream!Next
<1>1. s \in Sids
  BY DEF TypeOK
<1>2. StreamState[s] = "pending"
  BY <1>1 DEF StreamState
<1>3. StreamState' = [StreamState EXCEPT ![s] = "active"]
  BY <1>1 DEF StreamState
<1>4. Stream!Accept(s)
  BY <1>2, <1>3 DEF Stream!Accept, StreamState
<1> QED
  BY <1>1, <1>4 DEF Stream!Next

(* An event is published, and subscriptions are found to have expired. *)
LEMMA StreamPublishes ==
    ASSUME TypeOK, ListInv, NEW K \in SUBSET Targets, NEW E \in SUBSET Stale,
           NEW J, NEW q, Published(K, J, q), subs' = subs \ E, used' = used
    PROVE  Stream!Next
<1>1. /\ subs \subseteq Sids /\ subs \subseteq used
      /\ \A s \in K : s \in subs /\ s \notin E /\ sub[s].active /\ sub'[s].active
      /\ \A s \in Sids \ K : sub'[s] = sub[s]
      /\ E \in SUBSET subs /\ sent' = sent /\ nev' \in Events
  BY DEF TypeOK, ListInv, Targets, Stale, Published
<1>2. issued' = Stream!Publishing(K, nev')
  <2>1. /\ issued' \in [Sids -> Seq(Events)]
        /\ \A s \in Sids : issued'[s] = IF s \in K THEN Append(issued[s], nev') ELSE issued[s]
    BY DEF Published
  <2> QED
    BY <2>1 DEF Stream!Publishing
<1>3. K \subseteq {s \in Sids : StreamState[s] = "active"} \ E
  BY <1>1 DEF StreamState
<1>4. StreamState' = [s \in Sids |-> IF s \in E THEN "ended" ELSE StreamState[s]]
  <2>1. ASSUME NEW s \in Sids
        PROVE  (IF s \in subs' THEN IF sub'[s].active THEN "active" ELSE "pending"
                ELSE IF s \in used' THEN "ended" ELSE "none")
               = (IF s \in E THEN "ended" ELSE StreamState[s])
    <3>1. StreamState[s] = IF s \in subs THEN IF sub[s].active THEN "active" ELSE "pending"
                           ELSE IF s \in used THEN "ended" ELSE "none"
      BY DEF StreamState
    <3>2. sub'[s].active <=> sub[s].active
      BY <1>1
    <3> QED
      BY <1>1, <3>1, <3>2
  <2> QED
    BY <2>1 DEF StreamState
<1>5. \A e : e = nev' => Stream!Publish(K, E, e)
  BY <1>1, <1>2, <1>3, <1>4
     DEF Stream!Publish, Stream!Active, Stream!Ending, Stream!Publishing, StreamState
<1>6. K \in SUBSET Sids /\ E \in SUBSET Sids
  BY <1>1
<1> QED
  BY <1>1, <1>5, <1>6 DEF Stream!Next

(* The NOTIFY that is started carries the next event and its number. *)
LEMMA StreamSends ==
    ASSUME GenaInv, NEW w \in Workers, NotifyStart(w)
    PROVE  Stream!Next
<1> DEFINE s == in[w].sid
           n == Len(sent[s]) + 1
<1>0. TypeOK /\ ListInv
  BY DEF GenaInv
<1>1. /\ s \in subs /\ JobOf(in[w], n) /\ UNCHANGED <<subs, sub, used, issued>>
      /\ sent' = [sent EXCEPT ![s] = Append(@, [seq |-> in[w].eventKey, ev |-> in[w].ev])]
  BY Starting DEF NotifyStart, subVars
<1>2. /\ s \in Sids /\ n \in DOMAIN issued[s] /\ issued[s][n] = in[w].ev
      /\ in[w].eventKey = Stream!SeqNumber(n)
  BY <1>0, <1>1 DEF JobOf, TypeOK
<1>3. StreamState[s] = "active"
  <2>1. issued[s] # << >>
    BY <1>2
  <2>2. sub[s].active
    BY <1>0, <1>2, <2>1 DEF ListInv
  <2> QED
    BY <1>1, <1>2, <2>2 DEF StreamState
<1>4. Len(sent[s]) < Len(issued[s])
  BY <1>0, <1>2, SentType
<1>5. StreamState' = StreamState
  BY <1>1 DEF StreamState
<1>6. sent' = [sent EXCEPT ![s] = Append(@, [seq |-> Stream!SeqNumber(n), ev |-> issued[s][n]])]
  BY <1>1, <1>2
<1> HIDE DEF s
<1>7. Stream!Send(s)
  BY <1>1, <1>3, <1>4, <1>5, <1>6 DEF Stream!Send, StreamState
<1> QED
  BY <1>2, <1>7 DEF Stream!Next

(* Every step of the device side is a step of the streams or a stutter. *)
LEMMA StreamStep == GenaInv /\ [Next]_vars => [Stream!Next]_(Stream!vars)
<1> SUFFICES ASSUME GenaInv, [Next]_vars PROVE Stream!Next \/ UNCHANGED Stream!vars
  OBVIOUS
<1>0. TypeOK /\ ListInv /\ sub \in [Sids -> Subscription]
  BY DEF GenaInv, TypeOK, Subscription
<1>k. ASSUME subs' \subseteq subs, UNCHANGED <<sub, used, issued, sent>> PROVE Stream!Next
  BY <1>0, <1>k, StreamEnds
<1>1. ASSUME NEW s \in Sids, NEW t \in TimeOuts, genaSubscriptionRequest(s, t)
      PROVE  Stream!Next
  <2>1. /\ s \notin used /\ used' = used \cup {s} /\ subs' = subs \cup {s}
        /\ sub' = [sub EXCEPT ![s] = NewSub(ExpireTime(t))]
        /\ UNCHANGED <<issued, sent>>
    BY <1>1 DEF genaSubscriptionRequest, histVars
  <2>2. ~sub'[s].active /\ \A u \in Sids : u # s => sub'[u] = sub[u]
    BY <1>0, <2>1 DEF NewSub
  <2>3. s \notin subs
    BY <1>0, <2>1 DEF ListInv
  <2>4. StreamState[s] = "none"
    BY <2>1, <2>3 DEF StreamState
  <2>5. StreamState' = [StreamState EXCEPT ![s] = "pending"]
    BY <2>1, <2>2 DEF StreamState
  <2>6. Stream!Subscribe(s)
    BY <2>1, <2>4, <2>5 DEF Stream!Subscribe, StreamState
  <2> QED
    BY <2>6 DEF Stream!Next
<1>2. ASSUME NEW s \in Sids, NEW t \in TimeOuts, genaRenewRequest(s, t) PROVE Stream!Next
  <2>1. subs' \subseteq subs /\ UNCHANGED <<used, issued, sent>>
    BY <1>2 DEF genaRenewRequest, RemoveSubscriptionSID, histVars
  <2>2. sub' = sub \/ sub' = [sub EXCEPT ![s].expireTime = ExpireTime(t)]
    BY <1>2 DEF genaRenewRequest
  <2>3. \A u \in Sids : sub'[u].active <=> sub[u].active
    BY <1>0, <2>2 DEF Subscription
  <2> QED
    BY <1>0, <2>1, <2>3, StreamEnds
<1>3. ASSUME NEW s \in Sids, genaUnsubscribeRequest(s) PROVE Stream!Next
  BY <1>3, <1>k DEF genaUnsubscribeRequest, RemoveSubscriptionSID, histVars
<1>4. ASSUME NEW s \in Sids, genaInitNotify(s) PROVE Stream!Next
  <2>1. CASE FoundExpired(s) /\ RemoveSubscriptionSID(s)
             /\ UNCHANGED <<sub, jobVars, bufVars, histVars>>
    BY <1>4, <1>k, <2>1 DEF genaInitNotify, RemoveSubscriptionSID, histVars
  <2>2. CASE /\ Found(s) /\ ~sub[s].active
             /\ sub' = [sub EXCEPT ![s].active = TRUE]
             /\ UNCHANGED <<subs, total, jobVars, bufVars, histVars>>
    <3>1. /\ s \in subs /\ UNCHANGED <<subs, used, issued, sent>>
      BY <1>4, <2>2 DEF genaInitNotify, Found, histVars
    <3>2. sub'[s].active /\ \A u \in Sids : u # s => sub'[u] = sub[u]
      BY <1>0, <2>2 DEF Subscription
    <3> QED
      BY <1>0, <2>2, <3>1, <3>2, StreamAccepts
  <2>3. CASE /\ ~sub[s].active /\ UNCHANGED <<subs, total>>
             /\ \E J, q : Published({s}, J, q)
    <3>1. PICK J, q : Published({s}, J, q)
      BY <2>3
    <3>2. /\ s \in subs /\ sub'[s].active /\ sent' = sent /\ nev' \in Events
          /\ \A u \in Sids : u # s => sub'[u] = sub[u]
          /\ issued' \in [Sids -> Seq(Events)]
          /\ \A u \in Sids : issued'[u] = IF u \in {s} THEN Append(issued[u], nev') ELSE issued[u]
      BY <3>1 DEF Published
    <3>3. issued' = Stream!Publishing({s}, nev')
      BY <3>2 DEF Stream!Publishing
    <3>4. \E e \in Events : issued' = Stream!Publishing({s}, e)
      BY <3>2, <3>3 DEF Stream!Publishing
    <3>5. UNCHANGED <<subs, used, sent>>
      BY <1>4, <2>3, <3>2 DEF genaInitNotify
    <3> QED
      BY <1>0, <2>3, <3>2, <3>4, <3>5, StreamAccepts
  <2>4. \/ FoundExpired(s) /\ RemoveSubscriptionSID(s)
           /\ UNCHANGED <<sub, jobVars, bufVars, histVars>>
        \/ /\ Found(s) /\ ~sub[s].active
           /\ sub' = [sub EXCEPT ![s].active = TRUE]
           /\ UNCHANGED <<subs, total, jobVars, bufVars, histVars>>
        \/ nev' = nev + 1
    BY <1>4 DEF genaInitNotify
  <2>5. nev' = nev + 1 => /\ ~sub[s].active /\ UNCHANGED <<subs, total>>
                          /\ \E J, q : Published({s}, J, q)
    <3>1. nev \in Nat
      BY <1>0, GenaAssumption DEF TypeOK
    <3>2. nev' = nev + 1 => nev' # nev
      BY <3>1
    <3> QED
      BY <1>4, <3>2, Initiating, Zenon DEF Quiet, bufVars
  <2> QED
    BY <2>1, <2>2, <2>3, <2>4, <2>5
<1>5. CASE genaNotifyAll
  <2>1. PICK K \in SUBSET Targets, E \in SUBSET Stale :
           (\E J, q : Published(K, J, q)) /\ subs' = subs \ E /\ used' = used
    BY <1>5, Notifying
  <2> QED
    BY <1>0, <2>1, StreamPublishes
<1>6. ASSUME NEW w \in Workers, Dequeue(w) \/ NotifyDrop(w) \/ NotifyRequeue(w) \/ genaNotify(w)
      PROVE  Stream!Next
  BY <1>k, <1>6 DEF Dequeue, NotifyDrop, NotifyRequeue, genaNotify, RemoveSubscriptionSID,
                    subVars, histVars
<1>7. ASSUME NEW w \in Workers, NotifyStart(w) PROVE Stream!Next
  BY <1>7, StreamSends
<1>8. ASSUME NEW w \in Workers, NotifyFinish(w) PROVE Stream!Next
  <2>1. subs' \subseteq subs /\ UNCHANGED <<used, issued, sent>>
    BY <1>8 DEF NotifyFinish, RemoveSubscriptionSID, histVars
  <2>2. sub' = sub \/ sub' = [sub EXCEPT ![in[w].sid].ToSendEventKey = NextKey(@)]
    BY <1>8 DEF NotifyFinish
  <2>3. \A u \in Sids : sub'[u].active <=> sub[u].active
    BY <1>0, <2>2 DEF Subscription
  <2> QED
    BY <1>0, <2>1, <2>3, StreamEnds
<1>9. ASSUME \/ \E n \in SubscriptionMaxima : UpnpSetMaxSubscriptions(n)
             \/ \E n \in TimeOutMaxima : UpnpSetMaxSubscriptionTimeOut(n)
             \/ genaUnregisterDevice \/ FreeHandle \/ UpnpRegisterRootDevice \/ Tick
             \/ UNCHANGED vars
      PROVE Stream!Next
  BY <1>k, <1>9
     DEF UpnpSetMaxSubscriptions, UpnpSetMaxSubscriptionTimeOut, genaUnregisterDevice,
         FreeHandle, UpnpRegisterRootDevice, Tick, vars, subVars, histVars
<1> QED
  BY <1>1, <1>2, <1>3, <1>4, <1>5, <1>6, <1>7, <1>8, <1>9 DEF Next

(* The NOTIFY messages of every subscription are the events published to it,
   in order, each once and numbered as SEQ demands, through every
   interleaving, failure, requeue, expiry and unregistration. *)
THEOREM GenaImplementsStream == Spec => ImplementsEventStream
BY GenaInit, GenaStep, StreamInit, StreamStep, PTL
   DEF Spec, ImplementsEventStream, Stream!Spec

-----------------------------------------------------------------------------
(* The initial event comes first. *)

(* A subscription that the application accepted was given an event. *)
AcceptedInv == \A s \in Sids : sub[s].active => issued[s] # << >>

(* Without a failure in genaInitNotify before the key is taken, a step that
   makes a subscription active gives it an event. *)
LEMMA AcceptedStep ==
    ASSUME "prep" \notin Faults, GenaInv, AcceptedInv, [Next]_vars
    PROVE  /\ AcceptedInv'
           /\ \A s \in Sids : issued[s] = << >> /\ issued'[s] # << >>
                                 => ~sub[s].active /\ sub'[s].active
<1>0. TypeOK /\ ListInv /\ sub \in [Sids -> Subscription]
  BY DEF GenaInv, TypeOK, Subscription
<1>k. ASSUME issued' = issued, \A s \in Sids : sub'[s].active => sub[s].active
      PROVE  /\ AcceptedInv'
             /\ \A s \in Sids : issued[s] = << >> /\ issued'[s] # << >>
                                   => ~sub[s].active /\ sub'[s].active
  BY <1>k DEF AcceptedInv
<1>p. ASSUME NEW K, NEW J, NEW q, Published(K, J, q),
             \A s \in K : issued[s] = << >> => ~sub[s].active
      PROVE  /\ AcceptedInv'
             /\ \A s \in Sids : issued[s] = << >> /\ issued'[s] # << >>
                                   => ~sub[s].active /\ sub'[s].active
  <2>1. ASSUME NEW s \in Sids, s \in K PROVE issued'[s] # << >> /\ sub'[s].active
    <3>1. Len(issued[s]) + 1 \in DOMAIN issued'[s]
      BY <1>0, <1>p, <2>1, Given
    <3> QED
      BY <1>p, <2>1, <3>1 DEF Published
  <2>2. \A s \in Sids : s \notin K => issued'[s] = issued[s] /\ sub'[s] = sub[s]
    BY <1>p DEF Published
  <2> QED
    BY <1>p, <2>1, <2>2 DEF AcceptedInv
<1>1. ASSUME NEW s \in Sids, NEW t \in TimeOuts, genaSubscriptionRequest(s, t)
      PROVE  issued' = issued /\ \A u \in Sids : sub'[u].active => sub[u].active
  <2>1. sub' = [sub EXCEPT ![s] = NewSub(ExpireTime(t))] /\ issued' = issued
    BY <1>1 DEF genaSubscriptionRequest, histVars
  <2> QED
    BY <1>0, <2>1 DEF NewSub
<1>2. ASSUME NEW s \in Sids, NEW t \in TimeOuts, genaRenewRequest(s, t)
      PROVE  issued' = issued /\ \A u \in Sids : sub'[u].active => sub[u].active
  <2>1. sub' = sub \/ sub' = [sub EXCEPT ![s].expireTime = ExpireTime(t)]
    BY <1>2 DEF genaRenewRequest
  <2> QED
    BY <1>0, <1>2, <2>1 DEF genaRenewRequest, Subscription, histVars
<1>3. ASSUME NEW s \in Sids, genaInitNotify(s)
      PROVE  /\ AcceptedInv'
             /\ \A u \in Sids : issued[u] = << >> /\ issued'[u] # << >>
                                   => ~sub[u].active /\ sub'[u].active
  <2>1. CASE UNCHANGED <<sub, issued>>
    BY <1>k, <2>1
  <2>2. CASE nev' = nev + 1
    <3>1. nev \in Nat
      BY <1>0, GenaAssumption DEF TypeOK
    <3>2. nev' # nev
      BY <2>2, <3>1
    <3>3. ~sub[s].active /\ \E J, q : Published({s}, J, q)
      BY <1>3, <3>2, Initiating, Zenon DEF Quiet, bufVars
    <3> QED
      BY <1>p, <3>3
  <2> QED
    BY <1>3, <2>1, <2>2 DEF genaInitNotify, histVars
<1>4. CASE genaNotifyAll
  <2>1. PICK K \in SUBSET Targets : \E J, q : Published(K, J, q)
    BY <1>4, Notifying
  <2>2. \A s \in K : issued[s] = << >> => ~sub[s].active
    BY <1>0 DEF AcceptedInv, Targets, TypeOK
  <2> QED
    BY <1>p, <2>1, <2>2
<1>5. ASSUME NEW w \in Workers, NotifyFinish(w)
      PROVE  issued' = issued /\ \A u \in Sids : sub'[u].active => sub[u].active
  <2>1. sub' = sub \/ sub' = [sub EXCEPT ![in[w].sid].ToSendEventKey = NextKey(@)]
    BY <1>5 DEF NotifyFinish
  <2> QED
    BY <1>0, <1>5, <2>1 DEF NotifyFinish, Subscription, histVars
<1>6. ASSUME \/ \E s \in Sids : genaUnsubscribeRequest(s)
             \/ \E w \in Workers : \/ Dequeue(w) \/ NotifyDrop(w) \/ NotifyRequeue(w)
                                   \/ NotifyStart(w) \/ genaNotify(w)
             \/ \E n \in SubscriptionMaxima : UpnpSetMaxSubscriptions(n)
             \/ \E n \in TimeOutMaxima : UpnpSetMaxSubscriptionTimeOut(n)
             \/ genaUnregisterDevice \/ FreeHandle \/ UpnpRegisterRootDevice \/ Tick
             \/ UNCHANGED vars
      PROVE  UNCHANGED <<sub, issued>>
  BY <1>6
     DEF genaUnsubscribeRequest, Dequeue, NotifyDrop, NotifyRequeue, NotifyStart, genaNotify,
         UpnpSetMaxSubscriptions, UpnpSetMaxSubscriptionTimeOut, genaUnregisterDevice,
         FreeHandle, UpnpRegisterRootDevice, Tick, vars, subVars, histVars
<1> QED
  BY <1>k, <1>1, <1>2, <1>3, <1>4, <1>5, <1>6 DEF Next

(* The first event of a subscription is the one of its acceptance, whatever
   the threads, the requests and the clock do, unless genaInitNotify fails
   between making the subscription active and taking its key. *)
THEOREM InitialIsFirst ==
    ASSUME "prep" \notin Faults
    PROVE  Spec => InitialEventFirst
<1>1. Init => AcceptedInv
  BY DEF Init, AcceptedInv, NewSub
<1>2. GenaInv /\ AcceptedInv /\ [Next]_vars => AcceptedInv'
  BY AcceptedStep
<1>3. GenaInv /\ AcceptedInv /\ [Next]_vars
         => [\A s \in Sids : issued[s] = << >> /\ issued'[s] # << >>
                                => ~sub[s].active /\ sub'[s].active]_vars
  BY AcceptedStep
<1> QED
  BY <1>1, <1>2, <1>3, GenaInvariant, PTL DEF Spec, InitialEventFirst
=============================================================================

------------------------------ MODULE SdkProofs ------------------------------
(***************************************************************************)
(* Proofs about the life of the SDK: the handle table and its lock         *)
(* (HandlesSound), that no device is left half registered (DevicesWhole),  *)
(* and that an advertised device stays advertised (RefreshPending).        *)
(***************************************************************************)
EXTENDS Sdk, SequenceLemmas, FiniteSetTheorems

Pcs == {"idle", "download", "announce", "walk", "freelists", "freehandle", "rearm", "event",
        "use"}
Local == [pc : Pcs, h : Slots \cup {0}, reg : Regs \cup {NoReg}, ad : -1 .. 1,
          ev : {"none", "alive", "search"}]

(* The thread that moves in a step is t; it is at pc afterwards, with these
   locals. *)
Moved(t, pc, h, reg, ad) ==
    /\ th' \in [Threads -> Local]
    /\ th'[t].pc = pc /\ th'[t].h = h /\ th'[t].reg = reg /\ th'[t].ad = ad
    /\ \A u \in Threads \ {t} : th'[u] = th[u]

(* The thread will advertise device d, which has the handle h, and start the
   next refresh. *)
Advertises(t, h, d) ==
    /\ th[t].ad = 1 /\ th[t].h = h
    /\ th[t].pc = "announce" \/ (th[t].pc \in {"walk", "rearm"} /\ th[t].reg = d)

(* The thread knows, where it goes, what a thread has to know there; *)
Knows(t, p, k, d, a) ==
    /\ p \notin {"idle", "event"} => k \in Slots
    /\ p \in {"download", "walk", "rearm"} => d \in Devs
    /\ p = "rearm" => a = 1
    /\ p = "event" => a = 0
    /\ p \in {"walk", "download"} => HandleTable[k] = d
    /\ \/ d = NoReg
       \/ d = th[t].reg /\ k = th[t].h
       \/ k \in Slots /\ d = HandleTable[k]

(* it holds the lock where it has to; *)
Locks(t, p) ==
    \/ p \notin {"walk", "download"} /\ lock' = lock
    \/ Unlocked /\ lock' = t
    \/ p \notin {"walk", "download"} /\ lock' = NoThread /\ th[t].pc \in {"walk", "download"}

(* and if it was to refresh a device that counts as advertised, it still is. *)
Carries(t, p, k, d, a) ==
    \A h \in Slots : Advertises(t, h, HandleTable[h]) /\ HandleTable[h] \in announced
                     => a = 1 /\ k = h /\ p \in {"walk", "rearm"} /\ d = HandleTable[h]

-----------------------------------------------------------------------------
(* The invariant. *)

(* What a thread knows where it is. *)
ThreadInv ==
    /\ \A t \in Threads :
          /\ th[t].pc \notin {"idle", "event"} => th[t].h \in Slots
          /\ th[t].pc \in {"download", "walk", "rearm"} => th[t].reg \in Devs
          /\ th[t].pc = "rearm" => th[t].ad = 1
          /\ th[t].pc = "event" => th[t].ad = 0
    /\ th[Main] # Idle => main \in {"finish client", "finish timer"}

(* A registration has one handle, and none when it has not been made. *)
RegInv ==
    /\ \A g, h \in Slots : HandleTable[g] # NoReg /\ HandleTable[g] = HandleTable[h] => g = h
    /\ \A h \in Slots : HandleTable[h] \notin unused
    /\ \A t \in Threads : th[t].reg \notin unused
    /\ \A t \in Threads, h \in Slots :
          th[t].reg # NoReg /\ HandleTable[h] = th[t].reg => th[t].h = h

(* The long critical sections hold the lock, unless it was unlocked by
   another thread. *)
LockInv == stray \/ \A t \in Threads : th[t].pc \in {"walk", "download"} => lock = t

(* A refresh that reaches the device is in the timer, with the pool or with a
   thread. *)
ChainInv ==
    /\ announced \cap unused = {}
    /\ \A h \in Slots : HandleTable[h] \in announced =>
          \/ armed[h] > 0 \/ due[h] > 0
          \/ \E t \in Threads : Advertises(t, h, HandleTable[h])

Refreshing(h) == {t \in Threads : th[t].h = h /\ th[t].ad = 1}
BoundInv == \A h \in Slots : armed[h] + due[h] + Cardinality(Refreshing(h)) <= MaxEvents

SdkInv == TypeOK /\ ThreadInv /\ RegInv /\ LockInv /\ HandleHeld /\ DevicesWhole
          /\ ChainInv /\ BoundInv

-----------------------------------------------------------------------------
(* What the operators of the model do. *)

(* The record of a thread that does nothing. *)
LEMMA IdleLocal == /\ Idle \in Local /\ Idle.pc = "idle" /\ Idle.h = 0
                   /\ Idle.reg = NoReg /\ Idle.ad = 0 /\ Idle.ev = "none"
<1>1. /\ Idle.pc = "idle" /\ Idle.h = 0 /\ Idle.reg = NoReg /\ Idle.ad = 0
      /\ Idle.ev = "none"
  BY DEF Idle
<1>2. ASSUME NEW p \in Pcs, NEW k \in Slots \cup {0}, NEW d \in Regs \cup {NoReg},
             NEW a \in -1 .. 1, NEW e \in {"none", "alive", "search"}
      PROVE  [pc |-> p, h |-> k, reg |-> d, ad |-> a, ev |-> e] \in Local
  BY DEF Local
<1>3. "idle" \in Pcs /\ 0 \in -1 .. 1
  BY DEF Pcs
<1>4. Idle \in Local
  BY <1>2, <1>3 DEF Idle
<1> QED
  BY <1>1, <1>4

(* A thread goes over to a record of its own. *)
LEMMA Moves ==
    ASSUME TypeOK, NEW t \in Threads, NEW r \in Local, th' = [th EXCEPT ![t] = r]
    PROVE  Moved(t, r.pc, r.h, r.reg, r.ad) /\ th'[t] = r
<1>1. th \in [Threads -> Local]
  BY DEF TypeOK, Local, Pcs
<1> QED
  BY <1>1 DEF Moved

(* A call or a job ends. *)
LEMMA Ends ==
    ASSUME TypeOK, NEW t \in Threads, Become(t, Idle)
    PROVE  Moved(t, "idle", 0, NoReg, 0) /\ th'[t] = Idle
<1> DEFINE i == Idle
<1>1. /\ i \in Local /\ i.pc = "idle" /\ i.h = 0 /\ i.reg = NoReg /\ i.ad = 0
      /\ th' = [th EXCEPT ![t] = i]
  BY IdleLocal DEF Become
<1> HIDE DEF i
<1>2. Moved(t, "idle", 0, NoReg, 0) /\ th'[t] = i
  BY <1>1, Moves
<1> QED
  BY <1>2 DEF i

(* A thread goes on. *)
LEMMA Goes ==
    ASSUME TypeOK, NEW t \in Threads, NEW p \in Pcs
    PROVE  SetPc(t, p) => Moved(t, p, th[t].h, th[t].reg, th[t].ad)
<1>1. th \in [Threads -> Local]
  BY DEF TypeOK, Local, Pcs
<1> QED
  BY <1>1 DEF Moved, SetPc, Local

(* A thread goes on, with another registration. *)
LEMMA GoesFor ==
    ASSUME TypeOK, NEW t \in Threads, NEW p \in Pcs, NEW d \in Regs
    PROVE  th' = [th EXCEPT ![t].pc = p, ![t].reg = d] => Moved(t, p, th[t].h, d, th[t].ad)
<1>1. th \in [Threads -> Local]
  BY DEF TypeOK, Local, Pcs
<1>2. ASSUME NEW r \in Local
      PROVE  /\ [r EXCEPT !.pc = p, !.reg = d] \in Local
             /\ [r EXCEPT !.pc = p, !.reg = d].pc = p
             /\ [r EXCEPT !.pc = p, !.reg = d].reg = d
             /\ [r EXCEPT !.pc = p, !.reg = d].h = r.h
             /\ [r EXCEPT !.pc = p, !.reg = d].ad = r.ad
  BY DEF Local
<1>3. ASSUME th' = [th EXCEPT ![t].pc = p, ![t].reg = d]
      PROVE  Moved(t, p, th[t].h, d, th[t].ad)
  <2>1. th' = [th EXCEPT ![t] = [th[t] EXCEPT !.pc = p, !.reg = d]]
    BY <1>1, <1>3
  <2> QED
    BY <1>1, <1>2, <2>1 DEF Moved
<1> QED
  BY <1>3

(* A thread begins something, or fetches a Handle_Info. *)
LEMMA Begins ==
    ASSUME TypeOK, NEW t \in Threads, NEW p \in Pcs, NEW k \in Slots, NEW d \in Regs,
           NEW a \in -1 .. 1
    PROVE  /\ Become(t, [Idle EXCEPT !.pc = p, !.h = k, !.reg = d]) => Moved(t, p, k, d, 0)
           /\ Become(t, [Idle EXCEPT !.pc = p, !.h = k, !.reg = d, !.ad = a])
                 => Moved(t, p, k, d, a)
           /\ Become(t, [th[t] EXCEPT !.pc = p, !.h = k, !.reg = d])
                 => Moved(t, p, k, d, th[t].ad)
<1> DEFINE i == Idle
           j == th[t]
           u == [i EXCEPT !.pc = p, !.h = k, !.reg = d]
           v == [i EXCEPT !.pc = p, !.h = k, !.reg = d, !.ad = a]
           y == [j EXCEPT !.pc = p, !.h = k, !.reg = d]
<1>1. i \in Local /\ i.ad = 0
  BY IdleLocal
<1>2. j \in Local
  BY DEF TypeOK, Local, Pcs
<1> HIDE DEF i
<1>3. u \in Local /\ u.pc = p /\ u.h = k /\ u.reg = d /\ u.ad = 0
  BY <1>1 DEF Local
<1>4. v \in Local /\ v.pc = p /\ v.h = k /\ v.reg = d /\ v.ad = a
  BY <1>1 DEF Local
<1>5. \A z \in Local : LET q == [z EXCEPT !.pc = p, !.h = k, !.reg = d]
                       IN  q \in Local /\ q.pc = p /\ q.h = k /\ q.reg = d /\ q.ad = z.ad
  BY DEF Local
<1>6. y \in Local /\ y.pc = p /\ y.h = k /\ y.reg = d /\ y.ad = j.ad
  BY <1>2, <1>5
<1> HIDE DEF u, v, y
<1>7. /\ th' = [th EXCEPT ![t] = u] => Moved(t, p, k, d, 0)
      /\ th' = [th EXCEPT ![t] = v] => Moved(t, p, k, d, a)
      /\ th' = [th EXCEPT ![t] = y] => Moved(t, p, k, d, j.ad)
  BY <1>3, <1>4, <1>6, Moves
<1> QED
  BY <1>7 DEF u, v, y, i, Become

(* The same for a refresh, and for a packet. *)
LEMMA Takes ==
    ASSUME TypeOK, NEW t \in Threads, NEW p \in Pcs, NEW k \in Slots,
           NEW a \in -1 .. 1
    PROVE  Become(t, [Idle EXCEPT !.pc = p, !.h = k, !.ad = a]) => Moved(t, p, k, NoReg, a)
<1> DEFINE i == Idle
           v == [i EXCEPT !.pc = p, !.h = k, !.ad = a]
<1>1. i \in Local /\ i.reg = NoReg
  BY IdleLocal
<1> HIDE DEF i
<1>2. v \in Local /\ v.pc = p /\ v.h = k /\ v.reg = NoReg /\ v.ad = a
  BY <1>1 DEF Local
<1> HIDE DEF v
<1>3. th' = [th EXCEPT ![t] = v] => Moved(t, p, k, NoReg, a)
  BY <1>2, Moves
<1> QED
  BY <1>3 DEF v, i, Become

(* A thread takes a packet. *)
LEMMA TakesPacket ==
    ASSUME TypeOK, NEW t \in Threads, NEW e \in {"none", "alive", "search"}
    PROVE  Become(t, [Idle EXCEPT !.pc = "event", !.ev = e]) => Moved(t, "event", 0, NoReg, 0)
<1> DEFINE i == Idle
           v == [i EXCEPT !.pc = "event", !.ev = e]
<1>1. i \in Local /\ i.reg = NoReg /\ i.h = 0 /\ i.ad = 0
  BY IdleLocal
<1> HIDE DEF i
<1>2. v \in Local /\ v.pc = "event" /\ v.h = 0 /\ v.reg = NoReg /\ v.ad = 0
  BY <1>1 DEF Local, Pcs
<1> HIDE DEF v
<1>3. th' = [th EXCEPT ![t] = v] => Moved(t, "event", 0, NoReg, 0)
  BY <1>2, Moves
<1> QED
  BY <1>3 DEF v, i, Become

(* GetFreeHandle returns a free slot, if there is one. *)
LEMMA FreeHandleFree ==
    ASSUME FreeSlots # {}
    PROVE  GetFreeHandle \in Slots /\ HandleTable[GetFreeHandle] = NoReg
<1>1. FreeSlots \subseteq Nat
  BY SdkAssumption DEF FreeSlots, Slots
<1>2. \E h \in FreeSlots : \A g \in FreeSlots : h <= g
  BY <1>1, LeastElement
<1>3. GetFreeHandle \in FreeSlots
  BY <1>2 DEF GetFreeHandle
<1> QED
  BY <1>3 DEF FreeSlots

(* The registration that is made next is one of those not yet made. *)
LEMMA FreshUnused == \A S, r : r \in Fresh(S) => r \in unused \cap S
  BY DEF Fresh
-----------------------------------------------------------------------------
(* What keeps the parts of the invariant when one thread moves. *)

(* The threads are finitely many, *)
LEMMA ThreadsFinite == IsFiniteSet(Threads)
<1>1. IsFiniteSet(Workers \cup {Main})
  BY SdkAssumption, FS_AddElement
<1>2. IsFiniteSet((Workers \cup {Main}) \cup {App})
  BY <1>1, FS_AddElement
<1>3. (Workers \cup {Main}) \cup {App} = Threads
  BY DEF Threads
<1> QED
  BY <1>2, <1>3

(* and so are those that refresh a handle, *)
LEMMA RefreshingFinite ==
    \A h : IsFiniteSet(Refreshing(h)) /\ Cardinality(Refreshing(h)) \in Nat
<1> SUFFICES ASSUME NEW h
             PROVE  IsFiniteSet(Refreshing(h)) /\ Cardinality(Refreshing(h)) \in Nat
  OBVIOUS
<1>1. Refreshing(h) \subseteq Threads
  BY DEF Refreshing
<1>2. IsFiniteSet(Refreshing(h))
  BY <1>1, ThreadsFinite, FS_Subset
<1> QED
  BY <1>2, FS_CardinalityType

(* before the step and after it. *)
LEMMA RefreshingFiniteAfter ==
    \A h : IsFiniteSet(Refreshing(h)') /\ Cardinality(Refreshing(h)') \in Nat
<1> SUFFICES ASSUME NEW h
             PROVE  IsFiniteSet(Refreshing(h)') /\ Cardinality(Refreshing(h)') \in Nat
  OBVIOUS
<1>1. Refreshing(h)' \subseteq Threads
  BY DEF Refreshing
<1>2. IsFiniteSet(Refreshing(h)')
  BY <1>1, ThreadsFinite, FS_Subset
<1> QED
  BY <1>2, FS_CardinalityType

(* How many threads refresh handle h, the thread that moves apart. *)
LEMMA Counts ==
    ASSUME NEW t \in Threads, NEW h
    PROVE  Cardinality(Refreshing(h)) = Cardinality(Refreshing(h) \ {t})
                                        + (IF t \in Refreshing(h) THEN 1 ELSE 0)
           /\ Cardinality(Refreshing(h) \ {t}) \in Nat
<1>1. IsFiniteSet(Refreshing(h)) /\ Cardinality(Refreshing(h)) \in Nat
  BY RefreshingFinite
<1>2. IsFiniteSet(Refreshing(h) \ {t})
  BY <1>1, FS_RemoveElement
<1>3. Cardinality(Refreshing(h) \ {t}) \in Nat
  BY <1>2, FS_CardinalityType
<1>4. CASE t \in Refreshing(h)
  <2>1. Cardinality(Refreshing(h) \ {t}) = Cardinality(Refreshing(h)) - 1
    BY <1>1, <1>4, FS_RemoveElement
  <2> QED
    BY <1>1, <1>3, <1>4, <2>1
<1>5. CASE t \notin Refreshing(h)
  <2>1. Refreshing(h) \ {t} = Refreshing(h)
    BY <1>5
  <2> QED
    BY <1>1, <1>5, <2>1
<1> QED
  BY <1>4, <1>5

(* The same after the step: the other threads do not count differently. *)
LEMMA CountsAfter ==
    ASSUME NEW t \in Threads, NEW p, NEW k, NEW d, NEW a, Moved(t, p, k, d, a), NEW h
    PROVE  Cardinality(Refreshing(h)') = Cardinality(Refreshing(h) \ {t})
                                         + (IF k = h /\ a = 1 THEN 1 ELSE 0)
<1> DEFINE S == Refreshing(h) \ {t}
<1>1. IsFiniteSet(S) /\ Cardinality(S) \in Nat
  <2>1. IsFiniteSet(Refreshing(h))
    BY RefreshingFinite
  <2>2. IsFiniteSet(S)
    BY <2>1, FS_RemoveElement
  <2> QED
    BY <2>2, FS_CardinalityType
<1>2. t \notin S
  OBVIOUS
<1>3. CASE k = h /\ a = 1
  <2>1. Refreshing(h)' = S \cup {t}
    BY <1>3 DEF Refreshing, Moved
  <2>2. Cardinality(S \cup {t}) = Cardinality(S) + 1
    BY <1>1, <1>2, FS_AddElement
  <2> QED
    BY <1>1, <1>3, <2>1, <2>2
<1>4. CASE ~(k = h /\ a = 1)
  <2>1. Refreshing(h)' = S
    BY <1>4 DEF Refreshing, Moved
  <2> QED
    BY <1>1, <1>4, <2>1
<1> QED
  BY <1>3, <1>4

(* No more refreshes than MaxEvents: an event that leaves timer or pool may
   become a thread's, and a thread's an event of the timer. *)
LEMMA BoundKept ==
    ASSUME SdkInv, NEW t \in Threads, NEW p, NEW k, NEW d, NEW a, Moved(t, p, k, d, a),
           \A h \in Slots : armed'[h] \in Nat /\ due'[h] \in Nat,
           \A h \in Slots :
               armed'[h] + due'[h] + (IF k = h /\ a = 1 THEN 1 ELSE 0)
               <= armed[h] + due[h] + (IF th[t].h = h /\ th[t].ad = 1 THEN 1 ELSE 0)
    PROVE  BoundInv'
<1> SUFFICES ASSUME NEW h \in Slots
             PROVE  armed'[h] + due'[h] + Cardinality(Refreshing(h)') <= MaxEvents
  BY DEF BoundInv
<1> DEFINE n == Cardinality(Refreshing(h) \ {t})
           w == IF th[t].h = h /\ th[t].ad = 1 THEN 1 ELSE 0
           v == IF k = h /\ a = 1 THEN 1 ELSE 0
<1>1. Cardinality(Refreshing(h)) = n + w /\ n \in Nat
  BY Counts DEF Refreshing
<1>2. Cardinality(Refreshing(h)') = n + v
  BY CountsAfter
<1>3. armed[h] + due[h] + Cardinality(Refreshing(h)) <= MaxEvents
  BY DEF SdkInv, BoundInv
<1>4. armed[h] \in Nat /\ due[h] \in Nat /\ MaxEvents \in Nat
  <2>1. armed \in [Slots -> 0 .. MaxEvents] /\ due \in [Slots -> 0 .. MaxEvents]
    BY DEF SdkInv, TypeOK
  <2>2. MaxEvents \in Nat
    BY SdkAssumption
  <2> QED
    BY <2>1, <2>2
<1>5. armed'[h] + due'[h] + v <= armed[h] + due[h] + w
  OBVIOUS
<1>6. w \in Nat /\ v \in Nat
  OBVIOUS
<1> HIDE DEF n, w, v
<1> QED
  BY <1>1, <1>2, <1>3, <1>4, <1>5, <1>6

(* Arithmetic of the bounds.  One event less at a handle. *)
LEMMA OneLess ==
    ASSUME NEW f \in [Slots -> Nat], NEW h \in Slots, f[h] > 0
    PROVE  /\ [f EXCEPT ![h] = @ - 1] \in [Slots -> Nat]
           /\ [f EXCEPT ![h] = @ - 1][h] + 1 = f[h]
           /\ \A g \in Slots \ {h} : [f EXCEPT ![h] = @ - 1][g] = f[g]
<1>1. f[h] \in Nat /\ f[h] - 1 \in Nat /\ (f[h] - 1) + 1 = f[h]
  OBVIOUS
<1> QED
  BY <1>1

(* One event more at a handle. *)
LEMMA OneMore ==
    ASSUME NEW f \in [Slots -> Nat], NEW h \in Slots
    PROVE  /\ [f EXCEPT ![h] = @ + 1] \in [Slots -> Nat]
           /\ [f EXCEPT ![h] = @ + 1][h] = f[h] + 1
           /\ \A g \in Slots \ {h} : [f EXCEPT ![h] = @ + 1][g] = f[g]
<1>1. f[h] \in Nat /\ f[h] + 1 \in Nat
  OBVIOUS
<1> QED
  BY <1>1

(* Each part of a sum is within its bound. *)
LEMMA SumBounds ==
    ASSUME NEW x \in Nat, NEW y \in Nat, NEW n \in Nat, NEW m \in Nat, x + y + n <= m
    PROVE  x <= m /\ y <= m
  OBVIOUS

(* A function that is bounded everywhere. *)
LEMMA Bounded ==
    ASSUME NEW f \in [Slots -> Nat], \A h \in Slots : f[h] <= MaxEvents
    PROVE  f \in [Slots -> 0 .. MaxEvents]
<1>1. MaxEvents \in Nat
  BY SdkAssumption
<1>2. \A h \in Slots : f[h] \in 0 .. MaxEvents
  BY <1>1
<1> QED
  BY <1>2

(* A counter that has not reached its bound. *)
LEMMA OneMoreReceived ==
    ASSUME NEW m \in Nat, NEW n \in 0 .. m
    PROVE  n < m => n + 1 \in 0 .. m
  OBVIOUS

(* Where an event is added there is one, and elsewhere those that were. *)
LEMMA OneMorePositive ==
    ASSUME NEW f \in [Slots -> Nat], NEW h \in Slots
    PROVE  /\ [f EXCEPT ![h] = @ + 1][h] > 0
           /\ \A g \in Slots : f[g] > 0 => [f EXCEPT ![h] = @ + 1][g] > 0
<1>1. \A g \in Slots : f[g] \in Nat
  OBVIOUS
<1>2. f[h] + 1 > 0
  BY <1>1
<1> QED
  BY <1>1, <1>2

(* The types, when the variables of the table and the threads change. *)
LEMMA TypeKept ==
    ASSUME SdkInv, BoundInv',
           UpnpSdkInit' \in {0, 1},
           main' \in {"new", "init timer", "init ssdp", "init wait", "init server", "up",
                      "failed", "finish", "finish client", "finish timer", "deinit",
                      "set stopping", "poll", "poll again", "stop server", "finished"},
           UNCHANGED <<CallBackFn, ListenerState, listener, received>>,
           packets' \subseteq packets, timer' \in {"off", "up", "closing", "stopped"},
           HandleTable' \in [Slots -> Regs \cup {NoReg}],
           lists' \in SUBSET Devs, unused' \subseteq unused,
           lock' \in Threads \cup {NoThread}, th' \in [Threads -> Local],
           armed' \in [Slots -> Nat], due' \in [Slots -> Nat],
           announced' \in SUBSET Devs, stray' \in BOOLEAN, corrupt' \in BOOLEAN
    PROVE  TypeOK'
<1>1. \A h \in Slots : armed'[h] <= MaxEvents /\ due'[h] <= MaxEvents
  <2> SUFFICES ASSUME NEW h \in Slots
               PROVE  armed'[h] <= MaxEvents /\ due'[h] <= MaxEvents
    OBVIOUS
  <2> DEFINE n == Cardinality(Refreshing(h)')
  <2>1. n \in Nat
    BY RefreshingFiniteAfter
  <2>2. armed'[h] + due'[h] + n <= MaxEvents
    BY DEF BoundInv, Refreshing
  <2>3. armed'[h] \in Nat /\ due'[h] \in Nat
    OBVIOUS
  <2>4. MaxEvents \in Nat
    BY SdkAssumption
  <2> HIDE DEF n
  <2> QED
    BY <2>1, <2>2, <2>3, <2>4, SumBounds
<1>2. armed' \in [Slots -> 0 .. MaxEvents] /\ due' \in [Slots -> 0 .. MaxEvents]
  BY <1>1, Bounded
<1>3. TypeOK
  BY DEF SdkInv
<1> QED
  BY <1>2, <1>3 DEF TypeOK, Local, Pcs

(* What a thread has to know where it is. *)
LEMMA ThreadKept ==
    ASSUME SdkInv, NEW t \in Threads, NEW p, NEW k, NEW d, NEW a, Moved(t, p, k, d, a),
           p \notin {"idle", "event"} => k \in Slots,
           p \in {"download", "walk", "rearm"} => d \in Devs,
           p = "rearm" => a = 1, p = "event" => a = 0,
           th'[Main] # Idle => main' \in {"finish client", "finish timer"}
    PROVE  ThreadInv'
  BY DEF SdkInv, ThreadInv, Moved

(* Handles are only given up, and the thread has a registration only from the
   table, or keeps its own. *)
LEMMA RegKept ==
    ASSUME SdkInv, NEW t \in Threads, NEW p, NEW k, NEW d, NEW a, Moved(t, p, k, d, a),
           \A h \in Slots : HandleTable'[h] \in {HandleTable[h], NoReg},
           unused' = unused,
           \/ d = NoReg
           \/ d = th[t].reg /\ k = th[t].h
           \/ k \in Slots /\ d = HandleTable[k]
    PROVE  RegInv'
<1>1. RegInv /\ NoReg \notin unused
  BY SdkAssumption DEF SdkInv, TypeOK, Regs
<1>2. \A g, h \in Slots :
         HandleTable'[g] # NoReg /\ HandleTable'[g] = HandleTable'[h] => g = h
  BY <1>1 DEF RegInv
<1>3. \A h \in Slots : HandleTable'[h] \notin unused'
  BY <1>1 DEF RegInv
<1>4. \A u \in Threads : th'[u].reg \notin unused'
  BY <1>1 DEF RegInv, Moved
<1>5. \A u \in Threads, h \in Slots :
         th'[u].reg # NoReg /\ HandleTable'[h] = th'[u].reg => th'[u].h = h
  BY <1>1 DEF RegInv, Moved
<1> QED
  BY <1>2, <1>3, <1>4, <1>5 DEF RegInv

(* Only a long critical section keeps the lock. *)
LEMMA LockKept ==
    ASSUME SdkInv, NEW t \in Threads, NEW p, NEW k, NEW d, NEW a, Moved(t, p, k, d, a),
           stray' = stray,
           \/ p \notin {"walk", "download"} /\ lock' = lock
           \/ Unlocked /\ lock' = t
           \/ p \notin {"walk", "download"} /\ lock' = NoThread /\ th[t].pc \in {"walk", "download"}
    PROVE  LockInv'
<1>1. LockInv /\ NoThread \notin Threads
  BY SdkAssumption DEF SdkInv, Threads
<1> QED
  BY <1>1 DEF LockInv, Moved, Unlocked

(* Handles are given up under the lock only. *)
LEMMA HeldKept ==
    ASSUME SdkInv, NEW t \in Threads, NEW p, NEW k, NEW d, NEW a, Moved(t, p, k, d, a),
           stray' = stray,
           \/ HandleTable' = HandleTable
           \/ Unlocked \/ th[t].pc \in {"walk", "download"},
           p \in {"walk", "download"} => HandleTable'[k] = d
    PROVE  HandleHeld'
<1>1. LockInv /\ HandleHeld /\ NoThread \notin Threads
  BY SdkAssumption DEF SdkInv, Threads
<1> QED
  BY <1>1 DEF LockInv, HandleHeld, Moved, Unlocked

(* No device loses its lists or the thread that is freeing it. *)
LEMMA WholeKept ==
    ASSUME SdkInv, NEW t \in Threads, NEW p, NEW k, NEW d, NEW a, Moved(t, p, k, d, a),
           \A h \in Slots : HandleTable'[h] \in {HandleTable[h], NoReg},
           lists \subseteq lists',
           \/ th[t].pc \notin {"download", "freehandle"}
           \/ th[t].reg \in lists'
           \/ HandleTable'[th[t].h] = NoReg
    PROVE  DevicesWhole'
<1>1. DevicesWhole /\ NoReg \notin Devs
  BY SdkAssumption DEF SdkInv
<1> QED
  BY <1>1 DEF DevicesWhole, Moved

(* A thread that does not hold a chain of refreshes breaks none. *)
LEMMA ChainKept ==
    ASSUME SdkInv, NEW t \in Threads, NEW p, NEW k, NEW d, NEW a, Moved(t, p, k, d, a),
           \A h \in Slots : HandleTable'[h] \in {HandleTable[h], NoReg},
           unused' = unused, announced' \subseteq announced,
           UNCHANGED <<armed, due>>,
           Carries(t, p, k, d, a)
    PROVE  ChainInv'
<1> USE DEF Carries
<1>1. ChainInv /\ announced \subseteq Devs /\ NoReg \notin Devs
  BY SdkAssumption DEF SdkInv, TypeOK
<1>2. announced' \cap unused' = {}
  BY <1>1 DEF ChainInv
<1>3. ASSUME NEW h \in Slots, HandleTable'[h] \in announced'
      PROVE  armed'[h] > 0 \/ due'[h] > 0 \/ \E u \in Threads : Advertises(u, h, HandleTable[h])'
  <2>1. HandleTable'[h] = HandleTable[h] /\ HandleTable[h] \in announced
    BY <1>1, <1>3
  <2>2. CASE armed[h] > 0 \/ due[h] > 0
    BY <2>2
  <2>3. ASSUME NEW u \in Threads, Advertises(u, h, HandleTable[h])
        PROVE  Advertises(u, h, HandleTable[h])'
    <3>1. CASE u = t
      BY <2>1, <2>3, <3>1 DEF Advertises, Moved
    <3>2. CASE u # t
      BY <2>1, <2>3, <3>2 DEF Advertises, Moved
    <3> QED
      BY <3>1, <3>2
  <2> QED
    BY <1>1, <2>1, <2>2, <2>3 DEF ChainInv
<1> QED
  BY <1>2, <1>3 DEF ChainInv

-----------------------------------------------------------------------------
(* The steps.  What the invariant says of the types, in short. *)
LEMMA Types ==
    SdkInv => /\ th \in [Threads -> Local]
              /\ HandleTable \in [Slots -> Regs \cup {NoReg}]
              /\ lists \in SUBSET Devs /\ unused \in SUBSET Regs
              /\ lock \in Threads \cup {NoThread}
              /\ armed \in [Slots -> Nat] /\ due \in [Slots -> Nat]
              /\ announced \in SUBSET Devs
              /\ stray \in BOOLEAN /\ corrupt \in BOOLEAN
<1>1. SdkInv => /\ th \in [Threads -> Local]
                /\ HandleTable \in [Slots -> Regs \cup {NoReg}]
                /\ lists \in SUBSET Devs /\ unused \in SUBSET Regs
                /\ lock \in Threads \cup {NoThread}
                /\ announced \in SUBSET Devs
                /\ stray \in BOOLEAN /\ corrupt \in BOOLEAN
  BY DEF SdkInv, TypeOK, Local, Pcs
<1>2. SdkInv => armed \in [Slots -> 0 .. MaxEvents] /\ due \in [Slots -> 0 .. MaxEvents]
  BY DEF SdkInv, TypeOK
<1>3. SdkInv => armed \in [Slots -> Nat] /\ due \in [Slots -> Nat]
  BY <1>2
<1> QED
  BY <1>1, <1>3

(* The thread that finishes the SDK has something to do only there. *)
LEMMA MainKept ==
    ASSUME SdkInv, NEW t \in Threads, NEW p, NEW k, NEW d, NEW a, Moved(t, p, k, d, a),
           main' = main, t # Main \/ th[t].pc # "idle"
    PROVE  th'[Main] # Idle => main' \in {"finish client", "finish timer"}
<1>1. Idle.pc = "idle" /\ Main \in Threads
  BY IdleLocal DEF Threads
<1> QED
  BY <1>1 DEF SdkInv, ThreadInv, Moved

(* A thread that does not begin a refresh adds none. *)
LEMMA BoundSame ==
    ASSUME SdkInv, NEW t \in Threads, NEW p, NEW k, NEW d, NEW a, Moved(t, p, k, d, a),
           UNCHANGED <<armed, due>>,
           a = 1 => th[t].ad = 1 /\ th[t].h = k
    PROVE  BoundInv'
<1>1. armed \in [Slots -> Nat] /\ due \in [Slots -> Nat]
  BY Types
<1>2. \A h \in Slots :
         /\ armed'[h] \in Nat /\ due'[h] \in Nat
         /\ armed'[h] + due'[h] + (IF k = h /\ a = 1 THEN 1 ELSE 0)
            <= armed[h] + due[h] + (IF th[t].h = h /\ th[t].ad = 1 THEN 1 ELSE 0)
  BY <1>1
<1> QED
  BY <1>2, BoundKept

(* A step of a thread that leaves the table and the timer alone. *)
LEMMA MovesOn ==
    ASSUME SdkInv, NEW t \in Threads, NEW p, NEW k, NEW d, NEW a, Moved(t, p, k, d, a),
           BoundInv',
           UNCHANGED <<table, timing, announced, stray, CallBackFn, ListenerState, listener,
                       received>>,
           UpnpSdkInit' \in {0, 1}, packets' \subseteq packets, corrupt' \in BOOLEAN,
           main' \in {main, "finish client"},
           th'[Main] # Idle => main' \in {"finish client", "finish timer"},
           Knows(t, p, k, d, a), Locks(t, p),
           th[t].pc \notin {"download", "freehandle"},
           Carries(t, p, k, d, a)
    PROVE  SdkInv'
<1>1. /\ HandleTable' = HandleTable /\ lists' = lists /\ unused' = unused
      /\ timer' = timer /\ armed' = armed /\ due' = due
  BY DEF table, timing
<1>2. /\ lock' \in Threads \cup {NoThread} /\ th' \in [Threads -> Local]
      /\ main' \in {"new", "init timer", "init ssdp", "init wait", "init server", "up",
                      "failed", "finish", "finish client", "finish timer", "deinit",
                      "set stopping", "poll", "poll again", "stop server", "finished"}
      /\ timer' \in {"off", "up", "closing", "stopped"}
  BY <1>1, Types DEF SdkInv, TypeOK, Moved, Locks
<1>3. TypeOK'
  BY <1>1, <1>2, Types, TypeKept
<1>4. ThreadInv'
  BY ThreadKept DEF Knows
<1>5. RegInv'
  BY <1>1, RegKept DEF Knows
<1>6. LockInv'
  BY LockKept DEF Locks
<1>7. HandleHeld'
  BY <1>1, HeldKept DEF Knows
<1>8. DevicesWhole'
  BY <1>1, WholeKept
<1>9. ChainInv'
  <2>1. \A h \in Slots : HandleTable'[h] \in {HandleTable[h], NoReg}
    BY <1>1
  <2>2. unused' = unused /\ announced' \subseteq announced /\ UNCHANGED <<armed, due>>
    BY <1>1
  <2> QED
    BY <2>1, <2>2, ChainKept
<1> QED
  BY <1>3, <1>4, <1>5, <1>6, <1>7, <1>8, <1>9 DEF SdkInv

(* The usual one: SdkInit, main and the listener are left alone too, and no
   chain begins. *)
LEMMA Continues ==
    ASSUME SdkInv, NEW t \in Threads, NEW p, NEW k, NEW d, NEW a, Moved(t, p, k, d, a),
           UNCHANGED <<UpnpSdkInit, main, table, listening, timing, announced, stray>>,
           corrupt' \in BOOLEAN,
           t # Main \/ th[t].pc # "idle",
           a = 1 => th[t].ad = 1 /\ th[t].h = k,
           Knows(t, p, k, d, a), Locks(t, p),
           th[t].pc \notin {"download", "freehandle"},
           Carries(t, p, k, d, a)
    PROVE  SdkInv'
<1>1. /\ UNCHANGED <<table, timing, announced, stray, CallBackFn, ListenerState, listener,
                     received>>
      /\ UpnpSdkInit' \in {0, 1} /\ packets' \subseteq packets
      /\ main' = main
  BY DEF listening, SdkInv, TypeOK
<1>2. th'[Main] # Idle => main' \in {"finish client", "finish timer"}
  BY <1>1, MainKept
<1>3. BoundInv'
  BY BoundSame DEF timing
<1> QED
  BY <1>1, <1>2, <1>3, MovesOn

(* A thread takes the lock in AdvertiseAndReply, or finds the handle gone. *)
LEMMA AdvertiseStep ==
    ASSUME SdkInv, NEW t \in Threads, AdvertiseAndReply(t)
    PROVE  SdkInv'
<1> DEFINE h == th[t].h
           r == th[t].reg
           a == th[t].ad
<1>1. /\ th[t].pc = "announce" /\ Unlocked /\ corrupt' \in BOOLEAN
      /\ UNCHANGED <<UpnpSdkInit, main, table, listening, timing, announced, stray>>
      /\ TypeOK /\ h \in Slots
  <2>1. /\ th[t].pc = "announce" /\ Unlocked /\ corrupt' = corrupt
        /\ UNCHANGED <<UpnpSdkInit, main, table, listening, timing, announced, stray>>
    BY DEF AdvertiseAndReply, ghosts
  <2> QED
    BY <2>1, Types DEF SdkInv, ThreadInv
<1>2. ASSUME HandleTable[h] \in Devs
      PROVE  SdkInv'
  <2> DEFINE d == HandleTable[h]
  <2>1. lock' = t /\ th' = [th EXCEPT ![t].pc = "walk", ![t].reg = d]
    BY <1>2 DEF AdvertiseAndReply
  <2>2. Moved(t, "walk", h, d, a)
    BY <1>1, <1>2, <2>1, GoesFor DEF Pcs, Regs
  <2>3. Knows(t, "walk", h, d, a) /\ Locks(t, "walk")
    BY <1>1, <1>2, <2>1 DEF Knows, Locks
  <2>4. Carries(t, "walk", h, d, a)
    BY DEF Carries, Advertises
  <2> QED
    BY <1>1, <2>2, <2>3, <2>4, Continues
<1>3. ASSUME HandleTable[h] \notin Devs, a = -1
      PROVE  SdkInv'
  <2>1. lock' = lock /\ SetPc(t, "freelists")
    BY <1>3 DEF AdvertiseAndReply
  <2>2. Moved(t, "freelists", h, r, a)
    BY <1>1, <2>1, Goes DEF Pcs
  <2>3. Knows(t, "freelists", h, r, a) /\ Locks(t, "freelists")
    BY <1>1, <2>1 DEF Knows, Locks
  <2>4. Carries(t, "freelists", h, r, a)
    BY <1>3 DEF Carries, Advertises
  <2> QED
    BY <1>1, <2>2, <2>3, <2>4, Continues
<1>4. ASSUME HandleTable[h] \notin Devs, a # -1
      PROVE  SdkInv'
  <2>1. lock' = lock /\ Become(t, Idle)
    BY <1>4 DEF AdvertiseAndReply
  <2>2. Moved(t, "idle", 0, NoReg, 0)
    BY <1>1, <2>1, Ends
  <2>3. Knows(t, "idle", 0, NoReg, 0) /\ Locks(t, "idle")
    BY <2>1 DEF Knows, Locks
  <2>4. Carries(t, "idle", 0, NoReg, 0)
    BY <1>4, Types DEF Carries, Advertises
  <2> QED
    BY <1>1, <2>2, <2>3, <2>4, Continues
<1> QED
  BY <1>2, <1>3, <1>4

(* It leaves the lock, and goes on to the next refresh or to free the lists. *)
LEMMA AnnouncedStep ==
    ASSUME SdkInv, NEW t \in Threads, Announced(t)
    PROVE  SdkInv'
<1> DEFINE h == th[t].h
           r == th[t].reg
           a == th[t].ad
<1>1. /\ th[t].pc = "walk" /\ lock' = NoThread /\ corrupt' \in BOOLEAN
      /\ UNCHANGED <<UpnpSdkInit, main, table, listening, timing, announced, stray>>
      /\ TypeOK /\ h \in Slots /\ r \in Devs /\ a \in -1 .. 1
  <2>1. /\ th[t].pc = "walk" /\ lock' = NoThread /\ corrupt' = (corrupt \/ r \notin lists)
        /\ UNCHANGED <<UpnpSdkInit, main, table, listening, timing, announced, stray>>
    BY DEF Announced
  <2>2. corrupt' \in BOOLEAN
    BY <2>1, Types
  <2>3. a \in -1 .. 1
    BY Types DEF Local
  <2> QED
    BY <2>1, <2>2, <2>3 DEF SdkInv, ThreadInv
<1>2. ASSUME NEW p \in Pcs, SetPc(t, p), p \in {"rearm", "freelists"},
             a = (IF p = "rearm" THEN 1 ELSE -1)
      PROVE  SdkInv'
  <2>1. Moved(t, p, h, r, a)
    BY <1>1, <1>2, Goes
  <2>2. Knows(t, p, h, r, a) /\ Locks(t, p)
    BY <1>1, <1>2 DEF Knows, Locks
  <2>3. Carries(t, p, h, r, a)
    BY <1>1, <1>2 DEF Carries, Advertises
  <2> QED
    BY <1>1, <2>1, <2>2, <2>3, Continues
<1>3. CASE a = 1
  <2>1. SetPc(t, "rearm")
    BY <1>3 DEF Announced, SetPc
  <2>2. "rearm" \in Pcs
    BY DEF Pcs
  <2>3. a = (IF "rearm" = "rearm" THEN 1 ELSE -1)
    BY <1>3
  <2> QED
    BY <1>2, <2>1, <2>2, <2>3
<1>4. CASE a = -1
  <2>1. SetPc(t, "freelists")
    BY <1>4 DEF Announced, SetPc
  <2> QED
    BY <1>2, <1>4, <2>1 DEF Pcs
<1>5. CASE a = 0
  <2>1. Become(t, Idle)
    BY <1>5 DEF Announced, Become
  <2>2. Moved(t, "idle", 0, NoReg, 0)
    BY <1>1, <2>1, Ends
  <2>3. Knows(t, "idle", 0, NoReg, 0) /\ Locks(t, "idle")
    BY <1>1 DEF Knows, Locks
  <2>4. Carries(t, "idle", 0, NoReg, 0)
    BY <1>5 DEF Carries, Advertises
  <2> QED
    BY <1>1, <2>2, <2>3, <2>4, Continues
<1> QED
  BY <1>1, <1>3, <1>4, <1>5

(* The handler of a packet fetches a Handle_Info, *)
LEMMA SsdpCallbackStep ==
    ASSUME SdkInv, NEW t \in Threads, SsdpCallbackEventHandler(t)
    PROVE  SdkInv'
<1>1. /\ th[t].pc = "event" /\ th[t].ad = 0 /\ lock' = lock /\ corrupt' \in BOOLEAN
      /\ UNCHANGED <<UpnpSdkInit, main, table, listening, timing, announced, stray>>
      /\ TypeOK
  <2>1. /\ th[t].pc = "event" /\ lock' = lock /\ corrupt' = corrupt
        /\ UNCHANGED <<UpnpSdkInit, main, table, listening, timing, announced, stray>>
    BY DEF SsdpCallbackEventHandler, ghosts
  <2> QED
    BY <2>1, Types DEF SdkInv, ThreadInv
<1>2. ASSUME Become(t, Idle)
      PROVE  SdkInv'
  <2>1. Moved(t, "idle", 0, NoReg, 0)
    BY <1>1, <1>2, Ends
  <2>2. Knows(t, "idle", 0, NoReg, 0) /\ Locks(t, "idle")
    BY <1>1 DEF Knows, Locks
  <2>3. Carries(t, "idle", 0, NoReg, 0)
    BY <1>1 DEF Carries, Advertises
  <2> QED
    BY <1>1, <2>1, <2>2, <2>3, Continues
<1>3. ASSUME NEW h \in Slots, HandleTable[h] \in Regs,
             Become(t, [th[t] EXCEPT !.pc = "use", !.h = h, !.reg = HandleTable[h]])
      PROVE  SdkInv'
  <2> DEFINE d == HandleTable[h]
  <2>1. Moved(t, "use", h, d, th[t].ad)
    <3>1. "use" \in Pcs /\ 0 \in -1 .. 1
      BY DEF Pcs
    <3> QED
      BY <1>1, <1>3, <3>1, Begins
  <2>2. Knows(t, "use", h, d, th[t].ad) /\ Locks(t, "use")
    BY <1>1, <1>3 DEF Knows, Locks
  <2>3. Carries(t, "use", h, d, th[t].ad)
    BY <1>1 DEF Carries, Advertises
  <2> QED
    BY <1>1, <2>1, <2>2, <2>3, Continues
<1>4. \A S \in {Devs, Clis} : \A h \in FirstOf(S) : h \in Slots /\ HandleTable[h] \in Regs
  BY DEF FirstOf, Regs
<1> QED
  BY <1>2, <1>3, <1>4 DEF SsdpCallbackEventHandler

(* and uses it. *)
LEMMA UseHandleInfoStep ==
    ASSUME SdkInv, NEW t \in Threads, UseHandleInfo(t)
    PROVE  SdkInv'
<1> DEFINE h == th[t].h
           r == th[t].reg
           a == th[t].ad
<1>1. /\ th[t].pc = "use" /\ lock' = lock /\ corrupt' \in BOOLEAN
      /\ UNCHANGED <<UpnpSdkInit, main, table, listening, timing, announced, stray>>
      /\ TypeOK /\ h \in Slots
  <2>1. /\ th[t].pc = "use" /\ lock' = lock /\ corrupt' = (corrupt \/ HandleTable[h] # r)
        /\ UNCHANGED <<UpnpSdkInit, main, table, listening, timing, announced, stray>>
    BY DEF UseHandleInfo
  <2>2. corrupt' \in BOOLEAN
    BY <2>1, Types
  <2> QED
    BY <2>1, <2>2, Types DEF SdkInv, ThreadInv
<1>2. ASSUME SetPc(t, "announce")
      PROVE  SdkInv'
  <2>1. Moved(t, "announce", h, r, a)
    BY <1>1, <1>2, Goes DEF Pcs
  <2>2. Knows(t, "announce", h, r, a) /\ Locks(t, "announce")
    BY <1>1 DEF Knows, Locks
  <2>3. Carries(t, "announce", h, r, a)
    BY <1>1 DEF Carries, Advertises
  <2> QED
    BY <1>1, <2>1, <2>2, <2>3, Continues
<1>3. ASSUME Become(t, Idle)
      PROVE  SdkInv'
  <2>1. Moved(t, "idle", 0, NoReg, 0)
    BY <1>1, <1>3, Ends
  <2>2. Knows(t, "idle", 0, NoReg, 0) /\ Locks(t, "idle")
    BY <1>1 DEF Knows, Locks
  <2>3. Carries(t, "idle", 0, NoReg, 0)
    BY <1>1 DEF Carries, Advertises
  <2> QED
    BY <1>1, <2>1, <2>2, <2>3, Continues
<1> QED
  BY <1>2, <1>3 DEF UseHandleInfo

(* A thread takes a packet. *)
LEMMA TransferResStep ==
    ASSUME SdkInv, NEW t \in Workers, TransferResEvent(t)
    PROVE  SdkInv'
<1>1. t \in Threads /\ t # Main /\ th[t].pc = "idle" /\ th[t].ad = 0
  BY SdkAssumption, IdleLocal DEF Threads, TransferResEvent
<1>2. /\ UNCHANGED <<table, timing, announced, stray, CallBackFn, ListenerState, listener,
                     received>>
      /\ UpnpSdkInit' \in {0, 1} /\ packets' \subseteq packets /\ corrupt' \in BOOLEAN
      /\ main' = main /\ lock' = lock /\ TypeOK
  <2>1. /\ UNCHANGED <<table, timing, announced, stray, CallBackFn, ListenerState, listener,
                       received>>
        /\ UpnpSdkInit' = UpnpSdkInit /\ packets' \subseteq packets /\ corrupt' = corrupt
        /\ main' = main /\ lock' = lock
    BY DEF TransferResEvent, ghosts
  <2> QED
    BY <2>1 DEF SdkInv, TypeOK
<1>3. PICK e \in packets : Become(t, [Idle EXCEPT !.pc = "event", !.ev = e])
  BY DEF TransferResEvent
<1>4. e \in {"none", "alive", "search"}
  BY DEF SdkInv, TypeOK
<1>5. Moved(t, "event", 0, NoReg, 0)
  BY <1>1, <1>2, <1>3, <1>4, TakesPacket
<1>6. th'[Main] # Idle => main' \in {"finish client", "finish timer"}
  BY <1>1, <1>2, <1>5, MainKept
<1>7. BoundInv'
  BY <1>1, <1>2, <1>5, BoundSame DEF timing
<1>8. Knows(t, "event", 0, NoReg, 0) /\ Locks(t, "event")
  BY <1>2 DEF Knows, Locks
<1>9. Carries(t, "event", 0, NoReg, 0)
  BY <1>1 DEF Carries, Advertises
<1> QED
  BY <1>1, <1>2, <1>5, <1>6, <1>7, <1>8, <1>9, MovesOn

(* ad = 1 marks a refresh; a bye-bye, -1, and an answer, 0, are none. *)
LEMMA ByeIsNotRefresh == -1 # 1 /\ 0 # 1
  OBVIOUS

(* A thread begins to unregister a device. *)
LEMMA UnRegisterBegins ==
    ASSUME SdkInv, NEW t \in Threads, NEW h \in Slots, UpnpUnRegisterRootDevice(t, h),
           th[t] = Idle
    PROVE  /\ HandleTable[h] \in Devs /\ Unlocked
           /\ Moved(t, "announce", h, HandleTable[h], -1)
           /\ Knows(t, "announce", h, HandleTable[h], -1)
           /\ Carries(t, "announce", h, HandleTable[h], -1)
           /\ th[t].pc = "idle" /\ th[t].ad = 0
<1> DEFINE d == HandleTable[h]
<1>1. /\ d \in Devs /\ d \in Regs /\ Unlocked /\ TypeOK
      /\ Become(t, [Idle EXCEPT !.pc = "announce", !.h = h, !.reg = d, !.ad = -1])
  BY DEF UpnpUnRegisterRootDevice, Regs, SdkInv
<1>2. "announce" \in Pcs /\ -1 \in -1 .. 1
  BY DEF Pcs
<1>3. Moved(t, "announce", h, d, -1)
  BY <1>1, <1>2, Begins
<1>4. th[t].pc = "idle" /\ th[t].ad = 0
  BY IdleLocal
<1>5. Knows(t, "announce", h, d, -1) /\ Carries(t, "announce", h, d, -1)
  BY <1>4 DEF Knows, Carries, Advertises
<1> QED
  BY <1>1, <1>3, <1>4, <1>5

(* The application does. *)
LEMMA UnRegisterRootDeviceStep ==
    ASSUME SdkInv, UnRegisterRootDevice(App)
    PROVE  SdkInv'
<1>1. PICK h \in Slots : UpnpUnRegisterRootDevice(App, h)
  BY DEF UnRegisterRootDevice
<1>2. App \in Threads /\ App # Main /\ th[App] = Idle
  BY SdkAssumption DEF Threads, UnRegisterRootDevice, MayCall
<1> DEFINE d == HandleTable[h]
<1>3. /\ Moved(App, "announce", h, d, -1) /\ Knows(App, "announce", h, d, -1)
      /\ Carries(App, "announce", h, d, -1)
      /\ th[App].pc = "idle"
  BY <1>1, <1>2, UnRegisterBegins
<1>4. /\ UNCHANGED <<UpnpSdkInit, main, table, listening, timing, announced, stray>>
      /\ corrupt' = corrupt /\ lock' = lock
  BY DEF UnRegisterRootDevice, ghosts
<1>5. Locks(App, "announce") /\ corrupt' \in BOOLEAN
  BY <1>4, Types DEF Locks
<1> QED
  BY <1>2, <1>3, <1>4, <1>5, Continues

(* UpnpFinish unregisters a device, or goes on at once. *)
LEMMA UpnpFinishUnRegisters ==
    ASSUME SdkInv, UpnpFinish, NEW h \in Slots, UpnpUnRegisterRootDevice(Main, h),
           main' = "finish client"
    PROVE  SdkInv'
<1>1. Main \in Threads /\ th[Main] = Idle
  <2>1. main = "finish"
    BY DEF UpnpFinish
  <2> QED
    BY <2>1 DEF Threads, SdkInv, ThreadInv
<1> DEFINE d == HandleTable[h]
<1>2. /\ Moved(Main, "announce", h, d, -1) /\ Knows(Main, "announce", h, d, -1)
      /\ Carries(Main, "announce", h, d, -1)
      /\ th[Main].pc = "idle"
  BY <1>1, UnRegisterBegins
<1>3. /\ UNCHANGED <<table, timing, announced, stray, CallBackFn, ListenerState, listener,
                     received>>
      /\ UpnpSdkInit' \in {0, 1} /\ packets' \subseteq packets /\ corrupt' \in BOOLEAN
      /\ lock' = lock
  <2>1. UNCHANGED <<table, lock, listening, timing, ghosts>>
    BY DEF UpnpFinish
  <2>2. UpnpSdkInit' \in {0, UpnpSdkInit}
    BY DEF UpnpFinish
  <2> QED
    BY <2>1, <2>2, Types DEF ghosts, listening, SdkInv, TypeOK
<1>4. BoundInv'
  <2>1. UNCHANGED <<armed, due>>
    BY <1>3 DEF timing
  <2>2. -1 # 1
    BY ByeIsNotRefresh
  <2> QED
    BY <1>1, <1>2, <2>1, <2>2, BoundSame
<1>5. Locks(Main, "announce")
  BY <1>3 DEF Locks
<1> QED
  BY <1>1, <1>2, <1>3, <1>4, <1>5, MovesOn

(* The types after a step of a thread that leaves SdkInit, main and the
   listener alone. *)
LEMMA TypeOfMoved ==
    ASSUME SdkInv, BoundInv', NEW t, NEW p, NEW k, NEW d, NEW a, Moved(t, p, k, d, a),
           UNCHANGED <<UpnpSdkInit, main, listening, stray, corrupt>>,
           timer' \in {timer, "closing", "stopped"},
           HandleTable' \in [Slots -> Regs \cup {NoReg}],
           lists' \in SUBSET Devs, unused' \subseteq unused,
           lock' \in Threads \cup {NoThread},
           armed' \in [Slots -> Nat], due' \in [Slots -> Nat],
           announced' \in SUBSET Devs
    PROVE  TypeOK'
<1>1. /\ UNCHANGED <<CallBackFn, ListenerState, listener, received>>
      /\ packets' \subseteq packets /\ th' \in [Threads -> Local]
  BY DEF listening, Moved
<1>2. /\ UpnpSdkInit' \in {0, 1}
      /\ main' \in {"new", "init timer", "init ssdp", "init wait", "init server", "up",
                      "failed", "finish", "finish client", "finish timer", "deinit",
                      "set stopping", "poll", "poll again", "stop server", "finished"}
      /\ timer' \in {"off", "up", "closing", "stopped"}
      /\ stray' \in BOOLEAN /\ corrupt' \in BOOLEAN
  BY DEF SdkInv, TypeOK
<1> QED
  BY <1>1, <1>2, TypeKept

(* The lists are freed: the thread is going to free the handle. *)
LEMMA FreeListsStep ==
    ASSUME SdkInv, NEW t \in Threads, FreeLists(t)
    PROVE  SdkInv'
<1> DEFINE h == th[t].h
           r == th[t].reg
           a == th[t].ad
<1>1. /\ th[t].pc = "freelists" /\ lists' = lists \ {r} /\ SetPc(t, "freehandle")
      /\ UpnpSdkInit' = UpnpSdkInit /\ main' = main /\ lock' = lock
      /\ HandleTable' = HandleTable /\ unused' = unused
      /\ UNCHANGED listening
      /\ timer' = timer /\ armed' = armed /\ due' = due
      /\ announced' = announced /\ stray' = stray /\ corrupt' = corrupt
  BY DEF FreeLists, timing, ghosts
<1>2. TypeOK /\ h \in Slots /\ RegInv /\ DevicesWhole /\ NoReg \notin Devs
  BY <1>1, SdkAssumption DEF SdkInv, ThreadInv
<1>3. Moved(t, "freehandle", h, r, a)
  BY <1>1, <1>2, Goes DEF Pcs
<1>4. BoundInv'
  BY <1>1, <1>3, BoundSame
<1>5. TypeOK'
  <2>1. lists' \in SUBSET Devs
    BY <1>1, Types
  <2> QED
    BY <1>1, <1>3, <1>4, <2>1, Types, TypeOfMoved
<1>6. ThreadInv'
  <2>1. th'[Main] # Idle => main' \in {"finish client", "finish timer"}
    BY <1>1, <1>3, MainKept
  <2> QED
    BY <1>2, <1>3, <2>1, ThreadKept
<1>7. RegInv'
  BY <1>1, <1>3, RegKept
<1>8. LockInv'
  BY <1>1, <1>3, LockKept
<1>9. HandleHeld'
  BY <1>1, <1>3, HeldKept
<1>10. DevicesWhole'
  <2> SUFFICES ASSUME NEW g \in Slots, HandleTable[g] \in Devs, HandleTable[g] \notin lists \ {r}
               PROVE  \E u \in Threads : /\ th'[u].pc \in {"download", "freehandle"}
                                         /\ th'[u].h = g /\ th'[u].reg = HandleTable[g]
    BY <1>1 DEF DevicesWhole
  <2>1. CASE HandleTable[g] = r
    <3>1. th[t].h = g
      BY <1>2, <2>1 DEF RegInv
    <3> QED
      BY <1>3, <2>1, <3>1 DEF Moved
  <2>2. CASE HandleTable[g] # r
    <3>1. PICK u \in Threads : /\ th[u].pc \in {"download", "freehandle"}
                               /\ th[u].h = g /\ th[u].reg = HandleTable[g]
      BY <1>2, <2>2 DEF DevicesWhole
    <3> QED
      BY <1>1, <1>3, <3>1 DEF Moved
  <2> QED
    BY <2>1, <2>2
<1>11. ChainInv'
  <2>1. Carries(t, "freehandle", h, r, a)
    BY <1>1 DEF Carries, Advertises
  <2>2. /\ \A g \in Slots : HandleTable'[g] \in {HandleTable[g], NoReg}
        /\ unused' = unused /\ announced' \subseteq announced /\ UNCHANGED <<armed, due>>
    BY <1>1
  <2> QED
    BY <1>3, <2>1, <2>2, ChainKept
<1> QED
  BY <1>4, <1>5, <1>6, <1>7, <1>8, <1>9, <1>10, <1>11 DEF SdkInv

(* A thread gives a handle up, and is done. *)
LEMMA GivesUp ==
    ASSUME SdkInv, NEW t \in Threads, th[t].pc \in {"download", "freehandle"},
           Become(t, Idle),
           HandleTable' = [HandleTable EXCEPT ![th[t].h] = NoReg],
           UNCHANGED <<UpnpSdkInit, main, lists, unused, listening, timing, stray, corrupt>>,
           announced' \subseteq announced,
           \/ lock' = lock /\ Unlocked
           \/ lock' = NoThread /\ th[t].pc = "download"
    PROVE  SdkInv'
<1> DEFINE h == th[t].h
<1>1. /\ UpnpSdkInit' = UpnpSdkInit /\ main' = main
      /\ lists' = lists /\ unused' = unused
      /\ UNCHANGED listening
      /\ timer' = timer /\ armed' = armed /\ due' = due
      /\ stray' = stray /\ corrupt' = corrupt
  BY DEF timing
<1>2. TypeOK /\ h \in Slots
  BY DEF SdkInv, ThreadInv
<1>3. Moved(t, "idle", 0, NoReg, 0)
  BY <1>2, Ends
<1>4. /\ \A g \in Slots : HandleTable'[g] \in {HandleTable[g], NoReg}
      /\ HandleTable' \in [Slots -> Regs \cup {NoReg}]
      /\ HandleTable'[h] = NoReg
  BY <1>2, Types
<1>5. BoundInv'
  BY <1>1, <1>3, BoundSame
<1>6. TypeOK'
  <2>1. announced' \in SUBSET Devs /\ lock' \in Threads \cup {NoThread}
    BY Types
  <2> QED
    BY <1>1, <1>3, <1>4, <1>5, <2>1, Types, TypeOfMoved
<1>7. ThreadInv'
  <2>1. th'[Main] # Idle => main' \in {"finish client", "finish timer"}
    BY <1>1, <1>3, MainKept
  <2> QED
    BY <1>3, <2>1, ThreadKept
<1>8. RegInv'
  BY <1>1, <1>3, <1>4, RegKept
<1>9. LockInv'
  BY <1>1, <1>3, LockKept
<1>10. HandleHeld'
  BY <1>1, <1>3, HeldKept
<1>11. DevicesWhole'
  BY <1>1, <1>3, <1>4, WholeKept
<1>12. ChainInv'
  <2>1. Carries(t, "idle", 0, NoReg, 0)
    BY DEF Carries, Advertises
  <2>2. unused' = unused /\ announced' \subseteq announced /\ UNCHANGED <<armed, due>>
    BY <1>1
  <2> QED
    BY <1>3, <1>4, <2>1, <2>2, ChainKept
<1> QED
  BY <1>5, <1>6, <1>7, <1>8, <1>9, <1>10, <1>11, <1>12 DEF SdkInv

(* The end of UpnpUnRegisterRootDevice. *)
LEMMA FreeHandleStep ==
    ASSUME SdkInv, NEW t \in Threads, FreeHandle(t)
    PROVE  SdkInv'
<1>1. /\ th[t].pc \in {"download", "freehandle"}
      /\ UNCHANGED <<UpnpSdkInit, main, lists, unused, listening, timing, stray, corrupt>>
      /\ announced' \subseteq announced
      /\ lock' = lock /\ Unlocked
      /\ Become(t, Idle) /\ HandleTable' = [HandleTable EXCEPT ![th[t].h] = NoReg]
  BY DEF FreeHandle
<1> QED
  BY <1>1, GivesUp

(* The registration of a device is complete, or the handle given up. *)
LEMMA RegisteredStep ==
    ASSUME SdkInv, NEW t \in Threads, Registered(t)
    PROVE  SdkInv'
<1> DEFINE h == th[t].h
           r == th[t].reg
<1>1. /\ th[t].pc = "download" /\ lock' = NoThread /\ Become(t, Idle)
      /\ UpnpSdkInit' = UpnpSdkInit /\ main' = main /\ unused' = unused
      /\ UNCHANGED listening
      /\ timer' = timer /\ armed' = armed /\ due' = due
      /\ announced' = announced /\ stray' = stray /\ corrupt' = corrupt
  BY DEF Registered, timing, ghosts
<1>2. TypeOK /\ h \in Slots /\ r \in Devs
  BY <1>1 DEF SdkInv, ThreadInv
<1>3. Moved(t, "idle", 0, NoReg, 0)
  BY <1>1, <1>2, Ends
<1>4. ASSUME lists' = lists, HandleTable' = [HandleTable EXCEPT ![h] = NoReg]
      PROVE  SdkInv'
  BY <1>1, <1>4, GivesUp DEF timing
<1>5. ASSUME lists' = lists \cup {r}, HandleTable' = HandleTable
      PROVE  SdkInv'
  <2>1. BoundInv'
    BY <1>1, <1>3, BoundSame
  <2>2. TypeOK'
    <3>1. lists' \in SUBSET Devs /\ lock' \in Threads \cup {NoThread}
      BY <1>1, <1>2, <1>5, Types
    <3> QED
      BY <1>1, <1>3, <1>5, <2>1, <3>1, Types, TypeOfMoved
  <2>3. ThreadInv'
    <3>1. th'[Main] # Idle => main' \in {"finish client", "finish timer"}
      BY <1>1, <1>3, MainKept
    <3> QED
      BY <1>3, <3>1, ThreadKept
  <2>4. RegInv'
    BY <1>1, <1>3, <1>5, RegKept
  <2>5. LockInv'
    BY <1>1, <1>3, LockKept
  <2>6. HandleHeld'
    BY <1>1, <1>3, <1>5, HeldKept
  <2>7. DevicesWhole'
    BY <1>3, <1>5, WholeKept
  <2>8. ChainInv'
    <3>1. Carries(t, "idle", 0, NoReg, 0)
      BY <1>1 DEF Carries, Advertises
    <3>2. /\ \A g \in Slots : HandleTable'[g] \in {HandleTable[g], NoReg}
          /\ unused' = unused /\ announced' \subseteq announced /\ UNCHANGED <<armed, due>>
      BY <1>1, <1>5
    <3> QED
      BY <1>3, <3>1, <3>2, ChainKept
  <2> QED
    BY <2>1, <2>2, <2>3, <2>4, <2>5, <2>6, <2>7, <2>8 DEF SdkInv
<1> QED
  BY <1>4, <1>5 DEF Registered

(* A thread begins an advertisement, if the handle is a device's. *)
LEMMA SendBegins ==
    ASSUME SdkInv, NEW t \in Threads, NEW h \in Slots, UpnpSendAdvertisement(t, h)
    PROVE  /\ HandleTable[h] \in Devs => Moved(t, "announce", h, NoReg, 1)
           /\ HandleTable[h] \notin Devs => Moved(t, "idle", 0, NoReg, 0)
<1>1. TypeOK
  BY DEF SdkInv
<1>2. ASSUME HandleTable[h] \in Devs
      PROVE  Moved(t, "announce", h, NoReg, 1)
  <2>1. Become(t, [Idle EXCEPT !.pc = "announce", !.h = h, !.ad = 1])
    BY <1>2 DEF UpnpSendAdvertisement
  <2>2. "announce" \in Pcs /\ 1 \in -1 .. 1
    BY DEF Pcs
  <2> QED
    BY <1>1, <2>1, <2>2, Takes
<1>3. ASSUME HandleTable[h] \notin Devs
      PROVE  Moved(t, "idle", 0, NoReg, 0)
  BY <1>1, <1>3, Ends DEF UpnpSendAdvertisement
<1> QED
  BY <1>2, <1>3

(* UpnpSendAdvertisement: a new chain. *)
LEMMA SendAdvertisementStep ==
    ASSUME SdkInv, SendAdvertisement(App)
    PROVE  SdkInv'
<1>1. PICK h \in Slots : Chains(h) < MaxEvents /\ UpnpSendAdvertisement(App, h)
  BY DEF SendAdvertisement
<1>2. /\ App \in Threads /\ App # Main /\ th[App] = Idle
      /\ th[App].pc = "idle" /\ th[App].ad = 0
  BY SdkAssumption, IdleLocal DEF Threads, SendAdvertisement, MayCall
<1>3. /\ UNCHANGED <<UpnpSdkInit, main, table, listening, timing, announced, stray>>
      /\ lock' = lock /\ corrupt' \in BOOLEAN
  <2>1. /\ UNCHANGED <<UpnpSdkInit, main, table, listening, timing, announced, stray>>
        /\ lock' = lock /\ corrupt' = corrupt
    BY DEF SendAdvertisement, ghosts
  <2> QED
    BY <2>1, Types
<1>4. ASSUME HandleTable[h] \notin Devs
      PROVE  SdkInv'
  <2>1. Moved(App, "idle", 0, NoReg, 0)
    BY <1>1, <1>2, <1>4, SendBegins
  <2>2. Knows(App, "idle", 0, NoReg, 0) /\ Locks(App, "idle")
    BY <1>3 DEF Knows, Locks
  <2>3. Carries(App, "idle", 0, NoReg, 0)
    BY <1>2 DEF Carries, Advertises
  <2> QED
    BY <1>2, <1>3, <2>1, <2>2, <2>3, Continues
<1>5. ASSUME HandleTable[h] \in Devs
      PROVE  SdkInv'
  <2>1. Moved(App, "announce", h, NoReg, 1)
    BY <1>1, <1>2, <1>5, SendBegins
  <2>2. Knows(App, "announce", h, NoReg, 1) /\ Locks(App, "announce")
    BY <1>3 DEF Knows, Locks
  <2>3. Carries(App, "announce", h, NoReg, 1)
    BY <1>2 DEF Carries, Advertises
  <2>4. BoundInv'
    <3> SUFFICES ASSUME NEW g \in Slots
                 PROVE  armed'[g] + due'[g] + Cardinality(Refreshing(g)') <= MaxEvents
      BY DEF BoundInv, Refreshing
    <3> DEFINE n == Cardinality(Refreshing(g))
               m == Cardinality(Refreshing(g)')
               w == IF h = g THEN 1 ELSE 0
    <3>1. n \in Nat /\ m = n + w
      <4>1. App \notin Refreshing(g)
        BY <1>2 DEF Refreshing
      <4>2. Refreshing(g) \ {App} = Refreshing(g)
        BY <4>1
      <4>3. m = Cardinality(Refreshing(g) \ {App}) + (IF h = g /\ 1 = 1 THEN 1 ELSE 0)
        BY <1>2, <2>1, CountsAfter
      <4> QED
        BY <4>2, <4>3, RefreshingFinite
    <3>2. /\ armed[g] \in Nat /\ due[g] \in Nat
          /\ armed'[g] = armed[g] /\ due'[g] = due[g]
      BY <1>3, Types DEF timing
    <3>3. armed[g] + due[g] + n <= MaxEvents
      BY DEF SdkInv, BoundInv
    <3>4. h = g => armed[g] + due[g] + n < MaxEvents
      BY <1>1 DEF Chains, Refreshing
    <3>5. MaxEvents \in Nat
      BY SdkAssumption
    <3>6. (h = g => w = 1) /\ (h # g => w = 0)
      OBVIOUS
    <3> HIDE DEF n, m, w
    <3>7. armed[g] + due[g] + (n + w) <= MaxEvents
      <4>1. CASE h = g
        BY <3>1, <3>2, <3>4, <3>5, <3>6, <4>1
      <4>2. CASE h # g
        BY <3>1, <3>2, <3>3, <3>5, <3>6, <4>2
      <4> QED
        BY <4>1, <4>2
    <3> QED
      BY <3>1, <3>2, <3>7 DEF m
  <2>5. th'[Main] # Idle => main' \in {"finish client", "finish timer"}
    BY <1>2, <1>3, <2>1, MainKept
  <2>6. /\ UNCHANGED <<table, timing, announced, stray, CallBackFn, ListenerState, listener,
                       received>>
        /\ UpnpSdkInit' \in {0, 1} /\ packets' \subseteq packets
        /\ main' = main
    BY <1>3 DEF listening, SdkInv, TypeOK
  <2> QED
    BY <1>2, <1>3, <2>1, <2>2, <2>3, <2>4, <2>5, <2>6, MovesOn
<1> QED
  BY <1>4, <1>5

(* An event of a chain leaves the timer or the pool, *)
EventLeaves(h) ==
    \/ armed[h] > 0 /\ armed' = [armed EXCEPT ![h] = @ - 1] /\ due' = due
    \/ due[h] > 0 /\ due' = [due EXCEPT ![h] = @ - 1] /\ armed' = armed

(* what that does to the counts, *)
LEMMA EventLeft ==
    ASSUME armed \in [Slots -> Nat], due \in [Slots -> Nat], NEW h \in Slots, EventLeaves(h)
    PROVE  /\ armed' \in [Slots -> Nat] /\ due' \in [Slots -> Nat]
           /\ armed'[h] + due'[h] + 1 = armed[h] + due[h]
           /\ \A g \in Slots \ {h} : armed'[g] = armed[g] /\ due'[g] = due[g]
<1>1. CASE armed[h] > 0 /\ armed' = [armed EXCEPT ![h] = @ - 1] /\ due' = due
  <2>1. /\ armed' \in [Slots -> Nat] /\ armed'[h] + 1 = armed[h]
        /\ \A g \in Slots \ {h} : armed'[g] = armed[g]
    BY <1>1, OneLess
  <2>2. armed'[h] \in Nat /\ due[h] \in Nat
    BY <2>1
  <2>3. armed'[h] + due[h] + 1 = armed[h] + due[h]
    BY <2>1, <2>2
  <2> QED
    BY <1>1, <2>1, <2>3
<1>2. CASE due[h] > 0 /\ due' = [due EXCEPT ![h] = @ - 1] /\ armed' = armed
  <2>1. /\ due' \in [Slots -> Nat] /\ due'[h] + 1 = due[h]
        /\ \A g \in Slots \ {h} : due'[g] = due[g]
    BY <1>2, OneLess
  <2>2. due'[h] \in Nat /\ armed[h] \in Nat
    BY <2>1
  <2>3. armed[h] + due'[h] + 1 = armed[h] + due[h]
    BY <2>1, <2>2
  <2> QED
    BY <1>2, <2>1, <2>3
<1> QED
  BY <1>1, <1>2 DEF EventLeaves

(* which keeps their number, *)
LEMMA RefreshBound ==
    ASSUME SdkInv, NEW t \in Threads, NEW h \in Slots, EventLeaves(h), th[t].ad = 0,
           NEW p, NEW k, NEW d, NEW a, Moved(t, p, k, d, a), a = 1 => k = h
    PROVE  BoundInv'
<1>1. /\ armed' \in [Slots -> Nat] /\ due' \in [Slots -> Nat]
      /\ armed'[h] + due'[h] + 1 = armed[h] + due[h]
      /\ \A g \in Slots \ {h} : armed'[g] = armed[g] /\ due'[g] = due[g]
  BY EventLeft, Types
<1>2. armed \in [Slots -> Nat] /\ due \in [Slots -> Nat]
  BY Types
<1>3. ASSUME NEW g \in Slots
      PROVE  armed'[g] + due'[g] + (IF k = g /\ a = 1 THEN 1 ELSE 0)
             <= armed[g] + due[g] + (IF th[t].h = g /\ th[t].ad = 1 THEN 1 ELSE 0)
  <2> DEFINE x == armed[g] + due[g]
             y == armed'[g] + due'[g]
             v == IF k = g /\ a = 1 THEN 1 ELSE 0
             w == IF th[t].h = g /\ th[t].ad = 1 THEN 1 ELSE 0
  <2>1. x \in Nat /\ y \in Nat
    BY <1>1, <1>2
  <2>2. v \in {0, 1} /\ w = 0
    OBVIOUS
  <2>3. g = h => y + 1 = x
    BY <1>1
  <2>4. g # h => y = x /\ v = 0
    BY <1>1
  <2> HIDE DEF x, y, v, w
  <2>5. y + v <= x + w
    BY <2>1, <2>2, <2>3, <2>4
  <2> QED
    BY <2>5 DEF x, y, v, w
<1>4. \A g \in Slots : armed'[g] \in Nat /\ due'[g] \in Nat
  BY <1>1
<1> QED
  BY <1>3, <1>4, BoundKept

(* and a thread carries it out. *)
LEMMA RefreshBegins ==
    ASSUME SdkInv, NEW t \in Threads, NEW h \in Slots, th[t] = Idle,
           UpnpSendAdvertisement(t, h),
           UNCHANGED <<UpnpSdkInit, main, table, lock, listening, ghosts>>,
           timer' \in {timer, "closing", "stopped"},
           EventLeaves(h),
           t = Main => main = "finish timer"
    PROVE  SdkInv'
<1>1. /\ HandleTable' = HandleTable /\ lists' = lists /\ unused' = unused
      /\ UpnpSdkInit' = UpnpSdkInit /\ main' = main /\ lock' = lock
      /\ announced' = announced /\ stray' = stray /\ corrupt' = corrupt
      /\ UNCHANGED listening
  BY DEF table, ghosts
<1>2. /\ th[t].pc = "idle" /\ th[t].ad = 0 /\ th[t].h = 0
      /\ TypeOK /\ announced \subseteq Devs
  BY IdleLocal, Types DEF SdkInv
<1>3. /\ armed' \in [Slots -> Nat] /\ due' \in [Slots -> Nat]
      /\ armed'[h] + due'[h] + 1 = armed[h] + due[h]
      /\ \A g \in Slots \ {h} : armed'[g] = armed[g] /\ due'[g] = due[g]
  <2>1. armed \in [Slots -> Nat] /\ due \in [Slots -> Nat]
    BY Types
  <2> QED
    BY <2>1, EventLeft
<1>4. ASSUME NEW p, NEW k, NEW a, Moved(t, p, k, NoReg, a),
             \/ p = "announce" /\ k = h /\ a = 1
             \/ p = "idle" /\ k = 0 /\ a = 0 /\ HandleTable[h] \notin Devs
      PROVE  SdkInv'
  <2>1. BoundInv'
    <3>1. Moved(t, p, k, NoReg, a)
      BY <1>4
    <3>2. a = 1 => k = h
      <4>1. 0 # 1
        BY ByeIsNotRefresh
      <4> QED
        BY <1>4, <4>1, Zenon
    <3>3. th[t].ad = 0
      BY <1>2
    <3> QED
      BY <3>1, <3>2, <3>3, RefreshBound
  <2>2. TypeOK'
    BY <1>1, <1>3, <1>4, <2>1, Types, TypeOfMoved
  <2>3. ThreadInv'
    <3>1. th'[Main] # Idle => main' \in {"finish client", "finish timer"}
      <4>1. CASE t = Main
        BY <1>1, <4>1
      <4>2. CASE t # Main
        BY <1>1, <1>4, <4>2, MainKept
      <4> QED
        BY <4>1, <4>2
    <3> QED
      BY <1>4, <3>1, ThreadKept
  <2>4. RegInv'
    BY <1>1, <1>4, RegKept
  <2>5. LockInv'
    BY <1>1, <1>4, LockKept
  <2>6. HandleHeld'
    BY <1>1, <1>4, HeldKept
  <2>7. DevicesWhole'
    BY <1>1, <1>2, <1>4, WholeKept
  <2>8. ChainInv'
    <3>1. announced' \cap unused' = {}
      BY <1>1 DEF SdkInv, ChainInv
    <3>2. ASSUME NEW g \in Slots, HandleTable[g] \in announced
          PROVE  \/ armed'[g] > 0 \/ due'[g] > 0
               \/ \E u \in Threads : Advertises(u, g, HandleTable[g])'
      <4>1. CASE g = h
        <5>1. Advertises(t, h, HandleTable[h])'
          BY <1>2, <1>4, <3>2, <4>1 DEF Advertises, Moved
        <5> QED
          BY <4>1, <5>1
      <4>2. CASE g # h
        <5>1. armed'[g] = armed[g] /\ due'[g] = due[g]
          BY <1>3, <4>2
        <5>2. \A u \in Threads : Advertises(u, g, HandleTable[g])
                                 => Advertises(u, g, HandleTable[g])'
          BY <1>1, <1>2, <1>4 DEF Advertises, Moved
        <5> QED
          BY <3>2, <5>1, <5>2 DEF SdkInv, ChainInv
      <4> QED
        BY <4>1, <4>2
    <3> QED
      BY <1>1, <3>1, <3>2 DEF ChainInv
  <2> QED
    BY <2>1, <2>2, <2>3, <2>4, <2>5, <2>6, <2>7, <2>8 DEF SdkInv
<1> QED
  BY <1>4, SendBegins

(* A job of the pool. *)
LEMMA AutoAdvertiseStep ==
    ASSUME SdkInv, NEW t \in Workers, AutoAdvertise(t)
    PROVE  SdkInv'
<1>1. PICK h \in Slots : /\ due[h] > 0 /\ due' = [due EXCEPT ![h] = @ - 1]
                         /\ UpnpSendAdvertisement(t, h)
  BY DEF AutoAdvertise
<1>2. t \in Threads /\ t # Main /\ th[t] = Idle
  BY SdkAssumption DEF Threads, AutoAdvertise
<1>3. /\ UNCHANGED <<UpnpSdkInit, main, table, lock, listening, ghosts>>
      /\ timer' = timer /\ armed' = armed
  BY DEF AutoAdvertise
<1>4. EventLeaves(h)
  BY <1>1, <1>3 DEF EventLeaves
<1> QED
  BY <1>1, <1>2, <1>3, <1>4, RefreshBegins

(* The last events, called back when the timer stops. *)
LEMMA StopTimerCallsBack ==
    ASSUME SdkInv, StopTimerThread, \E h \in Slots : armed[h] > 0
    PROVE  SdkInv'
<1>1. PICK h \in Slots : /\ armed[h] > 0 /\ armed' = [armed EXCEPT ![h] = @ - 1]
                         /\ UpnpSendAdvertisement(Main, h)
  BY DEF StopTimerThread
<1>2. Main \in Threads /\ th[Main] = Idle /\ main = "finish timer"
  BY DEF Threads, StopTimerThread
<1>3. /\ UNCHANGED <<UpnpSdkInit, main, table, lock, listening, ghosts>>
      /\ timer' = "closing" /\ due' = due
  BY DEF StopTimerThread
<1>4. EventLeaves(h)
  BY <1>1, <1>3 DEF EventLeaves
<1> QED
  BY <1>1, <1>2, <1>3, <1>4, RefreshBegins

(* The next refresh goes into the timer, *)
LEMMA RearmBound ==
    ASSUME SdkInv, NEW t \in Threads, Moved(t, "idle", 0, NoReg, 0),
           th[t].ad = 1, th[t].h \in Slots, due' = due,
           armed' = [armed EXCEPT ![th[t].h] = @ + 1] \/ armed' = armed
    PROVE  BoundInv' /\ armed' \in [Slots -> Nat]
<1> DEFINE h == th[t].h
<1>1. armed \in [Slots -> Nat] /\ due \in [Slots -> Nat]
  BY Types
<1>2. /\ armed' \in [Slots -> Nat]
      /\ armed'[h] = armed[h] \/ armed'[h] = armed[h] + 1
      /\ \A g \in Slots \ {h} : armed'[g] = armed[g]
  BY <1>1, OneMore
<1>3. ASSUME NEW g \in Slots
      PROVE  armed'[g] + due'[g] + (IF 0 = g /\ 0 = 1 THEN 1 ELSE 0)
             <= armed[g] + due[g] + (IF th[t].h = g /\ th[t].ad = 1 THEN 1 ELSE 0)
  <2> DEFINE x == armed[g]
             y == armed'[g]
             z == due[g]
             v == IF 0 = g /\ 0 = 1 THEN 1 ELSE 0
             w == IF th[t].h = g /\ th[t].ad = 1 THEN 1 ELSE 0
  <2>1. x \in Nat /\ y \in Nat /\ z \in Nat /\ due'[g] = z
    BY <1>1, <1>2
  <2>2. v = 0 /\ w \in {0, 1}
    OBVIOUS
  <2>3. g = h => w = 1 /\ (y = x \/ y = x + 1)
    BY <1>2
  <2>4. g # h => y = x
    BY <1>2
  <2> HIDE DEF x, y, z, v, w
  <2>5. y + z + v <= x + z + w
    BY <2>1, <2>2, <2>3, <2>4
  <2> QED
    BY <2>1, <2>5 DEF x, y, z, v, w
<1>4. \A g \in Slots : armed'[g] \in Nat /\ due'[g] \in Nat
  BY <1>1, <1>2
<1>5. BoundInv'
  BY <1>3, <1>4, BoundKept
<1> QED
  BY <1>2, <1>5

(* or is refused, and the device does not count as advertised any more. *)
LEMMA ScheduleRefreshStep ==
    ASSUME SdkInv, NEW t \in Threads, ScheduleRefresh(t)
    PROVE  SdkInv'
<1> DEFINE h == th[t].h
           r == th[t].reg
<1>1. /\ th[t].pc = "rearm" /\ Become(t, Idle)
      /\ UpnpSdkInit' = UpnpSdkInit /\ main' = main /\ lock' = lock
      /\ HandleTable' = HandleTable /\ lists' = lists /\ unused' = unused
      /\ UNCHANGED listening
      /\ timer' = timer /\ due' = due /\ stray' = stray /\ corrupt' = corrupt
  BY DEF ScheduleRefresh, table
<1>2. TypeOK /\ h \in Slots /\ r \in Devs /\ th[t].ad = 1 /\ RegInv /\ NoReg \notin Devs
  BY <1>1, SdkAssumption DEF SdkInv, ThreadInv
<1>3. Moved(t, "idle", 0, NoReg, 0)
  BY <1>1, <1>2, Ends
<1>4. \/ armed' = [armed EXCEPT ![h] = @ + 1] /\ announced' = announced \cup {r}
      \/ armed' = armed /\ announced' = announced \ {r}
  BY DEF ScheduleRefresh
<1>5. BoundInv' /\ armed' \in [Slots -> Nat]
  BY <1>1, <1>2, <1>3, <1>4, RearmBound
<1>6. TypeOK'
  <2>1. announced' \in SUBSET Devs /\ due' \in [Slots -> Nat]
    BY <1>1, <1>2, <1>4, Types
  <2> QED
    BY <1>1, <1>3, <1>5, <2>1, Types, TypeOfMoved
<1>7. ThreadInv'
  <2>1. th'[Main] # Idle => main' \in {"finish client", "finish timer"}
    BY <1>1, <1>3, MainKept
  <2> QED
    BY <1>3, <2>1, ThreadKept
<1>8. RegInv'
  BY <1>1, <1>3, RegKept
<1>9. LockInv'
  BY <1>1, <1>3, LockKept
<1>10. HandleHeld'
  BY <1>1, <1>3, HeldKept
<1>11. DevicesWhole'
  BY <1>1, <1>3, WholeKept
<1>12. ChainInv'
  <2>1. announced' \cap unused' = {}
    BY <1>1, <1>2, <1>4 DEF SdkInv, ChainInv, RegInv
  <2>2. ASSUME NEW g \in Slots, HandleTable[g] \in announced'
        PROVE  \/ armed'[g] > 0 \/ due'[g] > 0
               \/ \E u \in Threads : Advertises(u, g, HandleTable[g])'
    <3>1. HandleTable[g] = r => g = h
      BY <1>2 DEF RegInv
    <3>2. CASE HandleTable[g] = r
      <4>1. armed' = [armed EXCEPT ![h] = @ + 1]
        BY <1>4, <2>2, <3>2
      <4>2. armed'[h] > 0
        BY <1>2, <4>1, Types, OneMorePositive
      <4> QED
        BY <3>1, <3>2, <4>2
    <3>3. CASE HandleTable[g] # r
      <4>1. HandleTable[g] \in announced
        BY <1>4, <2>2, <3>3
      <4>2. armed[g] > 0 => armed'[g] > 0
        BY <1>2, <1>4, Types, OneMorePositive
      <4>3. \A u \in Threads : Advertises(u, g, HandleTable[g])
                               => Advertises(u, g, HandleTable[g])'
        BY <1>1, <1>3, <3>3 DEF Advertises, Moved
      <4> QED
        BY <1>1, <4>1, <4>2, <4>3 DEF SdkInv, ChainInv
    <3> QED
      BY <3>2, <3>3
  <2> QED
    BY <1>1, <2>1, <2>2 DEF ChainInv
<1> QED
  BY <1>5, <1>6, <1>7, <1>8, <1>9, <1>10, <1>11, <1>12 DEF SdkInv

(* The timer hands an event to the pool, or loses it. *)
LEMMA TimerFiresStep ==
    ASSUME SdkInv, NEW h \in Slots, TimerFires(h)
    PROVE  SdkInv'
<1>1. /\ UpnpSdkInit' = UpnpSdkInit /\ main' = main /\ lock' = lock /\ th' = th
      /\ HandleTable' = HandleTable /\ lists' = lists /\ unused' = unused
      /\ UNCHANGED listening
      /\ timer' = timer /\ stray' = stray /\ corrupt' = corrupt
  BY DEF TimerFires, table
<1>2. /\ armed[h] > 0 /\ armed' = [armed EXCEPT ![h] = @ - 1]
      /\ \/ due' = [due EXCEPT ![h] = @ + 1] /\ announced' = announced
         \/ due' = due /\ announced' = announced \ {HandleTable[h]}
  BY DEF TimerFires
<1>3. armed \in [Slots -> Nat] /\ due \in [Slots -> Nat]
  BY Types
<1>4. /\ armed' \in [Slots -> Nat] /\ armed'[h] + 1 = armed[h]
      /\ \A g \in Slots \ {h} : armed'[g] = armed[g]
  BY <1>2, <1>3, OneLess
<1>5. /\ due' \in [Slots -> Nat] /\ due'[h] \in {due[h], due[h] + 1}
      /\ \A g \in Slots \ {h} : due'[g] = due[g]
  BY <1>2, <1>3, OneMore
<1>6. BoundInv'
  <2>1. ASSUME NEW g \in Slots
        PROVE  armed'[g] + due'[g] <= armed[g] + due[g]
    <3>1. armed[g] \in Nat /\ due[g] \in Nat /\ armed'[g] \in Nat /\ due'[g] \in Nat
      BY <1>3, <1>4, <1>5
    <3> QED
      BY <1>4, <1>5, <3>1
  <2> SUFFICES ASSUME NEW g \in Slots
               PROVE  armed'[g] + due'[g] + Cardinality(Refreshing(g)') <= MaxEvents
    BY DEF BoundInv, Refreshing
  <2> DEFINE n == Cardinality(Refreshing(g))
             x == armed[g] + due[g]
             y == armed'[g] + due'[g]
  <2>2. Cardinality(Refreshing(g)') = n
    BY <1>1 DEF Refreshing
  <2>3. x + n <= MaxEvents
    BY DEF SdkInv, BoundInv
  <2>4. n \in Nat
    BY RefreshingFinite
  <2>5. x \in Nat /\ y \in Nat
    BY <1>3, <1>4, <1>5
  <2>6. MaxEvents \in Nat
    BY SdkAssumption
  <2>7. y <= x
    BY <2>1
  <2> HIDE DEF n, x, y
  <2>8. y + n <= MaxEvents
    BY <2>3, <2>4, <2>5, <2>6, <2>7
  <2> QED
    BY <2>2, <2>8 DEF y
<1>7. TypeOK'
  <2>1. /\ UNCHANGED <<CallBackFn, ListenerState, listener, received>>
        /\ packets' \subseteq packets
    BY <1>1 DEF listening
  <2>2. /\ UpnpSdkInit' \in {0, 1}
        /\ main' \in {"new", "init timer", "init ssdp", "init wait", "init server", "up",
                      "failed", "finish", "finish client", "finish timer", "deinit",
                      "set stopping", "poll", "poll again", "stop server", "finished"}
        /\ timer' \in {"off", "up", "closing", "stopped"}
    BY <1>1 DEF SdkInv, TypeOK
  <2>3. announced' \in SUBSET Devs
    BY <1>2, Types
  <2> QED
    BY <1>1, <1>4, <1>5, <1>6, <2>1, <2>2, <2>3, Types, TypeKept
<1>8. ThreadInv' /\ RegInv' /\ LockInv' /\ HandleHeld' /\ DevicesWhole'
  BY <1>1 DEF SdkInv, ThreadInv, RegInv, LockInv, HandleHeld, DevicesWhole
<1>9. ChainInv'
  <2>1. announced' \cap unused' = {}
    BY <1>1, <1>2 DEF SdkInv, ChainInv
  <2>2. ASSUME NEW g \in Slots, HandleTable[g] \in announced'
        PROVE  \/ armed'[g] > 0 \/ due'[g] > 0
               \/ \E u \in Threads : Advertises(u, g, HandleTable[g])'
    <3>1. CASE g = h
      <4>1. due' = [due EXCEPT ![h] = @ + 1]
        BY <1>2, <2>2, <3>1
      <4> QED
        BY <1>3, <3>1, <4>1, OneMorePositive
    <3>2. CASE g # h
      <4>1. HandleTable[g] \in announced /\ armed'[g] = armed[g] /\ due'[g] = due[g]
        BY <1>2, <1>4, <1>5, <2>2, <3>2
      <4>2. \A u \in Threads : Advertises(u, g, HandleTable[g])
                               => Advertises(u, g, HandleTable[g])'
        BY <1>1 DEF Advertises
      <4> QED
        BY <4>1, <4>2 DEF SdkInv, ChainInv
    <3> QED
      BY <3>1, <3>2
  <2> QED
    BY <1>1, <2>1, <2>2 DEF ChainInv
<1> QED
  BY <1>6, <1>7, <1>8, <1>9 DEF SdkInv

(* Threads and timer stay as they are; handles are given up at most. *)
LEMMA Stays ==
    ASSUME SdkInv, TypeOK',
           UNCHANGED <<lists, unused, lock, th, armed, due, announced, stray>>,
           \A h \in Slots : HandleTable'[h] \in {HandleTable[h], NoReg},
           HandleTable' = HandleTable \/ Unlocked,
           th[Main] # Idle => main' \in {"finish client", "finish timer"}
    PROVE  SdkInv'
<1>1. NoReg \notin Devs /\ NoThread \notin Threads /\ NoReg \notin unused /\ NoReg \notin announced
  <2>1. NoReg \notin Regs /\ NoThread \notin Threads
    BY SdkAssumption DEF Threads, Regs
  <2>2. unused \subseteq Regs /\ announced \subseteq Devs
    BY Types
  <2> QED
    BY <2>1, <2>2 DEF Regs
<1>2. ThreadInv'
  BY DEF SdkInv, ThreadInv
<1>3. RegInv'
  BY <1>1 DEF SdkInv, RegInv
<1>4. LockInv'
  BY DEF SdkInv, LockInv
<1>5. HandleHeld'
  BY <1>1 DEF SdkInv, LockInv, HandleHeld, Unlocked
<1>6. DevicesWhole'
  <2> SUFFICES ASSUME NEW g \in Slots, HandleTable'[g] \in Devs \ lists
               PROVE  \E u \in Threads : /\ th[u].pc \in {"download", "freehandle"}
                                         /\ th[u].h = g /\ th[u].reg = HandleTable'[g]
    BY DEF DevicesWhole
  <2>1. HandleTable'[g] = HandleTable[g]
    BY <1>1
  <2>2. \A h \in Slots : HandleTable[h] \in Devs \ lists =>
           \E t \in Threads : /\ th[t].pc \in {"download", "freehandle"}
                             /\ th[t].h = h /\ th[t].reg = HandleTable[h]
    BY DEF SdkInv, DevicesWhole
  <2>3. PICK u \in Threads : /\ th[u].pc \in {"download", "freehandle"}
                             /\ th[u].h = g /\ th[u].reg = HandleTable[g]
    BY <2>1, <2>2
  <2> QED
    BY <2>1, <2>3
<1>7. ChainInv'
  <2>1. announced' \cap unused' = {}
    BY DEF SdkInv, ChainInv
  <2>2. ASSUME NEW g \in Slots, HandleTable'[g] \in announced
        PROVE  armed[g] > 0 \/ due[g] > 0 \/ \E u \in Threads : Advertises(u, g, HandleTable[g])'
    <3>1. HandleTable'[g] = HandleTable[g]
      BY <1>1, <2>2
    <3>2. \A u \in Threads : Advertises(u, g, HandleTable[g])
                             => Advertises(u, g, HandleTable[g])'
      BY <3>1 DEF Advertises
    <3> QED
      BY <2>2, <3>1, <3>2 DEF SdkInv, ChainInv
  <2> QED
    BY <2>1, <2>2 DEF ChainInv
<1>8. BoundInv'
  BY DEF SdkInv, BoundInv, Refreshing
<1> QED
  BY <1>2, <1>3, <1>4, <1>5, <1>6, <1>7, <1>8 DEF SdkInv

(* The types, when neither table nor threads change. *)
LEMMA TypeOfStays ==
    ASSUME SdkInv, UNCHANGED <<lists, unused, lock, th, armed, due, announced, stray>>,
           HandleTable' \in [Slots -> Regs \cup {NoReg}],
           UpnpSdkInit' \in {0, 1}, CallBackFn' \in BOOLEAN,
           main' \in {"new", "init timer", "init ssdp", "init wait", "init server", "up",
                      "failed", "finish", "finish client", "finish timer", "deinit",
                      "set stopping", "poll", "poll again", "stop server", "finished"},
           ListenerState' \in {"Idle", "Running", "Stopping"},
           listener' \in {"off", "queued", "top", "tested", "select", "leaving"},
           packets' \in SUBSET {"alive", "search"}, received' \in 0 .. MaxPackets,
           timer' \in {"off", "up", "closing", "stopped"},
           corrupt' \in BOOLEAN
    PROVE  TypeOK'
  BY DEF SdkInv, TypeOK

(* What is left alone has the type it had. *)
LEMMA Rest ==
    SdkInv => /\ UpnpSdkInit \in {0, 1} /\ CallBackFn \in BOOLEAN
              /\ main \in {"new", "init timer", "init ssdp", "init wait", "init server", "up",
                      "failed", "finish", "finish client", "finish timer", "deinit",
                      "set stopping", "poll", "poll again", "stop server", "finished"}
              /\ ListenerState \in {"Idle", "Running", "Stopping"}
              /\ listener \in {"off", "queued", "top", "tested", "select", "leaving"}
              /\ packets \in SUBSET {"alive", "search"} /\ received \in 0 .. MaxPackets
              /\ timer \in {"off", "up", "closing", "stopped"}
              /\ HandleTable \in [Slots -> Regs \cup {NoReg}]
              /\ corrupt \in BOOLEAN
              /\ (th[Main] # Idle => main \in {"finish client", "finish timer"})
  BY DEF SdkInv, TypeOK, ThreadInv

(* The listener. *)
LEMMA ListenerStep ==
    ASSUME SdkInv, Listener \/ ReceivePacket \/ SelectFails
    PROVE  SdkInv'
<1>1. /\ UNCHANGED <<lists, unused, lock, th, armed, due, announced, stray>>
      /\ HandleTable' = HandleTable /\ UpnpSdkInit' = UpnpSdkInit /\ CallBackFn' = CallBackFn
      /\ main' = main /\ timer' = timer /\ corrupt' = corrupt
  BY DEF Listener, ReceivePacket, SelectFails, ListenMulticastChannel, ListenerTest, CallSelect,
         ListenerEnds, table, timing, ghosts
<1>2. /\ ListenerState' \in {"Idle", "Running", "Stopping"}
      /\ listener' \in {"off", "queued", "top", "tested", "select", "leaving"}
      /\ packets' \in SUBSET {"alive", "search"}
  BY Rest DEF Listener, ReceivePacket, SelectFails, ListenMulticastChannel, ListenerTest,
         CallSelect, ListenerEnds
<1>3. received' \in 0 .. MaxPackets
  <2>1. received' = received \/ (received < MaxPackets /\ received' = received + 1)
    <3>1. CASE ReceivePacket
      BY <3>1, Zenon DEF ReceivePacket
    <3>2. CASE SelectFails \/ Listener
      BY <3>2 DEF Listener, SelectFails, ListenMulticastChannel, ListenerTest, CallSelect,
                  ListenerEnds
    <3> QED
      BY <3>1, <3>2
  <2>2. received \in 0 .. MaxPackets /\ MaxPackets \in Nat
    BY SdkAssumption, Rest
  <2> QED
    BY <2>1, <2>2, OneMoreReceived
<1>4. TypeOK'
  BY <1>1, <1>2, <1>3, Rest, TypeOfStays
<1> QED
  BY <1>1, <1>4, Rest, Stays

(* UpnpInit and what precedes and follows it. *)
LEMMA InitStep ==
    ASSUME SdkInv, InitGoesOn \/ RetryInit \/ CallFinish
    PROVE  SdkInv'
<1>1. /\ UNCHANGED <<lists, unused, lock, th, armed, due, announced, stray>>
      /\ packets' = packets /\ received' = received /\ ListenerState' = ListenerState
  BY DEF InitGoesOn, UpnpInit, InitTimerThread, InitSsdpLib, ListenerSeen, StartMiniServer,
         RetryInit, CallFinish, table, timing, ghosts, listening
<1>2. HandleTable' = HandleTable \/ (Unlocked /\ HandleTable' = [h \in Slots |-> NoReg])
  <2>1. CASE UpnpInit
    BY <2>1 DEF UpnpInit
  <2>2. CASE InitTimerThread \/ InitSsdpLib \/ ListenerSeen \/ StartMiniServer \/ RetryInit
             \/ CallFinish
    BY <2>2 DEF InitTimerThread, InitSsdpLib, ListenerSeen, StartMiniServer, RetryInit,
                CallFinish, table
  <2> QED
    BY <2>1, <2>2 DEF InitGoesOn
<1>3. main \notin {"finish client", "finish timer"}
  BY DEF InitGoesOn, UpnpInit, InitTimerThread, InitSsdpLib, ListenerSeen, StartMiniServer,
         RetryInit, CallFinish
<1>4. main' \in {"new", "init timer", "init ssdp", "init wait", "init server", "up",
                 "failed", "finish", "finish client", "finish timer", "deinit",
                 "set stopping", "poll", "poll again", "stop server", "finished"}
  BY Rest DEF InitGoesOn, UpnpInit, InitTimerThread, InitSsdpLib, ListenerSeen, StartMiniServer,
         RetryInit, CallFinish
<1>5. /\ UpnpSdkInit' \in {UpnpSdkInit, 0, 1} /\ CallBackFn' \in {CallBackFn, TRUE}
      /\ listener' \in {listener, "queued"} /\ timer' \in {timer, "up"}
      /\ corrupt' \in {corrupt, TRUE}
  BY DEF InitGoesOn, UpnpInit, InitTimerThread, InitSsdpLib, ListenerSeen, StartMiniServer,
         RetryInit, CallFinish, timing, ghosts, listening
<1>6. HandleTable' \in [Slots -> Regs \cup {NoReg}]
  BY <1>2, Rest
<1>7. TypeOK'
  <2>1. UpnpSdkInit' \in {0, 1} /\ CallBackFn' \in BOOLEAN /\ corrupt' \in BOOLEAN
    BY <1>5, Rest
  <2>2. /\ listener' \in {"off", "queued", "top", "tested", "select", "leaving"}
        /\ timer' \in {"off", "up", "closing", "stopped"}
    BY <1>5, Rest
  <2> QED
    BY <1>1, <1>4, <1>6, <2>1, <2>2, Rest, TypeOfStays
<1>8. \A h \in Slots : HandleTable'[h] \in {HandleTable[h], NoReg}
  BY <1>2
<1> QED
  BY <1>1, <1>2, <1>3, <1>7, <1>8, Rest, Stays

(* The end of the SDK, where nothing is unregistered or called back. *)
LEMMA FinishQuiet ==
    ASSUME SdkInv,
           UNCHANGED <<CallBackFn, lists, unused, lock, th, packets, received, armed, due, announced,
                       stray, corrupt>>,
           UpnpSdkInit' \in {UpnpSdkInit, 0}, ListenerState' \in {ListenerState, "Stopping"},
           listener' \in {listener, "leaving"}, timer' \in {timer, "stopped"},
           main' \in {"finish client", "finish timer", "deinit", "set stopping", "poll",
                      "poll again", "stop server", "finished"},
           main # main' => th[Main] = Idle \/ main \notin {"finish client", "finish timer"},
           HandleTable' \in [Slots -> Regs \cup {NoReg}],
           \A h \in Slots : HandleTable'[h] \in {HandleTable[h], NoReg},
           HandleTable' = HandleTable \/ Unlocked
    PROVE  SdkInv'
<1>1. /\ UpnpSdkInit' \in {0, 1} /\ ListenerState' \in {"Idle", "Running", "Stopping"}
      /\ listener' \in {"off", "queued", "top", "tested", "select", "leaving"}
      /\ timer' \in {"off", "up", "closing", "stopped"}
  BY Rest
<1>2. main' \in {"new", "init timer", "init ssdp", "init wait", "init server", "up",
                 "failed", "finish", "finish client", "finish timer", "deinit",
                 "set stopping", "poll", "poll again", "stop server", "finished"}
  OBVIOUS
<1>3. TypeOK'
  BY <1>1, <1>2, Rest, TypeOfStays
<1>4. th[Main] # Idle => main' \in {"finish client", "finish timer"}
  BY Rest
<1> QED
  BY <1>3, <1>4, Stays

(* Either way the invariant holds. *)
LEMMA UpnpFinishStep ==
    ASSUME SdkInv, UpnpFinish
    PROVE  SdkInv'
<1>1. CASE \E h \in Slots : UpnpUnRegisterRootDevice(Main, h) /\ main' = "finish client"
  BY <1>1, UpnpFinishUnRegisters
<1>2. CASE th' = th
  <2>1. /\ UNCHANGED <<CallBackFn, ListenerState, listener, HandleTable, lists, unused, lock,
                       packets, received, timer, armed, due, announced, stray, corrupt>>
        /\ main = "finish" /\ main' \in {"finished", "finish client"}
        /\ UpnpSdkInit' \in {UpnpSdkInit, 0}
    BY DEF UpnpFinish, table, listening, timing, ghosts
  <2> QED
    BY <1>2, <2>1, Rest, FinishQuiet
<1>3. th' = th \/ \E h \in Slots : UpnpUnRegisterRootDevice(Main, h) /\ main' = "finish client"
  <2>1. FirstOf(Devs) \subseteq Slots
    BY DEF FirstOf
  <2> QED
    BY <2>1 DEF UpnpFinish
<1> QED
  BY <1>1, <1>2, <1>3

(* A client's handle is given up in one critical section. *)
LEMMA ClientGone ==
    ASSUME SdkInv, NEW h \in Slots, UpnpUnRegisterClient(h)
    PROVE  /\ Unlocked /\ HandleTable' \in [Slots -> Regs \cup {NoReg}]
           /\ \A g \in Slots : HandleTable'[g] \in {HandleTable[g], NoReg}
  BY Rest DEF UpnpUnRegisterClient

(* UpnpFinish gives up the handle of a client. *)
LEMMA FinishClientStep ==
    ASSUME SdkInv, FinishClient
    PROVE  SdkInv'
<1>1. /\ UNCHANGED <<UpnpSdkInit, CallBackFn, ListenerState, listener, lists, unused, lock, th,
                     packets, received, timer, armed, due, announced, stray, corrupt>>
      /\ th[Main] = Idle /\ main' = "finish timer"
  BY DEF FinishClient, listening, timing, ghosts
<1>2. /\ HandleTable' = HandleTable \/ Unlocked
      /\ HandleTable' \in [Slots -> Regs \cup {NoReg}]
      /\ \A g \in Slots : HandleTable'[g] \in {HandleTable[g], NoReg}
  <2>1. CASE HandleTable' = HandleTable
    BY <2>1, Rest
  <2>2. CASE \E h \in Slots : UpnpUnRegisterClient(h)
    BY <2>2, ClientGone
  <2>3. FirstOf(Clis) \subseteq Slots
    BY DEF FirstOf
  <2> QED
    BY <2>1, <2>2, <2>3 DEF FinishClient
<1> QED
  BY <1>1, <1>2, FinishQuiet

(* All of UpnpFinish. *)
LEMMA FinishStep ==
    ASSUME SdkInv, FinishGoesOn
    PROVE  SdkInv'
<1>1. CASE UpnpFinish
  BY <1>1, UpnpFinishStep
<1>2. CASE FinishClient
  BY <1>2, FinishClientStep
<1>3. CASE StopTimerThread
  <2>1. CASE \E h \in Slots : armed[h] > 0
    BY <1>3, <2>1, StopTimerCallsBack
  <2>2. CASE ~ \E h \in Slots : armed[h] > 0
    <3>1. /\ UNCHANGED <<UpnpSdkInit, CallBackFn, ListenerState, listener, HandleTable, lists,
                         unused, lock, th, packets, received, armed, due, announced, stray,
                         corrupt>>
          /\ th[Main] = Idle /\ timer' = "stopped" /\ main' = "deinit"
      BY <1>3, <2>2 DEF StopTimerThread, table, listening, ghosts
    <3> QED
      BY <3>1, Rest, FinishQuiet
  <2> QED
    BY <2>1, <2>2
<1>4. CASE DeInitSsdpLib \/ SetStopping \/ PollListener \/ PollAgain \/ StopMiniServer
  <2>1. /\ UNCHANGED <<UpnpSdkInit, CallBackFn, HandleTable, lists, unused, lock, th, packets,
                       received, timer, armed, due, announced, stray, corrupt>>
        /\ main \notin {"finish client", "finish timer"}
        /\ main' \in {"set stopping", "poll", "poll again", "stop server", "finished"}
        /\ ListenerState' \in {ListenerState, "Stopping"}
        /\ listener' \in {listener, "leaving"}
    BY <1>4 DEF DeInitSsdpLib, SetStopping, PollListener, PollAgain, StopMiniServer, table,
                listening, timing, ghosts
  <2> QED
    BY <2>1, Rest, FinishQuiet
<1> QED
  BY <1>1, <1>2, <1>3, <1>4 DEF FinishGoesOn

(* The application's calls for a client. *)
LEMMA UnRegisterClientStep ==
    ASSUME SdkInv, UnRegisterClient(App)
    PROVE  SdkInv'
<1>1. /\ UNCHANGED <<UpnpSdkInit, CallBackFn, ListenerState, listener, lists, unused, lock, th,
                     packets, received, timer, armed, due, announced, stray, corrupt>>
      /\ main' = main
  BY DEF UnRegisterClient, listening, timing, ghosts
<1>2. /\ Unlocked
      /\ HandleTable' \in [Slots -> Regs \cup {NoReg}]
      /\ \A g \in Slots : HandleTable'[g] \in {HandleTable[g], NoReg}
  <2>1. PICK h \in Slots : UpnpUnRegisterClient(h)
    BY DEF UnRegisterClient
  <2> QED
    BY <2>1, ClientGone
<1>3. TypeOK'
  <2>1. /\ UpnpSdkInit' \in {0, 1} /\ CallBackFn' \in BOOLEAN
        /\ ListenerState' \in {"Idle", "Running", "Stopping"}
        /\ listener' \in {"off", "queued", "top", "tested", "select", "leaving"}
        /\ packets' \in SUBSET {"alive", "search"} /\ received' \in 0 .. MaxPackets
        /\ timer' \in {"off", "up", "closing", "stopped"}
        /\ corrupt' \in BOOLEAN
    BY <1>1, Rest
  <2>2. main' \in {"new", "init timer", "init ssdp", "init wait", "init server", "up",
                   "failed", "finish", "finish client", "finish timer", "deinit",
                   "set stopping", "poll", "poll again", "stop server", "finished"}
    BY <1>1, Rest
  <2> QED
    BY <1>1, <1>2, <2>1, <2>2, TypeOfStays
<1> QED
  BY <1>1, <1>2, <1>3, Rest, Stays

(* A stray unlock is remembered. *)
LEMMA RenewStep ==
    ASSUME SdkInv, UpnpRenewSubscriptionAsync(App)
    PROVE  SdkInv'
<1>1. /\ UNCHANGED <<UpnpSdkInit, CallBackFn, ListenerState, listener, HandleTable, lists, unused,
                     th, packets, received, timer, armed, due, announced, corrupt>>
      /\ main' = main /\ lock' = NoThread /\ stray' = (stray \/ ~Unlocked)
  BY DEF UpnpRenewSubscriptionAsync, table, listening, timing
<1>2. TypeOK'
  <2>1. stray' \in BOOLEAN /\ lock' \in Threads \cup {NoThread}
    BY <1>1, Types
  <2>2. BoundInv'
    BY <1>1 DEF SdkInv, BoundInv, Refreshing
  <2> QED
    BY <1>1, <2>1, <2>2, Types, Rest, TypeKept
<1>3. ThreadInv' /\ RegInv' /\ DevicesWhole'
  BY <1>1 DEF SdkInv, ThreadInv, RegInv, DevicesWhole
<1>4. LockInv'
  <2>1. NoThread \notin Threads
    BY SdkAssumption DEF Threads
  <2> QED
    BY <1>1, <2>1 DEF SdkInv, LockInv, Unlocked
<1>5. HandleHeld'
  BY <1>1 DEF SdkInv, HandleHeld
<1>6. ChainInv' /\ BoundInv'
  BY <1>1 DEF SdkInv, ChainInv, Advertises, BoundInv, Refreshing
<1> QED
  BY <1>2, <1>3, <1>4, <1>5, <1>6 DEF SdkInv

-----------------------------------------------------------------------------
(* A new registration gets a free handle: *)
NewHandle(f, d) ==
    /\ d \in unused /\ unused' = unused \ {d}
    /\ f \in Slots /\ HandleTable[f] = NoReg
    /\ HandleTable' = [HandleTable EXCEPT ![f] = d]

(* what the table is afterwards; *)
LEMMA NewHandleIs ==
    ASSUME SdkInv, NEW f, NEW d, NewHandle(f, d)
    PROVE  /\ HandleTable' \in [Slots -> Regs \cup {NoReg}] /\ HandleTable'[f] = d
           /\ \A g \in Slots \ {f} : HandleTable'[g] = HandleTable[g]
           /\ d \in Regs /\ d # NoReg
<1>1. HandleTable \in [Slots -> Regs \cup {NoReg}] /\ d \in Regs /\ f \in Slots
  BY Types DEF NewHandle
<1>2. d # NoReg
  BY <1>1, SdkAssumption DEF Regs
<1> QED
  BY <1>1, <1>2 DEF NewHandle

(* it is the only one of that registration, *)
LEMMA NewHandleReg ==
    ASSUME SdkInv, NEW f, NEW d, NewHandle(f, d),
           \A u \in Threads : \/ th'[u].reg = th[u].reg /\ th'[u].h = th[u].h
                              \/ th'[u].reg = d /\ th'[u].h = f
    PROVE  RegInv'
<1>1. /\ RegInv /\ d \in unused /\ unused' = unused \ {d} /\ f \in Slots
      /\ HandleTable'[f] = d /\ \A g \in Slots \ {f} : HandleTable'[g] = HandleTable[g]
  BY NewHandleIs DEF SdkInv, NewHandle
<1>2. \A g \in Slots : HandleTable[g] # d
  BY <1>1 DEF RegInv
<1>3. \A g, h \in Slots :
         HandleTable'[g] # NoReg /\ HandleTable'[g] = HandleTable'[h] => g = h
  BY <1>1, <1>2 DEF RegInv
<1>4. \A h \in Slots : HandleTable'[h] \notin unused'
  BY <1>1 DEF RegInv
<1>5. \A u \in Threads : th'[u].reg \notin unused'
  BY <1>1 DEF RegInv
<1>6. \A u \in Threads, h \in Slots :
         th'[u].reg # NoReg /\ HandleTable'[h] = th'[u].reg => th'[u].h = h
  BY <1>1, <1>2 DEF RegInv
<1> QED
  BY <1>3, <1>4, <1>5, <1>6 DEF RegInv

(* which has not been advertised. *)
LEMMA NewHandleChain ==
    ASSUME SdkInv, NEW f, NEW d, NewHandle(f, d), UNCHANGED <<armed, due, announced>>,
           \A u \in Threads : th'[u] = th[u] \/ th[u].ad # 1
    PROVE  ChainInv'
<1>1. /\ d \in unused /\ unused' = unused \ {d} /\ f \in Slots /\ announced \cap unused = {}
      /\ HandleTable'[f] = d /\ \A g \in Slots \ {f} : HandleTable'[g] = HandleTable[g]
  BY NewHandleIs DEF SdkInv, ChainInv, NewHandle
<1>2. ASSUME NEW g \in Slots, HandleTable'[g] \in announced
      PROVE  armed[g] > 0 \/ due[g] > 0 \/ \E u \in Threads : Advertises(u, g, HandleTable[g])'
  <2>1. HandleTable'[g] = HandleTable[g]
    BY <1>1, <1>2
  <2>2. \A u \in Threads : Advertises(u, g, HandleTable[g])
                           => Advertises(u, g, HandleTable[g])'
    BY <2>1 DEF Advertises
  <2> QED
    BY <1>2, <2>1, <2>2 DEF SdkInv, ChainInv
<1> QED
  BY <1>1, <1>2 DEF ChainInv

(* UpnpRegisterClient. *)
LEMMA RegisterClientStep ==
    ASSUME SdkInv, NEW c \in Fresh(Clis), UpnpRegisterClient(App, c)
    PROVE  SdkInv'
<1> DEFINE f == GetFreeHandle
<1>1. NewHandle(f, c) /\ c \in Clis
  BY FreeHandleFree, FreshUnused DEF UpnpRegisterClient, NewHandle
<1>2. /\ UNCHANGED <<UpnpSdkInit, listening, stray, corrupt>>
      /\ lists' = lists /\ lock' = lock /\ th' = th /\ Unlocked
      /\ timer' = timer /\ armed' = armed /\ due' = due /\ announced' = announced
      /\ main' = main /\ unused' \subseteq unused
  BY DEF UpnpRegisterClient, timing, ghosts
<1>3. /\ HandleTable' \in [Slots -> Regs \cup {NoReg}] /\ HandleTable'[f] = c
      /\ \A g \in Slots \ {f} : HandleTable'[g] = HandleTable[g]
  BY <1>1, NewHandleIs
<1>4. BoundInv'
  BY <1>2 DEF SdkInv, BoundInv, Refreshing
<1>5. TypeOK'
  <2>1. UNCHANGED <<CallBackFn, ListenerState, listener, packets, received>>
    BY <1>2 DEF listening
  <2> QED
    BY <1>2, <1>3, <1>4, <2>1, Types, Rest, TypeKept
<1>6. ThreadInv'
  BY <1>2 DEF SdkInv, ThreadInv
<1>7. RegInv'
  BY <1>1, <1>2, NewHandleReg
<1>8. LockInv'
  BY <1>2 DEF SdkInv, LockInv
<1>9. HandleHeld'
  <2>1. NoThread \notin Threads
    BY SdkAssumption DEF Threads
  <2>2. stray \/ \A t \in Threads : th[t].pc \notin {"walk", "download"}
    BY <1>2, <2>1 DEF SdkInv, LockInv, Unlocked
  <2> QED
    BY <1>2, <2>2 DEF HandleHeld
<1>10. DevicesWhole'
  <2> SUFFICES ASSUME NEW g \in Slots, HandleTable'[g] \in Devs \ lists
               PROVE  \E u \in Threads : /\ th[u].pc \in {"download", "freehandle"}
                                         /\ th[u].h = g /\ th[u].reg = HandleTable'[g]
    BY <1>2 DEF DevicesWhole
  <2>1. c \notin Devs
    BY <1>1, SdkAssumption
  <2>2. HandleTable'[g] = HandleTable[g]
    BY <1>3, <2>1
  <2>3. PICK u \in Threads : /\ th[u].pc \in {"download", "freehandle"}
                             /\ th[u].h = g /\ th[u].reg = HandleTable[g]
    BY <2>2 DEF SdkInv, DevicesWhole
  <2> QED
    BY <2>2, <2>3
<1>11. ChainInv'
  BY <1>1, <1>2, NewHandleChain
<1> QED
  BY <1>4, <1>5, <1>6, <1>7, <1>8, <1>9, <1>10, <1>11 DEF SdkInv

(* UpnpRegisterRootDevice. *)
LEMMA RegisterRootDeviceStep ==
    ASSUME SdkInv, NEW d \in Fresh(Devs), UpnpRegisterRootDevice(App, d)
    PROVE  SdkInv'
<1> DEFINE f == GetFreeHandle
<1>1. NewHandle(f, d) /\ d \in Devs /\ f \in Slots
  BY FreeHandleFree, FreshUnused DEF UpnpRegisterRootDevice, NewHandle
<1>2. /\ UNCHANGED <<UpnpSdkInit, listening, stray, corrupt>>
      /\ lists' = lists /\ lock' = App /\ Unlocked
      /\ timer' = timer /\ armed' = armed /\ due' = due /\ announced' = announced
      /\ main' = main /\ unused' \subseteq unused
      /\ Become(App, [Idle EXCEPT !.pc = "download", !.h = f, !.reg = d])
  BY DEF UpnpRegisterRootDevice, timing, ghosts
<1>3. /\ HandleTable' \in [Slots -> Regs \cup {NoReg}] /\ HandleTable'[f] = d
      /\ \A g \in Slots \ {f} : HandleTable'[g] = HandleTable[g]
      /\ d \in Regs
  BY <1>1, NewHandleIs
<1>4. /\ App \in Threads /\ App # Main /\ th[App] = Idle /\ th[App].pc = "idle"
      /\ th[App].ad = 0 /\ TypeOK
  BY SdkAssumption, IdleLocal DEF Threads, UpnpRegisterRootDevice, MayCall, SdkInv
<1>5. Moved(App, "download", f, d, 0)
  <2>1. "download" \in Pcs /\ 0 \in -1 .. 1
    BY DEF Pcs
  <2> QED
    BY <1>1, <1>2, <1>3, <1>4, <2>1, Begins
<1>6. BoundInv'
  BY <1>2, <1>4, <1>5, BoundSame
<1>7. TypeOK'
  <2>1. lock' \in Threads \cup {NoThread}
    BY <1>2, <1>4
  <2> QED
    BY <1>2, <1>3, <1>5, <1>6, <2>1, Types, TypeOfMoved
<1>8. ThreadInv'
  <2>1. th'[Main] # Idle => main' \in {"finish client", "finish timer"}
    BY <1>2, <1>4, <1>5, MainKept
  <2> QED
    BY <1>1, <1>4, <1>5, <2>1, ThreadKept
<1>9. RegInv'
  BY <1>1, <1>5, NewHandleReg DEF Moved
<1>10. LockInv'
  BY <1>2, <1>4, <1>5, LockKept
<1>11. HandleHeld'
  BY <1>2, <1>3, <1>4, <1>5, HeldKept
<1>12. DevicesWhole'
  <2> SUFFICES ASSUME NEW g \in Slots, HandleTable'[g] \in Devs \ lists
               PROVE  \E u \in Threads : /\ th'[u].pc \in {"download", "freehandle"}
                                         /\ th'[u].h = g /\ th'[u].reg = HandleTable'[g]
    BY <1>2 DEF DevicesWhole
  <2>1. CASE g = f
    BY <1>3, <1>4, <1>5, <2>1 DEF Moved
  <2>2. CASE g # f
    <3>1. HandleTable'[g] = HandleTable[g]
      BY <1>3, <2>2
    <3>2. PICK u \in Threads : /\ th[u].pc \in {"download", "freehandle"}
                               /\ th[u].h = g /\ th[u].reg = HandleTable[g]
      BY <3>1 DEF SdkInv, DevicesWhole
    <3>3. u # App
      BY <1>4, <3>2
    <3> QED
      BY <1>5, <3>1, <3>2, <3>3 DEF Moved
  <2> QED
    BY <2>1, <2>2
<1>13. ChainInv'
  <2>1. \A u \in Threads : th'[u] = th[u] \/ th[u].ad # 1
    BY <1>4, <1>5 DEF Moved
  <2> QED
    BY <1>1, <1>2, <2>1, NewHandleChain
<1> QED
  BY <1>6, <1>7, <1>8, <1>9, <1>10, <1>11, <1>12, <1>13 DEF SdkInv

-----------------------------------------------------------------------------
(* The invariant holds at first, *)
LEMMA SdkInit == Init => SdkInv
<1> SUFFICES ASSUME Init PROVE SdkInv
  OBVIOUS
<1>1. /\ \A t \in Threads : /\ th[t] = Idle /\ th[t].pc = "idle" /\ th[t].h = 0
                            /\ th[t].reg = NoReg /\ th[t].ad = 0
      /\ Main \in Threads /\ NoReg \notin Regs /\ NoThread \notin Threads
  BY SdkAssumption, IdleLocal DEF Init, Threads, Regs
<1>2. \A h \in Slots : HandleTable[h] = NoReg /\ armed[h] = 0 /\ due[h] = 0
  BY DEF Init
<1>3. th \in [Threads -> Local]
  BY IdleLocal DEF Init
<1>4. armed \in [Slots -> 0 .. MaxEvents] /\ due \in [Slots -> 0 .. MaxEvents]
      /\ received \in 0 .. MaxPackets
  BY SdkAssumption DEF Init
<1>5. TypeOK
  BY <1>3, <1>4 DEF Init, TypeOK, Local, Pcs
<1>6. ThreadInv
  BY <1>1 DEF ThreadInv
<1>7. RegInv
  BY <1>1, <1>2 DEF RegInv, Init
<1>8. LockInv /\ HandleHeld
  BY <1>1 DEF LockInv, HandleHeld
<1>9. DevicesWhole
  BY <1>1, <1>2 DEF DevicesWhole, Regs
<1>10. ChainInv
  BY DEF ChainInv, Init
<1>11. BoundInv
  <2> SUFFICES ASSUME NEW h \in Slots
               PROVE  armed[h] + due[h] + Cardinality(Refreshing(h)) <= MaxEvents
    BY DEF BoundInv
  <2>1. Refreshing(h) = {}
    BY <1>1 DEF Refreshing
  <2>2. Cardinality(Refreshing(h)) = 0
    BY <2>1, FS_EmptySet
  <2>3. MaxEvents \in Nat
    BY SdkAssumption
  <2> QED
    BY <1>2, <2>2, <2>3
<1> QED
  BY <1>5, <1>6, <1>7, <1>8, <1>9, <1>10, <1>11 DEF SdkInv

(* every step keeps it, *)
LEMMA SdkStep == SdkInv /\ [Next]_vars => SdkInv'
<1> SUFFICES ASSUME SdkInv, [Next]_vars PROVE SdkInv'
  OBVIOUS
<1>1. CASE Api
  BY <1>1, RegisterRootDeviceStep, RegisterClientStep, UnRegisterClientStep,
     UnRegisterRootDeviceStep, SendAdvertisementStep, RenewStep DEF Api
<1>2. CASE InitGoesOn \/ RetryInit \/ CallFinish
  BY <1>2, InitStep
<1>3. CASE FinishGoesOn
  BY <1>3, FinishStep
<1>4. ASSUME NEW t \in Threads, Continue(t)
      PROVE  SdkInv'
  BY <1>4, RegisteredStep, FreeListsStep, FreeHandleStep, AdvertiseStep, AnnouncedStep,
     ScheduleRefreshStep, SsdpCallbackStep, UseHandleInfoStep DEF Continue
<1>5. ASSUME NEW w \in Workers, TakeJob(w)
      PROVE  SdkInv'
  BY <1>5, AutoAdvertiseStep, TransferResStep DEF TakeJob
<1>6. CASE Listener \/ ReceivePacket \/ SelectFails
  BY <1>6, ListenerStep
<1>7. CASE TimerSome
  BY <1>7, TimerFiresStep DEF TimerSome
<1>8. CASE UNCHANGED vars
  <2>1. /\ UNCHANGED <<UpnpSdkInit, CallBackFn, main, HandleTable, lists, unused, lock, th,
                       ListenerState, listener, packets, received, timer, armed, due, announced,
                       stray, corrupt>>
    BY <1>8 DEF vars
  <2>2. TypeOK'
    <3>1. /\ UpnpSdkInit' \in {0, 1} /\ CallBackFn' \in BOOLEAN
          /\ ListenerState' \in {"Idle", "Running", "Stopping"}
          /\ listener' \in {"off", "queued", "top", "tested", "select", "leaving"}
          /\ packets' \in SUBSET {"alive", "search"} /\ received' \in 0 .. MaxPackets
          /\ timer' \in {"off", "up", "closing", "stopped"}
          /\ corrupt' \in BOOLEAN
      BY <2>1, Rest
    <3>2. main' \in {"new", "init timer", "init ssdp", "init wait", "init server", "up",
                     "failed", "finish", "finish client", "finish timer", "deinit",
                     "set stopping", "poll", "poll again", "stop server", "finished"}
      BY <2>1, Rest
    <3> QED
      BY <2>1, <3>1, <3>2, Rest, TypeOfStays
  <2> QED
    BY <2>1, <2>2, Rest, Stays
<1> QED
  BY <1>1, <1>2, <1>3, <1>4, <1>5, <1>6, <1>7, <1>8 DEF Next

(* and so it always holds. *)
LEMMA SdkAlways == Spec => []SdkInv
  BY SdkInit, SdkStep, PTL DEF Spec

(* While AdvertiseAndReply walks a device or a registration fills it in, the
   handle stays that device's, unless a stray unlock has let others in. *)
THEOREM HandlesAreSound == Spec => []HandlesSound
<1>1. SdkInv => HandlesSound
  BY DEF SdkInv, HandlesSound
<1> QED
  BY <1>1, SdkAlways, PTL

(* No device is left half registered: one that is in the table without its
   lists is being registered or unregistered by a thread that knows it. *)
THEOREM DevicesAreWhole == Spec => []DevicesWhole
<1>1. SdkInv => DevicesWhole
  BY DEF SdkInv
<1> QED
  BY <1>1, SdkAlways, PTL

(* A registered device that counts as advertised has a refresh in the timer,
   with the pool, or being carried out. *)
THEOREM RefreshesArePending == Spec => []RefreshPending
<1>1. SdkInv => RefreshPending
  <2> SUFFICES ASSUME SdkInv, NEW h \in Slots, HandleTable[h] \in announced
               PROVE  Chains(h) > 0
    BY DEF RefreshPending
  <2> DEFINE n == Cardinality(Refreshing(h))
  <2>1. armed[h] \in Nat /\ due[h] \in Nat
    BY Types
  <2>2. n \in Nat
    BY RefreshingFinite
  <2>3. armed[h] > 0 \/ due[h] > 0 \/ n > 0
    <3>1. ASSUME NEW t \in Threads, Advertises(t, h, HandleTable[h])
          PROVE  n > 0
      <4>1. t \in Refreshing(h)
        BY <3>1 DEF Advertises, Refreshing
      <4>2. n # 0
        BY <4>1, RefreshingFinite, FS_EmptySet
      <4> QED
        BY <2>2, <4>2
    <3> QED
      BY <3>1 DEF SdkInv, ChainInv
  <2>4. Chains(h) = armed[h] + due[h] + n
    BY DEF Chains, Refreshing
  <2> HIDE DEF n
  <2> QED
    BY <2>1, <2>2, <2>3, <2>4
<1> QED
  BY <1>1, SdkAlways, PTL
=============================================================================

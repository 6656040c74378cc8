-------------------------- MODULE ThreadPoolProofs --------------------------
(***************************************************************************)
(* Proofs about ThreadPool, for any number of threads, jobs and waiters    *)
(* and any arguments of setMaxThreads.                                     *)
(***************************************************************************)
EXTENDS ThreadPool, FiniteSetTheorems, TLAPS

RunningHasJob == \A t \in Threads : thr[t] = "running" => callback[t] \in Jobs

(* The types alone are not inductive: DecrementThreads could take numThreads
   below zero, and CallbackReturns could add NoJob to the finished jobs.
   That the count is exact, and that a running thread has a job, are
   therefore part of the invariant. *)
CountInv == TypeOK /\ NumThreadsExact /\ RunningHasJob

LEMMA LiveFinite ==
    ASSUME TypeOK
    PROVE  IsFiniteSet(Live) /\ Cardinality(Live) \in Nat
  BY PoolAssumption, FS_Subset, FS_CardinalityType DEF Live

(* Signalling moves a thread from "waiting" to "woken" and nothing else. *)
LEMMA SignalledThreads ==
    ASSUME NEW f \in [Threads -> ThreadState], NEW g \in Signalled(f)
    PROVE  /\ g \in [Threads -> ThreadState]
           /\ \A t \in Threads : \/ g[t] = f[t]
                                 \/ f[t] = "waiting" /\ g[t] = "woken"
  BY DEF Signalled, ThreadState

LEMMA BroadcastThreads ==
    ASSUME NEW f \in [Threads -> ThreadState]
    PROVE  /\ Broadcast(f) \in [Threads -> ThreadState]
           /\ \A t \in Threads : /\ Broadcast(f)[t] # "waiting"
                                 /\ \/ Broadcast(f)[t] = f[t]
                                    \/ /\ f[t] = "waiting"
                                       /\ Broadcast(f)[t] = "woken"
  BY DEF Broadcast, ThreadState

(* A step that neither creates nor ends a thread leaves Live alone. *)
LEMMA LiveUnchanged ==
    ASSUME TypeOK,
           \A t \in Threads : thr'[t] \in Counted <=> thr[t] \in Counted
    PROVE  Live' = Live
  BY DEF Live

LEMMA CountInit == Init => CountInv
<1> SUFFICES ASSUME Init PROVE CountInv
  OBVIOUS
<1>1. TypeOK
  <2>1. q \in Seq(Jobs) /\ numThreads \in Nat
    BY DEF Init
  <2>0. allDie \in BOOLEAN
    BY DEF Init
  <2>2. maxThreads \in MaxChoices
    BY PoolAssumption DEF Init
  <2>3. thr \in [Threads -> ThreadState]
    BY DEF Init, ThreadState
  <2>4. callback \in [Threads -> Jobs \cup {NoJob}]
    BY DEF Init
  <2>5. waiter \in [Waiters -> {"out", "blocked", "woken"}]
    BY DEF Init
  <2>6. ret \in [Jobs -> {"uncalled", "accepted", "refused"}]
    BY DEF Init
  <2>7. dtor = "alive" /\ finished \in SUBSET Jobs
    BY DEF Init
  <2>8. QED
    BY <2>1, <2>2, <2>3, <2>4, <2>5, <2>6, <2>7, <2>0 DEF TypeOK
<1>2. Live = {}
  BY DEF Init, Live, Counted
<1>3. NumThreadsExact
  BY <1>2, FS_EmptySet, PoolAssumption DEF Init, NumThreadsExact
<1>4. RunningHasJob
  BY DEF Init, RunningHasJob
<1>5. QED
  BY <1>1, <1>3, <1>4 DEF CountInv

(* Only TakeJob makes a thread run, and it gives it a job of the queue. *)
LEMMA RunningStep ==
    TypeOK /\ RunningHasJob /\ [Next]_vars => RunningHasJob'
<1> SUFFICES ASSUME TypeOK, RunningHasJob, [Next]_vars PROVE RunningHasJob'
  OBVIOUS
<1> USE DEF RunningHasJob
<1>a. ASSUME \A t \in Threads : thr'[t] = "running" => thr[t] = "running",
             callback' = callback
      PROVE  RunningHasJob'
  BY <1>a
<1>1. ASSUME NEW j \in Jobs, schedule(j) PROVE RunningHasJob'
  <2>1. CASE ScheduleNoMemory(j)
    BY <2>1, <1>a DEF ScheduleNoMemory
  <2>2. CASE ScheduleAtMax(j)
    BY <2>2, <1>a, SignalledThreads DEF ScheduleAtMax, TypeOK
  <2>3. CASE ScheduleNewThread(j)
    <3>1. PICK f \in Signalled(thr), t \in Threads :
             f[t] = "none" /\ thr' = [f EXCEPT ![t] = "ready"]
      BY <2>3 DEF ScheduleNewThread
    <3>2. \A u \in Threads : thr'[u] = "running" => thr[u] = "running"
      BY <3>1, SignalledThreads DEF TypeOK
    <3>3. QED
      BY <2>3, <3>2, <1>a DEF ScheduleNewThread
  <2>4. CASE ScheduleNoThread(j)
    BY <2>4, <1>a, SignalledThreads DEF ScheduleNoThread, TypeOK
  <2>5. QED
    BY <1>1, <2>1, <2>2, <2>3, <2>4 DEF schedule
<1>2. ASSUME NEW m \in MaxChoices, setMaxThreads(m) PROVE RunningHasJob'
  BY <1>2, <1>a DEF setMaxThreads
<1>3. ASSUME NEW t \in Threads, GetNextItemInQueue(t) PROVE RunningHasJob'
  <2>1. CASE TakeJob(t)
    <3>1. Head(q) \in Jobs
      BY <2>1 DEF TakeJob, TypeOK
    <3>2. QED
      BY <2>1, <3>1 DEF TakeJob, TypeOK
  <2>2. CASE Terminate(t) \/ LingerExpired(t) \/ WaitForJob(t)
    BY <2>2, <1>a DEF Terminate, LingerExpired, WaitForJob, TypeOK
  <2>3. QED
    BY <1>3, <2>1, <2>2 DEF GetNextItemInQueue
<1>4. ASSUME NEW t \in Threads,
             TimedWaitReturns(t) \/ DecrementThreads(t) \/ ThreadExit(t)
      PROVE  RunningHasJob'
  BY <1>4, <1>a DEF TimedWaitReturns, DecrementThreads, ThreadExit, TypeOK
<1>5. ASSUME NEW t \in Threads, CallbackReturns(t) PROVE RunningHasJob'
  BY <1>5 DEF CallbackReturns, TypeOK
<1>6. ASSUME NEW w \in Waiters, waitForZeroJobs(w) PROVE RunningHasJob'
  BY <1>6, <1>a DEF waitForZeroJobs
<1>7. ASSUME Dtor PROVE RunningHasJob'
  <2>1. callback' = callback /\ (thr' = thr \/ thr' = Broadcast(thr))
    BY <1>7 DEF Dtor, DtorDie, DtorPoll, DtorZeroBroadcast, DtorDestroy
  <2>2. QED
    BY <2>1, <1>a, BroadcastThreads DEF TypeOK
<1>8. CASE UNCHANGED vars
  BY <1>8, <1>a DEF vars
<1>9. QED
  BY <1>1, <1>2, <1>3, <1>4, <1>5, <1>6, <1>7, <1>8 DEF Next

(* Every action keeps the types and the count: the two actions that change
   numThreads change Live by the same one thread. *)
LEMMA CountStep == CountInv /\ [Next]_vars => CountInv'
<1> SUFFICES ASSUME CountInv, [Next]_vars PROVE CountInv'
  OBVIOUS
<1> USE DEF CountInv
<1>0. /\ IsFiniteSet(Live) /\ Cardinality(Live) \in Nat
      /\ numThreads = Cardinality(Live) /\ numThreads <= Limit
      /\ Limit \in Nat /\ \A m \in MaxChoices : m <= Limit /\ m \in Nat
  BY LiveFinite, PoolAssumption DEF NumThreadsExact
<1>b. RunningHasJob'
  BY RunningStep
<1>a. ASSUME TypeOK', Live' = Live, numThreads' = numThreads
      PROVE  CountInv'
  BY <1>a, <1>b, <1>0 DEF NumThreadsExact
<1>1. ASSUME NEW j \in Jobs, schedule(j) PROVE CountInv'
  <2>1. CASE ScheduleNoMemory(j)
    <3>1. TypeOK'
      BY <2>1 DEF ScheduleNoMemory, TypeOK
    <3>2. Live' = Live
      BY <2>1 DEF ScheduleNoMemory, Live
    <3>3. QED
      BY <3>1, <3>2, <2>1, <1>a DEF ScheduleNoMemory
  <2>2. CASE ScheduleAtMax(j)
    <3>1. TypeOK'
      BY <2>2, SignalledThreads DEF ScheduleAtMax, TypeOK
    <3>2. Live' = Live
      BY <2>2, SignalledThreads, LiveUnchanged
         DEF ScheduleAtMax, TypeOK, Counted, ThreadState
    <3>3. QED
      BY <3>1, <3>2, <2>2, <1>a DEF ScheduleAtMax
  <2>3. CASE ScheduleNewThread(j)
    <3>1. PICK f \in Signalled(thr), t \in Threads :
             f[t] = "none" /\ thr' = [f EXCEPT ![t] = "ready"]
      BY <2>3 DEF ScheduleNewThread
    <3>2. /\ f \in [Threads -> ThreadState]
          /\ \A u \in Threads : \/ f[u] = thr[u]
                                \/ thr[u] = "waiting" /\ f[u] = "woken"
      BY SignalledThreads DEF TypeOK
    <3>3. TypeOK'
      <4>1. thr' \in [Threads -> ThreadState]
        BY <3>1, <3>2 DEF ThreadState
      <4>2. numThreads' \in Nat /\ q' \in Seq(Jobs)
        BY <2>3 DEF ScheduleNewThread, TypeOK
      <4>3. QED
        BY <2>3, <4>1, <4>2 DEF ScheduleNewThread, TypeOK
    <3>4. Live' = Live \cup {t} /\ t \notin Live
      BY <3>1, <3>2 DEF Live, Counted, ThreadState
    <3>5. Cardinality(Live') = Cardinality(Live) + 1
      BY <3>4, <1>0, FS_AddElement
    <3>6. numThreads' = numThreads + 1 /\ numThreads < maxThreads
      BY <2>3 DEF ScheduleNewThread
    <3>7. numThreads' <= Limit
      <4>1. maxThreads \in Nat /\ maxThreads <= Limit
        BY <1>0 DEF TypeOK
      <4>2. QED
        BY <4>1, <3>6, <1>0
    <3>8. QED
      BY <3>3, <3>5, <3>6, <3>7, <1>0, <1>b DEF NumThreadsExact
  <2>4. CASE ScheduleNoThread(j)
    <3>1. TypeOK'
      BY <2>4, SignalledThreads DEF ScheduleNoThread, TypeOK
    <3>2. Live' = Live
      BY <2>4, SignalledThreads, LiveUnchanged
         DEF ScheduleNoThread, TypeOK, Counted, ThreadState
    <3>3. QED
      BY <3>1, <3>2, <2>4, <1>a DEF ScheduleNoThread
  <2>5. QED
    BY <1>1, <2>1, <2>2, <2>3, <2>4 DEF schedule
<1>2. ASSUME NEW m \in MaxChoices, setMaxThreads(m) PROVE CountInv'
  <2>1. TypeOK' /\ Live' = Live /\ numThreads' = numThreads
    BY <1>2 DEF setMaxThreads, TypeOK, Live
  <2>2. QED
    BY <2>1, <1>a
<1>3. ASSUME NEW t \in Threads, GetNextItemInQueue(t) PROVE CountInv'
  <2>1. TypeOK'
    <3>1. CASE Terminate(t)
      BY <3>1 DEF Terminate, TypeOK, ThreadState
    <3>2. CASE LingerExpired(t)
      BY <3>2 DEF LingerExpired, TypeOK, ThreadState
    <3>3. CASE TakeJob(t)
      BY <3>3 DEF TakeJob, ZeroBroadcast, TypeOK, ThreadState
    <3>4. CASE WaitForJob(t)
      BY <3>4 DEF WaitForJob, TypeOK, ThreadState
    <3>5. QED
      BY <1>3, <3>1, <3>2, <3>3, <3>4 DEF GetNextItemInQueue
  <2>2. numThreads' = numThreads
    BY <1>3 DEF GetNextItemInQueue, Terminate, LingerExpired, TakeJob,
                WaitForJob
  <2>3. \E s \in Counted : thr' = [thr EXCEPT ![t] = s]
    BY <1>3 DEF GetNextItemInQueue, Terminate, LingerExpired, TakeJob,
                WaitForJob, Counted, ThreadState
  <2>4. thr[t] \in Counted
    BY <1>3 DEF GetNextItemInQueue, Terminate, LingerExpired, TakeJob,
                WaitForJob, HasMutex, Counted, ThreadState
  <2>5. Live' = Live
    BY <2>3, <2>4, LiveUnchanged DEF TypeOK
  <2>6. QED
    BY <2>1, <2>2, <2>5, <1>a
<1>4. ASSUME NEW t \in Threads, TimedWaitReturns(t) PROVE CountInv'
  <2>1. TypeOK' /\ numThreads' = numThreads
    BY <1>4 DEF TimedWaitReturns, TypeOK, ThreadState
  <2>2. Live' = Live
    BY <1>4, LiveUnchanged DEF TimedWaitReturns, TypeOK, Counted, ThreadState
  <2>3. QED
    BY <2>1, <2>2, <1>a
<1>5. ASSUME NEW t \in Threads, CallbackReturns(t) PROVE CountInv'
  <2>1. TypeOK' /\ numThreads' = numThreads
    <3>1. callback[t] \in Jobs
      BY <1>5 DEF RunningHasJob, CallbackReturns
    <3>2. QED
      BY <1>5, <3>1 DEF CallbackReturns, TypeOK, ThreadState
  <2>2. Live' = Live
    BY <1>5, LiveUnchanged DEF CallbackReturns, TypeOK, Counted, ThreadState
  <2>3. QED
    BY <2>1, <2>2, <1>a
<1>6. ASSUME NEW t \in Threads, DecrementThreads(t) PROVE CountInv'
  <2>1. Live' = Live \ {t} /\ t \in Live
    BY <1>6 DEF DecrementThreads, TypeOK, Live, Counted, ThreadState
  <2>2. Cardinality(Live') = Cardinality(Live) - 1
    BY <2>1, <1>0, FS_RemoveElement
  <2>3. IsFiniteSet(Live') /\ Cardinality(Live') \in Nat
    BY <2>1, <1>0, FS_RemoveElement, FS_CardinalityType
  <2>4. numThreads' = numThreads - 1
    BY <1>6 DEF DecrementThreads
  <2>5. TypeOK'
    BY <1>6, <2>2, <2>3, <2>4, <1>0
       DEF DecrementThreads, TypeOK, ThreadState
  <2>6. QED
    BY <2>2, <2>3, <2>4, <2>5, <1>0, <1>b DEF NumThreadsExact
<1>7. ASSUME NEW t \in Threads, ThreadExit(t) PROVE CountInv'
  <2>1. TypeOK' /\ numThreads' = numThreads
    BY <1>7 DEF ThreadExit, TypeOK, ThreadState
  <2>2. Live' = Live
    BY <1>7, LiveUnchanged DEF ThreadExit, TypeOK, Counted, ThreadState
  <2>3. QED
    BY <2>1, <2>2, <1>a
<1>8. ASSUME NEW w \in Waiters, waitForZeroJobs(w) PROVE CountInv'
  <2>1. TypeOK' /\ numThreads' = numThreads /\ Live' = Live
    BY <1>8 DEF waitForZeroJobs, TypeOK, Live
  <2>2. QED
    BY <2>1, <1>a
<1>9. ASSUME Dtor PROVE CountInv'
  <2>0. Broadcast(thr) \in [Threads -> ThreadState]
    BY BroadcastThreads DEF TypeOK
  <2>1. TypeOK' /\ numThreads' = numThreads
    <3>1. CASE DtorDie
      BY <3>1, <2>0 DEF DtorDie, TypeOK
    <3>2. CASE DtorPoll
      BY <3>2, <2>0 DEF DtorPoll, TypeOK
    <3>3. CASE DtorZeroBroadcast
      BY <3>3 DEF DtorZeroBroadcast, ZeroBroadcast, TypeOK
    <3>4. CASE DtorDestroy
      BY <3>4 DEF DtorDestroy, TypeOK
    <3>5. QED
      BY <1>9, <3>1, <3>2, <3>3, <3>4 DEF Dtor
  <2>2. thr' = thr \/ thr' = Broadcast(thr)
    BY <1>9 DEF Dtor, DtorDie, DtorPoll, DtorZeroBroadcast, DtorDestroy
  <2>3. Live' = Live
    BY <2>2, BroadcastThreads, LiveUnchanged
       DEF TypeOK, Counted, ThreadState
  <2>4. QED
    BY <2>1, <2>3, <1>a
<1>10. CASE UNCHANGED vars
  BY <1>10, <1>a DEF vars, TypeOK, Live
<1>11. QED
  BY <1>1, <1>2, <1>3, <1>4, <1>5, <1>6, <1>7, <1>8, <1>9, <1>10 DEF Next

(* The pool's count of its threads (numThreads of tpool.cpp) is always the
   number of threads that have not given up their place, and never above
   the largest value given to setMaxThreads. *)
THEOREM ThreadCountCorrect == Spec => [](TypeOK /\ NumThreadsExact)
<1>1. CountInv => TypeOK /\ NumThreadsExact
  BY DEF CountInv
<1>2. QED
  BY CountInit, CountStep, <1>1, PTL DEF Spec

-----------------------------------------------------------------------------
(* ~ThreadPool.  Reading numThreads = 0 without the mutex proves that no
   thread is counted, hence that nothing runs and nothing can be scheduled
   any more; the last thread may still hold the mutex, which is why only the
   critical section that follows (DtorZeroBroadcast) makes the pool quiet. *)
DtorInv ==
    /\ allDie <=> dtor # "alive"
    /\ NoWaitAfterDie
    /\ dtor \in {"drained", "signalled", "destroyed"} => Live = {}
    /\ dtor \in {"signalled", "destroyed"} =>
          \A t \in Threads : thr[t] = "none"

LEMMA NoLiveThread ==
    ASSUME CountInv, numThreads = 0
    PROVE  Live = {}
  BY LiveFinite, FS_EmptySet DEF CountInv, NumThreadsExact

LEMMA DtorStep == CountInv /\ DtorInv /\ [Next]_vars => DtorInv'
<1> SUFFICES ASSUME CountInv, DtorInv, [Next]_vars PROVE DtorInv'
  OBVIOUS
<1>0. TypeOK
  BY DEF CountInv
<1>a. ASSUME NEW t \in Threads, thr[t] \in Counted
      PROVE  dtor \in {"alive", "dying"}
  BY <1>a, <1>0 DEF DtorInv, Live, TypeOK
<1>b. ASSUME dtor' = dtor, allDie' = allDie, dtor \in {"alive", "dying"},
             allDie => \A t \in Threads : thr'[t] # "waiting"
      PROVE  DtorInv'
  BY <1>b DEF DtorInv, NoWaitAfterDie
<1>1. ASSUME NEW j \in Jobs, schedule(j) PROVE DtorInv'
  <2>1. MaySchedule /\ dtor' = dtor /\ allDie' = allDie
    BY <1>1 DEF schedule, ScheduleNoMemory, ScheduleAtMax,
                ScheduleNewThread, ScheduleNoThread
  <2>2. dtor \in {"alive", "dying"}
    BY <2>1, <1>a DEF MaySchedule, Counted, ThreadState
  <2>3. \A t \in Threads : thr'[t] = "waiting" => thr[t] = "waiting"
    <3>1. thr' = thr \/ thr' \in Signalled(thr)
          \/ \E f \in Signalled(thr), t \in Threads :
                  thr' = [f EXCEPT ![t] = "ready"]
      BY <1>1 DEF schedule, ScheduleNoMemory, ScheduleAtMax,
                  ScheduleNewThread, ScheduleNoThread
    <3>2. QED
      BY <3>1, <1>0, SignalledThreads DEF TypeOK
  <2>4. QED
    BY <2>1, <2>2, <2>3, <1>b DEF DtorInv, NoWaitAfterDie
<1>2. ASSUME NEW m \in MaxChoices, setMaxThreads(m) PROVE DtorInv'
  BY <1>2 DEF setMaxThreads, DtorInv, NoWaitAfterDie, Live
<1>3. ASSUME NEW t \in Threads, GetNextItemInQueue(t) PROVE DtorInv'
  <2>1. thr[t] \in Counted /\ dtor' = dtor /\ allDie' = allDie
    BY <1>3 DEF GetNextItemInQueue, Terminate, LingerExpired, TakeJob,
                WaitForJob, HasMutex, Counted, ThreadState
  <2>2. allDie => \A u \in Threads : thr'[u] # "waiting"
    BY <1>3, <1>0 DEF GetNextItemInQueue, Terminate, LingerExpired, TakeJob,
                      WaitForJob, DtorInv, NoWaitAfterDie, TypeOK
  <2>3. QED
    BY <2>1, <2>2, <1>a, <1>b
<1>4. ASSUME NEW t \in Threads, TimedWaitReturns(t) \/ CallbackReturns(t)
                                \/ DecrementThreads(t)
      PROVE  DtorInv'
  <2>1. thr[t] \in Counted /\ dtor' = dtor /\ allDie' = allDie
    BY <1>4 DEF TimedWaitReturns, CallbackReturns, DecrementThreads, Counted,
                ThreadState
  <2>2. allDie => \A u \in Threads : thr'[u] # "waiting"
    BY <1>4, <1>0 DEF TimedWaitReturns, CallbackReturns, DecrementThreads,
                      DtorInv, NoWaitAfterDie, TypeOK
  <2>3. QED
    BY <2>1, <2>2, <1>a, <1>b
<1>5. ASSUME NEW t \in Threads, ThreadExit(t) PROVE DtorInv'
  BY <1>5, <1>0 DEF ThreadExit, DtorInv, NoWaitAfterDie, Live, Counted, TypeOK
<1>6. ASSUME NEW w \in Waiters, waitForZeroJobs(w) PROVE DtorInv'
  BY <1>6 DEF waitForZeroJobs, DtorInv, NoWaitAfterDie, Live
<1>7. ASSUME Dtor PROVE DtorInv'
  <2>0. /\ Broadcast(thr) \in [Threads -> ThreadState]
        /\ \A t \in Threads : Broadcast(thr)[t] # "waiting"
    BY <1>0, BroadcastThreads DEF TypeOK
  <2>1. CASE DtorDie
    BY <2>1, <2>0 DEF DtorDie, DtorInv, NoWaitAfterDie
  <2>2. CASE DtorPoll
    <3>1. CASE numThreads = 0
      BY <2>2, <3>1, NoLiveThread DEF DtorPoll, DtorInv, NoWaitAfterDie, Live
    <3>2. CASE numThreads # 0
      BY <2>2, <3>2, <2>0 DEF DtorPoll, DtorInv, NoWaitAfterDie
    <3>3. QED
      BY <3>1, <3>2
  <2>3. CASE DtorZeroBroadcast
    <3>1. \A t \in Threads : thr[t] = "none"
      BY <2>3, <1>0 DEF DtorZeroBroadcast, MutexFree, DtorInv, Live, Counted,
                        TypeOK
    <3>2. QED
      BY <2>3, <3>1 DEF DtorZeroBroadcast, DtorInv, NoWaitAfterDie, Live
  <2>4. CASE DtorDestroy
    BY <2>4 DEF DtorDestroy, DtorInv, NoWaitAfterDie, Live
  <2>5. QED
    BY <1>7, <2>1, <2>2, <2>3, <2>4 DEF Dtor
<1>8. CASE UNCHANGED vars
  BY <1>8 DEF vars, DtorInv, NoWaitAfterDie, Live
<1>9. QED
  BY <1>1, <1>2, <1>3, <1>4, <1>5, <1>6, <1>7, <1>8 DEF Next

(* ~ThreadPool is safe: after allDie no worker sleeps on condVariable, and
   when the mutex is destroyed no worker thread exists, although the
   destructor polls numThreads without the mutex. *)
THEOREM DestructorQuiescent == Spec => [](NoWaitAfterDie /\ DestroyedQuiescent)
<1>1. Init => DtorInv
  BY DEF Init, DtorInv, NoWaitAfterDie, Live, Counted
<1>2. DtorInv => NoWaitAfterDie /\ DestroyedQuiescent
  BY DEF DtorInv, DestroyedQuiescent
<1>3. QED
  BY CountInit, CountStep, DtorStep, <1>1, <1>2, PTL DEF Spec

-----------------------------------------------------------------------------
(* waitForZeroJobs.  Only the worker that takes the last job makes the queue
   empty, and it broadcasts in the same critical section; a client blocks in
   a critical section that found a job.  What the clients need of the other
   invariants is only that the queue is a sequence. *)
LEMMA ZeroBroadcastWakes ==
    ASSUME TypeOK, NEW w \in Waiters
    PROVE  ZeroBroadcast[w] # "blocked"
  BY DEF ZeroBroadcast, TypeOK

LEMMA AppendedNotEmpty ==
    ASSUME TypeOK, NEW j \in Jobs
    PROVE  Append(q, j) # << >>
  BY DEF TypeOK

LEMMA WaitersStep == TypeOK /\ ZeroWaitersWoken /\ [Next]_vars
                        => ZeroWaitersWoken'
<1> SUFFICES ASSUME TypeOK, ZeroWaitersWoken, [Next]_vars
             PROVE  ZeroWaitersWoken'
  OBVIOUS
<1>a. ASSUME waiter' = waiter, q' = q \/ q' # << >> PROVE ZeroWaitersWoken'
  BY <1>a DEF ZeroWaitersWoken
<1>b. ASSUME waiter' = ZeroBroadcast PROVE ZeroWaitersWoken'
  BY <1>b, ZeroBroadcastWakes DEF ZeroWaitersWoken
<1>1. ASSUME NEW j \in Jobs, schedule(j) PROVE ZeroWaitersWoken'
  <2>1. waiter' = waiter /\ (q' = q \/ q' = Append(q, j))
    BY <1>1 DEF schedule, ScheduleNoMemory, ScheduleAtMax, ScheduleNewThread,
                ScheduleNoThread
  <2>2. QED
    BY <2>1, <1>a, AppendedNotEmpty
<1>2. ASSUME NEW t \in Threads, TakeJob(t) PROVE ZeroWaitersWoken'
  <2>1. CASE q' = << >>
    BY <1>2, <2>1, <1>b DEF TakeJob
  <2>2. CASE q' # << >>
    BY <1>2, <2>2, <1>a DEF TakeJob
  <2>3. QED
    BY <2>1, <2>2
<1>3. ASSUME NEW t \in Threads, \/ GetNextItemInQueue(t) /\ ~TakeJob(t)
                                \/ TimedWaitReturns(t)
                                \/ CallbackReturns(t)
                                \/ DecrementThreads(t)
                                \/ ThreadExit(t)
      PROVE  ZeroWaitersWoken'
  <2>1. waiter' = waiter /\ q' = q
    BY <1>3 DEF GetNextItemInQueue, Terminate, LingerExpired, WaitForJob,
                TimedWaitReturns, CallbackReturns, DecrementThreads, ThreadExit
  <2>2. QED
    BY <2>1, <1>a
<1>4. ASSUME NEW w \in Waiters, waitForZeroJobs(w) PROVE ZeroWaitersWoken'
  <2>1. CASE waiter' = [waiter EXCEPT ![w] = "blocked"] /\ q # << >> /\ q' = q
    BY <2>1 DEF ZeroWaitersWoken
  <2>2. CASE waiter' = [waiter EXCEPT ![w] = "out"] /\ q' = q
    BY <2>2 DEF ZeroWaitersWoken, TypeOK
  <2>3. QED
    BY <1>4, <2>1, <2>2 DEF waitForZeroJobs
<1>5. ASSUME Dtor PROVE ZeroWaitersWoken'
  <2>1. q' = q /\ (waiter' = waiter \/ waiter' = ZeroBroadcast)
    BY <1>5 DEF Dtor, DtorDie, DtorPoll, DtorZeroBroadcast, DtorDestroy
  <2>2. QED
    BY <2>1, <1>a, <1>b
<1>6. ASSUME (\E m \in MaxChoices : setMaxThreads(m)) \/ UNCHANGED vars
      PROVE  ZeroWaitersWoken'
  BY <1>6, <1>a DEF setMaxThreads, vars
<1>7. QED
  BY <1>1, <1>2, <1>3, <1>4, <1>5, <1>6 DEF Next, GetNextItemInQueue

(* Nobody sleeps in the pool whom no signal will reach: no worker on
   condVariable once the destructor has set allDie, and no client of
   waitForZeroJobs when the queue is empty, which would wait for ever. *)
THEOREM NobodyIsStranded == Spec => []NobodyStranded
<1>1. Init => DtorInv
  BY DEF Init, DtorInv, NoWaitAfterDie, Live, Counted
<1>2. Init => ZeroWaitersWoken
  BY DEF Init, ZeroWaitersWoken
<1>3. CountInv => TypeOK
  BY DEF CountInv
<1>4. CountInv /\ DtorInv /\ ZeroWaitersWoken => NobodyStranded
  BY DEF CountInv, DtorInv, NobodyStranded
<1>5. QED
  BY CountInit, CountStep, DtorStep, WaitersStep, <1>1, <1>2, <1>3, <1>4, PTL
     DEF Spec

-----------------------------------------------------------------------------
(* The refinement.  A job is in one place at a time: nowhere, in the queue
   once, with one running thread, or finished. *)
JobsOnce ==
    /\ \A i, k \in 1 .. Len(q) : q[i] = q[k] => i = k
    /\ \A t, u \in Threads :
          thr[t] = "running" /\ thr[u] = "running" /\ callback[t] = callback[u]
             => t = u
    /\ \A i \in 1 .. Len(q) : /\ q[i] \notin Executing \cup finished
                              /\ ret[q[i]] # "uncalled"
    /\ \A j \in Executing : j \notin finished /\ ret[j] # "uncalled"
    /\ \A j \in finished : ret[j] # "uncalled"

LEMMA QueueElements ==
    ASSUME TypeOK
    PROVE  /\ Len(q) \in Nat
           /\ DOMAIN q = 1 .. Len(q)
           /\ \A i \in 1 .. Len(q) : q[i] \in Jobs
           /\ InQueue = {q[i] : i \in 1 .. Len(q)}
  BY DEF TypeOK, InQueue

(* A schedule that queues its job is JobQueue's Submit: it starts nothing. *)
LEMMA ScheduleExecuting ==
    ASSUME TypeOK, NEW j \in Jobs, schedule(j)
    PROVE  Executing' = Executing
<1>1. callback' = callback
  BY DEF schedule, ScheduleNoMemory, ScheduleAtMax, ScheduleNewThread,
         ScheduleNoThread
<1>2. \A t \in Threads : thr'[t] = "running" <=> thr[t] = "running"
  <2>1. thr' = thr \/ thr' \in Signalled(thr)
        \/ \E f \in Signalled(thr), t \in Threads :
                f[t] = "none" /\ thr' = [f EXCEPT ![t] = "ready"]
    BY DEF schedule, ScheduleNoMemory, ScheduleAtMax, ScheduleNewThread,
           ScheduleNoThread
  <2>2. QED
    BY <2>1, SignalledThreads DEF TypeOK
<1>3. QED
  BY <1>1, <1>2 DEF Executing

LEMMA ScheduleQueue ==
    ASSUME NEW j \in Jobs, schedule(j)
    PROVE  /\ ret[j] = "uncalled"
           /\ q' = q \/ q' = Append(q, j)
           /\ UNCHANGED <<callback, finished, allDie>>
           /\ \E r \in {"accepted", "refused"} : ret' = [ret EXCEPT ![j] = r]
  BY DEF schedule, ScheduleNoMemory, ScheduleAtMax, ScheduleNewThread,
         ScheduleNoThread

(* What TakeJob does to the jobs. *)
LEMMA TakeJobExecuting ==
    ASSUME TypeOK, NEW t \in Threads, TakeJob(t)
    PROVE  /\ Executing' = Executing \cup {Head(q)}
           /\ thr[t] # "running" /\ thr[t] \in Counted
           /\ Head(q) = q[1] /\ Len(q) > 0
           /\ Len(q') = Len(q) - 1
           /\ \A i \in 1 .. Len(q') : q'[i] = q[i + 1]
<1>1. thr[t] # "running" /\ thr[t] \in Counted
  BY DEF TakeJob, HasMutex, Counted, ThreadState
<1>2. /\ thr' = [thr EXCEPT ![t] = "running"]
      /\ callback' = [callback EXCEPT ![t] = Head(q)]
      /\ q' = Tail(q) /\ q # << >>
  BY DEF TakeJob
<1>3. Executing' = Executing \cup {Head(q)}
  BY <1>1, <1>2 DEF Executing, TypeOK
<1>4. Head(q) = q[1] /\ Len(q) > 0 /\ Len(q') = Len(q) - 1
  BY <1>2 DEF TypeOK
<1>5. \A i \in 1 .. Len(q') : q'[i] = q[i + 1]
  BY <1>2, <1>4 DEF TypeOK
<1>6. QED
  BY <1>1, <1>3, <1>4, <1>5

LEMMA CallbackExecuting ==
    ASSUME TypeOK, RunningHasJob, JobsOnce, NEW t \in Threads,
           CallbackReturns(t)
    PROVE  /\ callback[t] \in Executing /\ callback[t] \in Jobs
           /\ Executing' = Executing \ {callback[t]}
<1>1. /\ thr[t] = "running"
      /\ thr' = [thr EXCEPT ![t] = "ready"]
      /\ callback' = [callback EXCEPT ![t] = NoJob]
  BY DEF CallbackReturns
<1>2. callback[t] \in Executing /\ callback[t] \in Jobs
  BY <1>1 DEF Executing, RunningHasJob
<1>3. Executing' \subseteq Executing \ {callback[t]}
  BY <1>1 DEF Executing, TypeOK, JobsOnce
<1>4. Executing \ {callback[t]} \subseteq Executing'
  BY <1>1 DEF Executing, TypeOK
<1>5. QED
  BY <1>2, <1>3, <1>4

(* The steps that leave the jobs where they are. *)
OtherStep ==
    \/ \E m \in MaxChoices : setMaxThreads(m)
    \/ \E t \in Threads : \/ Terminate(t) \/ LingerExpired(t) \/ WaitForJob(t)
                          \/ TimedWaitReturns(t) \/ DecrementThreads(t)
                          \/ ThreadExit(t)
    \/ \E w \in Waiters : waitForZeroJobs(w)
    \/ Dtor

LEMMA OtherStepExecuting ==
    ASSUME TypeOK, OtherStep
    PROVE  /\ q' = q /\ callback' = callback /\ ret' = ret
           /\ finished' = finished /\ Executing' = Executing
           /\ \A t \in Threads : thr'[t] = "running" <=> thr[t] = "running"
<1>1. q' = q /\ callback' = callback /\ ret' = ret /\ finished' = finished
  BY DEF OtherStep, setMaxThreads, Terminate, LingerExpired, WaitForJob,
         TimedWaitReturns, DecrementThreads, ThreadExit, waitForZeroJobs,
         Dtor, DtorDie, DtorPoll, DtorZeroBroadcast, DtorDestroy
<1>2. \A t \in Threads : thr'[t] = "running" <=> thr[t] = "running"
  <2>1. CASE \E m \in MaxChoices : setMaxThreads(m)
    BY <2>1 DEF setMaxThreads
  <2>2. ASSUME NEW u \in Threads,
               \/ Terminate(u) \/ LingerExpired(u) \/ WaitForJob(u)
               \/ TimedWaitReturns(u) \/ DecrementThreads(u) \/ ThreadExit(u)
        PROVE  \A t \in Threads : thr'[t] = "running" <=> thr[t] = "running"
    BY <2>2 DEF Terminate, LingerExpired, WaitForJob, HasMutex,
                TimedWaitReturns, DecrementThreads, ThreadExit, TypeOK
  <2>3. CASE \E w \in Waiters : waitForZeroJobs(w)
    BY <2>3 DEF waitForZeroJobs
  <2>4. CASE Dtor
    <3>1. thr' = thr \/ thr' = Broadcast(thr)
      BY <2>4 DEF Dtor, DtorDie, DtorPoll, DtorZeroBroadcast, DtorDestroy
    <3>2. QED
      BY <3>1, BroadcastThreads DEF TypeOK
  <2>5. QED
    BY <2>1, <2>2, <2>3, <2>4 DEF OtherStep
<1>3. QED
  BY <1>1, <1>2 DEF Executing

LEMMA NextCases ==
    ASSUME Next
    PROVE  \/ \E j \in Jobs : schedule(j)
           \/ \E t \in Threads : TakeJob(t) \/ CallbackReturns(t)
           \/ OtherStep
  BY DEF Next, OtherStep, GetNextItemInQueue

LEMMA JobsOnceStep == CountInv /\ JobsOnce /\ [Next]_vars => JobsOnce'
<1> SUFFICES ASSUME CountInv, JobsOnce, [Next]_vars PROVE JobsOnce'
  OBVIOUS
<1>0. /\ TypeOK /\ RunningHasJob
      /\ Len(q) \in Nat /\ DOMAIN q = 1 .. Len(q)
      /\ \A i \in 1 .. Len(q) : q[i] \in Jobs
  BY QueueElements DEF CountInv
<1>1. ASSUME NEW j \in Jobs, schedule(j) PROVE JobsOnce'
  <2>1. /\ ret[j] = "uncalled" /\ UNCHANGED <<callback, finished>>
        /\ q' = q \/ q' = Append(q, j)
        /\ Executing' = Executing
    BY <1>1, <1>0, ScheduleQueue, ScheduleExecuting
  <2>2. /\ ret'[j] # "uncalled"
        /\ \A k \in Jobs : ret[k] # "uncalled" => ret'[k] # "uncalled"
    BY <1>1, <1>0, ScheduleQueue DEF TypeOK
  <2>3. \A t \in Threads : thr'[t] = "running" => thr[t] = "running"
    <3>1. thr' = thr \/ thr' \in Signalled(thr)
          \/ \E f \in Signalled(thr), t \in Threads :
                  thr' = [f EXCEPT ![t] = "ready"]
      BY <1>1 DEF schedule, ScheduleNoMemory, ScheduleAtMax,
                  ScheduleNewThread, ScheduleNoThread
    <3>2. QED
      BY <3>1, <1>0, SignalledThreads DEF TypeOK
  <2>4. j \notin Executing \cup finished
        /\ \A i \in 1 .. Len(q) : q[i] # j
    BY <2>1 DEF JobsOnce
  <2>5. Executing \subseteq Jobs /\ finished \subseteq Jobs
    BY <1>0 DEF Executing, RunningHasJob, TypeOK
  <2>6. CASE q' = q
    BY <2>1, <2>2, <2>3, <2>5, <2>6, <1>0 DEF JobsOnce
  <2>7. CASE q' = Append(q, j)
    <3>1. /\ Len(q') = Len(q) + 1 /\ q'[Len(q) + 1] = j
          /\ \A i \in 1 .. Len(q) : q'[i] = q[i]
      BY <2>7, <1>0 DEF TypeOK
    <3>2. \A i \in 1 .. Len(q') : i \in 1 .. Len(q) \/ i = Len(q) + 1
      BY <3>1, <1>0
    <3>3. \A i, k \in 1 .. Len(q') : q'[i] = q'[k] => i = k
      BY <3>1, <3>2, <2>4 DEF JobsOnce
    <3>4. \A i \in 1 .. Len(q') : /\ q'[i] \notin Executing \cup finished
                                 /\ ret'[q'[i]] # "uncalled"
      BY <3>1, <3>2, <2>2, <2>4, <1>0 DEF JobsOnce
    <3>5. QED
      BY <3>3, <3>4, <2>1, <2>2, <2>3, <2>5 DEF JobsOnce
  <2>8. QED
    BY <2>1, <2>6, <2>7
<1>2. ASSUME NEW t \in Threads, TakeJob(t) PROVE JobsOnce'
  <2>1. /\ Executing' = Executing \cup {q[1]}
        /\ Len(q) > 0 /\ Len(q') = Len(q) - 1
        /\ \A i \in 1 .. Len(q') : q'[i] = q[i + 1]
        /\ thr[t] # "running"
    BY <1>2, <1>0, TakeJobExecuting
  <2>2. /\ ret' = ret /\ finished' = finished
        /\ thr' = [thr EXCEPT ![t] = "running"]
        /\ callback' = [callback EXCEPT ![t] = q[1]]
    BY <1>2, <1>0, TakeJobExecuting DEF TakeJob
  <2>3. \A i \in 1 .. Len(q') : i + 1 \in 1 .. Len(q) /\ i + 1 # 1
    BY <2>1, <1>0
  <2>4. 1 \in 1 .. Len(q)
    BY <2>1, <1>0
  <2>5. \A i, k \in 1 .. Len(q') : q'[i] = q'[k] => i = k
    <3>1. SUFFICES ASSUME NEW i \in 1 .. Len(q'), NEW k \in 1 .. Len(q'),
                          q'[i] = q'[k]
                   PROVE  i = k
      OBVIOUS
    <3>2. i + 1 = k + 1
      BY <3>1, <2>1, <2>3 DEF JobsOnce
    <3>3. QED
      BY <3>2, <2>1, <1>0
  <2>6. \A i \in 1 .. Len(q') :
           q'[i] \notin Executing' \cup finished /\ ret[q'[i]] # "uncalled"
    BY <2>1, <2>3, <2>4 DEF JobsOnce
  <2>7. \A u \in Threads : thr[u] = "running" => callback[u] \in Executing
    BY DEF Executing
  <2>8. \A u, v \in Threads :
           thr'[u] = "running" /\ thr'[v] = "running"
           /\ callback'[u] = callback'[v] => u = v
    BY <2>2, <2>7, <2>4, <1>0 DEF JobsOnce, TypeOK
  <2>9. QED
    BY <2>1, <2>2, <2>4, <2>5, <2>6, <2>8 DEF JobsOnce
<1>3. ASSUME NEW t \in Threads, CallbackReturns(t) PROVE JobsOnce'
  <2>1. /\ callback[t] \in Executing
        /\ Executing' = Executing \ {callback[t]}
    BY <1>3, <1>0, CallbackExecuting
  <2>2. /\ q' = q /\ ret' = ret /\ finished' = finished \cup {callback[t]}
        /\ thr' = [thr EXCEPT ![t] = "ready"]
        /\ callback' = [callback EXCEPT ![t] = NoJob]
    BY <1>3 DEF CallbackReturns
  <2>3. \A u, v \in Threads :
           thr'[u] = "running" /\ thr'[v] = "running"
           /\ callback'[u] = callback'[v] => u = v
    BY <2>2, <1>0 DEF JobsOnce, TypeOK
  <2>4. QED
    BY <2>1, <2>2, <2>3 DEF JobsOnce
<1>4. CASE OtherStep
  <2>1. /\ q' = q /\ callback' = callback /\ ret' = ret
        /\ finished' = finished /\ Executing' = Executing
        /\ \A t \in Threads : thr'[t] = "running" <=> thr[t] = "running"
    BY <1>4, <1>0, OtherStepExecuting
  <2>2. QED
    BY <2>1 DEF JobsOnce
<1>5. CASE UNCHANGED vars
  BY <1>5 DEF vars, JobsOnce, Executing
<1>6. QED
  BY <1>1, <1>2, <1>3, <1>4, <1>5, NextCases

(* TakeJob respects JobQueue's limit: the thread that takes the job is
   counted, does not run yet, and each running job belongs to another
   counted thread. *)
LEMMA RunningBelowLimit ==
    ASSUME CountInv, NEW t \in Threads, thr[t] \in Counted,
           thr[t] # "running"
    PROVE  Cardinality(Executing) < Limit
<1> DEFINE R == {u \in Threads : thr[u] = "running"}
           f == [u \in R |-> callback[u]]
<1>0. IsFiniteSet(Live) /\ Cardinality(Live) \in Nat /\ TypeOK
      /\ Cardinality(Live) <= Limit /\ Limit \in Nat
  BY LiveFinite, PoolAssumption DEF CountInv, NumThreadsExact
<1>1. R \subseteq Live \ {t} /\ t \in Live
  BY DEF Live, Counted, ThreadState
<1>2. /\ IsFiniteSet(Live \ {t})
      /\ Cardinality(Live \ {t}) = Cardinality(Live) - 1
  BY <1>0, <1>1, FS_RemoveElement
<1>3. IsFiniteSet(R) /\ Cardinality(R) <= Cardinality(Live \ {t})
  BY <1>1, <1>2, FS_Subset
<1>4. f \in Surjection(R, Executing)
  BY DEF Surjection, Executing
<1>5. IsFiniteSet(Executing) /\ Cardinality(Executing) <= Cardinality(R)
  BY <1>3, <1>4, FS_Surjection
<1>6. Cardinality(Executing) \in Nat /\ Cardinality(R) \in Nat
  BY <1>3, <1>5, FS_CardinalityType
<1>7. QED
  BY <1>0, <1>2, <1>3, <1>5, <1>6

(* Every step of the pool is a step of the job queue or changes none of its
   variables. *)
LEMMA QueueStep ==
    CountInv /\ JobsOnce /\ [Next]_vars => [Queue!Next]_(Queue!vars)
<1> SUFFICES ASSUME CountInv, JobsOnce, [Next]_vars
             PROVE  [Queue!Next]_(Queue!vars)
  OBVIOUS
<1>0. TypeOK /\ RunningHasJob
  BY DEF CountInv
<1>1. ASSUME NEW j \in Jobs, schedule(j)
      PROVE  Queue!Submit(j) \/ UNCHANGED Queue!vars
  <2>1. /\ ret[j] = "uncalled" /\ Executing' = Executing
        /\ finished' = finished /\ allDie' = allDie
        /\ q' = q \/ q' = Append(q, j)
    BY <1>1, <1>0, ScheduleQueue, ScheduleExecuting
  <2>2. j \notin {q[i] : i \in DOMAIN q} \cup Executing \cup finished
    BY <2>1, <1>0, QueueElements DEF JobsOnce
  <2>3. QED
    BY <2>1, <2>2 DEF Queue!Submit, Queue!Queued, Queue!vars
<1>2. ASSUME NEW t \in Threads, TakeJob(t) PROVE Queue!Start
  <2>1. Executing' = Executing \cup {Head(q)}
    BY <1>2, <1>0, TakeJobExecuting
  <2>2. Cardinality(Executing) < Limit
    BY <1>2, <1>0, TakeJobExecuting, RunningBelowLimit
  <2>3. QED
    BY <1>2, <2>1, <2>2 DEF Queue!Start, Queue!Cardinality, Cardinality, TakeJob
<1>3. ASSUME NEW t \in Threads, CallbackReturns(t)
      PROVE  \E j \in Jobs : Queue!Finish(j)
  <2>1. /\ callback[t] \in Executing /\ callback[t] \in Jobs
        /\ Executing' = Executing \ {callback[t]}
    BY <1>3, <1>0, CallbackExecuting
  <2>2. Queue!Finish(callback[t])
    BY <1>3, <2>1 DEF Queue!Finish, CallbackReturns
  <2>3. QED
    BY <2>1, <2>2
<1>4. CASE OtherStep
  <2>1. q' = q /\ finished' = finished /\ Executing' = Executing
    BY <1>4, <1>0, OtherStepExecuting
  <2>2. allDie' = allDie \/ (~allDie /\ allDie' = TRUE)
    BY <1>4, <1>0
       DEF OtherStep, setMaxThreads, Terminate, LingerExpired, WaitForJob,
           TimedWaitReturns, DecrementThreads, ThreadExit, waitForZeroJobs,
           Dtor, DtorDie, DtorPoll, DtorZeroBroadcast, DtorDestroy, TypeOK
  <2>3. QED
    BY <2>1, <2>2 DEF Queue!Next, Queue!Close, Queue!vars
<1>5. CASE UNCHANGED vars
  BY <1>5 DEF vars, Queue!vars, Executing
<1>6. QED
  BY <1>1, <1>2, <1>3, <1>4, <1>5, NextCases DEF Queue!Next

(* The thread pool implements the job queue: a job handed to tpool_Schedule
   is started at most once, in queue order, with at most Limit running, and
   never after the destructor began. *)
THEOREM PoolImplementsJobQueue == Spec => ImplementsJobQueue
<1>1. Init => JobsOnce /\ Queue!Init
  BY DEF Init, JobsOnce, Executing, Queue!Init
<1>2. QED
  BY CountInit, CountStep, JobsOnceStep, QueueStep, <1>1, PTL
     DEF Spec, ImplementsJobQueue, Queue!Spec
=============================================================================

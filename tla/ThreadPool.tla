----------------------------- MODULE ThreadPool -----------------------------
(***************************************************************************)
(* The thread pool of src/src/genlib/tpool/tpool.cpp, on which every other *)
(* part of the SDK runs.  Clients queue jobs; worker threads are created   *)
(* on demand up to maxThreads, wait for work on condVariable for at most   *)
(* the linger time, and exit.                                              *)
(*                                                                         *)
(* Every critical section of the pool's mutex is one action, with two      *)
(* exceptions that the code makes visible.  A thread that returns from     *)
(* pthread_cond_timedwait has to take the mutex again, so being woken (or  *)
(* timing out) and looking at the queue are separate steps.  And           *)
(* numThreads is read without the mutex by the destructor, so the end of   *)
(* ThreadCallback is split at the decrement: the thread still holds the    *)
(* mutex in state "leaving".                                               *)
(***************************************************************************)
EXTENDS Integers, Sequences, FiniteSets

CONSTANTS Threads,     \* identities for worker threads
          Jobs,        \* one identity per call of schedule
          Waiters,     \* client threads that may call waitForZeroJobs
          NoJob,       \* callback of a thread that runs nothing
          MaxChoices,  \* the arguments setMaxThreads may be called with
          DefMax,      \* DEF_MAX_THREADS, the value set by the constructor
          Limit        \* the largest of MaxChoices

ASSUME PoolAssumption ==
    /\ IsFiniteSet(Threads)
    /\ NoJob \notin Jobs
    /\ MaxChoices \subseteq Nat
    /\ DefMax \in MaxChoices
    /\ Limit \in MaxChoices
    /\ \A m \in MaxChoices : m <= Limit
    /\ Limit <= Cardinality(Threads)

VARIABLES q,           \* the queue of PoolQueueItems
          numThreads,  \* the pool's count of live threads
          maxThreads,
          allDie,
          thr,         \* what each worker thread is doing
          callback,    \* the job a running thread executes
          waiter,      \* the clients inside waitForZeroJobs
          dtor,        \* how far ~ThreadPool has got
          ret,         \* what schedule returned for each job
          finished     \* the jobs whose function has returned

vars == <<q, numThreads, maxThreads, allDie, thr, callback, waiter, dtor,
          ret, finished>>

-----------------------------------------------------------------------------
(* States of a worker thread.  "none": not created, or gone; "ready": about
   to enter GetNextItemInQueue; "waiting": blocked in
   pthread_cond_timedwait; "woken" and "timedout": returned from it, with 0
   or with ETIMEDOUT, and waiting for the mutex; "running": inside
   callback.func; "exiting": out of the loop of ThreadCallback; "leaving":
   numThreads decremented, mutex still held. *)
ThreadState == {"none", "ready", "waiting", "woken", "timedout", "running",
                "exiting", "leaving"}

Counted == ThreadState \ {"none", "leaving"}

Live == {t \in Threads : thr[t] \in Counted}

MutexFree == \A t \in Threads : thr[t] # "leaving"

InQueue == {q[i] : i \in DOMAIN q}

Executing == {callback[t] : t \in {u \in Threads : thr[u] = "running"}}

Init == /\ q = << >>
        /\ numThreads = 0
        /\ maxThreads = DefMax
        /\ allDie = FALSE
        /\ thr = [t \in Threads |-> "none"]
        /\ callback = [t \in Threads |-> NoJob]
        /\ waiter = [w \in Waiters |-> "out"]
        /\ dtor = "alive"
        /\ ret = [j \in Jobs |-> "uncalled"]
        /\ finished = {}

-----------------------------------------------------------------------------
(* pthread_cond_signal wakes one waiting thread if there is one; broadcast
   wakes them all. *)
Signalled(f) ==
    IF \E t \in Threads : f[t] = "waiting"
    THEN {[f EXCEPT ![t] = "woken"] : t \in {u \in Threads : f[u] = "waiting"}}
    ELSE {f}

(* Mutant: the broadcast wakes nobody. *)
BroadcastLost(f) == f

Broadcast(f) == [t \in Threads |-> IF f[t] = "waiting" THEN "woken" ELSE f[t]]

ZeroBroadcast ==
    [w \in Waiters |-> IF waiter[w] = "blocked" THEN "woken" ELSE waiter[w]]

(* A job may call schedule at any time it runs; other threads of the
   application do so only while the (static) pool object lives. *)
MaySchedule == dtor = "alive" \/ \E t \in Threads : thr[t] = "running"

(* schedule, when malloc or the list node allocation fails: OutOfMemory is
   caught, -1 is returned and nothing was queued. *)
ScheduleNoMemory(j) ==
    /\ MaySchedule /\ MutexFree
    /\ ret[j] = "uncalled"
    /\ ret' = [ret EXCEPT ![j] = "refused"]
    /\ UNCHANGED <<q, numThreads, maxThreads, allDie, thr, callback, waiter,
                   dtor, finished>>

(* Mutant: the pool at its maximum relies on the running threads to come back
   for the job, and does not signal. *)
ScheduleAtMaxNoSignal(j) ==
    /\ MaySchedule /\ MutexFree
    /\ ret[j] = "uncalled"
    /\ ~(numThreads < maxThreads)
    /\ q' = Append(q, j)
    /\ ret' = [ret EXCEPT ![j] = "accepted"]
    /\ UNCHANGED <<numThreads, maxThreads, allDie, thr, callback, waiter, dtor,
                   finished>>

(* schedule, when the pool is at maxThreads: the job is queued and a waiting
   thread is signalled; nothing else is done about it. *)
ScheduleAtMax(j) ==
    /\ MaySchedule /\ MutexFree
    /\ ret[j] = "uncalled"
    /\ ~(numThreads < maxThreads)
    /\ q' = Append(q, j)
    /\ thr' \in Signalled(thr)
    /\ ret' = [ret EXCEPT ![j] = "accepted"]
    /\ UNCHANGED <<numThreads, maxThreads, allDie, callback, waiter, dtor,
                   finished>>

(* schedule below maxThreads, with pthread_create succeeding. *)
ScheduleNewThread(j) ==
    /\ MaySchedule /\ MutexFree
    /\ ret[j] = "uncalled"
    /\ numThreads < maxThreads
    /\ q' = Append(q, j)
    /\ \E f \in Signalled(thr), t \in Threads :
          f[t] = "none" /\ thr' = [f EXCEPT ![t] = "ready"]
    /\ numThreads' = numThreads + 1
    /\ ret' = [ret EXCEPT ![j] = "accepted"]
    /\ UNCHANGED <<maxThreads, allDie, callback, waiter, dtor, finished>>

(* Mutant: numThreads is incremented whether or not the thread was created. *)
ScheduleNoThreadCounted(j) ==
    /\ MaySchedule /\ MutexFree
    /\ ret[j] = "uncalled"
    /\ numThreads < maxThreads
    /\ q' = Append(q, j)
    /\ thr' \in Signalled(thr)
    /\ numThreads' = numThreads + 1
    /\ ret' = [ret EXCEPT ![j] = "accepted"]
    /\ UNCHANGED <<maxThreads, allDie, callback, waiter, dtor, finished>>

(* schedule below maxThreads, with pthread_create failing: -1 is returned
   when there is no thread at all, and the job stays in the queue. *)
ScheduleNoThread(j) ==
    /\ MaySchedule /\ MutexFree
    /\ ret[j] = "uncalled"
    /\ numThreads < maxThreads
    /\ q' = Append(q, j)
    /\ thr' \in Signalled(thr)
    /\ ret' = [ret EXCEPT ![j] = IF numThreads = 0 THEN "refused"
                                 ELSE "accepted"]
    /\ UNCHANGED <<numThreads, maxThreads, allDie, callback, waiter, dtor,
                   finished>>

schedule(j) == \/ ScheduleNoMemory(j)
               \/ ScheduleAtMax(j)
               \/ ScheduleNewThread(j)
               \/ ScheduleNoThread(j)

(* The assignment of setMaxThreads is made without the mutex. *)
setMaxThreads(m) ==
    /\ dtor = "alive"
    /\ maxThreads' = m
    /\ UNCHANGED <<q, numThreads, allDie, thr, callback, waiter, dtor, ret,
                   finished>>

-----------------------------------------------------------------------------
(* GetNextItemInQueue.  A thread that takes the mutex, for the first time or
   again after a wait, leaves the waiting loop when there is a job, when the
   pool dies or when its wait timed out, and tests for them in the order
   die, timeout, job. *)
HasMutex(t) == MutexFree /\ thr[t] \in {"ready", "woken", "timedout"}

Terminate(t) ==
    /\ HasMutex(t)
    /\ allDie
    /\ thr' = [thr EXCEPT ![t] = "exiting"]
    /\ UNCHANGED <<q, numThreads, maxThreads, allDie, callback, waiter, dtor,
                   ret, finished>>

LingerExpired(t) ==
    /\ HasMutex(t)
    /\ ~allDie
    /\ thr[t] = "timedout"
    /\ thr' = [thr EXCEPT ![t] = "exiting"]
    /\ UNCHANGED <<q, numThreads, maxThreads, allDie, callback, waiter, dtor,
                   ret, finished>>

(* Mutant: the job is taken from the tail of the list. *)
TakeJobLast(t) ==
    /\ HasMutex(t)
    /\ ~allDie
    /\ thr[t] # "timedout"
    /\ q # << >>
    /\ callback' = [callback EXCEPT ![t] = q[Len(q)]]
    /\ q' = SubSeq(q, 1, Len(q) - 1)
    /\ waiter' = IF q' = << >> THEN ZeroBroadcast ELSE waiter
    /\ thr' = [thr EXCEPT ![t] = "running"]
    /\ UNCHANGED <<numThreads, maxThreads, allDie, dtor, ret, finished>>

(* Mutant: the queue becomes empty and nobody is told. *)
TakeJobQuietly(t) ==
    /\ HasMutex(t)
    /\ ~allDie
    /\ thr[t] # "timedout"
    /\ q # << >>
    /\ callback' = [callback EXCEPT ![t] = Head(q)]
    /\ q' = Tail(q)
    /\ thr' = [thr EXCEPT ![t] = "running"]
    /\ UNCHANGED <<numThreads, maxThreads, allDie, waiter, dtor, ret, finished>>

TakeJob(t) ==
    /\ HasMutex(t)
    /\ ~allDie
    /\ thr[t] # "timedout"
    /\ q # << >>
    /\ callback' = [callback EXCEPT ![t] = Head(q)]
    /\ q' = Tail(q)
    /\ waiter' = IF q' = << >> THEN ZeroBroadcast ELSE waiter
    /\ thr' = [thr EXCEPT ![t] = "running"]
    /\ UNCHANGED <<numThreads, maxThreads, allDie, dtor, ret, finished>>

WaitForJob(t) ==
    /\ HasMutex(t)
    /\ ~allDie
    /\ thr[t] # "timedout"
    /\ q = << >>
    /\ thr' = [thr EXCEPT ![t] = "waiting"]
    /\ UNCHANGED <<q, numThreads, maxThreads, allDie, callback, waiter, dtor,
                   ret, finished>>

GetNextItemInQueue(t) == \/ Terminate(t)
                         \/ LingerExpired(t)
                         \/ TakeJob(t)
                         \/ WaitForJob(t)

(* pthread_cond_timedwait may also return because the linger time is over,
   or for no reason at all. *)
TimedWaitReturns(t) ==
    /\ thr[t] = "waiting"
    /\ thr' \in {[thr EXCEPT ![t] = s] : s \in {"timedout", "woken"}}
    /\ UNCHANGED <<q, numThreads, maxThreads, allDie, callback, waiter, dtor,
                   ret, finished>>

(* The loop of ThreadCallback: callback.func returns. *)
CallbackReturns(t) ==
    /\ thr[t] = "running"
    /\ finished' = finished \cup {callback[t]}
    /\ callback' = [callback EXCEPT ![t] = NoJob]
    /\ thr' = [thr EXCEPT ![t] = "ready"]
    /\ UNCHANGED <<q, numThreads, maxThreads, allDie, waiter, dtor, ret>>

(* The end of ThreadCallback. *)
DecrementThreads(t) ==
    /\ MutexFree
    /\ thr[t] = "exiting"
    /\ numThreads' = numThreads - 1
    /\ thr' = [thr EXCEPT ![t] = "leaving"]
    /\ UNCHANGED <<q, maxThreads, allDie, callback, waiter, dtor, ret,
                   finished>>

ThreadExit(t) ==
    /\ thr[t] = "leaving"
    /\ thr' = [thr EXCEPT ![t] = "none"]
    /\ UNCHANGED <<q, numThreads, maxThreads, allDie, callback, waiter, dtor,
                   ret, finished>>

-----------------------------------------------------------------------------
(* waitForZeroJobs: the test is an "if", so a waiter that was woken returns
   whatever the queue holds by then. *)
waitForZeroJobs(w) ==
    /\ MutexFree
    /\ \/ /\ waiter[w] = "out"
          /\ dtor = "alive"
          /\ q # << >> /\ ~allDie
          /\ waiter' = [waiter EXCEPT ![w] = "blocked"]
       \/ /\ waiter[w] = "woken"
          /\ waiter' = [waiter EXCEPT ![w] = "out"]
    /\ UNCHANGED <<q, numThreads, maxThreads, allDie, thr, callback, dtor,
                   ret, finished>>

-----------------------------------------------------------------------------
(* ~ThreadPool, step by step: tell everyone to die; poll numThreads without
   the mutex, broadcasting again each second; wake the waitForZeroJobs
   clients under the mutex; destroy the condition variables and the mutex. *)
DtorDie ==
    /\ dtor = "alive" /\ MutexFree
    /\ allDie' = TRUE
    /\ thr' = Broadcast(thr)
    /\ dtor' = "dying"
    /\ UNCHANGED <<q, numThreads, maxThreads, callback, waiter, ret, finished>>

DtorPoll ==
    /\ dtor = "dying"
    /\ IF numThreads = 0
       THEN dtor' = "drained" /\ UNCHANGED thr
       ELSE thr' = Broadcast(thr) /\ UNCHANGED dtor
    /\ UNCHANGED <<q, numThreads, maxThreads, allDie, callback, waiter, ret,
                   finished>>

(* Mutant: the last broadcast is sent without taking the mutex. *)
DtorZeroBroadcastUnlocked ==
    /\ dtor = "drained"
    /\ waiter' = ZeroBroadcast
    /\ dtor' = "signalled"
    /\ UNCHANGED <<q, numThreads, maxThreads, allDie, thr, callback, ret,
                   finished>>

DtorZeroBroadcast ==
    /\ dtor = "drained" /\ MutexFree
    /\ waiter' = ZeroBroadcast
    /\ dtor' = "signalled"
    /\ UNCHANGED <<q, numThreads, maxThreads, allDie, thr, callback, ret,
                   finished>>

DtorDestroy ==
    /\ dtor = "signalled"
    /\ dtor' = "destroyed"
    /\ UNCHANGED <<q, numThreads, maxThreads, allDie, thr, callback, waiter,
                   ret, finished>>

Dtor == DtorDie \/ DtorPoll \/ DtorZeroBroadcast \/ DtorDestroy

Next == \/ \E j \in Jobs : schedule(j)
        \/ \E m \in MaxChoices : setMaxThreads(m)
        \/ \E t \in Threads : \/ GetNextItemInQueue(t)
                              \/ TimedWaitReturns(t)
                              \/ CallbackReturns(t)
                              \/ DecrementThreads(t)
                              \/ ThreadExit(t)
        \/ \E w \in Waiters : waitForZeroJobs(w)
        \/ Dtor

Spec == Init /\ [][Next]_vars

(* Scheduling: a thread that can run does run, jobs return, and the
   destructor, once entered, is not abandoned.  Nothing is assumed of the
   linger time (it may be an hour) or of spurious wake-ups, and nobody is
   obliged to call the pool or to destroy it. *)
Fairness ==
    /\ \A t \in Threads : /\ WF_vars(GetNextItemInQueue(t))
                          /\ WF_vars(CallbackReturns(t))
                          /\ WF_vars(DecrementThreads(t))
                          /\ WF_vars(ThreadExit(t))
    /\ WF_vars(DtorPoll)
    /\ WF_vars(DtorZeroBroadcast)
    /\ WF_vars(DtorDestroy)

FairSpec == Spec /\ Fairness
-----------------------------------------------------------------------------
(* Types of the pool's fields and of the ghosts. *)
TypeOK == /\ q \in Seq(Jobs)
          /\ numThreads \in Nat
          /\ maxThreads \in MaxChoices
          /\ allDie \in BOOLEAN
          /\ thr \in [Threads -> ThreadState]
          /\ callback \in [Threads -> Jobs \cup {NoJob}]
          /\ waiter \in [Waiters -> {"out", "blocked", "woken"}]
          /\ dtor \in {"alive", "dying", "drained", "signalled", "destroyed"}
          /\ ret \in [Jobs -> {"uncalled", "accepted", "refused"}]
          /\ finished \in SUBSET Jobs

(* numThreads, which schedule tests against maxThreads and the destructor
   polls without the mutex, is exactly the number of threads that have not
   yet given up their place, and never exceeds the largest maximum. *)
NumThreadsExact == numThreads = Cardinality(Live) /\ numThreads <= Limit

(* Once allDie is set no worker is blocked on condVariable: the destructor's
   "send signal again, if missed previously" is never needed. *)
NoWaitAfterDie == allDie => \A t \in Threads : thr[t] # "waiting"

(* A client blocked in waitForZeroJobs has work to wait for: the thread that
   empties the queue never leaves a sleeper behind. *)
ZeroWaitersWoken == \A w \in Waiters : waiter[w] = "blocked" => q # << >>

(* Nobody sleeps in the pool whom no signal will reach. *)
NobodyStranded == TypeOK /\ NoWaitAfterDie /\ ZeroWaitersWoken

(* When the destructor destroys the mutex, no worker exists and none holds
   it, although numThreads = 0 was read without it. *)
DestroyedQuiescent ==
    dtor = "destroyed" => \A t \in Threads : thr[t] = "none"

(* The pool implements the queue its clients rely on: no job is started
   twice, out of order, above the limit or after the destructor began. *)
Queue == INSTANCE JobQueue WITH pending <- q, running <- Executing,
                                closed <- allDie

ImplementsJobQueue == Queue!Spec

(* While a worker thread exists the queue does not stall: no wake-up is lost
   even if no thread ever reaches its linger time. *)
QueueDrains == (q # << >>) ~> (q = << >> \/ numThreads = 0 \/ allDie)

(* ~ThreadPool returns, whatever the workers were doing when it began. *)
DtorTerminates == allDie ~> (dtor = "destroyed")

(* tpool.cpp:307 and scheduler.h:45, "queues function f to be executed in a
   worker thread ... 0 if success": a job for which schedule returned 0 is
   executed unless the pool is destroyed. *)
AcceptedJobRuns ==
    \A j \in Jobs : (ret[j] = "accepted") ~>
                       (j \in Executing \cup finished \/ allDie)
=============================================================================

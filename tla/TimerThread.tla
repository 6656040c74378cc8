----------------------------- MODULE TimerThread -----------------------------
(***************************************************************************)
(* The timer thread of src/src/genlib/timer_thread/timer_thread.c: a       *)
(* sorted list of events, a thread (a job of the pool that lasts as long   *)
(* as the SDK) that sleeps until the first one is due and hands it to the  *)
(* pool, clients that add and remove events, and a shutdown that runs the  *)
(* callbacks of the events still waiting.                                  *)
(*                                                                         *)
(* Every critical section of the timer's mutex is one action; a wait on    *)
(* newEventCond ends one action and the return from it begins another.     *)
(* StopTimerThread destroys the mutex without waiting for the thread; what *)
(* is done with it afterwards only reads shutdown, which stays set, or an  *)
(* eventQ that stays empty, so that the outcome does not depend on whether *)
(* the destroyed mutex still locks.                                        *)
(***************************************************************************)
EXTENDS Integers, Sequences, FiniteSets

CONSTANTS Events,           \* one identity per call of ScheduleTimerEvent
          NoEvent,
          TimeOuts,         \* the TimeOut arguments, zero and less included
          MaxId,            \* INT_MAX, after which currentEventId wraps to 0
          MaxTime,          \* bound on the clock
          ScheduleOutcomes  \* what tpool_Schedule may do with a callback

NoId == -1       \* the eventId of a client that has none
NoDeadline == -1 \* next_event_time when the list is empty

ASSUME TimerAssumption ==
    /\ IsFiniteSet(Events) /\ NoEvent \notin Events
    /\ TimeOuts \subseteq Int
    /\ MaxId \in Nat /\ MaxTime \in Nat
    /\ Cardinality(Events) <= MaxId + 1
    /\ ScheduleOutcomes \subseteq {"queued", "refused"}

VARIABLES eventQ,           \* the list, of records ev, time, eventId
          newEvent, shutdown,
          currentEventId,
          pc,               \* where TimerThread is
          timeout,          \* the deadline it waits for
          retcode,          \* what its last wait returned
          current,          \* current_event, removed from the list
          call,             \* how far each ScheduleTimerEvent has got
          expireTime,       \* the local variable of that call
          id,               \* the eventId it stored for its client
          stop, stopping,   \* how far StopTimerThread has got, and with
                            \* which event
          given,            \* ghost: how often an argument was given away
          now               \* time()

threadVars == <<pc, timeout, retcode, current>>
callVars == <<call, expireTime, id>>
stopVars == <<shutdown, stop, stopping>>
vars == <<eventQ, newEvent, currentEventId, threadVars, callVars, stopVars,
          given, now>>

Queued == {eventQ[i].ev : i \in DOMAIN eventQ}

(* InitTimerThread: an empty list, and TimerThread queued in the pool. *)
Init == /\ eventQ = << >>
        /\ newEvent = FALSE /\ shutdown = FALSE
        /\ currentEventId = 0
        /\ pc = "top" /\ timeout = NoDeadline /\ retcode = "ok"
        /\ current = NoEvent
        /\ call = [e \in Events |-> "uncalled"]
        /\ expireTime = [e \in Events |-> 0]
        /\ id = [e \in Events |-> NoId]
        /\ stop = "no" /\ stopping = NoEvent
        /\ given = [e \in Events |-> 0]
        /\ now = 1

(* pthread_cond_signal on newEventCond. *)
Signal == IF pc = "waiting" THEN pc' = "awake" /\ retcode' = "ok"
          ELSE UNCHANGED <<pc, retcode>>

-----------------------------------------------------------------------------
(* ScheduleTimerEvent reads the clock before it takes the mutex. *)
ReadClock(e, t) ==
    /\ call[e] = "uncalled"
    /\ call' = [call EXCEPT ![e] = "timed"]
    /\ expireTime' = [expireTime EXCEPT ![e] = now + t]
    /\ UNCHANGED <<eventQ, newEvent, currentEventId, threadVars, id, stopVars,
                   given, now>>

(* "check for overflow". *)
NextId(n) == IF n = MaxId THEN 0 ELSE n + 1

(* The event goes before the first one that is not due earlier. *)
Inserted(q, x) ==
    LET n == Cardinality({i \in DOMAIN q : \A j \in 1 .. i : q[j].time < x.time})
    IN  SubSeq(q, 1, n) \o << x >> \o SubSeq(q, n + 1, Len(q))

(* Mutant: the list is changed during a shutdown as well. *)
ScheduleTimerEventLate(e) ==
    /\ call[e] = "timed"
    /\ call' = [call EXCEPT ![e] = "returned"]
    /\ eventQ' = Inserted(eventQ, [ev |-> e, time |-> expireTime[e],
                                   eventId |-> currentEventId])
    /\ id' = [id EXCEPT ![e] = currentEventId]
    /\ currentEventId' = NextId(currentEventId)
    /\ newEvent' = TRUE
    /\ Signal
    /\ UNCHANGED <<timeout, current, expireTime, stopVars, given, now>>

(* Mutant: the thread is signalled but finds no newEvent. *)
ScheduleTimerEventQuiet(e) ==
    /\ call[e] = "timed"
    /\ call' = [call EXCEPT ![e] = "returned"]
    /\ ~shutdown
    /\ eventQ' = Inserted(eventQ, [ev |-> e, time |-> expireTime[e],
                                   eventId |-> currentEventId])
    /\ id' = [id EXCEPT ![e] = currentEventId]
    /\ currentEventId' = NextId(currentEventId)
    /\ Signal
    /\ UNCHANGED <<newEvent, timeout, current, expireTime, stopVars, given, now>>

(* Mutant: the client is told the value after the increment. *)
ScheduleTimerEventNextId(e) ==
    /\ call[e] = "timed"
    /\ call' = [call EXCEPT ![e] = "returned"]
    /\ ~shutdown
    /\ eventQ' = Inserted(eventQ, [ev |-> e, time |-> expireTime[e],
                                   eventId |-> currentEventId])
    /\ currentEventId' = NextId(currentEventId)
    /\ id' = [id EXCEPT ![e] = currentEventId']
    /\ newEvent' = TRUE
    /\ Signal
    /\ UNCHANGED <<timeout, current, expireTime, stopVars, given, now>>

(* The rest of ScheduleTimerEvent, under the mutex. *)
ScheduleTimerEvent(e) ==
    /\ call[e] = "timed"
    /\ call' = [call EXCEPT ![e] = "returned"]
    /\ \/ /\ shutdown
          /\ UNCHANGED <<eventQ, id, currentEventId, newEvent, pc, retcode>>
       \/ /\ ~shutdown
          /\ eventQ' = Inserted(eventQ, [ev |-> e, time |-> expireTime[e],
                                         eventId |-> currentEventId])
          /\ id' = [id EXCEPT ![e] = currentEventId]
          /\ currentEventId' = NextId(currentEventId)
          /\ newEvent' = TRUE
          /\ Signal
    /\ UNCHANGED <<timeout, current, expireTime, stopVars, given, now>>

(* RemoveTimerEvent, called with the id stored for e (which may be -1, or
   belong to an event that is gone): the first event with that id is
   unlinked and its argument returned to the client.  newEvent is left
   alone. *)
RemoveTimerEvent(e) ==
    /\ id[e] # NoId
    /\ \E i \in DOMAIN eventQ :
          /\ eventQ[i].eventId = id[e]
          /\ \A j \in 1 .. i - 1 : eventQ[j].eventId # id[e]
          /\ eventQ' = SubSeq(eventQ, 1, i - 1)
                          \o SubSeq(eventQ, i + 1, Len(eventQ))
          /\ given' = [given EXCEPT ![eventQ[i].ev] = @ + 1]
    /\ Signal
    /\ UNCHANGED <<newEvent, currentEventId, timeout, current, callVars,
                   stopVars, now>>

-----------------------------------------------------------------------------
(* TimerThread. *)

Due == eventQ # << >> /\ now >= Head(eventQ).time

(* The loop finds the SDK shut down. *)
ThreadStops ==
    /\ pc = "top"
    /\ shutdown
    /\ pc' = "done"
    /\ UNCHANGED <<eventQ, newEvent, currentEventId, timeout, retcode, current,
                   callVars, stopVars, given, now>>

(* Mutant: the event is taken off the list only after it was handed over. *)
TakeDueLinked ==
    /\ pc = "top"
    /\ ~shutdown
    /\ Due
    /\ current' = Head(eventQ).ev
    /\ pc' = "handing"
    /\ UNCHANGED <<eventQ, newEvent, currentEventId, timeout, retcode, callVars,
                   stopVars, given, now>>

(* The first event is due: it leaves the list, and the mutex is released. *)
TakeDue ==
    /\ pc = "top"
    /\ ~shutdown
    /\ Due
    /\ eventQ' = Tail(eventQ)
    /\ current' = Head(eventQ).ev
    /\ pc' = "handing"
    /\ UNCHANGED <<newEvent, currentEventId, timeout, retcode, callVars,
                   stopVars, given, now>>

(* Nothing is due: wait for the first event, or for any.  If an event was
   added since the last round there is no wait, only another round. *)
WaitForEvent ==
    /\ pc = "top"
    /\ ~shutdown
    /\ ~Due
    /\ timeout' = IF eventQ = << >> THEN NoDeadline ELSE Head(eventQ).time
    /\ retcode' = "ok"
    /\ IF newEvent THEN newEvent' = FALSE /\ UNCHANGED pc
       ELSE pc' = "waiting" /\ UNCHANGED newEvent
    /\ UNCHANGED <<eventQ, currentEventId, current, callVars, stopVars, given,
                   now>>

(* The wait times out ... *)
TimedOut ==
    /\ pc = "waiting"
    /\ timeout # NoDeadline /\ now >= timeout
    /\ pc' = "awake" /\ retcode' = "ETIMEDOUT"
    /\ UNCHANGED <<eventQ, newEvent, currentEventId, timeout, current, callVars,
                   stopVars, given, now>>

(* ... or returns for no reason (a wait whose deadline has passed times
   out). *)
SpuriousWakeup ==
    /\ pc = "waiting"
    /\ timeout = NoDeadline \/ now < timeout
    /\ pc' = "awake" /\ retcode' = "ok"
    /\ UNCHANGED <<eventQ, newEvent, currentEventId, timeout, current, callVars,
                   stopVars, given, now>>

(* The thread has the mutex again: it goes on waiting, with the deadline it
   had, unless there is a new event or the time has come. *)
Awake ==
    /\ pc = "awake"
    /\ \/ /\ ~newEvent /\ retcode # "ETIMEDOUT"
          /\ pc' = "waiting"
          /\ UNCHANGED newEvent
       \/ /\ newEvent \/ retcode = "ETIMEDOUT"
          /\ IF shutdown THEN pc' = "done" /\ UNCHANGED newEvent
             ELSE pc' = "top" /\ newEvent' = FALSE
    /\ UNCHANGED <<eventQ, currentEventId, timeout, retcode, current, callVars,
                   stopVars, given, now>>

(* tpool_Schedule of the callback, without the mutex.  Its result is not
   looked at: a refused event is lost, with its argument. *)
HandOver ==
    /\ pc = "handing"
    /\ pc' = "top" /\ current' = NoEvent
    /\ \/ /\ "queued" \in ScheduleOutcomes
          /\ given' = [given EXCEPT ![current] = @ + 1]
       \/ "refused" \in ScheduleOutcomes /\ UNCHANGED given
    /\ UNCHANGED <<eventQ, newEvent, currentEventId, timeout, retcode, callVars,
                   stopVars, now>>

-----------------------------------------------------------------------------
(* StopTimerThread. *)

(* Mutant: the thread is signalled but finds no newEvent. *)
FlushNextQuiet ==
    \/ /\ eventQ # << >>
       /\ eventQ' = Tail(eventQ)
       /\ stopping' = Head(eventQ).ev
       /\ stop' = "callback"
       /\ UNCHANGED <<newEvent, pc, retcode>>
    \/ /\ eventQ = << >>
       /\ Signal
       /\ stop' = "unlocked"
       /\ UNCHANGED <<eventQ, newEvent, stopping>>

(* One round of its loop, under the mutex: take the next event, or, if there
   is none, tell the thread to stop. *)
FlushNext ==
    \/ /\ eventQ # << >>
       /\ eventQ' = Tail(eventQ)
       /\ stopping' = Head(eventQ).ev
       /\ stop' = "callback"
       /\ UNCHANGED <<newEvent, pc, retcode>>
    \/ /\ eventQ = << >>
       /\ newEvent' = TRUE
       /\ Signal
       /\ stop' = "unlocked"
       /\ UNCHANGED <<eventQ, stopping>>

StopTimerThread ==
    /\ stop = "no"
    /\ shutdown' = TRUE
    /\ FlushNext
    /\ UNCHANGED <<currentEventId, timeout, current, callVars, given, now>>

(* The callback is called here, without the mutex. *)
StopCallback ==
    /\ stop = "callback"
    /\ given' = [given EXCEPT ![stopping] = @ + 1]
    /\ stopping' = NoEvent
    /\ stop' = "loop"
    /\ UNCHANGED <<eventQ, newEvent, shutdown, currentEventId, threadVars,
                   callVars, now>>

StopLoop ==
    /\ stop = "loop"
    /\ FlushNext
    /\ UNCHANGED <<shutdown, currentEventId, timeout, current, callVars, given,
                   now>>

(* pthread_mutex_destroy and pthread_cond_destroy, without the mutex. *)
StopDestroy ==
    /\ stop = "unlocked"
    /\ stop' = "destroyed"
    /\ UNCHANGED <<eventQ, newEvent, currentEventId, threadVars, callVars,
                   shutdown, stopping, given, now>>

Tick == /\ now < MaxTime
        /\ now' = now + 1
        /\ UNCHANGED <<eventQ, newEvent, currentEventId, threadVars, callVars,
                       stopVars, given>>

Thread == ThreadStops \/ TakeDue \/ WaitForEvent \/ Awake \/ HandOver

Next == \/ \E e \in Events : \/ \E t \in TimeOuts : ReadClock(e, t)
                             \/ ScheduleTimerEvent(e)
                             \/ RemoveTimerEvent(e)
        \/ Thread \/ TimedOut \/ SpuriousWakeup
        \/ StopTimerThread \/ StopCallback \/ StopLoop \/ StopDestroy
        \/ Tick

Spec == Init /\ [][Next]_vars

(* The thread runs when it can, a wait ends at its deadline, and
   StopTimerThread, once called, goes on.  Clients call when they like. *)
Fairness == /\ WF_vars(Thread)
            /\ WF_vars(TimedOut)
            /\ WF_vars(StopCallback)
            /\ WF_vars(StopLoop)
            /\ WF_vars(StopDestroy)

FairSpec == Spec /\ Fairness
-----------------------------------------------------------------------------
(* Types of the fields, of the locals and of the ghost. *)
TypeOK ==
    /\ eventQ \in Seq([ev : Events, time : Int, eventId : 0 .. MaxId])
    /\ newEvent \in BOOLEAN /\ shutdown \in BOOLEAN
    /\ currentEventId \in 0 .. MaxId
    /\ pc \in {"top", "waiting", "awake", "handing", "done"}
    /\ timeout \in Int
    /\ retcode \in {"ok", "ETIMEDOUT"}
    /\ current \in Events \cup {NoEvent} /\ stopping \in Events \cup {NoEvent}
    /\ call \in [Events -> {"uncalled", "timed", "returned"}]
    /\ expireTime \in [Events -> Int]
    /\ id \in [Events -> 0 .. MaxId \cup {NoId}]
    /\ stop \in {"no", "callback", "loop", "unlocked", "destroyed"}
    /\ given \in [Events -> Nat]
    /\ now \in Nat

(* When StopTimerThread destroys newEventCond the thread is not blocked on
   it, and never will be, and no event is left in a list nobody looks at:
   although it neither joins the thread nor refuses its last clients. *)
StopsClean == stop = "destroyed" => pc # "waiting" /\ eventQ = << >>

(* The same, with the types of what the thread and its clients share. *)
TimerSound == TypeOK /\ StopsClean

(* A client's RemoveTimerEvent never takes another client's event, although
   it may use the id of an event that has fired. *)
RemovesOwnEvent ==
    [][\A e \in Events : RemoveTimerEvent(e) => Queued \ Queued' \subseteq {e}]_vars

(* The timer implements TimerService: events fire when due, the earliest
   first, and an argument that its callback frees is never also returned by
   RemoveTimerEvent. *)
Service == INSTANCE TimerService WITH
    asked <- {e \in Events : call[e] # "uncalled"},
    deadline <- expireTime,
    armed <- Queued,
    fired <- {current, stopping} \ {NoEvent},
    open <- ~shutdown

ImplementsTimerService == Service!Spec

(* An event that is due leaves the list, whatever was added, removed or
   signalled while the thread slept: no wake-up is lost. *)
DueEventFires ==
    \A e \in Events : (e \in Queued /\ expireTime[e] <= now) ~> (e \notin Queued)

(* After StopTimerThread the thread ends and gives its place in the pool
   back. *)
ThreadEnds == shutdown ~> (pc = "done")
=============================================================================

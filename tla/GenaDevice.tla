----------------------------- MODULE GenaDevice -----------------------------
(***************************************************************************)
(* Eventing on the device side: gena_server.c and the subscription list of *)
(* service_table.c, for one registered device with one service.  The       *)
(* application accepts subscriptions and publishes events; SUBSCRIBE,      *)
(* renewal and UNSUBSCRIBE requests arrive from control points; and each   *)
(* event becomes one thread pool job (genaNotifyThread) per subscription.  *)
(*                                                                         *)
(* Every critical section of the handle lock is one action.  The thread    *)
(* pool is the FIFO queue of module JobQueue with the threads Workers: a   *)
(* job is started in queue order, but takes the handle lock in any order.  *)
(* The subscription list is kept as a set: its order only decides which    *)
(* subscribers a genaNotifyAll that fails half-way has already served, and *)
(* how the jobs of one event lie in the queue, and both are left open.     *)
(* A job that tpool_Schedule refuses is not in the queue: it would stay    *)
(* there only if the pool had no thread at all (ScheduleNoThread of module *)
(* ThreadPool), and the mini server, SSDP and timer threads are in it.     *)
(***************************************************************************)
EXTENDS Integers, Sequences, FiniteSets

CONSTANTS
    Sids,              \* identifiers uuid_generate may produce
    Workers,           \* threads of the pool
    NoJob,             \* the job of an idle worker
    MaxKey,            \* INT_MAX, after which an event key wraps to 1
    MaxEvents,         \* bound on the events the application publishes
    TimeOuts,          \* values a request's TIMEOUT header may parse to
    MaxTime,           \* bound on the clock
    SubscriptionMaxima,\* arguments of UpnpSetMaxSubscriptions
    TimeOutMaxima,     \* arguments of UpnpSetMaxSubscriptionTimeOut
    ScheduleOutcomes,  \* what tpool_Schedule may do
    Faults             \* which other steps may fail

Infinite == -1         \* UPNP_INFINITE

ASSUME GenaAssumption ==
    /\ MaxKey \in Nat \ {0} /\ MaxEvents \in Nat /\ MaxTime \in Nat
    /\ TimeOuts \subseteq Int
    /\ SubscriptionMaxima \subseteq Nat \cup {Infinite}
    /\ TimeOutMaxima \subseteq Nat \cup {Infinite}
    /\ "queued" \in ScheduleOutcomes
    /\ ScheduleOutcomes \subseteq {"queued", "refused"}
    /\ Faults \subseteq {"prep", "struct", "copy", "respond"}
    /\ IsFiniteSet(Sids)

VARIABLES
    handle,            \* the device handle's slot is taken
    table,             \* its service table is not freed
    subs,              \* the subscriptions of subscriptionList
    total,             \* TotalSubscriptions of the service
    sub,               \* the fields of each subscription
    maxSubs,           \* MaxSubscriptions of the handle
    maxTimeOut,        \* MaxSubscriptionTimeOut of the handle
    now,               \* time()
    pool,              \* the queue of the thread pool
    pc, in, result,    \* genaNotifyThread of each worker: where it is, its
                       \* notify_thread_struct, what genaNotify returned
    nev,               \* number of events published so far
    refs,              \* reference_count of the shared parts of each event
    freed,             \* the events whose shared parts were freed
    used,              \* the identifiers given out so far
    issued, sent       \* per subscription: the events given a key, and the
                       \* NOTIFY messages started

devVars == <<handle, table, maxSubs, maxTimeOut>>
subVars == <<subs, total, sub, used>>
jobVars == <<pool, pc, in, result>>
bufVars == <<nev, refs, freed>>
histVars == <<issued, sent>>
vars == <<devVars, subVars, now, jobVars, bufVars, histVars>>

-----------------------------------------------------------------------------
Events == 1 .. MaxEvents

Job == [sid : Sids, eventKey : 0 .. MaxKey, ev : Events]

NewSub(expire) == [eventKey |-> 0, ToSendEventKey |-> 0, active |-> FALSE,
                   expireTime |-> expire]

(* Mutant: the key wraps to 0, the number of the initial event. *)
NextKeyZero(k) == IF k = MaxKey THEN 0 ELSE k + 1

(* "if (eventKey<0) eventKey=1": the successor of INT_MAX is 1. *)
NextKey(k) == IF k = MaxKey THEN 1 ELSE k + 1

(* The expiry test of GetSubscriptionSID and GetNextSubscription. *)
Expired(s) == sub[s].expireTime # 0 /\ sub[s].expireTime < now

(* A lookup by SID on a live service finds the subscription, or finds it
   expired and unlinks it, or finds nothing. *)
Service == handle /\ table
Found(s) == Service /\ s \in subs /\ ~Expired(s)
FoundExpired(s) == Service /\ s \in subs /\ Expired(s)

(* RemoveSubscriptionSID, and the unlinking of an expired subscription. *)
RemoveSubscriptionSID(s) == /\ subs' = subs \ {s}
                            /\ total' = total - 1

Orders(S) == {o \in [1 .. Cardinality(S) -> S] :
                 \A s \in S : \E i \in DOMAIN o : o[i] = s}

Init == /\ handle = TRUE /\ table = TRUE
        /\ subs = {} /\ total = 0 /\ used = {}
        /\ sub = [s \in Sids |-> NewSub(0)]
        /\ maxSubs = Infinite /\ maxTimeOut = Infinite
        /\ now = 1
        /\ pool = << >>
        /\ pc = [w \in Workers |-> "idle"]
        /\ in = [w \in Workers |-> NoJob]
        /\ result = [w \in Workers |-> "none"]
        /\ nev = 0 /\ refs = [e \in Events |-> 0] /\ freed = {}
        /\ issued = [s \in Sids |-> << >>]
        /\ sent = [s \in Sids |-> << >>]

-----------------------------------------------------------------------------
(* Subscriptions come and go. *)

(* The granted time-out, and the expiry time derived from it. *)
Granted(t) == IF maxTimeOut # Infinite /\ (t = Infinite \/ t > maxTimeOut)
              THEN maxTimeOut ELSE t

ExpireTime(t) == IF Granted(t) > 0 THEN now + Granted(t) ELSE 0

(* genaSubscriptionRequest, for a request that passes every test; a request
   that fails one, or whose answer cannot be written, changes nothing. *)
genaSubscriptionRequest(s, t) ==
    /\ Service
    /\ maxSubs = Infinite \/ total < maxSubs
    /\ s \notin used
    /\ used' = used \cup {s}
    /\ sub' = [sub EXCEPT ![s] = NewSub(ExpireTime(t))]
    /\ subs' = subs \cup {s}
    /\ total' = total + 1
    /\ UNCHANGED <<devVars, now, jobVars, bufVars, histVars>>

(* genaRenewRequest: over the maximum the subscription is removed; else it
   gets a new expiry time, and is removed if the answer cannot be written. *)
genaRenewRequest(s, t) ==
    /\ \/ FoundExpired(s) /\ RemoveSubscriptionSID(s) /\ UNCHANGED sub
       \/ /\ Found(s)
          /\ maxSubs # Infinite /\ total > maxSubs
          /\ RemoveSubscriptionSID(s)
          /\ UNCHANGED sub
       \/ /\ Found(s)
          /\ maxSubs = Infinite \/ total <= maxSubs
          /\ sub' = [sub EXCEPT ![s].expireTime = ExpireTime(t)]
          /\ \/ UNCHANGED <<subs, total>>
             \/ "respond" \in Faults /\ RemoveSubscriptionSID(s)
    /\ UNCHANGED <<used, devVars, now, jobVars, bufVars, histVars>>

genaUnsubscribeRequest(s) ==
    /\ Found(s) \/ FoundExpired(s)
    /\ RemoveSubscriptionSID(s)
    /\ UNCHANGED <<sub, used, devVars, now, jobVars, bufVars, histVars>>

-----------------------------------------------------------------------------
(* Publishing. *)

(* genaInitNotify and genaInitNotifyExt, called by the application for a
   subscription it was told of.  The subscription is made active before the
   property set is built, and stays so when that fails; when tpool_Schedule
   refuses the job everything allocated is freed but the key is spent. *)
genaInitNotify(s) ==
    /\ s \in used
    /\ \/ /\ FoundExpired(s)
          /\ RemoveSubscriptionSID(s)
          /\ UNCHANGED <<sub, jobVars, bufVars, histVars>>
       \/ /\ Found(s) /\ ~sub[s].active
          /\ "prep" \in Faults
          /\ sub' = [sub EXCEPT ![s].active = TRUE]
          /\ UNCHANGED <<subs, total, jobVars, bufVars, histVars>>
       \/ /\ Found(s) /\ ~sub[s].active
          /\ nev < MaxEvents
          /\ nev' = nev + 1
          /\ sub' = [sub EXCEPT ![s].active = TRUE,
                                ![s].eventKey = @ + 1]
          /\ issued' = [issued EXCEPT ![s] = Append(@, nev')]
          /\ \/ /\ "queued" \in ScheduleOutcomes
                /\ pool' = Append(pool, [sid |-> s, ev |-> nev',
                                         eventKey |-> sub[s].eventKey])
                /\ refs' = [refs EXCEPT ![nev'] = 1]
                /\ UNCHANGED freed
             \/ /\ "refused" \in ScheduleOutcomes
                /\ freed' = freed \cup {nev'}
                /\ UNCHANGED <<pool, refs>>
          /\ UNCHANGED <<subs, total, pc, in, result, sent>>
    /\ UNCHANGED <<used, devVars, now>>

(* Mutant: GetNextSubscription does not skip the subscriptions that the
   application has not accepted. *)
TargetsUnaccepted == {s \in subs : ~Expired(s)}

(* The subscriptions a NotifyAll visits, and those it unlinks. *)
Targets == {s \in subs : sub[s].active /\ ~Expired(s)}
Stale == {s \in subs : Expired(s)}

(* Mutant: GetNextSubscription unlinks expired subscriptions without counting
   them out. *)
DistributeUncounted(K, J, E) ==
    /\ \A s \in K : Len(issued[s]) - Len(sent[s]) + 1 < MaxKey
    /\ nev < MaxEvents
    /\ nev' = nev + 1
    /\ sub' = [s \in Sids |->
                 IF s \in K THEN [sub[s] EXCEPT !.eventKey = NextKey(@)]
                 ELSE sub[s]]
    /\ issued' = [s \in Sids |-> IF s \in K THEN Append(issued[s], nev')
                                 ELSE issued[s]]
    /\ \E o \in Orders(J) :
          pool' = pool \o [i \in DOMAIN o |->
                              [sid |-> o[i], ev |-> nev',
                               eventKey |-> sub[o[i]].eventKey]]
    /\ refs' = [refs EXCEPT ![nev'] = Cardinality(K)]
    /\ freed' = IF K = {} THEN freed \cup {nev'} ELSE freed
    /\ subs' = subs \ E
    /\ UNCHANGED total

(* The subscriptions in K are given the key of a new event, those in J \subseteq
   K get a job for it in the queue, and those in E are unlinked.  A bound: at
   most MaxKey jobs of one subscription exist at a time, counting the one
   that is being transmitted, so that their keys differ (MaxKey is 2^31 - 1,
   more jobs than the memory holds). *)
Distribute(K, J, E) ==
    /\ \A s \in K : Len(issued[s]) - Len(sent[s]) + 1 < MaxKey
    /\ nev < MaxEvents
    /\ nev' = nev + 1
    /\ sub' = [s \in Sids |->
                 IF s \in K THEN [sub[s] EXCEPT !.eventKey = NextKey(@)]
                 ELSE sub[s]]
    /\ issued' = [s \in Sids |-> IF s \in K THEN Append(issued[s], nev')
                                 ELSE issued[s]]
    /\ \E o \in Orders(J) :
          pool' = pool \o [i \in DOMAIN o |->
                              [sid |-> o[i], ev |-> nev',
                               eventKey |-> sub[o[i]].eventKey]]
    /\ refs' = [refs EXCEPT ![nev'] = Cardinality(K)]
    /\ freed' = IF K = {} THEN freed \cup {nev'} ELSE freed
    /\ subs' = subs \ E
    /\ total' = total - Cardinality(E)

(* genaNotifyAll and genaNotifyAllExt: the whole list is visited; or a job
   structure cannot be allocated, which ends the loop (and is not reported);
   or a job is refused by the pool after its key and its reference were
   taken, which ends the loop too. *)
genaNotifyAll ==
    /\ Service
    /\ \/ Distribute(Targets, Targets, Stale)
       \/ /\ "struct" \in Faults
          /\ \E K \in SUBSET Targets, E \in SUBSET Stale :
                K # Targets /\ Distribute(K, K, E)
       \/ /\ "refused" \in ScheduleOutcomes
          /\ \E K \in SUBSET Targets, E \in SUBSET Stale :
                \E s \in K : Distribute(K, K \ {s}, E)
    /\ UNCHANGED <<used, devVars, now, pc, in, result, sent>>

-----------------------------------------------------------------------------
(* genaNotifyThread. *)

(* A thread of the pool takes the next job. *)
Dequeue(w) ==
    /\ pc[w] = "idle"
    /\ pool # << >>
    /\ in' = [in EXCEPT ![w] = Head(pool)]
    /\ pool' = Tail(pool)
    /\ pc' = [pc EXCEPT ![w] = "start"]
    /\ UNCHANGED <<result, devVars, subVars, now, bufVars, histVars>>

(* Mutant: the shared parts go with the first job that ends. *)
free_notify_struct_first(j) ==
    /\ refs' = [refs EXCEPT ![j.ev] = @ - 1]
    /\ freed' = freed \cup {j.ev}
    /\ UNCHANGED nev

free_notify_struct(j) ==
    /\ refs' = [refs EXCEPT ![j.ev] = @ - 1]
    /\ freed' = IF refs'[j.ev] = 0 THEN freed \cup {j.ev} ELSE freed
    /\ UNCHANGED nev

Idle(w) == /\ pc' = [pc EXCEPT ![w] = "idle"]
           /\ in' = [in EXCEPT ![w] = NoJob]
           /\ result' = [result EXCEPT ![w] = "none"]

(* Mutant: the job of a subscription that is gone is not recognised. *)
NotifyDropNever(w) ==
    /\ pc[w] = "start"
    /\ LET s == in[w].sid IN
       \/ /\ ~Service
          /\ UNCHANGED <<subs, total>>
       \/ FoundExpired(s) /\ RemoveSubscriptionSID(s)
    /\ free_notify_struct(in[w])
    /\ Idle(w)
    /\ UNCHANGED <<sub, used, devVars, now, pool, histVars>>

(* The job ends here: the device, the service or the subscription is gone,
   or the subscription expired, or it could not be copied. *)
NotifyDrop(w) ==
    /\ pc[w] = "start"
    /\ LET s == in[w].sid IN
       \/ /\ ~Service \/ s \notin subs
          /\ UNCHANGED <<subs, total>>
       \/ FoundExpired(s) /\ RemoveSubscriptionSID(s)
       \/ Found(s) /\ "copy" \in Faults /\ UNCHANGED <<subs, total>>
    /\ free_notify_struct(in[w])
    /\ Idle(w)
    /\ UNCHANGED <<sub, used, devVars, now, pool, histVars>>

(* Not this event's turn: the job queues itself again, under the lock.  The
   result of tpool_Schedule is not looked at. *)
NotifyRequeue(w) ==
    /\ pc[w] = "start"
    /\ LET s == in[w].sid IN
       /\ Found(s)
       /\ in[w].eventKey # sub[s].ToSendEventKey
    /\ \/ "queued" \in ScheduleOutcomes /\ pool' = Append(pool, in[w])
       \/ "refused" \in ScheduleOutcomes /\ UNCHANGED pool
    /\ Idle(w)
    /\ UNCHANGED <<devVars, subVars, now, bufVars, histVars>>

(* Mutant: the event key is not compared. *)
NotifyStartAnyTurn(w) ==
    /\ pc[w] = "start"
    /\ LET s == in[w].sid IN
       /\ Found(s)
       /\ sent' = [sent EXCEPT ![s] = Append(@, [seq |-> in[w].eventKey,
                                                 ev |-> in[w].ev])]
    /\ pc' = [pc EXCEPT ![w] = "transmit"]
    /\ UNCHANGED <<pool, in, result, devVars, subVars, now, bufVars, issued>>

(* Its turn: the copy of the subscription is kept and the lock given up. *)
NotifyStart(w) ==
    /\ pc[w] = "start"
    /\ LET s == in[w].sid IN
       /\ Found(s)
       /\ in[w].eventKey = sub[s].ToSendEventKey
       /\ sent' = [sent EXCEPT ![s] = Append(@, [seq |-> in[w].eventKey,
                                                 ev |-> in[w].ev])]
    /\ pc' = [pc EXCEPT ![w] = "transmit"]
    /\ UNCHANGED <<pool, in, result, devVars, subVars, now, bufVars, issued>>

(* genaNotify tries the delivery URLs in turn, without the lock: some
   answer, a 412 answer, or none at all. *)
genaNotify(w) ==
    /\ pc[w] = "transmit"
    /\ \E r \in {"done", "412"} : result' = [result EXCEPT ![w] = r]
    /\ pc' = [pc EXCEPT ![w] = "finish"]
    /\ UNCHANGED <<pool, in, devVars, subVars, now, bufVars, histVars>>

(* Mutant: the next event is not let go. *)
NotifyFinishKeepKey(w) ==
    /\ pc[w] = "finish"
    /\ free_notify_struct(in[w])
    /\ Idle(w)
    /\ UNCHANGED <<subVars, devVars, now, pool, histVars>>

(* Whatever the outcome the next event may go; 412 ends the subscription. *)
NotifyFinish(w) ==
    /\ pc[w] = "finish"
    /\ LET s == in[w].sid IN
       \/ /\ ~Service \/ s \notin subs
          /\ UNCHANGED <<subs, total, sub>>
       \/ FoundExpired(s) /\ RemoveSubscriptionSID(s) /\ UNCHANGED sub
       \/ /\ Found(s)
          /\ sub' = [sub EXCEPT ![s].ToSendEventKey = NextKey(@)]
          /\ IF result[w] = "412" THEN RemoveSubscriptionSID(s)
             ELSE UNCHANGED <<subs, total>>
    /\ free_notify_struct(in[w])
    /\ Idle(w)
    /\ UNCHANGED <<used, devVars, now, pool, histVars>>

-----------------------------------------------------------------------------
(* The device handle. *)

UpnpSetMaxSubscriptions(n) ==
    /\ handle
    /\ maxSubs' = n
    /\ UNCHANGED <<handle, table, maxTimeOut, subVars, now, jobVars, bufVars,
                   histVars>>

UpnpSetMaxSubscriptionTimeOut(n) ==
    /\ handle
    /\ maxTimeOut' = n
    /\ UNCHANGED <<handle, table, maxSubs, subVars, now, jobVars, bufVars,
                   histVars>>

(* UpnpUnRegisterRootDevice frees the service table under one lock and the
   handle under another. *)
genaUnregisterDevice ==
    /\ handle /\ table
    /\ table' = FALSE
    /\ subs' = {} /\ total' = 0
    /\ UNCHANGED <<handle, maxSubs, maxTimeOut, sub, used, now, jobVars,
                   bufVars, histVars>>

FreeHandle ==
    /\ handle /\ ~table
    /\ handle' = FALSE
    /\ UNCHANGED <<table, maxSubs, maxTimeOut, subVars, now, jobVars, bufVars,
                   histVars>>

(* The slot is given to the next device that registers. *)
UpnpRegisterRootDevice ==
    /\ ~handle
    /\ handle' = TRUE /\ table' = TRUE
    /\ maxSubs' = Infinite /\ maxTimeOut' = Infinite
    /\ UNCHANGED <<subVars, now, jobVars, bufVars, histVars>>

Tick == /\ now < MaxTime
        /\ now' = now + 1
        /\ UNCHANGED <<devVars, subVars, jobVars, bufVars, histVars>>

Next == \/ \E s \in Sids, t \in TimeOuts : \/ genaSubscriptionRequest(s, t)
                                           \/ genaRenewRequest(s, t)
        \/ \E s \in Sids : genaUnsubscribeRequest(s) \/ genaInitNotify(s)
        \/ genaNotifyAll
        \/ \E w \in Workers : \/ Dequeue(w) \/ NotifyDrop(w)
                              \/ NotifyRequeue(w) \/ NotifyStart(w)
                              \/ genaNotify(w) \/ NotifyFinish(w)
        \/ \E n \in SubscriptionMaxima : UpnpSetMaxSubscriptions(n)
        \/ \E n \in TimeOutMaxima : UpnpSetMaxSubscriptionTimeOut(n)
        \/ genaUnregisterDevice \/ FreeHandle \/ UpnpRegisterRootDevice
        \/ Tick

Spec == Init /\ [][Next]_vars

(* The pool's threads keep working (JobQueue and ThreadPool) and a
   transmission ends (sockets have time-outs). *)
Fairness == \A w \in Workers :
    /\ WF_vars(Dequeue(w))
    /\ WF_vars(NotifyDrop(w) \/ NotifyRequeue(w) \/ NotifyStart(w))
    /\ WF_vars(genaNotify(w))
    /\ WF_vars(NotifyFinish(w))

FairSpec == Spec /\ Fairness
-----------------------------------------------------------------------------
(* Types of the fields, of the threads' locals and of the ghosts. *)
TypeOK ==
    /\ handle \in BOOLEAN /\ table \in BOOLEAN
    /\ subs \in SUBSET Sids /\ used \in SUBSET Sids
    /\ total \in Nat
    /\ sub \in [Sids -> [eventKey : 0 .. MaxKey, ToSendEventKey : 0 .. MaxKey,
                        active : BOOLEAN, expireTime : Nat]]
    /\ maxSubs \in Nat \cup {Infinite} /\ maxTimeOut \in Nat \cup {Infinite}
    /\ now \in Nat
    /\ pool \in Seq(Job)
    /\ pc \in [Workers -> {"idle", "start", "transmit", "finish"}]
    /\ in \in [Workers -> Job \cup {NoJob}]
    /\ result \in [Workers -> {"none", "done", "412"}]
    /\ nev \in 0 .. MaxEvents
    /\ refs \in [Events -> Int]
    /\ freed \in SUBSET Events
    /\ issued \in [Sids -> Seq(Events)]
    /\ sent \in [Sids -> Seq([seq : 0 .. MaxKey, ev : Events])]

(* TotalSubscriptions, which admits and removes subscribers, is the length of
   the list through every way a subscription can go: UNSUBSCRIBE, refused
   renewal, 412, expiry found by any of the lookups, unregistration. *)
TotalExact == total = Cardinality(subs)

Transmitting(w) == pc[w] \in {"transmit", "finish"}

(* genaNotifyThread gives up the lock to transmit, yet two threads never
   transmit to the same subscription, even when the keys wrap: the order of
   the started NOTIFYs is the order on the wire. *)
OneInFlight ==
    \A w, v \in Workers :
        w # v /\ Transmitting(w) /\ Transmitting(v) => in[w].sid # in[v].sid

(* What the list, its count and the threads that walk it rely on, at any
   interleaving of requests, jobs, expiry and unregistration. *)
SubscriptionsSound == TypeOK /\ TotalExact /\ OneInFlight

(* The jobs that still need the shared parts of event e. *)
Holders(e) == {i \in DOMAIN pool : pool[i].ev = e}
Users(e) == {w \in Workers : in[w] # NoJob /\ in[w].ev = e}
Outstanding(e) == Cardinality(Holders(e)) + Cardinality(Users(e))

(* No job, queued or running, points to headers or a property set that
   free_notify_struct or a failed genaInitNotify has freed. *)
BuffersSafe == \A e \in Events : /\ Outstanding(e) <= refs[e]
                                 /\ e \in freed => Outstanding(e) = 0

(* Eventing implements the ordered, exactly-once streams of EventStream,
   whatever the interleaving of threads, requests, expiry, unregistration and
   re-registration under the same handle. *)
Stream == INSTANCE EventStream WITH
    state <- [s \in Sids |-> IF s \in subs
                             THEN IF sub[s].active THEN "active" ELSE "pending"
                             ELSE IF s \in used THEN "ended" ELSE "none"]

ImplementsEventStream == Stream!Spec

(* upnp.h:267, "The UPnP library generates no events for a subscription unless
   the device application calls UpnpAcceptSubscription": without failures the
   first event a subscription is given is the one of its acceptance. *)
InitialEventFirst ==
    [][\A s \in Sids : issued[s] = << >> /\ issued'[s] # << >>
                          => ~sub[s].active /\ sub'[s].active]_vars

(* Without allocation failures an event given to a subscription is sent, if
   the subscription lasts. *)
EventsSent ==
    \A s \in Sids : (Len(sent[s]) < Len(issued[s])) ~>
                       (s \notin subs \/ Len(sent[s]) = Len(issued[s]))

HasJob(s) == \/ \E i \in DOMAIN pool : pool[i].sid = s
             \/ \E w \in Workers : in[w] # NoJob /\ in[w].sid = s

(* upnp.h:1160, UpnpNotify "sends out an event change notification to all
   control points subscribed": a job that waits for its turn gets it, and
   does not requeue itself for ever. *)
NotifyJobsEnd == \A s \in Sids : HasJob(s) ~> ~HasJob(s)

(* upnp.h:1330, UpnpSetMaxSubscriptions: over the maximum the library
   "accepts no new subscriptions or renewals, however, the UPnP library does
   not remove any current subscriptions": a refused renewal removes no
   subscription that has not expired. *)
RefusedRenewalRemovesNothing ==
    [][\A s \in subs, t \in TimeOuts :
          genaRenewRequest(s, t) /\ maxSubs # Infinite /\ total > maxSubs
          /\ ~Expired(s) => s \in subs']_vars
=============================================================================

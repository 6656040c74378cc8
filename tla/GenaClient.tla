----------------------------- MODULE GenaClient -----------------------------
(***************************************************************************)
(* Eventing on the control point side: gena_client.c and the subscription  *)
(* list of client_table.c, for the one client handle the SDK supports.     *)
(* Threads of the application and of the pool subscribe, renew,            *)
(* unsubscribe and unregister; the timer renews; publishers send NOTIFYs.  *)
(*                                                                         *)
(* Every critical section of the handle lock is one action.  An HTTP       *)
(* exchange happens between two of them, with the thread in a state of its *)
(* own; genaSubscribe holds the subscribe lock meanwhile.  The timer is    *)
(* that of module TimerService with the clock left out: an armed event may *)
(* fire at any time, and its argument then belongs to its callback.  An    *)
(* asynchronous call is the synchronous one made later by a pool thread.   *)
(***************************************************************************)
EXTENDS Integers, FiniteSets

CONSTANTS Sids,        \* one subscription for each call of genaSubscribe
          Threads,     \* threads of the application and of the pool
          NoSid, NoThread,
          MaxEvents,   \* bound on the renewal events
          MaxClients,  \* bound on the registrations
          Faults       \* which steps may fail: "copy", "timer", "handover"

ASSUME ClientAssumption ==
    /\ NoSid \notin Sids /\ NoThread \notin Threads
    /\ MaxEvents \in Nat /\ MaxClients \in Nat \ {0}
    /\ Faults \subseteq {"copy", "timer", "handover"}

NoEvent == 0
Events == 1 .. MaxEvents
EventKeys == {0, 1}     \* SEQ: of the initial event, and of any other

VARIABLES
    client,       \* registrations so far; the current one, if registered
    registered,   \* the handle's slot holds a client
    list,         \* ClientSubList
    RenewEventId, \* of each subscription
    finite,       \* its time-out is not UPNP_INFINITE
    subscribeLock,\* the thread that holds GlobalClientSubscribeMutex
    thr,          \* what each thread does, for which sid, event and client
    nev,          \* renewal events created so far
    event,        \* what became of each: its sid and its state
    publisher,    \* where each subscription is at its publisher
    initial,      \* an event of it was acknowledged to the publisher
    corrupt,      \* freed memory is reachable; nothing is defined any more
    owner,        \* ghost: the client that subscribed
    refused,      \* ghost: subscriptions whose publisher was told they are
                  \* unknown, by mistake if they are kept
    excused       \* ghost: subscriptions whose application was told that the
                  \* renewal failed, or whose event the pool did not take
                  \* (timer_thread.c does not look at what tpool_Schedule says)

subVars == <<list, RenewEventId, finite>>
eventVars == <<nev, event>>
handleVars == <<client, registered>>
pubVars == <<publisher, initial>>
ghostVars == <<owner, refused, excused>>
vars == <<handleVars, subVars, subscribeLock, thr, eventVars, pubVars, corrupt,
          ghostVars>>

-----------------------------------------------------------------------------
Idle == [pc |-> "idle", sid |-> NoSid, ev |-> NoEvent, client |-> 0]

(* Where thread t is.  After freed memory has been left reachable nothing is
   claimed of the program, and no thread moves. *)
At(t, pc) == ~corrupt /\ thr[t].pc = pc
Go(t, pc) == thr' = [thr EXCEPT ![t].pc = pc]
Return(t) == thr' = [thr EXCEPT ![t] = Idle]

InState(st) == {e \in 1 .. nev : event[e].state = st}

Init == /\ client = 1 /\ registered = TRUE
        /\ list = {}
        /\ RenewEventId = [s \in Sids |-> NoEvent]
        /\ finite = [s \in Sids |-> FALSE]
        /\ subscribeLock = NoThread
        /\ thr = [t \in Threads |-> Idle]
        /\ nev = 0 /\ event = [e \in Events |-> [sid |-> NoSid, state |-> "none"]]
        /\ publisher = [s \in Sids |-> "none"]
        /\ initial = [s \in Sids |-> FALSE]
        /\ corrupt = FALSE
        /\ owner = [s \in Sids |-> 0]
        /\ refused = {} /\ excused = {}

(* Mutant: what RemoveTimerEvent returned is not looked at. *)
CancelledAlways(s) ==
    IF RenewEventId[s] # NoEvent THEN [event EXCEPT ![RenewEventId[s]].state = "freed"]
    ELSE event

(* RemoveTimerEvent(sub->RenewEventId) and, if it found the event,
   free_upnp_timeout: the table of events afterwards. *)
Cancelled(s) ==
    IF RenewEventId[s] \in InState("armed")
    THEN [event EXCEPT ![RenewEventId[s]].state = "freed"]
    ELSE event

(* RemoveClientSubClientSID: the subscription, if it is in the list, is
   unlinked and freed, and its renewal event with it. *)
RemoveClientSubClientSID(s) ==
    /\ list' = list \ {s}
    /\ event' = IF s \in list THEN Cancelled(s) ELSE event
    /\ RenewEventId' = IF s \in list THEN [RenewEventId EXCEPT ![s] = NoEvent]
                       ELSE RenewEventId
    /\ UNCHANGED <<nev, finite>>

(* Mutant: a time-out that is not longer than AUTO_RENEW_TIME schedules
   nothing. *)
ScheduleGenaAutoRenewLong(s, table) ==
    /\ finite' \in {[finite EXCEPT ![s] = b] : b \in BOOLEAN}
    /\ event' = table
    /\ UNCHANGED <<nev, RenewEventId>>

(* ScheduleGenaAutoRenew with success: an infinite subscription needs no
   event, and keeps the one it had. *)
ScheduleGenaAutoRenew(s, table) ==
    \/ /\ finite' = [finite EXCEPT ![s] = FALSE]
       /\ event' = table
       /\ UNCHANGED <<nev, RenewEventId>>
    \/ /\ nev < MaxEvents
       /\ nev' = nev + 1
       /\ event' = [table EXCEPT ![nev'] = [sid |-> s, state |-> "armed"]]
       /\ RenewEventId' = [RenewEventId EXCEPT ![s] = nev']
       /\ finite' = [finite EXCEPT ![s] = TRUE]

-----------------------------------------------------------------------------
(* genaSubscribe. *)

(* The handle is validated and the subscribe lock requested. *)
genaSubscribe(t, s) ==
    /\ At(t, "idle") /\ registered
    /\ owner[s] = 0
    /\ thr' = [thr EXCEPT ![t] = [Idle EXCEPT !.pc = "subscribe", !.sid = s]]
    /\ owner' = [owner EXCEPT ![s] = client]
    /\ UNCHANGED <<handleVars, subVars, subscribeLock, eventVars, pubVars,
                   corrupt, refused, excused>>

(* SubscribeLock, and the request is sent. *)
SubscribeSend(t) ==
    /\ At(t, "subscribe")
    /\ subscribeLock = NoThread
    /\ subscribeLock' = t
    /\ Go(t, "subscribing")
    /\ UNCHANGED <<handleVars, subVars, eventVars, pubVars, corrupt, ghostVars>>

(* The answer is there, and both locks are held: it is no good, or the
   handle is gone, and nothing changes; or the subscription is linked into
   the list and its renewal scheduled.  If that fails the subscription is
   freed, but not unlinked. *)
SubscribeEnd(t) ==
    /\ At(t, "subscribing")
    /\ LET s == thr[t].sid IN
       \/ UNCHANGED <<subVars, eventVars, corrupt>>
       \/ /\ registered /\ publisher[s] # "none"
          /\ list' = list \cup {s}
          /\ ScheduleGenaAutoRenew(s, event)
          /\ UNCHANGED corrupt
       \/ /\ registered /\ publisher[s] # "none"
          /\ "timer" \in Faults
          /\ list' = list \cup {s}
          /\ corrupt' = TRUE
          /\ UNCHANGED <<eventVars, RenewEventId, finite>>
    /\ subscribeLock' = NoThread
    /\ Return(t)
    /\ UNCHANGED <<handleVars, pubVars, ghostVars>>

-----------------------------------------------------------------------------
(* genaRenewSubscription, called by the application (e = NoEvent) or by
   GenaAutoRenewSubscription for the event e. *)

Free(e, ev) == IF e = NoEvent THEN ev ELSE [ev EXCEPT ![e].state = "freed"]

(* The call returns: with GENA_E_BAD_SID, GENA_E_BAD_HANDLE or success, after
   which GenaAutoRenewSubscription frees its event ... *)
RenewReturns(t, e, ev) == Return(t) /\ event' = Free(e, ev)

(* ... or with an error, which the application gets as the result, or as an
   UPNP_EVENT_AUTORENEWAL_FAILED that GenaAutoRenewSubscription is about to
   send. *)
RenewFails(t, s, e) ==
    /\ excused' = excused \cup {s}
    /\ IF e = NoEvent THEN Return(t)
       ELSE thr' = [thr EXCEPT ![t] = [Idle EXCEPT !.pc = "failed", !.sid = s,
                                                   !.ev = e]]

(* The first critical section: the old event is removed and the subscription
   copied; when there is no memory for that, or for the request, the call
   returns and the subscription stays, without an event. *)
RenewBegin(t, s, e) ==
    /\ \/ /\ ~registered \/ s \notin list
          /\ RenewReturns(t, e, event)
          /\ UNCHANGED <<RenewEventId, excused>>
       \/ /\ registered /\ s \in list
          /\ RenewEventId' = [RenewEventId EXCEPT ![s] = NoEvent]
          /\ event' = Cancelled(s)
          /\ \/ /\ thr' = [thr EXCEPT ![t] = [Idle EXCEPT !.pc = "renewing",
                                                         !.sid = s, !.ev = e]]
                /\ UNCHANGED excused
             \/ "copy" \in Faults /\ RenewFails(t, s, e)
    /\ UNCHANGED <<handleVars, list, finite, subscribeLock, nev, pubVars,
                   corrupt, owner, refused>>

UpnpRenewSubscription(t, s) ==
    /\ At(t, "idle")
    /\ owner[s] # 0
    /\ RenewBegin(t, s, NoEvent)

(* The timer hands the event to the pool, and a thread of it starts. *)
GenaAutoRenewSubscription(t, e) ==
    /\ At(t, "idle")
    /\ e \in InState("job") /\ \A u \in Threads : thr[u].ev # e
    /\ RenewBegin(t, event[e].sid, e)

(* The publisher accepts: a new event, which replaces the one a concurrent
   renewal may have left. *)
RenewAccepted(t) ==
    /\ At(t, "renewing")
    /\ LET s == thr[t].sid IN
       /\ registered /\ s \in list
       /\ publisher[s] = "granted"
       /\ ScheduleGenaAutoRenew(s, Free(thr[t].ev, event))
    /\ Return(t)
    /\ UNCHANGED <<handleVars, list, subscribeLock, pubVars, corrupt, ghostVars>>

(* The exchange fails, the publisher refuses, or the new event cannot be
   scheduled: the subscription is removed, whoever else renewed it. *)
RenewRejected(t) ==
    /\ At(t, "renewing")
    /\ registered /\ thr[t].sid \in list
    /\ RemoveClientSubClientSID(thr[t].sid)
    /\ RenewFails(t, thr[t].sid, thr[t].ev)
    /\ UNCHANGED <<handleVars, subscribeLock, pubVars, corrupt, owner, refused>>

(* Handle or subscription are gone.  A failed exchange is reported even if
   the subscription is no longer there. *)
RenewPointless(t) ==
    /\ At(t, "renewing")
    /\ \/ /\ ~registered \/ thr[t].sid \notin list
          /\ RenewReturns(t, thr[t].ev, event)
          /\ UNCHANGED excused
       \/ /\ registered /\ thr[t].sid \notin list
          /\ RenewFails(t, thr[t].sid, thr[t].ev)
          /\ UNCHANGED event
    /\ UNCHANGED <<handleVars, subVars, nev, subscribeLock, pubVars, corrupt,
                   owner, refused>>

(* GenaAutoRenewSubscription after a failure: under the handle lock the
   callback is fetched, if there still is a client. *)
AutoRenewFailed(t) ==
    /\ At(t, "failed")
    /\ IF registered
       THEN /\ thr' = [thr EXCEPT ![t].pc = "callback", ![t].client = client]
            /\ UNCHANGED event
       ELSE Return(t) /\ event' = Free(thr[t].ev, event)
    /\ UNCHANGED <<handleVars, subVars, subscribeLock, nev, pubVars, corrupt,
                   ghostVars>>

-----------------------------------------------------------------------------
(* genaUnSubscribe: the subscription is removed first; whether the request
   is sent depends on the memory for it. *)
genaUnSubscribe(t, s) ==
    /\ At(t, "idle")
    /\ registered /\ s \in list
    /\ RemoveClientSubClientSID(s)
    /\ \/ thr' = [thr EXCEPT ![t] = [Idle EXCEPT !.pc = "unsubscribing", !.sid = s]]
       \/ "copy" \in Faults /\ UNCHANGED thr
    /\ UNCHANGED <<handleVars, subscribeLock, pubVars, corrupt, ghostVars>>

(* The UNSUBSCRIBE request reaches its publisher, or does not. *)
UnsubscribeEnd(t) ==
    /\ At(t, "unsubscribing") \/ At(t, "removing")
    /\ \/ publisher' = [publisher EXCEPT ![thr[t].sid] = "ended"]
       \/ UNCHANGED publisher
    /\ IF At(t, "removing") THEN Go(t, "unregister") ELSE Return(t)
    /\ UNCHANGED <<handleVars, subVars, subscribeLock, eventVars, initial,
                   corrupt, ghostVars>>

-----------------------------------------------------------------------------
(* UpnpUnRegisterClient and genaUnregisterClient. *)

UpnpUnRegisterClient(t) ==
    /\ At(t, "idle")
    /\ registered
    /\ thr' = [thr EXCEPT ![t] = [Idle EXCEPT !.pc = "unregister"]]
    /\ UNCHANGED <<handleVars, subVars, subscribeLock, eventVars, pubVars,
                   corrupt, ghostVars>>

(* One round of the loop of genaUnregisterClient.  When a subscription cannot
   be copied the whole list is freed, but the handle keeps it. *)
UnregisterNext(t) ==
    /\ At(t, "unregister")
    /\ \/ /\ ~registered
          /\ Return(t)
          /\ UNCHANGED <<subVars, eventVars, corrupt>>
       \/ /\ registered /\ list = {}
          /\ Go(t, "freehandle")
          /\ UNCHANGED <<subVars, eventVars, corrupt>>
       \/ /\ registered
          /\ \E s \in list :
                /\ RemoveClientSubClientSID(s)
                /\ \/ thr' = [thr EXCEPT ![t].pc = "removing", ![t].sid = s]
                   \/ "copy" \in Faults /\ Return(t)
          /\ UNCHANGED corrupt
       \/ /\ registered /\ list # {}
          /\ "copy" \in Faults
          /\ corrupt' = TRUE
          /\ Return(t)
          /\ UNCHANGED <<subVars, eventVars>>
    /\ UNCHANGED <<handleVars, subscribeLock, pubVars, ghostVars>>

(* FreeHandle, in a critical section of its own: a list that is not empty
   any more is forgotten. *)
FreeHandle(t) ==
    /\ At(t, "freehandle")
    /\ registered' = FALSE
    /\ list' = {}
    /\ Return(t)
    /\ UNCHANGED <<client, RenewEventId, finite, subscribeLock, eventVars,
                   pubVars, corrupt, ghostVars>>

(* The slot is given to the next client. *)
UpnpRegisterClient ==
    /\ ~registered
    /\ client < MaxClients
    /\ client' = client + 1
    /\ registered' = TRUE
    /\ UNCHANGED <<subVars, subscribeLock, thr, eventVars, pubVars, corrupt,
                   ghostVars>>

-----------------------------------------------------------------------------
(* genaNotifyReceived. *)

(* The answer 200: the callback is fetched, and called without the lock. *)
Accept(t, s) ==
    /\ thr' = [thr EXCEPT ![t] = [Idle EXCEPT !.pc = "callback", !.client = client]]
    /\ initial' = [initial EXCEPT ![s] = TRUE]
    /\ UNCHANGED <<publisher, refused>>

(* The answer 412, which ends the subscription at its publisher.  It is a
   mistake (refused) if the publisher did all it could: the event was the
   initial one, or that had been acknowledged. *)
Refuse(t, s, initialEvent) ==
    /\ Return(t)
    /\ refused' = IF initialEvent \/ initial[s] THEN refused \cup {s} ELSE refused
    /\ publisher' = [publisher EXCEPT ![s] = "ended"]
    /\ UNCHANGED initial

(* Mutant: an initial event of an unknown subscription is refused at once. *)
NotifyReceivedImpatient(t, s, eventKey) ==
    /\ At(t, "idle")
    /\ publisher[s] = "granted"
    /\ IF registered /\ s \in list THEN Accept(t, s) ELSE Refuse(t, s, eventKey = 0)
    /\ UNCHANGED <<handleVars, subVars, subscribeLock, eventVars, corrupt, owner,
                   excused>>

(* The subscription is looked up.  An event of an unknown one waits for the
   subscribe lock, in case it came before the answer to SUBSCRIBE, if its SEQ
   is 0, and is refused at once if it is not: its predecessors may be lost,
   or the publisher may have given up waiting for the answer to one. *)
genaNotifyReceived(t, s, eventKey) ==
    /\ At(t, "idle")
    /\ publisher[s] = "granted"
    /\ \/ registered /\ s \in list /\ Accept(t, s)
       \/ (~registered \/ (s \notin list /\ eventKey # 0)) /\ Refuse(t, s, eventKey = 0)
       \/ /\ registered /\ s \notin list /\ eventKey = 0
          /\ thr' = [thr EXCEPT ![t] = [Idle EXCEPT !.pc = "initial", !.sid = s]]
          /\ UNCHANGED <<pubVars, refused>>
    /\ UNCHANGED <<handleVars, subVars, subscribeLock, eventVars, corrupt, owner,
                   excused>>

(* With both locks the subscription is looked up again. *)
NotifyAgain(t) ==
    /\ At(t, "initial")
    /\ subscribeLock = NoThread
    /\ IF registered /\ thr[t].sid \in list THEN Accept(t, thr[t].sid)
       ELSE Refuse(t, thr[t].sid, TRUE)
    /\ UNCHANGED <<handleVars, subVars, subscribeLock, eventVars, corrupt, owner,
                   excused>>

(* The callback is made, for an event or for a failed renewal, and what was
   allocated for it is freed. *)
Callback(t) ==
    /\ At(t, "callback")
    /\ Return(t)
    /\ event' = Free(thr[t].ev, event)
    /\ UNCHANGED <<handleVars, subVars, subscribeLock, nev, pubVars, corrupt,
                   ghostVars>>

-----------------------------------------------------------------------------
(* The timer and the publishers. *)

(* An event is due; the pool takes the job, or the event is lost. *)
EventDue(e) ==
    /\ e \in InState("armed")
    /\ \/ /\ event' = [event EXCEPT ![e].state = "job"]
          /\ UNCHANGED excused
       \/ /\ "handover" \in Faults
          /\ event' = [event EXCEPT ![e].state = "lost"]
          /\ excused' = excused \cup {event[e].sid}
    /\ UNCHANGED <<handleVars, subVars, subscribeLock, thr, nev, pubVars, corrupt,
                   owner, refused>>

(* The publisher receives a SUBSCRIBE request and grants it; its initial
   event may be on the way before the answer. *)
PublisherGrants(t) ==
    /\ At(t, "subscribing")
    /\ publisher[thr[t].sid] = "none"
    /\ publisher' = [publisher EXCEPT ![thr[t].sid] = "granted"]
    /\ UNCHANGED <<handleVars, subVars, subscribeLock, thr, eventVars, initial,
                   corrupt, ghostVars>>

(* It may end a subscription: it expires, or the device leaves. *)
PublisherEnds(s) ==
    /\ publisher[s] = "granted"
    /\ publisher' = [publisher EXCEPT ![s] = "ended"]
    /\ UNCHANGED <<handleVars, subVars, subscribeLock, thr, eventVars, initial,
                   corrupt, ghostVars>>

(* What a thread does once it has begun. *)
Continue(t) ==
    \/ SubscribeSend(t) \/ SubscribeEnd(t)
    \/ RenewAccepted(t) \/ RenewRejected(t) \/ RenewPointless(t)
    \/ AutoRenewFailed(t) \/ UnsubscribeEnd(t)
    \/ UnregisterNext(t) \/ FreeHandle(t)
    \/ NotifyAgain(t) \/ Callback(t)

Begin(t) ==
    \/ \E s \in Sids : \/ genaSubscribe(t, s) \/ UpnpRenewSubscription(t, s)
                       \/ genaUnSubscribe(t, s)
                       \/ \E eventKey \in EventKeys : genaNotifyReceived(t, s, eventKey)
    \/ \E e \in Events : GenaAutoRenewSubscription(t, e)
    \/ UpnpUnRegisterClient(t)

Next == \/ \E t \in Threads : Begin(t) \/ Continue(t) \/ PublisherGrants(t)
        \/ \E s \in Sids : PublisherEnds(s)
        \/ \E e \in Events : EventDue(e)
        \/ UpnpRegisterClient

Spec == Init /\ [][Next]_vars
-----------------------------------------------------------------------------
(* Types of the fields, of the threads' locals and of the ghosts. *)
TypeOK ==
    /\ client \in 1 .. MaxClients /\ registered \in BOOLEAN
    /\ list \in SUBSET Sids
    /\ RenewEventId \in [Sids -> Events \cup {NoEvent}]
    /\ finite \in [Sids -> BOOLEAN]
    /\ subscribeLock \in Threads \cup {NoThread}
    /\ thr \in [Threads -> [pc : {"idle", "subscribe", "subscribing", "renewing",
                                  "failed", "callback", "unsubscribing",
                                  "unregister", "removing", "freehandle",
                                  "initial"},
                            sid : Sids \cup {NoSid},
                            ev : Events \cup {NoEvent},
                            client : 0 .. MaxClients]]
    /\ nev \in 0 .. MaxEvents
    /\ event \in [Events -> [sid : Sids \cup {NoSid},
                             state : {"none", "armed", "job", "lost", "freed"}]]
    /\ publisher \in [Sids -> {"none", "granted", "ended"}]
    /\ initial \in [Sids -> BOOLEAN]
    /\ corrupt \in BOOLEAN
    /\ owner \in [Sids -> 0 .. MaxClients]
    /\ refused \in SUBSET Sids /\ excused \in SUBSET Sids

(* gena_client.c:299, "this is to avoid mistakenly rejecting the first event
   if we receive it before the subscription response": of a subscription that
   the client keeps, the initial event (SEQ 0) was not answered as unknown,
   nor was any later one once an event had been acknowledged.  The exception
   is what the code does: when the initial event got lost or was never built,
   the next one may come before the answer to SUBSCRIBE, and is refused. *)
KeptEventsAccepted ==
    \A s \in list : s \in refused => owner[s] # client

(* A subscription with a time-out is going to be renewed: an event is armed
   or on its way, or a thread is renewing it; unless the application was told
   of a failure (or the pool did not take the event). *)
RenewalPending ==
    \A s \in list : finite[s] /\ ~corrupt =>
        \/ s \in excused
        \/ \E e \in InState("armed") \cup InState("job") : event[e].sid = s
        \/ \E t \in Threads : At(t, "renewing") /\ thr[t].sid = s

(* The event a GenaAutoRenewSubscription was called with, from which it still
   reads the SID, is neither freed by somebody else nor back in the timer. *)
EventInUse ==
    \A t \in Threads : thr[t].ev # NoEvent =>
        /\ event[thr[t].ev].state = "job"
        /\ \A u \in Threads \ {t} : thr[u].ev # thr[t].ev

(* The threads' events and the types of what they share: no handle, SID or
   event id is mixed up by a renewal, an unsubscription or a new client. *)
RenewalsSound == TypeOK /\ EventInUse
=============================================================================

----------------------------- MODULE ClientProofs -----------------------------
(***************************************************************************)
(* Proofs about the control point side.  Eventing: the types and the       *)
(* ownership of the renewal events (RenewalsSound), that a subscription    *)
(* with a time-out stays scheduled (RenewalPending), and that the initial  *)
(* event of a subscription the client keeps was not refused, nor a later   *)
(* one after an acknowledged one (KeptEventsAccepted).                     *)
(* http_client.c: the answers that Transfer reads and the URLs that Url    *)
(* resolves.                                                               *)
(***************************************************************************)
EXTENDS GenaClient, Transfer, Url, SequenceLemmas, SequenceTheorems,
        FiniteSetTheorems, TLAPS

States == {"none", "armed", "job", "lost", "freed"}
Table == [Events -> [sid : Sids \cup {NoSid}, state : States]]
Pcs == {"idle", "subscribe", "subscribing", "renewing", "failed", "callback",
        "unsubscribing", "unregister", "removing", "freehandle", "initial"}
Local == [pc : Pcs, sid : Sids \cup {NoSid}, ev : Events \cup {NoEvent},
          client : 0 .. MaxClients]

(* What thread t does in a step: afterwards it is at pc, for s and e; the
   other threads stay where they are. *)
Moved(t, pc, s, e) ==
    /\ thr' \in [Threads -> Local]
    /\ thr'[t].pc = pc /\ thr'[t].sid = s /\ thr'[t].ev = e
    /\ \A u \in Threads \ {t} : thr'[u] = thr[u]

(* The table ev is that of the events with those of E freed. *)
Frees(ev, E) ==
    /\ ev \in Table
    /\ \A e \in Events : /\ ev[e].sid = event[e].sid
                         /\ ev[e].state = IF e \in E THEN "freed" ELSE event[e].state

-----------------------------------------------------------------------------
(* The invariant. *)

Subscribing(t) == thr[t].pc \in {"subscribe", "subscribing"}

(* The thread of genaSubscribe holds the subscribe lock while its request is
   on the way, is alone with its subscription, and nobody has heard of that
   yet. *)
SubscriberInv ==
    /\ \A t \in Threads : thr[t].pc = "subscribing" => subscribeLock = t
    /\ \A t, u \in Threads :
          Subscribing(t) /\ Subscribing(u) /\ thr[t].sid = thr[u].sid => t = u
    /\ \A t \in Threads : Subscribing(t) =>
          /\ thr[t].sid \in Sids \ list
          /\ ~initial[thr[t].sid]
          /\ owner[thr[t].sid] # 0
          /\ thr[t].pc = "subscribe" => publisher[thr[t].sid] = "none"

(* A subscription has its owner before its publisher knows it, and its
   publisher before the client lists it or answers its events. *)
OwnerInv ==
    /\ \A s \in Sids : owner[s] <= client
    /\ \A s \in Sids : owner[s] = 0 => publisher[s] = "none"
    /\ \A s \in list : publisher[s] # "none"
    /\ \A s \in Sids : initial[s] => publisher[s] # "none"
    /\ \A t \in Threads :
          thr[t].pc \in {"renewing", "unsubscribing", "removing", "initial"}
             => thr[t].sid \in Sids /\ publisher[thr[t].sid] # "none"

(* A refused subscription is not, and will not be, one of the present client. *)
RefusedInv ==
    /\ ~registered => list = {}
    /\ \A s \in refused : publisher[s] # "none"
    /\ \A s \in refused :
          \/ owner[s] # client
          \/ ~registered
          \/ s \notin list /\ \A t \in Threads : ~(Subscribing(t) /\ thr[t].sid = s)

(* Events keep their subscription, and a failed one's application was told. *)
EventsInv ==
    /\ \A e \in Events : event[e].state # "none" => e <= nev /\ event[e].sid \in Sids
    /\ \A s \in Sids : RenewEventId[s] # NoEvent =>
          RenewEventId[s] <= nev /\ event[RenewEventId[s]].sid = s
    /\ \A t \in Threads : thr[t].ev # NoEvent =>
          /\ thr[t].pc \in {"renewing", "failed", "callback"}
          /\ event[thr[t].ev].sid = thr[t].sid
          /\ thr[t].pc \in {"failed", "callback"} => thr[t].sid \in excused

ClientInv == TypeOK /\ SubscriberInv /\ OwnerInv /\ RefusedInv /\ EventsInv
             /\ EventInUse /\ RenewalPending

-----------------------------------------------------------------------------
(* What the operators of the model do. *)

(* A thread that returns, or goes on with a record of its own. *)
LEMMA Moves ==
    ASSUME TypeOK, NEW t \in Threads, NEW r \in Local, thr' = [thr EXCEPT ![t] = r]
    PROVE  Moved(t, r.pc, r.sid, r.ev) /\ thr'[t].client = r.client
<1>1. thr \in [Threads -> Local]
  BY DEF TypeOK, Local, Pcs
<1> QED
  BY <1>1 DEF Moved

(* The record of a thread that does nothing. *)
LEMMA IdleLocal == /\ Idle \in Local /\ Idle.pc = "idle" /\ Idle.sid = NoSid
                   /\ Idle.ev = NoEvent /\ Idle.client = 0
  BY ClientAssumption DEF Local, Idle, Pcs

(* The records of threads that begin something. *)
LEMMA Begins ==
    ASSUME TypeOK, NEW t \in Threads, NEW pc \in Pcs, NEW s \in Sids \cup {NoSid},
           NEW e \in Events \cup {NoEvent}, NEW c \in 0 .. MaxClients
    PROVE  /\ thr' = [thr EXCEPT ![t] = [Idle EXCEPT !.pc = pc]]
                 => Moved(t, pc, NoSid, NoEvent)
           /\ thr' = [thr EXCEPT ![t] = [Idle EXCEPT !.pc = pc, !.client = c]]
                 => Moved(t, pc, NoSid, NoEvent)
           /\ thr' = [thr EXCEPT ![t] = [Idle EXCEPT !.pc = pc, !.sid = s]]
                 => Moved(t, pc, s, NoEvent)
           /\ thr' = [thr EXCEPT ![t] = [Idle EXCEPT !.pc = pc, !.sid = s, !.ev = e]]
                 => Moved(t, pc, s, e)
<1> DEFINE i == Idle
           a == [i EXCEPT !.pc = pc]
           b == [i EXCEPT !.pc = pc, !.client = c]
           d == [i EXCEPT !.pc = pc, !.sid = s]
           f == [i EXCEPT !.pc = pc, !.sid = s, !.ev = e]
<1>1. i \in Local /\ i.sid = NoSid /\ i.ev = NoEvent /\ i.client = 0
  BY IdleLocal
<1> HIDE DEF i
<1>2. a \in Local /\ a.pc = pc /\ a.sid = NoSid /\ a.ev = NoEvent
  BY <1>1 DEF Local
<1>3. b \in Local /\ b.pc = pc /\ b.sid = NoSid /\ b.ev = NoEvent
  BY <1>1 DEF Local
<1>4. d \in Local /\ d.pc = pc /\ d.sid = s /\ d.ev = NoEvent
  BY <1>1 DEF Local
<1>5. f \in Local /\ f.pc = pc /\ f.sid = s /\ f.ev = e
  BY <1>1 DEF Local
<1> HIDE DEF a, b, d, f
<1>6. /\ thr' = [thr EXCEPT ![t] = a] => Moved(t, pc, NoSid, NoEvent)
      /\ thr' = [thr EXCEPT ![t] = b] => Moved(t, pc, NoSid, NoEvent)
      /\ thr' = [thr EXCEPT ![t] = d] => Moved(t, pc, s, NoEvent)
      /\ thr' = [thr EXCEPT ![t] = f] => Moved(t, pc, s, e)
  BY <1>2, <1>3, <1>4, <1>5, Moves
<1> QED
  BY <1>6 DEF a, b, d, f, i

(* A call returns. *)
LEMMA Returns ==
    ASSUME TypeOK, NEW t \in Threads, Return(t)
    PROVE  Moved(t, "idle", NoSid, NoEvent)
  BY IdleLocal, Moves DEF Return

(* A thread goes on. *)
LEMMA Goes ==
    ASSUME TypeOK, NEW t \in Threads, NEW pc \in Pcs, Go(t, pc)
    PROVE  Moved(t, pc, thr[t].sid, thr[t].ev)
<1>1. thr \in [Threads -> Local]
  BY DEF TypeOK, Local, Pcs
<1> QED
  BY <1>1 DEF Moved, Go, Local

(* RemoveTimerEvent frees the subscription's event if it is still armed. *)
LEMMA CancelledFrees ==
    ASSUME TypeOK, EventsInv, NEW s \in Sids
    PROVE  \E E \in SUBSET {e \in Events : event[e].state = "armed" /\ event[e].sid = s} :
              Frees(Cancelled(s), E)
<1>0. event \in Table /\ RenewEventId[s] \in Events \cup {NoEvent} /\ nev \in Nat
  BY ClientAssumption DEF TypeOK, Table, States
<1>1. CASE RenewEventId[s] \in InState("armed")
  <2>1. RenewEventId[s] \in Events /\ event[RenewEventId[s]].state = "armed"
        /\ event[RenewEventId[s]].sid = s
    BY <1>0, <1>1, ClientAssumption DEF InState, EventsInv, Events, NoEvent
  <2>2. Frees(Cancelled(s), {RenewEventId[s]})
    BY <1>0, <1>1, <2>1 DEF Frees, Cancelled, Table, States
  <2> QED
    BY <2>1, <2>2
<1>2. CASE RenewEventId[s] \notin InState("armed")
  <2>1. Frees(Cancelled(s), {})
    BY <1>0, <1>2 DEF Frees, Cancelled
  <2> QED
    BY <2>1
<1> QED
  BY <1>1, <1>2

(* free_upnp_timeout of the event a thread was called with. *)
LEMMA FreeFrees ==
    ASSUME TypeOK, NEW e \in Events \cup {NoEvent}
    PROVE  Frees(Free(e, event), {e} \cap Events)
<1>0. event \in Table
  BY DEF TypeOK, Table, States
<1>1. CASE e = NoEvent
  BY <1>0, <1>1, ClientAssumption DEF Frees, Free, Events, NoEvent
<1>2. CASE e # NoEvent
  BY <1>0, <1>2 DEF Frees, Free, Table, States
<1> QED
  BY <1>1, <1>2

(* An event is freed by its thread, or cancelled while it is armed; a new one
   may be armed for s, of number nev'. *)
LEMMA Scheduled ==
    ASSUME TypeOK, NEW s \in Sids, NEW table, NEW E, Frees(table, E),
           ScheduleGenaAutoRenew(s, table)
    PROVE  /\ finite' \in [Sids -> BOOLEAN]
           /\ \A u \in Sids \ {s} : finite'[u] = finite[u]
           /\ \A u \in Sids \ {s} : RenewEventId'[u] = RenewEventId[u]
           /\ event' \in Table
           /\ RenewEventId' \in [Sids -> Events \cup {NoEvent}]
           /\ nev' \in 0 .. MaxEvents
           /\ \/ /\ ~finite'[s]
                 /\ Frees(event', E)
                 /\ nev' = nev /\ RenewEventId' = RenewEventId
              \/ /\ nev' = nev + 1 /\ nev' \in Events
                 /\ event'[nev'].sid = s /\ event'[nev'].state = "armed"
                 /\ RenewEventId'[s] = nev'
                 /\ \A e \in Events \ {nev'} :
                       /\ event'[e].sid = event[e].sid
                       /\ event'[e].state = IF e \in E THEN "freed" ELSE event[e].state
<1>0. /\ finite \in [Sids -> BOOLEAN] /\ RenewEventId \in [Sids -> Events \cup {NoEvent}]
      /\ nev \in 0 .. MaxEvents /\ MaxEvents \in Nat /\ table \in Table
  BY ClientAssumption DEF TypeOK, Frees
<1>1. CASE /\ finite' = [finite EXCEPT ![s] = FALSE]
           /\ event' = table
           /\ UNCHANGED <<nev, RenewEventId>>
  BY <1>0, <1>1
<1>2. CASE /\ nev < MaxEvents
           /\ nev' = nev + 1
           /\ event' = [table EXCEPT ![nev'] = [sid |-> s, state |-> "armed"]]
           /\ RenewEventId' = [RenewEventId EXCEPT ![s] = nev']
           /\ finite' = [finite EXCEPT ![s] = TRUE]
  <2>1. nev' \in Events /\ nev' \in 0 .. MaxEvents
    BY <1>0, <1>2 DEF Events
  <2>2. [sid |-> s, state |-> "armed"] \in [sid : Sids \cup {NoSid}, state : States]
    BY DEF States
  <2>3. /\ event' \in Table
        /\ event'[nev'] = [sid |-> s, state |-> "armed"]
        /\ \A e \in Events \ {nev'} : event'[e] = table[e]
    BY <1>0, <1>2, <2>1, <2>2 DEF Table
  <2> QED
    BY <1>0, <1>2, <2>1, <2>3 DEF Frees
<1> QED
  BY <1>1, <1>2 DEF ScheduleGenaAutoRenew

(* A thread goes on, for subscription s ... *)
LEMMA GoesFor ==
    ASSUME TypeOK, NEW t \in Threads, NEW pc \in Pcs, NEW s \in Sids
    PROVE  thr' = [thr EXCEPT ![t].pc = pc, ![t].sid = s] => Moved(t, pc, s, thr[t].ev)
<1>1. thr \in [Threads -> Local]
  BY DEF TypeOK, Local, Pcs
<1>2. ASSUME NEW r \in Local
      PROVE  /\ [r EXCEPT !.pc = pc, !.sid = s] \in Local
             /\ [r EXCEPT !.pc = pc, !.sid = s].pc = pc
             /\ [r EXCEPT !.pc = pc, !.sid = s].sid = s
             /\ [r EXCEPT !.pc = pc, !.sid = s].ev = r.ev
  BY DEF Local
<1>3. ASSUME thr' = [thr EXCEPT ![t].pc = pc, ![t].sid = s]
      PROVE  Moved(t, pc, s, thr[t].ev)
  <2>1. thr' = [thr EXCEPT ![t] = [thr[t] EXCEPT !.pc = pc, !.sid = s]]
    BY <1>1, <1>3
  <2> QED
    BY <1>1, <1>2, <2>1 DEF Moved
<1> QED
  BY <1>3

(* ... or for the present client. *)
LEMMA GoesWith ==
    ASSUME TypeOK, NEW t \in Threads, NEW pc \in Pcs, NEW c \in 0 .. MaxClients
    PROVE  thr' = [thr EXCEPT ![t].pc = pc, ![t].client = c] => Moved(t, pc, thr[t].sid, thr[t].ev)
<1>1. thr \in [Threads -> Local]
  BY DEF TypeOK, Local, Pcs
<1>2. ASSUME NEW r \in Local
      PROVE  /\ [r EXCEPT !.pc = pc, !.client = c] \in Local
             /\ [r EXCEPT !.pc = pc, !.client = c].pc = pc
             /\ [r EXCEPT !.pc = pc, !.client = c].sid = r.sid
             /\ [r EXCEPT !.pc = pc, !.client = c].ev = r.ev
  BY DEF Local
<1>3. ASSUME thr' = [thr EXCEPT ![t].pc = pc, ![t].client = c]
      PROVE  Moved(t, pc, thr[t].sid, thr[t].ev)
  <2>1. thr' = [thr EXCEPT ![t] = [thr[t] EXCEPT !.pc = pc, !.client = c]]
    BY <1>1, <1>3
  <2> QED
    BY <1>1, <1>2, <2>1 DEF Moved
<1> QED
  BY <1>3

(* A renewal that fails. *)
LEMMA Fails ==
    ASSUME TypeOK, NEW t \in Threads, NEW s \in Sids \cup {NoSid},
           NEW e \in Events \cup {NoEvent}, RenewFails(t, s, e)
    PROVE  /\ excused' = excused \cup {s}
           /\ \/ e = NoEvent /\ Moved(t, "idle", NoSid, NoEvent)
              \/ e # NoEvent /\ Moved(t, "failed", s, e)
<1>1. "failed" \in Pcs /\ 0 \in 0 .. MaxClients
  BY ClientAssumption DEF Pcs
<1>2. CASE e = NoEvent
  BY <1>2, Returns DEF RenewFails
<1>3. ASSUME e # NoEvent PROVE Moved(t, "failed", s, e)
  <2>1. thr' = [thr EXCEPT ![t] = [Idle EXCEPT !.pc = "failed", !.sid = s, !.ev = e]]
    BY <1>3 DEF RenewFails
  <2> QED
    BY <1>1, <2>1, Begins, Zenon
<1> QED
  BY <1>2, <1>3 DEF RenewFails

(* A subscription is removed; its event, if it is still armed, is freed. *)
LEMMA Removes ==
    ASSUME TypeOK, EventsInv, NEW s \in Sids, RemoveClientSubClientSID(s)
    PROVE  /\ list' = list \ {s} /\ nev' = nev /\ finite' = finite
           /\ RenewEventId' \in [Sids -> Events \cup {NoEvent}]
           /\ \A u \in Sids : RenewEventId'[u] \in {RenewEventId[u], NoEvent}
           /\ \E E \in SUBSET {e \in Events : event[e].state = "armed" /\ event[e].sid = s} :
                 Frees(event', E)
<1>1. CASE s \in list
  BY <1>1, CancelledFrees DEF RemoveClientSubClientSID, TypeOK
<1>2. CASE s \notin list
  <2>1. Frees(event', {})
    BY <1>2 DEF RemoveClientSubClientSID, TypeOK, Frees, Table, States
  <2> QED
    BY <1>2, <2>1 DEF RemoveClientSubClientSID, TypeOK
<1> QED
  BY <1>1, <1>2

-----------------------------------------------------------------------------
(* The steps, seen from the renewal events. *)

(* The thread that moves, if any, has to do with no event. *)
Aloof ==
    \/ thr' = thr
    \/ \E t \in Threads, pc \in Pcs, s \in Sids \cup {NoSid} :
          /\ thr[t].ev = NoEvent /\ thr[t].pc # "renewing"
          /\ Moved(t, pc, s, NoEvent)

(* No event is touched, and no subscription is listed, unless freed memory is
   left reachable. *)
Untouched ==
    /\ Aloof
    /\ event' = event /\ nev' = nev /\ RenewEventId' = RenewEventId /\ excused' = excused
    /\ finite' = finite
    /\ corrupt => corrupt'
    /\ corrupt' \/ list' \subseteq list

(* Thread t settles what it does for subscription s: events of s are freed
   that are armed, or that t has, or that nobody has.  The subscription is
   gone then, or its application is told, or t renews it. *)
Settles(t, s) ==
    \E E \in SUBSET Events, pc \in Pcs, r \in Sids \cup {NoSid}, e \in Events \cup {NoEvent} :
        /\ Frees(event', E)
        /\ \A d \in E : /\ event[d].sid = s
                        /\ event[d].state \in {"armed", "job"}
                        /\ \A u \in Threads \ {t} : thr[u].ev # d
        /\ nev' = nev
        /\ RenewEventId' \in [Sids -> Events \cup {NoEvent}]
        /\ \A u \in Sids : RenewEventId'[u] \in {RenewEventId[u], NoEvent}
        /\ excused \subseteq excused'
        /\ finite' = finite /\ corrupt' = corrupt /\ list' \subseteq list
        /\ thr[t].pc = "renewing" => thr[t].sid = s
        /\ Moved(t, pc, r, e)
        /\ e # NoEvent => /\ r = s /\ pc \in {"renewing", "failed", "callback"}
                          /\ e \notin E /\ event[e].sid = s /\ event[e].state = "job"
                          /\ \A u \in Threads \ {t} : thr[u].ev # e
        /\ pc \in {"failed", "callback"} => s \in excused'
        /\ s \notin list' \/ s \in excused' \/ (pc = "renewing" /\ r = s /\ ~corrupt)

(* Thread t has s scheduled, and frees the event it did that for. *)
Schedules(t, s) ==
    \E E \in SUBSET Events, table \in Table :
        /\ Frees(table, E)
        /\ E = {thr[t].ev} \cap Events
        /\ ScheduleGenaAutoRenew(s, table)
        /\ thr[t].pc \in {"subscribing", "renewing"} /\ thr[t].sid = s
        /\ Moved(t, "idle", NoSid, NoEvent)
        /\ list' = list \cup {s} /\ excused' = excused /\ corrupt' = corrupt

(* The answer to SUBSCRIBE. *)
LEMMA SubscribeShape ==
    ASSUME ClientInv, NEW t \in Threads, SubscribeEnd(t)
    PROVE  Untouched \/ \E s \in Sids : Schedules(t, s)
<1> DEFINE s == thr[t].sid
<1>0. TypeOK /\ SubscriberInv /\ EventsInv
  BY DEF ClientInv
<1>1. /\ thr[t].pc = "subscribing" /\ thr[t].ev = NoEvent /\ s \in Sids
      /\ Moved(t, "idle", NoSid, NoEvent)
      /\ excused' = excused
  BY <1>0, Returns DEF SubscribeEnd, At, SubscriberInv, EventsInv, Subscribing, ghostVars
<1>2. Aloof
  <2>1. thr[t].pc # "renewing" /\ "idle" \in Pcs /\ NoSid \in Sids \cup {NoSid}
    BY <1>1 DEF Pcs
  <2> QED
    BY <1>1, <2>1 DEF Aloof
<1>3. CASE UNCHANGED <<subVars, eventVars, corrupt>>
  BY <1>1, <1>2, <1>3 DEF Untouched, subVars, eventVars
<1>4. CASE /\ list' = list \cup {s}
           /\ ScheduleGenaAutoRenew(s, event)
           /\ UNCHANGED corrupt
  <2>1. Frees(event, {}) /\ {} = {thr[t].ev} \cap Events
    BY <1>0, <1>1, ClientAssumption DEF TypeOK, Frees, Table, States, NoEvent, Events
  <2>2. PICK S \in Sids : S = s
    BY <1>1
  <2>3. event \in Table /\ {} \in SUBSET Events
    BY <2>1 DEF Frees
  <2>4. Schedules(t, S)
    BY <1>1, <1>4, <2>1, <2>2, <2>3 DEF Schedules
  <2> QED
    BY <2>4
<1>5. CASE /\ list' = list \cup {s}
           /\ corrupt' = TRUE
           /\ UNCHANGED <<eventVars, RenewEventId, finite>>
  BY <1>1, <1>2, <1>5 DEF Untouched, eventVars
<1> QED
  BY <1>3, <1>4, <1>5 DEF SubscribeEnd

(* The first critical section of a renewal. *)
LEMMA BeginShape ==
    ASSUME ClientInv, NEW t \in Threads, NEW s \in Sids, NEW e \in Events \cup {NoEvent},
           At(t, "idle"), RenewBegin(t, s, e),
           e # NoEvent => /\ event[e].sid = s /\ event[e].state = "job"
                          /\ \A u \in Threads : thr[u].ev # e
    PROVE  Settles(t, s)
<1>0. TypeOK /\ EventsInv /\ RefusedInv
  BY DEF ClientInv
<1>1. /\ UNCHANGED <<list, finite, nev, corrupt>> /\ ~corrupt
      /\ thr[t].pc = "idle" /\ thr[t].ev = NoEvent
      /\ RenewEventId \in [Sids -> Events \cup {NoEvent}]
  BY <1>0 DEF RenewBegin, At, EventsInv, TypeOK
<1>2. CASE /\ ~registered \/ s \notin list
           /\ RenewReturns(t, e, event)
           /\ UNCHANGED <<RenewEventId, excused>>
  <2>1. Moved(t, "idle", NoSid, NoEvent) /\ Frees(event', {e} \cap Events) /\ s \notin list
    BY <1>0, <1>2, Returns, FreeFrees DEF RenewReturns, RefusedInv
  <2>2. \A d \in {e} \cap Events : d = e /\ e # NoEvent
    BY ClientAssumption DEF Events, NoEvent
  <2>3. "idle" \in Pcs /\ {e} \cap Events \in SUBSET Events
    BY DEF Pcs
  <2> QED
    BY <1>1, <1>2, <2>1, <2>2, <2>3 DEF Settles
<1>3. CASE /\ registered /\ s \in list
           /\ RenewEventId' = [RenewEventId EXCEPT ![s] = NoEvent]
           /\ event' = Cancelled(s)
           /\ \/ /\ thr' = [thr EXCEPT ![t] = [Idle EXCEPT !.pc = "renewing", !.sid = s,
                                                           !.ev = e]]
                 /\ UNCHANGED excused
              \/ "copy" \in Faults /\ RenewFails(t, s, e)
  <2>1. PICK E \in SUBSET {d \in Events : event[d].state = "armed" /\ event[d].sid = s} :
           Frees(event', E)
    BY <1>0, <1>3, CancelledFrees
  <2>2. \A d \in E : /\ d # e /\ event[d].sid = s /\ event[d].state = "armed"
                     /\ \A u \in Threads \ {t} : thr[u].ev # d
    BY <1>0, <2>1 DEF ClientInv, EventInUse, Events, NoEvent
  <2>3. /\ RenewEventId' \in [Sids -> Events \cup {NoEvent}]
        /\ \A u \in Sids : RenewEventId'[u] \in {RenewEventId[u], NoEvent}
    BY <1>0, <1>3 DEF TypeOK
  <2>4. \/ Moved(t, "renewing", s, e) /\ excused' = excused
        \/ Moved(t, "failed", s, e) /\ excused' = excused \cup {s}
        \/ e = NoEvent /\ Moved(t, "idle", NoSid, NoEvent) /\ excused' = excused \cup {s}
    <3>1. "renewing" \in Pcs /\ 0 \in 0 .. MaxClients
      BY ClientAssumption DEF Pcs
    <3>2. CASE /\ thr' = [thr EXCEPT ![t] = [Idle EXCEPT !.pc = "renewing", !.sid = s,
                                                       !.ev = e]]
               /\ UNCHANGED excused
      BY <1>0, <3>1, <3>2, Begins
    <3>3. CASE RenewFails(t, s, e)
      BY <1>0, <3>3, Fails
    <3> QED
      BY <1>3, <3>2, <3>3
  <2>5. "renewing" \in Pcs /\ "failed" \in Pcs /\ "idle" \in Pcs
    BY DEF Pcs
  <2>6. CASE Moved(t, "renewing", s, e) /\ excused' = excused
    BY <1>1, <2>1, <2>2, <2>3, <2>5, <2>6 DEF Settles
  <2>7. CASE Moved(t, "failed", s, e) /\ excused' = excused \cup {s}
    BY <1>1, <2>1, <2>2, <2>3, <2>5, <2>7 DEF Settles
  <2>8. CASE e = NoEvent /\ Moved(t, "idle", NoSid, NoEvent) /\ excused' = excused \cup {s}
    BY <1>1, <2>1, <2>2, <2>3, <2>5, <2>8 DEF Settles
  <2> QED
    BY <2>4, <2>6, <2>7, <2>8
<1> QED
  BY <1>2, <1>3 DEF RenewBegin

(* A thread without an event moves. *)
LEMMA MovesAloof ==
    ASSUME ClientInv, NEW t \in Threads, NEW pc, NEW s, Moved(t, pc, s, NoEvent),
           thr[t].ev = NoEvent, thr[t].pc # "renewing"
    PROVE  Aloof
<1>1. thr'[t] \in Local
  BY DEF Moved
<1>2. pc \in Pcs /\ s \in Sids \cup {NoSid}
  BY <1>1 DEF Moved, Local
<1> QED
  BY <1>2 DEF Aloof

(* The publisher accepts a renewal ... *)
LEMMA AcceptedShape ==
    ASSUME ClientInv, NEW t \in Threads, RenewAccepted(t)
    PROVE  \E s \in Sids : Schedules(t, s)
<1> DEFINE e == thr[t].ev
<1>0. TypeOK /\ EventsInv
  BY DEF ClientInv
<1>1. e \in Events \cup {NoEvent}
  BY <1>0 DEF TypeOK
<1>2. PICK s \in Sids : s = thr[t].sid
  BY <1>0 DEF RenewAccepted, TypeOK
<1>3. /\ thr[t].pc = "renewing"
      /\ ScheduleGenaAutoRenew(s, Free(e, event))
      /\ list' = list \cup {s} /\ excused' = excused /\ corrupt' = corrupt
      /\ Return(t)
  BY <1>2 DEF RenewAccepted, At, ghostVars
<1>4. Moved(t, "idle", NoSid, NoEvent)
  BY <1>0, <1>3, Returns
<1>5. Frees(Free(e, event), {e} \cap Events)
  BY <1>0, <1>1, FreeFrees
<1>6. Free(e, event) \in Table
  BY <1>5 DEF Frees
<1> QED
  BY <1>2, <1>3, <1>4, <1>5, <1>6 DEF Schedules

(* ... or refuses it, ... *)
LEMMA RejectedShape ==
    ASSUME ClientInv, NEW t \in Threads, RenewRejected(t)
    PROVE  \E s \in Sids : Settles(t, s)
<1>0. TypeOK /\ EventsInv /\ EventInUse
  BY DEF ClientInv
<1>1. PICK e \in Events \cup {NoEvent} : e = thr[t].ev
  BY <1>0 DEF TypeOK
<1>2. PICK s \in Sids : s = thr[t].sid
  BY <1>0 DEF RenewRejected, TypeOK
<1>3. RemoveClientSubClientSID(s) /\ RenewFails(t, s, e) /\ corrupt' = corrupt
      /\ thr[t].pc = "renewing"
  BY <1>1, <1>2 DEF RenewRejected, At
<1>4. PICK E \in SUBSET {d \in Events : event[d].state = "armed" /\ event[d].sid = s} :
         Frees(event', E)
  BY <1>0, <1>3, Removes
<1>5. e # NoEvent => /\ event[e].sid = s /\ event[e].state = "job"
                     /\ \A u \in Threads \ {t} : thr[u].ev # e
  BY <1>0, <1>1, <1>2 DEF EventsInv, EventInUse
<1>6. \A d \in E : /\ d # e /\ event[d].sid = s /\ event[d].state = "armed"
                   /\ \A u \in Threads \ {t} : thr[u].ev # d
  BY <1>0, <1>4, <1>5 DEF EventInUse, Events, NoEvent
<1>7. /\ list' = list \ {s} /\ nev' = nev /\ finite' = finite
      /\ RenewEventId' \in [Sids -> Events \cup {NoEvent}]
      /\ \A u \in Sids : RenewEventId'[u] \in {RenewEventId[u], NoEvent}
  BY <1>0, <1>3, Removes
<1>8. /\ excused' = excused \cup {s}
      /\ \/ e = NoEvent /\ Moved(t, "idle", NoSid, NoEvent)
         \/ e # NoEvent /\ Moved(t, "failed", s, e)
  BY <1>0, <1>3, Fails
<1>9. "failed" \in Pcs /\ "idle" \in Pcs
  BY DEF Pcs
<1>10. CASE e = NoEvent
  <2>1. Settles(t, s)
    BY <1>2, <1>3, <1>4, <1>6, <1>7, <1>8, <1>9, <1>10 DEF Settles
  <2> QED
    BY <2>1
<1>11. CASE e # NoEvent
  <2>1. Settles(t, s)
    BY <1>2, <1>3, <1>4, <1>5, <1>6, <1>7, <1>8, <1>9, <1>11 DEF Settles
  <2> QED
    BY <2>1
<1> QED
  BY <1>10, <1>11

(* ... or the subscription is gone. *)
LEMMA PointlessShape ==
    ASSUME ClientInv, NEW t \in Threads, RenewPointless(t)
    PROVE  \E s \in Sids : Settles(t, s)
<1>0. TypeOK /\ EventsInv /\ EventInUse /\ OwnerInv /\ RefusedInv
  BY DEF ClientInv
<1>1. PICK e \in Events \cup {NoEvent} : e = thr[t].ev
  BY <1>0 DEF TypeOK
<1>2. PICK s \in Sids : s = thr[t].sid
  BY <1>0 DEF RenewPointless, At, OwnerInv
<1>3. /\ thr[t].pc = "renewing" /\ s \notin list
      /\ UNCHANGED <<list, RenewEventId, finite, nev, corrupt>>
      /\ RenewEventId \in [Sids -> Events \cup {NoEvent}]
  BY <1>0, <1>2 DEF RenewPointless, At, subVars, RefusedInv, TypeOK
<1>4. e # NoEvent => /\ event[e].sid = s /\ event[e].state = "job"
                     /\ \A u \in Threads \ {t} : thr[u].ev # e
  BY <1>0, <1>1, <1>2 DEF EventsInv, EventInUse
<1>5. "failed" \in Pcs /\ "idle" \in Pcs /\ {e} \cap Events \in SUBSET Events
  BY DEF Pcs
<1>6. \A d \in {e} \cap Events : d = e /\ e # NoEvent
  BY ClientAssumption DEF Events, NoEvent
<1>7. CASE RenewReturns(t, e, event) /\ UNCHANGED excused
  <2>1. Moved(t, "idle", NoSid, NoEvent) /\ Frees(event', {e} \cap Events)
    BY <1>0, <1>7, Returns, FreeFrees DEF RenewReturns
  <2>2. Settles(t, s)
    BY <1>2, <1>3, <1>4, <1>5, <1>6, <1>7, <2>1 DEF Settles
  <2> QED
    BY <2>2
<1>8. CASE RenewFails(t, s, e) /\ UNCHANGED event
  <2>1. Frees(event', {})
    BY <1>0, <1>8 DEF Frees, TypeOK, Table, States
  <2>2. /\ excused' = excused \cup {s}
        /\ \/ e = NoEvent /\ Moved(t, "idle", NoSid, NoEvent)
           \/ e # NoEvent /\ Moved(t, "failed", s, e)
    BY <1>0, <1>8, Fails
  <2>3. CASE e = NoEvent
    <3>1. Settles(t, s)
      BY <1>2, <1>3, <1>5, <2>1, <2>2, <2>3 DEF Settles
    <3> QED
      BY <3>1
  <2>4. CASE e # NoEvent
    <3>1. Settles(t, s)
      BY <1>2, <1>3, <1>4, <1>5, <2>1, <2>2, <2>4 DEF Settles
    <3> QED
      BY <3>1
  <2> QED
    BY <2>3, <2>4
<1> QED
  BY <1>1, <1>2, <1>7, <1>8 DEF RenewPointless

(* The callback of a failed renewal is fetched, and made. *)
LEMMA CallbackMoves ==
    ASSUME TypeOK, NEW t \in Threads, AutoRenewFailed(t) \/ Callback(t)
    PROVE  \/ event' = Free(thr[t].ev, event) /\ Moved(t, "idle", NoSid, NoEvent)
           \/ event' = event /\ Moved(t, "callback", thr[t].sid, thr[t].ev)
<1>1. CASE AutoRenewFailed(t) /\ registered
  <2>1. /\ thr' = [thr EXCEPT ![t].pc = "callback", ![t].client = client]
        /\ event' = event
    BY <1>1 DEF AutoRenewFailed
  <2>2. PICK c \in 0 .. MaxClients : c = client
    BY ClientAssumption DEF TypeOK
  <2>3. "callback" \in Pcs
    BY DEF Pcs
  <2>4. Moved(t, "callback", thr[t].sid, thr[t].ev)
    <3>1. thr' = [thr EXCEPT ![t].pc = "callback", ![t].client = c]
      BY <2>1, <2>2, Zenon
    <3> QED
      BY <2>3, <3>1, GoesWith, Zenon
  <2> QED
    BY <2>1, <2>4
<1>2. CASE AutoRenewFailed(t) /\ ~registered
  BY <1>2, Returns DEF AutoRenewFailed
<1>3. CASE Callback(t)
  BY <1>3, Returns DEF Callback
<1> QED
  BY <1>1, <1>2, <1>3

(* The application is told of a failed renewal, or of an event. *)
LEMMA CallbackShape ==
    ASSUME ClientInv, NEW t \in Threads, AutoRenewFailed(t) \/ Callback(t)
    PROVE  Untouched \/ \E s \in Sids : Settles(t, s)
<1>0. TypeOK /\ EventsInv /\ EventInUse /\ RefusedInv
  BY DEF ClientInv
<1>1. PICK e \in Events \cup {NoEvent} : e = thr[t].ev
  BY <1>0 DEF TypeOK
<1>2. /\ thr[t].pc \in {"failed", "callback"}
      /\ UNCHANGED <<list, RenewEventId, finite, nev, corrupt, excused>>
      /\ RenewEventId \in [Sids -> Events \cup {NoEvent}]
  BY <1>0 DEF AutoRenewFailed, Callback, At, subVars, ghostVars, TypeOK
<1>3. \/ event' = Free(e, event) /\ Moved(t, "idle", NoSid, NoEvent)
      \/ event' = event /\ Moved(t, "callback", thr[t].sid, e)
  BY <1>0, <1>1, CallbackMoves
<1>4. CASE e = NoEvent
  <2>1. event' = event
    BY <1>3, <1>4 DEF Free
  <2>2. Aloof
    BY <1>1, <1>2, <1>3, <1>4, MovesAloof
  <2> QED
    BY <1>2, <2>1, <2>2 DEF Untouched
<1>5. CASE e # NoEvent
  <2>1. PICK s \in Sids : s = thr[t].sid
    BY <1>0, <1>1, <1>5 DEF EventsInv, EventInUse
  <2>2. s \in excused /\ event[e].sid = s /\ event[e].state = "job"
        /\ \A u \in Threads \ {t} : thr[u].ev # e
    BY <1>0, <1>1, <1>2, <1>5, <2>1 DEF EventsInv, EventInUse
  <2>3. "callback" \in Pcs /\ "idle" \in Pcs /\ {e} \cap Events \in SUBSET Events
        /\ {e} \cap Events = {e}
    BY <1>5 DEF Pcs
  <2>4. CASE event' = Free(e, event) /\ Moved(t, "idle", NoSid, NoEvent)
    <3>1. Frees(event', {e} \cap Events)
      BY <1>0, <2>4, FreeFrees
    <3>2. Settles(t, s)
      BY <1>2, <2>1, <2>2, <2>3, <2>4, <3>1 DEF Settles
    <3> QED
      BY <3>2
  <2>5. CASE event' = event /\ Moved(t, "callback", thr[t].sid, e)
    <3>1. Frees(event', {})
      BY <1>0, <2>5 DEF Frees, TypeOK, Table, States
    <3>2. Settles(t, s)
      BY <1>2, <1>5, <2>1, <2>2, <2>3, <2>5, <3>1 DEF Settles
    <3> QED
      BY <3>2
  <2> QED
    BY <1>3, <2>4, <2>5
<1> QED
  BY <1>4, <1>5

(* A thread removes a subscription from the list. *)
LEMMA RemovalShape ==
    ASSUME ClientInv, NEW t \in Threads, NEW s \in Sids, RemoveClientSubClientSID(s),
           thr[t].ev = NoEvent, thr[t].pc # "renewing", corrupt' = corrupt, excused' = excused,
           NEW pc, NEW r, Moved(t, pc, r, NoEvent), pc \notin {"failed", "callback"}
    PROVE  Settles(t, s)
<1>0. TypeOK /\ EventsInv /\ EventInUse
  BY DEF ClientInv
<1>1. PICK E \in SUBSET {d \in Events : event[d].state = "armed" /\ event[d].sid = s} :
         Frees(event', E)
  BY <1>0, Removes
<1>2. \A d \in E : \A u \in Threads \ {t} : thr[u].ev # d
  BY <1>0, <1>1 DEF EventInUse, Events, NoEvent
<1>3. /\ list' = list \ {s} /\ nev' = nev /\ finite' = finite
      /\ RenewEventId' \in [Sids -> Events \cup {NoEvent}]
      /\ \A u \in Sids : RenewEventId'[u] \in {RenewEventId[u], NoEvent}
  BY <1>0, Removes
<1>4. thr'[t] \in Local
  BY DEF Moved
<1>5. pc \in Pcs /\ r \in Sids \cup {NoSid}
  BY <1>4 DEF Moved, Local
<1> QED
  BY <1>1, <1>2, <1>3, <1>5 DEF Settles

(* genaUnSubscribe. *)
LEMMA UnSubscribeShape ==
    ASSUME ClientInv, NEW t \in Threads, NEW s \in Sids, genaUnSubscribe(t, s)
    PROVE  Settles(t, s)
<1>0. TypeOK /\ EventsInv
  BY DEF ClientInv
<1>1. /\ thr[t].pc = "idle" /\ thr[t].ev = NoEvent
      /\ corrupt' = corrupt /\ excused' = excused /\ RemoveClientSubClientSID(s)
  BY <1>0 DEF genaUnSubscribe, At, EventsInv, ghostVars
<1>2. CASE thr' = [thr EXCEPT ![t] = [Idle EXCEPT !.pc = "unsubscribing", !.sid = s]]
  <2>1. "unsubscribing" \in Pcs /\ 0 \in 0 .. MaxClients
    BY ClientAssumption DEF Pcs
  <2>2. Moved(t, "unsubscribing", s, NoEvent)
    BY <1>0, <1>2, <2>1, Begins, Zenon
  <2> QED
    BY <1>1, <2>2, RemovalShape
<1>3. CASE thr' = thr
  <2>1. PICK r : r = thr[t].sid
    OBVIOUS
  <2>2. Moved(t, "idle", r, NoEvent)
    BY <1>0, <1>1, <1>3, <2>1 DEF Moved, TypeOK, Local, Pcs
  <2> QED
    BY <1>1, <2>2, RemovalShape
<1> QED
  BY <1>2, <1>3 DEF genaUnSubscribe

(* One round of the loop of genaUnregisterClient. *)
LEMMA UnregisterShape ==
    ASSUME ClientInv, NEW t \in Threads, UnregisterNext(t)
    PROVE  Untouched \/ \E s \in Sids : Settles(t, s)
<1>0. TypeOK /\ EventsInv
  BY DEF ClientInv
<1>1. /\ thr[t].pc = "unregister" /\ thr[t].ev = NoEvent /\ excused' = excused
  BY <1>0 DEF UnregisterNext, At, EventsInv, ghostVars
<1>2. Return(t) => Moved(t, "idle", NoSid, NoEvent)
  BY <1>0, Returns
<1>3. ASSUME Return(t) \/ Go(t, "freehandle"), UNCHANGED <<subVars, eventVars>>, corrupt => corrupt'
      PROVE  Untouched
  <2>1. Go(t, "freehandle") => Moved(t, "freehandle", thr[t].sid, NoEvent)
    BY <1>0, <1>1, Goes DEF Pcs
  <2>2. PICK r : r = thr[t].sid
    OBVIOUS
  <2>3. Aloof
    BY <1>1, <1>2, <1>3, <2>1, <2>2, MovesAloof
  <2> QED
    BY <1>1, <1>3, <2>3 DEF Untouched, subVars, eventVars
<1>4. ASSUME NEW s \in list, RemoveClientSubClientSID(s), corrupt' = corrupt,
             \/ thr' = [thr EXCEPT ![t].pc = "removing", ![t].sid = s]
             \/ Return(t)
      PROVE  Settles(t, s)
  <2>1. "removing" \in Pcs /\ s \in Sids /\ 0 \in 0 .. MaxClients
    BY <1>0, <1>4, ClientAssumption DEF Pcs, TypeOK
  <2>2. CASE thr' = [thr EXCEPT ![t].pc = "removing", ![t].sid = s]
    <3>1. Moved(t, "removing", s, NoEvent)
      BY <1>0, <1>1, <2>1, <2>2, GoesFor
    <3> QED
      BY <1>1, <1>4, <2>1, <3>1, RemovalShape
  <2>3. CASE Return(t)
    BY <1>1, <1>2, <1>4, <2>1, <2>3, RemovalShape
  <2> QED
    BY <1>4, <2>2, <2>3
<1>5. list \subseteq Sids
  BY <1>0 DEF TypeOK
<1> QED
  BY <1>3, <1>4, <1>5 DEF UnregisterNext

(* The other steps of a thread. *)
LEMMA QuietShape ==
    ASSUME ClientInv, NEW t \in Threads,
           \/ \E s \in Sids : genaSubscribe(t, s)
           \/ \E s \in Sids, eventKey \in EventKeys : genaNotifyReceived(t, s, eventKey)
           \/ SubscribeSend(t) \/ UnsubscribeEnd(t) \/ UpnpUnRegisterClient(t)
           \/ FreeHandle(t) \/ NotifyAgain(t) \/ PublisherGrants(t)
    PROVE  Untouched
<1>0. TypeOK /\ EventsInv
  BY DEF ClientInv
<1> USE <1>0
<1>1. /\ event' = event /\ nev' = nev /\ RenewEventId' = RenewEventId /\ excused' = excused
      /\ finite' = finite /\ corrupt' = corrupt /\ list' \subseteq list
  BY DEF genaSubscribe, genaNotifyReceived, SubscribeSend, UnsubscribeEnd, FreeHandle,
         UpnpUnRegisterClient, NotifyAgain, PublisherGrants, subVars, eventVars, ghostVars
<1>2. thr[t].ev = NoEvent /\ thr[t].pc # "renewing"
  BY DEF genaSubscribe, genaNotifyReceived, SubscribeSend, UnsubscribeEnd, FreeHandle,
         UpnpUnRegisterClient, NotifyAgain, PublisherGrants, At, EventsInv
<1>3. 0 \in 0 .. MaxClients /\ client \in 0 .. MaxClients
  BY ClientAssumption DEF TypeOK
<1>4. ASSUME NEW s \in Sids, Accept(t, s) PROVE Aloof
  <2>1. thr' = [thr EXCEPT ![t] = [Idle EXCEPT !.pc = "callback", !.client = client]]
    BY <1>4 DEF Accept
  <2>2. PICK c \in 0 .. MaxClients : c = client
    BY <1>3
  <2>3. thr' = [thr EXCEPT ![t] = [Idle EXCEPT !.pc = "callback", !.client = c]]
    BY <2>1, <2>2, Zenon
  <2>4. "callback" \in Pcs
    BY DEF Pcs
  <2>5. Moved(t, "callback", NoSid, NoEvent)
    BY <2>3, <2>4, Begins, Zenon
  <2> QED
    BY <1>2, <2>5, MovesAloof
<1>5. ASSUME NEW s \in Sids, NEW b, Refuse(t, s, b) PROVE Aloof
  <2>1. Moved(t, "idle", NoSid, NoEvent)
    BY <1>5, Returns DEF Refuse
  <2> QED
    BY <1>2, <2>1, MovesAloof
<1>6. CASE \E s \in Sids : genaSubscribe(t, s)
  <2>1. PICK s \in Sids : thr' = [thr EXCEPT ![t] = [Idle EXCEPT !.pc = "subscribe", !.sid = s]]
    BY <1>6 DEF genaSubscribe
  <2>2. "subscribe" \in Pcs
    BY DEF Pcs
  <2>3. Moved(t, "subscribe", s, NoEvent)
    BY <1>3, <2>1, <2>2, Begins, Zenon
  <2>4. Aloof
    BY <1>2, <2>3, MovesAloof
  <2> QED
    BY <1>1, <2>4 DEF Untouched
<1>7. CASE \E s \in Sids, eventKey \in EventKeys : genaNotifyReceived(t, s, eventKey)
  <2>1. PICK s \in Sids, eventKey \in EventKeys : genaNotifyReceived(t, s, eventKey)
    BY <1>7
  <2>2. ASSUME thr' = [thr EXCEPT ![t] = [Idle EXCEPT !.pc = "initial", !.sid = s]]
        PROVE  Aloof
    <3>1. "initial" \in Pcs
      BY DEF Pcs
    <3>2. Moved(t, "initial", s, NoEvent)
      BY <1>3, <2>2, <3>1, Begins, Zenon
    <3> QED
      BY <1>2, <3>2, MovesAloof
  <2>3. Aloof
    BY <1>4, <1>5, <2>1, <2>2 DEF genaNotifyReceived
  <2> QED
    BY <1>1, <2>3 DEF Untouched
<1>8. CASE SubscribeSend(t) \/ UnsubscribeEnd(t)
  <2>1. \/ Moved(t, "subscribing", thr[t].sid, NoEvent)
        \/ Moved(t, "unregister", thr[t].sid, NoEvent)
        \/ Moved(t, "idle", NoSid, NoEvent)
    BY <1>2, <1>8, Goes, Returns DEF SubscribeSend, UnsubscribeEnd, Pcs
  <2>2. PICK r : r = thr[t].sid
    OBVIOUS
  <2>3. Aloof
    BY <1>2, <2>1, <2>2, MovesAloof
  <2> QED
    BY <1>1, <2>3 DEF Untouched
<1>9. CASE UpnpUnRegisterClient(t)
  <2>1. "unregister" \in Pcs /\ NoSid \in Sids \cup {NoSid} /\ NoEvent \in Events \cup {NoEvent}
    BY DEF Pcs
  <2>2. thr' = [thr EXCEPT ![t] = [Idle EXCEPT !.pc = "unregister"]]
    BY <1>9 DEF UpnpUnRegisterClient
  <2>3. Moved(t, "unregister", NoSid, NoEvent)
    BY <1>3, <2>1, <2>2, Begins, Zenon
  <2>4. Aloof
    BY <1>2, <2>3, MovesAloof
  <2> QED
    BY <1>1, <2>4 DEF Untouched
<1>10. CASE FreeHandle(t)
  <2>1. Moved(t, "idle", NoSid, NoEvent)
    BY <1>10, Returns DEF FreeHandle
  <2>2. Aloof
    BY <1>2, <2>1, MovesAloof
  <2> QED
    BY <1>1, <2>2 DEF Untouched
<1>11. CASE NotifyAgain(t)
  <2>1. PICK s : s = thr[t].sid
    OBVIOUS
  <2>2. s \in Sids
    BY <1>11, <2>1 DEF NotifyAgain, At, ClientInv, OwnerInv
  <2>3. Aloof
    BY <1>4, <1>5, <1>11, <2>1, <2>2 DEF NotifyAgain
  <2> QED
    BY <1>1, <2>3 DEF Untouched
<1>12. CASE PublisherGrants(t)
  BY <1>1, <1>12 DEF PublisherGrants, Untouched, Aloof
<1> QED
  BY <1>6, <1>7, <1>8, <1>9, <1>10, <1>11, <1>12

(* Every step is of one of four shapes. *)
LEMMA Shapes ==
    ASSUME ClientInv, [Next]_vars
    PROVE  \/ Untouched
           \/ \E t \in Threads, s \in Sids : Settles(t, s) \/ Schedules(t, s)
           \/ \E e \in Events : EventDue(e)
<1>0. TypeOK /\ EventsInv
  BY DEF ClientInv
<1>1. ASSUME NEW t \in Threads, NEW s \in Sids, UpnpRenewSubscription(t, s)
      PROVE  Settles(t, s)
  BY <1>1, BeginShape DEF UpnpRenewSubscription
<1>2. ASSUME NEW t \in Threads, NEW e \in Events, GenaAutoRenewSubscription(t, e)
      PROVE  \E s \in Sids : Settles(t, s)
  <2>1. event[e].state = "job" /\ \A u \in Threads : thr[u].ev # e
    BY <1>2 DEF GenaAutoRenewSubscription, InState
  <2>2. PICK s \in Sids : s = event[e].sid
    BY <1>0, <2>1 DEF EventsInv
  <2>3. Settles(t, s)
    BY <1>2, <2>1, <2>2, BeginShape DEF GenaAutoRenewSubscription
  <2> QED
    BY <2>3
<1>3. ASSUME \/ \E s \in Sids : PublisherEnds(s)
             \/ UpnpRegisterClient
             \/ UNCHANGED vars
      PROVE  Untouched
  BY <1>3 DEF PublisherEnds, UpnpRegisterClient, vars, Untouched, Aloof, subVars, eventVars,
              ghostVars
<1>4. ASSUME NEW t \in Threads, Begin(t) \/ Continue(t) \/ PublisherGrants(t)
      PROVE  Untouched \/ \E s \in Sids : Settles(t, s) \/ Schedules(t, s)
  <2>1. CASE Begin(t)
    BY <1>1, <1>2, <2>1, UnSubscribeShape, QuietShape DEF Begin
  <2>2. CASE Continue(t)
    BY <2>2, SubscribeShape, AcceptedShape, RejectedShape, PointlessShape, CallbackShape,
       UnregisterShape, QuietShape DEF Continue
  <2> QED
    BY <1>4, <2>1, <2>2, QuietShape
<1> QED
  BY <1>3, <1>4 DEF Next

-----------------------------------------------------------------------------
(* The invariant of the events. *)

(* Events and what threads say of them keep together. *)
LEMMA EventsStep == ClientInv /\ [Next]_vars => EventsInv' /\ EventInUse'
<1> SUFFICES ASSUME ClientInv, [Next]_vars PROVE EventsInv' /\ EventInUse'
  OBVIOUS
<1>0. TypeOK /\ EventsInv /\ EventInUse /\ MaxEvents \in Nat /\ nev \in Nat
  BY ClientAssumption DEF ClientInv, TypeOK
<1>a. \A t \in Threads : thr[t].ev \in Events \cup {NoEvent}
  BY <1>0 DEF TypeOK
<1>b. NoEvent \notin Events /\ \A s \in Sids : RenewEventId[s] \in Events \cup {NoEvent}
  BY <1>0 DEF TypeOK, Events, NoEvent
<1>1. CASE Untouched
  <2>1. \A u \in Threads : \/ thr'[u] = thr[u]
                           \/ thr'[u].ev = NoEvent
    BY <1>1 DEF Untouched, Aloof, Moved
  <2> QED
    BY <1>0, <1>1, <2>1 DEF Untouched, EventsInv, EventInUse
<1>2. ASSUME NEW t \in Threads, NEW s \in Sids, Settles(t, s)
      PROVE  EventsInv' /\ EventInUse'
  <2>1. PICK E \in SUBSET Events, pc \in Pcs, r \in Sids \cup {NoSid}, e \in Events \cup {NoEvent} :
        /\ Frees(event', E)
        /\ \A d \in E : /\ event[d].state \in {"armed", "job"}
                        /\ \A u \in Threads \ {t} : thr[u].ev # d
        /\ nev' = nev
        /\ \A u \in Sids : RenewEventId'[u] \in {RenewEventId[u], NoEvent}
        /\ excused \subseteq excused'
        /\ Moved(t, pc, r, e)
        /\ e # NoEvent => /\ r = s /\ pc \in {"renewing", "failed", "callback"}
                          /\ e \notin E /\ event[e].sid = s /\ event[e].state = "job"
                          /\ \A u \in Threads \ {t} : thr[u].ev # e
        /\ pc \in {"failed", "callback"} => s \in excused'
    BY <1>2 DEF Settles
  <2>2. \A d \in Events : /\ event'[d].sid = event[d].sid
                          /\ d \notin E => event'[d].state = event[d].state
                          /\ event'[d].state # "none" => event[d].state # "none"
    BY <2>1 DEF Frees
  <2>3. /\ thr'[t].pc = pc /\ thr'[t].sid = r /\ thr'[t].ev = e
        /\ \A u \in Threads \ {t} : thr'[u] = thr[u]
    BY <2>1 DEF Moved
  <2>4. \A d \in Events : event'[d].state # "none" => d <= nev' /\ event'[d].sid \in Sids
    BY <1>0, <2>1, <2>2 DEF EventsInv
  <2>5. ASSUME NEW u \in Sids, RenewEventId'[u] # NoEvent
        PROVE  RenewEventId'[u] <= nev' /\ event'[RenewEventId'[u]].sid = u
    BY <1>0, <1>b, <2>1, <2>2, <2>5 DEF EventsInv
  <2>6. ASSUME NEW u \in Threads, thr'[u].ev # NoEvent
        PROVE  /\ thr'[u].pc \in {"renewing", "failed", "callback"}
               /\ event'[thr'[u].ev].sid = thr'[u].sid
               /\ thr'[u].pc \in {"failed", "callback"} => thr'[u].sid \in excused'
               /\ event'[thr'[u].ev].state = "job"
               /\ \A v \in Threads \ {u} : thr'[v].ev # thr'[u].ev
    <3>1. CASE u = t
      BY <2>1, <2>2, <2>3, <2>6, <3>1
    <3>2. CASE u # t
      BY <1>0, <1>a, <2>1, <2>2, <2>3, <2>6, <3>2 DEF EventsInv, EventInUse
    <3> QED
      BY <3>1, <3>2
  <2> QED
    BY <2>4, <2>5, <2>6 DEF EventsInv, EventInUse
<1>3. ASSUME NEW t \in Threads, NEW s \in Sids, Schedules(t, s)
      PROVE  EventsInv' /\ EventInUse'
  <2>1. PICK E \in SUBSET Events, table \in Table :
           /\ Frees(table, E)
           /\ E = {thr[t].ev} \cap Events
           /\ ScheduleGenaAutoRenew(s, table)
           /\ Moved(t, "idle", NoSid, NoEvent)
           /\ excused' = excused
    BY <1>3 DEF Schedules
  <2>2. /\ \A u \in Sids \ {s} : RenewEventId'[u] = RenewEventId[u]
        /\ \/ Frees(event', E) /\ nev' = nev /\ RenewEventId' = RenewEventId
           \/ /\ nev' = nev + 1 /\ nev' \in Events
              /\ event'[nev'].sid = s /\ event'[nev'].state = "armed"
              /\ RenewEventId'[s] = nev'
              /\ \A e \in Events \ {nev'} :
                    /\ event'[e].sid = event[e].sid
                    /\ event'[e].state = IF e \in E THEN "freed" ELSE event[e].state
    BY <1>0, <2>1, Scheduled
  <2>3. \A d \in E : event[d].state = "job" /\ \A u \in Threads \ {t} : thr[u].ev # d
    BY <1>0, <1>b, <2>1 DEF EventInUse
  <2>4. /\ nev' \in Nat /\ nev <= nev'
        /\ \A d \in Events : d <= nev =>
              /\ event'[d].sid = event[d].sid
              /\ d \notin E => event'[d].state = event[d].state
    BY <1>0, <2>2 DEF Frees, Events
  <2>5. /\ thr'[t].ev = NoEvent
        /\ \A u \in Threads \ {t} : thr'[u] = thr[u]
    BY <2>1 DEF Moved
  <2>6. ASSUME NEW d \in Events, event'[d].state # "none"
        PROVE  d <= nev' /\ event'[d].sid \in Sids
    <3>1. CASE Frees(event', E) /\ nev' = nev
      BY <1>0, <2>3, <2>6, <3>1 DEF Frees, EventsInv
    <3>2. CASE /\ nev' = nev + 1
               /\ event'[nev'].sid = s
               /\ \A e \in Events \ {nev'} :
                     /\ event'[e].sid = event[e].sid
                     /\ event'[e].state = IF e \in E THEN "freed" ELSE event[e].state
      <4>1. CASE d = nev'
        BY <2>4, <3>2, <4>1
      <4>2. CASE d # nev'
        <5>1. event[d].state # "none" /\ event'[d].sid = event[d].sid
          BY <2>3, <2>6, <3>2, <4>2
        <5>2. d <= nev /\ event[d].sid \in Sids /\ d \in Nat
          BY <1>0, <5>1 DEF EventsInv, Events
        <5> QED
          BY <1>0, <3>2, <5>1, <5>2
      <4> QED
        BY <4>1, <4>2
    <3> QED
      BY <2>2, <3>1, <3>2
  <2>7. ASSUME NEW u \in Sids, RenewEventId'[u] # NoEvent
        PROVE  RenewEventId'[u] <= nev' /\ event'[RenewEventId'[u]].sid = u
    <3>1. CASE RenewEventId'[u] = RenewEventId[u]
      <4>1. RenewEventId[u] \in Events /\ RenewEventId[u] <= nev /\ event[RenewEventId[u]].sid = u
        BY <1>0, <1>b, <2>7, <3>1 DEF EventsInv
      <4> QED
        BY <1>0, <2>4, <3>1, <4>1 DEF Events
    <3>2. CASE RenewEventId'[u] # RenewEventId[u]
      BY <2>2, <2>4, <3>2
    <3> QED
      BY <3>1, <3>2
  <2>8. ASSUME NEW u \in Threads, thr'[u].ev # NoEvent
        PROVE  /\ thr'[u].pc \in {"renewing", "failed", "callback"}
               /\ event'[thr'[u].ev].sid = thr'[u].sid
               /\ thr'[u].pc \in {"failed", "callback"} => thr'[u].sid \in excused'
               /\ event'[thr'[u].ev].state = "job"
               /\ \A v \in Threads \ {u} : thr'[v].ev # thr'[u].ev
    <3>1. u # t /\ thr'[u] = thr[u] /\ thr[u].ev \in Events
      BY <1>a, <2>5, <2>8
    <3>2. event[thr[u].ev].state = "job" /\ thr[u].ev <= nev /\ thr[u].ev \notin E
      BY <1>0, <2>3, <2>8, <3>1 DEF EventInUse, EventsInv
    <3>3. event'[thr[u].ev].state = "job" /\ event'[thr[u].ev].sid = event[thr[u].ev].sid
      BY <2>4, <3>1, <3>2
    <3> QED
      BY <1>0, <2>1, <2>5, <2>8, <3>1, <3>3 DEF EventsInv, EventInUse
  <2> QED
    BY <2>6, <2>7, <2>8 DEF EventsInv, EventInUse
<1>4. ASSUME NEW e \in Events, EventDue(e)
      PROVE  EventsInv' /\ EventInUse'
  <2>1. /\ event[e].state = "armed"
        /\ event'[e].state \in {"job", "lost"} /\ event'[e].sid = event[e].sid
        /\ \A d \in Events \ {e} : event'[d] = event[d]
        /\ excused \subseteq excused'
        /\ UNCHANGED <<thr, nev, RenewEventId>>
    BY <1>0, <1>4 DEF EventDue, InState, TypeOK, subVars
  <2>2. \A u \in Threads : thr[u].ev # e
    BY <1>0, <1>b, <2>1 DEF EventInUse
  <2> QED
    BY <1>0, <1>a, <1>b, <2>1, <2>2 DEF EventsInv, EventInUse
<1> QED
  BY <1>1, <1>2, <1>3, <1>4, Shapes

(* Subscription s has a renewal to come, or its application knows. *)
Pending(s) ==
    \/ s \in excused
    \/ \E e \in Events : event[e].state \in {"armed", "job"} /\ event[e].sid = s
    \/ \E t \in Threads : thr[t].pc = "renewing" /\ thr[t].sid = s

(* RenewalPending in these words, in one state ... *)
LEMMA PendingMeans ==
    ASSUME TypeOK, EventsInv
    PROVE  RenewalPending => \A s \in list : finite[s] /\ ~corrupt => Pending(s)
<1>1. nev \in Nat /\ MaxEvents \in Nat /\ nev <= MaxEvents
  BY ClientAssumption DEF TypeOK
<1>2. \A s : (\E e \in InState("armed") \cup InState("job") : event[e].sid = s)
         <=> (\E e \in Events : event[e].state \in {"armed", "job"} /\ event[e].sid = s)
  BY <1>1 DEF EventsInv, InState, Events
<1> QED
  BY <1>2 DEF RenewalPending, Pending, At

(* ... and in the next. *)
LEMMA PendingAgain ==
    ASSUME TypeOK', EventsInv',
           \A s \in list' : finite'[s] /\ ~corrupt' => Pending(s)'
    PROVE  RenewalPending'
<1>1. nev' \in Nat /\ MaxEvents \in Nat /\ nev' <= MaxEvents
  BY ClientAssumption DEF TypeOK
<1>2. \A s : (\E e \in Events : event'[e].state \in {"armed", "job"} /\ event'[e].sid = s)
         => (\E e \in InState("armed")' \cup InState("job")' : event'[e].sid = s)
  BY <1>1 DEF EventsInv, InState, Events
<1> QED
  BY <1>2 DEF RenewalPending, Pending, At

(* No subscription with a time-out is left without a renewal to come. *)
LEMMA PendingStep == ClientInv /\ [Next]_vars /\ TypeOK' => RenewalPending'
<1> SUFFICES ASSUME ClientInv, [Next]_vars, TypeOK' PROVE RenewalPending'
  OBVIOUS
<1>0. TypeOK /\ EventsInv /\ EventInUse /\ MaxEvents \in Nat /\ nev \in Nat /\ EventsInv'
  BY ClientAssumption, EventsStep DEF ClientInv, TypeOK
<1>a. \A s \in list : finite[s] /\ ~corrupt => Pending(s)
  BY <1>0, PendingMeans DEF ClientInv
<1>b. list \subseteq Sids /\ list' \subseteq Sids
  BY <1>0 DEF TypeOK
<1> SUFFICES ASSUME NEW s \in Sids, s \in list', finite'[s], ~corrupt'
             PROVE  Pending(s)'
  BY <1>0, <1>b, PendingAgain
<1>1. CASE Untouched
  <2>1. Pending(s)
    BY <1>1, <1>a DEF Untouched
  <2>2. \A u \in Threads : thr[u].pc = "renewing" => thr'[u] = thr[u]
    BY <1>1 DEF Untouched, Aloof, Moved
  <2> QED
    BY <1>1, <2>1, <2>2 DEF Untouched, Pending
<1>2. ASSUME NEW t \in Threads, NEW u \in Sids, Settles(t, u)
      PROVE  Pending(s)'
  <2>1. PICK E \in SUBSET Events, pc \in Pcs, r \in Sids \cup {NoSid}, e \in Events \cup {NoEvent} :
        /\ Frees(event', E)
        /\ \A d \in E : event[d].sid = u
        /\ excused \subseteq excused'
        /\ finite' = finite /\ corrupt' = corrupt /\ list' \subseteq list
        /\ thr[t].pc = "renewing" => thr[t].sid = u
        /\ Moved(t, pc, r, e)
        /\ u \notin list' \/ u \in excused' \/ (pc = "renewing" /\ r = u)
    BY <1>2 DEF Settles
  <2>2. CASE s = u
    BY <2>1, <2>2 DEF Pending, Moved
  <2>3. CASE s # u
    <3>1. Pending(s)
      BY <1>a, <2>1
    <3>2. \A d \in Events : event[d].sid = s => event'[d].sid = s /\ event'[d].state = event[d].state
      BY <2>1, <2>3 DEF Frees
    <3>3. \A v \in Threads : thr[v].pc = "renewing" /\ thr[v].sid = s => thr'[v] = thr[v]
      BY <2>1, <2>3 DEF Moved
    <3> QED
      BY <2>1, <3>1, <3>2, <3>3 DEF Pending
  <2> QED
    BY <2>2, <2>3
<1>3. ASSUME NEW t \in Threads, NEW u \in Sids, Schedules(t, u)
      PROVE  Pending(s)'
  <2>1. PICK E \in SUBSET Events, table \in Table :
           /\ Frees(table, E)
           /\ E = {thr[t].ev} \cap Events
           /\ ScheduleGenaAutoRenew(u, table)
           /\ thr[t].sid = u
           /\ Moved(t, "idle", NoSid, NoEvent)
           /\ list' = list \cup {u} /\ excused' = excused /\ corrupt' = corrupt
    BY <1>3 DEF Schedules
  <2>2. /\ \A v \in Sids \ {u} : finite'[v] = finite[v]
        /\ \/ /\ ~finite'[u]
              /\ Frees(event', E)
              /\ nev' = nev
           \/ /\ nev' = nev + 1 /\ nev' \in Events
              /\ event'[nev'].sid = u /\ event'[nev'].state = "armed"
              /\ \A e \in Events \ {nev'} :
                    /\ event'[e].sid = event[e].sid
                    /\ event'[e].state = IF e \in E THEN "freed" ELSE event[e].state
    BY <1>0, <2>1, Scheduled
  <2>3. CASE s = u
    BY <2>2, <2>3 DEF Pending
  <2>4. CASE s # u
    <3>1. Pending(s)
      BY <1>a, <2>1, <2>2, <2>4
    <3>2. ASSUME NEW d \in Events, event[d].sid = s, event[d].state \in {"armed", "job"}
          PROVE  event'[d].sid = s /\ event'[d].state = event[d].state
      <4>1. d \notin E
        BY <1>0, <2>1, <2>4, <3>2 DEF EventsInv, Events, NoEvent
      <4>2. d # nev + 1
        BY <1>0, <3>2 DEF EventsInv, Events
      <4> QED
        BY <2>2, <4>1, <4>2, <3>2 DEF Frees
    <3>3. \A v \in Threads : thr[v].pc = "renewing" /\ thr[v].sid = s => thr'[v] = thr[v]
      BY <2>1, <2>4 DEF Moved
    <3> QED
      BY <2>1, <3>1, <3>2, <3>3 DEF Pending
  <2> QED
    BY <2>3, <2>4
<1>4. ASSUME NEW e \in Events, EventDue(e)
      PROVE  Pending(s)'
  <2>1. /\ event'[e].sid = event[e].sid
        /\ event'[e].state = "job" \/ event[e].sid \in excused'
        /\ \A d \in Events \ {e} : event'[d] = event[d]
        /\ excused \subseteq excused'
        /\ UNCHANGED <<thr, list, finite, corrupt>>
    BY <1>0, <1>4 DEF EventDue, InState, TypeOK, subVars
  <2>2. Pending(s)
    BY <1>a, <2>1
  <2> QED
    BY <2>1, <2>2 DEF Pending
<1> QED
  BY <1>1, <1>2, <1>3, <1>4, Shapes

-----------------------------------------------------------------------------
(* The types. *)

(* What the steps do to the other variables. *)
LEMMA RestTypes ==
    ASSUME ClientInv, [Next]_vars
    PROVE  /\ client' \in 1 .. MaxClients /\ registered' \in BOOLEAN
           /\ list' \in SUBSET Sids
           /\ subscribeLock' \in Threads \cup {NoThread}
           /\ publisher' \in [Sids -> {"none", "granted", "ended"}]
           /\ initial' \in [Sids -> BOOLEAN]
           /\ corrupt' \in BOOLEAN
           /\ owner' \in [Sids -> 0 .. MaxClients]
           /\ refused' \in SUBSET Sids /\ excused' \in SUBSET Sids
<1> DEFINE Goal == /\ client' \in 1 .. MaxClients /\ registered' \in BOOLEAN
                   /\ list' \in SUBSET Sids
                   /\ subscribeLock' \in Threads \cup {NoThread}
                   /\ publisher' \in [Sids -> {"none", "granted", "ended"}]
                   /\ initial' \in [Sids -> BOOLEAN]
                   /\ corrupt' \in BOOLEAN
                   /\ owner' \in [Sids -> 0 .. MaxClients]
                   /\ refused' \in SUBSET Sids /\ excused' \in SUBSET Sids
<1>0. TypeOK /\ SubscriberInv /\ OwnerInv /\ EventsInv
  BY DEF ClientInv
<1>1. /\ client \in 1 .. MaxClients /\ registered \in BOOLEAN
      /\ list \in SUBSET Sids
      /\ subscribeLock \in Threads \cup {NoThread}
      /\ publisher \in [Sids -> {"none", "granted", "ended"}]
      /\ initial \in [Sids -> BOOLEAN]
      /\ corrupt \in BOOLEAN
      /\ owner \in [Sids -> 0 .. MaxClients]
      /\ refused \in SUBSET Sids /\ excused \in SUBSET Sids
      /\ MaxClients \in Nat \ {0}
  BY <1>0, ClientAssumption DEF TypeOK
<1>2. ASSUME NEW t \in Threads, NEW s \in Sids, NEW e,
             RenewBegin(t, s, e) \/ genaUnSubscribe(t, s)
      PROVE  Goal
  BY <1>1, <1>2 DEF RenewBegin, RenewFails, RemoveClientSubClientSID, genaUnSubscribe,
                    handleVars, pubVars, ghostVars
<1>3. ASSUME NEW t \in Threads, NEW s \in Sids, genaSubscribe(t, s) PROVE Goal
  BY <1>1, <1>3 DEF genaSubscribe, handleVars, subVars, pubVars
<1>4. ASSUME NEW t \in Threads, NEW s \in Sids, NEW eventKey \in EventKeys,
             genaNotifyReceived(t, s, eventKey)
      PROVE  Goal
  BY <1>1, <1>4 DEF genaNotifyReceived, Accept, Refuse, handleVars, subVars, pubVars
<1>5. ASSUME NEW t \in Threads,
             SubscribeSend(t) \/ RenewAccepted(t) \/ AutoRenewFailed(t) \/ Callback(t)
             \/ UpnpUnRegisterClient(t) \/ FreeHandle(t)
      PROVE  Goal
  BY <1>1, <1>5 DEF SubscribeSend, RenewAccepted, AutoRenewFailed, Callback, FreeHandle,
                    UpnpUnRegisterClient, handleVars, subVars, pubVars, ghostVars
<1>6. ASSUME NEW t \in Threads, SubscribeEnd(t) PROVE Goal
  <2>1. thr[t].sid \in Sids
    BY <1>0, <1>6 DEF SubscribeEnd, At, SubscriberInv, Subscribing
  <2> QED
    BY <1>1, <1>6, <2>1 DEF SubscribeEnd, handleVars, subVars, pubVars, ghostVars
<1>7. ASSUME NEW t \in Threads, RenewRejected(t) \/ RenewPointless(t) PROVE Goal
  <2>1. thr[t].sid \in Sids
    BY <1>0, <1>7 DEF RenewRejected, RenewPointless, At, OwnerInv
  <2>2. excused' = excused \/ excused' = excused \cup {thr[t].sid}
    BY <1>7 DEF RenewRejected, RenewPointless, RenewFails
  <2>3. list' \subseteq list
    BY <1>7 DEF RenewRejected, RenewPointless, RemoveClientSubClientSID, subVars
  <2>4. UNCHANGED <<handleVars, subscribeLock, pubVars, corrupt, owner, refused>>
    BY <1>7 DEF RenewRejected, RenewPointless
  <2> QED
    BY <1>1, <2>1, <2>2, <2>3, <2>4 DEF handleVars, pubVars
<1>8. ASSUME NEW t \in Threads, UnsubscribeEnd(t) \/ PublisherGrants(t) PROVE Goal
  BY <1>1, <1>8 DEF UnsubscribeEnd, PublisherGrants, handleVars, subVars, pubVars, ghostVars
<1>9. ASSUME NEW t \in Threads, UnregisterNext(t) PROVE Goal
  <2>1. list' \subseteq list /\ (corrupt' = corrupt \/ corrupt' = TRUE)
    BY <1>9 DEF UnregisterNext, RemoveClientSubClientSID, subVars
  <2> QED
    BY <1>1, <1>9, <2>1 DEF UnregisterNext, handleVars, pubVars, ghostVars
<1>10. ASSUME NEW t \in Threads, NotifyAgain(t) PROVE Goal
  <2>1. thr[t].sid \in Sids
    BY <1>0, <1>10 DEF NotifyAgain, At, OwnerInv
  <2> QED
    BY <1>1, <1>10, <2>1 DEF NotifyAgain, Accept, Refuse, handleVars, subVars, pubVars
<1>11. ASSUME NEW s \in Sids, PublisherEnds(s) PROVE Goal
  BY <1>1, <1>11 DEF PublisherEnds, handleVars, subVars, pubVars, ghostVars
<1>12. ASSUME NEW e \in Events, EventDue(e) PROVE Goal
  <2>1. event[e].sid \in Sids
    BY <1>0, <1>12 DEF EventDue, InState, EventsInv
  <2> QED
    BY <1>1, <1>12, <2>1 DEF EventDue, handleVars, subVars, pubVars
<1>13. CASE UpnpRegisterClient \/ UNCHANGED vars
  <2>1. CASE UpnpRegisterClient
    <3>1. client' \in 1 .. MaxClients /\ registered' \in BOOLEAN
      BY <1>1, <2>1 DEF UpnpRegisterClient
    <3> QED
      BY <1>1, <2>1, <3>1 DEF UpnpRegisterClient, subVars, pubVars, ghostVars
  <2>2. CASE UNCHANGED vars
    BY <1>1, <2>2 DEF vars, handleVars, subVars, pubVars, ghostVars
  <2> QED
    BY <1>13, <2>1, <2>2
<1>14. ASSUME NEW t \in Threads, Begin(t) PROVE Goal
  <2>1. \A e \in Events : e \in InState("job") => event[e].sid \in Sids
    BY <1>0 DEF InState, EventsInv
  <2> QED
    BY <1>2, <1>3, <1>4, <1>5, <1>14, <2>1
       DEF Begin, UpnpRenewSubscription, GenaAutoRenewSubscription
<1>15. ASSUME NEW t \in Threads, Continue(t) PROVE Goal
  BY <1>5, <1>6, <1>7, <1>8, <1>9, <1>10, <1>15 DEF Continue
<1> QED
  BY <1>8, <1>11, <1>12, <1>13, <1>14, <1>15 DEF Next

(* Every step keeps the types. *)
LEMMA TypeStep == ClientInv /\ [Next]_vars => TypeOK'
<1> SUFFICES ASSUME ClientInv, [Next]_vars PROVE TypeOK'
  OBVIOUS
<1>0. TypeOK /\ EventsInv
  BY DEF ClientInv
<1>1. /\ finite \in [Sids -> BOOLEAN] /\ RenewEventId \in [Sids -> Events \cup {NoEvent}]
      /\ nev \in 0 .. MaxEvents /\ event \in Table /\ thr \in [Threads -> Local]
  BY <1>0 DEF TypeOK, Table, States, Local, Pcs
<1>2. /\ finite' \in [Sids -> BOOLEAN] /\ RenewEventId' \in [Sids -> Events \cup {NoEvent}]
      /\ nev' \in 0 .. MaxEvents /\ event' \in Table /\ thr' \in [Threads -> Local]
  <2>1. CASE Untouched
    BY <1>1, <2>1 DEF Untouched, Aloof, Moved
  <2>2. ASSUME NEW t \in Threads, NEW s \in Sids, Settles(t, s)
        PROVE  /\ finite' = finite /\ nev' = nev
               /\ RenewEventId' \in [Sids -> Events \cup {NoEvent}]
               /\ event' \in Table /\ thr' \in [Threads -> Local]
    BY <2>2 DEF Settles, Frees, Moved
  <2>3. ASSUME NEW t \in Threads, NEW s \in Sids, Schedules(t, s)
        PROVE  /\ finite' \in [Sids -> BOOLEAN]
               /\ RenewEventId' \in [Sids -> Events \cup {NoEvent}]
               /\ nev' \in 0 .. MaxEvents /\ event' \in Table /\ thr' \in [Threads -> Local]
    <3>1. PICK E \in SUBSET Events, table \in Table :
             /\ Frees(table, E)
             /\ ScheduleGenaAutoRenew(s, table)
             /\ Moved(t, "idle", NoSid, NoEvent)
      BY <2>3 DEF Schedules
    <3>2. thr' \in [Threads -> Local]
      BY <3>1 DEF Moved
    <3> QED
      BY <1>0, <3>1, <3>2, Scheduled
  <2>4. ASSUME NEW e \in Events, EventDue(e)
        PROVE  UNCHANGED <<finite, nev, RenewEventId, thr>> /\ event' \in Table
    BY <1>1, <2>4 DEF EventDue, subVars, Table, States
  <2> QED
    BY <1>1, <2>1, <2>2, <2>3, <2>4, Shapes
<1> QED
  BY <1>2, RestTypes DEF TypeOK, Table, States, Local, Pcs

-----------------------------------------------------------------------------
(* Who has heard of a subscription. *)

(* Thread t moves, and neither subscribes nor waits with an initial event. *)
Bystander(t) ==
    /\ ~Subscribing(t)
    /\ thr'[t].pc \notin {"subscribe", "subscribing", "initial"}
    /\ thr'[t].pc \in {"renewing", "unsubscribing", "removing"}
          => thr'[t].sid \in Sids /\ publisher[thr'[t].sid] # "none"
    /\ \A u \in Threads \ {t} : thr'[u] = thr[u]

(* No subscription gets an owner, is granted or answered, or is listed. *)
Aside == /\ UNCHANGED <<client, registered, subscribeLock, owner, publisher, initial, refused>>
         /\ list' \subseteq list
         /\ thr' = thr \/ \E t \in Threads : Bystander(t)

(* Renewals, removals and callbacks are such steps ... *)
LEMMA AsideShape ==
    ASSUME ClientInv, NEW t \in Threads,
           \/ \E s \in Sids : UpnpRenewSubscription(t, s) \/ genaUnSubscribe(t, s)
           \/ \E e \in Events : GenaAutoRenewSubscription(t, e)
           \/ RenewAccepted(t) \/ RenewRejected(t) \/ RenewPointless(t)
           \/ AutoRenewFailed(t) \/ Callback(t)
           \/ UpnpUnRegisterClient(t) \/ UnregisterNext(t)
    PROVE  Aside
<1>0. TypeOK /\ EventsInv /\ OwnerInv
  BY DEF ClientInv
<1>a. 0 \in 0 .. MaxClients /\ NoSid \in Sids \cup {NoSid} /\ NoEvent \in Events \cup {NoEvent}
  BY ClientAssumption
<1>b. \A u \in Threads : thr[u].ev \in Events \cup {NoEvent}
  BY <1>0 DEF TypeOK
<1>1. ASSUME NEW pc, NEW s, NEW e, Moved(t, pc, s, e), ~Subscribing(t),
             pc \notin {"subscribe", "subscribing", "initial"},
             pc \in {"renewing", "unsubscribing", "removing"} => s \in Sids /\ publisher[s] # "none"
      PROVE  Bystander(t)
  BY <1>1 DEF Moved, Bystander
<1>2. ASSUME NEW s \in Sids, NEW e \in Events \cup {NoEvent}, At(t, "idle"), RenewBegin(t, s, e)
      PROVE  Aside
  <2>1. ~Subscribing(t)
    BY <1>2 DEF At, Subscribing
  <2>2. \/ Return(t) \/ RenewFails(t, s, e)
        \/ /\ thr' = [thr EXCEPT ![t] = [Idle EXCEPT !.pc = "renewing", !.sid = s, !.ev = e]]
           /\ s \in list
    BY <1>2 DEF RenewBegin, RenewReturns
  <2>3. "renewing" \in Pcs
    BY DEF Pcs
  <2>4. ASSUME Return(t) PROVE Bystander(t)
    BY <1>0, <1>1, <2>1, <2>4, Returns
  <2>5. ASSUME RenewFails(t, s, e) PROVE Bystander(t)
    BY <1>0, <1>1, <2>1, <2>5, Fails
  <2>6. ASSUME thr' = [thr EXCEPT ![t] = [Idle EXCEPT !.pc = "renewing", !.sid = s, !.ev = e]],
               s \in list
        PROVE  Bystander(t)
    <3>1. Moved(t, "renewing", s, e)
      BY <1>0, <1>a, <2>3, <2>6, Begins, Zenon
    <3> QED
      BY <1>0, <1>1, <2>1, <2>6, <3>1 DEF OwnerInv
  <2>7. /\ UNCHANGED <<client, registered, subscribeLock, owner, publisher, initial, refused>>
        /\ list' = list
    BY <1>2 DEF RenewBegin, handleVars, pubVars
  <2> QED
    BY <2>2, <2>4, <2>5, <2>6, <2>7 DEF Aside
<1>3. CASE \E s \in Sids : UpnpRenewSubscription(t, s)
  BY <1>2, <1>3 DEF UpnpRenewSubscription
<1>4. CASE \E e \in Events : GenaAutoRenewSubscription(t, e)
  <2>1. PICK e \in Events : GenaAutoRenewSubscription(t, e)
    BY <1>4
  <2>2. PICK s \in Sids : s = event[e].sid
    BY <1>0, <2>1 DEF GenaAutoRenewSubscription, InState, EventsInv
  <2> QED
    BY <1>2, <2>1, <2>2 DEF GenaAutoRenewSubscription
<1>5. CASE \E s \in Sids : genaUnSubscribe(t, s)
  <2>1. PICK s \in Sids : genaUnSubscribe(t, s)
    BY <1>5
  <2>2. /\ UNCHANGED <<client, registered, subscribeLock, owner, publisher, initial, refused>>
        /\ list' \subseteq list /\ ~Subscribing(t) /\ s \in list
    BY <2>1 DEF genaUnSubscribe, At, Subscribing, RemoveClientSubClientSID, handleVars, pubVars,
                ghostVars
  <2>3. ASSUME thr' = [thr EXCEPT ![t] = [Idle EXCEPT !.pc = "unsubscribing", !.sid = s]]
        PROVE  Bystander(t)
    <3>1. "unsubscribing" \in Pcs
      BY DEF Pcs
    <3>2. Moved(t, "unsubscribing", s, NoEvent)
      BY <1>0, <1>a, <2>3, <3>1, Begins, Zenon
    <3> QED
      BY <1>0, <1>1, <2>2, <3>2 DEF OwnerInv
  <2> QED
    BY <2>1, <2>2, <2>3 DEF genaUnSubscribe, Aside
<1>6. CASE RenewAccepted(t)
  <2>1. /\ UNCHANGED <<client, registered, subscribeLock, owner, publisher, initial, refused>>
        /\ list' = list /\ ~Subscribing(t) /\ Return(t)
    BY <1>6 DEF RenewAccepted, At, Subscribing, handleVars, pubVars, ghostVars
  <2>2. Bystander(t)
    BY <1>0, <1>1, <2>1, Returns
  <2> QED
    BY <2>1, <2>2 DEF Aside
<1>7. CASE RenewRejected(t) \/ RenewPointless(t)
  <2>1. /\ UNCHANGED <<client, registered, subscribeLock, owner, publisher, initial, refused>>
        /\ ~Subscribing(t)
    BY <1>7 DEF RenewRejected, RenewPointless, At, Subscribing, handleVars, pubVars
  <2>2. list' \subseteq list
    BY <1>7 DEF RenewRejected, RenewPointless, RemoveClientSubClientSID, subVars
  <2>3. PICK s \in Sids : s = thr[t].sid
    BY <1>0, <1>7 DEF RenewRejected, RenewPointless, At, OwnerInv
  <2>4. PICK e \in Events \cup {NoEvent} : e = thr[t].ev
    BY <1>b
  <2>5. Return(t) \/ RenewFails(t, s, e)
    BY <1>7, <2>3, <2>4 DEF RenewRejected, RenewPointless, RenewReturns
  <2>6. Bystander(t)
    BY <1>0, <1>1, <2>1, <2>5, Returns, Fails
  <2> QED
    BY <2>1, <2>2, <2>6 DEF Aside
<1>8. CASE AutoRenewFailed(t) \/ Callback(t)
  <2>1. /\ UNCHANGED <<client, registered, subscribeLock, owner, publisher, initial, refused, list>>
        /\ ~Subscribing(t)
    BY <1>8 DEF AutoRenewFailed, Callback, At, Subscribing, handleVars, subVars, pubVars, ghostVars
  <2>2. \/ Moved(t, "idle", NoSid, NoEvent)
        \/ Moved(t, "callback", thr[t].sid, thr[t].ev)
    BY <1>0, <1>8, CallbackMoves
  <2>3. Bystander(t)
    BY <2>1, <2>2 DEF Moved, Bystander
  <2> QED
    BY <2>1, <2>3 DEF Aside
<1>9. CASE UpnpUnRegisterClient(t)
  <2>1. /\ UNCHANGED <<client, registered, subscribeLock, owner, publisher, initial, refused, list>>
        /\ ~Subscribing(t)
        /\ thr' = [thr EXCEPT ![t] = [Idle EXCEPT !.pc = "unregister"]]
    BY <1>9 DEF UpnpUnRegisterClient, At, Subscribing, handleVars, subVars, pubVars, ghostVars
  <2>2. "unregister" \in Pcs
    BY DEF Pcs
  <2>3. Moved(t, "unregister", NoSid, NoEvent)
    BY <1>0, <1>a, <2>1, <2>2, Begins, Zenon
  <2>4. Bystander(t)
    BY <1>1, <2>1, <2>3
  <2> QED
    BY <2>1, <2>4 DEF Aside
<1>10. CASE UnregisterNext(t)
  <2>1. /\ UNCHANGED <<client, registered, subscribeLock, owner, publisher, initial, refused>>
        /\ ~Subscribing(t)
    BY <1>10 DEF UnregisterNext, At, Subscribing, handleVars, pubVars, ghostVars
  <2>2. list' \subseteq list
    BY <1>10 DEF UnregisterNext, RemoveClientSubClientSID, subVars
  <2>3. \/ Return(t) \/ Go(t, "freehandle")
        \/ \E s \in Sids : s \in list /\ thr' = [thr EXCEPT ![t].pc = "removing", ![t].sid = s]
    BY <1>0, <1>10 DEF UnregisterNext, TypeOK
  <2>4. "freehandle" \in Pcs /\ "removing" \in Pcs
    BY DEF Pcs
  <2>5. \/ Moved(t, "idle", NoSid, NoEvent)
        \/ Moved(t, "freehandle", thr[t].sid, thr[t].ev)
        \/ \E s \in Sids : s \in list /\ Moved(t, "removing", s, thr[t].ev)
    BY <1>0, <2>3, <2>4, Returns, Goes, GoesFor
  <2>6. Bystander(t)
    BY <1>0, <2>1, <2>5 DEF Moved, Bystander, OwnerInv
  <2> QED
    BY <2>1, <2>2, <2>6 DEF Aside
<1> QED
  BY <1>3, <1>4, <1>5, <1>6, <1>7, <1>8, <1>9, <1>10

HeardInv == SubscriberInv /\ OwnerInv /\ RefusedInv

(* ... and keep what is known of the subscriptions. *)
LEMMA AsideHeard == ClientInv /\ Aside => HeardInv'
<1> SUFFICES ASSUME ClientInv, Aside PROVE HeardInv'
  OBVIOUS
<1>0. SubscriberInv /\ OwnerInv /\ RefusedInv
  BY DEF ClientInv
<1>1. \A u \in Threads :
         /\ thr'[u].pc \in {"subscribe", "subscribing", "initial"} => thr'[u] = thr[u]
         /\ \/ thr'[u] = thr[u]
            \/ thr'[u].pc \in {"renewing", "unsubscribing", "removing"}
                  => thr'[u].sid \in Sids /\ publisher[thr'[u].sid] # "none"
  BY DEF Aside, Bystander
<1>2. SubscriberInv'
  BY <1>0, <1>1 DEF SubscriberInv, Subscribing, Aside
<1>3. OwnerInv'
  BY <1>0, <1>1 DEF OwnerInv, Aside
<1>4. RefusedInv'
  BY <1>0, <1>1 DEF RefusedInv, Subscribing, Aside
<1> QED
  BY <1>2, <1>3, <1>4 DEF HeardInv

(* genaSubscribe: nobody has heard of the subscription before. *)
LEMMA SubscribeHeard ==
    ASSUME ClientInv, NEW t \in Threads, NEW s \in Sids, genaSubscribe(t, s)
    PROVE  HeardInv'
<1>0. TypeOK /\ SubscriberInv /\ OwnerInv /\ RefusedInv
  BY DEF ClientInv
<1>1. /\ registered /\ owner[s] = 0 /\ thr[t].pc = "idle"
      /\ thr' = [thr EXCEPT ![t] = [Idle EXCEPT !.pc = "subscribe", !.sid = s]]
      /\ owner' = [owner EXCEPT ![s] = client]
      /\ UNCHANGED <<client, registered, list, subscribeLock, publisher, initial, refused>>
  BY DEF genaSubscribe, At, handleVars, subVars, pubVars
<1>2. "subscribe" \in Pcs /\ 0 \in 0 .. MaxClients /\ NoEvent \in Events \cup {NoEvent}
  BY ClientAssumption DEF Pcs
<1>3. Moved(t, "subscribe", s, NoEvent)
  BY <1>0, <1>1, <1>2, Begins, Zenon
<1>4. /\ thr'[t].pc = "subscribe" /\ thr'[t].sid = s
      /\ \A u \in Threads \ {t} : thr'[u] = thr[u]
  BY <1>3 DEF Moved
<1>5. /\ owner'[s] = client /\ client \in Nat \ {0}
      /\ \A u \in Sids \ {s} : owner'[u] = owner[u]
  BY <1>0, <1>1, ClientAssumption DEF TypeOK
<1>6. /\ publisher[s] = "none" /\ ~initial[s] /\ s \notin list /\ s \notin refused
      /\ \A u \in Threads : Subscribing(u) => thr[u].sid # s
  BY <1>0, <1>1 DEF OwnerInv, RefusedInv, SubscriberInv
<1>7. SubscriberInv'
  BY <1>0, <1>1, <1>4, <1>5, <1>6 DEF SubscriberInv, Subscribing
<1>8. OwnerInv'
  BY <1>0, <1>1, <1>4, <1>5, <1>6 DEF OwnerInv
<1>9. RefusedInv'
  <2>1. refused \subseteq Sids
    BY <1>0 DEF TypeOK
  <2> QED
    BY <1>0, <1>1, <1>4, <1>5, <1>6, <2>1 DEF RefusedInv, Subscribing
<1> QED
  BY <1>7, <1>8, <1>9 DEF HeardInv

(* SubscribeLock: the thread was the only one with its subscription. *)
LEMMA SendHeard ==
    ASSUME ClientInv, NEW t \in Threads, SubscribeSend(t)
    PROVE  HeardInv'
<1>0. TypeOK /\ SubscriberInv /\ OwnerInv /\ RefusedInv
  BY DEF ClientInv
<1>1. /\ thr[t].pc = "subscribe" /\ subscribeLock = NoThread /\ subscribeLock' = t
      /\ Go(t, "subscribing")
      /\ UNCHANGED <<client, registered, list, owner, publisher, initial, refused>>
  BY DEF SubscribeSend, At, handleVars, subVars, pubVars, ghostVars
<1>2. Moved(t, "subscribing", thr[t].sid, thr[t].ev)
  BY <1>0, <1>1, Goes DEF Pcs
<1>3. /\ thr'[t].pc = "subscribing" /\ thr'[t].sid = thr[t].sid
      /\ \A u \in Threads \ {t} : thr'[u] = thr[u]
  BY <1>2 DEF Moved
<1>4. \A u \in Threads : thr[u].pc # "subscribing"
  BY <1>0, <1>1, ClientAssumption DEF SubscriberInv
<1>5. SubscriberInv'
  BY <1>0, <1>1, <1>3, <1>4 DEF SubscriberInv, Subscribing
<1>6. OwnerInv'
  BY <1>0, <1>1, <1>3 DEF OwnerInv
<1>7. RefusedInv'
  BY <1>0, <1>1, <1>3 DEF RefusedInv, Subscribing
<1> QED
  BY <1>5, <1>6, <1>7 DEF HeardInv

(* The answer to SUBSCRIBE: if the client keeps the subscription it was not
   refused, because its events waited for the subscribe lock. *)
LEMMA AnswerHeard ==
    ASSUME ClientInv, NEW t \in Threads, SubscribeEnd(t)
    PROVE  HeardInv'
<1> DEFINE s == thr[t].sid
<1>0. TypeOK /\ SubscriberInv /\ OwnerInv /\ RefusedInv
  BY DEF ClientInv
<1>1. /\ thr[t].pc = "subscribing" /\ s \in Sids /\ s \notin list
      /\ \/ list' = list
         \/ registered /\ publisher[s] # "none" /\ list' = list \cup {s}
      /\ Return(t) /\ subscribeLock' = NoThread
      /\ UNCHANGED <<client, registered, owner, publisher, initial, refused>>
  BY <1>0 DEF SubscribeEnd, At, handleVars, subVars, pubVars, ghostVars, SubscriberInv, Subscribing
<1>2. Moved(t, "idle", NoSid, NoEvent)
  BY <1>0, <1>1, Returns
<1>3. /\ thr'[t].pc = "idle"
      /\ \A u \in Threads \ {t} : thr'[u] = thr[u]
  BY <1>2 DEF Moved
<1>4. \A u \in Threads \ {t} : /\ thr[u].pc # "subscribing"
                               /\ thr[u].pc = "subscribe" => thr[u].sid # s
  BY <1>0, <1>1 DEF SubscriberInv, Subscribing
<1>5. owner[s] # 0
  BY <1>0, <1>1 DEF SubscriberInv, Subscribing
<1> HIDE DEF s
<1>6. SubscriberInv'
  BY <1>0, <1>1, <1>3, <1>4 DEF SubscriberInv, Subscribing
<1>7. OwnerInv'
  BY <1>0, <1>1, <1>3, <1>5 DEF OwnerInv
<1>8. RefusedInv'
  <2>1. s \notin refused \/ owner[s] # client \/ ~registered
    BY <1>0, <1>1 DEF RefusedInv, Subscribing, s
  <2> QED
    BY <1>0, <1>1, <1>3, <2>1 DEF RefusedInv, Subscribing
<1> QED
  BY <1>6, <1>7, <1>8 DEF HeardInv

(* The handle is freed, or given to the next client. *)
LEMMA HandleHeard ==
    ASSUME ClientInv, UpnpRegisterClient \/ \E t \in Threads : FreeHandle(t)
    PROVE  HeardInv'
<1>0. TypeOK /\ SubscriberInv /\ OwnerInv /\ RefusedInv
  BY DEF ClientInv
<1>1. /\ UNCHANGED <<subscribeLock, owner, publisher, initial, refused>>
      /\ \/ client' = client + 1 /\ ~registered /\ list' = list
         \/ client' = client /\ ~registered' /\ list' = {}
      /\ \/ thr' = thr
         \/ \E t \in Threads : thr[t].pc = "freehandle" /\ Return(t)
  BY DEF UpnpRegisterClient, FreeHandle, At, handleVars, subVars, pubVars, ghostVars
<1>2. \A t \in Threads : Return(t) => Moved(t, "idle", NoSid, NoEvent)
  BY <1>0, Returns
<1>3. \A u \in Threads : thr'[u] = thr[u] \/ thr'[u].pc = "idle"
  BY <1>1, <1>2 DEF Moved
<1>4. client \in Nat /\ \A s \in Sids : owner[s] \in Nat
  BY <1>0, ClientAssumption DEF TypeOK
<1>5. refused \subseteq Sids
  BY <1>0 DEF TypeOK
<1>6. SubscriberInv'
  BY <1>0, <1>1, <1>3 DEF SubscriberInv, Subscribing, RefusedInv
<1>7. OwnerInv'
  BY <1>0, <1>1, <1>3, <1>4 DEF OwnerInv
<1>8. RefusedInv'
  <2>1. CASE client' = client + 1 /\ ~registered /\ list' = list
    <3>1. \A s \in Sids : owner[s] # client'
      BY <1>0, <1>4, <2>1 DEF OwnerInv
    <3> QED
      BY <1>0, <1>1, <1>5, <2>1, <3>1 DEF RefusedInv
  <2>2. CASE client' = client /\ ~registered' /\ list' = {}
    BY <1>0, <1>1, <2>2 DEF RefusedInv
  <2> QED
    BY <1>1, <2>1, <2>2
<1> QED
  BY <1>6, <1>7, <1>8 DEF HeardInv

(* What the publishers do, and what they are told by UNSUBSCRIBE. *)
LEMMA PublisherHeard ==
    ASSUME ClientInv,
           \/ \E t \in Threads : UnsubscribeEnd(t) \/ PublisherGrants(t)
           \/ \E s \in Sids : PublisherEnds(s)
    PROVE  HeardInv'
<1>0. TypeOK /\ SubscriberInv /\ OwnerInv /\ RefusedInv
  BY DEF ClientInv
<1>1. publisher \in [Sids -> {"none", "granted", "ended"}] /\ list \subseteq Sids /\ refused \subseteq Sids
  BY <1>0 DEF TypeOK
<1>2. ASSUME NEW s \in Sids, publisher'[s] # "none",
             \A u \in Sids \ {s} : publisher'[u] = publisher[u],
             \/ publisher[s] # "none"
             \/ owner[s] # 0 /\ \A t \in Threads : thr[t].sid = s => thr[t].pc # "subscribe",
             UNCHANGED <<client, registered, subscribeLock, owner, initial, refused, list>>,
             thr' = thr \/ \E t \in Threads : Bystander(t)
      PROVE  HeardInv'
  <2>1. \A u \in Threads :
           /\ thr'[u].pc \in {"subscribe", "subscribing", "initial"} => thr'[u] = thr[u]
           /\ \/ thr'[u] = thr[u]
              \/ thr'[u].pc \in {"renewing", "unsubscribing", "removing"}
                    => thr'[u].sid \in Sids /\ publisher[thr'[u].sid] # "none"
    BY <1>2 DEF Bystander
  <2>2. \A u \in Sids : publisher[u] # "none" => publisher'[u] # "none"
    BY <1>2
  <2>3. SubscriberInv'
    BY <1>0, <1>2, <2>1 DEF SubscriberInv, Subscribing
  <2>4. OwnerInv'
    BY <1>0, <1>1, <1>2, <2>1, <2>2 DEF OwnerInv
  <2>5. RefusedInv'
    BY <1>0, <1>1, <1>2, <2>1, <2>2 DEF RefusedInv, Subscribing
  <2> QED
    BY <2>3, <2>4, <2>5 DEF HeardInv
<1>3. ASSUME NEW t \in Threads, UnsubscribeEnd(t) PROVE HeardInv'
  <2>1. PICK s \in Sids : s = thr[t].sid
    BY <1>0, <1>3 DEF UnsubscribeEnd, At, OwnerInv
  <2>2. /\ thr[t].pc \in {"unsubscribing", "removing"}
        /\ publisher' = [publisher EXCEPT ![s] = "ended"] \/ publisher' = publisher
        /\ UNCHANGED <<client, registered, subscribeLock, owner, initial, refused, list>>
        /\ Go(t, "unregister") \/ Return(t)
    BY <1>3, <2>1 DEF UnsubscribeEnd, At, handleVars, subVars, ghostVars
  <2>3. Moved(t, "unregister", thr[t].sid, thr[t].ev) \/ Moved(t, "idle", NoSid, NoEvent)
    BY <1>0, <2>2, Goes, Returns DEF Pcs
  <2>4. Bystander(t)
    BY <2>2, <2>3 DEF Moved, Bystander, Subscribing
  <2>5. CASE publisher' = publisher
    <3>1. Aside
      BY <2>2, <2>4, <2>5 DEF Aside
    <3> QED
      BY <3>1, AsideHeard
  <2>6. CASE publisher' = [publisher EXCEPT ![s] = "ended"]
    <3>1. publisher'[s] # "none" /\ \A u \in Sids \ {s} : publisher'[u] = publisher[u]
      BY <1>1, <2>6
    <3>2. publisher[s] # "none"
      BY <1>0, <2>1, <2>2 DEF OwnerInv
    <3> QED
      BY <1>2, <2>2, <2>4, <3>1, <3>2
  <2> QED
    BY <2>2, <2>5, <2>6
<1>4. ASSUME NEW t \in Threads, PublisherGrants(t) PROVE HeardInv'
  <2>1. PICK s \in Sids : s = thr[t].sid
    BY <1>0, <1>4 DEF PublisherGrants, At, SubscriberInv, Subscribing
  <2>2. /\ thr[t].pc = "subscribing"
        /\ publisher' = [publisher EXCEPT ![s] = "granted"]
        /\ UNCHANGED <<client, registered, subscribeLock, owner, initial, refused, list, thr>>
    BY <1>4, <2>1 DEF PublisherGrants, At, handleVars, subVars, ghostVars
  <2>3. publisher'[s] # "none" /\ \A u \in Sids \ {s} : publisher'[u] = publisher[u]
    BY <1>1, <2>2
  <2>4. owner[s] # 0 /\ \A u \in Threads : thr[u].sid = s => thr[u].pc # "subscribe"
    BY <1>0, <2>1, <2>2 DEF SubscriberInv, Subscribing
  <2> QED
    BY <1>2, <2>2, <2>3, <2>4
<1>5. ASSUME NEW s \in Sids, PublisherEnds(s) PROVE HeardInv'
  <2>1. /\ publisher[s] # "none"
        /\ publisher' = [publisher EXCEPT ![s] = "ended"]
        /\ UNCHANGED <<client, registered, subscribeLock, owner, initial, refused, list, thr>>
    BY <1>5 DEF PublisherEnds, handleVars, subVars, ghostVars
  <2>2. publisher'[s] # "none" /\ \A u \in Sids \ {s} : publisher'[u] = publisher[u]
    BY <1>1, <2>1
  <2> QED
    BY <1>2, <2>1, <2>2
<1> QED
  BY <1>3, <1>4, <1>5

(* An event is answered with 200: the client lists the subscription. *)
LEMMA AcceptHeard ==
    ASSUME ClientInv, NEW t \in Threads, NEW s \in Sids, Accept(t, s),
           thr[t].pc \in {"idle", "initial"}, s \in list,
           UNCHANGED <<client, registered, subscribeLock, owner, list>>
    PROVE  HeardInv'
<1>0. TypeOK /\ SubscriberInv /\ OwnerInv /\ RefusedInv
  BY DEF ClientInv
<1>1. /\ initial \in [Sids -> BOOLEAN] /\ initial' = [initial EXCEPT ![s] = TRUE]
      /\ UNCHANGED <<publisher, refused>>
  BY <1>0 DEF TypeOK, Accept
<1>2. initial'[s] /\ \A u \in Sids \ {s} : initial'[u] = initial[u]
  BY <1>1
<1>3. Moved(t, "callback", NoSid, NoEvent)
  <2>1. PICK c \in 0 .. MaxClients : c = client
    BY <1>0, ClientAssumption DEF TypeOK
  <2>2. thr' = [thr EXCEPT ![t] = [Idle EXCEPT !.pc = "callback", !.client = c]]
    BY <2>1, Zenon DEF Accept
  <2>3. "callback" \in Pcs
    BY DEF Pcs
  <2> QED
    BY <1>0, <2>2, <2>3, Begins, Zenon
<1>4. thr'[t].pc = "callback" /\ \A u \in Threads \ {t} : thr'[u] = thr[u]
  BY <1>3 DEF Moved
<1>5. \A u \in Threads : thr'[u] = thr[u] \/ thr'[u].pc = "callback"
  BY <1>4
<1>6. SubscriberInv'
  BY <1>0, <1>1, <1>2, <1>5 DEF SubscriberInv, Subscribing
<1>7. OwnerInv'
  BY <1>0, <1>1, <1>2, <1>5 DEF OwnerInv
<1>8. RefusedInv'
  BY <1>0, <1>1, <1>5 DEF RefusedInv, Subscribing
<1> QED
  BY <1>6, <1>7, <1>8 DEF HeardInv

(* An event is answered with 412: if that is a mistake for a subscription
   that is kept, no client lists this one, and nobody waits for the answer to
   its SUBSCRIBE. *)
LEMMA RefuseHeard ==
    ASSUME ClientInv, NEW t \in Threads, NEW s \in Sids, NEW b, Refuse(t, s, b),
           publisher[s] # "none",
           b \/ initial[s] =>
              \/ ~registered
              \/ s \notin list /\ \A u \in Threads : ~(Subscribing(u) /\ thr[u].sid = s),
           UNCHANGED <<client, registered, subscribeLock, owner, list>>
    PROVE  HeardInv'
<1>0. TypeOK /\ SubscriberInv /\ OwnerInv /\ RefusedInv
  BY DEF ClientInv
<1>1. /\ refused' = (IF b \/ initial[s] THEN refused \cup {s} ELSE refused)
      /\ refused \subseteq Sids /\ list \subseteq Sids
      /\ publisher' = [publisher EXCEPT ![s] = "ended"]
      /\ publisher \in [Sids -> {"none", "granted", "ended"}]
      /\ initial' = initial
  BY <1>0 DEF TypeOK, Refuse
<1>2. publisher'[s] # "none" /\ \A u \in Sids \ {s} : publisher'[u] = publisher[u]
  BY <1>1
<1>3. Moved(t, "idle", NoSid, NoEvent)
  BY <1>0, Returns DEF Refuse
<1>4. thr'[t].pc = "idle" /\ \A u \in Threads \ {t} : thr'[u] = thr[u]
  BY <1>3 DEF Moved
<1>5. \A u \in Threads : thr'[u] = thr[u] \/ thr'[u].pc = "idle"
  BY <1>4
<1>6. SubscriberInv'
  BY <1>0, <1>1, <1>2, <1>5 DEF SubscriberInv, Subscribing
<1>7. OwnerInv'
  <2>1. owner[s] # 0
    BY <1>0 DEF OwnerInv
  <2> QED
    BY <1>0, <1>1, <1>2, <1>5, <2>1 DEF OwnerInv
<1>8. RefusedInv'
  <2>1. CASE b \/ initial[s]
    BY <1>0, <1>1, <1>2, <1>5, <2>1 DEF RefusedInv, Subscribing
  <2>2. CASE ~(b \/ initial[s])
    BY <1>0, <1>1, <1>2, <1>5, <2>2 DEF RefusedInv, Subscribing
  <2> QED
    BY <2>1, <2>2
<1> QED
  BY <1>6, <1>7, <1>8 DEF HeardInv

(* An event of an unknown subscription is refused once it is certain that
   nobody waits for the answer to its SUBSCRIBE, or when it is not the initial
   one and none of the subscription has been acknowledged. *)
LEMMA NotifyHeard ==
    ASSUME ClientInv, NEW t \in Threads,
           \/ NotifyAgain(t)
           \/ \E s \in Sids, eventKey \in EventKeys : genaNotifyReceived(t, s, eventKey)
    PROVE  HeardInv'
<1>0. TypeOK /\ SubscriberInv /\ OwnerInv /\ RefusedInv
  BY DEF ClientInv
<1>1. UNCHANGED <<client, registered, subscribeLock, owner, list>>
  BY DEF NotifyAgain, genaNotifyReceived, handleVars, subVars
<1>2. CASE NotifyAgain(t)
  <2>1. PICK s \in Sids : s = thr[t].sid
    BY <1>0, <1>2 DEF NotifyAgain, At, OwnerInv
  <2>2. /\ thr[t].pc = "initial" /\ subscribeLock = NoThread /\ publisher[s] # "none"
        /\ IF registered /\ s \in list THEN Accept(t, s) ELSE Refuse(t, s, TRUE)
    BY <1>0, <1>2, <2>1 DEF NotifyAgain, At, OwnerInv
  <2>3. \A u \in Threads : ~(Subscribing(u) /\ thr[u].sid = s)
    BY <1>0, <2>2, ClientAssumption DEF SubscriberInv, Subscribing
  <2>4. CASE registered /\ s \in list
    BY <1>1, <2>2, <2>4, AcceptHeard
  <2>5. CASE ~(registered /\ s \in list)
    BY <1>1, <2>2, <2>3, <2>5, RefuseHeard
  <2> QED
    BY <2>4, <2>5
<1>3. ASSUME NEW s \in Sids, NEW eventKey \in EventKeys, genaNotifyReceived(t, s, eventKey)
      PROVE  HeardInv'
  <2>1. thr[t].pc = "idle" /\ publisher[s] = "granted"
    BY <1>3 DEF genaNotifyReceived, At
  <2>2. CASE registered /\ s \in list /\ Accept(t, s)
    BY <1>1, <2>1, <2>2, AcceptHeard
  <2>3. CASE (~registered \/ (s \notin list /\ eventKey # 0)) /\ Refuse(t, s, eventKey = 0)
    <3>1. eventKey = 0 \/ initial[s] =>
             \/ ~registered
             \/ s \notin list /\ \A u \in Threads : ~(Subscribing(u) /\ thr[u].sid = s)
      BY <1>0, <2>3 DEF SubscriberInv
    <3> QED
      BY <1>1, <2>1, <2>3, <3>1, RefuseHeard
  <2>4. CASE /\ thr' = [thr EXCEPT ![t] = [Idle EXCEPT !.pc = "initial", !.sid = s]]
             /\ UNCHANGED <<pubVars, refused>>
    <3>1. "initial" \in Pcs /\ 0 \in 0 .. MaxClients /\ NoEvent \in Events \cup {NoEvent}
      BY ClientAssumption DEF Pcs
    <3>2. Moved(t, "initial", s, NoEvent)
      BY <1>0, <2>4, <3>1, Begins, Zenon
    <3>3. /\ thr'[t].pc = "initial" /\ thr'[t].sid = s
          /\ \A u \in Threads \ {t} : thr'[u] = thr[u]
      BY <3>2 DEF Moved
    <3>4. UNCHANGED <<publisher, initial, refused>>
      BY <2>4 DEF pubVars
    <3>5. SubscriberInv'
      BY <1>0, <1>1, <3>3, <3>4 DEF SubscriberInv, Subscribing
    <3>6. OwnerInv'
      BY <1>0, <1>1, <2>1, <3>3, <3>4 DEF OwnerInv
    <3>7. RefusedInv'
      BY <1>0, <1>1, <3>3, <3>4 DEF RefusedInv, Subscribing
    <3> QED
      BY <3>5, <3>6, <3>7 DEF HeardInv
  <2> QED
    BY <1>3, <2>2, <2>3, <2>4 DEF genaNotifyReceived
<1> QED
  BY <1>2, <1>3

(* Every step keeps it. *)
LEMMA HeardStep == ClientInv /\ [Next]_vars => HeardInv'
<1> SUFFICES ASSUME ClientInv, [Next]_vars PROVE HeardInv'
  OBVIOUS
<1>1. ASSUME NEW t \in Threads, Begin(t) PROVE HeardInv'
  BY <1>1, SubscribeHeard, NotifyHeard, AsideShape, AsideHeard DEF Begin
<1>2. ASSUME NEW t \in Threads, Continue(t) PROVE HeardInv'
  BY <1>2, SendHeard, AnswerHeard, HandleHeard, PublisherHeard, NotifyHeard, AsideShape,
     AsideHeard DEF Continue
<1>3. ASSUME (\E e \in Events : EventDue(e)) \/ UNCHANGED vars PROVE Aside
  BY <1>3 DEF EventDue, vars, handleVars, subVars, pubVars, ghostVars, Aside
<1>4. CASE UpnpRegisterClient
  BY <1>4, HandleHeard
<1>5. CASE \/ \E t \in Threads : PublisherGrants(t)
           \/ \E s \in Sids : PublisherEnds(s)
  BY <1>5, PublisherHeard
<1> QED
  BY <1>1, <1>2, <1>3, <1>4, <1>5, AsideHeard DEF Next

-----------------------------------------------------------------------------
(* The theorems. *)

(* The invariant holds initially, *)
LEMMA ClientInit == Init => ClientInv
<1> SUFFICES ASSUME Init PROVE ClientInv
  OBVIOUS
<1>1. /\ client = 1 /\ registered = TRUE /\ list = {} /\ nev = 0 /\ corrupt = FALSE
      /\ subscribeLock = NoThread /\ refused = {} /\ excused = {}
      /\ RenewEventId = [s \in Sids |-> NoEvent] /\ finite = [s \in Sids |-> FALSE]
      /\ thr = [t \in Threads |-> Idle]
      /\ event = [e \in Events |-> [sid |-> NoSid, state |-> "none"]]
      /\ publisher = [s \in Sids |-> "none"] /\ initial = [s \in Sids |-> FALSE]
      /\ owner = [s \in Sids |-> 0]
      /\ MaxEvents \in Nat /\ MaxClients \in Nat \ {0}
  BY ClientAssumption DEF Init
<1>2. /\ \A t \in Threads : thr[t].pc = "idle" /\ thr[t].ev = NoEvent
      /\ \A e \in Events : event[e].state = "none"
      /\ \A s \in Sids : /\ owner[s] = 0 /\ publisher[s] = "none" /\ ~initial[s]
                         /\ RenewEventId[s] = NoEvent
  BY <1>1, IdleLocal
<1>3. TypeOK
  <2>1. thr \in [Threads -> Local]
    BY <1>1, IdleLocal
  <2>2. event \in Table
    BY <1>1 DEF Table, States
  <2> QED
    <3>1. client \in 1 .. MaxClients /\ nev \in 0 .. MaxEvents
      BY <1>1
    <3>2. /\ RenewEventId \in [Sids -> Events \cup {NoEvent}] /\ finite \in [Sids -> BOOLEAN]
          /\ publisher \in [Sids -> {"none", "granted", "ended"}] /\ initial \in [Sids -> BOOLEAN]
          /\ owner \in [Sids -> 0 .. MaxClients]
      BY <1>1
    <3> QED
      BY <1>1, <2>1, <2>2, <3>1, <3>2 DEF TypeOK, Table, States, Local, Pcs
<1>4. SubscriberInv /\ OwnerInv /\ RefusedInv
  BY <1>1, <1>2 DEF SubscriberInv, OwnerInv, RefusedInv, Subscribing
<1>5. EventsInv /\ EventInUse /\ RenewalPending
  BY <1>1, <1>2 DEF EventsInv, EventInUse, RenewalPending
<1> QED
  BY <1>3, <1>4, <1>5 DEF ClientInv

(* every step keeps it, *)
LEMMA ClientStep == ClientInv /\ [Next]_vars => ClientInv'
  BY TypeStep, HeardStep, EventsStep, PendingStep DEF ClientInv, HeardInv

(* and so it always holds. *)
LEMMA ClientAlways == Spec => []ClientInv
  BY ClientInit, ClientStep, PTL DEF Spec

(* The event a GenaAutoRenewSubscription reads its SID from is its own: it
   is neither freed by somebody else nor back in the timer. *)
THEOREM RenewalsAreSound == Spec => []RenewalsSound
<1>1. ClientInv => RenewalsSound
  BY DEF ClientInv, RenewalsSound
<1> QED
  BY <1>1, ClientAlways, PTL

(* A subscription with a time-out has a renewal to come, or its application
   was told that one failed. *)
THEOREM RenewalsArePending == Spec => []RenewalPending
<1>1. ClientInv => RenewalPending
  BY DEF ClientInv
<1> QED
  BY <1>1, ClientAlways, PTL

(* gena_client.c:299: of a subscription the client is going to keep the initial
   event is not refused, even if it comes before the answer to SUBSCRIBE, and
   neither is another once one has been acknowledged.  (An event whose SEQ is
   not 0 that is the first to arrive may be refused, gena_client.c:328.) *)
THEOREM KeptEventsAreAccepted == Spec => []KeptEventsAccepted
<1>1. ClientInv => KeptEventsAccepted
  BY DEF ClientInv, RefusedInv, KeptEventsAccepted
<1> QED
  BY <1>1, ClientAlways, PTL

-----------------------------------------------------------------------------
(* Transfer: the items taken from the stream, and the head with b bytes. *)
taken == pos - Len(received)
Read(b) == [i \in 1..(b + 1) |-> IF i = 1 THEN Item("head", 0) ELSE Item("byte", i - 1)]
Cut == peer # "open" /\ arrived < Len(answer.stream)

(* After t items, and b bytes, n bytes of a chunk are still to be read. *)
Rest(a, t, b, n) ==
    /\ n \in Nat /\ b + n \in 0..a.body
    /\ \A j \in 1..n : a.stream[t + j] = Item("byte", b + j)
    /\ a.stream[t + n + 1] = Item("crlf", 0)
    /\ Chunk(a, t + n + 2, b + n)

(* NetReader holds the items that were received and not taken. *)
WireInv ==
    /\ answer \in Answers /\ reader \in {"transferHTTP", "http_Download"}
    /\ peer \in {"open", "closed", "reset"}
    /\ arrived \in 0..Len(answer.stream) /\ pos \in 0..arrived
    /\ Len(received) \in 0..pos /\ received = SubSeq(answer.stream, taken + 1, pos)
    /\ Http => received = <<>> /\ ~eof
    /\ eof => received = <<>> /\ peer = "closed" /\ arrived = pos

(* Where in the answer each step of the readers is. *)
HttpPlace(b) ==
    /\ step = "size" =>
          /\ answer.framing = "chunked" /\ left = -1
          /\ \/ chunk = 0 /\ Rest(answer, taken, b, 0)
             \/ chunk = -1 /\ (Chunk(answer, taken + 1, b) \/ late \/ (Cut /\ arrived = pos))
    /\ step = "body" =>
          \/ /\ answer.framing = "chunked" /\ left = -1
             /\ chunk # 0 /\ Rest(answer, taken, b, chunk)
          \/ /\ answer.framing = "length" /\ left = answer.body - b /\ left > 0
             /\ taken = b + 1
          \/ answer.framing = "close" /\ left = -2 /\ taken = b + 1
MessagePlace(b) ==
    /\ step = "size" => answer.framing = "chunked" /\ Chunk(answer, taken + 1, b)
    /\ step = "body" =>
          \/ answer.framing = "chunked" /\ Rest(answer, taken, b, left)
          \/ answer.framing = "length" /\ left = answer.body - b /\ taken = b + 1
    /\ step = "line" => answer.framing = "chunked" /\ Rest(answer, taken, b, 0)
    /\ step = "trailer" =>
          /\ answer.framing = "chunked" /\ b = answer.body
          /\ taken + 1 = Len(answer.stream) /\ answer.stream[taken + 1] = Item("crlf", 0)
    /\ step = "all" => answer.framing = "close" /\ taken = b + 1

Ended ==
    /\ ret \in {0, HTTP_SUCCESS} =>
          /\ out = Read(answer.body) \/ Cut \/ ~Understood
          /\ Message /\ answer.framing # "close" => out = Read(answer.body) \/ CutInLine
    /\ ret = HTTP_E_BAD_MSG_FORMAT => Cut

PlaceInv ==
    /\ step \in {"connect", "write", "head"} => out = <<>> /\ taken = 0 /\ chunk = -1
    /\ step \in {"size", "body", "line", "trailer", "all"} =>
          \E b \in 0..answer.body :
              /\ out = Read(b)
              /\ IF Http THEN step \in {"size", "body"} /\ HttpPlace(b) ELSE MessagePlace(b)
    /\ step = "done" => Ended /\ (out = <<>> \/ \E b \in 0..answer.body : out = Read(b))
    /\ step \in {"connect", "write", "head", "size", "body", "line", "trailer", "all", "done"}

TransferInv == WireInv /\ PlaceInv

(* A sequence and one that follows it. *)
LEMMA Joined ==
    ASSUME NEW T, NEW r \in Seq(T), NEW s \in Seq(T)
    PROVE  /\ r \o s \in Seq(T) /\ Len(r \o s) = Len(r) + Len(s)
           /\ Len(r) \in Nat /\ Len(s) \in Nat
           /\ \A i \in 1..Len(r) : (r \o s)[i] = r[i]
           /\ \A i \in 1..Len(s) : (r \o s)[Len(r) + i] = s[i]
<1>1. Len(r) \in Nat /\ Len(s) \in Nat
  OBVIOUS
<1>2. /\ r \o s \in Seq(T) /\ Len(r \o s) = Len(r) + Len(s)
      /\ \A i \in 1 .. Len(r) + Len(s) : (r \o s)[i] =
                     IF i <= Len(r) THEN r[i] ELSE s[i - Len(r)]
  BY ConcatProperties
<1>3. ASSUME NEW i \in 1..Len(s) PROVE (r \o s)[Len(r) + i] = s[i]
  <2>1. Len(r) + i \in 1 .. Len(r) + Len(s) /\ ~(Len(r) + i <= Len(r)) /\ (Len(r) + i) - Len(r) = i
    BY <1>1
  <2> QED
    BY <1>2, <2>1
<1>4. ASSUME NEW i \in 1..Len(r) PROVE (r \o s)[i] = r[i]
  BY <1>1, <1>2
<1> QED
  BY <1>1, <1>2, <1>3, <1>4

(* The shape of an answer. *)
LEMMA AnswerShape ==
    ASSUME TransferAssumption, NEW a \in Answers
    PROVE  /\ a.body \in Nat /\ a.stream \in Seq(Items) /\ Len(a.stream) \in Nat \ {0}
           /\ DOMAIN a.stream = 1..Len(a.stream) /\ a.stream[1] = Item("head", 0)
           /\ a.framing \in {"length", "chunked", "close"}
           /\ a.framing = "chunked" => Chunk(a, 2, 0)
           /\ a.framing # "chunked" =>
                 /\ Len(a.stream) = a.body + 1
                 /\ \A i \in 1..a.body : a.stream[i + 1] = Item("byte", i)
<1>1. WellFormedAnswer(a)
  BY DEF TransferAssumption
<1>2. a.stream \in Seq(Items) /\ a.stream # <<>>
  BY <1>1 DEF WellFormedAnswer
<1>3. DOMAIN a.stream = 1..Len(a.stream) /\ Len(a.stream) \in Nat \ {0}
  <2> DEFINE s == a.stream
  <2>1. s \in Seq(Items) /\ s # <<>>
    BY <1>2
  <2> HIDE DEF s
  <2>2. DOMAIN s = 1..Len(s) /\ Len(s) \in Nat \ {0}
    BY <2>1
  <2> QED
    BY <2>2 DEF s
<1>4. ASSUME a.framing # "chunked"
      PROVE  Len(a.stream) = a.body + 1 /\ \A i \in 1..a.body : a.stream[i + 1] = Item("byte", i)
  <2> DEFINE h == <<Item("head", 0)>>
             y == Bytes(0, a.body)
             n == a.body
  <2>1. n \in Nat /\ a.stream = h \o y
    BY <1>1, <1>4 DEF WellFormedAnswer
  <2>2. h \in Seq(Items) /\ Len(h) = 1
    BY DEF Items, Item
  <2>3. y \in Seq(Items) /\ Len(y) = n /\ \A i \in 1..n : y[i] = Item("byte", i)
    <3>1. y = [i \in 1..n |-> Item("byte", 0 + i)]
      BY DEF Bytes
    <3>2. \A i \in 1..n : Item("byte", 0 + i) \in Items /\ 0 + i = i
      BY <2>1 DEF Items, Item
    <3> HIDE DEF y, n
    <3>3. y \in Seq(Items)
      BY <2>1, <3>1, <3>2, IsASeq
    <3> QED
      BY <2>1, <3>1, <3>2, <3>3
  <2> HIDE DEF h, y, n
  <2>4. Len(h \o y) = 1 + n /\ \A i \in 1..n : (h \o y)[i + 1] = y[i]
    <3> DEFINE T == Items
    <3> h \in Seq(T) /\ y \in Seq(T)
      BY <2>2, <2>3
    <3> HIDE DEF T
    <3>1. /\ Len(h \o y) = Len(h) + Len(y)
          /\ \A i \in 1..Len(y) : (h \o y)[Len(h) + i] = y[i]
      BY Joined
    <3> QED
      BY <2>1, <2>2, <2>3, <3>1
  <2> QED
    BY <2>1, <2>3, <2>4 DEF n
<1> QED
  BY <1>1, <1>2, <1>3, <1>4 DEF WellFormedAnswer

(* A chunk's bytes, its line end, and the next chunk. *)
LEMMA ChunkShape ==
    ASSUME TransferAssumption, NEW a \in Answers, a.framing = "chunked",
           NEW i \in Nat, NEW b \in 0..a.body, Chunk(a, i, b)
    PROVE  /\ i \in 1..Len(a.stream) /\ a.stream[i].n \in Nat /\ a.stream[i].kind = "size"
           /\ a.stream[i] = Item("size", a.stream[i].n)
           /\ a.stream[i].n # 0 => Rest(a, i, b, a.stream[i].n)
           /\ a.stream[i].n = 0 => /\ b = a.body /\ Len(a.stream) = i + 1
                                   /\ a.stream[i + 1] = Item("crlf", 0)
<1> DEFINE n == a.stream[i].n
<1>1. i \in 1..Len(a.stream) /\ a.stream[i].kind = "size" /\ b + n \in 0..a.body
  BY AnswerShape DEF Chunk
<1>2. a.stream[i] \in Items
  <2> DEFINE s == a.stream
  <2>1. s \in Seq(Items)
    BY AnswerShape
  <2> HIDE DEF s
  <2>2. \A k \in 1..Len(s) : s[k] \in Items
    BY <2>1
  <2> QED
    BY <1>1, <2>2 DEF s
<1>3. n \in Nat /\ a.stream[i] = Item("size", n)
  BY <1>1, <1>2 DEF Items, Item
<1>4. ASSUME n # 0 PROVE Rest(a, i, b, n)
  <2>1. Chunk(a, i + n + 2, b + n)
    BY <1>1, <1>4, AnswerShape DEF TransferAssumption, WellFormedAnswer
  <2>2. (\A j \in 1..n : a.stream[i + j] = Item("byte", b + j))
        /\ a.stream[i + n + 1] = Item("crlf", 0)
    BY <1>4 DEF Chunk
  <2> HIDE DEF n
  <2> QED
    BY <1>1, <1>3, <2>1, <2>2 DEF Rest
<1>5. n = 0 => b = a.body /\ Len(a.stream) = i + 1 /\ a.stream[i + 1] = Item("crlf", 0)
  BY DEF Chunk
<1> QED
  BY <1>1, <1>3, <1>4, <1>5

(* Part of a chunk is read. *)
LEMMA RestOn ==
    ASSUME NEW a, a.body \in Nat, NEW t \in Nat, NEW b \in Nat, NEW n, Rest(a, t, b, n),
           NEW k \in 0..n
    PROVE  Rest(a, t + k, b + k, n - k)
<1>1. n \in Nat /\ b + n \in 0..a.body /\ k \in Nat
  BY DEF Rest
<1>2. /\ n - k \in Nat /\ (b + k) + (n - k) = b + n
      /\ t + k + (n - k) + 1 = t + n + 1 /\ t + k + (n - k) + 2 = t + n + 2
  BY <1>1
<1>3. \A j \in 1..(n - k) : a.stream[t + k + j] = Item("byte", b + k + j)
  <2> TAKE j \in 1..(n - k)
  <2>1. k + j \in 1..n /\ t + k + j = t + (k + j) /\ b + k + j = b + (k + j)
    BY <1>1
  <2> QED
    BY <2>1 DEF Rest
<1> QED
  BY <1>1, <1>2, <1>3 DEF Rest

(* What has been read, as a sequence. *)
LEMMA ReadSequence ==
    ASSUME NEW b \in Nat
    PROVE  /\ Read(b) \in Seq(Items) /\ Len(Read(b)) = b + 1
           /\ \A i \in 1..(b + 1) : Read(b)[i] = IF i = 1 THEN Item("head", 0) ELSE Item("byte", i - 1)
<1> DEFINE r == Read(b)
<1>1. r = [i \in 1..(b + 1) |-> IF i = 1 THEN Item("head", 0) ELSE Item("byte", i - 1)]
  BY DEF Read
<1>2. \A i \in 1..(b + 1) : (IF i = 1 THEN Item("head", 0) ELSE Item("byte", i - 1)) \in Items
  BY DEF Items, Item
<1> HIDE DEF r
<1>3. r \in Seq(Items)
  BY <1>1, <1>2, IsASeq
<1>4. Len(r) = b + 1
  BY <1>1, <1>3
<1> QED
  BY <1>1, <1>3, <1>4 DEF r

(* What two sequences are joined to. *)
LEMMA JoinedTo ==
    ASSUME NEW T, NEW r \in Seq(T), NEW s \in Seq(T), NEW q \in Seq(T),
           Len(q) = Len(r) + Len(s),
           \A i \in 1..Len(r) : q[i] = r[i],
           \A i \in 1..Len(s) : q[Len(r) + i] = s[i]
    PROVE  r \o s = q
<1> DEFINE w == r \o s
<1>1. /\ w \in Seq(T) /\ Len(w) = Len(q) /\ Len(r) \in Nat /\ Len(s) \in Nat
      /\ \A i \in 1..Len(r) : w[i] = r[i]
      /\ \A i \in 1..Len(s) : w[Len(r) + i] = s[i]
  BY Joined
<1> HIDE DEF w
<1>2. ASSUME NEW i \in 1..Len(w) PROVE w[i] = q[i]
  <2>1. CASE i <= Len(r)
    <3>1. i \in 1..Len(r)
      BY <2>1, <1>1
    <3> QED
      BY <1>1, <3>1
  <2>2. CASE i > Len(r)
    <3> DEFINE k == i - Len(r)
    <3>1. k \in 1..Len(s) /\ i = Len(r) + k
      BY <1>1, <2>2
    <3> HIDE DEF k
    <3> QED
      BY <1>1, <3>1
  <2> QED
    BY <1>1, <2>1, <2>2
<1>3. w = q
  BY <1>1, <1>2, SeqEqual
<1> QED
  BY <1>3 DEF w

(* The bytes after those read. *)
LEMMA ReadOn ==
    ASSUME NEW b \in Nat, NEW n \in Nat, NEW s \in Seq(Items), Len(s) = n,
           \A j \in 1..n : s[j] = Item("byte", b + j)
    PROVE  Read(b) \o s = Read(b + n)
<1> DEFINE m == b + n
           AtPlace(i) == IF i = 1 THEN Item("head", 0) ELSE Item("byte", i - 1)
<1>1. m \in Nat
  OBVIOUS
<1>2. /\ Read(b) \in Seq(Items) /\ Len(Read(b)) = b + 1
      /\ \A i \in 1..(b + 1) : Read(b)[i] = AtPlace(i)
  BY ReadSequence
<1>3. /\ Read(m) \in Seq(Items) /\ Len(Read(m)) = m + 1
      /\ \A i \in 1..(m + 1) : Read(m)[i] = AtPlace(i)
  <2> HIDE DEF m
  <2> QED
    BY <1>1, ReadSequence
<1>4. \A i \in 1..n : AtPlace(b + 1 + i) = Item("byte", b + i)
  <2> TAKE i \in 1..n
  <2>1. b + 1 + i # 1 /\ b + 1 + i - 1 = b + i
    OBVIOUS
  <2> QED
    BY <2>1
<1> HIDE DEF AtPlace
<1>5. Len(Read(m)) = Len(Read(b)) + Len(s)
  BY <1>2, <1>3
<1>6. \A i \in 1..Len(Read(b)) : Read(m)[i] = Read(b)[i]
  BY <1>2, <1>3
<1>7. \A i \in 1..Len(s) : Read(m)[Len(Read(b)) + i] = s[i]
  <2> TAKE i \in 1..Len(s)
  <2>1. b + 1 + i \in 1..(m + 1) /\ i \in 1..n
    OBVIOUS
  <2>2. Read(m)[b + 1 + i] = AtPlace(b + 1 + i)
    BY <1>3, <2>1
  <2> QED
    BY <1>2, <1>4, <2>1, <2>2
<1> HIDE DEF m
<1>8. Read(b) \o s = Read(m)
  <2> DEFINE r == Read(b)
             q == Read(m)
             T == Items
  <2>1. /\ r \in Seq(T) /\ q \in Seq(T) /\ s \in Seq(T) /\ Len(q) = Len(r) + Len(s)
        /\ \A i \in 1..Len(r) : q[i] = r[i]
        /\ \A i \in 1..Len(s) : q[Len(r) + i] = s[i]
    BY <1>2, <1>3, <1>5, <1>6, <1>7
  <2> HIDE DEF r, q, T
  <2>2. r \o s = q
    BY <2>1, JoinedTo
  <2> QED
    BY <2>2 DEF r, q
<1> QED
  BY <1>8 DEF m

(* The head alone. *)
LEMMA HeadRead == Read(0) = <<Item("head", 0)>>
<1> DEFINE r == Read(0)
           h == Item("head", 0)
<1>1. r = [i \in 1..1 |-> IF i = 1 THEN h ELSE Item("byte", i - 1)]
  BY DEF Read
<1>2. r = [i \in 1..1 |-> h]
  BY <1>1
<1> HIDE DEF r, h
<1>3. r = <<h>>
  BY <1>2
<1> QED
  BY <1>3 DEF r, h

(* Part of a sequence. *)
LEMMA PieceOf ==
    ASSUME NEW T, NEW s \in Seq(T), NEW m \in Nat, NEW n \in Nat, m + n <= Len(s)
    PROVE  /\ SubSeq(s, m + 1, m + n) \in Seq(T) /\ Len(SubSeq(s, m + 1, m + n)) = n
           /\ \A i \in 1..n : SubSeq(s, m + 1, m + n)[i] = s[m + i]
<1> DEFINE p == m + 1
           q == m + n
<1>1. p \in Int /\ q \in Int /\ q - p + 1 = n /\ (p <= q <=> n # 0)
  OBVIOUS
<1>2. \A i \in p..q : s[i] \in T
  OBVIOUS
<1>3. \A i \in 1..n : p + i - 1 = m + i
  OBVIOUS
<1> HIDE DEF p, q
<1>4. /\ SubSeq(s, p, q) \in Seq(T)
      /\ Len(SubSeq(s, p, q)) = IF p <= q THEN q - p + 1 ELSE 0
      /\ \A i \in 1 .. q - p + 1 : SubSeq(s, p, q)[i] = s[p + i - 1]
  BY <1>1, <1>2, SubSeqProperties
<1>5. Len(SubSeq(s, p, q)) = n /\ \A i \in 1..n : SubSeq(s, p, q)[i] = s[m + i]
  BY <1>1, <1>3, <1>4
<1> QED
  BY <1>4, <1>5 DEF p, q

(* A piece of a piece. *)
LEMMA PieceOfPiece ==
    ASSUME NEW T, NEW s \in Seq(T), NEW t \in Nat, NEW l \in Nat, t + l <= Len(s),
           NEW k \in Nat, NEW n \in Nat, k + n <= l
    PROVE  SubSeq(SubSeq(s, t + 1, t + l), k + 1, k + n) = SubSeq(s, t + k + 1, t + k + n)
<1> DEFINE r == SubSeq(s, t + 1, t + l)
           u == SubSeq(r, k + 1, k + n)
           v == SubSeq(s, t + k + 1, t + k + n)
<1>1. r \in Seq(T) /\ Len(r) = l /\ \A i \in 1..l : r[i] = s[t + i]
  BY PieceOf
<1>2. u \in Seq(T) /\ Len(u) = n /\ \A i \in 1..n : u[i] = r[k + i]
  <2> HIDE DEF r
  <2> QED
    BY <1>1, PieceOf
<1>3. v \in Seq(T) /\ Len(v) = n /\ \A i \in 1..n : v[i] = s[t + k + i]
  <2> DEFINE m == t + k
  <2> m \in Nat /\ m + n <= Len(s)
    OBVIOUS
  <2> HIDE DEF m
  <2>1. /\ SubSeq(s, m + 1, m + n) \in Seq(T) /\ Len(SubSeq(s, m + 1, m + n)) = n
        /\ \A i \in 1..n : SubSeq(s, m + 1, m + n)[i] = s[m + i]
    BY PieceOf
  <2> QED
    BY <2>1 DEF m
<1> HIDE DEF r, u, v
<1>4. \A i \in 1..n : u[i] = v[i]
  <2> TAKE i \in 1..n
  <2>1. k + i \in 1..l /\ t + (k + i) = t + k + i
    OBVIOUS
  <2> QED
    BY <1>1, <1>2, <1>3, <2>1
<1>5. u = v
  BY <1>2, <1>3, <1>4, SeqEqual
<1> QED
  BY <1>5 DEF r, u, v

(* The positions in the stream. *)
LEMMA WireFacts ==
    ASSUME TransferAssumption, WireInv
    PROVE  /\ pos \in Nat /\ arrived \in Nat /\ taken \in Nat /\ Len(answer.stream) \in Nat
           /\ taken <= pos /\ pos <= arrived /\ arrived <= Len(answer.stream)
           /\ Len(received) = pos - taken /\ Len(received) \in Nat
           /\ received \in Seq(Items) /\ received = SubSeq(answer.stream, taken + 1, taken + Len(received))
           /\ (received = <<>> => taken = pos) /\ (Http => taken = pos)
           /\ answer.stream \in Seq(Items) /\ taken + Len(received) = pos
<1>1. answer.stream \in Seq(Items) /\ Len(answer.stream) \in Nat
  BY AnswerShape DEF WireInv
<1>2. /\ pos \in Nat /\ arrived \in Nat /\ Len(received) \in Nat /\ taken \in Nat
      /\ taken <= pos /\ pos <= arrived /\ arrived <= Len(answer.stream)
      /\ Len(received) = pos - taken
  BY <1>1 DEF WireInv, taken
<1>3. pos = taken + Len(received)
  BY <1>2
<1>4. received = SubSeq(answer.stream, taken + 1, taken + Len(received))
  BY <1>3 DEF WireInv
<1>5. received \in Seq(Items)
  <2> DEFINE s == answer.stream
             n == Len(received)
             T == Items
  <2>1. s \in Seq(T) /\ n \in Nat /\ taken \in Nat /\ taken + n <= Len(s) /\ received = SubSeq(s, taken + 1, taken + n)
    BY <1>1, <1>2, <1>3, <1>4
  <2> HIDE DEF s, n, T, taken
  <2>2. received \in Seq(T)
    BY <2>1, PieceOf
  <2> QED
    BY <2>2 DEF T
<1>6. (received = <<>> => Len(received) = 0) /\ (Http => received = <<>>)
  BY DEF WireInv
<1> QED
  BY <1>1, <1>2, <1>3, <1>4, <1>5, <1>6

(* Items are taken from those received. *)
LEMMA TakesBytes ==
    ASSUME TransferAssumption, WireInv, NEW n \in 1..Len(received),
           received' = SubSeq(received, n + 1, Len(received)),
           UNCHANGED <<answer, arrived, peer, reader, pos, eof>>, Message
    PROVE  /\ WireInv' /\ taken' = taken + n /\ taken + n <= pos
           /\ SubSeq(received, 1, n) = SubSeq(answer.stream, taken + 1, taken + n)
<1> DEFINE s == answer.stream
           t == taken
           l == Len(received)
           T == Items
<1>1. /\ s \in Seq(T) /\ t \in Nat /\ l \in Nat /\ t + l = pos /\ t + l <= Len(s)
      /\ received = SubSeq(s, t + 1, t + l) /\ pos \in Nat
      /\ n \in 1..l
  <2>1. /\ answer.stream \in Seq(Items) /\ taken \in Nat /\ Len(received) \in Nat /\ pos \in Nat
        /\ taken + Len(received) = pos /\ pos <= Len(answer.stream)
        /\ received = SubSeq(answer.stream, taken + 1, taken + Len(received))
    <3>1. /\ pos <= arrived /\ arrived <= Len(answer.stream) /\ pos \in Nat /\ arrived \in Nat
          /\ Len(answer.stream) \in Nat
      BY WireFacts
    <3>2. pos <= Len(answer.stream)
      <4> DEFINE z == Len(answer.stream)
      <4>1. pos <= arrived /\ arrived <= z /\ pos \in Nat /\ arrived \in Nat /\ z \in Nat
        BY <3>1
      <4> HIDE DEF z
      <4>2. pos <= z
        BY <4>1
      <4> QED
        BY <4>2 DEF z
    <3> QED
      BY <3>2, WireFacts
  <2> QED
    BY <2>1
<1> HIDE DEF s, t, l, T
<1>2. n \in Nat /\ l - n \in Nat /\ n + (l - n) <= l /\ n + (l - n) = l /\ 0 + n <= l
      /\ n <= l /\ (t + n) + (l - n) <= Len(s) /\ t + n + (l - n) = pos
  BY <1>1
<1>3. SubSeq(received, 1, n) = SubSeq(s, t + 1, t + n)
  <2> HIDE DEF s, t, l, T
  <2>1. SubSeq(SubSeq(s, t + 1, t + l), 0 + 1, 0 + n) = SubSeq(s, t + 0 + 1, t + 0 + n)
    BY <1>1, <1>2, PieceOfPiece
  <2>2. 0 + 1 = 1 /\ 0 + n = n /\ t + 0 = t
    BY <1>1
  <2> QED
    BY <1>1, <2>1, <2>2
<1>4. received' = SubSeq(s, t + n + 1, pos)
  <2> DEFINE k == l - n
  <2>1. k \in Nat /\ n + k <= l /\ n + k = l /\ t + n + k = pos
    BY <1>2
  <2>2. received' = SubSeq(received, n + 1, l)
    BY DEF l
  <2> HIDE DEF s, t, l, T, k
  <2>3. SubSeq(SubSeq(s, t + 1, t + l), n + 1, n + k) = SubSeq(s, t + n + 1, t + n + k)
    BY <1>1, <1>2, <2>1, PieceOfPiece
  <2> QED
    BY <1>1, <2>1, <2>2, <2>3
<1>5. Len(received') = l - n
  <2> DEFINE k == l - n
             m == t + n
  <2>1. k \in Nat /\ m \in Nat /\ m + k <= Len(s) /\ received' = SubSeq(s, m + 1, m + k)
    <3>1. l - n \in Nat /\ t + n \in Nat /\ (t + n) + (l - n) <= Len(s) /\ (t + n) + (l - n) = pos
      BY <1>1, <1>2
    <3> QED
      BY <1>4, <3>1
  <2> HIDE DEF s, t, l, T, k, m
  <2>2. Len(SubSeq(s, m + 1, m + k)) = k
    BY <1>1, <2>1, PieceOf
  <2> QED
    BY <2>1, <2>2 DEF k
<1>6. taken' = t + n
  <2> HIDE DEF t, l
  <2>1. taken' = pos - (l - n)
    BY <1>5 DEF taken
  <2> QED
    BY <1>1, <1>2, <2>1
<1>7. received' = SubSeq(s, taken' + 1, pos)
  <2>1. t + n + 1 = taken' + 1
    BY <1>6
  <2> QED
    BY <1>4, <2>1
<1>8. ~Http /\ ~eof
  <2>1. received # <<>>
    BY <1>1, <1>2 DEF l
  <2> QED
    BY <2>1 DEF WireInv, Message
<1>9. Len(received') \in 0..pos
  BY <1>1, <1>2, <1>5
<1>10. WireInv'
  <2> HIDE DEF s, t, l
  <2> QED
    BY <1>7, <1>8, <1>9 DEF WireInv, s, Http
<1> QED
  <2>1. t + n <= pos
    BY <1>1, <1>2
  <2> QED
    BY <1>3, <1>6, <1>10, <2>1 DEF s, t

(* A token is taken. *)
LEMMA TakesItem ==
    ASSUME TransferAssumption, WireInv, NEW item, TakeItem(item),
           UNCHANGED <<answer, arrived, peer, reader, pos, eof>>, Message
    PROVE  /\ WireInv' /\ taken' = taken + 1 /\ taken + 1 <= pos
           /\ answer.stream[taken + 1] = item
<1>1. received # <<>> /\ received \in Seq(Items) /\ Head(received) = item
  BY WireFacts DEF TakeItem
<1>2. 1 \in 1..Len(received) /\ received[1] = item
  BY <1>1
<1>3. received' = SubSeq(received, 1 + 1, Len(received))
  <2>1. Tail(received) = SubSeq(received, 2, Len(received))
    BY <1>1, TailIsSubSeq
  <2> QED
    BY <2>1 DEF TakeItem
<1>4. WireInv' /\ taken' = taken + 1 /\ taken + 1 <= pos
  <2> DEFINE n == 1
  <2>1. n \in 1..Len(received) /\ received' = SubSeq(received, n + 1, Len(received))
    BY <1>2, <1>3
  <2> HIDE DEF n
  <2>2. WireInv' /\ taken' = taken + n /\ taken + n <= pos
    BY <2>1, TakesBytes
  <2> QED
    BY <2>2 DEF n
<1>5. received[1] = answer.stream[taken + 1]
  <2> DEFINE s == answer.stream
             n == Len(received)
             T == Items
             z == Len(answer.stream)
  <2>0. /\ n \in Nat /\ taken \in Nat /\ taken + n = pos /\ pos \in Nat
        /\ pos <= arrived /\ arrived <= z /\ arrived \in Nat /\ z \in Nat
    BY WireFacts
  <2>1. s \in Seq(T) /\ n \in Nat /\ taken \in Nat /\ taken + n <= Len(s)
        /\ received = SubSeq(s, taken + 1, taken + n) /\ 1 \in 1..n
    <3>1. taken + n <= z
      <4> HIDE DEF n, z, taken
      <4> QED
        BY <2>0
    <3> QED
      BY <3>1, <1>2, WireFacts
  <2> HIDE DEF s, n, T, taken
  <2>2. \A i \in 1..n : received[i] = s[taken + i]
    BY <2>1, PieceOf
  <2> QED
    BY <2>1, <2>2 DEF s
<1> QED
  BY <1>2, <1>4, <1>5

(* All that can be read. *)
LEMMA WholeIsRead ==
    ASSUME TransferAssumption, answer \in Answers
    PROVE  Whole = Read(answer.body)
<1> DEFINE n == answer.body
           y == Bytes(0, answer.body)
<1>1. n \in Nat
  BY AnswerShape
<1>2. y \in Seq(Items) /\ Len(y) = n /\ \A i \in 1..n : y[i] = Item("byte", 0 + i)
  <2>1. y = [i \in 1..n |-> Item("byte", 0 + i)]
    BY DEF Bytes
  <2>2. \A i \in 1..n : Item("byte", 0 + i) \in Items
    BY <1>1 DEF Items, Item
  <2> HIDE DEF y, n
  <2>3. y \in Seq(Items)
    BY <1>1, <2>1, <2>2, IsASeq
  <2> QED
    BY <1>1, <2>1, <2>3
<1>3. Whole = Read(0) \o y
  BY HeadRead DEF Whole
<1> HIDE DEF y, n
<1>4. Read(0) \o y = Read(0 + n)
  BY <1>1, <1>2, ReadOn
<1>5. 0 + n = n
  BY <1>1
<1> QED
  BY <1>3, <1>4, <1>5 DEF n

(* What has been read is a prefix of what can be. *)
LEMMA ReadIsPrefix ==
    ASSUME NEW n \in Nat, NEW b \in 0..n
    PROVE  IsPrefix(Read(b), Read(n)) /\ IsPrefix(<<>>, Read(n))
<1> DEFINE AtPlace(i) == IF i = 1 THEN Item("head", 0) ELSE Item("byte", i - 1)
           r == Read(b)
           q == Read(n)
           m == b + 1
           T == Items
<1>1. /\ r \in Seq(T) /\ Len(r) = m /\ \A i \in 1..m : r[i] = AtPlace(i)
      /\ q \in Seq(T) /\ Len(q) = n + 1 /\ \A i \in 1..(n + 1) : q[i] = AtPlace(i)
      /\ m \in 1..(n + 1)
  BY ReadSequence
<1> HIDE DEF AtPlace, r, q, m, T
<1>2. \A k \in 0..m : /\ SubSeq(r, 1, k) \in Seq(T) /\ Len(SubSeq(r, 1, k)) = k
                      /\ SubSeq(q, 1, k) \in Seq(T) /\ Len(SubSeq(q, 1, k)) = k
                      /\ \A i \in 1..k : SubSeq(r, 1, k)[i] = r[i] /\ SubSeq(q, 1, k)[i] = q[i]
  <2> TAKE k \in 0..m
  <2>1. 0 \in Nat /\ k \in Nat /\ 0 + k <= Len(r) /\ 0 + k <= Len(q) /\ 0 + 1 = 1 /\ 0 + k = k
        /\ \A i \in 1..k : 0 + i = i
    BY <1>1
  <2>2. /\ SubSeq(r, 0 + 1, 0 + k) \in Seq(T) /\ Len(SubSeq(r, 0 + 1, 0 + k)) = k
        /\ \A i \in 1..k : SubSeq(r, 0 + 1, 0 + k)[i] = r[0 + i]
    BY <1>1, <2>1, PieceOf
  <2>3. /\ SubSeq(q, 0 + 1, 0 + k) \in Seq(T) /\ Len(SubSeq(q, 0 + 1, 0 + k)) = k
        /\ \A i \in 1..k : SubSeq(q, 0 + 1, 0 + k)[i] = q[0 + i]
    BY <1>1, <2>1, PieceOf
  <2> QED
    BY <2>1, <2>2, <2>3
<1>3. SubSeq(r, 1, m) = SubSeq(q, 1, m)
  <2> DEFINE u == SubSeq(r, 1, m)
             v == SubSeq(q, 1, m)
  <2>1. /\ u \in Seq(T) /\ v \in Seq(T) /\ Len(u) = m /\ Len(v) = m
        /\ \A i \in 1..m : u[i] = r[i] /\ v[i] = q[i]
    <3>1. m \in 0..m
      BY <1>1
    <3> QED
      BY <1>2, <3>1
  <2>2. \A i \in 1..m : u[i] = v[i]
    BY <1>1, <2>1
  <2> HIDE DEF u, v
  <2>3. u = v
    BY <2>1, <2>2, SeqEqual
  <2> QED
    BY <2>3 DEF u, v
<1>4. IsPrefix(r, q)
  BY <1>1, <1>3 DEF IsPrefix
<1>5. IsPrefix(<<>>, q)
  <2>1. SubSeq(<<>>, 1, 0) = <<>> /\ SubSeq(q, 1, 0) = <<>>
    BY SubSeqEmpty
  <2> QED
    BY <1>1, <2>1 DEF IsPrefix
<1> QED
  BY <1>4, <1>5 DEF r, q

(* Of the rest of a chunk, and of a chunk, the end is in the stream. *)
LEMMA RestReaches ==
    ASSUME TransferAssumption, NEW a \in Answers, NEW t \in Nat, NEW b, NEW n, Rest(a, t, b, n)
    PROVE  n \in Nat /\ b + n \in 0..a.body /\ t + n + 2 <= Len(a.stream) /\ Len(a.stream) \in Nat
<1>1. n \in Nat /\ t + n + 2 \in DOMAIN a.stream /\ b + n \in 0..a.body
  BY DEF Rest, Chunk
<1> QED
  BY <1>1, AnswerShape

(* The empty piece. *)
LEMMA NothingBetween == ASSUME NEW s, NEW p \in Nat PROVE SubSeq(s, p + 1, p) = <<>>
<1>1. p + 1 \in Int /\ p \in Int /\ p < p + 1
  OBVIOUS
<1> QED
  BY <1>1, SubSeqEmpty

(* The network's part of the invariant when the reader takes its step. *)
LEMMA WireOn ==
    ASSUME TransferAssumption, WireInv, UNCHANGED <<answer, arrived, peer, reader, received, eof>>,
           pos' = pos \/ (Http /\ pos' \in pos..arrived)
    PROVE  WireInv' /\ (Http => taken' = pos') /\ (pos' = pos => taken' = taken)
<1>1. taken' = pos' - Len(received)
  BY DEF taken
<1>2. CASE pos' = pos
  BY <1>1, <1>2, WireFacts DEF WireInv, taken, Http
<1>3. CASE Http /\ pos' \in pos..arrived /\ pos' # pos
  <2>1. received = <<>> /\ Len(received) = 0 /\ ~eof
    <3>1. received = <<>> /\ ~eof
      BY <1>3 DEF WireInv
    <3> QED
      BY <3>1
  <2>2. pos' \in Nat /\ pos' \in 0..arrived /\ taken' = pos' /\ 0 \in 0..pos'
    <3>1. pos \in Nat /\ arrived \in Nat
      BY WireFacts
    <3> DEFINE p == pos'
    <3>2. p \in pos..arrived /\ taken' = p - 0
      BY <1>1, <1>3, <2>1
    <3> HIDE DEF p
    <3>3. p \in Nat /\ p \in 0..arrived /\ p - 0 = p /\ 0 \in 0..p
      BY <3>1, <3>2
    <3> QED
      BY <3>2, <3>3 DEF p
  <2>3. <<>> = SubSeq(answer.stream, pos' + 1, pos')
    BY <2>2, NothingBetween
  <2>4. /\ answer' = answer /\ arrived' = arrived /\ peer' = peer /\ reader' = reader
        /\ received' = <<>> /\ Len(received') = 0 /\ ~eof'
    BY <2>1
  <2>5. received' = SubSeq(answer'.stream, taken' + 1, pos')
    BY <2>2, <2>3, <2>4
  <2>6. Len(received') \in 0..pos' /\ pos' \in 0..arrived'
    BY <2>2, <2>4
  <2>7. /\ answer' \in Answers /\ reader' \in {"transferHTTP", "http_Download"}
        /\ peer' \in {"open", "closed", "reset"} /\ arrived' \in 0..Len(answer'.stream)
    BY <2>4 DEF WireInv
  <2> QED
    BY <1>3, <2>2, <2>4, <2>5, <2>6, <2>7 DEF WireInv
<1> QED
  BY <1>2, <1>3

(* Nothing but the network moves. *)
LEMMA PlaceStays ==
    ASSUME PlaceInv, UNCHANGED <<answer, reader, step, left, chunk, out, ret, late>>, taken' = taken,
           Cut => Cut', Cut /\ arrived = pos => arrived' = pos', CutInLine => CutInLine'
    PROVE  PlaceInv'
<1>1. Understood' = Understood /\ Message' = Message /\ Http' = Http
  BY DEF Understood, Message, Http
<1>2. Ended => Ended'
  BY <1>1 DEF Ended, Read
<1>3. ASSUME NEW b \in 0..answer.body, HttpPlace(b) PROVE HttpPlace(b)'
  BY <1>3 DEF HttpPlace
<1>4. ASSUME NEW b \in 0..answer.body, MessagePlace(b) PROVE MessagePlace(b)'
  BY <1>4 DEF MessagePlace
<1> QED
  BY <1>1, <1>2, <1>3, <1>4 DEF PlaceInv, Read

(* AnswerArrives and PeerStops *)
LEMMA NetworkMoves ==
    ASSUME TransferAssumption, TransferInv, AnswerArrives \/ PeerStops
    PROVE  TransferInv'
<1>0. WireInv /\ PlaceInv
  BY DEF TransferInv
<1>1. /\ UNCHANGED <<answer, reader, step, pos, received, eof, left, chunk, out, ret, late>>
      /\ peer = "open" /\ taken' = taken
  BY DEF AnswerArrives, PeerStops, taken
<1>2. ~Cut
  BY <1>1 DEF Cut
<1>3. PlaceInv'
  <2>1. (Cut => Cut') /\ (Cut /\ arrived = pos => arrived' = pos')
    BY <1>2
  <2>2. CutInLine => CutInLine'
    BY <1>1 DEF CutInLine
  <2> QED
    BY <1>0, <1>1, <2>1, <2>2, PlaceStays
<1>4. arrived' \in 0..Len(answer.stream) /\ pos \in 0..arrived' /\ peer' \in {"open", "closed", "reset"}
  <2> DEFINE z == Len(answer.stream)
  <2>1. pos \in 0..arrived /\ arrived \in 0..z /\ z \in Nat
    BY <1>0, WireFacts DEF WireInv
  <2>2. arrived' \in (arrived + 1)..z \/ arrived' = arrived
    BY DEF AnswerArrives, PeerStops
  <2>3. peer' \in {"open", "closed", "reset"}
    BY <1>0 DEF AnswerArrives, PeerStops, WireInv
  <2> HIDE DEF z
  <2>4. arrived' \in 0..z /\ pos \in 0..arrived'
    BY <2>1, <2>2
  <2> QED
    BY <2>3, <2>4 DEF z
<1>5. ~eof
  BY <1>0, <1>1 DEF WireInv
<1>6. WireInv'
  BY <1>0, <1>1, <1>4, <1>5 DEF WireInv, Http
<1> QED
  BY <1>3, <1>6 DEF TransferInv

(* TimeRunsOut *)
LEMMA TimeIsOver ==
    ASSUME TransferAssumption, TransferInv, TimeRunsOut
    PROVE  TransferInv'
<1>0. WireInv /\ PlaceInv
  BY DEF TransferInv
<1>1. /\ UNCHANGED <<answer, arrived, peer, reader, step, pos, received, eof, left, chunk, out, ret>>
      /\ late' = TRUE /\ Http /\ Http' /\ step # "done"
  BY DEF TimeRunsOut, Http
<1>2. WireInv' /\ taken' = taken
  BY <1>0, <1>1, WireOn
<1>3. ASSUME NEW b \in 0..answer.body, HttpPlace(b) PROVE HttpPlace(b)'
  BY <1>1, <1>2, <1>3 DEF HttpPlace
<1>4. PlaceInv'
  BY <1>0, <1>1, <1>2, <1>3 DEF PlaceInv, Read
<1> QED
  BY <1>2, <1>4 DEF TransferInv

(* The request is sent. *)
LEMMA RequestSent ==
    ASSUME TransferAssumption, TransferInv, Connect \/ write_bytes \/ SendGet
    PROVE  TransferInv'
<1>0. WireInv /\ PlaceInv
  BY DEF TransferInv
<1>1. /\ UNCHANGED <<answer, arrived, peer, reader, pos, received, eof, left, chunk, out>>
      /\ step \in {"connect", "write"}
      /\ \/ step' \in {"connect", "write", "head"}
         \/ step' = "done" /\ ret' \in {-204, -201, -1}
  BY DEF Connect, write_bytes, SendGet, network, Ends, UPNP_E_SOCKET_CONNECT, UPNP_E_SOCKET_WRITE
<1>2. WireInv' /\ taken' = taken
  BY <1>0, <1>1, WireOn
<1>3. out' = <<>> /\ taken' = 0 /\ chunk' = -1
  BY <1>0, <1>1, <1>2 DEF PlaceInv
<1>4. step' = "done" => Ended'
  BY <1>1 DEF Ended, HTTP_SUCCESS, HTTP_E_BAD_MSG_FORMAT
<1>5. PlaceInv'
  BY <1>1, <1>3, <1>4 DEF PlaceInv
<1> QED
  BY <1>2, <1>5 DEF TransferInv

(* A line that is read is the next item of the stream. *)
LEMMA LineReadAt ==
    ASSUME TransferAssumption, WireInv, Http, NEW item, LineRead(item)
    PROVE  /\ pos' \in pos..arrived /\ taken = pos /\ pos' = taken + 1 /\ pos # arrived
           /\ answer.stream[taken + 1] = item
<1>1. /\ pos \in Nat /\ arrived \in Nat /\ Len(answer.stream) \in Nat
      /\ arrived <= Len(answer.stream) /\ answer.stream \in Seq(Items) /\ taken = pos
  BY WireFacts
<1>2. arrived > pos /\ pos' = pos + 1
  BY <1>1 DEF LineRead, Available
<1>3. pos + 1 <= Len(answer.stream)
  <2> DEFINE z == Len(answer.stream)
  <2>1. z \in Nat /\ arrived <= z
    BY <1>1
  <2> HIDE DEF z
  <2>2. pos + 1 <= z
    BY <1>1, <1>2, <2>1
  <2> QED
    BY <2>2 DEF z
<1>4. SubSeq(answer.stream, pos + 1, pos + 1)[1] = answer.stream[pos + 1]
  <2> DEFINE T == Items
             s == answer.stream
             n == 1
  <2>1. s \in Seq(T) /\ n \in Nat /\ pos + n <= Len(s) /\ 1 \in 1..n
    BY <1>1, <1>3
  <2> HIDE DEF T, s, n
  <2>2. SubSeq(s, pos + 1, pos + n)[1] = s[pos + 1]
    BY <1>1, <2>1, PieceOf
  <2> QED
    BY <2>2 DEF s, n
<1>5. SubSeq(answer.stream, pos + 1, pos + 1) = <<item>>
  BY DEF LineRead, Ahead
<1>6. answer.stream[pos + 1] = item
  <2> DEFINE q == SubSeq(answer.stream, pos + 1, pos + 1)
             e == answer.stream[pos + 1]
  <2>1. q = <<item>> /\ q[1] = e
    BY <1>4, <1>5
  <2> HIDE DEF q, e
  <2>2. e = item
    BY <2>1
  <2> QED
    BY <2>2 DEF e
<1>7. pos \in Nat /\ arrived \in Nat /\ taken = pos
  BY <1>1
<1>8. pos' \in pos..arrived /\ pos # arrived
  <2> DEFINE p == pos'
  <2>1. p = pos + 1 /\ arrived > pos
    BY <1>2
  <2> HIDE DEF p
  <2>2. p \in pos..arrived /\ pos # arrived
    BY <1>7, <2>1
  <2> QED
    BY <2>2 DEF p
<1> QED
  BY <1>2, <1>6, <1>7, <1>8

(* The connection is found to be over before the end of the answer. *)
LEMMA EndsEarly ==
    ASSUME TransferAssumption, WireInv, Available = 0, peer # "open"
    PROVE  arrived = pos /\ peer # "open" /\ (pos < Len(answer.stream) => Cut)
<1>1. arrived = pos /\ peer # "open"
  <2>1. arrived \in Nat /\ pos \in Nat
    BY WireFacts
  <2>2. arrived - pos = 0 /\ peer # "open"
    BY DEF Available
  <2> QED
    BY <2>1, <2>2
<1> QED
  BY <1>1 DEF Cut

(* transferHTTP finds the end, an error or that its time is over. *)
LEMMA ReadEnds ==
    ASSUME TransferAssumption, WireInv, HttpAtEnd \/ ReadFails
    PROVE  late \/ (arrived = pos /\ (pos < Len(answer.stream) => Cut))
BY EndsEarly DEF HttpAtEnd, ReadFails, AtEnd

(* A result and what has been read of the answer. *)
LEMMA DoneWith ==
    ASSUME step' = "done", Ended',
           out' = <<>> \/ \E b \in 0..answer'.body : out' = Read(b)
    PROVE  PlaceInv'
BY DEF PlaceInv

(* transferHTTP ends, with an answer that was cut, or that it does not
   understand, or with all of it. *)
LEMMA HttpEnds ==
    ASSUME Http', ret' = HTTP_SUCCESS,
           Cut' \/ ~Understood' \/ out' = Read(answer'.body)
    PROVE  Ended'
BY DEF Ended, Message, HTTP_SUCCESS, HTTP_E_BAD_MSG_FORMAT, Read

(* getHeaders *)
LEMMA HeadersRead ==
    ASSUME TransferAssumption, TransferInv, getHeaders PROVE TransferInv'
<1>0. WireInv /\ PlaceInv /\ answer \in Answers /\ Http
  BY DEF TransferInv, WireInv, getHeaders
<1>1. /\ UNCHANGED <<answer, arrived, peer, reader, late, received, eof, chunk>>
      /\ step = "head" /\ out = <<>> /\ taken = 0 /\ chunk = -1 /\ Http'
  BY <1>0 DEF getHeaders, fixed, network, PlaceInv, Http
<1>2. /\ answer.body \in Nat /\ 0 \in 0..answer.body
      /\ answer.framing \in {"length", "chunked", "close"}
      /\ answer.framing = "chunked" => Chunk(answer, 2, 0)
  BY <1>0, AnswerShape
<1>3. ASSUME LineRead(Item("head", 0)), out' = <<Item("head", 0)>>, left' = ContentLength(answer),
             IF left' = 0 THEN Ends(HTTP_SUCCESS)
             ELSE step' = (IF left' = -1 THEN "size" ELSE "body") /\ UNCHANGED ret
      PROVE  TransferInv'
  <2>1. pos' \in pos..arrived /\ pos' = 1
    BY <1>0, <1>1, <1>3, LineReadAt
  <2>2. WireInv' /\ taken' = 1
    BY <1>0, <1>1, <2>1, WireOn
  <2>3. out' = Read(0)
    BY <1>3, HeadRead
  <2>4. CASE answer.framing = "chunked"
    <3>1. left' = -1 /\ step' = "size"
      BY <1>3, <2>4 DEF ContentLength
    <3>2. HttpPlace(0)'
      <4>1. Chunk(answer', taken' + 1, 0)
        BY <1>1, <1>2, <2>2, <2>4
      <4> QED
        BY <1>1, <2>4, <3>1, <4>1 DEF HttpPlace
    <3> QED
      BY <1>1, <1>2, <2>2, <2>3, <3>1, <3>2 DEF TransferInv, PlaceInv
  <2>5. CASE answer.framing = "length" /\ answer.body # 0
    <3>1. left' = answer.body /\ left' > 0 /\ step' = "body" /\ answer.body - 0 = answer.body
      BY <1>2, <1>3, <2>5 DEF ContentLength
    <3>2. HttpPlace(0)'
      BY <1>1, <2>2, <2>5, <3>1 DEF HttpPlace
    <3> QED
      BY <1>1, <1>2, <2>2, <2>3, <3>1, <3>2 DEF TransferInv, PlaceInv
  <2>6. CASE answer.framing = "close" /\ answer.typed
    <3>1. left' = -2 /\ step' = "body"
      BY <1>3, <2>6 DEF ContentLength
    <3>2. HttpPlace(0)'
      BY <1>1, <2>2, <2>6, <3>1 DEF HttpPlace
    <3> QED
      BY <1>1, <1>2, <2>2, <2>3, <3>1, <3>2 DEF TransferInv, PlaceInv
  <2>7. CASE \/ answer.framing = "length" /\ answer.body = 0
             \/ answer.framing = "close" /\ ~answer.typed
    <3>1. step' = "done" /\ ret' = HTTP_SUCCESS
      BY <1>3, <2>7 DEF ContentLength, Ends
    <3>2. ~Understood' \/ out' = Read(answer'.body)
      BY <1>1, <2>3, <2>7 DEF Understood
    <3>3. Ended'
      BY <1>1, <3>1, <3>2, HttpEnds
    <3>4. PlaceInv'
      BY <1>1, <1>2, <2>3, <3>1, <3>3, DoneWith
    <3> QED
      BY <2>2, <3>4 DEF TransferInv
  <2> QED
    BY <1>2, <2>4, <2>5, <2>6, <2>7
<1>4. ASSUME \/ HttpAtEnd /\ Ends(HTTP_SUCCESS)
             \/ ReadFails /\ Ends(UPNP_E_SOCKET_READ),
             UNCHANGED <<pos, left, out>>
      PROVE  TransferInv'
  <2>1. WireInv' /\ taken' = taken
    BY <1>0, <1>1, <1>4, WireOn
  <2>2. Cut \/ late
    <3>1. pos = 0 /\ Len(answer.stream) \in Nat \ {0}
      BY <1>0, <1>1, WireFacts, AnswerShape
    <3> QED
      BY <1>0, <1>4, <3>1, ReadEnds
  <2>3. /\ Cut' \/ ~Understood'
        /\ step' = "done" /\ out' = <<>> /\ ret' \in {HTTP_SUCCESS, UPNP_E_SOCKET_READ}
    BY <1>1, <1>4, <2>2 DEF Cut, Ends, Understood
  <2>4. Ended'
    <3>1. CASE ret' = HTTP_SUCCESS
      BY <1>1, <2>3, <3>1, HttpEnds
    <3>2. CASE ret' = UPNP_E_SOCKET_READ
      BY <3>2 DEF Ended, HTTP_SUCCESS, UPNP_E_SOCKET_READ, HTTP_E_BAD_MSG_FORMAT
    <3> QED
      BY <2>3, <3>1, <3>2
  <2>5. PlaceInv'
    BY <2>3, <2>4, DoneWith
  <2> QED
    BY <2>1, <2>5 DEF TransferInv
<1> QED
  BY <1>3, <1>4 DEF getHeaders

(* ChunkEnd *)
LEMMA ChunkEnds ==
    ASSUME TransferAssumption, TransferInv, ChunkEnd PROVE TransferInv'
<1>0. WireInv /\ PlaceInv /\ answer \in Answers /\ Http
  BY DEF TransferInv, WireInv, ChunkEnd
<1>1. /\ UNCHANGED <<answer, arrived, peer, reader, late, received, eof, step, left, out>>
      /\ step = "size" /\ chunk = 0 /\ chunk' = -1 /\ Http'
  BY <1>0 DEF ChunkEnd, fixed, network, Http
<1>2. PICK b \in 0..answer.body : out = Read(b) /\ HttpPlace(b)
  BY <1>0, <1>1 DEF PlaceInv
<1>3. answer.framing = "chunked" /\ left = -1 /\ Rest(answer, taken, b, 0)
  BY <1>1, <1>2 DEF HttpPlace
<1>4. taken \in Nat /\ answer.body \in Nat /\ taken = pos /\ pos \in Nat
  BY <1>0, WireFacts, AnswerShape
<1>5. Chunk(answer, taken + 2, b)
  <2>1. taken + 0 + 2 = taken + 2 /\ b + 0 = b
    BY <1>4
  <2> QED
    BY <1>3, <2>1 DEF Rest
<1>6. \/ pos' = pos + 1 /\ pos' \in pos..arrived
      \/ UNCHANGED pos /\ (HttpAtEnd \/ ReadFails)
  BY <1>0, <1>4, LineReadAt DEF ChunkEnd
<1>7. WireInv' /\ taken' = pos'
  BY <1>0, <1>1, <1>6, WireOn
<1>8. HttpPlace(b)'
  <2>1. CASE pos' = pos + 1
    <3>1. taken' + 1 = taken + 2
      BY <1>4, <1>7, <2>1
    <3>2. Chunk(answer', taken' + 1, b)
      BY <1>1, <1>5, <3>1
    <3> QED
      BY <1>1, <1>3, <3>2 DEF HttpPlace
  <2>2. CASE UNCHANGED pos /\ (HttpAtEnd \/ ReadFails)
    <3>1. pos < Len(answer.stream)
      <4>1. taken + 0 + 2 <= Len(answer.stream) /\ Len(answer.stream) \in Nat
        BY <1>0, <1>3, <1>4, RestReaches
      <4> DEFINE z == Len(answer.stream)
      <4>2. taken + 0 + 2 <= z /\ z \in Nat
        BY <4>1
      <4> HIDE DEF z
      <4>3. pos < z
        BY <1>4, <4>2
      <4> QED
        BY <4>3 DEF z
    <3>2. late \/ (Cut /\ arrived = pos)
      BY <1>0, <2>2, <3>1, ReadEnds
    <3>3. late' \/ (Cut' /\ arrived' = pos')
      BY <1>1, <2>2, <3>2 DEF Cut
    <3> QED
      BY <1>1, <1>3, <3>3 DEF HttpPlace
  <2> QED
    BY <1>6, <2>1, <2>2
<1>9. PlaceInv'
  BY <1>1, <1>2, <1>8 DEF PlaceInv, Read
<1> QED
  BY <1>7, <1>9 DEF TransferInv

(* ChunkSize *)
LEMMA SizeRead ==
    ASSUME TransferAssumption, TransferInv, ChunkSize PROVE TransferInv'
<1>0. WireInv /\ PlaceInv /\ answer \in Answers /\ Http
  BY DEF TransferInv, WireInv, ChunkSize
<1>1. /\ UNCHANGED <<answer, arrived, peer, reader, late, received, eof, left, out>>
      /\ step = "size" /\ chunk # 0 /\ Http'
  BY <1>0 DEF ChunkSize, fixed, network, Http
<1>2. PICK b \in 0..answer.body : out = Read(b) /\ HttpPlace(b)
  BY <1>0, <1>1 DEF PlaceInv
<1>3. /\ answer.framing = "chunked" /\ left = -1 /\ chunk = -1
      /\ Chunk(answer, taken + 1, b) \/ late \/ (Cut /\ arrived = pos)
  BY <1>1, <1>2 DEF HttpPlace
<1>4. taken \in Nat /\ answer.body \in Nat /\ taken = pos /\ taken + 1 \in Nat
  <2>1. taken \in Nat /\ answer.body \in Nat /\ taken = pos
    BY <1>0, WireFacts, AnswerShape
  <2> QED
    BY <2>1
<1>5. ASSUME NEW n \in Nat, LineRead(Item("size", n))
      PROVE  /\ WireInv' /\ taken' = taken + 1
             /\ n # 0 => Rest(answer, taken + 1, b, n)
             /\ n = 0 => b = answer.body
  <2>1. /\ pos' \in pos..arrived /\ pos' = taken + 1 /\ pos # arrived
        /\ answer.stream[taken + 1] = Item("size", n)
    BY <1>0, <1>5, LineReadAt
  <2>2. WireInv' /\ taken' = taken + 1
    BY <1>0, <1>1, <2>1, WireOn
  <2>3. answer.stream[taken + 1].n = n
    BY <2>1 DEF Item
  <2>4. Chunk(answer, taken + 1, b)
    BY <1>3, <1>5, <2>1 DEF LineRead
  <2>5. (n # 0 => Rest(answer, taken + 1, b, n)) /\ (n = 0 => b = answer.body)
    BY <1>0, <1>3, <1>4, <2>3, <2>4, ChunkShape
  <2> QED
    BY <2>2, <2>5
<1>6. ASSUME NEW n \in 1..answer.body, LineRead(Item("size", n)), chunk' = n, step' = "body"
      PROVE  TransferInv'
  <2>1. n \in Nat /\ n # 0
    BY <1>4
  <2>2. WireInv' /\ taken' = taken + 1 /\ Rest(answer, taken + 1, b, n)
    BY <1>5, <1>6, <2>1
  <2>3. Rest(answer', taken', b, chunk')
    BY <1>1, <1>6, <2>2
  <2>4. HttpPlace(b)'
    BY <1>1, <1>3, <1>6, <2>1, <2>3 DEF HttpPlace
  <2>5. PlaceInv'
    BY <1>1, <1>2, <1>6, <2>4 DEF PlaceInv, Read
  <2> QED
    BY <2>2, <2>5 DEF TransferInv
<1>7. ASSUME \/ LineRead(Item("size", 0))
             \/ (HttpAtEnd \/ ReadFails) /\ UNCHANGED pos,
             Ends(HTTP_SUCCESS)
      PROVE  TransferInv'
  <2>1. CASE LineRead(Item("size", 0))
    <3>1. 0 \in Nat
      OBVIOUS
    <3>2. WireInv' /\ b = answer.body
      BY <1>5, <2>1, <3>1
    <3>3. out' = Read(answer'.body)
      BY <1>1, <1>2, <3>2
    <3>4. Ended'
      BY <1>1, <1>7, <3>3, HttpEnds DEF Ends
    <3>5. PlaceInv'
      BY <1>1, <1>2, <1>7, <3>4, DoneWith DEF Ends
    <3> QED
      BY <3>2, <3>5 DEF TransferInv
  <2>2. CASE (HttpAtEnd \/ ReadFails) /\ UNCHANGED pos
    <3>1. WireInv'
      BY <1>0, <1>1, <2>2, WireOn
    <3>2. Cut \/ late
      <4>1. CASE Chunk(answer, taken + 1, b)
        <5>1. pos + 1 \in 1..Len(answer.stream)
          BY <1>0, <1>3, <1>4, <4>1, ChunkShape
        <5>2. pos < Len(answer.stream)
          BY <1>4, <5>1
        <5> QED
          BY <1>0, <2>2, <5>2, ReadEnds
      <4> QED
        BY <1>3, <4>1
    <3>3. Cut' \/ ~Understood'
      BY <1>1, <3>2 DEF Cut, Understood
    <3>4. Ended'
      BY <1>1, <1>7, <3>3, HttpEnds DEF Ends
    <3>5. PlaceInv'
      BY <1>1, <1>2, <1>7, <3>4, DoneWith DEF Ends
    <3> QED
      BY <3>1, <3>5 DEF TransferInv
  <2> QED
    BY <1>7, <2>1, <2>2
<1> QED
  BY <1>6, <1>7 DEF ChunkSize

(* Bytes that are read follow those that have been. *)
LEMMA BytesRead ==
    ASSUME TransferAssumption, WireInv, NEW b \in Nat, out = Read(b), NEW n \in Nat, taken + n <= arrived,
           \A j \in 1..n : answer.stream[taken + j] = Item("byte", b + j)
    PROVE  out \o SubSeq(answer.stream, taken + 1, taken + n) = Read(b + n)
<1> DEFINE s == answer.stream
           z == Len(answer.stream)
           T == Items
           t == taken
           q == SubSeq(s, t + 1, t + n)
<1>1. s \in Seq(T) /\ t \in Nat /\ z \in Nat /\ arrived \in Nat /\ arrived <= z /\ t + n <= arrived
  BY WireFacts
<1>2. t + n <= z
  <2> HIDE DEF z, t
  <2> QED
    BY <1>1
<1>3. q \in Seq(T) /\ Len(q) = n /\ \A i \in 1..n : q[i] = s[t + i]
  <2>1. t + n <= Len(s)
    BY <1>2
  <2> HIDE DEF s, T, t, z
  <2> QED
    BY <1>1, <2>1, PieceOf
<1>4. \A j \in 1..n : q[j] = Item("byte", b + j)
  <2> HIDE DEF q
  <2> QED
    BY <1>3
<1>5. Read(b) \o q = Read(b + n)
  <2> HIDE DEF q
  <2> QED
    BY <1>3, <1>4, ReadOn
<1> QED
  BY <1>5

(* Of an answer that is not chunked the bytes follow the head. *)
LEMMA PlainBytes ==
    ASSUME TransferAssumption, answer \in Answers, answer.framing # "chunked", WireInv,
           NEW b \in 0..answer.body, taken = b + 1
    PROVE  /\ Len(answer.stream) = answer.body + 1
           /\ \A n \in Nat : taken + n <= arrived =>
                 /\ b + n \in 0..answer.body
                 /\ \A j \in 1..n : answer.stream[taken + j] = Item("byte", b + j)
<1>1. /\ answer.body \in Nat /\ Len(answer.stream) = answer.body + 1
      /\ \A i \in 1..answer.body : answer.stream[i + 1] = Item("byte", i)
  BY AnswerShape
<1>2. arrived \in Nat /\ arrived <= answer.body + 1
  BY <1>1, WireFacts
<1>3. ASSUME NEW n \in Nat, taken + n <= arrived, NEW j \in 1..n
      PROVE  answer.stream[taken + j] = Item("byte", b + j)
  <2>1. b + j \in 1..answer.body /\ taken + j = (b + j) + 1
    BY <1>1, <1>2, <1>3
  <2> QED
    BY <1>1, <2>1
<1>4. ASSUME NEW n \in Nat, taken + n <= arrived PROVE b + n \in 0..answer.body
  BY <1>1, <1>2, <1>4
<1> QED
  BY <1>1, <1>3, <1>4

(* Where transferHTTP is in the body: what is left is not more than the
   answer has, and can be read. *)
LEMMA HttpBody ==
    ASSUME TransferAssumption, WireInv, NEW b \in 0..answer.body, out = Read(b),
           HttpPlace(b), step = "body", NEW n \in Nat, taken + n <= arrived,
           left = -1 => n <= chunk, left > 0 => n <= left
    PROVE  /\ b + n \in 0..answer.body
           /\ out \o SubSeq(answer.stream, taken + 1, taken + n) = Read(b + n)
           /\ left = -1 => /\ answer.framing = "chunked" /\ chunk \in Nat \ {0}
                           /\ Rest(answer, taken + n, b + n, chunk - n)
<1>1. answer \in Answers /\ taken \in Nat /\ answer.body \in Nat /\ b \in Nat
  <2>1. answer \in Answers
    BY DEF WireInv
  <2>2. taken \in Nat /\ answer.body \in Nat
    BY <2>1, WireFacts, AnswerShape
  <2> QED
    BY <2>1, <2>2
<1>2. CASE answer.framing = "chunked"
  <2>1. left = -1 /\ chunk # 0 /\ Rest(answer, taken, b, chunk)
    BY <1>2 DEF HttpPlace
  <2>2. chunk \in Nat \ {0} /\ b + chunk \in 0..answer.body /\ n \in 0..chunk
    BY <1>1, <2>1 DEF Rest
  <2>3. Rest(answer, taken + n, b + n, chunk - n)
    BY <1>1, <2>1, <2>2, RestOn
  <2>4. b + n \in 0..answer.body
    BY <1>1, <2>2
  <2>5. \A j \in 1..n : answer.stream[taken + j] = Item("byte", b + j)
    BY <2>1, <2>2 DEF Rest
  <2>6. out \o SubSeq(answer.stream, taken + 1, taken + n) = Read(b + n)
    BY <1>1, <2>5, BytesRead
  <2> QED
    BY <1>2, <2>2, <2>3, <2>4, <2>6
<1>3. CASE answer.framing # "chunked"
  <2>1. taken = b + 1 /\ left # -1
    <3>1. \/ left = answer.body - b /\ left > 0 /\ taken = b + 1
          \/ left = -2 /\ taken = b + 1
      BY <1>3 DEF HttpPlace
    <3> QED
      BY <1>1, <3>1
  <2>2. b + n \in 0..answer.body /\ \A j \in 1..n : answer.stream[taken + j] = Item("byte", b + j)
    BY <1>1, <1>3, <2>1, PlainBytes
  <2>3. out \o SubSeq(answer.stream, taken + 1, taken + n) = Read(b + n)
    BY <1>1, <2>2, BytesRead
  <2> QED
    BY <2>1, <2>2, <2>3
<1> QED
  BY <1>2, <1>3

(* One turn of read_http_response that receives n bytes. *)
LEMMA BodyRead ==
    ASSUME TransferAssumption, TransferInv, Http, step = "body",
           UNCHANGED <<answer, arrived, peer, reader, late, received, eof>>,
           NEW n \in 1..Smaller(nextToRead, Available),
           pos' = pos + n, out' = out \o Ahead(n),
           left' = (IF left > 0 THEN left - n ELSE left),
           chunk' = (IF left = -1 THEN chunk - n ELSE chunk),
           IF left' = 0 THEN Ends(HTTP_SUCCESS)
           ELSE step' = (IF left' = -1 /\ chunk' <= 0 THEN "size" ELSE "body") /\ UNCHANGED ret
    PROVE  TransferInv'
<1>0. WireInv /\ PlaceInv /\ answer \in Answers /\ Http'
  BY DEF TransferInv, WireInv, Http
<1>1. /\ taken \in Nat /\ taken = pos /\ pos \in Nat /\ arrived \in Nat /\ answer.body \in Nat
  BY <1>0, WireFacts, AnswerShape
<1>2. PICK b \in 0..answer.body : out = Read(b) /\ HttpPlace(b)
  BY <1>0 DEF PlaceInv
<1>3. \/ /\ answer.framing = "chunked" /\ left = -1
         /\ chunk # 0 /\ Rest(answer, taken, b, chunk)
      \/ /\ answer.framing = "length" /\ left = answer.body - b /\ left > 0 /\ taken = b + 1
      \/ answer.framing = "close" /\ left = -2 /\ taken = b + 1
  BY <1>2 DEF HttpPlace
<1>4. chunk \in Int \/ left # -1
  BY <1>3 DEF Rest
<1>5. left \in Int /\ SOCKET_BUFFER_SIZE \in Nat
  BY <1>1, <1>3 DEF TransferAssumption
<1>6. /\ n \in Nat /\ n # 0 /\ pos + n <= arrived
      /\ (left = -1 => n <= chunk) /\ (left > 0 => n <= left)
  BY <1>1, <1>4, <1>5 DEF Smaller, nextToRead, Available
<1>7. pos' \in pos..arrived /\ taken + n <= arrived
  BY <1>1, <1>6
<1>8. WireInv' /\ taken' = taken + n
  BY <1>0, <1>1, <1>7, WireOn
<1>9. /\ b + n \in 0..answer.body /\ out' = Read(b + n)
      /\ left = -1 => /\ answer.framing = "chunked" /\ chunk \in Nat \ {0}
                      /\ Rest(answer, taken + n, b + n, chunk - n)
  <2>1. Ahead(n) = SubSeq(answer.stream, taken + 1, taken + n)
    BY <1>1 DEF Ahead
  <2>2. b + n \in 0..answer.body /\ out \o SubSeq(answer.stream, taken + 1, taken + n) = Read(b + n)
    BY <1>0, <1>2, <1>6, <1>7, HttpBody
  <2>3. left = -1 => /\ answer.framing = "chunked" /\ chunk \in Nat \ {0}
                     /\ Rest(answer, taken + n, b + n, chunk - n)
    BY <1>0, <1>2, <1>6, <1>7, HttpBody
  <2> QED
    BY <2>1, <2>2, <2>3
<1>10. CASE left = -1
  <2>1. left' = -1 /\ chunk' = chunk - n /\ chunk' \in Nat /\ step' \in {"size", "body"}
        /\ (step' = "size" => chunk' = 0) /\ (step' = "body" => chunk' # 0)
    BY <1>6, <1>9, <1>10
  <2>2. Rest(answer', taken', b + n, chunk')
    BY <1>8, <1>9, <1>10, <2>1
  <2>3. Rest(answer', taken', b + n, 0) \/ step' = "body"
    BY <2>1, <2>2
  <2>4. HttpPlace(b + n)'
    BY <1>9, <1>10, <2>1, <2>2, <2>3 DEF HttpPlace
  <2>5. PlaceInv'
    BY <1>0, <1>9, <2>1, <2>4 DEF PlaceInv, Read
  <2> QED
    BY <1>8, <2>5 DEF TransferInv
<1>11. CASE answer.framing = "length" /\ left = answer.body - b /\ left > 0 /\ taken = b + 1
  <2>1. left' = answer.body - (b + n) /\ left' >= 0 /\ taken' = (b + n) + 1 /\ left' # -1
    BY <1>1, <1>6, <1>8, <1>9, <1>11
  <2>2. CASE left' = 0
    <3>1. b + n = answer.body
      BY <1>1, <1>6, <2>1, <2>2
    <3>2. out' = Read(answer'.body)
      BY <1>9, <3>1
    <3>3. step' = "done" /\ ret' = HTTP_SUCCESS
      BY <2>2 DEF Ends
    <3>4. Ended'
      BY <1>0, <3>2, <3>3, HttpEnds
    <3>5. PlaceInv'
      BY <1>9, <3>3, <3>4, DoneWith
    <3> QED
      BY <1>8, <3>5 DEF TransferInv
  <2>3. CASE left' # 0
    <3>1. step' = "body" /\ left' > 0
      <4>1. left' \in Int
        BY <1>1, <1>6, <2>1
      <4> QED
        BY <2>1, <2>3, <4>1
    <3>2. HttpPlace(b + n)'
      BY <1>9, <1>11, <2>1, <3>1 DEF HttpPlace
    <3>3. PlaceInv'
      BY <1>0, <1>9, <3>1, <3>2 DEF PlaceInv, Read
    <3> QED
      BY <1>8, <3>3 DEF TransferInv
  <2> QED
    BY <2>2, <2>3
<1>12. CASE answer.framing = "close" /\ left = -2 /\ taken = b + 1
  <2>1. left' = -2 /\ step' = "body" /\ taken' = (b + n) + 1
    BY <1>1, <1>6, <1>8, <1>12
  <2>2. HttpPlace(b + n)'
    BY <1>9, <1>12, <2>1 DEF HttpPlace
  <2>3. PlaceInv'
    BY <1>0, <1>9, <2>1, <2>2 DEF PlaceInv, Read
  <2> QED
    BY <1>8, <2>3 DEF TransferInv
<1> QED
  BY <1>3, <1>10, <1>11, <1>12

(* read_http_response *)
LEMMA ResponseRead ==
    ASSUME TransferAssumption, TransferInv, read_http_response PROVE TransferInv'
<1>0. WireInv /\ PlaceInv /\ answer \in Answers /\ Http /\ step = "body"
  BY DEF TransferInv, WireInv, read_http_response
<1>1. UNCHANGED <<answer, arrived, peer, reader, late, received, eof>> /\ Http'
  BY <1>0 DEF read_http_response, fixed, network, Http
<1>2. ASSUME TooMuch \/ HttpAtEnd \/ ReadFails, Ends(HTTP_SUCCESS), UNCHANGED <<pos, left, chunk, out>>
      PROVE  TransferInv'
  <2>1. PICK b \in 0..answer.body : out = Read(b) /\ HttpPlace(b)
    BY <1>0 DEF PlaceInv
  <2>2. WireInv'
    BY <1>0, <1>1, <1>2, WireOn
  <2>3. TooMuch => ~Understood'
    BY <1>1 DEF TooMuch, Understood
  <2>4. ASSUME HttpAtEnd \/ ReadFails PROVE Cut \/ late \/ out = Read(answer.body)
    <3> DEFINE z == Len(answer.stream)
    <3>1. taken \in Nat /\ taken = pos /\ answer.body \in Nat /\ z \in Nat /\ arrived <= z /\ arrived \in Nat
      BY <1>0, WireFacts, AnswerShape
    <3>2. late \/ (arrived = pos /\ (pos < z => Cut))
      BY <1>0, <2>4, ReadEnds
    <3>3. CASE answer.framing = "chunked"
      <4>1. Rest(answer, taken, b, chunk)
        BY <1>0, <2>1, <3>3 DEF HttpPlace
      <4>2. chunk \in Nat /\ taken + chunk + 2 <= z
        BY <1>0, <3>1, <4>1, RestReaches
      <4> HIDE DEF z
      <4>3. pos < z
        BY <3>1, <4>2
      <4> QED
        BY <3>2, <4>3
    <3>4. CASE answer.framing # "chunked"
      <4>1. taken = b + 1
        BY <1>0, <2>1, <3>4 DEF HttpPlace
      <4>2. z = answer.body + 1
        BY <1>0, <3>4, <4>1, PlainBytes
      <4> HIDE DEF z
      <4>3. pos < z \/ b = answer.body
        BY <3>1, <3>2, <4>1, <4>2
      <4> QED
        BY <2>1, <3>2, <4>3
    <3> QED
      BY <3>3, <3>4
  <2>5. Cut' \/ ~Understood' \/ out' = Read(answer'.body)
    <3>1. Cut' = Cut /\ (late => ~Understood')
      BY <1>1, <1>2 DEF Cut, Understood
    <3> QED
      BY <1>1, <1>2, <2>3, <2>4, <3>1
  <2>6. Ended'
    BY <1>1, <1>2, <2>5, HttpEnds DEF Ends
  <2>7. PlaceInv'
    BY <1>1, <1>2, <2>1, <2>6, DoneWith DEF Ends
  <2> QED
    BY <2>2, <2>7 DEF TransferInv
<1>3. ASSUME ReadBody,
             IF left' = 0 THEN Ends(HTTP_SUCCESS)
             ELSE step' = (IF left' = -1 /\ chunk' <= 0 THEN "size" ELSE "body") /\ UNCHANGED ret
      PROVE  TransferInv'
  <2>1. PICK n \in 1..Smaller(nextToRead, Available) :
            /\ pos' = pos + n /\ out' = out \o Ahead(n)
            /\ left' = (IF left > 0 THEN left - n ELSE left)
            /\ chunk' = (IF left = -1 THEN chunk - n ELSE chunk)
    BY <1>3 DEF ReadBody
  <2> QED
    BY <1>0, <1>1, <1>3, <2>1, BodyRead
<1> QED
  BY <1>2, <1>3 DEF read_http_response

(* refillBuffer *)
LEMMA BufferRefilled ==
    ASSUME TransferAssumption, TransferInv, refillBuffer PROVE TransferInv'
<1>0. WireInv /\ PlaceInv /\ answer \in Answers /\ Message /\ received = <<>>
  BY DEF TransferInv, WireInv, refillBuffer
<1>1. UNCHANGED <<answer, arrived, peer, reader, late, left, chunk, out>> /\ Message' /\ ~eof
  BY <1>0 DEF refillBuffer, unread, network, Message, Http
<1>2. /\ taken \in Nat /\ taken = pos /\ pos \in Nat /\ arrived \in Nat /\ pos <= arrived
      /\ answer.stream \in Seq(Items) /\ Len(answer.stream) \in Nat /\ arrived <= Len(answer.stream)
  BY <1>0, WireFacts
<1>3. Cut' = Cut
  BY <1>1 DEF Cut
<1>4. ASSUME NEW n \in 1..Smaller(BUFSIZE, Available), received' = Ahead(n), pos' = pos + n,
             UNCHANGED <<eof, step, ret>>
      PROVE  TransferInv'
  <2>1. n \in Nat /\ n # 0 /\ pos + n <= arrived
    BY <1>2 DEF Smaller, Available, TransferAssumption
  <2>2. received' = SubSeq(answer.stream, pos + 1, pos + n) /\ Len(received') = n
    <3> DEFINE s == answer.stream
               T == Items
               z == Len(answer.stream)
    <3>1. s \in Seq(T) /\ pos + n <= z
      <4>1. arrived <= z /\ z \in Nat /\ s \in Seq(T)
        BY <1>2
      <4> HIDE DEF z
      <4>2. pos + n <= z
        BY <1>2, <2>1, <4>1
      <4> QED
        BY <4>1, <4>2
    <3>2. received' = SubSeq(s, pos + 1, pos + n) /\ pos + n <= Len(s)
      BY <1>4, <3>1 DEF Ahead
    <3> HIDE DEF s, T, z
    <3>3. Len(SubSeq(s, pos + 1, pos + n)) = n
      <4>1. pos \in Nat /\ n \in Nat
        BY <1>2, <2>1
      <4>2. s \in Seq(T) /\ pos + n <= Len(s)
        BY <3>1, <3>2
      <4> QED
        BY <4>1, <4>2, PieceOf
    <3> QED
      BY <3>2, <3>3 DEF s
  <2>3. taken' = pos /\ pos' \in 0..arrived /\ n \in 0..pos'
    <3>1. taken' = (pos + n) - n
      BY <1>4, <2>2 DEF taken
    <3> QED
      BY <1>2, <1>4, <2>1, <3>1
  <2>4. ~eof /\ pos # arrived
    BY <1>2, <2>1 DEF refillBuffer
  <2>5. PlaceInv'
    <3>1. taken' = taken
      BY <1>2, <2>3
    <3>2. ~CutInLine
      BY <1>1 DEF CutInLine
    <3> QED
      BY <1>0, <1>1, <1>3, <1>4, <2>4, <3>1, <3>2, PlaceStays
  <2>6. /\ answer' \in Answers /\ reader' \in {"transferHTTP", "http_Download"}
        /\ peer' \in {"open", "closed", "reset"} /\ arrived' \in 0..Len(answer'.stream)
    BY <1>0, <1>1 DEF WireInv
  <2>7. Len(received') \in 0..pos' /\ received' = SubSeq(answer'.stream, taken' + 1, pos')
    BY <1>1, <1>4, <2>2, <2>3
  <2>8. WireInv'
    BY <1>1, <1>4, <2>3, <2>4, <2>6, <2>7 DEF WireInv, Message
  <2> QED
    BY <2>5, <2>8 DEF TransferInv
<1>5. ASSUME AtEnd, eof' = TRUE, UNCHANGED <<received, pos, step, ret>>
      PROVE  TransferInv'
  <2>1. taken' = taken
    BY <1>5 DEF taken
  <2>2. arrived = pos /\ peer = "closed"
    BY <1>0, <1>5, EndsEarly DEF AtEnd
  <2>3. PlaceInv'
    <3>1. ~CutInLine
      BY <1>1 DEF CutInLine
    <3> QED
      BY <1>0, <1>1, <1>3, <1>5, <2>1, <2>2, <3>1, PlaceStays
  <2>4. WireInv'
    BY <1>0, <1>1, <1>5, <2>1, <2>2 DEF WireInv, Message
  <2> QED
    BY <2>3, <2>4 DEF TransferInv
<1>6. ASSUME Ends(-1), UNCHANGED <<eof, received, pos>> PROVE TransferInv'
  <2>1. WireInv'
    BY <1>0, <1>1, <1>6, WireOn
  <2>2. Ended'
    BY <1>6 DEF Ends, Ended, HTTP_SUCCESS, HTTP_E_BAD_MSG_FORMAT
  <2>3. out = <<>> \/ \E b \in 0..answer.body : out = Read(b)
    BY <1>0 DEF PlaceInv
  <2>4. PlaceInv'
    BY <1>1, <1>6, <2>2, <2>3, DoneWith DEF Ends, Read
  <2> QED
    BY <2>1, <2>4 DEF TransferInv
<1> QED
  BY <1>4, <1>5, <1>6 DEF refillBuffer

(* The stream is over before the message is. *)
LEMMA TooEarly ==
    ASSUME TransferAssumption, TransferInv, Message, Unexpected \/ TokenCut,
           UNCHANGED <<answer, arrived, peer, reader, pos, eof, out>>,
           taken < Len(answer.stream), out = <<>> \/ \E b \in 0..answer.body : out = Read(b)
    PROVE  TransferInv'
<1>1. WireInv
  BY DEF TransferInv
<1>2. eof /\ step' = "done" /\ UNCHANGED received
  BY DEF Unexpected, TokenCut, CutInLine, Ends
<1>3. received = <<>> /\ peer = "closed" /\ arrived = pos
  BY <1>1, <1>2 DEF WireInv
<1>4. taken = pos
  BY <1>1, <1>3, WireFacts
<1>5. Cut'
  BY <1>3, <1>4 DEF Cut
<1>6. Ended'
  <2>1. CASE Unexpected
    BY <1>5, <2>1 DEF Unexpected, Ends, Ended, HTTP_SUCCESS, HTTP_E_BAD_MSG_FORMAT
  <2>2. CASE TokenCut
    <3>1. CutInLine' /\ ret' = 0
      BY <2>2 DEF TokenCut, CutInLine, Ends
    <3> QED
      BY <1>5, <3>1 DEF Ended, HTTP_E_BAD_MSG_FORMAT
  <2> QED
    BY <2>1, <2>2
<1>7. PlaceInv'
  BY <1>2, <1>6, DoneWith
<1>8. WireInv'
  BY <1>1, <1>2, WireOn
<1> QED
  BY <1>7, <1>8 DEF TransferInv

(* A download that ends when the message does. *)
LEMMA MessageEnds ==
    ASSUME ret' = 0, out' = Read(answer'.body) \/ (Cut' /\ answer'.framing = "close")
    PROVE  Ended'
BY DEF Ended, HTTP_E_BAD_MSG_FORMAT, Read

(* loadRestOfMessage *)
LEMMA MessageLoaded ==
    ASSUME TransferAssumption, TransferInv, loadRestOfMessage PROVE TransferInv'
<1>0. WireInv /\ PlaceInv /\ answer \in Answers /\ Message
  BY DEF TransferInv, WireInv, loadRestOfMessage
<1>1. /\ UNCHANGED <<answer, arrived, peer, reader, pos, eof, chunk>>
      /\ step = "head" /\ out = <<>> /\ taken = 0 /\ ~Http'
  BY <1>0 DEF loadRestOfMessage, unread, network, PlaceInv, Message, Http
<1>2. /\ answer.body \in Nat /\ 0 \in 0..answer.body /\ Len(answer.stream) \in Nat \ {0}
      /\ answer.framing \in {"length", "chunked", "close"}
      /\ answer.framing = "chunked" => Chunk(answer, 2, 0)
  BY <1>0, AnswerShape
<1>3. ASSUME TakeItem(Item("head", 0)), out' = <<Item("head", 0)>>,
             left' = (IF answer.framing = "length" THEN answer.body ELSE -1),
             step' = (CASE answer.framing = "chunked" -> "size"
                      [] answer.framing = "length" -> "body"
                      [] OTHER -> "all")
      PROVE  TransferInv'
  <2>1. WireInv' /\ taken' = 1
    <3>1. WireInv' /\ taken' = taken + 1
      BY <1>0, <1>1, <1>3, TakesItem
    <3> QED
      BY <1>1, <3>1
  <2>2. out' = Read(0)
    BY <1>3, HeadRead
  <2>3. MessagePlace(0)' /\ step' \in {"size", "body", "all"}
    <3>1. CASE answer.framing = "chunked"
      <4>1. step' = "size" /\ Chunk(answer', taken' + 1, 0)
        BY <1>1, <1>2, <1>3, <2>1, <3>1
      <4> QED
        BY <1>1, <3>1, <4>1 DEF MessagePlace
    <3>2. CASE answer.framing = "length"
      <4>1. step' = "body" /\ left' = answer.body - 0 /\ taken' = 0 + 1
        BY <1>2, <1>3, <2>1, <3>2
      <4> QED
        BY <1>1, <3>2, <4>1 DEF MessagePlace
    <3>3. CASE answer.framing = "close"
      <4>1. step' = "all" /\ taken' = 0 + 1
        BY <1>3, <2>1, <3>3
      <4> QED
        BY <1>1, <3>3, <4>1 DEF MessagePlace
    <3> QED
      BY <1>2, <3>1, <3>2, <3>3
  <2>4. PlaceInv'
    BY <1>1, <1>2, <2>2, <2>3 DEF PlaceInv
  <2> QED
    BY <2>1, <2>4 DEF TransferInv
<1>4. ASSUME Unexpected \/ TokenCut, UNCHANGED <<out, left>> PROVE TransferInv'
  BY <1>0, <1>1, <1>2, <1>4, TooEarly
<1> QED
  BY <1>3, <1>4 DEF loadRestOfMessage

(* readEncodedEntity *)
LEMMA EncodedEntityRead ==
    ASSUME TransferAssumption, TransferInv, readEncodedEntity PROVE TransferInv'
<1>0. WireInv /\ PlaceInv /\ answer \in Answers /\ Message
  BY DEF TransferInv, WireInv, readEncodedEntity
<1>1. /\ UNCHANGED <<answer, arrived, peer, reader, pos, eof, chunk, out>> /\ step = "size" /\ ~Http'
  BY <1>0 DEF readEncodedEntity, unread, network, Message, Http
<1>2. PICK b \in 0..answer.body : out = Read(b) /\ MessagePlace(b)
  BY <1>0, <1>1 DEF PlaceInv, Message
<1>3. answer.framing = "chunked" /\ Chunk(answer, taken + 1, b)
  BY <1>1, <1>2 DEF MessagePlace
<1>4. taken \in Nat /\ answer.body \in Nat
  BY <1>0, WireFacts, AnswerShape
<1>5. taken + 1 \in Nat
  BY <1>4
<1>6. ASSUME NEW n \in 0..answer.body, TakeItem(Item("size", n)), left' = n,
             step' = (IF n = 0 THEN "trailer" ELSE "body")
      PROVE  TransferInv'
  <2>1. WireInv' /\ taken' = taken + 1 /\ answer.stream[taken + 1] = Item("size", n)
    BY <1>0, <1>1, <1>6, TakesItem
  <2>2. answer.stream[taken + 1].n = n
    BY <2>1 DEF Item
  <2>3. /\ n # 0 => Rest(answer, taken + 1, b, n)
        /\ n = 0 => /\ b = answer.body /\ Len(answer.stream) = taken + 1 + 1
                    /\ answer.stream[taken + 1 + 1] = Item("crlf", 0)
    BY <1>0, <1>3, <1>5, <2>2, ChunkShape
  <2>4. CASE n # 0
    <3>1. step' = "body" /\ Rest(answer', taken', b, left')
      BY <1>1, <1>6, <2>1, <2>3, <2>4
    <3>2. MessagePlace(b)'
      BY <1>1, <1>3, <3>1 DEF MessagePlace
    <3> QED
      BY <1>1, <1>2, <2>1, <3>1, <3>2 DEF TransferInv, PlaceInv, Read
  <2>5. CASE n = 0
    <3>1. /\ step' = "trailer" /\ b = answer'.body /\ taken' + 1 = Len(answer'.stream)
          /\ answer'.stream[taken' + 1] = Item("crlf", 0)
      BY <1>1, <1>6, <2>1, <2>3, <2>5
    <3>2. MessagePlace(b)'
      BY <1>1, <1>3, <3>1 DEF MessagePlace
    <3> QED
      BY <1>1, <1>2, <2>1, <3>1, <3>2 DEF TransferInv, PlaceInv, Read
  <2> QED
    BY <2>4, <2>5
<1>7. ASSUME Unexpected \/ TokenCut PROVE TransferInv'
  <2>1. taken + 1 \in 1..Len(answer.stream)
    BY <1>0, <1>3, <1>5, ChunkShape
  <2>2. taken < Len(answer.stream)
    BY <1>4, <2>1
  <2> QED
    BY <1>0, <1>1, <1>2, <1>7, <2>2, TooEarly
<1> QED
  BY <1>6, <1>7 DEF readEncodedEntity

(* Where HttpMessage is in a body or a chunk. *)
LEMMA MessageBody ==
    ASSUME TransferAssumption, WireInv, NEW b \in 0..answer.body, out = Read(b),
           MessagePlace(b), step = "body", NEW n \in Nat, taken + n <= arrived, n <= left
    PROVE  /\ b + n \in 0..answer.body
           /\ out \o SubSeq(answer.stream, taken + 1, taken + n) = Read(b + n)
           /\ answer.framing = "chunked" => Rest(answer, taken + n, b + n, left - n)
           /\ answer.framing = "length" => left - n = answer.body - (b + n) /\ taken + n = (b + n) + 1
<1>1. answer \in Answers /\ taken \in Nat /\ answer.body \in Nat /\ b \in Nat
  <2>1. answer \in Answers
    BY DEF WireInv
  <2>2. taken \in Nat /\ answer.body \in Nat
    BY <2>1, WireFacts, AnswerShape
  <2> QED
    BY <2>1, <2>2
<1>2. \/ answer.framing = "chunked" /\ Rest(answer, taken, b, left)
      \/ answer.framing = "length" /\ left = answer.body - b /\ taken = b + 1
  BY DEF MessagePlace
<1>3. CASE answer.framing = "chunked"
  <2>1. Rest(answer, taken, b, left)
    BY <1>2, <1>3
  <2>2. left \in Nat /\ b + left \in 0..answer.body /\ n \in 0..left
    BY <1>1, <2>1 DEF Rest
  <2>3. Rest(answer, taken + n, b + n, left - n)
    BY <1>1, <2>1, <2>2, RestOn
  <2>4. b + n \in 0..answer.body
    BY <1>1, <2>2
  <2>5. \A j \in 1..n : answer.stream[taken + j] = Item("byte", b + j)
    BY <2>1, <2>2 DEF Rest
  <2>6. out \o SubSeq(answer.stream, taken + 1, taken + n) = Read(b + n)
    BY <1>1, <2>5, BytesRead
  <2> QED
    BY <1>3, <2>3, <2>4, <2>6
<1>4. CASE answer.framing = "length"
  <2>1. left = answer.body - b /\ taken = b + 1
    BY <1>2, <1>4
  <2>2. b + n \in 0..answer.body /\ \A j \in 1..n : answer.stream[taken + j] = Item("byte", b + j)
    BY <1>1, <1>4, <2>1, PlainBytes
  <2>3. out \o SubSeq(answer.stream, taken + 1, taken + n) = Read(b + n)
    BY <1>1, <2>2, BytesRead
  <2>4. left - n = answer.body - (b + n) /\ taken + n = (b + n) + 1
    BY <1>1, <2>1
  <2> QED
    BY <1>4, <2>2, <2>3, <2>4
<1> QED
  BY <1>2, <1>3, <1>4

(* One read of readEntityUsingLength, of n items. *)
LEMMA PartRead ==
    ASSUME TransferAssumption, TransferInv, Message, step = "body", received # <<>>, left > 0,
           UNCHANGED <<answer, arrived, peer, reader, pos, eof, step>>,
           NEW n, n = Smaller(left, Len(received)),
           out' = out \o SubSeq(received, 1, n),
           received' = SubSeq(received, n + 1, Len(received)), left' = left - n
    PROVE  TransferInv'
<1>0. WireInv /\ PlaceInv /\ answer \in Answers /\ ~Http'
  BY DEF TransferInv, WireInv, Message, Http
<1>1. /\ taken \in Nat /\ pos \in Nat /\ arrived \in Nat /\ pos <= arrived /\ answer.body \in Nat
      /\ Len(received) \in Nat /\ Len(received) # 0 /\ received \in Seq(Items)
  <2>1. /\ taken \in Nat /\ pos \in Nat /\ arrived \in Nat /\ pos <= arrived /\ answer.body \in Nat
        /\ Len(received) \in Nat /\ received \in Seq(Items)
    BY <1>0, WireFacts, AnswerShape
  <2> QED
    BY <2>1
<1>2. PICK b \in 0..answer.body : out = Read(b) /\ MessagePlace(b)
  BY <1>0 DEF PlaceInv, Message
<1>3. \/ answer.framing = "chunked" /\ Rest(answer, taken, b, left)
      \/ answer.framing = "length" /\ left = answer.body - b /\ taken = b + 1
  BY <1>2 DEF MessagePlace
<1>4. left \in Nat
  <2>1. CASE answer.framing = "chunked"
    BY <1>3, <2>1 DEF Rest
  <2>2. CASE answer.framing = "length"
    <3>1. left = answer.body - b
      BY <1>3, <2>2
    <3> QED
      BY <1>1, <3>1
  <2> QED
    BY <1>3, <2>1, <2>2
<1>5. n \in Nat /\ n \in 0..left /\ n <= left /\ n \in 1..Len(received)
  <2> DEFINE l == Len(received)
  <2>1. l \in Nat /\ l # 0 /\ n = IF left < l THEN left ELSE l
    BY <1>1 DEF Smaller
  <2> HIDE DEF l
  <2>2. n \in Nat /\ n \in 0..left /\ n <= left /\ n \in 1..l
    BY <1>4, <2>1
  <2> QED
    BY <2>2 DEF l
<1>6. WireInv' /\ taken' = taken + n /\ taken + n <= pos
      /\ SubSeq(received, 1, n) = SubSeq(answer.stream, taken + 1, taken + n)
  BY <1>0, <1>5, TakesBytes
<1>7. taken + n <= arrived
  BY <1>1, <1>5, <1>6
<1>8. /\ b + n \in 0..answer.body
      /\ out \o SubSeq(answer.stream, taken + 1, taken + n) = Read(b + n)
      /\ answer.framing = "chunked" => Rest(answer, taken + n, b + n, left - n)
      /\ answer.framing = "length" => left - n = answer.body - (b + n) /\ taken + n = (b + n) + 1
  BY <1>0, <1>2, <1>5, <1>7, MessageBody
<1>9. out' = Read(b + n)
  BY <1>6, <1>8
<1>10. MessagePlace(b + n)'
  <2>1. CASE answer.framing = "chunked"
    <3>1. Rest(answer', taken', b + n, left')
      BY <1>6, <1>8, <2>1
    <3> QED
      BY <2>1, <3>1 DEF MessagePlace
  <2>2. CASE answer.framing = "length"
    <3>1. left' = answer'.body - (b + n) /\ taken' = (b + n) + 1
      BY <1>6, <1>8, <2>2
    <3> QED
      BY <2>2, <3>1 DEF MessagePlace
  <2> QED
    BY <1>3, <2>1, <2>2
<1>11. PlaceInv'
  <2>1. \E m \in 0..answer.body : out' = Read(m) /\ MessagePlace(m)'
    <3> DEFINE m == b + n
    <3>1. m \in 0..answer.body /\ out' = Read(m) /\ MessagePlace(m)'
      BY <1>8, <1>9, <1>10
    <3> HIDE DEF m
    <3> QED
      BY <3>1
  <2> QED
    BY <1>0, <2>1 DEF PlaceInv, Read
<1> QED
  BY <1>6, <1>11 DEF TransferInv

(* readEntityUsingLength *)
LEMMA LengthRead ==
    ASSUME TransferAssumption, TransferInv, readEntityUsingLength PROVE TransferInv'
<1>0. WireInv /\ PlaceInv /\ answer \in Answers /\ Message /\ step = "body"
  BY DEF TransferInv, WireInv, readEntityUsingLength
<1>1. UNCHANGED <<answer, arrived, peer, reader, pos, eof, chunk>> /\ ~Http'
  BY <1>0 DEF readEntityUsingLength, unread, network, Message, Http
<1>2. PICK b \in 0..answer.body : out = Read(b) /\ MessagePlace(b)
  BY <1>0 DEF PlaceInv, Message
<1>3. \/ answer.framing = "chunked" /\ Rest(answer, taken, b, left)
      \/ answer.framing = "length" /\ left = answer.body - b /\ taken = b + 1
  BY <1>0, <1>2 DEF MessagePlace
<1>4. taken \in Nat /\ answer.body \in Nat
  BY <1>0, WireFacts, AnswerShape
<1>5. ASSUME left > 0, received # <<>>,
             \E n \in {Smaller(left, Len(received))} :
                /\ out' = out \o SubSeq(received, 1, n)
                /\ received' = SubSeq(received, n + 1, Len(received))
                /\ left' = left - n,
             UNCHANGED <<step, ret>>
      PROVE  TransferInv'
  BY <1>0, <1>1, <1>5, PartRead
<1>6. ASSUME left = 0,
             IF answer.framing = "chunked" THEN step' = "line" /\ UNCHANGED ret ELSE Ends(0),
             UNCHANGED <<received, left, out>>
      PROVE  TransferInv'
  <2>1. WireInv' /\ taken' = taken
    BY <1>0, <1>1, <1>6, WireOn
  <2>2. CASE answer.framing = "chunked"
    <3>1. Rest(answer', taken', b, 0) /\ step' = "line"
      BY <1>1, <1>3, <1>6, <2>1, <2>2
    <3>2. MessagePlace(b)'
      BY <1>1, <2>2, <3>1 DEF MessagePlace
    <3>3. PlaceInv'
      BY <1>1, <1>2, <1>6, <3>1, <3>2 DEF PlaceInv, Read
    <3> QED
      BY <2>1, <3>3 DEF TransferInv
  <2>3. CASE answer.framing = "length"
    <3>1. b = answer.body
      <4>1. 0 = answer.body - b
        BY <1>3, <1>6, <2>3
      <4> QED
        BY <1>4, <4>1
    <3>2. out' = Read(answer'.body) /\ step' = "done" /\ ret' = 0
      BY <1>1, <1>2, <1>6, <2>3, <3>1 DEF Ends
    <3>3. Ended'
      BY <3>2, MessageEnds
    <3>4. PlaceInv'
      BY <1>1, <1>2, <1>6, <3>2, <3>3, DoneWith
    <3> QED
      BY <2>1, <3>4 DEF TransferInv
  <2> QED
    BY <1>3, <2>2, <2>3
<1>7. ASSUME left > 0, Unexpected, UNCHANGED <<left, out>> PROVE TransferInv'
  <2> DEFINE z == Len(answer.stream)
  <2>1. taken < Len(answer.stream)
    <3>1. CASE answer.framing = "chunked"
      <4>1. left \in Nat /\ taken + left + 2 <= z /\ z \in Nat
        BY <1>0, <1>3, <1>4, <3>1, RestReaches
      <4> HIDE DEF z
      <4>2. taken < z
        BY <1>4, <4>1
      <4> QED
        BY <4>2 DEF z
    <3>2. CASE answer.framing = "length"
      <4>1. left = answer.body - b /\ taken = b + 1
        BY <1>3, <3>2
      <4>2. z = answer.body + 1
        BY <1>0, <3>2, <4>1, PlainBytes
      <4> HIDE DEF z
      <4>3. taken < z
        BY <1>4, <1>7, <4>1, <4>2
      <4> QED
        BY <4>3 DEF z
    <3> QED
      BY <1>3, <3>1, <3>2
  <2> QED
    BY <1>0, <1>1, <1>2, <1>7, <2>1, TooEarly
<1> QED
  BY <1>5, <1>6, <1>7 DEF readEntityUsingLength

(* ChunkLine *)
LEMMA LineTaken ==
    ASSUME TransferAssumption, TransferInv, ChunkLine PROVE TransferInv'
<1>0. WireInv /\ PlaceInv /\ answer \in Answers /\ Message /\ step \in {"line", "trailer"}
  BY DEF TransferInv, WireInv, ChunkLine
<1>1. UNCHANGED <<answer, arrived, peer, reader, pos, eof, left, chunk, out>> /\ ~Http'
  BY <1>0 DEF ChunkLine, unread, network, Message, Http
<1>2. PICK b \in 0..answer.body : out = Read(b) /\ MessagePlace(b)
  BY <1>0 DEF PlaceInv, Message
<1>3. /\ answer.framing = "chunked"
      /\ step = "line" => Rest(answer, taken, b, 0)
      /\ step = "trailer" => b = answer.body /\ taken + 1 = Len(answer.stream)
  BY <1>0, <1>2 DEF MessagePlace
<1>4. taken \in Nat /\ answer.body \in Nat /\ Len(answer.stream) \in Nat
  BY <1>0, WireFacts, AnswerShape
<1>5. ASSUME TakeItem(Item("crlf", 0)),
             IF step = "line" THEN step' = "size" /\ UNCHANGED ret ELSE Ends(0)
      PROVE  TransferInv'
  <2>1. WireInv' /\ taken' = taken + 1
    BY <1>0, <1>1, <1>5, TakesItem
  <2>2. CASE step = "line"
    <3>1. Chunk(answer, taken + 2, b)
      <4>1. taken + 0 + 2 = taken + 2 /\ b + 0 = b
        BY <1>4
      <4> QED
        BY <1>3, <2>2, <4>1 DEF Rest
    <3>2. taken' + 1 = taken + 2 /\ step' = "size"
      BY <1>4, <1>5, <2>1, <2>2
    <3>3. Chunk(answer', taken' + 1, b)
      BY <1>1, <3>1, <3>2
    <3>4. MessagePlace(b)'
      BY <1>1, <1>3, <3>2, <3>3 DEF MessagePlace
    <3>5. PlaceInv'
      BY <1>1, <1>2, <3>2, <3>4 DEF PlaceInv, Read
    <3> QED
      BY <2>1, <3>5 DEF TransferInv
  <2>3. CASE step = "trailer"
    <3>1. out' = Read(answer'.body) /\ step' = "done" /\ ret' = 0
      BY <1>1, <1>2, <1>3, <1>5, <2>3 DEF Ends
    <3>2. Ended'
      BY <3>1, MessageEnds
    <3>3. PlaceInv'
      BY <1>1, <1>2, <3>1, <3>2, DoneWith
    <3> QED
      BY <2>1, <3>3 DEF TransferInv
  <2> QED
    BY <1>0, <2>2, <2>3
<1>6. ASSUME Unexpected \/ TokenCut PROVE TransferInv'
  <2> DEFINE z == Len(answer.stream)
  <2>1. taken < z
    <3>1. CASE step = "line"
      <4>1. taken + 0 + 2 <= z /\ z \in Nat
        BY <1>0, <1>3, <1>4, <3>1, RestReaches
      <4> HIDE DEF z
      <4> QED
        BY <1>4, <4>1
    <3>2. CASE step = "trailer"
      <4>1. taken + 1 = z
        BY <1>3, <3>2
      <4> HIDE DEF z
      <4> QED
        BY <1>4, <4>1
    <3> QED
      BY <1>0, <3>1, <3>2
  <2> QED
    BY <1>0, <1>1, <1>2, <1>6, <2>1, TooEarly
<1> QED
  BY <1>5, <1>6 DEF ChunkLine

(* readEntityUntilClose *)
LEMMA ReadToTheEnd ==
    ASSUME TransferAssumption, TransferInv, readEntityUntilClose PROVE TransferInv'
<1>0. WireInv /\ PlaceInv /\ answer \in Answers /\ Message /\ step = "all"
  BY DEF TransferInv, WireInv, readEntityUntilClose
<1>1. UNCHANGED <<answer, arrived, peer, reader, pos, eof, left, chunk>> /\ ~Http'
  BY <1>0 DEF readEntityUntilClose, unread, network, Message, Http
<1>2. PICK b \in 0..answer.body : out = Read(b) /\ MessagePlace(b)
  BY <1>0 DEF PlaceInv, Message
<1>3. answer.framing = "close" /\ taken = b + 1
  BY <1>0, <1>2 DEF MessagePlace
<1>4. /\ taken \in Nat /\ pos \in Nat /\ arrived \in Nat /\ pos <= arrived /\ taken <= pos
      /\ answer.body \in Nat /\ arrived <= Len(answer.stream) /\ taken + Len(received) = pos
      /\ Len(received) \in Nat /\ received \in Seq(Items)
      /\ received = SubSeq(answer.stream, taken + 1, taken + Len(received))
  BY <1>0, WireFacts, AnswerShape
<1>5. ASSUME received # <<>>, out' = out \o received, received' = <<>>, UNCHANGED <<step, ret>>
      PROVE  TransferInv'
  <2>0. PICK n : n = Len(received)
    OBVIOUS
  <2>1. n \in Nat /\ n # 0 /\ n \in 1..n /\ taken + n = pos
    <3>1. n \in Nat /\ taken + n = pos
      BY <1>4, <2>0
    <3>2. Len(received) # 0
      BY <1>4, <1>5
    <3> QED
      BY <2>0, <3>1, <3>2
  <2>2. received' = SubSeq(received, n + 1, n)
    BY <1>5, <2>1, NothingBetween
  <2>3. WireInv' /\ taken' = taken + n
    <3>1. n \in 1..Len(received) /\ received' = SubSeq(received, n + 1, Len(received))
      BY <2>0, <2>1, <2>2
    <3> QED
      BY <1>0, <1>1, <3>1, TakesBytes
  <2>4. taken + n <= arrived /\ received = SubSeq(answer.stream, taken + 1, taken + n)
    <3>1. received = SubSeq(answer.stream, taken + 1, taken + n)
      BY <1>4, <2>0
    <3>2. pos <= arrived /\ pos \in Nat /\ arrived \in Nat
      BY <1>4
    <3> QED
      BY <2>1, <3>1, <3>2
  <2>5. b + n \in 0..answer.body /\ \A j \in 1..n : answer.stream[taken + j] = Item("byte", b + j)
    BY <1>0, <1>3, <2>1, <2>4, PlainBytes
  <2>6. out' = Read(b + n)
    <3>1. b \in Nat
      OBVIOUS
    <3>2. out \o SubSeq(answer.stream, taken + 1, taken + n) = Read(b + n)
      BY <1>0, <1>2, <2>1, <2>4, <2>5, <3>1, BytesRead
    <3> QED
      BY <1>5, <2>4, <3>2
  <2>7. taken' = (b + n) + 1
    <3>1. b + 1 + n = (b + n) + 1
      BY <2>1
    <3> QED
      BY <1>3, <2>3, <3>1
  <2>8. MessagePlace(b + n)'
    BY <1>0, <1>1, <1>3, <1>5, <2>7 DEF MessagePlace
  <2>9. PlaceInv'
    <3>1. \E m \in 0..answer.body : out' = Read(m) /\ MessagePlace(m)'
      <4> DEFINE m == b + n
      <4>1. m \in 0..answer.body /\ out' = Read(m) /\ MessagePlace(m)'
        BY <2>5, <2>6, <2>8
      <4> HIDE DEF m
      <4> QED
        BY <4>1
    <3> QED
      BY <1>0, <1>1, <1>5, <3>1 DEF PlaceInv, Read
  <2> QED
    BY <2>3, <2>9 DEF TransferInv
<1>6. ASSUME eof, Ends(0), UNCHANGED <<received, out>>
      PROVE  TransferInv'
  <2>1. WireInv'
    BY <1>0, <1>1, <1>6, WireOn
  <2>2. received = <<>> /\ peer = "closed" /\ arrived = pos
    BY <1>0, <1>6 DEF WireInv
  <2>3. taken = pos
    BY <1>0, <2>2, WireFacts
  <2>4. Cut \/ out = Read(answer.body)
    <3> DEFINE z == Len(answer.stream)
    <3>1. z = answer.body + 1
      BY <1>0, <1>3, PlainBytes
    <3>2. arrived < z => Cut
      BY <2>2 DEF Cut
    <3>3. arrived <= z
      BY <1>4
    <3> HIDE DEF z
    <3>4. arrived < z \/ b = answer.body
      BY <1>3, <1>4, <2>2, <2>3, <3>1, <3>3
    <3> QED
      BY <1>2, <3>2, <3>4
  <2>5. Cut' \/ out' = Read(answer'.body)
    BY <1>1, <1>6, <2>4 DEF Cut
  <2>6. step' = "done" /\ ret' = 0 /\ answer'.framing = "close"
    BY <1>1, <1>3, <1>6 DEF Ends
  <2>7. Ended'
    BY <2>5, <2>6, MessageEnds
  <2>8. PlaceInv'
    BY <1>1, <1>2, <1>6, <2>6, <2>7, DoneWith
  <2> QED
    BY <2>1, <2>8 DEF TransferInv
<1> QED
  BY <1>5, <1>6 DEF readEntityUntilClose

(* AtPlace first nothing is read. *)
LEMMA TransferStarts == ASSUME TransferAssumption, TransferInit PROVE TransferInv
<1>1. Len(answer.stream) \in Nat /\ answer \in Answers
  BY AnswerShape DEF TransferInit
<1>2. received = <<>> /\ Len(received) = 0 /\ pos = 0 /\ arrived = 0
  <2>1. received = <<>> /\ pos = 0 /\ arrived = 0
    BY DEF TransferInit
  <2> QED
    BY <2>1
<1>3. taken = 0
  <2>1. taken = 0 - 0
    BY <1>2 DEF taken
  <2> QED
    BY <2>1
<1>4. received = SubSeq(answer.stream, taken + 1, pos)
  <2>1. SubSeq(answer.stream, 0 + 1, 0) = <<>>
    BY NothingBetween
  <2> QED
    BY <1>2, <1>3, <2>1
<1>5. arrived \in 0..Len(answer.stream)
  BY <1>1, <1>2
<1>6. Len(received) \in 0..pos /\ pos \in 0..arrived
  BY <1>2
<1>7. WireInv
  BY <1>1, <1>2, <1>4, <1>5, <1>6 DEF WireInv, TransferInit
<1>8. PlaceInv
  BY <1>3 DEF PlaceInv, TransferInit
<1> QED
  BY <1>7, <1>8 DEF TransferInv

(* Every step preserves the invariant. *)
LEMMA TransferInductive ==
    ASSUME TransferAssumption, TransferInv, [TransferNext]_transferVars PROVE TransferInv'
<1>1. CASE UNCHANGED transferVars
  <2>1. WireInv /\ PlaceInv
    BY DEF TransferInv
  <2>2. /\ UNCHANGED <<answer, arrived, peer, reader, step, pos, received, eof, left, chunk, out, ret, late>>
        /\ taken' = taken /\ Cut' = Cut /\ CutInLine' = CutInLine
    BY <1>1 DEF transferVars, taken, Cut, CutInLine
  <2> QED
    BY <2>1, <2>2, PlaceStays, WireOn DEF TransferInv
<1>2. CASE TransferNext
  BY <1>2, NetworkMoves, TimeIsOver, RequestSent, HeadersRead, ChunkEnds, SizeRead, ResponseRead,
     BufferRefilled, MessageLoaded, EncodedEntityRead, LengthRead, LineTaken, ReadToTheEnd
  DEF TransferNext
<1> QED
  BY <1>1, <1>2

(* The invariant and what is reported of a transfer. *)
LEMMA TransferIsWhole == ASSUME TransferAssumption, TransferInv PROVE TransferWhole
<1>0. WireInv /\ PlaceInv /\ answer \in Answers
  BY DEF TransferInv, WireInv
<1>1. answer.body \in Nat /\ Whole = Read(answer.body) /\ 0 \in 0..answer.body
  BY <1>0, AnswerShape, WholeIsRead
<1>2. out = <<>> \/ \E b \in 0..answer.body : out = Read(b)
  BY <1>0 DEF PlaceInv
<1>3. IsPrefix(out, Whole)
  BY <1>1, <1>2, ReadIsPrefix
<1>4. step = "done" => Ended
  BY <1>0 DEF PlaceInv
<1>5. ArrivedWhole => ~Cut
  <2> DEFINE z == Len(answer.stream)
  <2>1. z \in Nat
    BY <1>0, AnswerShape
  <2>2. ArrivedWhole => arrived = z
    BY DEF ArrivedWhole
  <2>3. Cut => arrived < z
    BY DEF Cut
  <2> HIDE DEF z
  <2> QED
    BY <2>1, <2>2, <2>3
<1> QED
  BY <1>1, <1>3, <1>4, <1>5 DEF TransferWhole, Ended

(* However an answer that is well formed is cut into pieces, and wherever the
   peer stops, the two readers (read_http_response, loadRestOfMessage) read
   nothing but the message, in order; what has arrived whole is read whole
   unless it is not understood or the time is over, and a download reported
   as a success is whole unless its end is the end of the connection or it was
   cut within a line, where http_RecvMessage takes an error for a success. *)
THEOREM TransfersAreWhole ==
    ASSUME TransferAssumption PROVE TransferSpec => []TransferWhole
<1>1. TransferInit => TransferInv
  BY TransferAssumption, TransferStarts
<1>2. TransferInv /\ [TransferNext]_transferVars => TransferInv'
  BY TransferAssumption, TransferInductive
<1>3. TransferInv => TransferWhole
  BY TransferAssumption, TransferIsWhole
<1> QED
  BY <1>1, <1>2, <1>3, PTL DEF TransferSpec

-----------------------------------------------------------------------------
(* PathParts and Dotless fold PartStep and DotStep. *)
PartFolded(q, e) == FoldLeft(PartStep, e, q)

PartFoldStep(e, q, f, s) == IF s = {} THEN e ELSE PartStep(f[s \ {Max(s)}], q[Max(s)])
PartFolds(e, q, n, f) == f = [s \in SUBSET (1..n) |-> PartFoldStep(e, q, f, s)]

LEMMA PartFoldAt ==
    ASSUME NEW e, NEW q, NEW n \in Nat, NEW f, PartFolds(e, q, n, f)
    PROVE  \A s \in SUBSET (1..n) : f[s] = PartFoldStep(e, q, f, s)
  BY DEF PartFolds

LEMMA PartFoldExists ==
    ASSUME NEW e, NEW q, NEW n \in Nat
    PROVE  \E f : PartFolds(e, q, n, f)
<1> DEFINE Bad == {m \in Nat : ~ \E f : PartFolds(e, q, m, f)}
<1>1. SUFFICES ASSUME Bad # {} PROVE FALSE
  OBVIOUS
<1>2. PICK m \in Bad : \A k \in Bad : m <= k
  <2> HIDE DEF Bad
  <2>1. Bad \in SUBSET Nat
    BY DEF Bad
  <2> QED
    BY <1>1, <2>1, LeastElement
<1>3. m # 0
  <2> DEFINE f == [s \in SUBSET (1..0) |-> e]
  <2>1. f = [s \in SUBSET (1..0) |-> PartFoldStep(e, q, f, s)]
    BY DEF PartFoldStep
  <2>2. PartFolds(e, q, 0, f)
    BY <2>1, Zenon DEF PartFolds
  <2> QED
    BY <2>2
<1>4. m - 1 \in Nat /\ m - 1 \notin Bad /\ m \in Nat
  BY <1>2, <1>3
<1>5. PICK f : PartFolds(e, q, m - 1, f)
  BY <1>4
<1>6. \A s \in SUBSET (1..(m-1)) : f[s] = PartFoldStep(e, q, f, s)
  BY <1>4, <1>5, PartFoldAt
<1> DEFINE g == [s \in SUBSET (1..m) |-> IF m \in s THEN PartFoldStep(e, q, f, s) ELSE f[s]]
<1>7. ASSUME NEW s \in SUBSET (1..m) PROVE g[s] = PartFoldStep(e, q, g, s)
  <2>1. g[s] = PartFoldStep(e, q, f, s)
    BY <1>4, <1>6
  <2>2. CASE s = {}
    BY <2>1, <2>2 DEF PartFoldStep
  <2>3. CASE s # {}
    <3>1. Max(s) \in s /\ \A y \in s : y <= Max(s)
      BY <1>4, <2>3, GreatestElement
    <3>2. m \notin s \ {Max(s)} /\ s \ {Max(s)} \in SUBSET (1..m)
      <4> DEFINE x == Max(s)
      <4>1. x \in 1..m /\ \A y \in s : y <= x
        BY <3>1
      <4> HIDE DEF x
      <4>2. m \in s => x = m
        BY <4>1, <1>4
      <4> QED
        BY <4>2 DEF x
    <3>3. g[s \ {Max(s)}] = f[s \ {Max(s)}]
      BY <3>2
    <3> QED
      BY <2>1, <2>3, <3>3, Zenon DEF PartFoldStep
  <2> QED
    BY <2>2, <2>3
<1>8. PartFolds(e, q, m, g)
  <2> DEFINE h == [s \in SUBSET (1..m) |-> PartFoldStep(e, q, g, s)]
  <2>1. g = h
    <3> HIDE DEF h, g
    <3>1. \A s \in SUBSET (1..m) : g[s] = h[s]
      BY <1>7 DEF h
    <3>2. /\ g = [s \in SUBSET (1..m) |-> g[s]]
          /\ h = [s \in SUBSET (1..m) |-> h[s]]
      BY DEF g, h
    <3> QED
      BY <3>1, <3>2
  <2> QED
    BY <2>1, Zenon DEF PartFolds
<1> QED
  BY <1>2, <1>8

PartFoldFrom(e, q, n) ==
    LET f == CHOOSE f : PartFolds(e, q, n, f) IN [i \in 0..n |-> f[1..i]]

LEMMA PartFoldIs ==
    ASSUME NEW q, NEW n \in Nat, Numbered(q, n), NEW e
    PROVE  /\ PartFoldFrom(e, q, n)[0] = e
           /\ \A i \in 1..n : PartFoldFrom(e, q, n)[i] = PartStep(PartFoldFrom(e, q, n)[i-1], q[i])
           /\ PartFolded(q, e) = PartFoldFrom(e, q, n)[n]
<1> DEFINE f == CHOOSE f : PartFolds(e, q, n, f)
<1>d. DOMAIN q = 1..n
  BY DEF Numbered
<1>0. PartFoldFrom(e, q, n) = [i \in 0..n |-> f[1..i]]
  BY Zenon DEF PartFoldFrom
<1>1. PartFolded(q, e) = f[1..n]
  <2>1. PartFolded(q, e)
          = (CHOOSE g : g = [s \in SUBSET DOMAIN q |->
                IF s = {} THEN e ELSE PartStep(g[s \ {Max(s)}], q[Max(s)])])[DOMAIN q]
    BY Zenon DEF FoldLeft, MapThenFoldSet, PartFolded
  <2> QED
    BY <1>d, <2>1, Zenon DEF PartFolds, PartFoldStep
<1>2. PartFolds(e, q, n, f)
  BY PartFoldExists
<1> HIDE DEF f
<1>3. \A s \in SUBSET (1..n) : f[s] = PartFoldStep(e, q, f, s)
  BY <1>2, PartFoldAt
<1> DEFINE r == [i \in 0..n |-> f[1..i]]
<1>4. r[0] = e
  <2>1. 1..0 = {} /\ {} \in SUBSET (1..n)
    OBVIOUS
  <2>2. f[1..0] = e
    BY <2>1, <1>3, Zenon DEF PartFoldStep
  <2> QED
    BY <2>2
<1>5. ASSUME NEW i \in 1..n PROVE r[i] = PartStep(r[i-1], q[i])
  <2>1. 1..i \in SUBSET (1..n) /\ 1..i # {} /\ i \in Nat /\ i \in 1..i
    OBVIOUS
  <2>2. Max(1..i) = i
    <3>1. Max(1..i) \in 1..i /\ \A y \in 1..i : y <= Max(1..i)
      BY <2>1, GreatestElement
    <3>2. Max(1..i) <= i /\ i <= Max(1..i) /\ Max(1..i) \in Int
      BY <2>1, <3>1
    <3> QED
      BY <3>2, <2>1
  <2>3. (1..i) \ {i} = 1..(i-1)
    OBVIOUS
  <2>4. f[1..i] = PartStep(f[1..(i-1)], q[i])
    BY <1>3, <2>1, <2>2, <2>3, Zenon DEF PartFoldStep
  <2>5. r[i] = f[1..i] /\ r[i-1] = f[1..(i-1)]
    OBVIOUS
  <2> QED
    BY <2>4, <2>5, Zenon
<1>6. r[n] = f[1..n]
  OBVIOUS
<1> QED
  BY <1>0, <1>1, <1>4, <1>5, <1>6, Zenon

DotFolded(q, e) == FoldLeft(DotStep, e, q)

DotFoldStep(e, q, f, s) == IF s = {} THEN e ELSE DotStep(f[s \ {Max(s)}], q[Max(s)])
DotFolds(e, q, n, f) == f = [s \in SUBSET (1..n) |-> DotFoldStep(e, q, f, s)]

LEMMA DotFoldAt ==
    ASSUME NEW e, NEW q, NEW n \in Nat, NEW f, DotFolds(e, q, n, f)
    PROVE  \A s \in SUBSET (1..n) : f[s] = DotFoldStep(e, q, f, s)
  BY DEF DotFolds

LEMMA DotFoldExists ==
    ASSUME NEW e, NEW q, NEW n \in Nat
    PROVE  \E f : DotFolds(e, q, n, f)
<1> DEFINE Bad == {m \in Nat : ~ \E f : DotFolds(e, q, m, f)}
<1>1. SUFFICES ASSUME Bad # {} PROVE FALSE
  OBVIOUS
<1>2. PICK m \in Bad : \A k \in Bad : m <= k
  <2> HIDE DEF Bad
  <2>1. Bad \in SUBSET Nat
    BY DEF Bad
  <2> QED
    BY <1>1, <2>1, LeastElement
<1>3. m # 0
  <2> DEFINE f == [s \in SUBSET (1..0) |-> e]
  <2>1. f = [s \in SUBSET (1..0) |-> DotFoldStep(e, q, f, s)]
    BY DEF DotFoldStep
  <2>2. DotFolds(e, q, 0, f)
    BY <2>1, Zenon DEF DotFolds
  <2> QED
    BY <2>2
<1>4. m - 1 \in Nat /\ m - 1 \notin Bad /\ m \in Nat
  BY <1>2, <1>3
<1>5. PICK f : DotFolds(e, q, m - 1, f)
  BY <1>4
<1>6. \A s \in SUBSET (1..(m-1)) : f[s] = DotFoldStep(e, q, f, s)
  BY <1>4, <1>5, DotFoldAt
<1> DEFINE g == [s \in SUBSET (1..m) |-> IF m \in s THEN DotFoldStep(e, q, f, s) ELSE f[s]]
<1>7. ASSUME NEW s \in SUBSET (1..m) PROVE g[s] = DotFoldStep(e, q, g, s)
  <2>1. g[s] = DotFoldStep(e, q, f, s)
    BY <1>4, <1>6
  <2>2. CASE s = {}
    BY <2>1, <2>2 DEF DotFoldStep
  <2>3. CASE s # {}
    <3>1. Max(s) \in s /\ \A y \in s : y <= Max(s)
      BY <1>4, <2>3, GreatestElement
    <3>2. m \notin s \ {Max(s)} /\ s \ {Max(s)} \in SUBSET (1..m)
      <4> DEFINE x == Max(s)
      <4>1. x \in 1..m /\ \A y \in s : y <= x
        BY <3>1
      <4> HIDE DEF x
      <4>2. m \in s => x = m
        BY <4>1, <1>4
      <4> QED
        BY <4>2 DEF x
    <3>3. g[s \ {Max(s)}] = f[s \ {Max(s)}]
      BY <3>2
    <3> QED
      BY <2>1, <2>3, <3>3, Zenon DEF DotFoldStep
  <2> QED
    BY <2>2, <2>3
<1>8. DotFolds(e, q, m, g)
  <2> DEFINE h == [s \in SUBSET (1..m) |-> DotFoldStep(e, q, g, s)]
  <2>1. g = h
    <3> HIDE DEF h, g
    <3>1. \A s \in SUBSET (1..m) : g[s] = h[s]
      BY <1>7 DEF h
    <3>2. /\ g = [s \in SUBSET (1..m) |-> g[s]]
          /\ h = [s \in SUBSET (1..m) |-> h[s]]
      BY DEF g, h
    <3> QED
      BY <3>1, <3>2
  <2> QED
    BY <2>1, Zenon DEF DotFolds
<1> QED
  BY <1>2, <1>8

DotFoldFrom(e, q, n) ==
    LET f == CHOOSE f : DotFolds(e, q, n, f) IN [i \in 0..n |-> f[1..i]]

LEMMA DotFoldIs ==
    ASSUME NEW q, NEW n \in Nat, Numbered(q, n), NEW e
    PROVE  /\ DotFoldFrom(e, q, n)[0] = e
           /\ \A i \in 1..n : DotFoldFrom(e, q, n)[i] = DotStep(DotFoldFrom(e, q, n)[i-1], q[i])
           /\ DotFolded(q, e) = DotFoldFrom(e, q, n)[n]
<1> DEFINE f == CHOOSE f : DotFolds(e, q, n, f)
<1>d. DOMAIN q = 1..n
  BY DEF Numbered
<1>0. DotFoldFrom(e, q, n) = [i \in 0..n |-> f[1..i]]
  BY Zenon DEF DotFoldFrom
<1>1. DotFolded(q, e) = f[1..n]
  <2>1. DotFolded(q, e)
          = (CHOOSE g : g = [s \in SUBSET DOMAIN q |->
                IF s = {} THEN e ELSE DotStep(g[s \ {Max(s)}], q[Max(s)])])[DOMAIN q]
    BY Zenon DEF FoldLeft, MapThenFoldSet, DotFolded
  <2> QED
    BY <1>d, <2>1, Zenon DEF DotFolds, DotFoldStep
<1>2. DotFolds(e, q, n, f)
  BY DotFoldExists
<1> HIDE DEF f
<1>3. \A s \in SUBSET (1..n) : f[s] = DotFoldStep(e, q, f, s)
  BY <1>2, DotFoldAt
<1> DEFINE r == [i \in 0..n |-> f[1..i]]
<1>4. r[0] = e
  <2>1. 1..0 = {} /\ {} \in SUBSET (1..n)
    OBVIOUS
  <2>2. f[1..0] = e
    BY <2>1, <1>3, Zenon DEF DotFoldStep
  <2> QED
    BY <2>2
<1>5. ASSUME NEW i \in 1..n PROVE r[i] = DotStep(r[i-1], q[i])
  <2>1. 1..i \in SUBSET (1..n) /\ 1..i # {} /\ i \in Nat /\ i \in 1..i
    OBVIOUS
  <2>2. Max(1..i) = i
    <3>1. Max(1..i) \in 1..i /\ \A y \in 1..i : y <= Max(1..i)
      BY <2>1, GreatestElement
    <3>2. Max(1..i) <= i /\ i <= Max(1..i) /\ Max(1..i) \in Int
      BY <2>1, <3>1
    <3> QED
      BY <3>2, <2>1
  <2>3. (1..i) \ {i} = 1..(i-1)
    OBVIOUS
  <2>4. f[1..i] = DotStep(f[1..(i-1)], q[i])
    BY <1>3, <2>1, <2>2, <2>3, Zenon DEF DotFoldStep
  <2>5. r[i] = f[1..i] /\ r[i-1] = f[1..(i-1)]
    OBVIOUS
  <2> QED
    BY <2>4, <2>5, Zenon
<1>6. r[n] = f[1..n]
  OBVIOUS
<1> QED
  BY <1>0, <1>1, <1>4, <1>5, <1>6, Zenon

-----------------------------------------------------------------------------
(* The paths that remove_dots is given, without the query, and their parts
   after n characters: the last one, and what the others leave. *)
Paths == {p \in Seq(PathChars) : p # <<>> /\ p[1] = "/"}
PartNames == Seq(PathChars)
DotOutcomes == [ok : BOOLEAN, out : Seq(PartNames)]
NoParts == [ok |-> TRUE, out |-> <<>>]
PartsOf(p) == PartFoldFrom(<<>>, p, Len(p))
DotsOf(ss) == DotFoldFrom(NoParts, ss, Len(ss))
Current(p, n) == Last(PartsOf(p)[n])
Behind(p, n) == DotsOf(PartsOf(p)[n])[Len(PartsOf(p)[n]) - 1]

LEMMA PartsOfIs ==
    ASSUME NEW p \in Paths
    PROVE  /\ Len(p) \in Nat \ {0} /\ PartsOf(p)[0] = <<>>
           /\ \A i \in 1..Len(p) : PartsOf(p)[i] = PartStep(PartsOf(p)[i-1], p[i])
           /\ PathParts(p) = PartsOf(p)[Len(p)]
<1> DEFINE n == Len(p)
<1>1. n \in Nat \ {0} /\ DOMAIN p = 1..n
  BY DEF Paths
<1>2. Numbered(p, n)
  BY <1>1 DEF Numbered
<1>3. PartFolded(p, <<>>) = PathParts(p)
  BY Zenon DEF PartFolded, PathParts
<1>4. n \in Nat
  BY <1>1
<1> HIDE DEF n
<1>5. /\ PartFoldFrom(<<>>, p, n)[0] = <<>>
      /\ \A i \in 1..n : PartFoldFrom(<<>>, p, n)[i] = PartStep(PartFoldFrom(<<>>, p, n)[i-1], p[i])
      /\ PartFolded(p, <<>>) = PartFoldFrom(<<>>, p, n)[n]
  BY <1>2, <1>4, PartFoldIs
<1> QED
  BY <1>1, <1>3, <1>5, Zenon DEF n, PartsOf

LEMMA DotsOfIs ==
    ASSUME NEW ss \in Seq(PartNames)
    PROVE  /\ Len(ss) \in Nat /\ DotsOf(ss)[0] = NoParts
           /\ \A i \in 1..Len(ss) : DotsOf(ss)[i] = DotStep(DotsOf(ss)[i-1], ss[i])
           /\ FoldLeft(DotStep, NoParts, ss) = DotsOf(ss)[Len(ss)]
<1> DEFINE n == Len(ss)
<1>1. n \in Nat /\ DOMAIN ss = 1..n
  OBVIOUS
<1>2. Numbered(ss, n)
  BY <1>1 DEF Numbered
<1>3. DotFolded(ss, NoParts) = FoldLeft(DotStep, NoParts, ss)
  BY Zenon DEF DotFolded
<1> HIDE DEF n
<1>5. /\ DotFoldFrom(NoParts, ss, n)[0] = NoParts
      /\ \A i \in 1..n : DotFoldFrom(NoParts, ss, n)[i] = DotStep(DotFoldFrom(NoParts, ss, n)[i-1], ss[i])
      /\ DotFolded(ss, NoParts) = DotFoldFrom(NoParts, ss, n)[n]
  BY <1>1, <1>2, DotFoldIs
<1> QED
  BY <1>1, <1>3, <1>5, Zenon DEF n, DotsOf

LEMMA DotStepTyped ==
    ASSUME NEW r \in DotOutcomes, NEW s \in PartNames
    PROVE  DotStep(r, s) \in DotOutcomes
<1>1. r.ok \in BOOLEAN /\ r.out \in Seq(PartNames) /\ r = [ok |-> r.ok, out |-> r.out]
  BY DEF DotOutcomes
<1> HIDE DEF PartNames
<1>2. Append(r.out, s) \in Seq(PartNames)
  BY <1>1, AppendProperties
<1>3. r.out # <<>> => Front(r.out) \in Seq(PartNames)
  <2>1. SUFFICES ASSUME r.out # <<>> PROVE Front(r.out) \in Seq(PartNames)
    OBVIOUS
  <2>2. Len(r.out) \in Nat \ {0} /\ Front(r.out) = SubSeq(r.out, 1, Len(r.out) - 1)
    BY <1>1, <2>1 DEF Front
  <2> QED
    BY <1>1, <2>2
<1>4. \A o \in Seq(PartNames) : [r EXCEPT !.out = o] \in DotOutcomes
  BY <1>1 DEF DotOutcomes
<1>5. [r EXCEPT !.ok = FALSE] \in DotOutcomes
  BY <1>1 DEF DotOutcomes
<1> QED
  BY <1>2, <1>3, <1>4, <1>5 DEF DotStep

LEMMA DotsTyped ==
    ASSUME NEW ss \in Seq(PartNames)
    PROVE  \A k \in 0..Len(ss) : DotsOf(ss)[k] \in DotOutcomes
<1> DEFINE f == DotsOf(ss)
           n == Len(ss)
           Bad == {k \in 0..n : f[k] \notin DotOutcomes}
<1>1. n \in Nat /\ f[0] = NoParts /\ \A i \in 1..n : f[i] = DotStep(f[i-1], ss[i]) /\ ss[i] \in PartNames
  <2>1. \A i \in 1..n : ss[i] \in PartNames
    OBVIOUS
  <2> QED
    BY <2>1, DotsOfIs
<1>2. f[0] \in DotOutcomes
  <2>1. <<>> \in Seq(PartNames)
    OBVIOUS
  <2> QED
    BY <1>1, <2>1 DEF NoParts, DotOutcomes
<1> HIDE DEF f, n
<1>3. SUFFICES ASSUME Bad # {} PROVE FALSE
  BY DEF f, n
<1>4. PICK k \in Bad : \A j \in Bad : k <= j
  <2>1. Bad \in SUBSET Nat
    BY <1>1
  <2> HIDE DEF Bad
  <2> QED
    BY <1>3, <2>1, LeastElement
<1>5. k \in 1..n /\ k - 1 \in 0..n /\ k - 1 \notin Bad
  BY <1>1, <1>2, <1>4
<1>6. f[k-1] \in DotOutcomes /\ f[k] = DotStep(f[k-1], ss[k]) /\ ss[k] \in PartNames
  BY <1>1, <1>5
<1> QED
  BY <1>4, <1>6, DotStepTyped

LEMMA DotsAgree ==
    ASSUME NEW ss \in Seq(PartNames), NEW tt \in Seq(PartNames), NEW m \in 0..Len(ss), m <= Len(tt),
           \A i \in 1..m : ss[i] = tt[i]
    PROVE  DotsOf(ss)[m] = DotsOf(tt)[m]
<1> DEFINE f == DotsOf(ss)
           g == DotsOf(tt)
           Bad == {k \in 0..m : f[k] # g[k]}
<1>1. /\ m \in Nat /\ f[0] = NoParts /\ \A i \in 1..m : f[i] = DotStep(f[i-1], ss[i])
      /\ g[0] = NoParts /\ \A i \in 1..m : g[i] = DotStep(g[i-1], tt[i])
  <2>1. m \in Nat /\ \A i \in 1..m : i \in 1..Len(ss) /\ i \in 1..Len(tt)
    BY DotsOfIs
  <2> QED
    BY <2>1, DotsOfIs
<1> HIDE DEF f, g
<1>3. SUFFICES ASSUME Bad # {} PROVE FALSE
  BY <1>1 DEF f, g
<1>4. PICK k \in Bad : \A j \in Bad : k <= j
  <2>1. Bad \in SUBSET Nat
    BY <1>1
  <2> HIDE DEF Bad
  <2> QED
    BY <1>3, <2>1, LeastElement
<1>5. k \in 1..m /\ k - 1 \in 0..m /\ k - 1 \notin Bad
  BY <1>1, <1>4
<1>6. f[k-1] = g[k-1] /\ f[k] = DotStep(f[k-1], ss[k]) /\ g[k] = DotStep(g[k-1], tt[k]) /\ ss[k] = tt[k]
  BY <1>1, <1>5
<1> QED
  BY <1>4, <1>6

LEMMA LastReplaced ==
    ASSUME NEW S, NEW ss \in Seq(S), Len(ss) # 0, NEW t \in S, NEW tt, tt = [ss EXCEPT ![Len(ss)] = t]
    PROVE  /\ tt \in Seq(S) /\ Len(tt) = Len(ss) /\ tt[Len(ss)] = t
           /\ \A i \in 1..(Len(ss) - 1) : tt[i] = ss[i]
<1>1. Len(ss) \in Nat \ {0} /\ Len(ss) \in 1..Len(ss)
  OBVIOUS
<1> QED
  BY <1>1, ExceptSeq

(* What a character does to the parts. *)
LEMMA PartStepIs ==
    ASSUME NEW ss \in Seq(PartNames), NEW c \in PathChars, c # "/" => ss # <<>>
    PROVE  /\ PartStep(ss, c) \in Seq(PartNames) /\ PartStep(ss, c) # <<>>
           /\ c = "/" => /\ Len(PartStep(ss, c)) = Len(ss) + 1 /\ Last(PartStep(ss, c)) = <<>>
                         /\ \A i \in 1..Len(ss) : PartStep(ss, c)[i] = ss[i]
           /\ c # "/" => /\ Len(PartStep(ss, c)) = Len(ss)
                         /\ Last(PartStep(ss, c)) = Append(Last(ss), c)
                         /\ \A i \in 1..(Len(ss) - 1) : PartStep(ss, c)[i] = ss[i]
<1>1. CASE c = "/"
  <2>1. PartStep(ss, c) = Append(ss, <<>>) /\ <<>> \in PartNames
    BY <1>1 DEF PartStep, PartNames
  <2> HIDE DEF PartNames
  <2>2. /\ Append(ss, <<>>) \in Seq(PartNames) /\ Len(Append(ss, <<>>)) = Len(ss) + 1
        /\ \A i \in 1..Len(ss) : Append(ss, <<>>)[i] = ss[i]
        /\ Append(ss, <<>>)[Len(ss) + 1] = <<>>
    BY <2>1, AppendProperties
  <2>3. Last(Append(ss, <<>>)) = <<>> /\ Append(ss, <<>>) # <<>>
    BY <2>2 DEF Last
  <2> QED
    BY <1>1, <2>1, <2>2, <2>3, Zenon
<1>2. CASE c # "/"
  <2> DEFINE n == Len(ss)
             t == Append(ss[n], c)
             tt == [ss EXCEPT ![n] = t]
  <2>1. n \in Nat \ {0} /\ DOMAIN ss = 1..n /\ ss[n] \in PartNames
    BY <1>2
  <2>2. PartStep(ss, c) = tt
    BY <1>2 DEF PartStep
  <2>3. t \in PartNames /\ Last(ss) = ss[n]
    BY <2>1, AppendProperties DEF PartNames, Last
  <2> HIDE DEF t, PartNames
  <2>4. tt \in Seq(PartNames) /\ Len(tt) = n /\ tt[n] = t /\ \A i \in 1..(n-1) : tt[i] = ss[i]
    <3>1. Len(ss) # 0 /\ tt = [ss EXCEPT ![Len(ss)] = t]
      BY <2>1
    <3> HIDE DEF tt
    <3> QED
      BY <2>3, <3>1, LastReplaced
  <2>5. Last(tt) = t /\ tt # <<>>
    BY <2>1, <2>4 DEF Last
  <2> HIDE DEF n
  <2> QED
    BY <1>2, <2>2, <2>3, <2>4, <2>5, Zenon DEF n, t
<1> QED
  BY <1>1, <1>2

LEMMA PartsTyped ==
    ASSUME NEW p \in Paths
    PROVE  \A k \in 1..Len(p) : /\ PartsOf(p)[k] \in Seq(PartNames) /\ PartsOf(p)[k] # <<>>
                                /\ p[k] = "/" <=> Current(p, k) = <<>>
<1> DEFINE f == PartsOf(p)
           n == Len(p)
           Ok(k) == f[k] \in Seq(PartNames) /\ f[k] # <<>> /\ (p[k] = "/" <=> Current(p, k) = <<>>)
           Bad == {k \in 1..n : ~Ok(k)}
<1>1. /\ n \in Nat \ {0} /\ f[0] = <<>> /\ \A i \in 1..n : f[i] = PartStep(f[i-1], p[i])
      /\ \A i \in 1..n : p[i] \in PathChars
  <2>1. \A i \in 1..n : p[i] \in PathChars
    BY DEF Paths
  <2> QED
    BY <2>1, PartsOfIs
<1>2. Current(p, 1) = Last(f[1]) /\ \A k : Current(p, k) = Last(f[k])
  BY DEF Current
<1>3. Ok(1)
  <2>1. f[1] = PartStep(<<>>, "/") /\ p[1] = "/"
    BY <1>1 DEF Paths
  <2>2. <<>> \in Seq(PartNames) /\ "/" \in PathChars
    BY DEF PathChars
  <2> HIDE DEF f
  <2>3. PartStep(<<>>, "/") \in Seq(PartNames) /\ PartStep(<<>>, "/") # <<>> /\ Last(PartStep(<<>>, "/")) = <<>>
    BY <2>2, PartStepIs
  <2> QED
    BY <2>1, <2>3, <1>2
<1> HIDE DEF f
<1> DEFINE Goal == \A k \in 1..n : Ok(k)
<1>4. SUFFICES ASSUME Bad # {} PROVE FALSE
  <2>1. Goal
    BY <1>4
  <2> QED
    BY <2>1 DEF f
<1> HIDE DEF n
<1>5. PICK k \in Bad : \A j \in Bad : k <= j
  <2>1. Bad \in SUBSET Nat
    BY <1>1
  <2> HIDE DEF Bad
  <2> QED
    BY <1>4, <2>1, LeastElement
<1>6. k \in 2..n /\ k - 1 \in 1..n /\ k - 1 \notin Bad /\ k \in 1..n
  <2>1. k # 1
    BY <1>3, <1>5
  <2>2. k \in 1..n /\ k - 1 \notin Bad
    <3> HIDE DEF Ok
    <3> QED
      BY <1>5, <1>1
  <2> HIDE DEF Bad
  <2> QED
    BY <2>1, <2>2, <1>1
<1>7. f[k-1] \in Seq(PartNames) /\ f[k-1] # <<>> /\ f[k] = PartStep(f[k-1], p[k]) /\ p[k] \in PathChars
  BY <1>1, <1>6
<1>8. /\ f[k] \in Seq(PartNames) /\ f[k] # <<>>
      /\ p[k] = "/" => Last(f[k]) = <<>>
      /\ p[k] # "/" => Last(f[k]) = Append(Last(f[k-1]), p[k])
  BY <1>7, PartStepIs
<1>9. Last(f[k-1]) \in PartNames
  BY <1>7 DEF Last
<1>10. Append(Last(f[k-1]), p[k]) # <<>>
  BY <1>9, <1>7, AppendProperties DEF PartNames
<1>11. Ok(k)
  BY <1>2, <1>8, <1>10
<1> QED
  BY <1>5, <1>11

LEMMA Stepped ==
    ASSUME NEW p \in Paths, NEW k \in 1..(Len(p) - 1)
    PROVE  /\ p[k+1] = "/" => /\ Current(p, k + 1) = <<>>
                              /\ Behind(p, k + 1) = DotStep(Behind(p, k), Current(p, k))
           /\ p[k+1] # "/" => /\ Current(p, k + 1) = Append(Current(p, k), p[k+1])
                              /\ Behind(p, k + 1) = Behind(p, k)
<1> DEFINE ss == PartsOf(p)[k]
           tt == PartsOf(p)[k+1]
           c == p[k+1]
           m == Len(ss)
<1>1. Len(p) \in Nat \ {0} /\ k \in 1..Len(p) /\ k + 1 \in 1..Len(p) /\ (k + 1) - 1 = k
  BY PartsOfIs
<1>2. c \in PathChars
  BY <1>1 DEF Paths
<1>3. ss \in Seq(PartNames) /\ ss # <<>> /\ tt \in Seq(PartNames) /\ tt # <<>>
  BY <1>1, PartsTyped
<1>4. tt = PartStep(ss, c)
  BY <1>1, PartsOfIs
<1>5. /\ Current(p, k) = Last(ss) /\ Current(p, k + 1) = Last(tt)
      /\ Behind(p, k) = DotsOf(ss)[Len(ss) - 1] /\ Behind(p, k + 1) = DotsOf(tt)[Len(tt) - 1]
  BY DEF Current, Behind
<1> HIDE DEF ss, tt, c
<1>6. m \in Nat \ {0} /\ Last(ss) = ss[m]
  BY <1>3 DEF Last
<1>7. CASE c = "/"
  <2>1. Len(tt) = m + 1 /\ Last(tt) = <<>> /\ \A i \in 1..m : tt[i] = ss[i]
    BY <1>2, <1>3, <1>4, <1>7, PartStepIs
  <2>2. DotsOf(tt)[m] = DotsOf(ss)[m]
    BY <1>3, <1>6, <2>1, DotsAgree
  <2>3. DotsOf(ss)[m] = DotStep(DotsOf(ss)[m-1], ss[m])
    <3>1. m \in 1..Len(ss)
      BY <1>6
    <3> QED
      BY <1>3, <3>1, DotsOfIs
  <2>4. (m + 1) - 1 = m
    BY <1>6
  <2> QED
    BY <1>5, <1>6, <1>7, <2>1, <2>2, <2>3, <2>4 DEF c
<1>8. CASE c # "/"
  <2>1. Len(tt) = m /\ Last(tt) = Append(Last(ss), c) /\ \A i \in 1..(m-1) : tt[i] = ss[i]
    BY <1>2, <1>3, <1>4, <1>8, PartStepIs
  <2>2. DotsOf(tt)[m-1] = DotsOf(ss)[m-1]
    BY <1>3, <1>6, <2>1, DotsAgree
  <2> QED
    BY <1>5, <1>8, <2>1, <2>2 DEF c
<1> QED
  BY <1>7, <1>8

LEMMA FirstPart ==
    ASSUME NEW p \in Paths
    PROVE  Current(p, 1) = <<>> /\ Behind(p, 1) = NoParts
<1> DEFINE ss == PartsOf(p)[1]
<1>1. PartsOf(p)[1] = PartStep(<<>>, p[1]) /\ p[1] = "/"
  <2>1. 1 \in 1..Len(p) /\ 1 - 1 = 0
    BY PartsOfIs
  <2> QED
    BY <2>1, PartsOfIs DEF Paths
<1>2. <<>> \in Seq(PartNames) /\ "/" \in PathChars /\ Len(<<>>) = 0
  BY DEF PathChars
<1>3. ss \in Seq(PartNames) /\ Len(ss) = 0 + 1 /\ Last(ss) = <<>>
  <2> HIDE DEF ss
  <2>1. ss = PartStep(<<>>, "/")
    BY <1>1 DEF ss
  <2>2. /\ PartStep(<<>>, "/") \in Seq(PartNames)
        /\ Len(PartStep(<<>>, "/")) = Len(<<>>) + 1 /\ Last(PartStep(<<>>, "/")) = <<>>
    BY <1>2, PartStepIs
  <2> QED
    BY <1>2, <2>1, <2>2
<1>4. DotsOf(ss)[0] = NoParts
  BY <1>3, DotsOfIs
<1>5. (0 + 1) - 1 = 0
  OBVIOUS
<1> QED
  BY <1>3, <1>4, <1>5 DEF Current, Behind

LEMMA BehindTyped ==
    ASSUME NEW p \in Paths, NEW k \in 1..Len(p)
    PROVE  Behind(p, k) \in DotOutcomes /\ Current(p, k) \in PartNames
<1> DEFINE ss == PartsOf(p)[k]
<1>1. ss \in Seq(PartNames) /\ ss # <<>>
  BY PartsTyped
<1>2. Current(p, k) = Last(ss) /\ Behind(p, k) = DotsOf(ss)[Len(ss) - 1]
  BY DEF Current, Behind
<1> HIDE DEF ss
<1>3. Len(ss) \in Nat \ {0} /\ Len(ss) - 1 \in 0..Len(ss) /\ Last(ss) \in PartNames
  BY <1>1 DEF Last
<1> QED
  BY <1>1, <1>2, <1>3, DotsTyped

(* What is left of all parts. *)
LEMMA AllParts ==
    ASSUME NEW p \in Paths
    PROVE  LET n == Len(p)
               r == DotStep(Behind(p, n), Current(p, n))
           IN  /\ Last(PathParts(p)) = Current(p, n)
               /\ FoldLeft(DotStep, [ok |-> TRUE, out |-> <<>>], PathParts(p)) = r
<1> DEFINE n == Len(p)
           ss == PartsOf(p)[n]
           m == Len(ss)
<1>1. n \in Nat \ {0} /\ n \in 1..n /\ PathParts(p) = ss
  BY PartsOfIs
<1>2. ss \in Seq(PartNames) /\ ss # <<>>
  BY <1>1, PartsTyped
<1>3. Current(p, n) = Last(ss) /\ Behind(p, n) = DotsOf(ss)[m - 1]
  BY DEF Current, Behind
<1> HIDE DEF ss, n
<1>4. m \in Nat \ {0} /\ m \in 1..m /\ Last(ss) = ss[m]
  BY <1>2 DEF Last
<1>5. DotsOf(ss)[m] = DotStep(DotsOf(ss)[m-1], ss[m]) /\ FoldLeft(DotStep, NoParts, ss) = DotsOf(ss)[m]
  BY <1>2, <1>4, DotsOfIs
<1>6. FoldLeft(DotStep, [ok |-> TRUE, out |-> <<>>], ss) = DotsOf(ss)[m]
  BY <1>5, Zenon DEF NoParts
<1> QED
  BY <1>1, <1>3, <1>4, <1>5, <1>6, Zenon DEF n

(* A path that has once climbed above the root is refused. *)
LEMMA StaysRefused ==
    ASSUME NEW p \in Paths, NEW k \in 1..Len(p), ~Behind(p, k).ok
    PROVE  ~Dotless(PathParts(p)).ok
<1> DEFINE n == Len(p)
           Bad == {j \in k..n : Behind(p, j).ok}
<1>1. n \in Nat \ {0}
  BY PartsOfIs
<1>2. \A r \in DotOutcomes : \A s : ~r.ok => ~DotStep(r, s).ok
  BY DEF DotStep, DotOutcomes
<1>3. Bad = {}
  <2>1. SUFFICES ASSUME Bad # {} PROVE FALSE
    OBVIOUS
  <2>2. PICK j \in Bad : \A i \in Bad : j <= i
    <3>1. Bad \in SUBSET Nat
      BY <1>1
    <3> HIDE DEF Bad
    <3> QED
      BY <2>1, <3>1, LeastElement
  <2>3. j \in (k+1)..n /\ j - 1 \in k..n /\ j - 1 \notin Bad
    BY <1>1, <2>2
  <2>4. ~Behind(p, j - 1).ok /\ j - 1 \in 1..(Len(p) - 1) /\ (j - 1) + 1 = j /\ j - 1 \in 1..Len(p)
    BY <1>1, <2>3
  <2>5. Behind(p, j) = DotStep(Behind(p, j - 1), Current(p, j - 1)) \/ Behind(p, j) = Behind(p, j - 1)
    BY <2>4, Stepped
  <2>6. Behind(p, j - 1) \in DotOutcomes
    BY <2>4, BehindTyped
  <2> QED
    BY <1>2, <2>2, <2>4, <2>5, <2>6
<1>4. ~Behind(p, n).ok /\ Behind(p, n) \in DotOutcomes
  <2>1. n \in k..n /\ n \in 1..Len(p)
    BY <1>1
  <2> QED
    BY <1>3, <2>1, BehindTyped
<1>5. ~DotStep(Behind(p, n), Current(p, n)).ok
  BY <1>2, <1>4
<1>6. FoldLeft(DotStep, [ok |-> TRUE, out |-> <<>>], PathParts(p)) = DotStep(Behind(p, n), Current(p, n))
  BY AllParts
<1>7. Dotless(PathParts(p)).ok = FoldLeft(DotStep, [ok |-> TRUE, out |-> <<>>], PathParts(p)).ok
  BY DEF Dotless
<1> QED
  BY <1>5, <1>6, <1>7

-----------------------------------------------------------------------------
(* Sequences that are put together. *)
LEMMA JoinIs ==
    ASSUME NEW T, NEW a \in Seq(T), NEW b \in Seq(T)
    PROVE  /\ a \o b \in Seq(T) /\ Len(a \o b) = Len(a) + Len(b)
           /\ \A i \in 1..(Len(a) + Len(b)) : (a \o b)[i] = IF i <= Len(a) THEN a[i] ELSE b[i - Len(a)]
  BY ConcatProperties

LEMMA JoinEmpty ==
    ASSUME NEW T, NEW a \in Seq(T) PROVE a \o <<>> = a /\ <<>> \o a = a
  BY ConcatEmptySeq

LEMMA SlashedTyped ==
    ASSUME NEW o \in Seq(PartNames) PROVE Slashed(o) \in Seq(PathChars)
<1> DEFINE ss == [i \in DOMAIN o |-> <<"/">> \o o[i]]
<1>1. DOMAIN o = 1..Len(o) /\ Len(o) \in Nat /\ \A i \in DOMAIN o : o[i] \in Seq(PathChars)
  BY DEF PartNames
<1>2. <<"/">> \in Seq(PathChars)
  BY DEF PathChars
<1>3. \A i \in DOMAIN o : <<"/">> \o o[i] \in Seq(PathChars)
  BY <1>1, <1>2, JoinIs
<1>4. ss \in Seq(Seq(PathChars))
  BY <1>1, <1>3
<1> QED
  BY <1>4, FlattenedRange, Zenon DEF Slashed

LEMMA SlashedEmpty == Slashed(<<>>) = <<>>
<1> DEFINE ss == [i \in DOMAIN <<>> |-> <<"/">> \o <<>>[i]]
<1>1. Len(ss) = 0
  OBVIOUS
<1>2. FlattenSeq(ss) = <<>>
  <2> HIDE DEF ss
  <2> QED
    BY <1>1 DEF FlattenSeq
<1> QED
  BY <1>2, Zenon DEF Slashed

LEMMA SlashedAppend ==
    ASSUME NEW o \in Seq(PartNames), NEW s \in PartNames
    PROVE  Slashed(Append(o, s)) = Slashed(o) \o (<<"/">> \o s)
<1> DEFINE q == Append(o, s)
           n == Len(o)
           ss == [i \in DOMAIN o |-> <<"/">> \o o[i]]
           tt == [i \in DOMAIN q |-> <<"/">> \o q[i]]
           t == <<"/">> \o s
<1>1. /\ n \in Nat /\ DOMAIN o = 1..n /\ DOMAIN q = 1..(n+1) /\ q[n+1] = s
      /\ \A i \in 1..n : q[i] = o[i]
  <2> HIDE DEF PartNames
  <2>1. /\ Append(o, s) \in Seq(PartNames) /\ Len(Append(o, s)) = Len(o) + 1
        /\ \A i \in 1..Len(o) : Append(o, s)[i] = o[i]
        /\ Append(o, s)[Len(o) + 1] = s
    BY AppendProperties
  <2> QED
    BY <2>1
<1>2. t \in Seq(PathChars)
  <2>1. <<"/">> \in Seq(PathChars) /\ s \in Seq(PathChars)
    BY DEF PathChars, PartNames
  <2> QED
    BY <2>1, JoinIs
<1>3. /\ Len(ss) = n /\ Len(tt) = n + 1 /\ tt[n+1] = t
      /\ \A i \in 1..n : tt[i] = ss[i]
  BY <1>1
<1>4. FlattenSeq(ss) = Slashed(o) /\ FlattenSeq(tt) = Slashed(q)
  BY Zenon DEF Slashed
<1>5. CASE n = 0
  <2>1. PICK g : FlattenSeq(tt) = g[Len(tt)] /\ g[1] = tt[1]
    <3> HIDE DEF tt, n
    <3>1. Len(tt) \in Nat /\ Len(tt) # 0
      BY <1>1, <1>3
    <3> QED
      BY <3>1, FlattenedIs
  <2>2. FlattenSeq(tt) = t
    <3> HIDE DEF tt, t, n
    <3> QED
      BY <1>3, <1>5, <2>1
  <2>3. FlattenSeq(ss) = <<>>
    <3> HIDE DEF ss, n
    <3> QED
      BY <1>3, <1>5 DEF FlattenSeq
  <2>4. <<>> \o t = t
    BY <1>2, JoinEmpty
  <2> QED
    BY <1>4, <2>2, <2>3, <2>4, Zenon
<1>6. CASE n # 0
  <2> HIDE DEF ss, tt, t, n, q
  <2>1. PICK f : /\ FlattenSeq(ss) = f[Len(ss)] /\ f[1] = ss[1]
                 /\ \A i \in 2..Len(ss) : f[i] = f[i-1] \o ss[i]
    <3>1. Len(ss) \in Nat /\ Len(ss) # 0
      BY <1>1, <1>3, <1>6
    <3> QED
      BY <3>1, FlattenedIs
  <2>2. PICK g : /\ FlattenSeq(tt) = g[Len(tt)] /\ g[1] = tt[1]
                 /\ \A i \in 2..Len(tt) : g[i] = g[i-1] \o tt[i]
    <3>1. Len(tt) \in Nat /\ Len(tt) # 0
      BY <1>1, <1>3
    <3> QED
      BY <3>1, FlattenedIs
  <2> DEFINE Bad == {i \in 1..n : f[i] # g[i]}
  <2>3. Bad = {}
    <3>1. SUFFICES ASSUME Bad # {} PROVE FALSE
      OBVIOUS
    <3>2. PICK i \in Bad : \A j \in Bad : i <= j
      <4>1. Bad \in SUBSET Nat
        OBVIOUS
      <4> HIDE DEF Bad
      <4> QED
        BY <3>1, <4>1, LeastElement
    <3>3. i # 1
      BY <1>1, <1>3, <1>6, <2>1, <2>2, <3>2
    <3>4. i \in 2..n /\ i - 1 \in 1..n /\ i - 1 \notin Bad /\ i \in 2..(n+1) /\ i \in 1..n
      BY <1>1, <3>2, <3>3
    <3>5. f[i-1] = g[i-1] /\ f[i] = f[i-1] \o ss[i] /\ g[i] = g[i-1] \o tt[i] /\ tt[i] = ss[i]
      BY <1>3, <2>1, <2>2, <3>4
    <3> QED
      BY <3>2, <3>5
  <2>4. n \in 1..n /\ n + 1 \in 2..(n+1) /\ (n + 1) - 1 = n
    BY <1>1, <1>6
  <2>5. g[n+1] = g[n] \o t
    BY <1>3, <2>2, <2>4
  <2>6. f[n] = g[n]
    BY <2>3, <2>4
  <2> QED
    BY <1>3, <1>4, <2>1, <2>2, <2>5, <2>6 DEF q, t
<1> QED
  BY <1>5, <1>6

LEMMA FrontIs ==
    ASSUME NEW S, NEW o \in Seq(S), o # <<>>
    PROVE  /\ Len(o) \in Nat \ {0} /\ Front(o) \in Seq(S) /\ Len(Front(o)) = Len(o) - 1 /\ Last(o) \in S
           /\ o = Append(Front(o), Last(o)) /\ Front(o) = SubSeq(o, 1, Len(o) - 1) /\ Last(o) = o[Len(o)]
           /\ \A i \in 1..(Len(o) - 1) : Front(o)[i] = o[i]
<1>1. Len(o) \in Nat \ {0} /\ Front(o) = SubSeq(o, 1, Len(o) - 1) /\ Last(o) = o[Len(o)]
  BY DEF Front, Last
<1> DEFINE n == Len(o) - 1
<1>2. /\ SubSeq(o, 1, n) \in Seq(S) /\ Len(SubSeq(o, 1, n)) = n
      /\ \A i \in 1..n : SubSeq(o, 1, n)[i] = o[i]
  <2>1. n \in Nat /\ n <= Len(o)
    BY <1>1
  <2> HIDE DEF n
  <2>2. /\ SubSeq(o, 1, n) \in Seq(S)
        /\ Len(SubSeq(o, 1, n)) = IF 1 <= n THEN n - 1 + 1 ELSE 0
        /\ \A i \in 1..(n - 1 + 1) : SubSeq(o, 1, n)[i] = o[1 + i - 1]
    <3>1. 1 \in 1..(Len(o) + 1) /\ n \in 0..Len(o)
      BY <1>1, <2>1
    <3> QED
      BY <3>1, SubSeqProperties
  <2> QED
    BY <2>1, <2>2
<1>3. Last(o) \in S
  BY <1>1
<1>4. o = Append(Front(o), Last(o))
  BY <1>1, <1>2, <1>3
<1> QED
  BY <1>1, <1>2, <1>3, <1>4

LEMMA SlashedFront ==
    ASSUME NEW o \in Seq(PartNames), o # <<>>
    PROVE  Slashed(o) = Slashed(Front(o)) \o (<<"/">> \o Last(o))
<1> HIDE DEF PartNames
<1>1. Front(o) \in Seq(PartNames) /\ Last(o) \in PartNames /\ o = Append(Front(o), Last(o))
  BY FrontIs
<1>2. Slashed(Append(Front(o), Last(o))) = Slashed(Front(o)) \o (<<"/">> \o Last(o))
  BY <1>1, SlashedAppend
<1> QED
  BY <1>1, <1>2, Zenon

(* Where the segments of o begin, and the one after them. *)
SegmentsBegin(o) == [k \in 1..(Len(o) + 1) |-> Len(Slashed(SubSeq(o, 1, k - 1))) + 2]

LEMMA BeginsIs ==
    ASSUME NEW o \in Seq(PartNames)
    PROVE  /\ SegmentsBegin(o) \in Seq(Nat) /\ Len(SegmentsBegin(o)) = Len(o) + 1
           /\ SegmentsBegin(o)[Len(o) + 1] = Len(Slashed(o)) + 2
<1> HIDE DEF PartNames
<1>1. Len(o) \in Nat
  OBVIOUS
<1>2. ASSUME NEW k \in 1..(Len(o) + 1) PROVE Len(Slashed(SubSeq(o, 1, k - 1))) + 2 \in Nat
  <2>1. SubSeq(o, 1, k - 1) \in Seq(PartNames)
    BY <1>1
  <2>2. Slashed(SubSeq(o, 1, k - 1)) \in Seq(PathChars)
    BY <2>1, SlashedTyped
  <2> QED
    BY <2>2
<1>3. SubSeq(o, 1, (Len(o) + 1) - 1) = o
  BY <1>1
<1>4. SegmentsBegin(o) \in [1..(Len(o) + 1) -> Nat]
  BY <1>2 DEF SegmentsBegin
<1>5. SegmentsBegin(o)[Len(o) + 1] = Len(Slashed(SubSeq(o, 1, (Len(o) + 1) - 1))) + 2
  BY <1>1 DEF SegmentsBegin
<1> DEFINE b == SegmentsBegin(o)
           n == Len(o) + 1
<1>6. b \in [1..n -> Nat] /\ n \in Nat
  BY <1>1, <1>4
<1>7. b \in Seq(Nat) /\ Len(b) = n
  <2> HIDE DEF b, n
  <2> QED
    BY <1>6
<1> QED
  BY <1>3, <1>5, <1>7

LEMMA BeginsAppend ==
    ASSUME NEW o \in Seq(PartNames), NEW s \in PartNames
    PROVE  SegmentsBegin(Append(o, s)) = Append(SegmentsBegin(o), Len(Slashed(Append(o, s))) + 2)
<1> HIDE DEF PartNames
<1> DEFINE q == Append(o, s)
           n == Len(o)
           z == Len(Slashed(q)) + 2
<1>1. /\ n \in Nat /\ q \in Seq(PartNames) /\ Len(q) = n + 1 /\ \A i \in 1..n : q[i] = o[i]
  <2>1. /\ Append(o, s) \in Seq(PartNames) /\ Len(Append(o, s)) = Len(o) + 1
        /\ \A i \in 1..Len(o) : Append(o, s)[i] = o[i]
    BY AppendProperties
  <2> QED
    BY <2>1
<1> HIDE DEF q, n
<1>2. /\ SegmentsBegin(o) \in Seq(Nat) /\ Len(SegmentsBegin(o)) = n + 1
      /\ SegmentsBegin(q) \in Seq(Nat) /\ Len(SegmentsBegin(q)) = (n + 1) + 1
      /\ SegmentsBegin(q)[(n + 1) + 1] = z /\ z \in Nat
  <2>1. Slashed(q) \in Seq(PathChars)
    BY <1>1, SlashedTyped
  <2> QED
    BY <1>1, <2>1, BeginsIs DEF n
<1>3. ASSUME NEW k \in 1..(n + 1) PROVE SegmentsBegin(q)[k] = SegmentsBegin(o)[k]
  <2>1. SubSeq(q, 1, k - 1) = SubSeq(o, 1, k - 1)
    BY <1>1 DEF n
  <2>2. SegmentsBegin(q)[k] = Len(Slashed(SubSeq(q, 1, k - 1))) + 2
    BY <1>1 DEF SegmentsBegin
  <2>3. SegmentsBegin(o)[k] = Len(Slashed(SubSeq(o, 1, k - 1))) + 2
    BY <1>1 DEF SegmentsBegin, n
  <2> QED
    BY <2>1, <2>2, <2>3
<1> DEFINE a == SegmentsBegin(o)
           b == SegmentsBegin(q)
<1>4. a \in Seq(Nat) /\ Len(a) = n + 1 /\ b \in Seq(Nat) /\ Len(b) = (n + 1) + 1 /\ b[(n + 1) + 1] = z
      /\ \A k \in 1..(n + 1) : b[k] = a[k]
  BY <1>2, <1>3
<1> HIDE DEF a, b, z
<1>5. b = Append(a, z)
  <2>1. /\ Append(a, z) \in Seq(Nat) /\ Len(Append(a, z)) = Len(a) + 1
        /\ \A k \in 1..Len(a) : Append(a, z)[k] = a[k]
        /\ Append(a, z)[Len(a) + 1] = z
    BY <1>2, <1>4, AppendProperties
  <2>2. Len(b) = Len(Append(a, z)) /\ \A k \in 1..Len(b) : b[k] = Append(a, z)[k]
    BY <1>1, <1>4, <2>1
  <2> QED
    BY <1>4, <2>1, <2>2, SeqEqual
<1> QED
  BY <1>5 DEF a, b, z, q

LEMMA BeginsFront ==
    ASSUME NEW o \in Seq(PartNames), o # <<>>
    PROVE  /\ Front(SegmentsBegin(o)) = SegmentsBegin(Front(o))
           /\ Last(SegmentsBegin(Front(o))) = Len(Slashed(Front(o))) + 2
<1> HIDE DEF PartNames
<1> DEFINE f == Front(o)
           l == Last(o)
           n == Len(f)
<1>1. f \in Seq(PartNames) /\ l \in PartNames /\ o = Append(f, l)
  BY FrontIs
<1> HIDE DEF f, l
<1>2. SegmentsBegin(o) = Append(SegmentsBegin(f), Len(Slashed(Append(f, l))) + 2)
  BY <1>1, BeginsAppend
<1>3. SegmentsBegin(f) \in Seq(Nat) /\ Len(SegmentsBegin(f)) = n + 1 /\ SegmentsBegin(f)[n + 1] = Len(Slashed(f)) + 2 /\ n \in Nat
  BY <1>1, BeginsIs
<1>4. Last(SegmentsBegin(f)) = Len(Slashed(f)) + 2
  BY <1>3 DEF Last
<1> DEFINE z == Len(Slashed(Append(f, l))) + 2
           a == SegmentsBegin(f)
<1>5. z \in Nat
  <2>1. Slashed(o) \in Seq(PathChars)
    BY SlashedTyped
  <2> QED
    BY <1>1, <2>1
<1>6. a \in Seq(Nat)
  BY <1>3
<1> HIDE DEF z, a
<1>7. Front(Append(a, z)) = a
  BY <1>5, <1>6 DEF Front
<1> QED
  BY <1>2, <1>4, <1>7 DEF f, z, a

-----------------------------------------------------------------------------
(* The loop of remove_dots. *)
AllChars == Chars \cup {"alias"}

(* Where a segment of the path p ends.  A segment that is being copied is no
   dot segment. *)
SegmentEnds(p, i) == i > Len(p) \/ p[i] = "/"
Open(p, n) ==
    /\ Current(p, n) = <<".">> => ~SegmentEnds(p, n + 1) /\ ~(p[n+1] = "." /\ SegmentEnds(p, n + 2))
    /\ Current(p, n) = <<".", ".">> => ~SegmentEnds(p, n + 1)

(* What remove_dots is given, and what it has not read yet. *)
Original == Merged \o rel.query
Fits ==
    /\ Merged \in Paths /\ rel.query \in {<<>>, Query}
    /\ rel.query # <<>> => Last(Merged) # "."
Placed ==
    /\ copyFrom \in Nat \ {0} /\ copyTo \in 1..copyFrom /\ copyTo <= Len(in) + 1
    /\ in \in Seq(AllChars) /\ Len(in) = Len(Original)
    /\ \A i \in 1..Len(in) : i >= copyFrom - 1 => in[i] = Original[i]

(* What it has copied of the first n characters, and when a dot segment ends
   the path. *)
Done == SubSeq(in, 1, copyTo - 1)
CopiedTo(n) ==
    /\ Behind(Merged, n).ok
    /\ Done = Slashed(Behind(Merged, n).out) \o (<<"/">> \o Current(Merged, n))
    /\ Segments = SegmentsBegin(Behind(Merged, n).out)
    /\ Open(Merged, n)
LastOutcome == DotStep(Behind(Merged, Len(Merged)), Current(Merged, Len(Merged)))
PastEnd ==
    /\ rel.query = <<>> /\ Current(Merged, Len(Merged)) \in DotParts
    /\ LastOutcome.ok /\ Done = Slashed(LastOutcome.out) \o <<"/">>

LoopInv ==
    /\ head \in {<<"alias">>, Hosted} /\ ~rel.scheme /\ ~rel.host
    /\ head = <<"alias">> \/ RelativePath(rel)
    /\ Fits /\ Placed
    /\ \/ copyFrom = 1 /\ copyTo = 1 /\ Segments = <<>>
       \/ copyFrom - 1 \in 1..Len(Merged) /\ CopiedTo(copyFrom - 1)
       \/ copyFrom = Len(Merged) + 2 /\ PastEnd

(* The characters that remove_dots is given, one by one. *)
LEMMA OriginalIs ==
    ASSUME Fits
    PROVE  /\ Len(Merged) \in Nat \ {0} /\ Merged[1] = "/" /\ Merged \in Seq(AllChars)
           /\ \A i \in 1..Len(Merged) : Merged[i] \in PathChars /\ Original[i] = Merged[i]
           /\ rel.query = <<>> => Len(Original) = Len(Merged)
           /\ rel.query # <<>> => /\ rel.query = Query /\ Len(Original) = Len(Merged) + 5
                                  /\ Original[Len(Merged) + 1] = "?"
           /\ rel.query \in Seq(AllChars) /\ Original \in Seq(AllChars)
           /\ \A i \in 1..Len(rel.query) : Original[Len(Merged) + i] = rel.query[i]
<1> DEFINE p == Merged
           q == rel.query
<1>1. p \in Seq(PathChars) /\ p # <<>> /\ p[1] = "/" /\ q \in {<<>>, Query}
  BY DEF Fits, Paths
<1>2. \A c \in PathChars : c \in AllChars
  BY DEF PathChars, AllChars, Chars, NameChars
<1>3. Query \in Seq(AllChars) /\ Len(Query) = 5 /\ Query[1] = "?" /\ Query # <<>>
  BY DEF Query, AllChars, Chars, NameChars
<1>4. p \in Seq(AllChars)
  BY <1>1, <1>2
<1>5. q \in Seq(AllChars) /\ (q # <<>> => q = Query)
  <2>1. CASE q = <<>>
    BY <2>1
  <2>2. CASE q # <<>>
    <3>1. q = Query
      BY <1>1, <2>2
    <3> QED
      BY <1>3, <3>1
  <2> QED
    BY <2>1, <2>2
<1>6. Original = p \o q
  BY DEF Original
<1> HIDE DEF p, q
<1>7. /\ p \o q \in Seq(AllChars) /\ Len(p \o q) = Len(p) + Len(q)
      /\ \A i \in 1..(Len(p) + Len(q)) : (p \o q)[i] = IF i <= Len(p) THEN p[i] ELSE q[i - Len(p)]
  BY <1>4, <1>5, JoinIs
<1>8. Len(p) \in Nat \ {0} /\ Len(q) \in Nat
  BY <1>1, <1>5
<1>9. \A i \in 1..Len(p) : p[i] \in PathChars /\ (p \o q)[i] = p[i]
  <2>1. \A i \in 1..Len(p) : p[i] \in PathChars /\ i \in 1..(Len(p) + Len(q)) /\ i <= Len(p)
    BY <1>1, <1>8
  <2> QED
    BY <2>1, <1>7
<1>10. \A i \in 1..Len(q) : (p \o q)[Len(p) + i] = q[i]
  <2>1. \A i \in 1..Len(q) : Len(p) + i \in 1..(Len(p) + Len(q)) /\ ~(Len(p) + i <= Len(p))
                               /\ (Len(p) + i) - Len(p) = i
    BY <1>8
  <2> QED
    BY <2>1, <1>7
<1>11. q # <<>> => Len(q) = 5 /\ 1 \in 1..Len(q) /\ q[1] = "?"
  BY <1>3, <1>5
<1>12. q = <<>> => Len(q) = 0
  BY <1>5
<1>13. q # <<>> => (p \o q)[Len(p) + 1] = "?"
  BY <1>10, <1>11
<1>14. (q = <<>> => Len(p) + Len(q) = Len(p)) /\ (q # <<>> => Len(p) + Len(q) = Len(p) + 5)
  <2>1. CASE q = <<>>
    BY <1>8, <1>12, <2>1
  <2>2. CASE q # <<>>
    BY <1>8, <1>11, <2>2
  <2> QED
    BY <2>1, <2>2
<1>15. /\ Len(p) \in Nat \ {0} /\ p[1] = "/" /\ p \in Seq(AllChars)
       /\ \A i \in 1..Len(p) : p[i] \in PathChars /\ (p \o q)[i] = p[i]
       /\ q = <<>> => Len(p \o q) = Len(p)
       /\ q # <<>> => /\ q = Query /\ Len(p \o q) = Len(p) + 5 /\ (p \o q)[Len(p) + 1] = "?"
       /\ q \in Seq(AllChars) /\ p \o q \in Seq(AllChars)
       /\ \A i \in 1..Len(q) : (p \o q)[Len(p) + i] = q[i]
  BY <1>1, <1>4, <1>5, <1>7, <1>8, <1>9, <1>10, <1>13, <1>14
<1> QED
  BY <1>6, <1>15, Zenon DEF p, q

LEMMA NotYetRead ==
    ASSUME Fits, Placed, NEW i \in Nat \ {0}, i >= copyFrom - 1
    PROVE  /\ i <= Len(Merged) =>
                 CharAt(i) = Merged[i] /\ in[i] = Merged[i] /\ i \in 1..Len(in) /\ Merged[i] \in PathChars
           /\ i > Len(Merged) /\ rel.query = <<>> => CharAt(i) = "/" /\ i > Len(in)
           /\ i = Len(Merged) + 1 /\ rel.query # <<>> => CharAt(i) = "?" /\ in[i] = "?" /\ i <= Len(in)
<1> DEFINE n == Len(Merged)
           m == Len(in)
           q == rel.query
<1>1. /\ n \in Nat /\ n > 0 /\ \A j \in 1..n : Merged[j] \in PathChars /\ Original[j] = Merged[j]
      /\ q = <<>> => Len(Original) = n
      /\ q # <<>> => Len(Original) = n + 5 /\ Original[n+1] = "?"
  BY OriginalIs
<1>2. /\ DOMAIN in = 1..m /\ m = Len(Original) /\ m \in Nat
      /\ i \in 1..m => in[i] = Original[i]
  BY DEF Placed
<1>3. CharAt(i) = IF i \in 1..m THEN in[i] ELSE "/"
  BY <1>2 DEF CharAt
<1>4. (q = <<>> => m = n) /\ (q # <<>> => m = n + 5)
  BY <1>1, <1>2
<1>5. m >= n
  <2> HIDE DEF n, m, q
  <2> QED
    BY <1>1, <1>2, <1>4
<1>6. CASE i <= n
  <2>1. i \in 1..n /\ i \in 1..m
    <3> HIDE DEF n, m, q
    <3> QED
      BY <1>1, <1>2, <1>5, <1>6
  <2>2. CharAt(i) = Merged[i] /\ in[i] = Merged[i] /\ Merged[i] \in PathChars
    BY <2>1, <1>1, <1>2, <1>3
  <2>3. ~(i > n)  /\ i # n + 1
    <3> HIDE DEF n, m, q
    <3> QED
      BY <1>1, <1>6
  <2> QED
    BY <2>1, <2>2, <2>3
<1>7. CASE i > n /\ q = <<>>
  <2>1. i > m /\ i \notin 1..m /\ ~(i <= n)
    <3> HIDE DEF n, m, q
    <3> QED
      BY <1>1, <1>2, <1>4, <1>7
  <2> QED
    BY <2>1, <1>3, <1>7
<1>8. CASE i > n /\ q # <<>>
  <2>1. (i = n + 1 => i \in 1..m /\ i <= m) /\ ~(i <= n)
    <3> HIDE DEF n, m, q
    <3> QED
      BY <1>1, <1>2, <1>4, <1>8
  <2> QED
    BY <2>1, <1>1, <1>2, <1>3, <1>8
<1>9. i <= n \/ i > n
  <2> HIDE DEF n
  <2> QED
    BY <1>1
<1> QED
  BY <1>6, <1>7, <1>8, <1>9

LEMMA RunningIs ==
    ASSUME LoopInv, result = "running"
    PROVE  /\ copyFrom \in Nat \ {0} /\ Len(Merged) \in Nat \ {0}
           /\ Running <=> copyFrom <= Len(Merged)
           /\ Running => in[copyFrom] = Merged[copyFrom] /\ Merged[copyFrom] \in PathChars
           /\ copyFrom <= Len(Merged) + 2
<1> DEFINE n == Len(Merged)
<1>1. Fits /\ Placed /\ copyFrom \in Nat \ {0} /\ Len(in) \in Nat
  BY DEF LoopInv, Placed
<1>2. n \in Nat \ {0}
  BY <1>1, OriginalIs
<1>3. copyFrom = 1 \/ copyFrom - 1 \in 1..n \/ (copyFrom = n + 2 /\ rel.query = <<>>)
  BY DEF LoopInv, PastEnd
<1>4. /\ copyFrom <= n => in[copyFrom] = Merged[copyFrom] /\ copyFrom \in 1..Len(in)
                            /\ Merged[copyFrom] \in PathChars
      /\ copyFrom > n /\ rel.query = <<>> => copyFrom > Len(in)
      /\ copyFrom = n + 1 /\ rel.query # <<>> => in[copyFrom] = "?"
  <2>1. copyFrom >= copyFrom - 1
    BY <1>1
  <2> QED
    BY <1>1, <2>1, NotYetRead
<1> HIDE DEF n
<1>5. \A c \in PathChars : c \notin {"?", "#"}
  BY DEF PathChars
<1>6. CASE copyFrom <= n
  <2>1. Running
    BY <1>4, <1>5, <1>6 DEF Running
  <2> QED
    BY <1>1, <1>2, <1>4, <1>6, <2>1 DEF n
<1>7. CASE ~(copyFrom <= n)
  <2>1. copyFrom = n + 1 \/ (copyFrom = n + 2 /\ rel.query = <<>>)
    BY <1>1, <1>2, <1>3, <1>7
  <2>2. ~Running
    <3>1. CASE rel.query = <<>>
      BY <1>1, <1>2, <1>4, <2>1, <3>1 DEF Running
    <3>2. CASE rel.query # <<>>
      BY <1>4, <2>1, <3>2 DEF Running
    <3> QED
      BY <3>1, <3>2
  <2> QED
    BY <1>1, <1>2, <1>7, <2>1, <2>2 DEF n
<1> QED
  BY <1>6, <1>7

(* Where the loop is while it runs. *)
LEMMA InLoop ==
    ASSUME LoopInv, Running
    PROVE  /\ result = "running" /\ Fits /\ Placed
           /\ \/ copyFrom = 1 /\ copyTo = 1 /\ Segments = <<>>
              \/ /\ copyFrom - 1 \in 1..(Len(Merged) - 1) /\ copyFrom = (copyFrom - 1) + 1
                 /\ CopiedTo(copyFrom - 1)
<1>1. result = "running"
  BY DEF Running
<1>2. copyFrom \in Nat \ {0} /\ Len(Merged) \in Nat \ {0} /\ copyFrom <= Len(Merged)
  BY <1>1, RunningIs
<1> QED
  BY <1>1, <1>2 DEF LoopInv

LEMMA OneDotIs ==
    ASSUME LoopInv, Running, OneDot
    PROVE  LET n == copyFrom - 1
           IN  /\ n \in 1..(Len(Merged) - 1) /\ CopiedTo(n) /\ Current(Merged, n) = <<>>
               /\ Merged[n+1] = "."
               /\ \/ n + 2 \in 1..Len(Merged) /\ Merged[n+2] = "/"
                  \/ n + 1 = Len(Merged) /\ rel.query = <<>>
<1> DEFINE n == copyFrom - 1
           z == Len(Merged)
<1>1. /\ Fits /\ Placed
      /\ (copyFrom = 1 \/ (n \in 1..(z - 1) /\ CopiedTo(n)))
  BY InLoop
<1>2. /\ copyFrom \in Nat \ {0} /\ z \in Nat \ {0} /\ copyFrom <= z /\ in[copyFrom] = Merged[copyFrom]
      /\ Merged[1] = "/"
  BY <1>1, RunningIs, InLoop, OriginalIs
<1>3. Merged[copyFrom] = "." /\ copyFrom # 1
  BY <1>2 DEF OneDot, Dot
<1>4. n \in 1..(z - 1) /\ CopiedTo(n) /\ n + 1 = copyFrom /\ n \in Nat \ {0} /\ n <= z
  BY <1>1, <1>2, <1>3
<1>5. in[n] = "/" /\ CharAt(copyFrom + 1) = "/"
  BY <1>2, <1>3 DEF OneDot, Dot
<1>6. Merged[n] = "/"
  <2>1. n >= copyFrom - 1
    BY <1>2
  <2>2. in[n] = Merged[n]
    BY <1>1, <1>4, <2>1, NotYetRead
  <2> QED
    BY <1>5, <2>2
<1>7. Current(Merged, n) = <<>>
  <2>1. Merged \in Paths /\ n \in 1..Len(Merged)
    BY <1>1, <1>4 DEF Fits
  <2> QED
    BY <1>6, <2>1, PartsTyped
<1> DEFINE m == copyFrom + 1
<1>8. \/ m <= z /\ Merged[m] = "/"
      \/ m = z + 1 /\ rel.query = <<>>
  <2>1. m \in Nat \ {0} /\ m >= copyFrom - 1 /\ (m <= z \/ m = z + 1)
    BY <1>2
  <2>2. /\ m <= z => CharAt(m) = Merged[m]
        /\ m = z + 1 /\ rel.query # <<>> => CharAt(m) = "?"
    BY <1>1, <2>1, NotYetRead
  <2> QED
    BY <1>5, <2>1, <2>2
<1>9. m = n + 2 /\ copyFrom = n + 1
  BY <1>2
<1>10. (m = z + 1 => n + 1 = z) /\ (m <= z => n + 2 \in 1..z)
  BY <1>2, <1>4, <1>9
<1> HIDE DEF z, n, m
<1>11. /\ Merged[n+1] = "."
       /\ \/ n + 2 \in 1..z /\ Merged[n+2] = "/"
          \/ n + 1 = z /\ rel.query = <<>>
  BY <1>3, <1>8, <1>9, <1>10
<1> QED
  BY <1>4, <1>7, <1>11, Zenon DEF z, n

LEMMA TwoDotsIs ==
    ASSUME LoopInv, Running, TwoDots
    PROVE  LET n == copyFrom - 1
           IN  /\ n \in 1..(Len(Merged) - 1) /\ CopiedTo(n) /\ Current(Merged, n) = <<>>
               /\ n + 2 \in 1..Len(Merged) /\ Merged[n+1] = "." /\ Merged[n+2] = "."
               /\ \/ n + 3 \in 1..Len(Merged) /\ Merged[n+3] = "/"
                  \/ n + 2 = Len(Merged) /\ rel.query = <<>>
<1> DEFINE n == copyFrom - 1
           z == Len(Merged)
<1>1. /\ Fits /\ Placed
      /\ (copyFrom = 1 \/ (n \in 1..(z - 1) /\ CopiedTo(n)))
  BY InLoop
<1>2. /\ copyFrom \in Nat \ {0} /\ z \in Nat \ {0} /\ copyFrom <= z /\ in[copyFrom] = Merged[copyFrom]
      /\ Merged[1] = "/"
  BY <1>1, RunningIs, InLoop, OriginalIs
<1>3. Merged[copyFrom] = "." /\ copyFrom # 1
  BY <1>2 DEF TwoDots, Dot
<1>4. n \in 1..(z - 1) /\ CopiedTo(n) /\ n + 1 = copyFrom /\ n \in Nat \ {0} /\ n <= z
  BY <1>1, <1>2, <1>3
<1>5. in[n] = "/" /\ CharAt(copyFrom + 1) = "." /\ CharAt(copyFrom + 2) = "/"
  BY <1>2, <1>3 DEF TwoDots, Dot
<1>6. Merged[n] = "/"
  <2>1. n >= copyFrom - 1
    BY <1>2
  <2>2. in[n] = Merged[n]
    BY <1>1, <1>4, <2>1, NotYetRead
  <2> QED
    BY <1>5, <2>2
<1>7. Current(Merged, n) = <<>>
  <2>1. Merged \in Paths /\ n \in 1..Len(Merged)
    BY <1>1, <1>4 DEF Fits
  <2> QED
    BY <1>6, <2>1, PartsTyped
<1> DEFINE m == copyFrom + 1
           k == copyFrom + 2
<1>8. m <= z /\ Merged[m] = "."
  <2>1. m \in Nat \ {0} /\ m >= copyFrom - 1 /\ (m <= z \/ (m = z + 1 /\ m > z))
    BY <1>2
  <2>2. /\ m <= z => CharAt(m) = Merged[m]
        /\ m = z + 1 /\ rel.query # <<>> => CharAt(m) = "?"
        /\ m > z /\ rel.query = <<>> => CharAt(m) = "/"
    BY <1>1, <2>1, NotYetRead
  <2> QED
    BY <1>5, <2>1, <2>2
<1>9. \/ k <= z /\ Merged[k] = "/"
      \/ k = z + 1 /\ rel.query = <<>>
  <2>1. k \in Nat \ {0} /\ k >= copyFrom - 1 /\ (k <= z \/ k = z + 1)
    BY <1>2, <1>8
  <2>2. /\ k <= z => CharAt(k) = Merged[k]
        /\ k = z + 1 /\ rel.query # <<>> => CharAt(k) = "?"
    BY <1>1, <2>1, NotYetRead
  <2> QED
    BY <1>5, <2>1, <2>2
<1>10. m = n + 2 /\ copyFrom = n + 1 /\ k = n + 3
  BY <1>2
<1>11. (k = z + 1 => n + 2 = z) /\ (k <= z => n + 3 \in 1..z) /\ n + 2 \in 1..z
  BY <1>2, <1>4, <1>8, <1>10
<1> HIDE DEF z, n, m, k
<1>12. /\ Merged[n+1] = "." /\ Merged[n+2] = "." /\ n + 2 \in 1..z
       /\ \/ n + 3 \in 1..z /\ Merged[n+3] = "/"
          \/ n + 2 = z /\ rel.query = <<>>
  BY <1>3, <1>8, <1>9, <1>10, <1>11
<1> QED
  BY <1>4, <1>7, <1>12, Zenon DEF z, n

(* Otherwise what begins with a dot is no dot segment. *)
LEMMA NoDotsIs ==
    ASSUME LoopInv, Running, ~OneDot, ~TwoDots, copyFrom # 1, Current(Merged, copyFrom - 1) = <<>>,
           Merged[copyFrom] = "."
    PROVE  /\ ~SegmentEnds(Merged, copyFrom + 1)
           /\ ~(Merged[copyFrom + 1] = "." /\ SegmentEnds(Merged, copyFrom + 2))
<1> DEFINE n == copyFrom - 1
           z == Len(Merged)
           m == copyFrom + 1
           k == copyFrom + 2
<1>1. /\ Fits /\ Placed
      /\ (copyFrom = 1 \/ (n \in 1..(z - 1) /\ CopiedTo(n)))
  BY InLoop
<1>2. /\ copyFrom \in Nat \ {0} /\ z \in Nat \ {0} /\ copyFrom <= z /\ in[copyFrom] = Merged[copyFrom]
  BY <1>1, RunningIs, InLoop, OriginalIs
<1>4. n \in 1..(z - 1) /\ n \in Nat \ {0} /\ n <= z /\ n \in 1..z /\ n >= copyFrom - 1
  BY <1>1, <1>2
<1>5. in[n] = "/"
  <2>1. Merged \in Paths
    BY <1>1 DEF Fits
  <2>2. Merged[n] = "/"
    BY <1>4, <2>1, PartsTyped
  <2> QED
    BY <1>1, <1>4, <2>2, NotYetRead
<1>6. CharAt(m) # "/" /\ ~(CharAt(m) = "." /\ CharAt(k) = "/")
  BY <1>2, <1>5 DEF OneDot, TwoDots, Dot
<1>7. rel.query # <<>> => Merged[z] # "."
  BY <1>1 DEF Fits, Last
<1>8. /\ m \in Nat \ {0} /\ m >= copyFrom - 1 /\ k \in Nat \ {0} /\ k >= copyFrom - 1
      /\ m > z => copyFrom = z
      /\ ~(m <= z) => m > z
      /\ k > z /\ m <= z => m = z
      /\ ~(k <= z) => k > z
  BY <1>2
<1>9. /\ m <= z => CharAt(m) = Merged[m]
      /\ m > z /\ rel.query = <<>> => CharAt(m) = "/"
      /\ k <= z => CharAt(k) = Merged[k]
      /\ k > z /\ rel.query = <<>> => CharAt(k) = "/"
  BY <1>1, <1>8, NotYetRead
<1> HIDE DEF z, m, k
<1>10. m <= z /\ Merged[m] # "/"
  BY <1>6, <1>7, <1>8, <1>9
<1>11. ~(Merged[m] = "." /\ (k > z \/ Merged[k] = "/"))
  BY <1>6, <1>7, <1>8, <1>9, <1>10
<1>12. ~(m > z)
  <2>1. z \in Nat /\ m \in Nat
    BY <1>2, <1>8
  <2> QED
    BY <1>10, <2>1
<1> QED
  BY <1>10, <1>11, <1>12 DEF SegmentEnds, z, m, k

-----------------------------------------------------------------------------
(* "." is skipped: what has been copied is also what is copied after it. *)
LEMMA DotsAppended == Append(<<>>, ".") = <<".">> /\ Append(<<".">>, ".") = <<".", ".">>
<1>1. Append(<<>>, ".") = <<".">>
  OBVIOUS
<1> DEFINE a == <<".">>
<1>2. a \in Seq({"."}) /\ Len(a) = 1 /\ a[1] = "."
  OBVIOUS
<1>3. /\ Append(a, ".") \in Seq({"."}) /\ Len(Append(a, ".")) = 2
      /\ Append(a, ".")[1] = "." /\ Append(a, ".")[2] = "."
  BY <1>2, AppendProperties
<1>4. <<".", ".">> \in Seq({"."}) /\ Len(<<".", ".">>) = 2 /\ <<".", ".">>[1] = "." /\ <<".", ".">>[2] = "."
  OBVIOUS
<1>5. \A i \in 1..2 : i = 1 \/ i = 2
  OBVIOUS
<1> HIDE DEF a
<1>6. \A i \in 1..2 : Append(a, ".")[i] = <<".", ".">>[i]
  BY <1>3, <1>4, <1>5
<1> DEFINE x == Append(a, ".")
           y == <<".", ".">>
<1>7. x \in Seq({"."}) /\ y \in Seq({"."}) /\ Len(x) = Len(y) /\ \A i \in 1..Len(x) : x[i] = y[i]
  BY <1>3, <1>4, <1>6
<1> HIDE DEF x, y
<1>8. x = y
  BY <1>7, SeqEqual
<1> QED
  BY <1>1, <1>8 DEF x, y, a

(* What dot segments leave. *)
LEMMA DotSegment ==
    ASSUME NEW p \in Paths, NEW n \in 1..(Len(p) - 1), Current(p, n) = <<>>, p[n+1] = "."
    PROVE  /\ Current(p, n + 1) = <<".">> /\ Behind(p, n + 1) = Behind(p, n)
           /\ n + 2 \in 1..Len(p) /\ p[n+2] = "/" =>
                 Current(p, n + 2) = <<>> /\ Behind(p, n + 2) = Behind(p, n)
           /\ n + 2 \in 1..Len(p) /\ p[n+2] = "." =>
                 Current(p, n + 2) = <<".", ".">> /\ Behind(p, n + 2) = Behind(p, n)
<1>1. Len(p) \in Nat \ {0} /\ n \in Nat /\ "." # "/"
  BY PartsOfIs
<1>2. /\ Current(p, n + 1) = Append(<<>>, ".") /\ Behind(p, n + 1) = Behind(p, n)
  BY <1>1, Stepped
<1>3. Append(<<>>, ".") = <<".">> /\ Append(<<".">>, ".") = <<".", ".">>
  BY DotsAppended
<1>4. ASSUME n + 2 \in 1..Len(p)
      PROVE  /\ n + 1 \in 1..(Len(p) - 1) /\ (n + 1) + 1 = n + 2
             /\ p[n+2] = "/" => /\ Current(p, n + 2) = <<>>
                                /\ Behind(p, n + 2) = DotStep(Behind(p, n + 1), Current(p, n + 1))
             /\ p[n+2] # "/" => /\ Current(p, n + 2) = Append(Current(p, n + 1), p[n+2])
                                /\ Behind(p, n + 2) = Behind(p, n + 1)
  <2>1. n + 1 \in 1..(Len(p) - 1) /\ (n + 1) + 1 = n + 2
    BY <1>1, <1>4
  <2> QED
    BY <2>1, Stepped
<1>5. \A r : DotStep(r, <<".">>) = r
  BY DEF DotStep
<1> QED
  BY <1>1, <1>2, <1>3, <1>4, <1>5

LEMMA TwoDotSegment ==
    ASSUME NEW p \in Paths, NEW n \in 1..Len(p), n + 3 \in 1..Len(p), Current(p, n + 2) = <<".", ".">>,
           p[n+3] = "/"
    PROVE  Current(p, n + 3) = <<>> /\ Behind(p, n + 3) = DotStep(Behind(p, n + 2), <<".", ".">>)
<1>1. Len(p) \in Nat \ {0} /\ n \in Nat
  BY PartsOfIs
<1>2. n + 2 \in 1..(Len(p) - 1) /\ (n + 2) + 1 = n + 3
  BY <1>1
<1> QED
  BY <1>2, Stepped

LEMMA TwoDotsAre ==
    ASSUME NEW r \in DotOutcomes
    PROVE  /\ r.out = <<>> => DotStep(r, <<".", ".">>) = [r EXCEPT !.ok = FALSE]
           /\ r.out # <<>> => DotStep(r, <<".", ".">>) = [r EXCEPT !.out = Front(r.out)]
<1>1. <<".", ".">> # <<".">>
  OBVIOUS
<1> QED
  BY <1>1 DEF DotStep

LEMMA NamesAre ==
    ASSUME NEW r \in DotOutcomes, NEW s \in PartNames, s # <<".">>, s # <<".", ".">>
    PROVE  DotStep(r, s) = [r EXCEPT !.out = Append(r.out, s)]
  BY DEF DotStep

(* The loop leaves what it was given where it is. *)
LEMMA SameInput ==
    ASSUME UNCHANGED <<base, rel, head>>
    PROVE  /\ Merged' = Merged /\ Original' = Original /\ rel' = rel /\ head' = head
           /\ Fits' <=> Fits
           /\ RelativePath(rel)' <=> RelativePath(rel)
           /\ Expected' = Expected
<1>1. Merged' = Merged
  BY DEF Merged
<1> QED
  BY <1>1 DEF Original, Fits, RelativePath, Expected

LEMMA MovesOn ==
    ASSUME Placed, copyFrom' \in Nat, copyFrom' >= copyFrom, UNCHANGED <<base, rel, head, in>>,
           copyTo' \in 1..copyTo
    PROVE  Placed'
<1>1. Original' = Original
  BY SameInput
<1>2. copyFrom' \in Nat \ {0} /\ copyTo' \in 1..copyFrom' /\ copyTo' <= Len(in) + 1
  BY DEF Placed
<1>3. \A i \in 1..Len(in) : i >= copyFrom' - 1 => i >= copyFrom - 1
  <2>1. copyFrom \in Nat /\ copyFrom' \in Nat /\ copyFrom' >= copyFrom /\ Len(in) \in Nat
    BY DEF Placed
  <2>2. \A a, b \in Nat : b >= a => \A i \in Nat : i >= b - 1 => i >= a - 1
    OBVIOUS
  <2>3. \A i \in 1..Len(in) : i \in Nat
    BY <2>1
  <2> QED
    BY <2>1, <2>2, <2>3, Zenon
<1>4. in \in Seq(AllChars) /\ Len(in) = Len(Original)
  BY DEF Placed
<1>5. \A i \in 1..Len(in) : i >= copyFrom' - 1 => in[i] = Original[i]
  BY <1>3 DEF Placed
<1> QED
  BY <1>1, <1>2, <1>4, <1>5 DEF Placed

(* A step of the loop keeps the invariant. *)
LEMMA SkipDotKeeps ==
    ASSUME LoopInv, SkipDot
    PROVE  LoopInv'
<1> DEFINE n == copyFrom - 1
           p == Merged
<1>1. /\ n \in 1..(Len(p) - 1) /\ CopiedTo(n) /\ Current(p, n) = <<>> /\ p[n+1] = "."
      /\ \/ n + 2 \in 1..Len(p) /\ p[n+2] = "/"
         \/ n + 1 = Len(p) /\ rel.query = <<>>
  BY OneDotIs, Zenon DEF SkipDot
<1>2. /\ copyFrom \in Nat \ {0} /\ copyTo \in Nat \ {0} /\ p \in Paths /\ Placed /\ Fits
      /\ head \in {<<"alias">>, Hosted} /\ (head = <<"alias">> \/ RelativePath(rel))
      /\ ~rel.scheme /\ ~rel.host
  BY DEF LoopInv, Fits, Placed
<1>3. /\ copyFrom' = copyFrom + 2 /\ in' = in /\ copyTo' = copyTo /\ Segments' = Segments
      /\ UNCHANGED <<base, rel, head>>
  BY DEF SkipDot
<1>4. /\ Merged' = p /\ Fits' /\ rel' = rel /\ head' = head
      /\ RelativePath(rel)' <=> RelativePath(rel)
  BY <1>2, <1>3, SameInput
<1>5. Placed'
  BY <1>2, <1>3, MovesOn
<1>6. Done' = Done
  BY <1>3 DEF Done
<1>7. copyFrom' - 1 = n + 2 /\ (n + 1 = Len(p) => copyFrom' = Len(p) + 2)
  BY <1>2, <1>3
<1>8. CASE n + 2 \in 1..Len(p) /\ p[n+2] = "/"
  <2>1. Current(p, n + 2) = <<>> /\ Behind(p, n + 2) = Behind(p, n)
    BY <1>1, <1>2, <1>8, DotSegment
  <2>2. CopiedTo(n) /\ Current(p, n) = <<>> /\ <<>> # <<".">> /\ <<>> # <<".", ".">>
    BY <1>1
  <2> HIDE DEF n, p
  <2>3. CopiedTo(copyFrom - 1)'
    BY <1>3, <1>4, <1>6, <1>7, <2>1, <2>2 DEF CopiedTo, Open, p
  <2>4. (copyFrom - 1 \in 1..Len(Merged))'
    BY <1>4, <1>7, <1>8
  <2> QED
    BY <1>2, <1>4, <1>5, <2>3, <2>4 DEF LoopInv
<1>9. CASE n + 1 = Len(p) /\ rel.query = <<>>
  <2>1. Current(p, n + 1) = <<".">> /\ Behind(p, n + 1) = Behind(p, n)
    BY <1>1, <1>2, DotSegment
  <2>2. LastOutcome = Behind(p, n)
    BY <1>9, <2>1 DEF LastOutcome, DotStep
  <2>3. Behind(p, n).ok /\ Done = Slashed(Behind(p, n).out) \o (<<"/">> \o <<>>)
    BY <1>1 DEF CopiedTo
  <2>4. <<"/">> \o <<>> = <<"/">>
    OBVIOUS
  <2>5. PastEnd
    BY <1>9, <2>1, <2>2, <2>3, <2>4 DEF PastEnd, DotParts
  <2>6. LastOutcome' = LastOutcome
    BY <1>4 DEF LastOutcome
  <2>7. PastEnd'
    BY <1>4, <1>6, <2>5, <2>6 DEF PastEnd
  <2>8. (copyFrom = Len(Merged) + 2)'
    BY <1>4, <1>7, <1>9
  <2> QED
    BY <1>2, <1>4, <1>5, <2>7, <2>8 DEF LoopInv
<1> QED
  BY <1>1, <1>8, <1>9

-----------------------------------------------------------------------------
(* ".." takes back the segment that begins where the stack says. *)
LEMMA PrefixIs ==
    ASSUME NEW T, NEW s \in Seq(T), NEW n \in 0..Len(s)
    PROVE  /\ SubSeq(s, 1, n) \in Seq(T) /\ Len(SubSeq(s, 1, n)) = n
           /\ \A i \in 1..n : SubSeq(s, 1, n)[i] = s[i]
<1>1. Len(s) \in Nat /\ n \in Nat /\ n <= Len(s) /\ n \in Int /\ 1 \in 1..(Len(s) + 1) /\ n \in 0..Len(s)
  OBVIOUS
<1>2. SubSeq(s, 1, n) = [i \in 1..n |-> s[1 + i - 1]]
  BY <1>1
<1>3. \A i \in 1..n : 1 + i - 1 = i /\ i \in 1..Len(s) /\ s[i] \in T
  BY <1>1
<1> DEFINE f == [i \in 1..n |-> s[i]]
<1>4. f \in Seq(T) /\ Len(f) = n
  BY <1>1, <1>3
<1>5. SubSeq(s, 1, n) = f
  BY <1>2, <1>3
<1> QED
  BY <1>4, <1>5

LEMMA CutBack ==
    ASSUME NEW T, NEW s \in Seq(T), NEW c \in 1..(Len(s) + 1), NEW a \in Seq(T), NEW x \in T, NEW b \in Seq(T),
           SubSeq(s, 1, c - 1) = (a \o (<<x>> \o b)) \o <<x>>
    PROVE  Len(a) + 2 \in 1..c /\ SubSeq(s, 1, Len(a) + 1) = a \o <<x>>
<1> DEFINE n == Len(a) + 1
           y == <<x>>
           z == y \o b
           w == a \o z
           v == w \o y
           t == SubSeq(s, 1, c - 1)
           u == SubSeq(s, 1, n)
<1>1. y \in Seq(T) /\ Len(y) = 1 /\ y[1] = x
  OBVIOUS
<1>2. Len(s) \in Nat /\ c - 1 \in 0..Len(s) /\ Len(a) \in Nat /\ Len(b) \in Nat /\ c \in Nat
  OBVIOUS
<1>3. t \in Seq(T) /\ Len(t) = c - 1 /\ \A i \in 1..(c - 1) : t[i] = s[i]
  BY <1>2, PrefixIs
<1> HIDE DEF y, n, t, u
<1>4. z \in Seq(T) /\ Len(z) = 1 + Len(b) /\ z[1] = x
  <2>1. /\ z \in Seq(T) /\ Len(z) = Len(y) + Len(b)
        /\ \A i \in 1..(Len(y) + Len(b)) : z[i] = IF i <= Len(y) THEN y[i] ELSE b[i - Len(y)]
    BY <1>1, JoinIs
  <2>2. 1 \in 1..(Len(y) + Len(b)) /\ 1 <= Len(y)
    BY <1>1, <1>2
  <2> QED
    BY <1>1, <2>1, <2>2
<1> HIDE DEF z
<1>5. /\ w \in Seq(T) /\ Len(w) = Len(a) + Len(z)
      /\ \A i \in 1..(Len(a) + Len(z)) : w[i] = IF i <= Len(a) THEN a[i] ELSE z[i - Len(a)]
  <2>1. z \in Seq(T)
    BY <1>4
  <2>2. /\ a \o z \in Seq(T) /\ Len(a \o z) = Len(a) + Len(z)
        /\ \A i \in 1..(Len(a) + Len(z)) : (a \o z)[i] = IF i <= Len(a) THEN a[i] ELSE z[i - Len(a)]
    BY ONLY a \in Seq(T), <2>1, JoinIs
  <2> QED
    BY <2>2
<1> HIDE DEF w
<1>6. /\ v \in Seq(T) /\ Len(v) = Len(w) + Len(y)
      /\ \A i \in 1..(Len(w) + Len(y)) : v[i] = IF i <= Len(w) THEN w[i] ELSE y[i - Len(w)]
  <2>1. y \in Seq(T) /\ w \in Seq(T)
    BY <1>1, <1>5
  <2>2. /\ w \o y \in Seq(T) /\ Len(w \o y) = Len(w) + Len(y)
        /\ \A i \in 1..(Len(w) + Len(y)) : (w \o y)[i] = IF i <= Len(w) THEN w[i] ELSE y[i - Len(w)]
    BY <2>1, JoinIs
  <2> QED
    BY <2>2
<1>7. t = v
  BY DEF t, v, w, z, y
<1> HIDE DEF v
<1>8. c - 1 = Len(a) + 2 + Len(b)
  BY <1>1, <1>2, <1>3, <1>4, <1>5, <1>6, <1>7
<1>9. n \in 0..Len(s) /\ n <= c - 1 /\ Len(a) + 2 \in 1..c
  BY <1>2, <1>8 DEF n
<1>10. u \in Seq(T) /\ Len(u) = n /\ \A i \in 1..n : u[i] = s[i]
  BY <1>9, PrefixIs DEF u
<1>11. /\ a \o y \in Seq(T) /\ Len(a \o y) = Len(a) + Len(y)
       /\ \A i \in 1..(Len(a) + Len(y)) : (a \o y)[i] = IF i <= Len(a) THEN a[i] ELSE y[i - Len(a)]
  BY <1>1, JoinIs
<1>12. \A i \in 1..n : s[i] = w[i]
  <2>1. \A i \in 1..n : i \in 1..(c - 1) /\ i \in 1..(Len(w) + Len(y)) /\ i <= Len(w)
    BY <1>1, <1>2, <1>4, <1>5, <1>9 DEF n
  <2> QED
    BY <2>1, <1>3, <1>6, <1>7
<1>13. \A i \in 1..n : w[i] = (a \o y)[i]
  <2>1. \A i \in 1..n : /\ i \in 1..(Len(a) + Len(z)) /\ i \in 1..(Len(a) + Len(y))
                        /\ ~(i <= Len(a)) => i - Len(a) = 1
    BY <1>1, <1>2, <1>4 DEF n
  <2> QED
    BY <2>1, <1>1, <1>4, <1>5, <1>11
<1> DEFINE e == a \o y
<1>14. u \in Seq(T) /\ e \in Seq(T) /\ Len(u) = Len(e) /\ \A i \in 1..Len(u) : u[i] = e[i]
  BY <1>1, <1>10, <1>11, <1>12, <1>13 DEF n
<1> HIDE DEF u, e
<1>15. u = e
  BY <1>14, SeqEqual
<1> QED
  BY <1>9, <1>15 DEF u, e, y, n

(* What one more dot segment takes back, or why it cannot. *)
LEMMA ExpectedInLoop ==
    ASSUME LoopInv
    PROVE  /\ Expected.ok = Dotless(PathParts(Merged)).ok
           /\ Expected.url = head \o Dotless(PathParts(Merged)).path \o rel.query
<1>1. (head = <<"alias">> \/ RelativePath(rel)) /\ ~rel.scheme /\ ~rel.host
  BY DEF LoopInv
<1>2. Expected = LET d == Dotless(PathParts(Merged)) IN [ok |-> d.ok, url |-> head \o d.path \o rel.query]
  BY <1>1 DEF Expected
<1> QED
  BY <1>2

LEMMA TwoDotsSegments ==
    ASSUME LoopInv, SkipTwoDots
    PROVE  LET n == copyFrom - 1
               p == Merged
           IN  /\ n \in 1..(Len(p) - 1) /\ CopiedTo(n) /\ Current(p, n) = <<>>
               /\ Behind(p, n) \in DotOutcomes
               /\ n + 2 \in 1..Len(p) /\ Current(p, n + 2) = <<".", ".">> /\ Behind(p, n + 2) = Behind(p, n)
               /\ \/ /\ n + 3 \in 1..Len(p) /\ Current(p, n + 3) = <<>>
                     /\ Behind(p, n + 3) = DotStep(Behind(p, n), <<".", ".">>)
                  \/ n + 2 = Len(p) /\ rel.query = <<>>
<1> DEFINE n == copyFrom - 1
           p == Merged
<1>1. /\ n \in 1..(Len(p) - 1) /\ CopiedTo(n) /\ Current(p, n) = <<>>
      /\ n + 2 \in 1..Len(p) /\ p[n+1] = "." /\ p[n+2] = "."
      /\ \/ n + 3 \in 1..Len(p) /\ p[n+3] = "/"
         \/ n + 2 = Len(p) /\ rel.query = <<>>
  BY TwoDotsIs, Zenon DEF SkipTwoDots
<1>2. p \in Paths
  BY DEF LoopInv, Fits
<1> HIDE DEF p, n
<1>3. Current(p, n + 2) = <<".", ".">> /\ Behind(p, n + 2) = Behind(p, n)
  BY <1>1, <1>2, DotSegment
<1>4. n \in 1..Len(p)
  BY <1>1, <1>2, PartsOfIs
<1>5. Behind(p, n) \in DotOutcomes
  BY <1>2, <1>4, BehindTyped
<1>6. n + 3 \in 1..Len(p) /\ p[n+3] = "/" =>
         Current(p, n + 3) = <<>> /\ Behind(p, n + 3) = DotStep(Behind(p, n), <<".", ".">>)
  BY <1>2, <1>3, <1>4, TwoDotSegment
<1> QED
  BY <1>1, <1>3, <1>5, <1>6, Zenon DEF n, p

LEMMA SegmentsTaken ==
    ASSUME LoopInv, SkipTwoDots
    PROVE  Len(Segments) > 1 <=> Behind(Merged, copyFrom - 1).out # <<>>
<1> DEFINE r == Behind(Merged, copyFrom - 1)
<1>1. r \in DotOutcomes /\ Segments = SegmentsBegin(r.out)
  BY TwoDotsSegments DEF CopiedTo
<1> HIDE DEF r
<1>2. r.out \in Seq(PartNames)
  BY <1>1 DEF DotOutcomes
<1>3. Len(Segments) = Len(r.out) + 1 /\ Len(r.out) \in Nat /\ (r.out = <<>> <=> Len(r.out) = 0)
  BY <1>1, <1>2, BeginsIs
<1> QED
  BY <1>3 DEF r

(* With nothing to take back the path climbs above the root, and stays refused. *)
LEMMA TwoDotsRefused ==
    ASSUME LoopInv, SkipTwoDots, ~(Len(Segments) > 1)
    PROVE  ~Expected.ok
<1> DEFINE n == copyFrom - 1
           p == Merged
           r == Behind(p, n)
           t == DotStep(r, <<".", ".">>)
<1>1. /\ r \in DotOutcomes /\ Current(p, n + 2) = <<".", ".">> /\ Behind(p, n + 2) = r
      /\ \/ n + 3 \in 1..Len(p) /\ Behind(p, n + 3) = t
         \/ n + 2 = Len(p)
  BY TwoDotsSegments
<1>2. p \in Paths
  BY DEF LoopInv, Fits
<1>3. r.out = <<>>
  BY SegmentsTaken
<1> HIDE DEF n, p, r
<1>4. t = [r EXCEPT !.ok = FALSE]
  BY <1>1, <1>3, TwoDotsAre
<1>5. ~t.ok
  BY <1>1, <1>4 DEF DotOutcomes
<1> HIDE DEF t
<1>6. ~Dotless(PathParts(p)).ok
  <2>1. CASE n + 3 \in 1..Len(p) /\ Behind(p, n + 3) = t
    BY <1>2, <1>5, <2>1, StaysRefused
  <2>2. CASE n + 2 = Len(p)
    <3>1. FoldLeft(DotStep, [ok |-> TRUE, out |-> <<>>], PathParts(p)) = t
      <4>1. FoldLeft(DotStep, [ok |-> TRUE, out |-> <<>>], PathParts(p))
              = DotStep(Behind(p, Len(p)), Current(p, Len(p)))
        BY <1>2, AllParts
      <4> QED
        BY <1>1, <2>2, <4>1 DEF t
    <3> QED
      BY <1>5, <3>1 DEF Dotless
  <2> QED
    BY <1>1, <2>1, <2>2
<1> QED
  BY <1>6, ExpectedInLoop DEF p

(* The slashes before and between the names are characters. *)
LEMMA DoneTyped ==
    ASSUME Placed
    PROVE  /\ copyTo - 1 \in 0..Len(in) /\ Done \in Seq(AllChars) /\ Len(Done) = copyTo - 1
           /\ \A i \in 1..(copyTo - 1) : Done[i] = in[i]
<1>1. in \in Seq(AllChars) /\ copyTo - 1 \in 0..Len(in)
  <2>1. in \in Seq(AllChars) /\ copyFrom \in Nat /\ copyTo \in 1..copyFrom /\ copyTo <= Len(in) + 1
    BY DEF Placed
  <2>2. Len(in) \in Nat /\ copyTo \in Nat
    BY <2>1
  <2> QED
    BY <2>1, <2>2
<1> QED
  BY <1>1, PrefixIs DEF Done

LEMMA SlashedChars ==
    ASSUME NEW o \in Seq(PartNames)
    PROVE  Slashed(o) \in Seq(AllChars) /\ \A s \in PartNames : s \in Seq(AllChars)
<1>1. \A c \in PathChars : c \in AllChars
  BY DEF PathChars, AllChars, Chars, NameChars
<1>2. \A s \in Seq(PathChars) : s \in Seq(AllChars)
  BY <1>1
<1> QED
  BY <1>2, SlashedTyped DEF PartNames

LEMMA TwoDotsTaken ==
    ASSUME LoopInv, SkipTwoDots, Len(Segments) > 1
    PROVE  LET n == copyFrom - 1
               r == Behind(Merged, n)
               t == DotStep(r, <<".", ".">>)
           IN  /\ r.ok /\ r.out \in Seq(PartNames) /\ t = [r EXCEPT !.out = Front(r.out)]
               /\ t.ok /\ t.out = Front(r.out) /\ Front(r.out) \in Seq(PartNames)
               /\ Segments' = SegmentsBegin(Front(r.out)) /\ copyTo' \in 1..copyTo
               /\ Done' = Slashed(Front(r.out)) \o <<"/">>
               /\ UNCHANGED result
<1> DEFINE n == copyFrom - 1
           r == Behind(Merged, n)
           t == DotStep(r, <<".", ".">>)
           o == r.out
           f == Front(o)
           l == Last(o)
           a == Slashed(f)
<1>1. /\ r \in DotOutcomes /\ CopiedTo(n) /\ Current(Merged, n) = <<>>
  BY TwoDotsSegments
<1>2. o # <<>>
  BY SegmentsTaken
<1>3. r.ok /\ Segments = SegmentsBegin(o) /\ Done = Slashed(o) \o (<<"/">> \o <<>>)
  BY <1>1 DEF CopiedTo
<1>4. Placed
  BY DEF LoopInv
<1>5. Segments' = Front(Segments) /\ copyTo' = Last(Front(Segments)) /\ in' = in /\ UNCHANGED result
  BY DEF SkipTwoDots, Back
<1> HIDE DEF r, n
<1>6. o \in Seq(PartNames) /\ t = [r EXCEPT !.out = f]
  BY <1>1, <1>2, TwoDotsAre DEF DotOutcomes
<1>7. t.ok /\ t.out = f
  BY <1>1, <1>3, <1>6 DEF DotOutcomes
<1> HIDE DEF t, o
<1>8. f \in Seq(PartNames) /\ l \in PartNames
  BY <1>2, <1>6, FrontIs
<1>9. Front(SegmentsBegin(o)) = SegmentsBegin(f) /\ Last(SegmentsBegin(f)) = Len(a) + 2 /\ Slashed(o) = a \o (<<"/">> \o l)
  BY <1>2, <1>6, BeginsFront, SlashedFront
<1> HIDE DEF f, l
<1>10. a \in Seq(AllChars) /\ l \in Seq(AllChars) /\ "/" \in AllChars
  BY <1>8, SlashedChars DEF AllChars, Chars, NameChars
<1> HIDE DEF a
<1>11. <<"/">> \o <<>> = <<"/">>
  OBVIOUS
<1>12. SubSeq(in, 1, copyTo - 1) = (a \o (<<"/">> \o l)) \o <<"/">>
  BY <1>3, <1>9, <1>11 DEF Done
<1>13. in \in Seq(AllChars) /\ copyTo \in 1..(Len(in) + 1) /\ copyTo \in Nat
  <2>1. in \in Seq(AllChars) /\ copyFrom \in Nat /\ copyTo \in 1..copyFrom /\ copyTo <= Len(in) + 1
    BY <1>4 DEF Placed
  <2>2. Len(in) \in Nat
    BY <2>1
  <2> QED
    BY <2>1, <2>2
<1>14. Len(a) + 2 \in 1..copyTo /\ SubSeq(in, 1, Len(a) + 1) = a \o <<"/">>
  BY <1>10, <1>12, <1>13, CutBack
<1>15. copyTo' = Len(a) + 2 /\ Segments' = SegmentsBegin(f)
  BY <1>3, <1>5, <1>9
<1>16. copyTo' - 1 = Len(a) + 1
  BY <1>10, <1>15
<1>17. Done' = a \o <<"/">>
  BY <1>5, <1>14, <1>16 DEF Done
<1> QED
  BY <1>3, <1>5, <1>6, <1>7, <1>8, <1>14, <1>15, <1>17, Zenon DEF r, n, t, o, f, a

(* ".." keeps the invariant, or ends the loop as RFC 2396 says. *)
LEMMA SkipTwoDotsKeeps ==
    ASSUME LoopInv, SkipTwoDots, Len(Segments) > 1
    PROVE  LoopInv'
<1> DEFINE n == copyFrom - 1
           p == Merged
           r == Behind(p, n)
           t == DotStep(r, <<".", ".">>)
           f == Front(r.out)
<1>1. /\ n \in 1..(Len(p) - 1) /\ n + 2 \in 1..Len(p)
      /\ Current(p, n + 2) = <<".", ".">> /\ Behind(p, n + 2) = r
      /\ \/ /\ n + 3 \in 1..Len(p) /\ Current(p, n + 3) = <<>> /\ Behind(p, n + 3) = t
         \/ n + 2 = Len(p) /\ rel.query = <<>>
  BY TwoDotsSegments
<1>2. /\ t.ok /\ t.out = f /\ Segments' = SegmentsBegin(f) /\ copyTo' \in 1..copyTo
      /\ Done' = Slashed(f) \o <<"/">>
  BY TwoDotsTaken
<1>3. /\ copyFrom \in Nat \ {0} /\ copyTo \in Nat \ {0} /\ Placed /\ Fits
      /\ head \in {<<"alias">>, Hosted} /\ (head = <<"alias">> \/ RelativePath(rel))
      /\ ~rel.scheme /\ ~rel.host
  BY DEF LoopInv, Placed
<1>4. copyFrom' = copyFrom + 3 /\ in' = in /\ UNCHANGED <<base, rel, head>>
  BY DEF SkipTwoDots
<1>5. /\ Merged' = p /\ Fits' /\ rel' = rel /\ head' = head
      /\ RelativePath(rel)' <=> RelativePath(rel)
  BY <1>3, <1>4, SameInput
<1>6. Placed'
  BY <1>2, <1>3, <1>4, MovesOn
<1>7. copyFrom' - 1 = n + 3 /\ (n + 2 = Len(p) => copyFrom' = Len(p) + 2)
  BY <1>3, <1>4
<1>8. <<"/">> \o <<>> = <<"/">>
  OBVIOUS
<1>9. CASE n + 3 \in 1..Len(p) /\ Current(p, n + 3) = <<>> /\ Behind(p, n + 3) = t
  <2>1. <<>> # <<".">> /\ <<>> # <<".", ".">>
    OBVIOUS
  <2> HIDE DEF n, p, t, f, r
  <2>2. CopiedTo(copyFrom - 1)'
    BY <1>2, <1>5, <1>7, <1>8, <1>9, <2>1 DEF CopiedTo, Open, p
  <2>3. (copyFrom - 1 \in 1..Len(Merged))'
    BY <1>5, <1>7, <1>9
  <2> QED
    BY <1>3, <1>5, <1>6, <2>2, <2>3 DEF LoopInv
<1>10. CASE n + 2 = Len(p) /\ rel.query = <<>>
  <2>1. LastOutcome = t
    BY <1>1, <1>10 DEF LastOutcome
  <2>2. LastOutcome' = LastOutcome
    BY <1>5 DEF LastOutcome
  <2> HIDE DEF t, f
  <2>3. PastEnd'
    BY <1>1, <1>2, <1>5, <1>10, <2>1, <2>2 DEF PastEnd, DotParts
  <2>4. (copyFrom = Len(Merged) + 2)'
    BY <1>5, <1>7, <1>10
  <2> QED
    BY <1>3, <1>5, <1>6, <2>3, <2>4 DEF LoopInv
<1> QED
  BY <1>1, <1>9, <1>10

-----------------------------------------------------------------------------
(* A character is copied to a place that has been read before. *)
LEMMA Overwritten ==
    ASSUME NEW T, NEW s \in Seq(T), NEW c \in 1..Len(s), NEW x \in T, NEW u, u = [s EXCEPT ![c] = x]
    PROVE  /\ u \in Seq(T) /\ Len(u) = Len(s)
           /\ \A i \in 1..Len(s) : u[i] = IF i = c THEN x ELSE s[i]
           /\ SubSeq(u, 1, c) = Append(SubSeq(s, 1, c - 1), x)
<1> DEFINE v == SubSeq(u, 1, c)
           t == SubSeq(s, 1, c - 1)
           w == Append(t, x)
<1>1. Len(s) \in Nat /\ c \in Nat /\ c - 1 \in 0..Len(s) /\ c \in 0..Len(s) /\ c > 0
  OBVIOUS
<1>2. u \in Seq(T) /\ Len(u) = Len(s) /\ \A i \in 1..Len(s) : u[i] = IF i = c THEN x ELSE s[i]
  OBVIOUS
<1>3. t \in Seq(T) /\ Len(t) = c - 1 /\ \A i \in 1..(c - 1) : t[i] = s[i]
  BY <1>1, PrefixIs
<1>4. v \in Seq(T) /\ Len(v) = c /\ \A i \in 1..c : v[i] = u[i]
  BY <1>1, <1>2, PrefixIs
<1> HIDE DEF t, v
<1>5. w \in Seq(T) /\ Len(w) = Len(t) + 1 /\ w[Len(t) + 1] = x /\ \A i \in 1..Len(t) : w[i] = t[i]
  BY <1>3, AppendProperties
<1> HIDE DEF w
<1>6. \A i \in 1..c : v[i] = w[i]
  <2>1. \A i \in 1..c : i \in 1..Len(s) /\ (i # c => i \in 1..(c - 1)) /\ (i = c => i = Len(t) + 1)
    BY <1>1, <1>3
  <2> QED
    BY <2>1, <1>2, <1>3, <1>4, <1>5
<1>7. Len(v) = Len(w)
  BY <1>1, <1>3, <1>4, <1>5
<1>8. v = w
  BY <1>4, <1>5, <1>6, <1>7, SeqEqual
<1> QED
  BY <1>2, <1>8 DEF v, w, t

LEMMA AppendedTo ==
    ASSUME NEW a \in Seq(AllChars), NEW b \in Seq(AllChars), NEW x \in AllChars
    PROVE  Append(a \o b, x) = a \o Append(b, x)
<1> DEFINE u == Append(a \o b, x)
           c == Append(b, x)
           v == a \o c
<1>1. /\ a \o b \in Seq(AllChars) /\ Len(a \o b) = Len(a) + Len(b)
      /\ \A i \in 1..(Len(a) + Len(b)) : (a \o b)[i] = IF i <= Len(a) THEN a[i] ELSE b[i - Len(a)]
  BY JoinIs
<1>2. /\ u \in Seq(AllChars) /\ Len(u) = Len(a \o b) + 1 /\ u[Len(a \o b) + 1] = x
      /\ \A i \in 1..Len(a \o b) : u[i] = (a \o b)[i]
  BY <1>1, AppendProperties
<1>3. c \in Seq(AllChars) /\ Len(c) = Len(b) + 1 /\ c[Len(b) + 1] = x /\ \A i \in 1..Len(b) : c[i] = b[i]
  BY AppendProperties
<1> HIDE DEF u, c
<1>4. /\ v \in Seq(AllChars) /\ Len(v) = Len(a) + Len(c)
      /\ \A i \in 1..(Len(a) + Len(c)) : v[i] = IF i <= Len(a) THEN a[i] ELSE c[i - Len(a)]
  BY <1>3, JoinIs
<1> HIDE DEF v
<1> DEFINE ab == a \o b
<1> HIDE DEF ab
<1>5. Len(a) \in Nat /\ Len(b) \in Nat
  OBVIOUS
<1>6. Len(ab) = Len(a) + Len(b) /\ Len(u) = Len(a) + Len(b) + 1 /\ Len(v) = Len(a) + Len(b) + 1
  BY <1>1, <1>2, <1>3, <1>4, <1>5 DEF ab
<1>7. \A i \in 1..Len(u) : u[i] = v[i]
  <2> TAKE i \in 1..Len(u)
  <2>1. CASE i = Len(a) + Len(b) + 1
    <3>1. u[i] = x
      <4>1. u[Len(ab) + 1] = x
        BY <1>2 DEF ab
      <4> QED
        BY <4>1, <1>6, <2>1
    <3>2. i \in 1..(Len(a) + Len(c)) /\ ~(i <= Len(a)) /\ i - Len(a) = Len(b) + 1
      <4>1. Len(c) = Len(b) + 1
        BY <1>3
      <4> QED
        BY <4>1, <1>5, <2>1
    <3> QED
      BY <3>1, <3>2, <1>3, <1>4
  <2>2. CASE i # Len(a) + Len(b) + 1
    <3>1. i \in 1..(Len(a) + Len(b)) /\ i \in 1..(Len(a) + Len(c))
      <4>1. Len(c) = Len(b) + 1
        BY <1>3
      <4>2. i \in 1..(Len(a) + Len(b) + 1)
        BY <1>6
      <4> QED
        BY <4>1, <4>2, <1>5, <2>2
    <3>2. ~(i <= Len(a)) => i - Len(a) \in 1..Len(b)
      BY <1>5, <3>1
    <3>3. u[i] = (a \o b)[i]
      BY <1>1, <1>2, <3>1
    <3>4. u[i] = IF i <= Len(a) THEN a[i] ELSE b[i - Len(a)]
      BY <1>1, <3>1, <3>3
    <3> QED
      BY <1>3, <1>4, <3>1, <3>2, <3>4
  <2> QED
    BY <2>1, <2>2
<1>8. u = v
  BY <1>2, <1>4, <1>6, <1>7, SeqEqual
<1> QED
  BY <1>8 DEF u, v, c

(* A character of the path, or of what is left of it. *)
LEMMA Copied ==
    ASSUME LoopInv, CopyChar
    PROVE  /\ copyFrom \in 1..Len(Merged) /\ in[copyFrom] = Merged[copyFrom] /\ Merged[copyFrom] \in PathChars
           /\ Done' = Append(Done, Merged[copyFrom]) /\ Placed'
           /\ Merged' = Merged /\ Fits' /\ rel' = rel /\ head' = head
           /\ RelativePath(rel)' <=> RelativePath(rel)
<1> DEFINE z == Len(Merged)
           c == Merged[copyFrom]
<1>1. Fits /\ Placed /\ result = "running" /\ Running
  BY DEF LoopInv, CopyChar, Running
<1>2. /\ copyFrom \in Nat \ {0} /\ z \in Nat \ {0} /\ copyFrom <= z /\ in[copyFrom] = c /\ c \in PathChars
  BY <1>1, RunningIs
<1>3. z <= Len(in) /\ Len(in) \in Nat
  <2>1. copyFrom \in 1..Len(in)
    <3>1. copyFrom >= copyFrom - 1
      BY <1>2
    <3> QED
      BY <1>1, <1>2, <3>1, NotYetRead
  <2>2. z \in 1..Len(in)
    <3>1. z >= copyFrom - 1 /\ z <= z
      BY <1>2
    <3> QED
      BY <1>1, <1>2, <3>1, NotYetRead
  <2>3. in \in Seq(AllChars)
    BY <1>1 DEF Placed
  <2> QED
    BY <1>2, <2>2, <2>3
<1>4. /\ in \in Seq(AllChars) /\ copyTo \in 1..copyFrom
      /\ Len(in) = Len(Original) /\ \A i \in 1..Len(in) : i >= copyFrom - 1 => in[i] = Original[i]
  BY <1>1 DEF Placed
<1>5. /\ in' = [in EXCEPT ![copyTo] = in[copyFrom]] /\ copyTo' = copyTo + 1 /\ copyFrom' = copyFrom + 1
      /\ UNCHANGED <<base, rel, head>>
  BY DEF CopyChar
<1>6. c \in AllChars
  BY <1>2 DEF PathChars, AllChars, Chars, NameChars
<1>7. /\ Merged' = Merged /\ Fits' /\ rel' = rel /\ head' = head /\ Original' = Original
      /\ RelativePath(rel)' <=> RelativePath(rel)
  BY <1>1, <1>5, SameInput
<1> HIDE DEF z, c
<1>8. copyTo \in 1..Len(in) /\ copyTo \in Nat /\ copyTo <= copyFrom
  BY <1>2, <1>3, <1>4
<1>9. /\ in' \in Seq(AllChars) /\ Len(in') = Len(in)
      /\ \A i \in 1..Len(in) : in'[i] = IF i = copyTo THEN c ELSE in[i]
      /\ SubSeq(in', 1, copyTo) = Append(SubSeq(in, 1, copyTo - 1), c)
  <2>1. in' = [in EXCEPT ![copyTo] = c]
    BY <1>2, <1>5
  <2> QED
    BY <1>4, <1>6, <1>8, <2>1, Overwritten
<1>10. Done' = Append(Done, c)
  <2>1. copyTo' - 1 = copyTo
    BY <1>5, <1>8
  <2> QED
    BY <1>9, <2>1 DEF Done
<1>11. \A i \in 1..Len(in) : i >= copyFrom' - 1 => in'[i] = Original[i]
  <2> TAKE i \in 1..Len(in)
  <2> HAVE i >= copyFrom' - 1
  <2>1. i >= copyFrom - 1 /\ i >= copyFrom /\ i \in Nat
    BY <1>2, <1>3, <1>5
  <2>2. in[i] = Original[i]
    BY <1>4, <2>1
  <2>3. CASE i = copyTo
    <3>1. i = copyFrom
      BY <1>2, <1>8, <2>1, <2>3
    <3> QED
      BY <1>2, <1>9, <2>2, <2>3, <3>1
  <2>4. CASE i # copyTo
    BY <1>9, <2>2, <2>4
  <2> QED
    BY <2>3, <2>4
<1>12. Placed'
  <2>1. copyFrom' \in Nat \ {0} /\ copyTo' \in 1..copyFrom' /\ copyTo' <= Len(in') + 1
    BY <1>2, <1>5, <1>8, <1>9
  <2>2. Len(in') = Len(Original')
    BY <1>4, <1>7, <1>9
  <2>3. \A i \in 1..Len(in') : i >= copyFrom' - 1 => in'[i] = Original'[i]
    BY <1>7, <1>9, <1>11
  <2> QED
    BY <1>9, <2>1, <2>2, <2>3 DEF Placed
<1>13. copyFrom \in 1..z
  BY <1>2
<1> QED
  BY <1>2, <1>7, <1>10, <1>12, <1>13 DEF z, c

(* The root. *)
LEMMA FirstCopied ==
    ASSUME LoopInv, CopyChar, copyFrom = 1, copyTo = 1, Segments = <<>>
    PROVE  LoopInv'
<1> DEFINE p == Merged
<1>1. /\ in[1] = p[1] /\ Done' = Append(Done, p[1]) /\ Placed' /\ p' = p /\ Fits' /\ rel' = rel
      /\ head' = head /\ (RelativePath(rel)' <=> RelativePath(rel))
  BY Copied
<1>2. /\ head \in {<<"alias">>, Hosted} /\ (head = <<"alias">> \/ RelativePath(rel))
      /\ ~rel.scheme /\ ~rel.host /\ p \in Paths /\ Placed /\ Fits
  BY DEF LoopInv, Fits
<1>3. p[1] = "/" /\ Len(p) \in Nat \ {0}
  BY <1>2, OriginalIs
<1>4. /\ copyFrom' = 2 /\ Segments' = IF in[1] = "/" THEN Append(Segments, copyTo + 1) ELSE Segments
  BY DEF CopyChar
<1>5. Segments' = Append(<<>>, 2)
  BY <1>1, <1>3, <1>4
<1>6. Append(<<>>, 2) = <<2>> /\ Append(<<>>, "/") = <<"/">> /\ <<"/">> \o <<>> = <<"/">>
  OBVIOUS
<1>7. Done = <<>>
  <2>1. in \in Seq(AllChars) /\ copyTo - 1 = 0
    BY <1>2 DEF Placed
  <2>2. Done \in Seq(AllChars) /\ Len(Done) = copyTo - 1
    BY <1>2, DoneTyped
  <2> QED
    BY <2>1, <2>2
<1>8. Current(p, 1) = <<>> /\ Behind(p, 1) = NoParts
  BY <1>2, FirstPart
<1>9. SegmentsBegin(<<>>) = <<2>>
  <2>1. <<>> \in Seq(PartNames) /\ Len(<<>>) = 0
    OBVIOUS
  <2>2. SegmentsBegin(<<>>) \in Seq(Nat) /\ Len(SegmentsBegin(<<>>)) = 0 + 1 /\ SegmentsBegin(<<>>)[0 + 1] = Len(Slashed(<<>>)) + 2
    BY <2>1, BeginsIs
  <2>3. SegmentsBegin(<<>>)[1] = 2 /\ Len(SegmentsBegin(<<>>)) = 1
    BY <2>1, <2>2, SlashedEmpty
  <2> QED
    BY <2>2, <2>3
<1>10. /\ NoParts.ok /\ NoParts.out = <<>> /\ Slashed(<<>>) \o <<"/">> = <<"/">>
  <2>1. <<"/">> \in Seq({"/"})
    OBVIOUS
  <2>2. <<>> \o <<"/">> = <<"/">>
    BY <2>1, JoinEmpty
  <2> QED
    BY <2>2, SlashedEmpty DEF NoParts
<1>11. <<>> # <<".">> /\ <<>> # <<".", ".">>
  OBVIOUS
<1> HIDE DEF p
<1>12. copyFrom' - 1 = 1 /\ 1 \in 1..Len(p)
  BY <1>3, <1>4
<1>13. Done' = Slashed(NoParts.out) \o (<<"/">> \o <<>>)
  BY <1>1, <1>3, <1>6, <1>7, <1>10
<1>14. Segments' = SegmentsBegin(NoParts.out)
  BY <1>5, <1>6, <1>9, <1>10
<1>15. CopiedTo(copyFrom - 1)'
  BY <1>1, <1>8, <1>10, <1>11, <1>12, <1>13, <1>14 DEF CopiedTo, Open, p
<1>16. (copyFrom - 1 \in 1..Len(Merged))'
  BY <1>1, <1>12 DEF p
<1> QED
  BY <1>1, <1>2, <1>15, <1>16 DEF LoopInv, p

LEMMA OpenNext ==
    ASSUME LoopInv, Running, ~OneDot, ~TwoDots, NEW n \in Nat, n = copyFrom - 1, n \in 1..(Len(Merged) - 1),
           CopiedTo(n), Merged[n+1] # "/"
    PROVE  Open(Merged, n + 1)
<1> DEFINE p == Merged
           c == p[n+1]
           s == Current(p, n)
<1>1. p \in Paths /\ Open(p, n) /\ copyFrom \in Nat \ {0}
  BY DEF LoopInv, Fits, Placed, CopiedTo
<1>2. Len(p) \in Nat \ {0} /\ \A i \in 1..Len(p) : p[i] \in PathChars
  BY <1>1, PartsOfIs DEF Paths
<1>3. n + 1 \in 1..Len(p) /\ c \in PathChars /\ n \in 1..Len(p) /\ copyFrom = n + 1
      /\ (n + 1) + 1 = n + 2 /\ (n + 1) + 2 = n + 3 /\ copyFrom # 1 /\ copyFrom + 1 = n + 2 /\ copyFrom + 2 = n + 3
  BY <1>1, <1>2
<1>4. Current(p, n + 1) = Append(s, c)
  BY <1>1, Stepped
<1>5. s \in Seq(PathChars)
  BY <1>1, <1>3, BehindTyped DEF PartNames
<1>6. s = <<>> /\ c = "." => ~SegmentEnds(p, n + 2) /\ ~(p[n+2] = "." /\ SegmentEnds(p, n + 3))
  <2> HAVE s = <<>> /\ c = "."
  <2>1. Current(Merged, copyFrom - 1) = <<>> /\ Merged[copyFrom] = "."
    BY <1>3
  <2>2. ~SegmentEnds(Merged, copyFrom + 1) /\ ~(Merged[copyFrom + 1] = "." /\ SegmentEnds(Merged, copyFrom + 2))
    BY <1>3, <2>1, NoDotsIs
  <2> QED
    BY <1>3, <2>2
<1>7. s = <<".">> /\ c = "." => ~SegmentEnds(p, n + 2)
  BY <1>1 DEF Open
<1> HIDE DEF p, c, s
<1>8. /\ Append(s, c) = <<".">> => s = <<>> /\ c = "."
      /\ Append(s, c) = <<".", ".">> => s = <<".">> /\ c = "."
  <2> DEFINE w == Append(s, c)
             x == <<".", ".">>
             y == <<".">>
  <2>1. /\ w \in Seq(PathChars) /\ Len(w) = Len(s) + 1 /\ w[Len(s) + 1] = c /\ Len(s) \in Nat
        /\ \A i \in 1..Len(s) : w[i] = s[i]
    BY <1>3, <1>5, AppendProperties
  <2>2. Len(x) = 2 /\ x[1] = "." /\ x[2] = "." /\ Len(y) = 1 /\ y[1] = "." /\ y \in Seq(PathChars)
    BY DEF PathChars
  <2> HIDE DEF w, x, y
  <2>3. w = y => s = <<>> /\ c = "."
    BY <1>5, <2>1, <2>2
  <2>4. w = x => Len(s) = 1 /\ s[1] = "." /\ c = "."
    <3> HAVE w = x
    <3>1. Len(s) = 1
      <4>1. Len(w) = Len(s) + 1 /\ Len(s) \in Nat
        BY <2>1
      <4>2. Len(w) = 2
        BY <2>2
      <4>3. \A i \in Nat : i + 1 = 2 => i = 1
        OBVIOUS
      <4> QED
        BY <4>1, <4>2, <4>3, Zenon
    <3>2. 1 \in 1..Len(s) /\ Len(s) + 1 = 2
      BY <3>1
    <3> QED
      BY <2>1, <2>2, <3>1, <3>2
  <2>5. Len(s) = 1 /\ s[1] = "." => s = y
    BY <1>5, <2>2
  <2> QED
    BY <2>3, <2>4, <2>5 DEF w, x, y
<1> QED
  BY <1>3, <1>4, <1>6, <1>7, <1>8 DEF Open, p

LEMMA CharCopied ==
    ASSUME LoopInv, CopyChar, NEW n \in Nat, n = copyFrom - 1, n \in 1..(Len(Merged) - 1), CopiedTo(n)
    PROVE  LET p == Merged
               r == Behind(p, n + 1)
           IN  /\ r.ok /\ Done' = Slashed(r.out) \o (<<"/">> \o Current(p, n + 1))
               /\ Segments' = SegmentsBegin(r.out) /\ Open(p, n + 1)
<1> DEFINE p == Merged
           c == p[n+1]
           s == Current(p, n)
           t == Current(p, n + 1)
           q == Behind(p, n)
           r == Behind(p, n + 1)
           o == q.out
           done == Slashed(o)
<1>1. p \in Paths /\ Placed /\ copyFrom = n + 1
  BY DEF LoopInv, Fits, Placed
<1>2. /\ in[copyFrom] = c /\ c \in PathChars /\ Done' = Append(Done, c)
  BY <1>1, Copied
<1>3. Segments' = IF c = "/" THEN Append(Segments, copyTo + 1) ELSE Segments
  BY <1>2 DEF CopyChar
<1>4. q.ok /\ Done = done \o (<<"/">> \o s) /\ Segments = SegmentsBegin(o) /\ Open(p, n)
  BY DEF CopiedTo
<1>5. n \in 1..Len(p) /\ Len(p) \in Nat \ {0}
  BY <1>1, PartsOfIs
<1>6. q \in DotOutcomes /\ o \in Seq(PartNames) /\ s \in PartNames
  BY <1>1, <1>5, BehindTyped DEF DotOutcomes
<1>7. Len(Done) = copyTo - 1 /\ copyTo \in Nat
  BY <1>1, DoneTyped DEF Placed
<1>8. /\ c = "/" => t = <<>> /\ r = DotStep(q, s)
      /\ c # "/" => t = Append(s, c) /\ r = q
  BY <1>1, Stepped
<1>9. c # "/" => Open(p, n + 1)
  BY OpenNext DEF CopyChar
<1>10. c = "/" => s # <<".">> /\ s # <<".", ".">>
  BY <1>4 DEF Open, SegmentEnds
<1>11. /\ done \in Seq(AllChars) /\ s \in Seq(AllChars) /\ c \in AllChars /\ "/" \in AllChars
  BY <1>2, <1>6, SlashedChars DEF PathChars, AllChars, Chars, NameChars
<1> DEFINE open == <<"/">> \o s
           y == <<"/">>
<1>12. y \in Seq(AllChars)
  BY <1>11
<1>13. open \in Seq(AllChars)
  BY <1>11, <1>12, JoinIs
<1> HIDE DEF p, c, s, t, q, r, o, done
<1>14. CASE c = "/"
  <2>1. r = [q EXCEPT !.out = Append(o, s)]
    BY <1>6, <1>8, <1>10, <1>14, NamesAre DEF o
  <2>2. r.ok /\ r.out = Append(o, s)
    BY <1>4, <1>6, <2>1 DEF DotOutcomes
  <2>3. Slashed(r.out) = Done
    BY <1>4, <1>6, <2>2, SlashedAppend DEF done
  <2>4. t = <<>> /\ <<"/">> \o t = <<"/">>
    BY <1>8, <1>14
  <2>5. Done' = Done \o <<"/">>
    <3> DEFINE d == Done
    <3>1. d \in Seq(AllChars)
      BY <1>1, DoneTyped
    <3> HIDE DEF d
    <3>2. Append(d, "/") = d \o <<"/">>
      BY <3>1, <1>11
    <3> QED
      BY <1>2, <1>14, <3>2 DEF d
  <2>6. Segments' = Append(SegmentsBegin(o), copyTo + 1)
    BY <1>3, <1>4, <1>14
  <2>7. SegmentsBegin(r.out) = Append(SegmentsBegin(o), Len(Slashed(Append(o, s))) + 2)
    BY <1>6, <2>2, BeginsAppend
  <2>8. Len(Slashed(Append(o, s))) = copyTo - 1
    BY <1>7, <2>2, <2>3
  <2>9. (copyTo - 1) + 2 = copyTo + 1
    BY <1>7
  <2>10. Segments' = SegmentsBegin(r.out)
    BY <2>6, <2>7, <2>8, <2>9
  <2>11. Open(p, n + 1)
    <3>1. <<>> # <<".">> /\ <<>> # <<".", ".">>
      OBVIOUS
    <3> QED
      BY <2>4, <3>1 DEF Open, t
  <2>12. Done' = Slashed(r.out) \o (<<"/">> \o t)
    BY <2>3, <2>4, <2>5
  <2> QED
    BY <2>2, <2>10, <2>11, <2>12 DEF p, r, t
<1>15. CASE c # "/"
  <2>1. Append(done \o open, c) = done \o Append(open, c)
    <3> HIDE DEF open
    <3>1. done \in Seq(AllChars) /\ open \in Seq(AllChars) /\ c \in AllChars
      BY <1>11, <1>13
    <3> QED
      BY <3>1, AppendedTo
  <2>2. Append(open, c) = <<"/">> \o Append(s, c)
    BY <1>11, <1>12, AppendedTo
  <2>3. Done' = done \o (<<"/">> \o t)
    BY <1>2, <1>4, <1>8, <1>15, <2>1, <2>2
  <2>4. r = q /\ Segments' = SegmentsBegin(o)
    BY <1>3, <1>4, <1>8, <1>15
  <2> QED
    BY <1>4, <1>9, <1>15, <2>3, <2>4 DEF p, r, t, done, o
<1> QED
  BY <1>14, <1>15

(* Copying keeps the invariant. *)
LEMMA CopyCharKeeps ==
    ASSUME LoopInv, CopyChar
    PROVE  LoopInv'
<1> DEFINE n == copyFrom - 1
<1>1. Running
  BY DEF CopyChar
<1>2. /\ Placed
      /\ \/ copyFrom = 1 /\ copyTo = 1 /\ Segments = <<>>
         \/ /\ n \in 1..(Len(Merged) - 1) /\ copyFrom = n + 1
            /\ CopiedTo(n)
  BY <1>1, InLoop
<1>3. CASE n \in 1..(Len(Merged) - 1) /\ copyFrom = n + 1 /\ CopiedTo(n)
  <2> DEFINE p == Merged
             r == Behind(p, n + 1)
  <2>1. n \in Nat /\ copyFrom \in Nat \ {0} /\ n = copyFrom - 1
    BY <1>2, <1>3 DEF Placed
  <2>2. /\ r.ok /\ Done' = Slashed(r.out) \o (<<"/">> \o Current(p, n + 1))
        /\ Segments' = SegmentsBegin(r.out) /\ Open(p, n + 1)
    BY <1>3, <2>1, CharCopied
  <2>3. /\ copyFrom \in 1..Len(p) /\ Placed' /\ Merged' = p /\ Fits' /\ rel' = rel
        /\ head' = head /\ (RelativePath(rel)' <=> RelativePath(rel))
    BY Copied
  <2>4. copyFrom' = copyFrom + 1
    BY DEF CopyChar
  <2>5. copyFrom' - 1 = n + 1 /\ n + 1 \in 1..Len(p)
    BY <1>3, <2>1, <2>3, <2>4
  <2>6. /\ head \in {<<"alias">>, Hosted} /\ (head = <<"alias">> \/ RelativePath(rel))
        /\ ~rel.scheme /\ ~rel.host
    BY DEF LoopInv
  <2> HIDE DEF n, p
  <2>7. CopiedTo(copyFrom - 1)'
    BY <2>2, <2>3, <2>5 DEF CopiedTo, p
  <2>8. (copyFrom - 1 \in 1..Len(Merged))'
    BY <2>3, <2>5
  <2> QED
    BY <2>3, <2>6, <2>7, <2>8 DEF LoopInv
<1> QED
  BY <1>2, <1>3, FirstCopied

-----------------------------------------------------------------------------
(* At the end of the path the query is copied behind what is there. *)
LEMMA Spliced ==
    ASSUME NEW T, NEW s \in Seq(T), NEW c \in Nat \ {0}, NEW r \in Seq(T), c + Len(r) - 1 <= Len(s),
           NEW u, u = [i \in DOMAIN s |-> IF i \in c..(c + Len(r) - 1) THEN r[i - c + 1] ELSE s[i]]
    PROVE  SubSeq(u, 1, c + Len(r) - 1) = SubSeq(s, 1, c - 1) \o r
<1> DEFINE n == c + Len(r) - 1
           v == SubSeq(u, 1, n)
           t == SubSeq(s, 1, c - 1)
           w == t \o r
<1>1. Len(s) \in Nat /\ Len(r) \in Nat /\ c \in Nat /\ n \in 0..Len(s) /\ c - 1 \in 0..Len(s) /\ DOMAIN s = 1..Len(s)
  OBVIOUS
<1>2. \A i \in c..n : i - c + 1 \in 1..Len(r) /\ r[i - c + 1] \in T
  BY <1>1
<1>3. \A i \in 1..Len(s) : u[i] = (IF i \in c..n THEN r[i - c + 1] ELSE s[i]) /\ u[i] \in T
  BY <1>1, <1>2
<1>4. u = [i \in 1..Len(s) |-> u[i]]
  BY <1>1
<1>5. u \in Seq(T) /\ Len(u) = Len(s)
  BY <1>1, <1>3, <1>4
<1>6. t \in Seq(T) /\ Len(t) = c - 1 /\ \A i \in 1..(c - 1) : t[i] = s[i]
  BY <1>1, PrefixIs
<1>7. v \in Seq(T) /\ Len(v) = n /\ \A i \in 1..n : v[i] = u[i]
  BY <1>1, <1>5, PrefixIs
<1> HIDE DEF t, v, n
<1>8. /\ w \in Seq(T) /\ Len(w) = Len(t) + Len(r)
      /\ \A i \in 1..(Len(t) + Len(r)) : w[i] = IF i <= Len(t) THEN t[i] ELSE r[i - Len(t)]
  <2>1. t \in Seq(T)
    BY <1>6
  <2>2. /\ t \o r \in Seq(T) /\ Len(t \o r) = Len(t) + Len(r)
        /\ \A i \in 1..(Len(t) + Len(r)) : (t \o r)[i] = IF i <= Len(t) THEN t[i] ELSE r[i - Len(t)]
    BY ONLY r \in Seq(T), <2>1, JoinIs
  <2> QED
    BY <2>2
<1> HIDE DEF w
<1>9. Len(v) = Len(w)
  BY <1>1, <1>6, <1>7, <1>8 DEF n
<1>10. \A i \in 1..n : v[i] = w[i]
  <2> TAKE i \in 1..n
  <2>1. i \in 1..Len(s) /\ i \in 1..(Len(t) + Len(r)) /\ i \in Nat
    BY <1>1, <1>6 DEF n
  <2>2. CASE i <= c - 1
    <3>1. i \notin c..n /\ i \in 1..(c - 1) /\ i <= Len(t)
      BY <1>1, <1>6, <2>1, <2>2
    <3> QED
      BY <3>1, <2>1, <1>3, <1>6, <1>7, <1>8
  <2>3. CASE ~(i <= c - 1)
    <3>1. i \in c..n /\ ~(i <= Len(t)) /\ i - Len(t) = i - c + 1
      BY <1>1, <1>6, <2>1, <2>3
    <3> QED
      BY <3>1, <2>1, <1>3, <1>7, <1>8
  <2> QED
    BY <2>2, <2>3
<1>11. v = w
  BY <1>7, <1>8, <1>9, <1>10, SeqEqual
<1> QED
  BY <1>11 DEF v, w, t, n

(* What is left when the loop ends. *)
LEMMA AtPathEnd ==
    ASSUME LoopInv, CopyRest
    PROVE  /\ Fits /\ Placed
           /\ \/ copyFrom = Len(Merged) + 1 /\ CopiedTo(Len(Merged))
              \/ copyFrom = Len(Merged) + 2 /\ PastEnd
<1>1. result = "running" /\ ~Running
  BY DEF CopyRest
<1>2. copyFrom \in Nat \ {0} /\ Len(Merged) \in Nat \ {0} /\ ~(copyFrom <= Len(Merged))
  BY <1>1, RunningIs
<1>3. /\ Fits /\ Placed
      /\ \/ copyFrom = 1
         \/ copyFrom - 1 \in 1..Len(Merged) /\ CopiedTo(copyFrom - 1)
         \/ copyFrom = Len(Merged) + 2 /\ PastEnd
  BY DEF LoopInv
<1>4. copyFrom # 1
  BY <1>2
<1>5. ASSUME copyFrom - 1 \in 1..Len(Merged), CopiedTo(copyFrom - 1)
      PROVE  copyFrom = Len(Merged) + 1 /\ CopiedTo(Len(Merged))
  <2>1. copyFrom - 1 = Len(Merged) /\ copyFrom = Len(Merged) + 1
    BY <1>2, <1>5
  <2> QED
    BY <1>5, <2>1
<1> QED
  BY <1>3, <1>4, <1>5

LEMMA RestIs ==
    ASSUME LoopInv, CopyRest
    PROVE  /\ SubSeq(in, copyFrom, Len(in)) = rel.query /\ rel.query \in Seq(AllChars)
           /\ copyTo + Len(rel.query) - 1 <= Len(in)
<1> DEFINE z == Len(Merged)
           q == rel.query
           m == Len(in)
           r == SubSeq(in, copyFrom, m)
<1>1. /\ Fits /\ Placed
      /\ copyFrom = z + 1 \/ (copyFrom = z + 2 /\ q = <<>>)
  BY AtPathEnd DEF PastEnd
<1>2. /\ z \in Nat \ {0} /\ q \in Seq(AllChars) /\ \A i \in 1..Len(q) : Original[z + i] = q[i]
      /\ Original = Merged \o q /\ Merged \in Seq(AllChars)
  BY <1>1, OriginalIs DEF Original
<1>3. /\ in \in Seq(AllChars) /\ m = Len(Original)
      /\ \A i \in 1..m : i >= copyFrom - 1 => in[i] = Original[i]
      /\ copyTo \in 1..copyFrom /\ copyTo <= m + 1
  BY <1>1 DEF Placed
<1>4. m = z + Len(q)
  <2>1. Len(Merged \o q) = Len(Merged) + Len(q)
    BY <1>2, JoinIs
  <2> QED
    BY <1>2, <1>3, <2>1
<1>5. m \in Nat /\ Len(q) \in Nat /\ (q = <<>> => Len(q) = 0)
  BY <1>2, <1>3
<1>6. in \in Seq(AllChars) /\ \A i \in 1..m : in[i] \in AllChars
  BY <1>3
<1> HIDE DEF z, q, m
<1>7. copyTo + Len(q) - 1 <= m
  BY <1>1, <1>2, <1>3, <1>4, <1>5
<1>8. CASE copyFrom = z + 1
  <2>1. copyFrom \in Int /\ m \in Int /\ \A i \in copyFrom..m : in[i] \in AllChars
    BY <1>2, <1>5, <1>6, <1>8
  <2>2. /\ r \in Seq(AllChars) /\ Len(r) = (IF copyFrom <= m THEN m - copyFrom + 1 ELSE 0)
        /\ \A i \in 1..(m - copyFrom + 1) : r[i] = in[copyFrom + i - 1]
    BY <2>1, SubSeqProperties
  <2> HIDE DEF r
  <2>3. Len(r) = Len(q) /\ m - copyFrom + 1 = Len(q)
    BY <1>2, <1>4, <1>5, <1>8, <2>2
  <2>4. \A i \in 1..Len(q) : r[i] = q[i]
    <3>1. \A i \in 1..Len(q) : copyFrom + i - 1 = z + i /\ z + i \in 1..m /\ z + i >= copyFrom - 1
      BY <1>2, <1>4, <1>5, <1>8
    <3> QED
      BY <3>1, <1>2, <1>3, <2>2, <2>3
  <2>5. r = q
    BY <1>2, <2>2, <2>3, <2>4, SeqEqual
  <2> QED
    BY <1>2, <1>7, <2>5 DEF r, q, m
<1>9. CASE copyFrom = z + 2 /\ q = <<>>
  <2>1. copyFrom \in Int /\ m \in Int /\ m < copyFrom
    BY <1>2, <1>4, <1>5, <1>9
  <2>2. r = <<>>
    BY <2>1, SubSeqEmpty
  <2> HIDE DEF r
  <2> QED
    BY <1>2, <1>7, <1>9, <2>2 DEF r, q, m
<1> QED
  BY <1>1, <1>8, <1>9

(* What has been copied of the path is what is left of its segments. *)
LEMMA PathDone ==
    ASSUME LoopInv, CopyRest
    PROVE  Dotless(PathParts(Merged)).ok /\ Done = Dotless(PathParts(Merged)).path
<1> DEFINE p == Merged
           z == Len(p)
           s == Current(p, z)
           q == Behind(p, z)
           o == q.out
           d == Dotless(PathParts(p))
<1>1. /\ p \in Paths
      /\ CopiedTo(z) \/ PastEnd
  BY AtPathEnd DEF Fits
<1>2. z \in Nat \ {0} /\ z \in 1..z
  BY <1>1, PartsOfIs
<1>3. q \in DotOutcomes /\ o \in Seq(PartNames) /\ s \in PartNames
  BY <1>1, <1>2, BehindTyped DEF DotOutcomes
<1>4. /\ Last(PathParts(p)) = s
      /\ FoldLeft(DotStep, [ok |-> TRUE, out |-> <<>>], PathParts(p)) = DotStep(q, s)
  BY <1>1, AllParts
<1>5. /\ d.ok = DotStep(q, s).ok
      /\ d.path = Slashed(IF s \in DotParts THEN Append(DotStep(q, s).out, <<>>) ELSE DotStep(q, s).out)
  BY <1>4 DEF Dotless
<1>6. <<"/">> \o <<>> = <<"/">> /\ <<>> \in PartNames
  BY DEF PartNames
<1>7. CASE CopiedTo(z)
  <2>1. q.ok /\ Done = Slashed(o) \o (<<"/">> \o s)
    BY <1>7 DEF CopiedTo
  <2>2. s # <<".">> /\ s # <<".", ".">>
    <3>1. z + 1 > z
      BY <1>2
    <3> QED
      BY <1>7, <3>1 DEF CopiedTo, Open, SegmentEnds
  <2> HIDE DEF d, s, q, o, p
  <2>3. DotStep(q, s) = [q EXCEPT !.out = Append(o, s)]
    BY <1>3, <2>2, NamesAre DEF o
  <2>4. DotStep(q, s).ok /\ DotStep(q, s).out = Append(o, s)
    BY <1>3, <2>1, <2>3 DEF DotOutcomes
  <2>5. Slashed(Append(o, s)) = Slashed(o) \o (<<"/">> \o s)
    BY <1>3, SlashedAppend
  <2>6. s \notin DotParts
    BY <2>2 DEF DotParts
  <2>7. d.ok /\ Done = d.path
    BY <1>5, <2>1, <2>4, <2>5, <2>6
  <2> QED
    BY <2>7 DEF d, p
<1>8. CASE PastEnd
  <2> DEFINE t == DotStep(q, s)
  <2>1. s \in DotParts /\ t.ok /\ Done = Slashed(t.out) \o <<"/">>
    BY <1>8 DEF PastEnd, LastOutcome
  <2>2. t.out \in Seq(PartNames)
    BY <1>3, DotStepTyped DEF DotOutcomes
  <2> HIDE DEF t, s, q, o, d, p
  <2>3. Slashed(Append(t.out, <<>>)) = Slashed(t.out) \o (<<"/">> \o <<>>)
    BY <1>6, <2>2, SlashedAppend
  <2>4. d.ok /\ Done = d.path
    BY <1>5, <1>6, <2>1, <2>3 DEF t
  <2> QED
    BY <2>4 DEF d, p
<1> QED
  BY <1>1, <1>7, <1>8

(* Then what is in place is what RFC 2396 computes. *)
LEMMA CopyRestResolves ==
    ASSUME LoopInv, CopyRest
    PROVE  UrlResolved'
<1> DEFINE q == rel.query
           n == copyTo + Len(q) - 1
           d == Dotless(PathParts(Merged))
<1>1. /\ SubSeq(in, copyFrom, Len(in)) = q /\ q \in Seq(AllChars) /\ n <= Len(in)
  BY RestIs
<1>2. Placed /\ Fits /\ in \in Seq(AllChars) /\ copyTo \in Nat \ {0}
  BY AtPathEnd DEF Placed
<1>3. d.ok /\ Done = d.path
  BY PathDone
<1>4. Expected.ok = d.ok /\ Expected.url = head \o d.path \o q
  BY ExpectedInLoop
<1>5. /\ in' = [i \in DOMAIN in |-> IF i \in copyTo..n THEN q[i - copyTo + 1] ELSE in[i]]
      /\ copyTo' = copyTo + Len(q) /\ result' = "success" /\ UNCHANGED <<base, rel, head>>
  BY <1>1 DEF CopyRest
<1>6. Expected' = Expected /\ head' = head
  BY <1>5, SameInput
<1> HIDE DEF d, q
<1>7. SubSeq(in', 1, n) = Done \o q
  BY <1>1, <1>2, <1>5, Spliced DEF Done
<1>8. SubSeq(in', 1, copyTo' - 1) = Done \o q
  <2>1. copyTo' - 1 = n
    BY <1>1, <1>2, <1>5
  <2> QED
    BY <1>7, <2>1
<1>9. /\ Done \in Seq(AllChars) /\ head \in Seq(AllChars)
  <2>1. Done \in Seq(AllChars)
    BY <1>2, DoneTyped
  <2>2. head \in {<<"alias">>, Hosted}
    BY DEF LoopInv
  <2>3. <<"alias">> \in Seq(AllChars)
    BY DEF AllChars
  <2>4. Hosted \in Seq(AllChars)
    BY DEF AllChars, Hosted, Letter, Chars, NameChars
  <2> QED
    BY <2>1, <2>2, <2>3, <2>4
<1>10. head \o (Done \o q) = (head \o Done) \o q
  <2>1. \A a, b, c \in Seq(AllChars) : (a \o b) \o c = a \o (b \o c)
    BY ConcatAssociative
  <2> QED
    BY <1>1, <1>9, <2>1
<1>11. head' \o SubSeq(in', 1, copyTo' - 1) = Expected'.url /\ Expected'.ok
  BY <1>3, <1>4, <1>6, <1>8, <1>10
<1> QED
  BY <1>5, <1>11 DEF UrlResolved

(* The first character that is not among these. *)
LEMMA ScanAt ==
    ASSUME NEW s \in Seq(AllChars), NEW i \in 1..(Len(s) + 1), NEW chars, NEW m \in i..(Len(s) + 1),
           m = Len(s) + 1 \/ s[m] \notin chars, \A j \in i..(m - 1) : s[j] \in chars
    PROVE  Scan(s, i, chars) = m
<1> DEFINE P(k) == /\ k = Len(s) + 1 \/ s[k] \notin chars
                   /\ \A j \in i..(k - 1) : s[j] \in chars
           k == Scan(s, i, chars)
<1>1. k = CHOOSE x \in i..(Len(s) + 1) : P(x)
  BY DEF Scan
<1>2. P(m)
  OBVIOUS
<1> HIDE DEF P, k
<1>3. k \in i..(Len(s) + 1) /\ P(k)
  BY <1>1, <1>2
<1>4. Len(s) \in Nat /\ i \in Nat /\ k \in Nat /\ m \in Nat
  BY <1>3
<1>5. CASE k < m
  <2>1. k \in i..(m - 1) /\ k # Len(s) + 1
    BY <1>3, <1>4, <1>5
  <2> QED
    BY <1>3, <2>1 DEF P
<1>6. CASE k > m
  <2>1. m \in i..(k - 1) /\ m # Len(s) + 1
    BY <1>3, <1>4, <1>6
  <2> QED
    BY <1>3, <2>1 DEF P
<1> QED
  BY <1>4, <1>5, <1>6 DEF k

LEMMA OneChar ==
    ASSUME NEW s \in Seq(AllChars), NEW i \in 1..Len(s)
    PROVE  SubSeq(s, i, i) = <<s[i]>>
<1> DEFINE u == SubSeq(s, i, i)
           v == <<s[i]>>
<1>1. i \in Int /\ i <= i /\ i - i + 1 = 1 /\ i + 1 - 1 = i /\ s[i] \in AllChars /\ \A j \in i..i : s[j] \in AllChars
  OBVIOUS
<1>2. /\ u \in Seq(AllChars) /\ Len(u) = (IF i <= i THEN i - i + 1 ELSE 0)
      /\ \A k \in 1..(i - i + 1) : u[k] = s[i + k - 1]
  BY <1>1, SubSeqProperties
<1>3. v \in Seq(AllChars) /\ Len(v) = 1 /\ v[1] = s[i]
  BY <1>1
<1> HIDE DEF u, v
<1>4. Len(u) = Len(v) /\ \A k \in 1..Len(u) : u[k] = v[k]
  <2>1. Len(u) = 1 /\ u[1] = s[i]
    BY <1>1, <1>2
  <2> QED
    BY <1>3, <2>1
<1>5. u = v
  BY <1>2, <1>3, <1>4, SeqEqual
<1> QED
  BY <1>5 DEF u, v

LEMMA HostedIs ==
    /\ Hosted \in Seq(AllChars) /\ Len(Hosted) = 5 /\ Hosted[1] = Letter /\ Hosted[2] = ":" /\ Hosted[3] = "/"
    /\ Hosted[4] = "/" /\ Hosted[5] = Letter
  BY DEF Hosted, Letter, AllChars, Chars, NameChars

(* A URL with a host and a scheme: all that base URLs are. *)
LEMMA AbsoluteParsed ==
    ASSUME NEW t \in Seq(AllChars), t # <<>> => t[1] \in {"/", "?"}
    PROVE  LET u == parse_uri(Hosted \o t)
           IN  /\ u.type = "ABSOLUTE" /\ u.text = Hosted \o t /\ u.scheme = <<Letter>>
               /\ u.hostport = <<Letter>> /\ u.pathquery = t
<1> DEFINE s == Hosted \o t
           n == Len(s)
<1>1. /\ s \in Seq(AllChars) /\ n = 5 + Len(t) /\ Len(t) \in Nat
      /\ \A i \in 1..(5 + Len(t)) : s[i] = IF i <= 5 THEN Hosted[i] ELSE t[i - 5]
  <2>1. Hosted \in Seq(AllChars) /\ Len(Hosted) = 5
    BY HostedIs
  <2>2. /\ Hosted \o t \in Seq(AllChars) /\ Len(Hosted \o t) = Len(Hosted) + Len(t)
        /\ \A i \in 1..(Len(Hosted) + Len(t)) :
              (Hosted \o t)[i] = IF i <= Len(Hosted) THEN Hosted[i] ELSE t[i - Len(Hosted)]
    BY ONLY t \in Seq(AllChars), <2>1, JoinIs
  <2> QED
    BY <2>1, <2>2
<1> HIDE DEF s, n
<1>2. n \in Nat /\ n >= 5 /\ \A i \in 1..5 : i \in 1..n /\ i \in 1..(5 + Len(t)) /\ i <= 5
  BY <1>1
<1>3. s[1] = Letter /\ s[2] = ":" /\ s[3] = "/" /\ s[4] = "/" /\ s[5] = Letter
  <2>1. \A i \in 1..5 : s[i] = Hosted[i]
    BY <1>1, <1>2
  <2>2. 1 \in 1..5 /\ 2 \in 1..5 /\ 3 \in 1..5 /\ 4 \in 1..5 /\ 5 \in 1..5
    OBVIOUS
  <2> QED
    BY <2>1, <2>2, HostedIs
<1>4. \A i \in 1..Len(t) : 5 + i \in 1..n /\ s[5 + i] = t[i]
  <2>1. \A i \in 1..Len(t) : 5 + i \in 1..n /\ 5 + i \in 1..(5 + Len(t)) /\ ~(5 + i <= 5) /\ (5 + i) - 5 = i
    BY <1>1
  <2> QED
    BY <2>1, <1>1
<1>5. Letter \in NameChars /\ ":" \notin NameChars /\ "/" \notin NameChars /\ "?" \notin NameChars
  BY DEF Letter, NameChars
<1>6. Scan(s, 1, NameChars) = 2
  <2>1. 1 \in 1..(n + 1) /\ 2 \in 1..(n + 1) /\ \A j \in 1..(2 - 1) : j = 1
    BY <1>2
  <2> QED
    BY <1>1, <1>3, <1>5, <2>1, ScanAt DEF n
<1>7. parse_scheme(s) = 1
  <2>1. 2 > 1 /\ 2 <= n /\ 2 - 1 = 1
    BY <1>2
  <2> QED
    BY <1>3, <1>6, <2>1 DEF parse_scheme, n
<1>8. Scan(s, 5, NameChars) = 6
  <2>1. 5 \in 1..(n + 1) /\ 6 \in 5..(n + 1) /\ \A j \in 5..(6 - 1) : j = 5
    BY <1>2
  <2>2. 6 = n + 1 \/ s[6] \notin NameChars
    <3>1. CASE t = <<>>
      BY <1>1, <3>1
    <3>2. CASE t # <<>>
      <4>1. 1 \in 1..Len(t) /\ 5 + 1 = 6
        BY <1>1, <3>2
      <4>2. s[6] = t[1]
        BY <1>4, <4>1
      <4> QED
        BY <1>5, <3>2, <4>2
    <3> QED
      BY <3>1, <3>2
  <2>3. \A j \in 5..(6 - 1) : s[j] \in NameChars
    BY <1>3, <1>5, <2>1
  <2> DEFINE m == 6
             i == 5
  <2>4. /\ s \in Seq(AllChars) /\ i \in 1..(Len(s) + 1) /\ m \in i..(Len(s) + 1)
        /\ m = Len(s) + 1 \/ s[m] \notin NameChars
        /\ \A j \in i..(m - 1) : s[j] \in NameChars
    BY <1>1, <2>1, <2>2, <2>3 DEF n
  <2> HIDE DEF m, i
  <2>5. Scan(s, i, NameChars) = m
    BY <2>4, ScanAt
  <2> QED
    BY <2>5 DEF m, i
<1>9. SubSeq(s, 1, 1) = <<Letter>> /\ SubSeq(s, 5, 5) = <<Letter>>
  <2>1. 1 \in 1..n /\ 5 \in 1..n
    BY <1>2
  <2> QED
    BY <1>1, <1>3, <2>1, OneChar DEF n
<1>10. SubSeq(s, 6, n) = t
  <2> DEFINE r == SubSeq(s, 6, n)
  <2>1. \A i \in 6..n : s[i] \in AllChars
    <3>1. \A i \in 6..n : i \in 1..n
      BY <1>2
    <3> QED
      BY <1>1, <3>1 DEF n
  <2>2. /\ r \in Seq(AllChars) /\ Len(r) = (IF 6 <= n THEN n - 6 + 1 ELSE 0)
        /\ \A i \in 1..(n - 6 + 1) : r[i] = s[6 + i - 1]
    BY <1>2, <2>1, SubSeqProperties
  <2> HIDE DEF r
  <2>3. Len(r) = Len(t)
    BY <1>1, <1>2, <2>2
  <2>4. \A i \in 1..Len(t) : r[i] = t[i]
    <3>1. \A i \in 1..Len(t) : i \in 1..(n - 6 + 1) /\ 6 + i - 1 = 5 + i
      BY <1>1
    <3> QED
      BY <3>1, <1>4, <2>2
  <2>5. r = t
    BY <2>2, <2>3, <2>4, SeqEqual
  <2> QED
    BY <2>5 DEF r
<1> DEFINE u == parse_uri(s)
<1>11. 3 < n /\ 1 > 0 /\ 1 + 2 = 3 /\ 3 + 1 = 4 /\ 3 + 2 = 5 /\ 6 - 1 = 5
  BY <1>2
<1>12. /\ u.type = "ABSOLUTE" /\ u.text = s /\ u.scheme = SubSeq(s, 1, 1)
       /\ u.hostport = SubSeq(s, 5, 5) /\ u.pathquery = SubSeq(s, 6, n)
  BY <1>3, <1>7, <1>8, <1>11 DEF parse_uri, n
<1> QED
  BY <1>9, <1>10, <1>12 DEF s

LEMMA ScanIs ==
    ASSUME NEW s \in Seq(AllChars), NEW i \in 1..(Len(s) + 1), NEW chars
    PROVE  Scan(s, i, chars) \in i..(Len(s) + 1)
<1> DEFINE n == Len(s) + 1
           Stops == {m \in i..n : m = n \/ s[m] \notin chars}
<1>1. n \in Nat /\ i \in Nat /\ i <= n
  OBVIOUS
<1>2. Stops \in SUBSET Nat /\ n \in Stops /\ Stops # {}
  BY <1>1
<1> HIDE DEF Stops
<1>3. PICK m \in Stops : \A k \in Stops : m <= k
  BY <1>2, LeastElement
<1>4. m \in i..n /\ (m = n \/ s[m] \notin chars)
  BY <1>3 DEF Stops
<1>5. \A j \in i..(m - 1) : s[j] \in chars
  <2> SUFFICES ASSUME NEW j \in i..(m - 1), s[j] \notin chars PROVE FALSE
    OBVIOUS
  <2>1. j \in i..n /\ j < m /\ m \in Nat /\ j \in Nat
    BY <1>1, <1>4
  <2>2. j \in Stops
    BY <2>1 DEF Stops
  <2> QED
    BY <1>3, <2>1, <2>2
<1>6. Scan(s, i, chars) = m
  BY <1>4, <1>5, ScanAt
<1> QED
  BY <1>4, <1>6

(* A URL without a scheme, and one without a host too. *)
LEMMA HostParsed ==
    ASSUME NEW t \in {<<>>, <<"/", "a">>}
    PROVE  LET u == parse_uri(<<"/", "/", Letter>> \o t)
           IN  u.type = "RELATIVE" /\ u.text = <<"/", "/", Letter>> \o t /\ u.hostport # <<>>
<1> DEFINE s == <<"/", "/", Letter>> \o t
           n == Len(s)
<1>1. /\ s \in Seq(AllChars) /\ n >= 3 /\ n \in Nat /\ s[1] = "/" /\ s[2] = "/" /\ s[3] = Letter
      /\ n = 3 \/ s[4] = "/"
  <2> DEFINE h == <<"/", "/", Letter>>
  <2>1. h \in Seq(AllChars) /\ Len(h) = 3 /\ h[1] = "/" /\ h[2] = "/" /\ h[3] = Letter
    BY DEF AllChars, Chars, NameChars, Letter
  <2>2. t \in Seq(AllChars) /\ Len(t) \in Nat /\ (Len(t) = 0 \/ (Len(t) = 2 /\ t[1] = "/"))
    <3>1. CASE t = <<>>
      BY <3>1
    <3>2. CASE t = <<"/", "a">>
      BY <3>2 DEF AllChars, Chars, NameChars
    <3> QED
      BY <3>1, <3>2
  <2> HIDE DEF h
  <2>3. /\ h \o t \in Seq(AllChars) /\ Len(h \o t) = Len(h) + Len(t)
        /\ \A i \in 1..(Len(h) + Len(t)) : (h \o t)[i] = IF i <= Len(h) THEN h[i] ELSE t[i - Len(h)]
    BY <2>1, <2>2, JoinIs
  <2>4. s = h \o t
    BY DEF h
  <2> HIDE DEF s
  <2>5. /\ s \in Seq(AllChars) /\ n = 3 + Len(t)
        /\ \A i \in 1..(3 + Len(t)) : s[i] = IF i <= 3 THEN h[i] ELSE t[i - 3]
    BY <2>1, <2>3, <2>4
  <2>6. 1 \in 1..(3 + Len(t)) /\ 2 \in 1..(3 + Len(t)) /\ 3 \in 1..(3 + Len(t))
    BY <2>2
  <2>7. Len(t) = 2 => 4 \in 1..(3 + Len(t)) /\ ~(4 <= 3) /\ 4 - 3 = 1
    BY <2>2
  <2>8. s[1] = "/" /\ s[2] = "/" /\ s[3] = Letter
    BY <2>1, <2>5, <2>6
  <2>9. Len(t) = 2 => s[4] = "/"
    BY <2>2, <2>5, <2>7
  <2>10. n >= 3 /\ n \in Nat /\ (Len(t) = 0 => n = 3)
    BY <2>2, <2>5
  <2> QED
    BY <2>2, <2>5, <2>8, <2>9, <2>10
<1> HIDE DEF s, n
<1>2. Letter \in NameChars /\ "/" \notin NameChars
  BY DEF Letter, NameChars
<1>3. Scan(s, 1, NameChars) = 1
  <2>1. 1 \in 1..(n + 1) /\ \A j \in 1..(1 - 1) : FALSE
    BY <1>1
  <2> QED
    BY <1>1, <1>2, <2>1, ScanAt DEF n
<1>4. parse_scheme(s) = 0
  BY <1>3 DEF parse_scheme
<1>5. Scan(s, 3, NameChars) = 4
  <2> DEFINE m == 4
             i == 3
  <2>1. /\ s \in Seq(AllChars) /\ i \in 1..(Len(s) + 1) /\ m \in i..(Len(s) + 1)
        /\ m = Len(s) + 1 \/ s[m] \notin NameChars
        /\ \A j \in i..(m - 1) : s[j] \in NameChars
    <3>1. \A j \in i..(m - 1) : j = 3
      OBVIOUS
    <3> QED
      BY <1>1, <1>2, <3>1 DEF n
  <2> HIDE DEF m, i
  <2>2. Scan(s, i, NameChars) = m
    BY <2>1, ScanAt
  <2> QED
    BY <2>2 DEF m, i
<1>6. SubSeq(s, 3, 3) = <<Letter>>
  <2>1. 3 \in 1..Len(s)
    BY <1>1 DEF n
  <2> QED
    BY <1>1, <2>1, OneChar
<1> DEFINE u == parse_uri(s)
<1>7. 1 < n /\ ~(0 > 0) /\ 1 + 1 = 2 /\ 1 + 2 = 3 /\ 4 - 1 = 3
  BY <1>1
<1>8. u.type = "RELATIVE" /\ u.text = s /\ u.hostport = SubSeq(s, 3, 3)
  BY <1>1, <1>4, <1>5, <1>7 DEF parse_uri, n
<1>9. <<Letter>> # <<>>
  OBVIOUS
<1> QED
  BY <1>6, <1>8, <1>9 DEF s

LEMMA PathParsed ==
    ASSUME NEW s \in Seq(AllChars), \A i \in 1..Len(s) : s[i] # ":",
           ~(1 < Len(s) /\ s[1] = "/" /\ s[2] = "/")
    PROVE  LET u == parse_uri(s)
           IN  /\ u.type = "RELATIVE" /\ u.text = s /\ u.hostport = <<>>
               /\ u.path_type = "ABS_PATH" <=> s # <<>> /\ Head(s) = "/"
<1> DEFINE n == Len(s)
           k == Scan(s, 1, NameChars)
           u == parse_uri(s)
<1>1. n \in Nat /\ 1 \in 1..(n + 1)
  OBVIOUS
<1>2. k \in 1..(n + 1)
  BY <1>1, ScanIs
<1> HIDE DEF k, n
<1>3. k <= n => s[k] # ":"
  <2>1. k <= n => k \in 1..n
    BY <1>1, <1>2
  <2> QED
    BY <2>1 DEF n
<1>4. parse_scheme(s) = 0
  BY <1>3 DEF parse_scheme, k, n
<1>5. SubSeq(s, 1, n) = s
  BY DEF n
<1>6. ~(0 > 0) /\ 1 + 1 = 2
  OBVIOUS
<1>7. u = [text |-> s, type |-> "RELATIVE", scheme |-> SubSeq(s, 1, 0), hostport |-> <<>>, pathquery |-> s,
           path_type |-> IF s # <<>> /\ Head(s) = "/" THEN "ABS_PATH" ELSE "REL_PATH"]
  BY <1>4, <1>5, <1>6 DEF parse_uri, n
<1>8. "ABS_PATH" # "REL_PATH"
  OBVIOUS
<1> HIDE DEF u
<1>9. /\ u.type = "RELATIVE" /\ u.text = s /\ u.hostport = <<>>
      /\ u.path_type = IF s # <<>> /\ Head(s) = "/" THEN "ABS_PATH" ELSE "REL_PATH"
  BY <1>7
<1> QED
  BY <1>8, <1>9 DEF u

(* The directory of a base path, whatever its query. *)
LEMMA DirectoryIs ==
    ASSUME NEW p \in Paths, NEW q \in {<<>>, Query}
    PROVE  /\ Directory(p \o q) = Directory(p)
           /\ Directory(p) \in Paths /\ Last(Directory(p)) = "/"
<1> DEFINE n == Len(p)
           slashes == {i \in DOMAIN p : p[i] = "/"}
           m == Max({0} \cup slashes)
           D == SubSeq(p, 1, m)
<1>1. p \in Seq(PathChars) /\ p # <<>> /\ p[1] = "/" /\ n \in Nat \ {0} /\ DOMAIN p = 1..n
  BY DEF Paths
<1>2. /\ \A c \in PathChars : c \in Chars \ {"?"} /\ c \in AllChars
      /\ "?" \notin Chars \ {"?"}
  BY DEF PathChars, AllChars, Chars, NameChars
<1>3. p \in Seq(AllChars)
  BY <1>1, <1>2
<1>4. Query \in Seq(AllChars) /\ Len(Query) = 5 /\ Query[1] = "?"
  BY DEF Query, AllChars, Chars, NameChars
<1>5. ASSUME NEW r \in {<<>>, Query}
      PROVE  Directory(p \o r) = D
  <2> DEFINE s == p \o r
             l == Len(s)
  <2>1. r \in Seq(AllChars)
    <3>1. CASE r = <<>>
      BY <3>1
    <3>2. CASE r = Query
      BY <1>4, <3>2
    <3> QED
      BY <1>5, <3>1, <3>2
  <2>2. /\ s \in Seq(AllChars) /\ l = n + Len(r)
        /\ \A i \in 1..(n + Len(r)) : s[i] = IF i <= n THEN p[i] ELSE r[i - n]
    BY <1>3, <2>1, JoinIs
  <2> HIDE DEF s, l, n
  <2>3. Len(r) \in Nat /\ (r = <<>> => Len(r) = 0) /\ (r # <<>> => Len(r) = 5 /\ r[1] = "?")
    BY <1>4, <1>5, <2>1
  <2>4. \A i \in 1..n : s[i] = p[i] /\ s[i] \in Chars \ {"?"} /\ i \in 1..l
    <3>1. \A i \in 1..n : i \in 1..(n + Len(r)) /\ i <= n
      BY <1>1, <2>3
    <3> QED
      BY <3>1, <1>1, <1>2, <2>2 DEF n
  <2>5. n + 1 = l + 1 \/ s[n + 1] \notin Chars \ {"?"}
    <3>1. CASE r = <<>>
      BY <1>1, <2>2, <2>3, <3>1
    <3>2. CASE r # <<>>
      <4>1. n + 1 \in 1..(n + Len(r)) /\ ~(n + 1 <= n) /\ (n + 1) - n = 1
        BY <1>1, <2>3, <3>2
      <4> QED
        BY <1>2, <2>2, <2>3, <3>2, <4>1
    <3> QED
      BY <3>1, <3>2
  <2>6. Scan(s, 1, Chars \ {"?"}) = n + 1
    <3> DEFINE x == n + 1
    <3>1. /\ 1 \in 1..(Len(s) + 1) /\ x \in 1..(Len(s) + 1) /\ (x = Len(s) + 1 \/ s[x] \notin Chars \ {"?"})
      BY <1>1, <2>2, <2>3, <2>5 DEF l
    <3>2. x - 1 = n
      BY <1>1
    <3>3. \A j \in 1..(x - 1) : s[j] \in Chars \ {"?"}
      BY <2>4, <3>2
    <3> HIDE DEF x
    <3>4. Scan(s, 1, Chars \ {"?"}) = x
      BY <2>2, <3>1, <3>3, ScanAt
    <3> QED
      BY <3>4 DEF x
  <2>7. SubSeq(s, 1, n) = p
    <3>1. n \in 0..Len(s)
      BY <1>1, <2>2, <2>3 DEF l
    <3>2. SubSeq(s, 1, n) \in Seq(AllChars) /\ Len(SubSeq(s, 1, n)) = n /\ \A i \in 1..n : SubSeq(s, 1, n)[i] = s[i]
      BY <2>2, <3>1, PrefixIs
    <3> DEFINE v == SubSeq(s, 1, n)
    <3> HIDE DEF v
    <3>3. v \in Seq(AllChars) /\ Len(v) = Len(p) /\ \A i \in 1..Len(v) : v[i] = p[i]
      BY <2>4, <3>2 DEF v, n
    <3>4. v = p
      BY <1>3, <3>3, SeqEqual
    <3> QED
      BY <3>4 DEF v
  <2>8. s # <<>> /\ (n + 1) - 1 = n
    BY <1>1, <2>2, <2>3 DEF l
  <2>9. Directory(s) = SubSeq(p, 1, m)
    BY <2>6, <2>7, <2>8 DEF Directory
  <2> QED
    BY <2>9 DEF s
<1>6. p \o <<>> = p
  BY <1>3, JoinEmpty
<1>7. Directory(p \o q) = D /\ Directory(p) = D
  <2>1. Directory(p \o <<>>) = D
    BY <1>5
  <2> QED
    BY <1>5, <1>6, <2>1
<1>8. m \in 1..n /\ p[m] = "/"
  <2>1. 1 \in slashes
    BY <1>1
  <2>2. m \in slashes
    <3> DEFINE S == {0} \cup slashes
    <3>1. slashes \in SUBSET (1..n) /\ slashes # {} /\ n \in Nat
      BY <1>1, <2>1
    <3>2. Max(slashes) \in slashes /\ \A y \in slashes : y <= Max(slashes)
      <4> HIDE DEF slashes, n
      <4> QED
        BY <3>1, GreatestElement
    <3> DEFINE x == Max(slashes)
    <3> HIDE DEF x, slashes, n
    <3>3. x \in S /\ \A y \in S : x >= y
      <4>1. x \in slashes /\ \A y \in slashes : y <= x
        BY <3>2, Zenon DEF x
      <4>2. \A y \in slashes : y \in Nat
        BY <3>1
      <4> QED
        BY <4>1, <4>2
    <3>4. \E b \in S : \A y \in S : b >= y
      BY <3>3
    <3>5. Max(S) \in S /\ \A y \in S : Max(S) >= y
      BY <3>4 DEF Max
    <3> DEFINE z == Max(S)
    <3>6. 1 \in S
      BY <2>1
    <3> HIDE DEF z
    <3>7. z \in S /\ z >= 1
      BY <3>5, <3>6, Zenon DEF z
    <3>8. z # 0
      BY <3>7
    <3> QED
      BY <3>7, <3>8 DEF z
  <2> QED
    BY <1>1, <2>2
<1> HIDE DEF m
<1>9. D \in Seq(PathChars) /\ Len(D) = m /\ \A i \in 1..m : D[i] = p[i]
  <2>1. m \in 0..Len(p)
    BY <1>1, <1>8
  <2> QED
    BY <1>1, <2>1, PrefixIs
<1>10. D # <<>> /\ D[1] = "/" /\ D[Len(D)] = "/"
  <2>1. 1 \in 1..m /\ m \in 1..m /\ m > 0
    BY <1>1, <1>8
  <2> QED
    BY <1>1, <1>8, <1>9, <2>1
<1> QED
  BY <1>7, <1>9, <1>10 DEF Paths, Last

-----------------------------------------------------------------------------
(* What parse_uri finds in the texts of the base and of the relative URL. *)
LEMMA Pair ==
    ASSUME NEW x \in AllChars, NEW y \in AllChars
    PROVE  <<x>> \o <<y>> = <<x, y>>
<1> DEFINE a == <<x>>
           b == <<y>>
           u == a \o b
           v == <<x, y>>
<1>1. a \in Seq(AllChars) /\ Len(a) = 1 /\ a[1] = x /\ b \in Seq(AllChars) /\ Len(b) = 1 /\ b[1] = y
  OBVIOUS
<1>2. v \in Seq(AllChars) /\ Len(v) = 2 /\ v[1] = x /\ v[2] = y
  OBVIOUS
<1> HIDE DEF a, b, v
<1>3. /\ u \in Seq(AllChars) /\ Len(u) = Len(a) + Len(b)
      /\ \A i \in 1..(Len(a) + Len(b)) : u[i] = IF i <= Len(a) THEN a[i] ELSE b[i - Len(a)]
  BY <1>1, JoinIs
<1> HIDE DEF u
<1>4. Len(u) = 2 /\ \A i \in 1..2 : u[i] = IF i <= 1 THEN a[i] ELSE b[i - 1]
  BY <1>1, <1>3
<1>5. 1 \in 1..2 /\ 2 \in 1..2 /\ 1 <= 1 /\ ~(2 <= 1) /\ 2 - 1 = 1
  OBVIOUS
<1>6. u[1] = x /\ u[2] = y
  BY <1>1, <1>4, <1>5
<1>7. \A i \in 1..2 : i = 1 \/ i = 2
  OBVIOUS
<1>8. Len(u) = Len(v) /\ \A i \in 1..Len(u) : u[i] = v[i]
  BY <1>2, <1>4, <1>6, <1>7
<1>9. u = v
  BY <1>2, <1>3, <1>8, SeqEqual
<1> QED
  BY <1>9 DEF u, v, a, b

LEMMA Triple ==
    ASSUME NEW x \in AllChars, NEW y \in AllChars, NEW z \in AllChars
    PROVE  <<x, y>> \o <<z>> = <<x, y, z>>
<1> DEFINE a == <<x, y>>
           b == <<z>>
           u == a \o b
           v == <<x, y, z>>
<1>1. a \in Seq(AllChars) /\ Len(a) = 2 /\ a[1] = x /\ a[2] = y /\ b \in Seq(AllChars) /\ Len(b) = 1 /\ b[1] = z
  OBVIOUS
<1>2. v \in Seq(AllChars) /\ Len(v) = 3 /\ v[1] = x /\ v[2] = y /\ v[3] = z
  OBVIOUS
<1> HIDE DEF a, b, v
<1>3. /\ u \in Seq(AllChars) /\ Len(u) = Len(a) + Len(b)
      /\ \A i \in 1..(Len(a) + Len(b)) : u[i] = IF i <= Len(a) THEN a[i] ELSE b[i - Len(a)]
  BY <1>1, JoinIs
<1> HIDE DEF u
<1>4. Len(u) = 3 /\ \A i \in 1..3 : u[i] = IF i <= 2 THEN a[i] ELSE b[i - 2]
  BY <1>1, <1>3
<1>5. 1 \in 1..3 /\ 2 \in 1..3 /\ 3 \in 1..3 /\ 1 <= 2 /\ 2 <= 2 /\ ~(3 <= 2) /\ 3 - 2 = 1
  OBVIOUS
<1>6. u[1] = x /\ u[2] = y /\ u[3] = z
  BY <1>1, <1>4, <1>5
<1>7. \A i \in 1..3 : i = 1 \/ i = 2 \/ i = 3
  OBVIOUS
<1>8. Len(u) = Len(v) /\ \A i \in 1..Len(u) : u[i] = v[i]
  BY <1>2, <1>4, <1>6, <1>7
<1>9. u = v
  BY <1>2, <1>3, <1>8, SeqEqual
<1> QED
  BY <1>9 DEF u, v, a, b

LEMMA HostedJoined ==
    /\ <<Letter, ":">> \o <<"/", "/", Letter>> = Hosted
    /\ <<Letter>> \o <<":">> = <<Letter, ":">>
    /\ <<Letter, ":">> \o (<<"/", "/">> \o <<Letter>>) = Hosted
<1> DEFINE a == <<Letter, ":">>
           b == <<"/", "/", Letter>>
           s == a \o b
<1>1. /\ a \in Seq(AllChars) /\ Len(a) = 2 /\ a[1] = Letter /\ a[2] = ":"
      /\ b \in Seq(AllChars) /\ Len(b) = 3 /\ b[1] = "/" /\ b[2] = "/" /\ b[3] = Letter
  BY DEF AllChars, Chars, NameChars, Letter
<1>2. <<Letter>> \o <<":">> = a /\ <<"/", "/">> \o <<Letter>> = b
  <2>1. Letter \in AllChars /\ ":" \in AllChars /\ "/" \in AllChars
    BY DEF AllChars, Chars, NameChars, Letter
  <2> QED
    BY <2>1, Pair, Triple
<1> HIDE DEF a, b
<1>3. /\ s \in Seq(AllChars) /\ Len(s) = Len(a) + Len(b)
      /\ \A i \in 1..(Len(a) + Len(b)) : s[i] = IF i <= Len(a) THEN a[i] ELSE b[i - Len(a)]
  BY <1>1, JoinIs
<1> HIDE DEF s
<1>4. Len(s) = 5 /\ \A i \in 1..5 : s[i] = IF i <= 2 THEN a[i] ELSE b[i - 2]
  BY <1>1, <1>3
<1>5. s[1] = Letter /\ s[2] = ":" /\ s[3] = "/" /\ s[4] = "/" /\ s[5] = Letter
  <2>1. /\ 1 \in 1..5 /\ 1 <= 2 /\ 2 \in 1..5 /\ 2 <= 2
        /\ 3 \in 1..5 /\ ~(3 <= 2) /\ 3 - 2 = 1 /\ 4 \in 1..5 /\ ~(4 <= 2) /\ 4 - 2 = 2
        /\ 5 \in 1..5 /\ ~(5 <= 2) /\ 5 - 2 = 3
    OBVIOUS
  <2> QED
    BY <1>1, <1>4, <2>1
<1>6. \A i \in 1..5 : i = 1 \/ i = 2 \/ i = 3 \/ i = 4 \/ i = 5
  OBVIOUS
<1>7. \A i \in 1..Len(s) : s[i] = Hosted[i]
  BY <1>4, <1>5, <1>6, HostedIs
<1>8. s = Hosted
  BY <1>3, <1>4, <1>7, HostedIs, SeqEqual
<1> QED
  BY <1>2, <1>8 DEF a, b, s

(* What the caller gives. *)
LEMMA BaseIs ==
    ASSUME UrlAssumption, base \in Bases
    PROVE  /\ base.path \in Seq(PathChars) /\ (base.path # <<>> => base.path \in Paths)
           /\ base.query \in {<<>>, Query} /\ base.path \o base.query \in Seq(AllChars)
           /\ base.path \o base.query # <<>> => (base.path \o base.query)[1] \in {"/", "?"}
           /\ Spelled(base) = Hosted \o (base.path \o base.query)
<1>1. PICK p \in BasePaths, q \in {<<>>, Query} : base = Uri(TRUE, TRUE, p, q)
  BY DEF Bases, Uri
<1>2. base.scheme = TRUE /\ base.host = TRUE /\ base.path = p /\ base.query = q
  BY <1>1 DEF Uri
<1>3. p \in Seq(PathChars) /\ (p # <<>> => p[1] = "/") /\ (p # <<>> => p \in Paths)
  BY <1>1 DEF UrlAssumption, Paths
<1>4. \A c \in PathChars : c \in AllChars
  BY DEF PathChars, AllChars, Chars, NameChars
<1>5. p \in Seq(AllChars)
  BY <1>3, <1>4
<1>6. Query \in Seq(AllChars) /\ Query # <<>> /\ Query[1] = "?"
  BY DEF Query, AllChars, Chars, NameChars
<1>7. q \in Seq(AllChars)
  <2>1. CASE q = <<>>
    BY <2>1
  <2>2. CASE q = Query
    BY <1>6, <2>2
  <2> QED
    BY <1>1, <2>1, <2>2
<1>8. /\ p \o q \in Seq(AllChars) /\ Len(p \o q) = Len(p) + Len(q)
      /\ \A i \in 1..(Len(p) + Len(q)) : (p \o q)[i] = IF i <= Len(p) THEN p[i] ELSE q[i - Len(p)]
  BY <1>5, <1>7, JoinIs
<1>9. p \o q # <<>> => (p \o q)[1] \in {"/", "?"}
  <2>1. CASE p = <<>>
    <3>1. p \o q = q
      BY <1>7, <2>1, JoinEmpty
    <3> QED
      BY <1>1, <1>6, <3>1
  <2>2. CASE p # <<>>
    <3>1. 1 <= Len(p) /\ 1 \in 1..(Len(p) + Len(q))
      BY <1>5, <1>7, <2>2
    <3>2. (p \o q)[1] = p[1]
      BY <1>8, <3>1
    <3> QED
      BY <1>3, <2>2, <3>2
  <2> QED
    BY <2>1, <2>2
<1>10. Spelled(base) = (Hosted \o p) \o q
  BY <1>2, HostedJoined DEF Spelled
<1>11. (Hosted \o p) \o q = Hosted \o (p \o q)
  <2>1. \A a, b, c \in Seq(AllChars) : (a \o b) \o c = a \o (b \o c)
    BY ConcatAssociative
  <2> QED
    BY <1>5, <1>7, <2>1, HostedIs
<1> QED
  BY <1>1, <1>2, <1>3, <1>8, <1>9, <1>10, <1>11

LEMMA RelIs ==
    ASSUME UrlAssumption, rel \in Rels
    PROVE  /\ rel.path \in Seq(PathChars) /\ rel.query \in {<<>>, Query} /\ rel.query \in Seq(AllChars)
           /\ ~rel.host => ~rel.scheme /\ Spelled(rel) = rel.path \o rel.query
           /\ rel.host => rel.path \in {<<>>, <<"/", "a">>}
           /\ rel.host /\ rel.scheme => Spelled(rel) = Hosted \o rel.path
           /\ rel.host /\ ~rel.scheme => Spelled(rel) = <<"/", "/", Letter>> \o rel.path
<1>1. Query \in Seq(AllChars) /\ Query # <<>>
  BY DEF Query, AllChars, Chars, NameChars
<1>2. \A c \in PathChars : c \in AllChars
  BY DEF PathChars, AllChars, Chars, NameChars
<1>3. \A p \in Seq(PathChars) : p \in Seq(AllChars)
  BY <1>2
<1>4. CASE rel \in LocalRels
  <2>1. PICK p \in Strings(MaxRel), q \in {<<>>, Query} : rel = Uri(FALSE, FALSE, p, q)
    BY <1>4 DEF LocalRels, Uri
  <2>2. rel.scheme = FALSE /\ rel.host = FALSE /\ rel.path = p /\ rel.query = q
    BY <2>1 DEF Uri
  <2>3. p \in Seq(PathChars)
    <3>1. PICK n \in 0..MaxRel : p \in [1..n -> PathChars]
      BY <2>1 DEF Strings
    <3>2. n \in Nat
      BY <3>1 DEF UrlAssumption
    <3> QED
      BY <3>1, <3>2
  <2>4. q \in Seq(AllChars)
    <3>1. CASE q = <<>>
      BY <3>1
    <3>2. CASE q = Query
      BY <1>1, <3>2
    <3> QED
      BY <2>1, <3>1, <3>2
  <2>5. Spelled(rel) = p \o q
    <3>1. Spelled(rel) = <<>> \o <<>> \o p \o q
      BY <2>2 DEF Spelled
    <3>2. <<>> \o <<>> = <<>> /\ <<>> \o p = p
      BY <2>3, JoinEmpty
    <3> QED
      BY <3>1, <3>2
  <2> QED
    BY <2>1, <2>2, <2>3, <2>4, <2>5
<1>5. CASE rel \in HostedRels
  <2>1. PICK h \in BOOLEAN, p \in {<<>>, <<"/", "a">>} : rel = Uri(h, TRUE, p, <<>>)
    BY <1>5 DEF HostedRels, Uri
  <2>2. rel.scheme = h /\ rel.host = TRUE /\ rel.path = p /\ rel.query = <<>>
    BY <2>1 DEF Uri
  <2>3. p \in Seq(PathChars)
    <3>1. <<"/", "a">> \in Seq(PathChars) /\ <<>> \in Seq(PathChars)
      BY DEF PathChars
    <3> QED
      BY <2>1, <3>1
  <2>4. <<>> \in Seq(AllChars)
    OBVIOUS
  <2>5. p \in Seq(AllChars)
    BY <1>3, <2>3
  <2> DEFINE w == <<"/", "/", Letter>>
  <2>6. w \in Seq(AllChars)
    BY DEF AllChars, Chars, NameChars, Letter
  <2>7. ASSUME h
        PROVE  Spelled(rel) = Hosted \o p
    <3>1. Spelled(rel) = (<<Letter, ":">> \o w) \o p \o <<>>
      BY <2>2, <2>7 DEF Spelled
    <3>2. Hosted \o p \in Seq(AllChars)
      BY <2>5, HostedIs, JoinIs
    <3>3. (Hosted \o p) \o <<>> = Hosted \o p
      BY <3>2, JoinEmpty
    <3> QED
      BY <3>1, <3>3, HostedJoined
  <2>8. ASSUME ~h
        PROVE  Spelled(rel) = w \o p
    <3> HIDE DEF w
    <3>1. Spelled(rel) = <<>> \o w \o p \o <<>>
      BY <2>2, <2>8 DEF Spelled, w
    <3>2. w \o p \in Seq(AllChars)
      BY <2>5, <2>6, JoinIs
    <3>3. (w \o p) \o <<>> = w \o p /\ <<>> \o w = w
      BY <2>6, <3>2, JoinEmpty
    <3> QED
      BY <3>1, <3>3
  <2> QED
    BY <2>1, <2>2, <2>3, <2>4, <2>7, <2>8
<1> QED
  BY <1>4, <1>5 DEF Rels

LEMMA PathsJoined ==
    ASSUME NEW d \in Paths, NEW r \in Seq(PathChars)
    PROVE  /\ d \o r \in Paths
           /\ r = <<>> => Last(d \o r) = Last(d)
           /\ r # <<>> => Last(d \o r) = Last(r)
<1>1. d \in Seq(PathChars) /\ d # <<>> /\ d[1] = "/"
  BY DEF Paths
<1>2. /\ d \o r \in Seq(PathChars) /\ Len(d \o r) = Len(d) + Len(r)
      /\ \A i \in 1..(Len(d) + Len(r)) : (d \o r)[i] = IF i <= Len(d) THEN d[i] ELSE r[i - Len(d)]
  BY <1>1, JoinIs
<1>3. Len(d) \in Nat \ {0} /\ Len(r) \in Nat /\ (r # <<>> => Len(r) > 0)
  BY <1>1
<1> DEFINE s == d \o r
<1> HIDE DEF s
<1>4. s \in Seq(PathChars) /\ Len(s) > 0 /\ s[1] = "/"
  <2>1. 1 \in 1..(Len(d) + Len(r)) /\ 1 <= Len(d)
    BY <1>3
  <2>2. (d \o r)[1] = d[1]
    BY <1>2, <2>1
  <2> QED
    BY <1>1, <1>2, <1>3, <2>2 DEF s
<1>5. s \in Paths
  <2>1. s # <<>>
    BY <1>4
  <2> QED
    BY <1>4, <2>1 DEF Paths
<1>6. r = <<>> => Last(s) = Last(d)
  BY <1>1, JoinEmpty DEF s
<1>7. r # <<>> => Last(s) = Last(r)
  <2> HAVE r # <<>>
  <2> DEFINE n == Len(d) + Len(r)
  <2>1. n \in 1..(Len(d) + Len(r)) /\ ~(n <= Len(d)) /\ n - Len(d) = Len(r)
    BY <1>3
  <2>2. (d \o r)[n] = r[Len(r)]
    BY <1>2, <2>1
  <2> QED
    BY <1>2, <2>2 DEF s, Last
<1> QED
  BY <1>5, <1>6, <1>7 DEF s

(* The directory of the base URL. *)
LEMMA BaseDirectory ==
    ASSUME UrlAssumption, base \in Bases, Plain
    PROVE  /\ Directory(base.path \o base.query) = Directory(base.path)
           /\ Directory(base.path) \in Paths /\ Last(Directory(base.path)) = "/"
<1>1. /\ base.path # <<>> => base.path \in Paths
      /\ base.query \in {<<>>, Query}
  BY BaseIs
<1>2. CASE base.path # <<>>
  BY <1>1, <1>2, DirectoryIs
<1>3. CASE base.path = <<>>
  <2>1. base.query = <<>> /\ base.path \o base.query = <<>>
    BY <1>3 DEF Plain
  <2>2. <<"/">> \in Paths /\ <<"/">> # <<>>
    BY DEF Paths, PathChars
  <2>3. Directory(<<>>) = Directory(<<"/">>)
    BY <2>2 DEF Directory
  <2>4. Directory(<<"/">>) \in Paths /\ Last(Directory(<<"/">>)) = "/"
    BY <2>2, DirectoryIs
  <2> QED
    BY <1>3, <2>1, <2>3, <2>4
<1> QED
  BY <1>2, <1>3

LEMMA TwoSlashes ==
    ASSUME NEW p \in Seq(PathChars), Len(p) > 1, p[1] = "/", p[2] = "/"
    PROVE  SubSeq(p, 1, 2) = <<"/", "/">>
<1> DEFINE u == SubSeq(p, 1, 2)
           v == <<"/", "/">>
<1>1. 2 \in 0..Len(p)
  OBVIOUS
<1>2. u \in Seq(PathChars) /\ Len(u) = 2 /\ \A i \in 1..2 : u[i] = p[i]
  BY <1>1, PrefixIs
<1>3. v \in Seq(PathChars) /\ Len(v) = 2 /\ v[1] = "/" /\ v[2] = "/"
  BY DEF PathChars
<1> HIDE DEF u, v
<1>4. \A i \in 1..2 : i = 1 \/ i = 2
  OBVIOUS
<1>5. Len(u) = Len(v) /\ \A i \in 1..Len(u) : u[i] = v[i]
  BY <1>2, <1>3, <1>4
<1>6. u = v
  BY <1>2, <1>3, <1>5, SeqEqual
<1> QED
  BY <1>6 DEF u, v

(* A relative path is not taken for a URL with a scheme or a host. *)
LEMMA LocalParsed ==
    ASSUME UrlAssumption, rel \in Rels, Plain, ~rel.host
    PROVE  LET s == rel.path \o rel.query
               u == parse_uri(s)
           IN  /\ s \in Seq(AllChars) /\ u.type = "RELATIVE" /\ u.text = s /\ u.hostport = <<>>
               /\ u.path_type = "ABS_PATH" <=> s # <<>> /\ Head(s) = "/"
<1> DEFINE p == rel.path
           q == rel.query
           s == p \o q
<1>1. p \in Seq(PathChars) /\ q \in {<<>>, Query} /\ q \in Seq(AllChars)
  BY RelIs
<1>2. Len(p) > 1 => SubSeq(p, 1, 2) # <<"/", "/">>
  BY DEF Plain
<1>3. Len(Query) = 5 /\ Query[1] = "?" /\ \A i \in 1..5 : Query[i] # ":"
  BY DEF Query
<1>4. Len(q) \in Nat /\ (\A i \in 1..Len(q) : q[i] # ":") /\ (Len(q) > 0 => q[1] = "?")
  <2>1. CASE q = <<>>
    BY <2>1
  <2>2. CASE q = Query
    <3>1. Len(Query) \in Nat /\ (\A i \in 1..Len(Query) : Query[i] # ":") /\ Query[1] = "?"
      BY <1>3
    <3> HIDE DEF q
    <3> QED
      BY <2>2, <3>1
  <2> QED
    BY <1>1, <2>1, <2>2
<1>5. \A c \in PathChars : c \in AllChars /\ c # ":"
  BY DEF PathChars, AllChars, Chars, NameChars
<1>6. p \in Seq(AllChars) /\ Len(p) \in Nat /\ \A i \in 1..Len(p) : p[i] # ":"
  BY <1>1, <1>5
<1> HIDE DEF p, q
<1>7. /\ s \in Seq(AllChars) /\ Len(s) = Len(p) + Len(q)
      /\ \A i \in 1..(Len(p) + Len(q)) : s[i] = IF i <= Len(p) THEN p[i] ELSE q[i - Len(p)]
  BY <1>1, <1>6, JoinIs
<1> HIDE DEF s
<1>8. \A i \in 1..Len(s) : s[i] # ":"
  <2> TAKE i \in 1..Len(s)
  <2>1. i \in 1..(Len(p) + Len(q))
    BY <1>7
  <2>2. CASE i <= Len(p)
    <3>1. i \in 1..Len(p)
      BY <1>6, <2>1, <2>2
    <3> QED
      BY <1>6, <1>7, <2>1, <2>2, <3>1
  <2>3. CASE ~(i <= Len(p))
    <3>1. i - Len(p) \in 1..Len(q)
      BY <1>4, <1>6, <2>1, <2>3
    <3> QED
      BY <1>4, <1>7, <2>1, <2>3, <3>1
  <2> QED
    BY <2>2, <2>3
<1>9. ~(1 < Len(s) /\ s[1] = "/" /\ s[2] = "/")
  <2> SUFFICES ASSUME 1 < Len(s), s[1] = "/", s[2] = "/" PROVE FALSE
    OBVIOUS
  <2>1. 1 \in 1..(Len(p) + Len(q)) /\ 2 \in 1..(Len(p) + Len(q))
    BY <1>4, <1>6, <1>7
  <2>2. CASE Len(p) > 1
    <3>1. 1 <= Len(p) /\ 2 <= Len(p)
      BY <1>6, <2>2
    <3>2. p[1] = "/" /\ p[2] = "/"
      BY <1>7, <2>1, <3>1
    <3> QED
      BY <1>1, <1>2, <2>2, <3>2, TwoSlashes
  <2>3. CASE Len(p) = 1
    <3>1. ~(2 <= Len(p)) /\ 2 - Len(p) = 1 /\ Len(q) > 0
      BY <1>4, <1>7, <2>3
    <3>2. s[2] = q[1]
      BY <1>7, <2>1, <3>1
    <3> QED
      BY <1>4, <3>1, <3>2
  <2>4. CASE Len(p) = 0
    <3>1. ~(1 <= Len(p)) /\ 1 - Len(p) = 1 /\ Len(q) > 0
      BY <1>4, <1>7, <2>4
    <3>2. s[1] = q[1]
      BY <1>7, <2>1, <3>1
    <3> QED
      BY <1>4, <3>1, <3>2
  <2>5. Len(p) > 1 \/ Len(p) = 1 \/ Len(p) = 0
    <3>1. \A n \in Nat : n > 1 \/ n = 1 \/ n = 0
      OBVIOUS
    <3> QED
      BY <1>6, <3>1, Zenon
  <2> QED
    BY <2>2, <2>3, <2>4, <2>5
<1> DEFINE u == parse_uri(s)
<1> HIDE DEF u
<1>10. /\ u.type = "RELATIVE" /\ u.text = s /\ u.hostport = <<>>
       /\ u.path_type = "ABS_PATH" <=> s # <<>> /\ Head(s) = "/"
  BY <1>7, <1>8, <1>9, PathParsed DEF u
<1> QED
  BY <1>7, <1>10 DEF u, s, p, q

(* What resolve_rel_url makes of them. *)
LEMMA ResolveIs ==
    ASSUME UrlAssumption, base \in Bases, rel \in Rels, Plain
    PROVE  LET b == parse_uri(Spelled(base))
               r == parse_uri(Spelled(rel))
               u == resolve_rel_url(b, r)
               s == Spelled(rel)
           IN  /\ rel.host /\ rel.scheme => u = Resolved(<<>>, s, FALSE)
               /\ rel.host /\ ~rel.scheme => u = Resolved(<<Letter, ":">>, s, FALSE)
               /\ ~rel.host /\ s = <<>> => u = Resolved(<<>>, Spelled(base), FALSE)
               /\ ~rel.host /\ s # <<>> /\ Head(s) = "/" => u = Resolved(Hosted, s, FALSE)
               /\ ~rel.host /\ s # <<>> /\ Head(s) # "/" =>
                     u = Resolved(Hosted, Directory(base.path) \o s, TRUE)
<1> DEFINE b == parse_uri(Spelled(base))
           r == parse_uri(Spelled(rel))
           u == resolve_rel_url(b, r)
           s == Spelled(rel)
<1>1. /\ b.text = Spelled(base) /\ b.scheme = <<Letter>> /\ b.hostport = <<Letter>>
      /\ b.pathquery = base.path \o base.query
  BY BaseIs, AbsoluteParsed
<1>2. <<Letter>> # <<>>
  OBVIOUS
<1>3. SchemeAndHost(b) = Hosted
  BY <1>1, <1>2, HostedJoined DEF SchemeAndHost
<1>4. b.scheme \o <<":">> = <<Letter, ":">>
  BY <1>1, HostedJoined
<1>5. Directory(b.pathquery) = Directory(base.path)
  BY <1>1, BaseDirectory
<1> HIDE DEF b
<1>6. "RELATIVE" # "ABSOLUTE"
  OBVIOUS
<1>7. CASE rel.host /\ rel.scheme
  <2>1. s = Hosted \o rel.path /\ rel.path \in {<<>>, <<"/", "a">>}
    BY <1>7, RelIs
  <2>2. rel.path \in Seq(AllChars) /\ (rel.path # <<>> => rel.path[1] \in {"/", "?"})
    <3>1. CASE rel.path = <<>>
      BY <3>1
    <3>2. CASE rel.path = <<"/", "a">>
      BY <3>2 DEF AllChars, Chars, NameChars
    <3> QED
      BY <2>1, <3>1, <3>2
  <2>3. r.type = "ABSOLUTE" /\ r.text = s
    BY <2>1, <2>2, AbsoluteParsed
  <2> HIDE DEF r, s
  <2>4. u = Resolved(<<>>, s, FALSE)
    BY <2>3 DEF resolve_rel_url
  <2> QED
    BY <1>7, <2>4 DEF s, r, b
<1>8. CASE rel.host /\ ~rel.scheme
  <2>1. s = <<"/", "/", Letter>> \o rel.path /\ rel.path \in {<<>>, <<"/", "a">>}
    BY <1>8, RelIs
  <2>2. r.type = "RELATIVE" /\ r.text = s /\ r.hostport # <<>>
    BY <2>1, HostParsed
  <2>3. s # <<>>
    <3> DEFINE h == <<"/", "/", Letter>>
    <3>1. h \in Seq(AllChars) /\ Len(h) = 3
      BY DEF AllChars, Chars, NameChars, Letter
    <3>2. rel.path \in Seq(AllChars) /\ Len(rel.path) \in Nat
      <4>1. rel.path \in Seq(PathChars) /\ \A c \in PathChars : c \in AllChars
        BY RelIs DEF PathChars, AllChars, Chars, NameChars
      <4> QED
        BY <4>1
    <3> DEFINE p == rel.path
    <3> HIDE DEF h, p, s, r, u
    <3>3. p \in Seq(AllChars) /\ h \in Seq(AllChars)
      BY <3>1, <3>2 DEF p
    <3>4. Len(h \o p) = Len(h) + Len(p)
      BY <3>3, JoinIs
    <3>5. Len(h \o p) # 0
      BY <3>1, <3>2, <3>4 DEF p
    <3>6. h \o p # <<>>
      BY <3>5
    <3> QED
      BY <2>1, <3>6 DEF h, p
  <2> HIDE DEF r, s
  <2>4. u = Resolved(<<Letter, ":">>, s, FALSE)
    BY <1>4, <1>6, <2>2, <2>3 DEF resolve_rel_url
  <2> QED
    BY <1>8, <2>4 DEF s, r, b
<1>9. CASE ~rel.host
  <2>1. s = rel.path \o rel.query
    BY <1>9, RelIs
  <2>2. /\ r.type = "RELATIVE" /\ r.text = s /\ r.hostport = <<>>
        /\ r.path_type = "ABS_PATH" <=> s # <<>> /\ Head(s) = "/"
    BY <1>9, <2>1, LocalParsed
  <2> HIDE DEF r, s
  <2>3. /\ s = <<>> => u = Resolved(<<>>, b.text, FALSE)
        /\ s # <<>> /\ Head(s) = "/" => u = Resolved(SchemeAndHost(b), s, FALSE)
        /\ s # <<>> /\ Head(s) # "/" => u = Resolved(SchemeAndHost(b), Directory(b.pathquery) \o s, TRUE)
    BY <1>6, <2>2 DEF resolve_rel_url
  <2> HIDE DEF u
  <2>4. /\ s = <<>> => u = Resolved(<<>>, Spelled(base), FALSE)
        /\ s # <<>> /\ Head(s) = "/" => u = Resolved(Hosted, s, FALSE)
        /\ s # <<>> /\ Head(s) # "/" => u = Resolved(Hosted, Directory(base.path) \o s, TRUE)
    BY <1>1, <1>3, <1>5, <2>3
  <2> QED
    BY <1>9, <2>4 DEF s, r, u, b
<1> QED
  BY <1>7, <1>8, <1>9

-----------------------------------------------------------------------------
(* The calls of remove_dots begin with the invariant. *)
SpelledTyped ==
    /\ Spelled(base) \in Seq(AllChars) /\ Spelled(rel) \in Seq(AllChars)

LEMMA SpelledAre ==
    ASSUME UrlAssumption, base \in Bases, rel \in Rels
    PROVE  SpelledTyped
<1>1. Spelled(base) \in Seq(AllChars)
  <2> DEFINE t == base.path \o base.query
  <2>1. t \in Seq(AllChars) /\ Spelled(base) = Hosted \o t /\ Hosted \in Seq(AllChars)
    BY BaseIs, HostedIs
  <2> HIDE DEF t
  <2>2. Hosted \o t \in Seq(AllChars)
    BY <2>1, JoinIs
  <2> QED
    BY <2>1, <2>2
<1>2. Spelled(rel) \in Seq(AllChars)
  <2> DEFINE p == rel.path
             q == rel.query
             h == <<"/", "/", Letter>>
  <2>1. \A c \in PathChars : c \in AllChars
    BY DEF PathChars, AllChars, Chars, NameChars
  <2>2. p \in Seq(AllChars) /\ q \in Seq(AllChars)
    BY <2>1, RelIs
  <2>3. h \in Seq(AllChars) /\ Hosted \in Seq(AllChars)
    BY HostedIs DEF AllChars, Chars, NameChars, Letter
  <2>4. Spelled(rel) = p \o q \/ Spelled(rel) = Hosted \o p \/ Spelled(rel) = h \o p
    BY RelIs
  <2> HIDE DEF p, q, h
  <2>5. p \o q \in Seq(AllChars) /\ Hosted \o p \in Seq(AllChars) /\ h \o p \in Seq(AllChars)
    BY <2>2, <2>3, JoinIs
  <2> QED
    BY <2>4, <2>5
<1> QED
  BY <1>1, <1>2 DEF SpelledTyped

(* A URL that needs no dots removed. *)
LEMMA AsItIsResolved ==
    ASSUME NEW h \in Seq(AllChars), NEW s \in Seq(AllChars), h # <<"alias">>,
           head' = h, in' = s, copyTo' = Len(s) + 1, result' = "success", UNCHANGED <<base, rel>>,
           ~RelativePath(rel), rel.scheme \/ (~rel.scheme /\ rel.host) \/ (~rel.scheme /\ ~rel.host),
           /\ rel.scheme => h = <<>> /\ s = Spelled(rel)
           /\ ~rel.scheme /\ rel.host => h = <<Letter, ":">> /\ s = Spelled(rel)
           /\ ~rel.scheme /\ ~rel.host /\ Spelled(rel) = <<>> => h = <<>> /\ s = Spelled(base)
           /\ ~rel.scheme /\ ~rel.host /\ Spelled(rel) # <<>> => h = Hosted /\ s = Spelled(rel)
    PROVE  UrlResolved'
<1> DEFINE e == IF rel.scheme THEN AsItIs(Spelled(rel))
                ELSE IF rel.host THEN AsItIs(<<Letter, ":">> \o Spelled(rel))
                ELSE AsItIs(IF Spelled(rel) = <<>> THEN Spelled(base) ELSE Hosted \o Spelled(rel))
<1>1. ~RelativePath(rel)' /\ rel' = rel /\ base' = base
  BY DEF RelativePath
<1>2. Spelled(rel)' = Spelled(rel) /\ Spelled(base)' = Spelled(base)
  BY DEF Spelled
<1>3. Expected' = e
  BY <1>1, <1>2 DEF Expected
<1>4. <<>> \o s = s
  BY JoinEmpty
<1>5. e = AsItIs(h \o s)
  BY <1>4
<1>6. e.ok /\ e.url = h \o s
  BY <1>5 DEF AsItIs
<1> HIDE DEF e
<1>7. SubSeq(in', 1, copyTo' - 1) = s
  <2>1. copyTo' - 1 = Len(s)
    OBVIOUS
  <2>2. SubSeq(s, 1, Len(s)) = s
    OBVIOUS
  <2> QED
    BY <2>1, <2>2
<1> QED
  BY <1>3, <1>6, <1>7 DEF UrlResolved

(* What remove_dots starts with. *)
LEMMA LoopBegins ==
    ASSUME head' \in {<<"alias">>, Hosted}, UNCHANGED rel, ~rel.scheme, ~rel.host,
           head' = <<"alias">> \/ RelativePath(rel),
           Fits', in' \in Seq(AllChars), in' = Original', copyFrom' = 1, copyTo' = 1, Segments' = <<>>
    PROVE  LoopInv'
<1>1. rel' = rel /\ (RelativePath(rel) => RelativePath(rel)')
  BY DEF RelativePath
<1>2. Placed'
  <2>1. Len(in') \in Nat /\ 1 \in 1..1 /\ 1 <= Len(in') + 1 /\ 1 \in Nat \ {0}
    OBVIOUS
  <2> QED
    BY <2>1 DEF Placed
<1> QED
  BY <1>1, <1>2 DEF LoopInv

(* A relative path behind the directory of the base. *)
LEMMA MergedBegins ==
    ASSUME UrlAssumption, base \in Bases, rel \in Rels, Plain, ~rel.host, RelativePath(rel),
           head' = Hosted, UNCHANGED <<base, rel>>, in' = Directory(base.path) \o Spelled(rel)
    PROVE  Fits' /\ in' \in Seq(AllChars) /\ in' = Original'
<1> DEFINE d == Directory(base.path)
           p == rel.path
           q == rel.query
<1>1. d \in Paths /\ Last(d) = "/"
  BY BaseDirectory
<1>2. p \in Seq(PathChars) /\ q \in {<<>>, Query} /\ q \in Seq(AllChars) /\ Spelled(rel) = p \o q
  BY RelIs
<1>3. rel' = rel /\ base' = base /\ Hosted # <<"alias">>
  <2>1. Len(Hosted) = 5 /\ Len(<<"alias">>) = 1
    BY HostedIs
  <2> QED
    BY <2>1
<1>4. Merged' = d \o p /\ Original' = (d \o p) \o q
  BY <1>3 DEF Merged, Original
<1>5. \A c \in PathChars : c \in AllChars
  BY DEF PathChars, AllChars, Chars, NameChars
<1>6. d \in Seq(AllChars) /\ p \in Seq(AllChars)
  BY <1>1, <1>2, <1>5 DEF Paths
<1>7. q # <<>> => p = <<>> \/ Last(p) # "."
  BY DEF Plain
<1>8. in' = d \o (p \o q)
  BY <1>2
<1> HIDE DEF d, p, q
<1>9. d \o p \in Paths /\ (p = <<>> => Last(d \o p) = Last(d)) /\ (p # <<>> => Last(d \o p) = Last(p))
  BY <1>1, <1>2, PathsJoined
<1>10. (d \o p) \o q = d \o (p \o q) /\ d \o (p \o q) \in Seq(AllChars)
  <2>1. \A a, b, c \in Seq(AllChars) : (a \o b) \o c = a \o (b \o c)
    BY ConcatAssociative
  <2>2. p \o q \in Seq(AllChars)
    BY <1>2, <1>6, JoinIs
  <2> DEFINE r == p \o q
  <2> HIDE DEF r
  <2>3. d \o r \in Seq(AllChars)
    BY <1>6, <2>2, JoinIs DEF r
  <2> QED
    BY <1>2, <1>6, <2>1, <2>3 DEF r
<1>11. q # <<>> => Last(d \o p) # "."
  BY <1>1, <1>7, <1>9
<1>12. Fits'
  BY <1>2, <1>3, <1>4, <1>9, <1>11 DEF Fits, q
<1> QED
  BY <1>4, <1>8, <1>10, <1>12

(* resolve_rel_url. *)
LEMMA ResolveBegins ==
    ASSUME UrlAssumption, base \in Bases, rel \in Rels, Plain, Resolve, copyFrom = 1, Segments = <<>>
    PROVE  UrlResolved' /\ (result' = "running" => LoopInv')
<1> DEFINE s == Spelled(rel)
           b == parse_uri(Spelled(base))
           r == parse_uri(Spelled(rel))
           u == resolve_rel_url(b, r)
<1>1. Start(u)
  BY DEF Resolve
<1>2. /\ rel.host /\ rel.scheme => u = Resolved(<<>>, s, FALSE)
      /\ rel.host /\ ~rel.scheme => u = Resolved(<<Letter, ":">>, s, FALSE)
      /\ ~rel.host /\ s = <<>> => u = Resolved(<<>>, Spelled(base), FALSE)
      /\ ~rel.host /\ s # <<>> /\ Head(s) = "/" => u = Resolved(Hosted, s, FALSE)
      /\ ~rel.host /\ s # <<>> /\ Head(s) # "/" => u = Resolved(Hosted, Directory(base.path) \o s, TRUE)
  BY ResolveIs
<1> HIDE DEF u
<1>3. Spelled(base) \in Seq(AllChars) /\ s \in Seq(AllChars)
  BY SpelledAre DEF SpelledTyped
<1>4. ~rel.host => ~rel.scheme /\ s = rel.path \o rel.query
  BY RelIs
<1>5. /\ head' = u.head /\ in' = u.path /\ UNCHANGED <<base, rel, copyFrom, Segments>>
      /\ u.dots = FALSE => copyTo' = Len(u.path) + 1 /\ result' = "success"
      /\ u.dots = TRUE => copyTo' = 1 /\ result' = "running"
  BY <1>1 DEF Start
<1>6. /\ <<Letter, ":">> \in Seq(AllChars) /\ <<Letter, ":">> # <<"alias">> /\ <<>> # <<"alias">>
      /\ Hosted \in Seq(AllChars) /\ Hosted # <<"alias">> /\ <<>> \in Seq(AllChars)
  <2>1. Len(Hosted) = 5 /\ Len(<<"alias">>) = 1 /\ Hosted \in Seq(AllChars)
    BY HostedIs
  <2>2. Len(<<Letter, ":">>) = 2 /\ <<Letter, ":">> \in Seq(AllChars)
    BY DEF AllChars, Chars, NameChars, Letter
  <2>3. <<>> \in Seq(AllChars) /\ <<>> # <<"alias">>
    OBVIOUS
  <2>4. Hosted # <<"alias">>
    BY <2>1
  <2>5. <<Letter, ":">> # <<"alias">>
    BY <2>1, <2>2
  <2> QED
    BY <2>1, <2>2, <2>3, <2>4, <2>5
<1>7. RelativePath(rel) <=> ~rel.host /\ s # <<>> /\ Head(s) # "/"
  <2>1. CASE rel.host
    BY <2>1 DEF RelativePath
  <2>2. CASE ~rel.host
    BY <1>4, <2>2 DEF RelativePath
  <2> QED
    BY <2>1, <2>2
<1>8. "success" # "running"
  OBVIOUS
<1> HIDE DEF s
<1>9. CASE rel.host /\ rel.scheme
  <2>1. /\ head' = <<>> /\ in' = s /\ copyTo' = Len(s) + 1 /\ result' = "success" /\ UNCHANGED <<base, rel>>
    BY <1>2, <1>5, <1>9 DEF Resolved
  <2>2. UrlResolved'
    BY <1>3, <1>6, <1>7, <1>9, <2>1, AsItIsResolved DEF s
  <2> QED
    BY <1>8, <2>1, <2>2
<1>10. CASE rel.host /\ ~rel.scheme
  <2>1. /\ head' = <<Letter, ":">> /\ in' = s /\ copyTo' = Len(s) + 1 /\ result' = "success"
        /\ UNCHANGED <<base, rel>>
    BY <1>2, <1>5, <1>10 DEF Resolved
  <2>2. UrlResolved'
    BY <1>3, <1>6, <1>7, <1>10, <2>1, AsItIsResolved DEF s
  <2> QED
    BY <1>8, <2>1, <2>2
<1>11. CASE ~rel.host /\ s = <<>>
  <2>1. /\ head' = <<>> /\ in' = Spelled(base) /\ copyTo' = Len(Spelled(base)) + 1 /\ result' = "success"
        /\ UNCHANGED <<base, rel>>
    BY <1>2, <1>5, <1>11 DEF Resolved
  <2>2. UrlResolved'
    BY <1>3, <1>4, <1>6, <1>7, <1>11, <2>1, AsItIsResolved DEF s
  <2> QED
    BY <1>8, <2>1, <2>2
<1>12. CASE ~rel.host /\ s # <<>> /\ Head(s) = "/"
  <2>1. /\ head' = Hosted /\ in' = s /\ copyTo' = Len(s) + 1 /\ result' = "success" /\ UNCHANGED <<base, rel>>
    BY <1>2, <1>5, <1>12 DEF Resolved
  <2>2. UrlResolved'
    BY <1>3, <1>4, <1>6, <1>7, <1>12, <2>1, AsItIsResolved DEF s
  <2> QED
    BY <1>8, <2>1, <2>2
<1>13. CASE ~rel.host /\ s # <<>> /\ Head(s) # "/"
  <2>1. /\ head' = Hosted /\ in' = Directory(base.path) \o s /\ copyTo' = 1 /\ result' = "running"
        /\ UNCHANGED <<base, rel, copyFrom, Segments>>
    BY <1>2, <1>5, <1>13 DEF Resolved
  <2>2. RelativePath(rel) /\ ~rel.scheme
    BY <1>4, <1>7, <1>13
  <2>3. Fits' /\ in' \in Seq(AllChars) /\ in' = Original'
    BY <1>13, <2>1, <2>2, MergedBegins DEF s
  <2>4. LoopInv'
    BY <1>13, <2>1, <2>2, <2>3, LoopBegins
  <2>5. UrlResolved'
    BY <2>1 DEF UrlResolved
  <2> QED
    BY <2>4, <2>5
<1> QED
  BY <1>9, <1>10, <1>11, <1>12, <1>13

LEMMA AliasIs ==
    ASSUME NEW p \in Paths, NEW a \in Seq(PathChars), a # <<>>
    PROVE  calc_alias(p, a) \in Paths
<1> DEFINE d == IF Last(p) = "/" THEN p ELSE Append(p, "/")
           r == IF Head(a) = "/" THEN Tail(a) ELSE a
<1>1. p \in Seq(PathChars) /\ p # <<>> /\ p[1] = "/" /\ "/" \in PathChars
  BY DEF Paths, PathChars
<1>2. Append(p, "/") \in Paths
  <2>1. /\ Append(p, "/") \in Seq(PathChars) /\ Len(Append(p, "/")) = Len(p) + 1
        /\ \A i \in 1..Len(p) : Append(p, "/")[i] = p[i]
    BY <1>1, AppendProperties
  <2>2. Len(p) \in Nat /\ 1 \in 1..Len(p)
    BY <1>1
  <2>3. Append(p, "/")[1] = "/" /\ Append(p, "/") # <<>>
    BY <1>1, <2>1, <2>2
  <2> QED
    BY <2>1, <2>3 DEF Paths
<1>3. d \in Paths
  BY <1>2
<1>4. r \in Seq(PathChars)
  BY HeadTailProperties
<1>5. calc_alias(p, a) = d \o r
  BY DEF calc_alias
<1> HIDE DEF d, r
<1> QED
  BY <1>3, <1>4, <1>5, PathsJoined

(* calc_alias. *)
LEMMA ConfigureBegins ==
    ASSUME UrlAssumption, base \in Bases, rel \in Rels, Configure, copyFrom = 1, Segments = <<>>
    PROVE  UrlResolved' /\ LoopInv'
<1> DEFINE c == calc_alias(base.path, rel.path)
<1>1. /\ base.path # <<>> /\ rel.path # <<>> /\ ~rel.host /\ rel.query = <<>>
      /\ Start(Resolved(<<"alias">>, c, TRUE))
  BY DEF Configure
<1>2. base.path \in Paths /\ rel.path \in Seq(PathChars) /\ ~rel.scheme
  BY <1>1, BaseIs, RelIs
<1>3. c \in Paths
  BY <1>1, <1>2, AliasIs
<1>4. /\ head' = <<"alias">> /\ in' = c /\ copyTo' = 1 /\ result' = "running"
      /\ UNCHANGED <<base, rel, copyFrom, Segments>>
  <2> HIDE DEF c
  <2> QED
    BY <1>1 DEF Start, Resolved
<1>5. Merged' = c
  BY <1>4 DEF Merged
<1>6. \A x \in PathChars : x \in AllChars
  BY DEF PathChars, AllChars, Chars, NameChars
<1> HIDE DEF c
<1>7. c \in Seq(AllChars)
  BY <1>3, <1>6 DEF Paths
<1>8. Original' = c
  <2>1. Original' = c \o <<>>
    BY <1>1, <1>4, <1>5 DEF Original
  <2> QED
    BY <1>7, <2>1, JoinEmpty
<1>9. Fits'
  BY <1>1, <1>3, <1>4, <1>5 DEF Fits
<1>10. LoopInv'
  BY <1>1, <1>2, <1>4, <1>7, <1>8, <1>9, LoopBegins
<1>11. UrlResolved'
  BY <1>4 DEF UrlResolved
<1> QED
  BY <1>10, <1>11

(* UrlResolved with what is known before and in the loop. *)
UrlInv ==
    /\ base \in Bases /\ rel \in Rels
    /\ result = "called" => copyFrom = 1 /\ Segments = <<>>
    /\ result = "running" /\ Plain => LoopInv
    /\ UrlResolved

(* A relative URL is resolved, and the path of an alias put together, as RFC
   2396 says (resolve_rel_url, calc_alias and remove_dots). *)
THEOREM UrlsAreResolved ==
    ASSUME UrlAssumption
    PROVE  UrlSpec => []UrlResolved
<1>1. UrlInit => UrlInv
  BY DEF UrlInit, UrlInv, UrlResolved
<1>2. UrlInv /\ [UrlNext]_urlVars => UrlInv'
  <2> SUFFICES ASSUME UrlInv, [UrlNext]_urlVars PROVE UrlInv'
    OBVIOUS
  <2>1. base \in Bases /\ rel \in Rels /\ (result = "running" /\ Plain => LoopInv) /\ UrlResolved
    BY DEF UrlInv
  <2>2. CASE Resolve
    <3>1. result = "called" /\ UNCHANGED <<base, rel>> /\ result' \in {"success", "running"}
      BY <2>2 DEF Resolve, Start
    <3>2. copyFrom = 1 /\ Segments = <<>>
      BY <3>1 DEF UrlInv
    <3>3. Plain' <=> Plain
      BY <3>1 DEF Plain
    <3>4. Plain => UrlResolved' /\ (result' = "running" => LoopInv')
      BY <2>1, <2>2, <3>2, ResolveBegins
    <3>5. ~Plain' => UrlResolved'
      BY DEF UrlResolved
    <3> QED
      BY <2>1, <3>1, <3>3, <3>4, <3>5 DEF UrlInv
  <2>3. CASE Configure
    <3>1. result = "called" /\ UNCHANGED <<base, rel>> /\ result' \in {"success", "running"}
      BY <2>3 DEF Configure, Start
    <3>2. copyFrom = 1 /\ Segments = <<>>
      BY <3>1 DEF UrlInv
    <3>3. UrlResolved' /\ LoopInv'
      BY <2>1, <2>3, <3>2, ConfigureBegins
    <3> QED
      BY <2>1, <3>1, <3>3 DEF UrlInv
  <2>4. CASE SkipDot
    <3>1. result = "running" /\ result' = result /\ UNCHANGED <<base, rel>>
      BY <2>4 DEF SkipDot, Running
    <3>2. Plain' <=> Plain
      BY <3>1 DEF Plain
    <3>3. Plain => LoopInv'
      BY <2>1, <2>4, <3>1, SkipDotKeeps
    <3>4. UrlResolved'
      BY <3>1 DEF UrlResolved
    <3> QED
      BY <2>1, <3>1, <3>2, <3>3, <3>4 DEF UrlInv
  <2>5. CASE SkipTwoDots
    <3>1. result = "running" /\ UNCHANGED <<base, rel, head>>
      BY <2>5 DEF SkipTwoDots, Running
    <3>2. Plain' <=> Plain
      BY <3>1 DEF Plain
    <3>3. CASE Len(Segments) > 1
      <4>1. result' = result
        BY <2>5, <3>3 DEF SkipTwoDots
      <4>2. Plain => LoopInv'
        BY <2>1, <2>5, <3>1, <3>3, SkipTwoDotsKeeps
      <4>3. UrlResolved'
        BY <3>1, <4>1 DEF UrlResolved
      <4> QED
        BY <2>1, <3>1, <3>2, <4>1, <4>2, <4>3 DEF UrlInv
    <3>4. CASE ~(Len(Segments) > 1)
      <4>1. result' = "invalid"
        BY <2>5, <3>4 DEF SkipTwoDots
      <4>2. Plain => ~Expected.ok
        BY <2>1, <2>5, <3>1, <3>4, TwoDotsRefused
      <4>3. Expected' = Expected
        BY <3>1, SameInput
      <4>4. UrlResolved'
        BY <3>2, <4>1, <4>2, <4>3 DEF UrlResolved
      <4> QED
        BY <2>1, <3>1, <4>1, <4>4 DEF UrlInv
    <3> QED
      BY <3>3, <3>4
  <2>6. CASE CopyChar
    <3>1. result = "running" /\ result' = result /\ UNCHANGED <<base, rel>>
      BY <2>6 DEF CopyChar, Running
    <3>2. Plain' <=> Plain
      BY <3>1 DEF Plain
    <3>3. Plain => LoopInv'
      BY <2>1, <2>6, <3>1, CopyCharKeeps
    <3>4. UrlResolved'
      BY <3>1 DEF UrlResolved
    <3> QED
      BY <2>1, <3>1, <3>2, <3>3, <3>4 DEF UrlInv
  <2>7. CASE CopyRest
    <3>1. result = "running" /\ result' = "success" /\ UNCHANGED <<base, rel>>
      BY <2>7 DEF CopyRest
    <3>2. Plain' <=> Plain
      BY <3>1 DEF Plain
    <3>3. Plain => UrlResolved'
      BY <2>1, <2>7, <3>1, CopyRestResolves
    <3>4. ~Plain' => UrlResolved'
      BY DEF UrlResolved
    <3> QED
      BY <2>1, <3>1, <3>2, <3>3, <3>4 DEF UrlInv
  <2>8. CASE UNCHANGED urlVars
    <3>1. /\ base' = base /\ rel' = rel /\ head' = head /\ in' = in /\ copyFrom' = copyFrom
          /\ copyTo' = copyTo /\ Segments' = Segments /\ result' = result
      BY <2>8 DEF urlVars
    <3>2. Plain' <=> Plain
      BY <3>1 DEF Plain
    <3>3. Expected' = Expected
      BY <3>1, SameInput
    <3>4. UrlResolved'
      BY <2>1, <3>1, <3>2, <3>3 DEF UrlResolved
    <3>5. LoopInv => LoopInv'
      <4> SUFFICES ASSUME LoopInv PROVE LoopInv'
        OBVIOUS
      <4>1. /\ Merged' = Merged /\ Original' = Original /\ (Fits' <=> Fits)
            /\ (RelativePath(rel)' <=> RelativePath(rel))
        BY <3>1, SameInput
      <4>2. Placed' <=> Placed
        BY <3>1, <4>1 DEF Placed
      <4>3. Done' = Done
        BY <3>1 DEF Done
      <4>4. LastOutcome' = LastOutcome
        BY <4>1 DEF LastOutcome
      <4>5. PastEnd => PastEnd'
        BY <3>1, <4>1, <4>3, <4>4 DEF PastEnd
      <4>6. CopiedTo(copyFrom - 1) => CopiedTo(copyFrom - 1)'
        BY <3>1, <4>1, <4>3 DEF CopiedTo
      <4> QED
        BY <3>1, <4>1, <4>2, <4>5, <4>6 DEF LoopInv
    <3> QED
      BY <2>1, <3>1, <3>2, <3>4, <3>5 DEF UrlInv
  <2> QED
    BY <2>2, <2>3, <2>4, <2>5, <2>6, <2>7, <2>8 DEF UrlNext
<1>3. UrlInv => UrlResolved
  BY DEF UrlInv
<1> QED
  BY <1>1, <1>2, <1>3, PTL DEF UrlSpec
=============================================================================

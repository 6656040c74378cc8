---------------------------- MODULE TvCtrlPoint ----------------------------
(***************************************************************************)
(* The sample control point of src/sample/tvdevice/upnp_tv_ctrlpt.c with   *)
(* the televisions it controls.  Its threads - command loop, timer loop and *)
(* the callbacks of the library - meet in GlobalDeviceList, under          *)
(* DeviceListMutex; every step that holds it is one action here, the       *)
(* requests it waits for included.                                         *)
(*                                                                         *)
(* Of the library the model keeps what the callbacks depend on: events of  *)
(* a subscription are announced in order, but the callback of one may      *)
(* still run when the next begins; datagrams may get lost.                 *)
(***************************************************************************)
EXTENDS TvDevice, SequencesExt

CONSTANT MaxAge   \* expiration time of an advertisement, in rounds of the timer loop

CtrlAssumption == MaxAge \in Nat \ {0}

VARIABLES GlobalDeviceList,  \* the nodes, first to last
          news,      \* discovery events whose callbacks have not finished
          failed,    \* subscriptions reported as expired or not renewed
          renewed,   \* new subscriptions of these, not yet in the list
          missed,    \* subscriptions with an event that was overtaken or not applied
          stray,     \* subscriptions that got no place in the list, or lost it
          crashed    \* freed memory was used

ctrlVars == <<GlobalDeviceList, news, failed, renewed, missed, stray, crashed>>
vars == <<tvVars, ctrlVars>>

Empty == "empty"
Node(tv, sids) == [UDN |-> tv, AdvrTimeOut |-> MaxAge, SID |-> sids,
                   VariableStrVal |-> [v \in Vars |-> Empty]]
Known(tv) == \E i \in DOMAIN GlobalDeviceList : GlobalDeviceList[i].UDN = tv

(* TvCtrlPointGetDevice: the numbers of devices; others find nothing. *)
TvCtrlPointGetDevice(devnum) == devnum \in DOMAIN GlobalDeviceList

CtrlInit ==
    /\ TvInit
    /\ GlobalDeviceList = <<>>
    /\ news \in {{[type |-> "alive", tv |-> tv] : tv \in S} : S \in SUBSET Tvs}
    /\ failed = {} /\ renewed = {} /\ missed = {} /\ stray = {}
    /\ crashed = FALSE
-----------------------------------------------------------------------------
(* The list without the nodes at some places. *)
Without(list, gone) ==
    LET left == DOMAIN list \ gone
        Place(i) == Cardinality({j \in left : j <= i})
    IN  [k \in 1..Cardinality(left) |-> list[CHOOSE i \in left : Place(i) = k]]

(* TvCtrlPointDeleteNode: its subscriptions are given back.  The television
   learns of it if it still runs. *)
GivenBack(gone) ==
    [sid \in Sids |->
       IF \E i \in gone, s \in Services : GlobalDeviceList[i].SID[s] = sid
       THEN [subs[sid] EXCEPT !.client = FALSE, !.device = FALSE, !.queue = <<>>]
       ELSE subs[sid]]
TvCtrlPointDeleteNode(gone) == subs' = GivenBack(gone)

(* TvCtrlPointAddDevice, of a television not yet in the list: a node at its
   end, with those subscriptions that succeed. *)
Added(tv, ok) ==
    LET new == SetToSeq(ok)
        sid == [s \in Services |-> IF s \in ok THEN Len(subs) + CHOOSE i \in DOMAIN new : new[i] = s
                                   ELSE NoSid]
    IN  /\ Len(subs) + Len(new) <= MaxSids
        /\ subs' = subs \o [i \in DOMAIN new |-> TvDeviceHandleSubscriptionRequest(tv, new[i])]
        /\ GlobalDeviceList' = Append(GlobalDeviceList, Node(tv, sid))
(* Mutant: it does not look whether the device is already in the list. *)
TvCtrlPointAddDeviceAgain(tv) == \E ok \in SUBSET Services : Added(tv, ok)
TvCtrlPointAddDevice(tv) ==
    \/ /\ Known(tv)
       /\ GlobalDeviceList' = [i \in DOMAIN GlobalDeviceList |->
             IF GlobalDeviceList[i].UDN = tv THEN [GlobalDeviceList[i] EXCEPT !.AdvrTimeOut = MaxAge]
             ELSE GlobalDeviceList[i]]
       /\ UNCHANGED subs
    \/ ~Known(tv) /\ \E ok \in SUBSET Services : Added(tv, ok)

(* TvCtrlPointRemoveDevice: the first node of the device goes. *)
TvCtrlPointRemoveDevice(tv) ==
    IF Known(tv)
    THEN LET first == {Min({i \in DOMAIN GlobalDeviceList : GlobalDeviceList[i].UDN = tv})}
         IN  /\ GlobalDeviceList' = Without(GlobalDeviceList, first)
             /\ TvCtrlPointDeleteNode(first)
    ELSE UNCHANGED <<GlobalDeviceList, subs>>

(* The callback for a discovery event.  The description is downloaded before
   the list is locked, which fails if the television does not run. *)
HandleDiscovery(e) ==
    /\ e \in news
    /\ news' = news \ {e}
    /\ \/ e.type = "alive" /\ e.tv \in up /\ TvCtrlPointAddDevice(e.tv)
       \/ e.type = "alive" /\ UNCHANGED <<GlobalDeviceList, subs>>
       \/ e.type = "byebye" /\ TvCtrlPointRemoveDevice(e.tv)
    /\ UNCHANGED <<up, table, requests, incrs, moves, failed, renewed, missed, stray, crashed>>
-----------------------------------------------------------------------------
(* The library hands out the next event of a subscription: it has answered
   the NOTIFY, so that the television may send another. *)
Announced(sid) ==
    /\ subs[sid].queue # <<>>
    /\ subs' = [subs EXCEPT ![sid].queue = Tail(@),
                            ![sid].called = IF subs[sid].client THEN Append(@, Head(subs[sid].queue))
                                            ELSE @]
    /\ UNCHANGED <<up, table, requests, incrs, moves, ctrlVars>>

(* TvStateUpdate: the variables in the event get its values. *)
TvStateUpdate(event, old) == [v \in Vars |-> IF v \in DOMAIN event THEN event[v] ELSE old[v]]

(* TvCtrlPointHandleEvent, for the k-th of the events whose callbacks run. *)
TvCtrlPointHandleEvent(sid, k) ==
    LET event == subs[sid].called[k]
        mine == {i \in DOMAIN GlobalDeviceList :
                    \E s \in Services : GlobalDeviceList[i].SID[s] = sid}
    IN  /\ GlobalDeviceList' = [i \in DOMAIN GlobalDeviceList |->
              IF i \in mine THEN [GlobalDeviceList[i] EXCEPT !.VariableStrVal =
                                     TvStateUpdate(event, @)]
              ELSE GlobalDeviceList[i]]
        /\ subs' = [subs EXCEPT ![sid].called = RemoveAt(@, k)]
        /\ missed' = IF mine = {} \/ k # 1 THEN missed \cup {sid} ELSE missed
        /\ UNCHANGED <<up, table, requests, incrs, moves, news, failed, renewed, stray,
                       crashed>>

(* The library has lost a subscription, which ends in an event for the control
   point: the television does not know it any more, or does not answer. *)
SubscriptionLost(sid) ==
    /\ subs[sid].client
    /\ ~subs[sid].device
    /\ subs' = [subs EXCEPT ![sid].client = FALSE]
    /\ failed' = failed \cup {[tv |-> subs[sid].tv, service |-> subs[sid].service]}
    /\ UNCHANGED <<up, table, requests, incrs, moves, GlobalDeviceList, news, renewed, missed,
                   stray, crashed>>

(* The callback subscribes again, without the lock, *)
Resubscribe(f) ==
    /\ f \in failed
    /\ failed' = failed \ {f}
    /\ \/ /\ f.tv \in up /\ Len(subs) < MaxSids
          /\ subs' = Append(subs, TvDeviceHandleSubscriptionRequest(f.tv, f.service))
          /\ renewed' = renewed \cup {Len(subs) + 1}
       \/ UNCHANGED <<subs, renewed>>
    /\ UNCHANGED <<up, table, requests, incrs, moves, GlobalDeviceList, news, missed, stray,
                   crashed>>
(* and notes the new SID in whatever node has the event URL then. *)
TvCtrlPointHandleSubscribeUpdate(sid) ==
    LET s == subs[sid].service
        mine == {i \in DOMAIN GlobalDeviceList : GlobalDeviceList[i].UDN = subs[sid].tv}
    IN  /\ sid \in renewed
        /\ renewed' = renewed \ {sid}
        /\ GlobalDeviceList' = [i \in DOMAIN GlobalDeviceList |->
              IF i \in mine THEN [GlobalDeviceList[i] EXCEPT !.SID[s] = sid]
              ELSE GlobalDeviceList[i]]
        /\ stray' = stray \cup (IF mine = {} THEN {sid} ELSE {GlobalDeviceList[i].SID[s] : i \in mine})
        /\ UNCHANGED <<tvVars, news, failed, missed, crashed>>
-----------------------------------------------------------------------------
(* TvCtrlPointRefresh: the list is emptied (TvCtrlPointRemoveAll), and all
   televisions are searched for; some of the answers arrive. *)
TvCtrlPointRemoveAll ==
    /\ GlobalDeviceList' = <<>>
    /\ TvCtrlPointDeleteNode(DOMAIN GlobalDeviceList)
Receive(S, type) == news' = news \cup {[type |-> type, tv |-> tv] : tv \in S}
TvCtrlPointRefresh ==
    /\ TvCtrlPointRemoveAll
    /\ \E S \in SUBSET up : Receive(S, "alive")
    /\ UNCHANGED <<up, table, requests, incrs, failed, renewed, missed, stray, crashed>>

(* TvCtrlPointSendAction, for a command; Incr stands for CtrlAction or
   PictAction with IncreaseVolume and the like. *)
TvCtrlPointSendAction(devnum, op, v, arg) ==
    /\ TvCtrlPointGetDevice(devnum)
    /\ requests' = requests \cup
          {[tv |-> GlobalDeviceList[devnum].UDN, op |-> op, var |-> v, arg |-> arg]}
    /\ UNCHANGED <<up, table, incrs, subs, ctrlVars>>
TvCtrlPointSendSet(devnum, v) ==
    \E arg \in {TvVar[v].lo - 1, TvVar[v].hi} : TvCtrlPointSendAction(devnum, "Set", v, arg)

TvCtrlPointCommandLoop ==
    /\ Move
    /\ \/ \E devnum \in 1..Cardinality(Tvs), v \in Vars :
             \/ TvCtrlPointSendSet(devnum, v)
             \/ \E d \in {-1, 1} : TvCtrlPointSendAction(devnum, "Incr", v, d)
       \/ TvCtrlPointRefresh

(* TvCtrlPointVerifyTimeouts.  The node of an expired device is read after it
   was freed, and written to if the next is expired too: that may go well. *)
TvCtrlPointVerifyTimeouts ==
    LET aged == [i \in DOMAIN GlobalDeviceList |->
                    [GlobalDeviceList[i] EXCEPT !.AdvrTimeOut = @ - 1]]
        expired == {i \in DOMAIN aged : aged[i].AdvrTimeOut <= 0}
        searched == {n.UDN : n \in {m \in Range(aged) : m.AdvrTimeOut = 1}}
    IN  /\ Move
        /\ GlobalDeviceList' = Without(aged, expired)
        /\ TvCtrlPointDeleteNode(expired)
        /\ crashed' \in {FALSE, expired # {}}
        /\ \E S \in SUBSET (searched \cap up) : Receive(S, "alive")
        /\ UNCHANGED <<up, table, requests, incrs, failed, renewed, missed, stray>>

(* Televisions come and go; the advertisements of that may get lost. *)
Announce(S, type) == Receive(S, type) \/ UNCHANGED news
TvDeviceMain(tv) ==
    /\ \/ DeviceExits(tv) /\ Announce({tv}, "byebye")
       \/ DeviceStarts(tv) /\ Announce({tv}, "alive")
    /\ UNCHANGED <<GlobalDeviceList, failed, renewed, missed, stray, crashed>>

CtrlNext ==
    /\ ~crashed
    /\ \/ \E e \in news : HandleDiscovery(e)
       \/ \E sid \in Sids : \/ Announced(sid) \/ SubscriptionLost(sid)
                            \/ TvCtrlPointHandleSubscribeUpdate(sid)
                            \/ \E k \in DOMAIN subs[sid].called : TvCtrlPointHandleEvent(sid, k)
       \/ \E f \in failed : Resubscribe(f)
       \/ TvCtrlPointCommandLoop
       \/ TvCtrlPointVerifyTimeouts
       \/ \E r \in requests : TvDeviceHandleActionRequest(r) /\ UNCHANGED ctrlVars
       \/ \E i \in incrs : TvDeviceIncr(i) /\ UNCHANGED ctrlVars
       \/ \E tv \in Tvs : TvDeviceMain(tv)

CtrlSpec == CtrlInit /\ [][CtrlNext]_vars
-----------------------------------------------------------------------------
InList == {GlobalDeviceList[i].SID[s] : i \in DOMAIN GlobalDeviceList, s \in Services}

(* ListSound: a device is in the list once, and every subscription that the
   control point has belongs to one node of it, but for those that came from
   a renewal that failed (upnp_tv_ctrlpt.c, AddDevice to VerifyTimeouts). *)
ListSound ==
    ~crashed =>
      /\ \A i, j \in DOMAIN GlobalDeviceList : GlobalDeviceList[i].UDN = GlobalDeviceList[j].UDN => i = j
      /\ \A sid \in Sids : subs[sid].client => sid \in InList \cup renewed \cup stray

(* TableCurrent: once the events of a subscription are handled, the list shows
   what the television's state table holds - if none of them was overtaken by
   a later one and none came before its SID was in the list
   (TvCtrlPointHandleEvent, TvDeviceSetServiceTableVar). *)
TableCurrent ==
    ~crashed =>
      \A i \in DOMAIN GlobalDeviceList, s \in Services :
        LET node == GlobalDeviceList[i]
            sid == node.SID[s]
        IN  sid # NoSid /\ sid \notin missed /\ subs[sid].device /\ subs[sid].client
              /\ subs[sid].queue = <<>> /\ subs[sid].called = <<>>
              => \A v \in VarsOf(s) : node.VariableStrVal[v] = table[node.UDN][v]
=============================================================================

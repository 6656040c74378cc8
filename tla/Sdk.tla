-------------------------------- MODULE Sdk --------------------------------
(***************************************************************************)
(* The life of the SDK, upnpapi.c and ssdplib.c: UpnpInit and UpnpFinish,  *)
(* the handle table with its lock, the SSDP listener and the jobs it       *)
(* starts, advertisements and the timer events that repeat them.           *)
(*                                                                         *)
(* The table is changed under the handle lock only, but some functions     *)
(* read it without the lock, and UpnpUnRegisterRootDevice frees a device's *)
(* lists between two critical sections.  A short critical section is one   *)
(* action; the two long ones, registration and AdvertiseAndReply, which    *)
(* stay in it for network exchanges, are two each.  The timer is the       *)
(* service of TimerService without a clock, the mini server what           *)
(* MiniServer promises; which packets are sent is the matter of Discovery, *)
(* and the job of a search that of Search.                                 *)
(***************************************************************************)
EXTENDS Integers, FiniteSets

CONSTANTS Devs, Clis,       \* registrations of devices and of control points
          App, Main,        \* an application thread; the one that starts and
                            \* finishes the SDK
          Workers,          \* threads of the pool
          NUM_HANDLE,       \* size of the handle table
          MaxEvents,        \* bound on re-advertisement events of a handle
          MaxPackets,       \* bound on packets received
          NoReg, NoThread,
          Faults            \* "init": a part does not start; "schedule": the
                            \* pool or the timer refuses; "listener":
                            \* an error of select; "register": no description

ASSUME SdkAssumption ==
    /\ NUM_HANDLE \in Nat \ {0, 1} /\ MaxEvents \in Nat /\ MaxPackets \in Nat
    /\ IsFiniteSet(Workers)
    /\ Devs \cap Clis = {} /\ NoReg \notin Devs \cup Clis
    /\ Main # App /\ {Main, App} \cap Workers = {} /\ NoThread \notin Workers \cup {Main, App}

Regs == Devs \cup Clis
Slots == 1 .. NUM_HANDLE - 1
Threads == Workers \cup {Main, App}

VARIABLES
    UpnpSdkInit,
    CallBackFn,     \* it has been set
    main,           \* where UpnpInit or UpnpFinish is
    HandleTable,    \* which registration holds each slot
    lists,          \* devices whose node lists and document are valid
    unused,         \* registrations not yet made
    lock,           \* the thread that holds the handle lock
    th,             \* what each thread does
    ListenerState,
    listener,       \* where ListenMulticastChannel is
    packets,        \* packets with TransferResEvent jobs in the queue
    received,       \* number of packets received
    timer,          \* "off", "up", "closing" or "stopped"
    armed, due,     \* AutoAdvertise events of each handle: in the timer, and
                    \* handed to the pool
    announced,      \* ghost: devices whose advertisement was sent and whose
                    \* refresh was not refused by pool or timer
    stray,          \* ghost: a thread has unlocked the mutex of another one
    corrupt         \* ghost: a freed Handle_Info or list was used

vars == <<UpnpSdkInit, CallBackFn, main, HandleTable, lists, unused, lock, th, ListenerState,
          listener, packets, received, timer, armed, due, announced,
          stray, corrupt>>
table == <<HandleTable, lists, unused>>
listening == <<CallBackFn, ListenerState, listener, packets, received>>
timing == <<timer, armed, due>>
ghosts == <<announced, stray, corrupt>>
-----------------------------------------------------------------------------
Idle == [pc |-> "idle", h |-> 0, reg |-> NoReg, ad |-> 0, ev |-> "none"]

Init == /\ UpnpSdkInit = 0 /\ main = "new" /\ CallBackFn = FALSE
        /\ HandleTable = [h \in Slots |-> NoReg] /\ lists = {} /\ unused = Regs
        /\ lock = NoThread
        /\ th = [t \in Threads |-> Idle]
        /\ ListenerState = "Idle" /\ listener = "off"
        /\ packets = {} /\ received = 0
        /\ timer = "off" /\ armed = [h \in Slots |-> 0] /\ due = [h \in Slots |-> 0]
        /\ announced = {} /\ stray = FALSE /\ corrupt = FALSE

(* GetFreeHandle: the first free slot; but the loop ends with i = NUM_HANDLE
   both when there is none and when it is the last. *)
FreeSlots == {h \in Slots : HandleTable[h] = NoReg /\ h # NUM_HANDLE - 1}
GetFreeHandle == CHOOSE h \in FreeSlots : \A g \in FreeSlots : h <= g

(* GetClientHandleInfo and GetDeviceHandleInfo know the handles 1 and 2. *)
FirstOf(S) == {h \in {1, 2} \cap Slots : /\ HandleTable[h] \in S
                                         /\ h = 2 => HandleTable[1] \notin S}

Unlocked == lock = NoThread
SetPc(t, p) == th' = [th EXCEPT ![t].pc = p]
Become(t, r) == th' = [th EXCEPT ![t] = r]
(* The application may call: UpnpInit has succeeded, UpnpFinish, which has to
   be the last call, has not been called. *)
MayCall(t) == t = App /\ th[t] = Idle /\ main = "up"
-----------------------------------------------------------------------------
(* UpnpRegisterRootDevice takes the lock and keeps it while the description is
   downloaded.  The handle is in the table all that time. *)
UpnpRegisterRootDevice(t, d) ==
    /\ MayCall(t) /\ UpnpSdkInit = 1 /\ Unlocked
    /\ d \in unused /\ FreeSlots # {}
    /\ lock' = t
    /\ unused' = unused \ {d}
    /\ HandleTable' = [HandleTable EXCEPT ![GetFreeHandle] = d]
    /\ Become(t, [Idle EXCEPT !.pc = "download", !.h = GetFreeHandle, !.reg = d])
    /\ UNCHANGED <<UpnpSdkInit, main, lists, listening, timing, ghosts>>

(* Mutant: a failed registration keeps its handle. *)
RegisteredKept(t) ==
    /\ th[t].pc = "download"
    /\ \/ lists' = lists \cup {th[t].reg}
       \/ "register" \in Faults /\ UNCHANGED lists
    /\ lock' = NoThread
    /\ Become(t, Idle)
    /\ UNCHANGED <<UpnpSdkInit, main, HandleTable, unused, listening, timing, ghosts>>

(* The end of it: the lists are there, or the handle is freed again. *)
Registered(t) ==
    /\ th[t].pc = "download"
    /\ \/ lists' = lists \cup {th[t].reg} /\ UNCHANGED HandleTable
       \/ /\ "register" \in Faults
          /\ HandleTable' = [HandleTable EXCEPT ![th[t].h] = NoReg]
          /\ UNCHANGED lists
    /\ lock' = NoThread
    /\ Become(t, Idle)
    /\ UNCHANGED <<UpnpSdkInit, main, unused, listening, timing, ghosts>>

UpnpRegisterClient(t, c) ==
    /\ MayCall(t) /\ UpnpSdkInit = 1 /\ Unlocked
    /\ c \in unused /\ FreeSlots # {}
    /\ unused' = unused \ {c}
    /\ HandleTable' = [HandleTable EXCEPT ![GetFreeHandle] = c]
    /\ UNCHANGED <<UpnpSdkInit, main, lists, lock, th, listening, timing, ghosts>>

(* UpnpUnRegisterClient; its subscriptions are the matter of GenaClient. *)
UpnpUnRegisterClient(h) ==
    /\ Unlocked
    /\ HandleTable[h] \in Clis
    /\ HandleTable' = [HandleTable EXCEPT ![h] = NoReg]

UnRegisterClient(t) ==
    /\ MayCall(t)
    /\ \E h \in Slots : UpnpUnRegisterClient(h)
    /\ UNCHANGED <<UpnpSdkInit, main, lists, unused, lock, th, listening, timing, ghosts>>

(* UpnpUnRegisterRootDevice: the service table is emptied and the handle
   tested under the lock, *)
UpnpUnRegisterRootDevice(t, h) ==
    /\ Unlocked
    /\ HandleTable[h] \in Devs
    /\ Become(t, [Idle EXCEPT !.pc = "announce", !.h = h, !.reg = HandleTable[h], !.ad = -1])

UnRegisterRootDevice(t) ==
    /\ MayCall(t)
    /\ \E h \in Slots : UpnpUnRegisterRootDevice(t, h)
    /\ UNCHANGED <<UpnpSdkInit, main, table, lock, listening, timing, ghosts>>

(* then, after the bye-bye messages of AdvertiseAndReply, the lists are freed
   without the lock, *)
FreeLists(t) ==
    /\ th[t].pc = "freelists"
    /\ lists' = lists \ {th[t].reg}
    /\ SetPc(t, "freehandle")
    /\ UNCHANGED <<UpnpSdkInit, main, HandleTable, unused, lock, listening, timing, ghosts>>

(* Mutant: the handle is freed without the lock, as the lists are. *)
FreeHandleUnlocked(t) ==
    /\ th[t].pc = "freehandle"
    /\ HandleTable' = [HandleTable EXCEPT ![th[t].h] = NoReg]
    /\ announced' = announced \ {th[t].reg}
    /\ Become(t, Idle)
    /\ UNCHANGED <<UpnpSdkInit, main, lists, unused, lock, listening, timing,
                   stray, corrupt>>

(* and the handle with it. *)
FreeHandle(t) ==
    /\ th[t].pc = "freehandle"
    /\ Unlocked
    /\ HandleTable' = [HandleTable EXCEPT ![th[t].h] = NoReg]
    /\ announced' = announced \ {th[t].reg}
    /\ Become(t, Idle)
    /\ UNCHANGED <<UpnpSdkInit, main, lists, unused, lock, listening, timing,
                   stray, corrupt>>
-----------------------------------------------------------------------------
(* AdvertiseAndReply(ad, h): the lock is held while the lists are walked and
   the packets sent. *)
AdvertiseAndReply(t) ==
    /\ th[t].pc = "announce"
    /\ Unlocked
    /\ IF HandleTable[th[t].h] \in Devs
       THEN /\ lock' = t
            /\ th' = [th EXCEPT ![t].pc = "walk", ![t].reg = HandleTable[th[t].h]]
       ELSE /\ UNCHANGED lock
            /\ IF th[t].ad = -1 THEN SetPc(t, "freelists") ELSE Become(t, Idle)
    /\ UNCHANGED <<UpnpSdkInit, main, table, listening, timing, ghosts>>

(* Its end.  Lists that were freed before or meanwhile have been used. *)
Announced(t) ==
    /\ th[t].pc = "walk"
    /\ lock' = NoThread
    /\ corrupt' = (corrupt \/ th[t].reg \notin lists)
    /\ th' = [th EXCEPT ![t] = CASE @.ad = 1  -> [@ EXCEPT !.pc = "rearm"]
                                 [] @.ad = -1 -> [@ EXCEPT !.pc = "freelists"]
                                 [] @.ad = 0  -> Idle]
    /\ UNCHANGED <<UpnpSdkInit, main, table, listening, timing, announced, stray>>

(* UpnpSendAdvertisement: the handle is tested under the lock, which is then
   given up and taken again for the advertisement. *)
UpnpSendAdvertisement(t, h) ==
    /\ Unlocked
    /\ IF HandleTable[h] \in Devs
       THEN Become(t, [Idle EXCEPT !.pc = "announce", !.h = h, !.ad = 1])
       ELSE Become(t, Idle)

(* A second call starts a second chain of refreshes. *)
Chains(h) == armed[h] + due[h] + Cardinality({t \in Threads : th[t].h = h /\ th[t].ad = 1})

SendAdvertisement(t) ==
    /\ MayCall(t)
    /\ \E h \in Slots : /\ Chains(h) < MaxEvents
                        /\ UpnpSendAdvertisement(t, h)
    /\ UNCHANGED <<UpnpSdkInit, main, table, lock, listening, timing, ghosts>>

(* Mutant: a refresh does not arm the next one. *)
ScheduleRefreshOnce(t) ==
    /\ th[t].pc = "rearm"
    /\ \/ /\ timer = "up"
          /\ armed' = IF t \in Workers THEN armed ELSE [armed EXCEPT ![th[t].h] = @ + 1]
          /\ announced' = announced \cup {th[t].reg}
       \/ /\ timer # "up" \/ "schedule" \in Faults
          /\ announced' = announced \ {th[t].reg}
          /\ UNCHANGED armed
    /\ Become(t, Idle)
    /\ UNCHANGED <<UpnpSdkInit, main, table, lock, listening, timer, due, stray, corrupt>>

(* Its end: the next advertisement is put into the timer, which refuses it
   when it is closing or has no memory. *)
ScheduleRefresh(t) ==
    /\ th[t].pc = "rearm"
    /\ \/ /\ timer = "up"
          /\ armed' = [armed EXCEPT ![th[t].h] = @ + 1]
          /\ announced' = announced \cup {th[t].reg}
       \/ /\ timer # "up" \/ "schedule" \in Faults
          /\ announced' = announced \ {th[t].reg}
          /\ UNCHANGED armed
    /\ Become(t, Idle)
    /\ UNCHANGED <<UpnpSdkInit, main, table, lock, listening, timer, due,
                   stray, corrupt>>

(* The timer gives an event to the pool, or loses it. *)
TimerFires(h) ==
    /\ timer = "up"
    /\ armed[h] > 0
    /\ armed' = [armed EXCEPT ![h] = @ - 1]
    /\ \/ due' = [due EXCEPT ![h] = @ + 1] /\ UNCHANGED announced
       \/ /\ "schedule" \in Faults
          /\ announced' = announced \ {HandleTable[h]}
          /\ UNCHANGED due
    /\ UNCHANGED <<UpnpSdkInit, main, table, lock, th, listening, timer,
                   stray, corrupt>>

(* AutoAdvertise, as a job: whatever device has the handle now. *)
AutoAdvertise(w) ==
    /\ th[w] = Idle
    /\ \E h \in Slots : /\ due[h] > 0
                        /\ due' = [due EXCEPT ![h] = @ - 1]
                        /\ UpnpSendAdvertisement(w, h)
    /\ UNCHANGED <<UpnpSdkInit, main, table, lock, listening, timer, armed, ghosts>>
-----------------------------------------------------------------------------
(* UpnpRenewSubscriptionAsync looks the handle up without the lock and then
   unlocks the mutex, whoever holds it, on every path (1239-1259).  The calls
   that find UpnpSdkInit unset do so too (234, 780); MayCall leaves them out. *)
UpnpRenewSubscriptionAsync(t) ==
    /\ MayCall(t)
    /\ stray' = (stray \/ ~Unlocked)
    /\ lock' = NoThread
    /\ UNCHANGED <<UpnpSdkInit, main, table, th, listening, timing,
                   announced, corrupt>>

(* TransferResEvent: a packet of the listener, from the pool's queue. *)
TransferResEvent(w) ==
    /\ th[w] = Idle
    /\ \E p \in packets : /\ packets' = packets \ {p}
                          /\ Become(w, [Idle EXCEPT !.pc = "event", !.ev = p])
    /\ UNCHANGED <<UpnpSdkInit, CallBackFn, main, table, lock, ListenerState, listener, received,
                   timing, ghosts>>

(* SsdpCallbackEventHandler, called for a packet or for an answer to a search.
   It fetches the client's or the device's Handle_Info without the lock. *)
SsdpCallbackEventHandler(w) ==
    /\ th[w].pc = "event"
    /\ LET found == FirstOf(IF th[w].ev = "search" THEN Devs ELSE Clis)
       IN  IF found = {} THEN Become(w, Idle)
           ELSE \E h \in found :
                   Become(w, [th[w] EXCEPT !.pc = "use", !.h = h, !.reg = HandleTable[h]])
    /\ UNCHANGED <<UpnpSdkInit, main, table, lock, listening, timing, ghosts>>

(* What it fetched may have been freed when it calls the client's callback or
   reads the device's MaxAge for AdvertiseAndReply. *)
UseHandleInfo(w) ==
    /\ th[w].pc = "use"
    /\ corrupt' = (corrupt \/ HandleTable[th[w].h] # th[w].reg)
    /\ IF th[w].ev = "search" THEN SetPc(w, "announce") ELSE Become(w, Idle)
    /\ UNCHANGED <<UpnpSdkInit, main, table, lock, listening, timing, announced, stray>>

-----------------------------------------------------------------------------
(* ListenMulticastChannel runs, *)
ListenMulticastChannel ==
    /\ listener = "queued"
    /\ ListenerState' = "Running"
    /\ listener' = "top"
    /\ UNCHANGED <<UpnpSdkInit, CallBackFn, main, table, lock, th, packets, received, timing, ghosts>>

(* tests whether it is to stop, *)
ListenerTest ==
    /\ listener = "top"
    /\ listener' = IF ListenerState = "Stopping" THEN "leaving" ELSE "tested"
    /\ UNCHANGED <<UpnpSdkInit, CallBackFn, main, table, lock, th, ListenerState, packets, received,
                   timing, ghosts>>

(* calls select, *)
CallSelect ==
    /\ listener = "tested"
    /\ listener' = "select"
    /\ UNCHANGED <<UpnpSdkInit, CallBackFn, main, table, lock, th, ListenerState, packets, received,
                   timing, ghosts>>

(* gets a packet and starts a job for it, or loses it, *)
ReceivePacket ==
    /\ listener = "select" /\ received < MaxPackets
    /\ received' = received + 1
    /\ listener' = "top"
    /\ \/ \E p \in {"alive", "search"} \ packets : packets' = packets \cup {p}
       \/ "schedule" \in Faults /\ UNCHANGED packets
    /\ UNCHANGED <<UpnpSdkInit, CallBackFn, main, table, lock, th, ListenerState, timing, ghosts>>

(* or an error, *)
SelectFails ==
    /\ listener = "select" /\ "listener" \in Faults
    /\ listener' = "leaving"
    /\ UNCHANGED <<UpnpSdkInit, CallBackFn, main, table, lock, th, ListenerState, packets, received,
                   timing, ghosts>>

(* and, out of its loop, closes the socket and says so. *)
ListenerEnds ==
    /\ listener = "leaving"
    /\ ListenerState' = "Idle"
    /\ listener' = "off"
    /\ UNCHANGED <<UpnpSdkInit, CallBackFn, main, table, lock, th, packets, received, timing, ghosts>>
-----------------------------------------------------------------------------
(* UpnpInit empties the handle table. *)
UpnpInit ==
    /\ main = "new" /\ Unlocked
    /\ IF UpnpSdkInit # 0 THEN main' = "failed" /\ UNCHANGED HandleTable
       ELSE main' = "init timer" /\ HandleTable' = [h \in Slots |-> NoReg]
    /\ UNCHANGED <<UpnpSdkInit, lists, unused, lock, th, listening, timing, ghosts>>

(* Its call of InitTimerThread.  When that fails UpnpSdkInit is reset first,
   so that UpnpFinish does nothing. *)
InitTimerThread ==
    /\ main = "init timer"
    /\ \/ /\ UpnpSdkInit' = 1 /\ main' = "init ssdp"
          /\ timer' = "up"
       \/ /\ "init" \in Faults
          /\ UpnpSdkInit' = 0 /\ main' = "failed"
          /\ UNCHANGED timer
    /\ UNCHANGED <<table, lock, th, listening, armed, due, ghosts>>

(* InitSsdpLib.  When it fails the timer thread is left running.  A socket
   that cannot be made or bound is reported through CallBackFn, which is not
   set before the first success: the process jumps to address 0. *)
InitSsdpLib ==
    /\ main = "init ssdp"
    /\ \/ /\ ListenerState = "Idle"
          /\ listener' = "queued" /\ CallBackFn' = TRUE
          /\ main' = "init wait"
          /\ UNCHANGED <<UpnpSdkInit, corrupt>>
       \/ /\ ListenerState # "Idle" \/ "init" \in Faults
          /\ UpnpSdkInit' = 0 /\ main' = "failed"
          /\ UNCHANGED <<listener, CallBackFn, corrupt>>
       \/ /\ "init" \in Faults /\ ~CallBackFn
          /\ corrupt' = TRUE
          /\ UNCHANGED <<UpnpSdkInit, main, listener, CallBackFn>>
    /\ UNCHANGED <<table, lock, th, ListenerState, packets, received, timing,
                   announced, stray>>

(* It polls until the listener runs; a listener that has run and failed in
   between is waited for in vain. *)
ListenerSeen ==
    /\ main = "init wait"
    /\ ListenerState = "Running"
    /\ main' = "init server"
    /\ UNCHANGED <<UpnpSdkInit, table, lock, th, listening, timing, ghosts>>

(* StartMiniServer.  When it fails UpnpInit calls UpnpFinish. *)
StartMiniServer ==
    /\ main = "init server"
    /\ main' \in {"up"} \cup (IF "init" \in Faults THEN {"finish"} ELSE {})
    /\ UNCHANGED <<UpnpSdkInit, table, lock, th, listening, timing, ghosts>>

(* A failed UpnpInit may be tried again. *)
RetryInit ==
    /\ main = "failed"
    /\ main' = "new"
    /\ UNCHANGED <<UpnpSdkInit, table, lock, th, listening, timing, ghosts>>

(* The application finishes the SDK when no call is under way. *)
CallFinish ==
    /\ main = "up" /\ th[App] = Idle
    /\ main' = "finish"
    /\ UNCHANGED <<UpnpSdkInit, table, lock, th, listening, timing, ghosts>>

(* UpnpFinish: the device it finds is unregistered, *)
UpnpFinish ==
    /\ main = "finish"
    /\ IF UpnpSdkInit # 1 THEN main' = "finished" /\ UNCHANGED <<UpnpSdkInit, th>>
       ELSE /\ UpnpSdkInit' = 0 /\ main' = "finish client"
            /\ IF FirstOf(Devs) = {} THEN UNCHANGED th
               ELSE \E h \in FirstOf(Devs) : UpnpUnRegisterRootDevice(Main, h)
    /\ UNCHANGED <<table, lock, listening, timing, ghosts>>

(* then the client it finds, *)
FinishClient ==
    /\ main = "finish client" /\ th[Main] = Idle
    /\ IF FirstOf(Clis) = {} THEN UNCHANGED HandleTable
       ELSE \E h \in FirstOf(Clis) : UpnpUnRegisterClient(h)
    /\ main' = "finish timer"
    /\ UNCHANGED <<UpnpSdkInit, lists, unused, lock, th, listening, timing, ghosts>>

(* then StopTimerThread calls back every event that is left, which sends
   another advertisement for a device that is still registered. *)
StopTimerThread ==
    /\ main = "finish timer" /\ th[Main] = Idle
    /\ IF \E h \in Slots : armed[h] > 0
       THEN /\ \E h \in Slots : /\ armed[h] > 0
                                /\ armed' = [armed EXCEPT ![h] = @ - 1]
                                /\ UpnpSendAdvertisement(Main, h)
            /\ timer' = "closing"
            /\ UNCHANGED main
       ELSE timer' = "stopped" /\ main' = "deinit" /\ UNCHANGED <<th, armed>>
    /\ UNCHANGED <<UpnpSdkInit, table, lock, listening, due, ghosts>>

(* DeInitSsdpLib reads ListenerState, *)
DeInitSsdpLib ==
    /\ main = "deinit"
    /\ main' = IF ListenerState = "Idle" THEN "stop server" ELSE "set stopping"
    /\ UNCHANGED <<UpnpSdkInit, table, lock, th, listening, timing, ghosts>>

(* then writes it, whatever it is now, *)
SetStopping ==
    /\ main = "set stopping"
    /\ ListenerState' = "Stopping"
    /\ main' = "poll"
    /\ UNCHANGED <<UpnpSdkInit, CallBackFn, table, lock, th, listener, packets, received, timing, ghosts>>

(* and signals the listener until it is idle.  A signal that does not find it
   in select is lost. *)
PollListener ==
    /\ main = "poll"
    /\ IF ListenerState = "Idle" THEN main' = "stop server" /\ UNCHANGED listener
       ELSE /\ main' = "poll again"
            /\ listener' = IF listener = "select" THEN "leaving" ELSE listener
    /\ UNCHANGED <<UpnpSdkInit, CallBackFn, table, lock, th, ListenerState, packets, received, timing, ghosts>>

(* Mutant: the signal is sent only once. *)
PollAgainOnce ==
    /\ main = "poll again"
    /\ main' = IF ListenerState = "Idle" THEN "stop server" ELSE main
    /\ UNCHANGED <<UpnpSdkInit, table, lock, th, listening, timing, ghosts>>

(* It looks again before it sleeps for a second. *)
PollAgain ==
    /\ main = "poll again"
    /\ main' = IF ListenerState = "Idle" THEN "stop server" ELSE "poll"
    /\ UNCHANGED <<UpnpSdkInit, table, lock, th, listening, timing, ghosts>>

(* The mini server is stopped last; this is StopTerminates of MiniServer. *)
StopMiniServer ==
    /\ main = "stop server"
    /\ main' = "finished"
    /\ UNCHANGED <<UpnpSdkInit, table, lock, th, listening, timing, ghosts>>
-----------------------------------------------------------------------------
(* Registrations are anonymous: the next one may be any. *)
Fresh(S) == IF unused \cap S = {} THEN {} ELSE {CHOOSE r \in unused \cap S : TRUE}

Api == \/ \E d \in Fresh(Devs) : UpnpRegisterRootDevice(App, d)
       \/ \E c \in Fresh(Clis) : UpnpRegisterClient(App, c)
       \/ UnRegisterClient(App) \/ UnRegisterRootDevice(App) \/ SendAdvertisement(App)
       \/ UpnpRenewSubscriptionAsync(App)

(* The rest of a call, or of a job. *)
Continue(t) == \/ Registered(t) \/ FreeLists(t) \/ FreeHandle(t)
               \/ AdvertiseAndReply(t) \/ Announced(t) \/ ScheduleRefresh(t)
               \/ SsdpCallbackEventHandler(t) \/ UseHandleInfo(t)
TakeJob(w) == AutoAdvertise(w) \/ TransferResEvent(w)
Listener == ListenMulticastChannel \/ ListenerTest \/ CallSelect \/ ListenerEnds
InitGoesOn == UpnpInit \/ InitTimerThread \/ InitSsdpLib \/ ListenerSeen \/ StartMiniServer
FinishGoesOn == \/ UpnpFinish \/ FinishClient \/ StopTimerThread \/ DeInitSsdpLib
                \/ SetStopping \/ PollListener \/ PollAgain \/ StopMiniServer
TimerSome == \E h \in Slots : TimerFires(h)

(* Nothing is defined any more once freed memory has been used. *)
Next == /\ ~corrupt
        /\ \/ Api \/ InitGoesOn \/ RetryInit \/ CallFinish \/ FinishGoesOn
           \/ \E t \in Threads : Continue(t)
           \/ \E w \in Workers : TakeJob(w)
           \/ Listener \/ ReceivePacket \/ SelectFails \/ TimerSome

(* Threads run, and the one that finishes the SDK obtains the handle lock. *)
Fairness == /\ SF_vars(~corrupt /\ (FinishGoesOn \/ Continue(Main)))
            /\ WF_vars(~corrupt /\ Listener)
            /\ \A t \in Threads \ {Main} : WF_vars(~corrupt /\ Continue(t))
Spec == Init /\ [][Next]_vars /\ Fairness
-----------------------------------------------------------------------------
(* Types of the variables and of the threads' locals. *)
TypeOK ==
    /\ UpnpSdkInit \in {0, 1} /\ CallBackFn \in BOOLEAN
    /\ main \in {"new", "init timer", "init ssdp", "init wait", "init server", "up",
                 "failed", "finish", "finish client", "finish timer", "deinit",
                 "set stopping", "poll", "poll again", "stop server", "finished"}
    /\ HandleTable \in [Slots -> Regs \cup {NoReg}]
    /\ lists \in SUBSET Devs /\ unused \in SUBSET Regs
    /\ lock \in Threads \cup {NoThread}
    /\ th \in [Threads -> [pc : {"idle", "download", "announce", "walk", "freelists",
                                 "freehandle", "rearm", "event", "use"},
                           h : Slots \cup {0}, reg : Regs \cup {NoReg}, ad : -1 .. 1,
                           ev : {"none", "alive", "search"}]]
    /\ ListenerState \in {"Idle", "Running", "Stopping"}
    /\ listener \in {"off", "queued", "top", "tested", "select", "leaving"}
    /\ packets \in SUBSET {"alive", "search"} /\ received \in 0 .. MaxPackets
    /\ timer \in {"off", "up", "closing", "stopped"}
    /\ armed \in [Slots -> 0 .. MaxEvents] /\ due \in [Slots -> 0 .. MaxEvents]
    /\ announced \in SUBSET Devs /\ stray \in BOOLEAN /\ corrupt \in BOOLEAN

(* upnpapi.c:1869, 240: while AdvertiseAndReply walks a device or a
   registration fills it in, the handle stays that device's, however many
   threads unregister and register; unless a stray unlock of
   UpnpRenewSubscriptionAsync has let others in. *)
HandleHeld ==
    \A t \in Threads : th[t].pc \in {"walk", "download"} =>
        HandleTable[th[t].h] = th[t].reg \/ stray

(* The handle table, its lock and the threads that work with it. *)
HandlesSound == TypeOK /\ HandleHeld

(* A device in the table is whole, unless it is just being registered or
   unregistered: no failure of a registration leaves half of one behind. *)
DevicesWhole ==
    \A h \in Slots : HandleTable[h] \in Devs \ lists =>
        \E t \in Threads : /\ th[t].pc \in {"download", "freehandle"}
                           /\ th[t].h = h /\ th[t].reg = HandleTable[h]

(* upnpapi.c:890: an advertised device stays advertised.  As long as it is
   registered a refresh is in the timer, with the pool or being carried out,
   whatever devices had the handle before; unless one was refused. *)
RefreshPending ==
    \A h \in Slots : HandleTable[h] \in announced =>
        Chains(h) > 0

(* UpnpFinish returns, although a signal that does not find the listener in
   select is lost; unless the listener ended by itself between the test of
   ListenerState and its assignment (ssdplib.c:329-332). *)
FinishReturns ==
    main = "finish" ~> \/ main = "finished" \/ corrupt
                       \/ ListenerState = "Stopping" /\ listener = "off"

=============================================================================

------------------------------ MODULE TvDevice ------------------------------
(***************************************************************************)
(* The sample television of src/sample/tvdevice/upnp_tv_device.c: its      *)
(* state table, the requests it serves and the events it sends.  What the  *)
(* library does with an event is abstracted to a queue for each            *)
(* subscription; GenaDevice models how the library works it off.           *)
(***************************************************************************)
EXTENDS Integers, Sequences, FiniteSets, TLC

CONSTANTS Tvs,         \* televisions
          Vars,        \* variables of their state tables
          MaxSids,     \* subscriptions made in all
          MaxMoves     \* actions sent, datagrams and rounds of timers in all

VARIABLES up,        \* the televisions that run
          table,     \* their tv_service_table
          requests,  \* actions sent to a television and not yet begun
          incrs,     \* Incr functions between their two critical sections
          subs,      \* all subscriptions made; the index stands for the SID
          moves      \* count of moves

tvVars == <<up, table, requests, incrs, subs, moves>>

(* The functions of a variable: its service, the values Set accepts, and the
   value it starts with. *)
Variable(service, lo, hi, def) == [service |-> service, lo |-> lo, hi |-> hi, def |-> def]
Power      == Variable("control", 0, 1, 0)
Channel    == Variable("control", 1, 100, 1)
Volume     == Variable("control", 0, 10, 5)
Color      == Variable("picture", 1, 10, 5)
Tint       == Variable("picture", 1, 10, 5)
Contrast   == Variable("picture", 1, 10, 5)
Brightness == Variable("picture", 1, 10, 5)
TvVar == [Power |-> Power, Channel |-> Channel, Volume |-> Volume, Color |-> Color,
          Tint |-> Tint, Contrast |-> Contrast, Brightness |-> Brightness]

TvAssumption == Vars \subseteq DOMAIN TvVar /\ MaxSids \in Nat /\ MaxMoves \in Nat

Services == {TvVar[v].service : v \in Vars}
VarsOf(s) == {v \in Vars : TvVar[v].service = s}
Sids == DOMAIN subs
NoSid == 0

(* A subscription: whether the television and the control point have it, the
   events to be sent and those whose callbacks have begun. *)
Subscription(tv, s, event) ==
    [tv |-> tv, service |-> s, device |-> TRUE, client |-> TRUE,
     queue |-> <<event>>, called |-> <<>>]

(* TvDeviceStateTableInit. *)
TvDeviceStateTableInit == [v \in Vars |-> TvVar[v].def]

TvInit ==
    /\ up = Tvs
    /\ table = [tv \in Tvs |-> TvDeviceStateTableInit]
    /\ requests = {} /\ incrs = {} /\ subs = <<>> /\ moves = 0

(* TvDeviceHandleSubscriptionRequest: the new subscription begins with an
   event of all variables of the service. *)
TvDeviceHandleSubscriptionRequest(tv, s) ==
    Subscription(tv, s, [v \in VarsOf(s) |-> table[tv][v]])

(* Mutant: the event is made before the value is stored. *)
TvDeviceSetServiceTableVarLate(tv, v, value) ==
    /\ table' = [table EXCEPT ![tv][v] = value]
    /\ subs' = [i \in Sids |->
                  IF subs[i].device /\ subs[i].tv = tv /\ subs[i].service = TvVar[v].service
                  THEN [subs[i] EXCEPT !.queue = Append(@, [w \in {v} |-> table[tv][v]])] ELSE subs[i]]

(* One critical section: the value is stored and an event sent. *)
TvDeviceSetServiceTableVar(tv, v, value) ==
    /\ table' = [table EXCEPT ![tv][v] = value]
    /\ subs' = [i \in Sids |->
                  IF subs[i].device /\ subs[i].tv = tv /\ subs[i].service = TvVar[v].service
                  THEN [subs[i] EXCEPT !.queue = Append(@, [w \in {v} |-> value])] ELSE subs[i]]

(* TvDeviceSetChannel and the like: values out of bounds are refused. *)
TvDeviceSet(tv, v, value) ==
    IF value \in TvVar[v].lo .. TvVar[v].hi
    THEN TvDeviceSetServiceTableVar(tv, v, value)
    ELSE UNCHANGED <<table, subs>>

(* TvDeviceHandleActionRequest.  Set is done at once; the Incr functions read
   the value in one critical section, *)
TvDeviceHandleActionRequest(r) ==
    /\ r \in requests /\ r.tv \in up
    /\ requests' = requests \ {r}
    /\ \/ /\ r.op = "Set" /\ TvDeviceSet(r.tv, r.var, r.arg)
          /\ UNCHANGED incrs
       \/ /\ r.op = "Incr"
          /\ incrs' = incrs \cup {[tv |-> r.tv, var |-> r.var, new |-> table[r.tv][r.var] + r.arg]}
          /\ UNCHANGED <<table, subs>>
    /\ UNCHANGED <<up, moves>>
(* and set it in another. *)
TvDeviceIncr(i) ==
    /\ i \in incrs
    /\ incrs' = incrs \ {i}
    /\ TvDeviceSet(i.tv, i.var, i.new)
    /\ UNCHANGED <<up, requests, moves>>

(* An event from outside of the program. *)
Move == moves < MaxMoves /\ moves' = moves + 1

(* The command exit, or a signal: the television unregisters and ends, and
   its state, subscriptions and requests with it. *)
DeviceExits(tv) ==
    /\ tv \in up /\ Move
    /\ up' = up \ {tv}
    /\ incrs' = {i \in incrs : i.tv # tv}
    /\ requests' = {r \in requests : r.tv # tv}
    /\ subs' = [i \in Sids |->
                  IF subs[i].tv = tv THEN [subs[i] EXCEPT !.device = FALSE, !.queue = <<>>]
                  ELSE subs[i]]
    /\ table' = [table EXCEPT ![tv] = TvDeviceStateTableInit]
(* main, with the table that TvDeviceStateTableInit has made. *)
DeviceStarts(tv) ==
    /\ tv \notin up /\ Move
    /\ up' = up \cup {tv}
    /\ UNCHANGED <<table, requests, incrs, subs>>
=============================================================================

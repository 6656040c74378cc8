---------------------------- MODULE TimerService ----------------------------
(***************************************************************************)
(* What the timer thread promises its clients (automatic renewal of        *)
(* subscriptions, automatic re-advertisement): an armed event fires when   *)
(* it is due and no earlier one is waiting, or when the service is being   *)
(* closed; or it is cancelled.  The argument of an event is given to one   *)
(* party only, its callback or the client that cancelled it, which then    *)
(* frees it.                                                               *)
(***************************************************************************)
EXTENDS Integers

CONSTANTS Events,    \* one element per timer event
          TimeOuts   \* the time-outs clients ask for

VARIABLES asked,     \* the events whose deadline is known
          deadline,  \* the time at which each event is due
          armed,     \* the events waiting for their deadline
          fired,     \* the events on their way to their callback
          given,     \* how often each event's argument was given away
          open,      \* the service accepts events
          now

vars == <<asked, deadline, armed, fired, given, open, now>>

Init == /\ asked = {} /\ armed = {} /\ fired = {}
        /\ deadline = [e \in Events |-> 0]
        /\ given = [e \in Events |-> 0]
        /\ open = TRUE
        /\ now \in Nat

Ask(e, t) == /\ e \notin asked
             /\ asked' = asked \cup {e}
             /\ deadline' = [deadline EXCEPT ![e] = now + t]
             /\ UNCHANGED <<armed, fired, given, open, now>>

Arm(e) == /\ open
          /\ e \in asked \ (armed \cup fired)
          /\ given[e] = 0
          /\ armed' = armed \cup {e}
          /\ UNCHANGED <<asked, deadline, fired, given, open, now>>

Earliest(e) == e \in armed /\ \A f \in armed : deadline[e] <= deadline[f]

Fire(e) == /\ Earliest(e)
           /\ deadline[e] <= now \/ ~open'
           /\ armed' = armed \ {e}
           /\ fired' = fired \cup {e}
           /\ open' \in {open, FALSE}
           /\ UNCHANGED <<asked, deadline, given, now>>

(* The callback gets the argument, or the event is lost (no memory). *)
Deliver(e) == /\ e \in fired
              /\ fired' = fired \ {e}
              /\ given' \in {given, [given EXCEPT ![e] = @ + 1]}
              /\ UNCHANGED <<asked, deadline, armed, open, now>>

Cancel(e) == /\ e \in armed
             /\ armed' = armed \ {e}
             /\ given' = [given EXCEPT ![e] = @ + 1]
             /\ UNCHANGED <<asked, deadline, fired, open, now>>

Close == /\ open' = FALSE
         /\ UNCHANGED <<asked, deadline, armed, fired, given, now>>

Tick == /\ now' = now + 1
        /\ UNCHANGED <<asked, deadline, armed, fired, given, open>>

Next == \/ \E e \in Events : \/ \E t \in TimeOuts : Ask(e, t)
                             \/ Arm(e) \/ Fire(e) \/ Deliver(e) \/ Cancel(e)
        \/ Close
        \/ Tick

Spec == Init /\ [][Next]_vars
=============================================================================

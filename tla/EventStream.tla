----------------------------- MODULE EventStream -----------------------------
(***************************************************************************)
(* What eventing promises a subscriber, without the thread pool, the       *)
(* locks or the network: the NOTIFY messages started for a subscription    *)
(* are the events published to it, in the order of publication, each one   *)
(* once, numbered 0, 1, 2, ... with the wrap to 1; none is started before  *)
(* the application has accepted the subscription or after it has ended.    *)
(***************************************************************************)
EXTENDS Integers, Sequences

CONSTANTS Sids,    \* subscription identifiers
          Events,  \* identities of the events the application publishes
          MaxKey   \* the largest event key (INT_MAX)

VARIABLES state,   \* where each subscription is in its life
          issued,  \* the events published to each subscription, in order
          sent     \* the NOTIFY messages started for it, in order

vars == <<state, issued, sent>>

(* The SEQ value of the n-th message of a subscription. *)
SeqNumber(n) == IF n <= MaxKey + 1 THEN n - 1 ELSE ((n - 2) % MaxKey) + 1

Active == {s \in Sids : state[s] = "active"}

Ending(E) == [s \in Sids |-> IF s \in E THEN "ended" ELSE state[s]]

Publishing(S, e) ==
    [s \in Sids |-> IF s \in S THEN Append(issued[s], e) ELSE issued[s]]

Init == /\ state = [s \in Sids |-> "none"]
        /\ issued = [s \in Sids |-> << >>]
        /\ sent = [s \in Sids |-> << >>]

Subscribe(s) == /\ state[s] = "none"
                /\ state' = [state EXCEPT ![s] = "pending"]
                /\ UNCHANGED <<issued, sent>>

(* The application accepts the subscription; its initial event may be lost
   to an error, in which case later events follow all the same. *)
Accept(s) == /\ state[s] = "pending"
             /\ state' = [state EXCEPT ![s] = "active"]
             /\ \/ \E e \in Events : issued' = Publishing({s}, e)
                \/ UNCHANGED issued
             /\ UNCHANGED sent

(* An event is published to some of the active subscriptions, and others are
   found to have expired. *)
Publish(S, E, e) == /\ S \subseteq Active \ E
                    /\ issued' = Publishing(S, e)
                    /\ state' = Ending(E)
                    /\ UNCHANGED sent

Send(s) == /\ state[s] = "active"
           /\ Len(sent[s]) < Len(issued[s])
           /\ LET n == Len(sent[s]) + 1
              IN  sent' = [sent EXCEPT ![s] =
                              Append(@, [seq |-> SeqNumber(n),
                                         ev |-> issued[s][n]])]
           /\ UNCHANGED <<state, issued>>

End(E) == /\ E \subseteq {s \in Sids : state[s] \in {"pending", "active"}}
          /\ state' = Ending(E)
          /\ UNCHANGED <<issued, sent>>

Next == \/ \E s \in Sids : Subscribe(s) \/ Accept(s) \/ Send(s)
        \/ \E S, E \in SUBSET Sids, e \in Events : Publish(S, E, e)
        \/ \E E \in SUBSET Sids : End(E)

Spec == Init /\ [][Next]_vars
=============================================================================

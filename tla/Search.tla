------------------------------- MODULE Search -------------------------------
(***************************************************************************)
(* A search of a control point: UpnpSearchAsync of upnpapi.c, and the      *)
(* thread that RequestHandler of ssdplib.c is, from the request to         *)
(* UPNP_DISCOVERY_SEARCH_TIMEOUT.  Datagrams arrive in any order, doubled  *)
(* or not at all.  Time is that of time(), in seconds since StartTime.     *)
(***************************************************************************)
EXTENDS Discovery, FiniteSets

CONSTANTS Descs,            \* descriptions of the device that answers
          Targets, Mxs,     \* arguments of UpnpSearchAsync
          DEFAULT_MX, MAX_TIME_TOREAD,
          Junk,             \* datagrams that are no answers
          MaxDatagrams,     \* datagrams that arrive
          MaxLate           \* seconds beyond the deadline

VARIABLES desc, target, Mx,  \* of this search
          pc,       \* where RequestHandler is
          now,      \* time(NULL) - StartTime
          ElapsedTime,
          ErrCode,  \* of Evt, which all answers share
          buffer,   \* datagrams in the socket
          intime,   \* datagrams that came one second before the deadline or earlier
          got,      \* the callbacks made
          delayed   \* time went by while the thread was not waiting for it

searchVars == <<desc, target, Mx, pc, now, ElapsedTime, ErrCode, buffer, intime, got, delayed>>

TIMEOUT == [type |-> "SEARCH_TIMEOUT"]
TimeTillRead == IF Mx <= 1 THEN 2 ELSE IF Mx > MAX_TIME_TOREAD THEN MAX_TIME_TOREAD ELSE Mx
Deadline == TimeTillRead + 2
Request == CreateClientRequestPacket(Mx, target)

(* A target as the UPnP documents define them (upnp.h:903); one for services
   names their type. *)
Asked(t) ==
    t.kind \in DOMAIN RequestTypes /\ (t.kind = "urn:service:" => t.name # NoValue)

(* Of other descriptions and targets nothing is claimed, other messages are
   not junk, and the MAN header of a request is not empty. *)
SearchAssumption ==
    /\ DEFAULT_MX \in Nat \ {0} /\ MAX_TIME_TOREAD \in Nat \ 0..1
    /\ MaxDatagrams \in Nat /\ MaxLate \in Nat /\ Mxs \subseteq Int
    /\ \A d \in Descs : WellFormed(d)
    /\ \A t \in Targets : Asked(t)
    /\ NoValue # "ssdp:discover"
    /\ \A p \in Junk : ~Reported(p)

(* UpnpSearchAsync and SearchByTarget. *)
UpnpSearchAsync(n) == Mx = IF n < 1 THEN DEFAULT_MX ELSE n

SearchInit ==
    /\ desc \in Descs /\ target \in Targets
    /\ \E n \in Mxs : UpnpSearchAsync(n)
    /\ pc = "start" /\ now = 0 /\ ElapsedTime = 0 /\ ErrCode = 0
    /\ buffer = <<>> /\ intime = {} /\ got = <<>> /\ delayed = FALSE

(* RequestHandler sends the request; a socket that fails ends it, with an
   error event of its own. *)
SendRequest ==
    /\ pc = "start"
    /\ pc' \in {"loop", "failed"}
    /\ UNCHANGED <<desc, target, Mx, now, ElapsedTime, ErrCode, buffer, intime, got, delayed>>

(* NewRequestHandler of the device, and others, send to the socket. *)
Arrive(p) ==
    /\ pc \in {"loop", "select", "callback"}
    /\ Len(got) + Len(buffer) < MaxDatagrams
    /\ buffer' = Append(buffer, p)
    /\ intime' = IF now < Deadline THEN intime \cup {p} ELSE intime
    /\ UNCHANGED <<desc, target, Mx, pc, now, ElapsedTime, ErrCode, got, delayed>>

Tick ==
    /\ pc \in {"loop", "select", "callback"} /\ now < Deadline + MaxLate
    /\ now' = now + 1
    /\ delayed' = (delayed \/ pc # "select" \/ buffer # <<>> \/ now >= Deadline)
    /\ UNCHANGED <<desc, target, Mx, pc, ElapsedTime, ErrCode, buffer, intime, got>>

(* The loop: the time that has passed is tested as it was before the last
   answer.  A negative timeout makes select fail. *)
Loop ==
    /\ pc = "loop" /\ ElapsedTime < Deadline
    /\ ElapsedTime' = now
    /\ pc' \in {IF now > Deadline THEN "overdue" ELSE "select", "failed"}
    /\ UNCHANGED <<desc, target, Mx, now, ErrCode, buffer, intime, got, delayed>>
ReceiveDatagram ==
    /\ pc = "select" /\ buffer # <<>>
    /\ LET p == Head(buffer)
           reported == Reported(p)
       IN  /\ ErrCode' = AnalyzeCommand(p).ErrCode
           /\ got' = IF reported THEN Append(got, Upnp_Discovery(AnalyzeCommand(p))) ELSE got
           /\ pc' = IF reported THEN "callback" ELSE "loop"
    /\ buffer' = Tail(buffer)
    /\ UNCHANGED <<desc, target, Mx, now, ElapsedTime, intime, delayed>>
CallbackReturns ==
    /\ pc = "callback" /\ pc' = "loop"
    /\ UNCHANGED <<desc, target, Mx, now, ElapsedTime, ErrCode, buffer, intime, got, delayed>>
(* Mutant: the thread returns as it does when select fails. *)
SelectTimesOutReturns ==
    /\ pc = "select" /\ buffer = <<>> /\ now >= Deadline
    /\ pc' = "done"
    /\ UNCHANGED <<desc, target, Mx, now, ElapsedTime, ErrCode, buffer, intime, got, delayed>>

SelectTimesOut ==
    /\ pc = "select" /\ buffer = <<>> /\ now >= Deadline
    /\ pc' = "loop"
    /\ UNCHANGED <<desc, target, Mx, now, ElapsedTime, ErrCode, buffer, intime, got, delayed>>
(* SsdpCallbackEventHandler takes the event for an error if Evt still has the
   ErrCode of the last datagram. *)
Finish ==
    /\ pc = "loop" /\ ElapsedTime >= Deadline
    /\ pc' = "done"
    /\ got' = IF ErrCode = 0 THEN Append(got, TIMEOUT) ELSE got
    /\ UNCHANGED <<desc, target, Mx, now, ElapsedTime, ErrCode, buffer, intime, delayed>>

SearchNext ==
    \/ SendRequest \/ Loop \/ ReceiveDatagram \/ CallbackReturns \/ SelectTimesOut \/ Finish \/ Tick
    \/ \E p \in Range(Replies(Request, desc)) \cup Junk : Arrive(p)

SearchSpec == SearchInit /\ [][SearchNext]_searchVars
-----------------------------------------------------------------------------
(* A search, as far as its thread is not delayed and its socket does not fail,
   tells the control point of every answer that came in time, of nothing that
   does not match, and at last of the timeout - unless the last datagram was
   not understood (RequestHandler; upnp.h:251, "no more callbacks for this
   search after this event"). *)
SearchSound ==
    /\ \A i \in DOMAIN got : got[i] = TIMEOUT <=> pc = "done" /\ i = Len(got) /\ ErrCode = 0
    /\ \A i \in DOMAIN got : got[i] # TIMEOUT => got[i] \in Matching(target, desc)
    /\ pc = "done" /\ ~delayed =>
          /\ Events(intime) \subseteq Range(got)
          /\ ErrCode = 0 => TIMEOUT \in Range(got)
    /\ pc = "overdue" => delayed

(* DescriptionTold: what ToldCorrectly says, of every description and search. *)
DescriptionTold ==
    pc = "start" => \A d \in Descs, t \in Targets : ToldCorrectly(d, Mx, t)
=============================================================================

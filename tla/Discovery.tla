------------------------------ MODULE Discovery ------------------------------
(***************************************************************************)
(* What devices say about themselves and what control points understand:   *)
(* AdvertiseAndReply of upnpapi.c, the packets of ssdplib.c, the parser of *)
(* ssdpparser.c and the event that SsdpCallbackEventHandler makes of one.  *)
(*                                                                         *)
(* A description is the sequence of its device elements in document order, *)
(* each with its type, its UDN (or NoValue) and the service lists between   *)
(* its own tag and the next device's.  A target stands for the text of NT, *)
(* ST or a part of USN: its kind says which of the substrings the parser   *)
(* looks for it contains.                                                  *)
(***************************************************************************)
EXTENDS Integers, Sequences, SequencesExt

CONSTANT NoValue    \* an element without text, an empty field

Target(kind, name) == [kind |-> kind, name |-> name]
All == Target("ssdp:all", NoValue)
RootDevice == Target("upnp:rootdevice", NoValue)
Uuid(u) == Target("uuid:", u)
DeviceUrn(d) == Target("urn:device:", d)
ServiceUrn(s) == Target("urn:service:", s)
-----------------------------------------------------------------------------
(* CreateServiceRequestPacket: start line, and the headers the parser acts
   on; Notf is 2 for a reply, 1 for ssdp:alive, 0 for ssdp:byebye. *)
Hdr(key, val) == [key |-> key, val |-> val]
CreateServiceRequestPacket(Notf, nt, usn) ==
    IF Notf = 2
    THEN [start |-> "HTTP/1.1 200 OK", hdrs |-> <<Hdr("ST", nt), Hdr("USN", usn)>>]
    ELSE [start |-> "NOTIFY * HTTP/1.1",
          hdrs |-> <<Hdr("NT", nt), Hdr("NTS", IF Notf = 1 THEN "alive" ELSE "byebye"),
                     Hdr("USN", usn)>>]

(* The USN is the UDN, followed by the target unless that is the UDN. *)
Packet(Notf, Udn, target) ==
    CreateServiceRequestPacket(Notf, target,
        <<Uuid(Udn)>> \o (IF target = Uuid(Udn) THEN <<>> ELSE <<target>>))

(* DeviceAdvertisement, DeviceShutdown and DeviceReply: three packets for the
   root device, two for another. *)
DevicePackets(Notf, DevType, Root, Udn) ==
    (IF Root THEN <<Packet(Notf, Udn, RootDevice)>> ELSE <<>>)
    \o <<Packet(Notf, Udn, Uuid(Udn)), Packet(Notf, Udn, DeviceUrn(DevType))>>
DeviceAdvertisement(DevType, Root, Udn) == DevicePackets(1, DevType, Root, Udn)
DeviceShutdown(DevType, Root, Udn) == DevicePackets(0, DevType, Root, Udn)
DeviceReply(DevType, Root, Udn) == DevicePackets(2, DevType, Root, Udn)

(* Mutant: a reply by type names the UDN. *)
SendReplyUdn(DevType, Root, Udn, ByType) ==
    <<Packet(2, Udn, IF Root THEN RootDevice ELSE Uuid(Udn))>>

(* SendReply: one packet, for the root device, by UDN or by type. *)
SendReply(DevType, Root, Udn, ByType) ==
    <<Packet(2, Udn, CASE Root -> RootDevice
                       [] ~Root /\ ~ByType -> Uuid(Udn)
                       [] ~Root /\ ByType -> DeviceUrn(DevType))>>

ServiceAdvertisement(Udn, ServType) == <<Packet(1, Udn, ServiceUrn(ServType))>>
ServiceShutdown(Udn, ServType) == <<Packet(0, Udn, ServiceUrn(ServType))>>
ServiceReply(Udn, ServType) == <<Packet(2, Udn, ServiceUrn(ServType))>>
-----------------------------------------------------------------------------
(* A request as AdvertiseAndReply gets it: AdFlag 1 or -1, or 0 with what the
   parser made of an M-SEARCH. *)
Advertise(AdFlag) == [AdFlag |-> AdFlag, RequestType |-> "ERROR", DeviceType |-> NoValue,
                      UDN |-> NoValue, ServiceType |-> NoValue]

(* Its packets for the device i; a UDN in the request excludes the type. *)
DevicePart(r, dev, i) ==
    CASE r.AdFlag = 1  -> DeviceAdvertisement(dev.type, i = 1, dev.udn)
      [] r.AdFlag = -1 -> DeviceShutdown(dev.type, i = 1, dev.udn)
      [] r.AdFlag = 0 ->
            CASE r.RequestType = "ALL" -> DeviceReply(dev.type, i = 1, dev.udn)
              [] r.RequestType = "ROOTDEVICE" ->
                    IF i = 1 THEN SendReply(dev.type, TRUE, dev.udn, FALSE) ELSE <<>>
              [] r.RequestType = "DEVICE" ->
                    IF r.UDN # NoValue
                    THEN IF r.UDN = dev.udn THEN SendReply(dev.type, FALSE, dev.udn, FALSE)
                         ELSE <<>>
                    ELSE IF r.DeviceType = dev.type
                         THEN SendReply(dev.type, FALSE, dev.udn, TRUE) ELSE <<>>
              [] OTHER -> <<>>

(* and for one of its services. *)
ServicePart(r, udn, s) ==
    CASE r.AdFlag = 1  -> ServiceAdvertisement(udn, s)
      [] r.AdFlag = -1 -> ServiceShutdown(udn, s)
      [] r.AdFlag = 0  -> IF \/ r.RequestType = "ALL"
                             \/ r.RequestType = "SERVICE" /\ r.ServiceType = s
                          THEN ServiceReply(udn, s) ELSE <<>>

(* The i-th service list of the document, whichever device it belongs to. *)
ServiceLists(desc) == FlattenSeq([i \in DOMAIN desc |-> desc[i].serviceLists])

(* AdvertiseAndReply.  A device without type or UDN is passed over together
   with the service list of the same number. *)
AdvertiseAndReply(r, desc) ==
    FlattenSeq([i \in DOMAIN desc |->
        IF desc[i].type = NoValue \/ desc[i].udn = NoValue THEN <<>>
        ELSE DevicePart(r, desc[i], i)
             \o (IF i > Len(ServiceLists(desc)) THEN <<>>
                 ELSE LET services == ServiceLists(desc)[i]
                      IN  FlattenSeq([j \in DOMAIN services |->
                              IF services[j] = NoValue THEN <<>>
                              ELSE ServicePart(r, desc[i].udn, services[j])]))])
-----------------------------------------------------------------------------
(* CreateClientRequestPacket, for UpnpSearchAsync. *)
CreateClientRequestPacket(Mx, St) ==
    [start |-> "M-SEARCH * HTTP/1.1",
     hdrs |-> <<Hdr("MAN", "ssdp:discover")>>
              \o (IF Mx > 0 THEN <<Hdr("MX", Mx)>> ELSE <<>>) \o <<Hdr("ST", St)>>]

(* InitEvent. *)
InitEvent == [ErrCode |-> 0, Cmd |-> "SERROR", RequestType |-> "ERROR", Mx |-> -1,
              Man |-> FALSE, UDN |-> NoValue, DeviceType |-> NoValue, ServiceType |-> NoValue,
              stopped |-> FALSE]
Syntax == 1

(* CheckHdr: the command of the start line, or an error that AnalyzeCommand
   does not take for one. *)
CheckHdr(start, Evt) ==
    CASE start = "M-SEARCH * HTTP/1.1" -> [Evt EXCEPT !.Cmd = "SEARCH"]
      [] start = "NOTIFY * HTTP/1.1"   -> [Evt EXCEPT !.Cmd = "NOTIFY"]
      [] start = "HTTP/1.1 200 OK"     -> [Evt EXCEPT !.Cmd = "OK"]
      [] OTHER                         -> [Evt EXCEPT !.ErrCode = Syntax]

(* Unique_Service_Name: what the parts of a USN, or a target, add. *)
Part(Evt, target) ==
    CASE target.kind = "uuid:"        -> [Evt EXCEPT !.UDN = target.name]
      [] target.kind = "urn:device:"  -> [Evt EXCEPT !.DeviceType = target.name]
      [] target.kind = "urn:service:" -> [Evt EXCEPT !.ServiceType = target.name]
      [] OTHER -> Evt
Unique_Service_Name(usn, Evt) == FoldLeft(Part, Evt, usn)
KnownUsn(usn) == \E i \in DOMAIN usn : usn[i].kind \in {"uuid:", "urn:device:", "urn:service:"}

(* Request_Tpye, for ST and NT; it clears an error found before. *)
RequestTypes == [k \in {"ssdp:all", "upnp:rootdevice", "uuid:", "urn:device:", "urn:service:"} |->
                    CASE k = "ssdp:all" -> "ALL"
                      [] k = "upnp:rootdevice" -> "ROOTDEVICE"
                      [] k \in {"uuid:", "urn:device:"} -> "DEVICE"
                      [] k = "urn:service:" -> "SERVICE"]
Request_Tpye(target, Evt) ==
    LET e == Unique_Service_Name(<<target>>, Evt)
    IN  IF target.kind \in DOMAIN RequestTypes
        THEN [e EXCEPT !.ErrCode = 0, !.RequestType = RequestTypes[target.kind]]
        ELSE [e EXCEPT !.ErrCode = Syntax]

(* The handlers of the headers; one that fails ends the analysis. *)
Accepted(h) ==
    CASE h.key \in {"ST", "NT"} -> h.val.kind \in DOMAIN RequestTypes
      [] h.key = "USN" -> KnownUsn(h.val)
      [] h.key = "NTS" -> h.val \in {"alive", "byebye"}
      [] h.key = "MX"  -> h.val > 0
      [] h.key = "MAN" -> h.val # NoValue
      [] OTHER -> TRUE
Handle(Evt, h) ==
    CASE h.key \in {"ST", "NT"} -> Request_Tpye(h.val, Evt)
      [] h.key = "USN" -> Unique_Service_Name(h.val, Evt)
      [] h.key = "NTS" -> [Evt EXCEPT !.Cmd = IF h.val = "alive" THEN "ALIVE" ELSE "BYEBYE"]
      [] h.key = "MX"  -> [Evt EXCEPT !.Mx = h.val]
      [] h.key = "MAN" -> [Evt EXCEPT !.Man = TRUE]
      [] OTHER -> Evt

(* AnalyzeCommand: whether it succeeds, and the event; the handler that fails
   is the last to be called, and all but that of USN then set ErrCode. *)
Analyzed(p) == \A i \in DOMAIN p.hdrs : Accepted(p.hdrs[i])
HandleNext(Evt, h) ==
    IF Evt.stopped THEN Evt
    ELSE IF Accepted(h) THEN Handle(Evt, h)
    ELSE [Evt EXCEPT !.stopped = TRUE, !.ErrCode = IF h.key = "USN" THEN @ ELSE Syntax]
AnalyzeCommand(p) == FoldLeft(HandleNext, CheckHdr(p.start, InitEvent), p.hdrs)

(* TransferResEvent: an M-SEARCH needs MX and MAN. *)
Transferred(p) ==
    Analyzed(p) /\ LET e == AnalyzeCommand(p)
                   IN  e.Cmd = "SEARCH" => e.Mx >= 0 /\ e.Man

(* SsdpCallbackEventHandler: the replies of a device to a packet, *)
Replies(p, desc) ==
    LET e == AnalyzeCommand(p)
    IN  IF Transferred(p) /\ e.ErrCode = 0 /\ e.Cmd = "SEARCH"
        THEN AdvertiseAndReply([AdFlag |-> 0, RequestType |-> e.RequestType, UDN |-> e.UDN,
                                DeviceType |-> e.DeviceType, ServiceType |-> e.ServiceType],
                               desc)
        ELSE <<>>

(* and the Upnp_Discovery events of a control point, from the listener or
   from RequestHandler. *)
EventTypes == [c \in {"OK", "ALIVE", "BYEBYE"} |->
                 CASE c = "OK" -> "SEARCH_RESULT" [] c = "ALIVE" -> "ADVERTISEMENT_ALIVE"
                   [] c = "BYEBYE" -> "ADVERTISEMENT_BYEBYE"]
Reported(p) == LET e == AnalyzeCommand(p)
               IN  Analyzed(p) /\ e.ErrCode = 0 /\ e.Cmd \in DOMAIN EventTypes
Upnp_Discovery(e) == [type |-> EventTypes[e.Cmd], DeviceId |-> e.UDN,
                      DeviceType |-> e.DeviceType, ServiceType |-> e.ServiceType]
Events(packets) == {Upnp_Discovery(AnalyzeCommand(p)) : p \in {q \in packets : Reported(q)}}
-----------------------------------------------------------------------------
(* What control points should learn of a description: of the device with its
   UDN alone, with its type, and with each of its services. *)
Told(type, i, desc) ==
    LET News(d, s) == [type |-> type, DeviceId |-> desc[i].udn, DeviceType |-> d, ServiceType |-> s]
    IN  [udn |-> News(NoValue, NoValue), type |-> News(desc[i].type, NoValue),
         services |-> {News(NoValue, s) : s \in UNION {Range(l) : l \in Range(desc[i].serviceLists)}}]
AllTold(type, desc) ==
    UNION {{Told(type, i, desc).udn, Told(type, i, desc).type} \cup Told(type, i, desc).services :
             i \in DOMAIN desc}
(* and what of it answers a search. *)
Matching(target, desc) ==
    LET told(i) == Told("SEARCH_RESULT", i, desc)
        D == DOMAIN desc
    IN  CASE target.kind = "ssdp:all" -> AllTold("SEARCH_RESULT", desc)
          [] target.kind = "upnp:rootdevice" -> {told(1).udn}
          [] target.kind = "uuid:" -> {told(i).udn : i \in {j \in D : desc[j].udn = target.name}}
          [] target.kind = "urn:device:" ->
                {told(i).type : i \in {j \in D : desc[j].type = target.name}}
          [] target.kind = "urn:service:" ->
                {n \in UNION {told(i).services : i \in D} : n.ServiceType = target.name}

(* There is a root device, and each device has what it must have, and its
   services in one list.  (With no list, or with two, services are taken for
   those of other devices.) *)
WellFormed(desc) ==
    /\ desc \in Seq(Range(desc)) /\ desc # <<>>
    /\ \A i \in DOMAIN desc :
          /\ desc[i].type # NoValue /\ desc[i].udn # NoValue
          /\ Len(desc[i].serviceLists) = 1
          /\ desc[i].serviceLists \in Seq(Seq(Range(desc[i].serviceLists[1])))

(* A description is told of correctly: the advertisements of a regular
   description, and its byebye messages, make control points learn of exactly
   its devices and services, and a search finds exactly those that match
   (AdvertiseAndReply, ssdplib.c, ssdpparser.c). *)
ToldCorrectly(desc, Mx, target) ==
    LET Learnt(packets) == Events(Range(packets))
    IN  WellFormed(desc) =>
          /\ Learnt(AdvertiseAndReply(Advertise(1), desc)) = AllTold("ADVERTISEMENT_ALIVE", desc)
          /\ Learnt(AdvertiseAndReply(Advertise(-1), desc)) = AllTold("ADVERTISEMENT_BYEBYE", desc)
          /\ Learnt(Replies(CreateClientRequestPacket(Mx, target), desc)) = Matching(target, desc)
=============================================================================

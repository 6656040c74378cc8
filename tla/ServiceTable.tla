--------------------------- MODULE ServiceTable ---------------------------
(***************************************************************************)
(* The service table of a root device: how getServiceTable collects the    *)
(* services of a description document (service_table.c), and how requests  *)
(* find a service in it.                                                   *)
(*                                                                         *)
(* A description is the sequence of its device elements in document order, *)
(* each with its UDN and its serviceList (NoList when one of the two       *)
(* elements is missing).  A service is the text of its five elements,      *)
(* NoText where there is none.  URLs are resolved in module Url; here a    *)
(* URL is its host and its path.                                           *)
(***************************************************************************)
EXTENDS Integers, Sequences, SequencesExt

CONSTANTS NoText, NoList

(* A description is a sequence, and so is each of its lists. *)
Described(description) ==
    /\ description \in Seq(Range(description))
    /\ \A i \in DOMAIN description :
          LET l == description[i].serviceList IN l = NoList \/ l \in Seq(Range(l))

(* What every service needs; getServiceList notes a lack of it in fail. *)
Complete(udn, s) ==
    NoText \notin {udn, s.serviceType, s.serviceId, s.SCPDURL}

(* A missing control or event URL resets fail, also where it was set. *)
Admitted(udn, s) ==
    Complete(udn, s) \/ NoText \in {s.controlURL, s.eventSubURL}

(* The services of one device, as nodes of the table. *)
getServiceList(device) ==
    IF device.serviceList = NoList THEN <<>>
    ELSE FlattenSeq([i \in DOMAIN device.serviceList |->
             LET s == device.serviceList[i]
             IN  IF Admitted(device.UDN, s) THEN <<[s EXCEPT !.UDN = device.UDN]>> ELSE <<>>])

(* The local variables of getAllServiceList: the list from head on, the    *)
(* positions end and next_end point to, 0 for a null pointer.              *)
NoServices == [list |-> <<>>, end |-> 0, next_end |-> 0, corrupt |-> FALSE]

(* Mutant: the end pointer is left at the first node of the new list. *)
EndPointerFirst(device, before, old) ==
    IF device.serviceList = NoList THEN old
    ELSE IF getServiceList(device) = <<>> THEN 0 ELSE before + 1

(* getServiceList leaves the caller's end pointer alone when the device    *)
(* has no service list, and makes it null when no service of it is good.   *)
EndPointer(device, before, old) ==
    LET services == getServiceList(device)
    IN  IF device.serviceList = NoList THEN old
        ELSE IF services = <<>> THEN 0 ELSE before + Len(services)

(* One turn of the loop of getAllServiceList.  Linking behind a null end   *)
(* pointer is where the program would break down.                          *)
AddServices(t, device) ==
    IF t.corrupt THEN t
    ELSE IF t.list = <<>> THEN
        [t EXCEPT !.list = getServiceList(device),
                  !.end = EndPointer(device, 0, t.end)]
    ELSE IF t.end = 0 THEN [t EXCEPT !.corrupt = TRUE]
    ELSE LET next_end == EndPointer(device, t.end, t.next_end)
         IN  [t EXCEPT !.list = SubSeq(t.list, 1, t.end)
                                  \o getServiceList(device),
                       !.next_end = next_end, !.end = next_end]

getServiceTable(description) == FoldLeft(AddServices, NoServices, description)

(* The first service whose control URL has this path, whatever its host. *)
FindServiceControlURLPath(list, path) ==
    {i \in DOMAIN list :
        /\ list[i].controlURL # NoText /\ list[i].controlURL.path = path
        /\ \A j \in 1..(i - 1) :
              list[j].controlURL # NoText => list[j].controlURL.path # path}
=============================================================================

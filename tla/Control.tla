------------------------------ MODULE Control ------------------------------
(***************************************************************************)
(* Control over SOAP (soap.c) with the calls of upnpapi.c that start it: a *)
(* control point invokes actions and queries variables, synchronously or   *)
(* through the thread pool; the device looks the service up by the path of *)
(* the request, calls the application and answers.  Root devices come and  *)
(* go meanwhile (UpnpRegisterRootDevice, UpnpUnRegisterRootDevice).        *)
(*                                                                         *)
(* A name is a sequence of characters, of which those in Alnum are letters *)
(* or digits; an argument's text is "plain" or holds the word              *)
(* QueryStateVariable, which the device looks for anywhere in a request.   *)
(* Printing and parsing documents is module Xml, reading an answer module  *)
(* Transfer: here a message arrives whole or not at all.                   *)
(***************************************************************************)
EXTENDS ServiceTable, FiniteSets

CONSTANTS Calls,             \* the control point's calls
          Invocations,       \* [kind, url, name, text]
          Descriptions,      \* descriptions a device may register
          Outcomes,          \* what the application may answer
          Alnum,             \* the characters isalnum accepts
          MaxRegistrations   \* bound on UpnpRegisterRootDevice

(* A name, a description and its lists of services are sequences. *)
ControlAssumption ==
    /\ \A r \in Invocations : r.name \in Seq(Range(r.name))
    /\ \A d \in Descriptions : Described(d)

UPNP_E_SUCCESS == 0
UPNP_E_INVALID_ACTION == -115
UPNP_E_INVALID_URL == -108
NoAnswer == [status |-> 0, code |-> 0, body |-> NoText]

(* The documents and values an answer may hold besides the application's. *)
UPnPError == <<"UPnPError">>
Description == <<"errorDescription">>
NULL == <<"NULL">>

VARIABLES device,   \* HandleTable[1]: the service table and a serial number
          serial,   \* registrations so far (ghost)
          tables,   \* the service table of each registration (ghost)
          calls     \* per call: where the control point (pc) and the device (at)
              \* are with it, the request, and what has become of it; asked is
              \* the registration when it was sent, 0 for none, called the one
              \* whose callback was called (ghosts)

deviceVars == <<device, serial, tables>>
controlVars == <<device, serial, tables, calls>>

(* HandleTable[1] with the description of the device (DescDocument). *)
NoDevice == [list |-> <<>>, serial |-> 0, description |-> <<>>,
             corrupt |-> FALSE]

(* What GetDeviceInfo copies, Fun for the callback with its cookie, and the *)
(* name of the action or variable.                                         *)
NoService == [Fun |-> 0, DevUDN |-> NoText, ServiceID |-> NoText, name |-> <<>>]

NoCall == [pc |-> "idle", at |-> "none",
         request |-> CHOOSE r \in Invocations : TRUE, service |-> NoService, outcome |-> NoAnswer,
         answer |-> NoAnswer, ret |-> UPNP_E_SUCCESS, got |-> NoText,
         asked |-> 0, called |-> 0]

ControlInit ==
    /\ device = NoDevice
    /\ serial = 0 /\ tables = <<>>
    /\ calls = [c \in Calls |-> NoCall]

(* strstr *)
Within(part, whole) ==
    \E i \in 0..(Len(whole) - Len(part)) :
        SubSeq(whole, i + 1, i + Len(part)) = part

(* GetActionName on a request: letters and digits, as far as they go. *)
GetActionName(name) ==
    LET Stops(i) == name[i] \notin Alnum
        ends == {i \in DOMAIN name : Stops(i)}
    IN  {SubSeq(name, 1, n) : n \in {n \in 0..Len(name) :
            /\ n = Len(name) \/ n + 1 \in ends
            /\ \A i \in 1..n : i \notin ends}}

-----------------------------------------------------------------------------
(* The device's application.  After a description that getServiceTable     *)
(* breaks down on (corrupt), nothing more is claimed.                      *)

UpnpRegisterRootDevice(d) ==
    /\ device = NoDevice /\ serial < MaxRegistrations
    /\ serial' = serial + 1
    /\ \E table \in {getServiceTable(d)} :
          /\ device' = [list |-> table.list, serial |-> serial + 1,
                        description |-> d, corrupt |-> table.corrupt]
          /\ tables' = [n \in 1..(serial + 1) |->
                           IF n <= serial THEN tables[n] ELSE table.list]
    /\ UNCHANGED calls

(* The table goes with genaUnregisterDevice, under the lock; until the     *)
(* handle is free a lookup finds nothing either.                           *)
UpnpUnRegisterRootDevice ==
    /\ device # NoDevice
    /\ device' = NoDevice
    /\ UNCHANGED <<serial, tables, calls>>

-----------------------------------------------------------------------------
(* The control point's side. *)

ClientMoves(c, from, record) ==
    /\ calls[c].pc = from
    /\ calls' = [calls EXCEPT ![c] = record]
    /\ UNCHANGED deviceVars

(* UpnpSendAction and UpnpGetServiceVarStatus: the calling thread sends. *)
SoapSend(c) ==
    \E r \in Invocations :
        ClientMoves(c, "idle", [calls[c] EXCEPT !.pc = "waiting", !.at = "coming",
                                   !.request = r, !.asked = device.serial])

(* UpnpSendActionAsync and UpnpGetServiceVarStatusAsync hand a copy to the *)
(* pool and return success, whatever tpool_Schedule returned.              *)
SendAsync(c) ==
    \E r \in Invocations, refused \in BOOLEAN :
        ClientMoves(c, "idle",
              [calls[c] EXCEPT !.pc = IF refused THEN "forgotten" ELSE "queued",
                               !.request = r])

(* UpnpThreadDistribution; Fun gets what SoapReturns returns. *)
UpnpThreadDistribution(c) ==
    ClientMoves(c, "queued",
                [calls[c] EXCEPT !.pc = "waiting", !.at = "coming",
                                 !.asked = device.serial])

(* No answer in time, or one shorter than MIN_LEN; the device may have the *)
(* request nevertheless, or be working on it.                              *)
NothingReceived(c) ==
    ClientMoves(c, "waiting",
                [calls[c] EXCEPT !.pc = "done", !.ret = UPNP_E_INVALID_URL])

(* What SoapSendAction makes of an answer: the response it wants has the   *)
(* name of the action somewhere in its own; an answer that is not 200 is   *)
(* returned as its error code.                                             *)
ActionReturn(name, answer) ==
    IF answer.status = 200
    THEN IF Within(name, answer.body)
         THEN [ret |-> UPNP_E_SUCCESS, got |-> answer.body]
         ELSE [ret |-> UPNP_E_INVALID_ACTION, got |-> NoText]
    ELSE [ret |-> answer.code, got |-> UPnPError]

(* SoapGetServiceVarStatus *)
VariableReturn(answer) ==
    IF answer.status = 200
    THEN [ret |-> UPNP_E_SUCCESS, got |-> answer.body]
    ELSE [ret |-> answer.code, got |-> Description]

SoapReturns(c) ==
    LET call == calls[c]
        r == IF call.request.kind = "action"
             THEN ActionReturn(call.request.name, call.answer)
             ELSE VariableReturn(call.answer)
    IN  /\ call.at = "answered"
        /\ ClientMoves(c, "waiting",
              [call EXCEPT !.pc = "done", !.ret = r.ret, !.got = r.got])

-----------------------------------------------------------------------------
(* The device's side. *)

CreateControlFailure(code) ==
    [status |-> 500, code |-> code, body |-> NoText]
CreateControlResponse(body) ==
    [status |-> 200, code |-> UPNP_E_SUCCESS, body |-> body]

(* GetDeviceInfo: the service, its device and the callback are copied      *)
(* under one hold of the handle lock.                                      *)
GetDeviceInfo(path) ==
    {[Fun |-> device.serial, DevUDN |-> device.list[i].UDN,
      ServiceID |-> device.list[i].serviceId]
        : i \in FindServiceControlURLPath(device.list, path)}

DeviceMoves(c, from, record) ==
    /\ calls[c].at = from
    /\ calls' = [calls EXCEPT ![c] = record]
    /\ UNCHANGED deviceVars

Fails(c, code) ==
    DeviceMoves(c, "coming", [calls[c] EXCEPT !.at = "answered",
                                 !.answer = CreateControlFailure(code)])

(* The word QueryStateVariable anywhere makes a request a query. *)
IsQuery(request) ==
    request.kind = "query" \/ request.text = "QueryStateVariable"

(* A query that is an action really: its body holds no variable name. *)
GetVarNameFails(c) ==
    /\ calls[c].request.kind # "query"
    /\ Fails(c, UPNP_E_INVALID_URL)

(* What is passed to the application.  GetActionNode succeeds, as the body *)
(* that SoapSendAction sends begins with the element the header names.     *)
FoundService(c) ==
    \E info \in GetDeviceInfo(calls[c].request.url.path) :
    \E name \in IF IsQuery(calls[c].request) THEN {calls[c].request.name}
                ELSE GetActionName(calls[c].request.name) :
        DeviceMoves(c, "coming",
            [calls[c] EXCEPT !.at = "calling",
                             !.service = [Fun |-> info.Fun, DevUDN |-> info.DevUDN,
                                          ServiceID |-> info.ServiceID,
                                          name |-> name]])

NotFound(c) ==
    /\ GetDeviceInfo(calls[c].request.url.path) = {}
    /\ Fails(c, IF IsQuery(calls[c].request) THEN UPNP_E_INVALID_URL
                ELSE UPNP_E_INVALID_ACTION)

(* ProcessSoapEventPacket up to the callback *)
ProcessSoapEventPacket(c) ==
    \/ IsQuery(calls[c].request) /\ GetVarNameFails(c)
    \/ /\ IsQuery(calls[c].request) => calls[c].request.kind = "query"
       /\ FoundService(c) \/ NotFound(c)

(* What is answered for the outcome of the callback: an action that went   *)
(* well without a result document is a failure with code 0, a variable     *)
(* without a value is answered as the text NULL.                           *)
Answer(request, outcome) ==
    IF outcome.code # UPNP_E_SUCCESS THEN CreateControlFailure(outcome.code)
    ELSE IF outcome.body # NoText THEN CreateControlResponse(outcome.body)
    ELSE IF request.kind = "action" THEN CreateControlFailure(UPNP_E_SUCCESS)
    ELSE CreateControlResponse(NULL)

(* Mutant: the callback is read from the handle when it is called.         *)
CallbackNow(call) == device.serial

(* The callback is the one that was copied with the service, whatever has  *)
(* become of the device since.                                             *)
Callback(call) == call.service.Fun

(* The callback and the answer, outside the lock. *)
SoapEventCallback(c) ==
    \E outcome \in Outcomes :
        DeviceMoves(c, "calling",
              [calls[c] EXCEPT !.at = "answered", !.outcome = outcome,
                               !.called = Callback(calls[c]),
                               !.answer = Answer(calls[c].request, outcome)])

-----------------------------------------------------------------------------

ControlNext ==
  /\ ~device.corrupt
  /\ \/ \E d \in Descriptions : UpnpRegisterRootDevice(d)
     \/ UpnpUnRegisterRootDevice
     \/ \E c \in Calls :
           \/ SoapSend(c)
           \/ SendAsync(c)
           \/ UpnpThreadDistribution(c)
           \/ NothingReceived(c)
           \/ ProcessSoapEventPacket(c)
           \/ SoapEventCallback(c)
           \/ SoapReturns(c)

ControlSpec == ControlInit /\ [][ControlNext]_controlVars
-----------------------------------------------------------------------------
Regular(request) ==
    /\ request.text # "QueryStateVariable"
    /\ \A i \in DOMAIN request.name : request.name[i] \in Alnum

(* What is passed to the application is the name that was asked for, the   *)
(* UDN and the service id of the first service with the path of the        *)
(* request in the table of one registration, not older than the request,   *)
(* and the application called is the one of that same registration,        *)
(* although the device may have left, and another come, since the lookup.  *)
PassedRight(call) ==
    LET service == call.service
        n == service.Fun
    IN  service # NoService =>
          /\ Regular(call.request) => service.name = call.request.name
          /\ n \in 1..serial /\ n >= call.asked /\ call.called \in {0, n}
          /\ \E i \in FindServiceControlURLPath(tables[n], call.request.url.path) :
                /\ service.DevUDN = tables[n][i].UDN
                /\ service.ServiceID = tables[n][i].serviceId

(* A request is not refused while the device that had the service when it  *)
(* was sent is still there.                                                *)
FoundRight(call) ==
    /\ call.at \in {"calling", "answered"} /\ Regular(call.request)
    /\ call.asked # 0 /\ call.asked = device.serial
    /\ FindServiceControlURLPath(device.list, call.request.url.path) # {}
    => call.service # NoService

(* An error of the application is returned as such, success only for its   *)
(* own answer; an action whose callback set no result is the exception,    *)
(* which the control point sees as a success with an error document.       *)
ReturnedRight(call) ==
    LET outcome == call.outcome
        whole == call.got # NoText
    IN  /\ whole /\ outcome.code # UPNP_E_SUCCESS =>
              call.ret = outcome.code
        /\ call.ret = UPNP_E_SUCCESS =>
              /\ call.service # NoService /\ outcome.code = UPNP_E_SUCCESS
              /\ call.got \in {outcome.body, NULL, UPnPError}
              /\ call.got # outcome.body => outcome.body = NoText

(* GetDeviceInfo, ProcessSoapEventPacket, SoapSendAction,                  *)
(* SoapGetServiceVarStatus: with a lookup under the lock, a callback       *)
(* outside it and devices that leave and are replaced at any time, a       *)
(* request reaches the application of the device that its service belongs  *)
(* to, is found where the device stayed, and its caller gets what the      *)
(* application made of it.  The application of a device that has left in   *)
(* between may still be called.                                            *)
ControlAnswered ==
    \A c \in Calls :
        LET call == calls[c]
        IN  /\ PassedRight(call) /\ FoundRight(call)
            /\ call.pc = "done" => ReturnedRight(call)

(* getAllServiceList: the table of a registered device holds every         *)
(* admitted service of every device of its description, in their order;    *)
(* it breaks down only on a device that offers none.                       *)
TableComplete ==
    LET offers == [i \in DOMAIN device.description |->
                      getServiceList(device.description[i])]
    IN  IF device.corrupt THEN \E i \in DOMAIN offers : offers[i] = <<>>
        ELSE device.list = FlattenSeq(offers)
=============================================================================

----------------------------- MODULE MiniServer -----------------------------
(***************************************************************************)
(* The mini server, miniserver.cpp: started by UpnpInit, it accepts        *)
(* connections and gives each to a job of the pool, which reads the        *)
(* request, passes it to SOAP, GENA or the web server and closes the       *)
(* connection.  UpnpFinish stops it with signals.                          *)
(*                                                                         *)
(* There is no lock: gMServState and gMServThread are plain variables, and *)
(* a step of the model reads or writes one of them, or makes one system    *)
(* call.  Descriptors are numbers that the kernel gives out again, lowest  *)
(* first, as soon as they are closed.                                      *)
(***************************************************************************)
EXTENDS Naturals, Sequences, FiniteSets

CONSTANTS Conns,    \* connections that clients make
          Workers,  \* threads of the pool, apart from the server's own
          MaxFd,    \* size of the descriptor table
          Listen, Free, NoConn,
          Faults    \* "start": no socket or no thread; "accept": accept
                    \* fails; "schedule": the pool refuses a job;
                    \* "malformed": GENA requests that do not parse

ASSUME ServerAssumption ==
    /\ MaxFd \in Nat \ {0}
    /\ Listen # Free /\ {Listen, Free, NoConn} \cap Conns = {}
    /\ Faults \subseteq {"start", "accept", "schedule", "malformed"}

Fds == 1 .. MaxFd
NoFd == 0

(* The descriptor of the listening socket, the first one opened. *)
listenfd == 1

VARIABLES
    gMServState,   \* "IDLE", "RUNNING" or "STOPPING"
    gMServThread,  \* it is the server's thread, not 0
    srv,           \* where RunMiniServer is
    connectfd,     \* its local variable
    api,           \* where the thread that calls Start- and StopMiniServer is
    fd,            \* the descriptor table
    jobs,          \* HandleRequest jobs in the pool's queue
    worker,        \* what each thread of the pool does
    peer,          \* how the clients see their connections
    refused        \* ghost: connections whose job the pool refused

vars == <<gMServState, gMServThread, srv, connectfd, api, fd, jobs, worker,
          peer, refused>>
-----------------------------------------------------------------------------
Idle == [pc |-> "idle", fd |-> NoFd, conn |-> NoConn, twice |-> FALSE]

Init == /\ gMServState = "IDLE" /\ gMServThread = FALSE
        /\ srv = "none" /\ connectfd = NoFd
        /\ api = "off"
        /\ fd = [f \in Fds |-> Free]
        /\ jobs = <<>>
        /\ worker = [w \in Workers |-> Idle]
        /\ peer = [c \in Conns |-> "none"]
        /\ refused = {}

FreeFds == {f \in Fds : fd[f] = Free}

(* close(f): what f refers to is closed, for whoever uses it; of a listening
   socket the connections not yet accepted as well.  On a free descriptor it
   does nothing. *)
Close(f) ==
    /\ fd' = [fd EXCEPT ![f] = Free]
    /\ peer' = [c \in Conns |->
                   IF \/ fd[f] = c
                      \/ fd[f] = Listen /\ peer[c] = "backlog"
                   THEN "closed" ELSE peer[c]]

-----------------------------------------------------------------------------
(* StartMiniServer.  On failure it closes what it opened. *)
StartMiniServer ==
    /\ api = "off"
    /\ \/ /\ "start" \in Faults
          /\ api' = "failed"
          /\ UNCHANGED <<fd, srv>>
       \/ /\ fd' = [fd EXCEPT ![listenfd] = Listen]
          /\ srv' = "scheduled"
          /\ api' = "starting"
    /\ UNCHANGED <<gMServState, gMServThread, connectfd, jobs, worker, peer, refused>>

(* It returns when it sees the server run. *)
StartReturns ==
    /\ api = "starting"
    /\ gMServState = "RUNNING"
    /\ api' = "up"
    /\ UNCHANGED <<gMServState, gMServThread, srv, connectfd, fd, jobs, worker,
                   peer, refused>>

(* StopMiniServer: an idle server needs no stop. *)
StopMiniServer ==
    /\ api \in {"up", "failed"}
    /\ IF gMServState = "IDLE"
       THEN api' = "stopped" /\ UNCHANGED gMServState
       ELSE api' = "test" /\ gMServState' = "STOPPING"
    /\ UNCHANGED <<gMServThread, srv, connectfd, fd, jobs, worker, peer, refused>>

(* Its loop: test, signal, test again, sleep for a second. *)
StopTest ==
    /\ api = "test"
    /\ api' = IF gMServState = "IDLE" THEN "stopped" ELSE "signal"
    /\ UNCHANGED <<gMServState, gMServThread, srv, connectfd, fd, jobs, worker,
                   peer, refused>>

(* tintr_Interrupt: the signal makes a blocked accept return EINTR and is
   without effect anywhere else.  When the server has just set gMServThread
   to 0, pthread_kill returns an error or the process crashes, depending on
   the C library. *)
StopSignal ==
    /\ api = "signal"
    /\ IF gMServThread
       THEN api' = "again" /\ srv' = IF srv = "accept" THEN "eintr" ELSE srv
       ELSE api' \in {"again", "crashed"} /\ UNCHANGED srv
    /\ UNCHANGED <<gMServState, gMServThread, connectfd, fd, jobs, worker, peer, refused>>

(* Mutant: the signal is sent only once. *)
StopAgainOnce ==
    /\ api = "again"
    /\ gMServState = "IDLE"
    /\ api' = "stopped"
    /\ UNCHANGED <<gMServState, gMServThread, srv, connectfd, fd, jobs, worker,
                   peer, refused>>

StopAgain ==
    /\ api = "again"
    /\ api' = IF gMServState = "IDLE" THEN "stopped" ELSE "test"
    /\ UNCHANGED <<gMServState, gMServThread, srv, connectfd, fd, jobs, worker,
                   peer, refused>>

-----------------------------------------------------------------------------
(* RunMiniServer. *)

RunMiniServer ==
    /\ srv = "scheduled"
    /\ gMServThread' = TRUE
    /\ gMServState' = "RUNNING"
    /\ srv' = "top"
    /\ UNCHANGED <<connectfd, api, fd, jobs, worker, peer, refused>>

(* The test before accept, and the one after an interruption. *)
TestStop ==
    /\ srv \in {"top", "eintr"}
    /\ srv' = CASE gMServState = "STOPPING" -> "stop"
                [] srv = "top" /\ gMServState # "STOPPING" -> "tested"
                [] srv = "eintr" /\ gMServState # "STOPPING" -> "top"
    /\ UNCHANGED <<gMServState, gMServThread, connectfd, api, fd, jobs, worker,
                   peer, refused>>

(* The call of accept: a signal that came after the test has had its effect. *)
CallAccept ==
    /\ srv = "tested"
    /\ srv' = "accept"
    /\ UNCHANGED <<gMServState, gMServThread, connectfd, api, fd, jobs, worker,
                   peer, refused>>

(* accept returns the lowest free descriptor. *)
Accept(c) ==
    /\ srv = "accept"
    /\ peer[c] = "backlog"
    /\ FreeFds # {}
    /\ connectfd' = CHOOSE f \in FreeFds : \A g \in FreeFds : f <= g
    /\ fd' = [fd EXCEPT ![connectfd'] = c]
    /\ peer' = [peer EXCEPT ![c] = "open"]
    /\ srv' = "schedule"
    /\ UNCHANGED <<gMServState, gMServThread, api, jobs, worker, refused>>

(* accept fails: there is no descriptor left, or for another reason, such as
   the length it is passed, which is not initialised.  The server ends and
   leaves everything as it is. *)
AcceptFails ==
    /\ srv = "accept"
    /\ \/ FreeFds = {} /\ \E c \in Conns : peer[c] = "backlog"
       \/ "accept" \in Faults
    /\ srv' = "dead"
    /\ UNCHANGED <<gMServState, gMServThread, connectfd, api, fd, jobs, worker,
                   peer, refused>>

(* tpool_Schedule; when it refuses the client gets an error, but the
   descriptor stays open. *)
ScheduleRequest ==
    /\ srv = "schedule"
    /\ \/ /\ jobs' = Append(jobs, [fd |-> connectfd, conn |-> fd[connectfd]])
          /\ UNCHANGED refused
       \/ /\ "schedule" \in Faults
          /\ refused' = refused \cup {fd[connectfd]}
          /\ UNCHANGED jobs
    /\ srv' = "top"
    /\ connectfd' = NoFd
    /\ UNCHANGED <<gMServState, gMServThread, api, fd, worker, peer>>

(* The orderly end: the socket, the state, the thread. *)
ServerStops ==
    \/ /\ srv = "stop" /\ srv' = "closed"
       /\ Close(listenfd)
       /\ UNCHANGED <<gMServState, gMServThread, connectfd, api, jobs, worker, refused>>
    \/ /\ srv = "closed" /\ srv' = "idle"
       /\ gMServState' = "IDLE"
       /\ UNCHANGED <<gMServThread, fd, peer, connectfd, api, jobs, worker, refused>>
    \/ /\ srv = "idle" /\ srv' = "done"
       /\ gMServThread' = FALSE
       /\ UNCHANGED <<gMServState, fd, peer, connectfd, api, jobs, worker, refused>>

-----------------------------------------------------------------------------
(* HandleRequest. *)

(* What a client may send: how reading the request line ends, the method,
   how reading the headers ends, whether they give a length, and how reading
   the body ends.  A line may also be cut off: the stream ends, or a CR is
   not followed by LF. *)
Requests ==
    [line    : {"whole", "cut", "error", "timeout"},
     method  : {"GET", "POST", "M-POST", "SUBSCRIBE", "UNSUBSCRIBE", "NOTIFY", "other"},
     headers : {"whole", "cut", "error", "timeout", "bad length"},
     length  : BOOLEAN,
     body    : {"whole", "cut", "error", "timeout"}]

ReadCode(part) ==
    CASE part = "timeout" -> "RCODE_TIMEDOUT"
      [] part = "error" -> "RCODE_NETWORK_READ_ERROR"
      [] part \in {"cut", "bad length"} -> "RCODE_MALFORMED_LINE"

(* ReadRequest: the error code of the first part that is wrong.  A body that
   is cut off is taken as it is. *)
ReadRequest(r) ==
    CASE r.line # "whole" -> ReadCode(r.line)
      [] r.line = "whole" /\ r.method = "other" -> "RCODE_METHOD_NOT_IMPLEMENTED"
      [] r.line = "whole" /\ r.method # "other" ->
           IF r.headers # "whole" THEN ReadCode(r.headers)
           ELSE IF ~r.length /\ r.method \in {"POST", "M-POST"}
                THEN "RCODE_LENGTH_NOT_SPECIFIED"
           ELSE IF r.length /\ r.body \in {"error", "timeout"} THEN ReadCode(r.body)
           ELSE "RCODE_SUCCESS"

(* MultiplexCommand: who handles the method.  Without a root directory the
   web server has no callback. *)
Handlers(method) ==
    CASE method \in {"POST", "M-POST"} -> {"soap"}
      [] method \in {"SUBSCRIBE", "UNSUBSCRIBE", "NOTIFY"} -> {"gena"}
      [] method = "GET" -> {"get", "error"}
      [] method = "other" -> {"error"}

(* What can come of reading a request. *)
Outcomes ==
    UNION {IF ReadRequest(r) = "RCODE_SUCCESS" THEN Handlers(r.method) ELSE {"error"} :
               r \in Requests}

(* Mutant: what is queued when the server stops is left to itself. *)
HandleRequestRunning(w) ==
    /\ worker[w].pc = "idle"
    /\ jobs # <<>>
    /\ gMServState = "RUNNING"
    /\ worker' = [worker EXCEPT ![w] = [Idle EXCEPT !.pc = "read", !.fd = Head(jobs).fd,
                                                     !.conn = Head(jobs).conn]]
    /\ jobs' = Tail(jobs)
    /\ UNCHANGED <<gMServState, gMServThread, srv, connectfd, api, fd, peer, refused>>

(* A thread of the pool takes the job. *)
HandleRequest(w) ==
    /\ worker[w].pc = "idle"
    /\ jobs # <<>>
    /\ worker' = [worker EXCEPT ![w] = [Idle EXCEPT !.pc = "read", !.fd = Head(jobs).fd,
                                                     !.conn = Head(jobs).conn]]
    /\ jobs' = Tail(jobs)
    /\ UNCHANGED <<gMServState, gMServThread, srv, connectfd, api, fd, peer, refused>>

(* It reads the request. *)
Read(w) ==
    /\ worker[w].pc = "read"
    /\ \E o \in Outcomes : worker' = [worker EXCEPT ![w].pc = o]
    /\ UNCHANGED <<gMServState, gMServThread, srv, connectfd, api, fd, jobs, peer, refused>>

(* Mutant: an error is answered, but the connection is not closed. *)
AnswerErrorOpen(w) ==
    /\ worker[w].pc = "error"
    /\ worker' = [worker EXCEPT ![w] = Idle]
    /\ UNCHANGED <<gMServState, gMServThread, srv, connectfd, api, fd, jobs, peer, refused>>

(* HandleError; then the connection is to be closed. *)
AnswerError(w) ==
    /\ worker[w].pc = "error"
    /\ worker' = [worker EXCEPT ![w].pc = "close"]
    /\ UNCHANGED <<gMServState, gMServThread, srv, connectfd, api, fd, jobs, peer, refused>>

(* ProcessSoapEventPacket: on each of its paths the packet is answered or
   not, and the socket closed. *)
ProcessSoapEventPacket(w) ==
    /\ worker[w].pc = "soap"
    /\ worker' = [worker EXCEPT ![w].pc = "close"]
    /\ UNCHANGED <<gMServState, gMServThread, srv, connectfd, api, fd, jobs, peer, refused>>

(* http_OldServerCallback and http_ServerCallback: likewise. *)
http_OldServerCallback(w) ==
    /\ worker[w].pc = "get"
    /\ worker' = [worker EXCEPT ![w].pc = "close"]
    /\ UNCHANGED <<gMServState, gMServThread, srv, connectfd, api, fd, jobs, peer, refused>>

(* genaCallback: each handler answers with respond, which closes the socket;
   when a request does not parse, genaCallback then closes it again. *)
genaCallback(w) ==
    /\ worker[w].pc = "gena"
    /\ \E twice \in IF "malformed" \in Faults THEN BOOLEAN ELSE {FALSE} :
          worker' = [worker EXCEPT ![w].pc = "close", ![w].twice = twice]
    /\ UNCHANGED <<gMServState, gMServThread, srv, connectfd, api, fd, jobs, peer, refused>>

(* The close of HandleRequest, of respond or of another handler. *)
CloseConnection(w) ==
    /\ worker[w].pc = "close"
    /\ Close(worker[w].fd)
    /\ worker' = [worker EXCEPT ![w] = IF @.twice THEN [@ EXCEPT !.twice = FALSE]
                                       ELSE Idle]
    /\ UNCHANGED <<gMServState, gMServThread, srv, connectfd, api, jobs, refused>>

-----------------------------------------------------------------------------
(* A client connects; the backlog of the listening socket takes it. *)
Connect(c) ==
    /\ peer[c] = "none"
    /\ fd[listenfd] = Listen
    /\ peer' = [peer EXCEPT ![c] = "backlog"]
    /\ UNCHANGED <<gMServState, gMServThread, srv, connectfd, api, fd, jobs, worker, refused>>

Stopping == StopTest \/ StopSignal \/ StopAgain
AcceptSome == \E c \in Conns : Accept(c)
Server == RunMiniServer \/ TestStop \/ CallAccept \/ AcceptSome \/ ScheduleRequest \/ ServerStops
Request(w) ==
    \/ HandleRequest(w) \/ Read(w) \/ AnswerError(w)
    \/ ProcessSoapEventPacket(w) \/ http_OldServerCallback(w) \/ genaCallback(w)
    \/ CloseConnection(w)

Next == \/ StartMiniServer \/ StartReturns \/ StopMiniServer \/ Stopping
        \/ Server \/ AcceptFails
        \/ \E w \in Workers : Request(w)
        \/ \E c \in Conns : Connect(c)

(* A thread that can run does; accept returns when a connection waits, and
   reading a request ends, at the latest with its time-out. *)
Spec == /\ Init /\ [][Next]_vars
        /\ WF_vars(StartReturns) /\ WF_vars(Stopping)
        /\ WF_vars(Server)
        /\ \A w \in Workers : WF_vars(Request(w))
-----------------------------------------------------------------------------
(* Types of the variables, the descriptor table and the threads' locals. *)
TypeOK ==
    /\ gMServState \in {"IDLE", "RUNNING", "STOPPING"}
    /\ gMServThread \in BOOLEAN
    /\ srv \in {"none", "scheduled", "top", "tested", "accept", "eintr", "schedule", "stop",
                "closed", "idle", "done", "dead"}
    /\ connectfd \in Fds \cup {NoFd}
    /\ api \in {"off", "failed", "starting", "up", "test", "signal", "again",
                "stopped", "crashed"}
    /\ fd \in [Fds -> Conns \cup {Listen, Free}]
    /\ jobs \in Seq([fd : Fds, conn : Conns])
    /\ worker \in [Workers ->
                     [pc : {"idle", "read", "error", "soap", "gena", "get", "close"},
                      fd : Fds \cup {NoFd}, conn : Conns \cup {NoConn},
                      twice : BOOLEAN]]
    /\ peer \in [Conns -> {"none", "backlog", "open", "closed"}]
    /\ refused \in SUBSET Conns

(* The descriptor a job was queued with, or a thread is about to read from,
   write to or close, still is the connection it was accepted for. *)
OwnDescriptor ==
    /\ \A w \in Workers : worker[w].pc # "idle" => fd[worker[w].fd] = worker[w].conn
    /\ \A i \in DOMAIN jobs : fd[jobs[i].fd] = jobs[i].conn

(* gena_callback.c:40, respond "closes the socket": nothing is left to close
   after it, so that no thread closes a descriptor that has been given to
   another connection since. *)
OthersUntouched ==
    \A w \in Workers : worker[w].pc = "close" =>
        fd[worker[w].fd] \in {worker[w].conn, Free}

(* The users of the descriptor f. *)
Users(f) ==
    {<<"job", i>> : i \in {j \in DOMAIN jobs : jobs[j].fd = f}}
    \cup {<<"worker", w>> : w \in {v \in Workers : worker[v].fd = f}}
    \cup (IF connectfd = f THEN {<<"server", 0>>} ELSE {})

(* No connection is forgotten or shared: each open one is in exactly one
   pair of hands, except those that RunMiniServer leaves open because the
   pool refused their job. *)
OneUser ==
    \A f \in Fds : fd[f] \in Conns =>
        Cardinality(Users(f)) = IF fd[f] \in refused THEN 0 ELSE 1

(* When StopMiniServer has returned, the listening socket is closed and the
   server is out of its loop. *)
StoppedClosed ==
    api = "stopped" => /\ fd[listenfd] # Listen
                       /\ srv \in {"none", "idle", "done"}

(* Descriptors, whose numbers the kernel gives out again at once, are nobody's
   but their connection's through all errors, refusals and stops. *)
DescriptorsSound == TypeOK /\ OwnDescriptor /\ OneUser /\ StoppedClosed

(* StopMiniServer returns, although a signal that does not find the server
   in accept is lost; unless an error of accept has ended the server, which
   does not tell, or the signal came too late and crashed the process. *)
StopTerminates ==
    gMServState = "STOPPING" ~> api \in {"stopped", "crashed"} \/ srv = "dead"

(* Every connection that was accepted is closed in the end, also when the
   server stops meanwhile; unless the pool refused it. *)
ConnectionsClosed ==
    \A c \in Conns : peer[c] = "open" ~> peer[c] = "closed" \/ c \in refused
=============================================================================

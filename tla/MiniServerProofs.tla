-------------------------- MODULE MiniServerProofs --------------------------
(***************************************************************************)
(* Proofs about MiniServer, for any clients, any number of threads and any *)
(* descriptor table.                                                       *)
(***************************************************************************)
EXTENDS MiniServer, SequenceLemmas, SequenceTheorems, FiniteSetTheorems, TLAPS

-----------------------------------------------------------------------------
(* The types that hold whatever requests arrive: when a connection has been *)
(* closed under its thread (OthersUntouched), a job may be queued with a    *)
(* descriptor that is free again.                                           *)
File == Conns \cup {Listen, Free}

LooseTypes ==
    /\ gMServState \in {"IDLE", "RUNNING", "STOPPING"}
    /\ gMServThread \in BOOLEAN
    /\ srv \in {"none", "scheduled", "top", "tested", "accept", "eintr", "schedule", "stop",
                "closed", "idle", "done", "dead"}
    /\ connectfd \in Fds \cup {NoFd}
    /\ api \in {"off", "failed", "starting", "up", "test", "signal", "again",
                "stopped", "crashed"}
    /\ fd \in [Fds -> File]
    /\ jobs \in Seq([fd : Fds, conn : File])
    /\ worker \in [Workers ->
                     [pc : {"idle", "read", "error", "soap", "gena", "get", "close"},
                      fd : Fds \cup {NoFd}, conn : File \cup {NoConn}, twice : BOOLEAN]]
    /\ peer \in [Conns -> {"none", "backlog", "open", "closed"}]
    /\ refused \in SUBSET File

(* The server and the thread that starts and stops it.  The listening      *)
(* socket is open exactly while RunMiniServer may come back to accept, and *)
(* nobody who may close a descriptor has that one.                         *)
ServerInv ==
    /\ gMServState = "IDLE" <=> srv \in {"none", "scheduled", "idle", "done"}
    /\ fd[listenfd] = IF srv \in {"none", "closed", "idle", "done"} THEN Free ELSE Listen
    /\ api \in {"off", "failed"} => srv = "none"
    /\ api = "starting" => srv # "none"
    /\ api \in {"up", "test", "signal", "again"} => srv \notin {"none", "scheduled"}
    /\ api = "stopped" => srv \in {"none", "idle", "done"}
    /\ connectfd = NoFd <=> srv # "schedule"
    /\ connectfd # listenfd
    /\ \A i \in DOMAIN jobs : jobs[i].fd # listenfd
    /\ \A w \in Workers : /\ worker[w].fd # listenfd
                          /\ worker[w].pc = "idle" <=> worker[w].fd = NoFd

StartStopInv == LooseTypes /\ ServerInv

(* Who has which descriptor, when every request is regular: what a thread,
   a job or the server has is its connection, and nobody else has it. *)
OwnInv ==
    /\ \A w \in Workers : \/ worker[w] = Idle
                          \/ /\ worker[w].pc # "idle" /\ ~worker[w].twice
                             /\ worker[w].conn \in Conns
                             /\ fd[worker[w].fd] = worker[w].conn
    /\ \A i \in DOMAIN jobs : jobs[i].conn \in Conns /\ fd[jobs[i].fd] = jobs[i].conn
    /\ srv = "schedule" => fd[connectfd] \in Conns

ApartInv ==
    /\ \A i, j \in DOMAIN jobs : jobs[i].fd = jobs[j].fd => i = j
    /\ \A w, v \in Workers : worker[w].fd = worker[v].fd /\ worker[w].fd # NoFd => w = v
    /\ \A i \in DOMAIN jobs, w \in Workers : jobs[i].fd # worker[w].fd
    /\ \A i \in DOMAIN jobs : jobs[i].fd # connectfd
    /\ \A w \in Workers : worker[w].fd = connectfd => connectfd = NoFd

Held(f) == \/ \E i \in DOMAIN jobs : jobs[i].fd = f
           \/ \E w \in Workers : worker[w].fd = f
           \/ connectfd = f

(* What the descriptors are to the clients. *)
PeersInv ==
    /\ \A f \in Fds : fd[f] \in Conns =>
          /\ peer[fd[f]] = "open"
          /\ fd[f] \in refused <=> ~Held(f)
    /\ \A f, g \in Fds : fd[f] = fd[g] /\ fd[f] \in Conns => f = g
    /\ refused \in SUBSET Conns
    /\ \A c \in refused : peer[c] \in {"open", "closed"}

DescriptorsInv == StartStopInv /\ OwnInv /\ ApartInv /\ PeersInv

-----------------------------------------------------------------------------
(* The operators the steps use. *)

(* accept returns a descriptor that was free. *)
LEMMA AcceptedFree ==
    ASSUME NEW c \in Conns, Accept(c)
    PROVE  connectfd' \in Fds /\ fd[connectfd'] = Free
<1>1. FreeFds \in SUBSET Nat /\ FreeFds # {}
  BY ServerAssumption DEF Accept, FreeFds, Fds
<1>2. \E f \in FreeFds : \A g \in FreeFds : f <= g
  BY <1>1, LeastElement
<1>3. connectfd' \in FreeFds
  BY <1>2 DEF Accept
<1> QED
  BY <1>3 DEF FreeFds

(* What can come of a request. *)
LEMMA OutcomesType == Outcomes \subseteq {"error", "soap", "gena", "get"}
<1>1. \A r \in Requests : Handlers(r.method) \subseteq {"error", "soap", "gena", "get"}
  BY DEF Requests, Handlers
<1> QED
  BY <1>1 DEF Outcomes

(* A thread takes the first job, with its descriptor and its connection. *)
LEMMA HandlingJob ==
    ASSUME LooseTypes, NEW w \in Workers, HandleRequest(w)
    PROVE  /\ jobs' \in Seq([fd : Fds, conn : File])
           /\ 1 \in DOMAIN jobs
           /\ \A i \in DOMAIN jobs' : i + 1 \in DOMAIN jobs /\ i + 1 # 1 /\ jobs'[i] = jobs[i + 1]
           /\ \A i \in DOMAIN jobs : i # 1 => i - 1 \in DOMAIN jobs' /\ jobs'[i - 1] = jobs[i]
           /\ jobs[1].fd \in Fds /\ jobs[1].conn \in File
           /\ worker[w].pc = "idle" /\ worker'[w].pc = "read" /\ ~worker'[w].twice
           /\ worker'[w].fd = jobs[1].fd /\ worker'[w].conn = jobs[1].conn
           /\ worker' \in [Workers ->
                 [pc : {"idle", "read", "error", "soap", "gena", "get", "close"},
                  fd : Fds \cup {NoFd}, conn : File \cup {NoConn}, twice : BOOLEAN]]
           /\ \A v \in Workers : v # w => worker'[v] = worker[v]
           /\ UNCHANGED <<gMServState, gMServThread, srv, connectfd, api, fd, peer, refused>>
<1>1. jobs \in Seq([fd : Fds, conn : File]) /\ jobs # <<>> /\ jobs' = Tail(jobs)
  BY DEF HandleRequest, LooseTypes
<1>2. /\ Head(jobs) \in [fd : Fds, conn : File] /\ Head(jobs) = jobs[1]
      /\ jobs' \in Seq([fd : Fds, conn : File])
      /\ 1 \in DOMAIN jobs
      /\ \A i \in DOMAIN jobs' : i + 1 \in DOMAIN jobs /\ i + 1 # 1 /\ jobs'[i] = jobs[i + 1]
      /\ \A i \in DOMAIN jobs : i # 1 => i - 1 \in DOMAIN jobs' /\ jobs'[i - 1] = jobs[i]
  BY <1>1, JobTaken
<1> DEFINE x == Head(jobs)
<1>3. worker' = [worker EXCEPT ![w] = [Idle EXCEPT !.pc = "read", !.fd = x.fd, !.conn = x.conn]]
  BY DEF HandleRequest
<1>4. x \in [fd : Fds, conn : File] /\ x = jobs[1]
  BY <1>2
<1> HIDE DEF x
<1>5. /\ worker'[w].pc = "read" /\ ~worker'[w].twice
      /\ worker'[w].fd = x.fd /\ worker'[w].conn = x.conn
      /\ worker' \in [Workers ->
                 [pc : {"idle", "read", "error", "soap", "gena", "get", "close"},
                  fd : Fds \cup {NoFd}, conn : File \cup {NoConn}, twice : BOOLEAN]]
      /\ \A v \in Workers : v # w => worker'[v] = worker[v]
  BY <1>3, <1>4 DEF Idle, LooseTypes
<1> QED
  BY <1>2, <1>4, <1>5 DEF HandleRequest

Serving(w) ==
    \/ Read(w) \/ AnswerError(w) \/ ProcessSoapEventPacket(w)
    \/ http_OldServerCallback(w) \/ genaCallback(w)

(* While a request is read and answered, its thread keeps the descriptor;
   only what respond closed for a malformed one is closed twice. *)
LEMMA ServingKeeps ==
    ASSUME LooseTypes, NEW w \in Workers, Serving(w)
    PROVE  /\ worker[w].pc # "idle"
           /\ worker'[w].pc \in {"error", "soap", "gena", "get", "close"}
           /\ worker'[w].fd = worker[w].fd /\ worker'[w].conn = worker[w].conn
           /\ worker'[w].twice \in BOOLEAN
           /\ "malformed" \notin Faults /\ ~worker[w].twice => ~worker'[w].twice
           /\ worker' \in [Workers ->
                 [pc : {"idle", "read", "error", "soap", "gena", "get", "close"},
                  fd : Fds \cup {NoFd}, conn : File \cup {NoConn}, twice : BOOLEAN]]
           /\ \A v \in Workers : v # w => worker'[v] = worker[v]
           /\ UNCHANGED <<gMServState, gMServThread, srv, connectfd, api, fd, jobs, peer, refused>>
<1>1. CASE Read(w)
  <2>1. PICK o \in {"error", "soap", "gena", "get"} : worker' = [worker EXCEPT ![w].pc = o]
    BY <1>1, OutcomesType DEF Read
  <2> QED
    BY <1>1, <2>1 DEF Read, LooseTypes
<1>2. CASE genaCallback(w)
  <2>1. PICK t \in BOOLEAN : /\ worker' = [worker EXCEPT ![w].pc = "close", ![w].twice = t]
                             /\ "malformed" \notin Faults => t = FALSE
    BY <1>2 DEF genaCallback
  <2> QED
    BY <1>2, <2>1 DEF genaCallback, LooseTypes
<1>3. CASE AnswerError(w) \/ ProcessSoapEventPacket(w) \/ http_OldServerCallback(w)
  <2>1. worker' = [worker EXCEPT ![w].pc = "close"] /\ worker[w].pc # "idle"
    BY <1>3 DEF AnswerError, ProcessSoapEventPacket, http_OldServerCallback
  <2> QED
    BY <1>3, <2>1
       DEF AnswerError, ProcessSoapEventPacket, http_OldServerCallback, LooseTypes
<1> QED
  BY <1>1, <1>2, <1>3 DEF Serving

-----------------------------------------------------------------------------
(* Start and stop: LooseTypes and ServerInv are inductive whatever arrives. *)

(* UpnpInit has not started the server. *)
LEMMA StartStopInit == Init => StartStopInv
<1> SUFFICES ASSUME Init PROVE StartStopInv
  OBVIOUS
<1>0. listenfd \in Fds /\ NoFd # listenfd
  BY ServerAssumption DEF listenfd, Fds, NoFd
<1>1. LooseTypes
  <2>1. /\ fd \in [Fds -> File] /\ jobs \in Seq([fd : Fds, conn : File])
        /\ peer \in [Conns -> {"none", "backlog", "open", "closed"}]
        /\ refused \in SUBSET File
    BY DEF Init, File
  <2>2. worker \in [Workers ->
                     [pc : {"idle", "read", "error", "soap", "gena", "get", "close"},
                      fd : Fds \cup {NoFd}, conn : File \cup {NoConn}, twice : BOOLEAN]]
    BY DEF Init, Idle
  <2> QED
    BY <2>1, <2>2 DEF Init, LooseTypes
<1>2. ServerInv
  BY <1>0 DEF Init, ServerInv, Idle
<1> QED
  BY <1>1, <1>2 DEF StartStopInv

(* Types. *)
LEMMA TypesStep == StartStopInv /\ [Next]_vars => LooseTypes'
<1> SUFFICES ASSUME StartStopInv, [Next]_vars PROVE LooseTypes'
  OBVIOUS
<1>0. LooseTypes /\ ServerInv
  BY DEF StartStopInv
<1>l. listenfd \in Fds /\ NoFd \notin Fds
  BY ServerAssumption DEF listenfd, Fds, NoFd
<1>c. ASSUME NEW f \in Fds, Close(f)
      PROVE  /\ fd' \in [Fds -> File]
             /\ peer' \in [Conns -> {"none", "backlog", "open", "closed"}]
  BY <1>0, <1>c DEF Close, LooseTypes, File
<1>1. CASE StartMiniServer
  <2>1. fd' \in [Fds -> File]
    BY <1>0, <1>1, <1>l DEF StartMiniServer, LooseTypes, File
  <2> QED
    BY <1>0, <1>1, <2>1 DEF StartMiniServer, LooseTypes
<1>2. CASE StartReturns \/ StopMiniServer \/ Stopping
  BY <1>0, <1>2
     DEF StartReturns, StopMiniServer, Stopping, StopTest, StopSignal, StopAgain, LooseTypes
<1>3. CASE RunMiniServer \/ TestStop \/ CallAccept \/ AcceptFails
  BY <1>0, <1>3 DEF RunMiniServer, TestStop, CallAccept, AcceptFails, LooseTypes
<1>4. ASSUME NEW c \in Conns, Accept(c) PROVE LooseTypes'
  <2>1. connectfd' \in Fds
    BY <1>4, AcceptedFree
  <2>2. fd' \in [Fds -> File] /\ peer' \in [Conns -> {"none", "backlog", "open", "closed"}]
    BY <1>0, <1>4, <2>1 DEF Accept, LooseTypes, File
  <2> QED
    BY <1>0, <1>4, <2>1, <2>2 DEF Accept, LooseTypes
<1>5. CASE ScheduleRequest
  <2>1. connectfd \in Fds /\ fd[connectfd] \in File
    BY <1>0, <1>5 DEF ScheduleRequest, LooseTypes, ServerInv
  <2>2. jobs' \in Seq([fd : Fds, conn : File])
    <3> DEFINE x == [fd |-> connectfd, conn |-> fd[connectfd]]
    <3>1. x \in [fd : Fds, conn : File] /\ jobs \in Seq([fd : Fds, conn : File])
      BY <1>0, <2>1 DEF LooseTypes
    <3>2. jobs' = jobs \/ jobs' = Append(jobs, x)
      BY <1>5 DEF ScheduleRequest
    <3> HIDE DEF x
    <3>3. Append(jobs, x) \in Seq([fd : Fds, conn : File])
      BY <3>1, JobAdded
    <3> QED
      BY <3>1, <3>2, <3>3
  <2>3. refused' \in SUBSET File
    BY <1>0, <1>5, <2>1 DEF ScheduleRequest, LooseTypes
  <2> QED
    BY <1>0, <1>5, <2>2, <2>3 DEF ScheduleRequest, LooseTypes
<1>6. CASE ServerStops
  BY <1>0, <1>6, <1>l, <1>c DEF ServerStops, LooseTypes
<1>7. ASSUME NEW w \in Workers, HandleRequest(w) PROVE LooseTypes'
  BY <1>0, <1>7, HandlingJob DEF LooseTypes
<1>8. ASSUME NEW w \in Workers, Serving(w) PROVE LooseTypes'
  BY <1>0, <1>8, ServingKeeps DEF LooseTypes
<1>9. ASSUME NEW w \in Workers, CloseConnection(w) PROVE LooseTypes'
  <2>1. worker[w].fd \in Fds
    BY <1>0, <1>9 DEF CloseConnection, LooseTypes, ServerInv
  <2>2. worker' \in [Workers ->
                      [pc : {"idle", "read", "error", "soap", "gena", "get", "close"},
                       fd : Fds \cup {NoFd}, conn : File \cup {NoConn}, twice : BOOLEAN]]
    BY <1>0, <1>9 DEF CloseConnection, LooseTypes, Idle
  <2> QED
    BY <1>0, <1>9, <1>c, <2>1, <2>2 DEF CloseConnection, LooseTypes
<1>10. ASSUME NEW c \in Conns, Connect(c) PROVE LooseTypes'
  BY <1>0, <1>10 DEF Connect, LooseTypes
<1>11. CASE UNCHANGED vars
  BY <1>0, <1>11 DEF vars, LooseTypes
<1> QED
  BY <1>1, <1>2, <1>3, <1>4, <1>5, <1>6, <1>7, <1>8, <1>9, <1>10, <1>11
     DEF Next, Server, AcceptSome, Request, Serving

(* gMServState, the place of RunMiniServer and the listening socket agree
   through start, accept errors and stop. *)
LEMMA ServerStep == StartStopInv /\ [Next]_vars => ServerInv'
<1> SUFFICES ASSUME StartStopInv, [Next]_vars PROVE ServerInv'
  OBVIOUS
<1>0. LooseTypes /\ ServerInv
  BY DEF StartStopInv
<1>l. listenfd \in Fds /\ NoFd \notin Fds /\ Listen # Free
  BY ServerAssumption DEF listenfd, Fds, NoFd
<1>1. CASE StartMiniServer
  BY <1>0, <1>1, <1>l DEF StartMiniServer, LooseTypes, ServerInv
<1>2. CASE StartReturns \/ StopMiniServer \/ Stopping
  BY <1>0, <1>2
     DEF StartReturns, StopMiniServer, Stopping, StopTest, StopSignal, StopAgain, LooseTypes,
         ServerInv
<1>3. CASE RunMiniServer \/ TestStop \/ CallAccept \/ AcceptFails
  BY <1>0, <1>3 DEF RunMiniServer, TestStop, CallAccept, AcceptFails, LooseTypes, ServerInv
<1>4. ASSUME NEW c \in Conns, Accept(c) PROVE ServerInv'
  <2>1. connectfd' \in Fds /\ fd[connectfd'] = Free
    BY <1>4, AcceptedFree
  <2>2. srv = "accept" /\ fd[listenfd] = Listen
    BY <1>0, <1>4 DEF Accept, ServerInv
  <2>3. connectfd' # listenfd /\ fd'[listenfd] = Listen
    BY <1>0, <1>4, <1>l, <2>1, <2>2 DEF Accept, LooseTypes
  <2> QED
    BY <1>0, <1>4, <1>l, <2>1, <2>2, <2>3 DEF Accept, ServerInv
<1>5. CASE ScheduleRequest
  <2>1. connectfd # listenfd /\ connectfd \in Fds
    BY <1>0, <1>5 DEF ScheduleRequest, LooseTypes, ServerInv
  <2>2. \A i \in DOMAIN jobs' : jobs'[i].fd # listenfd
    <3> DEFINE x == [fd |-> connectfd, conn |-> fd[connectfd]]
    <3>1. x \in [fd : Fds, conn : File] /\ jobs \in Seq([fd : Fds, conn : File])
          /\ x.fd = connectfd
      BY <1>0, <2>1 DEF LooseTypes
    <3>2. jobs' = jobs \/ jobs' = Append(jobs, x)
      BY <1>5 DEF ScheduleRequest
    <3>3. \A i \in DOMAIN jobs : jobs[i].fd # listenfd
      BY <1>0 DEF ServerInv
    <3> HIDE DEF x
    <3>4. \A i \in DOMAIN Append(jobs, x) : Append(jobs, x)[i].fd # listenfd
      BY <2>1, <3>1, <3>3, JobAdded
    <3> QED
      BY <3>2, <3>3, <3>4
  <2> QED
    BY <1>0, <1>5, <1>l, <2>2 DEF ScheduleRequest, ServerInv, NoFd, listenfd
<1>6. CASE ServerStops
  BY <1>0, <1>6, <1>l DEF ServerStops, Close, LooseTypes, ServerInv
<1>7. ASSUME NEW w \in Workers, HandleRequest(w) PROVE ServerInv'
  <2>2. jobs[1].fd # listenfd /\ \A i \in DOMAIN jobs' : jobs'[i].fd # listenfd
    BY <1>0, <1>7, HandlingJob DEF ServerInv
  <2>3. \A v \in Workers : /\ worker'[v].fd # listenfd
                           /\ worker'[v].pc = "idle" <=> worker'[v].fd = NoFd
    BY <1>0, <1>7, <1>l, <2>2, HandlingJob DEF ServerInv
  <2> QED
    BY <1>0, <1>7, <2>2, <2>3, HandlingJob DEF ServerInv
<1>8. ASSUME NEW w \in Workers, Serving(w) PROVE ServerInv'
  <2>1. \A v \in Workers : /\ worker'[v].fd = worker[v].fd
                           /\ worker'[v].pc = "idle" <=> worker[v].pc = "idle"
    BY <1>0, <1>8, ServingKeeps
  <2> QED
    BY <1>0, <1>8, <2>1, ServingKeeps DEF ServerInv
<1>9. ASSUME NEW w \in Workers, CloseConnection(w) PROVE ServerInv'
  <2>1. worker[w].fd \in Fds /\ worker[w].fd # listenfd /\ worker[w].pc = "close"
    BY <1>0, <1>9 DEF CloseConnection, LooseTypes, ServerInv
  <2>2. fd'[listenfd] = fd[listenfd]
    BY <1>0, <1>9, <1>l, <2>1 DEF CloseConnection, Close, LooseTypes
  <2>3. worker'[w] = Idle \/ worker'[w] = [worker[w] EXCEPT !.twice = FALSE]
    BY <1>0, <1>9 DEF CloseConnection, LooseTypes
  <2>4. \A v \in Workers : v # w => worker'[v] = worker[v]
    BY <1>0, <1>9 DEF CloseConnection, LooseTypes
  <2>5. worker'[w].fd # listenfd /\ (worker'[w].pc = "idle" <=> worker'[w].fd = NoFd)
    BY <1>0, <1>l, <2>1, <2>3 DEF LooseTypes, Idle
  <2> QED
    BY <1>0, <1>9, <2>2, <2>4, <2>5 DEF CloseConnection, ServerInv
<1>10. ASSUME NEW c \in Conns, Connect(c) PROVE ServerInv'
  BY <1>0, <1>10 DEF Connect, ServerInv
<1>11. CASE UNCHANGED vars
  BY <1>0, <1>11 DEF vars, ServerInv
<1> QED
  BY <1>1, <1>2, <1>3, <1>4, <1>5, <1>6, <1>7, <1>8, <1>9, <1>10, <1>11
     DEF Next, Server, AcceptSome, Request, Serving

(* When StopMiniServer has returned the listening socket is closed and
   RunMiniServer is out of its loop, whatever clients have sent, also when a
   malformed GENA request has closed a connection twice. *)
THEOREM StopCloses == Spec => []StoppedClosed
<1>1. StartStopInv => StoppedClosed
  BY ServerAssumption DEF StartStopInv, ServerInv, StoppedClosed
<1>2. StartStopInv /\ [Next]_vars => StartStopInv'
  BY TypesStep, ServerStep DEF StartStopInv
<1> QED
  BY StartStopInit, <1>1, <1>2, PTL DEF Spec
-----------------------------------------------------------------------------
(* Descriptors: each is in one pair of hands, when every request is regular. *)

(* The first job is a thread's own as soon as it is taken, whatever a thread
   holds is a descriptor of the table, and a free one is nobody's. *)
LEMMA HeldTypes ==
    ASSUME StartStopInv, OwnInv
    PROVE  /\ listenfd \in Fds /\ NoFd \notin Fds
           /\ Listen # Free /\ Listen \notin Conns /\ Free \notin Conns /\ NoConn \notin Conns
           /\ \A i \in DOMAIN jobs :
                 /\ jobs[i].fd \in Fds /\ jobs[i].fd # listenfd
                 /\ jobs[i].conn \in Conns /\ fd[jobs[i].fd] = jobs[i].conn
           /\ \A w \in Workers : worker[w].fd # NoFd =>
                 /\ worker[w].pc # "idle" /\ ~worker[w].twice
                 /\ worker[w].fd \in Fds /\ worker[w].fd # listenfd
                 /\ worker[w].conn \in Conns /\ fd[worker[w].fd] = worker[w].conn
           /\ \A w \in Workers : worker[w].fd = NoFd => worker[w] = Idle
           /\ connectfd # NoFd => connectfd \in Fds /\ fd[connectfd] \in Conns
<1>1. listenfd \in Fds /\ NoFd \notin Fds
  BY ServerAssumption DEF listenfd, Fds, NoFd
<1>2. jobs \in Seq([fd : Fds, conn : File])
  BY DEF StartStopInv, LooseTypes
<1>3. \A i \in DOMAIN jobs : jobs[i] \in [fd : Fds, conn : File]
  BY <1>2, ElementOfSeq, LenProperties
<1>4. \A i \in DOMAIN jobs :
         /\ jobs[i].fd \in Fds /\ jobs[i].fd # listenfd
         /\ jobs[i].conn \in Conns /\ fd[jobs[i].fd] = jobs[i].conn
  BY <1>3 DEF StartStopInv, ServerInv, OwnInv
<1>5. \A w \in Workers : worker[w].fd # NoFd =>
                 /\ worker[w].pc # "idle" /\ ~worker[w].twice
                 /\ worker[w].fd \in Fds /\ worker[w].fd # listenfd
                 /\ worker[w].conn \in Conns /\ fd[worker[w].fd] = worker[w].conn
  BY DEF StartStopInv, LooseTypes, ServerInv, OwnInv, Idle
<1>6. \A w \in Workers : worker[w].fd = NoFd => worker[w] = Idle
  BY DEF StartStopInv, ServerInv, OwnInv
<1>7. connectfd # NoFd => connectfd \in Fds /\ fd[connectfd] \in Conns
  BY DEF StartStopInv, LooseTypes, ServerInv, OwnInv
<1> QED
  BY <1>1, <1>4, <1>5, <1>6, <1>7, ServerAssumption

(* The thread gives its connection up as it closes it. *)
LEMMA ClosingOwn ==
    ASSUME StartStopInv, OwnInv, NEW w \in Workers, CloseConnection(w)
    PROVE  /\ worker[w].fd \in Fds /\ worker[w].fd # listenfd
           /\ worker[w].conn \in Conns /\ fd[worker[w].fd] = worker[w].conn
           /\ worker'[w] = Idle
           /\ \A v \in Workers : v # w => worker'[v] = worker[v]
           /\ fd'[worker[w].fd] = Free
           /\ \A f \in Fds : f # worker[w].fd => fd'[f] = fd[f]
           /\ \A c \in Conns : peer'[c] = IF c = worker[w].conn THEN "closed" ELSE peer[c]
           /\ UNCHANGED <<gMServState, gMServThread, srv, connectfd, api, jobs, refused>>
<1>1. worker[w].pc = "close" /\ worker[w].fd # NoFd
  BY DEF CloseConnection, StartStopInv, ServerInv
<1>2. /\ worker[w].fd \in Fds /\ worker[w].fd # listenfd /\ ~worker[w].twice
      /\ worker[w].conn \in Conns /\ fd[worker[w].fd] = worker[w].conn
  BY <1>1, HeldTypes
<1>3. worker'[w] = Idle /\ \A v \in Workers : v # w => worker'[v] = worker[v]
  BY <1>2 DEF CloseConnection, StartStopInv, LooseTypes
<1>4. fd'[worker[w].fd] = Free /\ \A f \in Fds : f # worker[w].fd => fd'[f] = fd[f]
  BY <1>2 DEF CloseConnection, Close, StartStopInv, LooseTypes
<1>5. \A c \in Conns : peer'[c] = IF c = worker[w].conn THEN "closed" ELSE peer[c]
  BY <1>2, ServerAssumption DEF CloseConnection, Close
<1> QED
  BY <1>2, <1>3, <1>4, <1>5 DEF CloseConnection

(* The job of the connection just accepted, or the refusal of the pool. *)
LEMMA Scheduling ==
    ASSUME StartStopInv, OwnInv, ScheduleRequest
    PROVE  /\ connectfd \in Fds /\ fd[connectfd] \in Conns /\ connectfd' = NoFd
           /\ \/ /\ jobs' = jobs
                 /\ refused' = refused \cup {fd[connectfd]}
              \/ /\ refused' = refused
                 /\ Len(jobs) \in Nat /\ DOMAIN jobs = 1 .. Len(jobs)
                 /\ DOMAIN jobs' = 1 .. Len(jobs) + 1
                 /\ \A i \in DOMAIN jobs : jobs'[i] = jobs[i]
                 /\ jobs'[Len(jobs) + 1].fd = connectfd
                 /\ jobs'[Len(jobs) + 1].conn = fd[connectfd]
           /\ srv' = "top"
           /\ UNCHANGED <<gMServState, gMServThread, api, fd, worker, peer>>
<1>1. connectfd \in Fds /\ fd[connectfd] \in Conns
  BY DEF ScheduleRequest, StartStopInv, LooseTypes, ServerInv, OwnInv
<1> DEFINE x == [fd |-> connectfd, conn |-> fd[connectfd]]
<1>2. x \in [fd : Fds, conn : File] /\ jobs \in Seq([fd : Fds, conn : File])
  BY <1>1 DEF StartStopInv, LooseTypes, File
<1>3. x.fd = connectfd /\ x.conn = fd[connectfd]
  OBVIOUS
<1>4. \/ jobs' = jobs /\ refused' = refused \cup {fd[connectfd]}
      \/ jobs' = Append(jobs, x) /\ refused' = refused
  BY DEF ScheduleRequest
<1> HIDE DEF x
<1>5. /\ Len(jobs) \in Nat /\ DOMAIN jobs = 1 .. Len(jobs)
      /\ DOMAIN Append(jobs, x) = 1 .. Len(jobs) + 1
      /\ \A i \in DOMAIN jobs : Append(jobs, x)[i] = jobs[i]
      /\ Append(jobs, x)[Len(jobs) + 1] = x
  BY <1>2, JobAdded
<1>6. connectfd' = NoFd /\ srv' = "top"
      /\ UNCHANGED <<gMServState, gMServThread, api, fd, worker, peer>>
  BY DEF ScheduleRequest
<1> QED
  BY <1>1, <1>3, <1>4, <1>5, <1>6

(* What a thread, a job or the server has stays its connection: accept takes a
   descriptor nobody has, and only its thread closes it, once. *)
LEMMA OwnStep ==
    ASSUME "malformed" \notin Faults, StartStopInv, OwnInv, ApartInv, [Next]_vars
    PROVE  OwnInv'
<1>0. LooseTypes /\ ServerInv /\ OwnInv
  BY DEF StartStopInv
<1>1. CASE StartMiniServer
  <2>1. \A f \in Fds : f # listenfd => fd'[f] = fd[f]
    BY <1>0, <1>1 DEF StartMiniServer, LooseTypes
  <2>2. srv' # "schedule" /\ UNCHANGED <<connectfd, jobs, worker>>
    BY <1>0, <1>1 DEF StartMiniServer, ServerInv
  <2> QED
    BY <1>0, <2>1, <2>2, HeldTypes DEF OwnInv
<1>2. CASE StartReturns \/ StopMiniServer \/ Stopping
  BY <1>0, <1>2
     DEF StartReturns, StopMiniServer, Stopping, StopTest, StopSignal, StopAgain, OwnInv
<1>3. CASE RunMiniServer \/ TestStop \/ CallAccept \/ AcceptFails
  BY <1>0, <1>3 DEF RunMiniServer, TestStop, CallAccept, AcceptFails, OwnInv
<1>4. ASSUME NEW c \in Conns, Accept(c) PROVE OwnInv'
  <2>1. connectfd' \in Fds /\ fd[connectfd'] = Free
    BY <1>4, AcceptedFree
  <2>2. fd'[connectfd'] = c /\ \A f \in Fds : f # connectfd' => fd'[f] = fd[f]
    BY <1>0, <1>4, <2>1 DEF Accept, LooseTypes
  <2>3. UNCHANGED <<jobs, worker>>
    BY <1>4 DEF Accept
  <2> QED
    BY <1>0, <2>1, <2>2, <2>3, HeldTypes DEF OwnInv
<1>5. CASE ScheduleRequest
  <2>1. \A w \in Workers : \/ worker'[w] = Idle
                           \/ /\ worker'[w].pc # "idle" /\ ~worker'[w].twice
                              /\ worker'[w].conn \in Conns
                              /\ fd'[worker'[w].fd] = worker'[w].conn
    BY <1>0, <1>5, Scheduling DEF OwnInv
  <2>2. \A i \in DOMAIN jobs' : jobs'[i].conn \in Conns /\ fd'[jobs'[i].fd] = jobs'[i].conn
    BY <1>0, <1>5, Scheduling, HeldTypes
  <2> QED
    BY <1>5, <2>1, <2>2, Scheduling DEF OwnInv
<1>6. CASE ServerStops
  <2>1. \A f \in Fds : f # listenfd => fd'[f] = fd[f]
    BY <1>0, <1>6 DEF ServerStops, Close, LooseTypes
  <2>2. srv' # "schedule" /\ UNCHANGED <<connectfd, jobs, worker>>
    BY <1>6 DEF ServerStops
  <2> QED
    BY <1>0, <2>1, <2>2, HeldTypes DEF OwnInv
<1>7. ASSUME NEW w \in Workers, HandleRequest(w) PROVE OwnInv'
  <2>1. \A v \in Workers : \/ worker'[v] = Idle
                           \/ /\ worker'[v].pc # "idle" /\ ~worker'[v].twice
                              /\ worker'[v].conn \in Conns
                              /\ fd'[worker'[v].fd] = worker'[v].conn
    BY <1>0, <1>7, HandlingJob DEF OwnInv
  <2> QED
    BY <1>0, <1>7, <2>1, HandlingJob DEF OwnInv
<1>8. ASSUME NEW w \in Workers, Serving(w) PROVE OwnInv'
  <2>1. worker[w].fd # NoFd
    BY <1>0, <1>8, ServingKeeps DEF ServerInv
  <2> QED
    BY <1>0, <1>8, <2>1, ServingKeeps, HeldTypes DEF OwnInv
<1>9. ASSUME NEW w \in Workers, CloseConnection(w) PROVE OwnInv'
  <2>1. \A i \in DOMAIN jobs : jobs[i].fd # worker[w].fd
    BY <1>9 DEF ApartInv
  <2>2. worker[w].fd # NoFd /\ connectfd # worker[w].fd
    BY <1>9, ClosingOwn, HeldTypes DEF ApartInv
  <2>3. \A v \in Workers : v # w /\ worker[v].fd # NoFd => worker[v].fd # worker[w].fd
    BY DEF ApartInv
  <2>4. \A v \in Workers : \/ worker'[v] = Idle
                           \/ /\ worker'[v].pc # "idle" /\ ~worker'[v].twice
                              /\ worker'[v].conn \in Conns
                              /\ fd'[worker'[v].fd] = worker'[v].conn
    BY <1>9, <2>3, ClosingOwn, HeldTypes
  <2>5. \A i \in DOMAIN jobs' : jobs'[i].conn \in Conns /\ fd'[jobs'[i].fd] = jobs'[i].conn
    BY <1>9, <2>1, ClosingOwn, HeldTypes
  <2>6. srv' = "schedule" => fd'[connectfd'] \in Conns
    BY <1>0, <1>9, <2>2, ClosingOwn, HeldTypes DEF OwnInv, ServerInv
  <2> QED
    BY <2>4, <2>5, <2>6 DEF OwnInv
<1>10. ASSUME NEW c \in Conns, Connect(c) PROVE OwnInv'
  BY <1>0, <1>10 DEF Connect, OwnInv
<1>11. CASE UNCHANGED vars
  BY <1>0, <1>11 DEF vars, OwnInv
<1> QED
  BY <1>1, <1>2, <1>3, <1>4, <1>5, <1>6, <1>7, <1>8, <1>9, <1>10, <1>11
     DEF Next, Server, AcceptSome, Request, Serving
(* A descriptor changes hands from the server to a job and from there to a
   thread; nobody else gets it. *)
LEMMA ApartStep ==
    ASSUME StartStopInv, OwnInv, ApartInv, [Next]_vars
    PROVE  ApartInv'
<1>0. LooseTypes /\ ServerInv /\ OwnInv /\ ApartInv
  BY DEF StartStopInv
<1>1. CASE \/ StartMiniServer \/ StartReturns \/ StopMiniServer \/ Stopping
           \/ RunMiniServer \/ TestStop \/ CallAccept \/ AcceptFails \/ ServerStops
           \/ \E c \in Conns : Connect(c)
           \/ UNCHANGED vars
  <2>1. UNCHANGED <<jobs, worker, connectfd>>
    BY <1>1
       DEF StartMiniServer, StartReturns, StopMiniServer, Stopping, StopTest, StopSignal,
           StopAgain, RunMiniServer, TestStop, CallAccept, AcceptFails, ServerStops, Connect, vars
  <2> QED
    BY <1>0, <2>1 DEF ApartInv
<1>4. ASSUME NEW c \in Conns, Accept(c) PROVE ApartInv'
  <2>1. connectfd' \in Fds /\ fd[connectfd'] = Free
    BY <1>4, AcceptedFree
  <2>2. UNCHANGED <<jobs, worker>>
    BY <1>4 DEF Accept
  <2>3. /\ \A i \in DOMAIN jobs : jobs[i].fd # connectfd'
        /\ \A w \in Workers : worker[w].fd # connectfd'
    BY <1>0, <2>1, HeldTypes
  <2> QED
    BY <1>0, <2>2, <2>3 DEF ApartInv
<1>5. CASE ScheduleRequest
  <2>1. CASE jobs' = jobs
    <3>1. \A w \in Workers : worker'[w].fd = connectfd' => connectfd' = NoFd
      BY <1>5, Scheduling
    <3>2. \A i \in DOMAIN jobs : jobs[i].fd # connectfd'
      BY <1>5, Scheduling, HeldTypes
    <3> QED
      BY <1>0, <1>5, <2>1, <3>1, <3>2, Scheduling DEF ApartInv
  <2>2. CASE jobs' # jobs
    <3> DEFINE n == Len(jobs) + 1
    <3>1. /\ connectfd \in Fds /\ connectfd' = NoFd /\ UNCHANGED worker
          /\ n \notin DOMAIN jobs
          /\ \A i \in DOMAIN jobs' : i \in DOMAIN jobs \/ i = n
          /\ \A i \in DOMAIN jobs : jobs'[i] = jobs[i]
          /\ jobs'[n].fd = connectfd
      BY <1>5, <2>2, Scheduling
    <3> HIDE DEF n
    <3>2. \A i, j \in DOMAIN jobs' : jobs'[i].fd = jobs'[j].fd => i = j
      BY <3>1 DEF ApartInv
    <3>3. \A i \in DOMAIN jobs', w \in Workers : jobs'[i].fd # worker'[w].fd
      BY <1>0, <3>1, HeldTypes DEF ApartInv
    <3>4. \A i \in DOMAIN jobs' : jobs'[i].fd # connectfd'
      BY <1>0, <3>1, HeldTypes
    <3> QED
      BY <1>0, <3>1, <3>2, <3>3, <3>4 DEF ApartInv
  <2> QED
    BY <2>1, <2>2
<1>7. ASSUME NEW w \in Workers, HandleRequest(w) PROVE ApartInv'
  <2>1. /\ 1 \in DOMAIN jobs
        /\ \A i \in DOMAIN jobs' : i + 1 \in DOMAIN jobs /\ i + 1 # 1 /\ jobs'[i] = jobs[i + 1]
        /\ worker'[w].fd = jobs[1].fd
        /\ \A v \in Workers : v # w => worker'[v] = worker[v]
        /\ connectfd' = connectfd
    BY <1>0, <1>7, HandlingJob
  <2>2. DOMAIN jobs' \subseteq Nat
    <3>1. jobs' \in Seq([fd : Fds, conn : File])
      BY <1>0, <1>7, HandlingJob
    <3> QED
      BY <3>1, LenProperties
  <2>3. \A i, j \in DOMAIN jobs' : jobs'[i].fd = jobs'[j].fd => i = j
    <3>1. ASSUME NEW i \in DOMAIN jobs', NEW j \in DOMAIN jobs', jobs'[i].fd = jobs'[j].fd
          PROVE  i + 1 = j + 1
      BY <2>1, <3>1 DEF ApartInv
    <3> QED
      BY <2>2, <3>1
  <2>4. \A v, u \in Workers : worker'[v].fd = worker'[u].fd /\ worker'[v].fd # NoFd => v = u
    BY <2>1 DEF ApartInv
  <2>5. \A i \in DOMAIN jobs', v \in Workers : jobs'[i].fd # worker'[v].fd
    BY <2>1 DEF ApartInv
  <2>6. \A i \in DOMAIN jobs' : jobs'[i].fd # connectfd'
    BY <2>1 DEF ApartInv
  <2>7. \A v \in Workers : worker'[v].fd = connectfd' => connectfd' = NoFd
    BY <2>1 DEF ApartInv
  <2> QED
    BY <2>3, <2>4, <2>5, <2>6, <2>7 DEF ApartInv
<1>8. ASSUME NEW w \in Workers, Serving(w) PROVE ApartInv'
  <2>1. UNCHANGED <<jobs, connectfd>> /\ \A v \in Workers : worker'[v].fd = worker[v].fd
    BY <1>0, <1>8, ServingKeeps
  <2> QED
    BY <1>0, <2>1 DEF ApartInv
<1>9. ASSUME NEW w \in Workers, CloseConnection(w) PROVE ApartInv'
  <2>1. /\ UNCHANGED <<jobs, connectfd>>
        /\ worker'[w].fd = NoFd
        /\ \A v \in Workers : v # w => worker'[v] = worker[v]
    BY <1>0, <1>9, ClosingOwn DEF Idle
  <2>2. \A i \in DOMAIN jobs' : jobs'[i].fd # NoFd
    BY <1>0, <2>1, HeldTypes
  <2>3. \A v \in Workers : worker'[v].fd = connectfd' => connectfd' = NoFd
    BY <2>1 DEF ApartInv
  <2> QED
    BY <1>0, <2>1, <2>2, <2>3 DEF ApartInv
<1> QED
  BY <1>1, <1>4, <1>5, <1>7, <1>8, <1>9
     DEF Next, Server, AcceptSome, Request, Serving

(* Only what changes hands changes Held. *)
LEMMA HeldOfHands ==
    ASSUME UNCHANGED <<jobs, worker, connectfd>>, NEW f
    PROVE  Held(f)' <=> Held(f)
BY DEF Held

(* A connection that is open has one descriptor, and somebody holds that
   unless the pool refused the connection's job. *)
LEMMA PeersStep ==
    ASSUME StartStopInv, OwnInv, ApartInv, PeersInv, [Next]_vars
    PROVE  PeersInv'
<1>0. LooseTypes /\ ServerInv /\ OwnInv /\ ApartInv /\ PeersInv
  BY DEF StartStopInv
<1>1. CASE \/ StartReturns \/ StopMiniServer \/ Stopping
           \/ RunMiniServer \/ TestStop \/ CallAccept \/ AcceptFails
           \/ UNCHANGED vars
  <2>1. UNCHANGED <<jobs, worker, connectfd, fd, peer, refused>>
    BY <1>1
       DEF StartReturns, StopMiniServer, Stopping, StopTest, StopSignal, StopAgain,
           RunMiniServer, TestStop, CallAccept, AcceptFails, vars
  <2> QED
    BY <1>0, <2>1, HeldOfHands DEF PeersInv
<1>2. CASE StartMiniServer \/ ServerStops
  <2>1. /\ UNCHANGED <<jobs, worker, connectfd, refused>>
        /\ \A f \in Fds : fd'[f] \in Conns => fd'[f] = fd[f]
    BY <1>0, <1>2, HeldTypes DEF StartMiniServer, ServerStops, Close, LooseTypes
  <2>2. \A c \in Conns : /\ peer[c] = "open" => peer'[c] = "open"
                         /\ peer[c] = "closed" => peer'[c] = "closed"
    <3>1. fd[listenfd] \notin Conns
      BY <1>0, HeldTypes DEF ServerInv
    <3> QED
      BY <1>0, <1>2, <3>1 DEF StartMiniServer, ServerStops, Close
  <2> QED
    BY <1>0, <2>1, <2>2, HeldOfHands DEF PeersInv
<1>3. ASSUME NEW c \in Conns, Connect(c) PROVE PeersInv'
  <2>1. UNCHANGED <<jobs, worker, connectfd, fd, refused>>
    BY <1>3 DEF Connect
  <2>2. \A d \in Conns : peer[d] # "none" => peer'[d] = peer[d]
    BY <1>0, <1>3 DEF Connect, LooseTypes
  <2> QED
    BY <1>0, <2>1, <2>2, HeldOfHands DEF PeersInv
<1>4. ASSUME NEW c \in Conns, Accept(c) PROVE PeersInv'
  <2>1. connectfd' \in Fds /\ fd[connectfd'] = Free /\ connectfd = NoFd
    BY <1>0, <1>4, AcceptedFree DEF Accept, ServerInv
  <2>2. fd'[connectfd'] = c /\ \A f \in Fds : f # connectfd' => fd'[f] = fd[f]
    BY <1>0, <1>4, <2>1 DEF Accept, LooseTypes
  <2>3. /\ UNCHANGED <<jobs, worker, refused>>
        /\ peer[c] = "backlog" /\ peer'[c] = "open"
        /\ \A d \in Conns : d # c => peer'[d] = peer[d]
    BY <1>0, <1>4 DEF Accept, LooseTypes
  <2>4. c \notin refused /\ \A f \in Fds : fd[f] # c
    BY <1>0, <2>3 DEF PeersInv
  <2>5. \A f \in Fds : f # connectfd' => (Held(f)' <=> Held(f))
    BY <2>1, <2>3, HeldTypes DEF Held
  <2>6. \A f \in Fds : f = connectfd' => Held(f)'
    BY DEF Held
  <2>7. \A f \in Fds : fd'[f] \in Conns =>
          /\ peer'[fd'[f]] = "open"
          /\ fd'[f] \in refused' <=> ~Held(f)'
    BY <1>0, <2>2, <2>3, <2>4, <2>5, <2>6 DEF PeersInv
  <2>8. \A f, g \in Fds : fd'[f] = fd'[g] /\ fd'[f] \in Conns => f = g
    BY <1>0, <2>2, <2>4 DEF PeersInv
  <2> QED
    BY <1>0, <2>3, <2>7, <2>8 DEF PeersInv
<1>5. CASE ScheduleRequest
  <2>1. connectfd \in Fds /\ fd[connectfd] \in Conns /\ connectfd' = NoFd
        /\ UNCHANGED <<fd, peer, worker>>
    BY <1>0, <1>5, Scheduling
  <2>2. CASE jobs' = jobs /\ refused' = refused \cup {fd[connectfd]}
    <3>1. \A f \in Fds : f = connectfd => ~Held(f)'
      <4>1. /\ \A i \in DOMAIN jobs' : jobs'[i].fd # connectfd
            /\ \A w \in Workers : worker'[w].fd # connectfd
            /\ connectfd' # connectfd
        BY <1>0, <2>1, <2>2, HeldTypes DEF ApartInv
      <4> QED
        BY <4>1 DEF Held
    <3>2. \A f \in Fds : f # connectfd => (Held(f)' <=> Held(f))
      BY <2>1, <2>2, HeldTypes DEF Held
    <3>3. \A f \in Fds : f # connectfd => fd[f] # fd[connectfd]
      BY <2>1 DEF PeersInv
    <3>4. \A f \in Fds : fd'[f] \in Conns => (fd'[f] \in refused' <=> ~Held(f)')
      BY <2>1, <2>2, <3>1, <3>2, <3>3 DEF PeersInv
    <3> QED
      BY <1>0, <2>1, <2>2, <3>4 DEF PeersInv
  <2>3. CASE ~(jobs' = jobs /\ refused' = refused \cup {fd[connectfd]})
    <3> DEFINE n == Len(jobs) + 1
    <3>1. /\ refused' = refused
          /\ Len(jobs) \in Nat /\ DOMAIN jobs = 1 .. Len(jobs)
          /\ DOMAIN jobs' = 1 .. n
          /\ \A i \in DOMAIN jobs : jobs'[i] = jobs[i]
          /\ jobs'[n].fd = connectfd
      BY <1>0, <1>5, <2>3, Scheduling
    <3>d. DOMAIN jobs' = DOMAIN jobs \cup {n}
      BY <3>1
    <3> HIDE DEF n
    <3>2. \A f \in Fds : Held(f)' <=> Held(f)
      BY <2>1, <3>1, <3>d, HeldTypes DEF Held
    <3> QED
      BY <1>0, <2>1, <3>1, <3>2 DEF PeersInv
  <2> QED
    BY <2>2, <2>3
<1>7. ASSUME NEW w \in Workers, HandleRequest(w) PROVE PeersInv'
  <2>1. \A f \in Fds : Held(f)' => Held(f)
    BY <1>0, <1>7, HandlingJob DEF Held
  <2>2. ASSUME NEW f \in Fds, Held(f) PROVE Held(f)'
    <3>1. CASE \E i \in DOMAIN jobs : jobs[i].fd = f
      <4>1. PICK i \in DOMAIN jobs : jobs[i].fd = f
        BY <3>1
      <4>2. CASE i = 1
        BY <1>0, <1>7, <4>1, <4>2, HandlingJob DEF Held
      <4>3. CASE i # 1
        BY <1>0, <1>7, <4>1, <4>3, HandlingJob DEF Held
      <4> QED
        BY <4>2, <4>3
    <3>2. CASE \E v \in Workers : worker[v].fd = f
      <4>1. worker[w].fd = NoFd
        BY <1>0, <1>7, HandlingJob DEF ServerInv
      <4>2. f # NoFd
        BY <1>0, HeldTypes
      <4> QED
        BY <1>0, <1>7, <3>2, <4>1, <4>2, HandlingJob DEF Held
    <3>3. CASE connectfd = f
      BY <1>0, <1>7, <3>3, HandlingJob DEF Held
    <3> QED
      BY <2>2, <3>1, <3>2, <3>3 DEF Held
  <2>3. UNCHANGED <<fd, peer, refused>>
    BY <1>0, <1>7, HandlingJob
  <2> QED
    BY <1>0, <2>1, <2>2, <2>3 DEF PeersInv
<1>8. ASSUME NEW w \in Workers, Serving(w) PROVE PeersInv'
  <2>1. \A f \in Fds : Held(f)' <=> Held(f)
    BY <1>0, <1>8, ServingKeeps DEF Held
  <2> QED
    BY <1>0, <1>8, <2>1, ServingKeeps DEF PeersInv
<1>9. ASSUME NEW w \in Workers, CloseConnection(w) PROVE PeersInv'
  <2> DEFINE h == worker[w].fd
  <2>1. /\ h \in Fds /\ fd[h] = worker[w].conn /\ worker[w].conn \in Conns
        /\ fd'[h] = Free /\ \A f \in Fds : f # h => fd'[f] = fd[f]
        /\ \A c \in Conns : peer'[c] = IF c = worker[w].conn THEN "closed" ELSE peer[c]
        /\ UNCHANGED <<jobs, connectfd, refused>>
    BY <1>0, <1>9, ClosingOwn
  <2>2. \A f \in Fds : f # h => (Held(f)' <=> Held(f))
    <3>1. worker'[w].fd \notin Fds /\ \A v \in Workers : v # w => worker'[v] = worker[v]
      BY <1>0, <1>9, ClosingOwn, HeldTypes DEF Idle
    <3> QED
      BY <2>1, <3>1 DEF Held
  <2> HIDE DEF h
  <2>3. \A f \in Fds : f # h => fd[f] # fd[h]
    BY <1>0, <2>1 DEF PeersInv
  <2>4. Free \notin Conns
    BY ServerAssumption
  <2>5. \A f \in Fds : fd'[f] \in Conns =>
          /\ f # h /\ fd'[f] = fd[f] /\ peer'[fd[f]] = peer[fd[f]]
    BY <2>1, <2>3, <2>4
  <2> QED
    BY <1>0, <2>1, <2>2, <2>5 DEF PeersInv
<1> QED
  BY <1>1, <1>2, <1>3, <1>4, <1>5, <1>7, <1>8, <1>9
     DEF Next, Server, AcceptSome, Request, Serving
(* Before the start nobody has a descriptor. *)
LEMMA DescriptorsInit == Init => DescriptorsInv
<1> SUFFICES ASSUME Init PROVE DescriptorsInv
  OBVIOUS
<1>1. /\ jobs = <<>> /\ DOMAIN jobs = {} /\ refused = {}
      /\ \A w \in Workers : worker[w] = Idle /\ worker[w].fd = NoFd
      /\ connectfd = NoFd /\ srv = "none"
      /\ \A f \in Fds : fd[f] = Free
  BY DEF Init, Idle
<1>2. Free \notin Conns
  BY ServerAssumption
<1> QED
  BY <1>1, <1>2, StartStopInit DEF DescriptorsInv, OwnInv, ApartInv, PeersInv

(* One pair of hands. *)
LEMMA HeldOnce ==
    ASSUME ApartInv, NEW f \in Fds
    PROVE  Cardinality(Users(f)) = IF Held(f) THEN 1 ELSE 0
<1>0. f # NoFd
  BY DEF Fds, NoFd
<1>1. \A x : x \in Users(f) <=>
         \/ \E i \in DOMAIN jobs : jobs[i].fd = f /\ x = <<"job", i>>
         \/ \E w \in Workers : worker[w].fd = f /\ x = <<"worker", w>>
         \/ connectfd = f /\ x = <<"server", 0>>
  BY DEF Users
<1>2. CASE ~Held(f)
  <2>1. Users(f) = {}
    BY <1>1, <1>2 DEF Held
  <2> QED
    BY <1>2, <2>1, FS_EmptySet
<1>3. CASE Held(f)
  <2>1. \E x : Users(f) = {x}
    <3>1. \E x : x \in Users(f)
      BY <1>1, <1>3, Zenon DEF Held
    <3>2. \A x, y \in Users(f) : x = y
      BY <1>0, <1>1 DEF ApartInv
    <3> QED
      BY <3>1, <3>2
  <2>2. Cardinality(Users(f)) = 1
    BY <2>1, FS_Singleton
  <2> QED
    BY <1>3, <2>2
<1> QED
  BY <1>2, <1>3

(* The inductive invariant says what the runs check. *)
LEMMA DescriptorsFollow == DescriptorsInv => DescriptorsSound
<1> SUFFICES ASSUME DescriptorsInv PROVE DescriptorsSound
  OBVIOUS
<1>0. StartStopInv /\ LooseTypes /\ ServerInv /\ OwnInv /\ ApartInv /\ PeersInv
  BY DEF DescriptorsInv, StartStopInv
<1>1. TypeOK
  <2>1. jobs \in Seq([fd : Fds, conn : Conns])
    <3>1. jobs \in Seq([fd : Fds, conn : File])
      BY <1>0 DEF LooseTypes
    <3>2. /\ Len(jobs) \in Nat /\ DOMAIN jobs = 1 .. Len(jobs)
          /\ jobs = [i \in 1 .. Len(jobs) |-> jobs[i]]
      BY <3>1, LenProperties
    <3>3. \A i \in 1 .. Len(jobs) : jobs[i] \in [fd : Fds, conn : File]
      BY <3>1, ElementOfSeq
    <3>4. \A i \in 1 .. Len(jobs) : jobs[i] \in [fd : Fds, conn : Conns]
      BY <1>0, <3>2, <3>3, HeldTypes
    <3>5. jobs \in [1 .. Len(jobs) -> [fd : Fds, conn : Conns]]
      BY <3>2, <3>4
    <3> QED
      BY <3>2, <3>5, SeqDef
  <2>2. worker \in [Workers ->
                     [pc : {"idle", "read", "error", "soap", "gena", "get", "close"},
                      fd : Fds \cup {NoFd}, conn : Conns \cup {NoConn}, twice : BOOLEAN]]
    <3>1. worker \in [Workers ->
                     [pc : {"idle", "read", "error", "soap", "gena", "get", "close"},
                      fd : Fds \cup {NoFd}, conn : File \cup {NoConn}, twice : BOOLEAN]]
      BY <1>0 DEF LooseTypes
    <3>2. \A w \in Workers : worker[w].conn \in Conns \cup {NoConn}
      BY <1>0 DEF OwnInv, Idle
    <3> QED
      BY <3>1, <3>2
  <2>3. fd \in [Fds -> Conns \cup {Listen, Free}] /\ refused \in SUBSET Conns
    BY <1>0 DEF LooseTypes, PeersInv, File
  <2> QED
    BY <1>0, <2>1, <2>2, <2>3 DEF TypeOK, LooseTypes
<1>2. OwnDescriptor
  BY <1>0, HeldTypes DEF OwnDescriptor, ServerInv
<1>3. OneUser
  BY <1>0, HeldOnce DEF OneUser, PeersInv
<1>4. StoppedClosed
  BY <1>0, HeldTypes DEF ServerInv, StoppedClosed
<1> QED
  BY <1>1, <1>2, <1>3, <1>4 DEF DescriptorsSound

(* A connection's descriptor stays its own from accept to the one close, in
   one pair of hands, through errors, refused jobs and a stop of the server,
   as long as genaCallback does not close twice what it could not parse: with
   "malformed" among the faults OthersUntouched, and so this, is violated. *)
THEOREM DescriptorsAreSound ==
    ASSUME "malformed" \notin Faults
    PROVE  Spec => []DescriptorsSound
<1>1. DescriptorsInv /\ [Next]_vars => DescriptorsInv'
  BY TypesStep, ServerStep, OwnStep, ApartStep, PeersStep DEF DescriptorsInv, StartStopInv
<1> QED
  BY DescriptorsInit, DescriptorsFollow, <1>1, PTL DEF Spec
=============================================================================

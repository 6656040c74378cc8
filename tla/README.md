# A verification of the UPnP SDK

The SDK (C and C++, Linux) lets a program be a UPnP device, a control point, or
both. Its API is a set of calls on handles; underneath, one process-wide thread
pool runs the listeners for HTTP and SSDP, a timer thread and every
asynchronous operation. This directory holds TLA+ models of its parts, the TLC
runs that check them on small instances, and TLAPS proofs for every instance.
Paths below are relative to the repository.

## 1. Inventory

| Component | State it keeps | Operations | Talks to |
|---|---|---|---|
| Thread pool `src/genlib/tpool/tpool.cpp` | job queue, `numThreads`, `maxThreads`, `allDie`, two condition variables | schedule, setMaxThreads, waitForZeroJobs, destructor, the worker loop | everybody: all work of the library is a job |
| Timer thread `src/genlib/timer_thread/timer_thread.c` | list of events sorted by time, `newEvent`, `shutdown`, `currentEventId` | ScheduleTimerEvent, RemoveTimerEvent, StopTimerThread, the thread | is a job of the pool and hands due events to it; used by GENA renewal and advertisement |
| GENA, device side `src/gena/gena_server.c` | nothing of its own: the subscriptions in the service table, the shared buffers of events in flight | SUBSCRIBE, renewal, UNSUBSCRIBE requests; genaInitNotify, genaNotifyAll; genaNotifyThread; genaUnregisterDevice | called by the API and the mini server, works under the handle lock, one pool job for each event and subscriber |
| Service table `src/genlib/service_table/service_table.c` | services and their subscription lists, `TotalSubscriptions` | build from a description, find, add and remove subscriptions, expiry on lookup | under the handle lock |
| GENA, control point side `src/gena/gena_client.c` | subscriptions of a client handle, each with a timer event for its renewal | subscribe, renew, unsubscribe, auto-renew, incoming NOTIFY | timer, pool, handle lock, HTTP client, callbacks to the application |
| API and handle table `src/api/upnpapi.c` | `HandleTable`, `UpnpSdkInit`, the two registration flags | UpnpInit, UpnpFinish, register and unregister, searches, actions, subscriptions | everything |
| Mini server `src/genlib/miniserver/miniserver.cpp` | server state IDLE, RUNNING or STOPPING, its thread, the callbacks for SOAP, GENA and GET | start, accept loop, dispatch, stop | pool, interrupts |
| Interrupts `src/genlib/tpool/interrupts.cpp` | per-thread interrupt flags | SIGUSR1 to a thread blocked in a system call | mini server |
| SSDP `src/ssdp/ssdplib.c`, `ssdpparser.c` | `ListenerState`, request and reply sockets, the sockets and the event of each search | listener start, loop and stop, a search, answers after a random delay, advertisement, the parser | pool, handle table |
| SOAP `src/soap/soap.c` | none | send an action or a query, answer one | handle table, service table, HTTP client, the application's callback |
| HTTP client `src/genlib/http_client/http_client.c` | none | transferHTTP, read_http_response; parse_uri, resolve_rel_url, remove_dots | SOAP, GENA, service table, urlconfig |
| Web server and aliases `src/genlib/net/http/server.cpp`, `urlconfig/urlconfig.cpp` | the document root, the list of aliased entities with reference counts | publish, withdraw, set the root, serve a GET | mini server, parser classes |
| Parser classes `src/genlib/net/http/parseutil.cpp`, `tokenizer.cpp`, `netreader.cpp` | a message being read: tokens pushed back, headers, entity | load and print start lines, headers, bodies | web server, http_Download |
| XML DOM `src/upnpdom` | node objects with links and reference counts, handles of the application | build, edit, read, free; print and parse | SOAP, GENA, service table, the application |
| Utilities `src/genlib/util`, `src/api/upnptools.c` | none | strings, lists, dates; actions and property sets | everybody |
| Sample device and control point `src/sample/tvdevice` | the television's state table; the control point's device list | actions, events, time-outs, commands | the API |

Hard behaviours, in order of how much goes wrong when they do: the order of
events over a pool that reorders jobs; state read under the handle lock, used
after it was given up for a network exchange, and looked up again; wake-ups
lost between a test and a wait; shutdown without join; ownership of buffers and
arguments shared by several jobs; allocation or thread creation failing
half-way through a handler; integers that wrap (event keys, event ids); handles
freed and given out again. `PROJECT.json` lists them under `hazards`, each at
its line, with the property that would catch it or the reason none does yet.

What makes each component correct:

* pool: no job lost, doubled or reordered; the thread count exact and bounded;
  the destructor ends, with no thread left;
* timer: an event fires when due, earliest first; its argument has one owner;
  shutdown leaves no sleeper and no event;
* eventing: a subscriber gets the published events in order, once, numbered
  consecutively, nothing before acceptance or after the end; buffers are freed
  once and after their last use; counts are exact; limits are respected;
* control point: one renewal per subscription and period, no use of a
  subscription that was freed, no event dropped that belongs to a subscription;
* handles: a handle used by a running job is either the one it was given or
  refused; init and finish leave nothing running;
* mini server and SSDP: stop ends, whatever the listener was doing;
* discovery: control points learn of exactly the devices, types and services of
  a description, and a search ends with one time-out;
* SOAP: a request reaches the application of the device its service belongs to, an
  error of the application reaches the caller as that error, and what
  is taken for success is the application's own answer;
* messages: a body is read to its end and not beyond, where one may be truncated
  without an error is known, a header that does not parse takes no other with it;
* DOM: the tree stays linked, a handle keeps its node alive, and what is
  written is read back as the same document;
* web server: an entity is deleted once, after its last reader;
* sample: the table the control point shows follows the television's.

## 2. Modules and the code

`JobQueue`, `EventStream` and `TimerService` are abstract: what a component
promises. `ThreadPool`, `GenaDevice` and `TimerThread` model the code and are
shown to implement them; `GenaClient` models the other side of eventing, over
the contracts of TimerService and of GenaDevice; `MiniServer` is where requests
come from, over the queue of the pool; `Sdk` composes start and finish, the handle
table, the SSDP listener and the jobs and timer events of advertisement.
`Search` extends `Discovery`, `Control` works on the table of `ServiceTable`, and
`TvCtrlPoint` extends `TvDevice`. `Dom`, `Xml`, `WebServer`, `Url`, `Transfer`
and `Headers` stand alone. `ThreadPoolProofs`, `TimerThreadProofs`, `GenaDeviceProofs`,
`ClientProofs`, `MiniServerProofs`, `SdkProofs` and `PartsProofs` hold the
proofs, with the facts that several of them use in `SequenceLemmas`; `ClientProofs` is
for GenaClient and the two models of http_client.c, Transfer and Url, `PartsProofs` for
WebServer, TvCtrlPoint, Control (with ServiceTable) and Search (with Discovery). An
`MC` module extends a model with the constants of its runs; `MCParts` puts together the
models that share no state with the threads of the others (section 3): it extends
Transfer, Url and the models of `PartsProofs`, and takes Dom, Xml and Headers as
instances. The map from definitions to source lines is in `PROJECT.json`. Definitions keep the names of the functions
they model. A definition whose comment begins with `Mutant:` is no part of the
model: it is the definition after it with a plausible bug, which the property
it is listed with must detect.

**ThreadPool** (tpool.cpp). One action for each critical section of the pool's
mutex. Two places are finer because the code makes them visible: a thread that
returns from `pthread_cond_timedwait` must take the mutex again, so that others
can act in between, with the result of the wait (`woken`, `timedout`) already
decided; and the destructor reads `numThreads` without the mutex, so the last
critical section of a worker is split after the decrement (`leaving` means
"decremented, mutex held"). `schedule` has four outcomes: no memory, at the
maximum, a new thread, `pthread_create` failed. In the last one the job stays
queued even when -1 is returned, as in the code. The linger time is not
modelled as a number: a waiting thread may time out at any moment. `ret` and
`finished` are ghosts.

**JobQueue**. A FIFO queue from which at most `Limit` jobs are started at a
time, each at most once, none after closing. Under the mapping `pending <- q`,
`running` is the set of callbacks being run and `closed <- allDie`.

**TimerThread** (timer_thread.c). Again one action for each critical section.
`ScheduleTimerEvent` reads the clock before it takes the mutex and is therefore
two actions. The thread's `pc` is `top` (about to look at the list), `waiting`,
`awake` (returned from the wait, mutex to be taken), `handing` (event unlinked,
`tpool_Schedule` called without the mutex) and `done`. `StopTimerThread` calls
back the events still in the list one after another, releasing the mutex for
each, sets `newEvent`, signals, and destroys mutex and condition variable
without waiting for the thread. A removed event's `newEvent` flag is not set,
as in the code: the thread then wakes for a deadline that is gone. `given`
counts, for each event, how often its argument was passed to somebody who will
free it. There is no restart, because `inc/upnp.h:642` says that UpnpFinish
"must be the last API function called" and is called only once.

**TimerService**. Events are asked for, armed, fired earliest first when due
(or while closing), delivered or cancelled.

**GenaDevice** (gena_server.c, the list operations of service_table.c, the calls
of upnpapi.c that lead to them) for one device with one service. One action for
each critical section of the handle lock; `genaNotifyThread` is therefore
Dequeue, then NotifyDrop, NotifyRequeue or NotifyStart, then genaNotify without
the lock, then NotifyFinish, which looks the subscription up again. Requests
that change nothing (wrong headers, unknown SID) have no action. The pool is a
FIFO queue whose threads take the handle lock in any order, so jobs overtake
one another just as they do in the pool. `Faults` says which steps may fail:
building the property set, allocating a job structure, copying a subscription,
writing the answer to a renewal; `ScheduleOutcomes` whether the pool may refuse
a job. The subscription list is a set (its order only decides things that the
model leaves open). `nev`, `issued`, `sent` and `used` are ghosts; `refs` and
`freed` follow the reference-counted buffers of each event.
Unregistration is two critical sections (the service table, then the handle)
and the slot can be given to a new device while jobs of the old one are queued.
Re-registration is of a device with the same service; the URLs and service ids
of the lookup are therefore not distinguished.

**EventStream**. For each subscription the events published to it, and the
NOTIFYs started, which are a prefix of them, in order, with consecutive SEQ
numbers; none before acceptance or after the end.

**GenaClient** (gena_client.c, client_table.c, registration of a client). One
action for each critical section of the handle lock, with the HTTP exchange in
between: `subscribing`, `renewing`, `unsubscribing` and `removing` are the
places where a thread is on the network and everything else goes on.
genaSubscribe holds the subscribe lock meanwhile, and an event of an unknown
subscription waits for it if its SEQ is 0 (pc `initial`); any other SEQ is refused
at once (gena_client.c:328). Which SEQ arrives first is left open, since the
initial event may be lost or never built (GenaDevice). The renewal events have the states of
TimerService without a clock: armed, handed to the pool (`job`), lost when
the pool refuses, freed. An event that is with the pool can no longer be removed,
so an automatic and an explicit renewal can overlap; the second then overwrites
`RenewEventId` and the first timer is orphaned, but fires and finds or does not
find its subscription. Answers of publishers are left open: each exchange may
succeed, fail or be refused. Two things the code does with freed memory (a
linked subscription freed when its timer cannot be scheduled; a list freed but
kept when unregistration cannot copy a subscription) set `corrupt`, after which no
thread moves, because nothing is defined any more. An
UPNP_EVENT_AUTORENEWAL_FAILED may be sent for a subscription that is still in
the list (gena_client.c:725), although upnp.h:300 calls it no longer valid; the ghost
`excused` marks those subscriptions. `owner`, `refused` and `excused` are
ghosts.

**MiniServer** (miniserver.cpp, `tintr_Interrupt`, the closing of connections in
gena_callback.c, soap.c and server.cpp). There is no lock, so a step is one
access to `gMServState` or `gMServThread`, or one system call. `srv` and `api`
are the program counters of RunMiniServer and of the thread that starts and
stops it. Descriptors are numbers given out lowest first and again as soon as they
are closed, so that a `close` too many hits whoever holds the number then; `fd`
says what each number refers to. A signal turns a blocked `accept` into EINTR
and does nothing at any other place, so that the one that comes between the test
and `accept` is lost and StopMiniServer has to send another. `accept` may fail,
the pool may refuse a job, and the start may fail, as `Faults` says. What a
request contains is reduced to how the reading of its line, headers and body ends
and its method (`Requests`); `ReadRequest` and `Handlers` compute what becomes
of it. The work of the handlers between reading and closing belongs to the modules
of their components. When gMServThread has just been reset, `pthread_kill` gets 0,
and whether that returns an error or crashes depends on the C library. A signal
that goes to a thread which has left RunMiniServer after an error of `accept` is
sent to whatever job that thread runs next; only that it does not stop the server
is modelled. `refused` is a ghost.

**Sdk** (upnpapi.c, the listener of ssdplib.c). `main` is where UpnpInit or
UpnpFinish stands; an application thread, the pool's threads and Main itself
register, unregister, advertise and use handles. Short critical sections of the
handle lock are one action. Registration and AdvertiseAndReply keep the lock
during network exchanges and are two, so that the functions that do *not* take
the lock can be seen to act in between: UpnpUnRegisterRootDevice, which frees
the description and its node lists between two critical sections (`freelists`),
the readers of the table, and UpnpRenewSubscriptionAsync, which unlocks a mutex
it does not hold (`stray`; from then on nothing is claimed of the lock). The listener
is `queued`, `top`, `tested`, in `select` or `leaving`; DeInitSsdpLib tests
`ListenerState` and sets it in two steps. A re-advertisement is a timer event
that becomes a job; each registration may start a chain of its own. `corrupt`
means that freed lists were used, after which nothing is defined.

**Discovery** (AdvertiseAndReply, the packets of ssdplib.c, ssdpparser.c,
SsdpCallbackEventHandler) is pure: from a description to packets, from a packet
to the event a control point gets. A target is a kind and a name; the kind says
which of the parser's substrings the text contains, which is what the parser
decides by. **Search** is RequestHandler's thread on top of it, with a clock in
seconds, datagrams that come late, doubled, in any order or not at all, and the
one event structure whose error code all answers share. `delayed` is the ghost
that excuses a thread which the scheduler kept away from its clock: it is then
that the code loses the time-out event.

**TvDevice** and **TvCtrlPoint** (the sample). One action for each time a mutex
is held, the requests sent meanwhile included. The television's Incr functions
read and write in two critical sections. The library keeps what GenaDevice and
GenaClient show of it: events in order, whose callbacks may overlap. `missed` and `stray` are
ghosts for events overtaken and for subscriptions that lost their place in the
list, two races of the sample that TableCurrent has to except.

**ServiceTable** and **Control** (service_table.c, soap.c, the SOAP calls of
upnpapi.c). The walk over the device elements with its two end pointers is a
fold. A call goes from the client over the URL to the service, whose UDN, id and
callback the device's side copies under one hold of the lock, then to the
application's callback without the lock, and the answer, while the device may
be unregistered and another registered in its place. The ghosts `tables` (the
table of each registration), `asked` (who was registered when the request was
sent) and `called` (whose callback was called) let ControlAnswered say that
what is called and what it is told belong together; the application of a device
that has left may still be called. A name is a sequence of characters of
which only being alphanumeric matters.

**Dom** (Node.cpp, NodeAct.cpp, Document.cpp, Element.cpp, domCif.cpp). `heap`
holds the node objects with their five links, owner and count; a freed node is
Free. Handles are what the application holds. The code keeps a tree only for
calls that `Harmless...` describes; the first other call ends the behaviour. So
the property says which use of the library is safe, and the defects outside of it
are listed in section 5.

**Xml** (the printer of domCif.cpp, Parser.cpp, Document.cpp, upnptools.c).
A document is printed and read back. The reader's state is that of the code,
with the flags and pointers it keeps from token to token.

**WebServer** (server.cpp, urlconfig.cpp). Aliases are published and withdrawn
while threads serve GETs; the list's mutex is held for each look-up and each
release, so a thread finds its entity twice.

**Url** (http_client.c). The loop of remove_dots with its stack of segments, as a
state machine over an array changed in place, called for a relative URL
(resolve_rel_url) or an alias. Expected is RFC 2396 over segments, ".." included,
although one comment denies that (section 5).

**Transfer** (http_client.c, readwrite.cpp, netreader.cpp, parseutil.cpp). A
peer's answer arrives in pieces; it may close, reset or fall silent at any point. Two
readers: transferHTTP, whose reads share one time-out that may be over with data
waiting (`late`), and http_Download over NetReader's buffer, which waits for ever. A
line is one item; a stream cut within it is either an unexpected end, which
is an error, or a TokenizerException, which http_RecvMessage reports as 0 (`TokenCut`).
TransferWhole excepts that case, and claims nothing of what http_client.c calls a
success when its time was over or the connection ended early.

**Headers** (parseutil.cpp, tokenizer.cpp). A message is a sequence of tokens.
Loads of values are sequences of steps such as Expect, Keep and Demand, which differ in
what happens to a token that does not fit: pushed back, or gone. That is all that
SkipHeader depends on. The tokenizer keeps only MAX_PUSHBACKS tokens; what a
load reads of an older one is anything.

## 3. Runs

| Run | Instance | Shows |
|---|---|---|
| `thread_pool` | 2 threads, 3 jobs, 1 waiter, maxima 1 and 2 | thread count exact, no sleeper after `allDie`, waiters woken, destructor ends with no thread left, no lost wake-up, implements JobQueue |
| `thread_pool_stranded` | 1 thread, 2 jobs, maximum 1 | *violation*: an accepted job that is never run (finding 1) |
| `timer_thread` | 3 events, ids 0 to 2, clock to 2, time-outs -1 and 1 | implements TimerService, removal never hits another's event, due events fire, shutdown is clean and the thread ends |
| `gena_faults` | 2 subscriptions, 2 threads, 2 events, every fault, changing maxima | counts and buffers right through every failure, one NOTIFY in flight per subscription, implements EventStream |
| `gena_order` | 1 subscription, 3 threads, 6 events, keys wrapping after 3, no faults | initial event first, every event sent, in order, jobs end |
| `gena_wedged` | 1 subscription, 3 events, copying may fail | *violation* (finding 2) |
| `gena_renewal` | 2 subscriptions, maximum lowered | *violation* (finding 3) |
| `gena_client` | 1 subscription, 3 threads, 3 renewal events, 2 clients one after the other, failures of copying, scheduling and hand-over | no subscription is kept whose initial event, or an event after an acknowledged one, was refused as unknown, one that can expire has a renewal coming, a renewal event has one user |
| `mini_server` | 3 connections, 2 threads, 3 descriptors, failing start, accept and hand-over | a thread uses only its own connection, no connection is forgotten or shared, a stop closes the listener and ends although signals are lost, accepted connections are closed |
| `mini_server_close` | 2 connections, 2 threads, 2 descriptors, requests that do not parse | *violation* (finding 4) |
| `sdk` | 2 devices, 1 client, 3 threads, 4 slots, 1 packet, 1 event for each handle, every failure | handles stay whose they are while somebody works under the lock, no failed registration leaves half a device, an advertised device keeps a re-advertisement coming, UpnpFinish returns |
| `parts` | see below | one property or two for each part: TreeSound, ListSound and TableCurrent, SearchSound and DescriptionTold, RoundTrip, AliasSound, UrlResolved, ControlAnswered and TableComplete, TransferWhole, HeadersKept |

Some properties are conjunctions of named parts, which fail separately:
`NobodyStranded` is TypeOK, NoWaitAfterDie and ZeroWaitersWoken, `TimerSound` is TypeOK and
StopsClean, `SubscriptionsSound` is TypeOK, TotalExact and OneInFlight,
`RenewalsSound` is TypeOK and EventInUse, `DescriptorsSound` is TypeOK,
OwnDescriptor, OneUser and StoppedClosed, `HandlesSound` is TypeOK and HandleHeld,
`TreeSound` is LinksSound, OwnersRight and HandlesLive.

The run `parts` checks nine models that have no state in common with each other
or with the threads of the other runs. An initial state belongs to one of them,
`part` names it. The variables of the others do not move: those of the instances
are 0, those of the modules extended an initial state or, for Search, that of a
search whose socket failed. So the states are the union of the states of the nine. Its properties are invariants only. The instances:

* `dom`: 5 nodes, 4 handles, 6 calls, one attribute name. Three children of one
  node, the middle one removed and put elsewhere, take five nodes.
* `tv`: 2 televisions with one variable, 2 subscriptions, 2 moves (actions,
  datagrams, timer rounds), expiry after 2 rounds.
* `search`: a root device with an embedded one, 3 services; 2 datagrams, of
  which one may be none of the answers, clock to one second past the deadline;
  DescriptionTold is evaluated for 10 descriptions and 5 targets.
* `xml`: up to 2 nodes below the root, 3 sets of attributes and 2 texts with blanks,
  mark-up and entities, with and without comments; up to one action argument.
  At most 10 nodes are read.
* `web`: 2 entities that ask for the same alias, 2 threads, 2 requests: a
  withdrawal between any two steps of two readers.
* `url`: 6 base paths with dots and empty segments, every relative reference
  with a path of up to 4 characters, with and without query, host and scheme.
* `control`: 2 calls, 4 kinds of request, 3 outcomes, 3 descriptions of three
  devices, two registrations.
* `transfer`: bodies of 0, 1, 5 or 6 bytes in chunks that do not coincide with
  buffers of 3 and 2 bytes; pieces, closing, resets, silence and the end of the time
  anywhere, in a line too.
* `headers`: requests with every pair of 46 header lines (well-formed ones in several
  foldings, and malformed ones), start lines good and bad, and answers made of
  every pair of the headers the SDK writes. What a header does to another one it does to the
  next one, so pairs are enough.

Why the bounds are enough. Pool: two threads are needed for one to wait while
another takes a job, a third job makes the queue longer than the number of
threads, a maximum that goes from 2 to 1 leaves more threads than allowed.
Timer: three events make an insertion before, between and after possible; ids
0 to 2 wrap after the third event; a time-out of -1 is due at once, and 1 is in
the future, so that the list can be out of the order of insertion. GENA: keys
wrap after 3 and six events pass the wrap; three threads let two jobs overtake
a third; two subscriptions make a buffer shared and a count exceed a maximum.
The bound in `Distribute` (fewer than `MaxKey` unsent events for one
subscription) stands for 2^31 - 1 jobs, more than fit in memory: with more, two
jobs would carry the same key. GenaClient: what is claimed is claimed
of each subscription, and the handlers touch one at a time, so one is enough;
three threads let two renewals race with a third operation, three events let
a renewal be renewed after a race, a second client takes over the slot. MiniServer: with the listening socket one
of three descriptors, three connections reuse them and can run out of them, and
two threads work on two connections while the server accepts a third.
Sdk: two devices and a client fill the three usable slots; one packet and one
event for each handle let a job of a handle meet its unregistration, which is a
matter of one job at a time. The pieces of `parts` are given with them.
`MaxEvents`, `MaxTime`, `MaxId`, `MaxKey`, `MaxClients`, `MaxPackets` and those of
`parts` are the only other bounds. Subscription ids and workers or threads are symmetric in `gena_faults` and
`gena_client`, which check safety properties only. `CHECK_DEADLOCK FALSE` is set
everywhere because the environment may stop calling.

Fairness. Weak fairness of the threads' own steps (a runnable thread runs,
a pthread mutex is obtained), of the return of a job's function and of a
transmission (sockets have time-outs), of a wait's deadline in the timer, and of
the destructor and StopTimerThread once entered. In MiniServer the same holds of
the server's loop, of a request's thread (reading ends with a time-out of the
socket at the latest) and of the loops that poll the state once a second;
failures of `accept` are never forced. In Sdk the same holds of the listener and of
each thread. For the thread in UpnpFinish strong fairness is assumed: it obtains
the handle lock some time although others keep taking it, which a pthread mutex
and pool threads that run out of jobs provide. Nothing obliges a client to
call, a linger time to pass or a clock to advance. NotifyRequeue shares its fairness with
the other ways to go on from `start`, so that a job that keeps requeueing itself is a
behaviour the liveness properties have to exclude.

## 4. Proofs

`ThreadPoolProofs` proves, for any sets of threads, jobs and waiters and any
maxima satisfying `PoolAssumption` (finitely many threads, at least as many
identities as the largest maximum):

* `ThreadCountCorrect`: `Spec => [](TypeOK /\ NumThreadsExact)`. Inductive
  invariant `CountInv` = TypeOK, NumThreadsExact and "a running thread has a
  job". Every action changes the set of counted threads by nothing, by adding
  one fresh thread or by removing one; three lemmas on cardinality turn this into
  arithmetic. The bound needs that a thread is created only below `maxThreads`, which is
  at most `Limit`, even if it was lowered since.
* `DestructorQuiescent`: `NoWaitAfterDie` and `DestroyedQuiescent` hold always.
  `DtorInv` adds to CountInv what the destructor knows at each stage: past
  "dying", allDie is set and there is no counted thread; past "drained", not
  even one still holding the mutex. That last step is the point of the proof:
  `numThreads = 0` is read without the mutex and a worker may still hold it,
  but the broadcast that follows takes the mutex and so waits for it.
* `NobodyIsStranded`: `Spec => []NobodyStranded`. `WaitersStep` shows that "a
  client blocked in waitForZeroJobs has a job to wait for" is inductive over
  the types alone: only the worker that takes the last job empties the queue, and
  it broadcasts in the same critical section. The part about workers follows
  from DtorInv.
* `PoolImplementsJobQueue`: `Spec => ImplementsJobQueue`. The extra invariant
  `JobsOnce` says that a job was scheduled before it is queued, running or
  finished and that no two of these places hold it, so that starting a job adds
  a new member to the set of running jobs; then each action maps to a step of
  JobQueue or to a stutter.

`TimerThreadProofs` proves, for any finite set of events, any integer time-outs,
any bound on the clock and either outcome of tpool_Schedule, under
`TimerAssumption` (no more events than ids, so that `currentEventId` wraps to 0
only when no id is left to clash with):

* `StopIsClean`: `Spec => []TimerSound`.
* `RemovalIsOwn`: `Spec => RemovesOwnEvent`.
* `TimerImplementsService`: `Spec => ImplementsTimerService`.

All three rest on one inductive invariant, `TimerInv`:

* `StopInv`: the signal with which StopTimerThread ends finds the thread
  waiting, or leaves newEvent set for it, and nobody resets newEvent once
  shutdown is set. TypeOK and StopsClean alone are not inductive: nothing in them
  says that the list stays empty between the last round and the destruction.
* `PlacesInv`: the list is sorted by time and holds no event twice, each record
  agrees with its call (deadline and id), and an event is in one place at most:
  its call, the list, the hands of the thread or those of StopTimerThread.
  So whoever takes an event off the list is the only one to give its
  argument away, and the first record is an earliest one.
* `IdsInv`: the ids given out are distinct and smaller than their number, so
  that RemoveTimerEvent with the id of an event that has fired finds nothing.

The lemmas before the invariant say what inserting (`InsertedOrdered`), removing
(`RemovedOrdered`) and taking the head (`TailOrdered`) do to the list, seen as
a set of records and an order; the steps only use these. The place at which
ScheduleTimerEvent inserts is counted by a cardinality, which `InsertedProperties`
turns into an index.

`GenaDeviceProofs` proves, for any finite set of subscriptions (`Sids`), any
threads, limits and faults and any width of the event key:

* `SubscriptionsAreSound`: `Spec => []SubscriptionsSound`.
* `BuffersAreSafe`: `Spec => []BuffersSafe`.
* `GenaImplementsStream`: `Spec => ImplementsEventStream`.
* `InitialIsFirst`: `Spec => InitialEventFirst`, if genaInitNotify does not fail
  before it takes the key (`"prep" \notin Faults`); otherwise the
  subscription is accepted without its initial event and a later event comes first.

The inductive invariant is `GenaInv`. `ListInv` ties the list of subscriptions to
`TotalSubscriptions`. The heart is what makes the ToSendEventKey protocol work at
all, although keys wrap from the largest to 1: the keys a subscription was given
number its events in order, and fewer than `MaxKey` of them wait, so that waiting
events never share a key (`StreamsInv`); every job carries an event of that order that
was not sent yet (`JobsInv`); no two jobs carry the same event for the same
subscription (`ApartInv`); and ToSendEventKey is the key of the event whose turn it
is (`TurnInv`). OneInFlight or the refinement alone are not inductive: nothing in
them says which job will move next. `BuffersInv` counts a reference to headers and
property set for every job that will still read them. For InitialIsFirst,
`AcceptedInv` adds that an accepted subscription has been given an event.

`ClientProofs` proves, for any subscriptions, threads, notifications and
renewals (`ClientInv`):

* `RenewalsAreSound`: `Spec => []RenewalsSound`, so that genaSubscribe and
  GenaAutoRenewSubscription never read a SID of an event that somebody else frees.
* `RenewalsArePending`: `Spec => []RenewalPending`.
* `KeptEventsAreAccepted`: `Spec => []KeptEventsAccepted`: of a subscription that the
  client keeps, the initial event was not refused, nor one after an acknowledged event. A
  first event with another SEQ may be refused, and the subscription kept.

`SubscriberInv` says that the thread of genaSubscribe is alone with its subscription
and holds the subscribe lock while the request is on its way; `OwnerInv` that a
subscription has its owner before its publisher knows it and its publisher before the
client lists it or answers its events; `RefusedInv` that a subscription of which an
event was refused is not listed, and will not be, as long as its client is
registered, where only the refusals that KeptEventsAccepted speaks of count; `EventsInv` that an event keeps its subscription. `EventInUse` is the
part of RenewalsSound that carries the proof: what a thread may rely on after it
has released the handle lock is that nobody but itself can have taken its event.

`MiniServerProofs` proves, for any number of descriptors, connections, jobs and
threads:

* `StopCloses`: with malformed requests too, StopMiniServer returns only after the
  loop was left and the listening socket closed (`StartStopInv`).
* `DescriptorsAreSound`: `Spec => []DescriptorsSound` without malformed GENA requests
  (`"malformed" \notin Faults`), with which finding 4 shows it to be false.
  `OwnInv` says that each job and thread has an open descriptor on its own
  connection, `ApartInv` that no two users have the same; only with both does
  closing one's own descriptor leave those of all the others open. `PeersInv` says
  that every open connection has a user, but those the pool refused.

`SdkProofs` proves, for any devices, clients, handles and packets and finitely many
threads (`SdkAssumption`), by the invariant `SdkInv`:

* `HandlesAreSound`: `Spec => []HandlesSound`.
* `DevicesAreWhole`: `Spec => []DevicesWhole`.
* `RefreshesArePending`: `Spec => []RefreshPending`.

None of the three is inductive. `RegInv` says that a registration has one handle, and
none while it is not in use; `ThreadInv` what a thread knows of the handle at each
place of its call; `LockInv` that a thread inside a long section holds the handle
lock unless it was unlocked by UpnpRenewSubscriptionAsync (`stray`). `ChainInv` is
RefreshPending strengthened: a refresh that will *reach* the device is there, where
RefreshPending also counts threads that are on their way out. `BoundInv` bounds the
events that are armed, due or in a thread's hands together, because each of these
alone is not kept by a step that moves one on. The proof showed one mistake of the
model: a thread that found its handle gone in AdvertiseAndReply stayed in
that state and counted as a refresh for ever; upnpapi.c:870 returns.

`PartsProofs`, and `ClientProofs` for Transfer and Url, prove what `parts` checks of
the six modules that MCParts extends, for every value of their constants. The assumptions (`WebAssumption`, `CtrlAssumption`,
`ControlAssumption`, `SearchAssumption`, `TransferAssumption`, `UrlAssumption`) are
evaluated by TLC in MCParts for the constants of the run.

* `AliasesAreSound`: `WebSpec => []AliasSound`, for any entities and names and
  finitely many threads. References are given back by alias, so the proof needs that
  find leads from the alias of a published entity to that entity and no other
  (`ListInv`, `OwnNode`), and this in turn that addEntity makes up a fresh alias for a
  name in use (`NewAlias`). `JobsInv` says that a thread that sends an entity holds
  the alias under which it is still in the list, `CountInv` that `count` is exact. One
  lemma, `Release`, covers the publisher and the readers.
* `DevicesAreListed`, `TablesAreCurrent`: `CtrlSpec => []ListSound` and
  `[]TableCurrent`, for any televisions and variables, by `CtrlInv`. Neither is
  inductive. TableCurrent speaks of a subscription whose events are all handled.
  Between two events `EventsInv` says that the last event on its way that shows a
  variable shows the television's value, and `ShownInv` that a variable no event on
  its way shows is already right in the list; `RenewedInv` that a new subscription
  that waits for its place in the list still has its initial event before it, so that
  nothing is missing when it gets there. `NodesInv` and `DevicesInv` say that the place a
  subscription has is one of its own television, and the only one of it, `OwnersInv`
  that the client has no other subscriptions.
* `CallsAreAnswered`: `ControlSpec => []ControlAnswered`, for any calls, requests,
  descriptions and outcomes. `CallInv` says of each place of a call what is known of
  the request, the service and the outcome. `DeviceInv` says that the device in the handle
  is the last one registered and has the table of that registration, so that what a lookup
  copies is in one table; afterwards only the history of registrations matters, which grows,
  and a new one has a serial number no request was sent to. The name that
  reaches the application is a scan up to the first character that is not
  alphanumeric, for which names have to be sequences (`ControlAssumption`).
* `TablesAreComplete`: `ControlSpec => []TableComplete`, for descriptions with any
  number of devices and services (`Described`: they are sequences). TableComplete is
  a statement about getServiceTable, a fold over the devices: `TableIs` shows, from one
  device to the next, that the table so far is the concatenation of what the devices
  offered and that it breaks down at a device that offers nothing.
* `DescriptionsAreTold`: `SearchSpec => []DescriptionTold`, for descriptions with any
  number of devices and services that are `WellFormed` (at least one device, one
  service list for each, types and UDNs that are not empty) and targets that are `Asked` for in a way
  the parser knows. `AdvertiseIs` and `RepliesAre` say which packets AdvertiseAndReply
  sends, as a set; `PacketTells` what the parser and the callback make of one;
  `LearntIs` puts the two together.
* `SearchesAreSound`: `SearchSpec => []SearchSound`. `ClockInv` says where the clock
  stands at each place of the thread, `HeardInv` that an
  answer that came in time has been told of or waits in the buffer with time left,
  `EndInv` that the time-out comes last and once. That what is told of matches the
  search follows from the lemmas about descriptions (`FindsMatching`).
* `TransfersAreWhole`: `TransferSpec => []TransferWhole`, for any well-formed answer,
  any sizes of the buffers and any limit. `WireInv` says that what was received is a
  piece of the stream at the right place. `PlaceInv` says, for each framing, how the
  position in the stream, the bytes read and what is left of a chunk determine one
  another (`HttpPlace`, `MessagePlace`) and what is known when a reader has `Ended`: which
  reader, and whether the time was over or the stream cut within a line.
  TransferWhole says nothing about a reader under way and so cannot be inductive.
* `UrlsAreResolved`: `UrlSpec => []UrlResolved`, for base paths and relative paths of
  any length; `UrlAssumption` says that base paths are absolute. UrlResolved speaks of the end of
  the loop and the loop changes the path it reads, so `LoopInv` relates each iteration
  to the path as it was given (`Original`): from the last character read on, nothing
  has been written yet (`Placed`); what has been written is what RFC 2396 leaves of the segments
  that are complete (`Behind`), then the one being copied (`Current`); and the
  stack `Segments` holds the places where these segments begin (`CopiedTo`). Each branch of the
  loop keeps it (`SkipDotKeeps`, `SkipTwoDotsKeeps`, `CopyCharKeeps`), the copy of
  the query ends it (`CopyRestResolves`), and the lemmas about parse_uri and Directory
  show that it holds when the loop begins (`ResolveBegins`, `ConfigureBegins`). A path that
  has once climbed above the root is refused whatever follows (`StaysRefused`).
  `Plain` excludes what the code treats differently from RFC 2396: a dot segment right
  before the query, a relative path that begins with two slashes, and a base with a query
  and no path.

DescriptionTold, TableComplete and UrlResolved are about recursive computations over data of any
size. Each fold they contain is shown to equal a function on the places of its sequence
(`TablesIs`, `HeadersIs`, `PartsIs`), whose existence, and then what is claimed of its
values, is proved by taking the least place at which it fails (`LeastElement`). There is
one such lemma for each fold because a lemma cannot have an operator as its parameter.
FlattenSeq is treated in the same way, once (`FlattenedIs`, `FlattenedRange`,
`FlattenedSingles`).

`SequenceLemmas` states what adding a job, or several, to the pool's queue and taking
one does to it, what FlattenSeq makes of a sequence of sequences, and that a set of
numbers has a least element (the descriptor that accept returns, the first free handle)
and a bounded one a greatest.

Only model-checked: all liveness (`QueueDrains`, `DtorTerminates`,
`DueEventFires`, `ThreadEnds`, `EventsSent`, `NotifyJobsEnd`, `StopTerminates`,
`ConnectionsClosed`, `FinishReturns`), which is out of the prover's reach, and three
invariants of `parts`. `HeadersKept` takes what a peer's lines mean from the constants
and its module has RECURSIVE operators; `RoundTrip` is about a printer and a
reader that recurse over a tree and over characters, whose inverse needs a lemma for
each kind of token; and `TreeSound` needs that the links form a forest, of which `Chain` and
`Tree` are recursive functions of a heap that changes.

## 5. Findings

1. *A job accepted and not run* (tpool.cpp:124). A worker whose wait timed out
   exits without looking at the queue again, and is still counted until it
   takes the mutex a second time. A job scheduled in between at `maxThreads` is
   queued, creates no thread, wakes nobody, and 0 is returned. It runs when
   `schedule` is next called.
2. *A subscription that falls silent* (gena_server.c:388). If copying the
   subscription fails, the job is dropped without advancing `ToSendEventKey`;
   the later jobs requeue themselves for ever.
3. *A refused renewal removes the subscription* (gena_server.c:1229), which
   upnp.h:1328 excludes.
4. *A connection closed under another thread* (gena_callback.c:117). A GENA
   request that does not parse is answered with `respond`, which closes the
   socket, and the socket is then closed again. If `accept` has been given the
   number in between, the connection of another request is cut off.

Where a comment of the repository says something else than the code does, and the
models follow the code:

* *".." is resolved.* The comment of resolve_rel_url says "resolution of '..' is NOT
  implemented" (http_client.c:1182), but it calls remove_dots, which resolves both kinds of dot
  segment, as its own comment (1066) and the RFC that both refer to say. UrlResolved states
  the RFC.
* *A body without CONTENT-LENGTH is returned.* "ONLY WORKS if CONTENT LENGTH: header is present"
  (http_client.c:1781); the code also reads chunks, and until the connection ends if there is any
  other CONTENT header. TransferWhole covers these cases.
* *A download cut within a line is a success.* "0: success" (readwrite.cpp:51); when the
  connection ends between CR and LF, the tokenizer's exception is not one that
  http_RecvMessage knows, and its `catch (...)` (readwrite.cpp:111) leaves 0. TransferWhole
  excepts a cut within a line (`CutInLine`).
* *An early event can be refused.* "this is to avoid mistakenly rejecting the first event"
  (gena_client.c:302); the first event to arrive is rejected if its SEQ is not 0, when the initial
  one was lost or not built. KeptEventsAccepted excepts it.

The following were met while modelling, too. The models take them into account:
either a model takes the step and the property excepts what follows, or it says
which inputs are regular. Most are no disagreement with a line of the repository,
and none has a run of its own.

*Start, finish, handles.* A callback may be called after UpnpUnRegisterClient has
returned: it is fetched under the handle lock and called without it
(gena_client.c:355; upnp.h:830 excludes it, the comment at gena_client.c:352
concedes it). UpnpUnRegisterRootDevice frees a device's lists
between two critical sections (upnpapi.c:362). AutoAdvertise may announce a
device after its byebye. SendErrorEvent calls through a null CallBackFn when the
first InitSsdpLib fails (ssdplib.c:390, 410). DeInitSsdpLib may wait for ever if
the listener goes Idle between its test and its assignment (ssdplib.c:332). After
a failure of SSDP UpnpInit leaves the timer running. GetClientHandleInfo and
GetDeviceHandleInfo know only handles 1 and 2, and UpnpFinish unregisters one
device and one client only. The asynchronous calls ignore tpool_Schedule's
result. UpnpRegisterRootDevice and UpnpRegisterClient unlock a mutex they do not hold when
the SDK is not initialised (upnpapi.c:234, 780), UpnpRenewSubscriptionAsync on every
path (1239); the model has the latter.

*Mini server.* An error of `accept`, running out of descriptors for instance, ends
RunMiniServer without resetting gMServState, and StopMiniServer then never
returns (miniserver.cpp:895). When the pool refuses a request the client is answered
but the descriptor is never closed (miniserver.cpp:886).

*Discovery.* Services are matched to devices by position, wrongly if a device
has no service list or two (upnpapi.c:2052). A bad start line is not rejected
(ssdpparser.c:627). The time-out event of a search is lost when its thread is
late (ssdplib.c:527), when the last datagram did not parse, or when the
socket fails.

*Services and SOAP.* A device without admissible services between two that have some
leaves a null end pointer, which is then dereferenced (service_table.c:597). A
missing URL resets `fail`, so that a service without type or id is admitted
(service_table.c:530). QueryStateVariable anywhere in a request makes it a query
(soap.c:1036); an action name ends at its first character that is not alphanumeric
(soap.c:391); error code 0 without a result is sent as an error and received as
a success (soap.c:1117).

*HTTP.* read_http_response returns HTTP_SUCCESS for a truncated body; an answer
ended by closing, without content headers, loses its body
(http_client.c:1618). NetReader has no time-out. A media type without parameters
is dropped, also each one that the SDK writes itself, and a first parameter other
than q is thrown away (parseutil.cpp:1518); "type/sub;" at the end of a
line takes the next header with it. An item that does not parse ends
its list without notice and without the test of minItems (parseutil.cpp:726).
Accept lists are sorted by a q that is never assigned (1748). A
language tag may be copied from a token already deleted (1870). RETRY-AFTER
and CONTENT-RANGE are missing from HeaderNameTable. Unknown methods are not refused
(2515).

*Web server and URLs.* A request with neither a method nor a version that is served is
closed without an answer, because HandleError throws in turn (server.cpp:1061). releaseEntity assigns stopServing, so that a thread that
is done makes a withdrawn alias available again (server.cpp:522); the length of
a file is taken before it is opened for sending; UPNP_E_URL_TOO_BIG leaves the
alias published. A base without path but with a query yields a URL without "/";
a dot segment right before "?" is not removed.

*DOM and XML.* insertBefore never sets the new child's PrevSibling
(NodeAct.cpp:183); `Found` is never reset (141); removing the first attribute
leaves FirstAttr dangling; replaceChild leaves the handle on the old node;
changeOwnerNode skips attributes, and insertBefore descendants; cloneNode drops
attributes; getters leak a reference. The tokenizer takes text
that is `<`, `>`, `</` or `/>` after its entities are replaced for mark-up, reads text after an
empty element from the wrong place, misparses empty attribute values and accepts
unclosed elements at the end; quotation marks in attribute values are not escaped.

*Sample.* VerifyTimeouts reads a node after freeing it (upnp_tv_ctrlpt.c:1294,
1311); events may overtake one another and EventKey is ignored; a new
subscription noted without the mutex may lose its initial event or leak;
SendAction returns with DeviceListMutex held (473); Incr functions lose updates.

## 6. Not modelled, and plan

Not modelled: Interrupts beyond the signal that wakes a listener; character-level
details of parsing (numbers, dates, escapes), host name look-up, the buffers of
HttpEntity and of the string utilities, logging; getElementsByTagName, CDATA and
processing instructions; the sample's command line. miniserver2.cpp and
parts between `#if 0` are not built. `PROJECT.json` says what of each component is left out.
What a program does after it has used freed memory is not modelled anywhere.

Composition stops at interfaces: GenaDevice and GenaClient meet in EventStream's
promise only, Control abstracts Transfer to what its result is, and MiniServer abstracts its
handlers to how they end. One model of all of them would have too many states for TLC and
would need no new definition.

Next proof: TreeSound of Dom, one edit of the links at a time.

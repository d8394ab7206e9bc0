# A TLA+ model of the LegalAssistant library

LegalAssistant is a C++ library of socket servers and clients over System V message queues, POSIX threads and
POSIX timers, with a small Qt program that shows a web page. The library is what has behaviour worth
checking: its objects are shared by several threads without locks, and talk through a bounded queue. This
directory models it, checks the models with TLC and proves theorems about them with TLAPS.

## Inventory

| Component | State | Operations | Works with |
|---|---|---|---|
| `messageHandler/CMessageHandler` | queue id, receive filter, static set of ids | init, sendMessage (3 forms), recvMessage, close, registerMsq, closeMsg, release | the System V queue |
| `objectHandler/CObject` | message handler, timer event; global `object` | run (message loop), sendMessage, setTimer, killTimer, thread calls | CMessageHandler, CTimer, CThread |
| `objectHandler/CThread` | none | create, join, exit, cancel | pthreads |
| `objectHandler/CTimer` | maps id -> callback, id -> timer | _SetTimer, _KillTimer, handle | POSIX timers, one thread per expiry |
| `objectHandler/Handler` | key, queue id, filter, listener, thread | constructor, destructor, message loop | CObject |
| `socketHandler/CSocket` | descriptor, type, style, last error | create, bind, listen, accept, connect, send, recv, close | the kernel |
| `socketHandler/CATcpServer` | `mapClient` (descriptor -> thread id, alive time), loop's thread id | start, stop, closeClient, idle timer; accept, message and receive threads | CSocket, CObject |
| `socketHandler/CATcpClient` | alive time, loop's thread id | connect, stop, closeServer, idle timer; message and receive threads | CSocket, CObject |
| `socketHandler/CSocketServer` | `mapClientThread`, `m_nClientFD` under a lock, external event | start, stop, closeClient; CMP and byte handlers | CSocket, CObject, CThreadHandler |
| `socketHandler/CSocketClient` | `mThreadId`, `m_nClientFD` under a lock | start, stop; CMP and byte handlers | CSocket, CObject, CThreadHandler |
| `global_inc/packet.h` | sequence counter | CMP header and commands, getSequence | CSocketServer, CSocketClient |
| `logHandler/LogHandler` | global stream, path, date | _log, _close, rotation | every thread |
| `global_inc/utility.h`, `container.h`, `dataType.h` | none | string and container helpers | - |
| `global_inc/utf8.h` | none | string functions over UTF-8, three of the project's own at its end | - |
| `main.cpp`, `mainwindow.cpp` | - | opens a web view | Qt |

`CThreadHandler` and `CDataHandler`, which CSocketServer and CSocketClient use, are not in the repository.
There are no tests.

What is hard in this code, in the order of its weight:

- descriptors and thread ids are used as names in messages, and both are reused: a message can arrive when
  its number means something else;
- `mapClient` is read by three kinds of threads and written by one, without a lock;
- `msgsnd` sleeps while the queue is full. IPC_SET in `CMessageHandler::init` asks for 8 MB and fails without
  privilege; the default of 16384 bytes holds three messages. Every thread can be asleep in a send, also the
  one that empties the queue;
- joins and cancels run inside message handlers: while one waits, no message is handled;
- stop() and reconnecting end threads in the middle of their work.

What makes each component correct: for the servers, every accepted descriptor is answered for by exactly one
party until it is closed once, every thread created is joined once, the application is told of a connection
and of its end once and in this order, and a client that left is let go; for the client, stopping and
reconnecting leave no thread of the old connection; for the timers, an expiry reaches the object that asked;
for the queue registry, a queue is removed once and only by its owner; for CMP, the framing never loses its
place; for the log, no line is lost to a rotation.

## Modules

| Module | What it is |
|---|---|
| `CATcpServer` | the server between start() and stop(), with its queue, threads and descriptors |
| `CATcpServerLife` | start() and stop() of the same class, over several starts, against the threads of each |
| `CSocketServer` | the other server after start(): hand-off of descriptors, client threads, closeClient, stop |
| `ConnectionService` | abstract: what a server promises about one connection's callbacks and its socket |
| `CATcpClient` | the client that may connect, stop and connect again, with the threads of every connection |
| `CSocketClient` | the client of the other pair, started and stopped, with data threads and message threads |
| `CSocket` | one socket object under the start() and stop() of each of the four classes, every step of which may fail |
| `CMPFraming` | runCMPHandler over a TCP stream that arrives in pieces |
| `PacketNumbers` | getSequence, the counter that numbers packets |
| `PacketChannel` | abstract: what reading packets from a connection promises |
| `Handler` | Handler objects, the queues of CMessageHandler, and a crash of the process |
| `CTimer` | timers, the threads they are due on, and CObject's one global timer object |
| `LogHandler`, `Mkdirp` | the log's files over midnight; the directories above them |
| `Helpers` | splitting, trimming, replacing |
| `Utf8`, `Utf8Text` | the functions of utf8.h over bytes; a buffer worked on with them beside the text it stands for |
| `MCCATcpServer`, `MCCSocketServer`, `MCCATcpClient`, `MCCSocketClient` | instances for TLC |
| `Parts` | the modules of single objects beside each other: log, mkdirp, socket, packets and their numbers, Handlers, timers |
| `MCParts`, `MCProgress` | instances of these for TLC; `MCParts` adds `Helpers`, `Utf8` and `Utf8Text` |
| `CATcpServer_proofs`, `CATcpServerLife_proofs`, `CATcpClient_proofs`, `CSocketServer_proofs`, `CSocketClient_proofs`, `CMPFraming_proofs`, `Handler_proofs`, `Parts_proofs` | theorems about the module of that name; `Parts_proofs` those of the log, mkdirp, sockets and timers, which are instances in `Parts` |

`CATcpServer` and `CSocketServer` both implement `ConnectionService`, each with a refinement mapping of its own;
`CMPFraming` implements `PacketChannel`.

The threads are composed where they interact: each server or client module has its kernel, its queue, its
threads and its application in one next-state relation. `CSocketServer` and `CSocketClient` leave what a packet
says to `CMPFraming`, what a socket is bound to to `CSocket`, and the opening of the queue to `Handler`: these
touch no other state of theirs. Objects that share nothing are not interleaved: `Parts` and `MCProgress` choose a
`unit` in the initial state, whose module then takes all the steps. How a class is used (what is set before start(),
what the application calls) is a variable too, `use` or `app`, that is chosen in the initial state from a constant set.

### CATcpServer

One action is one stretch of code in which no other thread can make a difference.

| State | Code |
|---|---|
| `backlog`, `hup`, `fdtab` | the kernel: connections waiting for accept(), connections whose client left, what each descriptor refers to |
| `queue` | the message queue; a message is its command and nId, and the connection the sender meant, which only the properties read |
| `mapClient`, `aged` | the entries' `ulReceiveThreadID`; which entries' `ulAliveTime` is over `IDLE_TIMEOUT` ago |
| `rpc`, `rfd`, `own`, `src` | where each receive thread is, its `nSocketFD`, the connection it was made for, the connection its recv() reads |
| `mpc`, `cur`, `ulThreadID`, `ulSocketFD`, `sweep` | where the message thread is in onReceiveMessage, its message and its locals, what checkIdle has left to visit |
| `apc`, `amsg` | where the accept thread is and the ACCEPT it is about to post |
| `closer` | an application thread between the check and the send of closeClient |
| `told` | which callbacks the application got for each connection |

The handlers of onReceiveMessage: CONNECT, RECEIVE and ALIVE end in one step. ACCEPT stops between
createThread and the store of the id (`HandleAccept`, `Assign`): the created thread may run its look-up
before the store. DISCONNECT, CLIENT_CLOSE and THREAD_EXIT stop in pthread_join (`Join`) and between the
close and the erase of eraseClient (`CloseFd`, `EraseEntry`). TIMER stops at each send of checkIdle
(`SweepClose`). C++11 leaves open whether `mapClient[nId]` makes the entry before createThread runs; both
orders are in `HandleAccept`. A receive thread that walks the map while the message thread writes it is
undefined behaviour; the model lets its look-up miss (`MapRace`). That it may also crash the process is
outside the model. pthread_join with an id joined before is undefined too, and returns at once in the model.

Over-approximations: accept() may return any free descriptor (the kernel returns the lowest), a thread id is
reused in any order, createThread may fail at any time. Under-approximations: the hooks of derived classes
(`callbackReceiveMessage`, `onTcpReceive`, `onReceive`, ...) are the default ones of CATcpServer.h; accept()
failing and the sleeps of the accept thread are stutters; msgsnd is not interrupted by signals; one timer
message at most waits for room at a time.

### CSocketServer

| State | Code |
|---|---|
| `backlog`, `hup`, `fdtab`, `listening` | the kernel, and whether the object's own descriptor is valid |
| `inbox`, `outbox` | the messages in the one queue for `m_nInternalFilter` and for `m_nEventFilter`; msgrcv keeps the order within a filter, and the sum is bounded |
| `lock`, `m_nClientFD`, `mapClientThread` | the members of these names; the lock is CThreadHandler's |
| `tpc`, `tfd`, `own`, `src`, `cancelled` | where each client thread is, its `nClientFD`, its connections, whether a cancellation is pending |
| `mpc`, `cur`; `apc`, `amsg` | the message thread and the accept thread |
| `xpc`, `xfd`, `xpid`, `visited` | the application's thread: the step of closeClient or of stop it is at |
| `told` | what has been posted to the application of each connection |

`Hand` is cmpHandler or dataHandler: it takes the lock, stores the descriptor, creates the thread. `Start` is the
thread's entry function, which reads the descriptor and releases the lock. `use.cmp` says which of runCMPHandler
and runDataHandler the threads run: the second makes no entry in mapClientThread. What a packet holds is abstract
here: `RecvPacket` is one passed on or answered in place, `RecvInvalid` one of the wrong length. A cancelled
thread goes on to its next cancellation point. closeClient is five steps, as the threads it races with touch the
same map. stop() visits every entry it finds, in any order. CThreadHandler is not in the repository; its
functions are taken to do what those of CThread do. pthread_join with the id 0, which closeClient can post, is
taken to return at once. Only PK_MSQ is modelled, and stream sockets.

### CATcpServerLife

| State | Code |
|---|---|
| `born`, `hup`, `fdtab` | the clients that have connected, those that left, the accepted descriptors |
| `m_nSocketFD`, `msqid`, `munRunThreadId` | the start() whose listening socket, queue and message thread the members name, or 0 |
| `extKey` | the application gave a queue key: stop() does not remove the queue |
| `box`, `removed` | what waits in each queue, and which are gone |
| `apc`, `afd`, `acn`; `mpc`, `mq`, `cur`, `cancelled`; `rpc`, `rfd` | the accept thread and the message thread of each start(), the receive thread of each connection |
| `mapClient` | the thread an entry names, 0 for the entry of a client that got none |
| `xpc`, `xid`, `xfd`, `visited`, `last` | the step of start() or stop() the application is at, the id it joins, the entries its loop has seen |
| `missed` | of the properties only: the starts whose stop() found no id |

stop() is a step each for the close of the listening socket, the cancel, the reading of the id to join and the join
with the queue's removal, and for every entry a close, a cancel, a join. It may come before the message thread has
stored its id, and then ends nothing. The message thread has the cancellation points of its handlers: msgrcv, msgsnd,
pthread_join, close and the writing of the log. ACCEPT is three steps: createThread, which may fail, the entry with
what it returned (`Assign`, `Enter`; C++11 leaves open whether the entry is made before createThread is called), and
for an entry without a thread eraseClient. A stop() that strikes the message thread in between finds that entry and
joins the id 0, which pthread_join leaves undefined: it returns, or hangs (`nothread`). A queue that is removed wakes
who sleeps in it. Traffic and the idle timer are in `CATcpServer` and left out here.

### CATcpClient

| State | Code |
|---|---|
| `fdtab`, `hup`, `m_nSocketFD` | the kernel's sockets, connections the server closed, the member |
| `filter`, `m_nEvent` | CATCP_MSQ_EVENT_FILTER and its copy: of the last connect() |
| `box`, `msqid`, `removed` | the queues, the one the member's message handler has, those removed |
| `mpc`, `call`, `cur`, `munRunThreadId` | each connect()'s message thread, the queue and filter its msgrcv was called with, the message it holds, the id the object knows |
| `rpc`, `rfd`, `src` | each receive thread, its own copy of the descriptor, what its recv reads |
| `aged`, `timer` | the idle clock and the TIMER that waits for room |
| `xpc`, `app`, `told` | the application: where it is, how it uses the object, its callbacks |
| `taken`, `takers`, `missed` | of the properties only: what msgrcv gave of each connection and to which threads, the message threads a stop() came too early for |

Threads of an earlier connect() go on with the members of the later one: only `rfd` is their own. Taking a message
(`Take`, in CObject::run) and what onReceiveMessage does with it (`Handle...`) are two steps, as another message
thread that reads the same filter may take the next message and be done with it in between.

### CSocketClient

As `CSocketServer` with one data thread at a time: `lock`, `m_nClientFD`, `mThreadId`, `munRunThreadId`, `inbox`
and `outbox` are the members and the two filters of the queue; `tpc`, `tfd`, `src` a data thread, `mpc`, `cur` a
message thread of each start(); `use` is how the application uses the class; `xpc`, `pid` where stop() is. The data
thread's end (close the socket, clear mThreadId, post THREAD_EXIT) and stop() (read mThreadId, cancel, close, post)
are steps, as they race for both.

### CSocket, CMPFraming, PacketNumbers

`CSocket`: the members (`m_nSocketFD`, `m_nSocketType`, `m_nSocketStyle`, `szPath`, `szIP`, `m_nLastError`), the
address structures bind and connect go by (`unAddr`, `inAddr`), what the kernel's sockets are (`sock`), what this
start() was asked for (`want`) and where it is (`pc`). Addresses are model values: valid ones, none, a host name
that is no address and a path that is refused.

`CMPFraming`: a unit is half a header; a header is two units and a body two or none, so that every way TCP can cut
a packet that the code tells apart happens: `wire` is what was sent, `arrived` what recv can return, `packet` the
buffer. `heard` and `replies` are what the application and the peer got. A packet has a number, a command of each
class the loops tell apart, and a body that fits the buffer or does not.

`PacketNumbers`: the static `msnSequence`, and the numbers it gave last, `given`. Nothing in the repository calls
getSequence, so whether two threads would is open; the model has one.

### Handler, CTimer

`Handler`: `clock` in seconds, from which keys and filters are made; `queue`, `next`, `box` the kernel's queues,
which outlive a crash; `listMsqId` the registry, `reg` what registerMsq returned to CATcpServer::stop, `rel` and `it`
a release() under way and its iterator; `hpc`,
`mnMsqKey`, `msqid`, `mlFilter`, `listener`, `mlnThreadId` an object; `tpc`, `cur`, `cancelled` its thread. `sent`,
`heard` and `called` follow each message in the properties (`messages` and `noticed` in `Parts`). The id of the
first queue may be 0 and is then taken for a failure. sendMessage goes to the Handler's own filter or to a given one,
and createThread may fail. release() removes the queues one by one and then clears the list, while other threads make
and close Handlers: `torn` has the objects it may leave out. `Releases` says whether a thread calls it. An iterator whose id was erased may go to any id next.

`CTimer`: `mapCBF` and `mapTimerId` are the two global maps, `object` the global that all callbacks use, `timer`
and `armed` the kernel's timers; `opc`, `oid`, `otm` a setTimer or killTimer under way, `fpc`, `fid` a handle() on
the thread of an expiry; `gone` the objects deleted; `dead` a process that called an empty function.

### LogHandler, Mkdirp, Helpers, Utf8

`LogHandler`: the global stream with whether it is failed (`fs`, `good`), path and date; the files of each day and
path; the step each thread's call of _log is at. Opens and writes may fail. A tool that removes files, midnight,
_setLogPath and _close come between any two steps, and so do the steps of other threads. `excused`, `asked`, `mixed`
and `amiss` are of the properties only: whose line was lost for a reason, where it was to go, in the middle of whose
line another thread opened the file, and whether the stream was last opened so or has failed a write since.
`Mkdirp`: each thread's path and how far it is in it, in a tree they share.
`Helpers` and `Utf8` are functions, compared with reference definitions over every short string; `Utf8` works on
bytes as the loops of the header do, and `Utf8Text` types, appends, changes case and cuts in a buffer, and says over
codepoints what every function should give there. The recursive operators of these modules are used by TLC only.

`Bug...` definitions are one-line slips that the properties are tried against; no action uses them.

## Runs

| Run | Instance | Shows |
|---|---|---|
| `serve` | 4 connections and descriptors, 2 threads, MAX_CLIENT 1, queue of 1 | without timer and closeClient: FdAccounted, NoMixUp, JoinEnds, CallbackOrder, AdmissionBound, NoPulledSocket; no deadlock |
| `serve_live` | 2 of each, MAX_CLIENT 2, queue of 1 | ThreadReclaimed, and the refinement of ConnectionService with its fairness; no deadlock |
| `closing` | 2 of each, MAX_CLIENT 1, queue of 1, closeClient from other threads and the idle timer | what survives stale messages: EntryThreadUnjoined, CancelledIsJoined, NoFdForgotten |
| `idle_stuck` | 1 of each, queue of 2, idle timer | finding: checkIdle puts the message thread to sleep on its own full queue |
| `life` | 2 starts, 2 connections, 1 descriptor, queue of 1 | StopClears and StopReturns of `CATcpServerLife`, with and without a queue key, with early stops and failing createThread |
| `sockets` | 3 connections, 2 descriptors, 3 threads, queue of 3, PK_CMP and PK_BYTE; 2, 2, 2 and a queue of 1 with closeClient, stop and failing createThread | HandOff in all; DescriptorsKept and ThreadsKept but for the last |
| `sockets_live` | 2 of each, queue of 1 | ThreadReclaimed, refinement of ConnectionService with its fairness; no deadlock |
| `sockets_stop` | 2 of each, queue of 2, stop | finding: stop() leaves client threads behind |
| `client` | 2 connects, 1 descriptor, queue of 1 | CallbackOrder, of a message thread that alone takes a connection's messages, and StopKnowsAll of `CATcpClient`, for applications that reconnect after stop() or without, or close, idle and stop |
| `csclient` | 2 starts, 1 descriptor, queue of 1 | SharedState and LetGo of `CSocketClient`: CMP with events, bytes without, a single session with faults |
| `parts` | `Parts` and the text functions, see below and `MCParts` | LinesKept, MkdirpTells, HelpersKeepWhatTheyGet, ReadsText, WritesText, SocketKept, TimersKillable, PacketsInOrder, QueuesKept |
| `progress` | see `MCProgress` | the refinement of PacketChannel; HandlerServes, EventsCome |

TypeOK of each module is in its safety run.

Bounds. In `CATcpServer` and `CSocketServer` connections are names that come back once nothing refers to them, so
behaviours are not bounded in length and every reuse of a descriptor or thread id happens. Two of each suffice for a
stale number to meet a new owner; `serve` has four descriptors because AdmissionBound is MAX_CLIENT + QueueCap + 1 =
3, and two threads, so that createThread fails for a third client. A queue of one message is the hardest for whoever has
to send; `sockets` has the three that fit the default. `CATcpServerLife`, `CATcpClient` and `CSocketClient` name
sessions by number: two of them are the old one and the new one, and `life` has two clients, one in the map and one
in the queue, and one descriptor, so that the second is given it again. In `parts`: two days, one path
and two threads for the log, enough for one to open the file in the middle of another's line, at midnight too; two
threads and six paths that share directories, a plain file in the way, for mkdirp; every string of up to five
characters of three; every buffer of three codepoints of six, of one to four bytes, against every text of two, every
codepoint in the tables, and every broken sequence of a lead byte and up to three bytes; two addresses and two
descriptors, three packets, five numbers before the counter wraps, two Handlers with two queues and one message, made
in one or two seconds, a release() among them, or of a given key with two filters and a crash in between, two timers
with two ids, and two expiries at a time. `progress`: two packets, two Handlers with one queue and one message (filters between Handlers are
in `parts`), one object with two timers, one connection. Every bound is a constant of the module that has it, and
named there.
In the runs of CSocketServer without failing createThread there are as many threads as connections, so that a
created thread always finds an id: a connection's name is free again only when its thread has ended and posted.
Deadlock is checked in `serve`, `serve_live` and `sockets_live`; `sockets` has the application that calls
closeClient, and the others end when their bounds are used up or in the state `idle_stuck` shows, so they say
`CHECK_DEADLOCK FALSE`. Symmetry is used in safety runs only, for names that nothing orders. `CHOOSE` in
getClientSocketFD has one candidate (EntryThreadUnjoined).

Fairness. Weak fairness of each thread's own steps: the scheduler runs runnable threads. Strong fairness of
sends: the kernel wakes the sleepers of msgsnd in the order they came. Strong fairness of a cancelled thread that
comes to cancellation points again and again, and of a timer's expiry while threads for it come and go. TCP delivers
what was sent (`Arrive`), and the application reads its events (`Take`). None for clients and servers at the other
end: they may be silent for ever, and never hang up. None for application calls but a stop() that has begun.

## Theorems

Every theorem is about the specification TLC runs, with its constants left open: any number of clients, descriptors,
threads, sessions, packets, Handlers and messages, any capacity of the queue. The assumptions are the named ones of the
modules: None and Absent are not members of the sets, capacities and counts are numbers, positive where the module
says so, and the uses of a class are among those the module defines. Where a theorem has a condition of its own, it
is named below. Each rests on an inductive invariant, which TLC checked on the instances of the runs before it was
proved.

`CATcpServer_proofs`: with the idle timer and closeClient, for what survives their stale messages.

| Theorem | Argument |
|---|---|
| `TypeCorrect` | TypeOK with `Locals`: what each program counter says of the locals it goes with |
| `EntriesUnjoined` | `EntryInv`: a thread being created is in no entry, the thread being joined for a descriptor is in that entry; without these the join of one handler could free the thread of another entry |
| `CancelledJoined` | inductive with TypeInv: CLIENT_CLOSE cancels only on its way to the join, and the message thread leaves the join only when the thread has ended |
| `FdNeverForgotten` | inductive with TypeInv: each step hands a descriptor from the accept thread to the queue, from the queue to the handler, from the handler to mapClient, and eraseClient closes it before it lets the entry go |
| `AdmissionBounded` | `AdmissionInv`: the admitted are the entries, the queued ACCEPTs, the handler's and the accept thread's one; they grow only when the check found fewer than MAX_CLIENT entries, and then there are at most QueueCap in the queue, one with the handler and the new one |

and, for `~IdleTimer` and `~AppCloses`, for the phase in which only clients end connections. A stale CLIENT_CLOSE closes a
descriptor that has been given out again, and TLC finds each of the first five violated with closeClient and a queue of
one message, and with the idle timer and a queue of two.

| Theorem | Argument |
|---|---|
| `DescriptorsAccounted`, `ClientsNotMixedUp`, `JoinsEnd`, `CallbacksInOrder`, `SocketsNotPulled` | `ServeInv` follows a connection through its stations. `AcceptInv`: the descriptor of an ACCEPT is open and has no entry. `PairInv`: a descriptor and its receive thread have only each other, and the thread is the connection's until the join. `StageInv`: how far the thread is says what the application was told, or has a CONNECT in the queue for. `ReaderInv`: a thread reads with its own descriptor from its own connection. `SenderInv`: what a queued message says is still true when it is taken, as the sender is not being joined; a DISCONNECT is from a thread that has ended. `OrderInv`: CONNECT is the first of a client's messages, DISCONNECT the last. `ExitMsgInv`: a thread that posts THREAD_EXIT never announced its client. `HandlerInv`: the same for what the message thread has in hand. `KernelInv`: a connection has one descriptor |
| `ServesConnections` | under `ServeInv` the initial state is one of `ConnectionService`, and each action is one of its steps or a stutter |

`CATcpServerLife_proofs`

| Theorem | Argument |
|---|---|
| `TypeCorrect` | TypeOK with `Locals`; from the first start() on there is a queue |
| `StopsClear` | `CountInv`: the message threads nobody has joined are the one of the start under way and those owed to a stop() that found no id, which is counted once for its start. `IdInv`: munRunThreadId, and what stop() has read of it to join, name threads that have stored their id and are not joined; a start() makes its thread last of all. `MapInv`: stop() empties the map when it ends; if no stop() missed a thread there is none that could write to it after. Nothing is assumed of when stop() is called |

`CATcpClient_proofs`

| Theorem | Argument |
|---|---|
| `TypeCorrect` | TypeOK with `Locals`: a thread that works has a descriptor; without a connection there are no threads |
| `StopKnows` | `KnownInv`: an id in munRunThreadId is of a thread nobody joined; who stops first has one open socket, the member's |
| `CallbacksInOrder` | `FreshInv`: nothing is known of connections to come; `PlaceInv`: what is said of the one in use is in the queue in use, under its filter; `GivenInv`: the receive thread's place, its messages and what msgrcv gave of them belong together; `OrderInv`: CONNECT first, DISCONNECT last. recvMessage takes by filter out of the middle of the queue, so the order is carried through removals. `HoldInv` and `BehindInv`: between msgrcv and the callback the thread that took CONNECT still holds it, or was cancelled and takes no more; so one that alone took the connection's messages has made the first callback before it holds another. `OneInv`: who stops first, and never too early, has one message thread, which stop() knows |

`CSocketServer_proofs`: for any use of the class; the last three say what holds when the application calls neither
closeClient nor stop (as does `DescriptorsKept`, which the run `sockets` checks beside uses that call them).

| Theorem | Argument |
|---|---|
| `HandOffSafe` | inductive with the type of `tpc`: only Hand starts a thread, and only when no other can be at its start, as that thread would hold the lock |
| `TypeCorrect` | TypeOK with `Locals` |
| `DescriptorsAccounted` | `SocketInv`, `PartyInv`: an open descriptor is offered by the accept thread, queued, taken, handed over under the lock or served, and only one of these; `MessageInv`: who passes it on knows the connection behind it; `StageInv`: so does the client thread |
| `ThreadsAccounted` | `EntryInv`, `ExitInv`, `OrderInv` of `SocketInv`: an entry names a live thread of its own; a THREAD_EXIT, of which a thread posts one, names one that has ended and is not joined |
| `ServesConnections` | for `Uses` without closeClient and stop: under `SocketInv` each step is one of `ConnectionService` or a stutter |

`CSocketClient_proofs`: for any use of the class.

| Theorem | Argument |
|---|---|
| `TypeCorrect` | TypeOK is inductive |
| `StateShared` | `LockInv`: the thread that reads m_nClientFD has the lock; `SocketInv`: the open socket is the member's, and none in stop(); `NamedInv`: a data thread that is about to be ended or joined is past its registration, so mThreadId does not name it and will not again; `RunnerInv`: munRunThreadId is of a thread nobody joined |

`CMPFraming_proofs`: from `BoundsAssumption`.

| Theorem | Argument |
|---|---|
| `NeverLosesItsPlace` | `StreamInv`: until the thread closes, what is still to come is a connected piece of what was sent (`Linked`); it begins with what the thread waits for, a header or the body of the packet in hand (`Awaited`); what is in hand is the beginning of one packet (`InHand`) |
| `TypeCorrect` | TypeOK needs StreamInv: only because the thread takes headers for headers are the numbers it answers those of packets |
| `AnswersMatchRequests` | `ReplyInv`: what was answered is before the packet at hand, the `Ceiling`, or is the access log request whose body was just read |
| `HeardInOrder` | `HeardInv`: what was heard or waits is before the packet at hand, and what waits after what was heard as a message |
| `IsPacketChannel` | for `Handle = "PK_ASYNC"`, with `AsyncInv`: between the packet heard last and the one at hand there are only link enquiries, which the thread answers; then each step is one of `PacketChannel` or a stutter |

`Handler_proofs`: from the three assumptions of `Handler`, with failing calls and crashes.

| Theorem | Argument |
|---|---|
| `TypeCorrect`, `EndsItsThread` | `ThreadInv`: a thread that is alive is the one mlnThreadId of its object names, and the object is up or in the join; a Handler without a thread may cancel and join another's, so the invariant speaks of the live thread and not of what its own object did |
| `ListsWhatItOpened` | `IdInv`: the kernel gives no id twice, a queue has one key, and objects with one id have one key; the registry then loses an id only with its queue, or to a release(). `ReleaseInv`: a release() still has every existing queue of an object before it, so none is left when it clears the list; but for objects made meanwhile, and for all of them once a close() has erased the id its iterator stands on |
| `ReachesItsAddress` | `PostInv`: a queued message is in the queue of the object it was sent through, and has its filter if it was sent to that; what a thread has in hand has the thread's filter. By `IdInv` whoever takes it has the same key |

`Parts_proofs`: for every part of `Parts` with all its constants left open, but for the timers one object that sets
them: with two TLC finds the property violated (see below). Of mkdirp's paths it is assumed that they are sequences of
names, neither empty nor the root alone, and of `None` that it is no file, descriptor, address, id or timer.

| Theorem | Argument |
|---|---|
| `LinesInTheirFiles` | `LogIInv`. `DateInv`: a line's date is not before its stamp. `StreamInv`: while no line opens the file and nothing is amiss, an open stream is good and on the file of the date noted. `AloneInv`: a line in the middle of which no other opened the file is alone at it, so that from the name to the open everything is as it noted; and when it is about to be written the date noted is its own and, if nothing is amiss, the stream has the file it looked up, unless it is excused. `PlacesInv`: names are of days that have begun |
| `ResultsTrue` | `MakingInv`: everything on the path before the place a thread has come to exists, as nothing is removed. When neither the next directory exists nor mkdir makes it, what is above it is no directory though it exists: a file is in the way, and with `FirstNames` (a path begins at the root or at nothing) the FALSE has its reason |
| `SocketsInHand` | `PlaceInv`: for each place in start(), whether there is a socket and what the kernel has of it. `AddressInv`: szPath, szIP and the address structures are of this start(), if it was given an address. `SocketTable` has the types of what the kernel has. Each is inductive beside the one before |
| `TimersUnderControl` | `CallInv`: what a call under way has in hand. Before it stores a new timer mapTimerId has none for the id, and the new one is not armed until it is stored; so none is armed that mapTimerId does not have |
| `PacketsHeardInOrder`, `HandlersKeepQueues` | the theorems of `CMPFraming_proofs` and `Handler_proofs`, whose modules `Parts` takes as instances: a behaviour of `Parts` that is of a unit is one of its module. For getSequence `CountInv`: two numbers differ by how far they are apart, less Limit - 1 if the counter wrapped between them, so two of the last Limit - 1 are equal only if they are one |
| `TypeCorrect` | all of these |

The `Unit` lemma of a part says that its first state and its steps in `Parts` are those of its module and that no
behaviour changes its unit; `Always` lifts the part's invariant. `ImplementsChannel` of the run `progress` is the
safety part that `IsPacketChannel` states, and liveness.

Only model-checked:

- liveness: the fairness part of the three refinements, ThreadReclaimed, StopReturns, LetGo, HandlerServes, EventsCome.
  Reasoning with fairness (ENABLED) is beyond the prover;
- what recursive definitions compute, in `Helpers`, `Utf8` and `Utf8Text` (HelpersKeepWhatTheyGet, ReadsText,
  WritesText): induction over data is beyond it too;
- the two findings, which are counterexamples.

## What the models show of the code beside the properties

Behaviour that TLC or the writing of the modules brought up and that no sentence of the repository speaks against;
the properties above are stated so that they hold beside it.

Servers and clients of CATcp:

- a second CLIENT_CLOSE for a client, or one that waits in the queue, closes the socket of the client that has the
  descriptor by then; checkIdle closes a client whose ALIVE waits behind TIMER; a message of a stopped server with
  a given queue key is handled after the next start();
- data queued behind a CLIENT_CLOSE is given to the application after its onClientDisconnect;
- stop() does not end the accept thread, nor close descriptors of ACCEPTs in the queue; before the message thread
  has stored its id it ends no thread, which then goes on after stop() and fills mapClient again, and a later stop()
  may cancel one message thread and join the other for ever. A stop() that strikes the message thread between making
  and erasing the entry of a client without a thread gives pthread_join the id 0;
- the queue key and IDLE_TIMEOUT are globals that server objects share; start() returns a descriptor it has closed
  when bind failed;
- CATcpClient's SERVER_CLOSE cancels the thread it runs on and closes nothing; its DISCONNECT joins itself, which
  returns an error, and the receive thread is never joined; a late DISCONNECT of an old connection is taken for the
  new one's; after a second connect(), or a stop() before the message thread has stored its id, two message threads
  read one filter, and one may call onServerDisconnect, or onReceive, before the other onServerConnect.

CSocketServer, CSocketClient, CSocket:

- closeClient closes a descriptor a thread still uses and cancels an id that may be another client's thread: the
  three properties that exclude it fail with it, and it deadlocks when called from the receiver of external events
  while these fill the queue;
- CSocketServer::stop leaves the threads of an accept() under way and of queued ACCEPTs;
- a client thread of CSocketServer removes its entry after it has closed its descriptor, and may remove that of the
  next client, whom closeClient and stop() then do not find;
- an old data thread of CSocketClient clears mThreadId for the new one, which stop() then does not end; THREAD_EXIT may
  be posted twice, so that an id is joined twice;
- a CMP packet that arrives in two parts is refused; long packets overtake the queue and, in the client, go to
  ServerReceive; a long access_log_request is not answered, and the long body is not freed;
- getMac leaves its descriptor open; an empty AF_UNIX path keeps the one of an earlier start();
  getIfAddress does not free its list when getnameinfo fails.

The rest:

- timers are global by id, those of two objects replace each other; handle() may call an entry that _KillTimer has
  just erased; a timer_settime that fails forgets the timer without timer_delete; the global object dangles after
  ~CObject;
- two Handlers of one second share queue and filter; a queue with the id 0 is taken for a failure; ~Handler may read
  an id its thread has not stored. release(), which nothing in the repository calls, drops the queue of a Handler made
  during it from listMsqId though it exists, and if a queue is closed when the iterator stands on its id, any other;
- a write or flush that the disk refuses leaves the stream of the log open and failed, and every line is lost until
  the file is opened again: at midnight, when it is removed, or after _close. Two threads that open it at once, which
  the mutex that is commented out would exclude (LogHandler.cpp:28, 73), lose lines likewise or write them to the file
  of another day or path. _setLogPath to a name whose file of today exists goes on with the old file;
- ReplaceAll with nothing to look for does not end.

utf8.h, whose header comments say otherwise. No property states these, and those of ReadsText and WritesText say only
what holds beside them:

- "Number of utf8 codepoints in the utf8 string src that consists entirely of utf8 codepoints (not) from the utf8
  string" (utf8.h:101-103, 154-156): utf8spn and utf8cspn leave the last codepoint of the set out, as a match is
  noticed only when the next one begins;
- "The position of the utf8 string needle in the utf8 string haystack" (utf8.h:158): utf8str and utf8casestr go on
  behind a partial match, and return null for a needle that begins inside it;
- "Copies at most n bytes ... such that at total of n bytes are written" (utf8.h:128-134): of a string of n bytes or
  fewer utf8ncpy writes n + 1; n = 0 wraps around, so that it copies all of the string and then writes NULs over
  memory without end; and of the empty string it goes on to what is behind the terminator;
- "writing at most n+1 bytes" (utf8.h:118-121): utf8ncat with n = 0 appends the whole string, and of the empty string
  goes on as utf8ncpy does;
- utf8casecmp orders letters that differ by case; utf8rchr reads past the end; utf8_substr passes an offset for a
  count.

## Not modelled

- Datagram sockets in CSocketServer and CSocketClient: their work is in `CDataHandler`, which is not in the
  repository. `CThreadHandler` is not either; its lock and its threads are taken to be CThread's and a lock.
- The text of addresses, socket options and error strings of CSocket; format strings, dates and number conversions
  of `utility.h`; `container.h`, which wraps the standard containers; printPacket and the layout of packets beyond
  lengths, commands and numbers.
- A crash of the process anywhere but in `Handler`: queues are all that outlives it.
- What two threads in the middle of one std::string, std::fstream, std::set or std::map operation make of it, beyond
  the look-up that misses (`MapRace`): the standard leaves it open, and a crash is one of its outcomes.
- Thread attributes and priorities; signals other than those of timers.
- The Qt program, pages and assets.

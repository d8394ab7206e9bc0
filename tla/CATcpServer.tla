----------------------------- MODULE CATcpServer -----------------------------
(***************************************************************************)
(* socketHandler/CATcpServer.cpp while it serves: between start() and      *)
(* stop().  Four kinds of threads share one object:                        *)
(*                                                                         *)
(*   - the accept thread (runSocketAccept) accepts sockets and posts       *)
(*     ACCEPT to the object's message queue;                               *)
(*   - the message thread (runMessageReceive, CObject::run) takes one      *)
(*     message at a time and runs onReceiveMessage to its end;             *)
(*   - one receive thread per client (runTcpReceive) reads the socket and  *)
(*     posts CONNECT, RECEIVE, ALIVE and DISCONNECT, or THREAD_EXIT when   *)
(*     it does not find its own entry in mapClient;                        *)
(*   - the timer's thread posts TIMER, and threads of the application may  *)
(*     call closeClient, which posts CLIENT_CLOSE.                         *)
(*                                                                         *)
(* The queue is a System V queue of limited size: msgsnd without           *)
(* IPC_NOWAIT sleeps while it is full.  mapClient has no lock.             *)
(* Descriptors and thread ids are reused as the kernel and the thread      *)
(* library reuse them.                                                     *)
(***************************************************************************)
EXTENDS Naturals, Sequences, FiniteSets

CONSTANTS
    Conn,       \* connections of clients; a name is used again once forgotten
    FD,         \* descriptors the kernel has left for accepted sockets
    Thread,     \* ids the thread library has left for receive threads
    None,       \* the value 0 of a thread id, and "no descriptor" (0)
    Absent,     \* what mapClient maps a descriptor without an entry to
    MaxClient,  \* MAX_CLIENT
    QueueCap,   \* messages the queue holds before msgsnd sleeps
    IdleTimer,  \* runIdleTimeout(true) was called
    AppCloses   \* other threads of the application call closeClient

ASSUME ConnAssumption == None \notin Conn
ASSUME FDAssumption == None \notin FD
ASSUME ThreadAssumption == None \notin Thread /\ Absent \notin Thread \cup {None}
ASSUME MaxClientAssumption == MaxClient \in Nat
ASSUME QueueCapAssumption == QueueCap \in Nat \ {0}
ASSUME IdleTimerAssumption == IdleTimer \in BOOLEAN
ASSUME AppClosesAssumption == AppCloses \in BOOLEAN

VARIABLES
    backlog,     \* connections the kernel completed, not accepted yet
    hup,         \* connections whose client has closed its end
    fdtab,       \* descriptor -> the connection behind it, or None
    queue,       \* the message queue, oldest first
    mapClient,   \* descriptor -> ulReceiveThreadID of its entry, or Absent
    aged,        \* descriptors whose ulAliveTime is over IDLE_TIMEOUT ago
    rpc,         \* where each receive thread is
    rfd,         \* its nSocketFD
    own,         \* the connection it was created for
    src,         \* the connection its recv() call reads
    mpc,         \* where the message thread is
    cur,         \* the message it handles
    ulThreadID,  \* its local ulThreadID (the created thread in ACCEPT)
    ulSocketFD,  \* the descriptor it is about to erase
    sweep,       \* entries checkIdle has still to close
    apc,         \* where the accept thread is
    amsg,        \* the ACCEPT it is about to post
    closer,      \* the CLIENT_CLOSE an application thread is about to post
    told         \* what the application was told about each connection

kernel     == <<backlog, hup, fdtab>>
table      == <<mapClient, aged>>
receivers  == <<rpc, rfd, own, src>>
dispatcher == <<mpc, cur, ulThreadID, ulSocketFD, sweep>>
acceptor   == <<apc, amsg>>
vars == <<kernel, queue, table, receivers, dispatcher, acceptor, closer, told>>

-----------------------------------------------------------------------------
(* Messages.  "conn" is not in MESSAGE_BUF: it records which connection    *)
(* the sender meant, for the properties; no action depends on it.          *)

FdCommand == {"ACCEPT", "CONNECT", "RECEIVE", "ALIVE", "DISCONNECT", "CLIENT_CLOSE"}
FdMsg     == [cmd : FdCommand, id : FD, conn : Conn \cup {None}]
ExitMsg   == [cmd : {"THREAD_EXIT"}, id : Thread, conn : Conn \cup {None}]
TimerMsg  == [cmd : {"TIMER"}, id : {None}, conn : {None}]
Msg       == FdMsg \cup ExitMsg \cup TimerMsg
NoMsg     == [cmd |-> "none", id |-> None, conn |-> None]

ReceiverState ==
    {"free", "start", "connect", "recv", "blocked", "receive", "alive",
     "disconnect", "lost", "exit", "cancelled", "zombie"}
DispatcherState == {"wait", "assign", "join", "close", "erase", "sweep"}
AcceptorState   == {"accept", "check", "send"}

\* The bodies named Bug... are what a slip in the code would make of the
\* definition after them; no action uses them.
BugPostUnbounded(cmd, id, conn) ==
    /\ Len(queue) <= QueueCap
    /\ queue' = Append(queue, [cmd |-> cmd, id |-> id, conn |-> conn])

\* CMessageHandler::sendMessage through CObject::sendMessage.
Post(cmd, id, conn) ==
    /\ Len(queue) < QueueCap
    /\ queue' = Append(queue, [cmd |-> cmd, id |-> id, conn |-> conn])

-----------------------------------------------------------------------------
(* mapClient                                                               *)

Clients == {fd \in FD : mapClient[fd] # Absent}

BugAtLimitOffByOne == MaxClient < Cardinality(Clients)

AtLimit == MaxClient < Cardinality(Clients) + 1

BugNamesAnyEntry(t) == Clients

Names(t) == {fd \in FD : mapClient[fd] = t}

getClientSocketFD(t) == IF Names(t) = {} THEN None ELSE CHOOSE fd \in Names(t) : TRUE

getClientThreadID(fd) == IF mapClient[fd] = Absent THEN None ELSE mapClient[fd]

-----------------------------------------------------------------------------
Init ==
    /\ backlog = {} /\ hup = {}
    /\ fdtab = [fd \in FD |-> None]
    /\ queue = <<>>
    /\ mapClient = [fd \in FD |-> Absent]
    /\ aged = {}
    /\ rpc = [t \in Thread |-> "free"]
    /\ rfd = [t \in Thread |-> None]
    /\ own = [t \in Thread |-> None]
    /\ src = [t \in Thread |-> None]
    /\ mpc = "wait" /\ cur = NoMsg
    /\ ulThreadID = None /\ ulSocketFD = None /\ sweep = {}
    /\ apc = "accept" /\ amsg = NoMsg
    /\ closer = NoMsg
    /\ told = [c \in Conn |-> "nothing"]

-----------------------------------------------------------------------------
(* The clients and the kernel                                              *)

Held(c) == \E fd \in FD : fdtab[fd] = c

Mentioned(c) ==
    \/ c \in backlog
    \/ Held(c)
    \/ \E t \in Thread : c \in {own[t], src[t]}
    \/ \E i \in 1..Len(queue) : queue[i].conn = c
    \/ c \in {cur.conn, amsg.conn, closer.conn}

PeerConnect(c) ==
    /\ ~Mentioned(c)
    /\ backlog' = backlog \cup {c}
    /\ hup' = hup \ {c}
    /\ told' = [told EXCEPT ![c] = "nothing"]
    /\ UNCHANGED <<fdtab, queue, table, receivers, dispatcher, acceptor, closer>>

\* The client closes or resets; what it had sent before is read first.
PeerHangup(c) ==
    /\ c \in backlog \/ Held(c) \/ \E t \in Thread : src[t] = c
    /\ c \notin hup
    /\ hup' = hup \cup {c}
    /\ UNCHANGED <<backlog, fdtab, queue, table, receivers, dispatcher, acceptor, closer, told>>

-----------------------------------------------------------------------------
(* The accept thread.  It compares the size of mapClient with MAX_CLIENT    *)
(* after accept() returned, without waiting for the ACCEPTs still queued.   *)

socketClose(fd) == fdtab' = [fdtab EXCEPT ![fd] = None]

Accept(c, fd) ==
    /\ apc = "accept"
    /\ c \in backlog
    /\ fdtab[fd] = None
    /\ backlog' = backlog \ {c}
    /\ fdtab' = [fdtab EXCEPT ![fd] = c]
    /\ amsg' = [cmd |-> "ACCEPT", id |-> fd, conn |-> c]
    /\ apc' = "check"
    /\ UNCHANGED <<hup, queue, table, receivers, dispatcher, closer, told>>

BugRefuseLeaks ==
    /\ apc = "check" /\ AtLimit
    /\ apc' = "accept" /\ amsg' = NoMsg
    /\ UNCHANGED <<kernel, queue, table, receivers, dispatcher, closer, told>>

Refuse ==
    /\ apc = "check" /\ AtLimit
    /\ socketClose(amsg.id)
    /\ apc' = "accept" /\ amsg' = NoMsg
    /\ UNCHANGED <<backlog, hup, queue, table, receivers, dispatcher, closer, told>>

Admit ==
    /\ apc = "check" /\ ~AtLimit
    /\ apc' = "send"
    /\ UNCHANGED <<kernel, queue, table, receivers, dispatcher, amsg, closer, told>>

SendAccept ==
    /\ apc = "send"
    /\ Post("ACCEPT", amsg.id, amsg.conn)
    /\ apc' = "accept" /\ amsg' = NoMsg
    /\ UNCHANGED <<kernel, table, receivers, dispatcher, closer, told>>

-----------------------------------------------------------------------------
(* The receive threads                                                     *)

Goto(t, from, to) == rpc[t] = from /\ rpc' = [rpc EXCEPT ![t] = to]

OnlyRpc == UNCHANGED <<kernel, table, rfd, own, src, dispatcher, acceptor, closer, told>>

\* The message thread writes to mapClient while this thread may walk it.
MapRace == mpc \in {"assign", "erase"}

StartFound(t) ==
    /\ Goto(t, "start", "connect")
    /\ getClientSocketFD(t) # None
    /\ rfd' = [rfd EXCEPT ![t] = getClientSocketFD(t)]
    /\ UNCHANGED <<kernel, queue, table, own, src, dispatcher, acceptor, closer, told>>

StartLost(t) ==
    /\ Goto(t, "start", "lost")
    /\ getClientSocketFD(t) = None \/ MapRace
    /\ OnlyRpc /\ UNCHANGED queue

BugSendConnectSilent(t) ==
    /\ Goto(t, "connect", "recv") /\ OnlyRpc /\ UNCHANGED queue

SendConnect(t) ==
    /\ Goto(t, "connect", "recv") /\ Post("CONNECT", rfd[t], own[t]) /\ OnlyRpc

SendThreadExit(t) ==
    /\ Goto(t, "lost", "exit") /\ Post("THREAD_EXIT", t, own[t]) /\ OnlyRpc

\* recv() resolves the descriptor when it is called: a closed one is EBADF.
RecvCall(t) ==
    /\ Goto(t, "recv", IF fdtab[rfd[t]] = None THEN "disconnect" ELSE "blocked")
    /\ src' = [src EXCEPT ![t] = fdtab[rfd[t]]]
    /\ UNCHANGED <<kernel, queue, table, rfd, own, dispatcher, acceptor, closer, told>>

RecvData(t) ==
    /\ Goto(t, "blocked", "receive")
    /\ src[t] \notin hup
    /\ OnlyRpc /\ UNCHANGED queue

RecvEnd(t) ==
    /\ Goto(t, "blocked", "disconnect")
    /\ src[t] \in hup
    /\ OnlyRpc /\ UNCHANGED queue

SendReceive(t) ==
    /\ Goto(t, "receive", "alive") /\ Post("RECEIVE", rfd[t], own[t]) /\ OnlyRpc

SendAlive(t) ==
    /\ Goto(t, "alive", "recv") /\ Post("ALIVE", rfd[t], own[t]) /\ OnlyRpc

SendDisconnect(t) ==
    /\ Goto(t, "disconnect", "exit") /\ Post("DISCONNECT", rfd[t], own[t]) /\ OnlyRpc

\* threadExit(), or a cancelled thread reaching its next cancellation point.
Exit(t) ==
    /\ rpc[t] \in {"exit", "cancelled"}
    /\ rpc' = [rpc EXCEPT ![t] = "zombie"]
    /\ rfd' = [rfd EXCEPT ![t] = None]
    /\ own' = [own EXCEPT ![t] = None]
    /\ src' = [src EXCEPT ![t] = None]
    /\ UNCHANGED <<kernel, queue, table, dispatcher, acceptor, closer, told>>

-----------------------------------------------------------------------------
(* The message thread: onReceiveMessage.  Handlers that only call back end *)
(* in one step; the others stop where other threads can come between.      *)

\* It returns 0 when the system has no thread to give.
createThread(c) ==
    \/ \E t \in Thread :
         /\ Goto(t, "free", "start")
         /\ own' = [own EXCEPT ![t] = c]
         /\ ulThreadID' = t
    \/ ulThreadID' = None /\ UNCHANGED <<rpc, own>>

\* pthread_join; for an id that was joined before it returns at once.
threadJoin(t) ==
    /\ rpc[t] \in {"zombie", "free"}
    /\ rpc' = [rpc EXCEPT ![t] = "free"]

\* pthread_cancel; on a thread that has ended already it has no effect.
threadCancel(t) ==
    rpc' = [x \in Thread |->
              IF x = t /\ rpc[x] \notin {"free", "zombie"} THEN "cancelled" ELSE rpc[x]]

Take(cmd) ==
    /\ mpc = "wait" /\ queue # <<>> /\ Head(queue).cmd = cmd
    /\ queue' = Tail(queue)

Next1(to) == mpc' = to /\ UNCHANGED sweep

Return ==
    /\ mpc' = "wait" /\ cur' = NoMsg
    /\ ulThreadID' = None /\ ulSocketFD' = None /\ sweep' = {}

Tell(c, what) == told' = IF c = None THEN told ELSE [told EXCEPT ![c] = what]

updateClientAlive(fd) == aged' = aged \ {fd}

\* Whether mapClient[nId] makes the entry before or after createThread is the
\* compiler's choice ("early").
HandleAccept ==
    LET m == Head(queue) IN
    /\ Take("ACCEPT")
    /\ cur' = m /\ ulSocketFD' = m.id /\ Next1("assign")
    /\ \E early \in BOOLEAN :
         mapClient' = IF early /\ mapClient[m.id] = Absent
                      THEN [mapClient EXCEPT ![m.id] = None] ELSE mapClient
    /\ createThread(m.conn)
    /\ UNCHANGED <<kernel, aged, rfd, src, acceptor, closer, told>>

Assign ==
    /\ mpc = "assign"
    /\ mapClient' = [mapClient EXCEPT ![ulSocketFD] = ulThreadID]
    /\ updateClientAlive(ulSocketFD)
    /\ IF ulThreadID = None
       THEN Next1("close") /\ UNCHANGED <<cur, ulThreadID, ulSocketFD>>
       ELSE Return
    /\ UNCHANGED <<kernel, queue, receivers, acceptor, closer, told>>

HandleReceive ==
    /\ Take("RECEIVE")
    /\ UNCHANGED <<kernel, table, receivers, dispatcher, acceptor, closer, told>>

HandleAlive ==
    /\ Take("ALIVE")
    /\ updateClientAlive(Head(queue).id)
    /\ UNCHANGED <<kernel, mapClient, receivers, dispatcher, acceptor, closer, told>>

BugFarewellWithoutJoin(m) ==
    /\ cur' = m /\ ulSocketFD' = m.id /\ ulThreadID' = None
    /\ Tell(m.conn, "disconnected")
    /\ Next1("close")

\* What DISCONNECT and CLIENT_CLOSE share: the callback, then the entry's
\* thread is joined if there is one, then the descriptor goes.
Farewell(m) ==
    LET t == getClientThreadID(m.id) IN
    /\ cur' = m /\ ulSocketFD' = m.id /\ ulThreadID' = t
    /\ Tell(m.conn, "disconnected")
    /\ Next1(IF t = None THEN "close" ELSE "join")

BugHandleConnectFallsThrough ==
    /\ Take("CONNECT")
    /\ Farewell(Head(queue))
    /\ UNCHANGED <<kernel, table, receivers, acceptor, closer>>

HandleConnect ==
    /\ Take("CONNECT")
    /\ Tell(Head(queue).conn, "connected")
    /\ updateClientAlive(Head(queue).id)
    /\ UNCHANGED <<kernel, mapClient, receivers, dispatcher, acceptor, closer>>

BugHandleDisconnectSilent ==
    /\ Take("DISCONNECT")
    /\ \E m \in {[Head(queue) EXCEPT !.conn = None]} : Farewell(m)
    /\ UNCHANGED <<kernel, table, receivers, acceptor, closer>>

HandleDisconnect ==
    /\ Take("DISCONNECT")
    /\ Farewell(Head(queue))
    /\ UNCHANGED <<kernel, table, receivers, acceptor, closer>>

HandleClientClose ==
    /\ Take("CLIENT_CLOSE")
    /\ Farewell(Head(queue))
    /\ threadCancel(getClientThreadID(Head(queue).id))
    /\ UNCHANGED <<kernel, table, rfd, own, src, acceptor, closer>>

HandleThreadExit ==
    /\ Take("THREAD_EXIT")
    /\ cur' = Head(queue) /\ ulThreadID' = Head(queue).id
    /\ Next1("join")
    /\ UNCHANGED <<kernel, table, receivers, ulSocketFD, acceptor, closer, told>>

BugJoinKeepsEntry ==
    /\ mpc = "join" /\ threadJoin(ulThreadID)
    /\ IF cur.cmd # "THREAD_EXIT"
       THEN Next1("close") /\ UNCHANGED <<cur, ulThreadID, ulSocketFD>>
       ELSE Return
    /\ UNCHANGED <<kernel, queue, table, rfd, own, src, acceptor, closer, told>>

\* The THREAD_EXIT handler looks its entry up only after the join.
Join ==
    /\ mpc = "join" /\ threadJoin(ulThreadID)
    /\ IF cur.cmd # "THREAD_EXIT"
       THEN Next1("close") /\ UNCHANGED <<cur, ulThreadID, ulSocketFD>>
       ELSE LET fd == getClientSocketFD(ulThreadID) IN
            IF fd # None
            THEN ulSocketFD' = fd /\ Next1("close") /\ UNCHANGED <<cur, ulThreadID>>
            ELSE Return
    /\ UNCHANGED <<kernel, queue, table, rfd, own, src, acceptor, closer, told>>

\* eraseClient: socketClose first, then the entry; the accept thread can be
\* given the descriptor again in between.
CloseFd ==
    /\ mpc = "close"
    /\ socketClose(ulSocketFD)
    /\ Next1("erase")
    /\ UNCHANGED <<backlog, hup, queue, table, receivers, cur, ulThreadID, ulSocketFD,
                   acceptor, closer, told>>

EraseEntry ==
    /\ mpc = "erase"
    /\ mapClient' = [mapClient EXCEPT ![ulSocketFD] = Absent]
    /\ aged' = aged \ {ulSocketFD}
    /\ Return
    /\ UNCHANGED <<kernel, queue, receivers, acceptor, closer, told>>

\* checkIdle: closeClient for every entry over its time.  closeClient posts
\* to the queue this very thread empties.
HandleTimer ==
    /\ Take("TIMER")
    /\ sweep' = aged
    /\ mpc' = IF aged = {} THEN "wait" ELSE "sweep"
    /\ UNCHANGED <<kernel, table, receivers, cur, ulThreadID, ulSocketFD, acceptor, closer, told>>

SweepClose(fd) ==
    /\ mpc = "sweep" /\ fd \in sweep
    /\ Post("CLIENT_CLOSE", fd, fdtab[fd])
    /\ sweep' = sweep \ {fd}
    /\ mpc' = IF sweep' = {} THEN "wait" ELSE "sweep"
    /\ UNCHANGED <<kernel, table, receivers, cur, ulThreadID, ulSocketFD, acceptor, closer, told>>

-----------------------------------------------------------------------------
(* Time, and the application's calls of closeClient from other threads     *)

Age(fd) ==
    /\ IdleTimer /\ mapClient[fd] # Absent /\ fd \notin aged
    /\ aged' = aged \cup {fd}
    /\ UNCHANGED <<kernel, queue, mapClient, receivers, dispatcher, acceptor, closer, told>>

TimerFire ==
    /\ IdleTimer
    /\ Post("TIMER", None, None)
    /\ UNCHANGED <<kernel, table, receivers, dispatcher, acceptor, closer, told>>

AppCheck(fd) ==
    /\ AppCloses /\ closer = NoMsg /\ mapClient[fd] # Absent
    /\ closer' = [cmd |-> "CLIENT_CLOSE", id |-> fd, conn |-> fdtab[fd]]
    /\ UNCHANGED <<kernel, queue, table, receivers, dispatcher, acceptor, told>>

AppSend ==
    /\ closer # NoMsg
    /\ Post(closer.cmd, closer.id, closer.conn)
    /\ closer' = NoMsg
    /\ UNCHANGED <<kernel, table, receivers, dispatcher, acceptor, told>>

-----------------------------------------------------------------------------
runSocketAccept ==
    \/ \E c \in Conn, fd \in FD : Accept(c, fd)
    \/ Refuse
    \/ Admit
    \/ SendAccept

runTcpReceive(t) ==
    \/ StartFound(t) \/ StartLost(t)
    \/ SendConnect(t) \/ SendThreadExit(t)
    \/ RecvCall(t) \/ RecvData(t) \/ RecvEnd(t)
    \/ SendReceive(t) \/ SendAlive(t) \/ SendDisconnect(t)
    \/ Exit(t)

runMessageReceive ==
    \/ HandleAccept \/ Assign
    \/ HandleConnect \/ HandleReceive \/ HandleAlive
    \/ HandleDisconnect \/ HandleClientClose \/ HandleThreadExit
    \/ Join \/ CloseFd \/ EraseEntry
    \/ HandleTimer
    \/ \E fd \in FD : SweepClose(fd)

Environment ==
    \/ \E c \in Conn : PeerConnect(c) \/ PeerHangup(c)
    \/ \E fd \in FD : Age(fd) \/ AppCheck(fd)
    \/ TimerFire
    \/ AppSend

Next ==
    \/ runSocketAccept
    \/ \E t \in Thread : runTcpReceive(t)
    \/ runMessageReceive
    \/ Environment

Spec == Init /\ [][Next]_vars

\* The kernel wakes the senders asleep in msgsnd in the order they came, so
\* a sender that finds room again and again gets it: strong fairness.  The
\* clients owe nothing, neither data nor an end.
SendStep(t) ==
    \/ SendConnect(t) \/ SendThreadExit(t)
    \/ SendReceive(t) \/ SendAlive(t) \/ SendDisconnect(t)

LocalStep(t) == StartFound(t) \/ StartLost(t) \/ RecvCall(t) \/ RecvEnd(t) \/ Exit(t)

Fairness ==
    /\ WF_vars(runMessageReceive)
    /\ WF_vars(\E c \in Conn, fd \in FD : Accept(c, fd))
    /\ WF_vars(Refuse \/ Admit)
    /\ SF_vars(SendAccept)
    /\ SF_vars(TimerFire)
    /\ SF_vars(AppSend)
    /\ \A t \in Thread : WF_vars(LocalStep(t)) /\ SF_vars(SendStep(t))

FairSpec == Spec /\ Fairness

-----------------------------------------------------------------------------
(* Properties                                                              *)

\* Every variable keeps its type, and the queue never outgrows the bytes
\* msgsnd may fill (CMessageHandler::sendMessage sleeps instead).
TypeOK ==
    /\ backlog \subseteq Conn /\ hup \subseteq Conn
    /\ fdtab \in [FD -> Conn \cup {None}]
    /\ queue \in Seq(Msg) /\ Len(queue) <= QueueCap
    /\ mapClient \in [FD -> Thread \cup {None, Absent}]
    /\ aged \subseteq FD
    /\ rpc \in [Thread -> ReceiverState]
    /\ rfd \in [Thread -> FD \cup {None}]
    /\ own \in [Thread -> Conn \cup {None}]
    /\ src \in [Thread -> Conn \cup {None}]
    /\ mpc \in DispatcherState
    /\ cur \in Msg \cup {NoMsg}
    /\ ulThreadID \in Thread \cup {None}
    /\ ulSocketFD \in FD \cup {None}
    /\ sweep \subseteq FD
    /\ apc \in AcceptorState
    /\ amsg \in FdMsg \cup {NoMsg}
    /\ closer \in FdMsg \cup {NoMsg}
    /\ told \in [Conn -> {"nothing", "connected", "disconnected"}]

InFlight(fd) == {i \in 1..Len(queue) : queue[i].cmd = "ACCEPT" /\ queue[i].id = fd}

\* An entry answers for its descriptor from the ACCEPT handler on, and until
\* eraseClient has closed it.
Answers(fd) ==
    \/ mpc = "assign" /\ ulSocketFD = fd
    \/ mapClient[fd] # Absent /\ ~(mpc = "erase" /\ ulSocketFD = fd)

\* How far a descriptor has come: still with the accept thread (0), in the
\* queue at a position, or past the queue.
Stations(fd) ==
    {s \in {0} : amsg.id = fd} \cup InFlight(fd) \cup {s \in {QueueCap + 1} : Answers(fd)}

\* No descriptor leaks and none is answered for twice: an open client socket
\* is with the accept thread, in one queued ACCEPT or in one entry of
\* mapClient, and a closed one is with nobody (runSocketAccept, eraseClient).
FdAccounted ==
    \A fd \in FD : IF fdtab[fd] = None THEN Stations(fd) = {}
                                      ELSE \E s \in Stations(fd) : Stations(fd) = {s}

\* The half of it that survives closeClient and the idle timer, whose stale
\* messages can close a descriptor twice: no open client socket is ever
\* forgotten, so that descriptors do not run out.
NoFdForgotten == \A fd \in FD : fdtab[fd] # None => Stations(fd) # {}

\* Descriptors and thread ids are reused, and no client is taken for another
\* for it: a receive thread only reads the connection it was created for, and
\* eraseClient closes the one its message was about, never one that was given
\* the same descriptor since (runTcpReceive, eraseClient).
NoMixUp ==
    /\ \A t \in Thread : src[t] \in {None, own[t]}
    /\ mpc = "close" => fdtab[ulSocketFD] \in {None, cur.conn}

\* The server never closes a descriptor under a receive thread that still
\* works with it: the thread has ended first (eraseClient after threadJoin).
NoPulledSocket ==
    [][\A fd \in FD : fdtab[fd] # None /\ fdtab'[fd] = None => \A t \in Thread : rfd[t] # fd]_vars

\* When the message thread sits in pthread_join, the thread it waits for has
\* nothing left to post: a live one could need room in the queue this very
\* thread has stopped emptying (onReceiveMessage, DISCONNECT, THREAD_EXIT).
JoinEnds == mpc = "join" => rpc[ulThreadID] \in {"exit", "cancelled", "zombie"}

\* onReceive and onClientDisconnect are only called for a connection whose
\* onClientConnect was called and whose onClientDisconnect was not, although
\* these messages come from several threads through one queue.
CallbackOrder ==
    mpc = "wait" /\ queue # <<>> /\ Head(queue).cmd \in {"RECEIVE", "ALIVE", "DISCONNECT"}
        => told[Head(queue).conn] = "connected"

Admitted ==
    Clients \cup {fd \in FD : InFlight(fd) # {}}
        \cup {fd \in FD : mpc = "assign" /\ ulSocketFD = fd}
        \cup {fd \in FD : apc = "send" /\ amsg.id = fd}

\* The size check of runSocketAccept reads a mapClient that does not have
\* the queued ACCEPTs yet: MAX_CLIENT can be passed, by what the queue holds
\* and one in each thread, and by no more.
AdmissionBound == Cardinality(Admitted) <= MaxClient + QueueCap + 1

\* No entry names a thread that has been joined, except the entry eraseClient
\* is removing, and no two entries name the same thread: a handler that joins
\* or cancels the thread of an entry never uses a dead or a reused id.
EntryThreadUnjoined ==
    /\ \A fd \in FD :
         mapClient[fd] \in Thread =>
            \/ rpc[mapClient[fd]] # "free"
            \/ mpc \in {"close", "erase"} /\ ulSocketFD = fd
    /\ \A f, g \in FD : mapClient[f] \in Thread /\ mapClient[f] = mapClient[g] => f = g

\* A receive thread is only cancelled by a handler that goes on to join it,
\* so that no cancelled thread is left behind (CLIENT_CLOSE).
CancelledIsJoined ==
    \A t \in Thread : rpc[t] = "cancelled" => mpc = "join" /\ ulThreadID = t

\* Every receive thread that ended is joined: no thread id is lost.
ThreadReclaimed == \A t \in Thread : (rpc[t] = "zombie") ~> (rpc[t] = "free")

\* A client over IDLE_TIMEOUT is closed or heard of again (checkIdle).
IdleEnds == \A fd \in FD : (fd \in aged) ~> (fd \notin aged)

\* The promise to the application (ConnectionService): every client's
\* callbacks in their order, and a client that hung up is announced, bidden
\* farewell and let go, also when the queue is full and others keep sending.
phase == [c \in Conn |-> IF Held(c) THEN "held" ELSE IF c \in backlog THEN "backlog" ELSE "outside"]

Service == INSTANCE ConnectionService
               WITH Conn <- Conn, phase <- phase, told <- told, hup <- hup

ImplementsService == Service!FairSpec
=============================================================================

---------------------------- MODULE CSocketServer ----------------------------
(***************************************************************************)
(* socketHandler/CSocketServer.cpp, a stream server after start(), with    *)
(* packets handled by message queue (PK_MSQ).                              *)
(*                                                                         *)
(*   - the accept thread posts ACCEPT for each socket;                     *)
(*   - the message thread hands the descriptor to a new client thread      *)
(*     through m_nClientFD, under a lock it takes and the new thread       *)
(*     releases, and joins the thread a THREAD_EXIT names;                 *)
(*   - a client thread announces its client to the application, enters     *)
(*     itself in mapClientThread, reads packets, and at the end closes     *)
(*     the socket, then removes its entry, then posts THREAD_EXIT;         *)
(*   - the application receives the external events, and calls             *)
(*     closeClient and stop from its own thread.                           *)
(*                                                                         *)
(* Internal and external messages share one System V queue: msgrcv picks   *)
(* by filter, msgsnd sleeps when both together fill it.                    *)
(***************************************************************************)
EXTENDS Naturals, Sequences

CONSTANTS
    Conn,        \* connections of clients; a name is used again once forgotten
    FD,          \* descriptors for accepted sockets
    Thread,      \* ids for client threads
    None,        \* no descriptor (-1), thread id 0
    Absent,      \* what mapClientThread maps a descriptor without entry to
    QueueCap,    \* messages the queue holds before msgsnd sleeps
    Uses         \* the uses of the class to look at

\* How the class is used: mnPacketType is PK_CMP, else PK_BYTE; setPackageReceiver
\* and both set...Command were called; the application calls closeClient; it
\* calls stop; createThread may fail.
Use == [cmp : BOOLEAN, external : BOOLEAN, closes : BOOLEAN, stops : BOOLEAN, fails : BOOLEAN]

ASSUME NamesAssumption ==
    None \notin Conn \cup FD \cup Thread /\ Absent \notin Thread \cup {None}
ASSUME QueueCapAssumption == QueueCap \in Nat \ {0}
ASSUME UsesAssumption == Uses \subseteq Use

VARIABLES
    backlog, hup,     \* connections not accepted yet; those whose client left
    fdtab,            \* descriptor -> the connection behind it, or None
    listening,        \* the listening descriptor is valid
    inbox, outbox,    \* messages for m_nInternalFilter, for m_nEventFilter
    lock,             \* CThreadHandler's lock is held
    m_nClientFD,
    mapClientThread,
    tpc, tfd,         \* where each client thread is, its nClientFD
    own, src,         \* the connection it was made for, the one recv() reads
    cancelled,        \* threads with a cancellation pending
    mpc, cur,         \* where the message thread is, its message
    apc, amsg,        \* where the accept thread is, the ACCEPT it posts
    xpc, xfd, xpid,   \* where the application is, its nClientFD and pid
    visited,          \* entries stop() has been at
    use,              \* which use it is; never changes
    told              \* what has been posted to the application of each connection

kernel     == <<backlog, hup, fdtab, listening>>
boxes      == <<inbox, outbox>>
handoff    == <<lock, m_nClientFD>>
clients    == <<tpc, tfd, own, src, cancelled>>
dispatcher == <<mpc, cur>>
acceptor   == <<apc, amsg>>
app        == <<xpc, xfd, xpid, visited, use>>
vars == <<kernel, boxes, handoff, mapClientThread, clients, dispatcher, acceptor, app, told>>

-----------------------------------------------------------------------------
(* Messages.  "conn" is not in MESSAGE_BUF; only the properties read it.   *)

Msg     == [cmd : {"ACCEPT", "CONNECT", "RECEIVE", "DISCONNECT"}, id : FD, conn : Conn]
ExitMsg == [cmd : {"THREAD_EXIT"}, id : Thread \cup {None}, conn : {None}]
NoMsg   == [cmd |-> "none", id |-> None, conn |-> None]

ClientState ==
    {"free", "start", "connect", "register", "recv", "blocked", "receive",
     "disconnect", "close", "unregister", "final", "exit", "zombie"}
AppState == {"wait", "close", "find", "read", "cancel", "post", "stop", "stopjoin", "stopped"}

Room == Len(inbox) + Len(outbox) < QueueCap

\* The bodies named Bug... are slips the properties are tried against.
BugPostInUnbounded(cmd, id, conn) ==
    /\ inbox' = Append(inbox, [cmd |-> cmd, id |-> id, conn |-> conn])
    /\ UNCHANGED outbox

PostIn(cmd, id, conn) ==
    /\ Room
    /\ inbox' = Append(inbox, [cmd |-> cmd, id |-> id, conn |-> conn])
    /\ UNCHANGED outbox

PostOut(cmd, id, conn) ==
    /\ Room
    /\ outbox' = Append(outbox, [cmd |-> cmd, id |-> id, conn |-> conn])
    /\ UNCHANGED inbox

-----------------------------------------------------------------------------
Init ==
    /\ backlog = {} /\ hup = {} /\ fdtab = [fd \in FD |-> None] /\ listening = TRUE
    /\ inbox = <<>> /\ outbox = <<>>
    /\ lock = FALSE /\ m_nClientFD = None
    /\ mapClientThread = [fd \in FD |-> Absent]
    /\ tpc = [t \in Thread |-> "free"] /\ tfd = [t \in Thread |-> None]
    /\ own = [t \in Thread |-> None] /\ src = [t \in Thread |-> None]
    /\ cancelled = {}
    /\ mpc = "wait" /\ cur = NoMsg
    /\ apc = "accept" /\ amsg = NoMsg
    /\ xpc = "wait" /\ xfd = None /\ xpid = None /\ visited = {} /\ use \in Uses
    /\ told = [c \in Conn |-> "nothing"]

-----------------------------------------------------------------------------
(* The clients, and the accept thread                                      *)

Held(c) == \E fd \in FD : fdtab[fd] = c

InBox(box, c) == \E i \in 1..Len(box) : box[i].conn = c

Mentioned(c) ==
    \/ c \in backlog \/ Held(c)
    \/ \E t \in Thread : c \in {own[t], src[t]}
    \/ InBox(inbox, c) \/ InBox(outbox, c)
    \/ c \in {cur.conn, amsg.conn}

PeerConnect(c) ==
    /\ ~Mentioned(c)
    /\ backlog' = backlog \cup {c} /\ hup' = hup \ {c}
    /\ told' = [told EXCEPT ![c] = "nothing"]
    /\ UNCHANGED <<fdtab, listening, boxes, handoff, mapClientThread, clients,
                   dispatcher, acceptor, app>>

PeerHangup(c) ==
    /\ c \in backlog \/ Held(c) \/ \E t \in Thread : src[t] = c
    /\ c \notin hup
    /\ hup' = hup \cup {c}
    /\ UNCHANGED <<backlog, fdtab, listening, boxes, handoff, mapClientThread, clients,
                   dispatcher, acceptor, app, told>>

socketClose(fd) == fdtab' = [fdtab EXCEPT ![fd] = None]

Accept(c, fd) ==
    /\ apc = "accept" /\ c \in backlog /\ fdtab[fd] = None
    /\ backlog' = backlog \ {c}
    /\ fdtab' = [fdtab EXCEPT ![fd] = c]
    /\ apc' = "send" /\ amsg' = [cmd |-> "ACCEPT", id |-> fd, conn |-> c]
    /\ UNCHANGED <<hup, listening, boxes, handoff, mapClientThread, clients,
                   dispatcher, app, told>>

\* The next socketAccept fails for ever once stop() has closed the listening
\* descriptor; an accept() already asleep still returns one connection.
SendAccept ==
    /\ apc = "send"
    /\ PostIn("ACCEPT", amsg.id, amsg.conn)
    /\ apc' = (IF listening THEN "accept" ELSE "refused") /\ amsg' = NoMsg
    /\ UNCHANGED <<kernel, handoff, mapClientThread, clients, dispatcher, app, told>>

-----------------------------------------------------------------------------
(* The client threads: runCMPHandler, runDataHandler                       *)

OnlyClient == UNCHANGED <<kernel, handoff, mapClientThread, dispatcher, acceptor, app>>

\* A cancellation pending strikes at the next call that is a cancellation
\* point: msgsnd, recv, close, sleep.
CancelPoint == {"connect", "recv", "blocked", "receive", "disconnect", "close", "final", "exit"}

Goto(t, from, to) ==
    /\ tpc[t] = from
    /\ t \in cancelled => from \notin CancelPoint
    /\ tpc' = [tpc EXCEPT ![t] = to]

Entering == IF use.cmp THEN "register" ELSE "recv"

Start(t) ==
    /\ Goto(t, "start", IF use.external THEN "connect" ELSE Entering)
    /\ tfd' = [tfd EXCEPT ![t] = m_nClientFD]
    /\ lock' = FALSE
    /\ UNCHANGED <<kernel, boxes, m_nClientFD, mapClientThread, own, src, cancelled,
                   dispatcher, acceptor, app, told>>

SendConnect(t) ==
    /\ Goto(t, "connect", Entering)
    /\ PostOut("CONNECT", tfd[t], own[t])
    /\ told' = [told EXCEPT ![own[t]] = "connected"]
    /\ OnlyClient /\ UNCHANGED <<tfd, own, src, cancelled>>

Register(t) ==
    /\ Goto(t, "register", "recv")
    /\ mapClientThread' = [mapClientThread EXCEPT ![tfd[t]] = t]
    /\ UNCHANGED <<kernel, boxes, handoff, tfd, own, src, cancelled,
                   dispatcher, acceptor, app, told>>

AtEnd == IF use.external THEN "disconnect" ELSE "close"

\* recv() on a descriptor that was closed fails with EBADF.
RecvCall(t) ==
    /\ Goto(t, "recv", IF fdtab[tfd[t]] = None THEN AtEnd ELSE "blocked")
    /\ src' = [src EXCEPT ![t] = fdtab[tfd[t]]]
    /\ OnlyClient /\ UNCHANGED <<boxes, tfd, own, cancelled, told>>

OnlyTpc == OnlyClient /\ UNCHANGED <<boxes, tfd, own, src, cancelled, told>>

RecvReturns(t) ==
    /\ src' = [src EXCEPT ![t] = None]
    /\ OnlyClient /\ UNCHANGED <<boxes, tfd, own, cancelled, told>>

\* A packet to pass on, or an enquire_link or oversized one that is answered
\* or handled in place.
RecvPacket(t) ==
    /\ src[t] \notin hup
    /\ Goto(t, "blocked", "receive") \/ (use.cmp /\ Goto(t, "blocked", "recv"))
    /\ RecvReturns(t)

RecvEnd(t) == src[t] \in hup /\ Goto(t, "blocked", AtEnd) /\ RecvReturns(t)

\* A header or body of the wrong length ends the connection as well.
RecvInvalid(t) == use.cmp /\ src[t] \notin hup /\ Goto(t, "blocked", AtEnd) /\ RecvReturns(t)

SendReceive(t) ==
    /\ Goto(t, "receive", "recv")
    /\ IF use.external THEN PostOut("RECEIVE", tfd[t], own[t]) ELSE PostIn("RECEIVE", tfd[t], own[t])
    /\ OnlyClient /\ UNCHANGED <<tfd, own, src, cancelled, told>>

BugSendDisconnectSilent(t) ==
    /\ Goto(t, "disconnect", "close")
    /\ OnlyClient /\ UNCHANGED <<boxes, tfd, own, src, cancelled, told>>

SendDisconnect(t) ==
    /\ Goto(t, "disconnect", "close")
    /\ PostOut("DISCONNECT", tfd[t], own[t])
    /\ told' = [told EXCEPT ![own[t]] = "disconnected"]
    /\ OnlyClient /\ UNCHANGED <<tfd, own, src, cancelled>>

BugCloseSocketSkipped(t) ==
    /\ Goto(t, "close", IF use.cmp THEN "unregister" ELSE "final")
    /\ OnlyTpc

CloseSocket(t) ==
    /\ Goto(t, "close", IF use.cmp THEN "unregister" ELSE "final")
    /\ socketClose(tfd[t])
    /\ UNCHANGED <<backlog, hup, listening, boxes, handoff, mapClientThread, tfd, own, src,
                   cancelled, dispatcher, acceptor, app, told>>

BugUnregisterSkipped(t) == Goto(t, "unregister", "final") /\ OnlyTpc

\* The descriptor is closed already: the entry may be the one of the next
\* client's thread by now.
Unregister(t) ==
    /\ Goto(t, "unregister", "final")
    /\ mapClientThread' = [mapClientThread EXCEPT ![tfd[t]] = Absent]
    /\ UNCHANGED <<kernel, boxes, handoff, tfd, own, src, cancelled,
                   dispatcher, acceptor, app, told>>

BugSendThreadExitSkipped(t) == Goto(t, "final", "exit") /\ OnlyTpc

SendThreadExit(t) ==
    /\ Goto(t, "final", "exit")
    /\ PostIn("THREAD_EXIT", t, None)
    /\ OnlyClient /\ UNCHANGED <<tfd, own, src, cancelled, told>>

\* threadExit(), or the end of a cancelled thread.
Exit(t) ==
    /\ tpc[t] = "exit" \/ (t \in cancelled /\ tpc[t] \in CancelPoint)
    /\ tpc' = [tpc EXCEPT ![t] = "zombie"]
    /\ tfd' = [tfd EXCEPT ![t] = None]
    /\ own' = [own EXCEPT ![t] = None]
    /\ src' = [src EXCEPT ![t] = None]
    /\ cancelled' = cancelled \ {t}
    /\ OnlyClient /\ UNCHANGED <<boxes, told>>

-----------------------------------------------------------------------------
(* CThreadHandler, and the message thread                                  *)

\* pthread_join; for an id joined before, and for 0, it returns at once.
threadJoin(t) ==
    \/ t \in Thread /\ tpc[t] \in {"zombie", "free"} /\ tpc' = [tpc EXCEPT ![t] = "free"]
    \/ t = None /\ UNCHANGED tpc

\* pthread_cancel, after a check that the thread is there.
threadCancel(t) ==
    cancelled' = IF t \in Thread /\ tpc[t] \notin {"free", "zombie"}
                 THEN cancelled \cup {t} ELSE cancelled

createThread(c) ==
    \/ \E t \in Thread :
         /\ tpc[t] = "free"
         /\ tpc' = [tpc EXCEPT ![t] = "start"]
         /\ own' = [own EXCEPT ![t] = c]
    \/ use.fails /\ UNCHANGED <<tpc, own>>

Take(cmd) ==
    /\ mpc = "wait" /\ inbox # <<>> /\ Head(inbox).cmd = cmd
    /\ inbox' = Tail(inbox) /\ UNCHANGED outbox

HandleAccept ==
    /\ Take("ACCEPT")
    /\ mpc' = "lock" /\ cur' = Head(inbox)
    /\ UNCHANGED <<kernel, handoff, mapClientThread, clients, acceptor, app, told>>

BugHandWithoutLock ==
    /\ mpc = "lock"
    /\ lock' = TRUE /\ m_nClientFD' = cur.id
    /\ createThread(cur.conn)
    /\ mpc' = "wait" /\ cur' = NoMsg
    /\ UNCHANGED <<kernel, boxes, mapClientThread, tfd, src, cancelled, acceptor, app, told>>

\* cmpHandler, dataHandler.  Only the created thread releases the lock.
Hand ==
    /\ mpc = "lock" /\ ~lock
    /\ lock' = TRUE /\ m_nClientFD' = cur.id
    /\ createThread(cur.conn)
    /\ mpc' = "wait" /\ cur' = NoMsg
    /\ UNCHANGED <<kernel, boxes, mapClientThread, tfd, src, cancelled, acceptor, app, told>>

HandleReceive ==
    /\ Take("RECEIVE")
    /\ UNCHANGED <<kernel, handoff, mapClientThread, clients, dispatcher, acceptor, app, told>>

HandleThreadExit ==
    /\ Take("THREAD_EXIT")
    /\ mpc' = "join" /\ cur' = Head(inbox)
    /\ UNCHANGED <<kernel, handoff, mapClientThread, clients, acceptor, app, told>>

Join ==
    /\ mpc = "join" /\ threadJoin(cur.id)
    /\ mpc' = "wait" /\ cur' = NoMsg
    /\ UNCHANGED <<kernel, boxes, handoff, mapClientThread, tfd, own, src, cancelled,
                   acceptor, app, told>>

-----------------------------------------------------------------------------
(* The application: its receiver of external events, closeClient, stop     *)

AtApp(from, to) == xpc = from /\ xpc' = to /\ UNCHANGED use

OnlyApp == UNCHANGED <<handoff, dispatcher, acceptor, told>>

AppTake ==
    /\ outbox # <<>> /\ outbox' = Tail(outbox)
    /\ \/ AtApp("wait", "wait") /\ UNCHANGED xfd
       \/ use.closes /\ AtApp("wait", "close") /\ xfd' = Head(outbox).id
    /\ OnlyApp /\ UNCHANGED <<kernel, inbox, mapClientThread, clients, xpid, visited>>

CloseClientFd ==
    /\ AtApp("close", "find")
    /\ socketClose(xfd)
    /\ OnlyApp
    /\ UNCHANGED <<backlog, hup, listening, boxes, mapClientThread, clients, xfd, xpid, visited>>

CloseClientFind ==
    /\ AtApp("find", IF mapClientThread[xfd] = Absent THEN "wait" ELSE "read")
    /\ xfd' = IF mapClientThread[xfd] = Absent THEN None ELSE xfd
    /\ OnlyApp /\ UNCHANGED <<kernel, boxes, mapClientThread, clients, xpid, visited>>

\* mapClientThread[nClientFD] yields 0 for an entry erased since.
CloseClientErase ==
    /\ AtApp("read", "cancel")
    /\ xpid' = IF mapClientThread[xfd] = Absent THEN None ELSE mapClientThread[xfd]
    /\ mapClientThread' = [mapClientThread EXCEPT ![xfd] = Absent]
    /\ xfd' = None
    /\ OnlyApp /\ UNCHANGED <<kernel, boxes, clients, visited>>

CloseClientCancel ==
    /\ AtApp("cancel", "post")
    /\ threadCancel(xpid)
    /\ OnlyApp
    /\ UNCHANGED <<kernel, boxes, mapClientThread, tpc, tfd, own, src, xfd, xpid, visited>>

CloseClientPost ==
    /\ AtApp("post", "wait")
    /\ PostIn("THREAD_EXIT", xpid, None)
    /\ xpid' = None
    /\ OnlyApp /\ UNCHANGED <<kernel, mapClientThread, clients, xfd, visited>>

Stop ==
    /\ use.stops /\ AtApp("wait", "stop")
    /\ listening' = FALSE
    /\ OnlyApp
    /\ UNCHANGED <<backlog, hup, fdtab, boxes, mapClientThread, clients, xfd, xpid, visited>>

ToVisit == {fd \in FD : mapClientThread[fd] # Absent} \ visited

StopCancel(fd) ==
    /\ AtApp("stop", "stopjoin")
    /\ fd \in ToVisit
    /\ visited' = visited \cup {fd}
    /\ xpid' = mapClientThread[fd]
    /\ threadCancel(mapClientThread[fd])
    /\ OnlyApp
    /\ UNCHANGED <<kernel, boxes, mapClientThread, tpc, tfd, own, src, xfd>>

StopJoin ==
    /\ AtApp("stopjoin", "stop")
    /\ threadJoin(xpid)
    /\ xpid' = None
    /\ OnlyApp
    /\ UNCHANGED <<kernel, boxes, mapClientThread, tfd, own, src, cancelled, xfd, visited>>

StopEnd ==
    /\ AtApp("stop", "stopped")
    /\ ToVisit = {}
    /\ OnlyApp
    /\ UNCHANGED <<kernel, boxes, mapClientThread, clients, xfd, xpid, visited>>

-----------------------------------------------------------------------------
runSocketAccept ==
    \/ \E c \in Conn, fd \in FD : Accept(c, fd)
    \/ SendAccept

SendStep(t) ==
    \/ SendConnect(t) \/ SendReceive(t)
    \/ SendDisconnect(t) \/ SendThreadExit(t)

LocalStep(t) ==
    \/ Start(t) \/ Register(t) \/ RecvCall(t) \/ RecvEnd(t)
    \/ CloseSocket(t) \/ Unregister(t) \/ Exit(t)

runCMPHandler(t) == SendStep(t) \/ LocalStep(t) \/ RecvPacket(t) \/ RecvInvalid(t)

runMessageReceive ==
    \/ HandleAccept \/ Hand
    \/ HandleReceive
    \/ HandleThreadExit \/ Join

Application ==
    \/ AppTake
    \/ CloseClientFd \/ CloseClientFind \/ CloseClientErase
    \/ CloseClientCancel \/ CloseClientPost
    \/ Stop \/ (\E fd \in FD : StopCancel(fd)) \/ StopJoin \/ StopEnd

Next ==
    \/ \E c \in Conn : PeerConnect(c) \/ PeerHangup(c)
    \/ runSocketAccept
    \/ \E t \in Thread : runCMPHandler(t)
    \/ runMessageReceive
    \/ Application

Spec == Init /\ [][Next]_vars

\* As in CATcpServer: runnable threads run, and msgsnd wakes its sleepers in
\* their order.  The application reads its events.
Fairness ==
    /\ WF_vars(runMessageReceive)
    /\ WF_vars(AppTake)
    /\ WF_vars(\E c \in Conn, fd \in FD : Accept(c, fd))
    /\ SF_vars(SendAccept)
    /\ \A t \in Thread : WF_vars(LocalStep(t)) /\ SF_vars(SendStep(t))

FairSpec == Spec /\ Fairness

-----------------------------------------------------------------------------
(* Properties                                                              *)

\* Every variable keeps its type, and the two kinds of messages together
\* never outgrow the queue (CMessageHandler::sendMessage).
TypeOK ==
    /\ backlog \subseteq Conn /\ hup \subseteq Conn
    /\ fdtab \in [FD -> Conn \cup {None}] /\ listening \in BOOLEAN
    /\ inbox \in Seq(Msg \cup ExitMsg) /\ outbox \in Seq(Msg)
    /\ Len(inbox) + Len(outbox) <= QueueCap
    /\ lock \in BOOLEAN /\ m_nClientFD \in FD \cup {None}
    /\ mapClientThread \in [FD -> Thread \cup {Absent}]
    /\ tpc \in [Thread -> ClientState]
    /\ tfd \in [Thread -> FD \cup {None}]
    /\ own \in [Thread -> Conn \cup {None}] /\ src \in [Thread -> Conn \cup {None}]
    /\ cancelled \subseteq Thread
    /\ mpc \in {"wait", "lock", "join"} /\ cur \in Msg \cup ExitMsg \cup {NoMsg}
    /\ apc \in {"accept", "send", "refused"} /\ amsg \in Msg \cup {NoMsg}
    /\ xpc \in AppState /\ xfd \in FD \cup {None}
    /\ xpid \in Thread \cup {None} /\ visited \subseteq FD
    /\ use \in Uses
    /\ told \in [Conn -> {"nothing", "connected", "disconnected"}]

Works(t) == tpc[t] \notin {"free", "start", "unregister", "final", "exit", "zombie"}

Holders(fd) ==
    {h \in {<<"acceptor", 0>>} : amsg.id = fd}
    \cup {<<"queued", i>> : i \in {j \in 1..Len(inbox) : inbox[j].cmd = "ACCEPT" /\ inbox[j].id = fd}}
    \cup {h \in {<<"message thread", 0>>} : mpc = "lock" /\ cur.id = fd}
    \cup {h \in {<<"handed", 0>>} : lock /\ m_nClientFD = fd}
    \cup {<<"client", t>> : t \in {u \in Thread : Works(u) /\ tfd[u] = fd}}

\* Every open client socket is with exactly one party from accept() to
\* close(), and a closed one is with nobody: the one variable m_nClientFD
\* neither loses a descriptor nor hands it out twice (cmpHandler, dataHandler).
FdAccounted ==
    \A fd \in FD : IF fdtab[fd] = None THEN Holders(fd) = {}
                                       ELSE \E h \in Holders(fd) : Holders(fd) = {h}

\* While a created thread has not read m_nClientFD yet, the lock is held and
\* there is no second such thread: no later descriptor overwrites the one it
\* is to read (threadLock, threadUnLock).
HandOff ==
    /\ \A t \in Thread : tpc[t] = "start" => lock
    /\ \A t, u \in Thread : tpc[t] = "start" /\ tpc[u] = "start" => t = u

\* A client thread reads the connection it was created for and no other,
\* although all it is given is a descriptor number in a shared variable.
ReadsOwnStream == \A t \in Thread : src[t] \in {None, own[t]}

\* The thread a THREAD_EXIT names is past its last send: the message thread
\* never waits in pthread_join for one that waits for room in the queue.
JoinEnds == mpc = "join" => cur.id \in Thread /\ tpc[cur.id] \in {"exit", "zombie"}

\* mapClientThread only names threads that have not posted THREAD_EXIT yet:
\* closeClient and stop never cancel an id that may have been joined and
\* given to another client's thread.
EntryAlive ==
    \A fd \in FD : mapClientThread[fd] \in Thread =>
        /\ tpc[mapClientThread[fd]] \notin {"free", "start", "final", "exit", "zombie"}
        /\ tfd[mapClientThread[fd]] = fd

\* An application that calls neither closeClient, which closes the descriptor
\* under its thread, nor stop, which ends threads without closing theirs.
Undisturbed == ~use.closes /\ ~use.stops

\* Every open client socket is with exactly one party from accept() to close(),
\* a closed one is with nobody, and a client thread reads the connection it was
\* created for and no other, although all it is given is a number in a shared
\* variable (cmpHandler, dataHandler, runCMPHandler).
DescriptorsKept == Undisturbed => FdAccounted /\ ReadsOwnStream

\* The thread a THREAD_EXIT names is past its last send, so that the message
\* thread never joins one that waits for room in its queue, and mapClientThread
\* only names threads that have not posted theirs yet.
ThreadsKept == Undisturbed => JoinEnds /\ EntryAlive

\* Every client thread that ended is joined.
ThreadReclaimed == \A t \in Thread : (tpc[t] = "zombie") ~> (tpc[t] = "free")

\* When stop() returns, no client thread is left that serves a client
\* (the comment over its loop).
StopClears == xpc = "stopped" => \A t \in Thread : tpc[t] # "blocked"

\* The promise to the application, in the order of the events posted to it:
\* each client's events in turn, and one that hung up is told of and let go.
phase == [c \in Conn |-> IF Held(c) THEN "held" ELSE IF c \in backlog THEN "backlog" ELSE "outside"]

Service == INSTANCE ConnectionService
               WITH Conn <- Conn, phase <- phase, told <- told, hup <- hup

ImplementsService == Service!FairSpec
=============================================================================

--------------------------- MODULE CATcpServerLife ---------------------------
(***************************************************************************)
(* start() and stop() of socketHandler/CATcpServer.cpp, and what they do   *)
(* to the threads that CATcpServer.tla describes while the server serves.  *)
(*                                                                         *)
(* start() opens the queue and the listening socket and creates a message  *)
(* thread and an accept thread.  stop() closes the listening socket,       *)
(* cancels and joins the message thread it knows of, wherever that is in a *)
(* handler, removes the queue unless its key was given, and then closes    *)
(* the clients of mapClient and cancels and joins their threads.  It does  *)
(* nothing to the accept thread: the one of an earlier start() goes on.    *)
(*                                                                         *)
(* Traffic and the idle timer are left out.  Connections are numbered, and *)
(* so are the threads made for them; descriptors are used again.           *)
(***************************************************************************)
EXTENDS Naturals, Sequences, FiniteSets

CONSTANTS
    MaxStarts,  \* bound: how often the application calls start
    MaxConns,   \* bound: how many clients ever connect
    FD,         \* descriptors for accepted sockets
    None,       \* no descriptor (-1), no entry in mapClient
    QueueCap    \* messages a queue holds before msgsnd sleeps

ASSUME BoundsAssumption == {MaxStarts, MaxConns, QueueCap} \subseteq Nat \ {0}
ASSUME NoneAssumption == None \notin FD \cup Nat

Session == 1..MaxStarts
Conn    == 1..MaxConns

VARIABLES
    extKey,         \* the application gives start() a message queue key
    born, hup,      \* clients accepted; those with an open descriptor that closed their end
    fdtab,          \* descriptor -> its connection or 0
    m_nSocketFD,    \* 0 or the session whose listening socket is open
    box, removed,   \* the message queues, and those not created or removed
    msqid,          \* 0 or the object's queue
    munRunThreadId, \* 0 or the session whose message thread stored its id
    mapClient,      \* descriptor -> None (no entry) or the entry's thread, 0 without one
    apc, afd, acn,  \* accept threads: where, nChildSocketFD, its connection
    mpc, mq, cur,   \* message threads: where, queue in msgrcv, message
    cancelled,      \* message threads with a cancellation pending
    rpc, rfd,       \* receive threads: where, nSocketFD
    last, xpc, xfd, \* the application: starts so far, where, stop's iterator
    xid, visited,   \* the id stop() joins, the entries it has been at
    missed          \* the starts whose stop() found no id (auxiliary: never read)

kernel == <<born, hup, fdtab>>
queues == <<box, removed, msqid>>
accepters == <<apc, afd, acn>>
runners == <<mpc, mq, cur, munRunThreadId, cancelled>>
receivers == <<rpc, rfd>>
app == <<last, xpc, xfd, xid, visited, missed>>
steps == <<kernel, m_nSocketFD, queues, mapClient, accepters, runners, receivers, app>>
vars == <<extKey, steps>>

-----------------------------------------------------------------------------
Msg == [cmd : {"ACCEPT", "DISCONNECT"}, id : FD, conn : Conn]
       \cup [cmd : {"THREAD_EXIT"}, id : Conn, conn : Conn]
NoMsg == [cmd |-> "none", id |-> None, conn |-> 0]

AccepterState == {"none", "accept", "on", "send"}
RunnerState   == {"none", "start", "call", "wait", "assign", "enter", "join", "find", "close",
                  "erase", "zombie", "joined"}
ReceiverState == {"none", "start", "recv", "disconnect", "lost", "zombie", "joined"}
AppState      == {"idle", "create", "bind", "spawn", "up", "halt", "call", "join", "sweep",
                  "closed", "reap", "nothread", "stopped"}

BugPostUnbounded(cmd, id, c) ==
    IF msqid = 0 \/ msqid \in removed THEN UNCHANGED box
    ELSE box' = [box EXCEPT ![msqid] = Append(@, [cmd |-> cmd, id |-> id, conn |-> c])]

\* sendMessage: nobody looks at its result when the queue is gone.
Post(cmd, id, c) ==
    IF msqid = 0 \/ msqid \in removed THEN UNCHANGED box
    ELSE /\ Len(box[msqid]) < QueueCap
         /\ box' = [box EXCEPT ![msqid] = Append(@, [cmd |-> cmd, id |-> id, conn |-> c])]

Init ==
    /\ extKey \in BOOLEAN
    /\ born = {} /\ hup = {} /\ fdtab = [fd \in FD |-> 0] /\ m_nSocketFD = 0
    /\ box = [q \in Session |-> <<>>] /\ removed = Session /\ msqid = 0
    /\ munRunThreadId = 0 /\ mapClient = [fd \in FD |-> None]
    /\ apc = [s \in Session |-> "none"] /\ afd = [s \in Session |-> None]
    /\ acn = [s \in Session |-> 0]
    /\ mpc = [s \in Session |-> "none"] /\ mq = [s \in Session |-> 0]
    /\ cur = [s \in Session |-> NoMsg] /\ cancelled = {}
    /\ rpc = [c \in Conn |-> "none"] /\ rfd = [c \in Conn |-> None]
    /\ last = 0 /\ xpc = "idle" /\ xfd = None /\ xid = 0 /\ visited = {}
    /\ missed = {}

-----------------------------------------------------------------------------
(* start()                                                                 *)

AtApp(from, to) == xpc = from /\ xpc' = to

OnlyCalls == UNCHANGED <<kernel, mapClient, afd, acn, mq, cur, receivers, visited, xfd>>

OnlyApp == OnlyCalls /\ UNCHANGED <<xid, missed>>

\* A failing initMessage or setInetSocket ends the call.
Begin(fails) ==
    LET s == last + 1
        q == IF extKey THEN 1 ELSE s IN
    /\ s \in Session /\ xpc \in {"idle", "stopped"}
    /\ last' = s /\ msqid' = q /\ removed' = removed \ {q}
    /\ xpc' = IF fails THEN "idle" ELSE "create"
    /\ OnlyApp /\ UNCHANGED <<m_nSocketFD, box, apc, mpc, munRunThreadId, cancelled>>

createSocket ==
    /\ AtApp("create", "bind") /\ m_nSocketFD' = last
    /\ OnlyApp /\ UNCHANGED <<queues, apc, mpc, munRunThreadId, cancelled, last>>

Listened == \E s \in Session : apc[s] = "on"

\* The port is taken as long as an accept() sleeps on the old socket.
Bind ==
    /\ AtApp("bind", "spawn") /\ ~Listened
    /\ OnlyApp /\ UNCHANGED <<m_nSocketFD, queues, apc, mpc, munRunThreadId, cancelled, last>>

\* start() fails, or at socketBind reports the number it has closed.
BindFails ==
    /\ AtApp("bind", "idle") /\ m_nSocketFD' = 0
    /\ OnlyApp /\ UNCHANGED <<queues, apc, mpc, munRunThreadId, cancelled, last>>

Spawn ==
    /\ AtApp("spawn", "up")
    /\ mpc' = [mpc EXCEPT ![last] = "start"] /\ apc' = [apc EXCEPT ![last] = "accept"]
    /\ OnlyApp /\ UNCHANGED <<m_nSocketFD, queues, munRunThreadId, cancelled, last>>

-----------------------------------------------------------------------------
(* stop()                                                                  *)

Stop ==
    /\ AtApp("up", "halt") /\ m_nSocketFD' = 0
    /\ OnlyApp /\ UNCHANGED <<queues, apc, mpc, munRunThreadId, cancelled, last>>

BugHaltWithoutCancel ==
    /\ AtApp("halt", IF munRunThreadId = 0 THEN "sweep" ELSE "call")
    /\ missed' = (IF munRunThreadId = 0 THEN missed \cup {last} ELSE missed)
    /\ OnlyCalls
    /\ UNCHANGED <<m_nSocketFD, queues, apc, mpc, munRunThreadId, cancelled, last, xid>>

\* The message thread may not have stored its id yet; then nothing ends it.
Halt ==
    /\ AtApp("halt", IF munRunThreadId = 0 THEN "sweep" ELSE "call")
    /\ cancelled' = cancelled \cup ({munRunThreadId} \ {0})
    /\ missed' = (IF munRunThreadId = 0 THEN missed \cup {last} ELSE missed)
    /\ OnlyCalls /\ UNCHANGED <<m_nSocketFD, queues, apc, mpc, munRunThreadId, last, xid>>

\* pthread_join is given what munRunThreadId holds by then.
HaltCall ==
    /\ AtApp("call", "join") /\ xid' = munRunThreadId
    /\ OnlyCalls
    /\ UNCHANGED <<m_nSocketFD, queues, apc, mpc, munRunThreadId, cancelled, last, missed>>

\* The object's own queue is removed, with what is in it.
HaltJoin ==
    /\ AtApp("join", "sweep") /\ mpc[xid] \in {"zombie", "joined"}
    /\ mpc' = [mpc EXCEPT ![xid] = "joined"] /\ munRunThreadId' = 0
    /\ removed' = (IF extKey THEN removed ELSE removed \cup {msqid})
    /\ box' = (IF extKey THEN box ELSE [box EXCEPT ![msqid] = <<>>])
    /\ xid' = 0
    /\ OnlyCalls /\ UNCHANGED <<m_nSocketFD, msqid, apc, cancelled, last, missed>>

OnlySweep ==
    UNCHANGED <<born, m_nSocketFD, queues, accepters, runners, last, xid, missed>>

socketClose(fd) == fdtab' = [fdtab EXCEPT ![fd] = 0] /\ hup' = hup \ {fdtab[fd]}

ToVisit == {fd \in FD : mapClient[fd] # None} \ visited

SweepClose(fd) ==
    /\ AtApp("sweep", "closed") /\ fd \in ToVisit
    /\ socketClose(fd) /\ xfd' = fd /\ visited' = visited \cup {fd}
    /\ OnlySweep /\ UNCHANGED <<mapClient, receivers>>

Running == {"start", "recv", "disconnect", "lost"}

\* recv and msgsnd are cancellation points.
threadCancel(c) ==
    /\ rpc' = [r \in Conn |-> IF r = c /\ rpc[r] \in Running THEN "zombie" ELSE rpc[r]]
    /\ rfd' = [r \in Conn |-> IF r = c THEN None ELSE rfd[r]]

\* What the iterator reads: anything once a message thread has erased its entry.
Entry(fd) == IF mapClient[fd] = None THEN Conn \cup {0} ELSE {mapClient[fd]}

SweepCancel ==
    /\ AtApp("closed", "reap") /\ \E c \in Entry(xfd) : threadCancel(c)
    /\ OnlySweep /\ UNCHANGED <<fdtab, hup, mapClient, xfd, visited>>

Ended(c) == rpc[c] \in {"zombie", "joined"}

threadJoin(c) == Ended(c) /\ rpc' = [rpc EXCEPT ![c] = "joined"]

\* pthread_join is not defined for the id of no thread: it may return, or not.
SweepJoin ==
    /\ xpc = "reap" /\ xfd' = None
    /\ \E c \in Entry(xfd) :
         \/ c # 0 /\ threadJoin(c) /\ xpc' = "sweep"
         \/ c = 0 /\ xpc' \in {"sweep", "nothread"} /\ UNCHANGED rpc
    /\ OnlySweep /\ UNCHANGED <<fdtab, hup, mapClient, rfd, visited>>

BugSweepEndKeepsMap ==
    /\ AtApp("sweep", "stopped") /\ ToVisit = {}
    /\ visited' = {}
    /\ OnlySweep /\ UNCHANGED <<fdtab, hup, mapClient, receivers, xfd>>

SweepEnd ==
    /\ AtApp("sweep", "stopped") /\ ToVisit = {}
    /\ mapClient' = [fd \in FD |-> None] /\ visited' = {}
    /\ OnlySweep /\ UNCHANGED <<fdtab, hup, receivers, xfd>>

-----------------------------------------------------------------------------
(* The clients and the accept threads                                      *)

OnlyAccept == UNCHANGED <<m_nSocketFD, removed, msqid, mapClient, runners, receivers, app>>

\* socketAccept fails, and the thread sleeps, while there is no socket.
AcceptCall(s) ==
    /\ apc[s] = "accept" /\ m_nSocketFD # 0 /\ xpc # "bind"
    /\ apc' = [apc EXCEPT ![s] = "on"]
    /\ OnlyAccept /\ UNCHANGED <<kernel, box, afd, acn>>

\* A connection arrives, also at a socket that stop() has closed meanwhile.
AcceptReturns(s, fd) ==
    LET c == Cardinality(born) + 1 IN
    /\ apc[s] = "on" /\ fdtab[fd] = 0 /\ c \in Conn
    /\ born' = born \cup {c} /\ fdtab' = [fdtab EXCEPT ![fd] = c]
    /\ apc' = [apc EXCEPT ![s] = "send"]
    /\ afd' = [afd EXCEPT ![s] = fd] /\ acn' = [acn EXCEPT ![s] = c]
    /\ OnlyAccept /\ UNCHANGED <<hup, box>>

SendAccept(s) ==
    /\ apc[s] = "send" /\ Post("ACCEPT", afd[s], acn[s])
    /\ apc' = [apc EXCEPT ![s] = "accept"]
    /\ afd' = [afd EXCEPT ![s] = None] /\ acn' = [acn EXCEPT ![s] = 0]
    /\ OnlyAccept /\ UNCHANGED kernel

PeerHangup(c) ==
    /\ c \in born \ hup /\ \E fd \in FD : fdtab[fd] = c
    /\ hup' = hup \cup {c}
    /\ UNCHANGED <<born, fdtab, m_nSocketFD, queues, mapClient, accepters, runners, receivers, app>>

-----------------------------------------------------------------------------
(* The receive threads, without the traffic                                *)

Goto(c, from, to) == rpc[c] = from /\ rpc' = [rpc EXCEPT ![c] = to]

OnlyReceive == UNCHANGED <<kernel, m_nSocketFD, removed, msqid, mapClient, accepters, runners, app>>

Named(c) == {fd \in FD : mapClient[fd] = c}

StartFound(c, fd) ==
    /\ fd \in Named(c) /\ Goto(c, "start", "recv") /\ rfd' = [rfd EXCEPT ![c] = fd]
    /\ OnlyReceive /\ UNCHANGED box

StartLost(c) ==
    /\ Named(c) = {} /\ Goto(c, "start", "lost")
    /\ OnlyReceive /\ UNCHANGED <<box, rfd>>

\* recv() ends with the client, or at once on a closed descriptor.
RecvEnd(c) ==
    /\ Goto(c, "recv", "disconnect") /\ fdtab[rfd[c]] \in hup \cup {0}
    /\ OnlyReceive /\ UNCHANGED <<box, rfd>>

SendDisconnect(c) ==
    /\ Goto(c, "disconnect", "zombie") /\ Post("DISCONNECT", rfd[c], c)
    /\ rfd' = [rfd EXCEPT ![c] = None]
    /\ OnlyReceive

SendThreadExit(c) ==
    /\ Goto(c, "lost", "zombie") /\ Post("THREAD_EXIT", c, c)
    /\ OnlyReceive /\ UNCHANGED rfd

-----------------------------------------------------------------------------
(* The message threads                                                     *)

Run(s, from, to) == mpc[s] = from /\ s \notin cancelled /\ mpc' = [mpc EXCEPT ![s] = to]

\* What a thread keeps of the message it has handled.
Done(s) == cur' = [cur EXCEPT ![s] = NoMsg]

OnlyRun == UNCHANGED <<born, m_nSocketFD, removed, msqid, accepters, rfd, cancelled, app>>

RunnerStart(s) ==
    /\ mpc[s] = "start" /\ mpc' = [mpc EXCEPT ![s] = "call"] /\ munRunThreadId' = s
    /\ OnlyRun /\ UNCHANGED <<fdtab, hup, box, mapClient, mq, cur, rpc>>

\* run() sleeps and tries again while its queue is gone.
RunnerCall(s) ==
    /\ Run(s, "call", "wait") /\ msqid \notin removed /\ mq' = [mq EXCEPT ![s] = msqid]
    /\ OnlyRun /\ UNCHANGED <<fdtab, hup, box, mapClient, munRunThreadId, cur, rpc>>

RunnerWoken(s) ==
    /\ Run(s, "wait", "call") /\ mq[s] \in removed /\ mq' = [mq EXCEPT ![s] = 0]
    /\ OnlyRun /\ UNCHANGED <<fdtab, hup, box, mapClient, munRunThreadId, cur, rpc>>

Take(s) ==
    /\ mpc[s] = "wait" /\ s \notin cancelled /\ box[mq[s]] # <<>>
    /\ cur' = [cur EXCEPT ![s] = Head(box[mq[s]])]
    /\ box' = [box EXCEPT ![mq[s]] = Tail(@)]
    /\ mpc' = [mpc EXCEPT ![s] = IF cur'[s].cmd = "ACCEPT" THEN "assign" ELSE "join"]
    /\ mq' = [mq EXCEPT ![s] = 0]
    /\ OnlyRun /\ UNCHANGED <<fdtab, hup, mapClient, munRunThreadId, rpc>>

\* createThread returns 0 when the system has no thread to give.  Whether
\* mapClient[nId] makes the entry before or after it is the compiler's choice.
Assign(s, created) ==
    LET m == cur[s] IN
    /\ Run(s, "assign", "enter")
    /\ rpc' = (IF created THEN [rpc EXCEPT ![m.conn] = "start"] ELSE rpc)
    /\ \E early \in BOOLEAN :
         mapClient' = IF early /\ mapClient[m.id] = None
                      THEN [mapClient EXCEPT ![m.id] = 0] ELSE mapClient
    /\ OnlyRun /\ UNCHANGED <<fdtab, hup, box, munRunThreadId, mq, cur>>

\* The entry is made with what createThread returned; one without a thread is
\* erased, its socket closed.  A cancellation waits: nothing here is a point of it.
Enter(s) ==
    LET m == cur[s]
        ulReceiveThreadID == IF rpc[m.conn] = "none" THEN 0 ELSE m.conn IN
    /\ mpc[s] = "enter"
    /\ mpc' = [mpc EXCEPT ![s] = IF ulReceiveThreadID = 0 THEN "close" ELSE "call"]
    /\ mapClient' = [mapClient EXCEPT ![m.id] = ulReceiveThreadID]
    /\ IF ulReceiveThreadID = 0 THEN UNCHANGED cur ELSE Done(s)
    /\ OnlyRun /\ UNCHANGED <<fdtab, hup, box, munRunThreadId, mq, rpc>>

\* getClientThreadID returns 0 also when there is no entry.
ToJoin(s) ==
    IF cur[s].cmd = "THREAD_EXIT" THEN cur[s].id
    ELSE IF mapClient[cur[s].id] = None THEN 0 ELSE mapClient[cur[s].id]

Join(s) ==
    /\ Run(s, "join", IF cur[s].cmd = "THREAD_EXIT" THEN "find" ELSE "close")
    /\ IF ToJoin(s) = 0 THEN UNCHANGED rpc ELSE threadJoin(ToJoin(s))
    /\ OnlyRun /\ UNCHANGED <<fdtab, hup, box, mapClient, munRunThreadId, mq, cur>>

\* The entry of the thread that posted THREAD_EXIT, if it was stored since.
Find(s) ==
    LET found == Named(cur[s].id) IN
    /\ Run(s, "find", IF found = {} THEN "call" ELSE "close")
    /\ IF found = {} THEN Done(s)
       ELSE \E fd \in found : cur' = [cur EXCEPT ![s].id = fd, ![s].cmd = "DISCONNECT"]
    /\ OnlyRun /\ UNCHANGED <<fdtab, hup, box, mapClient, munRunThreadId, mq, rpc>>

CloseFd(s) ==
    /\ Run(s, "close", "erase") /\ socketClose(cur[s].id)
    /\ OnlyRun /\ UNCHANGED <<box, mapClient, munRunThreadId, mq, cur, rpc>>

EraseEntry(s) ==
    /\ Run(s, "erase", "call") /\ mapClient' = [mapClient EXCEPT ![cur[s].id] = None]
    /\ Done(s)
    /\ OnlyRun /\ UNCHANGED <<fdtab, hup, box, munRunThreadId, mq, rpc>>

\* msgrcv, pthread_join, close and the writing of the log are cancellation
\* points: a handler can end after any of its steps, but not between a
\* createThread that made a thread and the entry of that thread.
RunnerEnd(s) ==
    /\ s \in cancelled /\ mpc[s] \notin {"none", "start", "zombie", "joined"}
    /\ mpc[s] = "enter" => rpc[cur[s].conn] = "none"
    /\ mpc' = [mpc EXCEPT ![s] = "zombie"] /\ cancelled' = cancelled \ {s}
    /\ mq' = [mq EXCEPT ![s] = 0] /\ Done(s)
    /\ UNCHANGED <<kernel, m_nSocketFD, queues, mapClient, accepters, munRunThreadId, receivers,
                   app>>

-----------------------------------------------------------------------------
start == (\E fails \in BOOLEAN : Begin(fails)) \/ createSocket \/ Bind \/ BindFails \/ Spawn

stop == Halt \/ HaltCall \/ HaltJoin \/ (\E fd \in FD : SweepClose(fd)) \/ SweepCancel \/ SweepJoin
        \/ SweepEnd

runTcpReceive(c) ==
    (\E fd \in FD : StartFound(c, fd)) \/ StartLost(c) \/ RecvEnd(c)

runMessageReceive(s) ==
    \/ RunnerStart(s) \/ RunnerCall(s) \/ RunnerWoken(s) \/ Take(s) \/ Assign(s, TRUE)
    \/ Enter(s) \/ Join(s) \/ Find(s) \/ CloseFd(s) \/ EraseEntry(s) \/ RunnerEnd(s)

Step ==
    \/ start \/ Stop \/ stop
    \/ \E c \in Conn : PeerHangup(c) \/ runTcpReceive(c) \/ SendDisconnect(c) \/ SendThreadExit(c)
    \/ \E s \in Session :
         \/ AcceptCall(s) \/ SendAccept(s) \/ (\E fd \in FD : AcceptReturns(s, fd))
         \/ runMessageReceive(s) \/ Assign(s, FALSE)

Next == Step /\ UNCHANGED extKey

Spec == Init /\ [][Next]_vars

\* Runnable threads run, and msgsnd wakes its sleepers in their order.
Fairness ==
    /\ WF_steps(stop)
    /\ \A s \in Session :
         WF_steps(runMessageReceive(s)) /\ WF_steps(AcceptCall(s))
    /\ \A c \in Conn : WF_steps(runTcpReceive(c))

FairSpec == Spec /\ Fairness

-----------------------------------------------------------------------------
(* Properties                                                              *)

\* Every variable keeps its type, and no queue outgrows its bytes.
TypeOK ==
    /\ born \subseteq Conn /\ hup \subseteq born /\ fdtab \in [FD -> Conn \cup {0}]
    /\ m_nSocketFD \in 0..MaxStarts /\ msqid \in 0..MaxStarts /\ removed \subseteq Session
    /\ box \in [Session -> Seq(Msg)] /\ \A q \in Session : Len(box[q]) <= QueueCap
    /\ munRunThreadId \in 0..MaxStarts /\ mapClient \in [FD -> Conn \cup {0, None}]
    /\ apc \in [Session -> AccepterState] 
    /\ afd \in [Session -> FD \cup {None}] /\ acn \in [Session -> 0..MaxConns]
    /\ mpc \in [Session -> RunnerState] /\ mq \in [Session -> 0..MaxStarts]
    /\ cur \in [Session -> Msg \cup {NoMsg}] /\ cancelled \subseteq Session
    /\ rpc \in [Conn -> ReceiverState] /\ rfd \in [Conn -> FD \cup {None}]
    /\ extKey \in BOOLEAN
    /\ last \in 0..MaxStarts /\ xpc \in AppState /\ xfd \in FD \cup {None} /\ visited \subseteq FD
    /\ xid \in 0..MaxStarts /\ missed \subseteq Session

\* The message threads nobody has joined.
Unjoined == {s \in Session : mpc[s] \notin {"none", "joined"}}

\* Every message thread a stop() leaves behind is owed to a stop(), this or an
\* earlier one, that came before the thread of its start had stored its id:
\* there are no more of them, and at most one more runs between start() and
\* stop().  As long as there was no such stop(), a stop() leaves no client in
\* mapClient.  munRunThreadId never names a joined thread (stop, start,
\* runMessageReceive).
StopClears ==
    /\ Cardinality(Unjoined) <= Cardinality(missed) + 1
    /\ xpc = "stopped" => Cardinality(Unjoined) <= Cardinality(missed)
    /\ xpc = "stopped" /\ missed = {} => \A fd \in FD : mapClient[fd] = None
    /\ munRunThreadId # 0 => mpc[munRunThreadId] # "joined"

\* A stop() that finds the id returns, as long as no earlier one missed one,
\* wherever the message thread was in a handler and although the threads it joins
\* may be asleep in a full queue; unless that thread was struck while it made and
\* erased the entry of a client it got no thread for: then stop() may hang in a
\* pthread_join of no thread, and that entry is still there.
StopReturns == munRunThreadId # 0 /\ missed = {} /\ xpc = "halt" ~>
    \/ xpc = "stopped"
    \/ xpc = "nothread" /\ \E fd \in visited : mapClient[fd] = 0
=============================================================================

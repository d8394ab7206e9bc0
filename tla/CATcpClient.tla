----------------------------- MODULE CATcpClient -----------------------------
(***************************************************************************)
(* socketHandler/CATcpClient.cpp: one client object that may connect, stop *)
(* and connect again.  Every connect() creates a message thread, which     *)
(* runs onReceiveMessage, and a receive thread, which reads the socket and *)
(* posts CONNECT, RECEIVE, ALIVE and DISCONNECT.                           *)
(*                                                                         *)
(* The threads of an earlier connect() may still run.  They share with the *)
(* new ones the members m_nSocketFD, CATCP_MSQ_EVENT_FILTER, the queue id  *)
(* and filter inside CMessageHandler, and munRunThreadId: all of these are *)
(* read when they are used, not when the thread was created.  Only the     *)
(* receive thread's nSocketFD is its own.                                  *)
(*                                                                         *)
(* The s-th connect() makes connection s, its threads and filter s.        *)
(***************************************************************************)
EXTENDS Naturals, Sequences, SequencesExt

CONSTANTS
    MaxConnects,  \* bound: how often the application calls connect
    FD,           \* descriptors the kernel has left
    None,         \* no descriptor (-1)
    QueueCap,     \* messages a queue holds before msgsnd sleeps
    Apps          \* the applications: how they use the object

ASSUME BoundsAssumption == MaxConnects \in Nat \ {0} /\ QueueCap \in Nat \ {0}
ASSUME NoneAssumption == None \notin FD \cup Nat

Session == 1..MaxConnects

\* How often an application connects, whether it gives a message queue key, calls
\* stop(), always does before it connects again, calls closeServer(), runIdleTimeout().
App == [connects : Session, extKey : BOOLEAN, stops : BOOLEAN, stopsFirst : BOOLEAN,
        closes : BOOLEAN, idle : BOOLEAN]

ASSUME AppsAssumption == Apps \subseteq App

VARIABLES
    app,             \* the application of this behaviour
    fdtab, hup,      \* descriptor -> its connection; connections the server closed
    m_nSocketFD,
    filter,          \* CATCP_MSQ_EVENT_FILTER; 0 before the first connect
    box, removed,    \* the System V queues, and those that were removed
    msqid, m_nEvent, \* CMessageHandler's queue (0: none) and receive filter
    munRunThreadId,  \* 0 or the session whose message thread stored its id
    mpc, call, cur,  \* message threads: where, the arguments of msgrcv, the message held
    rpc, rfd, src,   \* receive threads: where, nSocketFD, what recv() reads
    xpc,             \* where the application's call is
    aged, timer,     \* nothing heard for IDLE_TIMEOUT; the filter TIMER goes to, or 0
    told,            \* the callbacks made for each connection
    \* of the specification only: what msgrcv gave of each connection and to which
    \* threads, and the message threads that a stop() came too early for
    taken, takers, missed

sockets   == <<fdtab, hup, m_nSocketFD>>
queues    == <<box, removed, msqid, m_nEvent>>
held      == <<call, cur>>
runners   == <<munRunThreadId, mpc, held>>
receivers == <<rpc, rfd, src>>
idle      == <<aged, timer>>
calls     == <<told, taken, takers, missed>>
vars == <<sockets, filter, queues, runners, receivers, xpc, idle, calls>>

-----------------------------------------------------------------------------
Command == {"CONNECT", "RECEIVE", "ALIVE", "DISCONNECT", "THREAD_EXIT", "SERVER_CLOSE", "TIMER"}
Msg     == [to : Session, cmd : Command, id : FD \cup {None}, conn : Session \cup {0}]

NoMsg   == [to |-> 0, cmd |-> "NOTHING", id |-> None, conn |-> 0]

RunnerState   == {"none", "start", "run", "call", "wait", "handle", "closing", "cancelled", "zombie",
                  "joined"}
ReceiverState == {"none", "start", "lost", "connect", "recv", "blocked", "receive", "alive",
                  "disconnect", "exit", "zombie"}
AppState      == {"new", "socket", "dial", "reap", "reapjoin", "spawn", "spawnreceive", "up",
                  "halt", "haltjoin", "stopped"}

Usable(q) == q \in Session /\ q \notin removed

BugPostUnbounded(to, cmd, id, conn) ==
    IF Usable(msqid)
    THEN box' = [box EXCEPT ![msqid] = Append(@, [to |-> to, cmd |-> cmd, id |-> id, conn |-> conn])]
    ELSE UNCHANGED box

\* sendMessage: nobody looks at its result when the queue is gone.
Post(to, cmd, id, conn) ==
    IF Usable(msqid)
    THEN /\ Len(box[msqid]) < QueueCap
         /\ box' = [box EXCEPT ![msqid] = Append(@, [to |-> to, cmd |-> cmd, id |-> id, conn |-> conn])]
    ELSE UNCHANGED box

Init ==
    /\ app \in Apps
    /\ fdtab = [fd \in FD |-> 0] /\ hup = {} /\ m_nSocketFD = None
    /\ filter = 0
    /\ box = [q \in Session |-> <<>>] /\ removed = Session /\ msqid = 0 /\ m_nEvent = 0
    /\ munRunThreadId = 0
    /\ mpc = [s \in Session |-> "none"] /\ call = [s \in Session |-> <<0, 0>>]
    /\ cur = [s \in Session |-> NoMsg]
    /\ rpc = [s \in Session |-> "none"] /\ rfd = [s \in Session |-> None]
    /\ src = [s \in Session |-> 0]
    /\ xpc = "new"
    /\ aged = FALSE /\ timer = 0
    /\ told = [s \in Session |-> "nothing"] /\ taken = told
    /\ takers = [s \in Session |-> {}] /\ missed = {}

-----------------------------------------------------------------------------
(* connect()                                                               *)

AtApp(from, to) == xpc = from /\ xpc' = to

Begin(outcome) ==
    LET s == filter + 1
        q == IF app.extKey THEN 1 ELSE s IN
    /\ s <= app.connects
    /\ xpc \in {"new", "stopped"} \/ (xpc = "up" /\ ~app.stopsFirst)
    /\ filter' = s
    /\ munRunThreadId' = 0  \* before Reap tests it
    /\ CASE outcome = "no queue" -> xpc' = "new" /\ msqid' = 0 /\ UNCHANGED removed
         [] outcome = "bad address" -> xpc' = "new" /\ msqid' = q /\ removed' = removed \ {q}
         [] OTHER -> xpc' = "socket" /\ msqid' = q /\ removed' = removed \ {q}
    /\ UNCHANGED <<sockets, box, m_nEvent, mpc, held, receivers, idle, calls>>

CreateSocket(fd) ==
    /\ AtApp("socket", "dial")
    /\ fdtab[fd] = 0
    /\ fdtab' = [fdtab EXCEPT ![fd] = filter]
    /\ m_nSocketFD' = fd
    /\ UNCHANGED <<hup, filter, queues, runners, receivers, idle, calls>>

\* socket() fails and leaves -1, or inet_aton() fails and leaves the number.
CreateSocketFails ==
    /\ AtApp("socket", "new")
    /\ m_nSocketFD' \in {None, m_nSocketFD}
    /\ UNCHANGED <<fdtab, hup, filter, queues, runners, receivers, idle, calls>>

OnlyApp == UNCHANGED <<hup, filter, queues, receivers, idle, calls>>

socketClose ==
    /\ fdtab' = [fd \in FD |-> IF fd = m_nSocketFD THEN 0 ELSE fdtab[fd]]
    /\ m_nSocketFD' = None

Dial == AtApp("dial", "reap") /\ OnlyApp /\ UNCHANGED <<fdtab, m_nSocketFD, runners>>

DialFails == AtApp("dial", "new") /\ socketClose /\ OnlyApp /\ UNCHANGED runners

threadCancel(s) ==
    mpc' = [t \in Session |->
              IF t = s /\ mpc[t] \notin {"none", "zombie", "joined"} THEN "cancelled" ELSE mpc[t]]

\* threadJoin and munRunThreadId = 0; the id is read again, not what was cancelled.
JoinRunner ==
    /\ mpc[munRunThreadId] \in {"zombie", "joined"}
    /\ mpc' = [mpc EXCEPT ![munRunThreadId] = "joined"]
    /\ munRunThreadId' = 0
    /\ UNCHANGED held

Reap ==
    /\ AtApp("reap", IF munRunThreadId = 0 THEN "spawn" ELSE "reapjoin")
    /\ threadCancel(munRunThreadId)
    /\ OnlyApp /\ UNCHANGED <<fdtab, m_nSocketFD, munRunThreadId, held>>

ReapJoin ==
    /\ AtApp("reapjoin", "spawn") /\ JoinRunner
    /\ OnlyApp /\ UNCHANGED <<fdtab, m_nSocketFD>>

\* createThread; it may fail, and the result is only passed to a callback.
SpawnRunner(started) ==
    /\ AtApp("spawn", "spawnreceive")
    /\ mpc' = [mpc EXCEPT ![filter] = IF started THEN "start" ELSE "none"]
    /\ OnlyApp /\ UNCHANGED <<fdtab, m_nSocketFD, munRunThreadId, held>>

SpawnReceiver(started) ==
    /\ AtApp("spawnreceive", "up")
    /\ rpc' = [rpc EXCEPT ![filter] = IF started THEN "start" ELSE "none"]
    /\ UNCHANGED <<sockets, filter, queues, runners, rfd, src, idle, calls>>

-----------------------------------------------------------------------------
(* stop(), closeServer(), runIdleTimeout()                                 *)

Stop ==
    /\ app.stops /\ xpc \in {"up", "new"} /\ filter # 0 /\ xpc' = "halt"
    /\ socketClose
    /\ OnlyApp /\ UNCHANGED runners

BugHaltJoinKeepsId ==
    /\ AtApp("haltjoin", "stopped")
    /\ mpc[munRunThreadId] \in {"zombie", "joined"}
    /\ mpc' = [mpc EXCEPT ![munRunThreadId] = "joined"]
    /\ UNCHANGED <<sockets, filter, queues, munRunThreadId, held, receivers, idle, calls>>

Halt ==
    /\ AtApp("halt", IF munRunThreadId = 0 THEN "stopped" ELSE "haltjoin")
    /\ threadCancel(munRunThreadId)
    /\ missed' = (IF munRunThreadId = 0 THEN missed \cup {s \in Session : mpc[s] = "start"} ELSE missed)
    /\ UNCHANGED <<sockets, filter, queues, receivers, munRunThreadId, held, idle, told, taken, takers>>

\* A queue of the object's own key is removed, with what is in it.
HaltJoin ==
    /\ AtApp("haltjoin", "stopped")
    /\ JoinRunner
    /\ removed' = (IF app.extKey THEN removed ELSE removed \cup ({msqid} \cap Session))
    /\ box' = (IF app.extKey THEN box ELSE [q \in Session |-> IF q = msqid THEN <<>> ELSE box[q]])
    /\ UNCHANGED <<sockets, filter, msqid, m_nEvent, receivers, idle, calls>>

closeServer == Post(filter, "SERVER_CLOSE", m_nSocketFD, filter)

AppClose ==
    /\ app.closes /\ xpc = "up"
    /\ closeServer
    /\ UNCHANGED <<sockets, filter, removed, msqid, m_nEvent, runners, receivers, xpc, idle, calls>>

SetIdleTimer(on) ==
    /\ app.idle /\ xpc = "up" /\ timer # (IF on THEN filter ELSE 0)
    /\ timer' = IF on THEN filter ELSE 0
    /\ UNCHANGED <<sockets, filter, queues, runners, receivers, xpc, aged, calls>>

Age ==
    /\ timer # 0 /\ ~aged /\ aged' = TRUE
    /\ UNCHANGED <<sockets, filter, queues, runners, receivers, xpc, timer, calls>>

TimerFire ==
    /\ timer # 0
    /\ Post(timer, "TIMER", None, 0)
    /\ UNCHANGED <<sockets, filter, removed, msqid, m_nEvent, runners, receivers, xpc, idle, calls>>

ServerHangup(s) ==
    /\ s \notin hup
    /\ s \in {fdtab[fd] : fd \in FD} \cup {src[t] : t \in Session}
    /\ hup' = hup \cup {s}
    /\ UNCHANGED <<fdtab, m_nSocketFD, filter, queues, runners, receivers, xpc, idle, calls>>

-----------------------------------------------------------------------------
(* The receive threads: runTcpReceive, onTcpReceive                        *)

Goto(s, from, to) == rpc[s] = from /\ rpc' = [rpc EXCEPT ![s] = to]

OnlyReceiver == UNCHANGED <<sockets, filter, removed, msqid, m_nEvent, runners, xpc, idle, calls>>

Start(s) ==
    /\ Goto(s, "start", IF m_nSocketFD = None THEN "lost" ELSE "connect")
    /\ rfd' = [rfd EXCEPT ![s] = m_nSocketFD]
    /\ OnlyReceiver /\ UNCHANGED <<box, src>>

\* Every message goes to the filter and the queue the object has now.
SendStep(s, from, cmd, to) ==
    /\ Goto(s, from, to) /\ Post(filter, cmd, rfd[s], s)
    /\ OnlyReceiver /\ UNCHANGED <<rfd, src>>

BugSendConnectLate(s) == SendStep(s, "connect", "ALIVE", "recv")

SendConnect(s) == SendStep(s, "connect", "CONNECT", "recv")

SendReceive(s) == SendStep(s, "receive", "RECEIVE", "alive")

SendAlive(s) == SendStep(s, "alive", "ALIVE", "recv")

SendDisconnect(s) == SendStep(s, "disconnect", "DISCONNECT", "exit")

SendThreadExit(s) == SendStep(s, "lost", "THREAD_EXIT", "exit")

\* recv() resolves the number at the call; it stays on that connection even
\* when the descriptor is closed meanwhile.
RecvCall(s) ==
    /\ Goto(s, "recv", IF fdtab[rfd[s]] = 0 THEN "disconnect" ELSE "blocked")
    /\ src' = [src EXCEPT ![s] = fdtab[rfd[s]]]
    /\ OnlyReceiver /\ UNCHANGED <<box, rfd>>

RecvReturns(s) ==
    /\ Goto(s, "blocked", IF src[s] \in hup THEN "disconnect" ELSE "receive")
    /\ src' = [src EXCEPT ![s] = 0]
    /\ OnlyReceiver /\ UNCHANGED <<box, rfd>>

Exit(s) == Goto(s, "exit", "zombie") /\ OnlyReceiver /\ UNCHANGED <<box, rfd, src>>

-----------------------------------------------------------------------------
(* The message threads: runMessageReceive, CObject::run, onReceiveMessage  *)

Run(s, from, to) == mpc[s] = from /\ mpc' = [mpc EXCEPT ![s] = to]

OnlyRunner == UNCHANGED <<sockets, filter, removed, msqid, receivers, xpc, timer, missed>>

NoMessage == UNCHANGED <<cur, aged, told, taken, takers>>

RunnerStart(s) ==
    /\ Run(s, "start", "run")
    /\ munRunThreadId' = s
    /\ OnlyRunner /\ NoMessage /\ UNCHANGED <<box, m_nEvent, call>>

RunnerRun(s) ==
    /\ Run(s, "run", IF msqid = 0 THEN "zombie" ELSE "call")
    /\ m_nEvent' = IF msqid = 0 THEN m_nEvent ELSE filter
    /\ OnlyRunner /\ NoMessage /\ UNCHANGED <<box, munRunThreadId, call>>

\* msgrcv on a queue that is gone fails; run sleeps five seconds and retries.
RunnerCall(s) ==
    /\ Run(s, "call", "wait") /\ Usable(msqid)
    /\ call' = [call EXCEPT ![s] = <<msqid, m_nEvent>>]
    /\ OnlyRunner /\ NoMessage /\ UNCHANGED <<box, m_nEvent, munRunThreadId>>

RunnerWoken(s) ==
    /\ Run(s, "wait", "call") /\ call[s][1] \in removed
    /\ OnlyRunner /\ NoMessage /\ UNCHANGED <<box, m_nEvent, munRunThreadId, call>>

Waiting(s) == {i \in DOMAIN box[call[s][1]] : box[call[s][1]][i].to = call[s][2]}

First(s) == CHOOSE i \in Waiting(s) : \A j \in Waiting(s) : i <= j

FirstMsg(s) == box[call[s][1]][First(s)]

\* msgrcv returns.  What the message says is done later: another message thread on the
\* same filter may take the next message and be done with it first.
Take(s) ==
    LET m == FirstMsg(s) IN
    /\ Run(s, "wait", "handle") /\ Usable(call[s][1]) /\ Waiting(s) # {}
    /\ cur' = [cur EXCEPT ![s] = m]
    /\ box' = [box EXCEPT ![call[s][1]] = RemoveAt(@, First(s))]
    /\ takers' = [c \in Session |-> IF c = m.conn THEN takers[c] \cup {s} ELSE takers[c]]
    /\ taken' = [c \in Session |-> IF c = m.conn /\ m.cmd = "CONNECT" THEN "connected"
                                   ELSE IF c = m.conn /\ m.cmd = "DISCONNECT" THEN "disconnected"
                                   ELSE taken[c]]
    /\ OnlyRunner /\ UNCHANGED <<m_nEvent, munRunThreadId, call, aged, told>>

\* onReceiveMessage; a cancellation does not reach the thread before it waits or logs,
\* so that a cancelled thread may still make the callback.
Handle(s, cmds, to) ==
    /\ mpc[s] \in {"handle", "cancelled"} /\ cur[s].cmd \in cmds
    /\ mpc' = [mpc EXCEPT ![s] = IF @ = "cancelled" THEN @ ELSE to]
    /\ cur' = [cur EXCEPT ![s] = NoMsg]
    /\ OnlyRunner /\ UNCHANGED <<box, m_nEvent, munRunThreadId, call, taken, takers>>

HandleConnect(s) ==
    /\ Handle(s, {"CONNECT"}, "call")
    /\ told' = [told EXCEPT ![cur[s].conn] = "connected"]
    /\ aged' = FALSE

HandleAlive(s) == Handle(s, {"ALIVE"}, "call") /\ aged' = FALSE /\ UNCHANGED told

\* THREAD_EXIT is only logged.
HandleOther(s) == Handle(s, {"RECEIVE", "THREAD_EXIT"}, "call") /\ UNCHANGED <<aged, told>>

\* The handler joins getThreadID(), its own thread: EDEADLK, without effect.
HandleDisconnect(s) ==
    /\ Handle(s, {"DISCONNECT"}, "call")
    /\ told' = [told EXCEPT ![cur[s].conn] = "disconnected"]
    /\ UNCHANGED aged

\* The handler cancels getThreadID(), its own thread.
HandleServerClose(s) == Handle(s, {"SERVER_CLOSE"}, "cancelled") /\ UNCHANGED <<aged, told>>

HandleTimer(s) == Handle(s, {"TIMER"}, IF aged THEN "closing" ELSE "call") /\ UNCHANGED <<aged, told>>

\* checkIdle, on the message thread itself.
IdleClose(s) ==
    /\ Run(s, "closing", "call")
    /\ closeServer
    /\ OnlyRunner /\ NoMessage /\ UNCHANGED <<m_nEvent, munRunThreadId, call>>

\* The message that a cancelled thread holds is lost with it.
RunnerEnd(s) ==
    /\ Run(s, "cancelled", "zombie")
    /\ cur' = [cur EXCEPT ![s] = NoMsg]
    /\ OnlyRunner /\ UNCHANGED <<box, m_nEvent, munRunThreadId, call, aged, told, taken, takers>>

-----------------------------------------------------------------------------
connectWithCallback ==
    \/ \E outcome \in {"no queue", "bad address", "ready"} : Begin(outcome)
    \/ \E fd \in FD : CreateSocket(fd)
    \/ CreateSocketFails \/ Dial \/ DialFails \/ Reap \/ ReapJoin
    \/ \E started \in BOOLEAN : SpawnRunner(started) \/ SpawnReceiver(started)

stop == Stop \/ Halt \/ HaltJoin

runTcpReceive(s) ==
    \/ Start(s) \/ RecvCall(s) \/ RecvReturns(s) \/ Exit(s)
    \/ SendConnect(s) \/ SendReceive(s) \/ SendAlive(s) \/ SendDisconnect(s) \/ SendThreadExit(s)

runMessageReceive(s) ==
    \/ RunnerStart(s) \/ RunnerRun(s) \/ RunnerCall(s) \/ RunnerWoken(s) \/ RunnerEnd(s)
    \/ Take(s)
    \/ HandleConnect(s) \/ HandleAlive(s) \/ HandleOther(s)
    \/ HandleDisconnect(s) \/ HandleServerClose(s) \/ HandleTimer(s)
    \/ IdleClose(s)

Next ==
    /\ \/ connectWithCallback \/ stop \/ AppClose
       \/ (\E on \in BOOLEAN : SetIdleTimer(on)) \/ Age \/ TimerFire
       \/ \E s \in Session : ServerHangup(s) \/ runTcpReceive(s) \/ runMessageReceive(s)
    /\ UNCHANGED app

Spec == Init /\ [][Next]_<<vars, app>>

\* Runnable threads run, and msgsnd wakes its sleepers in their order.  The
\* application and the server owe nothing.
Fairness ==
    \A s \in Session :
        /\ WF_vars(runMessageReceive(s))
        /\ WF_vars(Start(s) \/ RecvCall(s) \/ Exit(s) \/ (src[s] \in hup /\ RecvReturns(s)))
        /\ SF_vars(SendConnect(s) \/ SendReceive(s) \/ SendAlive(s) \/ SendDisconnect(s)
                     \/ SendThreadExit(s))

FairSpec == Spec /\ Fairness

-----------------------------------------------------------------------------
(* Properties                                                              *)

\* Every variable keeps its type, and no queue outgrows the bytes msgsnd may
\* fill (CMessageHandler::sendMessage).
TypeOK ==
    /\ app \in App
    /\ fdtab \in [FD -> Session \cup {0}] /\ hup \subseteq Session
    /\ m_nSocketFD \in FD \cup {None}
    /\ filter \in 0..MaxConnects
    /\ box \in [Session -> Seq(Msg)] /\ \A q \in Session : Len(box[q]) <= QueueCap
    /\ removed \subseteq Session
    /\ msqid \in 0..MaxConnects /\ m_nEvent \in 0..MaxConnects
    /\ munRunThreadId \in 0..MaxConnects
    /\ mpc \in [Session -> RunnerState]
    /\ call \in [Session -> (0..MaxConnects) \X (0..MaxConnects)]
    /\ cur \in [Session -> Msg \cup {NoMsg}]
    /\ rpc \in [Session -> ReceiverState]
    /\ rfd \in [Session -> FD \cup {None}] /\ src \in [Session -> Session \cup {0}]
    /\ xpc \in AppState
    /\ aged \in BOOLEAN /\ timer \in 0..MaxConnects
    /\ told \in [Session -> {"nothing", "connected", "disconnected"}]
    /\ taken \in [Session -> {"nothing", "connected", "disconnected"}]
    /\ takers \in [Session -> SUBSET Session] /\ missed \subseteq Session

\* What stop() and connect() go by is never stale: no id that was joined is left
\* in munRunThreadId, to be cancelled and joined again, and for an application
\* that calls stop() before each new connect() an open socket of the object is
\* m_nSocketFD, whatever step of connect() failed before.
StopKnowsAll ==
    /\ munRunThreadId # 0 => mpc[munRunThreadId] # "joined"
    /\ app.stopsFirst => \A fd \in FD : fdtab[fd] # 0 => m_nSocketFD = fd

\* onReceive and onServerDisconnect are called after onServerConnect and not after
\* onServerDisconnect, as far as the connection in use is concerned, if one message
\* thread took all of its messages (onReceiveMessage).  For an application that calls
\* stop() before each new connect() only its own message thread does, whatever the
\* receive threads of earlier connections still post, unless a stop() came before the
\* message thread stored its id (stop, runMessageReceive).  Two message threads on
\* one filter do make the callbacks in any order.
CallbackOrder ==
    /\ \A s \in Session :
         cur[s].cmd \in {"RECEIVE", "ALIVE", "DISCONNECT"} /\ cur[s].conn = filter /\ takers[filter] = {s}
             => told[filter] = "connected"
    /\ app.stopsFirst /\ missed = {} /\ filter # 0 => takers[filter] \subseteq {filter}

\* An application whose server is gone hears of it, as long as both threads
\* could be created and it neither stops, connects again nor has the connection
\* closed (DISCONNECT); without the idle timer, whose checkIdle may put the
\* message thread to sleep on its own full queue.
HupTold ==
    \A s \in Session :
        (~app.idle /\ s \in hup /\ rpc[s] = "blocked" /\ mpc[s] \in {"start", "run", "call", "wait", "handle"})
            ~> \/ told[s] = "disconnected"
               \/ filter # s \/ xpc # "up" \/ mpc[s] \in {"cancelled", "zombie"}

=============================================================================

------------------------------ MODULE MCProgress ------------------------------
(***************************************************************************)
(* Small instances, under fairness, of the parts that must eventually do   *)
(* something: a Handler, the timers, a connection's packets, and the       *)
(* client of CATcpClient.cpp.  Every behaviour is of one of them, the      *)
(* unit; nothing is enabled in the others, which stay as they are.         *)
(***************************************************************************)
EXTENDS Integers

CONSTANTS None, Object, TimerId, Timer, Thread, FD, o1

VARIABLES
    unit,
    sent, wire, arrived, hup, rpc, packet, posted, heard, replies,          \* CMPFraming
    clock, queue, next, box, listMsqId, rel, it, torn, hpc, mnMsqKey, msqid, mlFilter, listener,
    tpc, cur, cancelled, mlnThreadId, reg, messages, noticed, called, crashes, \* Handler
    mapCBF, mapTimerId, timer, armed, object, mnTimerEventId, opc, oid, otm,
    setting, fpc, fid, tick, wanted, gone, dead,                            \* CTimer
    app, fdtab, closed, m_nSocketFD, filter, mail, removed, id, m_nEvent, munRunThreadId,
    mpc, call, inhand, receiver, rfd, src, xpc, aged, due,
    told, taken, takers, missed                                             \* CATcpClient

packets == <<sent, wire, arrived, hup, rpc, packet, posted, heard, replies>>
queues  == <<clock, queue, next, box, listMsqId, rel, it, torn, hpc, mnMsqKey, msqid, mlFilter, listener,
             tpc, cur, cancelled, mlnThreadId, reg, messages, noticed, called, crashes>>
timers  == <<mapCBF, mapTimerId, timer, armed, object, mnTimerEventId, opc, oid, otm,
             setting, fpc, fid, tick, wanted, gone, dead>>
client  == <<app, fdtab, closed, m_nSocketFD, filter, mail, removed, id, m_nEvent, munRunThreadId,
             mpc, call, inhand, receiver, rfd, src, xpc, aged, due, told, taken, takers, missed>>

-----------------------------------------------------------------------------
\* Neither key nor filter usable: initMessage and run() take others.
Filtered == {<<0, -2>>}

\* One connection, whose application may close it, run the idle timer, and stop.
Once == {[connects |-> 1, extKey |-> TRUE, stops |-> TRUE, stopsFirst |-> TRUE, closes |-> TRUE, idle |-> i] :
            i \in BOOLEAN}

F == INSTANCE CMPFraming WITH Role <- "server", Handle <- "PK_ASYNC", MaxPackets <- 2, QueueCap <- 1, queue <- posted
Q == INSTANCE Handler WITH Args <- Filtered, FirstId <- 1, MaxClock <- 1, MaxQueues <- 1, MaxMsgs <- 1,
                           MaxCrashes <- 0, Releases <- TRUE, Faults <- FALSE, sent <- messages, heard <- noticed
T == INSTANCE CTimer WITH Object <- {o1}, want <- wanted
K == INSTANCE CATcpClient WITH MaxConnects <- 1, QueueCap <- 1, Apps <- Once, hup <- closed, box <- mail,
                               msqid <- id, rpc <- receiver, cur <- inhand, timer <- due

ASSUME F!RoleAssumption /\ F!BoundsAssumption
ASSUME Q!NoneAssumption /\ Q!ArgsAssumption /\ Q!BoundsAssumption /\ T!NoneAssumption

-----------------------------------------------------------------------------
Init ==
    /\ unit \in {"packets", "handler", "timer", "client"}
    /\ F!Init /\ Q!Init /\ T!Init /\ K!Init
    /\ app.idle => unit = "client"

Next ==
    \/ unit = "packets" /\ F!Next /\ UNCHANGED <<unit, queues, timers, client>>
    \/ unit = "handler" /\ Q!Next /\ UNCHANGED <<unit, packets, timers, client>>
    \/ unit = "timer"   /\ T!Next /\ UNCHANGED <<unit, packets, queues, client>>
    \/ unit = "client"  /\ K!Next /\ UNCHANGED <<unit, packets, queues, timers>>

vars == <<unit, packets, queues, timers, client>>

\* What a unit's module says of its threads; it says nothing of a unit that has not
\* begun.
FairSpec == Init /\ [][Next]_vars /\ F!Fairness /\ Q!Fairness /\ T!Fairness /\ K!Fairness

-----------------------------------------------------------------------------
(* Properties: what the units' modules state of them.                      *)

\* The application hears whole packets in order until the connection ends, and what
\* arrives is heard if it does not end: with PK_ASYNC, runCMPHandler implements
\* PacketChannel.
ImplementsChannel == F!ImplementsChannel

\* A Handler does its part: its destructor returns, since the cancelled thread comes to
\* a cancellation point, waiting for messages or asleep because its queue is gone; and
\* its listener gets what is sent to it, unless it is destroyed first, its queue
\* removed, or its filter another's (~Handler, sendMessage).
HandlerServes == Q!DestroyReturns /\ Q!ListenerCalled

\* What an object waits for comes: one that has set a timer with an event, and neither
\* killed it nor been deleted, gets TIMER messages again and again (_SetTimer, handle,
\* _onTimer); an application whose server is gone hears of it, unless it stops or has
\* the connection closed (runTcpReceive, onReceiveMessage of CATcpClient.cpp).
EventsCome == T!EveryTimeDue /\ K!HupTold
=============================================================================

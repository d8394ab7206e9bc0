------------------------- MODULE CATcpServer_proofs -------------------------
(***************************************************************************)
(* Theorems about CATcpServer, for every number of clients, descriptors    *)
(* and threads, every size of the queue, with and without the idle timer   *)
(* and closeClient.                                                        *)
(***************************************************************************)
EXTENDS CATcpServer, FiniteSetTheorems, TLAPS

\* What the program counters say of the local variables: a receive thread
\* past its look-up has a descriptor, a handler past its first step has what
\* it is about to join or erase.
Working == {"connect", "recv", "blocked", "receive", "alive", "disconnect"}

Locals ==
    /\ \A t \in Thread : rpc[t] \in Working => rfd[t] \in FD
    /\ apc \in {"check", "send"} => amsg \in FdMsg
    /\ apc = "accept" => amsg = NoMsg
    /\ mpc \in {"assign", "close", "erase"} => ulSocketFD \in FD
    /\ mpc = "join" => ulThreadID \in Thread
    /\ mpc = "join" /\ cur.cmd # "THREAD_EXIT" => ulSocketFD \in FD

TypeInv == TypeOK /\ Locals

USE DEF FdCommand, ReceiverState, DispatcherState, AcceptorState

LEMMA PostType ==
    ASSUME TypeOK, NEW cmd, NEW id, NEW conn, Post(cmd, id, conn),
           [cmd |-> cmd, id |-> id, conn |-> conn] \in Msg
    PROVE  queue' \in Seq(Msg) /\ Len(queue') <= QueueCap
BY QueueCapAssumption DEF TypeOK, Post

LEMMA TakeType ==
    ASSUME TypeOK, NEW cmd, Take(cmd)
    PROVE  /\ queue' \in Seq(Msg) /\ Len(queue') <= QueueCap
           /\ Head(queue) \in Msg
           /\ cmd \in FdCommand => Head(queue) \in FdMsg
           /\ cmd = "THREAD_EXIT" => Head(queue) \in ExitMsg
<1>1. queue \in Seq(Msg) /\ queue # <<>> /\ Head(queue).cmd = cmd /\ queue' = Tail(queue)
  BY DEF TypeOK, Take
<1>2. Head(queue) \in Msg /\ queue' \in Seq(Msg) /\ Len(queue') <= QueueCap
  BY <1>1, QueueCapAssumption DEF TypeOK
<1>3. cmd \in FdCommand => Head(queue) \in FdMsg
  BY <1>1, <1>2 DEF Msg, FdMsg, ExitMsg, TimerMsg
<1>4. cmd = "THREAD_EXIT" => Head(queue) \in ExitMsg
  BY <1>1, <1>2 DEF Msg, FdMsg, ExitMsg, TimerMsg
<1> QED BY <1>2, <1>3, <1>4

LEMMA LookUpType ==
    ASSUME TypeOK
    PROVE  /\ \A t \in Thread : getClientSocketFD(t) \in FD \cup {None}
           /\ \A t \in Thread : getClientSocketFD(t) # None => mapClient[getClientSocketFD(t)] = t
           /\ \A t \in Thread : getClientSocketFD(t) = None => Names(t) = {}
           /\ \A fd \in FD : getClientThreadID(fd) \in Thread \cup {None}
<1>1. ASSUME NEW t \in Thread, Names(t) # {}
      PROVE  getClientSocketFD(t) \in FD /\ mapClient[getClientSocketFD(t)] = t
  BY <1>1 DEF getClientSocketFD, Names
<1>2. \A t \in Thread : Names(t) = {} => getClientSocketFD(t) = None
  BY DEF getClientSocketFD
<1>3. \A fd \in FD : getClientThreadID(fd) \in Thread \cup {None}
  BY DEF TypeOK, getClientThreadID
<1> QED BY <1>1, <1>2, <1>3, FDAssumption

LEMMA TypeInit == Init => TypeInv
BY QueueCapAssumption DEF Init, TypeInv, TypeOK, Locals, NoMsg, Working

LEMMA TypeAcceptor ==
    ASSUME TypeInv, runSocketAccept PROVE TypeInv'
<1> USE DEF TypeInv, Locals, kernel, table, receivers, dispatcher, acceptor
<1>1. CASE \E c \in Conn, fd \in FD : Accept(c, fd)
  BY <1>1 DEF TypeOK, Accept, FdMsg
<1>2. CASE Refuse
  BY <1>2 DEF TypeOK, Refuse, socketClose
<1>3. CASE Admit
  BY <1>3 DEF TypeOK, Admit
<1>4. CASE SendAccept
  <2>1. [cmd |-> "ACCEPT", id |-> amsg.id, conn |-> amsg.conn] \in Msg
    BY <1>4 DEF SendAccept, FdMsg, Msg
  <2>2. queue' \in Seq(Msg) /\ Len(queue') <= QueueCap
    BY <1>4, <2>1, PostType DEF SendAccept
  <2> QED BY <1>4, <2>2 DEF TypeOK, SendAccept
<1> QED BY <1>1, <1>2, <1>3, <1>4 DEF runSocketAccept

LEMMA TypeReceiver ==
    ASSUME TypeInv, NEW t \in Thread, runTcpReceive(t) PROVE TypeInv'
<1> USE DEF TypeInv, Locals, kernel, table, receivers, dispatcher, acceptor, Working, Goto
<1>1. CASE StartFound(t)
  BY <1>1, LookUpType DEF TypeOK, StartFound
<1>2. CASE StartLost(t)
  BY <1>2 DEF TypeOK, StartLost, OnlyRpc
<1>3. ASSUME NEW from \in Working, NEW to \in {"recv", "alive", "exit"}, NEW cmd \in FdCommand,
             Goto(t, from, to), Post(cmd, rfd[t], own[t]), OnlyRpc
      PROVE  TypeInv'
  <2>1. rfd[t] \in FD
    BY <1>3
  <2>2. [cmd |-> cmd, id |-> rfd[t], conn |-> own[t]] \in Msg
    BY <2>1 DEF TypeOK, FdMsg, Msg
  <2>3. queue' \in Seq(Msg) /\ Len(queue') <= QueueCap
    BY <1>3, <2>2, PostType
  <2>4. TypeOK'
    BY <1>3, <2>3 DEF TypeOK, OnlyRpc
  <2>5. Locals'
    BY <1>3, <2>1 DEF TypeOK, OnlyRpc
  <2> QED BY <2>4, <2>5
<1>4. CASE SendConnect(t)
  BY <1>3, <1>4 DEF SendConnect
<1>5. CASE SendThreadExit(t)
  <2>1. [cmd |-> "THREAD_EXIT", id |-> t, conn |-> own[t]] \in Msg
    BY DEF TypeOK, ExitMsg, Msg
  <2>2. queue' \in Seq(Msg) /\ Len(queue') <= QueueCap
    BY <1>5, <2>1, PostType DEF SendThreadExit
  <2> QED BY <1>5, <2>2 DEF TypeOK, SendThreadExit, OnlyRpc
<1>6. CASE RecvCall(t)
  BY <1>6 DEF TypeOK, RecvCall
<1>7. CASE RecvData(t)
  BY <1>7 DEF TypeOK, RecvData, OnlyRpc
<1>8. CASE RecvEnd(t)
  BY <1>8 DEF TypeOK, RecvEnd, OnlyRpc
<1>9. CASE SendReceive(t)
  BY <1>3, <1>9 DEF SendReceive
<1>10. CASE SendAlive(t)
  BY <1>3, <1>10 DEF SendAlive
<1>11. CASE SendDisconnect(t)
  BY <1>3, <1>11 DEF SendDisconnect
<1>12. CASE Exit(t)
  BY <1>12 DEF TypeOK, Exit
<1> QED BY <1>1, <1>2, <1>4, <1>5, <1>6, <1>7, <1>8, <1>9, <1>10, <1>11, <1>12
        DEF runTcpReceive

LEMMA TypeDispatcher ==
    ASSUME TypeInv, runMessageReceive PROVE TypeInv'
<1> USE DEF TypeInv, Locals, kernel, table, receivers, dispatcher, acceptor, Working,
            Next1, Return
<1> DEFINE m == Head(queue)
<1>1. CASE HandleAccept
  <2>1. m \in FdMsg /\ queue' \in Seq(Msg) /\ Len(queue') <= QueueCap
    BY <1>1, TakeType DEF HandleAccept
  <2>2. m.id \in FD /\ m.conn \in Conn \cup {None} /\ m \in Msg
    BY <2>1 DEF FdMsg, Msg
  <2>3. mapClient' \in [FD -> Thread \cup {None, Absent}]
    BY <1>1, <2>2 DEF TypeOK, HandleAccept
  <2>4. /\ rpc' \in [Thread -> ReceiverState] /\ own' \in [Thread -> Conn \cup {None}]
        /\ ulThreadID' \in Thread \cup {None}
        /\ \A t \in Thread : rpc'[t] \in Working => rpc[t] \in Working
    BY <1>1, <2>2 DEF TypeOK, HandleAccept, createThread, Goto
  <2> QED BY <1>1, <2>1, <2>2, <2>3, <2>4 DEF TypeOK, HandleAccept
<1>2. CASE Assign
  BY <1>2 DEF TypeOK, Assign, updateClientAlive
<1>3. CASE HandleConnect
  <2>1. m \in FdMsg /\ queue' \in Seq(Msg) /\ Len(queue') <= QueueCap
    BY <1>3, TakeType DEF HandleConnect
  <2> QED BY <1>3, <2>1 DEF TypeOK, HandleConnect, Tell, updateClientAlive, FdMsg
<1>4. CASE HandleReceive
  BY <1>4, TakeType DEF TypeOK, HandleReceive
<1>5. CASE HandleAlive
  <2>1. queue' \in Seq(Msg) /\ Len(queue') <= QueueCap
    BY <1>5, TakeType DEF HandleAlive
  <2> QED BY <1>5, <2>1 DEF TypeOK, HandleAlive, updateClientAlive
<1>6. ASSUME m \in FdMsg, Farewell(m)
      PROVE  /\ cur' \in Msg /\ ulSocketFD' \in FD /\ ulThreadID' \in Thread \cup {None}
             /\ told' \in [Conn -> {"nothing", "connected", "disconnected"}]
             /\ mpc' \in {"close", "join"} /\ (mpc' = "join" => ulThreadID' \in Thread)
             /\ sweep' = sweep
  BY <1>6, LookUpType DEF Farewell, FdMsg, Msg, Tell, TypeOK
<1>7. CASE HandleDisconnect
  <2>1. m \in FdMsg /\ queue' \in Seq(Msg) /\ Len(queue') <= QueueCap
    BY <1>7, TakeType DEF HandleDisconnect
  <2> QED BY <1>6, <1>7, <2>1 DEF TypeOK, HandleDisconnect
<1>8. CASE HandleClientClose
  <2>1. m \in FdMsg /\ queue' \in Seq(Msg) /\ Len(queue') <= QueueCap
    BY <1>8, TakeType DEF HandleClientClose
  <2>2. rpc' \in [Thread -> ReceiverState] /\ \A t \in Thread : rpc'[t] \in Working => rpc[t] \in Working
    BY <1>8 DEF TypeOK, HandleClientClose, threadCancel
  <2> QED BY <1>6, <1>8, <2>1, <2>2 DEF TypeOK, HandleClientClose
<1>9. CASE HandleThreadExit
  <2>1. m \in ExitMsg /\ queue' \in Seq(Msg) /\ Len(queue') <= QueueCap
    BY <1>9, TakeType DEF HandleThreadExit
  <2>2. m \in Msg /\ m.id \in Thread /\ m.cmd = "THREAD_EXIT"
    BY <2>1 DEF ExitMsg, Msg
  <2> QED BY <1>9, <2>1, <2>2 DEF TypeOK, HandleThreadExit
<1>10. CASE Join
  <2>1. rpc' \in [Thread -> ReceiverState] /\ \A t \in Thread : rpc'[t] \in Working => rpc[t] \in Working
    BY <1>10 DEF TypeOK, Join, threadJoin
  <2>2. ulThreadID \in Thread
    BY <1>10 DEF Join
  <2> QED BY <1>10, <2>1, <2>2, LookUpType DEF TypeOK, Join
<1>11. CASE CloseFd
  BY <1>11 DEF TypeOK, CloseFd, socketClose
<1>12. CASE EraseEntry
  BY <1>12 DEF TypeOK, EraseEntry
<1>13. CASE HandleTimer
  <2>1. queue' \in Seq(Msg) /\ Len(queue') <= QueueCap
    BY <1>13, TakeType DEF HandleTimer
  <2> QED BY <1>13, <2>1 DEF TypeOK, HandleTimer
<1>14. CASE \E fd \in FD : SweepClose(fd)
  <2>1. PICK fd \in FD : SweepClose(fd)
    BY <1>14
  <2>2. [cmd |-> "CLIENT_CLOSE", id |-> fd, conn |-> fdtab[fd]] \in Msg
    BY DEF TypeOK, FdMsg, Msg
  <2>3. queue' \in Seq(Msg) /\ Len(queue') <= QueueCap
    BY <2>1, <2>2, PostType DEF SweepClose
  <2> QED BY <2>1, <2>3 DEF TypeOK, SweepClose
<1> QED BY <1>1, <1>2, <1>3, <1>4, <1>5, <1>7, <1>8, <1>9, <1>10, <1>11, <1>12, <1>13, <1>14
        DEF runMessageReceive

LEMMA TypeEnvironment ==
    ASSUME TypeInv, Environment PROVE TypeInv'
<1> USE DEF TypeInv, Locals, kernel, table, receivers, dispatcher, acceptor, Working
<1>1. CASE \E c \in Conn : PeerConnect(c) \/ PeerHangup(c)
  BY <1>1 DEF TypeOK, PeerConnect, PeerHangup
<1>2. CASE \E fd \in FD : Age(fd)
  BY <1>2 DEF TypeOK, Age
<1>3. CASE \E fd \in FD : AppCheck(fd)
  BY <1>3 DEF TypeOK, AppCheck, FdMsg
<1>4. CASE TimerFire
  <2>1. [cmd |-> "TIMER", id |-> None, conn |-> None] \in Msg
    BY DEF TimerMsg, Msg
  <2>2. queue' \in Seq(Msg) /\ Len(queue') <= QueueCap
    BY <1>4, <2>1, PostType DEF TimerFire
  <2> QED BY <1>4, <2>2 DEF TypeOK, TimerFire
<1>5. CASE AppSend
  <2>1. closer \in FdMsg
    BY <1>5 DEF TypeOK, AppSend
  <2>2. [cmd |-> closer.cmd, id |-> closer.id, conn |-> closer.conn] \in Msg
    BY <2>1 DEF FdMsg, Msg
  <2>3. queue' \in Seq(Msg) /\ Len(queue') <= QueueCap
    BY <1>5, <2>2, PostType DEF AppSend
  <2> QED BY <1>5, <2>3 DEF TypeOK, AppSend
<1> QED BY <1>1, <1>2, <1>3, <1>4, <1>5 DEF Environment

LEMMA TypeStep == TypeInv /\ [Next]_vars => TypeInv'
<1> SUFFICES ASSUME TypeInv, [Next]_vars PROVE TypeInv'
  OBVIOUS
<1>1. CASE UNCHANGED vars
  BY <1>1 DEF TypeInv, TypeOK, Locals, vars, kernel, table, receivers, dispatcher, acceptor
<1> QED BY <1>1, TypeAcceptor, TypeReceiver, TypeDispatcher, TypeEnvironment DEF Next

\* Every variable keeps its type and the queue its limit, whatever the
\* number of clients, descriptors, threads and messages.
THEOREM TypeCorrect == Spec => []TypeOK
<1>1. Spec => []TypeInv
  BY TypeInit, TypeStep, PTL DEF Spec
<1> QED BY <1>1, PTL DEF TypeInv

-----------------------------------------------------------------------------
(* Entries and threads.  EntryThreadUnjoined is not inductive: a created   *)
(* thread is in no entry yet while its ACCEPT is handled, and a joined one *)
(* is still in its entry until eraseClient ran.                            *)

EntryInv ==
    /\ EntryThreadUnjoined
    /\ mpc = "assign" /\ ulThreadID \in Thread =>
         rpc[ulThreadID] # "free" /\ Names(ulThreadID) = {}
    /\ mpc = "join" /\ cur.cmd # "THREAD_EXIT" => mapClient[ulSocketFD] = ulThreadID

LEMMA EntryInit == Init => EntryInv
BY ThreadAssumption DEF Init, EntryInv, EntryThreadUnjoined

\* A step that leaves mapClient and the message thread alone and frees no
\* thread leaves EntryInv alone.
LEMMA EntryFrame ==
    ASSUME TypeInv, EntryInv, UNCHANGED <<mapClient, mpc, cur, ulThreadID, ulSocketFD>>,
           \A t \in Thread : rpc'[t] = "free" => rpc[t] = "free"
    PROVE  EntryInv'
BY DEF TypeInv, TypeOK, EntryInv, EntryThreadUnjoined, Names

LEMMA EntryReceiver ==
    ASSUME TypeInv, EntryInv, NEW t \in Thread, runTcpReceive(t) PROVE EntryInv'
<1>1. UNCHANGED <<mapClient, mpc, cur, ulThreadID, ulSocketFD>>
  BY DEF runTcpReceive, StartFound, StartLost, SendConnect, SendThreadExit, RecvCall, RecvData,
         RecvEnd, SendReceive, SendAlive, SendDisconnect, Exit, OnlyRpc, table, dispatcher
<1>2. \A x \in Thread : rpc'[x] = "free" => rpc[x] = "free"
  <2>1. \E to \in ReceiverState \ {"free"} : rpc' = [rpc EXCEPT ![t] = to]
    BY DEF runTcpReceive, StartFound, StartLost, SendConnect, SendThreadExit, RecvCall, RecvData,
           RecvEnd, SendReceive, SendAlive, SendDisconnect, Exit, Goto
  <2> QED BY <2>1 DEF TypeInv, TypeOK
<1> QED BY <1>1, <1>2, EntryFrame

LEMMA EntryOthers ==
    ASSUME TypeInv, EntryInv, runSocketAccept \/ Environment PROVE EntryInv'
<1>1. UNCHANGED <<mapClient, rpc, mpc, cur, ulThreadID, ulSocketFD>>
  BY DEF runSocketAccept, Accept, Refuse, Admit, SendAccept, Environment, PeerConnect, PeerHangup,
         Age, AppCheck, TimerFire, AppSend, table, receivers, dispatcher
<1> QED BY <1>1, EntryFrame

LEMMA EntryDispatcher ==
    ASSUME TypeInv, EntryInv, runMessageReceive PROVE EntryInv'
<1> USE ThreadAssumption DEF EntryInv, EntryThreadUnjoined, Names, table, receivers, dispatcher,
        Next1, Return
<1> DEFINE m == Head(queue)
<1>1. CASE HandleAccept
  <2>1. m.id \in FD /\ mpc = "wait" /\ mpc' = "assign"
    BY <1>1, TakeType DEF TypeInv, HandleAccept, Take, FdMsg
  <2>2. \A fd \in FD, t \in Thread : mapClient'[fd] = t <=> mapClient[fd] = t
    BY <1>1, <2>1 DEF TypeInv, TypeOK, HandleAccept
  <2>3. CASE ulThreadID' = None /\ UNCHANGED rpc
    BY <2>1, <2>2, <2>3
  <2>4. ASSUME NEW t \in Thread, Goto(t, "free", "start"), ulThreadID' = t PROVE EntryInv'
    <3>1. \A fd \in FD : mapClient[fd] # t
      BY <2>1, <2>4 DEF Goto
    <3>2. rpc'[t] = "start" /\ \A x \in Thread \ {t} : rpc'[x] = rpc[x]
      BY <2>4 DEF Goto, TypeInv, TypeOK
    <3> QED BY <2>1, <2>2, <2>4, <3>1, <3>2
  <2> QED BY <1>1, <2>3, <2>4 DEF HandleAccept, createThread
<1>2. CASE Assign
  <2>1. mpc = "assign" /\ ulSocketFD \in FD /\ UNCHANGED rpc /\ mpc' \in {"wait", "close"}
    BY <1>2 DEF Assign, TypeInv, Locals
  <2>2. mapClient' = [mapClient EXCEPT ![ulSocketFD] = ulThreadID]
    BY <1>2 DEF Assign
  <2>3. ulThreadID \in Thread \cup {None}
    BY DEF TypeInv, TypeOK
  <2> QED BY <2>1, <2>2, <2>3 DEF TypeInv, TypeOK
<1>3. CASE HandleConnect \/ HandleReceive \/ HandleAlive
  BY <1>3, EntryFrame DEF HandleConnect, HandleReceive, HandleAlive, Take
<1>4. ASSUME m \in FdMsg, m.cmd # "THREAD_EXIT", mpc = "wait", Farewell(m), UNCHANGED mapClient,
             \A t \in Thread : rpc'[t] = "free" => rpc[t] = "free"
      PROVE  EntryInv'
  <2>1. m.id \in FD
    BY <1>4 DEF FdMsg
  <2>2. mpc' = "join" => mapClient'[ulSocketFD'] = ulThreadID'
    BY <1>4, <2>1 DEF Farewell, getClientThreadID
  <2>3. mpc' \in {"join", "close"}
    BY <1>4 DEF Farewell
  <2> QED BY <1>4, <2>1, <2>2, <2>3 DEF TypeInv, TypeOK
<1>5. CASE HandleDisconnect
  <2>1. m \in FdMsg /\ m.cmd # "THREAD_EXIT" /\ mpc = "wait"
    BY <1>5, TakeType DEF TypeInv, HandleDisconnect, Take
  <2> QED BY <1>4, <1>5, <2>1 DEF HandleDisconnect
<1>6. CASE HandleClientClose
  <2>1. m \in FdMsg /\ m.cmd # "THREAD_EXIT" /\ mpc = "wait"
    BY <1>6, TakeType DEF TypeInv, HandleClientClose, Take
  <2>2. \A t \in Thread : rpc'[t] = "free" => rpc[t] = "free"
    BY <1>6 DEF HandleClientClose, threadCancel
  <2> QED BY <1>4, <1>6, <2>1, <2>2 DEF HandleClientClose
<1>7. CASE HandleThreadExit
  <2>1. mpc = "wait" /\ mpc' = "join" /\ cur'.cmd = "THREAD_EXIT" /\ UNCHANGED <<rpc, mapClient>>
    BY <1>7 DEF HandleThreadExit, Take
  <2> QED BY <2>1
<1>8. CASE Join
  <2>1. ulThreadID \in Thread /\ rpc' = [rpc EXCEPT ![ulThreadID] = "free"] /\ UNCHANGED mapClient
    BY <1>8 DEF Join, threadJoin, TypeInv, Locals
  <2>2. \A t \in Thread \ {ulThreadID} : rpc'[t] = rpc[t]
    BY <2>1 DEF TypeInv, TypeOK
  <2>3. CASE cur.cmd # "THREAD_EXIT"
    BY <1>8, <2>1, <2>2, <2>3 DEF Join, TypeInv, Locals
  <2>4. CASE cur.cmd = "THREAD_EXIT" /\ getClientSocketFD(ulThreadID) # None
    BY <1>8, <2>1, <2>2, <2>4, LookUpType DEF Join, TypeInv
  <2>5. CASE cur.cmd = "THREAD_EXIT" /\ getClientSocketFD(ulThreadID) = None
    BY <1>8, <2>1, <2>2, <2>5, LookUpType DEF Join, TypeInv
  <2> QED BY <2>3, <2>4, <2>5
<1>9. CASE CloseFd
  BY <1>9 DEF CloseFd
<1>10. CASE EraseEntry
  <2>1. ulSocketFD \in FD /\ mapClient' = [mapClient EXCEPT ![ulSocketFD] = Absent]
    BY <1>10 DEF EraseEntry, TypeInv, Locals
  <2> QED BY <1>10, <2>1 DEF EraseEntry, TypeInv, TypeOK
<1>11. CASE HandleTimer
  BY <1>11 DEF HandleTimer, Take
<1>12. CASE \E fd \in FD : SweepClose(fd)
  BY <1>12 DEF SweepClose
<1> QED BY <1>1, <1>2, <1>3, <1>5, <1>6, <1>7, <1>8, <1>9, <1>10, <1>11, <1>12
        DEF runMessageReceive

LEMMA EntryStep == TypeInv /\ EntryInv /\ [Next]_vars => EntryInv'
<1> SUFFICES ASSUME TypeInv, EntryInv, [Next]_vars PROVE EntryInv'
  OBVIOUS
<1>1. CASE UNCHANGED vars
  BY <1>1, EntryFrame DEF vars, table, receivers, dispatcher
<1> QED BY <1>1, EntryReceiver, EntryOthers, EntryDispatcher DEF Next

\* No entry of mapClient ever names a joined thread or another entry's
\* thread, even when stale DISCONNECT, CLIENT_CLOSE and THREAD_EXIT messages
\* are handled after descriptors and thread ids were given out again.
THEOREM EntriesUnjoined == Spec => []EntryThreadUnjoined
<1>1. Spec => [](TypeInv /\ EntryInv)
  BY TypeInit, TypeStep, EntryInit, EntryStep, PTL DEF Spec
<1> QED BY <1>1, PTL DEF EntryInv

-----------------------------------------------------------------------------
(* Cancelled threads and open descriptors.                                 *)

\* A cancelled thread is the one the message thread has gone on to join.
THEOREM CancelledJoined == Spec => []CancelledIsJoined
<1>1. Init => CancelledIsJoined
  BY DEF Init, CancelledIsJoined
<1>2. TypeInv /\ CancelledIsJoined /\ [Next]_vars => CancelledIsJoined'
  <2> SUFFICES ASSUME TypeInv, CancelledIsJoined, [Next]_vars PROVE CancelledIsJoined'
    OBVIOUS
  <2> USE DEF CancelledIsJoined, table, receivers, dispatcher, Next1, Return
  <2>1. CASE UNCHANGED vars
    BY <2>1 DEF vars
  <2>2. CASE runSocketAccept \/ Environment
    BY <2>2 DEF runSocketAccept, Accept, Refuse, Admit, SendAccept, Environment, PeerConnect,
                PeerHangup, Age, AppCheck, TimerFire, AppSend
  <2>3. ASSUME NEW t \in Thread, runTcpReceive(t) PROVE CancelledIsJoined'
    <3>1. UNCHANGED <<mpc, ulThreadID>>
      BY <2>3 DEF runTcpReceive, StartFound, StartLost, SendConnect, SendThreadExit, RecvCall,
                  RecvData, RecvEnd, SendReceive, SendAlive, SendDisconnect, Exit, OnlyRpc
    <3>2. \E to \in ReceiverState \ {"cancelled"} : rpc' = [rpc EXCEPT ![t] = to]
      BY <2>3 DEF runTcpReceive, StartFound, StartLost, SendConnect, SendThreadExit, RecvCall,
                  RecvData, RecvEnd, SendReceive, SendAlive, SendDisconnect, Exit, Goto
    <3> QED BY <3>1, <3>2 DEF TypeInv, TypeOK
  <2>4. CASE HandleAccept
    BY <2>4 DEF HandleAccept, Take, createThread, Goto, TypeInv, TypeOK
  <2>5. CASE HandleConnect \/ HandleReceive \/ HandleAlive \/ HandleDisconnect
             \/ HandleThreadExit \/ HandleTimer
    BY <2>5 DEF HandleConnect, HandleReceive, HandleAlive, HandleDisconnect, HandleThreadExit,
                HandleTimer, Take
  <2>6. CASE HandleClientClose
    <3> DEFINE x == getClientThreadID(Head(queue).id)
    <3>1. mpc = "wait" /\ x \in Thread \cup {None}
      BY <2>6, TakeType, LookUpType DEF HandleClientClose, Take, TypeInv, FdMsg
    <3>2. \A t \in Thread : rpc'[t] = "cancelled" => t = x
      BY <2>6, <3>1 DEF HandleClientClose, threadCancel
    <3> QED BY <2>6, <3>1, <3>2, ThreadAssumption DEF HandleClientClose, Farewell
  <2>7. CASE Join
    BY <2>7 DEF Join, threadJoin, TypeInv, TypeOK
  <2>8. CASE Assign \/ CloseFd \/ EraseEntry \/ \E fd \in FD : SweepClose(fd)
    BY <2>8 DEF Assign, CloseFd, EraseEntry, SweepClose
  <2> QED BY <2>1, <2>2, <2>3, <2>4, <2>5, <2>6, <2>7, <2>8 DEF Next, runMessageReceive
<1> QED BY <1>1, <1>2, TypeInit, TypeStep, PTL DEF Spec

\* Whether a descriptor is accounted for does not depend on the queue but for
\* the ACCEPTs in it, and those are neither lost nor reordered.
LEMMA InFlightPost ==
    ASSUME TypeOK, NEW cmd, NEW id, NEW conn, Post(cmd, id, conn), NEW fd
    PROVE  /\ InFlight(fd) # {} => InFlight(fd)' # {}
           /\ cmd = "ACCEPT" /\ id = fd => InFlight(fd)' # {}
<1> DEFINE e == [cmd |-> cmd, id |-> id, conn |-> conn]
<1>1. /\ Len(queue') = Len(queue) + 1 /\ Len(queue) \in Nat
      /\ \A i \in 1..Len(queue) : queue'[i] = queue[i]
      /\ queue'[Len(queue) + 1] = e
  BY DEF Post, TypeOK
<1>2. InFlight(fd) # {} => InFlight(fd)' # {}
  BY <1>1 DEF InFlight
<1>3. cmd = "ACCEPT" /\ id = fd => Len(queue) + 1 \in InFlight(fd)'
  BY <1>1 DEF InFlight
<1> QED BY <1>2, <1>3

LEMMA InFlightTake ==
    ASSUME TypeOK, NEW cmd, Take(cmd), NEW fd
    PROVE  InFlight(fd) # {} => InFlight(fd)' # {} \/ (cmd = "ACCEPT" /\ Head(queue).id = fd)
<1>1. /\ Len(queue') = Len(queue) - 1 /\ Len(queue) \in Nat \ {0}
      /\ \A i \in 1..Len(queue') : queue'[i] = queue[i + 1]
      /\ Head(queue) = queue[1] /\ Head(queue).cmd = cmd
  BY DEF Take, TypeOK
<1>2. ASSUME NEW i \in InFlight(fd), i # 1 PROVE i - 1 \in InFlight(fd)'
  BY <1>1, <1>2 DEF InFlight
<1>3. 1 \in InFlight(fd) => cmd = "ACCEPT" /\ Head(queue).id = fd
  BY <1>1 DEF InFlight
<1> QED BY <1>2, <1>3

LEMMA StationsNonempty ==
    ASSUME NEW fd
    PROVE  Stations(fd) # {} <=> amsg.id = fd \/ InFlight(fd) # {} \/ Answers(fd)
BY DEF Stations

\* A step after which a descriptor's station is still occupied keeps it.
LEMMA StationFrame ==
    ASSUME TypeInv, NoFdForgotten, UNCHANGED <<amsg, mapClient, mpc, ulSocketFD>>,
           \A fd \in FD : fdtab'[fd] # None => fdtab[fd] # None,
           \A fd \in FD : InFlight(fd) # {} => InFlight(fd)' # {}
    PROVE  NoFdForgotten'
BY StationsNonempty DEF NoFdForgotten, Stations, Answers

LEMMA ForgottenAcceptor ==
    ASSUME TypeInv, NoFdForgotten, runSocketAccept PROVE NoFdForgotten'
<1> USE FDAssumption DEF table, receivers, dispatcher, kernel
<1>1. CASE \E c \in Conn, fd \in FD : Accept(c, fd)
  <2>1. PICK c \in Conn, f \in FD : Accept(c, f)
    BY <1>1
  <2>2. amsg.id = None /\ amsg'.id = f /\ UNCHANGED <<queue, mapClient, mpc, ulSocketFD>>
    BY <2>1 DEF Accept, NoMsg, TypeInv, Locals
  <2>3. \A fd \in FD \ {f} : fdtab'[fd] = fdtab[fd]
    BY <2>1 DEF Accept, TypeInv, TypeOK
  <2> QED BY <2>1, <2>2, <2>3 DEF NoFdForgotten, Stations, InFlight, Answers, Accept
<1>2. CASE Refuse
  <2>1. amsg.id \in FD /\ fdtab' = [fdtab EXCEPT ![amsg.id] = None]
    BY <1>2 DEF Refuse, socketClose, TypeInv, Locals, FdMsg
  <2> QED BY <1>2, <2>1 DEF Refuse, NoFdForgotten, Stations, InFlight, Answers, TypeInv, TypeOK
<1>3. CASE Admit
  BY <1>3 DEF Admit, NoFdForgotten, Stations, InFlight, Answers
<1>4. CASE SendAccept
  <2>1. \A fd \in FD : /\ InFlight(fd) # {} => InFlight(fd)' # {}
                       /\ amsg.id = fd => InFlight(fd)' # {}
    BY <1>4, InFlightPost DEF SendAccept, TypeInv
  <2> QED BY <1>4, <2>1, StationsNonempty DEF SendAccept, NoFdForgotten, Stations, Answers
<1> QED BY <1>1, <1>2, <1>3, <1>4 DEF runSocketAccept

LEMMA ForgottenReceiver ==
    ASSUME TypeInv, NoFdForgotten, NEW t \in Thread, runTcpReceive(t) PROVE NoFdForgotten'
<1>1. UNCHANGED <<fdtab, amsg, mapClient, mpc, ulSocketFD>>
  BY DEF runTcpReceive, StartFound, StartLost, SendConnect, SendThreadExit, RecvCall, RecvData,
         RecvEnd, SendReceive, SendAlive, SendDisconnect, Exit, OnlyRpc, kernel, table,
         dispatcher, acceptor
<1>2. UNCHANGED queue \/ \E cmd, id : Post(cmd, id, own[t])
  BY DEF runTcpReceive, StartFound, StartLost, SendConnect, SendThreadExit, RecvCall, RecvData,
         RecvEnd, SendReceive, SendAlive, SendDisconnect, Exit
<1>3. \A fd \in FD : InFlight(fd) # {} => InFlight(fd)' # {}
  BY <1>2, InFlightPost DEF InFlight, TypeInv
<1> QED BY <1>1, <1>3, StationFrame

LEMMA ForgottenEnvironment ==
    ASSUME TypeInv, NoFdForgotten, Environment PROVE NoFdForgotten'
<1>1. UNCHANGED <<fdtab, amsg, mapClient, mpc, ulSocketFD>>
  BY DEF Environment, PeerConnect, PeerHangup, Age, AppCheck, TimerFire, AppSend, kernel, table,
         dispatcher, acceptor
<1>2. \A fd \in FD : InFlight(fd) # {} => InFlight(fd)' # {}
  <2>1. CASE TimerFire
    BY <2>1, InFlightPost DEF TimerFire, TypeInv
  <2>2. CASE AppSend
    BY <2>2, InFlightPost DEF AppSend, TypeInv
  <2>3. CASE UNCHANGED queue
    BY <2>3 DEF InFlight
  <2> QED BY <2>1, <2>2, <2>3 DEF Environment, PeerConnect, PeerHangup, Age, AppCheck
<1> QED BY <1>1, <1>2, StationFrame

LEMMA ForgottenDispatcher ==
    ASSUME TypeInv, NoFdForgotten, runMessageReceive PROVE NoFdForgotten'
<1> USE ThreadAssumption DEF kernel, table, receivers, dispatcher, acceptor, Next1, Return
<1> DEFINE m == Head(queue)
<1>1. CASE HandleAccept
  <2>1. m.id \in FD /\ mpc = "wait" /\ UNCHANGED <<fdtab, amsg>>
    BY <1>1, TakeType DEF TypeInv, HandleAccept, Take, FdMsg
  <2>2. \A fd \in FD : InFlight(fd) # {} => InFlight(fd)' # {} \/ m.id = fd
    BY <1>1, InFlightTake DEF HandleAccept, TypeInv
  <2>3. \A fd \in FD : Answers(fd) => Answers(fd)'
    BY <1>1, <2>1 DEF HandleAccept, Answers, TypeInv, TypeOK
  <2>4. \A fd \in FD : fd = m.id => Answers(fd)'
    BY <1>1 DEF HandleAccept, Answers
  <2> QED BY <2>1, <2>2, <2>3, <2>4, StationsNonempty DEF NoFdForgotten, Stations
<1>2. ASSUME NEW cmd, cmd # "ACCEPT", Take(cmd), UNCHANGED <<fdtab, amsg, mapClient>>,
             mpc' \in {"wait", "join", "close", "sweep"}
      PROVE  NoFdForgotten'
  <2>1. \A fd \in FD : InFlight(fd) # {} => InFlight(fd)' # {}
    BY <1>2, InFlightTake DEF TypeInv
  <2>2. \A fd \in FD : Answers(fd) => Answers(fd)'
    BY <1>2 DEF Answers, Take
  <2> QED BY <1>2, <2>1, <2>2, StationsNonempty DEF NoFdForgotten, Stations
<1>3. CASE HandleConnect \/ HandleReceive \/ HandleAlive
  BY <1>2, <1>3 DEF HandleConnect, HandleReceive, HandleAlive, Take
<1>4. CASE HandleDisconnect \/ HandleClientClose \/ HandleThreadExit
  BY <1>2, <1>4 DEF HandleDisconnect, HandleClientClose, HandleThreadExit, Farewell
<1>5. CASE HandleTimer
  BY <1>2, <1>5 DEF HandleTimer
<1>6. CASE Assign
  <2>1. ulSocketFD \in FD /\ mapClient' = [mapClient EXCEPT ![ulSocketFD] = ulThreadID]
        /\ ulThreadID # Absent /\ UNCHANGED <<fdtab, amsg, queue>> /\ mpc' \in {"wait", "close"}
    BY <1>6 DEF Assign, TypeInv, TypeOK, Locals
  <2>2. \A fd \in FD : Answers(fd) => Answers(fd)'
    BY <1>6, <2>1 DEF Answers, Assign, TypeInv, TypeOK
  <2> QED BY <2>1, <2>2, StationsNonempty DEF NoFdForgotten, Stations, InFlight
<1>7. CASE Join
  <2>1. UNCHANGED <<fdtab, amsg, queue, mapClient>> /\ mpc = "join" /\ mpc' \in {"wait", "close"}
    BY <1>7 DEF Join
  <2>2. \A fd \in FD : Answers(fd) => Answers(fd)'
    BY <2>1 DEF Answers
  <2> QED BY <2>1, <2>2, StationsNonempty DEF NoFdForgotten, Stations, InFlight
<1>8. CASE CloseFd
  <2>1. ulSocketFD \in FD /\ fdtab' = [fdtab EXCEPT ![ulSocketFD] = None] /\ mpc = "close"
        /\ UNCHANGED <<amsg, queue, mapClient, ulSocketFD>> /\ mpc' = "erase"
    BY <1>8 DEF CloseFd, socketClose, TypeInv, Locals
  <2>2. \A fd \in FD \ {ulSocketFD} : fdtab'[fd] = fdtab[fd] /\ (Answers(fd) => Answers(fd)')
    BY <2>1 DEF Answers, TypeInv, TypeOK
  <2>3. fdtab'[ulSocketFD] = None
    BY <2>1 DEF TypeInv, TypeOK
  <2> QED BY <2>1, <2>2, <2>3, StationsNonempty DEF NoFdForgotten, Stations, InFlight
<1>9. CASE EraseEntry
  <2>1. ulSocketFD \in FD /\ mapClient' = [mapClient EXCEPT ![ulSocketFD] = Absent] /\ mpc = "erase"
        /\ UNCHANGED <<fdtab, amsg, queue>> /\ mpc' = "wait"
    BY <1>9 DEF EraseEntry, TypeInv, Locals
  <2>2. \A fd \in FD : Answers(fd) => Answers(fd)'
    BY <2>1 DEF Answers, TypeInv, TypeOK
  <2> QED BY <2>1, <2>2, StationsNonempty DEF NoFdForgotten, Stations, InFlight
<1>10. CASE \E fd \in FD : SweepClose(fd)
  <2>1. PICK f \in FD : SweepClose(f)
    BY <1>10
  <2>2. \A fd \in FD : InFlight(fd) # {} => InFlight(fd)' # {}
    BY <2>1, InFlightPost DEF SweepClose, TypeInv
  <2>3. \A fd \in FD : Answers(fd) => Answers(fd)'
    BY <2>1 DEF Answers, SweepClose
  <2> QED BY <2>1, <2>2, <2>3, StationsNonempty DEF NoFdForgotten, Stations, SweepClose
<1> QED BY <1>1, <1>3, <1>4, <1>5, <1>6, <1>7, <1>8, <1>9, <1>10 DEF runMessageReceive

\* No open client socket is ever forgotten: it is with the accept thread, in
\* a queued ACCEPT or in mapClient, also when closeClient and the idle timer
\* close descriptors that were given out again.
THEOREM FdNeverForgotten == Spec => []NoFdForgotten
<1>1. Init => NoFdForgotten
  BY DEF Init, NoFdForgotten
<1>2. TypeInv /\ NoFdForgotten /\ [Next]_vars => NoFdForgotten'
  <2> SUFFICES ASSUME TypeInv, NoFdForgotten, [Next]_vars PROVE NoFdForgotten'
    OBVIOUS
  <2>1. CASE UNCHANGED vars
    BY <2>1 DEF vars, kernel, table, dispatcher, acceptor, NoFdForgotten, Stations, InFlight, Answers
  <2> QED BY <2>1, ForgottenAcceptor, ForgottenReceiver, ForgottenDispatcher, ForgottenEnvironment
          DEF Next
<1> QED BY <1>1, <1>2, TypeInit, TypeStep, PTL DEF Spec

-----------------------------------------------------------------------------
(* MAX_CLIENT.  Only Admit lets in a descriptor that was not let in yet, and *)
(* it has just counted fewer than MAX_CLIENT entries.                        *)

Queued == {fd \in FD : InFlight(fd) # {}}
Assigning == {fd \in FD : mpc = "assign" /\ ulSocketFD = fd}
Sending == {fd \in FD : apc = "send" /\ amsg.id = fd}

LEMMA IntervalCount ==
    ASSUME NEW n \in Nat PROVE IsFiniteSet(1..n) /\ Cardinality(1..n) = n
<1>1. 1 \in Int /\ n \in Int
  OBVIOUS
<1>2. IsFiniteSet(1..n) /\ Cardinality(1..n) = IF 1 > n THEN 0 ELSE n - 1 + 1
  BY ONLY <1>1, FS_Interval
<1> QED BY <1>2

LEMMA QueuedCount ==
    ASSUME TypeOK
    PROVE  IsFiniteSet(Queued) /\ Cardinality(Queued) \in Nat /\ Cardinality(Queued) <= QueueCap
<1> DEFINE I == {i \in 1..Len(queue) : queue[i].cmd = "ACCEPT" /\ queue[i].id \in Queued}
           f == [i \in I |-> queue[i].id]
<1>1. Len(queue) \in Nat /\ Len(queue) <= QueueCap /\ QueueCap \in Nat
  BY QueueCapAssumption DEF TypeOK
<1>2. IsFiniteSet(1..Len(queue)) /\ Cardinality(1..Len(queue)) = Len(queue)
  BY <1>1, IntervalCount
<1>3. IsFiniteSet(I) /\ Cardinality(I) <= Len(queue)
  BY <1>2, FS_Subset
<1>4. \A fd \in Queued : \E i \in I : f[i] = fd
  BY DEF Queued, InFlight
<1>5. f \in Surjection(I, Queued)
  BY <1>4 DEF Surjection
<1>6. IsFiniteSet(Queued) /\ Cardinality(Queued) <= Cardinality(I)
  BY <1>3, <1>5, FS_Surjection
<1>7. Cardinality(Queued) \in Nat /\ Cardinality(I) \in Nat
  BY <1>3, <1>6, FS_CardinalityType
<1> QED BY <1>1, <1>3, <1>6, <1>7

LEMMA AtMostOne ==
    ASSUME NEW S, \A x, y \in S : x = y
    PROVE  IsFiniteSet(S) /\ Cardinality(S) \in Nat /\ Cardinality(S) <= 1
<1>1. CASE S = {}
  BY <1>1, FS_EmptySet
<1>2. CASE S # {}
  <2>1. PICK x \in S : S = {x}
    BY <1>2
  <2> QED BY <2>1, FS_Singleton
<1> QED BY <1>1, <1>2

LEMMA UnionCount ==
    ASSUME NEW S, NEW T, IsFiniteSet(S), IsFiniteSet(T)
    PROVE  /\ IsFiniteSet(S \cup T) /\ Cardinality(S \cup T) \in Nat
           /\ Cardinality(S) \in Nat /\ Cardinality(T) \in Nat
           /\ Cardinality(S \cup T) <= Cardinality(S) + Cardinality(T)
<1>1. IsFiniteSet(S \cup T) /\ IsFiniteSet(S \cap T)
      /\ Cardinality(S \cup T) = Cardinality(S) + Cardinality(T) - Cardinality(S \cap T)
  BY FS_Union, FS_Subset
<1>2. /\ Cardinality(S) \in Nat /\ Cardinality(T) \in Nat
      /\ Cardinality(S \cup T) \in Nat /\ Cardinality(S \cap T) \in Nat
  BY <1>1, FS_CardinalityType
<1> QED BY <1>1, <1>2

AdmissionInv == IsFiniteSet(Admitted) /\ AdmissionBound /\ closer.cmd # "ACCEPT"

LEMMA AdmittedShrinks ==
    ASSUME AdmissionInv, Admitted' \subseteq Admitted, closer'.cmd # "ACCEPT" PROVE AdmissionInv'
<1>1. IsFiniteSet(Admitted') /\ Cardinality(Admitted') <= Cardinality(Admitted)
  BY FS_Subset DEF AdmissionInv
<1>2. Cardinality(Admitted) \in Nat /\ Cardinality(Admitted') \in Nat
  BY <1>1, FS_CardinalityType DEF AdmissionInv
<1> QED BY <1>1, <1>2, MaxClientAssumption, QueueCapAssumption DEF AdmissionInv, AdmissionBound

LEMMA AdmitStep == ASSUME TypeInv, AdmissionInv, Admit PROVE AdmissionInv'
<1>1. ~AtLimit /\ UNCHANGED <<queue, mapClient, mpc, ulSocketFD, closer>>
  BY DEF Admit, table, dispatcher
<1>2. IsFiniteSet(Clients) /\ Cardinality(Clients) \in Nat /\ Cardinality(Clients) + 1 <= MaxClient
  <2>1. Clients \subseteq Admitted
    BY DEF Admitted
  <2>2. IsFiniteSet(Clients) /\ Cardinality(Clients) \in Nat
    BY <2>1, FS_Subset, FS_CardinalityType DEF AdmissionInv
  <2> QED BY <1>1, <2>2, MaxClientAssumption DEF AtLimit
<1>3. Admitted' = ((Clients \cup Queued) \cup Assigning) \cup Sending'
  BY <1>1 DEF Admitted, Clients, Queued, InFlight, Assigning, Sending
<1>4. /\ IsFiniteSet(Queued) /\ Cardinality(Queued) \in Nat /\ Cardinality(Queued) <= QueueCap
      /\ IsFiniteSet(Assigning) /\ Cardinality(Assigning) \in Nat /\ Cardinality(Assigning) <= 1
      /\ IsFiniteSet(Sending') /\ Cardinality(Sending') \in Nat /\ Cardinality(Sending') <= 1
  <2>1. \A x, y \in Assigning : x = y
    BY DEF Assigning
  <2>2. \A x, y \in Sending' : x = y
    BY DEF Sending
  <2> QED BY <2>1, <2>2, QueuedCount, AtMostOne DEF TypeInv
<1> DEFINE A == Clients \cup Queued
           B == A \cup Assigning
<1>5. IsFiniteSet(A) /\ Cardinality(A) \in Nat /\ Cardinality(A) <= Cardinality(Clients) + Cardinality(Queued)
  BY <1>2, <1>4, UnionCount
<1>6. IsFiniteSet(B) /\ Cardinality(B) \in Nat /\ Cardinality(B) <= Cardinality(A) + Cardinality(Assigning)
  BY <1>4, <1>5, UnionCount
<1>7. /\ IsFiniteSet(Admitted') /\ Cardinality(Admitted') \in Nat
      /\ Cardinality(Admitted') <= Cardinality(B) + Cardinality(Sending')
  BY <1>3, <1>4, <1>6, UnionCount
<1> QED BY <1>1, <1>2, <1>4, <1>5, <1>6, <1>7, MaxClientAssumption, QueueCapAssumption
        DEF AdmissionInv, AdmissionBound

\* What is posted but an ACCEPT does not count, and what is taken counts less.
LEMMA QueuedPost ==
    ASSUME TypeOK, NEW cmd, NEW id, NEW conn, Post(cmd, id, conn)
    PROVE  \A fd \in Queued' : fd \in Queued \/ (cmd = "ACCEPT" /\ fd = id)
<1>1. /\ Len(queue') = Len(queue) + 1 /\ Len(queue) \in Nat
      /\ \A i \in 1..Len(queue) : queue'[i] = queue[i]
      /\ queue'[Len(queue) + 1] = [cmd |-> cmd, id |-> id, conn |-> conn]
  BY DEF Post, TypeOK
<1> SUFFICES ASSUME NEW fd \in FD, NEW i \in 1..Len(queue'), queue'[i].cmd = "ACCEPT", queue'[i].id = fd
             PROVE  fd \in Queued \/ (cmd = "ACCEPT" /\ fd = id)
  BY DEF Queued, InFlight
<1>2. CASE i \in 1..Len(queue)
  BY <1>1, <1>2 DEF Queued, InFlight
<1>3. CASE i = Len(queue) + 1
  BY <1>1, <1>3
<1> QED BY <1>1, <1>2, <1>3

LEMMA QueuedTake ==
    ASSUME TypeOK, NEW cmd, Take(cmd)
    PROVE  Queued' \subseteq Queued /\ (cmd = "ACCEPT" /\ Head(queue).id \in FD => Head(queue).id \in Queued)
<1>1. /\ Len(queue') = Len(queue) - 1 /\ Len(queue) \in Nat \ {0}
      /\ \A i \in 1..Len(queue') : i + 1 \in 1..Len(queue) /\ queue'[i] = queue[i + 1]
      /\ Head(queue) = queue[1] /\ Head(queue).cmd = cmd
  BY DEF Take, TypeOK
<1>2. ASSUME NEW fd \in FD, NEW i \in 1..Len(queue'), queue'[i].cmd = "ACCEPT", queue'[i].id = fd
      PROVE  fd \in Queued
  BY <1>1, <1>2 DEF Queued, InFlight
<1>3. cmd = "ACCEPT" /\ Head(queue).id \in FD => 1 \in InFlight(Head(queue).id)
  BY <1>1 DEF InFlight
<1> QED BY <1>2, <1>3 DEF Queued, InFlight

LEMMA AdmittedIs ==
    /\ Admitted = Clients \cup Queued \cup Assigning \cup Sending
    /\ Admitted' = Clients' \cup Queued' \cup Assigning' \cup Sending'
BY DEF Admitted, Queued, Assigning, Sending

LEMMA AdmissionStep == TypeInv /\ AdmissionInv /\ [Next]_vars => AdmissionInv'
<1> SUFFICES ASSUME TypeInv, AdmissionInv, [Next]_vars PROVE AdmissionInv'
  OBVIOUS
<1> USE DEF kernel, table, receivers, dispatcher, acceptor
<1>1. ASSUME Queued' \subseteq Queued \cup Sending, Sending' \subseteq Sending, Assigning' \subseteq Queued \cup Assigning,
             Clients' \subseteq Clients \cup Queued \cup Assigning
      PROVE  Admitted' \subseteq Admitted
  BY <1>1, AdmittedIs
<1>2. /\ UNCHANGED queue => Queued' = Queued
      /\ UNCHANGED mapClient => Clients' = Clients
      /\ UNCHANGED <<mpc, ulSocketFD>> \/ mpc' # "assign" => Assigning' \subseteq Assigning
      /\ UNCHANGED <<apc, amsg>> \/ apc' # "send" => Sending' \subseteq Sending
  BY DEF Queued, InFlight, Clients, Assigning, Sending
<1>3. closer'.cmd # "ACCEPT"
  <2>1. closer' \in {closer, NoMsg} \/ closer'.cmd = "CLIENT_CLOSE"
    <3>1. \A t \in Thread : runTcpReceive(t) => UNCHANGED closer
      BY DEF runTcpReceive, StartFound, StartLost, SendConnect, SendThreadExit, RecvCall, RecvData,
             RecvEnd, SendReceive, SendAlive, SendDisconnect, Exit, OnlyRpc
    <3>2. runSocketAccept => UNCHANGED closer
      BY DEF runSocketAccept, Accept, Refuse, Admit, SendAccept
    <3>3. runMessageReceive => UNCHANGED closer
      BY DEF runMessageReceive, HandleAccept, Assign, HandleConnect, HandleReceive, HandleAlive,
             HandleDisconnect, HandleClientClose, HandleThreadExit, Join, CloseFd, EraseEntry,
             HandleTimer, SweepClose
    <3>4. Environment => closer' \in {closer, NoMsg} \/ closer'.cmd = "CLIENT_CLOSE"
      BY DEF Environment, PeerConnect, PeerHangup, Age, AppCheck, TimerFire, AppSend
    <3> QED BY <3>1, <3>2, <3>3, <3>4 DEF Next, vars
  <2> QED BY <2>1 DEF AdmissionInv, NoMsg
<1>4. Admitted' \subseteq Admitted => AdmissionInv'
  BY <1>3, AdmittedShrinks
<1>5. CASE UNCHANGED vars
  BY <1>1, <1>2, <1>4, <1>5 DEF vars
<1>6. CASE (\E c \in Conn, fd \in FD : Accept(c, fd)) \/ Refuse
  BY <1>1, <1>2, <1>4, <1>6 DEF Accept, Refuse
<1>7. CASE SendAccept
  <2>1. Queued' \subseteq Queued \cup Sending
    BY <1>7, QueuedPost DEF SendAccept, TypeInv, Sending, Queued
  <2> QED BY <1>1, <1>2, <1>4, <1>7, <2>1 DEF SendAccept
<1>8. ASSUME NEW cmd, cmd # "ACCEPT", NEW id, NEW conn, Post(cmd, id, conn) PROVE Queued' \subseteq Queued
  BY <1>8, QueuedPost DEF TypeInv
<1>9. ASSUME NEW t \in Thread, runTcpReceive(t) PROVE Admitted' \subseteq Admitted
  <2>1. UNCHANGED <<mapClient, mpc, ulSocketFD, apc, amsg>>
    BY <1>9 DEF runTcpReceive, StartFound, StartLost, SendConnect, SendThreadExit, RecvCall, RecvData,
                RecvEnd, SendReceive, SendAlive, SendDisconnect, Exit, OnlyRpc
  <2>2. UNCHANGED queue \/ \E cmd, id : cmd # "ACCEPT" /\ Post(cmd, id, own[t])
    BY <1>9 DEF runTcpReceive, StartFound, StartLost, SendConnect, SendThreadExit, RecvCall, RecvData,
                RecvEnd, SendReceive, SendAlive, SendDisconnect, Exit
  <2> QED BY <1>1, <1>2, <1>8, <2>1, <2>2
<1>10. CASE Environment
  <2>1. UNCHANGED <<mapClient, mpc, ulSocketFD, apc, amsg>>
    BY <1>10 DEF Environment, PeerConnect, PeerHangup, Age, AppCheck, TimerFire, AppSend
  <2>2. UNCHANGED queue \/ \E cmd, id, conn : cmd # "ACCEPT" /\ Post(cmd, id, conn)
    BY <1>10 DEF Environment, PeerConnect, PeerHangup, Age, AppCheck, TimerFire, AppSend, AdmissionInv
  <2> QED BY <1>1, <1>2, <1>4, <1>8, <2>1, <2>2
<1>11. CASE HandleAccept
  <2>1. Head(queue).id \in Queued /\ Queued' \subseteq Queued
    BY <1>11, TakeType, QueuedTake DEF HandleAccept, TypeInv, FdMsg
  <2>2. Assigning' \subseteq {Head(queue).id}
    BY <1>11 DEF HandleAccept, Assigning
  <2>3. Clients' \subseteq Clients \cup {Head(queue).id}
    BY <1>11 DEF HandleAccept, Clients, TypeInv, TypeOK
  <2> QED BY <1>1, <1>2, <1>4, <1>11, <2>1, <2>2, <2>3 DEF HandleAccept
<1>12. CASE Assign
  <2>1. Clients' \subseteq Clients \cup Assigning
    BY <1>12 DEF Assign, Clients, Assigning, TypeInv, TypeOK
  <2> QED BY <1>1, <1>2, <1>4, <1>12, <2>1 DEF Assign, Return, Next1
<1>13. CASE EraseEntry
  <2>1. Clients' \subseteq Clients
    BY <1>13 DEF EraseEntry, Clients, TypeInv, TypeOK
  <2> QED BY <1>1, <1>2, <1>4, <1>13, <2>1 DEF EraseEntry, Return
<1>14. CASE \/ HandleConnect \/ HandleReceive \/ HandleAlive \/ HandleDisconnect
            \/ HandleClientClose \/ HandleThreadExit \/ HandleTimer
  <2>1. \E cmd : Take(cmd)
    BY <1>14 DEF HandleConnect, HandleReceive, HandleAlive, HandleDisconnect, HandleClientClose,
                 HandleThreadExit, HandleTimer
  <2>2. Queued' \subseteq Queued
    BY <2>1, QueuedTake DEF TypeInv
  <2>3. UNCHANGED <<mapClient, apc, amsg>> /\ mpc' # "assign"
    BY <1>14 DEF HandleConnect, HandleReceive, HandleAlive, HandleDisconnect, HandleClientClose,
                 HandleThreadExit, HandleTimer, Farewell, Next1, Take
  <2> QED BY <1>1, <1>2, <1>4, <2>2, <2>3
<1>15. CASE Join \/ CloseFd \/ \E fd \in FD : SweepClose(fd)
  <2>1. UNCHANGED <<mapClient, apc, amsg>> /\ mpc' # "assign"
    BY <1>15 DEF Join, CloseFd, SweepClose, Return, Next1
  <2>2. UNCHANGED queue \/ \E cmd, id, conn : cmd # "ACCEPT" /\ Post(cmd, id, conn)
    BY <1>15 DEF Join, CloseFd, SweepClose
  <2> QED BY <1>1, <1>2, <1>4, <1>8, <2>1, <2>2
<1> QED BY <1>4, <1>5, <1>6, <1>7, <1>9, <1>10, <1>11, <1>12, <1>13, <1>14, <1>15, AdmitStep
        DEF Next, runSocketAccept, runMessageReceive

\* The entries and the descriptors on their way to one never outnumber
\* MAX_CLIENT by more than the queue holds and one, whatever the accept thread
\* counts while ACCEPTs are queued (runSocketAccept), closeClient or not.
THEOREM AdmissionBounded == Spec => []AdmissionBound
<1>1. Init => AdmissionInv
  <2> SUFFICES ASSUME Init PROVE AdmissionInv
    OBVIOUS
  <2>1. Admitted = {}
    BY DEF Init, Admitted, Clients, InFlight
  <2> QED BY <2>1, FS_EmptySet, MaxClientAssumption, QueueCapAssumption
          DEF Init, AdmissionInv, AdmissionBound, NoMsg
<1> QED BY <1>1, TypeInit, TypeStep, AdmissionStep, PTL DEF Spec, AdmissionInv

-----------------------------------------------------------------------------
(***************************************************************************)
(* From here on, CATcpServer as its own receive threads drive it: the      *)
(* application does not call closeClient and the idle timer is off, so     *)
(* that a connection ends only because its receive thread saw it end.      *)
(* (With them, a stale CLIENT_CLOSE can close a descriptor that was given  *)
(* out again: see the runs closing and idle_stuck.)  The inductive         *)
(* invariant ServeInv follows a connection through its stations: what the  *)
(* accept thread and a queued ACCEPT know of a descriptor, what a receive  *)
(* thread knows of its entry, and what each queued message still promises  *)
(* when the message thread comes to it.                                    *)
(***************************************************************************)

ClientCmd == {"CONNECT", "RECEIVE", "ALIVE", "DISCONNECT"}
Ended == {"exit", "zombie"}
Gone  == {"free", "zombie"}
Early == {"start", "connect", "lost"}

\* The messages in the queue.
Elems == {queue[i] : i \in 1..Len(queue)}

\* Receive thread t is the one for descriptor fd.
Pair(fd, t) ==
    mapClient[fd] = t \/ (mpc = "assign" /\ ulSocketFD = fd /\ ulThreadID = t)

Finishing(fd) == mpc \in {"close", "erase"} /\ ulSocketFD = fd

Joining(t) == mpc = "join" /\ ulThreadID = t

ConnectQueued(fd) == \E e \in Elems : e.cmd = "CONNECT" /\ e.id = fd

\* Nobody but the receive threads ends a connection.
Quiet ==
    /\ closer = NoMsg /\ aged = {} /\ mpc # "sweep"
    /\ \A t \in Thread : rpc[t] # "cancelled"
    /\ \A e \in Elems : e.cmd \in {"ACCEPT", "THREAD_EXIT"} \cup ClientCmd

KernelInv ==
    /\ \A f, g \in FD : fdtab[f] # None /\ fdtab[f] = fdtab[g] => f = g
    /\ \A c \in backlog : told[c] = "nothing" /\ \A fd \in FD : fdtab[fd] # c

\* The descriptor of an ACCEPT is open and has no entry yet.
Fresh(e) ==
    ~Answers(e.id) /\ e.conn \in Conn /\ fdtab[e.id] = e.conn /\ told[e.conn] = "nothing"

AcceptInv ==
    /\ apc # "accept" => Fresh(amsg) /\ \A e \in Elems : e.cmd = "ACCEPT" => e.id # amsg.id
    /\ \A e \in Elems : e.cmd = "ACCEPT" => Fresh(e)
    /\ \A fd \in FD : Answers(fd) => fdtab[fd] # None

PairInv ==
    \A fd \in FD, t \in Thread : Pair(fd, t) =>
        /\ \A g \in FD : Pair(g, t) => g = fd
        /\ \A u \in Thread : Pair(fd, u) => u = t
        /\ rpc[t] = "free" <=> Finishing(fd)
        /\ rpc[t] \notin Gone => own[t] = fdtab[fd]

\* A thread before its CONNECT is not announced; after it, it is or will be.
Stage(fd, t) ==
    /\ rpc[t] \in Early => told[fdtab[fd]] = "nothing"
    /\ rpc[t] \in Working \ {"connect"} => told[fdtab[fd]] = "connected" \/ ConnectQueued(fd)

StageInv == \A fd \in FD, t \in Thread : Pair(fd, t) => Stage(fd, t)

\* What a thread reads with is its own descriptor, what it reads from is its
\* own connection.
Reads(t) ==
    /\ rfd[t] # None => Pair(rfd[t], t) /\ rpc[t] \in Working \cup {"exit"}
    /\ src[t] # None => src[t] = own[t] /\ rfd[t] # None
    /\ own[t] # None => \E fd \in FD : Pair(fd, t) /\ rpc[t] \notin Gone

ReaderInv == \A t \in Thread : Reads(t)

\* What a receive thread posted about its client: it is still the client's
\* thread, and the message thread has not begun to join it.
Posted(e) ==
    /\ e.conn \in Conn /\ fdtab[e.id] = e.conn
    /\ e.cmd # "CONNECT" => told[e.conn] = "connected" \/ ConnectQueued(e.id)
    /\ e.cmd = "CONNECT" => told[e.conn] = "nothing"
    /\ \E t \in Thread :
         /\ Pair(e.id, t) /\ ~Joining(t) /\ rpc[t] \notin Early \cup {"free"}
         /\ e.cmd = "DISCONNECT" => rpc[t] \in Ended

SenderInv == \A e \in Elems : e.cmd \in ClientCmd => Posted(e)

\* CONNECT is a client's first message and DISCONNECT its last; a descriptor
\* has one ACCEPT in the queue and a thread one THREAD_EXIT.
OrderInv ==
    \A i, j \in 1..Len(queue) : i < j /\ queue[i].id = queue[j].id =>
        /\ queue[i].cmd \in {"ACCEPT", "THREAD_EXIT"} => queue[j].cmd # queue[i].cmd
        /\ queue[i].cmd \in ClientCmd /\ queue[j].cmd \in ClientCmd =>
             queue[j].cmd # "CONNECT" /\ queue[i].cmd # "DISCONNECT"

\* A thread that posted THREAD_EXIT never announced its client.
Lost(e) ==
    /\ rpc[e.id] \in Ended /\ ~Joining(e.id)
    /\ \A fd \in FD : Pair(fd, e.id) =>
         /\ e.conn = fdtab[fd] /\ told[fdtab[fd]] = "nothing"
         /\ \A f \in Elems : f.cmd \in ClientCmd => f.id # fd

ExitMsgInv == \A e \in Elems : e.cmd = "THREAD_EXIT" => Lost(e)

HandlerInv ==
    /\ mpc = "wait" => cur = NoMsg /\ ulThreadID = None /\ ulSocketFD = None
    /\ mpc = "assign" =>
         /\ cur.conn \in Conn /\ fdtab[ulSocketFD] = cur.conn /\ told[cur.conn] = "nothing"
         /\ mapClient[ulSocketFD] \in {None, Absent}
    /\ mpc = "join" =>
         /\ rpc[ulThreadID] \in Ended
         /\ cur.cmd = "DISCONNECT" => mapClient[ulSocketFD] = ulThreadID
         /\ cur.cmd \in {"DISCONNECT", "THREAD_EXIT"}
         /\ \A fd \in FD : mapClient[fd] = ulThreadID =>
              /\ fdtab[fd] = cur.conn
              /\ told[cur.conn] = IF cur.cmd = "DISCONNECT" THEN "disconnected" ELSE "nothing"
    /\ mpc = "close" =>
         mapClient[ulSocketFD] # Absent /\ fdtab[ulSocketFD] = cur.conn /\ told[cur.conn] # "connected"

ServeInv ==
    /\ TypeInv /\ EntryInv /\ Quiet /\ KernelInv /\ AcceptInv /\ PairInv /\ StageInv /\ ReaderInv
    /\ SenderInv /\ OrderInv /\ ExitMsgInv /\ HandlerInv

LEMMA ElemsType ==
    ASSUME TypeOK
    PROVE  \A e \in Elems :
             /\ e.cmd \in FdCommand => e.id \in FD
             /\ e.cmd = "THREAD_EXIT" => e.id \in Thread
             /\ e.conn \in Conn \cup {None}
<1> SUFFICES ASSUME NEW e \in Msg
             PROVE  /\ e.cmd \in FdCommand => e.id \in FD
                    /\ e.cmd = "THREAD_EXIT" => e.id \in Thread
                    /\ e.conn \in Conn \cup {None}
  BY DEF TypeOK, Elems
<1> QED BY DEF Msg, FdMsg, ExitMsg, TimerMsg

\* A message taken from the queue leaves the others as they were, and it was
\* the only one of its kind where OrderInv says so.
LEMMA TakeElems ==
    ASSUME TypeOK, OrderInv, NEW cmd, Take(cmd)
    PROVE  /\ Elems' \subseteq Elems
           /\ Head(queue) \in Elems /\ Head(queue).cmd = cmd
           /\ \A e \in Elems : e = Head(queue) \/ e \in Elems'
           /\ cmd \in {"ACCEPT", "THREAD_EXIT", "CONNECT"} =>
                \A e \in Elems' : e.cmd = cmd => e.id # Head(queue).id
           /\ cmd = "DISCONNECT" => \A e \in Elems' : e.cmd \in ClientCmd => e.id # Head(queue).id
           /\ cmd \in ClientCmd \ {"CONNECT"} => ~ConnectQueued(Head(queue).id)
           /\ OrderInv'
<1>1. /\ Len(queue) \in Nat \ {0} /\ Len(queue') = Len(queue) - 1
      /\ \A i \in 1..Len(queue') : i + 1 \in 1..Len(queue) /\ queue'[i] = queue[i + 1]
      /\ \A i \in 1..Len(queue) : i # 1 => i - 1 \in 1..Len(queue') /\ queue'[i - 1] = queue[i]
      /\ 1 \in 1..Len(queue) /\ Head(queue) = queue[1] /\ queue[1].cmd = cmd
  BY DEF TypeOK, Take
<1>2. Elems' \subseteq Elems /\ Head(queue) \in Elems /\ Head(queue).cmd = cmd
  BY <1>1 DEF Elems
<1>3. \A e \in Elems : e = Head(queue) \/ e \in Elems'
  BY <1>1 DEF Elems
<1>4. ASSUME NEW j \in 1..Len(queue'), queue'[j].id = Head(queue).id
      PROVE  /\ cmd \in {"ACCEPT", "THREAD_EXIT"} => queue'[j].cmd # cmd
             /\ cmd \in ClientCmd /\ queue'[j].cmd \in ClientCmd =>
                  queue'[j].cmd # "CONNECT" /\ cmd # "DISCONNECT"
  <2>1. j + 1 \in 1..Len(queue) /\ 1 < j + 1 /\ queue'[j] = queue[j + 1]
    BY <1>1
  <2> QED BY <1>1, <1>4, <2>1 DEF OrderInv
<1>5. cmd \in {"ACCEPT", "THREAD_EXIT", "CONNECT"} =>
        \A e \in Elems' : e.cmd = cmd => e.id # Head(queue).id
  BY <1>4 DEF Elems, ClientCmd
<1>6. cmd = "DISCONNECT" => \A e \in Elems' : e.cmd \in ClientCmd => e.id # Head(queue).id
  BY <1>4 DEF Elems, ClientCmd
<1>7. cmd \in ClientCmd \ {"CONNECT"} => ~ConnectQueued(Head(queue).id)
  <2>1. cmd \in ClientCmd => \A e \in Elems' : e.cmd = "CONNECT" => e.id # Head(queue).id
    BY <1>4 DEF Elems, ClientCmd
  <2> QED BY <1>2, <1>3, <2>1 DEF ConnectQueued
<1>8. OrderInv'
  <2> SUFFICES ASSUME NEW i \in 1..Len(queue'), NEW j \in 1..Len(queue'), i < j,
                      queue'[i].id = queue'[j].id
               PROVE  /\ queue'[i].cmd \in {"ACCEPT", "THREAD_EXIT"} => queue'[j].cmd # queue'[i].cmd
                      /\ queue'[i].cmd \in ClientCmd /\ queue'[j].cmd \in ClientCmd =>
                           queue'[j].cmd # "CONNECT" /\ queue'[i].cmd # "DISCONNECT"
    BY DEF OrderInv
  <2>1. /\ i + 1 \in 1..Len(queue) /\ j + 1 \in 1..Len(queue) /\ i + 1 < j + 1
        /\ queue'[i] = queue[i + 1] /\ queue'[j] = queue[j + 1]
    BY <1>1
  <2> QED BY <2>1 DEF OrderInv
<1> QED BY <1>2, <1>3, <1>5, <1>6, <1>7, <1>8

LEMMA PostElems ==
    ASSUME TypeOK, OrderInv, NEW cmd, NEW id, NEW conn, Post(cmd, id, conn)
    PROVE  /\ Elems \subseteq Elems'
           /\ [cmd |-> cmd, id |-> id, conn |-> conn] \in Elems'
           /\ \A e \in Elems' : e \in Elems \/ e = [cmd |-> cmd, id |-> id, conn |-> conn]
           /\ /\ cmd \in {"ACCEPT", "THREAD_EXIT"} => \A e \in Elems : e.cmd = cmd => e.id # id
              /\ cmd = "CONNECT" => \A e \in Elems : e.cmd \in ClientCmd => e.id # id
              /\ cmd \in ClientCmd => \A e \in Elems : e.cmd = "DISCONNECT" => e.id # id
              => OrderInv'
<1> DEFINE m == [cmd |-> cmd, id |-> id, conn |-> conn]
<1>1. /\ Len(queue) \in Nat /\ Len(queue') = Len(queue) + 1
      /\ \A i \in 1..Len(queue) : queue'[i] = queue[i]
      /\ queue'[Len(queue) + 1] = m
  BY DEF TypeOK, Post
<1>2. /\ Elems \subseteq Elems' /\ m \in Elems'
      /\ \A e \in Elems' : e \in Elems \/ e = m
  BY <1>1 DEF Elems
<1>3. ASSUME cmd \in {"ACCEPT", "THREAD_EXIT"} => \A e \in Elems : e.cmd = cmd => e.id # id,
             cmd = "CONNECT" => \A e \in Elems : e.cmd \in ClientCmd => e.id # id,
             cmd \in ClientCmd => \A e \in Elems : e.cmd = "DISCONNECT" => e.id # id
      PROVE  OrderInv'
  <2> SUFFICES ASSUME NEW i \in 1..Len(queue'), NEW j \in 1..Len(queue'), i < j,
                      queue'[i].id = queue'[j].id
               PROVE  /\ queue'[i].cmd \in {"ACCEPT", "THREAD_EXIT"} => queue'[j].cmd # queue'[i].cmd
                      /\ queue'[i].cmd \in ClientCmd /\ queue'[j].cmd \in ClientCmd =>
                           queue'[j].cmd # "CONNECT" /\ queue'[i].cmd # "DISCONNECT"
    BY DEF OrderInv
  <2>1. i \in 1..Len(queue) /\ queue'[i] = queue[i] /\ queue[i] \in Elems
    BY <1>1 DEF Elems
  <2>2. CASE j \in 1..Len(queue)
    BY <1>1, <2>1, <2>2 DEF OrderInv
  <2>3. CASE j = Len(queue) + 1
    <3>1. queue'[j].cmd = cmd /\ queue'[j].id = id
      BY <1>1, <2>3
    <3> QED BY <1>3, <2>1, <3>1
  <2> QED BY <1>1, <2>2, <2>3
<1> QED BY <1>2, <1>3

LEMMA DisconnectStep == ASSUME ServeInv, HandleDisconnect PROVE ServeInv'
<1> DEFINE m == Head(queue)
<1> USE DEF ServeInv
<1>1. /\ Elems' \subseteq Elems /\ m \in Elems /\ m.cmd = "DISCONNECT"
      /\ \A e \in Elems : e = m \/ e \in Elems'
      /\ \A e \in Elems' : e.cmd \in ClientCmd => e.id # m.id
      /\ ~ConnectQueued(m.id) /\ OrderInv'
  BY TakeElems DEF HandleDisconnect, TypeInv, ClientCmd
<1>2. m.id \in FD /\ m.conn \in Conn /\ fdtab[m.id] = m.conn /\ told[m.conn] = "connected"
  BY <1>1, ElemsType DEF SenderInv, Posted, TypeInv, ClientCmd
<1>3. PICK t \in Thread : Pair(m.id, t) /\ rpc[t] \in Ended
  BY <1>1 DEF SenderInv, Posted, ClientCmd
<1>4. mpc = "wait" /\ mapClient[m.id] = t
  BY <1>3 DEF HandleDisconnect, Take, Pair
<1>5. /\ mpc' = "join" /\ cur' = m /\ ulSocketFD' = m.id /\ ulThreadID' = t
      /\ told' = [told EXCEPT ![m.conn] = "disconnected"]
      /\ UNCHANGED <<backlog, hup, fdtab, mapClient, aged, rpc, rfd, own, src, apc, amsg, closer>>
  BY <1>2, <1>4, ThreadAssumption, ConnAssumption
     DEF HandleDisconnect, Farewell, getClientThreadID, Tell, Next1, kernel, table, receivers, acceptor
<1>6. told'[m.conn] = "disconnected" /\ \A c \in Conn \ {m.conn} : told'[c] = told[c]
  BY <1>2, <1>5 DEF TypeInv, TypeOK
<1>7. \A fd \in FD : fdtab[fd] \in Conn \cup {None} /\ (fdtab[fd] = m.conn => fd = m.id)
  BY <1>2, ConnAssumption DEF TypeInv, TypeOK, KernelInv
<1>8. /\ \A fd, x : Pair(fd, x)' <=> Pair(fd, x)
      /\ \A fd : (Answers(fd)' <=> Answers(fd)) /\ ~Finishing(fd) /\ ~Finishing(fd)'
      /\ \A fd \in FD, x \in Thread : Pair(fd, x) => Answers(fd) /\ (fd = m.id <=> x = t)
      /\ \A x \in Thread : Joining(x)' <=> x = t
  BY <1>2, <1>3, <1>4, <1>5, ThreadAssumption DEF Pair, Answers, PairInv, Finishing, Joining
<1>9. \A fd : fd # m.id /\ ConnectQueued(fd) => ConnectQueued(fd)'
  BY <1>1 DEF ConnectQueued
<1>10. TypeInv' /\ EntryInv'
  BY TypeDispatcher, EntryDispatcher DEF runMessageReceive
<1>11. Quiet'
  BY <1>1, <1>5 DEF Quiet
<1>12. KernelInv'
  BY <1>2, <1>5, <1>6 DEF KernelInv, TypeInv, TypeOK
<1>13. AcceptInv'
  BY <1>1, <1>2, <1>5, <1>6, <1>8 DEF AcceptInv, Fresh
<1>14. PairInv'
  BY <1>5, <1>8 DEF PairInv
<1>15. StageInv'
  <2> SUFFICES ASSUME NEW fd \in FD, NEW u \in Thread, Pair(fd, u)
               PROVE  /\ rpc[u] \in Early => told'[fdtab[fd]] = "nothing"
                      /\ rpc[u] \in Working \ {"connect"} =>
                              told'[fdtab[fd]] = "connected" \/ ConnectQueued(fd)'
    BY <1>5, <1>8 DEF StageInv, Stage
  <2>1. CASE u = t
    BY <1>3, <2>1 DEF Ended, Working, Early
  <2>2. CASE u # t
    BY <1>6, <1>7, <1>8, <1>9, <2>2 DEF StageInv, Stage, AcceptInv
  <2> QED BY <2>1, <2>2
<1>16. ReaderInv'
  BY <1>5, <1>8 DEF ReaderInv, Reads
<1>17. SenderInv'
  <2> SUFFICES ASSUME NEW e \in Elems', e.cmd \in ClientCmd
               PROVE  /\ e.conn \in Conn /\ fdtab[e.id] = e.conn
                      /\ e.cmd # "CONNECT" => told'[e.conn] = "connected" \/ ConnectQueued(e.id)'
                      /\ e.cmd = "CONNECT" => told'[e.conn] = "nothing"
                      /\ \E x \in Thread :
                           /\ Pair(e.id, x) /\ x # t /\ rpc[x] \notin Early \cup {"free"}
                           /\ e.cmd = "DISCONNECT" => rpc[x] \in Ended
    BY <1>5, <1>8 DEF SenderInv, Posted
  <2>1. e \in Elems /\ e.id # m.id /\ e.id \in FD
    BY <1>1, ElemsType DEF TypeInv, ClientCmd
  <2>2. e.conn # m.conn /\ e.conn \in Conn /\ fdtab[e.id] = e.conn
    BY <1>7, <2>1 DEF SenderInv, Posted
  <2> QED BY <1>6, <1>8, <1>9, <2>1, <2>2 DEF SenderInv, Posted
<1>18. ExitMsgInv'
  <2> SUFFICES ASSUME NEW e \in Elems', e.cmd = "THREAD_EXIT"
               PROVE  /\ rpc[e.id] \in Ended /\ e.id # t
                      /\ \A fd \in FD : Pair(fd, e.id) =>
                           /\ e.conn = fdtab[fd] /\ told'[fdtab[fd]] = "nothing"
                           /\ \A f \in Elems' : f.cmd \in ClientCmd => f.id # fd
    BY <1>1, <1>5, <1>8, ElemsType DEF ExitMsgInv, Lost, TypeInv
  <2>1. e \in Elems /\ e.id \in Thread /\ e.id # t
    BY <1>1, <1>2, <1>3, ElemsType DEF ExitMsgInv, Lost, TypeInv, ClientCmd
  <2> QED BY <1>1, <1>6, <1>7, <1>8, <2>1 DEF ExitMsgInv, Lost, AcceptInv
<1>19. HandlerInv'
  BY <1>1, <1>2, <1>3, <1>4, <1>5, <1>6, <1>8 DEF HandlerInv, Pair
<1> QED BY <1>1, <1>10, <1>11, <1>12, <1>13, <1>14, <1>15, <1>16, <1>17, <1>18, <1>19

\* What every step of a receive thread leaves alone, and so what remains to
\* be shown of each: the thread's own part, and the message it posts.
LEMMA ReceiverFrame ==
    ASSUME ServeInv, NEW t \in Thread, runTcpReceive(t),
           UNCHANGED <<fdtab, mapClient, mpc, cur, ulThreadID, ulSocketFD, told>>,
           \A u \in Thread \ {t} : /\ rpc'[u] = rpc[u] /\ rfd'[u] = rfd[u]
                                   /\ own'[u] = own[u] /\ src'[u] = src[u],
           rpc[t] \notin Gone, rpc'[t] \notin {"free", "cancelled"},
           rpc'[t] = "zombie" \/ own'[t] = own[t],
           rpc[t] \notin Early => rpc'[t] \notin Early,
           rpc[t] \in Ended => rpc'[t] \in Ended,
           Elems \subseteq Elems', OrderInv', Reads(t)',
           \A fd \in FD : Pair(fd, t) => Stage(fd, t)',
           \A e \in Elems' \ Elems : \/ e.cmd \in ClientCmd /\ Posted(e)' /\ rpc[t] \notin Ended /\ Pair(e.id, t)
                                     \/ e.cmd = "THREAD_EXIT" /\ Lost(e)'
    PROVE  ServeInv'
<1> USE DEF ServeInv
<1>1. UNCHANGED <<backlog, aged, apc, amsg, closer>>
  BY DEF runTcpReceive, StartFound, StartLost, SendConnect, SendThreadExit, RecvCall, RecvData,
         RecvEnd, SendReceive, SendAlive, SendDisconnect, Exit, OnlyRpc, kernel, table, acceptor
<1>2. /\ \A fd, x : Pair(fd, x)' <=> Pair(fd, x)
      /\ \A fd : (Answers(fd)' <=> Answers(fd)) /\ (Finishing(fd)' <=> Finishing(fd))
      /\ \A x : Joining(x)' <=> Joining(x)
      /\ \A fd : ConnectQueued(fd) => ConnectQueued(fd)'
  BY DEF Pair, Answers, Finishing, Joining, ConnectQueued
<1>3. TypeInv' /\ EntryInv'
  BY TypeReceiver, EntryReceiver
<1>4. Quiet'
  BY <1>1 DEF Quiet
<1>5. KernelInv'
  BY <1>1 DEF KernelInv
<1>6. AcceptInv'
  BY <1>1, <1>2 DEF AcceptInv, Fresh, ClientCmd
<1>7. PairInv'
  BY <1>2 DEF PairInv, Gone
<1>8. StageInv'
  BY <1>2 DEF StageInv, Stage
<1>9. ReaderInv'
  BY <1>2 DEF ReaderInv, Reads
<1>10. ASSUME NEW e \in Elems, e.cmd \in ClientCmd PROVE Posted(e)'
  BY <1>2, <1>10 DEF SenderInv, Posted, Gone
<1>11. SenderInv'
  BY <1>10 DEF SenderInv, ClientCmd
<1>12. ASSUME NEW e \in Elems, e.cmd = "THREAD_EXIT" PROVE Lost(e)'
  <2>1. e.id \in Thread
    BY <1>12, ElemsType DEF TypeInv
  <2>2. rpc'[e.id] \in Ended /\ ~Joining(e.id)
    BY <1>12, <2>1 DEF ExitMsgInv, Lost
  <2>3. ASSUME NEW fd \in FD, Pair(fd, e.id), NEW f \in Elems', f.cmd \in ClientCmd, f.id = fd PROVE FALSE
    BY <1>12, <2>1, <2>3 DEF ExitMsgInv, Lost, PairInv, ClientCmd
  <2> QED BY <1>2, <1>12, <2>2, <2>3 DEF ExitMsgInv, Lost
<1>13. ExitMsgInv'
  BY <1>12 DEF ExitMsgInv, ClientCmd
<1>14. HandlerInv'
  <2>1. mpc = "join" => ulThreadID \in Thread /\ rpc'[ulThreadID] \in Ended
    BY DEF HandlerInv, TypeInv, Locals
  <2> QED BY <2>1 DEF HandlerInv
<1> QED BY <1>3, <1>4, <1>5, <1>6, <1>7, <1>8, <1>9, <1>11, <1>13, <1>14

LEMMA WorkingFacts ==
    ASSUME ServeInv, NEW t \in Thread, rpc[t] \in Working
    PROVE  /\ rfd[t] \in FD /\ Pair(rfd[t], t) /\ Answers(rfd[t])
           /\ own[t] \in Conn /\ fdtab[rfd[t]] = own[t] /\ ~Joining(t)
           /\ \A fd \in FD : Pair(fd, t) => fd = rfd[t]
           /\ \A e \in Elems : e.cmd = "DISCONNECT" => e.id # rfd[t]
           /\ rpc[t] = "connect" => told[own[t]] = "nothing"
           /\ rpc[t] = "connect" => \A e \in Elems : e.cmd \in ClientCmd => e.id # rfd[t]
           /\ rpc[t] # "connect" => told[own[t]] = "connected" \/ ConnectQueued(rfd[t])
<1> USE DEF ServeInv
<1>1. rfd[t] \in FD /\ Pair(rfd[t], t) /\ rpc[t] \notin Gone
  BY FDAssumption DEF TypeInv, Locals, ReaderInv, Reads, Working, Gone
<1>2. /\ own[t] = fdtab[rfd[t]] /\ ~Finishing(rfd[t])
      /\ \A fd \in FD : Pair(fd, t) => fd = rfd[t]
      /\ \A u \in Thread : Pair(rfd[t], u) => u = t
  BY <1>1 DEF PairInv, Gone
<1>3. Answers(rfd[t])
  BY <1>1, <1>2, ThreadAssumption DEF Answers, Pair, Finishing
<1>4. own[t] \in Conn
  BY <1>1, <1>2, <1>3 DEF AcceptInv, TypeInv, TypeOK
<1>5. ~Joining(t)
  BY DEF Joining, HandlerInv, Ended, Working
<1>6. \A e \in Elems : e.cmd \in ClientCmd /\ e.id = rfd[t] => rpc[t] # "connect" /\ e.cmd # "DISCONNECT"
  BY <1>2 DEF SenderInv, Posted, Early, Working, Ended
<1>7. Stage(rfd[t], t)
  BY <1>1 DEF StageInv
<1> QED BY <1>1, <1>2, <1>3, <1>4, <1>5, <1>6, <1>7 DEF Stage, Working, Early, ClientCmd

\* What the receive thread's actions touch.
LEMMA ReceiverTouches ==
    ASSUME TypeInv, NEW t \in Thread, runTcpReceive(t)
    PROVE  /\ UNCHANGED <<fdtab, mapClient, mpc, cur, ulThreadID, ulSocketFD, told>>
           /\ \A u \in Thread \ {t} : /\ rpc'[u] = rpc[u] /\ rfd'[u] = rfd[u]
                                      /\ own'[u] = own[u] /\ src'[u] = src[u]
<1> USE DEF OnlyRpc, Goto, kernel, table, receivers, dispatcher, acceptor, TypeInv, TypeOK
<1>1. CASE StartFound(t) \/ StartLost(t) \/ RecvCall(t) \/ RecvData(t) \/ RecvEnd(t) \/ Exit(t)
  BY <1>1 DEF StartFound, StartLost, RecvCall, RecvData, RecvEnd, Exit
<1>2. CASE \/ SendConnect(t) \/ SendThreadExit(t) \/ SendReceive(t) \/ SendAlive(t)
           \/ SendDisconnect(t)
  BY <1>2 DEF SendConnect, SendThreadExit, SendReceive, SendAlive, SendDisconnect
<1> QED BY <1>1, <1>2 DEF runTcpReceive

LEMMA ReceiverStep ==
    ASSUME ServeInv, NEW t \in Thread, runTcpReceive(t) PROVE ServeInv'
<1> USE DEF ServeInv
<1>1. /\ UNCHANGED <<fdtab, mapClient, mpc, cur, ulThreadID, ulSocketFD, told>>
      /\ \A u \in Thread \ {t} : /\ rpc'[u] = rpc[u] /\ rfd'[u] = rfd[u]
                                 /\ own'[u] = own[u] /\ src'[u] = src[u]
      /\ Reads(t) /\ \A fd \in FD : Pair(fd, t) => Stage(fd, t)
  BY ReceiverTouches DEF ReaderInv, StageInv
<1>2. \A fd, x : (Pair(fd, x)' <=> Pair(fd, x)) /\ (Joining(x)' <=> Joining(x))
  BY <1>1 DEF Pair, Joining
<1>3. UNCHANGED queue => Elems' = Elems /\ OrderInv' /\ \A fd : ConnectQueued(fd)' <=> ConnectQueued(fd)
  BY DEF Elems, OrderInv, ConnectQueued
<1> USE DEF OnlyRpc, Goto, kernel, table, receivers, dispatcher, acceptor, Gone, Early, Working, Ended
<1>4. CASE StartFound(t)
  <2>1. /\ rpc[t] = "start" /\ rpc'[t] = "connect" /\ UNCHANGED <<queue, own, src>>
        /\ rfd'[t] = getClientSocketFD(t) /\ mapClient[rfd'[t]] = t /\ rfd'[t] \in FD
    BY <1>4, LookUpType DEF StartFound, TypeInv, TypeOK
  <2>2. Reads(t)'
    BY <1>1, <1>2, <2>1, FDAssumption DEF Reads, Pair
  <2>3. \A fd \in FD : Pair(fd, t) => Stage(fd, t)'
    BY <1>1, <2>1 DEF Stage
  <2> QED BY <1>1, <1>3, <2>1, <2>2, <2>3, ReceiverFrame
<1>5. CASE StartLost(t)
  <2>1. rpc[t] = "start" /\ rpc'[t] = "lost" /\ UNCHANGED <<queue, own, src, rfd>>
    BY <1>5 DEF StartLost, TypeInv, TypeOK
  <2>2. Reads(t)'
    BY <1>1, <1>2, <2>1 DEF Reads
  <2>3. \A fd \in FD : Pair(fd, t) => Stage(fd, t)'
    BY <1>1, <2>1 DEF Stage
  <2> QED BY <1>1, <1>3, <2>1, <2>2, <2>3, ReceiverFrame
<1>6. CASE RecvCall(t)
  <2>1. /\ rpc[t] = "recv" /\ rpc'[t] \in {"disconnect", "blocked"} /\ UNCHANGED <<queue, own, rfd>>
        /\ src'[t] = fdtab[rfd[t]]
    BY <1>6 DEF RecvCall, TypeInv, TypeOK
  <2>2. fdtab[rfd[t]] = own[t] /\ rfd[t] \in FD
    BY <2>1, WorkingFacts
  <2>3. Reads(t)'
    BY <1>1, <1>2, <2>1, <2>2, FDAssumption DEF Reads
  <2>4. \A fd \in FD : Pair(fd, t) => Stage(fd, t)'
    BY <1>1, <1>3, <2>1 DEF Stage
  <2> QED BY <1>1, <1>3, <2>1, <2>3, <2>4, ReceiverFrame
<1>7. CASE RecvData(t) \/ RecvEnd(t)
  <2>1. /\ rpc[t] = "blocked" /\ rpc'[t] \in {"disconnect", "receive"}
        /\ UNCHANGED <<queue, own, rfd, src>>
    BY <1>7 DEF RecvData, RecvEnd, TypeInv, TypeOK
  <2>2. Reads(t)'
    BY <1>1, <1>2, <2>1 DEF Reads
  <2>3. \A fd \in FD : Pair(fd, t) => Stage(fd, t)'
    BY <1>1, <1>3, <2>1 DEF Stage
  <2> QED BY <1>1, <1>3, <2>1, <2>2, <2>3, ReceiverFrame
<1>8. CASE Exit(t)
  <2>1. /\ rpc[t] \in {"exit", "cancelled"} /\ rpc'[t] = "zombie" /\ UNCHANGED queue
        /\ rfd'[t] = None /\ own'[t] = None /\ src'[t] = None
    BY <1>8 DEF Exit, TypeInv, TypeOK
  <2>2. rpc[t] = "exit"
    BY <2>1 DEF Quiet
  <2>3. Reads(t)'
    BY <2>1 DEF Reads
  <2>4. \A fd \in FD : Pair(fd, t) => Stage(fd, t)'
    BY <2>1 DEF Stage
  <2> QED BY <1>1, <1>3, <2>1, <2>2, <2>3, <2>4, ReceiverFrame
<1>9. ASSUME NEW cmd \in ClientCmd, NEW from \in Working, NEW to \in {"recv", "alive", "exit"},
             Goto(t, from, to), Post(cmd, rfd[t], own[t]), UNCHANGED <<rfd, own, src>>,
             cmd = "CONNECT" <=> from = "connect", cmd = "DISCONNECT" => to = "exit"
      PROVE  ServeInv'
  <2> DEFINE e == [cmd |-> cmd, id |-> rfd[t], conn |-> own[t]]
  <2>1. rpc[t] = from /\ rpc'[t] = to
    BY <1>9 DEF TypeInv, TypeOK
  <2>2. /\ rfd[t] \in FD /\ Pair(rfd[t], t)
        /\ own[t] \in Conn /\ fdtab[rfd[t]] = own[t] /\ ~Joining(t)
        /\ \A fd \in FD : Pair(fd, t) => fd = rfd[t]
        /\ \A f \in Elems : f.cmd = "DISCONNECT" => f.id # rfd[t]
        /\ cmd = "CONNECT" => told[own[t]] = "nothing"
        /\ cmd = "CONNECT" => \A f \in Elems : f.cmd \in ClientCmd => f.id # rfd[t]
        /\ cmd # "CONNECT" => told[own[t]] = "connected" \/ ConnectQueued(rfd[t])
    BY <1>9, <2>1, WorkingFacts
  <2>3. /\ Elems \subseteq Elems' /\ e \in Elems' /\ \A f \in Elems' : f \in Elems \/ f = e
        /\ OrderInv'
    BY <1>9, <2>2, PostElems DEF TypeInv, ClientCmd
  <2>4. cmd # "CONNECT" => told[own[t]] = "connected" \/ ConnectQueued(rfd[t])'
    BY <1>9, <2>2, <2>3 DEF ConnectQueued
  <2>5. cmd = "CONNECT" => ConnectQueued(rfd[t])'
    BY <1>9, <2>3 DEF ConnectQueued
  <2>6. Posted(e)'
    BY <1>1, <1>2, <1>9, <2>1, <2>2, <2>4 DEF Posted
  <2>7. Reads(t)'
    BY <1>1, <1>2, <1>9, <2>1 DEF Reads
  <2>8. \A fd \in FD : Pair(fd, t) => Stage(fd, t)'
    BY <1>1, <1>9, <2>1, <2>2, <2>4, <2>5 DEF Stage
  <2> QED BY <1>1, <1>9, <2>1, <2>2, <2>3, <2>6, <2>7, <2>8, ReceiverFrame
<1>10. CASE SendConnect(t)
  BY <1>9, <1>10 DEF SendConnect, ClientCmd
<1>11. CASE SendReceive(t) \/ SendAlive(t)
  BY <1>9, <1>11 DEF SendReceive, SendAlive, ClientCmd
<1>12. CASE SendDisconnect(t)
  BY <1>9, <1>12 DEF SendDisconnect, ClientCmd
<1>13. CASE SendThreadExit(t)
  <2> DEFINE e == [cmd |-> "THREAD_EXIT", id |-> t, conn |-> own[t]]
  <2>1. rpc[t] = "lost" /\ rpc'[t] = "exit" /\ UNCHANGED <<rfd, own, src>>
    BY <1>13 DEF SendThreadExit, TypeInv, TypeOK
  <2>2. \A f \in Elems : f.cmd = "THREAD_EXIT" => f.id # t
    BY <2>1 DEF ExitMsgInv, Lost
  <2>3. /\ Elems \subseteq Elems' /\ \A f \in Elems' : f \in Elems \/ f = e
        /\ OrderInv'
    <3>1. Post("THREAD_EXIT", t, own[t]) /\ TypeOK
      BY <1>13 DEF SendThreadExit, TypeInv
    <3>2. "THREAD_EXIT" \notin ClientCmd
      BY DEF ClientCmd
    <3> QED BY <2>2, <3>1, <3>2, PostElems
  <2>4. ~Joining(t)
    BY <2>1 DEF Joining, HandlerInv
  <2>5. ASSUME NEW fd \in FD, Pair(fd, t)
        PROVE  own[t] = fdtab[fd] /\ told[fdtab[fd]] = "nothing"
               /\ \A f \in Elems : f.cmd \in ClientCmd => f.id # fd
    <3>1. own[t] = fdtab[fd] /\ told[fdtab[fd]] = "nothing"
      BY <1>1, <2>1, <2>5 DEF PairInv, Stage
    <3>2. \A u \in Thread : Pair(fd, u) => u = t
      BY <2>5 DEF PairInv
    <3>3. \A f \in Elems : f.cmd \in ClientCmd => f.id # fd
      BY <2>1, <3>2 DEF SenderInv, Posted
    <3> QED BY <3>1, <3>3
  <2>6. Lost(e)'
    BY <1>1, <1>2, <2>1, <2>3, <2>4, <2>5 DEF Lost, ClientCmd
  <2>7. Reads(t)'
    BY <1>1, <1>2, <2>1 DEF Reads
  <2>8. \A fd \in FD : Pair(fd, t) => Stage(fd, t)'
    BY <1>1, <2>1 DEF Stage
  <2> QED BY <1>1, <2>1, <2>3, <2>6, <2>7, <2>8, ReceiverFrame
<1> QED BY <1>4, <1>5, <1>6, <1>7, <1>8, <1>10, <1>11, <1>12, <1>13 DEF runTcpReceive

\* A step that leaves the entries and threads alone keeps what only they tell.
LEMMA EntriesAlone ==
    ASSUME UNCHANGED <<mapClient, mpc, ulSocketFD, ulThreadID>>
    PROVE  /\ \A fd, t : Pair(fd, t)' <=> Pair(fd, t)
           /\ \A fd : (Answers(fd)' <=> Answers(fd)) /\ (Finishing(fd)' <=> Finishing(fd))
           /\ \A t : Joining(t)' <=> Joining(t)
BY DEF Pair, Answers, Finishing, Joining

LEMMA QueueAlone ==
    ASSUME UNCHANGED queue
    PROVE  /\ Elems' = Elems /\ (OrderInv => OrderInv')
           /\ \A fd : ConnectQueued(fd)' <=> ConnectQueued(fd)
BY DEF Elems, OrderInv, ConnectQueued

\* A pair's descriptor is open unless its handler has closed it.
LEMMA PairOpen ==
    ASSUME ServeInv, NEW fd \in FD, NEW t \in Thread, Pair(fd, t), rpc[t] # "free"
    PROVE  Answers(fd) /\ fdtab[fd] \in Conn
BY ThreadAssumption DEF ServeInv, PairInv, Finishing, Pair, Answers, AcceptInv, TypeInv, TypeOK

\* Steps that open or close a descriptor nobody answers for.
LEMMA AcceptorStep == ASSUME ServeInv, runSocketAccept PROVE ServeInv'
<1> USE DEF ServeInv
<1>1. UNCHANGED <<mapClient, aged, rpc, rfd, own, src, mpc, cur, ulThreadID, ulSocketFD, closer, told>>
  BY DEF runSocketAccept, Accept, Refuse, Admit, SendAccept, table, receivers, dispatcher
<1>2. TypeInv' /\ EntryInv'
  BY TypeAcceptor, EntryOthers
<1>3. /\ \A fd, t : Pair(fd, t)' <=> Pair(fd, t)
      /\ \A fd : (Answers(fd)' <=> Answers(fd)) /\ (Finishing(fd)' <=> Finishing(fd))
      /\ \A t : Joining(t)' <=> Joining(t)
  BY <1>1, EntriesAlone
<1>4. ReaderInv'
  BY <1>1, <1>3 DEF ReaderInv, Reads
<1>5. ASSUME NEW f \in FD, ~Answers(f), UNCHANGED queue,
             \A fd \in FD \ {f} : fdtab'[fd] = fdtab[fd],
             KernelInv', AcceptInv'
      PROVE  ServeInv'
  <2>1. /\ Elems' = Elems /\ OrderInv'
        /\ \A fd : ConnectQueued(fd)' <=> ConnectQueued(fd)
    BY <1>5, QueueAlone
  <2>2. \A fd \in FD, t \in Thread : Pair(fd, t) /\ rpc[t] # "free" => fdtab'[fd] = fdtab[fd]
    BY <1>5, PairOpen
  <2>3. Quiet'
    BY <1>1, <2>1 DEF Quiet
  <2>4. PairInv'
    BY <1>1, <1>3, <2>2 DEF PairInv, Gone
  <2>5. StageInv'
    BY <1>1, <1>3, <2>1, <2>2 DEF StageInv, Stage, Early, Working
  <2>6. \A e \in Elems : e.cmd \in ClientCmd => e.id \in FD
    BY ElemsType DEF TypeInv, ClientCmd
  <2>7. SenderInv'
    BY <1>1, <1>3, <2>1, <2>2, <2>6 DEF SenderInv, Posted
  <2>8. ExitMsgInv'
    BY <1>1, <1>3, <2>1, <2>2, ElemsType DEF ExitMsgInv, Lost, Ended, TypeInv
  <2>9. mpc # "wait" /\ mpc # "join" => ulSocketFD \in FD \/ mpc = "sweep"
    BY DEF TypeInv, Locals, TypeOK
  <2>10. \A fd \in FD : mapClient[fd] = ulThreadID /\ mpc = "join" => fdtab'[fd] = fdtab[fd]
    BY <2>2 DEF HandlerInv, Pair, TypeInv, Locals, Ended
  <2>11. mpc \in {"assign", "close"} => Answers(ulSocketFD)
    BY DEF HandlerInv, Answers
  <2>12. HandlerInv'
    BY <1>1, <1>5, <2>9, <2>10, <2>11 DEF HandlerInv
  <2> QED BY <1>2, <1>4, <1>5, <2>1, <2>3, <2>4, <2>5, <2>7, <2>8, <2>12
<1>6. CASE \E c \in Conn, fd \in FD : Accept(c, fd)
  <2>1. PICK c \in Conn, f \in FD : Accept(c, f)
    BY <1>6
  <2>2. /\ apc = "accept" /\ c \in backlog /\ fdtab[f] = None /\ backlog' = backlog \ {c}
        /\ amsg' = [cmd |-> "ACCEPT", id |-> f, conn |-> c] /\ apc' = "check" /\ UNCHANGED queue
        /\ fdtab'[f] = c /\ \A fd \in FD \ {f} : fdtab'[fd] = fdtab[fd]
    BY <2>1 DEF Accept, TypeInv, TypeOK
  <2>3. ~Answers(f) /\ \A e \in Elems : e.cmd = "ACCEPT" => e.id # f
    BY <2>2, ConnAssumption DEF AcceptInv, Fresh
  <2>4. told[c] = "nothing" /\ \A fd \in FD : fdtab[fd] # c
    BY <2>2 DEF KernelInv
  <2>5. KernelInv'
    BY <1>1, <2>2, <2>4 DEF KernelInv
  <2>6. AcceptInv'
    BY <1>1, <1>3, <2>2, <2>3, <2>4, ElemsType, QueueAlone DEF AcceptInv, Fresh, TypeInv
  <2> QED BY <1>5, <2>2, <2>3, <2>5, <2>6
<1>7. CASE Refuse
  <2>1. /\ amsg.id \in FD /\ UNCHANGED <<backlog, queue>> /\ apc # "accept" /\ apc' = "accept"
        /\ fdtab'[amsg.id] = None /\ \A fd \in FD \ {amsg.id} : fdtab'[fd] = fdtab[fd]
    BY <1>7 DEF Refuse, socketClose, TypeInv, TypeOK, Locals, FdMsg
  <2>2. ~Answers(amsg.id)
    BY <2>1 DEF AcceptInv, Fresh
  <2>3. KernelInv'
    BY <1>1, <2>1, ConnAssumption DEF KernelInv, TypeInv, TypeOK
  <2>4. AcceptInv'
    BY <1>1, <1>3, <2>1, <2>2, ElemsType, QueueAlone DEF AcceptInv, Fresh, TypeInv
  <2> QED BY <1>5, <2>1, <2>2, <2>3, <2>4
<1>8. CASE Admit
  <2>1. UNCHANGED <<backlog, fdtab, queue, amsg>> /\ apc = "check" /\ amsg.id \in FD
    BY <1>8 DEF Admit, kernel, TypeInv, Locals, FdMsg
  <2>2. ~Answers(amsg.id)
    BY <2>1 DEF AcceptInv, Fresh
  <2>3. KernelInv'
    BY <1>1, <2>1 DEF KernelInv
  <2>4. AcceptInv'
    BY <1>1, <1>3, <2>1, QueueAlone DEF AcceptInv, Fresh
  <2> QED BY <1>5, <2>1, <2>2, <2>3, <2>4
<1>9. CASE SendAccept
  <2> DEFINE e == [cmd |-> "ACCEPT", id |-> amsg.id, conn |-> amsg.conn]
  <2>1. Post("ACCEPT", amsg.id, amsg.conn) /\ apc # "accept" /\ apc' = "accept" /\ UNCHANGED <<fdtab, backlog>>
    BY <1>9 DEF SendAccept, kernel
  <2>2. "ACCEPT" \notin ClientCmd /\ \A f \in Elems : f.cmd = "ACCEPT" => f.id # amsg.id
    BY <2>1 DEF AcceptInv, ClientCmd
  <2>3. /\ Elems \subseteq Elems' /\ \A f \in Elems' : f \in Elems \/ f = e
        /\ OrderInv'
    BY <2>1, <2>2, PostElems DEF TypeInv
  <2>4. \A fd : ConnectQueued(fd)' <=> ConnectQueued(fd)
    BY <2>3 DEF ConnectQueued
  <2>5. Quiet'
    BY <1>1, <2>3 DEF Quiet
  <2>6. KernelInv'
    BY <1>1, <2>1 DEF KernelInv
  <2>7. AcceptInv'
    BY <1>1, <1>3, <2>1, <2>3 DEF AcceptInv, Fresh
  <2>8. PairInv' /\ StageInv'
    BY <1>1, <1>3, <2>1, <2>4 DEF PairInv, StageInv, Stage
  <2>9. SenderInv'
    BY <1>1, <1>3, <2>1, <2>2, <2>3, <2>4 DEF SenderInv, Posted
  <2>10. ExitMsgInv'
    BY <1>1, <1>3, <2>1, <2>2, <2>3 DEF ExitMsgInv, Lost
  <2>11. HandlerInv'
    BY <1>1, <2>1 DEF HandlerInv
  <2> QED BY <1>2, <1>4, <2>3, <2>5, <2>6, <2>7, <2>8, <2>9, <2>10, <2>11
<1> QED BY <1>6, <1>7, <1>8, <1>9 DEF runSocketAccept

LEMMA EnvironmentStep ==
    ASSUME ServeInv, ~IdleTimer, ~AppCloses, Environment PROVE ServeInv'
<1> USE DEF ServeInv
<1>1. PICK c \in Conn : PeerConnect(c) \/ PeerHangup(c)
  BY DEF Environment, Age, AppCheck, TimerFire, AppSend, Quiet
<1>2. /\ UNCHANGED <<fdtab, queue, mapClient, aged, rpc, rfd, own, src, mpc, cur, ulThreadID,
                     ulSocketFD, apc, amsg, closer>>
      /\ backlog' \subseteq backlog \cup {c}
      /\ c \notin backlog' \ backlog => backlog' = backlog /\ UNCHANGED told
      /\ \A d \in Conn \ {c} : told'[d] = told[d]
  BY <1>1 DEF PeerConnect, PeerHangup, Mentioned, kernel, table, receivers, dispatcher, acceptor, TypeInv, TypeOK
<1>3. CASE backlog' = backlog /\ UNCHANGED told
  <2>1. TypeInv' /\ EntryInv'
    BY TypeEnvironment, EntryOthers
  <2>2. Quiet' /\ KernelInv' /\ AcceptInv' /\ PairInv' /\ StageInv' /\ ReaderInv' /\ SenderInv'
        /\ ExitMsgInv' /\ HandlerInv'
    BY <1>2, <1>3, EntriesAlone, QueueAlone
       DEF Quiet, KernelInv, AcceptInv, Fresh, PairInv, StageInv, Stage, ReaderInv, Reads, SenderInv,
           Posted, ExitMsgInv, Lost, HandlerInv
  <2> QED BY <1>2, <2>1, <2>2, QueueAlone
<1>4. CASE c \in backlog' \ backlog
  <2>1. PeerConnect(c)
    BY <1>1, <1>4 DEF PeerHangup
  <2>2. /\ told'[c] = "nothing" /\ \A fd \in FD : fdtab[fd] # c
        /\ \A e \in Elems : e.conn # c /\ cur.conn # c /\ amsg.conn # c
    BY <2>1 DEF PeerConnect, Mentioned, Held, Elems, TypeInv, TypeOK
  <2>3. /\ \A fd, t : Pair(fd, t)' <=> Pair(fd, t)
        /\ \A fd : (Answers(fd)' <=> Answers(fd)) /\ (Finishing(fd)' <=> Finishing(fd))
        /\ \A t : Joining(t)' <=> Joining(t)
    BY <1>2, EntriesAlone
  <2>4. /\ Elems' = Elems /\ OrderInv'
        /\ \A fd : ConnectQueued(fd)' <=> ConnectQueued(fd)
    BY <1>2, QueueAlone
  <2>5. \A fd \in FD, t \in Thread : Pair(fd, t) /\ rpc[t] # "free" => told'[fdtab[fd]] = told[fdtab[fd]]
    BY <1>2, <2>2, PairOpen
  <2>6. TypeInv' /\ EntryInv'
    BY TypeEnvironment, EntryOthers
  <2>7. Quiet' /\ KernelInv'
    BY <1>2, <2>2, <2>4 DEF Quiet, KernelInv, TypeInv, TypeOK
  <2>8. AcceptInv'
    BY <1>2, <2>2, <2>3, <2>4 DEF AcceptInv, Fresh
  <2>9. PairInv' /\ ReaderInv'
    BY <1>2, <2>3 DEF PairInv, ReaderInv, Reads
  <2>10. StageInv'
    BY <1>2, <2>3, <2>4, <2>5 DEF StageInv, Stage, Early, Working
  <2>11. SenderInv'
    BY <1>2, <2>2, <2>3, <2>4 DEF SenderInv, Posted
  <2>12. ExitMsgInv'
    BY <1>2, <2>3, <2>4, <2>5, ElemsType DEF ExitMsgInv, Lost, Ended, TypeInv
  <2>13. cur.conn \in Conn \cup {None}
    BY DEF TypeInv, TypeOK, Msg, FdMsg, ExitMsg, TimerMsg, NoMsg
  <2>14. mpc \in {"assign", "close"} => ulSocketFD \in FD /\ cur.conn \in Conn
    BY <2>13 DEF TypeInv, Locals, HandlerInv, AcceptInv, Answers
  <2>15. mpc = "join" => \A fd \in FD : mapClient[fd] = ulThreadID => fdtab[fd] \in Conn
    BY PairOpen DEF TypeInv, Locals, HandlerInv, Pair, Ended
  <2>16. HandlerInv'
    BY <1>2, <2>2, <2>14, <2>15 DEF HandlerInv
  <2> QED BY <2>4, <2>6, <2>7, <2>8, <2>9, <2>10, <2>11, <2>12, <2>16
<1> QED BY <1>2, <1>3, <1>4

LEMMA AcceptStep == ASSUME ServeInv, HandleAccept PROVE ServeInv'
<1> DEFINE m == Head(queue)
<1> USE DEF ServeInv
<1>1. /\ Elems' \subseteq Elems /\ m \in Elems /\ m.cmd = "ACCEPT"
      /\ \A e \in Elems : e = m \/ e \in Elems'
      /\ \A e \in Elems' : e.cmd = "ACCEPT" => e.id # m.id
      /\ OrderInv'
  BY TakeElems DEF HandleAccept, TypeInv
<1>2. m.id \in FD /\ Fresh(m) /\ mpc = "wait"
  BY <1>1, ElemsType DEF AcceptInv, TypeInv, HandleAccept, Take
<1>3. /\ mpc' = "assign" /\ cur' = m /\ ulSocketFD' = m.id
      /\ UNCHANGED <<backlog, fdtab, aged, rfd, src, apc, amsg, closer, told>>
      /\ mapClient[m.id] = Absent /\ mapClient'[m.id] \in {None, Absent}
      /\ \A fd \in FD \ {m.id} : mapClient'[fd] = mapClient[fd]
  BY <1>2 DEF HandleAccept, Next1, kernel, acceptor, Fresh, Answers, TypeInv, TypeOK
<1>4. /\ ulThreadID' \in Thread \cup {None}
      /\ ulThreadID' \in Thread =>
           rpc[ulThreadID'] = "free" /\ rpc'[ulThreadID'] = "start" /\ own'[ulThreadID'] = m.conn
      /\ \A x \in Thread : x # ulThreadID' => rpc'[x] = rpc[x] /\ own'[x] = own[x]
  <2>1. CASE \E t \in Thread : /\ Goto(t, "free", "start")
                               /\ own' = [own EXCEPT ![t] = m.conn]
                               /\ ulThreadID' = t
    BY <2>1 DEF Goto, TypeInv, TypeOK
  <2>2. CASE ulThreadID' = None /\ UNCHANGED <<rpc, own>>
    BY <2>2, ThreadAssumption
  <2> QED BY <2>1, <2>2 DEF HandleAccept, createThread
<1>5. /\ \A fd \in FD, x \in Thread : Pair(fd, x)' <=> Pair(fd, x) \/ (fd = m.id /\ x = ulThreadID')
      /\ \A fd \in FD, x \in Thread : Pair(fd, x) => fd # m.id /\ rpc[x] # "free" /\ x # ulThreadID'
      /\ \A fd \in FD : Answers(fd)' <=> Answers(fd) \/ fd = m.id
      /\ \A fd : ~Finishing(fd) /\ ~Finishing(fd)'
      /\ \A x : ~Joining(x)'
  <2>1. \A fd \in FD, x \in Thread : Pair(fd, x) => fd # m.id /\ rpc[x] # "free"
    BY <1>2, <1>3, ThreadAssumption DEF Pair, PairInv, Finishing
  <2>2. \A fd \in FD : Answers(fd)' <=> Answers(fd) \/ fd = m.id
    BY <1>2, <1>3 DEF Answers
  <2>3. \A fd \in FD, x \in Thread : Pair(fd, x)' <=> Pair(fd, x) \/ (fd = m.id /\ x = ulThreadID')
    BY <1>2, <1>3, ThreadAssumption DEF Pair
  <2> QED BY <1>2, <1>3, <1>4, <2>1, <2>2, <2>3 DEF Finishing, Joining
<1>6. \A fd : ConnectQueued(fd)' <=> ConnectQueued(fd)
  BY <1>1 DEF ConnectQueued
<1>7. \A e \in Elems : /\ e.cmd \in FdCommand => e.id \in FD
                       /\ e.cmd = "THREAD_EXIT" => e.id \in Thread
  BY ElemsType DEF TypeInv
<1>8. \A x \in Thread : rpc[x] # "free" => rpc'[x] = rpc[x] /\ own'[x] = own[x]
  BY <1>4
<1>9. TypeInv' /\ EntryInv'
  BY TypeDispatcher, EntryDispatcher DEF runMessageReceive
<1>10. Quiet'
  BY <1>1, <1>3, <1>4 DEF Quiet
<1>11. KernelInv'
  BY <1>3 DEF KernelInv
<1>12. AcceptInv'
  <2>1. apc # "accept" => amsg.id \in FD /\ amsg.id # m.id
    BY <1>1, <1>2 DEF AcceptInv, TypeInv, TypeOK, Locals, FdMsg
  <2>2. \A fd \in FD : Answers(fd)' => fdtab'[fd] # None
    BY <1>2, <1>3, <1>5, ConnAssumption DEF AcceptInv, Fresh
  <2> QED BY <1>1, <1>3, <1>5, <1>7, <2>1, <2>2 DEF AcceptInv, Fresh
<1>13. PairInv'
  <2> SUFFICES ASSUME NEW fd \in FD, NEW x \in Thread, Pair(fd, x)'
               PROVE  /\ \A g \in FD : Pair(g, x)' => g = fd
                      /\ \A u \in Thread : Pair(fd, u)' => u = x
                      /\ rpc'[x] = "free" <=> Finishing(fd)'
                      /\ rpc'[x] \notin Gone => own'[x] = fdtab[fd]
    BY <1>3 DEF PairInv
  <2>1. CASE fd = m.id /\ x = ulThreadID'
    BY <1>2, <1>4, <1>5, <2>1 DEF Fresh
  <2>2. CASE Pair(fd, x)
    BY <1>5, <1>8, <2>2 DEF PairInv
  <2> QED BY <1>5, <2>1, <2>2
<1>14. StageInv'
  <2> SUFFICES ASSUME NEW fd \in FD, NEW x \in Thread, Pair(fd, x)' PROVE Stage(fd, x)'
    BY DEF StageInv
  <2>1. CASE fd = m.id /\ x = ulThreadID'
    BY <1>2, <1>3, <1>4, <2>1 DEF Stage, Fresh, Working
  <2>2. CASE Pair(fd, x)
    BY <1>3, <1>5, <1>6, <1>8, <2>2 DEF StageInv, Stage
  <2> QED BY <1>5, <2>1, <2>2
<1>15. ReaderInv'
  <2> SUFFICES ASSUME NEW x \in Thread PROVE Reads(x)'
    BY DEF ReaderInv
  <2>1. CASE rpc[x] # "free"
    BY <1>3, <1>5, <1>8, <2>1, FDAssumption DEF ReaderInv, Reads, TypeInv, TypeOK
  <2>2. CASE rpc[x] = "free"
    <3>1. rfd[x] = None /\ src[x] = None /\ own[x] = None
      BY <2>2 DEF ReaderInv, Reads, Working, Gone
    <3>2. own'[x] # None => x = ulThreadID'
      BY <1>4, <3>1
    <3> QED BY <1>2, <1>3, <1>4, <1>5, <3>1, <3>2 DEF Reads, Gone
  <2> QED BY <2>1, <2>2
<1>16. SenderInv'
  BY <1>1, <1>3, <1>5, <1>6, <1>7, <1>8 DEF SenderInv, Posted, ClientCmd
<1>17. ExitMsgInv'
  <2> SUFFICES ASSUME NEW e \in Elems', e.cmd = "THREAD_EXIT" PROVE Lost(e)'
    BY DEF ExitMsgInv
  <2>1. e.id \in Thread /\ Lost(e) /\ e \in Elems
    BY <1>1, <1>7 DEF ExitMsgInv
  <2>2. rpc'[e.id] \in Ended /\ e.id # ulThreadID'
    BY <1>4, <1>8, <2>1 DEF Lost, Ended
  <2> QED BY <1>1, <1>3, <1>5, <2>1, <2>2 DEF Lost
<1>18. HandlerInv'
  BY <1>2, <1>3 DEF HandlerInv, Fresh
<1> QED BY <1>1, <1>9, <1>10, <1>11, <1>12, <1>13, <1>14, <1>15, <1>16, <1>17, <1>18

LEMMA AssignStep == ASSUME ServeInv, Assign PROVE ServeInv'
<1> USE DEF ServeInv
<1>1. /\ mpc = "assign" /\ ulSocketFD \in FD /\ mapClient[ulSocketFD] \in {None, Absent}
      /\ UNCHANGED <<backlog, fdtab, queue, rpc, rfd, own, src, apc, amsg, closer, told>>
      /\ mapClient'[ulSocketFD] = ulThreadID /\ ulThreadID \in Thread \cup {None}
      /\ \A fd \in FD \ {ulSocketFD} : mapClient'[fd] = mapClient[fd]
      /\ aged' = {}
  BY DEF Assign, updateClientAlive, kernel, receivers, acceptor, TypeInv, TypeOK, Locals, HandlerInv, Quiet
<1>2. /\ ulThreadID # None => mpc' = "wait" /\ ulThreadID' = None /\ ulSocketFD' = None /\ cur' = NoMsg
      /\ ulThreadID = None => mpc' = "close" /\ UNCHANGED <<cur, ulThreadID, ulSocketFD>>
  BY DEF Assign, Return, Next1
<1>3. /\ \A fd \in FD, x \in Thread : Pair(fd, x)' <=> Pair(fd, x)
      /\ \A fd \in FD : Answers(fd)' <=> Answers(fd)
      /\ \A fd \in FD, x \in Thread : Pair(fd, x) => ~Finishing(fd)'
      /\ \A fd : ~Finishing(fd)
      /\ \A x : ~Joining(x) /\ ~Joining(x)'
  <2>1. \A fd \in FD, x \in Thread : Pair(fd, x)' <=> Pair(fd, x)
    BY <1>1, <1>2, ThreadAssumption DEF Pair
  <2>2. \A fd \in FD : Answers(fd)' <=> Answers(fd)
    BY <1>1, <1>2, ThreadAssumption DEF Answers
  <2>3. \A fd \in FD, x \in Thread : Pair(fd, x) => ~Finishing(fd)'
    BY <1>1, <1>2, ThreadAssumption DEF Pair, Finishing
  <2> QED BY <1>1, <1>2, <2>1, <2>2, <2>3 DEF Joining, Finishing
<1>4. /\ Elems' = Elems /\ OrderInv'
      /\ \A fd : ConnectQueued(fd)' <=> ConnectQueued(fd)
      /\ \A e \in Elems : /\ e.cmd \in FdCommand => e.id \in FD
                          /\ e.cmd = "THREAD_EXIT" => e.id \in Thread
  BY <1>1, QueueAlone, ElemsType DEF TypeInv
<1>5. TypeInv' /\ EntryInv'
  BY TypeDispatcher, EntryDispatcher DEF runMessageReceive
<1>6. Quiet' /\ KernelInv'
  BY <1>1, <1>2, <1>4 DEF Quiet, KernelInv
<1>7. AcceptInv'
  <2>1. apc # "accept" => amsg.id \in FD
    BY DEF TypeInv, TypeOK, Locals, FdMsg
  <2> QED BY <1>1, <1>3, <1>4, <2>1 DEF AcceptInv, Fresh
<1>8. PairInv'
  BY <1>1, <1>3 DEF PairInv
<1>9. StageInv'
  BY <1>1, <1>3, <1>4 DEF StageInv, Stage
<1>10. ReaderInv'
  BY <1>1, <1>3 DEF ReaderInv, Reads, TypeInv, TypeOK
<1>11. SenderInv'
  BY <1>1, <1>3, <1>4 DEF SenderInv, Posted, ClientCmd
<1>12. ExitMsgInv'
  BY <1>1, <1>3, <1>4 DEF ExitMsgInv, Lost
<1>13. HandlerInv'
  BY <1>1, <1>2, ThreadAssumption DEF HandlerInv
<1> QED BY <1>4, <1>5, <1>6, <1>7, <1>8, <1>9, <1>10, <1>11, <1>12, <1>13

LEMMA ConnectStep == ASSUME ServeInv, HandleConnect PROVE ServeInv'
<1> DEFINE m == Head(queue)
<1> USE DEF ServeInv
<1>1. /\ Elems' \subseteq Elems /\ m \in Elems /\ m.cmd = "CONNECT"
      /\ \A e \in Elems : e = m \/ e \in Elems'
      /\ \A e \in Elems' : e.cmd = "CONNECT" => e.id # m.id
      /\ OrderInv'
  BY TakeElems DEF HandleConnect, TypeInv
<1>2. m.id \in FD /\ m.conn \in Conn /\ fdtab[m.id] = m.conn /\ told[m.conn] = "nothing"
  BY <1>1, ElemsType DEF SenderInv, Posted, TypeInv, ClientCmd
<1>3. PICK t \in Thread : Pair(m.id, t) /\ rpc[t] \notin Early \cup {"free"}
  BY <1>1 DEF SenderInv, Posted, ClientCmd
<1>4. /\ mpc = "wait" /\ aged' = {}
      /\ UNCHANGED <<backlog, fdtab, mapClient, rpc, rfd, own, src, mpc, cur, ulThreadID, ulSocketFD,
                     apc, amsg, closer>>
      /\ told'[m.conn] = "connected" /\ \A c \in Conn \ {m.conn} : told'[c] = told[c]
  BY <1>2, ConnAssumption DEF HandleConnect, Take, Tell, updateClientAlive, kernel, receivers, dispatcher,
                              acceptor, Quiet, TypeInv, TypeOK
<1>5. /\ \A fd, x : Pair(fd, x)' <=> Pair(fd, x)
      /\ \A fd : (Answers(fd)' <=> Answers(fd)) /\ (Finishing(fd)' <=> Finishing(fd))
      /\ \A x : Joining(x)' <=> Joining(x)
  BY <1>4, EntriesAlone
<1>6. /\ \A fd : fd # m.id /\ ConnectQueued(fd) => ConnectQueued(fd)'
      /\ \A e \in Elems : /\ e.cmd \in FdCommand => e.id \in FD
                          /\ e.cmd = "THREAD_EXIT" => e.id \in Thread
  BY <1>1, ElemsType DEF ConnectQueued, TypeInv
<1>7. \A fd \in FD : fdtab[fd] = m.conn => fd = m.id
  BY <1>2, ConnAssumption DEF KernelInv
<1>8. /\ Answers(m.id)
      /\ \A x \in Thread : Pair(m.id, x) => x = t
      /\ \A fd \in FD, x \in Thread : Pair(fd, x) => fdtab[fd] \in Conn
  <2>1. \A fd \in FD, x \in Thread : Pair(fd, x) => rpc[x] # "free"
    BY <1>4 DEF PairInv, Finishing
  <2> QED BY <1>2, <1>3, <2>1, PairOpen DEF PairInv
<1>9. TypeInv' /\ EntryInv'
  BY TypeDispatcher, EntryDispatcher DEF runMessageReceive
<1>10. Quiet'
  BY <1>1, <1>4 DEF Quiet
<1>11. KernelInv'
  BY <1>2, <1>4 DEF KernelInv, TypeInv, TypeOK
<1>12. AcceptInv'
  <2>1. apc # "accept" => amsg.id \in FD /\ amsg.id # m.id
    BY <1>8 DEF AcceptInv, Fresh, TypeInv, TypeOK, Locals, FdMsg
  <2>2. \A e \in Elems' : e.cmd = "ACCEPT" => e.id \in FD /\ e.id # m.id
    BY <1>1, <1>6, <1>8 DEF AcceptInv, Fresh
  <2> QED BY <1>1, <1>4, <1>5, <1>7, <2>1, <2>2 DEF AcceptInv, Fresh
<1>13. PairInv' /\ ReaderInv'
  BY <1>4, <1>5 DEF PairInv, ReaderInv, Reads
<1>14. StageInv'
  <2> SUFFICES ASSUME NEW fd \in FD, NEW x \in Thread, Pair(fd, x) PROVE Stage(fd, x)'
    BY <1>5 DEF StageInv
  <2>1. CASE fd = m.id
    BY <1>2, <1>3, <1>4, <1>8, <2>1 DEF Stage
  <2>2. CASE fd # m.id
    BY <1>4, <1>6, <1>7, <1>8, <2>2 DEF StageInv, Stage
  <2> QED BY <2>1, <2>2
<1>15. SenderInv'
  <2> SUFFICES ASSUME NEW e \in Elems', e.cmd \in ClientCmd PROVE Posted(e)'
    BY DEF SenderInv
  <2>1. e \in Elems /\ Posted(e) /\ e.id \in FD
    BY <1>1, <1>6 DEF SenderInv, ClientCmd
  <2>2. CASE e.id = m.id
    BY <1>1, <1>2, <1>4, <1>5, <2>1, <2>2 DEF Posted
  <2>3. CASE e.id # m.id
    BY <1>4, <1>5, <1>6, <1>7, <2>1, <2>3 DEF Posted
  <2> QED BY <2>2, <2>3
<1>16. ExitMsgInv'
  <2> SUFFICES ASSUME NEW e \in Elems', e.cmd = "THREAD_EXIT" PROVE Lost(e)'
    BY DEF ExitMsgInv
  <2>1. e.id \in Thread /\ Lost(e)
    BY <1>1, <1>6 DEF ExitMsgInv
  <2>2. \A fd \in FD : Pair(fd, e.id) => fd # m.id
    BY <1>1, <2>1 DEF Lost, ClientCmd
  <2> QED BY <1>1, <1>4, <1>5, <1>7, <1>8, <2>1, <2>2 DEF Lost
<1>17. HandlerInv'
  BY <1>4 DEF HandlerInv
<1> QED BY <1>1, <1>9, <1>10, <1>11, <1>12, <1>13, <1>14, <1>15, <1>16, <1>17

\* RECEIVE and ALIVE leave their mark with the application only.
LEMMA DataStep == ASSUME ServeInv, HandleReceive \/ HandleAlive PROVE ServeInv'
<1> USE DEF ServeInv
<1>1. PICK cmd \in {"RECEIVE", "ALIVE"} : Take(cmd)
  BY DEF HandleReceive, HandleAlive
<1>2. /\ Elems' \subseteq Elems /\ OrderInv' /\ Head(queue).cmd = cmd
      /\ \A e \in Elems : e = Head(queue) \/ e \in Elems'
  BY <1>1, TakeElems DEF TypeInv
<1>3. /\ UNCHANGED <<backlog, fdtab, mapClient, rpc, rfd, own, src, mpc, cur, ulThreadID, ulSocketFD,
                     apc, amsg, closer, told>>
      /\ aged' = {}
  BY DEF HandleReceive, HandleAlive, updateClientAlive, kernel, table, receivers, dispatcher, acceptor, Quiet
<1>4. /\ \A fd, x : Pair(fd, x)' <=> Pair(fd, x)
      /\ \A fd : (Answers(fd)' <=> Answers(fd)) /\ (Finishing(fd)' <=> Finishing(fd))
      /\ \A x : Joining(x)' <=> Joining(x)
  BY <1>3, EntriesAlone
<1>5. \A fd : ConnectQueued(fd)' <=> ConnectQueued(fd)
  BY <1>2 DEF ConnectQueued
<1>6. TypeInv' /\ EntryInv'
  BY TypeDispatcher, EntryDispatcher DEF runMessageReceive
<1>7. Quiet' /\ KernelInv'
  BY <1>2, <1>3 DEF Quiet, KernelInv
<1>8. AcceptInv'
  BY <1>2, <1>3, <1>4 DEF AcceptInv, Fresh
<1>9. PairInv' /\ StageInv' /\ ReaderInv'
  BY <1>3, <1>4, <1>5 DEF PairInv, StageInv, Stage, ReaderInv, Reads
<1>10. SenderInv'
  BY <1>2, <1>3, <1>4, <1>5 DEF SenderInv, Posted
<1>11. ExitMsgInv'
  BY <1>2, <1>3, <1>4 DEF ExitMsgInv, Lost
<1>12. HandlerInv'
  BY <1>3 DEF HandlerInv
<1> QED BY <1>2, <1>6, <1>7, <1>8, <1>9, <1>10, <1>11, <1>12

LEMMA ThreadExitStep == ASSUME ServeInv, HandleThreadExit PROVE ServeInv'
<1> DEFINE m == Head(queue)
<1> USE DEF ServeInv
<1>1. /\ Elems' \subseteq Elems /\ m \in Elems /\ m.cmd = "THREAD_EXIT"
      /\ \A e \in Elems : e = m \/ e \in Elems'
      /\ \A e \in Elems' : e.cmd = "THREAD_EXIT" => e.id # m.id
      /\ OrderInv'
  BY TakeElems DEF HandleThreadExit, TypeInv
<1>2. m.id \in Thread /\ Lost(m)
  BY <1>1, ElemsType DEF ExitMsgInv, TypeInv
<1>3. /\ mpc = "wait" /\ mpc' = "join" /\ cur' = m /\ ulThreadID' = m.id
      /\ UNCHANGED <<backlog, fdtab, mapClient, aged, rpc, rfd, own, src, ulSocketFD, apc, amsg, closer, told>>
  BY <1>1 DEF HandleThreadExit, Take, Next1, kernel, table, receivers, acceptor
<1>4. /\ \A fd, x : Pair(fd, x)' <=> Pair(fd, x)
      /\ \A fd : (Answers(fd)' <=> Answers(fd)) /\ ~Finishing(fd) /\ ~Finishing(fd)'
      /\ \A x : Joining(x)' <=> x = m.id
  BY <1>3 DEF Pair, Answers, Finishing, Joining
<1>5. \A fd : ConnectQueued(fd)' <=> ConnectQueued(fd)
  BY <1>1 DEF ConnectQueued
<1>6. TypeInv' /\ EntryInv'
  BY TypeDispatcher, EntryDispatcher DEF runMessageReceive
<1>7. Quiet' /\ KernelInv'
  BY <1>1, <1>3 DEF Quiet, KernelInv
<1>8. AcceptInv'
  BY <1>1, <1>3, <1>4 DEF AcceptInv, Fresh
<1>9. PairInv' /\ StageInv' /\ ReaderInv'
  BY <1>3, <1>4, <1>5 DEF PairInv, StageInv, Stage, ReaderInv, Reads
<1>10. SenderInv'
  <2> SUFFICES ASSUME NEW e \in Elems', e.cmd \in ClientCmd PROVE Posted(e)'
    BY DEF SenderInv
  <2>1. e \in Elems /\ Posted(e) /\ e.id \in FD
    BY <1>1, ElemsType DEF SenderInv, ClientCmd, TypeInv
  <2>2. \A x \in Thread : Pair(e.id, x) => x # m.id
    BY <1>2, <2>1 DEF Lost
  <2> QED BY <1>3, <1>4, <1>5, <2>1, <2>2 DEF Posted
<1>11. ExitMsgInv'
  BY <1>1, <1>3, <1>4 DEF ExitMsgInv, Lost
<1>12. HandlerInv'
  BY <1>1, <1>2, <1>3 DEF HandlerInv, Lost, Pair
<1> QED BY <1>1, <1>6, <1>7, <1>8, <1>9, <1>10, <1>11, <1>12

LEMMA JoinStep == ASSUME ServeInv, Join PROVE ServeInv'
<1> DEFINE t == ulThreadID
<1> USE DEF ServeInv
<1>1. /\ mpc = "join" /\ t \in Thread /\ rpc[t] = "zombie" /\ rpc'[t] = "free"
      /\ \A x \in Thread \ {t} : rpc'[x] = rpc[x]
      /\ UNCHANGED <<backlog, fdtab, queue, mapClient, aged, rfd, own, src, apc, amsg, closer, told>>
  BY DEF Join, threadJoin, kernel, table, acceptor, TypeInv, TypeOK, Locals, HandlerInv, Ended
<1>2. \/ /\ mpc' = "close" /\ UNCHANGED <<cur, ulThreadID>> /\ ulSocketFD' \in FD
         /\ mapClient[ulSocketFD'] = t
      \/ /\ mpc' = "wait" /\ cur' = NoMsg /\ ulThreadID' = None /\ ulSocketFD' = None
         /\ \A fd \in FD : mapClient[fd] # t
  <2>1. CASE cur.cmd # "THREAD_EXIT"
    BY <1>1, <2>1 DEF Join, Next1, HandlerInv, TypeInv, Locals
  <2>2. CASE cur.cmd = "THREAD_EXIT" /\ getClientSocketFD(t) # None
    BY <1>1, <2>2, LookUpType DEF Join, Next1, TypeInv
  <2>3. CASE cur.cmd = "THREAD_EXIT" /\ getClientSocketFD(t) = None
    <3>1. Names(t) = {}
      BY <1>1, <2>3, LookUpType DEF TypeInv
    <3> QED BY <1>1, <2>3, <3>1 DEF Join, Return, Names
  <2> QED BY <2>1, <2>2, <2>3
<1>3. /\ \A fd, x : Pair(fd, x)' <=> Pair(fd, x)
      /\ \A fd : (Answers(fd)' <=> Answers(fd)) /\ ~Finishing(fd)
      /\ \A x : ~Joining(x)' /\ (Joining(x) <=> x = t)
      /\ \A fd \in FD : Pair(fd, t) <=> Finishing(fd)'
      /\ \A fd, x : Pair(fd, x) <=> mapClient[fd] = x
  <2>1. \A fd \in FD : mapClient[fd] = t <=> Finishing(fd)'
    BY <1>1, <1>2 DEF Finishing, EntryInv, EntryThreadUnjoined
  <2> QED BY <1>1, <1>2, <2>1 DEF Pair, Answers, Finishing, Joining
<1>4. /\ Elems' = Elems /\ OrderInv'
      /\ \A fd : ConnectQueued(fd)' <=> ConnectQueued(fd)
  BY <1>1, QueueAlone
<1>5. TypeInv' /\ EntryInv'
  BY TypeDispatcher, EntryDispatcher DEF runMessageReceive
<1>6. Quiet' /\ KernelInv'
  BY <1>1, <1>2, <1>4 DEF Quiet, KernelInv
<1>7. AcceptInv'
  BY <1>1, <1>3, <1>4 DEF AcceptInv, Fresh
<1>8. PairInv'
  BY <1>1, <1>3 DEF PairInv, Gone
<1>9. StageInv'
  BY <1>1, <1>3, <1>4 DEF StageInv, Stage, Early, Working
<1>10. ReaderInv'
  BY <1>1, <1>3 DEF ReaderInv, Reads, Working, Gone
<1>11. SenderInv'
  BY <1>1, <1>3, <1>4 DEF SenderInv, Posted
<1>12. ExitMsgInv'
  <2> SUFFICES ASSUME NEW e \in Elems, e.cmd = "THREAD_EXIT" PROVE Lost(e)'
    BY <1>4 DEF ExitMsgInv
  <2>1. e.id \in Thread /\ Lost(e) /\ e.id # t
    BY <1>3, ElemsType DEF ExitMsgInv, TypeInv, Lost
  <2> QED BY <1>1, <1>3, <1>4, <2>1 DEF Lost
<1>13. HandlerInv'
  BY <1>1, <1>2, ThreadAssumption DEF HandlerInv
<1> QED BY <1>4, <1>5, <1>6, <1>7, <1>8, <1>9, <1>10, <1>11, <1>12, <1>13

LEMMA CloseStep == ASSUME ServeInv, CloseFd PROVE ServeInv'
<1> DEFINE f == ulSocketFD
<1> USE DEF ServeInv
<1>1. /\ mpc = "close" /\ mpc' = "erase" /\ f \in FD /\ fdtab'[f] = None
      /\ \A fd \in FD \ {f} : fdtab'[fd] = fdtab[fd]
      /\ UNCHANGED <<backlog, queue, mapClient, aged, rpc, rfd, own, src, cur, ulThreadID, ulSocketFD,
                     apc, amsg, closer, told>>
  BY DEF CloseFd, socketClose, Next1, table, receivers, acceptor, TypeInv, TypeOK, Locals
<1>2. /\ \A fd, x : Pair(fd, x)' <=> Pair(fd, x)
      /\ \A fd : Answers(fd)' <=> Answers(fd) /\ fd # f
      /\ \A fd : (Finishing(fd)' <=> Finishing(fd)) /\ (Finishing(fd) <=> fd = f)
      /\ \A x : ~Joining(x)'
      /\ Answers(f)
      /\ \A fd \in FD, x \in Thread : Pair(fd, x) /\ rpc[x] # "free" => fd # f
  BY <1>1 DEF Pair, Answers, Finishing, Joining, PairInv, HandlerInv
<1>3. /\ Elems' = Elems /\ OrderInv'
      /\ \A fd : ConnectQueued(fd)' <=> ConnectQueued(fd)
      /\ \A e \in Elems : /\ e.cmd \in FdCommand => e.id \in FD
                          /\ e.cmd = "THREAD_EXIT" => e.id \in Thread
  BY <1>1, QueueAlone, ElemsType DEF TypeInv
<1>4. TypeInv' /\ EntryInv'
  BY TypeDispatcher, EntryDispatcher DEF runMessageReceive
<1>5. Quiet' /\ KernelInv'
  BY <1>1, <1>3, ConnAssumption DEF Quiet, KernelInv, TypeInv, TypeOK
<1>6. AcceptInv'
  <2>1. apc # "accept" => amsg.id \in FD
    BY DEF TypeInv, TypeOK, Locals, FdMsg
  <2> QED BY <1>1, <1>2, <1>3, <2>1 DEF AcceptInv, Fresh
<1>7. PairInv'
  BY <1>1, <1>2 DEF PairInv, Gone
<1>8. StageInv'
  BY <1>1, <1>2, <1>3 DEF StageInv, Stage, Early, Working
<1>9. ReaderInv'
  BY <1>1, <1>2 DEF ReaderInv, Reads
<1>10. SenderInv'
  BY <1>1, <1>2, <1>3 DEF SenderInv, Posted, ClientCmd
<1>11. ExitMsgInv'
  BY <1>1, <1>2, <1>3 DEF ExitMsgInv, Lost, Ended
<1>12. HandlerInv'
  BY <1>1 DEF HandlerInv
<1> QED BY <1>3, <1>4, <1>5, <1>6, <1>7, <1>8, <1>9, <1>10, <1>11, <1>12

LEMMA EraseStep == ASSUME ServeInv, EraseEntry PROVE ServeInv'
<1> DEFINE f == ulSocketFD
<1> USE DEF ServeInv
<1>1. /\ mpc = "erase" /\ mpc' = "wait" /\ f \in FD /\ mapClient'[f] = Absent /\ aged' = {}
      /\ \A fd \in FD \ {f} : mapClient'[fd] = mapClient[fd]
      /\ cur' = NoMsg /\ ulThreadID' = None /\ ulSocketFD' = None
      /\ UNCHANGED <<backlog, fdtab, queue, rpc, rfd, own, src, apc, amsg, closer, told>>
  BY DEF EraseEntry, Return, kernel, receivers, acceptor, TypeInv, TypeOK, Locals, Quiet
<1>2. /\ \A fd \in FD, x \in Thread : Pair(fd, x)' <=> Pair(fd, x) /\ fd # f
      /\ \A fd \in FD : Answers(fd)' <=> Answers(fd)
      /\ \A fd : ~Finishing(fd)' /\ (Finishing(fd) <=> fd = f)
      /\ \A x : ~Joining(x)'
      /\ \A fd \in FD, x \in Thread : Pair(fd, x) /\ rpc[x] # "free" => fd # f
  BY <1>1, ThreadAssumption DEF Pair, Answers, Finishing, Joining, PairInv
<1>3. /\ Elems' = Elems /\ OrderInv'
      /\ \A fd : ConnectQueued(fd)' <=> ConnectQueued(fd)
      /\ \A e \in Elems : /\ e.cmd \in FdCommand => e.id \in FD
                          /\ e.cmd = "THREAD_EXIT" => e.id \in Thread
  BY <1>1, QueueAlone, ElemsType DEF TypeInv
<1>4. TypeInv' /\ EntryInv'
  BY TypeDispatcher, EntryDispatcher DEF runMessageReceive
<1>5. Quiet' /\ KernelInv'
  BY <1>1, <1>3 DEF Quiet, KernelInv
<1>6. AcceptInv'
  <2>1. apc # "accept" => amsg.id \in FD
    BY DEF TypeInv, TypeOK, Locals, FdMsg
  <2> QED BY <1>1, <1>2, <1>3, <2>1 DEF AcceptInv, Fresh
<1>7. PairInv'
  BY <1>1, <1>2 DEF PairInv
<1>8. StageInv'
  BY <1>1, <1>2, <1>3 DEF StageInv, Stage
<1>9. ReaderInv'
  BY <1>1, <1>2 DEF ReaderInv, Reads, Working, Gone, TypeInv, TypeOK
<1>10. SenderInv'
  BY <1>1, <1>2, <1>3 DEF SenderInv, Posted, ClientCmd
<1>11. ExitMsgInv'
  BY <1>1, <1>2, <1>3 DEF ExitMsgInv, Lost, Ended
<1>12. HandlerInv'
  BY <1>1 DEF HandlerInv
<1> QED BY <1>3, <1>4, <1>5, <1>6, <1>7, <1>8, <1>9, <1>10, <1>11, <1>12

LEMMA ServeInit == Init => ServeInv
<1> SUFFICES ASSUME Init PROVE ServeInv
  OBVIOUS
<1>1. TypeInv /\ EntryInv
  BY TypeInit, EntryInit
<1>2. /\ Elems = {} /\ OrderInv
      /\ \A fd \in FD, t \in Thread : ~Pair(fd, t)
      /\ \A fd \in FD : ~Answers(fd)
  BY ThreadAssumption DEF Init, Elems, OrderInv, Pair, Answers
<1>3. Quiet /\ KernelInv /\ AcceptInv
  BY <1>2 DEF Init, Quiet, KernelInv, AcceptInv
<1>4. PairInv /\ StageInv /\ ReaderInv
  BY <1>2 DEF Init, PairInv, StageInv, ReaderInv, Reads
<1>5. SenderInv /\ ExitMsgInv /\ HandlerInv
  BY <1>2 DEF Init, SenderInv, ExitMsgInv, HandlerInv
<1> QED BY <1>1, <1>2, <1>3, <1>4, <1>5 DEF ServeInv

LEMMA ServeStep == ASSUME ~IdleTimer, ~AppCloses PROVE ServeInv /\ [Next]_vars => ServeInv'
<1> SUFFICES ASSUME ServeInv, [Next]_vars PROVE ServeInv'
  OBVIOUS
<1>1. CASE UNCHANGED vars
  BY <1>1, EntriesAlone, QueueAlone
     DEF vars, kernel, table, receivers, dispatcher, acceptor, ServeInv, TypeInv, TypeOK, Locals, EntryInv,
         EntryThreadUnjoined, Names, Quiet, KernelInv, AcceptInv, Fresh, PairInv, StageInv, Stage, ReaderInv,
         Reads, SenderInv, Posted, ExitMsgInv, Lost, HandlerInv
<1>2. CASE runMessageReceive
  <2>1. ~HandleClientClose
    BY TakeElems DEF HandleClientClose, ServeInv, TypeInv, Quiet, ClientCmd
  <2>2. ~HandleTimer
    BY TakeElems DEF HandleTimer, ServeInv, TypeInv, Quiet, ClientCmd
  <2>3. \A fd \in FD : ~SweepClose(fd)
    BY DEF SweepClose, ServeInv, Quiet
  <2> QED BY <1>2, <2>1, <2>2, <2>3, AcceptStep, AssignStep, ConnectStep, DataStep, DisconnectStep,
             ThreadExitStep, JoinStep, CloseStep, EraseStep DEF runMessageReceive
<1> QED BY <1>1, <1>2, AcceptorStep, ReceiverStep, EnvironmentStep DEF Next

\* The inductive invariant of a server whose application does not call
\* closeClient and whose idle timer is off.
LEMMA ServeAlways == ASSUME ~IdleTimer, ~AppCloses PROVE Spec => []ServeInv
BY ServeInit, ServeStep, PTL DEF Spec

-----------------------------------------------------------------------------
\* While nobody calls closeClient and the idle timer is off, every open client
\* socket is with exactly one of the accept thread, a queued ACCEPT and an
\* entry of mapClient, and a closed one with none: the descriptor is closed
\* once, however it is reused (runSocketAccept, onReceiveMessage, eraseClient).
THEOREM DescriptorsAccounted == ASSUME ~IdleTimer, ~AppCloses PROVE Spec => []FdAccounted
<1>1. ServeInv /\ NoFdForgotten => FdAccounted
  <2> SUFFICES ASSUME ServeInv, NoFdForgotten, NEW fd \in FD
               PROVE  IF fdtab[fd] = None THEN Stations(fd) = {} ELSE \E s \in Stations(fd) : Stations(fd) = {s}
    BY DEF FdAccounted
  <2> USE DEF ServeInv
  <2>1. Len(queue) \in Nat /\ Len(queue) <= QueueCap /\ QueueCap \in Nat
    BY QueueCapAssumption DEF TypeInv, TypeOK
  <2>2. \A i \in InFlight(fd) : /\ i \in 1..Len(queue) /\ queue[i] \in Elems
                                /\ queue[i].cmd = "ACCEPT" /\ queue[i].id = fd
    BY DEF InFlight, Elems
  <2>3. \A i, j \in InFlight(fd) : i = j
    BY <2>1, <2>2 DEF OrderInv
  <2>4. amsg.id = fd => fdtab[fd] # None /\ ~Answers(fd) /\ InFlight(fd) = {}
    <3>1. amsg.id = fd => apc # "accept"
      BY FDAssumption DEF TypeInv, TypeOK, Locals, NoMsg
    <3> QED BY <2>2, <3>1, ConnAssumption DEF AcceptInv, Fresh
  <2>5. InFlight(fd) # {} => fdtab[fd] # None /\ ~Answers(fd)
    BY <2>2, ConnAssumption DEF AcceptInv, Fresh
  <2>6. Answers(fd) => fdtab[fd] # None
    BY DEF AcceptInv
  <2>7. CASE fdtab[fd] = None
    BY <2>4, <2>5, <2>6, <2>7 DEF Stations
  <2>8. CASE fdtab[fd] # None
    <3>1. \A s, r \in Stations(fd) : s = r
      BY <2>3, <2>4, <2>5 DEF Stations
    <3>2. PICK s \in Stations(fd) : TRUE
      BY <2>8 DEF NoFdForgotten
    <3> QED BY <2>8, <3>1, <3>2
  <2> QED BY <2>7, <2>8
<1> QED BY <1>1, ServeAlways, FdNeverForgotten, PTL

\* In such a server no receive thread reads another client's connection, and
\* eraseClient closes the connection its message was about, although
\* descriptors and thread ids are given out again (runTcpReceive, eraseClient).
THEOREM ClientsNotMixedUp == ASSUME ~IdleTimer, ~AppCloses PROVE Spec => []NoMixUp
<1>1. ServeInv => NoMixUp
  BY DEF ServeInv, ReaderInv, Reads, HandlerInv, NoMixUp
<1> QED BY <1>1, ServeAlways, PTL

\* In such a server the message thread never joins a thread that could still
\* need room in the queue it has stopped emptying (DISCONNECT, THREAD_EXIT).
THEOREM JoinsEnd == ASSUME ~IdleTimer, ~AppCloses PROVE Spec => []JoinEnds
<1>1. ServeInv => JoinEnds
  BY DEF ServeInv, HandlerInv, JoinEnds, Ended
<1> QED BY <1>1, ServeAlways, PTL

\* In such a server onReceive and onClientDisconnect are only called between
\* a connection's onClientConnect and its onClientDisconnect.
THEOREM CallbacksInOrder == ASSUME ~IdleTimer, ~AppCloses PROVE Spec => []CallbackOrder
<1>1. ServeInv => CallbackOrder
  <2> SUFFICES ASSUME ServeInv, mpc = "wait", queue # <<>>,
                      Head(queue).cmd \in {"RECEIVE", "ALIVE", "DISCONNECT"}
               PROVE  told[Head(queue).conn] = "connected"
    BY DEF CallbackOrder
  <2>1. /\ Len(queue) \in Nat \ {0} /\ 1 \in 1..Len(queue) /\ Head(queue) = queue[1]
        /\ Head(queue) \in Elems
    BY DEF ServeInv, TypeInv, TypeOK, Elems
  <2>2. \A j \in 1..Len(queue) : queue[j].cmd = "CONNECT" => queue[j].id # queue[1].id
    BY <2>1 DEF ServeInv, OrderInv, ClientCmd
  <2>3. ~ConnectQueued(Head(queue).id)
    BY <2>1, <2>2 DEF ConnectQueued, Elems
  <2> QED BY <2>1, <2>3 DEF ServeInv, SenderInv, Posted, ClientCmd
<1> QED BY <1>1, ServeAlways, PTL

\* In such a server no step closes a descriptor that a receive thread still
\* reads with (Refuse, eraseClient after threadJoin).
THEOREM SocketsNotPulled == ASSUME ~IdleTimer, ~AppCloses PROVE Spec => NoPulledSocket
<1>1. ASSUME ServeInv, [Next]_vars, NEW fd \in FD, fdtab[fd] # None, fdtab'[fd] = None, NEW t \in Thread
      PROVE  rfd[t] # fd
  <2> USE DEF ServeInv
  <2>1. rfd[t] = fd => Pair(fd, t) /\ rpc[t] # "free"
    BY <1>1, FDAssumption DEF ReaderInv, Reads, Working
  <2>2. CASE Refuse
    <3>1. amsg.id \in FD /\ apc # "accept" /\ (fd # amsg.id => fdtab'[fd] = fdtab[fd])
      BY <1>1, <2>2 DEF Refuse, socketClose, TypeInv, TypeOK, Locals, FdMsg
    <3>2. ~Answers(amsg.id)
      BY <1>1, <3>1 DEF AcceptInv, Fresh
    <3> QED BY <1>1, <2>1, <3>1, <3>2, PairOpen
  <2>3. CASE CloseFd
    <3>1. mpc = "close" /\ (fd # ulSocketFD => fdtab'[fd] = fdtab[fd])
      BY <2>3 DEF CloseFd, socketClose, TypeInv, TypeOK, Locals
    <3> QED BY <1>1, <2>1, <3>1 DEF PairInv, Finishing
  <2>4. CASE \E c \in Conn, f \in FD : Accept(c, f)
    BY <1>1, <2>4, ConnAssumption DEF Accept, TypeInv, TypeOK
  <2>5. CASE UNCHANGED fdtab
    BY <1>1, <2>5
  <2>6. Refuse \/ CloseFd \/ (\E c \in Conn, f \in FD : Accept(c, f)) \/ UNCHANGED fdtab
    <3>1. ASSUME NEW x \in Thread, runTcpReceive(x) PROVE UNCHANGED fdtab
      <4>1. TypeInv
        BY <1>1
      <4> QED BY <3>1, <4>1, ReceiverTouches
    <3>2. Environment => UNCHANGED fdtab
      BY DEF Environment, PeerConnect, PeerHangup, Age, AppCheck, TimerFire, AppSend, kernel
    <3>3. runSocketAccept => Refuse \/ UNCHANGED fdtab \/ \E c \in Conn, f \in FD : Accept(c, f)
      BY DEF runSocketAccept, Admit, SendAccept, kernel
    <3>4. runMessageReceive => CloseFd \/ UNCHANGED fdtab
      BY DEF runMessageReceive, HandleAccept, Assign, HandleConnect, HandleReceive, HandleAlive,
             HandleDisconnect, HandleClientClose, HandleThreadExit, Join, EraseEntry, HandleTimer,
             SweepClose, kernel
    <3> QED BY <1>1, <3>1, <3>2, <3>3, <3>4 DEF Next, vars, kernel
  <2> QED BY <2>2, <2>3, <2>4, <2>5, <2>6
<1>2. ServeInv /\ [Next]_vars =>
        [\A fd \in FD : fdtab[fd] # None /\ fdtab'[fd] = None => \A t \in Thread : rfd[t] # fd]_vars
  BY <1>1
<1> QED BY <1>2, ServeAlways, PTL DEF Spec, NoPulledSocket

-----------------------------------------------------------------------------
(* The server implements ConnectionService: what each step is up there.    *)

LEMMA PhaseFrame ==
    ASSUME UNCHANGED <<backlog, fdtab>> PROVE phase' = phase
BY DEF phase, Held

LEMMA PhaseIs ==
    ASSUME NEW c \in Conn
    PROVE  /\ phase[c] = "outside" <=> ~Held(c) /\ c \notin backlog
           /\ phase[c] = "backlog" <=> ~Held(c) /\ c \in backlog
           /\ phase[c] = "held" <=> Held(c)
BY DEF phase

LEMMA PhaseChange ==
    ASSUME NEW c \in Conn, NEW p, NEW q,
           \A d \in Conn \ {c} : (Held(d)' <=> Held(d)) /\ (d \in backlog' <=> d \in backlog),
           phase'[c] = p
    PROVE  phase' = [phase EXCEPT ![c] = p]
BY DEF phase

\* Every step of a server whose application does not call closeClient and
\* whose idle timer is off is a step of ConnectionService or none: one
\* onClientConnect, then one onClientDisconnect, and only then, or without
\* either, the socket is let go.
THEOREM ServesConnections == ASSUME ~IdleTimer, ~AppCloses PROVE Spec => Service!Spec
<1>1. Init => Service!Init
  BY ConnAssumption DEF Init, Service!Init, phase, Held
<1>2. ServeInv /\ ServeInv' /\ [Next]_vars => [Service!Next]_(Service!vars)
  <2> SUFFICES ASSUME ServeInv, ServeInv', [Next]_vars
               PROVE  Service!Next \/ UNCHANGED <<phase, told, hup>>
    BY DEF Service!vars
  <2> USE DEF ServeInv
  <2>1. CASE UNCHANGED <<backlog, fdtab, told, hup>>
    BY <2>1, PhaseFrame
  <2>2. ASSUME NEW c \in Conn, PeerConnect(c) PROVE Service!Next
    <3>1. /\ UNCHANGED fdtab /\ backlog' = backlog \cup {c} /\ hup' = hup \ {c}
          /\ told' = [told EXCEPT ![c] = "nothing"] /\ ~Held(c) /\ c \notin backlog
      BY <2>2 DEF PeerConnect, Mentioned
    <3>2. phase[c] = "outside" /\ phase'[c] = "backlog"
      BY <3>1 DEF phase, Held
    <3>3. phase' = [phase EXCEPT ![c] = "backlog"]
      BY <3>1, <3>2, PhaseChange DEF Held
    <3>4. Service!Arrive(c)
      BY <3>1, <3>2, <3>3 DEF Service!Arrive
    <3> QED BY <3>4 DEF Service!Next
  <2>3. ASSUME NEW c \in Conn, PeerHangup(c) PROVE Service!Next
    <3>1. UNCHANGED <<backlog, fdtab, told>> /\ hup' = hup \cup {c} /\ c \notin hup
      BY <2>3 DEF PeerHangup
    <3>2. Held(c) \/ c \in backlog
      <4>1. ASSUME NEW t \in Thread, src[t] = c PROVE Held(c)
        <5>1. src[t] = own[t] /\ \E fd \in FD : Pair(fd, t) /\ rpc[t] \notin Gone
          BY <4>1, ConnAssumption DEF ReaderInv, Reads
        <5> QED BY <4>1, <5>1 DEF PairInv, Held
      <4> QED BY <2>3, <4>1 DEF PeerHangup
    <3>3. phase' = phase /\ phase[c] # "outside"
      BY <3>1, <3>2, PhaseFrame, PhaseIs
    <3>4. Service!Hangup(c)
      BY <3>1, <3>3 DEF Service!Hangup
    <3> QED BY <3>4 DEF Service!Next
  <2>4. ASSUME NEW c \in Conn, NEW f \in FD, Accept(c, f) PROVE Service!Next
    <3>1. /\ c \in backlog /\ backlog' = backlog \ {c} /\ fdtab[f] = None /\ UNCHANGED <<told, hup>>
          /\ fdtab'[f] = c /\ \A fd \in FD \ {f} : fdtab'[fd] = fdtab[fd]
      BY <2>4 DEF Accept, TypeInv, TypeOK
    <3>2. ~Held(c) /\ Held(c)' /\ \A d \in Conn \ {c} : Held(d)' <=> Held(d)
      BY <3>1, ConnAssumption DEF KernelInv, Held
    <3>3. phase[c] = "backlog" /\ phase'[c] = "held"
      BY <3>1, <3>2 DEF phase
    <3>4. phase' = [phase EXCEPT ![c] = "held"]
      BY <3>1, <3>2, <3>3, PhaseChange
    <3>5. Service!TakeUp(c)
      BY <3>1, <3>3, <3>4 DEF Service!TakeUp
    <3> QED BY <3>5 DEF Service!Next
  <2>5. ASSUME NEW f \in FD, UNCHANGED <<backlog, told, hup>>, fdtab[f] \in Conn, fdtab'[f] = None,
               \A fd \in FD \ {f} : fdtab'[fd] = fdtab[fd], told[fdtab[f]] # "connected"
        PROVE  Service!Next
    <3> DEFINE c == fdtab[f]
    <3>1. Held(c) /\ \A d \in Conn \ {c} : Held(d)' <=> Held(d)
      BY <2>5, ConnAssumption DEF Held
    <3>2. \A fd \in FD : fdtab'[fd] # c
      BY <2>5, ConnAssumption DEF KernelInv
    <3>3. c \notin backlog
      BY <2>5 DEF KernelInv
    <3> SUFFICES ASSUME NEW d \in Conn, d = c PROVE Service!Release(d)
      BY <2>5 DEF Service!Next
    <3>4. ~Held(d)' /\ phase[d] = "held" /\ phase'[d] = "outside"
      BY <2>5, <3>1, <3>2, <3>3 DEF phase, Held
    <3>5. phase' = [phase EXCEPT ![d] = "outside"]
      BY <2>5, <3>1, <3>4, PhaseChange
    <3> QED BY <2>5, <3>4, <3>5 DEF Service!Release
  <2>6. CASE Refuse
    <3>1. /\ amsg.id \in FD /\ apc # "accept" /\ UNCHANGED <<backlog, told, hup>>
          /\ fdtab'[amsg.id] = None /\ \A fd \in FD \ {amsg.id} : fdtab'[fd] = fdtab[fd]
      BY <2>6 DEF Refuse, socketClose, TypeInv, TypeOK, Locals, FdMsg
    <3>2. fdtab[amsg.id] \in Conn /\ told[fdtab[amsg.id]] = "nothing"
      BY <3>1 DEF AcceptInv, Fresh
    <3> QED BY <2>5, <3>1, <3>2
  <2>7. CASE CloseFd
    <3>1. /\ ulSocketFD \in FD /\ mpc = "close" /\ UNCHANGED <<backlog, told, hup>>
          /\ fdtab'[ulSocketFD] = None /\ \A fd \in FD \ {ulSocketFD} : fdtab'[fd] = fdtab[fd]
      BY <2>7 DEF CloseFd, socketClose, TypeInv, TypeOK, Locals
    <3>2. Answers(ulSocketFD) /\ told[fdtab[ulSocketFD]] # "connected"
      BY <3>1 DEF HandlerInv, Answers
    <3>3. fdtab[ulSocketFD] \in Conn
      BY <3>1, <3>2 DEF AcceptInv, TypeInv, TypeOK
    <3> QED BY <2>5, <3>1, <3>2, <3>3
  <2> DEFINE m == Head(queue)
  <2>8. ASSUME m \in Elems, m.cmd \in ClientCmd
        PROVE  m.conn \in Conn /\ Held(m.conn) /\ phase[m.conn] = "held"
    BY <2>8, ElemsType, PhaseIs DEF SenderInv, Posted, Held, TypeInv, ClientCmd
  <2>9. CASE HandleConnect
    <3>1. m \in Elems /\ m.cmd = "CONNECT"
      BY <2>9, TakeElems DEF HandleConnect, TypeInv
    <3>2. told[m.conn] = "nothing" /\ m.conn \in Conn /\ phase[m.conn] = "held"
      BY <2>8, <3>1 DEF SenderInv, Posted, ClientCmd
    <3>3. UNCHANGED <<backlog, fdtab, hup>> /\ told' = [told EXCEPT ![m.conn] = "connected"]
      BY <2>9, <3>2, ConnAssumption DEF HandleConnect, Tell, kernel
    <3>4. Service!Announce(m.conn)
      BY <3>2, <3>3, PhaseFrame DEF Service!Announce
    <3> QED BY <3>2, <3>4 DEF Service!Next
  <2>10. CASE HandleDisconnect
    <3>1. m \in Elems /\ m.cmd = "DISCONNECT" /\ ~ConnectQueued(m.id)
      BY <2>10, TakeElems DEF HandleDisconnect, TypeInv, ClientCmd
    <3>2. told[m.conn] = "connected" /\ m.conn \in Conn /\ phase[m.conn] = "held"
      BY <2>8, <3>1 DEF SenderInv, Posted, ClientCmd
    <3>3. UNCHANGED <<backlog, fdtab, hup>> /\ told' = [told EXCEPT ![m.conn] = "disconnected"]
      BY <2>10, <3>2, ConnAssumption DEF HandleDisconnect, Farewell, Tell, kernel
    <3>4. Service!SayFarewell(m.conn)
      BY <3>2, <3>3, PhaseFrame DEF Service!SayFarewell
    <3> QED BY <3>2, <3>4 DEF Service!Next
  <2>11. ~HandleClientClose
    BY TakeElems DEF HandleClientClose, TypeInv, Quiet, ClientCmd
  <2>12. CASE runMessageReceive
    <3>1. \/ HandleConnect \/ HandleDisconnect \/ CloseFd
          \/ UNCHANGED <<backlog, fdtab, told, hup>>
      BY <2>11, <2>12 DEF runMessageReceive, HandleAccept, Assign, HandleReceive, HandleAlive,
                          HandleThreadExit, Join, EraseEntry, HandleTimer, SweepClose, kernel
    <3> QED BY <2>1, <2>7, <2>9, <2>10, <3>1
  <2>13. CASE runSocketAccept
    <3>1. Admit \/ SendAccept => UNCHANGED <<backlog, fdtab, told, hup>>
      BY DEF Admit, SendAccept, kernel
    <3> QED BY <2>1, <2>4, <2>6, <2>13, <3>1 DEF runSocketAccept
  <2>14. ASSUME NEW t \in Thread, runTcpReceive(t) PROVE UNCHANGED <<backlog, fdtab, told, hup>>
    BY <2>14 DEF runTcpReceive, StartFound, StartLost, SendConnect, SendThreadExit, RecvCall, RecvData,
         RecvEnd, SendReceive, SendAlive, SendDisconnect, Exit, OnlyRpc, kernel
  <2>15. CASE Environment
    <3>1. (\E fd \in FD : Age(fd) \/ AppCheck(fd)) \/ TimerFire \/ AppSend
            => UNCHANGED <<backlog, fdtab, told, hup>>
      BY DEF Age, AppCheck, TimerFire, AppSend, kernel
    <3> QED BY <2>1, <2>2, <2>3, <2>15, <3>1 DEF Environment
  <2>16. CASE UNCHANGED vars
    BY <2>1, <2>16 DEF vars, kernel
  <2> QED BY <2>1, <2>12, <2>13, <2>14, <2>15, <2>16 DEF Next
<1> QED BY <1>1, <1>2, ServeAlways, PTL DEF Spec, Service!Spec

=============================================================================

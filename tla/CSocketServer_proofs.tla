------------------------- MODULE CSocketServer_proofs -------------------------
(***************************************************************************)
(* Theorems about CSocketServer for every value of its constants: the      *)
(* hand-off under the lock; types; without closeClient and stop, where each*)
(* descriptor is from accept() to close(), and which threads the message   *)
(* thread and mapClientThread may name; and that the events posted to the  *)
(* application follow ConnectionService.                                   *)
(***************************************************************************)
EXTENDS CSocketServer, TLAPS

\* What HandOff needs: where each client thread is.
Places == tpc \in [Thread -> ClientState]

HandInv == Places /\ HandOff

LEMMA InitHand == Init => HandInv
  BY DEF Init, HandInv, Places, HandOff, ClientState

\* A step of a client thread other than Start enters no "start" and leaves
\* the lock alone.
LEMMA ClientStep ==
  ASSUME HandInv, NEW t \in Thread, runCMPHandler(t)
  PROVE  HandInv'
<1> USE DEF HandInv, Places, HandOff, ClientState, Goto
<1>1. CASE Start(t)
  BY <1>1 DEF Start, Entering
<1>2. CASE SendStep(t)
  BY <1>2 DEF SendStep, SendConnect, SendReceive, SendDisconnect, SendThreadExit,
              OnlyClient, handoff, Entering
<1>3. CASE Register(t) \/ CloseSocket(t) \/ Unregister(t)
  BY <1>3 DEF Register, CloseSocket, Unregister, handoff
<1>4. CASE RecvCall(t) \/ RecvEnd(t) \/ RecvPacket(t) \/ RecvInvalid(t)
  BY <1>4 DEF RecvCall, RecvEnd, RecvPacket, RecvInvalid, RecvReturns, OnlyClient, handoff, AtEnd
<1>5. CASE Exit(t)
  BY <1>5 DEF Exit, OnlyClient, handoff
<1>6. QED
  BY <1>1, <1>2, <1>3, <1>4, <1>5 DEF runCMPHandler, LocalStep

\* The message thread creates a client thread only when it took the lock.
LEMMA DispatcherStep ==
  ASSUME HandInv, runMessageReceive
  PROVE  HandInv'
<1> USE DEF HandInv, Places, HandOff, ClientState
<1>1. CASE HandleAccept \/ HandleReceive \/ HandleThreadExit
  BY <1>1 DEF HandleAccept, HandleReceive, HandleThreadExit, handoff, clients
<1>2. CASE Hand
  <2>1. \A t \in Thread : tpc[t] # "start"
    BY <1>2 DEF Hand
  <2>2. lock' = TRUE
    BY <1>2 DEF Hand
  <2>3. CASE UNCHANGED tpc
    BY <2>1, <2>3
  <2>4. CASE \E t \in Thread : tpc' = [tpc EXCEPT ![t] = "start"]
    BY <2>1, <2>2, <2>4
  <2>5. QED
    BY <1>2, <2>3, <2>4 DEF Hand, createThread
<1>3. CASE Join
  BY <1>3 DEF Join, threadJoin, handoff
<1>4. QED
  BY <1>1, <1>2, <1>3 DEF runMessageReceive

\* The application joins threads, and starts none.
LEMMA ApplicationStep ==
  ASSUME HandInv, Application
  PROVE  HandInv'
<1> USE DEF HandInv, Places, HandOff, ClientState, OnlyApp, handoff, clients
<1>1. CASE StopJoin
  BY <1>1 DEF StopJoin, threadJoin
<1>2. CASE AppTake \/ CloseClientFd \/ CloseClientFind \/ CloseClientErase
  BY <1>2 DEF AppTake, CloseClientFd, CloseClientFind, CloseClientErase
<1>3. CASE CloseClientCancel \/ CloseClientPost \/ Stop \/ StopEnd
  BY <1>3 DEF CloseClientCancel, CloseClientPost, Stop, StopEnd
<1>4. CASE \E fd \in FD : StopCancel(fd)
  BY <1>4 DEF StopCancel
<1>5. QED
  BY <1>1, <1>2, <1>3, <1>4 DEF Application

LEMMA NextHand == HandInv /\ [Next]_vars => HandInv'
<1> SUFFICES ASSUME HandInv, [Next]_vars PROVE HandInv'
  OBVIOUS
<1>1. CASE UNCHANGED vars
  BY <1>1 DEF HandInv, Places, HandOff, vars, handoff, clients
<1>2. CASE \E c \in Conn : PeerConnect(c) \/ PeerHangup(c)
  BY <1>2 DEF HandInv, Places, HandOff, PeerConnect, PeerHangup, handoff, clients
<1>3. CASE runSocketAccept
  BY <1>3 DEF HandInv, Places, HandOff, runSocketAccept, Accept, SendAccept, handoff, clients
<1>4. CASE \E t \in Thread : runCMPHandler(t)
  BY <1>4, ClientStep
<1>5. QED
  BY <1>1, <1>2, <1>3, <1>4, DispatcherStep, ApplicationStep DEF Next

\* At most one created thread waits to read m_nClientFD, and the lock is held
\* as long as it does: whatever closeClient, stop and failing createThreads
\* do, a descriptor handed to a thread (cmpHandler) is not overwritten.
THEOREM HandOffSafe == Spec => []HandOff
<1>1. HandInv => HandOff
  BY DEF HandInv
<1>2. QED
  BY InitHand, NextHand, <1>1, PTL DEF Spec

-----------------------------------------------------------------------------
(* Types.  What the program counters say of the local variables: a client   *)
(* thread that has read m_nClientFD has a descriptor until it removed its   *)
(* entry, and a thread knows its connection from the start.                 *)

Serves == {"connect", "register", "recv", "blocked", "receive", "disconnect", "close", "unregister"}

Locals ==
    /\ \A t \in Thread : tpc[t] \in Serves => tfd[t] \in FD
    /\ \A t \in Thread : tpc[t] \in Serves \cup {"start"} => own[t] \in Conn
    /\ HandOff /\ (lock => m_nClientFD \in FD)
    /\ apc = "send" <=> amsg # NoMsg
    /\ apc = "send" => amsg \in Msg
    /\ mpc = "lock" => cur \in Msg
    /\ mpc = "join" => cur \in ExitMsg
    /\ xpc \in {"close", "find", "read"} => xfd \in FD

TypeInv == TypeOK /\ Locals

USE DEF ClientState, AppState

LEMMA PostInType ==
    ASSUME TypeOK, NEW cmd, NEW id, NEW conn, PostIn(cmd, id, conn),
           [cmd |-> cmd, id |-> id, conn |-> conn] \in Msg \cup ExitMsg
    PROVE  inbox' \in Seq(Msg \cup ExitMsg) /\ Len(inbox') + Len(outbox') <= QueueCap /\ UNCHANGED outbox
BY QueueCapAssumption DEF TypeOK, PostIn, Room

LEMMA PostOutType ==
    ASSUME TypeOK, NEW cmd, NEW id, NEW conn, PostOut(cmd, id, conn),
           [cmd |-> cmd, id |-> id, conn |-> conn] \in Msg
    PROVE  outbox' \in Seq(Msg) /\ Len(inbox') + Len(outbox') <= QueueCap /\ UNCHANGED inbox
BY QueueCapAssumption DEF TypeOK, PostOut, Room

LEMMA TakeType ==
    ASSUME TypeOK, NEW cmd, Take(cmd)
    PROVE  /\ inbox' \in Seq(Msg \cup ExitMsg) /\ Len(inbox') + Len(outbox') <= QueueCap
           /\ UNCHANGED outbox /\ mpc = "wait"
           /\ cmd \in {"ACCEPT", "RECEIVE"} => Head(inbox) \in Msg
           /\ cmd = "THREAD_EXIT" => Head(inbox) \in ExitMsg
<1>1. /\ inbox \in Seq(Msg \cup ExitMsg) /\ inbox # <<>> /\ Head(inbox).cmd = cmd /\ inbox' = Tail(inbox)
      /\ UNCHANGED outbox /\ mpc = "wait" /\ Len(inbox) + Len(outbox) <= QueueCap /\ outbox \in Seq(Msg)
  BY DEF TypeOK, Take
<1>2. Head(inbox) \in Msg \cup ExitMsg /\ inbox' \in Seq(Msg \cup ExitMsg) /\ Len(inbox') = Len(inbox) - 1
      /\ Len(inbox) \in Nat /\ Len(outbox) \in Nat
  BY <1>1
<1>3. Len(inbox') + Len(outbox') <= QueueCap
  BY <1>1, <1>2, QueueCapAssumption
<1> QED BY <1>1, <1>2, <1>3 DEF Msg, ExitMsg

LEMMA TypeInit == Init => TypeInv
<1> SUFFICES ASSUME Init PROVE TypeInv
  OBVIOUS
<1>1. Len(inbox) + Len(outbox) <= QueueCap
  BY QueueCapAssumption DEF Init
<1>2. inbox \in Seq(Msg \cup ExitMsg) /\ outbox \in Seq(Msg)
  BY DEF Init
<1>3. TypeOK
  BY <1>1, <1>2 DEF Init, TypeOK
<1>4. Locals
  BY DEF Init, Locals, HandOff, Serves
<1> QED BY <1>3, <1>4 DEF TypeInv

LEMMA TypeAcceptor == ASSUME TypeInv, runSocketAccept PROVE TypeInv'
<1> USE DEF TypeInv, Locals, HandOff, kernel, handoff, clients, dispatcher, app
<1>1. ASSUME NEW c \in Conn, NEW fd \in FD, Accept(c, fd) PROVE TypeInv'
  <2>1. [cmd |-> "ACCEPT", id |-> fd, conn |-> c] \in Msg
    BY DEF Msg
  <2>2. NoMsg \notin Msg
    BY DEF Msg, NoMsg
  <2> QED BY <1>1, <2>1, <2>2 DEF TypeOK, Accept, boxes
<1>2. CASE SendAccept
  <2>1. [cmd |-> "ACCEPT", id |-> amsg.id, conn |-> amsg.conn] \in Msg \cup ExitMsg
    BY <1>2 DEF SendAccept, Msg
  <2>2. inbox' \in Seq(Msg \cup ExitMsg) /\ Len(inbox') + Len(outbox') <= QueueCap /\ UNCHANGED outbox
    BY <1>2, <2>1, PostInType DEF SendAccept
  <2> QED BY <1>2, <2>2 DEF TypeOK, SendAccept
<1> QED BY <1>1, <1>2 DEF runSocketAccept

\* What a client thread's step needs to keep: its own place and variables.
LEMMA TypeClientFrame ==
    ASSUME TypeInv, HandOff', NEW t \in Thread, NEW to \in ClientState, tpc' = [tpc EXCEPT ![t] = to],
           UNCHANGED <<hup, backlog, listening, m_nClientFD, dispatcher, acceptor, app>>,
           lock' \in BOOLEAN, lock' => lock,
           fdtab' \in [FD -> Conn \cup {None}],
           mapClientThread' \in [FD -> Thread \cup {Absent}],
           inbox' \in Seq(Msg \cup ExitMsg), outbox' \in Seq(Msg),
           Len(inbox') + Len(outbox') <= QueueCap,
           tfd' \in [Thread -> FD \cup {None}], \A u \in Thread \ {t} : tfd'[u] = tfd[u],
           own' \in [Thread -> Conn \cup {None}], \A u \in Thread \ {t} : own'[u] = own[u],
           src' \in [Thread -> Conn \cup {None}], cancelled' \subseteq Thread,
           told' \in [Conn -> {"nothing", "connected", "disconnected"}],
           to \in Serves => tfd'[t] \in FD,
           to \in Serves \cup {"start"} => own'[t] \in Conn
    PROVE  TypeInv'
<1> USE DEF dispatcher, acceptor, app
<1>1. TypeOK'
  <2>1. tpc' \in [Thread -> ClientState]
    BY DEF TypeInv, TypeOK
  <2>2. tfd' \in [Thread -> FD \cup {None}] /\ own' \in [Thread -> Conn \cup {None}]
    OBVIOUS
  <2> HIDE DEF ClientState
  <2> QED BY <2>1, <2>2 DEF TypeInv, TypeOK
<1>2. \A u \in Thread : tpc'[u] = IF u = t THEN to ELSE tpc[u]
  BY DEF TypeInv, TypeOK
<1>3. /\ \A u \in Thread : tpc'[u] \in Serves => tfd'[u] \in FD
      /\ \A u \in Thread : tpc'[u] \in Serves \cup {"start"} => own'[u] \in Conn
  BY <1>2 DEF TypeInv, Locals
<1>4. /\ lock' => m_nClientFD' \in FD
      /\ apc' = "send" <=> amsg' # NoMsg
      /\ apc' = "send" => amsg' \in Msg
      /\ mpc' = "lock" => cur' \in Msg
      /\ mpc' = "join" => cur' \in ExitMsg
      /\ xpc' \in {"close", "find", "read"} => xfd' \in FD
  BY DEF TypeInv, Locals
<1> QED BY <1>1, <1>3, <1>4 DEF TypeInv, Locals

LEMMA TypeClient == ASSUME TypeInv, NEW t \in Thread, runCMPHandler(t) PROVE TypeInv'
<1> USE DEF TypeInv, kernel, boxes, handoff, clients, Goto, Serves, Entering, AtEnd
<1>0. HandOff'
  <2>1. HandInv
    BY DEF HandInv, Places, TypeOK, Locals
  <2> QED BY <2>1, ClientStep DEF HandInv
<1>1. CASE Start(t)
  <2>1. m_nClientFD \in FD /\ own[t] \in Conn
    BY <1>1 DEF Start, Locals, HandOff
  <2> QED BY <1>0, <1>1, <2>1, TypeClientFrame DEF Start, TypeOK
<1>2. CASE Register(t) \/ Unregister(t)
  <2>1. tfd[t] \in FD /\ own[t] \in Conn
    BY <1>2 DEF Register, Unregister, Locals
  <2>2. mapClientThread' \in [FD -> Thread \cup {Absent}]
    BY <1>2, <2>1 DEF Register, Unregister, TypeOK
  <2>3. CASE Register(t)
    BY <1>0, <2>1, <2>2, <2>3, TypeClientFrame DEF Register, TypeOK
  <2>4. CASE Unregister(t)
    BY <1>0, <2>1, <2>2, <2>4, TypeClientFrame DEF Unregister, TypeOK
  <2> QED BY <1>2, <2>3, <2>4
<1>3. CASE CloseSocket(t)
  <2>1. tfd[t] \in FD /\ own[t] \in Conn
    BY <1>3 DEF CloseSocket, Locals
  <2>2. fdtab' \in [FD -> Conn \cup {None}]
    BY <1>3, <2>1 DEF CloseSocket, socketClose, TypeOK
  <2> QED BY <1>0, <1>3, <2>1, <2>2, TypeClientFrame DEF CloseSocket, TypeOK
<1>4. CASE RecvCall(t)
  <2>1. tfd[t] \in FD /\ own[t] \in Conn
    BY <1>4 DEF RecvCall, Locals
  <2> QED BY <1>0, <1>4, <2>1, TypeClientFrame DEF RecvCall, OnlyClient, TypeOK
<1>5. CASE RecvPacket(t) \/ RecvEnd(t) \/ RecvInvalid(t)
  <2>1. tfd[t] \in FD /\ own[t] \in Conn
    BY <1>5 DEF RecvPacket, RecvEnd, RecvInvalid, Locals
  <2>2. PICK to \in {"receive", "recv", "disconnect", "close"} : tpc' = [tpc EXCEPT ![t] = to]
    BY <1>5 DEF RecvPacket, RecvEnd, RecvInvalid
  <2>3. RecvReturns(t)
    BY <1>5 DEF RecvPacket, RecvEnd, RecvInvalid
  <2> QED BY <1>0, <2>1, <2>2, <2>3, TypeClientFrame DEF RecvReturns, OnlyClient, TypeOK
<1>6. CASE Exit(t)
  BY <1>0, <1>6, TypeClientFrame DEF Exit, OnlyClient, TypeOK
<1>7. ASSUME NEW to \in ClientState, tpc[t] \in Serves, to \notin {"start", "free"}, tpc' = [tpc EXCEPT ![t] = to],
             NEW cmd \in {"CONNECT", "RECEIVE", "DISCONNECT"},
             PostOut(cmd, tfd[t], own[t]) \/ (cmd = "RECEIVE" /\ PostIn(cmd, tfd[t], own[t])),
             told' = told \/ \E w \in {"connected", "disconnected"} : told' = [told EXCEPT ![own[t]] = w],
             OnlyClient, UNCHANGED <<tfd, own, src, cancelled>>
      PROVE  TypeInv'
  <2>1. tfd[t] \in FD /\ own[t] \in Conn
    BY <1>7 DEF Locals
  <2>2. [cmd |-> cmd, id |-> tfd[t], conn |-> own[t]] \in Msg
    BY <2>1 DEF Msg
  <2>3. inbox' \in Seq(Msg \cup ExitMsg) /\ outbox' \in Seq(Msg) /\ Len(inbox') + Len(outbox') <= QueueCap
    BY <1>7, <2>2, PostInType, PostOutType DEF TypeOK
  <2>4. told' \in [Conn -> {"nothing", "connected", "disconnected"}]
    BY <1>7, <2>1 DEF TypeOK
  <2> QED BY <1>0, <1>7, <2>1, <2>3, <2>4, TypeClientFrame DEF OnlyClient, TypeOK
<1>8. CASE SendConnect(t) \/ SendReceive(t) \/ SendDisconnect(t)
  BY <1>7, <1>8 DEF SendConnect, SendReceive, SendDisconnect
<1>9. CASE SendThreadExit(t)
  <2>1. [cmd |-> "THREAD_EXIT", id |-> t, conn |-> None] \in Msg \cup ExitMsg
    BY DEF ExitMsg
  <2>2. inbox' \in Seq(Msg \cup ExitMsg) /\ outbox' \in Seq(Msg) /\ Len(inbox') + Len(outbox') <= QueueCap
    BY <1>9, <2>1, PostInType DEF TypeOK, SendThreadExit
  <2> QED BY <1>0, <1>9, <2>2, TypeClientFrame DEF SendThreadExit, OnlyClient, TypeOK
<1> QED BY <1>1, <1>2, <1>3, <1>4, <1>5, <1>6, <1>8, <1>9 DEF runCMPHandler, SendStep, LocalStep

LEMMA TypeDispatcher == ASSUME TypeInv, runMessageReceive PROVE TypeInv'
<1> USE DEF TypeInv, Locals, kernel, handoff, clients, acceptor, app
<1>0. HandOff'
  <2>1. HandInv
    BY DEF HandInv, Places, TypeOK
  <2> QED BY <2>1, DispatcherStep DEF HandInv
<1>1. CASE HandleAccept
  <2>1. /\ inbox' \in Seq(Msg \cup ExitMsg) /\ Len(inbox') + Len(outbox') <= QueueCap
        /\ UNCHANGED outbox /\ mpc = "wait" /\ Head(inbox) \in Msg
    BY <1>1, TakeType DEF HandleAccept
  <2> QED BY <1>0, <1>1, <2>1 DEF HandleAccept, TypeOK
<1>2. CASE Hand
  <2>1. cur \in Msg /\ cur.id \in FD /\ cur.conn \in Conn
    BY <1>2 DEF Hand, Msg
  <2>2. CASE UNCHANGED <<tpc, own>>
    BY <1>0, <1>2, <2>1, <2>2 DEF Hand, boxes, TypeOK, Serves
  <2>3. CASE \E t \in Thread : /\ tpc' = [tpc EXCEPT ![t] = "start"]
                               /\ own' = [own EXCEPT ![t] = cur.conn]
    BY <1>0, <1>2, <2>1, <2>3 DEF Hand, boxes, TypeOK, Serves
  <2> QED BY <1>2, <2>2, <2>3 DEF Hand, createThread
<1>3. CASE HandleReceive
  <2>1. /\ inbox' \in Seq(Msg \cup ExitMsg) /\ Len(inbox') + Len(outbox') <= QueueCap
        /\ UNCHANGED outbox
    BY <1>3, TakeType DEF HandleReceive
  <2> QED BY <1>0, <1>3, <2>1 DEF HandleReceive, dispatcher, TypeOK
<1>4. CASE HandleThreadExit
  <2>1. /\ inbox' \in Seq(Msg \cup ExitMsg) /\ Len(inbox') + Len(outbox') <= QueueCap
        /\ UNCHANGED outbox /\ mpc = "wait" /\ Head(inbox) \in ExitMsg
    BY <1>4, TakeType DEF HandleThreadExit
  <2> QED BY <1>0, <1>4, <2>1 DEF HandleThreadExit, TypeOK
<1>5. CASE Join
  BY <1>0, <1>5 DEF Join, threadJoin, boxes, TypeOK, Serves
<1> QED BY <1>1, <1>2, <1>3, <1>4, <1>5 DEF runMessageReceive

LEMMA TypeApplication == ASSUME TypeInv, Application PROVE TypeInv'
<1> USE DEF TypeInv, Locals, kernel, boxes, handoff, clients, acceptor, dispatcher, OnlyApp, AtApp
<1>0. HandOff'
  <2>1. HandInv
    BY DEF HandInv, Places, TypeOK
  <2> QED BY <2>1, ApplicationStep DEF HandInv
<1>1. CASE AppTake
  <2>0. outbox \in Seq(Msg) /\ outbox # <<>>
    BY <1>1 DEF AppTake, TypeOK
  <2>a. Head(outbox) \in Msg
    BY <2>0
  <2>1. Head(outbox).id \in FD
    BY <2>a DEF Msg
  <2>2. outbox' \in Seq(Msg) /\ Len(outbox') = Len(outbox) - 1 /\ Len(outbox) \in Nat
    BY <1>1 DEF AppTake, TypeOK
  <2>3. Len(inbox) + Len(outbox') <= QueueCap
    BY <2>2, QueueCapAssumption DEF TypeOK
  <2> QED BY <1>0, <1>1, <2>1, <2>2, <2>3 DEF AppTake, TypeOK
<1>2. CASE CloseClientFd
  BY <1>0, <1>2 DEF CloseClientFd, socketClose, TypeOK
<1>3. CASE CloseClientFind \/ CloseClientErase
  <2>1. xfd \in FD /\ (mapClientThread[xfd] # Absent => mapClientThread[xfd] \in Thread)
    BY <1>3 DEF CloseClientFind, CloseClientErase, TypeOK
  <2>2. CASE CloseClientFind
    BY <1>0, <2>1, <2>2 DEF CloseClientFind, TypeOK
  <2>3. CASE CloseClientErase
    <3>1. mapClientThread' \in [FD -> Thread \cup {Absent}] /\ xpid' \in Thread \cup {None}
      BY <2>1, <2>3 DEF CloseClientErase, TypeOK
    <3>2. TypeOK'
      BY <2>3, <3>1 DEF CloseClientErase, TypeOK
    <3>3. Locals'
      BY <1>0, <2>3 DEF CloseClientErase
    <3> QED BY <3>2, <3>3
  <2> QED BY <1>3, <2>2, <2>3
<1>4. CASE CloseClientCancel
  BY <1>0, <1>4 DEF CloseClientCancel, threadCancel, TypeOK
<1>5. CASE CloseClientPost
  <2>1. [cmd |-> "THREAD_EXIT", id |-> xpid, conn |-> None] \in Msg \cup ExitMsg
    BY DEF ExitMsg, TypeOK
  <2>2. inbox' \in Seq(Msg \cup ExitMsg) /\ Len(inbox') + Len(outbox') <= QueueCap /\ UNCHANGED outbox
    BY <1>5, <2>1, PostInType DEF CloseClientPost
  <2> QED BY <1>0, <1>5, <2>2 DEF CloseClientPost, TypeOK
<1>6. CASE Stop \/ StopEnd
  <2>1. CASE Stop
    BY <1>0, <2>1 DEF Stop, TypeOK
  <2>2. CASE StopEnd
    BY <1>0, <2>2 DEF StopEnd, TypeOK
  <2> QED BY <1>6, <2>1, <2>2
<1>7. ASSUME NEW fd \in FD, StopCancel(fd) PROVE TypeInv'
  <2>1. mapClientThread[fd] \in Thread
    BY <1>7 DEF StopCancel, ToVisit, TypeOK
  <2> QED BY <1>0, <1>7, <2>1 DEF StopCancel, threadCancel, TypeOK
<1>8. CASE StopJoin
  BY <1>0, <1>8 DEF StopJoin, threadJoin, TypeOK, Serves
<1> QED BY <1>1, <1>2, <1>3, <1>4, <1>5, <1>6, <1>7, <1>8 DEF Application

LEMMA TypePeers == ASSUME TypeInv, NEW c \in Conn, PeerConnect(c) \/ PeerHangup(c) PROVE TypeInv'
<1> USE DEF boxes, handoff, clients, dispatcher, acceptor, app
<1>1. TypeOK'
  <2>1. CASE PeerConnect(c)
    BY <2>1 DEF PeerConnect, TypeInv, TypeOK
  <2>2. CASE PeerHangup(c)
    BY <2>2 DEF PeerHangup, TypeInv, TypeOK
  <2> QED BY <2>1, <2>2
<1>2. UNCHANGED <<handoff, clients, dispatcher, acceptor, app>>
  BY DEF PeerConnect, PeerHangup
<1>3. Locals'
  BY <1>2 DEF TypeInv, Locals, HandOff
<1> QED BY <1>1, <1>3 DEF TypeInv

LEMMA TypeStep == TypeInv /\ [Next]_vars => TypeInv'
<1> SUFFICES ASSUME TypeInv, [Next]_vars PROVE TypeInv'
  OBVIOUS
<1>1. CASE UNCHANGED vars
  BY <1>1 DEF vars, kernel, boxes, handoff, clients, dispatcher, acceptor, app, TypeInv, TypeOK, Locals, HandOff
<1> QED BY <1>1, TypeAcceptor, TypeClient, TypeDispatcher, TypeApplication, TypePeers DEF Next

\* Every variable keeps its type and the queue its size, whatever closeClient,
\* stop and failing createThreads do.
THEOREM TypeCorrect == Spec => []TypeOK
<1>1. Spec => []TypeInv
  BY TypeInit, TypeStep, PTL DEF Spec
<1> QED BY <1>1, PTL DEF TypeInv


-----------------------------------------------------------------------------
(* Descriptors and threads, when the application calls neither closeClient  *)
(* nor stop.  An open descriptor is with the accept thread, in a queued     *)
(* ACCEPT, with the message thread, in m_nClientFD under the lock, or with  *)
(* one client thread.                                                       *)

\* The internal messages in the queue.
Elems == {inbox[i] : i \in 1..Len(inbox)}

Offered(fd) == apc = "send" /\ amsg.id = fd
Queued(fd)  == \E e \in Elems : e.cmd = "ACCEPT" /\ e.id = fd
Taken(fd)   == mpc = "lock" /\ cur.id = fd
Handed(fd)  == lock /\ m_nClientFD = fd
Pending(fd) == Offered(fd) \/ Queued(fd) \/ Taken(fd) \/ Handed(fd)
Served(fd)  == \E t \in Thread : Works(t) /\ tfd[t] = fd

Calm == cancelled = {} /\ xpc = "wait"

KernelInv ==
    /\ \A f, g \in FD : fdtab[f] # None /\ fdtab[f] = fdtab[g] => f = g
    /\ \A c \in backlog : told[c] = "nothing" /\ \A fd \in FD : fdtab[fd] # c

PartyInv ==
    /\ \A fd \in FD :
         /\ fdtab[fd] # None <=> Pending(fd) \/ Served(fd)
         /\ Pending(fd) => ~Served(fd) /\ told[fdtab[fd]] = "nothing"
         /\ Offered(fd) => ~Queued(fd) /\ ~Taken(fd) /\ ~Handed(fd)
         /\ Queued(fd) => ~Taken(fd) /\ ~Handed(fd)
         /\ Taken(fd) => ~Handed(fd)
    /\ \A t, u \in Thread : Works(t) /\ Works(u) /\ tfd[t] = tfd[u] => t = u

\* Who passes a descriptor on knows the connection behind it.
MessageInv ==
    /\ apc = "send" => amsg.conn = fdtab[amsg.id]
    /\ mpc = "lock" => cur.conn = fdtab[cur.id]
    /\ \A e \in Elems : e.cmd = "ACCEPT" => e.conn = fdtab[e.id]

\* So does a client thread, which has told the application as much of it as
\* its place says.
Stage(t) ==
    /\ tpc[t] = "start" => own[t] = fdtab[m_nClientFD]
    /\ Works(t) => own[t] = fdtab[tfd[t]]
    /\ src[t] # None => tpc[t] = "blocked" /\ src[t] = own[t]
    /\ tpc[t] \in {"connect", "disconnect"} => use.external
    /\ tpc[t] \in {"register", "unregister"} => use.cmp
    /\ tpc[t] = "connect" => told[own[t]] = "nothing"
    /\ tpc[t] \in {"register", "recv", "blocked", "receive", "disconnect"} =>
         told[own[t]] = IF use.external THEN "connected" ELSE "nothing"
    /\ tpc[t] = "close" => told[own[t]] # "connected"

StageInv == \A t \in Thread : Stage(t)

EntryInv == EntryAlive /\ (~use.cmp => \A fd \in FD : mapClientThread[fd] = Absent)

\* A THREAD_EXIT is for a thread that nobody joined yet or is about to join.
Left(e) ==
    /\ e.id \in Thread /\ tpc[e.id] \in {"exit", "zombie"}
    /\ mpc = "join" => cur.id # e.id

ExitInv == JoinEnds /\ \A e \in Elems : e.cmd = "THREAD_EXIT" => Left(e)

\* A descriptor has one ACCEPT in the queue, a thread one THREAD_EXIT.
OrderInv ==
    \A i, j \in 1..Len(inbox) :
        i # j /\ inbox[i].id = inbox[j].id /\ inbox[i].cmd = inbox[j].cmd =>
            inbox[i].cmd \notin {"ACCEPT", "THREAD_EXIT"}

SocketInv ==
    /\ Calm /\ KernelInv /\ PartyInv /\ MessageInv /\ StageInv /\ EntryInv /\ ExitInv /\ OrderInv

USE DEF Works

LEMMA ElemsType ==
    ASSUME TypeOK
    PROVE  \A e \in Elems : e \in Msg \cup ExitMsg /\ (e.cmd = "ACCEPT" => e.id \in FD /\ e.conn \in Conn)
<1>1. \A e \in Elems : e \in Msg \cup ExitMsg
  BY DEF TypeOK, Elems
<1> QED BY <1>1 DEF Msg, ExitMsg

\* A message taken from the queue leaves the others as they were, and was the
\* only one of its kind where OrderInv says so.
LEMMA TakeElems ==
    ASSUME TypeOK, OrderInv, NEW cmd, Take(cmd)
    PROVE  /\ Elems' \subseteq Elems
           /\ Head(inbox) \in Elems /\ Head(inbox).cmd = cmd
           /\ \A e \in Elems : e = Head(inbox) \/ e \in Elems'
           /\ cmd \in {"ACCEPT", "THREAD_EXIT"} => \A e \in Elems' : e.cmd = cmd => e.id # Head(inbox).id
           /\ OrderInv'
<1>1. /\ Len(inbox) \in Nat \ {0} /\ Len(inbox') = Len(inbox) - 1
      /\ \A i \in 1..Len(inbox') : i + 1 \in 1..Len(inbox) /\ inbox'[i] = inbox[i + 1]
      /\ \A i \in 1..Len(inbox) : i # 1 => i - 1 \in 1..Len(inbox') /\ inbox'[i - 1] = inbox[i]
      /\ 1 \in 1..Len(inbox) /\ Head(inbox) = inbox[1] /\ inbox[1].cmd = cmd
  <2>1. inbox \in Seq(Msg \cup ExitMsg) /\ inbox # <<>> /\ inbox' = Tail(inbox) /\ Head(inbox).cmd = cmd
    BY DEF TypeOK, Take
  <2>2. /\ Len(inbox) \in Nat \ {0} /\ Len(inbox') = Len(inbox) - 1 /\ Head(inbox) = inbox[1]
        /\ \A i \in 1..Len(inbox') : inbox'[i] = inbox[i + 1]
    BY ONLY <2>1
  <2>3. \A i \in 1..Len(inbox') : i + 1 \in 1..Len(inbox)
    BY ONLY <2>2
  <2>4. ASSUME NEW i \in 1..Len(inbox), i # 1 PROVE i - 1 \in 1..Len(inbox') /\ inbox'[i - 1] = inbox[i]
    <3>1. i - 1 \in 1..Len(inbox') /\ (i - 1) + 1 = i
      BY ONLY <2>2, <2>4
    <3>2. inbox'[i - 1] = inbox[(i - 1) + 1]
      BY ONLY <2>2, <3>1, Zenon
    <3> QED BY <3>1, <3>2
  <2>5. 1 \in 1..Len(inbox)
    BY ONLY <2>2
  <2>6. Head(inbox) = inbox[1] /\ inbox[1].cmd = cmd
    BY ONLY <2>1, <2>2
  <2>7. \A i \in 1..Len(inbox') : i + 1 \in 1..Len(inbox) /\ inbox'[i] = inbox[i + 1]
    BY ONLY <2>2, <2>3, Zenon
  <2>8. \A i \in 1..Len(inbox) : i # 1 => i - 1 \in 1..Len(inbox') /\ inbox'[i - 1] = inbox[i]
    BY ONLY <2>4, Zenon
  <2>9. Len(inbox) \in Nat \ {0} /\ Len(inbox') = Len(inbox) - 1
    BY ONLY <2>2, Zenon
  <2> QED BY ONLY <2>5, <2>6, <2>7, <2>8, <2>9, Zenon
<1>2. Elems' \subseteq Elems /\ Head(inbox) \in Elems /\ Head(inbox).cmd = cmd
  <2>1. ASSUME NEW e \in Elems' PROVE e \in Elems
    <3>1. PICK i \in 1..Len(inbox') : e = inbox'[i]
      BY Zenon DEF Elems
    <3>2. i + 1 \in 1..Len(inbox) /\ e = inbox[i + 1]
      BY ONLY <1>1, <3>1, Zenon
    <3> QED BY ONLY <3>2, Zenon DEF Elems
  <2> QED BY <1>1, <2>1, Zenon DEF Elems
<1>3. \A e \in Elems : e = Head(inbox) \/ e \in Elems'
  <2> SUFFICES ASSUME NEW i \in 1..Len(inbox), i # 1 PROVE inbox[i] \in Elems'
    BY <1>1, Zenon DEF Elems
  <2> QED BY <1>1, Zenon DEF Elems
<1>4. ASSUME NEW j \in 1..Len(inbox'), inbox'[j].id = Head(inbox).id, inbox'[j].cmd = cmd
      PROVE  cmd \notin {"ACCEPT", "THREAD_EXIT"}
  <2>1. j + 1 \in 1..Len(inbox) /\ 1 # j + 1 /\ inbox'[j] = inbox[j + 1]
    BY <1>1
  <2> QED BY <1>1, <1>4, <2>1 DEF OrderInv
<1>5. cmd \in {"ACCEPT", "THREAD_EXIT"} => \A e \in Elems' : e.cmd = cmd => e.id # Head(inbox).id
  BY <1>4 DEF Elems
<1>6. OrderInv'
  <2> SUFFICES ASSUME NEW i \in 1..Len(inbox'), NEW j \in 1..Len(inbox'), i # j,
                      inbox'[i].id = inbox'[j].id, inbox'[i].cmd = inbox'[j].cmd
               PROVE  inbox'[i].cmd \notin {"ACCEPT", "THREAD_EXIT"}
    BY DEF OrderInv
  <2>1. /\ i + 1 \in 1..Len(inbox) /\ j + 1 \in 1..Len(inbox) /\ i + 1 # j + 1
        /\ inbox'[i] = inbox[i + 1] /\ inbox'[j] = inbox[j + 1]
    BY <1>1
  <2> QED BY <2>1 DEF OrderInv
<1> QED BY <1>2, <1>3, <1>5, <1>6

LEMMA PostElems ==
    ASSUME TypeOK, OrderInv, NEW cmd, NEW id, NEW conn, PostIn(cmd, id, conn)
    PROVE  /\ Elems \subseteq Elems' /\ UNCHANGED outbox
           /\ [cmd |-> cmd, id |-> id, conn |-> conn] \in Elems'
           /\ \A e \in Elems' : e \in Elems \/ e = [cmd |-> cmd, id |-> id, conn |-> conn]
           /\ (cmd \in {"ACCEPT", "THREAD_EXIT"} => \A e \in Elems : e.cmd = cmd => e.id # id) => OrderInv'
<1> DEFINE m == [cmd |-> cmd, id |-> id, conn |-> conn]
<1>1. /\ Len(inbox) \in Nat /\ Len(inbox') = Len(inbox) + 1
      /\ \A i \in 1..Len(inbox) : inbox'[i] = inbox[i]
      /\ inbox'[Len(inbox) + 1] = m /\ UNCHANGED outbox
  BY DEF TypeOK, PostIn
<1>2. /\ Elems \subseteq Elems' /\ m \in Elems'
      /\ \A e \in Elems' : e \in Elems \/ e = m
  BY <1>1 DEF Elems
<1>3. ASSUME cmd \in {"ACCEPT", "THREAD_EXIT"} => \A e \in Elems : e.cmd = cmd => e.id # id
      PROVE  OrderInv'
  <2> SUFFICES ASSUME NEW i \in 1..Len(inbox'), NEW j \in 1..Len(inbox'), i < j,
                      inbox'[i].id = inbox'[j].id, inbox'[i].cmd = inbox'[j].cmd
               PROVE  inbox'[i].cmd \notin {"ACCEPT", "THREAD_EXIT"}
    BY <1>1 DEF OrderInv
  <2>1. i \in 1..Len(inbox) /\ inbox'[i] = inbox[i] /\ inbox[i] \in Elems
    BY <1>1 DEF Elems
  <2>2. CASE j \in 1..Len(inbox)
    BY <1>1, <2>1, <2>2 DEF OrderInv
  <2>3. CASE j = Len(inbox) + 1
    <3>1. inbox'[j].cmd = cmd /\ inbox'[j].id = id
      BY <1>1, <2>3
    <3> QED BY <1>3, <2>1, <3>1
  <2> QED BY <1>1, <2>2, <2>3
<1> QED BY <1>1, <1>2, <1>3

LEMMA SocketInit == Init => SocketInv
<1> SUFFICES ASSUME Init PROVE SocketInv
  OBVIOUS
<1>1. Elems = {} /\ OrderInv
  BY DEF Init, Elems, OrderInv
<1>2. \A fd \in FD : ~Pending(fd) /\ ~Served(fd)
  BY <1>1, NamesAssumption DEF Init, Pending, Offered, Queued, Taken, Handed, Served
<1>3. Calm /\ KernelInv /\ PartyInv
  BY <1>2 DEF Init, Calm, KernelInv, PartyInv, Pending
<1>4. MessageInv /\ StageInv /\ EntryInv /\ ExitInv
  BY <1>1, NamesAssumption
     DEF Init, MessageInv, StageInv, Stage, EntryInv, EntryAlive, ExitInv, JoinEnds
<1> QED BY <1>1, <1>3, <1>4 DEF SocketInv

\* What a client thread at work knows.
LEMMA WorkingFacts ==
    ASSUME TypeInv, SocketInv, NEW t \in Thread, Works(t)
    PROVE  /\ tfd[t] \in FD /\ own[t] \in Conn /\ fdtab[tfd[t]] = own[t]
           /\ own[t] \notin backlog /\ ~Pending(tfd[t])
           /\ \A fd \in FD : fdtab[fd] = own[t] => fd = tfd[t]
           /\ \A u \in Thread : Works(u) /\ own[u] = own[t] => u = t
<1>1. tfd[t] \in FD /\ own[t] \in Conn /\ fdtab[tfd[t]] = own[t]
  BY DEF TypeInv, TypeOK, Locals, Serves, SocketInv, StageInv, Stage, ClientState
<1>2. own[t] # None
  BY <1>1, NamesAssumption
<1>3. own[t] \notin backlog /\ \A fd \in FD : fdtab[fd] = own[t] => fd = tfd[t]
  BY <1>1, <1>2 DEF SocketInv, KernelInv
<1>4. ~Pending(tfd[t])
  BY <1>1 DEF SocketInv, PartyInv, Served
<1>5. ASSUME NEW u \in Thread, Works(u), own[u] = own[t] PROVE u = t
  <2>1. tfd[u] \in FD /\ fdtab[tfd[u]] = own[u]
    BY <1>5 DEF TypeInv, TypeOK, Locals, Serves, SocketInv, StageInv, Stage, ClientState
  <2> QED BY <1>3, <1>5, <2>1 DEF SocketInv, PartyInv
<1> QED BY <1>1, <1>3, <1>4, <1>5

\* What a client thread's step keeps when it leaves the descriptors alone.
LEMMA ClientFrame ==
    ASSUME TypeInv, SocketInv, NEW t \in Thread,
           UNCHANGED <<backlog, fdtab, lock, m_nClientFD, mpc, cur, apc, amsg, xpc, cancelled, use>>,
           \A u \in Thread \ {t} : /\ tpc'[u] = tpc[u] /\ tfd'[u] = tfd[u]
                                   /\ own'[u] = own[u] /\ src'[u] = src[u],
           tpc[t] # "start", tpc'[t] # "start", Works(t)' <=> Works(t),
           Works(t) => tfd'[t] = tfd[t] /\ own'[t] = own[t],
           tpc[t] \in {"exit", "zombie"} => tpc'[t] \in {"exit", "zombie"},
           \A c \in Conn : told'[c] = told[c] \/ (Works(t) /\ c = own[t]),
           Stage(t)', EntryInv', OrderInv', Elems \subseteq Elems',
           \A e \in Elems' \ Elems : \/ e.cmd = "RECEIVE"
                                     \/ e.cmd = "THREAD_EXIT" /\ Left(e)'
    PROVE  SocketInv'
<1> USE DEF SocketInv
<1>1. /\ \A fd : (Offered(fd)' <=> Offered(fd)) /\ (Taken(fd)' <=> Taken(fd))
      /\ \A fd : (Handed(fd)' <=> Handed(fd)) /\ (Queued(fd)' <=> Queued(fd))
  BY DEF Offered, Taken, Handed, Queued
<1>2. \A fd : Pending(fd)' <=> Pending(fd)
  BY <1>1 DEF Pending
<1>3. \A u \in Thread : (Works(u)' <=> Works(u)) /\ (Works(u) => tfd'[u] = tfd[u] /\ own'[u] = own[u])
  OBVIOUS
<1>4. \A fd : Served(fd)' <=> Served(fd)
  BY <1>3 DEF Served
<1>5. \A fd \in FD : Pending(fd) => fdtab[fd] \in Conn /\ told'[fdtab[fd]] = told[fdtab[fd]]
  BY WorkingFacts DEF PartyInv, TypeInv, TypeOK
<1>6. Calm'
  BY DEF Calm
<1>7. KernelInv'
  BY WorkingFacts DEF KernelInv, TypeInv, TypeOK
<1>8. PartyInv'
  BY <1>1, <1>2, <1>3, <1>4, <1>5 DEF PartyInv
<1>9. MessageInv'
  BY DEF MessageInv
<1>10. StageInv'
  <2> SUFFICES ASSUME NEW u \in Thread, u # t PROVE Stage(u)'
    BY DEF StageInv
  <2>1. Works(u) => own[u] \in Conn /\ told'[own[u]] = told[own[u]]
    BY WorkingFacts
  <2> QED BY <2>1 DEF StageInv, Stage
<1>11. ExitInv'
  BY DEF ExitInv, JoinEnds, Left
<1> QED BY <1>6, <1>7, <1>8, <1>9, <1>10, <1>11

\* The message thread keeps clear of threads that have not posted THREAD_EXIT.
LEMMA NotLeft ==
    ASSUME TypeInv, SocketInv, NEW t \in Thread, tpc[t] \notin {"exit", "zombie"}
    PROVE  /\ \A e \in Elems : e.cmd = "THREAD_EXIT" => e.id # t
           /\ mpc = "join" => cur.id # t
BY DEF SocketInv, ExitInv, JoinEnds, Left

LEMMA EntryFrame ==
    ASSUME TypeInv, SocketInv, NEW t \in Thread, UNCHANGED <<mapClientThread, use>>,
           \A u \in Thread \ {t} : tpc'[u] = tpc[u] /\ tfd'[u] = tfd[u],
           \/ tpc'[t] \notin {"free", "start", "final", "exit", "zombie"} /\ tfd'[t] = tfd[t]
           \/ tpc[t] \in {"free", "start", "final", "exit", "zombie"}
           \/ ~use.cmp
    PROVE  EntryInv'
BY NamesAssumption DEF TypeInv, TypeOK, SocketInv, EntryInv, EntryAlive

LEMMA SocketClient ==
    ASSUME TypeInv, SocketInv, NEW t \in Thread, runCMPHandler(t), ~Start(t), ~CloseSocket(t)
    PROVE  SocketInv'
<1> USE DEF Goto, OnlyClient, OnlyTpc, kernel, boxes, handoff, clients, dispatcher, acceptor, app, Entering, AtEnd
<1>1. /\ UNCHANGED <<backlog, fdtab, lock, m_nClientFD, mpc, cur, apc, amsg, xpc, use>>
      /\ \A u \in Thread \ {t} : /\ tpc'[u] = tpc[u] /\ tfd'[u] = tfd[u]
                                 /\ own'[u] = own[u] /\ src'[u] = src[u]
  <2> USE DEF TypeInv, TypeOK
  <2>1. CASE SendStep(t)
    BY <2>1 DEF SendStep, SendConnect, SendReceive, SendDisconnect, SendThreadExit
  <2>2. CASE Register(t) \/ RecvCall(t) \/ RecvEnd(t) \/ Unregister(t) \/ Exit(t) \/ RecvPacket(t) \/ RecvInvalid(t)
    BY <2>2 DEF Register, RecvCall, RecvEnd, Unregister, Exit, RecvPacket, RecvInvalid, RecvReturns
  <2> QED BY <2>1, <2>2 DEF runCMPHandler, LocalStep
<1>2. UNCHANGED inbox => Elems' = Elems /\ OrderInv'
  BY DEF Elems, OrderInv, SocketInv
<1>3. Stage(t) /\ cancelled = {} /\ OrderInv /\ EntryInv /\ TypeOK
  BY DEF SocketInv, StageInv, Calm, TypeInv
<1>4. Works(t) => /\ tfd[t] \in FD /\ own[t] \in Conn /\ fdtab[tfd[t]] = own[t] /\ own[t] # None
                  /\ tpc[t] \in {"connect", "register", "recv", "blocked", "receive", "disconnect", "close"}
  BY WorkingFacts, NamesAssumption, <1>3 DEF TypeOK, ClientState
<1>5. CASE SendConnect(t)
  <2>1. /\ tpc[t] = "connect" /\ tpc' = [tpc EXCEPT ![t] = Entering] /\ UNCHANGED inbox
        /\ told' = [told EXCEPT ![own[t]] = "connected"] /\ UNCHANGED <<tfd, own, src, cancelled, mapClientThread>>
    BY <1>5 DEF SendConnect, PostOut
  <2>2. tpc'[t] \in {"register", "recv"} /\ (tpc'[t] = "register" => use.cmp) /\ told'[own[t]] = "connected"
    BY <1>3, <1>4, <2>1 DEF TypeOK
  <2>3. Stage(t)'
    BY <1>1, <1>3, <1>4, <2>1, <2>2 DEF Stage
  <2>4. EntryInv'
    BY <1>1, <2>1, <2>2, EntryFrame
  <2> QED BY <1>1, <1>2, <1>3, <1>4, <2>1, <2>2, <2>3, <2>4, ClientFrame DEF TypeOK
<1>6. CASE Register(t)
  <2>1. /\ tpc[t] = "register" /\ tpc'[t] = "recv" /\ UNCHANGED <<tfd, own, src, told, inbox, cancelled>>
        /\ mapClientThread' = [mapClientThread EXCEPT ![tfd[t]] = t]
    BY <1>3, <1>6 DEF Register, TypeOK
  <2>2. Stage(t)'
    BY <1>1, <1>3, <1>4, <2>1 DEF Stage
  <2>3. EntryInv'
    BY <1>1, <1>3, <1>4, <2>1 DEF EntryInv, EntryAlive, TypeOK, Stage
  <2> QED BY <1>1, <1>2, <1>3, <2>1, <2>2, <2>3, ClientFrame
<1>7. CASE RecvCall(t) \/ RecvPacket(t) \/ RecvEnd(t) \/ RecvInvalid(t)
  <2>1. /\ tpc[t] \in {"recv", "blocked"} /\ UNCHANGED <<tfd, own, told, inbox, cancelled, mapClientThread>>
        /\ \/ tpc'[t] = "blocked" /\ src'[t] = own[t]
           \/ tpc'[t] \in {"recv", "receive", AtEnd} /\ src'[t] = None
    <3>1. CASE RecvCall(t)
      BY <1>3, <1>4, <3>1 DEF RecvCall, TypeOK
    <3>2. CASE RecvPacket(t) \/ RecvEnd(t) \/ RecvInvalid(t)
      BY <1>3, <3>2 DEF RecvPacket, RecvEnd, RecvInvalid, RecvReturns, TypeOK
    <3> QED BY <1>7, <3>1, <3>2
  <2>2. Stage(t)'
    BY <1>1, <1>3, <1>4, <2>1 DEF Stage
  <2>3. EntryInv'
    BY <1>1, <2>1, EntryFrame
  <2> QED BY <1>1, <1>2, <1>3, <2>1, <2>2, <2>3, ClientFrame
<1>8. CASE SendReceive(t)
  <2>1. /\ tpc[t] = "receive" /\ tpc'[t] = "recv" /\ UNCHANGED <<tfd, own, src, told, cancelled, mapClientThread>>
        /\ UNCHANGED inbox \/ PostIn("RECEIVE", tfd[t], own[t])
    BY <1>3, <1>8 DEF SendReceive, PostOut, TypeOK
  <2>2. Stage(t)'
    BY <1>1, <1>3, <1>4, <2>1 DEF Stage
  <2>3. EntryInv'
    BY <1>1, <2>1, EntryFrame
  <2>4. Elems \subseteq Elems' /\ OrderInv' /\ \A e \in Elems' \ Elems : e.cmd = "RECEIVE"
    <3>1. CASE UNCHANGED inbox
      BY <1>2, <3>1
    <3>2. CASE PostIn("RECEIVE", tfd[t], own[t])
      <4>1. "RECEIVE" \notin {"ACCEPT", "THREAD_EXIT"}
        OBVIOUS
      <4>2. /\ Elems \subseteq Elems' /\ OrderInv'
            /\ \A e \in Elems' : e \in Elems \/ e = [cmd |-> "RECEIVE", id |-> tfd[t], conn |-> own[t]]
        BY <1>3, <3>2, <4>1, PostElems
      <4> QED BY <4>2
    <3> QED BY <2>1, <3>1, <3>2
  <2> QED BY <1>1, <1>3, <2>1, <2>2, <2>3, <2>4, ClientFrame
<1>9. CASE SendDisconnect(t)
  <2>1. /\ tpc[t] = "disconnect" /\ tpc'[t] = "close" /\ UNCHANGED inbox
        /\ told' = [told EXCEPT ![own[t]] = "disconnected"] /\ UNCHANGED <<tfd, own, src, cancelled, mapClientThread>>
    BY <1>3, <1>9 DEF SendDisconnect, PostOut, TypeOK
  <2>2. Stage(t)' /\ \A c \in Conn : told'[c] = told[c] \/ c = own[t]
    BY <1>1, <1>3, <1>4, <2>1 DEF Stage, TypeOK
  <2>3. EntryInv'
    BY <1>1, <2>1, EntryFrame
  <2> QED BY <1>1, <1>2, <1>3, <2>1, <2>2, <2>3, ClientFrame
<1>10. CASE Unregister(t)
  <2>1. /\ tpc[t] = "unregister" /\ tpc'[t] = "final" /\ UNCHANGED <<tfd, own, src, told, inbox, cancelled>>
        /\ mapClientThread' = [mapClientThread EXCEPT ![tfd[t]] = Absent]
    BY <1>3, <1>10 DEF Unregister, TypeOK
  <2>2. Stage(t)'
    BY <1>1, <1>3, <2>1 DEF Stage
  <2>3. EntryInv'
    BY <1>1, <1>3, <2>1, NamesAssumption DEF EntryInv, EntryAlive, TypeOK, Stage
  <2> QED BY <1>1, <1>2, <1>3, <2>1, <2>2, <2>3, ClientFrame
<1>11. CASE SendThreadExit(t)
  <2>1. /\ tpc[t] = "final" /\ tpc'[t] = "exit" /\ UNCHANGED <<tfd, own, src, told, cancelled, mapClientThread>>
        /\ PostIn("THREAD_EXIT", t, None)
    BY <1>3, <1>11 DEF SendThreadExit, TypeOK
  <2>2. Stage(t)'
    BY <1>1, <1>3, <2>1 DEF Stage
  <2>3. EntryInv'
    BY <1>1, <2>1, EntryFrame
  <2>4. (\A e \in Elems : e.cmd = "THREAD_EXIT" => e.id # t) /\ (mpc = "join" => cur.id # t)
    BY <2>1, NotLeft
  <2>5. /\ Elems \subseteq Elems' /\ OrderInv'
        /\ \A e \in Elems' : e \in Elems \/ e = [cmd |-> "THREAD_EXIT", id |-> t, conn |-> None]
    <3>1. PostIn("THREAD_EXIT", t, None) /\ TypeOK /\ OrderInv
      BY <1>3, <2>1
    <3>2. "THREAD_EXIT" \in {"ACCEPT", "THREAD_EXIT"} => \A e \in Elems : e.cmd = "THREAD_EXIT" => e.id # t
      BY <2>4
    <3> HIDE DEF boxes
    <3> QED BY ONLY <3>1, <3>2, PostElems
  <2>6. \A e \in Elems' \ Elems : e.cmd = "THREAD_EXIT" /\ Left(e)'
    BY <1>1, <2>1, <2>4, <2>5 DEF Left
  <2> QED BY <1>1, <1>3, <2>1, <2>2, <2>3, <2>5, <2>6, ClientFrame
<1>12. CASE Exit(t)
  <2>1. /\ tpc[t] = "exit" /\ tpc'[t] = "zombie" /\ UNCHANGED <<told, inbox, mapClientThread>>
        /\ src'[t] = None /\ cancelled' = {}
    BY <1>3, <1>12 DEF Exit, TypeOK
  <2>2. Stage(t)'
    BY <1>1, <1>3, <2>1 DEF Stage
  <2>3. EntryInv'
    BY <1>1, <2>1, EntryFrame
  <2> QED BY <1>1, <1>2, <1>3, <2>1, <2>2, <2>3, ClientFrame
<1> QED BY <1>5, <1>6, <1>7, <1>8, <1>9, <1>10, <1>11, <1>12 DEF runCMPHandler, SendStep, LocalStep

LEMMA SocketStart == ASSUME TypeInv, SocketInv, NEW t \in Thread, Start(t) PROVE SocketInv'
<1> DEFINE fd == m_nClientFD
<1> USE DEF SocketInv
<1>1. /\ tpc[t] = "start" /\ lock /\ fd \in FD /\ own[t] = fdtab[fd] /\ src[t] = None
      /\ \A u \in Thread : tpc[u] = "start" => u = t
  BY DEF Start, Goto, TypeInv, Locals, HandOff, StageInv, Stage
<1>2. /\ tpc' = [tpc EXCEPT ![t] = IF use.external THEN "connect" ELSE Entering]
      /\ tfd' = [tfd EXCEPT ![t] = fd] /\ lock' = FALSE
      /\ UNCHANGED <<backlog, fdtab, inbox, m_nClientFD, mapClientThread, own, src, cancelled,
                     mpc, cur, apc, amsg, xpc, use, told>>
  BY DEF Start, Goto, kernel, boxes, dispatcher, acceptor, app
<1>3. /\ tpc'[t] = (IF use.external THEN "connect" ELSE Entering) /\ tfd'[t] = fd
      /\ tpc'[t] \in {"connect", "register", "recv"}
      /\ \A u \in Thread \ {t} : tpc'[u] = tpc[u] /\ tfd'[u] = tfd[u]
  BY <1>2 DEF TypeInv, TypeOK, Entering
<1>4. Elems' = Elems /\ OrderInv'
  BY <1>2 DEF Elems, OrderInv
<1>5. Handed(fd) /\ Pending(fd) /\ fdtab[fd] # None /\ told[fdtab[fd]] = "nothing"
  BY <1>1 DEF Handed, Pending, PartyInv
<1>6. /\ \A g : (Offered(g)' <=> Offered(g)) /\ (Taken(g)' <=> Taken(g)) /\ (Queued(g)' <=> Queued(g))
      /\ \A g : ~Handed(g)' /\ (Handed(g) <=> g = fd)
  BY <1>1, <1>2, <1>4 DEF Offered, Taken, Queued, Handed
<1>7. \A g \in FD : Pending(g)' <=> Pending(g) /\ g # fd
  BY <1>1, <1>5, <1>6 DEF Pending, PartyInv
<1>8. \A g \in FD : Served(g)' <=> Served(g) \/ g = fd
  <2>1. Works(t)' /\ ~Works(t) /\ \A u \in Thread \ {t} : Works(u)' <=> Works(u)
    BY <1>1, <1>3
  <2> QED BY <1>3, <2>1 DEF Served
<1>9. Calm' /\ KernelInv' /\ MessageInv'
  BY <1>2, <1>4 DEF Calm, KernelInv, MessageInv
<1>10. PartyInv'
  <2>1. \A u \in Thread : Works(u) => tfd[u] # fd
    BY <1>1, <1>5 DEF PartyInv, Served
  <2>2. \A u, v \in Thread : Works(u)' /\ Works(v)' /\ tfd'[u] = tfd'[v] => u = v
    BY <1>1, <1>3, <2>1 DEF PartyInv
  <2> QED BY <1>2, <1>5, <1>6, <1>7, <1>8, <2>2 DEF PartyInv
<1>11. StageInv'
  <2>1. Stage(t)'
    BY <1>1, <1>2, <1>3, <1>5 DEF Stage, Entering
  <2>2. ASSUME NEW u \in Thread, u # t PROVE Stage(u)'
    BY <1>1, <1>2, <1>3, <2>2 DEF StageInv, Stage
  <2> QED BY <2>1, <2>2 DEF StageInv
<1>12. EntryInv'
  BY <1>1, <1>2, <1>3, EntryFrame
<1>13. ExitInv'
  BY <1>1, <1>2, <1>3, <1>4 DEF ExitInv, JoinEnds, Left
<1> QED BY <1>4, <1>9, <1>10, <1>11, <1>12, <1>13

LEMMA SocketClose == ASSUME TypeInv, SocketInv, NEW t \in Thread, CloseSocket(t) PROVE SocketInv'
<1> DEFINE fd == tfd[t]
<1> USE DEF SocketInv
<1>1. /\ tpc[t] = "close" /\ fd \in FD /\ fdtab[fd] = own[t] /\ own[t] # None /\ src[t] = None
      /\ ~Pending(fd) /\ Works(t) /\ \A g \in FD : fdtab[g] = own[t] => g = fd
  BY WorkingFacts, NamesAssumption DEF CloseSocket, Goto, StageInv, Stage
<1>2. /\ tpc' = [tpc EXCEPT ![t] = IF use.cmp THEN "unregister" ELSE "final"]
      /\ fdtab' = [fdtab EXCEPT ![fd] = None]
      /\ UNCHANGED <<backlog, inbox, lock, m_nClientFD, mapClientThread, tfd, own, src, cancelled,
                     mpc, cur, apc, amsg, xpc, use, told>>
  BY DEF CloseSocket, Goto, socketClose, boxes, handoff, dispatcher, acceptor, app
<1>3. /\ tpc'[t] = (IF use.cmp THEN "unregister" ELSE "final")
      /\ \A u \in Thread \ {t} : tpc'[u] = tpc[u]
      /\ fdtab'[fd] = None /\ \A g \in FD \ {fd} : fdtab'[g] = fdtab[g]
  BY <1>1, <1>2 DEF TypeInv, TypeOK
<1>4. Elems' = Elems /\ OrderInv'
  BY <1>2 DEF Elems, OrderInv
<1>5. /\ \A g : (Offered(g)' <=> Offered(g)) /\ (Taken(g)' <=> Taken(g)) /\ (Queued(g)' <=> Queued(g))
      /\ \A g : (Handed(g)' <=> Handed(g)) /\ (Pending(g)' <=> Pending(g))
  BY <1>2, <1>4 DEF Offered, Taken, Queued, Handed, Pending
<1>6. ~Works(t)' /\ \A u \in Thread \ {t} : Works(u)' <=> Works(u)
  BY <1>3
<1>7. \A u \in Thread : Works(u) /\ tfd[u] = fd => u = t
  BY <1>1 DEF PartyInv
<1>8. \A g \in FD : Served(g)' <=> Served(g) /\ g # fd
  BY <1>2, <1>6, <1>7 DEF Served
<1>9. Calm' /\ KernelInv'
  BY <1>1, <1>2, <1>3, NamesAssumption DEF Calm, KernelInv, TypeInv, TypeOK
<1>10. PartyInv'
  <2>1. \A u, v \in Thread : Works(u)' /\ Works(v)' /\ tfd'[u] = tfd'[v] => u = v
    BY <1>2, <1>6 DEF PartyInv
  <2> QED BY <1>1, <1>2, <1>3, <1>5, <1>8, <2>1 DEF PartyInv
<1>11. MessageInv'
  <2>1. apc = "send" => amsg.id \in FD /\ amsg.id # fd
    BY <1>1 DEF TypeInv, Locals, Msg, Pending, Offered
  <2>2. mpc = "lock" => cur.id \in FD /\ cur.id # fd
    BY <1>1 DEF TypeInv, Locals, Msg, Pending, Taken
  <2>3. \A e \in Elems : e.cmd = "ACCEPT" => e.id \in FD /\ e.id # fd
    BY <1>1, ElemsType DEF TypeInv, Pending, Queued
  <2> QED BY <1>2, <1>3, <1>4, <2>1, <2>2, <2>3 DEF MessageInv
<1>12. StageInv'
  <2>1. Stage(t)'
    BY <1>1, <1>2, <1>3 DEF Stage
  <2>2. ASSUME NEW u \in Thread, u # t PROVE Stage(u)'
    <3>1. tpc[u] = "start" => m_nClientFD \in FD /\ m_nClientFD # fd
      BY <1>1 DEF TypeInv, Locals, HandOff, Pending, Handed
    <3>2. Works(u) => tfd[u] \in FD /\ tfd[u] # fd
      BY <1>7, <2>2, WorkingFacts
    <3> QED BY <1>2, <1>3, <2>2, <3>1, <3>2 DEF StageInv, Stage
  <2> QED BY <2>1, <2>2 DEF StageInv
<1>13. EntryInv'
  BY <1>2, <1>3, EntryFrame
<1>14. ExitInv'
  BY <1>1, <1>2, <1>3, <1>4 DEF ExitInv, JoinEnds, Left
<1> QED BY <1>4, <1>9, <1>10, <1>11, <1>12, <1>13, <1>14

\* A step that leaves threads, descriptors and what was told alone keeps what
\* is said of threads and entries.
LEMMA ThreadFrame ==
    ASSUME TypeInv, SocketInv,
           UNCHANGED <<m_nClientFD, mapClientThread, clients, use, told>>,
           \A t \in Thread : Works(t) => fdtab'[tfd[t]] = fdtab[tfd[t]],
           m_nClientFD \in FD => fdtab'[m_nClientFD] = fdtab[m_nClientFD]
    PROVE  /\ StageInv' /\ EntryInv'
           /\ \A t \in Thread : Works(t)' <=> Works(t)
           /\ \A fd : Served(fd)' <=> Served(fd)
<1> USE DEF clients
<1>1. \A t \in Thread : tpc[t] = "start" => m_nClientFD \in FD
  BY DEF TypeInv, Locals, HandOff
<1>2. StageInv'
  BY <1>1 DEF SocketInv, StageInv, Stage
<1>3. EntryInv'
  BY DEF SocketInv, EntryInv, EntryAlive
<1> QED BY <1>2, <1>3 DEF Served

LEMMA SocketAccept ==
    ASSUME TypeInv, SocketInv, NEW c \in Conn, NEW fd \in FD, Accept(c, fd) PROVE SocketInv'
<1> USE DEF SocketInv
<1>1. apc = "accept" /\ c \in backlog /\ fdtab[fd] = None /\ c # None
  BY NamesAssumption DEF Accept
<1>2. /\ backlog' = backlog \ {c} /\ fdtab' = [fdtab EXCEPT ![fd] = c]
      /\ apc' = "send" /\ amsg' = [cmd |-> "ACCEPT", id |-> fd, conn |-> c]
      /\ UNCHANGED <<inbox, lock, m_nClientFD, mapClientThread, clients, mpc, cur, xpc, use, told>>
  BY DEF Accept, boxes, handoff, dispatcher, app
<1>3. fdtab'[fd] = c /\ \A g \in FD \ {fd} : fdtab'[g] = fdtab[g]
  BY <1>2 DEF TypeInv, TypeOK
<1>4. told[c] = "nothing" /\ \A g \in FD : fdtab[g] # c
  BY <1>1 DEF KernelInv
<1>5. ~Pending(fd) /\ ~Served(fd)
  BY <1>1 DEF PartyInv
<1>6. Elems' = Elems /\ OrderInv'
  BY <1>2 DEF Elems, OrderInv
<1>7. /\ \A g : (Taken(g)' <=> Taken(g)) /\ (Queued(g)' <=> Queued(g)) /\ (Handed(g)' <=> Handed(g))
      /\ \A g : (Offered(g)' <=> g = fd) /\ ~Offered(g)
  BY <1>1, <1>2, <1>6 DEF Offered, Taken, Queued, Handed
<1>8. \A g : Pending(g)' <=> Pending(g) \/ g = fd
  BY <1>7 DEF Pending
<1>9. /\ \A t \in Thread : Works(t) => tfd[t] \in FD /\ tfd[t] # fd
      /\ lock => m_nClientFD # fd
  BY <1>5, WorkingFacts DEF Served, Pending, Handed
<1>10. StageInv'
  <2> SUFFICES ASSUME NEW t \in Thread PROVE Stage(t)'
    BY DEF StageInv
  <2>1. tpc[t] = "start" => m_nClientFD \in FD /\ m_nClientFD # fd
    BY <1>9 DEF TypeInv, Locals, HandOff
  <2> QED BY <1>2, <1>3, <1>9, <2>1 DEF StageInv, Stage, clients
<1>11. EntryInv'
  BY <1>2 DEF EntryInv, EntryAlive, clients
<1>12. (\A t \in Thread : Works(t)' <=> Works(t)) /\ (\A g : Served(g)' <=> Served(g))
  BY <1>2 DEF Served, clients
<1>13. Calm' /\ ExitInv'
  BY <1>2, <1>6 DEF Calm, ExitInv, JoinEnds, Left, clients
<1>14. KernelInv'
  BY <1>1, <1>2, <1>3, <1>4 DEF KernelInv
<1>15. PartyInv'
  <2>1. \A t, u \in Thread : Works(t)' /\ Works(u)' /\ tfd'[t] = tfd'[u] => t = u
    BY <1>2 DEF PartyInv, clients
  <2> QED BY <1>1, <1>2, <1>3, <1>4, <1>5, <1>7, <1>8, <1>12, <2>1 DEF PartyInv, Pending
<1>16. MessageInv'
  <2>1. mpc = "lock" => cur.id \in FD /\ cur.id # fd
    BY <1>5 DEF TypeInv, Locals, Msg, Pending, Taken
  <2>2. \A e \in Elems : e.cmd = "ACCEPT" => e.id \in FD /\ e.id # fd
    BY <1>5, ElemsType DEF TypeInv, Pending, Queued
  <2> QED BY <1>2, <1>3, <1>6, <2>1, <2>2 DEF MessageInv
<1> QED BY <1>6, <1>10, <1>11, <1>13, <1>14, <1>15, <1>16

LEMMA SocketSendAccept == ASSUME TypeInv, SocketInv, SendAccept PROVE SocketInv'
<1> USE DEF SocketInv
<1>1. /\ apc = "send" /\ PostIn("ACCEPT", amsg.id, amsg.conn) /\ apc' # "send"
      /\ UNCHANGED <<backlog, fdtab, lock, m_nClientFD, mapClientThread, clients, mpc, cur, xpc, use, told>>
  BY DEF SendAccept, kernel, handoff, dispatcher, app
<1>2. amsg.id \in FD /\ amsg.conn = fdtab[amsg.id] /\ Offered(amsg.id) /\ ~Queued(amsg.id)
  BY <1>1 DEF TypeInv, Locals, Msg, MessageInv, Offered, PartyInv
<1>3. /\ Elems \subseteq Elems' /\ [cmd |-> "ACCEPT", id |-> amsg.id, conn |-> amsg.conn] \in Elems'
      /\ \A e \in Elems' : e \in Elems \/ e = [cmd |-> "ACCEPT", id |-> amsg.id, conn |-> amsg.conn]
      /\ OrderInv'
  <2>1. TypeOK /\ OrderInv /\ PostIn("ACCEPT", amsg.id, amsg.conn)
    BY <1>1 DEF TypeInv
  <2>2. "ACCEPT" \in {"ACCEPT", "THREAD_EXIT"} => \A e \in Elems : e.cmd = "ACCEPT" => e.id # amsg.id
    BY <1>2 DEF Queued
  <2> QED BY ONLY <2>1, <2>2, PostElems
<1>4. /\ \A g : (Taken(g)' <=> Taken(g)) /\ (Handed(g)' <=> Handed(g)) /\ ~Offered(g)'
      /\ \A g : (Queued(g)' <=> Queued(g) \/ g = amsg.id) /\ (Offered(g) <=> g = amsg.id)
  BY <1>1, <1>3 DEF Offered, Taken, Queued, Handed
<1>5. \A g : Pending(g)' <=> Pending(g)
  BY <1>4 DEF Pending
<1>6. /\ StageInv' /\ EntryInv' /\ (\A t \in Thread : Works(t)' <=> Works(t))
      /\ \A g : Served(g)' <=> Served(g)
  BY <1>1, ThreadFrame
<1>7. Calm' /\ KernelInv'
  BY <1>1 DEF Calm, KernelInv, clients
<1>8. PartyInv'
  <2>1. \A t, u \in Thread : Works(t)' /\ Works(u)' /\ tfd'[t] = tfd'[u] => t = u
    BY <1>1 DEF PartyInv, clients
  <2> QED BY <1>1, <1>2, <1>4, <1>5, <1>6, <2>1 DEF PartyInv
<1>9. MessageInv'
  BY <1>1, <1>2, <1>3 DEF MessageInv
<1>10. ExitInv'
  <2>1. \A e \in Elems' : e.cmd = "THREAD_EXIT" => e \in Elems
    BY <1>3
  <2> QED BY <1>1, <2>1 DEF ExitInv, JoinEnds, Left, clients
<1> QED BY <1>3, <1>6, <1>7, <1>8, <1>9, <1>10

LEMMA SocketHandleAccept == ASSUME TypeInv, SocketInv, HandleAccept PROVE SocketInv'
<1> DEFINE m == Head(inbox)
<1> USE DEF SocketInv
<1>1. /\ mpc = "wait" /\ mpc' = "lock" /\ cur' = m
      /\ UNCHANGED <<backlog, fdtab, lock, m_nClientFD, mapClientThread, clients, apc, amsg, xpc, use, told>>
  BY DEF HandleAccept, Take, kernel, handoff, acceptor, app
<1>2. /\ Elems' \subseteq Elems /\ m \in Elems /\ m.cmd = "ACCEPT"
      /\ \A e \in Elems : e = m \/ e \in Elems'
      /\ \A e \in Elems' : e.cmd = "ACCEPT" => e.id # m.id
      /\ OrderInv'
  BY TakeElems DEF HandleAccept, TypeInv
<1>3. m.id \in FD /\ m.conn = fdtab[m.id] /\ Queued(m.id)
  BY <1>2, ElemsType DEF TypeInv, MessageInv, Queued
<1>4. /\ \A g : (Offered(g)' <=> Offered(g)) /\ (Handed(g)' <=> Handed(g)) /\ ~Taken(g)
      /\ \A g : (Queued(g)' <=> Queued(g) /\ g # m.id) /\ (Taken(g)' <=> g = m.id)
  <2>1. \A g : Queued(g)' <=> Queued(g) /\ g # m.id
    BY <1>2 DEF Queued
  <2> QED BY <1>1, <2>1 DEF Offered, Handed, Taken
<1>5. \A g : Pending(g)' <=> Pending(g)
  BY <1>3, <1>4 DEF Pending
<1>6. /\ StageInv' /\ EntryInv' /\ (\A t \in Thread : Works(t)' <=> Works(t))
      /\ \A g : Served(g)' <=> Served(g)
  BY <1>1, ThreadFrame
<1>7. Calm' /\ KernelInv'
  BY <1>1 DEF Calm, KernelInv, clients
<1>8. PartyInv'
  <2>1. \A t, u \in Thread : Works(t)' /\ Works(u)' /\ tfd'[t] = tfd'[u] => t = u
    BY <1>1 DEF PartyInv, clients
  <2> QED BY <1>1, <1>3, <1>4, <1>5, <1>6, <2>1 DEF PartyInv
<1>9. MessageInv'
  BY <1>1, <1>2, <1>3 DEF MessageInv
<1>10. ExitInv'
  BY <1>1, <1>2 DEF ExitInv, JoinEnds, Left, clients
<1> QED BY <1>2, <1>6, <1>7, <1>8, <1>9, <1>10

\* The new thread is the only one that starts, and a free id.
LEMMA SocketHand == ASSUME TypeInv, SocketInv, Hand PROVE SocketInv'
<1> DEFINE fd == cur.id
<1> USE DEF SocketInv
<1>1. /\ mpc = "lock" /\ ~lock /\ lock' = TRUE /\ m_nClientFD' = fd /\ mpc' = "wait"
      /\ UNCHANGED <<backlog, fdtab, inbox, mapClientThread, tfd, src, cancelled, apc, amsg, xpc, use, told>>
  BY DEF Hand, kernel, boxes, acceptor, app
<1>2. fd \in FD /\ cur.conn = fdtab[fd] /\ Taken(fd)
  BY <1>1 DEF TypeInv, Locals, Msg, MessageInv, Taken
<1>3. \A t \in Thread : tpc[t] # "start"
  BY <1>1 DEF TypeInv, Locals, HandOff
<1>4. \A t \in Thread : \/ tpc'[t] = tpc[t] /\ own'[t] = own[t]
                        \/ tpc[t] = "free" /\ tpc'[t] = "start" /\ own'[t] = cur.conn
  <2>1. CASE UNCHANGED <<tpc, own>>
    BY <2>1
  <2>2. ASSUME NEW u \in Thread, tpc[u] = "free", tpc' = [tpc EXCEPT ![u] = "start"],
               own' = [own EXCEPT ![u] = cur.conn]
        PROVE  \A t \in Thread : \/ tpc'[t] = tpc[t] /\ own'[t] = own[t]
                                 \/ tpc[t] = "free" /\ tpc'[t] = "start" /\ own'[t] = cur.conn
    BY <2>2 DEF TypeInv, TypeOK
  <2> QED BY <2>1, <2>2 DEF Hand, createThread
<1>5. Elems' = Elems /\ OrderInv'
  BY <1>1 DEF Elems, OrderInv
<1>6. /\ \A g : (Offered(g)' <=> Offered(g)) /\ (Queued(g)' <=> Queued(g)) /\ ~Taken(g)' /\ ~Handed(g)
      /\ \A g : (Handed(g)' <=> g = fd) /\ (Taken(g) <=> g = fd)
  BY <1>1, <1>5 DEF Offered, Queued, Taken, Handed
<1>7. \A g : Pending(g)' <=> Pending(g)
  BY <1>6 DEF Pending
<1>8. \A t \in Thread : (Works(t)' <=> Works(t)) /\ (Works(t) => tpc'[t] = tpc[t] /\ own'[t] = own[t])
  BY <1>4
<1>9. \A g : Served(g)' <=> Served(g)
  BY <1>1, <1>8 DEF Served
<1>10. Calm' /\ KernelInv'
  BY <1>1 DEF Calm, KernelInv
<1>11. PartyInv'
  BY <1>1, <1>2, <1>6, <1>7, <1>8, <1>9 DEF PartyInv
<1>12. MessageInv'
  BY <1>1, <1>5 DEF MessageInv
<1>13. StageInv'
  <2> SUFFICES ASSUME NEW t \in Thread PROVE Stage(t)'
    BY DEF StageInv
  <2>1. CASE tpc'[t] = tpc[t] /\ own'[t] = own[t]
    BY <1>1, <1>3, <2>1 DEF StageInv, Stage
  <2>2. CASE tpc[t] = "free" /\ tpc'[t] = "start" /\ own'[t] = cur.conn
    BY <1>1, <1>2, <2>2 DEF StageInv, Stage
  <2> QED BY <1>4, <2>1, <2>2
<1>14. EntryInv'
  BY <1>1, <1>4, NamesAssumption DEF EntryInv, EntryAlive, TypeInv, TypeOK
<1>15. ExitInv'
  BY <1>1, <1>4, <1>5 DEF ExitInv, JoinEnds, Left
<1> QED BY <1>5, <1>10, <1>11, <1>12, <1>13, <1>14, <1>15

\* What a step keeps that only takes a message other than ACCEPT, or joins a
\* thread.
LEMMA TakeFrame ==
    ASSUME TypeInv, SocketInv,
           UNCHANGED <<backlog, fdtab, handoff, mapClientThread, tfd, own, src, cancelled, apc, amsg, xpc, use, told>>,
           mpc # "lock", mpc' # "lock", Elems' \subseteq Elems, OrderInv',
           \A e \in Elems : e.cmd = "ACCEPT" => e \in Elems',
           \A t \in Thread : tpc'[t] = tpc[t] \/ (tpc[t] \in {"exit", "zombie"} /\ tpc'[t] = "free"),
           ExitInv'
    PROVE  SocketInv'
<1> USE DEF SocketInv, handoff
<1>1. /\ \A g : (Offered(g)' <=> Offered(g)) /\ (Queued(g)' <=> Queued(g)) /\ (Taken(g)' <=> Taken(g))
      /\ \A g : (Handed(g)' <=> Handed(g))
  BY DEF Offered, Queued, Taken, Handed
<1>2. \A g : Pending(g)' <=> Pending(g)
  BY <1>1 DEF Pending
<1>3. \A t \in Thread : (Works(t)' <=> Works(t)) /\ (Works(t) => tpc'[t] = tpc[t])
  OBVIOUS
<1>4. \A g : Served(g)' <=> Served(g)
  BY <1>3 DEF Served
<1>5. Calm' /\ KernelInv' /\ MessageInv'
  BY DEF Calm, KernelInv, MessageInv
<1>6. PartyInv'
  BY <1>1, <1>2, <1>3, <1>4 DEF PartyInv
<1>7. StageInv'
  BY DEF StageInv, Stage
<1>8. EntryInv'
  BY NamesAssumption DEF EntryInv, EntryAlive, TypeInv, TypeOK
<1> QED BY <1>5, <1>6, <1>7, <1>8

LEMMA SocketDispatcher == ASSUME TypeInv, SocketInv, runMessageReceive PROVE SocketInv'
<1> USE DEF kernel, handoff, clients, dispatcher, acceptor, app
<1>1. CASE HandleReceive
  <2>1. mpc = "wait" /\ Take("RECEIVE") /\ TypeOK /\ OrderInv
    BY <1>1 DEF HandleReceive, Take, TypeInv, SocketInv
  <2>2. /\ Elems' \subseteq Elems /\ Head(inbox).cmd = "RECEIVE" /\ OrderInv'
        /\ \A e \in Elems : e = Head(inbox) \/ e \in Elems'
    BY <2>1, TakeElems
  <2>3. ExitInv'
    BY <1>1, <2>2 DEF HandleReceive, SocketInv, ExitInv, JoinEnds, Left
  <2> QED BY <1>1, <2>1, <2>2, <2>3, TakeFrame DEF HandleReceive
<1>2. CASE HandleThreadExit
  <2>1. mpc = "wait" /\ Take("THREAD_EXIT") /\ TypeOK /\ OrderInv /\ ExitInv
    BY <1>2 DEF HandleThreadExit, Take, TypeInv, SocketInv
  <2>2. /\ Elems' \subseteq Elems /\ Head(inbox) \in Elems /\ Head(inbox).cmd = "THREAD_EXIT" /\ OrderInv'
        /\ \A e \in Elems : e = Head(inbox) \/ e \in Elems'
        /\ \A e \in Elems' : e.cmd = "THREAD_EXIT" => e.id # Head(inbox).id
    BY <2>1, TakeElems
  <2>3. cur' = Head(inbox) /\ mpc' = "join" /\ UNCHANGED tpc
    BY <1>2 DEF HandleThreadExit
  <2>4. ExitInv'
    BY <2>1, <2>2, <2>3 DEF ExitInv, JoinEnds, Left
  <2> QED BY <1>2, <2>1, <2>2, <2>3, <2>4, TakeFrame DEF HandleThreadExit
<1>3. CASE Join
  <2>1. mpc = "join" /\ mpc' = "wait" /\ cur.id \in Thread /\ tpc[cur.id] \in {"exit", "zombie"}
        /\ \A e \in Elems : e.cmd = "THREAD_EXIT" => Left(e) /\ e.id # cur.id
    BY <1>3 DEF Join, SocketInv, ExitInv, JoinEnds, Left
  <2>2. tpc' = [tpc EXCEPT ![cur.id] = "free"]
    BY <1>3, <2>1, NamesAssumption DEF Join, threadJoin
  <2>3. tpc'[cur.id] = "free" /\ \A t \in Thread \ {cur.id} : tpc'[t] = tpc[t]
    BY <2>1, <2>2 DEF TypeInv, TypeOK
  <2>4. Elems' = Elems /\ OrderInv'
    BY <1>3 DEF Join, boxes, Elems, OrderInv, SocketInv
  <2>5. ExitInv'
    BY <2>1, <2>3, <2>4 DEF ExitInv, JoinEnds, Left
  <2> QED BY <1>3, <2>1, <2>3, <2>4, <2>5, TakeFrame DEF Join
<1> QED BY <1>1, <1>2, <1>3, SocketHandleAccept, SocketHand DEF runMessageReceive

LEMMA SocketPeers == ASSUME TypeInv, SocketInv, NEW c \in Conn, PeerConnect(c) \/ PeerHangup(c) PROVE SocketInv'
<1> USE DEF SocketInv
<1>1. /\ UNCHANGED <<fdtab, inbox, lock, m_nClientFD, mapClientThread, clients, mpc, cur, apc, amsg, xpc, use>>
      /\ \/ ~Mentioned(c) /\ backlog' = backlog \cup {c} /\ told' = [told EXCEPT ![c] = "nothing"]
         \/ UNCHANGED <<backlog, told>>
  BY DEF PeerConnect, PeerHangup, boxes, handoff, clients, dispatcher, acceptor, app
<1>2. /\ c \in backlog' /\ c \notin backlog => \A fd \in FD : fdtab[fd] # c
      /\ \A d \in Conn \ {c} : told'[d] = told[d]
      /\ told'[c] = told[c] \/ (told'[c] = "nothing" /\ \A fd \in FD : fdtab[fd] # c)
      /\ c \in backlog' => told'[c] = "nothing"
      /\ backlog' \subseteq backlog \cup {c}
  BY <1>1 DEF TypeInv, TypeOK, Mentioned, Held, KernelInv
<1>3. \A fd \in FD : fdtab[fd] \in Conn => told'[fdtab[fd]] = told[fdtab[fd]]
  BY <1>2
<1>4. Elems' = Elems /\ OrderInv'
  BY <1>1 DEF Elems, OrderInv
<1>5. /\ \A g : (Offered(g)' <=> Offered(g)) /\ (Taken(g)' <=> Taken(g)) /\ (Queued(g)' <=> Queued(g))
      /\ \A g : (Handed(g)' <=> Handed(g)) /\ (Pending(g)' <=> Pending(g)) /\ (Served(g)' <=> Served(g))
  BY <1>1, <1>4 DEF Offered, Taken, Queued, Handed, Pending, Served, clients
<1>6. Calm' /\ MessageInv' /\ EntryInv' /\ ExitInv'
  BY <1>1, <1>4 DEF Calm, MessageInv, EntryInv, EntryAlive, ExitInv, JoinEnds, Left, clients
<1>7. KernelInv'
  BY <1>1, <1>2 DEF KernelInv, TypeInv, TypeOK
<1>8. PartyInv'
  <2>1. \A fd \in FD : Pending(fd) => fdtab[fd] \in Conn
    BY DEF PartyInv, TypeInv, TypeOK
  <2> QED BY <1>1, <1>3, <1>5, <2>1 DEF PartyInv, clients
<1>9. StageInv'
  <2> SUFFICES ASSUME NEW t \in Thread PROVE Stage(t)'
    BY DEF StageInv
  <2>1. Works(t) => told'[own[t]] = told[own[t]]
    BY <1>3, WorkingFacts
  <2> QED BY <1>1, <2>1 DEF StageInv, Stage, clients
<1> QED BY <1>4, <1>6, <1>7, <1>8, <1>9

LEMMA SocketApplication ==
    ASSUME TypeInv, SocketInv, Undisturbed, Application PROVE SocketInv'
<1>1. AppTake /\ xpc = "wait" /\ xpc' = "wait"
  BY DEF SocketInv, Calm, Undisturbed, Application, AppTake, CloseClientFd, CloseClientFind, CloseClientErase,
         CloseClientCancel, CloseClientPost, Stop, StopCancel, StopJoin, StopEnd, AtApp
<1>2. UNCHANGED <<backlog, fdtab, inbox, lock, m_nClientFD, mapClientThread, clients, mpc, cur, apc, amsg, xpc, use, told>>
  BY <1>1 DEF AppTake, AtApp, OnlyApp, kernel, handoff, clients, dispatcher, acceptor
<1> QED BY <1>2 DEF SocketInv, Calm, KernelInv, PartyInv, MessageInv, StageInv, Stage, EntryInv, EntryAlive, ExitInv,
                    JoinEnds, Left, OrderInv, Elems, Offered, Queued, Taken, Handed, Pending, Served, clients

LEMMA SocketStep == TypeInv /\ (Undisturbed => SocketInv) /\ [Next]_vars => (Undisturbed => SocketInv)'
<1> SUFFICES ASSUME TypeInv, Undisturbed => SocketInv, [Next]_vars PROVE Undisturbed' => SocketInv'
  OBVIOUS
<1>1. UNCHANGED use
  BY DEF Next, vars, app, OnlyClient, OnlyTpc, OnlyApp, AtApp, RecvReturns,
         PeerConnect, PeerHangup, runSocketAccept, Accept, SendAccept,
         runCMPHandler, SendStep, LocalStep, SendConnect, SendReceive, SendDisconnect, SendThreadExit, Start, Register,
         RecvCall, RecvEnd, RecvPacket, RecvInvalid, CloseSocket, Unregister, Exit,
         runMessageReceive, HandleAccept, Hand, HandleReceive, HandleThreadExit, Join,
         Application, AppTake, CloseClientFd, CloseClientFind, CloseClientErase, CloseClientCancel, CloseClientPost,
         Stop, StopCancel, StopJoin, StopEnd
<1> SUFFICES ASSUME Undisturbed, SocketInv PROVE SocketInv'
  BY <1>1 DEF Undisturbed
<1>2. CASE UNCHANGED vars
  BY <1>2 DEF SocketInv, Calm, KernelInv, PartyInv, MessageInv, StageInv, Stage, EntryInv, EntryAlive, ExitInv,
              JoinEnds, Left, OrderInv, Elems, Offered, Queued, Taken, Handed, Pending, Served, clients,
              vars, kernel, boxes, handoff, dispatcher, acceptor, app
<1>3. CASE \E c \in Conn : PeerConnect(c) \/ PeerHangup(c)
  BY <1>3, SocketPeers
<1>4. CASE runSocketAccept
  BY <1>4, SocketAccept, SocketSendAccept DEF runSocketAccept
<1>5. CASE \E t \in Thread : runCMPHandler(t)
  BY <1>5, SocketClient, SocketStart, SocketClose
<1>6. CASE runMessageReceive
  BY <1>6, SocketDispatcher
<1>7. CASE Application
  BY <1>7, SocketApplication
<1> QED BY <1>2, <1>3, <1>4, <1>5, <1>6, <1>7 DEF Next

LEMMA SafeStep == Spec => [](TypeInv /\ (Undisturbed => SocketInv))
<1> DEFINE Safe == TypeInv /\ (Undisturbed => SocketInv)
<1>1. Init => Safe
  BY TypeInit, SocketInit
<1>2. Safe /\ [Next]_vars => Safe'
  BY TypeStep, SocketStep
<1> QED BY <1>1, <1>2, PTL DEF Spec

LEMMA Accounted == ASSUME TypeInv, SocketInv PROVE FdAccounted
<1> SUFFICES ASSUME NEW fd \in FD
             PROVE  IF fdtab[fd] = None THEN Holders(fd) = {} ELSE \E h \in Holders(fd) : Holders(fd) = {h}
  BY DEF FdAccounted
<1> DEFINE Queue(i) == i \in 1..Len(inbox) /\ inbox[i].cmd = "ACCEPT" /\ inbox[i].id = fd
           Client(t) == t \in Thread /\ Works(t) /\ tfd[t] = fd
<1>1. amsg.id = fd <=> Offered(fd)
  BY NamesAssumption DEF TypeInv, Locals, NoMsg, Offered
<1>2. \A h : h \in Holders(fd) <=>
        \/ h = <<"acceptor", 0>> /\ Offered(fd)
        \/ \E i : Queue(i) /\ h = <<"queued", i>>
        \/ h = <<"message thread", 0>> /\ Taken(fd)
        \/ h = <<"handed", 0>> /\ Handed(fd)
        \/ \E t : Client(t) /\ h = <<"client", t>>
  BY <1>1 DEF Holders, Taken, Handed
<1>3. /\ Queued(fd) <=> \E i : Queue(i)
      /\ Served(fd) <=> \E t : Client(t)
  BY DEF Queued, Elems, Served
<1>4. \A i, j : Queue(i) /\ Queue(j) => i = j
  BY DEF SocketInv, OrderInv
<1>5. \A t, u : Client(t) /\ Client(u) => t = u
  BY DEF SocketInv, PartyInv
<1> HIDE DEF Queue, Client
<1>6. fdtab[fd] # None <=> \E h : h \in Holders(fd)
  <2>1. fdtab[fd] # None <=> Offered(fd) \/ Queued(fd) \/ Taken(fd) \/ Handed(fd) \/ Served(fd)
    BY DEF SocketInv, PartyInv, Pending
  <2>2. Offered(fd) => <<"acceptor", 0>> \in Holders(fd)
    BY <1>2
  <2>3. Taken(fd) => <<"message thread", 0>> \in Holders(fd)
    BY <1>2
  <2>4. Handed(fd) => <<"handed", 0>> \in Holders(fd)
    BY <1>2
  <2>5. \A i : Queue(i) => <<"queued", i>> \in Holders(fd)
    BY <1>2
  <2>6. \A t : Client(t) => <<"client", t>> \in Holders(fd)
    BY <1>2
  <2>7. (\E h : h \in Holders(fd)) => Offered(fd) \/ Queued(fd) \/ Taken(fd) \/ Handed(fd) \/ Served(fd)
    BY <1>2, <1>3
  <2> QED BY <1>3, <2>1, <2>2, <2>3, <2>4, <2>5, <2>6, <2>7
<1>7. ASSUME NEW h \in Holders(fd), NEW g \in Holders(fd) PROVE h = g
  <2>1. /\ Offered(fd) => ~Queued(fd) /\ ~Taken(fd) /\ ~Handed(fd) /\ ~Served(fd)
        /\ Queued(fd) => ~Taken(fd) /\ ~Handed(fd) /\ ~Served(fd)
        /\ Taken(fd) => ~Handed(fd) /\ ~Served(fd)
        /\ Handed(fd) => ~Served(fd)
    BY DEF SocketInv, PartyInv, Pending
  <2>2. CASE Offered(fd)
    <3>1. (\A i : ~Queue(i)) /\ (\A t : ~Client(t)) /\ ~Taken(fd) /\ ~Handed(fd)
      BY <1>3, <2>1, <2>2
    <3>2. h = <<"acceptor", 0>>
      BY <1>2, <3>1
    <3>3. g = <<"acceptor", 0>>
      BY <1>2, <3>1
    <3> QED BY <3>2, <3>3
  <2>3. CASE Taken(fd)
    <3>1. (\A i : ~Queue(i)) /\ (\A t : ~Client(t)) /\ ~Offered(fd) /\ ~Handed(fd)
      BY <1>3, <2>1, <2>3
    <3>2. h = <<"message thread", 0>>
      BY <1>2, <3>1
    <3>3. g = <<"message thread", 0>>
      BY <1>2, <3>1
    <3> QED BY <3>2, <3>3
  <2>4. CASE Handed(fd)
    <3>1. (\A i : ~Queue(i)) /\ (\A t : ~Client(t)) /\ ~Offered(fd) /\ ~Taken(fd)
      BY <1>3, <2>1, <2>4
    <3>2. h = <<"handed", 0>>
      BY <1>2, <3>1
    <3>3. g = <<"handed", 0>>
      BY <1>2, <3>1
    <3> QED BY <3>2, <3>3
  <2>5. CASE Queued(fd)
    <3>1. (\A t : ~Client(t)) /\ ~Offered(fd) /\ ~Taken(fd) /\ ~Handed(fd)
      BY <1>3, <2>1, <2>5
    <3>2. PICK i : Queue(i) /\ h = <<"queued", i>>
      BY <1>2, <3>1
    <3>3. PICK j : Queue(j) /\ g = <<"queued", j>>
      BY <1>2, <3>1
    <3> QED BY <1>4, <3>2, <3>3
  <2>6. CASE Served(fd)
    <3>1. (\A i : ~Queue(i)) /\ ~Offered(fd) /\ ~Taken(fd) /\ ~Handed(fd)
      BY <1>3, <2>1, <2>6
    <3>2. PICK t : Client(t) /\ h = <<"client", t>>
      BY <1>2, <3>1
    <3>3. PICK u : Client(u) /\ g = <<"client", u>>
      BY <1>2, <3>1
    <3> QED BY <1>5, <3>2, <3>3
  <2> QED BY <1>2, <1>3, <1>7, <2>2, <2>3, <2>4, <2>5, <2>6
<1> QED BY <1>6, <1>7

\* Without closeClient and stop, no descriptor is lost, held by two or read by
\* the wrong thread, for any queue, any number of clients, and also when threads
\* cannot always be created (cmpHandler, dataHandler, runCMPHandler).
THEOREM DescriptorsAccounted == Spec => []DescriptorsKept
<1>1. TypeInv /\ (Undisturbed => SocketInv) => DescriptorsKept
  <2> SUFFICES ASSUME TypeInv, SocketInv PROVE FdAccounted /\ ReadsOwnStream
    BY DEF DescriptorsKept
  <2>1. ReadsOwnStream
    BY DEF SocketInv, StageInv, Stage, ReadsOwnStream
  <2> QED BY <2>1, Accounted
<1> QED BY <1>1, SafeStep, PTL

\* Under the same condition the message thread only joins threads that end by
\* themselves, and mapClientThread names no thread that may have been joined
\* (runMessageReceive, threadJoin).
THEOREM ThreadsAccounted == Spec => []ThreadsKept
<1>1. TypeInv /\ (Undisturbed => SocketInv) => ThreadsKept
  BY DEF ThreadsKept, SocketInv, ExitInv, EntryInv
<1> QED BY <1>1, SafeStep, PTL

-----------------------------------------------------------------------------
(* The socket server implements ConnectionService: what its steps are there. *)

LEMMA PhaseFrame == UNCHANGED <<backlog, fdtab>> => phase' = phase
BY DEF phase, Held

LEMMA PhaseIs ==
    ASSUME NEW c \in Conn
    PROVE  /\ phase[c] = "outside" <=> ~Held(c) /\ c \notin backlog
           /\ phase[c] = "backlog" <=> ~Held(c) /\ c \in backlog
           /\ phase[c] = "held" <=> Held(c)
BY DEF phase

LEMMA PhaseChange ==
    ASSUME NEW c \in Conn, NEW p,
           \A d \in Conn \ {c} : (Held(d)' <=> Held(d)) /\ (d \in backlog' <=> d \in backlog),
           phase'[c] = p
    PROVE  phase' = [phase EXCEPT ![c] = p]
BY DEF phase

LEMMA PeersServe ==
    ASSUME TypeInv, SocketInv, NEW c \in Conn, PeerConnect(c) \/ PeerHangup(c) PROVE Service!Next
<1>1. CASE PeerConnect(c)
  <2>1. /\ UNCHANGED fdtab /\ backlog' = backlog \cup {c} /\ hup' = hup \ {c}
        /\ told' = [told EXCEPT ![c] = "nothing"] /\ ~Held(c) /\ c \notin backlog
    BY <1>1 DEF PeerConnect, Mentioned
  <2>2. phase[c] = "outside" /\ phase'[c] = "backlog"
    BY <2>1 DEF phase, Held
  <2>3. phase' = [phase EXCEPT ![c] = "backlog"]
    BY <2>1, <2>2, PhaseChange DEF Held
  <2>4. Service!Arrive(c)
    BY <2>1, <2>2, <2>3 DEF Service!Arrive
  <2> QED BY <2>4 DEF Service!Next
<1>2. CASE PeerHangup(c)
  <2>1. UNCHANGED <<backlog, fdtab, told>> /\ hup' = hup \cup {c} /\ c \notin hup
    BY <1>2 DEF PeerHangup
  <2>2. Held(c) \/ c \in backlog
    <3>1. ASSUME NEW t \in Thread, src[t] = c PROVE Held(c)
      <4>1. Works(t) /\ own[t] = c
        BY <3>1, NamesAssumption DEF SocketInv, StageInv, Stage
      <4> QED BY <4>1, WorkingFacts DEF Held
    <3> QED BY <1>2, <3>1 DEF PeerHangup
  <2>3. phase' = phase /\ phase[c] # "outside"
    BY <2>1, <2>2, PhaseFrame, PhaseIs
  <2>4. Service!Hangup(c)
    BY <2>1, <2>3 DEF Service!Hangup
  <2> QED BY <2>4 DEF Service!Next
<1> QED BY <1>1, <1>2

LEMMA AcceptServes ==
    ASSUME TypeInv, SocketInv, NEW c \in Conn, NEW f \in FD, Accept(c, f) PROVE Service!Next
<1>1. /\ c \in backlog /\ backlog' = backlog \ {c} /\ fdtab[f] = None /\ UNCHANGED <<told, hup>>
      /\ fdtab'[f] = c /\ \A fd \in FD \ {f} : fdtab'[fd] = fdtab[fd]
  BY DEF Accept, TypeInv, TypeOK
<1>2. ~Held(c) /\ Held(c)' /\ \A d \in Conn \ {c} : Held(d)' <=> Held(d)
  BY <1>1, NamesAssumption DEF SocketInv, KernelInv, Held
<1>3. phase[c] = "backlog" /\ phase'[c] = "held"
  BY <1>1, <1>2 DEF phase
<1>4. phase' = [phase EXCEPT ![c] = "held"]
  BY <1>1, <1>2, <1>3, PhaseChange
<1>5. Service!TakeUp(c)
  BY <1>1, <1>3, <1>4 DEF Service!TakeUp
<1> QED BY <1>5 DEF Service!Next

LEMMA ClientServes ==
    ASSUME TypeInv, SocketInv, NEW t \in Thread, runCMPHandler(t)
    PROVE  Service!Next \/ UNCHANGED <<phase, told, hup>>
<1> DEFINE c == own[t]
<1>1. Stage(t)
  BY DEF SocketInv, StageInv
<1>2. Works(t) => /\ tfd[t] \in FD /\ c \in Conn /\ fdtab[tfd[t]] = c /\ c \notin backlog
                  /\ \A fd \in FD : fdtab[fd] = c => fd = tfd[t]
  BY WorkingFacts
<1>3. Works(t) => Held(c) /\ phase[c] = "held"
  BY <1>2, PhaseIs DEF Held
<1>4. CASE SendConnect(t)
  <2>1. /\ UNCHANGED <<backlog, fdtab, hup>> /\ told' = [told EXCEPT ![c] = "connected"]
        /\ tpc[t] = "connect"
    BY <1>4 DEF SendConnect, Goto, OnlyClient, kernel
  <2>2. Service!Announce(c) /\ c \in Conn
    BY <1>1, <1>2, <1>3, <2>1, PhaseFrame DEF Service!Announce, Stage
  <2> QED BY <2>2 DEF Service!Next
<1>5. CASE SendDisconnect(t)
  <2>1. /\ UNCHANGED <<backlog, fdtab, hup>> /\ told' = [told EXCEPT ![c] = "disconnected"]
        /\ tpc[t] = "disconnect"
    BY <1>5 DEF SendDisconnect, Goto, OnlyClient, kernel
  <2>2. Service!SayFarewell(c) /\ c \in Conn
    BY <1>1, <1>2, <1>3, <2>1, PhaseFrame DEF Service!SayFarewell, Stage
  <2> QED BY <2>2 DEF Service!Next
<1>6. CASE CloseSocket(t)
  <2>1. tpc[t] = "close" /\ UNCHANGED <<backlog, told, hup>> /\ fdtab' = [fdtab EXCEPT ![tfd[t]] = None]
    BY <1>6 DEF CloseSocket, Goto, socketClose
  <2>2. fdtab'[tfd[t]] = None /\ \A g \in FD \ {tfd[t]} : fdtab'[g] = fdtab[g]
    BY <1>2, <2>1 DEF TypeInv, TypeOK
  <2>3. told[c] # "connected" /\ phase[c] = "held" /\ c \in Conn
    BY <1>1, <1>2, <1>3, <2>1 DEF Stage
  <2> SUFFICES ASSUME NEW d \in Conn, d = c PROVE Service!Release(d)
    BY <2>3 DEF Service!Next
  <2>4. ~Held(d)' /\ \A e \in Conn \ {d} : Held(e)' <=> Held(e)
    BY <1>2, <2>1, <2>2, NamesAssumption DEF Held
  <2>5. phase'[d] = "outside"
    BY <1>2, <2>1, <2>4 DEF phase
  <2>6. phase' = [phase EXCEPT ![d] = "outside"]
    BY <2>1, <2>4, <2>5, PhaseChange
  <2> QED BY <2>1, <2>3, <2>6 DEF Service!Release
<1>7. CASE \/ Start(t) \/ Register(t) \/ RecvCall(t) \/ RecvEnd(t) \/ Unregister(t) \/ Exit(t)
           \/ SendReceive(t) \/ SendThreadExit(t) \/ RecvPacket(t) \/ RecvInvalid(t)
  <2>1. UNCHANGED <<backlog, fdtab, told, hup>>
    BY <1>7 DEF Start, Register, RecvCall, RecvEnd, Unregister, Exit, SendReceive, SendThreadExit, RecvPacket,
                RecvInvalid, RecvReturns, OnlyClient, kernel
  <2> QED BY <2>1, PhaseFrame
<1> QED BY <1>4, <1>5, <1>6, <1>7 DEF runCMPHandler, SendStep, LocalStep

\* Used without closeClient and stop, every step of a socket server is a step
\* of ConnectionService or none: it posts one CONNECT, then one DISCONNECT, if
\* it posts any, and only then lets the socket go.
THEOREM ServesConnections ==
    ASSUME \A u \in Uses : ~u.closes /\ ~u.stops PROVE Spec => Service!Spec
<1>1. Init => Service!Init
  BY NamesAssumption DEF Init, Service!Init, phase, Held
<1>2. TypeInv /\ (Undisturbed => SocketInv) /\ [Next]_vars => [Service!Next]_(Service!vars)
  <2> SUFFICES ASSUME TypeInv, SocketInv, [Next]_vars
               PROVE  Service!Next \/ UNCHANGED <<phase, told, hup>>
    BY DEF Service!vars, Undisturbed, TypeInv, TypeOK
  <2>1. CASE UNCHANGED <<backlog, fdtab, told, hup>>
    BY <2>1, PhaseFrame
  <2>2. SendAccept \/ runMessageReceive => UNCHANGED <<backlog, fdtab, told, hup>>
    BY DEF SendAccept, runMessageReceive, HandleAccept, Hand, HandleReceive, HandleThreadExit, Join, kernel
  <2>3. CASE Application
    <3>1. use \in Uses /\ ~use.closes /\ ~use.stops /\ xpc = "wait"
      BY DEF TypeInv, TypeOK, SocketInv, Calm
    <3>2. AppTake
      BY <2>3, <3>1 DEF Application, AppTake, CloseClientFd, CloseClientFind, CloseClientErase,
         CloseClientCancel, CloseClientPost, Stop, StopCancel, StopJoin, StopEnd, AtApp
    <3> QED BY <2>1, <3>2 DEF AppTake, OnlyApp, kernel
  <2>4. CASE UNCHANGED vars
    BY <2>1, <2>4 DEF vars, kernel
  <2> QED BY <2>1, <2>2, <2>3, <2>4, PeersServe, AcceptServes, ClientServes DEF Next, runSocketAccept
<1> QED BY <1>1, <1>2, SafeStep, PTL DEF Spec, Service!Spec
===============================================================================

------------------------- MODULE CSocketClient_proofs -------------------------
(***************************************************************************)
(* Theorems about CSocketClient for every value of its constants: its      *)
(* types, and that what start(), stop() and the threads share is never     *)
(* stale, although stop() reads mThreadId in two steps that race with the  *)
(* data thread's own end and both may post THREAD_EXIT for it.             *)
(***************************************************************************)
EXTENDS CSocketClient, TLAPS

USE DEF ReaderState, RunnerState, AppState, Session

InMsg  == [cmd : {"THREAD_EXIT", "RECEIVE"}, id : Session \cup {0}]
OutMsg == [cmd : {"RECEIVE", "DISCONNECT"}, conn : Session]

-----------------------------------------------------------------------------
(* Types                                                                   *)

LEMMA PostInType ==
    ASSUME TypeOK, NEW cmd \in {"THREAD_EXIT", "RECEIVE"}, NEW id \in Session \cup {0}, PostIn(cmd, id)
    PROVE  /\ inbox' \in Seq(InMsg) /\ Len(inbox') + Len(outbox') <= QueueCap
           /\ UNCHANGED <<msqid, outbox>>
<1>1. [cmd |-> cmd, id |-> id] \in InMsg
  BY DEF InMsg
<1>2. inbox \in Seq(InMsg) /\ Len(inbox) + Len(outbox) <= QueueCap /\ outbox \in Seq(OutMsg)
  BY DEF TypeOK, InMsg, OutMsg
<1>3. CASE msqid
  <2>1. Room /\ inbox' = Append(inbox, [cmd |-> cmd, id |-> id]) /\ UNCHANGED <<msqid, outbox>>
    BY <1>3 DEF PostIn
  <2> QED BY <1>1, <1>2, <2>1, BoundsAssumption DEF Room
<1>4. CASE ~msqid
  BY <1>2, <1>4 DEF PostIn
<1> QED BY <1>3, <1>4

LEMMA PostOutType ==
    ASSUME TypeOK, NEW cmd \in {"RECEIVE", "DISCONNECT"}, NEW s \in Session, PostOut(cmd, s)
    PROVE  /\ outbox' \in Seq(OutMsg) /\ Len(inbox') + Len(outbox') <= QueueCap
           /\ UNCHANGED <<msqid, inbox>>
<1>1. [cmd |-> cmd, conn |-> s] \in OutMsg
  BY DEF OutMsg
<1>2. inbox \in Seq(InMsg) /\ Len(inbox) + Len(outbox) <= QueueCap /\ outbox \in Seq(OutMsg)
  BY DEF TypeOK, InMsg, OutMsg
<1>3. CASE msqid
  <2>1. Room /\ outbox' = Append(outbox, [cmd |-> cmd, conn |-> s]) /\ UNCHANGED <<msqid, inbox>>
    BY <1>3 DEF PostOut
  <2> QED BY <1>1, <1>2, <2>1, BoundsAssumption DEF Room
<1>4. CASE ~msqid
  BY <1>2, <1>4 DEF PostOut
<1> QED BY <1>3, <1>4

LEMMA HeadType ==
    ASSUME TypeOK, inbox # <<>>, inbox' = Tail(inbox), UNCHANGED outbox
    PROVE  /\ inbox' \in Seq(InMsg) /\ Len(inbox') + Len(outbox') <= QueueCap
           /\ Head(inbox) \in InMsg
<1>1. inbox \in Seq(InMsg) /\ Len(inbox) + Len(outbox) <= QueueCap /\ outbox \in Seq(OutMsg)
  BY DEF TypeOK, InMsg, OutMsg
<1>2. Head(inbox) \in InMsg /\ inbox' \in Seq(InMsg) /\ Len(inbox') = Len(inbox) - 1 /\ Len(inbox) \in Nat
      /\ Len(outbox) \in Nat
  BY <1>1
<1> QED BY <1>1, <1>2, BoundsAssumption

LEMMA TypeInit == Init => TypeOK
<1> SUFFICES ASSUME Init PROVE TypeOK
  OBVIOUS
<1>1. inbox \in Seq(InMsg) /\ outbox \in Seq(OutMsg) /\ Len(inbox) + Len(outbox) <= QueueCap
  BY BoundsAssumption DEF Init
<1> QED BY <1>1 DEF Init, TypeOK, InMsg, OutMsg

LEMMA SessionIs == last < use.starts /\ TypeOK => last + 1 \in Session
BY AppsAssumption, BoundsAssumption DEF TypeOK, Use

LEMMA TypeStart == ASSUME TypeOK, start PROVE TypeOK'
<1> USE DEF TypeOK, boxes, handoff, readers, runners, OnlyApp, AtApp
<1>1. ASSUME NEW fd \in FD, CreateSocket(fd) PROVE TypeOK'
  <2>1. last' = last + 1 /\ last' \in Session
    BY <1>1, SessionIs DEF CreateSocket
  <2> HIDE DEF Session
  <2> QED BY <1>1, <2>1 DEF CreateSocket
<1>2. CASE Dial
  BY <1>2 DEF Dial
<1>3. CASE DialFails
  BY <1>3 DEF DialFails, socketClose
<1>4. CASE initMessage
  BY <1>4 DEF initMessage
<1>5. CASE Reap
  BY <1>5 DEF Reap, threadCancel, Runner
<1>6. CASE ReapJoin
  BY <1>6 DEF ReapJoin
<1>7. CASE SpawnRunner
  BY <1>7 DEF SpawnRunner, Created
<1>8. CASE Hand
  BY <1>8 DEF Hand, Created, kernel
<1> QED BY <1>1, <1>2, <1>3, <1>4, <1>5, <1>6, <1>7, <1>8 DEF start

LEMMA TypeStop == ASSUME TypeOK, stop PROVE TypeOK'
<1> USE DEF TypeOK, boxes, handoff, readers, runners, OnlyApp, AtApp, kernel
<1>1. CASE Stop \/ StopTest
  BY <1>1 DEF Stop, StopTest, socketClose
<1>2. CASE StopRead
  BY <1>2 DEF StopRead
<1>3. CASE StopCancel
  BY <1>3 DEF StopCancel, threadCancel, Reader
<1>4. CASE StopPost
  <2>1. inbox' \in Seq(InMsg) /\ Len(inbox') + Len(outbox') <= QueueCap /\ UNCHANGED <<msqid, outbox>>
    BY <1>4, PostInType DEF StopPost
  <2> QED BY <1>4, <2>1 DEF StopPost, InMsg
<1> QED BY <1>1, <1>2, <1>3, <1>4 DEF stop

LEMMA TypeReader == ASSUME TypeOK, NEW s \in Session, runDataHandler(s) PROVE TypeOK'
<1> USE DEF TypeOK, boxes, runners, app, OnlyReader, OnlyRecv, Goto
<1>1. CASE Start(s) \/ Register(s) \/ Clear(s)
  <2>1. CASE Start(s)
    BY ZenonT(60), <2>1 DEF Start
  <2>2. CASE Register(s)
    BY ZenonT(60), <2>2 DEF Register
  <2>3. CASE Clear(s)
    BY ZenonT(60), <2>3 DEF Clear
  <2> QED BY <1>1, <2>1, <2>2, <2>3
<1>2. CASE RecvCall(s)
  BY <1>2 DEF RecvCall, Behind, AtEnd
<1>3. CASE RecvPacket(s) \/ RecvEnd(s) \/ RecvInvalid(s)
  <2>1. PICK to \in {"receive", "recv", "disconnect", "close"} : tpc' = [tpc EXCEPT ![s] = to]
    BY <1>3 DEF RecvPacket, RecvEnd, RecvInvalid, AtEnd
  <2>2. RecvReturns(s)
    BY <1>3 DEF RecvPacket, RecvEnd, RecvInvalid
  <2> QED BY <2>1, <2>2 DEF RecvReturns
<1>4. CASE SendReceive(s) \/ SendDisconnect(s) \/ SendThreadExit(s)
  <2>1. \/ PostIn("RECEIVE", s) \/ PostIn("THREAD_EXIT", s)
        \/ PostOut("RECEIVE", s) \/ PostOut("DISCONNECT", s)
    BY <1>4 DEF SendReceive, SendDisconnect, SendThreadExit
  <2>2. /\ inbox' \in Seq(InMsg) /\ outbox' \in Seq(OutMsg) /\ Len(inbox') + Len(outbox') <= QueueCap
        /\ UNCHANGED msqid
    <3>1. CASE PostIn("RECEIVE", s) \/ PostIn("THREAD_EXIT", s)
      BY <3>1, PostInType DEF OutMsg
    <3>2. CASE PostOut("RECEIVE", s) \/ PostOut("DISCONNECT", s)
      BY <3>2, PostOutType DEF InMsg
    <3> QED BY <2>1, <3>1, <3>2
  <2> QED BY ZenonT(60), <1>4, <2>2 DEF SendReceive, SendDisconnect, SendThreadExit, InMsg, OutMsg
<1>5. CASE CloseSocket(s)
  BY <1>5 DEF CloseSocket
<1>6. CASE Exit(s)
  BY <1>6 DEF Exit, kernel, handoff
<1> QED BY <1>1, <1>2, <1>3, <1>4, <1>5, <1>6 DEF runDataHandler

LEMMA TypeRunner == ASSUME TypeOK, NEW s \in Session, runMessageReceive(s) PROVE TypeOK'
<1> USE DEF TypeOK, kernel, handoff, app, OnlyRunner, Run
<1>1. CASE RunnerStart(s)
  BY <1>1 DEF RunnerStart
<1>2. CASE HandleThreadExit(s) \/ HandleReceive(s)
  <2>1. /\ inbox' \in Seq(InMsg) /\ Len(inbox') + Len(outbox') <= QueueCap /\ Head(inbox).id \in Session \cup {0}
    BY <1>2, HeadType DEF HandleThreadExit, HandleReceive, Take, InMsg
  <2>2. mpc' \in [Session -> RunnerState]
    BY <1>2 DEF HandleThreadExit, HandleReceive, Take
  <2>3. cur' \in [Session -> Session \cup {0}]
    <3>1. \/ cur' = cur
          \/ \E id \in Session \cup {0} : cur' = [cur EXCEPT ![s] = id]
      BY <1>2, <2>1 DEF HandleThreadExit, HandleReceive
    <3> QED BY ONLY <3>1, cur \in [Session -> Session \cup {0}], s \in Session
  <2>4. UNCHANGED <<kernel, m_nSocketFD, msqid, outbox, handoff, mThreadId, tfd, src, cancelled, app, tpc, munRunThreadId>>
    BY <1>2 DEF HandleThreadExit, HandleReceive, Take
  <2> HIDE DEF Session, RunnerState, ReaderState, AppState
  <2> QED BY ONLY TypeOK, <2>1, <2>2, <2>3, <2>4 DEF TypeOK, kernel, handoff, app, InMsg
<1>3. CASE Join(s)
  <2>1. /\ mpc' \in [Session -> RunnerState] /\ cur' \in [Session -> Session \cup {0}]
    BY <1>3 DEF Join
  <2>2. tpc' \in [Session -> ReaderState]
    <3>1. tpc' = tpc \/ tpc' = [tpc EXCEPT ![cur[s]] = "joined"]
      BY <1>3 DEF Join
    <3>2. \A t : [tpc EXCEPT ![t] = "joined"] \in [Session -> ReaderState]
      BY ONLY tpc \in [Session -> ReaderState] DEF ReaderState
    <3> QED BY <3>1, <3>2
  <2>3. UNCHANGED <<kernel, m_nSocketFD, msqid, outbox, handoff, mThreadId, tfd, src, cancelled, app, inbox, munRunThreadId>>
    BY <1>3 DEF Join
  <2> HIDE DEF Session, RunnerState, ReaderState, AppState
  <2> QED BY ONLY TypeOK, <2>1, <2>2, <2>3 DEF TypeOK, kernel, handoff, app
<1>4. CASE RunnerEnd(s)
  BY <1>4 DEF RunnerEnd, boxes, readers
<1> QED BY <1>1, <1>2, <1>3, <1>4 DEF runMessageReceive

LEMMA TypeOthers == ASSUME TypeOK, AppTake \/ \E s \in Session : ServerHangup(s) PROVE TypeOK'
<1> USE DEF TypeOK, kernel, boxes, handoff, readers, runners, app
<1>1. CASE AppTake
  <2>1. outbox' \in Seq(OutMsg) /\ Len(inbox') + Len(outbox') <= QueueCap
    <3>1. inbox \in Seq(InMsg) /\ Len(inbox) + Len(outbox) <= QueueCap /\ outbox \in Seq(OutMsg) /\ outbox # <<>>
      BY <1>1 DEF AppTake, InMsg, OutMsg
    <3>2. outbox' \in Seq(OutMsg) /\ Len(outbox') = Len(outbox) - 1 /\ Len(outbox) \in Nat /\ Len(inbox) \in Nat
      BY <1>1, <3>1 DEF AppTake
    <3> QED BY <1>1, <3>1, <3>2, BoundsAssumption DEF AppTake
  <2> QED BY <1>1, <2>1 DEF AppTake, OutMsg
<1>2. CASE \E s \in Session : ServerHangup(s)
  <2>1. hup' \subseteq Session
    BY <1>2 DEF ServerHangup
  <2>2. UNCHANGED <<fdtab, m_nSocketFD, boxes, handoff, mThreadId, readers, runners, cancelled, app>>
    BY <1>2 DEF ServerHangup
  <2> HIDE DEF Session, RunnerState, ReaderState, AppState
  <2> QED BY ONLY TypeOK, <2>1, <2>2 DEF TypeOK, boxes, handoff, readers, runners, app
<1> QED BY <1>1, <1>2

LEMMA TypeStep == TypeOK /\ [Next]_vars => TypeOK'
<1> SUFFICES ASSUME TypeOK, [Next]_vars PROVE TypeOK'
  OBVIOUS
<1>1. CASE UNCHANGED vars
  BY <1>1 DEF TypeOK, vars, kernel, boxes, handoff, readers, runners, app
<1> QED BY <1>1, TypeStart, TypeStop, TypeReader, TypeRunner, TypeOthers DEF Next

\* Every variable keeps its type and the queue its size, however often the
\* application starts and stops the client and whatever fails on the way.
THEOREM TypeCorrect == Spec => []TypeOK
<1> QED BY TypeInit, TypeStep, PTL DEF Spec

-----------------------------------------------------------------------------
(* What start(), stop() and the threads share.  A data thread is marked once *)
(* somebody is about to end or join it; from then on mThreadId does not name *)
(* it, and it cannot name itself again.                                      *)

Elems == {inbox[i] : i \in 1..Len(inbox)}

Fresh == {"none", "start", "register"}
Ended == {"final", "exit", "zombie", "joined"}

Marked(s) ==
    \/ Reader(s) \in cancelled
    \/ pid = s
    \/ \E e \in Elems : e.cmd = "THREAD_EXIT" /\ e.id = s
    \/ \E r \in Session : cur[r] = s
    \/ tpc[s] \in Ended

LockInv ==
    \A s \in Session : tpc[s] = "start" => lock /\ \A t \in Session : tpc[t] = "start" => t = s

\* The application is in stop(), or has no socket.
Down == {"idle", "halt", "read", "cancel", "post", "stopped"}

SocketInv ==
    /\ \A fd \in FD : fdtab[fd] # 0 => m_nSocketFD = fd
    /\ xpc \in Down => m_nSocketFD = None

\* start() has not created its data thread yet.
Before == {"dial", "queue", "reap", "reapjoin", "spawn", "hand"}

NamedInv ==
    /\ \A s \in Session :
         /\ Marked(s) => tpc[s] \notin Fresh /\ mThreadId # s
         /\ mThreadId = s => tpc[s] \notin Fresh
         /\ s > last => tpc[s] = "none"
    /\ xpc \in Before => last \in Session /\ tpc[last] = "none"

RunnerInv == munRunThreadId # 0 => mpc[munRunThreadId] # "joined"

SharedInv == LockInv /\ SocketInv /\ NamedInv /\ RunnerInv

LEMMA PostElems ==
    ASSUME TypeOK, NEW cmd, NEW id, PostIn(cmd, id)
    PROVE  \A e \in Elems' : e \in Elems \/ e = [cmd |-> cmd, id |-> id]
<1>1. CASE msqid
  <2>1. /\ Len(inbox) \in Nat /\ Len(inbox') = Len(inbox) + 1
        /\ \A i \in 1..Len(inbox) : inbox'[i] = inbox[i]
        /\ inbox'[Len(inbox) + 1] = [cmd |-> cmd, id |-> id]
    <3>1. inbox \in Seq(InMsg) /\ inbox' = Append(inbox, [cmd |-> cmd, id |-> id])
      BY <1>1 DEF TypeOK, InMsg, PostIn
    <3> QED BY <3>1
  <2> QED BY <2>1 DEF Elems
<1>2. CASE ~msqid
  BY <1>2 DEF PostIn, Elems
<1> QED BY <1>1, <1>2 DEF TypeOK

LEMMA TakeElems ==
    ASSUME TypeOK, inbox # <<>>, inbox' = Tail(inbox)
    PROVE  Head(inbox) \in Elems /\ Elems' \subseteq Elems
<1>1. /\ Len(inbox) \in Nat \ {0} /\ Len(inbox') = Len(inbox) - 1 /\ Head(inbox) = inbox[1]
      /\ \A i \in 1..Len(inbox') : i + 1 \in 1..Len(inbox) /\ inbox'[i] = inbox[i + 1]
  BY DEF TypeOK
<1> QED BY <1>1 DEF Elems

LEMMA SharedInit == Init => SharedInv
<1> SUFFICES ASSUME Init PROVE SharedInv
  OBVIOUS
<1>1. Elems = {}
  BY DEF Init, Elems
<1>2. \A s \in Session : ~Marked(s) /\ mThreadId # s
  BY <1>1, BoundsAssumption DEF Init, Marked, Ended
<1>3. NamedInv
  BY <1>2 DEF Init, NamedInv, Before
<1> QED BY <1>3 DEF Init, SharedInv, LockInv, SocketInv, RunnerInv

\* Nobody gets marked who was not, nobody becomes fresh, nobody is named.
LEMMA NamedFrame ==
    ASSUME TypeOK, NamedInv,
           \A s \in Session : Marked(s)' => Marked(s) \/ (tpc'[s] \notin Fresh /\ mThreadId' # s),
           \A s \in Session : /\ tpc'[s] \in Fresh => tpc[s] \in Fresh
                              /\ tpc[s] = "none" => tpc'[s] = "none",
           mThreadId' = mThreadId \/ mThreadId' = 0,
           last' = last, xpc' \in Before => xpc \in Before
    PROVE  NamedInv'
<1>1. \A s \in Session : s # 0
  BY BoundsAssumption
<1> HIDE DEF Session
<1>2. ASSUME NEW s \in Session
      PROVE  /\ Marked(s)' => tpc'[s] \notin Fresh /\ mThreadId' # s
             /\ mThreadId' = s => tpc'[s] \notin Fresh
             /\ s > last => tpc'[s] = "none"
  BY <1>1 DEF NamedInv
<1>3. xpc' \in Before => last \in Session /\ tpc'[last] = "none"
  BY DEF NamedInv
<1> QED BY <1>2, <1>3 DEF NamedInv

LEMMA SharedStart == ASSUME TypeOK, SharedInv, start PROVE SharedInv'
<1> USE DEF SharedInv, boxes, handoff, readers, runners, OnlyApp, AtApp
<1>1. ASSUME NEW fd \in FD, CreateSocket(fd) PROVE SharedInv'
  <2>1. last' = last + 1 /\ last' \in Session /\ last' > last /\ last \in Nat
    BY <1>1, SessionIs DEF CreateSocket, TypeOK
  <2>2. m_nSocketFD = None /\ \A f \in FD : fdtab[f] = 0
    BY <1>1, NoneAssumption DEF CreateSocket, SocketInv, Down
  <2>3. SocketInv'
    BY <1>1, <2>2 DEF CreateSocket, SocketInv, Down, TypeOK
  <2>4. UNCHANGED <<inbox, cur, cancelled, pid, tpc, mThreadId, lock, mpc, munRunThreadId>> /\ xpc' = "dial"
    BY <1>1 DEF CreateSocket
  <2>5. \A s \in Session : Marked(s)' <=> Marked(s)
    BY <2>4 DEF Marked, Elems
  <2>6. \A s \in Session : s > last' => s > last
    BY <2>1
  <2>7. NamedInv'
    BY <2>1, <2>4, <2>5, <2>6 DEF NamedInv
  <2> QED BY <2>3, <2>4, <2>7 DEF LockInv, RunnerInv
<1>2. CASE Hand
  <2>1. /\ xpc = "hand" /\ xpc' = "up" /\ ~lock /\ lock' = TRUE
        /\ UNCHANGED <<fdtab, m_nSocketFD, inbox, cur, cancelled, pid, mThreadId, last, mpc, munRunThreadId>>
    BY <1>2 DEF Hand, kernel
  <2>2. last \in Session /\ tpc[last] = "none" /\ ~Marked(last) /\ mThreadId # last
    BY <2>1 DEF NamedInv, Before, Fresh
  <2>3. tpc'[last] \in {"start", "none"} /\ \A s \in Session \ {last} : tpc'[s] = tpc[s]
    BY <1>2, <2>2 DEF Hand, Created, TypeOK
  <2>4. \A s \in Session : Marked(s)' <=> Marked(s)
    BY <2>1, <2>2, <2>3 DEF Marked, Elems, Ended
  <2>5. LockInv'
    BY <2>1, <2>3 DEF LockInv
  <2>6. NamedInv'
    <3>1. \A s \in Session : s > last => s # last
      BY DEF TypeOK
    <3> HIDE DEF Session
    <3> QED BY <2>1, <2>2, <2>3, <2>4, <3>1 DEF NamedInv, Before, Fresh
  <2> QED BY <2>1, <2>5, <2>6 DEF SocketInv, RunnerInv, Down
<1>3. CASE Dial \/ DialFails \/ initMessage \/ Reap \/ ReapJoin \/ SpawnRunner
  <2>1. UNCHANGED <<inbox, cur, pid, tpc, mThreadId, lock, last>> /\ xpc \in Before
    BY <1>3 DEF Dial, DialFails, initMessage, Reap, ReapJoin, SpawnRunner, Before
  <2>2. \A s \in Session : Reader(s) \in cancelled' => Reader(s) \in cancelled
    <3>1. \A s, t : Reader(s) # Runner(t)
      BY DEF Reader, Runner
    <3> QED BY <1>3, <3>1 DEF Dial, DialFails, initMessage, Reap, ReapJoin, SpawnRunner, threadCancel
  <2>3. \A s \in Session : Marked(s)' => Marked(s)
    BY <2>1, <2>2 DEF Marked, Elems
  <2>4. NamedInv'
    BY <2>1, <2>3, NamedFrame
  <2>5. SocketInv'
    BY <1>3 DEF Dial, DialFails, socketClose, initMessage, Reap, ReapJoin, SpawnRunner, SocketInv, Down
  <2>6. RunnerInv'
    <3>1. CASE Dial \/ DialFails \/ initMessage \/ Reap
      BY <3>1 DEF Dial, DialFails, initMessage, Reap, RunnerInv
    <3>2. CASE ReapJoin
      BY <3>2 DEF ReapJoin, RunnerInv
    <3>3. CASE SpawnRunner
      <4>1. \A s \in Session : mpc[s] # "joined" => mpc'[s] # "joined"
        BY <3>3 DEF SpawnRunner, Created, TypeOK
      <4>2. munRunThreadId' = munRunThreadId /\ munRunThreadId \in Session \cup {0}
        BY <3>3 DEF SpawnRunner, TypeOK
      <4> QED BY <4>1, <4>2 DEF RunnerInv
    <3> QED BY <1>3, <3>1, <3>2, <3>3
  <2> QED BY <2>1, <2>4, <2>5, <2>6 DEF LockInv
<1> QED BY <1>1, <1>2, <1>3 DEF start

LEMMA SharedStop == ASSUME TypeOK, SharedInv, stop PROVE SharedInv'
<1> USE DEF SharedInv, boxes, handoff, readers, runners, OnlyApp, AtApp
<1>1. /\ UNCHANGED <<tpc, lock, last, mpc, munRunThreadId, cur>> /\ xpc' \notin Before /\ xpc' \in Down
      /\ xpc \in Down \cup {"up"}
  BY DEF stop, Stop, StopTest, StopRead, StopCancel, StopPost, Before, Down
<1>2. SocketInv'
  BY DEF stop, Stop, StopTest, StopRead, StopCancel, StopPost, socketClose, kernel, SocketInv, Down
<1>3. LockInv' /\ RunnerInv'
  BY <1>1 DEF LockInv, RunnerInv
<1>4. \A s \in Session : s # 0
  BY BoundsAssumption
<1>5. CASE Stop \/ StopTest
  <2>1. UNCHANGED <<inbox, cancelled, pid, mThreadId>>
    BY <1>5 DEF Stop, StopTest
  <2>2. \A s \in Session : Marked(s)' => Marked(s)
    BY <1>1, <2>1 DEF Marked, Elems
  <2> QED BY <1>1, <1>2, <1>3, <2>1, <2>2, NamedFrame
<1>6. CASE StopRead
  <2>1. UNCHANGED <<inbox, cancelled>> /\ pid' = mThreadId /\ mThreadId' = 0
    BY <1>6 DEF StopRead
  <2>2. \A s \in Session : Marked(s)' => Marked(s) \/ s = mThreadId
    BY <1>1, <2>1 DEF Marked, Elems
  <2>3. \A s \in Session : Marked(s)' => Marked(s) \/ (tpc'[s] \notin Fresh /\ mThreadId' # s)
    BY <1>1, <1>4, <2>1, <2>2 DEF NamedInv
  <2> QED BY <1>1, <1>2, <1>3, <2>1, <2>3, NamedFrame
<1>7. CASE StopCancel
  <2>1. UNCHANGED <<inbox, pid, mThreadId>>
        /\ cancelled' \subseteq cancelled \cup (IF pid = 0 THEN {} ELSE {Reader(pid)})
    BY <1>7 DEF StopCancel, threadCancel
  <2>2. \A s \in Session : Reader(s) \in cancelled' => Reader(s) \in cancelled \/ pid = s
    BY <2>1 DEF Reader
  <2>3. \A s \in Session : Marked(s)' => Marked(s)
    BY <1>1, <2>1, <2>2 DEF Marked, Elems
  <2> QED BY <1>1, <1>2, <1>3, <2>1, <2>3, NamedFrame
<1>8. CASE StopPost
  <2>1. PostIn("THREAD_EXIT", pid) /\ pid' = 0 /\ UNCHANGED <<cancelled, mThreadId>>
    BY <1>8 DEF StopPost
  <2>2. \A e \in Elems' : e \in Elems \/ e = [cmd |-> "THREAD_EXIT", id |-> pid]
    BY <2>1, PostElems
  <2>3. \A s \in Session : Marked(s)' => Marked(s)
    BY <1>1, <1>4, <2>1, <2>2 DEF Marked
  <2> QED BY <1>1, <1>2, <1>3, <2>1, <2>3, NamedFrame
<1> QED BY <1>5, <1>6, <1>7, <1>8 DEF stop

LEMMA SharedReader == ASSUME TypeOK, SharedInv, NEW s \in Session, runDataHandler(s) PROVE SharedInv'
<1> USE DEF SharedInv, boxes, handoff, readers, runners, app, OnlyReader, OnlyRecv, Goto
<1>1. /\ UNCHANGED <<m_nSocketFD, mpc, munRunThreadId, cur, pid, last, xpc>>
      /\ \A t \in Session \ {s} : tpc'[t] = tpc[t]
      /\ \A t \in Session \ {s} : Reader(t) \in cancelled' <=> Reader(t) \in cancelled
      /\ Reader(s) \in cancelled' => Reader(s) \in cancelled
  <2> USE DEF TypeOK, Reader
  <2>1. CASE Start(s) \/ Register(s) \/ RecvCall(s) \/ CloseSocket(s) \/ Clear(s) \/ Exit(s)
    BY <2>1 DEF Start, Register, RecvCall, CloseSocket, Clear, Exit
  <2>2. CASE \/ RecvPacket(s) \/ RecvEnd(s) \/ RecvInvalid(s)
             \/ SendReceive(s) \/ SendDisconnect(s) \/ SendThreadExit(s)
    BY <2>2 DEF RecvPacket, RecvEnd, RecvInvalid, RecvReturns, SendReceive, SendDisconnect, SendThreadExit
  <2> QED BY <2>1, <2>2 DEF runDataHandler
<1>2. SocketInv'
  <2>1. UNCHANGED fdtab \/ \A fd \in FD : fdtab'[fd] # 0 => fdtab[fd] # 0
    BY DEF runDataHandler, Start, Register, RecvCall, CloseSocket, Clear, Exit,
           RecvPacket, RecvEnd, RecvInvalid, RecvReturns, SendReceive, SendDisconnect, SendThreadExit, kernel
  <2> QED BY <1>1, <2>1 DEF SocketInv
<1>3. RunnerInv'
  BY <1>1 DEF RunnerInv
<1>4. ASSUME tpc[s] \notin Fresh, UNCHANGED lock, tpc'[s] \notin Fresh,
             mThreadId' = mThreadId \/ mThreadId' = 0,
             tpc'[s] \in Ended => tpc[s] \in Ended \/ mThreadId' # s,
             \A e \in Elems' : e.cmd = "THREAD_EXIT" => e \in Elems \/ (e.id = s /\ tpc[s] \in Ended)
      PROVE  SharedInv'
  <2>1. LockInv'
    BY <1>1, <1>4 DEF LockInv, Fresh
  <2>2. \A t \in Session \ {s} : Marked(t)' => Marked(t)
    BY <1>1, <1>4 DEF Marked
  <2>3. Marked(s)' => Marked(s) \/ mThreadId' # s
    BY <1>1, <1>4 DEF Marked
  <2>4. NamedInv'
    BY <1>1, <1>4, <2>2, <2>3, NamedFrame DEF Fresh
  <2> QED BY <1>2, <1>3, <2>1, <2>4
<1>5. UNCHANGED inbox => Elems' = Elems
  BY DEF Elems
<1>6. CASE Start(s)
  <2>1. tpc[s] = "start" /\ tpc'[s] = "register" /\ lock' = FALSE /\ UNCHANGED <<inbox, mThreadId>>
    BY <1>6 DEF Start, TypeOK
  <2>2. LockInv'
    BY <1>1, <2>1 DEF LockInv
  <2>3. \A t \in Session : Marked(t)' => Marked(t)
    BY <1>1, <1>5, <2>1 DEF Marked, Ended
  <2>4. NamedInv'
    BY <1>1, <2>1, <2>3, NamedFrame DEF Fresh
  <2> QED BY <1>2, <1>3, <2>2, <2>4
<1>7. CASE Register(s)
  <2>1. tpc[s] = "register" /\ tpc'[s] = "recv" /\ mThreadId' = s /\ UNCHANGED <<inbox, lock>>
    BY <1>7 DEF Register, TypeOK
  <2>2. LockInv'
    BY <1>1, <2>1 DEF LockInv
  <2>3. ~Marked(s)
    BY <2>1 DEF NamedInv, Fresh
  <2>4. \A t \in Session : Marked(t)' => Marked(t) /\ t # s
    BY <1>1, <1>5, <2>1, <2>3 DEF Marked, Ended
  <2>5. NamedInv'
    BY <1>1, <2>1, <2>4 DEF NamedInv, Fresh
  <2> QED BY <1>2, <1>3, <2>2, <2>5
<1>8. CASE RecvCall(s) \/ RecvPacket(s) \/ RecvEnd(s) \/ RecvInvalid(s)
  <2>1. /\ tpc[s] \in {"recv", "blocked"} /\ tpc'[s] \in {"recv", "blocked", "receive", "disconnect", "close"}
        /\ UNCHANGED <<inbox, lock, mThreadId>>
    BY <1>8 DEF RecvCall, RecvPacket, RecvEnd, RecvInvalid, RecvReturns, AtEnd, TypeOK
  <2> QED BY <1>4, <1>5, <2>1 DEF Fresh, Ended
<1>9. CASE SendReceive(s) \/ SendDisconnect(s) \/ CloseSocket(s)
  <2>1. /\ tpc[s] \in {"receive", "disconnect", "close"} /\ tpc'[s] \in {"recv", "close", "clear"}
        /\ UNCHANGED <<lock, mThreadId>>
        /\ UNCHANGED inbox \/ PostIn("RECEIVE", s)
    BY <1>9 DEF SendReceive, SendDisconnect, CloseSocket, PostOut, TypeOK
  <2>2. \A e \in Elems' : e.cmd = "THREAD_EXIT" => e \in Elems
    <3>1. CASE UNCHANGED inbox
      BY <1>5, <3>1
    <3>2. CASE PostIn("RECEIVE", s)
      <4>1. \A e \in Elems' : e \in Elems \/ e = [cmd |-> "RECEIVE", id |-> s]
        BY <3>2, PostElems
      <4> QED BY <4>1
    <3> QED BY <2>1, <3>1, <3>2
  <2> QED BY <1>4, <2>1, <2>2 DEF Fresh, Ended
<1>10. CASE Clear(s)
  <2>1. /\ tpc[s] = "clear" /\ tpc'[s] = "final" /\ UNCHANGED <<lock, inbox>> /\ mThreadId' = 0 /\ s # 0
    BY <1>10, BoundsAssumption DEF Clear, TypeOK
  <2> QED BY <1>4, <1>5, <2>1 DEF Fresh
<1>11. CASE SendThreadExit(s)
  <2>1. /\ tpc[s] = "final" /\ tpc'[s] = "exit" /\ UNCHANGED <<lock, mThreadId>> /\ PostIn("THREAD_EXIT", s)
    BY <1>11 DEF SendThreadExit, TypeOK
  <2>2. \A e \in Elems' : e \in Elems \/ e = [cmd |-> "THREAD_EXIT", id |-> s]
    BY <2>1, PostElems
  <2>3. \A e \in Elems' : e \in Elems \/ e.id = s
    BY <2>2
  <2> QED BY <1>4, <2>1, <2>3 DEF Fresh, Ended
<1>12. CASE Exit(s)
  <2>1. /\ tpc[s] \in Ended \/ Reader(s) \in cancelled
        /\ tpc[s] \notin Fresh /\ tpc'[s] = "zombie" /\ UNCHANGED <<lock, inbox, mThreadId>>
    BY <1>12 DEF Exit, TypeOK, CancelPoint, Ended, Fresh
  <2>2. mThreadId # s
    BY <2>1 DEF NamedInv, Marked
  <2> QED BY <1>4, <1>5, <2>1, <2>2 DEF Fresh
<1> QED BY <1>6, <1>7, <1>8, <1>9, <1>10, <1>11, <1>12 DEF runDataHandler

LEMMA SharedRunner == ASSUME TypeOK, SharedInv, NEW r \in Session, runMessageReceive(r) PROVE SharedInv'
<1> USE DEF SharedInv, boxes, handoff, readers, app, kernel, OnlyRunner, Run
<1>1. /\ UNCHANGED <<fdtab, m_nSocketFD, lock, mThreadId, pid, last, xpc>>
      /\ \A s \in Session : tpc'[s] = tpc[s] \/ (tpc'[s] = "joined" /\ s = cur[r] /\ tpc[s] \in {"zombie", "joined"})
      /\ \A s \in Session : Reader(s) \in cancelled' => Reader(s) \in cancelled
  BY DEF runMessageReceive, RunnerStart, HandleThreadExit, HandleReceive, Take, Join, RunnerEnd, TypeOK
<1>2. \A s \in Session :
        /\ (\E e \in Elems' : e.cmd = "THREAD_EXIT" /\ e.id = s) => (\E e \in Elems : e.cmd = "THREAD_EXIT" /\ e.id = s)
        /\ (\E q \in Session : cur'[q] = s) => \/ \E q \in Session : cur[q] = s
                                               \/ \E e \in Elems : e.cmd = "THREAD_EXIT" /\ e.id = s
  <2>0. \A s \in Session : s # 0
    BY BoundsAssumption
  <2>1. CASE RunnerStart(r)
    BY <2>1 DEF RunnerStart, Elems
  <2>2. CASE HandleThreadExit(r)
    <3>1. Head(inbox) \in Elems /\ Head(inbox).cmd = "THREAD_EXIT" /\ Elems' \subseteq Elems
      BY <2>2, TakeElems DEF HandleThreadExit, Take
    <3>2. \A q \in Session : cur'[q] = cur[q] \/ cur'[q] = Head(inbox).id
      BY <2>2 DEF HandleThreadExit, TypeOK
    <3> QED BY <3>1, <3>2
  <2>3. CASE HandleReceive(r)
    BY <2>3, TakeElems DEF HandleReceive, Take
  <2>4. CASE Join(r) \/ RunnerEnd(r)
    <3>1. Elems' = Elems /\ \A q \in Session : cur'[q] = cur[q] \/ cur'[q] = 0
      <4>1. UNCHANGED inbox /\ cur' = [cur EXCEPT ![r] = 0]
        BY <2>4 DEF Join, RunnerEnd
      <4> QED BY <4>1 DEF Elems, TypeOK
    <3> QED BY <2>0, <3>1
  <2> QED BY <2>1, <2>2, <2>3, <2>4 DEF runMessageReceive
<1>3. \A s \in Session : Marked(s)' => Marked(s)
  BY <1>1, <1>2 DEF Marked, Ended
<1>4. NamedInv'
  BY <1>1, <1>3, NamedFrame DEF Fresh
<1>5. LockInv' /\ SocketInv'
  BY <1>1 DEF LockInv, SocketInv
<1>6. RunnerInv'
  <2>1. PICK to \in {"wait", "exit", "join", "zombie"} : mpc' = [mpc EXCEPT ![r] = to]
    BY DEF runMessageReceive, RunnerStart, HandleThreadExit, HandleReceive, Take, Join, RunnerEnd
  <2>2. UNCHANGED munRunThreadId \/ munRunThreadId' = r
    BY DEF runMessageReceive, RunnerStart, HandleThreadExit, HandleReceive, Take, Join, RunnerEnd
  <2>3. \A s \in Session : mpc'[s] = mpc[s] \/ mpc'[s] # "joined"
    BY <2>1 DEF TypeOK
  <2>4. mpc'[r] # "joined"
    BY <2>1 DEF TypeOK
  <2>5. munRunThreadId \in Session \cup {0}
    BY DEF TypeOK
  <2> QED BY <2>2, <2>3, <2>4, <2>5 DEF RunnerInv
<1> QED BY <1>4, <1>5, <1>6

LEMMA SharedStep == TypeOK /\ SharedInv /\ [Next]_vars => SharedInv'
<1> SUFFICES ASSUME TypeOK, SharedInv, [Next]_vars PROVE SharedInv'
  OBVIOUS
<1>1. CASE UNCHANGED vars \/ AppTake \/ \E s \in Session : ServerHangup(s)
  <2>1. UNCHANGED <<fdtab, m_nSocketFD, inbox, handoff, mThreadId, readers, runners, cancelled, app>>
    BY <1>1 DEF AppTake, ServerHangup, vars, kernel, boxes
  <2> QED BY <2>1 DEF SharedInv, LockInv, SocketInv, NamedInv, RunnerInv, Marked, Elems, handoff, readers, runners, app
<1> QED BY <1>1, SharedStart, SharedStop, SharedReader, SharedRunner DEF Next

\* Whatever the application does and whatever fails, the lock is held until the
\* data thread has its descriptor, every open socket is m_nSocketFD, and neither
\* mThreadId nor munRunThreadId names a thread that was joined (start, stop,
\* runDataHandler, onReceiveMessage).
THEOREM StateShared == Spec => []SharedState
<1>1. TypeOK /\ SharedInv => SharedState
  BY DEF SharedInv, LockInv, SocketInv, NamedInv, RunnerInv, SharedState, Marked, Ended, TypeOK
<1>2. Spec => [](TypeOK /\ SharedInv)
  BY TypeInit, TypeStep, SharedInit, SharedStep, PTL DEF Spec
<1> QED BY <1>1, <1>2, PTL

=============================================================================

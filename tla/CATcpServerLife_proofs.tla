------------------------ MODULE CATcpServerLife_proofs ------------------------
(***************************************************************************)
(* Theorems about CATcpServerLife for every value of its constants: its    *)
(* types, and that stop() leaves no more message threads behind than there *)
(* were stop()s before a message thread had stored its id, and no client   *)
(* when there was none.                                                    *)
(***************************************************************************)
EXTENDS CATcpServerLife, FiniteSetTheorems, TLAPS

USE DEF AccepterState, RunnerState, ReceiverState, AppState

-----------------------------------------------------------------------------
(* Types                                                                   *)

FdMsg   == [cmd : {"ACCEPT", "DISCONNECT"}, id : FD, conn : Conn]
ExitMsg == [cmd : {"THREAD_EXIT"}, id : Conn, conn : Conn]

\* What the places of the threads say of their variables; a queue is there from
\* the first start() on.
Locals ==
    /\ \A s \in Session : apc[s] = "send" => afd[s] \in FD /\ acn[s] \in Conn
    /\ \A c \in Conn : rpc[c] \in {"recv", "disconnect"} => rfd[c] \in FD
    /\ msqid = 0 => xpc = "idle" /\ \A s \in Session : mpc[s] = "none"
    /\ xpc # "idle" => last # 0
    /\ \A s \in Session :
         /\ mpc[s] = "wait" => mq[s] \in Session
         /\ mpc[s] \in {"assign", "enter", "close", "erase"} => cur[s] \in FdMsg
         /\ mpc[s] = "join" => cur[s] \in Msg
         /\ mpc[s] = "find" => cur[s] \in ExitMsg

TypeInv == TypeOK /\ Locals

LEMMA Constants ==
    /\ MaxStarts \in Nat \ {0} /\ MaxConns \in Nat \ {0} /\ QueueCap \in Nat \ {0}
    /\ Session = (0..MaxStarts) \ {0} /\ Conn = (0..MaxConns) \ {0}
    /\ 0 \notin Session /\ 0 \notin Conn /\ 1 \in Session
BY BoundsAssumption DEF Session, Conn

LEMMA TypeInit == Init => TypeInv
<1> SUFFICES ASSUME Init PROVE TypeInv
  OBVIOUS
<1>1. box \in [Session -> Seq(Msg)] /\ \A q \in Session : Len(box[q]) <= QueueCap
  BY Constants DEF Init
<1>2. TypeOK
  BY <1>1, Constants DEF Init, TypeOK
<1>3. Locals
  BY DEF Init, Locals
<1> QED BY <1>2, <1>3 DEF TypeInv

LEMMA PostType ==
    ASSUME TypeOK, NEW cmd, NEW id, NEW c, [cmd |-> cmd, id |-> id, conn |-> c] \in Msg, Post(cmd, id, c)
    PROVE  box' \in [Session -> Seq(Msg)] /\ \A q \in Session : Len(box'[q]) <= QueueCap
<1>1. box \in [Session -> Seq(Msg)] /\ \A q \in Session : Len(box[q]) <= QueueCap
  BY DEF TypeOK
<1>2. CASE UNCHANGED box
  BY <1>1, <1>2
<1>3. CASE /\ msqid # 0 /\ Len(box[msqid]) < QueueCap
           /\ box' = [box EXCEPT ![msqid] = Append(@, [cmd |-> cmd, id |-> id, conn |-> c])]
  <2>1. msqid \in Session
    BY <1>3, Constants DEF TypeOK
  <2>2. box[msqid] \in Seq(Msg)
    BY <1>1, <2>1
  <2>3. /\ Append(box[msqid], [cmd |-> cmd, id |-> id, conn |-> c]) \in Seq(Msg)
        /\ Len(Append(box[msqid], [cmd |-> cmd, id |-> id, conn |-> c])) <= QueueCap
    BY <1>3, <2>2, Constants
  <2> QED BY <1>1, <1>3, <2>1, <2>3
<1> QED BY <1>2, <1>3 DEF Post

LEMMA TypeStart == ASSUME TypeInv, start, UNCHANGED extKey PROVE TypeInv'
<1> USE DEF TypeInv, OnlyApp, OnlyCalls, AtApp, kernel, queues, receivers
<1>1. ASSUME NEW fails \in BOOLEAN, Begin(fails) PROVE TypeInv'
  <2>1. /\ last' \in Session /\ last' # 0 /\ msqid' \in Session /\ msqid' # 0 /\ removed' \subseteq Session
        /\ xpc' \in {"idle", "create"}
        /\ UNCHANGED <<m_nSocketFD, box, apc, mpc, munRunThreadId, cancelled, kernel, mapClient, afd, acn, mq, cur,
                       receivers, visited, xfd, xid, missed>>
    BY <1>1, Constants DEF Begin, TypeOK
  <2>2. TypeOK'
    BY <2>1, Constants DEF TypeOK
  <2> QED BY <2>1, <2>2 DEF Locals
<1>2. CASE createSocket \/ Bind \/ BindFails
  <2>1. /\ m_nSocketFD' \in 0..MaxStarts /\ xpc' \in {"bind", "spawn", "idle"}
        /\ xpc # "idle"
        /\ UNCHANGED <<kernel, queues, apc, mpc, munRunThreadId, cancelled, last, mapClient, afd, acn, mq, cur,
                       receivers, visited, xfd, xid, missed>>
    <3>1. m_nSocketFD \in 0..MaxStarts /\ last \in 0..MaxStarts /\ 0 \in 0..MaxStarts
      BY Constants DEF TypeOK
    <3> QED BY <1>2, <3>1 DEF createSocket, Bind, BindFails
  <2>2. TypeOK'
    BY <2>1 DEF TypeOK
  <2> QED BY <2>1, <2>2 DEF Locals
<1>3. CASE Spawn
  <2>1. TypeOK'
    BY <1>3 DEF Spawn, TypeOK
  <2>2. Locals'
    BY <1>3 DEF Spawn, TypeOK, Locals
  <2> QED BY <2>1, <2>2
<1> QED BY <1>1, <1>2, <1>3 DEF start

LEMMA TypeStop == ASSUME TypeInv, Stop \/ stop, UNCHANGED extKey PROVE TypeInv'
<1> USE DEF TypeInv, OnlyApp, OnlyCalls, AtApp, kernel, queues, receivers
<1>1. CASE Stop \/ Halt \/ HaltCall
  <2>1. /\ m_nSocketFD' \in 0..MaxStarts /\ xpc' \in {"halt", "sweep", "call", "join"} /\ xpc # "idle"
        /\ cancelled' \subseteq Session /\ xid' \in 0..MaxStarts /\ missed' \subseteq Session
        /\ UNCHANGED <<kernel, queues, apc, mpc, munRunThreadId, last, mapClient, afd, acn, mq, cur,
                       receivers, visited, xfd>>
    <3>1. CASE Stop
      BY <3>1, Constants DEF Stop, TypeOK
    <3>2. CASE Halt
      <4>1. {munRunThreadId} \ {0} \subseteq Session
        BY Constants DEF TypeOK
      <4>2. last \in Session
        BY <3>2, Constants DEF Halt, Locals, TypeOK
      <4> QED BY <3>2, <4>1, <4>2, Constants DEF Halt, TypeOK
    <3>3. CASE HaltCall
      BY <3>3 DEF HaltCall, TypeOK
    <3> QED BY <1>1, <3>1, <3>2, <3>3
  <2>2. TypeOK'
    BY <2>1 DEF TypeOK
  <2> QED BY <2>1, <2>2 DEF Locals
<1>2. CASE HaltJoin
  <2>1. msqid \in Session
    BY <1>2, Constants DEF HaltJoin, TypeOK, Locals
  <2>2. /\ box' \in [Session -> Seq(Msg)] /\ \A q \in Session : Len(box'[q]) <= QueueCap
    <3>1. box \in [Session -> Seq(Msg)] /\ \A q \in Session : Len(box[q]) <= QueueCap
      BY DEF TypeOK
    <3>2. <<>> \in Seq(Msg) /\ Len(<<>>) <= QueueCap
      BY Constants
    <3> QED BY <1>2, <2>1, <3>1, <3>2 DEF HaltJoin
  <2>3. TypeOK'
    <3>1. removed' \subseteq Session
      BY <1>2, <2>1 DEF HaltJoin, TypeOK
    <3>2. mpc' \in [Session -> RunnerState]
      BY <1>2 DEF HaltJoin, TypeOK
    <3>3. /\ munRunThreadId' = 0 /\ xpc' = "sweep" /\ xid' = 0
          /\ UNCHANGED <<kernel, m_nSocketFD, msqid, apc, cancelled, last, mapClient, afd, acn, mq, cur,
                         receivers, visited, xfd, missed>>
      BY <1>2 DEF HaltJoin
    <3> HIDE DEF RunnerState, ReceiverState
    <3> QED BY SMTT(30), <2>2, <3>1, <3>2, <3>3, Constants DEF TypeOK
  <2>4. Locals'
    BY <1>2, <2>1, Constants DEF HaltJoin, TypeOK, Locals
  <2> QED BY <2>3, <2>4
<1> USE DEF OnlySweep, accepters, runners
<1>3. ASSUME NEW fd \in FD, SweepClose(fd) PROVE TypeInv'
  <2>1. fdtab' \in [FD -> Conn \cup {0}] /\ hup' \subseteq born
    BY <1>3 DEF SweepClose, socketClose, TypeOK
  <2>2. TypeOK'
    BY <1>3, <2>1 DEF SweepClose, TypeOK
  <2> QED BY <1>3, <2>2 DEF SweepClose, Locals
<1>4. CASE SweepCancel
  <2>1. PICK c : threadCancel(c)
    BY <1>4 DEF SweepCancel
  <2>2. /\ rpc' \in [Conn -> ReceiverState] /\ rfd' \in [Conn -> FD \cup {None}]
        /\ \A r \in Conn : rpc'[r] \in {"recv", "disconnect"} => rpc'[r] = rpc[r] /\ rfd'[r] = rfd[r]
    <3>1. rpc \in [Conn -> ReceiverState] /\ rfd \in [Conn -> FD \cup {None}]
      BY DEF TypeOK
    <3>2. \A r \in Conn : r = c => rpc'[r] \notin {"recv", "disconnect"}
      BY <2>1 DEF threadCancel, Running
    <3> QED BY <2>1, <3>1, <3>2 DEF threadCancel
  <2>3. TypeOK'
    BY <1>4, <2>2 DEF SweepCancel, TypeOK
  <2>4. Locals'
    BY <1>4, <2>2 DEF SweepCancel, Locals
  <2> QED BY <2>3, <2>4
<1>5. CASE SweepJoin
  <2>1. /\ rpc' \in [Conn -> ReceiverState] /\ xpc' \in {"sweep", "nothread"}
        /\ \A r \in Conn : rpc'[r] \in {"recv", "disconnect"} => rpc'[r] = rpc[r]
    BY <1>5 DEF SweepJoin, threadJoin, TypeOK
  <2>2. TypeOK'
    BY <1>5, <2>1 DEF SweepJoin, TypeOK
  <2> QED BY <1>5, <2>1, <2>2 DEF SweepJoin, Locals
<1>6. CASE SweepEnd
  <2>1. TypeOK'
    BY <1>6 DEF SweepEnd, TypeOK
  <2> QED BY <1>6, <2>1 DEF SweepEnd, Locals
<1> QED BY <1>1, <1>2, <1>3, <1>4, <1>5, <1>6 DEF stop

LEMMA TypeAccepter ==
    ASSUME TypeInv, UNCHANGED extKey, NEW s \in Session,
           AcceptCall(s) \/ SendAccept(s) \/ \E fd \in FD : AcceptReturns(s, fd)
    PROVE  TypeInv'
<1> USE DEF TypeInv, OnlyAccept, kernel, runners, receivers, app
<1>1. CASE AcceptCall(s)
  <2>1. TypeOK'
    BY <1>1 DEF AcceptCall, TypeOK
  <2> QED BY <1>1, <2>1 DEF AcceptCall, Locals, TypeOK
<1>2. ASSUME NEW fd \in FD, AcceptReturns(s, fd) PROVE TypeInv'
  <2>1. PICK c \in Conn :
          /\ born' = born \cup {c} /\ fdtab' = [fdtab EXCEPT ![fd] = c]
          /\ apc' = [apc EXCEPT ![s] = "send"]
          /\ afd' = [afd EXCEPT ![s] = fd] /\ acn' = [acn EXCEPT ![s] = c]
          /\ UNCHANGED <<hup, box, m_nSocketFD, removed, msqid, mapClient, runners, receivers, app>>
    BY <1>2 DEF AcceptReturns
  <2>2. TypeOK'
    BY <2>1, Constants DEF TypeOK
  <2> QED BY <2>1, <2>2 DEF Locals, TypeOK
<1>3. CASE SendAccept(s)
  <2>1. [cmd |-> "ACCEPT", id |-> afd[s], conn |-> acn[s]] \in Msg
    BY <1>3 DEF SendAccept, Locals, Msg
  <2>2. box' \in [Session -> Seq(Msg)] /\ \A q \in Session : Len(box'[q]) <= QueueCap
    BY <1>3, <2>1, PostType DEF SendAccept
  <2>3. TypeOK'
    <3>1. /\ apc' \in [Session -> AccepterState] /\ afd' \in [Session -> FD \cup {None}]
          /\ acn' \in [Session -> 0..MaxConns]
      BY <1>3, Constants DEF SendAccept, TypeOK
    <3> HIDE DEF AccepterState, RunnerState, ReceiverState
    <3> QED BY <1>3, <2>2, <3>1 DEF SendAccept, TypeOK
  <2> QED BY <1>3, <2>3 DEF SendAccept, Locals, TypeOK
<1> QED BY <1>1, <1>2, <1>3

LEMMA TypeReceiver ==
    ASSUME TypeInv, UNCHANGED extKey, NEW c \in Conn,
           PeerHangup(c) \/ runTcpReceive(c) \/ SendDisconnect(c) \/ SendThreadExit(c)
    PROVE  TypeInv'
<1> USE DEF TypeInv, OnlyReceive, Goto, kernel, queues, accepters, runners, receivers, app
<1>1. CASE PeerHangup(c)
  <2>1. /\ hup' \subseteq Conn /\ hup' = hup \cup {c}
        /\ hup' \subseteq born
        /\ UNCHANGED <<born, fdtab, m_nSocketFD, queues, mapClient, accepters, runners, receivers, app>>
    BY <1>1 DEF PeerHangup, TypeOK
  <2>2. TypeOK'
    BY <2>1 DEF TypeOK
  <2> QED BY <2>1, <2>2 DEF Locals
<1>2. CASE runTcpReceive(c)
  <2>1. PICK to \in {"recv", "lost", "disconnect"} :
          /\ rpc' = [rpc EXCEPT ![c] = to]
          /\ rfd' \in [Conn -> FD \cup {None}]
          /\ \A d \in Conn \ {c} : rfd'[d] = rfd[d]
          /\ to \in {"recv", "disconnect"} => rfd'[c] \in FD
          /\ UNCHANGED <<kernel, m_nSocketFD, removed, msqid, mapClient, accepters, runners, app, box>>
    <3>1. rpc \in [Conn -> ReceiverState] /\ rfd \in [Conn -> FD \cup {None}]
      BY DEF TypeOK
    <3>2. rpc[c] = "recv" => rfd[c] \in FD
      BY DEF Locals
    <3>3. ASSUME NEW fd \in FD, StartFound(c, fd)
          PROVE  /\ rpc' = [rpc EXCEPT ![c] = "recv"] /\ rfd' = [rfd EXCEPT ![c] = fd]
                 /\ UNCHANGED <<kernel, m_nSocketFD, removed, msqid, mapClient, accepters, runners, app, box>>
      BY <3>3 DEF StartFound
    <3>4. ASSUME StartLost(c) \/ RecvEnd(c)
          PROVE  /\ UNCHANGED rfd
                 /\ \/ rpc' = [rpc EXCEPT ![c] = "lost"]
                    \/ rpc' = [rpc EXCEPT ![c] = "disconnect"] /\ rpc[c] = "recv"
                 /\ UNCHANGED <<kernel, m_nSocketFD, removed, msqid, mapClient, accepters, runners, app, box>>
      BY <3>4 DEF StartLost, RecvEnd
    <3> QED BY <1>2, <3>1, <3>2, <3>3, <3>4 DEF runTcpReceive
  <2>2. TypeOK'
    BY <2>1 DEF TypeOK
  <2> QED BY <2>1, <2>2 DEF Locals, TypeOK
<1>3. CASE SendDisconnect(c) \/ SendThreadExit(c)
  <2>1. PICK cmd, id : Post(cmd, id, c) /\ [cmd |-> cmd, id |-> id, conn |-> c] \in Msg
    BY <1>3 DEF SendDisconnect, SendThreadExit, Locals, Msg
  <2>2. box' \in [Session -> Seq(Msg)] /\ \A q \in Session : Len(box'[q]) <= QueueCap
    BY <2>1, PostType
  <2>3. /\ rfd' \in [Conn -> FD \cup {None}] /\ \A d \in Conn \ {c} : rfd'[d] = rfd[d]
        /\ rpc' = [rpc EXCEPT ![c] = "zombie"]
    BY <1>3 DEF SendDisconnect, SendThreadExit, TypeOK
  <2>4. TypeOK'
    BY <1>3, <2>2, <2>3 DEF SendDisconnect, SendThreadExit, TypeOK
  <2> QED BY <1>3, <2>3, <2>4 DEF SendDisconnect, SendThreadExit, Locals, TypeOK
<1> QED BY <1>1, <1>2, <1>3

\* What a message thread's step keeps: its own place and variables.
LEMMA RunnerFrame ==
    ASSUME TypeInv, NEW s \in Session, NEW to \in RunnerState, to # "none", mpc[s] # "none",
           mpc' = [mpc EXCEPT ![s] = to],
           UNCHANGED <<born, m_nSocketFD, removed, msqid, accepters, rfd, app>>, hup' \subseteq born,
           fdtab' \in [FD -> Conn \cup {0}], mapClient' \in [FD -> Conn \cup {0, None}],
           box' \in [Session -> Seq(Msg)], \A q \in Session : Len(box'[q]) <= QueueCap,
           munRunThreadId' \in 0..MaxStarts, cancelled' \subseteq Session,
           mq' \in [Session -> 0..MaxStarts], \A r \in Session \ {s} : mq'[r] = mq[r],
           cur' \in [Session -> Msg \cup {NoMsg}], \A r \in Session \ {s} : cur'[r] = cur[r],
           rpc' \in [Conn -> ReceiverState],
           \A c \in Conn : rpc'[c] \in {"recv", "disconnect"} => rpc'[c] = rpc[c],
           to = "wait" => mq'[s] \in Session,
           to \in {"assign", "enter", "close", "erase"} => cur'[s] \in FdMsg,
           to = "join" => cur'[s] \in Msg,
           to = "find" => cur'[s] \in ExitMsg,
           UNCHANGED extKey
    PROVE  TypeInv'
<1> USE DEF accepters, app
<1>1. TypeOK'
  <2>1. mpc' \in [Session -> RunnerState]
    BY DEF TypeInv, TypeOK
  <2> HIDE DEF RunnerState, ReceiverState
  <2> QED BY <2>1 DEF TypeInv, TypeOK
<1>2. \A r \in Session : mpc'[r] = IF r = s THEN to ELSE mpc[r]
  BY DEF TypeInv, TypeOK
<1>3. Locals'
  <2>1. /\ \A r \in Session : apc'[r] = "send" => afd'[r] \in FD /\ acn'[r] \in Conn
        /\ \A c \in Conn : rpc'[c] \in {"recv", "disconnect"} => rfd'[c] \in FD
    BY DEF TypeInv, Locals
  <2>2. msqid # 0
    BY DEF TypeInv, Locals
  <2> QED BY ZenonT(40), <1>2, <2>1, <2>2 DEF TypeInv, Locals
<1> QED BY <1>1, <1>3 DEF TypeInv


LEMMA TypeRunner ==
    ASSUME TypeInv, NEW s \in Session, runMessageReceive(s) \/ Assign(s, FALSE), UNCHANGED extKey
    PROVE  TypeInv'
<1> USE DEF OnlyRun, Run, kernel, queues, accepters, receivers, app
<1>t. /\ hup \subseteq born /\ born \subseteq Conn
      /\ fdtab \in [FD -> Conn \cup {0}] /\ mapClient \in [FD -> Conn \cup {0, None}]
      /\ box \in [Session -> Seq(Msg)] /\ \A q \in Session : Len(box[q]) <= QueueCap
      /\ munRunThreadId \in 0..MaxStarts /\ cancelled \subseteq Session
      /\ mq \in [Session -> 0..MaxStarts] /\ cur \in [Session -> Msg \cup {NoMsg}]
      /\ rpc \in [Conn -> ReceiverState]
      /\ msqid \in 0..MaxStarts
  BY DEF TypeInv, TypeOK
<1>l. /\ mpc[s] = "wait" => mq[s] \in Session
      /\ mpc[s] \in {"assign", "enter", "close", "erase"} => cur[s] \in FdMsg
      /\ mpc[s] = "join" => cur[s] \in Msg
      /\ mpc[s] = "find" => cur[s] \in ExitMsg
      /\ mpc[s] # "none" => msqid \in Session
  BY Constants, <1>t DEF TypeInv, Locals
<1>d. Done(s) => cur' \in [Session -> Msg \cup {NoMsg}] /\ \A r \in Session \ {s} : cur'[r] = cur[r]
  BY <1>t DEF Done
<1>q. mq' = [mq EXCEPT ![s] = 0] => mq' \in [Session -> 0..MaxStarts] /\ \A r \in Session \ {s} : mq'[r] = mq[r]
  BY <1>t, Constants
<1>m. \A m \in Msg : m.cmd = "ACCEPT" => m \in FdMsg
  BY DEF Msg, FdMsg
<1>1. CASE RunnerStart(s) \/ RunnerCall(s) \/ RunnerWoken(s)
  <2>1. PICK to \in {"call", "wait"} :
          /\ mpc[s] # "none" /\ mpc' = [mpc EXCEPT ![s] = to]
          /\ munRunThreadId' \in 0..MaxStarts
          /\ mq' \in [Session -> 0..MaxStarts] /\ \A r \in Session \ {s} : mq'[r] = mq[r]
          /\ to = "wait" => mq'[s] \in Session
          /\ UNCHANGED <<born, m_nSocketFD, removed, msqid, accepters, rfd, app, cancelled, fdtab, hup, box,
                         mapClient, cur, rpc>>
    <3>1. CASE RunnerStart(s)
      BY <1>t, <3>1, Constants DEF RunnerStart
    <3>2. CASE RunnerCall(s)
      <4>1. msqid \in Session /\ mq' = [mq EXCEPT ![s] = msqid]
        BY <1>l, <3>2 DEF RunnerCall
      <4>2. mq' \in [Session -> 0..MaxStarts] /\ (\A r \in Session \ {s} : mq'[r] = mq[r]) /\ mq'[s] \in Session
        BY <1>t, <4>1
      <4> QED BY <1>t, <3>2, <4>2 DEF RunnerCall
    <3>3. CASE RunnerWoken(s)
      BY <1>t, <1>q, <3>3 DEF RunnerWoken
    <3> QED BY <1>1, <3>1, <3>2, <3>3
  <2> QED BY <1>t, <2>1, RunnerFrame
<1>2. CASE Take(s)
  <2>1. mq[s] \in Session /\ box[mq[s]] \in Seq(Msg) /\ box[mq[s]] # <<>>
    BY <1>2, <1>t, <1>l DEF Take
  <2>2. Head(box[mq[s]]) \in Msg /\ Tail(box[mq[s]]) \in Seq(Msg) /\ Len(Tail(box[mq[s]])) <= QueueCap
    <3>1. /\ Head(box[mq[s]]) \in Msg /\ Tail(box[mq[s]]) \in Seq(Msg)
          /\ Len(Tail(box[mq[s]])) <= Len(box[mq[s]]) /\ Len(box[mq[s]]) \in Nat
          /\ Len(Tail(box[mq[s]])) \in Nat
      BY <2>1
    <3>2. Len(box[mq[s]]) <= QueueCap
      BY <1>t, <2>1
    <3> QED BY <3>1, <3>2, Constants
  <2>3. cur'[s] = Head(box[mq[s]])
    BY <1>2, <1>t DEF Take
  <2>4. PICK to \in {"assign", "join"} :
          mpc' = [mpc EXCEPT ![s] = to] /\ (to = "assign" <=> cur'[s].cmd = "ACCEPT")
    BY <1>2 DEF Take
  <2>5. /\ box' \in [Session -> Seq(Msg)] /\ \A q \in Session : Len(box'[q]) <= QueueCap
        /\ cur' \in [Session -> Msg \cup {NoMsg}] /\ \A r \in Session \ {s} : cur'[r] = cur[r]
    BY <1>2, <1>t, <2>1, <2>2 DEF Take
  <2>6. /\ to = "assign" => cur'[s] \in FdMsg
        /\ cur'[s] \in Msg
    BY <1>m, <2>2, <2>3, <2>4
  <2> QED BY <1>2, <1>t, <1>q, <2>4, <2>5, <2>6, RunnerFrame DEF Take
<1>3. ASSUME NEW created \in BOOLEAN, Assign(s, created) PROVE TypeInv'
  <2>1. cur[s].conn \in Conn /\ cur[s].id \in FD /\ cur[s] \in FdMsg
    BY <1>3, <1>l DEF Assign, FdMsg
  <2>2. /\ rpc' \in [Conn -> ReceiverState]
        /\ \A c \in Conn : rpc'[c] \in {"recv", "disconnect"} => rpc'[c] = rpc[c]
    BY <1>3, <1>t, <2>1 DEF Assign
  <2>3. mapClient' \in [FD -> Conn \cup {0, None}]
    BY <1>3, <1>t DEF Assign
  <2> QED BY <1>3, <1>t, <2>1, <2>2, <2>3, RunnerFrame DEF Assign
<1>9. CASE Enter(s)
  <2>1. cur[s].conn \in Conn /\ cur[s].id \in FD /\ cur[s] \in FdMsg
    BY <1>9, <1>l DEF Enter, FdMsg
  <2>2. mapClient' \in [FD -> Conn \cup {0, None}]
    BY <1>9, <1>t, <2>1 DEF Enter
  <2>3. PICK to \in {"call", "close"} :
          mpc' = [mpc EXCEPT ![s] = to] /\ (to = "close" => UNCHANGED cur) /\ (to = "call" => Done(s))
    BY <1>9, <2>1, Constants DEF Enter
  <2>4. /\ cur' \in [Session -> Msg \cup {NoMsg}] /\ \A r \in Session \ {s} : cur'[r] = cur[r]
        /\ to = "close" => cur'[s] \in FdMsg
    BY <1>d, <1>t, <2>1, <2>3
  <2> QED BY <1>9, <1>t, <2>2, <2>3, <2>4, RunnerFrame DEF Enter
<1>4. CASE Join(s)
  <2>1. /\ rpc' \in [Conn -> ReceiverState]
        /\ \A c \in Conn : rpc'[c] \in {"recv", "disconnect"} => rpc'[c] = rpc[c]
    BY <1>4, <1>t DEF Join, threadJoin
  <2>2. PICK to \in {"find", "close"} :
          mpc' = [mpc EXCEPT ![s] = to] /\ (to = "find" <=> cur[s].cmd = "THREAD_EXIT")
    BY <1>4 DEF Join
  <2>3. /\ to = "find" => cur[s] \in ExitMsg
        /\ to = "close" => cur[s] \in FdMsg
    BY <1>4, <1>l, <2>2 DEF Join, Msg, FdMsg, ExitMsg
  <2> QED BY <1>4, <1>t, <2>1, <2>2, <2>3, RunnerFrame DEF Join
<1>5. CASE Find(s)
  <2>1. cur[s] \in ExitMsg
    BY <1>5, <1>l DEF Find
  <2>2. CASE Named(cur[s].id) = {}
    <3>1. mpc' = [mpc EXCEPT ![s] = "call"] /\ Done(s)
      BY <1>5, <2>2 DEF Find
    <3> QED BY <1>5, <1>t, <1>d, <3>1, RunnerFrame DEF Find
  <2>3. CASE Named(cur[s].id) # {}
    <3>1. PICK fd \in FD : cur' = [cur EXCEPT ![s].id = fd, ![s].cmd = "DISCONNECT"]
      BY <1>5, <2>3 DEF Find, Named
    <3>2. cur'[s] = [cur[s] EXCEPT !.id = fd, !.cmd = "DISCONNECT"] /\ \A r \in Session \ {s} : cur'[r] = cur[r]
      BY <1>t, <3>1
    <3>3. cur'[s] \in FdMsg
      BY <2>1, <3>2 DEF FdMsg, ExitMsg
    <3>4. cur' \in [Session -> Msg \cup {NoMsg}]
      <4>1. cur'[s] \in Msg
        BY <3>3 DEF FdMsg, Msg
      <4>2. DOMAIN cur' = Session /\ cur' = [r \in Session |-> cur'[r]]
        BY <1>t, <3>1
      <4> QED BY <1>t, <3>2, <4>1, <4>2
    <3>5. mpc' = [mpc EXCEPT ![s] = "close"]
      BY <1>5, <2>3 DEF Find
    <3> QED BY <1>5, <1>t, <3>2, <3>3, <3>4, <3>5, RunnerFrame DEF Find
  <2> QED BY <2>2, <2>3
<1>6. CASE CloseFd(s)
  <2>1. fdtab' \in [FD -> Conn \cup {0}] /\ hup' \subseteq born
    BY <1>6, <1>t DEF CloseFd, socketClose
  <2> QED BY <1>6, <1>t, <1>l, <2>1, RunnerFrame DEF CloseFd
<1>7. CASE EraseEntry(s)
  <2>1. mapClient' \in [FD -> Conn \cup {0, None}]
    BY <1>7, <1>t DEF EraseEntry
  <2> QED BY <1>7, <1>t, <1>d, <2>1, RunnerFrame DEF EraseEntry
<1>8. CASE RunnerEnd(s)
  BY <1>8, <1>t, <1>d, <1>q, RunnerFrame DEF RunnerEnd
<1> QED BY <1>1, <1>2, <1>3, <1>4, <1>5, <1>6, <1>7, <1>8, <1>9 DEF runMessageReceive

LEMMA TypeStep == TypeInv /\ [Next]_vars => TypeInv'
<1> SUFFICES ASSUME TypeInv, [Next]_vars PROVE TypeInv'
  OBVIOUS
<1>1. CASE UNCHANGED vars
  BY <1>1 DEF TypeInv, TypeOK, Locals, vars, steps, kernel, queues, accepters, runners, receivers, app
<1>2. CASE Next
  BY <1>2, TypeStart, TypeStop, TypeAccepter, TypeReceiver, TypeRunner DEF Next, Step
<1> QED BY <1>1, <1>2

\* Every variable of start(), stop(), the accept threads, the message threads and
\* the receive threads keeps its type, and no queue holds more than it has room for.
THEOREM TypeCorrect == Spec => []TypeOK
<1>1. Spec => []TypeInv
  BY TypeInit, TypeStep, PTL DEF Spec
<1>2. TypeInv => TypeOK
  BY DEF TypeInv
<1> QED BY <1>1, <1>2, PTL

-----------------------------------------------------------------------------
(* stop() clears the server away                                           *)

\* Between start()'s last step and the pthread_join of stop(), or its end when
\* that found no id, one message thread is not yet accounted for.
Counted == IF xpc \in {"up", "halt", "call", "join"} THEN 1 ELSE 0

\* Every message thread nobody has joined is the one of the start under way or
\* owed to a stop() that found no id; such a stop() is counted once.
CountInv ==
    /\ Cardinality(Unjoined) <= Cardinality(missed) + Counted
    /\ \A s \in missed : s <= last
    /\ xpc \in {"create", "bind", "spawn", "up", "halt"} => last \notin missed

\* The stored id, and the one stop() joins, are of threads that have stored their
\* id and have not been joined; in stop() there is one.  A start() makes its thread
\* last of all.
IdInv ==
    /\ munRunThreadId # 0 => mpc[munRunThreadId] \notin {"none", "start", "joined"}
    /\ xpc = "call" => munRunThreadId # 0
    /\ xpc = "join" => xid # 0 /\ mpc[xid] \notin {"none", "start", "joined"}
    /\ \A s \in Session : s > last \/ (s = last /\ xpc \in {"create", "bind", "spawn"}) => mpc[s] = "none"

MapInv == xpc = "stopped" /\ missed = {} => \A fd \in FD : mapClient[fd] = None

LifeInv == TypeInv /\ CountInv /\ IdInv /\ MapInv

LEMMA Finite ==
    ASSUME TypeOK
    PROVE  /\ IsFiniteSet(Unjoined) /\ IsFiniteSet(missed)
           /\ Cardinality(Unjoined) \in Nat /\ Cardinality(missed) \in Nat
<1>1. IsFiniteSet(Session)
  BY FS_Interval, BoundsAssumption DEF Session
<1>2. Unjoined \subseteq Session /\ missed \subseteq Session
  BY DEF Unjoined, TypeOK
<1>3. IsFiniteSet(Unjoined) /\ IsFiniteSet(missed)
  BY <1>1, <1>2, FS_Subset
<1> QED BY <1>3, FS_CardinalityType

LEMMA LifeInit == Init => LifeInv
<1> SUFFICES ASSUME Init PROVE LifeInv
  OBVIOUS
<1>1. Unjoined = {} /\ missed = {} /\ Counted = 0
  BY DEF Init, Unjoined, Counted
<1>2. CountInv
  BY <1>1, FS_EmptySet DEF CountInv, Init
<1>3. IdInv /\ MapInv
  BY Constants DEF Init, IdInv, MapInv
<1> QED BY <1>2, <1>3, TypeInit DEF LifeInv

LEMMA LifeStart == ASSUME LifeInv, start, TypeInv' PROVE LifeInv'
<1> USE DEF OnlyApp, OnlyCalls, AtApp, LifeInv, TypeInv
<1>1. CASE (\E fails \in BOOLEAN : Begin(fails)) \/ createSocket \/ Bind \/ BindFails
  <2>1. /\ UNCHANGED <<mpc, munRunThreadId, missed, mapClient>>
        /\ xpc \notin {"up", "halt", "call", "join"} /\ xpc' \in {"idle", "create", "bind", "spawn"}
        /\ \/ last' = last /\ xpc \in {"create", "bind", "spawn"}
           \/ last' = last + 1
    BY <1>1 DEF Begin, createSocket, Bind, BindFails
  <2>2. Unjoined' = Unjoined /\ Counted' = 0 /\ Counted = 0
    BY <2>1 DEF Unjoined, Counted
  <2>3. CountInv'
    <3>1. \A s \in missed : s \in Nat /\ s <= last /\ last \in Nat
      BY Constants DEF TypeOK, CountInv
    <3> QED BY <2>1, <2>2, <3>1 DEF CountInv
  <2>4. /\ last \in Nat /\ last' \in Nat /\ \A s \in Session : s \in Nat
        /\ last' = last \/ \A s \in Session : s > last' \/ s = last' => s > last
    BY <2>1, Constants DEF TypeOK
  <2>5. \A s \in Session :
          s > last' \/ (s = last' /\ xpc' \in {"create", "bind", "spawn"}) => mpc'[s] = "none"
    BY <2>1, <2>4 DEF IdInv
  <2>6. IdInv' /\ MapInv'
    BY <2>1, <2>5 DEF IdInv, MapInv
  <2> QED BY <2>3, <2>6
<1>2. CASE Spawn
  <2>1. /\ UNCHANGED <<munRunThreadId, missed, mapClient, last, xid>>
        /\ xpc = "spawn" /\ xpc' = "up" /\ mpc' = [mpc EXCEPT ![last] = "start"]
    BY <1>2 DEF Spawn
  <2>2. Unjoined' \subseteq Unjoined \cup {last} /\ Counted' = 1 /\ Counted = 0
    BY <2>1 DEF Unjoined, Counted, TypeOK
  <2>3. Cardinality(Unjoined') \in Nat /\ Cardinality(Unjoined') <= Cardinality(Unjoined) + 1
    <3> DEFINE S == Unjoined \cup {last}
               U == Unjoined'
    <3>1. /\ IsFiniteSet(S) /\ U \subseteq S
          /\ Cardinality(S) \in {Cardinality(Unjoined), Cardinality(Unjoined) + 1}
      BY <2>2, Finite, FS_AddElement
    <3> HIDE DEF S, U
    <3>2. IsFiniteSet(U) /\ Cardinality(U) <= Cardinality(S)
      BY <3>1, FS_Subset
    <3>3. Cardinality(U) \in Nat /\ Cardinality(U) <= Cardinality(Unjoined) + 1
      BY <3>1, <3>2, FS_CardinalityType, Finite
    <3> QED BY <3>3 DEF U
  <2>5. CountInv'
    BY <2>1, <2>2, <2>3, Finite DEF CountInv
  <2>6. IdInv'
    <3>1. \A s \in Session : s > last => s # last
      BY Constants DEF TypeOK
    <3>2. last # munRunThreadId
      BY <2>1, Constants DEF IdInv, TypeOK
    <3> QED BY <2>1, <3>1, <3>2, Constants DEF IdInv, TypeOK
  <2> QED BY <2>1, <2>5, <2>6 DEF MapInv
<1> QED BY <1>1, <1>2 DEF start

LEMMA LifeStop == ASSUME LifeInv, Stop \/ stop, TypeInv' PROVE LifeInv'
<1> USE DEF OnlyApp, OnlyCalls, AtApp, LifeInv, TypeInv
<1>f. Cardinality(Unjoined) \in Nat /\ Cardinality(missed) \in Nat
  BY Finite
<1>1. CASE Stop \/ HaltCall \/ (Halt /\ munRunThreadId # 0)
  <2>1. /\ UNCHANGED <<mpc, munRunThreadId, missed, mapClient, last>>
        /\ xpc \in {"up", "halt", "call"} /\ xpc' \in {"halt", "call", "join"}
        /\ xpc' = "halt" => xpc = "up"
        /\ xpc' = "call" => munRunThreadId # 0
        /\ xpc' = "join" => xid' = munRunThreadId /\ xpc = "call"
    BY <1>1 DEF Stop, HaltCall, Halt
  <2>2. Unjoined' = Unjoined /\ Counted' = 1 /\ Counted = 1
    BY <2>1 DEF Unjoined, Counted
  <2>3. CountInv'
    BY <2>1, <2>2 DEF CountInv
  <2>4. IdInv' /\ MapInv'
    BY <2>1 DEF IdInv, MapInv
  <2> QED BY <2>3, <2>4
<1>2. CASE Halt /\ munRunThreadId = 0
  <2>1. /\ UNCHANGED <<mpc, munRunThreadId, mapClient, last>>
        /\ xpc = "halt" /\ xpc' = "sweep" /\ missed' = missed \cup {last}
    BY <1>2 DEF Halt
  <2>2. Unjoined' = Unjoined /\ Counted' = 0 /\ Counted = 1
    BY <2>1 DEF Unjoined, Counted
  <2>3. Cardinality(missed') = Cardinality(missed) + 1
    BY <2>1, Finite, FS_AddElement DEF CountInv
  <2>4. CountInv'
    BY <1>f, <2>1, <2>2, <2>3 DEF CountInv, TypeOK
  <2>5. IdInv' /\ MapInv'
    BY <2>1 DEF IdInv, MapInv
  <2> QED BY <2>4, <2>5
<1>3. CASE HaltJoin
  <2>1. /\ UNCHANGED <<missed, mapClient, last>> /\ munRunThreadId' = 0
        /\ xpc = "join" /\ xpc' = "sweep" /\ mpc' = [mpc EXCEPT ![xid] = "joined"]
    BY <1>3 DEF HaltJoin
  <2>2. xid \in Unjoined
    BY <2>1, Constants DEF IdInv, TypeOK, Unjoined
  <2>3. Unjoined' = Unjoined \ {xid} /\ Counted' = 0 /\ Counted = 1
    BY <2>1, <2>2 DEF Unjoined, Counted, TypeOK
  <2>4. Cardinality(Unjoined') = Cardinality(Unjoined) - 1
    BY <2>2, <2>3, Finite, FS_RemoveElement
  <2>5. CountInv'
    BY <1>f, <2>1, <2>3, <2>4 DEF CountInv
  <2> QED BY <2>1, <2>5 DEF IdInv, MapInv
<1>4. CASE (\E fd \in FD : SweepClose(fd)) \/ SweepCancel \/ SweepJoin \/ SweepEnd
  <2>1. /\ xpc \in {"sweep", "closed", "reap"} /\ xpc' \in {"sweep", "closed", "reap", "nothread", "stopped"}
        /\ UNCHANGED <<mpc, munRunThreadId, last, missed>>
        /\ xpc' = "stopped" => mapClient' = [fd \in FD |-> None]
    BY <1>4 DEF SweepClose, SweepCancel, SweepJoin, SweepEnd, OnlySweep, runners
  <2>2. Unjoined' = Unjoined /\ Counted' = 0 /\ Counted = 0
    BY <2>1 DEF Unjoined, Counted
  <2>3. CountInv'
    BY <2>1, <2>2 DEF CountInv
  <2> QED BY <2>1, <2>3 DEF IdInv, MapInv
<1> HIDE DEF OnlyApp, OnlyCalls, AtApp, LifeInv, TypeInv
<1> QED BY <1>1, <1>2, <1>3, <1>4 DEF stop

LEMMA LifeOthers ==
    ASSUME LifeInv, TypeInv', UNCHANGED <<mpc, munRunThreadId, last, xpc, xid, missed, mapClient>>
    PROVE  LifeInv'
<1>1. Unjoined' = Unjoined /\ Counted' = Counted
  BY DEF Unjoined, Counted
<1>2. CountInv'
  BY <1>1 DEF LifeInv, CountInv
<1> QED BY <1>2 DEF LifeInv, IdInv, MapInv

\* A message thread's step keeps it unjoined, and stores no id but its own; it can
\* change mapClient only while it is there.
LEMMA LifeRunner ==
    ASSUME LifeInv, TypeInv', NEW s \in Session, runMessageReceive(s) \/ Assign(s, FALSE)
    PROVE  LifeInv'
<1>1. /\ mpc[s] \notin {"none", "joined"} /\ UNCHANGED <<xpc, last, xid, missed>>
      /\ munRunThreadId' \in {munRunThreadId, s}
  BY DEF runMessageReceive, RunnerStart, RunnerCall, RunnerWoken, Take, Assign, Enter, Join, Find, CloseFd,
         EraseEntry, RunnerEnd, Run, OnlyRun, app
<1>2. PICK to \in RunnerState \ {"none", "start", "joined"} : mpc' = [mpc EXCEPT ![s] = to]
  BY DEF runMessageReceive, RunnerStart, RunnerCall, RunnerWoken, Take, Assign, Enter, Join, Find, CloseFd,
         EraseEntry, RunnerEnd, Run
<1>3. \A r \in Session : mpc'[r] = IF r = s THEN to ELSE mpc[r]
  BY <1>2 DEF LifeInv, TypeInv, TypeOK
<1>4. Unjoined' = Unjoined /\ Counted' = Counted /\ s \in Unjoined
  BY <1>1, <1>3 DEF Unjoined, Counted
<1>5. CountInv'
  BY <1>1, <1>4 DEF LifeInv, CountInv
<1>6. IdInv'
  BY <1>1, <1>3, Constants DEF LifeInv, IdInv, TypeInv, TypeOK
<1>7. ~(xpc = "stopped" /\ missed = {})
  <2> SUFFICES ASSUME xpc = "stopped", missed = {} PROVE FALSE
    OBVIOUS
  <2>1. Cardinality(Unjoined) = 0
    BY Finite, FS_EmptySet DEF LifeInv, TypeInv, CountInv, Counted
  <2> QED BY <1>4, <2>1, Finite, FS_EmptySet DEF LifeInv, TypeInv
<1> QED BY <1>1, <1>5, <1>6, <1>7 DEF LifeInv, MapInv

LEMMA LifeStep == LifeInv /\ [Next]_vars => LifeInv'
<1> SUFFICES ASSUME LifeInv, [Next]_vars PROVE LifeInv'
  OBVIOUS
<1>0. TypeInv'
  BY TypeStep DEF LifeInv
<1>1. CASE UNCHANGED vars
  BY <1>0, <1>1, LifeOthers DEF vars, steps, runners, app
<1>2. ASSUME NEW c \in Conn, PeerHangup(c) \/ runTcpReceive(c) \/ SendDisconnect(c) \/ SendThreadExit(c)
      PROVE  LifeInv'
  BY <1>0, <1>2, LifeOthers
     DEF PeerHangup, runTcpReceive, StartFound, StartLost, RecvEnd, SendDisconnect, SendThreadExit, OnlyReceive,
         runners, app
<1>3. ASSUME NEW s \in Session, AcceptCall(s) \/ SendAccept(s) \/ \E fd \in FD : AcceptReturns(s, fd)
      PROVE  LifeInv'
  BY <1>0, <1>3, LifeOthers DEF AcceptCall, SendAccept, AcceptReturns, OnlyAccept, runners, app
<1>4. CASE Next
  BY <1>0, <1>2, <1>3, <1>4, LifeStart, LifeStop, LifeRunner DEF Next, Step
<1> QED BY <1>1, <1>4

\* However the application times its stop()s, and wherever they meet the message
\* threads' handlers, the receive threads and the accept threads of earlier
\* starts: each message thread left behind is owed to a stop() that came before
\* a message thread had stored its id, without such a stop() no client stays in
\* mapClient, and munRunThreadId names no joined thread.
THEOREM StopsClear == Spec => []StopClears
<1>1. Spec => []LifeInv
  BY LifeInit, LifeStep, PTL DEF Spec
<1>2. LifeInv => StopClears
  <2> SUFFICES ASSUME LifeInv PROVE StopClears
    OBVIOUS
  <2>1. Cardinality(Unjoined) \in Nat /\ Cardinality(missed) \in Nat
    BY Finite DEF LifeInv, TypeInv
  <2> QED BY <2>1 DEF LifeInv, CountInv, Counted, IdInv, MapInv, StopClears
<1> QED BY <1>1, <1>2, PTL
=============================================================================

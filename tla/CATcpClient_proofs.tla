-------------------------- MODULE CATcpClient_proofs --------------------------
(***************************************************************************)
(* Theorems about CATcpClient for every value of its constants and every   *)
(* application: its types, the order of the callbacks of the connection in *)
(* use, and that what stop() goes by is never stale.                       *)
(***************************************************************************)
EXTENDS CATcpClient, SequenceTheorems, WellFoundedInduction, TLAPS

USE DEF ReceiverState, RunnerState, AppState

-----------------------------------------------------------------------------
(* The inductive invariant                                                 *)

Reading == {"connect", "recv", "blocked", "receive", "alive", "disconnect"}
Connecting == {"socket", "dial", "reap", "reapjoin", "spawn", "spawnreceive"}

\* What the places of the threads say of their variables.
Locals ==
    /\ \A s \in Session : rpc[s] \in Reading => rfd[s] \in FD
    /\ filter = 0 => xpc = "new" /\ \A s \in Session : rpc[s] = "none" /\ mpc[s] = "none"

TypeInv == TypeOK /\ Locals

\* What a receive thread says of its connection, in this order.
ThreadCmd == {"CONNECT", "RECEIVE", "ALIVE", "DISCONNECT"}

Elems(q) == {q[i] : i \in DOMAIN q}

\* A message of the receive thread of the connection in use.
Own(m) == m.conn = filter /\ m.cmd \in ThreadCmd

OwnConnect(q) == \E m \in Elems(box[q]) : Own(m) /\ m.cmd = "CONNECT"

\* Nothing is known of a connection that comes later.
FreshInv ==
    /\ \A s \in Session : s > filter => rpc[s] = "none" /\ taken[s] = "nothing"
    /\ xpc \in Connecting => \A s \in Session : s = filter => rpc[s] = "none"
    /\ \A q \in Session : \A m \in Elems(box[q]) : m.conn <= filter

\* All that is said of the connection in use is in the queue in use, to its filter.
PlaceInv ==
    \A q \in Session : \A m \in Elems(box[q]) : m.conn # 0 /\ m.conn = filter => q = msqid /\ m.to = filter

\* What the receive thread has posted, what its queue still holds of it and what
\* the message threads have taken of it belong together.
Given(s) ==
    /\ rpc[s] \in {"none", "start", "lost", "connect"} =>
         taken[s] = "nothing" /\ \A q \in Session : \A m \in Elems(box[q]) : ~Own(m)
    /\ rpc[s] \in Reading \ {"connect"} /\ Usable(msqid) /\ taken[s] = "nothing" => OwnConnect(msqid)
    /\ taken[s] = "disconnected" =>
         rpc[s] \in {"exit", "zombie"} /\ \A q \in Session : \A m \in Elems(box[q]) : ~Own(m)
    /\ \A q \in Session : \A m \in Elems(box[q]) :
         /\ Own(m) /\ m.cmd = "CONNECT" => taken[s] = "nothing"
         /\ Own(m) /\ m.cmd = "DISCONNECT" => rpc[s] \in {"exit", "zombie"}
         /\ Own(m) /\ m.cmd # "CONNECT" /\ taken[s] = "nothing" => OwnConnect(q)

GivenInv == \A s \in Session : s = filter => Given(s)

\* CONNECT comes first and DISCONNECT last.
InOrder(q) ==
    \A i, j \in DOMAIN q : i < j /\ Own(q[i]) /\ Own(q[j]) => q[i].cmd # "DISCONNECT" /\ q[j].cmd # "CONNECT"

OrderInv == \A q \in Session : InOrder(box[q])

CallInv == FreshInv /\ PlaceInv /\ GivenInv /\ OrderInv

\* What the message threads took and what the application was told belong together.
HoldInv ==
    /\ \A s \in Session : cur[s] # NoMsg => mpc[s] \in {"handle", "cancelled"}
    /\ \A c \in Session : \A s \in Session : cur[s].conn = c => s \in takers[c]
    /\ \A c \in Session : c > filter => takers[c] = {} /\ told[c] = "nothing"
    /\ \A s \in Session : s > filter \/ (s = filter /\ xpc \in Connecting \ {"spawnreceive"}) => mpc[s] = "none"

\* The thread that took CONNECT still holds it, or takes no more.
Delayed(s) ==
    \/ cur[s].conn = filter /\ cur[s].cmd = "CONNECT"
    \/ mpc[s] \in {"cancelled", "zombie", "joined"}

BehindInv ==
    \A c \in Session : c = filter =>
        /\ told[c] = "disconnected" => taken[c] = "disconnected"
        /\ \A s \in Session : cur[s].conn = c /\ cur[s].cmd = "DISCONNECT" => taken[c] = "disconnected"
        /\ told[c] = "nothing" /\ taken[c] # "nothing" => \E s \in takers[c] : Delayed(s)
        /\ \A s \in Session :
             takers[c] = {s} /\ cur[s].conn = c /\ cur[s].cmd \in ThreadCmd \ {"CONNECT"} => told[c] = "connected"

ToldInv == HoldInv /\ BehindInv

\* An application that stops first has one message thread, which stop() knows.
Idle  == {"none", "zombie", "joined"}
Early == {"new", "socket", "dial", "reap", "reapjoin", "spawn", "stopped"}

OneInv ==
    app.stopsFirst /\ missed = {} =>
        /\ munRunThreadId \in {0, filter}
        /\ \A s \in Session : s # filter => mpc[s] \in Idle
        /\ \A s \in Session : mpc[s] \notin Idle \cup {"start"} => munRunThreadId = s
        /\ munRunThreadId # 0 => mpc[munRunThreadId] \notin {"none", "start"}
        /\ xpc \in Early => munRunThreadId = 0 /\ \A s \in Session : mpc[s] \in Idle
        /\ xpc = "haltjoin" => munRunThreadId # 0
        /\ \A c \in Session : c = filter => takers[c] \subseteq {c}

\* An id in munRunThreadId is of a thread nobody has joined; and an application
\* that stops first has at most the socket it knows of.
KnownInv ==
    /\ munRunThreadId # 0 => mpc[munRunThreadId] # "joined"
    /\ app.stopsFirst => \A fd \in FD : fdtab[fd] # 0 =>
         m_nSocketFD = fd /\ xpc \in {"dial", "reap", "reapjoin", "spawn", "spawnreceive", "up"}

-----------------------------------------------------------------------------
(* Sequences                                                               *)

LEMMA Constants ==
    /\ MaxConnects \in Nat \ {0} /\ QueueCap \in Nat \ {0} /\ Apps \subseteq App
    /\ Session = (0..MaxConnects) \ {0} /\ 0 \notin Session /\ 1 \in Session
    /\ Session \subseteq 0..MaxConnects /\ 0 \in 0..MaxConnects
    /\ None \notin FD
BY BoundsAssumption, NoneAssumption, AppsAssumption DEF Session

LEMMA LeastIndex == ASSUME NEW T, T \subseteq Nat, T # {} PROVE \E x \in T : \A y \in T : x <= y
<1>1. PICK x \in T : \A y \in T : ~(<<y, x>> \in OpToRel(<, Nat))
  BY NatLessThanWellFounded, WFMin
<1>2. \A y \in T : ~(y < x)
  BY <1>1 DEF OpToRel
<1> QED BY <1>2

LEMMA AppendElems ==
    ASSUME NEW S, NEW q \in Seq(S), NEW m \in S
    PROVE  Elems(Append(q, m)) = Elems(q) \cup {m}
<1> DEFINE p == Append(q, m)
<1>1. /\ Len(p) = Len(q) + 1 /\ Len(q) \in Nat /\ DOMAIN p = 1..Len(p) /\ DOMAIN q = 1..Len(q)
      /\ \A i \in 1..Len(q) : p[i] = q[i]
      /\ p[Len(q) + 1] = m
  OBVIOUS
<1>2. DOMAIN p = DOMAIN q \cup {Len(q) + 1}
  BY <1>1
<1> HIDE DEF p
<1> QED BY <1>1, <1>2 DEF Elems, p

\* Where the messages of a queue are once the i-th is taken out of it.
LEMMA RemoveFacts ==
    ASSUME NEW S, NEW q \in Seq(S), NEW i \in DOMAIN q
    PROVE  /\ RemoveAt(q, i) \in Seq(S) /\ Len(RemoveAt(q, i)) = Len(q) - 1
           /\ DOMAIN RemoveAt(q, i) = 1..(Len(q) - 1)
           /\ \A j \in 1..(Len(q) - 1) : RemoveAt(q, i)[j] = IF j < i THEN q[j] ELSE q[j + 1]
<1>1. Len(q) \in Nat /\ DOMAIN q = 1..Len(q) /\ i \in 1..Len(q) /\ \A j \in 1..Len(q) : q[j] \in S
  OBVIOUS
<1>2. /\ SubSeq(q, 1, i - 1) \in Seq(S) /\ Len(SubSeq(q, 1, i - 1)) = i - 1
      /\ \A j \in 1..(i - 1) : SubSeq(q, 1, i - 1)[j] = q[j]
  <2>1. 1 \in Int /\ i - 1 \in Int /\ \A j \in 1..(i - 1) : q[j] \in S
    BY <1>1
  <2>2. /\ SubSeq(q, 1, i - 1) \in Seq(S)
        /\ Len(SubSeq(q, 1, i - 1)) = IF 1 <= i - 1 THEN i - 1 - 1 + 1 ELSE 0
        /\ \A j \in 1..(i - 1 - 1 + 1) : SubSeq(q, 1, i - 1)[j] = q[1 + j - 1]
    BY ONLY <2>1, SubSeqProperties
  <2> QED BY <1>1, <2>2
<1>3. /\ SubSeq(q, i + 1, Len(q)) \in Seq(S) /\ Len(SubSeq(q, i + 1, Len(q))) = Len(q) - i
      /\ \A j \in 1..(Len(q) - i) : SubSeq(q, i + 1, Len(q))[j] = q[i + j]
  <2>1. i + 1 \in Int /\ Len(q) \in Int /\ \A j \in (i + 1)..Len(q) : q[j] \in S
    BY <1>1
  <2>2. /\ SubSeq(q, i + 1, Len(q)) \in Seq(S)
        /\ Len(SubSeq(q, i + 1, Len(q))) = IF i + 1 <= Len(q) THEN Len(q) - (i + 1) + 1 ELSE 0
        /\ \A j \in 1..(Len(q) - (i + 1) + 1) : SubSeq(q, i + 1, Len(q))[j] = q[(i + 1) + j - 1]
    BY ONLY <2>1, SubSeqProperties
  <2> QED BY SMTT(30), <1>1, <2>2
<1> DEFINE u == SubSeq(q, 1, i - 1)
           v == SubSeq(q, i + 1, Len(q))
<1>4. /\ u \o v \in Seq(S) /\ Len(u \o v) = Len(u) + Len(v)
      /\ \A j \in 1..(Len(u) + Len(v)) : (u \o v)[j] = IF j <= Len(u) THEN u[j] ELSE v[j - Len(u)]
  BY <1>2, <1>3, ConcatProperties
<1>5. DOMAIN (u \o v) = 1..Len(u \o v)
  BY <1>4
<1>6. RemoveAt(q, i) = u \o v
  BY DEF RemoveAt
<1>7. Len(u) = i - 1 /\ Len(v) = Len(q) - i
  BY <1>2, <1>3
<1>8. ASSUME NEW j \in 1..(Len(q) - 1) PROVE (u \o v)[j] = IF j < i THEN q[j] ELSE q[j + 1]
  <2>1. CASE j < i
    BY <1>1, <1>2, <1>4, <1>7, <2>1
  <2>2. CASE ~(j < i)
    <3>1. j - (i - 1) \in 1..(Len(q) - i) /\ ~(j <= i - 1) /\ j \in 1..(i - 1 + (Len(q) - i))
      BY <1>1, <2>2
    <3>2. v[j - (i - 1)] = q[i + (j - (i - 1))]
      BY <1>3, <3>1
    <3>3. i + (j - (i - 1)) = j + 1
      BY <1>1
    <3> HIDE DEF u, v
    <3> QED BY <1>4, <1>7, <2>2, <3>1, <3>2, <3>3
  <2> QED BY <2>1, <2>2
<1> HIDE DEF u, v
<1>9. Len(u \o v) = Len(q) - 1
  BY <1>1, <1>4, <1>7
<1> QED BY <1>4, <1>5, <1>6, <1>8, <1>9

LEMMA RemoveElems ==
    ASSUME NEW S, NEW q \in Seq(S), NEW i \in DOMAIN q
    PROVE  Elems(RemoveAt(q, i)) = {q[j] : j \in DOMAIN q \ {i}}
<1> DEFINE p == RemoveAt(q, i)
<1>0. Len(q) \in Nat /\ DOMAIN q = 1..Len(q) /\ i \in 1..Len(q)
  OBVIOUS
<1>1. /\ Len(q) \in Nat /\ DOMAIN q = 1..Len(q) /\ i \in 1..Len(q) /\ DOMAIN p = 1..(Len(q) - 1)
      /\ \A j \in 1..(Len(q) - 1) : p[j] = IF j < i THEN q[j] ELSE q[j + 1]
  BY <1>0, RemoveFacts
<1> HIDE DEF p
<1>2. \A j \in DOMAIN p : \E k \in DOMAIN q \ {i} : p[j] = q[k]
  <2> TAKE j \in DOMAIN p
  <2>1. CASE j < i
    BY <1>1, <2>1
  <2>2. CASE ~(j < i)
    <3>1. j + 1 \in DOMAIN q \ {i} /\ p[j] = q[j + 1]
      BY <1>1, <2>2
    <3> QED BY <3>1
  <2> QED BY <2>1, <2>2
<1>3. \A k \in DOMAIN q \ {i} : \E j \in DOMAIN p : p[j] = q[k]
  <2> TAKE k \in DOMAIN q \ {i}
  <2>1. CASE k < i
    <3>1. k \in DOMAIN p /\ p[k] = q[k]
      BY <1>1, <2>1
    <3> QED BY <3>1
  <2>2. CASE ~(k < i)
    <3>1. k - 1 \in DOMAIN p /\ ~(k - 1 < i) /\ (k - 1) + 1 = k
      BY <1>1, <2>2
    <3> QED BY <1>1, <3>1
  <2> QED BY <2>1, <2>2
<1> QED BY <1>2, <1>3 DEF Elems, p

LEMMA RemoveOrder ==
    ASSUME NEW q \in Seq(Msg), NEW i \in DOMAIN q, InOrder(q)
    PROVE  InOrder(RemoveAt(q, i))
<1> DEFINE p == RemoveAt(q, i)
           At(j) == IF j < i THEN j ELSE j + 1
<1>0. Len(q) \in Nat /\ DOMAIN q = 1..Len(q) /\ i \in 1..Len(q)
  OBVIOUS
<1>1. /\ Len(q) \in Nat /\ DOMAIN q = 1..Len(q) /\ i \in 1..Len(q) /\ DOMAIN p = 1..(Len(q) - 1)
      /\ \A j \in 1..(Len(q) - 1) : p[j] = IF j < i THEN q[j] ELSE q[j + 1]
  BY <1>0, RemoveFacts
<1>2. \A j \in DOMAIN p : At(j) \in DOMAIN q /\ p[j] = q[At(j)]
  BY <1>1
<1>3. \A j, k \in DOMAIN p : j < k => At(j) < At(k)
  BY <1>1
<1> HIDE DEF p, At
<1>4. InOrder(p)
  BY <1>2, <1>3 DEF InOrder
<1> QED BY <1>4 DEF p

-----------------------------------------------------------------------------
(* Types                                                                   *)

LEMMA TypeInit == Init => TypeInv
<1> SUFFICES ASSUME Init PROVE TypeInv
  OBVIOUS
<1>1. box \in [Session -> Seq(Msg)] /\ \A q \in Session : Len(box[q]) <= QueueCap
  BY Constants DEF Init
<1>2. call \in [Session -> (0..MaxConnects) \X (0..MaxConnects)]
  <2>1. <<0, 0>> \in (0..MaxConnects) \X (0..MaxConnects)
    BY Constants
  <2> QED BY <2>1 DEF Init
<1>4. TypeOK
  BY <1>1, <1>2, Constants DEF Init, TypeOK
<1>3. Locals
  BY DEF Init, Locals, Reading
<1> QED BY <1>3, <1>4 DEF TypeInv

LEMMA NextSession ==
    ASSUME NEW f \in 0..MaxConnects, NEW n \in Session, f + 1 <= n
    PROVE  f + 1 \in Session
BY BoundsAssumption DEF Session

\* What sending a message does to the queues.
LEMMA PostType ==
    ASSUME TypeInv, NEW to, NEW cmd, NEW id, NEW c, [to |-> to, cmd |-> cmd, id |-> id, conn |-> c] \in Msg,
           Post(to, cmd, id, c)
    PROVE  /\ box' \in [Session -> Seq(Msg)] /\ \A q \in Session : Len(box'[q]) <= QueueCap
           /\ \/ UNCHANGED box /\ ~Usable(msqid)
              \/ /\ Usable(msqid) /\ \A q \in Session : q # msqid => box'[q] = box[q]
                 /\ box'[msqid] = Append(box[msqid], [to |-> to, cmd |-> cmd, id |-> id, conn |-> c])
                 /\ Elems(box'[msqid]) = Elems(box[msqid]) \cup {[to |-> to, cmd |-> cmd, id |-> id, conn |-> c]}
<1> DEFINE m == [to |-> to, cmd |-> cmd, id |-> id, conn |-> c]
<1>m. m \in Msg
  OBVIOUS
<1>1. box \in [Session -> Seq(Msg)] /\ \A q \in Session : Len(box[q]) <= QueueCap
  BY DEF TypeInv, TypeOK
<1>2. \/ UNCHANGED box /\ ~Usable(msqid)
      \/ /\ Usable(msqid) /\ Len(box[msqid]) < QueueCap
         /\ box' = [box EXCEPT ![msqid] = Append(@, m)]
  BY DEF Post
<1> HIDE DEF m
<1>3. CASE Usable(msqid) /\ Len(box[msqid]) < QueueCap /\ box' = [box EXCEPT ![msqid] = Append(@, m)]
  <2>1. msqid \in Session /\ box[msqid] \in Seq(Msg)
    BY <1>1, <1>3 DEF Usable
  <2>2. Append(box[msqid], m) \in Seq(Msg) /\ Len(Append(box[msqid], m)) <= QueueCap
    BY <1>m, <1>3, <2>1, Constants
  <2>3. Elems(Append(box[msqid], m)) = Elems(box[msqid]) \cup {m}
    BY <1>m, <2>1, AppendElems
  <2> QED BY <1>1, <1>3, <2>1, <2>2, <2>3 DEF m
<1> QED BY <1>1, <1>2, <1>3

LEMMA TypeConnect == ASSUME TypeInv, connectWithCallback, UNCHANGED app PROVE TypeInv'
<1> USE DEF TypeInv, AtApp, sockets, queues, runners, held, receivers, idle, calls
<1>1. ASSUME NEW outcome \in {"no queue", "bad address", "ready"}, Begin(outcome) PROVE TypeInv'
  <2>0. /\ app.connects \in Session /\ app.extKey \in BOOLEAN /\ filter \in 0..MaxConnects
        /\ removed \subseteq Session
    BY DEF TypeOK, App
  <2>1. /\ filter' \in Session /\ filter' = filter + 1 /\ munRunThreadId' = 0
        /\ UNCHANGED <<sockets, box, m_nEvent, mpc, held, receivers, idle, calls>>
    <3>1. filter' = filter + 1 /\ filter + 1 <= app.connects
      BY <1>1 DEF Begin
    <3>2. filter + 1 \in Session
      BY ONLY <2>0, <3>1, NextSession
    <3> QED BY <1>1, <3>1, <3>2 DEF Begin
  <2>2. /\ xpc' \in {"new", "socket"} /\ msqid' \in 0..MaxConnects
        /\ removed' \subseteq Session
    <3>1. PICK q \in Session :
            \/ msqid' = 0 /\ UNCHANGED removed
            \/ msqid' = q /\ removed' = removed \ {q}
      <4> DEFINE q == IF app.extKey THEN 1 ELSE filter + 1
      <4>1. q \in Session
        BY <2>0, <2>1, Constants
      <4>2. CASE outcome = "no queue"
        <5>1. msqid' = 0 /\ UNCHANGED removed
          BY <1>1, <4>2 DEF Begin
        <5>2. 1 \in Session
          BY Constants
        <5> QED BY <5>1, <5>2
      <4>3. CASE outcome # "no queue"
        <5>1. msqid' = q /\ removed' = removed \ {q}
          BY <1>1, <4>3 DEF Begin
        <5> HIDE DEF q
        <5> QED BY <4>1, <5>1
      <4> QED BY <4>2, <4>3
    <3>2. xpc' \in {"new", "socket"}
      BY <1>1 DEF Begin
    <3>3. msqid' \in 0..MaxConnects
      BY <3>1, Constants
    <3>4. removed' \subseteq Session
      BY <2>0, <3>1
    <3> QED BY <3>2, <3>3, <3>4
  <2>3. TypeOK'
    <3>1. filter' \in 0..MaxConnects /\ munRunThreadId' \in 0..MaxConnects
      BY <2>1, Constants
    <3> HIDE DEF RunnerState, ReceiverState
    <3> QED BY <2>1, <2>2, <3>1 DEF TypeOK
  <2> QED BY <2>1, <2>3, Constants DEF Locals
<1>0. filter = 0 => xpc = "new"
  BY DEF Locals
<1>2. ASSUME (\E fd \in FD : CreateSocket(fd)) \/ CreateSocketFails \/ Dial \/ DialFails PROVE TypeInv'
  <2>1. /\ fdtab' \in [FD -> Session \cup {0}] /\ m_nSocketFD' \in FD \cup {None}
        /\ xpc' \in {"dial", "new", "reap"} /\ xpc # "new"
        /\ UNCHANGED <<hup, filter, queues, runners, receivers, idle, calls>>
    BY <1>2, Constants DEF CreateSocket, CreateSocketFails, Dial, DialFails, socketClose, OnlyApp, TypeOK
  <2>2. TypeOK'
    <3> HIDE DEF RunnerState, ReceiverState
    <3> QED BY <2>1 DEF TypeOK
  <2> QED BY <1>0, <2>1, <2>2 DEF Locals
<1>3. ASSUME Reap \/ ReapJoin \/ \E started \in BOOLEAN : SpawnRunner(started) PROVE TypeInv'
  <2>1. /\ mpc' \in [Session -> RunnerState] /\ munRunThreadId' \in 0..MaxConnects
        /\ xpc' \in AppState /\ xpc # "new"
        /\ UNCHANGED <<fdtab, m_nSocketFD, hup, filter, queues, receivers, idle, calls, held>>
    <3>1. mpc \in [Session -> RunnerState] /\ munRunThreadId \in 0..MaxConnects
      BY DEF TypeOK
    <3>2. CASE Reap
      BY <3>1, <3>2 DEF Reap, threadCancel, OnlyApp
    <3>3. CASE ReapJoin
      <4>1. mpc' = [mpc EXCEPT ![munRunThreadId] = "joined"] /\ munRunThreadId' = 0
        BY <3>3 DEF ReapJoin, JoinRunner
      <4> QED BY <3>1, <3>3, <4>1, Constants DEF ReapJoin, JoinRunner, OnlyApp
    <3>4. ASSUME NEW started \in BOOLEAN, SpawnRunner(started)
          PROVE  /\ mpc' \in [Session -> RunnerState] /\ UNCHANGED munRunThreadId
                 /\ xpc = "spawn" /\ xpc' = "spawnreceive"
                 /\ UNCHANGED <<fdtab, m_nSocketFD, hup, filter, queues, receivers, idle, calls, held>>
      BY <3>1, <3>4 DEF SpawnRunner, OnlyApp
    <3> QED BY <1>3, <3>1, <3>2, <3>3, <3>4
  <2>2. TypeOK'
    <3> HIDE DEF RunnerState, ReceiverState
    <3> QED BY <2>1 DEF TypeOK
  <2> QED BY <1>0, <2>1, <2>2 DEF Locals
<1>4. ASSUME NEW started \in BOOLEAN, SpawnReceiver(started) PROVE TypeInv'
  <2>1. TypeOK'
    BY <1>4 DEF SpawnReceiver, TypeOK
  <2>2. \A s \in Session : rpc'[s] \in Reading => rpc[s] \in Reading
    BY <1>4 DEF SpawnReceiver, TypeOK, Reading
  <2> QED BY <1>0, <1>4, <2>1, <2>2 DEF SpawnReceiver, Locals
<1> QED BY <1>1, <1>2, <1>3, <1>4 DEF connectWithCallback

LEMMA TypeStop == ASSUME TypeInv, stop, UNCHANGED app PROVE TypeInv'
<1> USE DEF TypeInv, AtApp, sockets, queues, runners, held, receivers, idle, calls
<1>1. CASE Stop
  <2>1. /\ fdtab' \in [FD -> Session \cup {0}] /\ m_nSocketFD' \in FD \cup {None}
        /\ xpc' \in AppState /\ filter # 0
        /\ UNCHANGED <<hup, filter, queues, receivers, idle, calls, runners>>
    BY <1>1 DEF Stop, socketClose, OnlyApp, TypeOK
  <2>2. TypeOK'
    BY <2>1 DEF TypeOK
  <2> QED BY <2>1, <2>2 DEF Locals
<1>2. CASE Halt
  <2>1. /\ mpc' \in [Session -> RunnerState]
        /\ xpc' \in AppState /\ xpc # "new"
        /\ missed' \subseteq Session
        /\ UNCHANGED <<fdtab, m_nSocketFD, hup, filter, queues, receivers, idle, told, taken, takers, munRunThreadId, held>>
    BY <1>2, Constants DEF Halt, threadCancel, OnlyApp, TypeOK
  <2>2. TypeOK'
    BY <2>1 DEF TypeOK
  <2> QED BY <2>1, <2>2 DEF Locals
<1>3. CASE HaltJoin
  <2>1. /\ mpc' \in [Session -> RunnerState] /\ munRunThreadId' = 0
        /\ xpc' \in AppState /\ xpc # "new" /\ removed' \subseteq Session
        /\ UNCHANGED <<sockets, filter, msqid, m_nEvent, receivers, idle, calls, held>>
    BY <1>3, Constants DEF HaltJoin, JoinRunner, TypeOK
  <2>2. box' \in [Session -> Seq(Msg)] /\ \A q \in Session : Len(box'[q]) <= QueueCap
    <3>1. box \in [Session -> Seq(Msg)] /\ \A q \in Session : Len(box[q]) <= QueueCap
      BY DEF TypeOK
    <3>2. <<>> \in Seq(Msg) /\ Len(<<>>) <= QueueCap
      BY Constants
    <3>3. \A q \in Session : box'[q] \in {box[q], <<>>}
      BY <1>3 DEF HaltJoin
    <3>4. box' = [q \in Session |-> box'[q]]
      BY <1>3, <3>1 DEF HaltJoin
    <3> QED BY <3>1, <3>2, <3>3, <3>4
  <2>3. TypeOK'
    <3> HIDE DEF RunnerState, ReceiverState
    <3> QED BY <2>1, <2>2, Constants DEF TypeOK
  <2> QED BY <2>1, <2>3 DEF Locals
<1> QED BY <1>1, <1>2, <1>3 DEF stop

LEMMA TypeOther ==
    ASSUME TypeInv, UNCHANGED app,
           \/ AppClose \/ (\E on \in BOOLEAN : SetIdleTimer(on)) \/ Age \/ TimerFire
           \/ \E s \in Session : ServerHangup(s)
    PROVE  TypeInv'
<1> USE DEF TypeInv, sockets, queues, runners, held, receivers, idle, calls
<1>1. ASSUME AppClose \/ TimerFire PROVE TypeInv'
  <2>1. PICK to, cmd, id, c : Post(to, cmd, id, c) /\ [to |-> to, cmd |-> cmd, id |-> id, conn |-> c] \in Msg
    <3>1. filter \in 0..MaxConnects /\ timer \in 0..MaxConnects /\ m_nSocketFD \in FD \cup {None}
      BY DEF TypeOK
    <3>2. CASE AppClose
      <4>1. filter \in Session /\ Post(filter, "SERVER_CLOSE", m_nSocketFD, filter)
        BY <3>1, <3>2, Constants DEF AppClose, closeServer, Locals
      <4>2. [to |-> filter, cmd |-> "SERVER_CLOSE", id |-> m_nSocketFD, conn |-> filter] \in Msg
        BY <3>1, <4>1 DEF Msg, Command
      <4> QED BY <4>1, <4>2
    <3>3. CASE TimerFire
      <4>1. timer \in Session /\ Post(timer, "TIMER", None, 0)
        BY <3>1, <3>3, Constants DEF TimerFire
      <4>2. [to |-> timer, cmd |-> "TIMER", id |-> None, conn |-> 0] \in Msg
        BY <4>1 DEF Msg, Command
      <4> QED BY <4>1, <4>2
    <3> QED BY <1>1, <3>2, <3>3
  <2>2. box' \in [Session -> Seq(Msg)] /\ \A q \in Session : Len(box'[q]) <= QueueCap
    BY <2>1, PostType
  <2>3. UNCHANGED <<sockets, filter, removed, msqid, m_nEvent, runners, receivers, xpc, idle, calls>>
    BY <1>1 DEF AppClose, TimerFire
  <2> QED BY <2>2, <2>3 DEF TypeOK, Locals
<1>2. ASSUME (\E on \in BOOLEAN : SetIdleTimer(on)) \/ Age \/ \E s \in Session : ServerHangup(s) PROVE TypeInv'
  <2>1. /\ timer' \in 0..MaxConnects /\ aged' \in BOOLEAN /\ hup' \subseteq Session
        /\ UNCHANGED <<fdtab, m_nSocketFD, filter, queues, runners, receivers, xpc, calls>>
    <3>1. filter \in 0..MaxConnects /\ timer \in 0..MaxConnects /\ aged \in BOOLEAN /\ hup \subseteq Session
      BY DEF TypeOK
    <3>2. ASSUME NEW on \in BOOLEAN, SetIdleTimer(on)
          PROVE  /\ timer' \in 0..MaxConnects
                 /\ UNCHANGED <<aged, hup, fdtab, m_nSocketFD, filter, queues, runners, receivers, xpc, calls>>
      BY <3>1, <3>2, Constants DEF SetIdleTimer
    <3>3. ASSUME Age \/ \E s \in Session : ServerHangup(s)
          PROVE  /\ aged' \in BOOLEAN /\ hup' \subseteq Session
                 /\ UNCHANGED <<timer, fdtab, m_nSocketFD, filter, queues, runners, receivers, xpc, calls>>
      BY <3>1, <3>3 DEF Age, ServerHangup
    <3> QED BY <1>2, <3>1, <3>2, <3>3
  <2> QED BY <2>1 DEF TypeOK, Locals
<1> QED BY <1>1, <1>2

LEMMA TypeReceiver == ASSUME TypeInv, NEW s \in Session, runTcpReceive(s), UNCHANGED app PROVE TypeInv'
<1> USE DEF TypeInv, sockets, queues, runners, held, receivers, idle, calls, OnlyReceiver
<1>0. /\ rpc \in [Session -> ReceiverState] /\ rfd \in [Session -> FD \cup {None}]
      /\ src \in [Session -> Session \cup {0}] /\ fdtab \in [FD -> Session \cup {0}]
      /\ m_nSocketFD \in FD \cup {None} /\ filter \in 0..MaxConnects
  BY DEF TypeOK
<1>l. /\ rpc[s] \in Reading => rfd[s] \in FD
      /\ rpc[s] # "none" => filter # 0
  BY DEF Locals
<1>1. ASSUME NEW to \in ReceiverState, rpc[s] # "none", rpc' = [rpc EXCEPT ![s] = to], to \in Reading => rfd'[s] \in FD,
             rfd' \in [Session -> FD \cup {None}], \A t \in Session \ {s} : rfd'[t] = rfd[t],
             src' \in [Session -> Session \cup {0}],
             box' \in [Session -> Seq(Msg)], \A q \in Session : Len(box'[q]) <= QueueCap,
             UNCHANGED <<sockets, filter, removed, msqid, m_nEvent, runners, xpc, idle, calls>>
      PROVE  TypeInv'
  <2>1. rpc' \in [Session -> ReceiverState]
    BY <1>0, <1>1
  <2>2. TypeOK'
    <3> HIDE DEF RunnerState, ReceiverState
    <3> QED BY <1>1, <2>1 DEF TypeOK
  <2> QED BY <1>0, <1>l, <1>1, <2>2 DEF Locals
<1>b. box \in [Session -> Seq(Msg)] /\ \A q \in Session : Len(box[q]) <= QueueCap
  BY DEF TypeOK
<1>2. ASSUME Start(s) PROVE TypeInv'
  <2>1. PICK to \in {"lost", "connect"} :
          rpc[s] = "start" /\ rpc' = [rpc EXCEPT ![s] = to] /\ (to = "connect" => m_nSocketFD # None)
    BY <1>2 DEF Start, Goto
  <2>2. rfd' = [rfd EXCEPT ![s] = m_nSocketFD]
    BY <1>2 DEF Start
  <2>3. /\ rfd' \in [Session -> FD \cup {None}] /\ \A t \in Session \ {s} : rfd'[t] = rfd[t]
        /\ to \in Reading => rfd'[s] \in FD
    BY <1>0, <2>1, <2>2 DEF Reading
  <2> QED BY <1>0, <1>b, <1>1, <1>2, <2>1, <2>3 DEF Start
<1>3. ASSUME RecvCall(s) \/ RecvReturns(s) \/ Exit(s) PROVE TypeInv'
  <2>1. PICK to \in {"disconnect", "blocked", "receive", "zombie"} :
          /\ rpc[s] # "none" /\ rpc' = [rpc EXCEPT ![s] = to] /\ (to # "zombie" => rpc[s] \in Reading)
    BY <1>3 DEF RecvCall, RecvReturns, Exit, Goto, Reading
  <2>2. src' \in [Session -> Session \cup {0}]
    BY <1>0, <1>l, <1>3 DEF RecvCall, RecvReturns, Exit, Goto, Reading
  <2>3. UNCHANGED <<rfd, box, sockets, filter, removed, msqid, m_nEvent, runners, xpc, idle, calls>>
    BY <1>3 DEF RecvCall, RecvReturns, Exit
  <2> QED BY <1>0, <1>b, <1>l, <1>1, <2>1, <2>2, <2>3 DEF Reading
<1>4. ASSUME SendConnect(s) \/ SendReceive(s) \/ SendAlive(s) \/ SendDisconnect(s) \/ SendThreadExit(s) PROVE TypeInv'
  <2>1. PICK cmd \in Command, to \in {"recv", "alive", "exit"} :
          /\ rpc[s] # "none" /\ rpc' = [rpc EXCEPT ![s] = to] /\ (to # "exit" => rpc[s] \in Reading)
          /\ Post(filter, cmd, rfd[s], s)
          /\ UNCHANGED <<rfd, src, sockets, filter, removed, msqid, m_nEvent, runners, xpc, idle, calls>>
    BY <1>4 DEF SendConnect, SendReceive, SendAlive, SendDisconnect, SendThreadExit, SendStep, Goto, Reading, Command
  <2>2. [to |-> filter, cmd |-> cmd, id |-> rfd[s], conn |-> s] \in Msg
    BY <1>0, <1>l, <2>1, Constants DEF Msg
  <2>3. box' \in [Session -> Seq(Msg)] /\ \A q \in Session : Len(box'[q]) <= QueueCap
    BY <2>1, <2>2, PostType
  <2>4. to \in Reading => rfd'[s] \in FD
    BY <1>l, <2>1 DEF Reading
  <2>5. src' \in [Session -> Session \cup {0}] /\ rfd' \in [Session -> FD \cup {None}]
        /\ \A t \in Session \ {s} : rfd'[t] = rfd[t]
    BY <1>0, <2>1
  <2> QED BY <1>1, <2>1, <2>3, <2>4, <2>5
<1> QED BY <1>2, <1>3, <1>4 DEF runTcpReceive

\* The first message for the filter that msgrcv was called with.
LEMMA FirstFacts ==
    ASSUME TypeInv, NEW s \in Session, Usable(call[s][1]), Waiting(s) # {}
    PROVE  /\ call[s][1] \in Session /\ box[call[s][1]] \in Seq(Msg)
           /\ First(s) \in DOMAIN box[call[s][1]] /\ FirstMsg(s) = box[call[s][1]][First(s)]
           /\ FirstMsg(s) \in Msg /\ FirstMsg(s).to = call[s][2]
           /\ \A j \in DOMAIN box[call[s][1]] : box[call[s][1]][j].to = call[s][2] => First(s) <= j
<1> DEFINE q == box[call[s][1]]
<1>1. call[s][1] \in Session /\ q \in Seq(Msg)
  BY DEF Usable, TypeInv, TypeOK
<1>2. DOMAIN q = 1..Len(q) /\ Len(q) \in Nat /\ \A j \in DOMAIN q : q[j] \in Msg
  BY <1>1
<1> HIDE DEF q
<1>3. Waiting(s) = {i \in DOMAIN q : q[i].to = call[s][2]}
  BY DEF Waiting, q
<1>4. Waiting(s) \subseteq Nat
  BY <1>2, <1>3
<1>5. First(s) \in Waiting(s) /\ \A j \in Waiting(s) : First(s) <= j
  BY <1>4, LeastIndex DEF First
<1> QED BY <1>1, <1>2, <1>3, <1>5 DEF FirstMsg, q

\* What msgrcv does to the queue.
LEMMA TakeFacts ==
    ASSUME TypeInv, NEW s \in Session, Take(s)
    PROVE  /\ Usable(call[s][1]) /\ Waiting(s) # {}
           /\ box' \in [Session -> Seq(Msg)] /\ \A q \in Session : Len(box'[q]) <= QueueCap
           /\ box'[call[s][1]] = RemoveAt(box[call[s][1]], First(s))
           /\ \A q \in Session : q # call[s][1] => box'[q] = box[q]
<1>1. Usable(call[s][1]) /\ Waiting(s) # {}
  BY DEF Take
<1>2. /\ call[s][1] \in Session /\ box[call[s][1]] \in Seq(Msg) /\ First(s) \in DOMAIN box[call[s][1]]
  BY <1>1, FirstFacts
<1>3. box \in [Session -> Seq(Msg)] /\ \A q \in Session : Len(box[q]) <= QueueCap
  BY DEF TypeInv, TypeOK
<1> DEFINE q == box[call[s][1]]
           p == RemoveAt(q, First(s))
<1>4. p \in Seq(Msg) /\ Len(p) <= QueueCap
  <2>1. p \in Seq(Msg) /\ Len(p) = Len(q) - 1
    BY <1>2, RemoveFacts
  <2>2. Len(q) \in Nat /\ Len(q) <= QueueCap
    BY <1>2, <1>3
  <2> HIDE DEF q, p
  <2> QED BY <2>1, <2>2, Constants
<1>5. box' = [box EXCEPT ![call[s][1]] = p]
  BY DEF Take
<1> HIDE DEF p
<1> QED BY <1>1, <1>2, <1>3, <1>4, <1>5 DEF p

\* What msgrcv gives, and what is noted of it.
LEMMA TakenFacts ==
    ASSUME TypeInv, NEW s \in Session, Take(s)
    PROVE  /\ FirstMsg(s) \in Msg /\ mpc[s] = "wait"
           /\ mpc' = [mpc EXCEPT ![s] = "handle"]
           /\ cur' = [cur EXCEPT ![s] = FirstMsg(s)]
           /\ \A c \in Session : takers'[c] = IF c = FirstMsg(s).conn THEN takers[c] \cup {s} ELSE takers[c]
           /\ takers' \in [Session -> SUBSET Session]
           /\ \A c \in Session : taken'[c] = IF c = FirstMsg(s).conn /\ FirstMsg(s).cmd = "CONNECT" THEN "connected"
                                             ELSE IF c = FirstMsg(s).conn /\ FirstMsg(s).cmd = "DISCONNECT"
                                             THEN "disconnected" ELSE taken[c]
           /\ taken' \in [Session -> {"nothing", "connected", "disconnected"}]
<1>1. FirstMsg(s) \in Msg
  BY FirstFacts DEF Take
<1>2. /\ takers \in [Session -> SUBSET Session]
      /\ taken \in [Session -> {"nothing", "connected", "disconnected"}]
  BY DEF TypeInv, TypeOK
<1> QED BY <1>1, <1>2 DEF Take, Run

Handles(s) ==
    \/ HandleConnect(s) \/ HandleAlive(s) \/ HandleOther(s)
    \/ HandleDisconnect(s) \/ HandleServerClose(s) \/ HandleTimer(s)

\* What is common to the handlers of the messages.
LEMMA HandlesOne ==
    ASSUME NEW s \in Session, Handles(s)
    PROVE  \E to \in {"call", "cancelled", "closing"} : Handle(s, {cur[s].cmd}, to)
<1>1. ASSUME NEW cmds, NEW to \in {"call", "cancelled", "closing"}, Handle(s, cmds, to)
      PROVE  Handle(s, {cur[s].cmd}, to)
  BY <1>1 DEF Handle
<1> QED BY <1>1 DEF Handles, HandleConnect, HandleAlive, HandleOther, HandleDisconnect, HandleServerClose, HandleTimer

LEMMA TypeRunner == ASSUME TypeInv, NEW s \in Session, runMessageReceive(s), UNCHANGED app PROVE TypeInv'
<1> USE DEF TypeInv, sockets, queues, runners, held, receivers, calls, OnlyRunner, NoMessage
<1>0. /\ mpc \in [Session -> RunnerState] /\ call \in [Session -> (0..MaxConnects) \X (0..MaxConnects)]
      /\ munRunThreadId \in 0..MaxConnects /\ m_nEvent \in 0..MaxConnects /\ msqid \in 0..MaxConnects
      /\ filter \in 0..MaxConnects /\ aged \in BOOLEAN
      /\ told \in [Session -> {"nothing", "connected", "disconnected"}]
      /\ m_nSocketFD \in FD \cup {None} /\ cur \in [Session -> Msg \cup {NoMsg}]
  BY DEF TypeOK
<1>b. box \in [Session -> Seq(Msg)] /\ \A q \in Session : Len(box[q]) <= QueueCap
  BY DEF TypeOK
<1>c. /\ takers \in [Session -> SUBSET Session]
      /\ taken \in [Session -> {"nothing", "connected", "disconnected"}]
  BY DEF TypeOK
<1>1. ASSUME NEW to \in RunnerState, mpc[s] # "none", mpc' = [mpc EXCEPT ![s] = to],
             box' \in [Session -> Seq(Msg)], \A q \in Session : Len(box'[q]) <= QueueCap,
             m_nEvent' \in 0..MaxConnects, munRunThreadId' \in 0..MaxConnects, aged' \in BOOLEAN,
             call' \in [Session -> (0..MaxConnects) \X (0..MaxConnects)],
             cur' \in [Session -> Msg \cup {NoMsg}],
             told' \in [Session -> {"nothing", "connected", "disconnected"}],
             taken' \in [Session -> {"nothing", "connected", "disconnected"}],
             takers' \in [Session -> SUBSET Session],
             UNCHANGED <<sockets, filter, removed, msqid, receivers, xpc, timer, missed>>
      PROVE  TypeInv'
  <2>1. mpc' \in [Session -> RunnerState] /\ filter # 0
    BY <1>0, <1>1 DEF Locals
  <2>2. TypeOK'
    <3> HIDE DEF RunnerState, ReceiverState
    <3> QED BY <1>1, <2>1 DEF TypeOK
  <2> QED BY <1>1, <2>1, <2>2 DEF Locals
<1>2. ASSUME RunnerStart(s) \/ RunnerRun(s) \/ RunnerWoken(s) \/ RunnerEnd(s) PROVE TypeInv'
  <2>1. PICK to \in RunnerState : mpc' = [mpc EXCEPT ![s] = to] /\ mpc[s] # "none"
    BY <1>2 DEF RunnerStart, RunnerRun, RunnerWoken, RunnerEnd, Run
  <2>2. /\ m_nEvent' \in 0..MaxConnects /\ munRunThreadId' \in 0..MaxConnects
        /\ cur' \in [Session -> Msg \cup {NoMsg}]
        /\ UNCHANGED <<box, aged, told, taken, takers, call, sockets, filter, removed, msqid, receivers, xpc,
                       timer, missed>>
    BY <1>0, <1>2, Constants DEF RunnerStart, RunnerRun, RunnerWoken, RunnerEnd
  <2> QED BY <1>0, <1>b, <1>c, <1>1, <2>1, <2>2
<1>3. ASSUME RunnerCall(s) PROVE TypeInv'
  <2>1. call' = [call EXCEPT ![s] = <<msqid, m_nEvent>>] /\ <<msqid, m_nEvent>> \in (0..MaxConnects) \X (0..MaxConnects)
    BY <1>0, <1>3 DEF RunnerCall
  <2>2. call' \in [Session -> (0..MaxConnects) \X (0..MaxConnects)]
    BY <1>0, <2>1
  <2>3. /\ mpc' = [mpc EXCEPT ![s] = "wait"] /\ mpc[s] # "none"
        /\ UNCHANGED <<box, m_nEvent, munRunThreadId, cur, aged, told, taken, takers, sockets, filter, removed,
                       msqid, receivers, xpc, timer, missed>>
    BY <1>3 DEF RunnerCall, Run
  <2> QED BY <1>0, <1>b, <1>c, <1>1, <2>2, <2>3
<1>4. ASSUME IdleClose(s) PROVE TypeInv'
  <2>1. filter \in Session /\ Post(filter, "SERVER_CLOSE", m_nSocketFD, filter)
    BY <1>0, <1>4, Constants DEF IdleClose, Run, closeServer, Locals
  <2>2. [to |-> filter, cmd |-> "SERVER_CLOSE", id |-> m_nSocketFD, conn |-> filter] \in Msg
    BY <1>0, <2>1 DEF Msg, Command
  <2>3. box' \in [Session -> Seq(Msg)] /\ \A q \in Session : Len(box'[q]) <= QueueCap
    BY <2>1, <2>2, PostType
  <2>4. /\ mpc' = [mpc EXCEPT ![s] = "call"] /\ mpc[s] # "none"
        /\ UNCHANGED <<m_nEvent, munRunThreadId, call, cur, aged, told, taken, takers, sockets, filter, removed,
                       msqid, receivers, xpc, timer, missed>>
    BY <1>4 DEF IdleClose, Run
  <2> QED BY <1>0, <1>c, <1>1, <2>3, <2>4
<1>5. ASSUME Take(s) PROVE TypeInv'
  <2>1. box' \in [Session -> Seq(Msg)] /\ \A q \in Session : Len(box'[q]) <= QueueCap
    BY <1>5, TakeFacts
  <2>2. /\ mpc' = [mpc EXCEPT ![s] = "handle"] /\ mpc[s] # "none"
        /\ cur' \in [Session -> Msg \cup {NoMsg}]
        /\ taken' \in [Session -> {"nothing", "connected", "disconnected"}]
        /\ takers' \in [Session -> SUBSET Session]
    BY <1>0, <1>5, TakenFacts
  <2>3. UNCHANGED <<m_nEvent, munRunThreadId, call, aged, told, sockets, filter, removed, msqid, receivers, xpc,
                    timer, missed>>
    BY <1>5 DEF Take
  <2> QED BY <1>0, <1>1, <2>1, <2>2, <2>3
<1>6. ASSUME NEW cmds, NEW to \in RunnerState, Handle(s, cmds, to), aged' \in BOOLEAN,
             told' \in [Session -> {"nothing", "connected", "disconnected"}]
      PROVE  TypeInv'
  <2>1. PICK next \in RunnerState : mpc' = [mpc EXCEPT ![s] = next] /\ mpc[s] # "none"
    BY <1>6 DEF Handle
  <2>2. /\ cur' \in [Session -> Msg \cup {NoMsg}]
        /\ UNCHANGED <<box, m_nEvent, munRunThreadId, call, taken, takers, sockets, filter, removed, msqid,
                       receivers, xpc, timer, missed>>
    BY <1>0, <1>6 DEF Handle
  <2> QED BY <1>0, <1>b, <1>c, <1>1, <1>6, <2>1, <2>2
<1>7. ASSUME Handles(s) PROVE TypeInv'
  <2>1. /\ aged' \in BOOLEAN
        /\ told' \in [Session -> {"nothing", "connected", "disconnected"}]
    BY <1>0, <1>7 DEF Handles, HandleConnect, HandleAlive, HandleOther, HandleDisconnect, HandleServerClose, HandleTimer
  <2>2. \E to \in RunnerState : Handle(s, {cur[s].cmd}, to)
    BY <1>7, HandlesOne
  <2> QED BY <1>6, <2>1, <2>2
<1> QED BY <1>2, <1>3, <1>4, <1>5, <1>7 DEF runMessageReceive, Handles

LEMMA TypeStep == TypeInv /\ [Next]_<<vars, app>> => TypeInv'
<1> SUFFICES ASSUME TypeInv, [Next]_<<vars, app>> PROVE TypeInv'
  OBVIOUS
<1>1. CASE UNCHANGED <<vars, app>>
  BY <1>1 DEF TypeInv, TypeOK, Locals, vars, sockets, queues, runners, held, receivers, idle, calls
<1>2. CASE Next
  BY <1>2, TypeConnect, TypeStop, TypeOther, TypeReceiver, TypeRunner DEF Next
<1> QED BY <1>1, <1>2

\* Every variable of the client keeps its type, and no queue holds more messages
\* than it has room for, whatever threads of earlier connects still post.
THEOREM TypeCorrect == Spec => []TypeOK
<1>1. Spec => []TypeInv
  BY TypeInit, TypeStep, PTL DEF Spec
<1>2. TypeInv => TypeOK
  BY DEF TypeInv
<1> QED BY <1>1, <1>2, PTL

-----------------------------------------------------------------------------
(* What stop() goes by                                                     *)

Dialled == {"dial", "reap", "reapjoin", "spawn", "spawnreceive", "up"}

LEMMA KnownInit == Init => KnownInv
BY DEF Init, KnownInv

LEMMA KnownFrame ==
    ASSUME KnownInv, UNCHANGED <<app, fdtab, m_nSocketFD>>,
           munRunThreadId' # 0 => mpc'[munRunThreadId'] # "joined",
           xpc \in Dialled => xpc' \in Dialled
    PROVE  KnownInv'
BY DEF KnownInv, Dialled

LEMMA KnownConnect == ASSUME TypeInv, KnownInv, connectWithCallback, UNCHANGED app PROVE KnownInv'
<1> USE DEF AtApp, OnlyApp, sockets, runners, Dialled
<1>0. /\ mpc \in [Session -> RunnerState] /\ munRunThreadId \in 0..MaxConnects
      /\ fdtab \in [FD -> Session \cup {0}] /\ app.stopsFirst \in BOOLEAN
  BY DEF TypeInv, TypeOK, App
<1>1. ASSUME NEW outcome \in {"no queue", "bad address", "ready"}, Begin(outcome) PROVE KnownInv'
  <2>1. /\ munRunThreadId' = 0 /\ UNCHANGED sockets
        /\ xpc \in {"new", "stopped"} \/ ~app.stopsFirst
    BY <1>1 DEF Begin
  <2> QED BY <2>1 DEF KnownInv
<1>2. ASSUME NEW fd \in FD, CreateSocket(fd) PROVE KnownInv'
  BY <1>0, <1>2 DEF CreateSocket, KnownInv
<1>3. CASE CreateSocketFails
  BY <1>3 DEF CreateSocketFails, KnownInv
<1>4. CASE Dial
  BY <1>4 DEF Dial, KnownInv
<1>5. CASE DialFails
  BY <1>0, <1>5 DEF DialFails, socketClose, KnownInv
<1>6. CASE Reap
  <2>1. munRunThreadId' # 0 => mpc'[munRunThreadId'] # "joined"
    BY <1>0, <1>6, Constants DEF Reap, threadCancel, KnownInv
  <2> QED BY <1>6, <2>1, KnownFrame DEF Reap
<1>7. CASE ReapJoin
  BY <1>7, KnownFrame DEF ReapJoin, JoinRunner
<1>8. ASSUME NEW started \in BOOLEAN, SpawnRunner(started) PROVE KnownInv'
  <2>1. munRunThreadId' # 0 => mpc'[munRunThreadId'] # "joined"
    BY <1>0, <1>8 DEF SpawnRunner, KnownInv
  <2> QED BY <1>8, <2>1, KnownFrame DEF SpawnRunner
<1>9. ASSUME NEW started \in BOOLEAN, SpawnReceiver(started) PROVE KnownInv'
  BY <1>9 DEF SpawnReceiver, KnownInv
<1> QED BY <1>1, <1>2, <1>3, <1>4, <1>5, <1>6, <1>7, <1>8, <1>9 DEF connectWithCallback

LEMMA KnownStop == ASSUME TypeInv, KnownInv, stop, UNCHANGED app PROVE KnownInv'
<1> USE DEF AtApp, OnlyApp, sockets, runners, Dialled
<1>0. /\ mpc \in [Session -> RunnerState] /\ munRunThreadId \in 0..MaxConnects
      /\ fdtab \in [FD -> Session \cup {0}]
  BY DEF TypeInv, TypeOK
<1>1. CASE Stop
  BY <1>0, <1>1 DEF Stop, socketClose, KnownInv
<1>2. CASE Halt
  <2>1. munRunThreadId' # 0 => mpc'[munRunThreadId'] # "joined"
    BY <1>0, <1>2, Constants DEF Halt, threadCancel, KnownInv
  <2> QED BY <1>2, <2>1, KnownFrame DEF Halt
<1>3. CASE HaltJoin
  BY <1>3, KnownFrame DEF HaltJoin, JoinRunner
<1> QED BY <1>1, <1>2, <1>3 DEF stop

LEMMA KnownRunner == ASSUME TypeInv, KnownInv, NEW s \in Session, runMessageReceive(s), UNCHANGED app PROVE KnownInv'
<1>1. PICK to : to # "joined" /\ mpc' = [mpc EXCEPT ![s] = to]
  <2>1. CASE Handles(s)
    BY <2>1, HandlesOne DEF Handle
  <2>2. CASE ~Handles(s)
    BY <2>2 DEF runMessageReceive, Handles, RunnerStart, RunnerRun, RunnerCall, RunnerWoken, RunnerEnd, IdleClose, Take, Run
  <2> QED BY <2>1, <2>2
<1>2. UNCHANGED <<fdtab, m_nSocketFD, xpc>> /\ munRunThreadId' \in {munRunThreadId, s}
  <2>1. CASE Handles(s)
    BY <2>1, HandlesOne DEF Handle, OnlyRunner, sockets
  <2>2. CASE ~Handles(s)
    BY <2>2 DEF runMessageReceive, Handles, RunnerStart, RunnerRun, RunnerCall, RunnerWoken, RunnerEnd, IdleClose, Take,
                OnlyRunner, sockets
  <2> QED BY <2>1, <2>2
<1>3. mpc \in [Session -> RunnerState] /\ munRunThreadId \in Session \cup {0}
  BY Constants DEF TypeInv, TypeOK
<1>4. \A t \in Session : mpc'[t] = IF t = s THEN to ELSE mpc[t]
  BY <1>1, <1>3
<1>5. munRunThreadId' # 0 => mpc'[munRunThreadId'] # "joined"
  BY <1>1, <1>2, <1>3, <1>4 DEF KnownInv
<1> QED BY <1>2, <1>5, KnownFrame

LEMMA KnownStep == TypeInv /\ KnownInv /\ [Next]_<<vars, app>> => KnownInv'
<1> SUFFICES ASSUME TypeInv, KnownInv, [Next]_<<vars, app>> PROVE KnownInv'
  OBVIOUS
<1> USE DEF sockets, runners
<1>1. ASSUME UNCHANGED <<app, fdtab, m_nSocketFD, munRunThreadId, mpc, xpc>> PROVE KnownInv'
  BY <1>1 DEF KnownInv
<1>2. CASE UNCHANGED <<vars, app>>
  BY <1>1, <1>2 DEF vars
<1>3. ASSUME UNCHANGED app,
             \/ AppClose \/ (\E on \in BOOLEAN : SetIdleTimer(on)) \/ Age \/ TimerFire
             \/ \E s \in Session : ServerHangup(s)
      PROVE  KnownInv'
  BY <1>1, <1>3 DEF AppClose, SetIdleTimer, Age, TimerFire, ServerHangup
<1>4. ASSUME UNCHANGED app, NEW s \in Session, runTcpReceive(s) PROVE KnownInv'
  BY <1>1, <1>4 DEF runTcpReceive, Start, RecvCall, RecvReturns, Exit, SendConnect, SendReceive, SendAlive,
                    SendDisconnect, SendThreadExit, SendStep, OnlyReceiver
<1>5. CASE Next
  BY <1>3, <1>4, <1>5, KnownConnect, KnownStop, KnownRunner DEF Next
<1> QED BY <1>2, <1>5

\* stop() and connect() never go by a thread id that was joined, and of an application
\* that stops before it connects again stop() knows every open socket, whichever
\* step of connect() failed before.
THEOREM StopKnows == Spec => []StopKnowsAll
<1>1. Init => TypeInv /\ KnownInv
  BY TypeInit, KnownInit
<1>2. TypeInv /\ KnownInv /\ [Next]_<<vars, app>> => (TypeInv /\ KnownInv)'
  BY TypeStep, KnownStep
<1>3. TypeInv /\ KnownInv => StopKnowsAll
  BY DEF KnownInv, StopKnowsAll
<1> QED BY <1>1, <1>2, <1>3, PTL DEF Spec

-----------------------------------------------------------------------------
(* The callbacks of the connection in use                                  *)

LEMMA CallInit == Init => CallInv
<1> SUFFICES ASSUME Init PROVE CallInv
  OBVIOUS
<1>1. \A q \in Session : Elems(box[q]) = {} /\ DOMAIN box[q] = {}
  BY DEF Init, Elems
<1>2. \A s \in Session : s # filter
  BY Constants DEF Init
<1> QED BY <1>1, <1>2 DEF Init, CallInv, FreshInv, PlaceInv, GivenInv, Given, OrderInv, InOrder, Connecting

\* A step that neither sends nor takes a message, nor tells the application
\* anything, and is not of the receive thread of the connection in use, unless
\* that one ends without having found its socket.
LEMMA CallFrame ==
    ASSUME CallInv, UNCHANGED <<filter, box, msqid, taken>>, removed \subseteq removed',
           \A s \in Session : s = filter \/ rpc[s] = "none" =>
              rpc'[s] = rpc[s] \/ (rpc[s] = "lost" /\ rpc'[s] = "exit"),
           xpc' \in Connecting => xpc \in Connecting
    PROVE  CallInv'
<1>1. FreshInv' /\ PlaceInv'
  BY Constants DEF CallInv, FreshInv, PlaceInv
<1>2. OrderInv'
  BY DEF CallInv, OrderInv, InOrder, Own
<1>3. GivenInv'
  <2> SUFFICES ASSUME NEW s \in Session, s = filter PROVE Given(s)'
    BY DEF GivenInv
  <2>1. Given(s) /\ (rpc'[s] = rpc[s] \/ (rpc[s] = "lost" /\ rpc'[s] = "exit"))
    BY DEF CallInv, GivenInv
  <2>2. /\ \A m : Own(m)' <=> Own(m)
        /\ \A q \in Session : OwnConnect(q)' <=> OwnConnect(q)
        /\ OwnConnect(msqid)' <=> OwnConnect(msqid)
        /\ Usable(msqid)' => Usable(msqid)
    BY DEF Own, OwnConnect, Usable
  <2> QED BY <2>1, <2>2 DEF Given, Reading
<1> QED BY <1>1, <1>2, <1>3 DEF CallInv

\* A message that says nothing of the connection in use.
LEMMA CallPost ==
    ASSUME TypeInv, CallInv, NEW to, NEW cmd, NEW id, NEW c,
           [to |-> to, cmd |-> cmd, id |-> id, conn |-> c] \in Msg, Post(to, cmd, id, c),
           c <= filter, c = filter => cmd \notin ThreadCmd /\ (c # 0 => to = filter),
           UNCHANGED <<filter, msqid, removed, taken, xpc>>,
           \A s \in Session : s = filter \/ rpc[s] = "none" =>
              rpc'[s] = rpc[s] \/ (rpc[s] = "lost" /\ rpc'[s] = "exit")
    PROVE  CallInv'
<1> DEFINE m == [to |-> to, cmd |-> cmd, id |-> id, conn |-> c]
<1>0. /\ m.to = to /\ m.cmd = cmd /\ m.conn = c
  OBVIOUS
<1>1. CASE UNCHANGED box
  BY <1>1, CallFrame
<1>2. CASE /\ Usable(msqid) /\ \A q \in Session : q # msqid => box'[q] = box[q]
           /\ box'[msqid] = Append(box[msqid], m)
           /\ Elems(box'[msqid]) = Elems(box[msqid]) \cup {m}
  <2> HIDE DEF m
  <2>1. msqid \in Session /\ box[msqid] \in Seq(Msg)
    BY <1>2 DEF Usable, TypeInv, TypeOK
  <2>2. ~Own(m)
    BY <1>0 DEF Own
  <2>3. \A q \in Session : Elems(box[q]) \subseteq Elems(box'[q])
    BY <1>2
  <2>4. \A q \in Session : \A n \in Elems(box'[q]) : n \in Elems(box[q]) \/ (q = msqid /\ n = m)
    BY <1>2
  <2>5. FreshInv'
    BY <1>0, <2>4 DEF CallInv, FreshInv
  <2>6. PlaceInv'
    BY <1>0, <2>4 DEF CallInv, PlaceInv
  <2>7. OrderInv'
    <3>1. /\ Len(box[msqid]) \in Nat /\ DOMAIN box[msqid] = 1..Len(box[msqid])
          /\ DOMAIN box'[msqid] = 1..(Len(box[msqid]) + 1)
          /\ \A i \in 1..Len(box[msqid]) : box'[msqid][i] = box[msqid][i]
          /\ box'[msqid][Len(box[msqid]) + 1] = m
      <4>1. m \in Msg
        BY DEF m
      <4> QED BY <1>2, <2>1, <4>1
    <3>2. \A i \in DOMAIN box'[msqid] : Own(box'[msqid][i]) => i \in DOMAIN box[msqid] /\ box'[msqid][i] = box[msqid][i]
      BY <2>2, <3>1
    <3> QED BY SMTT(30), <1>2, <3>2 DEF CallInv, OrderInv, InOrder, Own
  <2>8. GivenInv'
    <3> SUFFICES ASSUME NEW s \in Session, s = filter PROVE Given(s)'
      BY DEF GivenInv
    <3>1. Given(s) /\ (rpc'[s] = rpc[s] \/ (rpc[s] = "lost" /\ rpc'[s] = "exit"))
      BY DEF CallInv, GivenInv
    <3>2. /\ \A n : Own(n)' <=> Own(n)
          /\ Usable(msqid)' => Usable(msqid)
      BY DEF Own, Usable
    <3>3. /\ \A q \in Session : OwnConnect(q) => OwnConnect(q)'
          /\ OwnConnect(msqid) => OwnConnect(msqid)'
      BY <2>1, <2>3, <3>2 DEF OwnConnect
    <3>4. \A q \in Session : \A n \in Elems(box'[q]) : Own(n) => n \in Elems(box[q])
      BY <2>2, <2>4
    <3> QED BY <3>1, <3>2, <3>3, <3>4 DEF Given, Reading
  <2> QED BY <2>5, <2>6, <2>7, <2>8 DEF CallInv
<1> QED BY <1>1, <1>2, PostType

\* A message of the receive thread of the connection in use.
LEMMA CallSend ==
    ASSUME TypeInv, CallInv, filter \in Session, NEW cmd \in ThreadCmd, NEW to \in ReceiverState,
           Post(filter, cmd, rfd[filter], filter),
           rpc' = [rpc EXCEPT ![filter] = to],
           \/ cmd = "CONNECT" /\ rpc[filter] = "connect" /\ to = "recv"
           \/ cmd \in {"RECEIVE", "ALIVE"} /\ rpc[filter] \in {"receive", "alive"} /\ to \in {"recv", "alive"}
           \/ cmd = "DISCONNECT" /\ rpc[filter] = "disconnect" /\ to = "exit",
           UNCHANGED <<filter, msqid, removed, taken, xpc>>
    PROVE  CallInv'
<1> DEFINE m == [to |-> filter, cmd |-> cmd, id |-> rfd[filter], conn |-> filter]
<1>0. /\ m.to = filter /\ m.cmd = cmd /\ m.conn = filter /\ Own(m)
      /\ \A s \in Session : rpc'[s] = IF s = filter THEN to ELSE rpc[s]
  BY DEF Own, TypeInv, TypeOK
<1>m. m \in Msg
  BY DEF TypeInv, TypeOK, Locals, Reading, Msg, Command, ThreadCmd
<1>1. FreshInv' /\ PlaceInv'
  <2>1. \A q \in Session : \A n \in Elems(box'[q]) : n \in Elems(box[q]) \/ (q = msqid /\ n = m)
    BY <1>m, PostType
  <2> HIDE DEF m
  <2>2. \A s \in Session : s > filter => s # filter
    BY DEF TypeInv, TypeOK
  <2>3. filter <= filter
    BY Constants
  <2> QED BY <1>0, <2>1, <2>2, <2>3 DEF CallInv, FreshInv, PlaceInv
<1>2. CASE UNCHANGED box /\ ~Usable(msqid)
  <2>1. OrderInv'
    BY <1>2 DEF CallInv, OrderInv, InOrder, Own
  <2>2. GivenInv'
    BY <1>0, <1>2 DEF CallInv, GivenInv, Given, Own, OwnConnect, Usable, Reading, ThreadCmd
  <2> QED BY <1>1, <2>1, <2>2 DEF CallInv
<1>3. CASE /\ Usable(msqid) /\ \A q \in Session : q # msqid => box'[q] = box[q]
           /\ box'[msqid] = Append(box[msqid], m)
           /\ Elems(box'[msqid]) = Elems(box[msqid]) \cup {m}
  <2> HIDE DEF m
  <2>1. msqid \in Session /\ box[msqid] \in Seq(Msg)
    BY <1>3 DEF Usable, TypeInv, TypeOK
  <2>2. \A n \in Elems(box[msqid]) : Own(n) => cmd # "CONNECT" /\ n.cmd # "DISCONNECT"
    BY <2>1 DEF CallInv, GivenInv, Given, Reading
  <2>3. OrderInv'
    <3>1. /\ Len(box[msqid]) \in Nat /\ DOMAIN box[msqid] = 1..Len(box[msqid])
          /\ DOMAIN box'[msqid] = 1..(Len(box[msqid]) + 1)
          /\ \A i \in 1..Len(box[msqid]) : box'[msqid][i] = box[msqid][i]
          /\ box'[msqid][Len(box[msqid]) + 1] = m
      BY <1>3, <1>m, <2>1
    <3>2. \A i, j \in DOMAIN box'[msqid] : i < j => i \in DOMAIN box[msqid] /\ box'[msqid][i] = box[msqid][i]
            /\ ((j \in DOMAIN box[msqid] /\ box'[msqid][j] = box[msqid][j]) \/ box'[msqid][j] = m)
      BY <3>1
    <3>3. InOrder(box[msqid]) /\ \A i \in DOMAIN box[msqid] : box[msqid][i] \in Elems(box[msqid])
      BY <2>1 DEF CallInv, OrderInv, Elems
    <3>4. InOrder(box'[msqid])
      BY <1>0, <2>2, <3>2, <3>3 DEF InOrder
    <3> QED BY SMTT(30), <1>3, <3>4 DEF CallInv, OrderInv, InOrder, Own
  <2>4. \A q \in Session : \A n \in Elems(box'[q]) : n \in Elems(box[q]) \/ (q = msqid /\ n = m)
    BY <1>3
  <2>5. OwnConnect(msqid) => OwnConnect(msqid)'
    BY <1>3 DEF OwnConnect, Own
  <2>6. \A q \in Session : q # msqid => \A n \in Elems(box'[q]) : ~Own(n)
    BY <1>3, Constants DEF CallInv, PlaceInv, Own
  <2>7. GivenInv'
    <3> SUFFICES ASSUME NEW s \in Session, s = filter PROVE Given(s)'
      BY DEF GivenInv
    <3>0. Given(s)
      BY DEF CallInv, GivenInv
    <3>1. rpc[s] \in Reading /\ rpc'[s] = to /\ to \in {"recv", "alive", "exit"}
      BY <1>0 DEF Reading
    <3>2. taken[s] # "disconnected"
      BY <3>0, <3>1 DEF Given, Reading
    <3>3. taken[s] = "nothing" => OwnConnect(msqid)'
      <4>1. CASE cmd = "CONNECT"
        BY <1>0, <1>3, <4>1 DEF OwnConnect, Own
      <4>2. CASE cmd # "CONNECT"
        BY <1>3, <2>5, <3>0, <3>1, <4>2 DEF Given
      <4> QED BY <4>1, <4>2
    <3>4. cmd = "CONNECT" => taken[s] = "nothing"
      BY <3>0 DEF Given
    <3>5. \A q \in Session : \A n \in Elems(box'[q]) : Own(n) =>
            /\ q = msqid /\ (n.cmd = "CONNECT" => taken[s] = "nothing")
            /\ n.cmd = "DISCONNECT" => rpc'[s] \in {"exit", "zombie"}
      BY <1>0, <2>2, <2>4, <2>6, <3>0, <3>1, <3>4 DEF Given
    <3>6. \A n : Own(n)' <=> Own(n)
      BY DEF Own
    <3> HIDE DEF ReceiverState
    <3> QED BY <3>1, <3>2, <3>3, <3>5, <3>6 DEF Given, Reading
  <2> QED BY <1>1, <2>3, <2>7 DEF CallInv
<1> QED BY <1>2, <1>3, <1>m, PostType

LEMMA NatOrZero == ASSUME NEW S, S \subseteq Nat, NEW n \in S \cup {0} PROVE n \in Nat
OBVIOUS

LEMMA ElemsType == ASSUME TypeInv PROVE \A q \in Session : \A m \in Elems(box[q]) : m \in Msg /\ m.conn \in Nat
<1>1. box \in [Session -> Seq(Msg)]
  BY DEF TypeInv, TypeOK
<1>2. Session \subseteq Nat /\ \A m \in Msg : m.conn \in Session \cup {0}
  BY DEF Msg, Session
<1>3. ASSUME NEW m \in Msg PROVE m.conn \in Nat
  <2>1. m.conn \in Session \cup {0}
    BY <1>2
  <2> QED BY <1>2, <2>1, NatOrZero
<1>4. ASSUME NEW q \in Session, NEW m \in Elems(box[q]) PROVE m \in Msg
  <2>1. box[q] \in Seq(Msg)
    BY <1>1
  <2> QED BY <2>1 DEF Elems
<1> QED BY <1>3, <1>4

\* The next connect() starts from nothing.
LEMMA CallBegin ==
    ASSUME TypeInv, CallInv, filter' = filter + 1, UNCHANGED <<box, rpc, taken>>
    PROVE  CallInv'
<1>0. filter \in 0..MaxConnects
  BY DEF TypeInv, TypeOK
<1>n. filter \in Nat /\ Session \subseteq Nat
  BY ONLY <1>0 DEF Session
<1>1. filter' = filter + 1 /\ UNCHANGED <<box, rpc, taken>>
  OBVIOUS
<1>2. \A s \in Nat : s >= filter' => s > filter
  BY ONLY <1>n, <1>1
<1>3. \A q \in Session : \A m \in Elems(box[q]) : m.conn \in Nat /\ m.conn <= filter /\ m.conn <= filter' /\ m.conn # filter'
  <2>1. \A n \in Nat : n <= filter => n <= filter' /\ n # filter'
    BY ONLY <1>n, <1>1
  <2> QED BY <2>1, ElemsType DEF CallInv, FreshInv
<1>4. \A q \in Session : \A m \in Elems(box[q]) : ~Own(m)'
  BY <1>3 DEF Own
<1>5. \A s \in Session : s >= filter' => rpc[s] = "none" /\ taken[s] = "nothing"
  BY <1>n, <1>2 DEF CallInv, FreshInv
<1>6. \A s \in Session : s > filter' \/ s = filter' => s >= filter'
  BY ONLY <1>n, <1>1
<1>7. FreshInv' /\ PlaceInv'
  BY <1>1, <1>3, <1>5, <1>6 DEF FreshInv, PlaceInv
<1>8. OrderInv'
  BY <1>1, <1>4 DEF OrderInv, InOrder, Elems
<1>9. GivenInv'
  <2> SUFFICES ASSUME NEW s \in Session, s = filter' PROVE Given(s)'
    BY DEF GivenInv
  <2>1. rpc'[s] = "none" /\ taken'[s] = "nothing"
    BY <1>1, <1>5, <1>6
  <2> QED BY <1>1, <1>4, <2>1 DEF Given, Reading
<1> QED BY <1>7, <1>8, <1>9 DEF CallInv

LEMMA CallConnect == ASSUME TypeInv, CallInv, connectWithCallback, UNCHANGED app PROVE CallInv'
<1> USE DEF AtApp, OnlyApp, sockets, queues, receivers, calls
<1>1. ASSUME NEW outcome, Begin(outcome) PROVE CallInv'
  BY <1>1, CallBegin DEF Begin
<1>2. ASSUME (\E fd \in FD : CreateSocket(fd)) \/ CreateSocketFails \/ Dial \/ DialFails \/ Reap \/ ReapJoin
             \/ \E started \in BOOLEAN : SpawnRunner(started)
      PROVE CallInv'
  <2>1. /\ UNCHANGED <<filter, box, msqid, taken, removed, rpc>> /\ xpc \in Connecting
    BY <1>2 DEF CreateSocket, CreateSocketFails, Dial, DialFails, Reap, ReapJoin, SpawnRunner, Connecting
  <2> QED BY <2>1, CallFrame
<1>3. ASSUME NEW started \in BOOLEAN, SpawnReceiver(started) PROVE CallInv'
  <2>1. /\ UNCHANGED <<filter, box, msqid, taken, removed>> /\ xpc = "spawnreceive" /\ xpc' = "up"
        /\ rpc' = [rpc EXCEPT ![filter] = IF started THEN "start" ELSE "none"]
    BY <1>3 DEF SpawnReceiver
  <2>2. \A s \in Session : rpc'[s] = IF s = filter THEN IF started THEN "start" ELSE "none" ELSE rpc[s]
    BY <2>1 DEF TypeInv, TypeOK
  <2>3. \A s \in Session : s > filter => s # filter
    BY DEF TypeInv, TypeOK
  <2>4. FreshInv' /\ PlaceInv'
    BY <2>1, <2>2, <2>3 DEF CallInv, FreshInv, PlaceInv, Connecting
  <2>5. OrderInv'
    BY <2>1 DEF CallInv, OrderInv, InOrder, Own
  <2>6. GivenInv'
    <3> SUFFICES ASSUME NEW s \in Session, s = filter PROVE Given(s)'
      BY <2>1 DEF GivenInv
    <3>1. rpc[s] = "none" /\ Given(s)
      BY <2>1 DEF CallInv, FreshInv, GivenInv, Connecting
    <3>2. rpc'[s] \in {"start", "none"}
      BY <2>2
    <3>3. \A m : Own(m)' <=> Own(m)
      BY <2>1 DEF Own
    <3>4. taken'[s] = "nothing" /\ \A q \in Session : \A m \in Elems(box'[q]) : ~Own(m)'
      BY <2>1, <3>1, <3>3 DEF Given
    <3> QED BY <3>2, <3>4 DEF Given, Reading
  <2> QED BY <2>4, <2>5, <2>6 DEF CallInv
<1> QED BY <1>1, <1>2, <1>3 DEF connectWithCallback

LEMMA CallStop == ASSUME TypeInv, CallInv, stop, UNCHANGED app PROVE CallInv'
<1> USE DEF AtApp, OnlyApp, sockets, queues, receivers, calls
<1>1. CASE Stop \/ Halt
  <2>1. UNCHANGED <<filter, box, msqid, taken, removed, rpc>> /\ xpc' \notin Connecting
    BY <1>1 DEF Stop, Halt, Connecting
  <2> QED BY <2>1, CallFrame
<1>2. CASE HaltJoin /\ (app.extKey \/ msqid \notin Session)
  <2>1. UNCHANGED <<filter, msqid, taken, rpc>> /\ xpc' = "stopped"
    BY <1>2 DEF HaltJoin
  <2>2. removed \subseteq removed'
    BY <1>2 DEF HaltJoin
  <2>3. UNCHANGED box
    <3>1. box = [q \in Session |-> box[q]]
      BY DEF TypeInv, TypeOK
    <3>2. CASE app.extKey
      BY <1>2, <3>2 DEF HaltJoin
    <3>3. CASE ~app.extKey
      <4>1. box' = [q \in Session |-> IF q = msqid THEN <<>> ELSE box[q]]
        BY <1>2, <3>3 DEF HaltJoin
      <4>2. \A q \in Session : q # msqid
        BY <1>2, <3>3
      <4> QED BY <3>1, <4>1, <4>2
    <3> QED BY <3>2, <3>3
  <2> QED BY <2>1, <2>2, <2>3, CallFrame DEF Connecting
<1>3. CASE HaltJoin /\ ~app.extKey /\ msqid \in Session
  <2>1. /\ UNCHANGED <<filter, msqid, taken, rpc>> /\ xpc' = "stopped" /\ msqid \in removed'
        /\ \A q \in Session : box'[q] = IF q = msqid THEN <<>> ELSE box[q]
    BY <1>3 DEF HaltJoin
  <2>2. Elems(box'[msqid]) = {} /\ DOMAIN box'[msqid] = {}
    BY <1>3, <2>1 DEF Elems
  <2>3. \A m : Own(m)' <=> Own(m)
    BY <2>1 DEF Own
  <2>4. \A q \in Session : \A m \in Elems(box'[q]) : ~Own(m)' /\ m \in Elems(box[q])
    <3> TAKE q \in Session
    <3> TAKE m \in Elems(box'[q])
    <3>1. q # msqid /\ m \in Elems(box[q])
      BY <2>1, <2>2
    <3>2. ~(m.conn # 0 /\ m.conn = filter)
      BY <3>1 DEF CallInv, PlaceInv
    <3>3. filter # 0
      BY <1>3 DEF HaltJoin, TypeInv, Locals
    <3> QED BY <2>3, <3>1, <3>2, <3>3 DEF Own
  <2>5. FreshInv' /\ PlaceInv'
    BY <2>1, <2>4 DEF CallInv, FreshInv, PlaceInv, Connecting
  <2>6. OrderInv'
    BY <2>1, <2>4 DEF OrderInv, InOrder, Elems
  <2>7. GivenInv'
    <3> SUFFICES ASSUME NEW s \in Session, s = filter PROVE Given(s)'
      BY <2>1 DEF GivenInv
    <3>1. Given(s)
      BY DEF CallInv, GivenInv
    <3>2. ~Usable(msqid)'
      BY <2>1 DEF Usable
    <3> QED BY <2>1, <2>4, <3>1, <3>2 DEF Given
  <2> QED BY <2>5, <2>6, <2>7 DEF CallInv
<1> QED BY <1>1, <1>2, <1>3 DEF stop

LEMMA CallOther ==
    ASSUME TypeInv, CallInv, UNCHANGED app,
           \/ AppClose \/ (\E on \in BOOLEAN : SetIdleTimer(on)) \/ Age \/ TimerFire
           \/ \E s \in Session : ServerHangup(s)
    PROVE  CallInv'
<1> USE DEF sockets, queues, receivers, calls
<1>0. /\ filter \in 0..MaxConnects /\ timer \in 0..MaxConnects /\ m_nSocketFD \in FD \cup {None}
      /\ filter = 0 => xpc = "new"
  BY DEF TypeInv, TypeOK, Locals
<1>1. CASE AppClose
  <2>1. /\ filter \in Session /\ Post(filter, "SERVER_CLOSE", m_nSocketFD, filter)
        /\ UNCHANGED <<filter, msqid, removed, taken, xpc, rpc>>
    BY <1>0, <1>1, Constants DEF AppClose, closeServer
  <2>2. [to |-> filter, cmd |-> "SERVER_CLOSE", id |-> m_nSocketFD, conn |-> filter] \in Msg
    BY <1>0, <2>1 DEF Msg, Command
  <2>3. filter <= filter
    BY <1>0
  <2> QED BY <2>1, <2>2, <2>3, CallPost DEF ThreadCmd
<1>2. CASE TimerFire
  <2>1. /\ timer \in Session /\ Post(timer, "TIMER", None, 0)
        /\ UNCHANGED <<filter, msqid, removed, taken, xpc, rpc>>
    BY <1>0, <1>2, Constants DEF TimerFire
  <2>2. [to |-> timer, cmd |-> "TIMER", id |-> None, conn |-> 0] \in Msg
    BY <2>1 DEF Msg, Command
  <2>3. 0 <= filter
    BY <1>0
  <2> QED BY <2>1, <2>2, <2>3, CallPost DEF ThreadCmd
<1>3. CASE (\E on \in BOOLEAN : SetIdleTimer(on)) \/ Age \/ \E s \in Session : ServerHangup(s)
  <2>1. UNCHANGED <<filter, box, msqid, taken, removed, rpc, xpc>>
    BY <1>3 DEF SetIdleTimer, Age, ServerHangup
  <2> QED BY <2>1, CallFrame
<1> QED BY <1>1, <1>2, <1>3

LEMMA CallReceiver == ASSUME TypeInv, CallInv, NEW s \in Session, runTcpReceive(s), UNCHANGED app PROVE CallInv'
<1> USE DEF sockets, queues, calls
<1>0. /\ rpc \in [Session -> ReceiverState] /\ rfd[s] \in FD \cup {None} /\ filter \in 0..MaxConnects
      /\ s \in Nat
  BY DEF TypeInv, TypeOK, Session
<1>1. rpc[s] # "none" /\ s <= filter
  <2>1. rpc[s] # "none"
    BY DEF runTcpReceive, Start, RecvCall, RecvReturns, Exit, SendConnect, SendReceive, SendAlive, SendDisconnect,
           SendThreadExit, SendStep, Goto
  <2>2. ~(s > filter)
    BY <2>1 DEF CallInv, FreshInv
  <2> QED BY <1>0, <2>1, <2>2
<1>2. CASE Start(s) \/ RecvCall(s) \/ RecvReturns(s) \/ Exit(s)
  <2>1. /\ UNCHANGED <<filter, box, msqid, taken, removed, xpc>>
        /\ \E to \in {"lost", "connect", "disconnect", "blocked", "receive", "zombie"} :
             /\ rpc' = [rpc EXCEPT ![s] = to]
             /\ to \in {"lost", "connect"} => rpc[s] = "start"
             /\ to \in {"disconnect", "blocked", "receive"} => rpc[s] \in {"recv", "blocked"}
             /\ to = "zombie" => rpc[s] = "exit"
    BY <1>2 DEF Start, RecvCall, RecvReturns, Exit, Goto, OnlyReceiver
  <2>2. CASE s # filter
    <3>1. \A t \in Session : t = filter \/ rpc[t] = "none" => rpc'[t] = rpc[t]
      BY <1>0, <1>1, <2>1, <2>2
    <3> QED BY <2>1, <3>1, CallFrame
  <2>3. CASE s = filter
    <3>1. \A t \in Session : t # filter => rpc'[t] = rpc[t]
      BY <1>0, <2>1, <2>3
    <3>2. xpc \notin Connecting
      BY <1>1, <2>3 DEF CallInv, FreshInv
    <3>3. \A t \in Session : t > filter => t # filter
      BY <1>0
    <3>4. FreshInv' /\ PlaceInv'
      BY <2>1, <3>1, <3>2, <3>3 DEF CallInv, FreshInv, PlaceInv
    <3>5. OrderInv'
      BY <2>1 DEF CallInv, OrderInv, InOrder, Own
    <3>6. GivenInv'
      <4> SUFFICES Given(s)'
        BY <2>1, <2>3 DEF GivenInv
      <4>1. Given(s)
        BY <2>3 DEF CallInv, GivenInv
      <4>2. \A m : Own(m)' <=> Own(m)
        BY <2>1 DEF Own
      <4>3. OwnConnect(msqid)' <=> OwnConnect(msqid)
        BY <2>1 DEF OwnConnect, Own
      <4>4. Usable(msqid)' <=> Usable(msqid)
        BY <2>1 DEF Usable
      <4>5. \A q \in Session : OwnConnect(q)' <=> OwnConnect(q)
        BY <2>1 DEF OwnConnect, Own
      <4>6. PICK to \in {"lost", "connect", "disconnect", "blocked", "receive", "zombie"} :
              /\ rpc'[s] = to
              /\ to \in {"lost", "connect"} => rpc[s] = "start"
              /\ to \in {"disconnect", "blocked", "receive"} => rpc[s] \in {"recv", "blocked"}
              /\ to = "zombie" => rpc[s] = "exit"
        BY <1>0, <2>1
      <4> HIDE DEF ReceiverState
      <4> QED BY <2>1, <4>1, <4>2, <4>3, <4>4, <4>5, <4>6 DEF Given, Reading
    <3> QED BY <3>4, <3>5, <3>6 DEF CallInv
  <2> QED BY <2>2, <2>3
<1>3. CASE SendConnect(s) \/ SendReceive(s) \/ SendAlive(s) \/ SendDisconnect(s)
  <2>1. PICK cmd \in ThreadCmd, to \in ReceiverState :
          /\ rpc' = [rpc EXCEPT ![s] = to] /\ Post(filter, cmd, rfd[s], s)
          /\ \/ cmd = "CONNECT" /\ rpc[s] = "connect" /\ to = "recv"
             \/ cmd \in {"RECEIVE", "ALIVE"} /\ rpc[s] \in {"receive", "alive"} /\ to \in {"recv", "alive"}
             \/ cmd = "DISCONNECT" /\ rpc[s] = "disconnect" /\ to = "exit"
    BY <1>3 DEF SendConnect, SendReceive, SendAlive, SendDisconnect, SendStep, Goto, ThreadCmd
  <2>2. UNCHANGED <<filter, msqid, removed, taken, xpc>>
    BY <1>3 DEF SendConnect, SendReceive, SendAlive, SendDisconnect, SendStep, OnlyReceiver
  <2>3. CASE s = filter
    BY <2>1, <2>2, <2>3, CallSend
  <2>4. CASE s # filter
    <3>1. filter \in Session
      BY <1>0, <1>1, Constants DEF TypeInv, Locals
    <3>2. [to |-> filter, cmd |-> cmd, id |-> rfd[s], conn |-> s] \in Msg
      BY <1>0, <2>1, <3>1 DEF Msg, Command, ThreadCmd
    <3>3. \A t \in Session : t = filter \/ rpc[t] = "none" => rpc'[t] = rpc[t]
      BY <1>0, <1>1, <2>1, <2>4
    <3> QED BY <1>1, <2>1, <2>2, <2>4, <3>2, <3>3, CallPost
  <2> QED BY <2>3, <2>4
<1>4. CASE SendThreadExit(s)
  <2>1. /\ Post(filter, "THREAD_EXIT", rfd[s], s) /\ rpc[s] = "lost" /\ rpc' = [rpc EXCEPT ![s] = "exit"]
        /\ UNCHANGED <<filter, msqid, removed, taken, xpc>>
    BY <1>4 DEF SendThreadExit, SendStep, Goto, OnlyReceiver
  <2>2. filter \in Session
    BY <1>0, <1>1, Constants DEF TypeInv, Locals
  <2>3. [to |-> filter, cmd |-> "THREAD_EXIT", id |-> rfd[s], conn |-> s] \in Msg
    BY <1>0, <2>2 DEF Msg, Command
  <2>4. CASE s # filter
    <3>1. \A t \in Session : t = filter \/ rpc[t] = "none" => rpc'[t] = rpc[t]
      BY <1>0, <1>1, <2>1, <2>4
    <3> QED BY <1>1, <2>1, <2>3, <2>4, <3>1, CallPost DEF ThreadCmd
  <2>5. CASE s = filter
    <3>1. \A t \in Session : t # filter => rpc'[t] = rpc[t]
      BY <1>0, <2>1, <2>5
    <3>2. rpc'[s] = "exit" /\ rpc[s] = "lost"
      BY <1>0, <2>1
    <3> QED BY <1>1, <2>1, <2>3, <2>5, <3>1, <3>2, CallPost DEF ThreadCmd
  <2> QED BY <2>4, <2>5
<1> QED BY <1>2, <1>3, <1>4 DEF runTcpReceive

\* What is known of the first message that msgrcv finds, if it is of the receive
\* thread of the connection in use.
LEMMA FirstOwn ==
    ASSUME TypeInv, CallInv, NEW s \in Session, Usable(call[s][1]), Waiting(s) # {}, Own(FirstMsg(s)), filter # 0
    PROVE  /\ filter \in Session /\ call[s][1] = msqid /\ msqid \in Session
           /\ rpc[filter] \notin {"none", "start", "lost", "connect"}
           /\ FirstMsg(s).cmd = "CONNECT" => taken[filter] = "nothing"
           /\ FirstMsg(s).cmd # "CONNECT" => taken[filter] = "connected"
           /\ FirstMsg(s).cmd = "DISCONNECT" => rpc[filter] \in {"exit", "zombie"}
           /\ \A j \in DOMAIN box[msqid] \ {First(s)} :
                Own(box[msqid][j]) => box[msqid][j].cmd # "CONNECT" /\ FirstMsg(s).cmd # "DISCONNECT"
<1> DEFINE q == box[call[s][1]]
           i == First(s)
           m == FirstMsg(s)
<1>1. /\ call[s][1] \in Session /\ q \in Seq(Msg) /\ i \in DOMAIN q /\ m = q[i] /\ m \in Msg /\ m.to = call[s][2]
      /\ \A j \in DOMAIN q : q[j].to = call[s][2] => i <= j
  BY FirstFacts
<1>2. \A j \in DOMAIN q : q[j] \in Elems(q)
  BY DEF Elems
<1>3. filter \in Session /\ Given(filter)
  BY Constants DEF TypeInv, TypeOK, CallInv, GivenInv
<1>4. \A j \in DOMAIN q : Own(q[j]) => q[j].to = filter /\ call[s][1] = msqid
  BY <1>1, <1>2 DEF Own, CallInv, PlaceInv
<1>5. call[s][2] = filter /\ call[s][1] = msqid
  BY <1>1, <1>4
<1>6. \A j \in DOMAIN q : Own(q[j]) => i <= j
  BY <1>1, <1>4, <1>5
<1>7. InOrder(q)
  BY <1>1 DEF CallInv, OrderInv
<1>8. DOMAIN q \subseteq Nat
  BY <1>1
<1> HIDE DEF q, i, m
<1>9. Own(q[i]) /\ m = q[i]
  BY <1>1 DEF m
<1>10. \A j \in DOMAIN q \ {i} : Own(q[j]) => q[j].cmd # "CONNECT" /\ m.cmd # "DISCONNECT"
  <2> SUFFICES ASSUME NEW j \in DOMAIN q \ {i}, Own(q[j]) PROVE q[j].cmd # "CONNECT" /\ m.cmd # "DISCONNECT"
    OBVIOUS
  <2>1. i < j
    BY <1>1, <1>6, <1>8
  <2> QED BY <1>1, <1>7, <1>9, <2>1 DEF InOrder
<1>11. m \in Elems(box[msqid])
  BY <1>1, <1>2, <1>5 DEF q
<1>12. m.cmd # "CONNECT" => taken[filter] # "nothing"
  <2> SUFFICES ASSUME m.cmd # "CONNECT", taken[filter] = "nothing" PROVE FALSE
    OBVIOUS
  <2>1. OwnConnect(msqid)
    BY <1>1, <1>3, <1>5, <1>9, <1>11 DEF Given
  <2>2. PICK j \in DOMAIN q : Own(q[j]) /\ q[j].cmd = "CONNECT"
    BY <1>5, <2>1 DEF OwnConnect, Elems, q
  <2> QED BY <1>9, <1>10, <2>2
<1>13. taken[filter] \in {"nothing", "connected", "disconnected"} /\ taken[filter] # "disconnected"
  BY <1>1, <1>3, <1>5, <1>9, <1>11 DEF Given, TypeInv, TypeOK
<1> QED BY <1>1, <1>3, <1>5, <1>9, <1>10, <1>11, <1>12, <1>13 DEF Given, Reading, q, i, m

\* msgrcv takes one message.
LEMMA CallTake == ASSUME TypeInv, CallInv, NEW s \in Session, Take(s) PROVE CallInv'
<1> DEFINE p == call[s][1]
           i == First(s)
           m == FirstMsg(s)
<1>1. /\ Usable(p) /\ Waiting(s) # {}
      /\ box'[p] = RemoveAt(box[p], i) /\ \A q \in Session : q # p => box'[q] = box[q]
  BY TakeFacts
<1>2. p \in Session /\ box[p] \in Seq(Msg) /\ i \in DOMAIN box[p] /\ m = box[p][i] /\ m \in Msg
  BY <1>1, FirstFacts
<1>3. UNCHANGED <<filter, removed, msqid, rpc, xpc>> /\ mpc[s] = "wait"
  BY DEF Take, Run, OnlyRunner, receivers
<1>4. filter # 0 /\ filter \in Session
  BY <1>3, Constants DEF TypeInv, TypeOK, Locals
<1>5. Elems(box'[p]) = {box[p][j] : j \in DOMAIN box[p] \ {i}}
  BY <1>1, <1>2, RemoveElems
<1>6. \A n : Own(n)' <=> Own(n)
  BY <1>3 DEF Own
<1>7. m \in Elems(box[p])
  BY <1>2 DEF Elems
<1>8. m.conn <= filter
  BY <1>2, <1>7 DEF CallInv, FreshInv
<1>9. Own(m) => /\ p = msqid /\ rpc[filter] \notin {"none", "start", "lost", "connect"}
                /\ m.cmd = "CONNECT" => taken[filter] = "nothing"
                /\ m.cmd # "CONNECT" => taken[filter] = "connected"
                /\ m.cmd = "DISCONNECT" => rpc[filter] \in {"exit", "zombie"}
                /\ \A j \in DOMAIN box[p] \ {i} :
                     Own(box[p][j]) => box[p][j].cmd # "CONNECT" /\ m.cmd # "DISCONNECT"
  BY <1>1, <1>4, FirstOwn
<1>10. OrderInv'
  <2>1. InOrder(box'[p])
    BY <1>1, <1>2, RemoveOrder DEF CallInv, OrderInv
  <2>2. \A q \in Session : InOrder(box'[q])
    BY <1>1, <2>1 DEF CallInv, OrderInv
  <2> HIDE DEF p, i, m
  <2> QED BY <1>6, <2>2 DEF OrderInv, InOrder
<1>11. taken \in [Session -> {"nothing", "connected", "disconnected"}]
  BY DEF TypeInv, TypeOK
<1>t. \A c \in Session : taken'[c] = IF c = m.conn /\ m.cmd = "CONNECT" THEN "connected"
                                   ELSE IF c = m.conn /\ m.cmd = "DISCONNECT" THEN "disconnected" ELSE taken[c]
  BY TakenFacts
<1>12. m.conn \in Session \cup {0}
  BY <1>2 DEF Msg
<1> HIDE DEF p, i, m
<1>13. \A q \in Session : Elems(box'[q]) \subseteq Elems(box[q])
  <2>1. Elems(box'[p]) \subseteq Elems(box[p])
    BY <1>5 DEF Elems
  <2> QED BY <1>1, <2>1
<1>14. FreshInv' /\ PlaceInv'
  <2>1. \A t \in Session : t > filter => t # m.conn
    <3> SUFFICES ASSUME NEW t \in Session, t > filter, t = m.conn PROVE FALSE
      OBVIOUS
    <3>1. t \in Int /\ filter \in Int /\ t <= filter
      BY <1>4, <1>8 DEF Session
    <3> QED BY <3>1
  <2>2. \A t \in Session : t > filter => taken'[t] = taken[t]
    BY <1>t, <2>1
  <2> QED BY <1>3, <1>13, <2>2 DEF CallInv, FreshInv, PlaceInv
<1>15. GivenInv'
  <2> SUFFICES Given(filter)'
    BY <1>3 DEF GivenInv
  <2>1. Given(filter)
    BY <1>4 DEF CallInv, GivenInv
  <2>2. CASE Own(m)
    <3>1. \A q \in Session : \A n \in Elems(box'[q]) : Own(n) =>
            q = p /\ n.cmd # "CONNECT" /\ m.cmd # "DISCONNECT"
      <4> TAKE q \in Session
      <4> TAKE n \in Elems(box'[q])
      <4> HAVE Own(n)
      <4>1. n.conn # 0 /\ n.conn = filter
        BY <1>4 DEF Own
      <4>2. q = msqid
        BY <1>13, <4>1 DEF CallInv, PlaceInv
      <4>3. q = p
        BY <1>9, <2>2, <4>2
      <4> QED BY <1>5, <1>9, <2>2, <4>3
    <3>2. m.conn = filter /\ m.cmd \in ThreadCmd
      BY <2>2 DEF Own
    <3>3. m.cmd = "CONNECT" \/ m.cmd # "CONNECT"
      OBVIOUS
    <3>4. CASE m.cmd = "DISCONNECT"
      <4>1. taken'[filter] = "disconnected"
        BY <1>t, <1>4, <3>2, <3>4
      <4>2. \A q \in Session : \A n \in Elems(box'[q]) : ~Own(n)
        BY <3>1, <3>4
      <4>3. rpc'[filter] \in {"exit", "zombie"}
        BY <1>3, <1>9, <2>2, <3>4
      <4> QED BY <1>3, <1>6, <4>1, <4>2, <4>3 DEF Given, Reading
    <3>5. CASE m.cmd # "DISCONNECT"
      <4>1. taken'[filter] = "connected"
        BY <1>t, <1>4, <1>9, <2>2, <3>2, <3>5
      <4> QED BY <1>3, <1>6, <1>9, <1>13, <2>1, <2>2, <3>1, <4>1 DEF Given, Reading
    <3> QED BY <3>4, <3>5
  <2>3. CASE ~Own(m)
    <3>1. taken'[filter] = taken[filter]
      <4>1. m.cmd \in {"CONNECT", "DISCONNECT"} => m.conn # filter
        BY <2>3 DEF Own, ThreadCmd
      <4> QED BY <1>t, <1>4, <4>1
    <3>2. \A q \in Session : \A n \in Elems(box[q]) : Own(n) => n \in Elems(box'[q])
      <4> TAKE q \in Session
      <4> TAKE n \in Elems(box[q])
      <4> HAVE Own(n)
      <4>1. CASE q = p
        <5>1. PICK j \in DOMAIN box[p] : n = box[p][j]
          BY <4>1 DEF Elems
        <5>2. j # i
          BY <1>2, <2>3, <5>1
        <5> QED BY <1>5, <4>1, <5>1, <5>2
      <4>2. CASE q # p
        BY <1>1, <4>2
      <4> QED BY <4>1, <4>2
    <3>3. /\ \A q \in Session : OwnConnect(q) => OwnConnect(q)'
          /\ Usable(msqid) => msqid \in Session
          /\ Usable(msqid)' <=> Usable(msqid)
      BY <1>3, <1>6, <3>2 DEF OwnConnect, Usable
    <3>4. Usable(msqid) /\ OwnConnect(msqid) => OwnConnect(msqid)'
      BY <1>3, <1>6, <3>2, <3>3 DEF OwnConnect
    <3> QED BY <1>3, <1>6, <1>13, <2>1, <3>1, <3>3, <3>4 DEF Given, Reading
  <2> QED BY <2>2, <2>3
<1> QED BY <1>10, <1>14, <1>15 DEF CallInv

LEMMA CallRunner == ASSUME TypeInv, CallInv, NEW s \in Session, runMessageReceive(s), UNCHANGED app PROVE CallInv'
<1> USE DEF sockets, queues, receivers, OnlyRunner, NoMessage
<1>1. CASE RunnerStart(s) \/ RunnerRun(s) \/ RunnerCall(s) \/ RunnerWoken(s) \/ RunnerEnd(s)
  <2>1. UNCHANGED <<filter, box, msqid, taken, removed, rpc, xpc>>
    BY <1>1 DEF RunnerStart, RunnerRun, RunnerCall, RunnerWoken, RunnerEnd
  <2> QED BY <2>1, CallFrame
<1>2. CASE IdleClose(s)
  <2>1. /\ filter \in Session /\ Post(filter, "SERVER_CLOSE", m_nSocketFD, filter)
        /\ UNCHANGED <<filter, msqid, removed, taken, xpc, rpc>>
    BY <1>2, Constants DEF IdleClose, Run, closeServer, TypeInv, TypeOK, Locals
  <2>2. [to |-> filter, cmd |-> "SERVER_CLOSE", id |-> m_nSocketFD, conn |-> filter] \in Msg
    BY <2>1 DEF Msg, Command, TypeInv, TypeOK
  <2>3. filter <= filter
    BY <2>1 DEF Session
  <2> QED BY <2>1, <2>2, <2>3, CallPost DEF ThreadCmd
<1>3. CASE Take(s)
  BY <1>3, CallTake
<1>4. CASE Handles(s)
  <2>1. UNCHANGED <<filter, box, msqid, taken, removed, rpc, xpc>>
    BY <1>4, HandlesOne DEF Handle
  <2> QED BY <2>1, CallFrame
<1> QED BY <1>1, <1>2, <1>3, <1>4 DEF runMessageReceive, Handles

LEMMA CallStep == TypeInv /\ CallInv /\ [Next]_<<vars, app>> => CallInv'
<1> SUFFICES ASSUME TypeInv, CallInv, [Next]_<<vars, app>> PROVE CallInv'
  OBVIOUS
<1>1. CASE UNCHANGED <<vars, app>>
  BY <1>1, CallFrame DEF vars, queues, receivers, calls
<1>2. CASE Next
  BY <1>2, CallConnect, CallStop, CallOther, CallReceiver, CallRunner DEF Next
<1> QED BY <1>1, <1>2

-----------------------------------------------------------------------------
(* What was taken, and what the application was told                       *)

LEMMA ToldInit == Init => ToldInv
<1> SUFFICES ASSUME Init PROVE ToldInv
  OBVIOUS
<1>1. \A s \in Session : s # filter /\ cur[s] = NoMsg /\ cur[s].conn = 0 /\ takers[s] = {} /\ told[s] = "nothing"
                           /\ mpc[s] = "none"
  BY Constants DEF Init, NoMsg
<1> QED BY <1>1, Constants DEF ToldInv, HoldInv, BehindInv

\* A step that neither takes a message nor handles one.
LEMMA ToldFrame ==
    ASSUME ToldInv, UNCHANGED <<filter, cur, told, taken, takers>>,
           \A s \in Session :
              /\ mpc[s] = "none" => mpc'[s] = "none" \/ (s = filter /\ xpc = "spawn")
              /\ mpc[s] \in {"handle", "cancelled"} /\ cur[s] # NoMsg => mpc'[s] \in {"handle", "cancelled"}
              /\ mpc[s] \in {"cancelled", "zombie", "joined"} => mpc'[s] \in {"cancelled", "zombie", "joined"},
           xpc' \in Connecting => xpc \in Connecting /\ (xpc = "spawn" => xpc' \in {"spawn", "spawnreceive"}),
           xpc = "spawn" => xpc' = "spawnreceive" \/ (\A s \in Session : mpc[s] = "none" => mpc'[s] = "none"),
           xpc = "spawnreceive" => xpc' \in {"spawnreceive", "up"},
           \A s \in Session : s > filter => s # filter,
           takers \in [Session -> SUBSET Session]
    PROVE  ToldInv'
<1>1. HoldInv'
  BY DEF ToldInv, HoldInv, Connecting
<1>2. \A s \in Session : Delayed(s) => Delayed(s)'
  BY DEF Delayed
<1>3. BehindInv'
  BY <1>2 DEF ToldInv, BehindInv
<1> QED BY <1>1, <1>3 DEF ToldInv

LEMMA ToldTypes == ASSUME TypeInv
                   PROVE  /\ mpc \in [Session -> RunnerState] /\ takers \in [Session -> SUBSET Session]
                          /\ cur \in [Session -> Msg \cup {NoMsg}] /\ filter \in 0..MaxConnects
                          /\ told \in [Session -> {"nothing", "connected", "disconnected"}]
                          /\ taken \in [Session -> {"nothing", "connected", "disconnected"}]
                          /\ \A s \in Session : s > filter => s # filter
                          /\ munRunThreadId \in 0..MaxConnects
BY DEF TypeInv, TypeOK, Session

\* The next connection has neither been spoken of nor has it a message thread.
LEMMA ToldBegin ==
    ASSUME TypeInv, ToldInv, filter' = filter + 1, filter + 1 \in Session,
           UNCHANGED <<mpc, cur, told, taken, takers>>,
           \A c \in Session : c > filter => taken[c] = "nothing"
    PROVE  ToldInv'
<1>0. filter \in 0..MaxConnects
  BY ToldTypes
<1>1. /\ filter' = filter + 1 /\ UNCHANGED <<mpc, cur, told, taken, takers>>
      /\ \A c \in Session : c >= filter' => c > filter
      /\ \A c \in Session : c > filter' \/ c = filter' => c >= filter'
  BY <1>0 DEF Session
<1>2. HoldInv'
  BY <1>1 DEF ToldInv, HoldInv
<1>3. \A s \in Session : \A c \in Session : c = filter' => cur[s].conn # c /\ told[c] = "nothing" /\ taken[c] = "nothing"
  BY <1>1 DEF ToldInv, HoldInv
<1>4. BehindInv'
  BY <1>1, <1>3 DEF BehindInv
<1> QED BY <1>2, <1>4 DEF ToldInv

LEMMA ToldApp ==
    ASSUME TypeInv, CallInv, ToldInv, UNCHANGED app, connectWithCallback \/ stop
    PROVE  ToldInv'
<1> USE DEF AtApp, OnlyApp, runners, held, calls
<1>0. /\ mpc \in [Session -> RunnerState] /\ takers \in [Session -> SUBSET Session]
      /\ \A s \in Session : s > filter => s # filter
  BY ToldTypes
<1>1. ASSUME NEW outcome, Begin(outcome) PROVE ToldInv'
  <2>1. filter' = filter + 1 /\ UNCHANGED <<mpc, cur, told, taken, takers>> /\ filter + 1 <= app.connects
    BY <1>1 DEF Begin
  <2>2. filter + 1 \in Session
    BY <2>1, NextSession DEF TypeInv, TypeOK, App
  <2>3. \A c \in Session : c > filter => taken[c] = "nothing"
    BY DEF CallInv, FreshInv
  <2> QED BY <2>1, <2>2, <2>3, ToldBegin
<1>2. ASSUME \/ (\E fd \in FD : CreateSocket(fd)) \/ CreateSocketFails \/ Dial \/ DialFails
             \/ Stop \/ \E started \in BOOLEAN : SpawnReceiver(started)
      PROVE  ToldInv'
  <2>1. /\ UNCHANGED <<filter, cur, told, taken, takers, mpc>>
        /\ xpc' \in Connecting => xpc \in Connecting
        /\ xpc # "spawn" /\ (xpc = "spawnreceive" => xpc' = "up")
    BY <1>2 DEF CreateSocket, CreateSocketFails, Dial, DialFails, Stop, SpawnReceiver, Connecting
  <2> QED BY <1>0, <2>1, ToldFrame
<1>3. CASE Reap \/ ReapJoin \/ Halt \/ HaltJoin
  <2>1. /\ UNCHANGED <<filter, cur, told, taken, takers>>
        /\ xpc' \in Connecting => xpc \in Connecting
        /\ xpc # "spawn" /\ xpc # "spawnreceive"
    BY <1>3 DEF Reap, ReapJoin, JoinRunner, Halt, HaltJoin, Connecting
  <2>2. \A s \in Session :
              /\ mpc[s] = "none" => mpc'[s] = "none"
              /\ mpc[s] \in {"handle", "cancelled"} => mpc'[s] \in {"handle", "cancelled"}
              /\ mpc[s] \in {"cancelled", "zombie", "joined"} => mpc'[s] \in {"cancelled", "zombie", "joined"}
    BY <1>0, <1>3 DEF Reap, ReapJoin, JoinRunner, Halt, HaltJoin, threadCancel
  <2> QED BY <1>0, <2>1, <2>2, ToldFrame
<1>4. ASSUME NEW started \in BOOLEAN, SpawnRunner(started) PROVE ToldInv'
  <2>1. /\ UNCHANGED <<filter, cur, told, taken, takers>> /\ xpc = "spawn" /\ xpc' = "spawnreceive"
        /\ \A s \in Session : s # filter => mpc'[s] = mpc[s]
    BY <1>0, <1>4 DEF SpawnRunner
  <2>2. \A s \in Session : s = filter => mpc[s] = "none"
    BY <2>1 DEF ToldInv, HoldInv, Connecting
  <2>3. \A s \in Session : mpc[s] # "none" => mpc'[s] = mpc[s]
    BY <2>1, <2>2
  <2>4. \A s \in Session : mpc[s] = "none" => mpc'[s] = "none" \/ (s = filter /\ xpc = "spawn")
    BY <2>1
  <2> HIDE DEF AtApp, OnlyApp, runners, held, calls
  <2> QED BY <1>0, <2>1, <2>3, <2>4, ToldFrame DEF Connecting
<1> QED BY <1>1, <1>2, <1>3, <1>4 DEF connectWithCallback, stop

\* The application is told what a thread holds.
LEMMA ToldHandles == ASSUME TypeInv, ToldInv, NEW s \in Session, Handles(s), UNCHANGED app PROVE ToldInv'
<1> DEFINE m == cur[s]
<1>0. /\ mpc \in [Session -> RunnerState] /\ takers \in [Session -> SUBSET Session]
      /\ cur \in [Session -> Msg \cup {NoMsg}]
      /\ told \in [Session -> {"nothing", "connected", "disconnected"}]
  BY ToldTypes
<1>1. /\ UNCHANGED <<filter, taken, takers, xpc>> /\ cur' = [cur EXCEPT ![s] = NoMsg]
      /\ mpc[s] \in {"handle", "cancelled"}
      /\ mpc[s] = "cancelled" => mpc'[s] = "cancelled"
      /\ mpc'[s] # "none"
      /\ \A t \in Session : t # s => mpc'[t] = mpc[t]
  BY <1>0, HandlesOne DEF Handle, OnlyRunner, calls
<1>2. \A c \in Session : told'[c] = IF m.conn = c /\ m.cmd = "CONNECT" THEN "connected"
                                    ELSE IF m.conn = c /\ m.cmd = "DISCONNECT" THEN "disconnected" ELSE told[c]
  BY <1>0 DEF Handles, Handle, HandleConnect, HandleAlive, HandleOther, HandleDisconnect, HandleServerClose, HandleTimer
<1>3. cur'[s] = NoMsg /\ \A t \in Session : t # s => cur'[t] = cur[t]
  BY <1>0, <1>1
<1>4. NoMsg.conn = 0 /\ NoMsg.cmd = "NOTHING" /\ 0 \notin Session
  BY Constants DEF NoMsg
<1> HIDE DEF m
<1>5. HoldInv'
  <2>1. \A c \in Session : c > filter => m.conn # c
    BY DEF ToldInv, HoldInv, m
  <2>2. \A c \in Session : \A t \in Session : cur'[t].conn = c => t \in takers'[c]
    BY <1>1, <1>3, <1>4 DEF ToldInv, HoldInv
  <2>3. \A t \in Session : cur'[t] # NoMsg => mpc'[t] \in {"handle", "cancelled"}
    BY <1>1, <1>3 DEF ToldInv, HoldInv
  <2>4. \A t \in Session : mpc[t] = "none" => mpc'[t] = "none"
    BY <1>1
  <2> QED BY <1>1, <1>2, <2>1, <2>2, <2>3, <2>4 DEF ToldInv, HoldInv
<1>6. BehindInv'
  <2> SUFFICES ASSUME NEW c \in Session, c = filter
               PROVE  /\ told'[c] = "disconnected" => taken[c] = "disconnected"
                      /\ \A t \in Session : cur'[t].conn = c /\ cur'[t].cmd = "DISCONNECT" => taken[c] = "disconnected"
                      /\ told'[c] = "nothing" /\ taken[c] # "nothing" => \E t \in takers[c] : Delayed(t)'
                      /\ \A t \in Session :
                           takers[c] = {t} /\ cur'[t].conn = c /\ cur'[t].cmd \in ThreadCmd \ {"CONNECT"} =>
                              told'[c] = "connected"
    BY <1>1 DEF BehindInv
  <2>1. told'[c] = "disconnected" => taken[c] = "disconnected"
    BY <1>2 DEF ToldInv, BehindInv, m
  <2>2. \A t \in Session : cur'[t].conn = c /\ cur'[t].cmd = "DISCONNECT" => taken[c] = "disconnected"
    BY <1>3, <1>4 DEF ToldInv, BehindInv
  <2>3. ASSUME told'[c] = "nothing", taken[c] # "nothing" PROVE \E t \in takers[c] : Delayed(t)'
    <3>1. told[c] = "nothing" /\ ~(m.conn = c /\ m.cmd = "CONNECT")
      BY <1>2, <2>3
    <3>2. PICK t \in takers[c] : Delayed(t)
      BY <2>3, <3>1 DEF ToldInv, BehindInv
    <3>3. t \in Session
      BY <1>0, <3>2
    <3>4. CASE mpc[t] \in {"cancelled", "zombie", "joined"}
      <4>1. mpc'[t] \in {"cancelled", "zombie", "joined"}
        BY <1>1, <3>3, <3>4
      <4> QED BY <3>2, <4>1 DEF Delayed
    <3>5. CASE cur[t].conn = filter /\ cur[t].cmd = "CONNECT"
      <4>1. t # s
        BY <3>1, <3>5 DEF m
      <4> QED BY <1>1, <1>3, <3>2, <3>3, <3>5, <4>1 DEF Delayed
    <3> QED BY <3>2, <3>4, <3>5 DEF Delayed
  <2>4. ASSUME NEW t \in Session, takers[c] = {t}, cur'[t].conn = c, cur'[t].cmd \in ThreadCmd \ {"CONNECT"}
        PROVE  told'[c] = "connected"
    <3>1. t # s /\ cur'[t] = cur[t]
      BY <1>3, <1>4, <2>4
    <3>2. told[c] = "connected"
      BY <2>4, <3>1 DEF ToldInv, BehindInv
    <3>3. m.conn # c
      BY <2>4, <3>1 DEF ToldInv, HoldInv, m
    <3> QED BY <1>2, <3>2, <3>3
  <2> QED BY <2>1, <2>2, <2>3, <2>4
<1> QED BY <1>5, <1>6 DEF ToldInv

LEMMA ToldTake == ASSUME TypeInv, CallInv, ToldInv, NEW s \in Session, Take(s), UNCHANGED app PROVE ToldInv'
<1> DEFINE m == FirstMsg(s)
<1>0. /\ mpc \in [Session -> RunnerState] /\ takers \in [Session -> SUBSET Session]
      /\ cur \in [Session -> Msg \cup {NoMsg}]
  BY ToldTypes
<1>1. /\ m \in Msg /\ mpc[s] = "wait"
      /\ mpc'[s] = "handle" /\ (\A t \in Session : t # s => mpc'[t] = mpc[t])
      /\ cur'[s] = m /\ (\A t \in Session : t # s => cur'[t] = cur[t])
      /\ \A c \in Session : takers'[c] = IF c = m.conn THEN takers[c] \cup {s} ELSE takers[c]
      /\ \A c \in Session : taken'[c] = IF c = m.conn /\ m.cmd = "CONNECT" THEN "connected"
                                        ELSE IF c = m.conn /\ m.cmd = "DISCONNECT" THEN "disconnected" ELSE taken[c]
  <2>1. /\ m \in Msg /\ mpc[s] = "wait"
        /\ mpc' = [mpc EXCEPT ![s] = "handle"] /\ cur' = [cur EXCEPT ![s] = m]
    BY TakenFacts
  <2>2. \A c \in Session : takers'[c] = IF c = m.conn THEN takers[c] \cup {s} ELSE takers[c]
    BY TakenFacts
  <2>3. \A c \in Session : taken'[c] = IF c = m.conn /\ m.cmd = "CONNECT" THEN "connected"
                                        ELSE IF c = m.conn /\ m.cmd = "DISCONNECT" THEN "disconnected" ELSE taken[c]
    BY TakenFacts
  <2> HIDE DEF m
  <2> QED BY <1>0, <2>1, <2>2, <2>3
<1>2. UNCHANGED <<filter, told, xpc>> /\ Usable(call[s][1]) /\ Waiting(s) # {}
  BY DEF Take, OnlyRunner
<1>3. m.conn <= filter
  <2>1. call[s][1] \in Session /\ m \in Elems(box[call[s][1]])
    BY <1>2, FirstFacts DEF Elems
  <2> QED BY <2>1 DEF CallInv, FreshInv
<1>4. cur[s] = NoMsg
  BY <1>1 DEF ToldInv, HoldInv
<1>5. Own(m) /\ filter # 0 => /\ m.cmd = "CONNECT" => taken[filter] = "nothing"
                              /\ m.cmd # "CONNECT" => taken[filter] = "connected"
  BY <1>2, FirstOwn
<1>6. filter \in 0..MaxConnects /\ m.conn \in Session \cup {0} /\ m # NoMsg
  BY <1>1, ToldTypes DEF Msg, NoMsg, Command
<1>7. NoMsg.conn = 0 /\ NoMsg.cmd = "NOTHING" /\ 0 \notin Session
  BY Constants DEF NoMsg
<1> HIDE DEF m
<1>8. HoldInv'
  <2>1. \A c \in Session : c > filter => m.conn # c
    <3> SUFFICES ASSUME NEW c \in Session, c > filter, m.conn = c PROVE FALSE
      OBVIOUS
    <3>1. c \in Int /\ filter \in Int /\ c <= filter
      BY <1>3, <1>6 DEF Session
    <3>2. ~(c > filter)
      BY ONLY <3>1
    <3> QED BY <3>2
  <2>2. ASSUME NEW c \in Session, NEW t \in Session, cur'[t].conn = c PROVE t \in takers'[c]
    <3>1. CASE t = s
      BY <1>1, <2>2, <3>1
    <3>2. CASE t # s
      <4>1. t \in takers[c]
        BY <1>1, <2>2, <3>2 DEF ToldInv, HoldInv
      <4> QED BY <1>1, <4>1
    <3> QED BY <3>1, <3>2
  <2>3. \A t \in Session : cur'[t] # NoMsg => mpc'[t] \in {"handle", "cancelled"}
    BY <1>1 DEF ToldInv, HoldInv
  <2>4. \A t \in Session : mpc[t] = "none" => mpc'[t] = "none"
    BY <1>1
  <2>5. \A c \in Session : c > filter => takers'[c] = {} /\ told[c] = "nothing"
    BY <1>1, <2>1 DEF ToldInv, HoldInv
  <2>6. \A t \in Session : t > filter \/ (t = filter /\ xpc \in Connecting \ {"spawnreceive"}) => mpc'[t] = "none"
    BY <2>4 DEF ToldInv, HoldInv
  <2> QED BY <1>2, <2>2, <2>3, <2>5, <2>6 DEF HoldInv
<1>9. BehindInv'
  <2> SUFFICES ASSUME NEW c \in Session, c = filter
               PROVE  /\ told[c] = "disconnected" => taken'[c] = "disconnected"
                      /\ \A t \in Session : cur'[t].conn = c /\ cur'[t].cmd = "DISCONNECT" => taken'[c] = "disconnected"
                      /\ told[c] = "nothing" /\ taken'[c] # "nothing" => \E t \in takers'[c] : Delayed(t)'
                      /\ \A t \in Session :
                           takers'[c] = {t} /\ cur'[t].conn = c /\ cur'[t].cmd \in ThreadCmd \ {"CONNECT"} =>
                              told[c] = "connected"
    BY <1>2 DEF BehindInv
  <2>0. m.conn = c /\ m.cmd \in ThreadCmd => /\ m.cmd = "CONNECT" => taken[c] = "nothing"
                                             /\ m.cmd # "CONNECT" => taken[c] = "connected"
    BY <1>5, <1>7 DEF Own
  <2>1. taken[c] = "disconnected" => taken'[c] = "disconnected"
    BY <1>1, <2>0 DEF ThreadCmd
  <2>2. told[c] = "disconnected" => taken'[c] = "disconnected"
    BY <2>1 DEF ToldInv, BehindInv
  <2>3. \A t \in Session : cur'[t].conn = c /\ cur'[t].cmd = "DISCONNECT" => taken'[c] = "disconnected"
    BY <1>1, <2>1 DEF ToldInv, BehindInv
  <2>4. \A t \in Session : Delayed(t) => Delayed(t)'
    <3> TAKE t \in Session
    <3>1. Delayed(t) => t # s
      BY <1>1, <1>4, <1>7 DEF Delayed
    <3> QED BY <1>1, <1>2, <3>1 DEF Delayed
  <2>5. ASSUME told[c] = "nothing", taken'[c] # "nothing" PROVE \E t \in takers'[c] : Delayed(t)'
    <3>1. CASE m.conn = c /\ m.cmd = "CONNECT"
      <4>1. s \in takers'[c]
        BY <1>1, <3>1
      <4>2. Delayed(s)'
        BY <1>1, <1>2, <3>1 DEF Delayed
      <4> QED BY <4>1, <4>2
    <3>2. CASE ~(m.conn = c /\ m.cmd = "CONNECT")
      <4>1. taken[c] # "nothing"
        BY <1>1, <2>0, <2>5, <3>2 DEF ThreadCmd
      <4>2. PICK t \in takers[c] : Delayed(t)
        BY <2>5, <4>1 DEF ToldInv, BehindInv
      <4>3. t \in Session /\ t \in takers'[c]
        BY <1>0, <1>1, <4>2
      <4> QED BY <2>4, <4>2, <4>3
    <3> QED BY <3>1, <3>2
  <2>6. ASSUME NEW t \in Session, takers'[c] = {t}, cur'[t].conn = c, cur'[t].cmd \in ThreadCmd \ {"CONNECT"}
        PROVE  told[c] = "connected"
    <3>1. CASE t # s
      <4>1. m.conn # c
        BY <1>1, <2>6, <3>1
      <4>2. takers[c] = {t} /\ cur[t].conn = c /\ cur[t].cmd \in ThreadCmd \ {"CONNECT"}
        BY <1>1, <2>6, <3>1, <4>1
      <4> QED BY <4>2 DEF ToldInv, BehindInv
    <3>2. CASE t = s
      <4>1. taken[c] = "connected" /\ m.conn = c
        BY <1>1, <2>0, <2>6, <3>2
      <4>2. takers[c] \subseteq {s}
        BY <1>1, <2>6, <3>2, <4>1
      <4>3. ~Delayed(s)
        BY <1>1, <1>4, <1>7 DEF Delayed
      <4>4. told[c] # "nothing"
        BY <4>1, <4>2, <4>3 DEF ToldInv, BehindInv
      <4>5. told[c] # "disconnected"
        BY <4>1 DEF ToldInv, BehindInv
      <4> QED BY <4>4, <4>5, ToldTypes
    <3> QED BY <3>1, <3>2
  <2> QED BY <2>2, <2>3, <2>5, <2>6
<1> QED BY <1>8, <1>9 DEF ToldInv

LEMMA ToldRunner ==
    ASSUME TypeInv, CallInv, ToldInv, NEW s \in Session, runMessageReceive(s), UNCHANGED app
    PROVE  ToldInv'
<1> USE DEF OnlyRunner, NoMessage
<1>0. /\ mpc \in [Session -> RunnerState] /\ takers \in [Session -> SUBSET Session]
      /\ cur \in [Session -> Msg \cup {NoMsg}]
      /\ \A t \in Session : t > filter => t # filter
  BY ToldTypes
<1>1. ASSUME RunnerStart(s) \/ RunnerRun(s) \/ RunnerCall(s) \/ RunnerWoken(s) \/ IdleClose(s) PROVE ToldInv'
  <2>1. /\ UNCHANGED <<filter, cur, told, taken, takers, xpc>>
        /\ mpc[s] \in {"start", "run", "call", "wait", "closing"}
        /\ \A t \in Session : t # s => mpc'[t] = mpc[t]
    BY <1>0, <1>1 DEF RunnerStart, RunnerRun, RunnerCall, RunnerWoken, IdleClose, Run
  <2> QED BY <1>0, <2>1, ToldFrame
<1>2. CASE RunnerEnd(s)
  <2>1. /\ UNCHANGED <<filter, told, taken, takers, xpc>>
        /\ mpc[s] = "cancelled" /\ mpc'[s] = "zombie" /\ (\A t \in Session : t # s => mpc'[t] = mpc[t])
        /\ cur'[s] = NoMsg /\ (\A t \in Session : t # s => cur'[t] = cur[t])
    BY <1>0, <1>2 DEF RunnerEnd, Run
  <2>2. NoMsg.conn = 0 /\ NoMsg.cmd = "NOTHING" /\ 0 \notin Session
    BY Constants DEF NoMsg
  <2>3. HoldInv'
    BY <2>1, <2>2 DEF ToldInv, HoldInv
  <2>4. \A t \in Session : Delayed(t) => Delayed(t)'
    BY <2>1 DEF Delayed
  <2>5. BehindInv'
    <3>1. \A c \in Session : takers'[c] \subseteq Session
      BY <1>0, <2>1
    <3> QED BY <2>1, <2>2, <2>4, <3>1 DEF ToldInv, BehindInv, ThreadCmd
  <2> QED BY <2>3, <2>5 DEF ToldInv
<1> QED BY <1>1, <1>2, ToldHandles, ToldTake DEF runMessageReceive, Handles

LEMMA ToldStep == TypeInv /\ CallInv /\ ToldInv /\ [Next]_<<vars, app>> => ToldInv'
<1> SUFFICES ASSUME TypeInv, CallInv, ToldInv, [Next]_<<vars, app>> PROVE ToldInv'
  OBVIOUS
<1>0. takers \in [Session -> SUBSET Session] /\ \A t \in Session : t > filter => t # filter
  BY ToldTypes
<1>1. ASSUME UNCHANGED <<filter, xpc, runners, calls>> PROVE ToldInv'
  <2>1. UNCHANGED <<filter, cur, told, taken, takers, xpc, mpc>>
    BY <1>1 DEF runners, held, calls
  <2> QED BY <1>0, <2>1, ToldFrame
<1>2. CASE UNCHANGED <<vars, app>>
  BY <1>1, <1>2 DEF vars
<1>3. ASSUME \/ AppClose \/ (\E on \in BOOLEAN : SetIdleTimer(on)) \/ Age \/ TimerFire
             \/ \E s \in Session : ServerHangup(s)
      PROVE  ToldInv'
  BY <1>1, <1>3 DEF AppClose, SetIdleTimer, Age, TimerFire, ServerHangup
<1>4. ASSUME NEW s \in Session, runTcpReceive(s) PROVE ToldInv'
  BY <1>1, <1>4 DEF runTcpReceive, Start, RecvCall, RecvReturns, Exit, SendConnect, SendReceive, SendAlive,
                    SendDisconnect, SendThreadExit, SendStep, OnlyReceiver
<1>5. CASE Next
  BY <1>3, <1>4, <1>5, ToldApp, ToldRunner DEF Next
<1> QED BY <1>2, <1>5

-----------------------------------------------------------------------------
(* An application that stops before it connects again                      *)

LEMMA OneInit == Init => OneInv
BY Constants DEF Init, OneInv, Idle

LEMMA OneFrame == ASSUME OneInv, UNCHANGED <<app, filter, xpc, munRunThreadId, mpc, takers, missed>> PROVE OneInv'
BY DEF OneInv

LEMMA OneConnect == ASSUME TypeInv, ToldInv, OneInv, connectWithCallback, UNCHANGED app PROVE OneInv'
<1> USE DEF AtApp, OnlyApp, runners, held, calls
<1>0. mpc \in [Session -> RunnerState] /\ munRunThreadId \in 0..MaxConnects /\ filter \in 0..MaxConnects
  BY ToldTypes
<1>1. ASSUME NEW outcome, Begin(outcome) PROVE OneInv'
  <2>1. /\ munRunThreadId' = 0 /\ UNCHANGED <<mpc, takers, missed>> /\ filter' = filter + 1
        /\ xpc \in {"new", "stopped"} \/ ~app.stopsFirst
        /\ xpc' \in {"new", "socket"}
    BY <1>1 DEF Begin
  <2>2. \A c \in Session : c = filter + 1 => takers[c] = {}
    <3>1. \A c \in Session : c = filter + 1 => c > filter
      BY <1>0
    <3> QED BY <3>1 DEF ToldInv, HoldInv
  <2> QED BY <2>1, <2>2 DEF OneInv, Early
<1>2. ASSUME \/ (\E fd \in FD : CreateSocket(fd)) \/ CreateSocketFails \/ Dial \/ DialFails
             \/ \E started \in BOOLEAN : SpawnReceiver(started)
      PROVE  OneInv'
  <2>1. /\ UNCHANGED <<filter, munRunThreadId, mpc, takers, missed>>
        /\ xpc' \in Early \cup {"up"} /\ (xpc' \in Early => xpc \in Early)
    BY <1>2 DEF CreateSocket, CreateSocketFails, Dial, DialFails, SpawnReceiver, Early
  <2> QED BY <2>1 DEF OneInv, Early
<1>3. CASE Reap \/ ReapJoin
  <2>1. /\ UNCHANGED <<filter, takers, missed>>
        /\ xpc \in Early /\ xpc' \in {"spawn", "reapjoin"}
        /\ munRunThreadId' \in {munRunThreadId, 0}
        /\ munRunThreadId = 0 /\ xpc = "reap" => UNCHANGED mpc /\ munRunThreadId' = 0
        /\ xpc = "reap" => UNCHANGED munRunThreadId
        /\ xpc = "reapjoin" => mpc' = [mpc EXCEPT ![munRunThreadId] = "joined"] /\ munRunThreadId' = 0
    BY <1>0, <1>3, Constants DEF Reap, ReapJoin, JoinRunner, threadCancel, Early
  <2>2. xpc \in {"reap", "reapjoin"}
    BY <1>3 DEF Reap, ReapJoin
  <2>3. CASE xpc = "reap"
    BY <2>1, <2>3 DEF OneInv, Early
  <2>4. CASE xpc = "reapjoin"
    BY <1>0, <2>1, <2>4, Constants DEF OneInv, Early, Idle
  <2> QED BY <2>2, <2>3, <2>4
<1>4. ASSUME NEW started \in BOOLEAN, SpawnRunner(started) PROVE OneInv'
  <2>1. /\ UNCHANGED <<filter, takers, missed, munRunThreadId>> /\ xpc = "spawn" /\ xpc' = "spawnreceive"
        /\ \A s \in Session : mpc'[s] = IF s = filter THEN IF started THEN "start" ELSE "none" ELSE mpc[s]
    BY <1>0, <1>4 DEF SpawnRunner
  <2> QED BY <2>1 DEF OneInv, Early, Idle
<1> QED BY <1>1, <1>2, <1>3, <1>4 DEF connectWithCallback

LEMMA OneStop == ASSUME TypeInv, OneInv, stop, UNCHANGED app PROVE OneInv'
<1> USE DEF AtApp, OnlyApp, runners, held, calls
<1>0. mpc \in [Session -> RunnerState] /\ munRunThreadId \in 0..MaxConnects
  BY ToldTypes
<1>1. CASE Stop
  <2>1. UNCHANGED <<filter, munRunThreadId, mpc, takers, missed>> /\ xpc' = "halt"
    BY <1>1 DEF Stop
  <2> QED BY <2>1 DEF OneInv, Early
<1>2. CASE Halt
  <2>1. /\ UNCHANGED <<filter, munRunThreadId, takers>>
        /\ xpc' = IF munRunThreadId = 0 THEN "stopped" ELSE "haltjoin"
        /\ munRunThreadId = 0 => missed' = missed \cup {s \in Session : mpc[s] = "start"}
        /\ munRunThreadId # 0 => missed' = missed
        /\ \A s \in Session : mpc'[s] = IF s = munRunThreadId /\ mpc[s] \notin {"none", "zombie", "joined"}
                                        THEN "cancelled" ELSE mpc[s]
    BY <1>0, <1>2 DEF Halt, threadCancel
  <2>2. CASE munRunThreadId = 0
    <3>1. \A s \in Session : mpc'[s] = mpc[s]
      BY <2>1, <2>2, Constants
    <3>2. missed' = {} => missed = {} /\ \A s \in Session : mpc[s] # "start"
      BY <2>1, <2>2
    <3>3. app.stopsFirst /\ missed' = {} => \A s \in Session : mpc[s] \in Idle
      BY <2>2, <3>2, Constants DEF OneInv
    <3>4. app.stopsFirst /\ missed' = {} => \A s \in Session : mpc'[s] \in Idle
      BY <3>1, <3>3
    <3>5. munRunThreadId' = 0 /\ xpc' = "stopped" /\ UNCHANGED <<filter, takers>>
      BY <2>1, <2>2
    <3>6. app.stopsFirst /\ missed' = {} => \A c \in Session : c = filter => takers[c] \subseteq {c}
      BY <3>2 DEF OneInv
    <3>7. UNCHANGED app
      OBVIOUS
    <3> SUFFICES ASSUME app.stopsFirst, missed' = {} PROVE OneInv'
      BY <3>7 DEF OneInv
    <3> QED BY ONLY <3>4, <3>5, <3>6, <3>7 DEF OneInv, Idle
  <2>3. CASE munRunThreadId # 0
    <3>1. /\ UNCHANGED <<app, filter, munRunThreadId, takers, missed>> /\ xpc' = "haltjoin"
          /\ munRunThreadId \in Session
      BY <1>0, <2>1, <2>3, Constants
    <3>2. \A s \in Session : /\ mpc[s] \in Idle => mpc'[s] = mpc[s]
                             /\ mpc'[s] \in Idle \cup {"start"} => mpc'[s] = mpc[s]
                             /\ mpc'[s] \notin Idle \cup {"start"} => mpc[s] \notin Idle \cup {"start"} \/ s = munRunThreadId
      BY <2>1 DEF Idle
    <3> SUFFICES ASSUME app.stopsFirst, missed = {} PROVE OneInv'
      BY <3>1 DEF OneInv
    <3>3. /\ munRunThreadId \in {0, filter}
          /\ \A s \in Session : s # filter => mpc[s] \in Idle
          /\ \A s \in Session : mpc[s] \notin Idle \cup {"start"} => munRunThreadId = s
          /\ mpc[munRunThreadId] \notin {"none", "start"}
          /\ \A c \in Session : c = filter => takers[c] \subseteq {c}
      BY <2>3 DEF OneInv
    <3>4. mpc'[munRunThreadId] \notin {"none", "start"}
      BY <3>1, <3>2, <3>3 DEF Idle
    <3>5. \A s \in Session : s # filter => mpc'[s] \in Idle
      BY <3>2, <3>3
    <3>6. \A s \in Session : mpc'[s] \notin Idle \cup {"start"} => munRunThreadId = s
      BY <3>2, <3>3
    <3> QED BY ONLY <2>3, <3>1, <3>3, <3>4, <3>5, <3>6 DEF OneInv, Early
  <2> QED BY <2>2, <2>3
<1>3. CASE HaltJoin
  <2>1. /\ UNCHANGED <<filter, takers, missed>> /\ munRunThreadId' = 0 /\ xpc = "haltjoin" /\ xpc' = "stopped"
        /\ mpc[munRunThreadId] \in {"zombie", "joined"}
        /\ mpc' = [mpc EXCEPT ![munRunThreadId] = "joined"]
    BY <1>3 DEF HaltJoin, JoinRunner
  <2>2. \A s \in Session : mpc'[s] = IF s = munRunThreadId THEN "joined" ELSE mpc[s]
    BY <1>0, <2>1
  <2>3. app.stopsFirst /\ missed = {} => \A s \in Session : mpc'[s] \in Idle
    <3> SUFFICES ASSUME app.stopsFirst, missed = {}, NEW s \in Session, mpc'[s] \notin Idle PROVE FALSE
      OBVIOUS
    <3>1. s # munRunThreadId /\ mpc[s] \notin Idle
      BY <2>2 DEF Idle
    <3>2. munRunThreadId # 0 /\ munRunThreadId = filter
      BY <2>1 DEF OneInv
    <3>3. s = filter
      BY <3>1 DEF OneInv
    <3> QED BY <3>1, <3>2, <3>3
  <2> QED BY <2>1, <2>3 DEF OneInv
<1> QED BY <1>1, <1>2, <1>3 DEF stop

LEMMA OneRunner == ASSUME TypeInv, OneInv, NEW s \in Session, runMessageReceive(s), UNCHANGED app PROVE OneInv'
<1> USE DEF OnlyRunner, NoMessage
<1>0. mpc \in [Session -> RunnerState] /\ munRunThreadId \in 0..MaxConnects /\ filter \in 0..MaxConnects
  BY ToldTypes
<1>1. /\ UNCHANGED <<filter, xpc, missed>>
      /\ \A t \in Session : t # s => mpc'[t] = mpc[t]
  BY <1>0, HandlesOne DEF runMessageReceive, RunnerStart, RunnerRun, RunnerCall, RunnerWoken, RunnerEnd, Handles, Handle,
                          IdleClose, Take, Run
<1>2. mpc[s] \notin Idle /\ mpc'[s] \notin {"none", "start", "joined"}
  BY <1>0, HandlesOne DEF runMessageReceive, RunnerStart, RunnerRun, RunnerCall, RunnerWoken, RunnerEnd, Handles, Handle,
                          IdleClose, Take, Run, Idle
<1>3. CASE RunnerStart(s)
  <2>1. mpc[s] = "start" /\ munRunThreadId' = s /\ UNCHANGED takers /\ mpc'[s] = "run"
    BY <1>0, <1>3 DEF RunnerStart, Run
  <2>2. s # 0
    BY Constants
  <2> QED BY <1>1, <1>2, <2>1, <2>2 DEF OneInv, Idle
<1>4. CASE ~RunnerStart(s)
  <2>1. UNCHANGED munRunThreadId /\ mpc[s] # "start"
    BY <1>4, HandlesOne DEF runMessageReceive, RunnerRun, RunnerCall, RunnerWoken, RunnerEnd, Handles, Handle, IdleClose,
                            Take, Run
  <2>2. \A c \in Session : takers'[c] \subseteq takers[c] \cup {s}
    <3>1. CASE Take(s)
      BY <3>1, TakenFacts
    <3>2. CASE ~Take(s)
      BY <1>4, <3>2, HandlesOne DEF runMessageReceive, RunnerRun, RunnerCall, RunnerWoken, RunnerEnd, Handles, Handle,
                                    IdleClose
    <3> QED BY <3>1, <3>2
  <2>3. app.stopsFirst /\ missed = {} => munRunThreadId = s /\ s = filter
    BY <1>2, <2>1 DEF OneInv, Idle
  <2>4. app.stopsFirst /\ missed = {} => \A c \in Session : c = filter => takers'[c] \subseteq {c}
    BY <2>2, <2>3 DEF OneInv
  <2>5. s # 0 /\ (mpc'[s] # "none" /\ mpc'[s] # "start")
    BY <1>2, Constants
  <2>6. app.stopsFirst /\ missed = {} => xpc \notin Early
    BY <1>2 DEF OneInv
  <2> QED BY <1>1, <2>1, <2>3, <2>4, <2>5, <2>6 DEF OneInv
<1> QED BY <1>3, <1>4

LEMMA OneStep == TypeInv /\ ToldInv /\ OneInv /\ [Next]_<<vars, app>> => OneInv'
<1> SUFFICES ASSUME TypeInv, ToldInv, OneInv, [Next]_<<vars, app>> PROVE OneInv'
  OBVIOUS
<1>1. ASSUME UNCHANGED <<app, filter, xpc, runners, calls>> PROVE OneInv'
  <2>1. UNCHANGED <<app, filter, xpc, munRunThreadId, mpc, takers, missed>>
    BY <1>1 DEF runners, calls
  <2> QED BY <2>1, OneFrame
<1>2. CASE UNCHANGED <<vars, app>>
  BY <1>1, <1>2 DEF vars
<1>3. ASSUME UNCHANGED app,
             \/ AppClose \/ (\E on \in BOOLEAN : SetIdleTimer(on)) \/ Age \/ TimerFire
             \/ \E s \in Session : ServerHangup(s)
      PROVE  OneInv'
  BY <1>1, <1>3 DEF AppClose, SetIdleTimer, Age, TimerFire, ServerHangup
<1>4. ASSUME UNCHANGED app, NEW s \in Session, runTcpReceive(s) PROVE OneInv'
  BY <1>1, <1>4 DEF runTcpReceive, Start, RecvCall, RecvReturns, Exit, SendConnect, SendReceive, SendAlive,
                    SendDisconnect, SendThreadExit, SendStep, OnlyReceiver
<1>5. CASE Next
  BY <1>3, <1>4, <1>5, OneConnect, OneStop, OneRunner DEF Next
<1> QED BY <1>2, <1>5

\* Of the connection in use the application hears onServerConnect first, then what
\* was received, then at most one onServerDisconnect, if one message thread took its
\* messages; and of an application that stops before it connects again only the thread
\* of that connection takes them, unless a stop() came before a message thread had
\* stored its id.
THEOREM CallbacksInOrder == Spec => []CallbackOrder
<1>1. Init => TypeInv /\ CallInv /\ ToldInv /\ OneInv
  BY TypeInit, CallInit, ToldInit, OneInit
<1>2. TypeInv /\ CallInv /\ ToldInv /\ OneInv /\ [Next]_<<vars, app>> => (TypeInv /\ CallInv /\ ToldInv /\ OneInv)'
  BY TypeStep, CallStep, ToldStep, OneStep
<1>3. TypeInv /\ ToldInv /\ OneInv => CallbackOrder
  <2> SUFFICES ASSUME TypeInv, ToldInv, OneInv PROVE CallbackOrder
    OBVIOUS
  <2>1. filter # 0 => filter \in Session
    BY ToldTypes, Constants
  <2>2. ASSUME NEW s \in Session, cur[s].cmd \in {"RECEIVE", "ALIVE", "DISCONNECT"}, cur[s].conn = filter,
               takers[filter] = {s}
        PROVE  told[filter] = "connected"
    <3>1. mpc[s] # "none"
      BY <2>2 DEF ToldInv, HoldInv, NoMsg
    <3>2. filter \in Session
      BY <2>1, <3>1 DEF TypeInv, Locals
    <3> QED BY <2>2, <3>2 DEF ToldInv, BehindInv, ThreadCmd
  <2>3. app.stopsFirst /\ missed = {} /\ filter # 0 => takers[filter] \subseteq {filter}
    BY <2>1 DEF OneInv
  <2> QED BY <2>2, <2>3 DEF CallbackOrder
<1> QED BY <1>1, <1>2, <1>3, PTL DEF Spec
=============================================================================

---------------------------- MODULE Handler_proofs ----------------------------
(***************************************************************************)
(* Theorems about Handler for any number of objects, keys, filters,        *)
(* queues, messages and crashes: its message thread is ended before the    *)
(* message handler is deleted, release() knows every queue an object has,  *)
(* and messages reach the object they were sent to or one with the same    *)
(* address.                                                                *)
(***************************************************************************)
EXTENDS Handler, TLAPS

Assumptions == NoneAssumption /\ ArgsAssumption /\ BoundsAssumption

LEMMA Numbers ==
    ASSUME Assumptions
    PROVE  /\ FirstId \in Nat /\ MaxClock \in Nat \ {0} /\ MaxQueues \in Nat /\ MaxMsgs \in Nat /\ MaxCrashes \in Nat
           /\ Id \subseteq Nat /\ -1 \notin Id /\ Time \subseteq Nat /\ 1 \in Time
           /\ None \notin Object /\ None \notin Id \cup {-1} /\ 0 \notin MsgId
           /\ Id \cup {-1} \subseteq Filter /\ Time \cup {DefaultKey} \subseteq Key
           /\ \A a \in Args : /\ a[1] \in Int /\ a[2] \in Int /\ a[1] \in Key /\ a[2] \in Filter
           /\ Filter \subseteq Int
<1>1. FirstId \in Nat /\ MaxClock \in Nat \ {0} /\ MaxQueues \in Nat /\ MaxMsgs \in Nat /\ MaxCrashes \in Nat
  BY DEF Assumptions, BoundsAssumption
<1>2. Id \subseteq Nat /\ -1 \notin Id
  BY <1>1 DEF Id
<1>3. Time \subseteq Nat /\ 1 \in Time /\ 0 \notin MsgId
  BY <1>1 DEF Time, MsgId
<1>4. None \notin Object /\ None \notin Int
  BY DEF Assumptions, NoneAssumption
<1>5. None \notin Id \cup {-1}
  <2>1. -1 \in Int /\ \A q \in Id : q \in Int
    BY <1>2
  <2> QED BY <1>4, <2>1
<1>6. \A a \in Args : a[1] \in Int /\ a[2] \in Int
  BY DEF Assumptions, ArgsAssumption
<1>7. \A a \in Args : a[1] \in Key /\ a[2] \in Filter
  BY DEF Key, Filter, Sent
<1>8. Id \cup {-1} \subseteq Filter /\ Time \cup {DefaultKey} \subseteq Key
  BY DEF Key, Filter, Sent
<1>9. Filter \subseteq Int
  <2>1. -1 \in Int /\ \A q \in Id : q \in Int
    BY <1>2
  <2> QED BY <1>6, <2>1 DEF Filter, Sent
<1> QED BY <1>1, <1>2, <1>3, <1>4, <1>5, <1>6, <1>7, <1>8, <1>9

-----------------------------------------------------------------------------
(* The inductive invariant                                                 *)

\* Ids are never given twice, an object that is not made has none, a queue has one key, and an
\* object that has a queue's id has its key.
IdInv ==
    /\ \A h \in Object : msqid[h] < next /\ (hpc[h] = "none" => msqid[h] = -1)
    /\ \A k \in Key : queue[k] # None => queue[k] < next
    /\ \A k, l \in Key : queue[k] = queue[l] /\ queue[k] # None => k = l
    /\ \A h \in Object, k \in Key : queue[k] = msqid[h] => mnMsqKey[h] = k
    /\ \A g, h \in Object : msqid[g] = msqid[h] /\ msqid[g] # -1 => mnMsqKey[g] = mnMsqKey[h]

\* A message is in the queue of the object it was sent through and, sent to no other
\* filter, has that object's.
Addressed(m, q) ==
    /\ m.to \in Object /\ msqid[m.to] = q /\ q # -1
    /\ m.lFilter > 0 /\ (m.own => mlFilter[m.to] = m.lFilter)

PostInv ==
    /\ \A q \in Id : \A i \in DOMAIN box[q] : Addressed(box[q][i], q)
    /\ \A h \in Object : cur[h] # NoMsg => Addressed(cur[h], msqid[h]) /\ cur[h].lFilter = mlFilter[h]

\* A thread that is alive is its object's, which is not gone; what it handles is a message.
ThreadInv == \A h \in Object :
    /\ Alive(h) => mlnThreadId[h] = h /\ hpc[h] \in {"up", "join"}
    /\ tpc[h] = "handle" => cur[h] # NoMsg

\* While a release() runs it will come to every queue of an object that is not torn; its
\* iterator stands on what is listed, unless every object is torn.
Ahead(q) ==
    /\ rel = "remove" => it <= q
    /\ rel = "next" => it < q
    /\ rel # "clear"

ReleaseInv ==
    /\ \A h \in Object :
         Present(h) /\ Exists(msqid[h]) /\ h \notin torn => msqid[h] \in listMsqId /\ Ahead(msqid[h])
    /\ it # None /\ it \notin listMsqId => \A h \in Object : Present(h) => h \in torn

-----------------------------------------------------------------------------
(* Types                                                                   *)

LEMMA Opens ==
    ASSUME Assumptions, TypeOK, NEW k \in Key, NEW q \in Id, msgget(k, q)
    PROVE  queue' \in [Key -> Id \cup {None}] /\ next' \in FirstId..FirstId + MaxQueues
<1>1. queue \in [Key -> Id \cup {None}] /\ next \in FirstId..FirstId + MaxQueues
  BY DEF TypeOK
<1>2. next \in Id => next + 1 \in FirstId..FirstId + MaxQueues
  BY Numbers DEF Id
<1> QED BY <1>1, <1>2 DEF msgget

LEMMA Removes ==
    ASSUME TypeOK, NEW ids, msgctl(ids)
    PROVE  /\ queue' \in [Key -> Id \cup {None}] /\ box' \in [Id -> Seq(Msg)] /\ next' = next
           /\ \A k \in Key : queue'[k] = IF queue[k] \in ids THEN None ELSE queue[k]
           /\ \A q \in Id : box'[q] = box[q] \/ box'[q] = <<>>
<1>1. queue \in [Key -> Id \cup {None}] /\ box \in [Id -> Seq(Msg)]
  BY DEF TypeOK
<1>2. queue' = [k \in Key |-> IF queue[k] \in ids THEN None ELSE queue[k]] /\ next' = next
  BY DEF msgctl
<1>3. box' = [q \in Id |-> IF q \in ids THEN <<>> ELSE box[q]]
  BY DEF msgctl
<1>4. box' \in [Id -> Seq(Msg)]
  BY <1>1, <1>3
<1>5. queue' \in [Key -> Id \cup {None}]
  BY <1>1, <1>2
<1> QED BY <1>2, <1>3, <1>4, <1>5

LEMMA Closes ==
    ASSUME TypeOK, NEW q, closeMsg(q)
    PROVE  /\ queue' \in [Key -> Id \cup {None}] /\ box' \in [Id -> Seq(Msg)] /\ next' = next
           /\ listMsqId' \subseteq Id \cup {-1} /\ torn' \subseteq Object
BY Removes DEF closeMsg, TypeOK

\* What is taken out of a sequence.
LEMMA Removed ==
    ASSUME NEW S, NEW s \in Seq(S), NEW i \in 1..Len(s)
    PROVE  /\ RemoveAt(s, i) \in Seq(S) /\ s[i] \in S
           /\ \A j \in DOMAIN RemoveAt(s, i) : \E k \in DOMAIN s : RemoveAt(s, i)[j] = s[k]
<1> DEFINE a == SubSeq(s, 1, i - 1)
           b == SubSeq(s, i + 1, Len(s))
<1>1. /\ a \in Seq(S) /\ b \in Seq(S)
      /\ \A j \in 1..Len(a) : j \in 1..Len(s) /\ a[j] = s[j]
      /\ \A j \in 1..Len(b) : j + i \in 1..Len(s) /\ b[j] = s[j + i]
  <2>1. Len(s) \in Nat /\ i \in 1..Len(s) /\ \A j \in 1..Len(s) : s[j] \in S
    OBVIOUS
  <2>2. a \in Seq(S) /\ \A j \in 1..Len(a) : j \in 1..Len(s) /\ a[j] = s[j]
    BY <2>1
  <2>3. b \in Seq(S) /\ \A j \in 1..Len(b) : j + i \in 1..Len(s) /\ b[j] = s[j + i]
    BY <2>1
  <2> QED BY <2>2, <2>3
<1>2. RemoveAt(s, i) = a \o b
  BY DEF RemoveAt
<1> HIDE DEF a, b
<1>3. a \o b \in Seq(S)
  BY <1>1
<1>4. ASSUME NEW j \in DOMAIN (a \o b) PROVE \E k \in DOMAIN s : (a \o b)[j] = s[k]
  <2>1. DOMAIN s = 1..Len(s)
    OBVIOUS
  <2>2. (j \in 1..Len(a) /\ (a \o b)[j] = a[j]) \/ (j - Len(a) \in 1..Len(b) /\ (a \o b)[j] = b[j - Len(a)])
    BY <1>1, <1>4
  <2> QED BY <1>1, <2>1, <2>2
<1> QED BY <1>2, <1>3, <1>4

LEMMA ConstructTypes ==
    ASSUME Assumptions, TypeOK, NEW h \in Object, Construct(h)
    PROVE  /\ clock' \in Time
           /\ \E q \in Id \cup {-1}, k \in Key :
                /\ \/ q \in Id /\ msgget(k, q)
                   \/ q = -1 /\ UNCHANGED <<queue, next>>
                /\ listMsqId' = listMsqId \cup {q}
                /\ mnMsqKey' = [mnMsqKey EXCEPT ![h] = k]
                /\ msqid' = [msqid EXCEPT ![h] = q]
                /\ \E f \in Filter : mlFilter' = [mlFilter EXCEPT ![h] = f]
                /\ \E t \in Object \cup {None} :
                     /\ mlnThreadId' = [mlnThreadId EXCEPT ![h] = t]
                     /\ tpc' = [tpc EXCEPT ![h] = IF q > 0 /\ t = h THEN "start" ELSE "none"]
<1>1. clock' \in Time
  <2>1. clock \in Time /\ clock' \in clock..MaxClock
    BY DEF TypeOK, Construct
  <2> QED BY <2>1, Numbers DEF Time
<1>2. PICK a \in Args, q \in Id \cup {-1} :
        /\ init(InitKey(a[1]), q)
        /\ mnMsqKey' = [mnMsqKey EXCEPT ![h] = InitKey(a[1])]
        /\ msqid' = [msqid EXCEPT ![h] = q]
        /\ mlFilter' = [mlFilter EXCEPT ![h] = IF a[2] # -1 THEN a[2] ELSE IF q > 0 THEN q ELSE -1]
        /\ \E t \in ThreadId(h, q) :
            /\ mlnThreadId' = [mlnThreadId EXCEPT ![h] = t]
            /\ tpc' = [tpc EXCEPT ![h] = IF q > 0 /\ t = h THEN "start" ELSE "none"]
  BY DEF Construct
<1>3. InitKey(a[1]) \in Key
  BY <1>1, Numbers DEF InitKey
<1>4. /\ \/ q \in Id /\ msgget(InitKey(a[1]), q)
         \/ q = -1 /\ UNCHANGED <<queue, next>>
      /\ listMsqId' = listMsqId \cup {q}
  <2>1. ASSUME msgget(InitKey(a[1]), q) PROVE q \in Id
    BY <1>3, <2>1, Numbers DEF msgget, TypeOK
  <2> QED BY <1>2, <2>1 DEF init
<1>5. (IF a[2] # -1 THEN a[2] ELSE IF q > 0 THEN q ELSE -1) \in Filter
  BY Numbers
<1>6. ThreadId(h, q) \subseteq Object \cup {None}
  BY DEF ThreadId
<1> QED BY <1>1, <1>2, <1>3, <1>4, <1>5, <1>6

\* What sendMessage puts into the queue, if it does.
LEMMA SendFacts ==
    ASSUME TypeOK, NEW h \in Object, NEW f \in Sent, sendMessage(h, f), ~UNCHANGED <<box, sent, heard>>
    PROVE  \E n \in MsgId, m \in Msg :
              /\ Exists(msqid[h])
              /\ m.to = h /\ m.lFilter > 0 /\ (m.own => mlFilter[h] = m.lFilter)
              /\ box' = [box EXCEPT ![msqid[h]] = Append(@, m)]
              /\ sent' = [sent EXCEPT ![n] = h]
              /\ heard' = heard \/ heard' = heard \cup {n}
<1> DEFINE filter == IF f = -1 THEN mlFilter[h] ELSE f
           M(n) == [lFilter |-> filter, to |-> h, own |-> filter = mlFilter[h], n |-> n]
<1>1. PICK n \in MsgId :
         /\ filter > 0 /\ Exists(msqid[h])
         /\ box' = [box EXCEPT ![msqid[h]] = Append(@, M(n))]
         /\ sent' = [sent EXCEPT ![n] = h]
         /\ heard' = IF listener[h] /\ filter = mlFilter[h] THEN heard \cup {n} ELSE heard
  BY DEF sendMessage
<1>2. filter \in Filter
  BY DEF TypeOK, Filter
<1>3. M(n) \in Msg
  <2>1. (filter = mlFilter[h]) \in BOOLEAN
    OBVIOUS
  <2> QED BY <1>2, <2>1 DEF Msg
<1>4. M(n).to = h /\ M(n).lFilter > 0 /\ (M(n).own => mlFilter[h] = M(n).lFilter)
  BY <1>1
<1> HIDE DEF M, filter
<1> QED BY <1>1, <1>3, <1>4

LEMMA TypeInit == ASSUME Assumptions, Init PROVE TypeOK
<1>1. box \in [Id -> Seq(Msg)]
  BY DEF Init
<1>2. next \in FirstId..FirstId + MaxQueues /\ 0 \in 0..MaxCrashes
  BY Numbers DEF Init
<1>3. queue \in [Key -> Id \cup {None}] /\ sent \in [MsgId -> Object \cup {None}]
  BY DEF Init
<1>4. mnMsqKey \in [Object -> Key] /\ msqid \in [Object -> Id \cup {-1}] /\ mlFilter \in [Object -> Filter]
  BY Numbers DEF Init
<1> QED BY <1>1, <1>2, <1>3, <1>4, Numbers DEF Init, TypeOK, ObjectState, ThreadState

Sends(h) == \E f \in Sent : sendMessage(h, f)

\* The steps of release() that remove no queue.
Walks == release \/ ReleaseNext \/ ReleaseClears

\* What release() leaves as it is.
LEMMA ReleaseRest ==
    ASSUME Releasing
    PROVE  UNCHANGED <<clock, hpc, mnMsqKey, msqid, listener, mlnThreadId, tpc, cur, mlFilter, cancelled, reg,
                       sent, heard, called, torn, crashes>>
BY DEF Releasing, release, ReleaseRemoves, ReleaseNext, ReleaseClears, Loop, fields, threads, book

LEMMA TypeStep == ASSUME Assumptions, TypeOK, ThreadInv, [Next]_vars PROVE TypeOK'
<1> USE DEF kernel, fields, threads, book, loop, Rest, OnlyThreads
<1>1. ASSUME NEW h \in Object, RunnerStart(h) PROVE TypeOK'
  <2>1. mlFilter' \in [Object -> Filter]
    BY <1>1, Numbers DEF RunnerStart, TypeOK
  <2> QED BY <1>1, <2>1 DEF RunnerStart, Go, TypeOK, ThreadState
<1>2. ASSUME NEW h \in Object, recvMessage(h) PROVE TypeOK'
  <2>1. PICK i \in 1..MaxMsgs : /\ Takes(h, i) /\ cur' = [cur EXCEPT ![h] = box[msqid[h]][i]]
                                /\ box' = [box EXCEPT ![msqid[h]] = RemoveAt(@, i)]
    BY <1>2 DEF recvMessage
  <2>2. msqid[h] \in Id
    BY <1>2, Numbers DEF recvMessage, Exists, TypeOK
  <2>3. box[msqid[h]] \in Seq(Msg) /\ i \in 1..Len(box[msqid[h]])
    BY <2>1, <2>2 DEF TypeOK, Takes
  <2>4. box[msqid[h]][i] \in Msg /\ RemoveAt(box[msqid[h]], i) \in Seq(Msg)
    BY <2>3, Removed
  <2>5. cur' \in [Object -> Msg \cup {NoMsg}] /\ box' \in [Id -> Seq(Msg)]
    BY <2>1, <2>4 DEF TypeOK
  <2> QED BY <1>2, <2>5 DEF recvMessage, Go, TypeOK, ThreadState
<1>3. ASSUME NEW h \in Object, RecvFails(h) \/ Woken(h) \/ Interrupted(h) \/ Cancelled(h) PROVE TypeOK'
  BY <1>3 DEF RecvFails, Woken, Interrupted, Cancelled, Go, TypeOK, ThreadState
<1>4. ASSUME NEW h \in Object, onHandleMessage(h) PROVE TypeOK'
  <2>1. cur[h] # NoMsg
    BY <1>4 DEF onHandleMessage, Go, ThreadInv
  <2>2. cur[h] \in Msg
    BY <2>1 DEF TypeOK
  <2>3. cur[h].n \in MsgId
    BY <2>2 DEF Msg
  <2> QED BY <1>4, <2>3 DEF onHandleMessage, Go, TypeOK, ThreadState
<1>5. ASSUME NEW h \in Object, Construct(h) PROVE TypeOK'
  <2>1. PICK q \in Id \cup {-1}, k \in Key :
                /\ \/ q \in Id /\ msgget(k, q)
                   \/ q = -1 /\ UNCHANGED <<queue, next>>
                /\ listMsqId' = listMsqId \cup {q}
                /\ mnMsqKey' = [mnMsqKey EXCEPT ![h] = k]
                /\ msqid' = [msqid EXCEPT ![h] = q]
                /\ \E f \in Filter : mlFilter' = [mlFilter EXCEPT ![h] = f]
                /\ \E t \in Object \cup {None} :
                     /\ mlnThreadId' = [mlnThreadId EXCEPT ![h] = t]
                     /\ tpc' = [tpc EXCEPT ![h] = IF q > 0 /\ t = h THEN "start" ELSE "none"]
    BY <1>5, ConstructTypes
  <2>2. queue' \in [Key -> Id \cup {None}] /\ next' \in FirstId..FirstId + MaxQueues
    BY <2>1, Opens DEF TypeOK
  <2>3. mlFilter' \in [Object -> Filter] /\ mlnThreadId' \in [Object -> Object \cup {None}]
    BY <2>1 DEF TypeOK
  <2>7. torn' \subseteq Object
    BY <1>5 DEF Construct, TypeOK
  <2>4. /\ mnMsqKey' \in [Object -> Key] /\ msqid' \in [Object -> Id \cup {-1}] /\ listMsqId' \subseteq Id \cup {-1}
        /\ tpc' \in [Object -> ThreadState]
    BY <2>1 DEF TypeOK, ThreadState
  <2>5. clock' \in Time
    BY <1>5, ConstructTypes
  <2>6. hpc' \in [Object -> ObjectState]
    BY <1>5 DEF Construct, TypeOK, ObjectState
  <2> QED BY <1>5, <2>2, <2>3, <2>4, <2>5, <2>6, <2>7 DEF Construct, TypeOK
<1>6. ASSUME NEW h \in Object, setHandleMessageListener(h) PROVE TypeOK'
  BY <1>6 DEF setHandleMessageListener, TypeOK
<1>7. ASSUME NEW h \in Object, NEW f \in Sent, sendMessage(h, f) PROVE TypeOK'
  <2>1. CASE UNCHANGED <<box, sent, heard>>
    BY <1>7, <2>1 DEF sendMessage, TypeOK
  <2>2. CASE ~UNCHANGED <<box, sent, heard>>
    <3>1. PICK n \in MsgId, m \in Msg :
            /\ Exists(msqid[h])
            /\ box' = [box EXCEPT ![msqid[h]] = Append(@, m)]
            /\ sent' = [sent EXCEPT ![n] = h]
            /\ heard' = heard \/ heard' = heard \cup {n}
      BY <1>7, <2>2, SendFacts
    <3>2. msqid[h] \in Id
      BY <3>1, Numbers DEF Exists, TypeOK
    <3>4. Append(box[msqid[h]], m) \in Seq(Msg)
      <4>1. box[msqid[h]] \in Seq(Msg)
        BY <3>2 DEF TypeOK
      <4> QED BY <4>1
    <3>5. box' \in [Id -> Seq(Msg)]
      BY <3>1, <3>4 DEF TypeOK
    <3>6. sent' \in [MsgId -> Object \cup {None}] /\ heard' \subseteq MsgId
      BY <3>1 DEF TypeOK
    <3> QED BY <1>7, <3>5, <3>6 DEF sendMessage, TypeOK
  <2> QED BY <2>1, <2>2
<1>8. ASSUME NEW h \in Object, close(h) \/ clearMessage(h) PROVE TypeOK'
  <2>1. /\ queue' \in [Key -> Id \cup {None}] /\ box' \in [Id -> Seq(Msg)] /\ next' = next
        /\ listMsqId' \subseteq Id \cup {-1} /\ torn' \subseteq Object
    BY <1>8, Closes DEF close, clearMessage
  <2> QED BY <1>8, <2>1 DEF close, clearMessage, TypeOK
<1>9. ASSUME NEW h \in Object, Destroy(h) PROVE TypeOK'
  BY <1>9 DEF Destroy, TypeOK, ObjectState
<1>10. ASSUME NEW h \in Object, Destroyed(h) PROVE TypeOK'
  BY <1>10 DEF Destroyed, TypeOK, ObjectState, ThreadState
<1>11. ASSUME NEW k \in Key, registerMsq(k) PROVE TypeOK'
  <2>1. PICK q \in Id : msgget(k, q) /\ reg' = q
    BY <1>11 DEF registerMsq
  <2>2. queue' \in [Key -> Id \cup {None}] /\ next' \in FirstId..FirstId + MaxQueues
    BY <2>1, Opens
  <2> QED BY <1>11, <2>1, <2>2 DEF registerMsq, TypeOK
<1>12. CASE CloseRegistered
  <2>1. /\ queue' \in [Key -> Id \cup {None}] /\ box' \in [Id -> Seq(Msg)] /\ next' = next
        /\ listMsqId' \subseteq Id \cup {-1} /\ torn' \subseteq Object
    BY <1>12, Closes DEF CloseRegistered
  <2> QED BY <1>12, <2>1 DEF CloseRegistered, TypeOK
<1>13. CASE Releasing
  <2>1. /\ queue' \in [Key -> Id \cup {None}] /\ box' \in [Id -> Seq(Msg)] /\ next' = next
        /\ listMsqId' \subseteq Id \cup {-1}
    <3>1. CASE ReleaseRemoves
      BY <3>1, Removes DEF ReleaseRemoves, TypeOK
    <3>2. CASE ~ReleaseRemoves
      BY <1>13, <3>2 DEF Releasing, release, ReleaseNext, ReleaseClears, TypeOK
    <3> QED BY <3>1, <3>2
  <2>2. /\ it' \in Id \cup {-1, None} /\ rel' \in {"idle", "remove", "next", "clear"}
        /\ it' = None <=> rel' \in {"idle", "clear"}
    <3>1. \A q \in listMsqId : q \in Id \cup {-1} /\ q # None
      BY Numbers DEF TypeOK
    <3> QED BY <1>13, <3>1 DEF Releasing, release, ReleaseRemoves, ReleaseNext, ReleaseClears, Loop, TypeOK
  <2> QED BY <1>13, <2>1, <2>2, ReleaseRest DEF TypeOK
<1>14. CASE Crash
  <2>1. crashes' \in 0..MaxCrashes
    BY <1>14, Numbers DEF Crash, TypeOK
  <2> QED BY <1>14, <2>1 DEF Crash, TypeOK, ObjectState, ThreadState
<1>15. CASE UNCHANGED vars
  BY <1>15 DEF vars, TypeOK
<1> QED BY <1>1, <1>2, <1>3, <1>4, <1>5, <1>6, <1>7, <1>8, <1>9, <1>10, <1>11, <1>12, <1>13, <1>14, <1>15
        DEF Next, Runner, Owner

-----------------------------------------------------------------------------
(* Threads                                                                 *)

LEMMA ThreadStep == ASSUME Assumptions, TypeOK, ThreadInv, [Next]_vars PROVE ThreadInv'
<1> USE DEF kernel, fields, threads, book, loop, Rest, OnlyThreads
<1>1. ASSUME NEW h \in Object, RunnerStart(h) \/ RecvFails(h) \/ Woken(h) \/ Interrupted(h) \/ Cancelled(h)
                                 \/ onHandleMessage(h)
      PROVE  ThreadInv'
  <2>1. /\ Alive(h) /\ tpc' = [tpc EXCEPT ![h] = tpc'[h]] /\ tpc'[h] # "handle"
        /\ UNCHANGED <<hpc, mlnThreadId>>
        /\ cur' = cur \/ cur' = [cur EXCEPT ![h] = NoMsg]
    BY <1>1 DEF RunnerStart, RecvFails, Woken, Interrupted, Cancelled, onHandleMessage, Go, Alive, TypeOK
  <2> QED BY <2>1 DEF ThreadInv, Alive, TypeOK
<1>2. ASSUME NEW h \in Object, recvMessage(h) PROVE ThreadInv'
  <2>1. PICK i \in 1..MaxMsgs : Takes(h, i) /\ cur' = [cur EXCEPT ![h] = box[msqid[h]][i]]
    BY <1>2 DEF recvMessage
  <2>2. msqid[h] \in Id
    BY <1>2, Numbers DEF recvMessage, Exists, TypeOK
  <2>3. box[msqid[h]] \in Seq(Msg) /\ i \in 1..Len(box[msqid[h]])
    BY <2>1, <2>2 DEF TypeOK, Takes
  <2>4. box[msqid[h]][i] # NoMsg
    <3>1. box[msqid[h]][i] \in Msg
      BY <2>3, Removed
    <3>2. NoMsg.to = None
      BY DEF NoMsg
    <3> QED BY <3>1, <3>2, Numbers DEF Msg
  <2>5. Alive(h) /\ tpc' = [tpc EXCEPT ![h] = "handle"] /\ UNCHANGED <<hpc, mlnThreadId>>
    BY <1>2 DEF recvMessage, Go, Alive
  <2> QED BY <2>1, <2>4, <2>5 DEF ThreadInv, Alive, TypeOK
<1>3. ASSUME NEW h \in Object, Construct(h) PROVE ThreadInv'
  <2>1. PICK q \in Id \cup {-1}, t \in Object \cup {None} :
                /\ mlnThreadId' = [mlnThreadId EXCEPT ![h] = t]
                /\ tpc' = [tpc EXCEPT ![h] = IF q > 0 /\ t = h THEN "start" ELSE "none"]
    BY <1>3, ConstructTypes
  <2>2. hpc' = [hpc EXCEPT ![h] = "up"] /\ cur' = cur
    BY <1>3 DEF Construct
  <2> QED BY <2>1, <2>2 DEF ThreadInv, Alive, TypeOK
<1>4. ASSUME NEW h \in Object,
             setHandleMessageListener(h) \/ Sends(h) \/ close(h) \/ clearMessage(h)
      PROVE  ThreadInv'
  <2>1. UNCHANGED <<tpc, cur, hpc, mlnThreadId>>
    BY <1>4 DEF setHandleMessageListener, Sends, sendMessage, close, clearMessage
  <2> QED BY <2>1 DEF ThreadInv, Alive
<1>5. ASSUME NEW h \in Object, Destroy(h) PROVE ThreadInv'
  BY <1>5 DEF Destroy, ThreadInv, Alive, TypeOK
<1>6. ASSUME NEW h \in Object, Destroyed(h) PROVE ThreadInv'
  <2>1. ~Alive(h)
    <3>1. ASSUME Alive(h) PROVE FALSE
      <4>1. mlnThreadId[h] = h /\ h # None
        BY <3>1, Numbers DEF ThreadInv
      <4> QED BY <1>6, <3>1, <4>1 DEF Destroyed
    <3> QED BY <3>1
  <2>2. /\ \A t \in Object : tpc'[t] = tpc[t] \/ tpc'[t] = "joined"
        /\ hpc' = [hpc EXCEPT ![h] = "gone"] /\ cur' = cur
        /\ \A g \in Object \ {h} : mlnThreadId'[g] = mlnThreadId[g]
    BY <1>6 DEF Destroyed, TypeOK
  <2> QED BY <2>1, <2>2 DEF ThreadInv, Alive, TypeOK
<1>7. ASSUME (\E k \in Key : registerMsq(k)) \/ CloseRegistered \/ Releasing \/ UNCHANGED vars PROVE ThreadInv'
  <2>1. UNCHANGED <<tpc, cur, hpc, mlnThreadId>>
    BY <1>7, ReleaseRest DEF registerMsq, CloseRegistered, vars
  <2> QED BY <2>1 DEF ThreadInv, Alive
<1>8. CASE Crash
  BY <1>8 DEF Crash, ThreadInv, Alive
<1> QED BY <1>1, <1>2, <1>3, <1>4, <1>5, <1>6, <1>7, <1>8 DEF Next, Runner, Owner, Sends

-----------------------------------------------------------------------------
(* Queues and what is in them                                              *)

\* A queue is new, with the next id, or is there already.
LEMMA OpenFacts ==
    ASSUME Assumptions, TypeOK, NEW k \in Key, NEW q \in Id, msgget(k, q)
    PROVE  /\ \A l \in Key : queue'[l] = IF l = k THEN q ELSE queue[l]
           /\ \/ queue[k] = q /\ next' = next
              \/ q = next /\ next' = next + 1
           /\ next \in Nat
<1>1. queue \in [Key -> Id \cup {None}] /\ next \in Nat
  BY Numbers DEF TypeOK
<1> QED BY <1>1 DEF msgget

\* Opening a queue keeps what is known of ids.
LEMMA OpenIds ==
    ASSUME Assumptions, TypeOK, IdInv, NEW k \in Key, NEW q \in Id, msgget(k, q)
    PROVE  /\ next' \in Nat /\ next <= next' /\ q < next' /\ next \in Nat
           /\ \A l \in Key : queue'[l] # None => queue'[l] < next'
           /\ \A l, j \in Key : queue'[l] = queue'[j] /\ queue'[l] # None => l = j
           /\ queue'[k] = q
           /\ \A g \in Object, l \in Key : queue'[l] = msqid[g] => queue[l] = msqid[g]
<1>1. /\ \A l \in Key : queue'[l] = IF l = k THEN q ELSE queue[l]
      /\ \/ queue[k] = q /\ next' = next
         \/ q = next /\ next' = next + 1
      /\ next \in Nat
  BY OpenFacts
<1>2. /\ \A g \in Object : msqid[g] \in Int /\ msqid[g] < next
      /\ \A l \in Key : queue[l] # None => queue[l] \in Nat /\ queue[l] < next
      /\ q \in Nat /\ q # None
  BY Numbers DEF IdInv, TypeOK
<1>3. next' \in Nat /\ next <= next' /\ q < next'
  BY <1>1, <1>2
<1>4. \A l \in Key : queue'[l] # None => queue'[l] < next'
  BY <1>1, <1>2, <1>3
<1>5. \A l \in Key : l # k => queue[l] # q
  <2>1. CASE queue[k] = q
    BY <1>2, <2>1 DEF IdInv
  <2>2. CASE q = next
    BY <1>1, <1>2, <2>2
  <2> QED BY <1>1, <2>1, <2>2
<1>6. \A l, j \in Key : queue'[l] = queue'[j] /\ queue'[l] # None => l = j
  BY <1>1, <1>2, <1>5 DEF IdInv
<1>7. ASSUME NEW g \in Object, NEW l \in Key, queue'[l] = msqid[g] PROVE queue[l] = msqid[g]
  <2>1. CASE l = k /\ queue[k] # q
    BY <1>1, <1>2, <1>7, <2>1
  <2>2. CASE l # k \/ queue[k] = q
    BY <1>1, <1>7, <2>2
  <2> QED BY <2>1, <2>2
<1> QED BY <1>1, <1>3, <1>4, <1>6, <1>7

\* Ids, keys and objects while queues are only removed, or nothing happens to them.
LEMMA IdKept ==
    ASSUME IdInv, UNCHANGED <<next, msqid, mnMsqKey>>,
           \A k \in Key : queue'[k] = queue[k] \/ queue'[k] = None,
           \A h \in Object : hpc'[h] = "none" => hpc[h] = "none",
           \A h \in Object : msqid[h] # None
    PROVE  IdInv'
BY DEF IdInv

LEMMA IdStep == ASSUME Assumptions, TypeOK, IdInv, [Next]_vars PROVE IdInv'
<1> USE DEF kernel, fields, threads, book, loop, Rest, OnlyThreads
<1>1. \A h \in Object : msqid[h] # None
  BY Numbers DEF TypeOK
<1>2. ASSUME NEW h \in Object, Construct(h) PROVE IdInv'
  <2>1. PICK q \in Id \cup {-1}, k \in Key :
                /\ \/ q \in Id /\ msgget(k, q)
                   \/ q = -1 /\ UNCHANGED <<queue, next>>
                /\ mnMsqKey' = [mnMsqKey EXCEPT ![h] = k]
                /\ msqid' = [msqid EXCEPT ![h] = q]
    BY <1>2, ConstructTypes
  <2>2. /\ msqid'[h] = q /\ mnMsqKey'[h] = k
        /\ \A g \in Object : g # h => msqid'[g] = msqid[g] /\ mnMsqKey'[g] = mnMsqKey[g]
    BY <2>1 DEF TypeOK
  <2>3. hpc'[h] = "up" /\ \A g \in Object : g # h => hpc'[g] = hpc[g]
    BY <1>2 DEF Construct, TypeOK
  <2>4. next \in Nat /\ \A g \in Object : msqid[g] \in Int
    BY Numbers DEF TypeOK
  <2>5. CASE q \in Id /\ msgget(k, q)
    <3>1. /\ next' \in Nat /\ next <= next' /\ q < next'
          /\ \A l \in Key : queue'[l] # None => queue'[l] < next'
          /\ \A l, j \in Key : queue'[l] = queue'[j] /\ queue'[l] # None => l = j
          /\ queue'[k] = q
          /\ \A g \in Object, l \in Key : queue'[l] = msqid[g] => queue[l] = msqid[g]
      BY <2>5, OpenIds
    <3>2. \A g \in Object : msqid'[g] < next' /\ (hpc'[g] = "none" => msqid'[g] = -1)
      BY <2>2, <2>3, <2>4, <3>1 DEF IdInv
    <3>3. \A g \in Object, l \in Key : queue'[l] = msqid'[g] => mnMsqKey'[g] = l
      <4>1. q # None
        BY <2>5, Numbers
      <4>2. \A l \in Key : queue'[l] = q => l = k
        BY <3>1, <4>1
      <4> QED BY <2>2, <3>1, <4>2 DEF IdInv
    <3>4. \A f, g \in Object : msqid'[f] = msqid'[g] /\ msqid'[f] # -1 => mnMsqKey'[f] = mnMsqKey'[g]
      BY <2>2, <3>1, <3>3 DEF IdInv
    <3> QED BY <3>1, <3>2, <3>3, <3>4 DEF IdInv
  <2>6. CASE q = -1 /\ UNCHANGED <<queue, next>>
    <3>1. \A l \in Key : queue[l] # -1
      BY Numbers DEF TypeOK
    <3>2. -1 < next
      BY <2>4
    <3> QED BY <2>2, <2>3, <2>6, <3>1, <3>2 DEF IdInv
  <2> QED BY <2>1, <2>5, <2>6
<1>3. ASSUME NEW k \in Key, registerMsq(k) PROVE IdInv'
  <2>1. PICK q \in Id : msgget(k, q)
    BY <1>3 DEF registerMsq
  <2>2. UNCHANGED <<hpc, msqid, mnMsqKey>>
    BY <1>3 DEF registerMsq
  <2>3. /\ next' \in Nat /\ next <= next' /\ next \in Nat
        /\ \A l \in Key : queue'[l] # None => queue'[l] < next'
        /\ \A l, j \in Key : queue'[l] = queue'[j] /\ queue'[l] # None => l = j
        /\ \A g \in Object, l \in Key : queue'[l] = msqid[g] => queue[l] = msqid[g]
    BY <2>1, OpenIds
  <2>4. \A g \in Object : msqid[g] < next'
    <3>1. \A g \in Object : msqid[g] \in Int /\ msqid[g] < next
      BY Numbers DEF IdInv, TypeOK
    <3> QED BY <2>3, <3>1
  <2> QED BY <2>2, <2>3, <2>4 DEF IdInv
<1>4. CASE (\E h \in Object : close(h) \/ clearMessage(h)) \/ CloseRegistered \/ ReleaseRemoves
  <2>1. PICK ids : msgctl(ids)
    BY <1>4 DEF close, clearMessage, CloseRegistered, ReleaseRemoves, closeMsg
  <2>2. next' = next /\ \A k \in Key : queue'[k] = queue[k] \/ queue'[k] = None
    BY <2>1, Removes
  <2>3. UNCHANGED <<hpc, msqid, mnMsqKey>>
    BY <1>4, ReleaseRest DEF close, clearMessage, CloseRegistered, ReleaseRemoves, Releasing
  <2> QED BY <1>1, <2>2, <2>3, IdKept
<1>5. CASE (\E h \in Object : Runner(h) \/ setHandleMessageListener(h) \/ Sends(h) \/ Destroy(h) \/ Destroyed(h))
             \/ Walks \/ Crash \/ UNCHANGED vars
  <2>1. UNCHANGED <<queue, next, msqid, mnMsqKey>>
    <3>1. CASE Walks
      BY <3>1, ReleaseRest DEF Walks, Releasing, release, ReleaseNext, ReleaseClears
    <3> QED BY <1>5, <3>1 DEF Runner, RunnerStart, recvMessage, RecvFails, Woken, Interrupted, onHandleMessage,
                Cancelled, setHandleMessageListener, Sends, sendMessage, Destroy, Destroyed, Crash, vars
  <2>2. \A h \in Object : hpc'[h] = "none" => hpc[h] = "none"
    <3>1. CASE Walks
      BY <3>1, ReleaseRest DEF Walks, Releasing
    <3> QED BY <1>5, <3>1 DEF Runner, RunnerStart, recvMessage, RecvFails, Woken, Interrupted, onHandleMessage,
                Cancelled, setHandleMessageListener, Sends, sendMessage, Destroy, Destroyed, Crash, vars, TypeOK
  <2> QED BY <1>1, <2>1, <2>2, IdKept
<1> QED BY <1>2, <1>3, <1>4, <1>5 DEF Next, Owner, Sends, Releasing, Walks

\* What is in the queues and in hand while messages are only taken away.
LEMMA PostKept ==
    ASSUME PostInv, UNCHANGED <<msqid, mlFilter>>,
           \A q \in Id : \A i \in DOMAIN box'[q] : \E j \in DOMAIN box[q] : box'[q][i] = box[q][j],
           \A h \in Object : cur'[h] = cur[h] \/ cur'[h] = NoMsg
    PROVE  PostInv'
<1>1. \A m, q : Addressed(m, q)' <=> Addressed(m, q)
  BY DEF Addressed
<1>2. \A q \in Id : \A i \in DOMAIN box'[q] : Addressed(box'[q][i], q)
  BY DEF PostInv
<1>3. \A q \in Id : \A i \in DOMAIN box'[q] : Addressed(box[q][i], q)'
  BY <1>1, <1>2 DEF Addressed
<1>4. \A h \in Object : cur'[h] # NoMsg => Addressed(cur[h], msqid[h]) /\ cur[h].lFilter = mlFilter[h] /\ cur'[h] = cur[h]
  BY DEF PostInv
<1> QED BY <1>2, <1>4 DEF PostInv, Addressed

LEMMA PostStep == ASSUME Assumptions, TypeOK, IdInv, PostInv, [Next]_vars PROVE PostInv'
<1> USE DEF kernel, fields, threads, book, loop, Rest, OnlyThreads
<1>1. ASSUME NEW h \in Object, RunnerStart(h) PROVE PostInv'
  <2>1. UNCHANGED <<msqid, box, cur>> /\ mlFilter' = [mlFilter EXCEPT ![h] = mlFilter'[h]]
        /\ (mlFilter[h] > 0 => mlFilter'[h] = mlFilter[h])
    BY <1>1, Numbers DEF RunnerStart, TypeOK
  <2>2. \A g \in Object : mlFilter[g] > 0 => mlFilter'[g] = mlFilter[g]
    BY <2>1 DEF TypeOK
  <2>3. ASSUME NEW q \in Id, NEW i \in DOMAIN box'[q] PROVE Addressed(box[q][i], q)'
    BY <2>1, <2>2, <2>3 DEF PostInv, Addressed
  <2>4. ASSUME NEW g \in Object, cur'[g] # NoMsg PROVE Addressed(cur[g], msqid[g])' /\ cur'[g].lFilter = mlFilter'[g]
    BY <2>1, <2>2, <2>4 DEF PostInv, Addressed
  <2> QED BY <2>3, <2>4 DEF PostInv
<1>2. ASSUME NEW h \in Object, recvMessage(h) PROVE PostInv'
  <2>1. PICK i \in 1..MaxMsgs : /\ Takes(h, i) /\ cur' = [cur EXCEPT ![h] = box[msqid[h]][i]]
                                /\ box' = [box EXCEPT ![msqid[h]] = RemoveAt(@, i)]
    BY <1>2 DEF recvMessage
  <2> PICK b : b = msqid[h]
    OBVIOUS
  <2>2. b \in Id
    BY <1>2, Numbers DEF recvMessage, Exists, TypeOK
  <2>3. box[b] \in Seq(Msg) /\ i \in 1..Len(box[b]) /\ i \in DOMAIN box[b]
    BY <2>1, <2>2 DEF TypeOK, Takes
  <2>4. UNCHANGED <<msqid, mlFilter>>
    BY <1>2 DEF recvMessage
  <2>5. \A j \in DOMAIN RemoveAt(box[b], i) : \E k \in DOMAIN box[b] : RemoveAt(box[b], i)[j] = box[b][k]
    BY <2>3, Removed
  <2>6. \A q \in Id : box'[q] = IF q = b THEN RemoveAt(box[b], i) ELSE box[q]
    BY <2>1 DEF TypeOK
  <2>7. Addressed(box[b][i], b) /\ box[b][i].lFilter = mlFilter[h]
    BY <2>1, <2>2, <2>3 DEF PostInv, Takes, Own
  <2>8. \A g \in Object : cur'[g] = IF g = h THEN box[b][i] ELSE cur[g]
    BY <2>1 DEF TypeOK
  <2>9. \A q \in Id : \A j \in DOMAIN box'[q] : \E k \in DOMAIN box[q] : box'[q][j] = box[q][k]
    BY <2>5, <2>6
  <2>10. ASSUME NEW q \in Id, NEW j \in DOMAIN box'[q] PROVE Addressed(box[q][j], q)'
    BY <2>4, <2>9 DEF PostInv, Addressed
  <2>11. ASSUME NEW g \in Object, cur'[g] # NoMsg
         PROVE  Addressed(cur[g], msqid[g])' /\ cur'[g].lFilter = mlFilter'[g]
    BY <2>4, <2>7, <2>8, <2>11 DEF PostInv, Addressed
  <2> QED BY <2>10, <2>11 DEF PostInv
<1>3. ASSUME NEW h \in Object, RecvFails(h) \/ Woken(h) \/ Interrupted(h) \/ Cancelled(h) \/ onHandleMessage(h)
      PROVE  PostInv'
  <2>1. UNCHANGED <<msqid, mlFilter, box>>
    BY <1>3 DEF RecvFails, Woken, Interrupted, Cancelled, onHandleMessage
  <2>2. \A g \in Object : cur'[g] = cur[g] \/ cur'[g] = NoMsg
    BY <1>3 DEF RecvFails, Woken, Interrupted, Cancelled, onHandleMessage, TypeOK
  <2> QED BY <2>1, <2>2, PostKept
<1>4. ASSUME NEW h \in Object, Construct(h) PROVE PostInv'
  <2>1. /\ \A g \in Object : g # h => msqid'[g] = msqid[g] /\ mlFilter'[g] = mlFilter[g]
        /\ UNCHANGED <<box, cur>> /\ msqid[h] = -1
    <3>1. /\ \E q \in Id \cup {-1} : msqid' = [msqid EXCEPT ![h] = q]
          /\ \E f \in Filter : mlFilter' = [mlFilter EXCEPT ![h] = f]
      BY <1>4, ConstructTypes
    <3>2. UNCHANGED <<box, cur>> /\ msqid[h] = -1
      BY <1>4 DEF Construct, IdInv
    <3> QED BY <3>1, <3>2 DEF TypeOK
  <2>2. ASSUME NEW q \in Id, NEW i \in DOMAIN box'[q] PROVE Addressed(box[q][i], q)'
    BY <2>1 DEF PostInv, Addressed
  <2>3. ASSUME NEW g \in Object, cur'[g] # NoMsg PROVE Addressed(cur[g], msqid[g])' /\ cur'[g].lFilter = mlFilter'[g]
    BY <2>1, <2>3 DEF PostInv, Addressed
  <2> QED BY <2>2, <2>3 DEF PostInv
<1>5. ASSUME NEW h \in Object, NEW f \in Sent, sendMessage(h, f) PROVE PostInv'
  <2>1. UNCHANGED <<msqid, mlFilter, cur>>
    BY <1>5 DEF sendMessage
  <2>2. CASE box' = box
    BY <2>1, <2>2, PostKept
  <2>3. CASE box' # box
    <3>1. PICK m \in Msg :
            /\ Exists(msqid[h]) /\ m.to = h /\ m.lFilter > 0 /\ (m.own => mlFilter[h] = m.lFilter)
            /\ box' = [box EXCEPT ![msqid[h]] = Append(@, m)]
      BY <1>5, <2>3, SendFacts
    <3> PICK b : b = msqid[h]
      OBVIOUS
    <3>2. b \in Id /\ b # -1
      BY <3>1, Numbers DEF Exists, TypeOK
    <3>3. Addressed(m, b)
      BY <3>1, <3>2 DEF Addressed
    <3>4. \A q \in Id : box'[q] = IF q = b THEN Append(box[b], m) ELSE box[q]
      BY <3>1 DEF TypeOK
    <3>5. \A i \in DOMAIN Append(box[b], m) : (i \in DOMAIN box[b] /\ Append(box[b], m)[i] = box[b][i]) \/ Append(box[b], m)[i] = m
      <4>1. box[b] \in Seq(Msg) /\ m \in Msg
        BY <3>2 DEF TypeOK
      <4> QED BY <4>1
    <3>6. \A q \in Id : \A i \in DOMAIN box'[q] : Addressed(box'[q][i], q)
      <4> SUFFICES ASSUME NEW q \in Id, NEW i \in DOMAIN box'[q] PROVE Addressed(box'[q][i], q)
        OBVIOUS
      <4>1. CASE q = b
        <5>1. box'[q] = Append(box[b], m)
          BY <3>4, <4>1
        <5>2. Addressed(box[b][i], b) \/ ~(i \in DOMAIN box[b])
          BY <3>2 DEF PostInv
        <5> QED BY <3>3, <3>5, <4>1, <5>1, <5>2
      <4>2. CASE q # b
        BY <3>4, <4>2 DEF PostInv
      <4> QED BY <4>1, <4>2
    <3>7. ASSUME NEW q \in Id, NEW i \in DOMAIN box'[q] PROVE Addressed(box[q][i], q)'
      BY <2>1, <3>6 DEF Addressed
    <3>8. ASSUME NEW g \in Object, cur'[g] # NoMsg PROVE Addressed(cur[g], msqid[g])' /\ cur'[g].lFilter = mlFilter'[g]
      BY <2>1, <3>8 DEF PostInv, Addressed
    <3> QED BY <3>7, <3>8 DEF PostInv
  <2> QED BY <2>2, <2>3
<1>6. CASE (\E h \in Object : close(h) \/ clearMessage(h)) \/ CloseRegistered \/ ReleaseRemoves
  <2>1. PICK ids : msgctl(ids)
    BY <1>6 DEF close, clearMessage, CloseRegistered, ReleaseRemoves, closeMsg
  <2>2. \A q \in Id : box'[q] = box[q] \/ box'[q] = <<>>
    BY <2>1, Removes
  <2>3. UNCHANGED <<msqid, mlFilter, cur>>
    BY <1>6, ReleaseRest DEF close, clearMessage, CloseRegistered, Releasing
  <2> QED BY <2>2, <2>3, PostKept
<1>7. CASE (\E h \in Object : setHandleMessageListener(h) \/ Destroy(h) \/ Destroyed(h)) \/ (\E k \in Key : registerMsq(k))
             \/ Walks \/ UNCHANGED vars
  <2>1. UNCHANGED <<msqid, mlFilter, cur, box>>
    <3>1. CASE Walks
      BY <3>1, ReleaseRest DEF Walks, Releasing, release, ReleaseNext, ReleaseClears
    <3> QED BY <1>7, <3>1 DEF setHandleMessageListener, Destroy, Destroyed, registerMsq, vars
  <2> QED BY <2>1, PostKept
<1>8. CASE Crash
  <2>1. UNCHANGED <<msqid, mlFilter, box>> /\ \A g \in Object : cur'[g] = NoMsg
    BY <1>8 DEF Crash
  <2> QED BY <2>1, PostKept
<1> QED BY <1>1, <1>2, <1>3, <1>4, <1>5, <1>6, <1>7, <1>8 DEF Next, Runner, Owner, Releasing, Walks

\* Listed and ahead of the iterator: what is opened while no release() runs, and what is not
\* removed.
LEMMA ReleaseStep == ASSUME Assumptions, TypeOK, IdInv, ReleaseInv, [Next]_vars PROVE ReleaseInv'
<1> USE DEF kernel, fields, threads, book, loop, Rest, OnlyThreads
<1>1. /\ \A h \in Object : msqid[h] # None /\ msqid[h] \in Int
      /\ \A q \in listMsqId : q \in Int /\ q # None
      /\ it # None => it \in Int
      /\ it = None <=> rel \in {"idle", "clear"}
      /\ rel \in {"idle", "remove", "next", "clear"}
  BY Numbers DEF TypeOK
<1>2. ASSUME NEW h \in Object, Construct(h) PROVE ReleaseInv'
  <2>1. PICK q \in Id \cup {-1}, k \in Key :
                /\ \/ q \in Id /\ msgget(k, q)
                   \/ q = -1 /\ UNCHANGED <<queue, next>>
                /\ listMsqId' = listMsqId \cup {q}
                /\ msqid' = [msqid EXCEPT ![h] = q]
    BY <1>2, ConstructTypes
  <2>2. /\ msqid'[h] = q /\ \A g \in Object : g # h => msqid'[g] = msqid[g] /\ hpc'[g] = hpc[g]
        /\ torn' = (IF rel = "idle" THEN torn ELSE torn \cup {h}) /\ UNCHANGED <<rel, it>>
    BY <1>2, <2>1 DEF TypeOK, Construct
  <2>3. \A g \in Object, l \in Key : queue'[l] = msqid[g] => queue[l] = msqid[g]
    BY <2>1, OpenIds
  <2>4. ASSUME NEW g \in Object, Present(g)', Exists(msqid[g])', g \notin torn'
        PROVE  msqid'[g] \in listMsqId' /\ Ahead(msqid[g])'
    <3>1. CASE g = h
      BY <2>1, <2>2, <2>4, <3>1 DEF Ahead
    <3>2. CASE g # h
      <4>1. Present(g) /\ Exists(msqid[g]) /\ g \notin torn
        BY <2>2, <2>3, <2>4, <3>2 DEF Present, Exists
      <4> QED BY <2>1, <2>2, <3>2, <4>1 DEF ReleaseInv, Ahead
    <3> QED BY <3>1, <3>2
  <2>5. ASSUME it' # None, it' \notin listMsqId', NEW g \in Object, Present(g)' PROVE g \in torn'
    BY <1>1, <2>1, <2>2, <2>5 DEF ReleaseInv, Present
  <2> QED BY <2>4, <2>5 DEF ReleaseInv
<1>3. ASSUME NEW k \in Key, registerMsq(k) PROVE ReleaseInv'
  <2>1. PICK q \in Id : msgget(k, q)
    BY <1>3 DEF registerMsq
  <2>2. UNCHANGED <<hpc, msqid, listMsqId, rel, it, torn>>
    BY <1>3 DEF registerMsq
  <2>3. \A g \in Object, l \in Key : queue'[l] = msqid[g] => queue[l] = msqid[g]
    BY <2>1, OpenIds
  <2>4. \A g \in Object : Exists(msqid[g])' => Exists(msqid[g])
    BY <2>2, <2>3 DEF Exists
  <2> QED BY <2>2, <2>4 DEF ReleaseInv, Ahead, Present
<1>4. CASE (\E h \in Object : close(h) \/ clearMessage(h)) \/ CloseRegistered
  <2>1. PICK q : closeMsg(q)
    BY <1>4 DEF close, clearMessage, CloseRegistered
  <2>2. UNCHANGED <<hpc, msqid, rel, it>>
    BY <1>4 DEF close, clearMessage, CloseRegistered
  <2>3. \A k \in Key : queue'[k] = IF queue[k] \in {q} THEN None ELSE queue[k]
    BY <2>1, Removes DEF closeMsg
  <2>4. \A h \in Object : Exists(msqid[h])' => Exists(msqid[h]) /\ msqid[h] # q
    BY <1>1, <2>2, <2>3 DEF Exists
  <2>5. /\ listMsqId' = IF Exists(q) THEN listMsqId \ {q} ELSE listMsqId
        /\ torn' = IF Exists(q) /\ it = q THEN torn \cup {h \in Object : Present(h)} ELSE torn
    BY <2>1 DEF closeMsg
  <2>6. ASSUME NEW g \in Object, Present(g)', Exists(msqid[g])', g \notin torn'
        PROVE  msqid'[g] \in listMsqId' /\ Ahead(msqid[g])'
    BY <2>2, <2>4, <2>5, <2>6 DEF ReleaseInv, Ahead, Present
  <2>7. ASSUME it' # None, it' \notin listMsqId', NEW g \in Object, Present(g)' PROVE g \in torn'
    BY <2>2, <2>5, <2>7 DEF ReleaseInv, Present
  <2> QED BY <2>6, <2>7 DEF ReleaseInv
<1>5. CASE release
  <2>1. PICK q \in listMsqId : (\A p \in listMsqId : q <= p) /\ it' = q
    BY <1>5 DEF release
  <2>2. rel' = "remove" /\ UNCHANGED <<queue, listMsqId>>
    BY <1>5 DEF release, Loop
  <2>3. UNCHANGED <<hpc, msqid, torn>>
    BY <1>5, ReleaseRest DEF Releasing
  <2> QED BY <2>1, <2>2, <2>3 DEF ReleaseInv, Ahead, Present, Exists
<1>6. CASE ReleaseRemoves
  <2>1. rel = "remove" /\ rel' = "next" /\ msgctl({it}) /\ UNCHANGED <<it, listMsqId>>
    BY <1>6 DEF ReleaseRemoves, Loop
  <2>2. UNCHANGED <<hpc, msqid, torn>>
    BY <1>6, ReleaseRest DEF Releasing
  <2>3. \A k \in Key : queue'[k] = IF queue[k] \in {it} THEN None ELSE queue[k]
    BY <2>1, Removes
  <2>4. \A h \in Object : Exists(msqid[h])' => Exists(msqid[h]) /\ msqid[h] # it
    BY <1>1, <2>2, <2>3 DEF Exists
  <2>5. ASSUME NEW g \in Object, Present(g)', Exists(msqid[g])', g \notin torn'
        PROVE  msqid'[g] \in listMsqId' /\ Ahead(msqid[g])'
    <3>1. msqid[g] \in listMsqId /\ it <= msqid[g] /\ msqid[g] # it
      BY <2>1, <2>2, <2>4, <2>5 DEF ReleaseInv, Ahead, Present
    <3>2. it < msqid[g]
      BY <1>1, <2>1, <3>1
    <3> QED BY <2>1, <2>2, <3>1, <3>2 DEF Ahead
  <2>6. ASSUME it' # None, it' \notin listMsqId', NEW g \in Object, Present(g)' PROVE g \in torn'
    BY <2>1, <2>2, <2>6 DEF ReleaseInv, Present
  <2> QED BY <2>5, <2>6 DEF ReleaseInv
<1>7. CASE ReleaseNext
  <2>1. rel = "next" /\ UNCHANGED <<queue, listMsqId>>
    BY <1>7 DEF ReleaseNext, Loop
  <2>2. UNCHANGED <<hpc, msqid, torn>>
    BY <1>7, ReleaseRest DEF Releasing
  <2>3. \A g \in Object : Exists(msqid[g])' => Exists(msqid[g])
    BY <2>1, <2>2 DEF Exists
  <2>4. ASSUME NEW g \in Object, Present(g)', Exists(msqid[g])', g \notin torn'
        PROVE  msqid[g] \in listMsqId /\ it < msqid[g] /\ it \in listMsqId
    BY <1>1, <2>1, <2>2, <2>3, <2>4 DEF ReleaseInv, Ahead, Present
  <2>5. CASE rel' = "remove"
    <3>1. PICK q \in listMsqId : After(q) /\ it' = q
      BY <1>7, <2>5 DEF ReleaseNext, Loop
    <3>2. ASSUME NEW g \in Object, Present(g)', Exists(msqid[g])', g \notin torn'
          PROVE  msqid'[g] \in listMsqId' /\ Ahead(msqid[g])'
      BY <2>1, <2>2, <2>4, <2>5, <3>1, <3>2 DEF Ahead, After
    <3> QED BY <2>1, <3>1, <3>2 DEF ReleaseInv
  <2>6. CASE rel' = "clear"
    <3>1. it' = None /\ (it \in listMsqId => \A p \in listMsqId : p <= it)
      BY <1>7, <2>6 DEF ReleaseNext, Loop
    <3>2. ASSUME NEW g \in Object, Present(g)', Exists(msqid[g])', g \notin torn' PROVE FALSE
      <4>1. it < msqid[g] /\ msqid[g] <= it
        BY <2>4, <3>1, <3>2
      <4> QED BY <1>1, <2>1, <4>1
    <3> QED BY <3>1, <3>2 DEF ReleaseInv
  <2> QED BY <1>7, <2>5, <2>6 DEF ReleaseNext, Loop
<1>8. CASE ReleaseClears
  <2>1. rel = "clear" /\ rel' = "idle" /\ UNCHANGED <<queue, it>>
    BY <1>8 DEF ReleaseClears, Loop
  <2>2. UNCHANGED <<hpc, msqid, torn>>
    BY <1>8, ReleaseRest DEF Releasing
  <2> QED BY <1>1, <2>1, <2>2 DEF ReleaseInv, Ahead, Present, Exists
<1>9. CASE (\E h \in Object : Runner(h) \/ setHandleMessageListener(h) \/ Sends(h) \/ Destroy(h) \/ Destroyed(h))
             \/ UNCHANGED vars
  <2>1. UNCHANGED <<queue, msqid, listMsqId, rel, it, torn>>
    BY <1>9 DEF Runner, RunnerStart, recvMessage, RecvFails, Woken, Interrupted, onHandleMessage, Cancelled,
                setHandleMessageListener, Sends, sendMessage, Destroy, Destroyed, vars
  <2>2. \A h \in Object : Present(h)' => Present(h)
    BY <1>9 DEF Runner, RunnerStart, recvMessage, RecvFails, Woken, Interrupted, onHandleMessage, Cancelled,
                setHandleMessageListener, Sends, sendMessage, Destroy, Destroyed, vars, Present, TypeOK
  <2> QED BY <2>1, <2>2 DEF ReleaseInv, Ahead, Exists
<1>10. CASE Crash
  <2>1. it' = None /\ \A h \in Object : ~Present(h)'
    BY <1>10 DEF Crash, Present
  <2> QED BY <2>1 DEF ReleaseInv
<1> QED BY <1>2, <1>3, <1>4, <1>5, <1>6, <1>7, <1>8, <1>9, <1>10 DEF Next, Owner, Releasing, Sends

-----------------------------------------------------------------------------
(* The theorems                                                            *)

HandlerInv == TypeOK /\ ThreadInv /\ IdInv /\ PostInv /\ ReleaseInv

LEMMA HandlerAlways == ASSUME Assumptions PROVE Spec => []HandlerInv
<1>1. Init => HandlerInv
  <2> SUFFICES ASSUME Init PROVE HandlerInv
    OBVIOUS
  <2>1. TypeOK
    BY TypeInit
  <2>2. \A h \in Object : tpc[h] = "none" /\ cur[h] = NoMsg /\ msqid[h] = -1 /\ mnMsqKey[h] = DefaultKey /\ hpc[h] = "none"
    BY DEF Init
  <2>3. ThreadInv /\ ReleaseInv
    <3>1. it = None
      BY DEF Init
    <3> QED BY <2>2, <3>1 DEF ThreadInv, Alive, ReleaseInv, Present
  <2>4. IdInv
    <3>1. -1 < next /\ -1 # None /\ \A k \in Key : queue[k] = None
      BY Numbers DEF Init
    <3> QED BY <2>2, <3>1 DEF IdInv
  <2>5. PostInv
    <3>1. \A q \in Id : box[q] = <<>>
      BY DEF Init
    <3> QED BY <2>2, <3>1 DEF PostInv
  <2> QED BY <2>1, <2>3, <2>4, <2>5 DEF HandlerInv
<1>2. HandlerInv /\ [Next]_vars => HandlerInv'
  BY TypeStep, ThreadStep, IdStep, PostStep, ReleaseStep DEF HandlerInv
<1> QED BY <1>1, <1>2, PTL DEF Spec

\* Every variable keeps its type, with failing system calls and crashes.
THEOREM TypeCorrect == ASSUME Assumptions PROVE Spec => []TypeOK
<1>1. HandlerInv => TypeOK
  BY DEF HandlerInv
<1> QED BY <1>1, HandlerAlways, PTL

\* The destructor does not let ~CObject delete the message handler before its thread has
\* ended, though without a thread mlnThreadId may name any other object's.
THEOREM EndsItsThread == ASSUME Assumptions PROVE Spec => []NoUseAfterFree
<1>1. HandlerInv => NoUseAfterFree
  BY DEF HandlerInv, ThreadInv, NoUseAfterFree
<1> QED BY <1>1, HandlerAlways, PTL

\* A queue that an object of this process has is one release() would remove, also while
\* a release() runs: the iterator has not passed it, unless the object was made meanwhile
\* or the iterator's own id erased.
THEOREM ListsWhatItOpened == ASSUME Assumptions PROVE Spec => []OpenedListed
<1>1. HandlerInv => OpenedListed
  BY DEF HandlerInv, ReleaseInv, OpenedListed
<1> QED BY <1>1, HandlerAlways, PTL

\* A message reaches an object with the queue key of the one it was sent through and with
\* the filter it was sent to, also after a crash and although keys, filters and queues are
\* shared.
THEOREM ReachesItsAddress == ASSUME Assumptions PROVE Spec => []SameAddress
<1>1. HandlerInv => SameAddress
  BY DEF HandlerInv, PostInv, IdInv, Addressed, SameAddress
<1> QED BY <1>1, HandlerAlways, PTL

=============================================================================

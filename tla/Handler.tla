------------------------------- MODULE Handler -------------------------------
(***************************************************************************)
(* objectHandler/Handler.cpp and the message queues of                     *)
(* messageHandler/CMessageHandler.cpp it is made of.                       *)
(*                                                                         *)
(* A Handler opens the System V queue of a key - a given one, or the time  *)
(* in seconds - and has a thread that takes the messages of one filter - a *)
(* given one, or the queue's id - and gives them to a listener.  The       *)
(* process keeps the ids it opened in listMsqId, for release() to remove;  *)
(* nothing locks the list.  Queues and what is in them outlive a process   *)
(* that crashes.                                                           *)
(***************************************************************************)
EXTENDS Integers, Sequences, SequencesExt, FiniteSets

CONSTANTS
    Object,      \* the Handler objects, each constructed once
    None,        \* no object, no queue
    Args,        \* what they are constructed with: <<nMsqKey, lFilter>>
    FirstId,     \* the id of the system's next queue: 0 when it had none
    MaxClock,    \* bound: seconds that pass
    MaxQueues,   \* bound: queues ever created
    MaxMsgs,     \* bound: messages ever sent
    MaxCrashes,  \* bound: crashes of the process
    Releases,    \* whether a thread of the process calls release()
    Faults       \* msgget and createThread may fail, and msgrcv be interrupted

NoneAssumption == None \notin Object \cup Int
ArgsAssumption == Args \subseteq Int \X Int
BoundsAssumption ==
    {FirstId, MaxQueues, MaxMsgs, MaxCrashes} \subseteq Nat /\ MaxClock \in Nat \ {0}

DefaultKey == 20150727
Time   == 1..MaxClock
Key    == Time \cup {DefaultKey} \cup {a[1] : a \in Args}
Id     == FirstId..FirstId + MaxQueues - 1
MsgId  == 1..MaxMsgs
Sent   == {-1} \cup {a[2] : a \in Args}
Filter == Id \cup Sent
\* own: sent to the filter of the object it was sent through.
Msg    == [lFilter : Filter, to : Object, own : BOOLEAN, n : MsgId]
NoMsg  == [lFilter |-> 0, to |-> None, own |-> FALSE, n |-> 0]

VARIABLES
    clock,      \* gettimeofday, in seconds, when a Handler was last made
    queue,      \* key -> the id of its queue, None without one
    next,       \* the id the next queue gets
    box,        \* id -> messages
    listMsqId,
    rel, it,    \* release(): where, and its iterator, None without one
    hpc,        \* object: none, up, in its destructor, gone
    mnMsqKey, msqid, mlFilter, listener,
    tpc, cur,   \* message threads: where, message being handled
    cancelled,  \* objects whose thread has a cancellation pending
    mlnThreadId,\* object -> the object whose thread its id names, None
    reg,        \* what registerMsq returned to CATcpServer::stop, None
    sent,       \* message -> the object it was sent to, None
    heard,      \* messages sent after the object's listener was set
    called,     \* messages given to a listener
    torn,       \* objects made during a release(), or up when a close() took its iterator's id
    crashes

kernel == <<queue, next, box>>
fields == <<mnMsqKey, msqid, listener, mlnThreadId>>
threads == <<tpc, cur, mlFilter>>
book == <<sent, heard, called>>
loop == <<rel, it>>
vars == <<clock, kernel, listMsqId, loop, hpc, fields, threads, cancelled, reg, book, torn, crashes>>

-----------------------------------------------------------------------------
ObjectState == {"none", "up", "join", "gone"}
ThreadState == {"none", "start", "wait", "handle", "sleep", "ended", "joined"}

Exists(q) == \E k \in Key : queue[k] = q

Init ==
    /\ clock = 1 /\ queue = [k \in Key |-> None] /\ next = FirstId
    /\ box = [q \in Id |-> <<>>] /\ listMsqId = {} /\ rel = "idle" /\ it = None /\ torn = {}
    /\ hpc = [h \in Object |-> "none"]
    /\ mnMsqKey = [h \in Object |-> DefaultKey] /\ msqid = [h \in Object |-> -1]
    /\ mlFilter = [h \in Object |-> -1] /\ listener = [h \in Object |-> FALSE]
    /\ tpc = [h \in Object |-> "none"] /\ cur = [h \in Object |-> NoMsg]
    /\ cancelled = {} /\ mlnThreadId = [h \in Object |-> None] /\ reg = None
    /\ sent = [n \in MsgId |-> None] /\ heard = {} /\ called = {} /\ crashes = 0

-----------------------------------------------------------------------------
(* The queues.                                                             *)

\* msgget with IPC_CREAT.
msgget(k, q) ==
    IF queue[k] # None THEN q = queue[k] /\ UNCHANGED <<queue, next>>
    ELSE /\ next \in Id /\ q = next /\ next' = next + 1
         /\ queue' = [queue EXCEPT ![k] = q]

\* msgctl IPC_RMID.
msgctl(ids) ==
    /\ queue' = [k \in Key |-> IF queue[k] \in ids THEN None ELSE queue[k]]
    /\ box' = [q \in Id |-> IF q \in ids THEN <<>> ELSE box[q]]
    /\ UNCHANGED next

BugInitListsUsable(k, q) ==
    /\ \/ msgget(k, q)
       \/ Faults /\ q = -1 /\ UNCHANGED <<queue, next>>
    /\ listMsqId' = (IF q > 0 THEN listMsqId \cup {q} ELSE listMsqId)

\* CMessageHandler::init: lists whatever msgget returned.
init(k, q) ==
    /\ \/ msgget(k, q)
       \/ Faults /\ q = -1 /\ UNCHANGED <<queue, next>>
    /\ listMsqId' = listMsqId \cup {q}

Present(h) == hpc[h] \in {"up", "join"}

closeMsg(q) ==
    /\ msgctl({q})
    /\ listMsqId' = (IF Exists(q) THEN listMsqId \ {q} ELSE listMsqId)
    /\ torn' = (IF Exists(q) /\ it = q THEN torn \cup {h \in Object : Present(h)} ELSE torn)

Rest == UNCHANGED <<clock, loop, crashes>>

\* closeMsg(registerMsq(key)) of CATcpServer::stop, for a key that Handlers are given.
registerMsq(k) ==
    /\ reg = None /\ k > 0 /\ k \in {a[1] : a \in Args}
    /\ \E q \in Id : msgget(k, q) /\ reg' = q
    /\ Rest /\ UNCHANGED <<box, listMsqId, hpc, fields, threads, cancelled, book, torn>>

CloseRegistered ==
    /\ reg # None /\ closeMsg(reg) /\ reg' = None
    /\ Rest /\ UNCHANGED <<hpc, fields, threads, cancelled, book>>

(* release() is static, and any thread may call it while others go on.     *)

Loop(from, to) ==
    /\ rel = from /\ rel' = to
    /\ UNCHANGED <<clock, hpc, fields, threads, cancelled, reg, book, torn, crashes>>

\* The set is in ascending order.
release ==
    /\ Releases /\ Loop("idle", "remove")
    /\ \E q \in listMsqId : (\A p \in listMsqId : q <= p) /\ it' = q
    /\ UNCHANGED <<kernel, listMsqId>>

ReleaseRemoves == Loop("remove", "next") /\ msgctl({it}) /\ UNCHANGED <<it, listMsqId>>

\* The next id, also one that was listed meanwhile; after an erased one, any.
After(q) ==
    IF it \in listMsqId THEN q > it /\ \A p \in listMsqId : p > it => q <= p ELSE TRUE

ReleaseNext ==
    /\ \/ Loop("next", "remove") /\ \E q \in listMsqId : After(q) /\ it' = q
       \/ /\ Loop("next", "clear") /\ it' = None
          /\ it \in listMsqId => \A p \in listMsqId : p <= it
    /\ UNCHANGED <<kernel, listMsqId>>

ReleaseClears == Loop("clear", "idle") /\ listMsqId' = {} /\ UNCHANGED <<it, kernel>>

-----------------------------------------------------------------------------
(* A Handler, as its owner sees it.                                        *)

\* initMessage takes 20150727 for a key that is not positive.
InitKey(given) ==
    LET key == IF given = -1 THEN clock' ELSE given IN IF key <= 0 THEN DefaultKey ELSE key

\* createThread gives 0 when it fails; without it mlnThreadId keeps what was in
\* its memory.
ThreadId(h, q) == IF q > 0 THEN {h} \cup (IF Faults THEN {None} ELSE {}) ELSE Object \cup {None}

Construct(h) ==
    /\ hpc[h] = "none" /\ hpc' = [hpc EXCEPT ![h] = "up"]
    /\ clock' \in clock..MaxClock
    /\ \E a \in Args, q \in Id \cup {-1} :
        /\ init(InitKey(a[1]), q)
        /\ mnMsqKey' = [mnMsqKey EXCEPT ![h] = InitKey(a[1])]
        /\ msqid' = [msqid EXCEPT ![h] = q]
        /\ mlFilter' = [mlFilter EXCEPT ![h] = IF a[2] # -1 THEN a[2] ELSE IF q > 0 THEN q ELSE -1]
        /\ \E t \in ThreadId(h, q) :
            /\ mlnThreadId' = [mlnThreadId EXCEPT ![h] = t]
            /\ tpc' = [tpc EXCEPT ![h] = IF q > 0 /\ t = h THEN "start" ELSE "none"]
    /\ torn' = (IF rel = "idle" THEN torn ELSE torn \cup {h})
    /\ UNCHANGED <<box, loop, listener, cur, cancelled, reg, book, crashes>>

setHandleMessageListener(h) ==
    /\ hpc[h] = "up" /\ ~listener[h] /\ listener' = [listener EXCEPT ![h] = TRUE]
    /\ Rest /\ UNCHANGED <<kernel, listMsqId, hpc, mnMsqKey, msqid, mlnThreadId, threads,
                           cancelled, reg, book, torn>>

\* The filter -1 is the object's own.  The number of messages never fills a queue
\* here: that is for the servers.
sendMessage(h, lFilter) ==
    LET filter == IF lFilter = -1 THEN mlFilter[h] ELSE lFilter IN
    \E n \in MsgId :
        /\ hpc[h] = "up" /\ sent[n] = None /\ \A l \in 1..n - 1 : sent[l] # None
        \* msgsnd refuses a filter that is not positive
        /\ IF filter > 0 /\ Exists(msqid[h])
           THEN /\ box' = [box EXCEPT ![msqid[h]] =
                            Append(@, [lFilter |-> filter, to |-> h, own |-> filter = mlFilter[h], n |-> n])]
                /\ sent' = [sent EXCEPT ![n] = h]
                /\ heard' = IF listener[h] /\ filter = mlFilter[h] THEN heard \cup {n} ELSE heard
           ELSE UNCHANGED <<box, sent, heard>>
        /\ Rest /\ UNCHANGED <<queue, next, listMsqId, hpc, fields, threads, cancelled, reg, called, torn>>

\* mnMsqId is the id, or -1 where initMessage gave none.
close(h) ==
    /\ hpc[h] = "up" /\ msqid[h] > 0 /\ closeMsg(msqid[h])
    /\ Rest /\ UNCHANGED <<hpc, fields, threads, cancelled, reg, book>>

\* CMessageHandler::close: not for an id that is not listed.
clearMessage(h) ==
    /\ hpc[h] = "up" /\ msqid[h] > 0 /\ msqid[h] \in listMsqId /\ closeMsg(msqid[h])
    /\ Rest /\ UNCHANGED <<hpc, fields, threads, cancelled, reg, book>>

Alive(t) == tpc[t] \in {"start", "wait", "handle", "sleep"}

BugDestroyWithoutCancel(h) ==
    /\ hpc[h] = "up" /\ hpc' = [hpc EXCEPT ![h] = "join"]
    /\ Rest /\ UNCHANGED <<kernel, listMsqId, fields, threads, cancelled, reg, book, torn>>

Destroy(h) ==
    /\ hpc[h] = "up" /\ hpc' = [hpc EXCEPT ![h] = "join"]
    /\ cancelled' = cancelled \cup {t \in {mlnThreadId[h]} \ {None} : Alive(t)}
    /\ Rest /\ UNCHANGED <<kernel, listMsqId, fields, threads, reg, book, torn>>

\* The join, and ~CObject deletes the message handler.  A join of what is no thread
\* returns, or ends the process, as Crash does.
Destroyed(h) ==
    LET t == mlnThreadId[h] IN
    /\ hpc[h] = "join" /\ hpc' = [hpc EXCEPT ![h] = "gone"]
    /\ t # None => ~Alive(t)
    /\ tpc' = IF t # None /\ tpc[t] = "ended" THEN [tpc EXCEPT ![t] = "joined"] ELSE tpc
    /\ listener' = [listener EXCEPT ![h] = FALSE] /\ mlnThreadId' = [mlnThreadId EXCEPT ![h] = None]
    /\ Rest /\ UNCHANGED <<kernel, listMsqId, mnMsqKey, msqid, cur, mlFilter, cancelled, reg, book, torn>>

-----------------------------------------------------------------------------
(* Its message thread.                                                     *)

Go(h, from, to) == tpc[h] = from /\ tpc' = [tpc EXCEPT ![h] = to]

OnlyThreads == Rest /\ UNCHANGED <<kernel, listMsqId, hpc, fields, reg, torn>>

\* run() returns at once for the filter 0.
RunnerStart(h) ==
    LET f == IF mlFilter[h] < 0 THEN msqid[h] ELSE mlFilter[h] IN
    /\ Go(h, "start", IF f > 0 THEN "wait" ELSE "ended")
    /\ mlFilter' = [mlFilter EXCEPT ![h] = f]
    /\ OnlyThreads /\ UNCHANGED <<cur, cancelled, book>>

Own(h, i) == box[msqid[h]][i].lFilter = mlFilter[h]

\* msgrcv takes the first message of its type.
Takes(h, i) ==
    /\ i \in DOMAIN box[msqid[h]] /\ Own(h, i)
    /\ \A j \in DOMAIN box[msqid[h]] : Own(h, j) => i <= j

recvMessage(h) ==
    /\ Go(h, "wait", "handle") /\ Exists(msqid[h])
    /\ \E i \in 1..MaxMsgs :
        /\ Takes(h, i)
        /\ cur' = [cur EXCEPT ![h] = box[msqid[h]][i]]
        /\ box' = [box EXCEPT ![msqid[h]] = RemoveAt(@, i)]
    /\ Rest /\ UNCHANGED <<queue, next, listMsqId, hpc, fields, mlFilter, cancelled, reg, book, torn>>

\* A removed queue: tried again every five seconds, for ever.
RecvFails(h) ==
    /\ Go(h, "wait", "sleep") /\ ~Exists(msqid[h])
    /\ OnlyThreads /\ UNCHANGED <<cur, mlFilter, cancelled, book>>

Woken(h) == Go(h, "sleep", "wait") /\ OnlyThreads /\ UNCHANGED <<cur, mlFilter, cancelled, book>>

Interrupted(h) ==
    /\ Faults /\ Go(h, "wait", "ended")
    /\ OnlyThreads /\ UNCHANGED <<cur, mlFilter, cancelled, book>>

onHandleMessage(h) ==
    /\ Go(h, "handle", "wait") /\ cur' = [cur EXCEPT ![h] = NoMsg]
    /\ called' = IF listener[h] THEN called \cup {cur[h].n} ELSE called
    /\ OnlyThreads /\ UNCHANGED <<mlFilter, cancelled, sent, heard>>

\* A callback is not stopped before its end.
Cancelled(h) ==
    /\ h \in cancelled /\ tpc[h] \in {"start", "wait", "sleep"}
    /\ tpc' = [tpc EXCEPT ![h] = "ended"] /\ cancelled' = cancelled \ {h}
    /\ OnlyThreads /\ UNCHANGED <<cur, mlFilter, book>>

-----------------------------------------------------------------------------
\* The process ends without a destructor; the objects that were are lost.
Crash ==
    /\ crashes < MaxCrashes /\ crashes' = crashes + 1
    /\ hpc' = [h \in Object |-> IF hpc[h] = "none" THEN "none" ELSE "gone"]
    /\ tpc' = [h \in Object |-> IF tpc[h] = "none" THEN "none" ELSE "joined"]
    /\ cur' = [h \in Object |-> NoMsg] /\ cancelled' = {} /\ listMsqId' = {} /\ reg' = None
    /\ rel' = "idle" /\ it' = None
    /\ listener' = [h \in Object |-> FALSE] /\ mlnThreadId' = [h \in Object |-> None]
    /\ UNCHANGED <<clock, kernel, mnMsqKey, msqid, mlFilter, book, torn>>

Runner(h) ==
    RunnerStart(h) \/ recvMessage(h) \/ RecvFails(h) \/ Woken(h) \/ Interrupted(h)
    \/ onHandleMessage(h) \/ Cancelled(h)

Owner(h) ==
    Construct(h) \/ setHandleMessageListener(h) \/ (\E f \in Sent : sendMessage(h, f))
    \/ close(h) \/ clearMessage(h) \/ Destroy(h) \/ Destroyed(h)

Releasing == release \/ ReleaseRemoves \/ ReleaseNext \/ ReleaseClears

Next ==
    \/ \E h \in Object : Runner(h) \/ Owner(h)
    \/ \E k \in Key : registerMsq(k)
    \/ CloseRegistered \/ Releasing \/ Crash

Spec == Init /\ [][Next]_vars

\* Threads run, and a join returns; nobody has to construct, send or destroy.
Fairness ==
    \A h \in Object :
        /\ WF_vars(RunnerStart(h)) /\ WF_vars(recvMessage(h)) /\ WF_vars(Woken(h))
        /\ WF_vars(RecvFails(h)) /\ WF_vars(onHandleMessage(h)) /\ SF_vars(Cancelled(h))
        /\ WF_vars(Destroyed(h))

-----------------------------------------------------------------------------
(* Properties                                                              *)

TypeOK ==
    /\ clock \in Time /\ queue \in [Key -> Id \cup {None}] /\ next \in FirstId..FirstId + MaxQueues
    /\ box \in [Id -> Seq(Msg)]
    /\ listMsqId \subseteq Id \cup {-1} /\ it \in Id \cup {-1, None} /\ torn \subseteq Object
    /\ rel \in {"idle", "remove", "next", "clear"} /\ (it = None <=> rel \in {"idle", "clear"})
    /\ hpc \in [Object -> ObjectState]
    /\ mnMsqKey \in [Object -> Key] /\ msqid \in [Object -> Id \cup {-1}]
    /\ mlFilter \in [Object -> Filter] /\ listener \in [Object -> BOOLEAN]
    /\ tpc \in [Object -> ThreadState] /\ cur \in [Object -> Msg \cup {NoMsg}]
    /\ cancelled \subseteq Object /\ mlnThreadId \in [Object -> Object \cup {None}]
    /\ reg \in Id \cup {None} /\ sent \in [MsgId -> Object \cup {None}]
    /\ called \subseteq MsgId /\ heard \subseteq MsgId /\ crashes \in 0..MaxCrashes

\* A message thread never runs on a Handler that is gone: the destructor does
\* not let ~CObject delete the message handler before the thread has ended.
NoUseAfterFree == \A h \in Object : hpc[h] = "gone" => ~Alive(h)

\* A queue that exists and that an object of this process has is one release()
\* would remove, whoever closed and opened it again meanwhile, id 0 included - and
\* whatever a release() does meanwhile, but for an object made during one, and when a
\* close() erased the id its iterator stood on.
OpenedListed ==
    \A h \in Object : Present(h) /\ Exists(msqid[h]) => msqid[h] \in listMsqId \/ h \in torn

\* A message reaches an object that has the queue key of the one it was sent through
\* and the filter it was sent to; one sent to a Handler's own filter, only objects of
\* that filter, which two made in the same second share.
SameAddress ==
    \A h \in Object : cur[h] # NoMsg =>
        LET m == cur[h] IN
            /\ mnMsqKey[m.to] = mnMsqKey[h] /\ m.lFilter = mlFilter[h]
            /\ m.own => mlFilter[m.to] = mlFilter[h]

\* The destructor returns: the cancelled thread comes to a cancellation point,
\* waiting for messages or asleep because its queue is gone.
DestroyReturns == \A h \in Object : hpc[h] = "join" ~> hpc[h] = "gone"

\* Once its listener is set, the listener gets what is sent to a Handler,
\* unless the Handler is destroyed, its queue removed, or its filter another's.
ListenerCalled ==
    \A n \in MsgId :
        n \in heard ~>
            \/ n \in called
            \/ \E h \in Object : /\ sent[n] = h
                                 /\ \/ hpc[h] # "up" \/ ~Exists(msqid[h])
                                    \/ \E g \in Object \ {h} : mlFilter[g] = mlFilter[h]
=============================================================================

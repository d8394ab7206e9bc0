---------------------------- MODULE CSocketClient ----------------------------
(***************************************************************************)
(* socketHandler/CSocketClient.cpp: one client object, which may start,    *)
(* stop and start again.  Every start() creates a message thread, which    *)
(* joins the threads that THREAD_EXIT names, and hands the descriptor to a *)
(* data thread through m_nClientFD, under a lock start() takes and the     *)
(* data thread releases.  The data thread stores its id in mThreadId,      *)
(* reads packets, and at the end tells the application, closes the socket, *)
(* clears mThreadId and posts THREAD_EXIT; stop() does the last two too,   *)
(* for the thread it cancels.                                              *)
(*                                                                         *)
(* The s-th start() makes connection s and its threads; thread ids are not *)
(* used again.  Every start() uses the queue of the same key.              *)
(***************************************************************************)
EXTENDS Naturals, Sequences

CONSTANTS
    MaxStarts,   \* bound: how often any application calls start
    FD,          \* descriptors the kernel has left
    None,        \* no descriptor (-1)
    QueueCap,    \* messages the queue holds before msgsnd sleeps
    Apps         \* the applications to look at

ASSUME BoundsAssumption == MaxStarts \in Nat \ {0} /\ QueueCap \in Nat \ {0}
ASSUME NoneAssumption == None \notin FD \cup Nat

\* How an application uses the class: how often it calls start; mnPacketType is
\* PK_CMP; mnPacketHandle is PK_MSQ; setPackageReceiver and
\* setClientDisconnectCommand were called; it calls stop; also before the data
\* thread has stored its id; createThread and initMessage may fail.
Use == [starts : 1..MaxStarts, cmp : BOOLEAN, msq : BOOLEAN, external : BOOLEAN,
        stops : BOOLEAN, early : BOOLEAN, faults : BOOLEAN]

ASSUME AppsAssumption == Apps \subseteq Use

Session == 1..MaxStarts

VARIABLES
    fdtab, hup,       \* descriptor -> its connection; connections the server closed
    m_nSocketFD,
    msqid,            \* the message queue could be opened
    inbox, outbox,    \* messages for m_nInternalFilter, for m_nEventFilter
    lock, m_nClientFD,
    mThreadId,        \* 0 or the session whose data thread is named
    munRunThreadId,   \* 0 or the session whose message thread is named
    tpc, tfd, src,    \* data threads: where, nClientFD, what recv() reads
    mpc, cur,         \* message threads: where, the id to join
    cancelled,        \* threads with a cancellation pending
    last, xpc, pid,   \* the application: sessions begun, where, stop's pid
    use               \* which application it is; never changes

kernel  == <<fdtab, hup>>
boxes   == <<msqid, inbox, outbox>>
handoff == <<lock, m_nClientFD>>
readers == <<tpc, tfd, src>>
runners == <<mpc, cur, munRunThreadId>>
app     == <<last, xpc, pid, use>>
vars == <<kernel, m_nSocketFD, boxes, handoff, mThreadId, readers, runners, cancelled, app>>

-----------------------------------------------------------------------------
ReaderState ==
    {"none", "start", "register", "recv", "blocked", "receive", "disconnect", "close",
     "clear", "final", "exit", "zombie", "joined"}
RunnerState == {"none", "start", "wait", "join", "exit", "zombie", "joined"}
AppState    == {"idle", "dial", "queue", "reap", "reapjoin", "spawn", "hand", "up",
                "halt", "read", "cancel", "post", "stopped"}

Reader(s) == <<"data", s>>
Runner(s) == <<"message", s>>

Room == Len(inbox) + Len(outbox) < QueueCap

BugPostInUnbounded(cmd, id) ==
    /\ inbox' = (IF msqid THEN Append(inbox, [cmd |-> cmd, id |-> id]) ELSE inbox)
    /\ UNCHANGED <<msqid, outbox>>

\* sendMessage: nobody looks at its result when there is no queue.
PostIn(cmd, id) ==
    /\ IF msqid THEN Room /\ inbox' = Append(inbox, [cmd |-> cmd, id |-> id])
                ELSE UNCHANGED inbox
    /\ UNCHANGED <<msqid, outbox>>

PostOut(cmd, s) ==
    /\ IF msqid THEN Room /\ outbox' = Append(outbox, [cmd |-> cmd, conn |-> s])
                ELSE UNCHANGED outbox
    /\ UNCHANGED <<msqid, inbox>>

Init ==
    /\ fdtab = [fd \in FD |-> 0] /\ hup = {} /\ m_nSocketFD = None
    /\ msqid = FALSE /\ inbox = <<>> /\ outbox = <<>>
    /\ lock = FALSE /\ m_nClientFD = None
    /\ mThreadId = 0 /\ munRunThreadId = 0
    /\ tpc = [s \in Session |-> "none"] /\ tfd = [s \in Session |-> None]
    /\ src = [s \in Session |-> 0]
    /\ mpc = [s \in Session |-> "none"] /\ cur = [s \in Session |-> 0]
    /\ cancelled = {}
    /\ last = 0 /\ xpc = "idle" /\ pid = 0 /\ use \in Apps

-----------------------------------------------------------------------------
(* start()                                                                 *)

AtApp(from, to) == xpc = from /\ xpc' = to

\* setInetSocket or createSocket failing comes to nothing having happened.
\* An application calls start() again only after stop().
CreateSocket(fd) ==
    /\ xpc \in {"idle", "stopped"} /\ last < use.starts /\ fdtab[fd] = 0
    /\ xpc' = "dial" /\ last' = last + 1
    /\ fdtab' = [fdtab EXCEPT ![fd] = last'] /\ m_nSocketFD' = fd
    /\ UNCHANGED <<hup, boxes, handoff, mThreadId, readers, runners, cancelled, pid, use>>

socketClose ==
    /\ fdtab' = [fd \in FD |-> IF fd = m_nSocketFD THEN 0 ELSE fdtab[fd]]
    /\ m_nSocketFD' = None

OnlyApp == UNCHANGED <<hup, handoff, mThreadId, readers, last, pid, use>>

Dial == AtApp("dial", "queue") /\ OnlyApp
        /\ UNCHANGED <<fdtab, m_nSocketFD, boxes, runners, cancelled>>

DialFails == AtApp("dial", "idle") /\ socketClose
             /\ OnlyApp /\ UNCHANGED <<boxes, runners, cancelled>>

\* A failure is only logged.
initMessage ==
    /\ AtApp("queue", "reap")
    /\ msqid' \in (IF use.faults THEN BOOLEAN ELSE {TRUE})
    /\ OnlyApp /\ UNCHANGED <<fdtab, m_nSocketFD, inbox, outbox, runners, cancelled>>

Living(state) == state \notin {"none", "zombie", "joined"}

threadCancel(thread, state) ==
    cancelled' = IF Living(state) THEN cancelled \cup {thread} ELSE cancelled

Reap ==
    LET s == munRunThreadId IN
    /\ AtApp("reap", IF s = 0 THEN "spawn" ELSE "reapjoin")
    /\ IF s = 0 THEN UNCHANGED cancelled ELSE threadCancel(Runner(s), mpc[s])
    /\ OnlyApp /\ UNCHANGED <<fdtab, m_nSocketFD, boxes, runners>>

\* threadJoin; an id joined before returns at once.
ReapJoin ==
    /\ AtApp("reapjoin", "spawn")
    /\ mpc[munRunThreadId] \in {"zombie", "joined"}
    /\ mpc' = [mpc EXCEPT ![munRunThreadId] = "joined"]
    /\ munRunThreadId' = 0
    /\ OnlyApp /\ UNCHANGED <<fdtab, m_nSocketFD, boxes, cur, cancelled>>

Created(state) == IF use.faults THEN {state, "none"} ELSE {state}

SpawnRunner ==
    /\ AtApp("spawn", "hand")
    /\ \E state \in Created("start") : mpc' = [mpc EXCEPT ![last] = state]
    /\ OnlyApp /\ UNCHANGED <<fdtab, m_nSocketFD, boxes, cur, munRunThreadId, cancelled>>

\* dataHandler, cmpHandler.  Only the created thread releases the lock.
Hand ==
    /\ AtApp("hand", "up") /\ ~lock
    /\ lock' = TRUE /\ m_nClientFD' = m_nSocketFD
    /\ \E state \in Created("start") : tpc' = [tpc EXCEPT ![last] = state]
    /\ UNCHANGED <<kernel, m_nSocketFD, boxes, mThreadId, tfd, src, runners, cancelled, last, pid, use>>

-----------------------------------------------------------------------------
(* stop(); the application's receiver; the server                          *)

Stop ==
    /\ use.stops /\ AtApp("up", "halt")
    /\ use.early \/ tpc[last] \notin {"none", "start", "register"}
    /\ socketClose
    /\ OnlyApp /\ UNCHANGED <<boxes, runners, cancelled>>

\* pid is read after the test: the data thread may have cleared it since.
StopTest ==
    /\ AtApp("halt", IF mThreadId = 0 THEN "stopped" ELSE "read")
    /\ OnlyApp /\ UNCHANGED <<fdtab, m_nSocketFD, boxes, runners, cancelled>>

BugStopReadKeepsId ==
    /\ AtApp("read", "cancel")
    /\ pid' = mThreadId
    /\ UNCHANGED <<kernel, m_nSocketFD, boxes, handoff, mThreadId, readers, runners, cancelled, last, use>>

StopRead ==
    /\ AtApp("read", "cancel")
    /\ pid' = mThreadId /\ mThreadId' = 0
    /\ UNCHANGED <<kernel, m_nSocketFD, boxes, handoff, readers, runners, cancelled, last, use>>

StopCancel ==
    /\ AtApp("cancel", "post")
    /\ IF pid = 0 THEN UNCHANGED cancelled ELSE threadCancel(Reader(pid), tpc[pid])
    /\ OnlyApp /\ UNCHANGED <<fdtab, m_nSocketFD, boxes, runners>>

StopPost ==
    /\ AtApp("post", "stopped")
    /\ PostIn("THREAD_EXIT", pid)
    /\ pid' = 0
    /\ UNCHANGED <<kernel, m_nSocketFD, handoff, mThreadId, readers, runners, cancelled, last, use>>

AppTake ==
    /\ outbox # <<>> /\ outbox' = Tail(outbox)
    /\ UNCHANGED <<kernel, m_nSocketFD, msqid, inbox, handoff, mThreadId, readers, runners,
                   cancelled, app>>

ServerHangup(s) ==
    /\ s \notin hup
    /\ s \in {fdtab[fd] : fd \in FD} \cup {src[t] : t \in Session}
    /\ hup' = hup \cup {s}
    /\ UNCHANGED <<fdtab, m_nSocketFD, boxes, handoff, mThreadId, readers, runners, cancelled, app>>

-----------------------------------------------------------------------------
(* The data threads: runDataHandler, runCMPHandler                         *)

\* A pending cancellation strikes at msgsnd, recv, close and sleep.
CancelPoint == {"recv", "blocked", "receive", "disconnect", "close", "final", "exit"}

Goto(s, from, to) ==
    /\ tpc[s] = from
    /\ Reader(s) \in cancelled => from \notin CancelPoint
    /\ tpc' = [tpc EXCEPT ![s] = to]

OnlyReader == UNCHANGED <<hup, m_nSocketFD, m_nClientFD, runners, cancelled, app>>

\* No setter gives m_nEventConnect a value: no CONNECT is ever posted.
Start(s) ==
    /\ Goto(s, "start", "register")
    /\ tfd' = [tfd EXCEPT ![s] = m_nClientFD]
    /\ lock' = FALSE
    /\ OnlyReader /\ UNCHANGED <<fdtab, boxes, mThreadId, src>>

Register(s) ==
    /\ Goto(s, "register", "recv")
    /\ mThreadId' = s
    /\ OnlyReader /\ UNCHANGED <<fdtab, boxes, lock, tfd, src>>

AtEnd == IF use.external THEN "disconnect" ELSE "close"

\* recv() on -1 or on a closed descriptor fails.
Behind(fd) == IF fd = None THEN 0 ELSE fdtab[fd]

OnlyRecv == OnlyReader /\ UNCHANGED <<fdtab, boxes, lock, mThreadId, tfd>>

RecvCall(s) ==
    /\ Goto(s, "recv", IF Behind(tfd[s]) = 0 THEN AtEnd ELSE "blocked")
    /\ src' = [src EXCEPT ![s] = Behind(tfd[s])]
    /\ OnlyRecv

RecvReturns(s) == src' = [src EXCEPT ![s] = 0] /\ OnlyRecv

\* A packet for the queue; one given to ClientReceive or ServerReceive or
\* answered in place.
RecvPacket(s) ==
    /\ src[s] \notin hup
    /\ (use.msq /\ Goto(s, "blocked", "receive")) \/ ((use.cmp \/ ~use.msq) /\ Goto(s, "blocked", "recv"))
    /\ RecvReturns(s)

\* The end of the stream; with CMP a header or body of the wrong length too.
RecvEnd(s) == src[s] \in hup /\ Goto(s, "blocked", AtEnd) /\ RecvReturns(s)

RecvInvalid(s) == use.cmp /\ src[s] \notin hup /\ Goto(s, "blocked", AtEnd) /\ RecvReturns(s)

SendReceive(s) ==
    /\ Goto(s, "receive", "recv")
    /\ IF use.external THEN PostOut("RECEIVE", s) ELSE PostIn("RECEIVE", s)
    /\ OnlyReader /\ UNCHANGED <<fdtab, lock, mThreadId, tfd, src>>

SendDisconnect(s) ==
    /\ Goto(s, "disconnect", "close")
    /\ PostOut("DISCONNECT", s)
    /\ OnlyReader /\ UNCHANGED <<fdtab, lock, mThreadId, tfd, src>>

\* socketClose(nClientFD); m_nSocketFD keeps the number.
CloseSocket(s) ==
    /\ Goto(s, "close", "clear")
    /\ fdtab' = [fd \in FD |-> IF fd = tfd[s] THEN 0 ELSE fdtab[fd]]
    /\ OnlyReader /\ UNCHANGED <<boxes, lock, mThreadId, tfd, src>>

Clear(s) ==
    /\ Goto(s, "clear", "final")
    /\ mThreadId' = 0
    /\ OnlyReader /\ UNCHANGED <<fdtab, boxes, lock, tfd, src>>

BugSendThreadExitSkipped(s) ==
    /\ Goto(s, "final", "exit")
    /\ OnlyReader /\ UNCHANGED <<fdtab, boxes, lock, mThreadId, tfd, src>>

SendThreadExit(s) ==
    /\ Goto(s, "final", "exit")
    /\ PostIn("THREAD_EXIT", s)
    /\ OnlyReader /\ UNCHANGED <<fdtab, lock, mThreadId, tfd, src>>

\* threadExit(), or the end of a cancelled thread.
Exit(s) ==
    /\ tpc[s] = "exit" \/ (Reader(s) \in cancelled /\ tpc[s] \in CancelPoint)
    /\ tpc' = [tpc EXCEPT ![s] = "zombie"]
    /\ src' = [src EXCEPT ![s] = 0]
    /\ cancelled' = cancelled \ {Reader(s)}
    /\ UNCHANGED <<kernel, m_nSocketFD, boxes, handoff, mThreadId, tfd, runners, app>>

-----------------------------------------------------------------------------
(* The message threads: runMessageReceive, onReceiveMessage                *)

Run(s, from, to) ==
    /\ mpc[s] = from
    /\ Runner(s) \notin cancelled \/ from = "start"
    /\ mpc' = [mpc EXCEPT ![s] = to]

OnlyRunner == UNCHANGED <<kernel, m_nSocketFD, msqid, outbox, handoff, mThreadId, tfd, src,
                          cancelled, app>>

\* run() returns at once when there is no queue.
RunnerStart(s) ==
    /\ Run(s, "start", IF msqid THEN "wait" ELSE "exit")
    /\ munRunThreadId' = s
    /\ OnlyRunner /\ UNCHANGED <<inbox, tpc, cur>>

Take(s, cmd, to) ==
    /\ Run(s, "wait", to)
    /\ inbox # <<>> /\ Head(inbox).cmd = cmd /\ inbox' = Tail(inbox)
    /\ OnlyRunner /\ UNCHANGED <<tpc, munRunThreadId>>

HandleThreadExit(s) == Take(s, "THREAD_EXIT", "join") /\ cur' = [cur EXCEPT ![s] = Head(inbox).id]

\* SERVER_RECEIVE is unknown to the client's handler.
HandleReceive(s) == Take(s, "RECEIVE", "wait") /\ UNCHANGED cur

Join(s) ==
    /\ Run(s, "join", "wait")
    /\ IF cur[s] = 0 THEN UNCHANGED tpc
       ELSE /\ tpc[cur[s]] \in {"zombie", "joined"}
            /\ tpc' = [tpc EXCEPT ![cur[s]] = "joined"]
    /\ cur' = [cur EXCEPT ![s] = 0]
    /\ OnlyRunner /\ UNCHANGED <<inbox, munRunThreadId>>

\* msgrcv and pthread_join are cancellation points: what was taken is lost.
RunnerEnd(s) ==
    /\ mpc[s] = "exit" \/ (Runner(s) \in cancelled /\ mpc[s] \in {"wait", "join", "exit"})
    /\ mpc' = [mpc EXCEPT ![s] = "zombie"]
    /\ cur' = [cur EXCEPT ![s] = 0]
    /\ cancelled' = cancelled \ {Runner(s)}
    /\ UNCHANGED <<kernel, m_nSocketFD, boxes, handoff, mThreadId, readers, munRunThreadId, app>>

-----------------------------------------------------------------------------
start ==
    \/ \E fd \in FD : CreateSocket(fd)
    \/ Dial \/ DialFails \/ initMessage \/ Reap \/ ReapJoin \/ SpawnRunner \/ Hand

stop == Stop \/ StopTest \/ StopRead \/ StopCancel \/ StopPost

runDataHandler(s) ==
    \/ Start(s) \/ Register(s) \/ RecvCall(s) \/ RecvPacket(s) \/ RecvEnd(s) \/ RecvInvalid(s)
    \/ SendReceive(s) \/ SendDisconnect(s) \/ CloseSocket(s) \/ Clear(s) \/ SendThreadExit(s)
    \/ Exit(s)

runMessageReceive(s) ==
    \/ RunnerStart(s) \/ HandleThreadExit(s) \/ HandleReceive(s) \/ Join(s) \/ RunnerEnd(s)

Next ==
    \/ start \/ stop \/ AppTake
    \/ \E s \in Session : ServerHangup(s) \/ runDataHandler(s) \/ runMessageReceive(s)

Spec == Init /\ [][Next]_vars

\* Runnable threads run, calls of stop return, the application takes its
\* events, and msgsnd wakes its sleepers in their order.
Fairness ==
    /\ WF_vars(AppTake) /\ WF_vars(StopTest) /\ WF_vars(StopRead) /\ WF_vars(StopCancel) /\ SF_vars(StopPost)
    /\ \A s \in Session :
        /\ WF_vars(runMessageReceive(s))
        /\ WF_vars(Start(s) \/ Register(s) \/ RecvCall(s) \/ RecvEnd(s) \/ CloseSocket(s)
                     \/ Clear(s) \/ Exit(s))
        /\ SF_vars(SendReceive(s) \/ SendDisconnect(s) \/ SendThreadExit(s))

FairSpec == Spec /\ Fairness

-----------------------------------------------------------------------------
(* Properties                                                              *)

\* Every variable keeps its type, and the queue never outgrows its bytes
\* (CMessageHandler::sendMessage).
TypeOK ==
    /\ fdtab \in [FD -> Session \cup {0}] /\ hup \subseteq Session
    /\ m_nSocketFD \in FD \cup {None} /\ msqid \in BOOLEAN
    /\ inbox \in Seq([cmd : {"THREAD_EXIT", "RECEIVE"}, id : Session \cup {0}])
    /\ outbox \in Seq([cmd : {"RECEIVE", "DISCONNECT"}, conn : Session])
    /\ Len(inbox) + Len(outbox) <= QueueCap
    /\ lock \in BOOLEAN /\ m_nClientFD \in FD \cup {None}
    /\ mThreadId \in Session \cup {0} /\ munRunThreadId \in Session \cup {0}
    /\ tpc \in [Session -> ReaderState] /\ tfd \in [Session -> FD \cup {None}]
    /\ src \in [Session -> Session \cup {0}]
    /\ mpc \in [Session -> RunnerState] /\ cur \in [Session -> Session \cup {0}]
    /\ cancelled \subseteq ({"data", "message"} \X Session)
    /\ use \in Apps /\ last \in Session \cup {0} /\ xpc \in AppState /\ pid \in Session \cup {0}

\* What start(), stop() and the threads share is never stale: the lock start()
\* takes is held until the data thread has its descriptor, so that no two created
\* threads have m_nClientFD to read; every open socket is m_nSocketFD; and mThreadId
\* and munRunThreadId, which stop() and start() cancel by, never name a thread that
\* was joined, whose id may be another thread's by then (dataHandler, threadLock).
SharedState ==
    /\ \A s \in Session :
         tpc[s] = "start" => lock /\ \A t \in Session : tpc[t] = "start" => t = s
    /\ \A fd \in FD : fdtab[fd] # 0 => m_nSocketFD = fd
    /\ mThreadId # 0 => tpc[mThreadId] # "joined"
    /\ munRunThreadId # 0 => mpc[munRunThreadId] # "joined"

\* A connection the server closed is closed here too, by its data thread or
\* by stop(), while the other end of the queue is slow (runCMPHandler), and the
\* last data thread is joined, although its own end and stop() race for mThreadId
\* and both may post THREAD_EXIT.  Without the queue and the message thread nobody
\* makes room for its THREAD_EXIT, and a later start() may cancel the message
\* thread inside the join and forget the thread for ever.
LetGo ==
    \A s \in Session :
        /\ (~use.faults /\ s \in hup /\ tpc[s] = "blocked") ~> (\A fd \in FD : fdtab[fd] # s)
        /\ (~use.faults /\ tpc[s] = "zombie") ~> (tpc[s] = "joined" \/ last # s)
=============================================================================

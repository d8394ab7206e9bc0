-------------------------------- MODULE Parts --------------------------------
(***************************************************************************)
(* The parts that keep to themselves: the log, mkdirp, a socket object, a  *)
(* connection's packets and their numbers, a Handler's queue, the timers.  *)
(* They share no state, so every behaviour is of one of them, the unit,    *)
(* and the variables of the others stay as they are.                       *)
(*                                                                         *)
(* The constants are those of the parts' modules.  Fixed here is only what *)
(* tells one unit from another, and what the timers' properties need: one  *)
(* object sets them.                                                       *)
(***************************************************************************)
EXTENDS Integers, Sequences

CONSTANTS
    None,
    Writers, LogPaths, Default, MaxDays,     \* LogHandler: the threads that log
    DirName, Root, MkdirPaths, Plain,        \* Mkdirp: paths are sequences of DirName
    Thread,                                  \* threads of Mkdirp and CTimer
    Addr, FD,                                \* CSocket
    MaxPackets, QueueCap,                    \* CMPFraming
    Limit,                                   \* PacketNumbers
    Object, Args, Given, MaxClock,           \* Handler: Given is Args of the one that crashes
    MaxQueues, MaxMsgs, MaxCrashes,
    TimerId, Timer, o1                       \* CTimer: the object that sets timers

VARIABLES
    unit,
    today, dirs, files, mstrLogPath, mstrLogDate, fs, good, pc, stamp, date, strPath,
    errors, excused, asked, mixed, amiss,                                   \* LogHandler
    tree, at, path, step, result, refused,                                  \* Mkdirp
    kind, spc, want, m_nSocketFD, m_nSocketType, m_nSocketStyle, m_nLastError,
    szPath, szIP, unAddr, inAddr, sock, target,                             \* CSocket
    sent, wire, arrived, hup, rpc, packet, posted, heard, replies,          \* CMPFraming
    msnSequence, given,                                                     \* PacketNumbers
    clock, queue, next, box, listMsqId, rel, it, torn, hpc, mnMsqKey, msqid, mlFilter, listener,
    tpc, cur, cancelled, mlnThreadId, reg, messages, noticed, called, crashes, \* Handler
    mapCBF, mapTimerId, timer, armed, object, mnTimerEventId, opc, oid, otm,
    setting, fpc, fid, tick, wanted, gone, dead                             \* CTimer

log     == <<today, dirs, files, mstrLogPath, mstrLogDate, fs, good, pc, stamp, date, strPath,
             errors, excused, asked, mixed, amiss>>
paths   == <<tree, at, path, step, result, refused>>
socket  == <<kind, spc, want, m_nSocketFD, m_nSocketType, m_nSocketStyle, m_nLastError,
             szPath, szIP, unAddr, inAddr, sock, target>>
packets == <<sent, wire, arrived, hup, rpc, packet, posted, heard, replies>>
counter == <<msnSequence, given>>
queues  == <<clock, queue, next, box, listMsqId, rel, it, torn, hpc, mnMsqKey, msqid, mlFilter, listener,
             tpc, cur, cancelled, mlnThreadId, reg, messages, noticed, called, crashes>>
timers  == <<mapCBF, mapTimerId, timer, armed, object, mnTimerEventId, opc, oid, otm,
             setting, fpc, fid, tick, wanted, gone, dead>>

-----------------------------------------------------------------------------
Classes == {"CATcpServer", "CSocketServer", "CSocketClient", "CATcpClient"}

\* Packets and queues are instances of the modules that hold the theorems about them,
\* for Parts_proofs to cite; what they define is what CMPFraming and Handler define.
L == INSTANCE LogHandler WITH Threads <- Writers, Paths <- LogPaths, Faults <- TRUE
M == INSTANCE Mkdirp WITH Paths <- MkdirPaths, Faults <- TRUE, dirs <- tree, pc <- step, Threads <- Thread
S == INSTANCE CSocket WITH Kinds <- Classes, pc <- spc, sent <- target
\* The server that calls the receiver, the client that posts.
F == INSTANCE CMPFraming_proofs WITH Role <- "server", Handle <- "PK_ASYNC", queue <- posted
G == INSTANCE CMPFraming_proofs WITH Role <- "client", Handle <- "PK_MSQ", queue <- posted
N == INSTANCE PacketNumbers
\* System calls that fail; a process that crashes and starts again, for which the time is no key.
Q == INSTANCE Handler_proofs WITH FirstId <- 0, MaxCrashes <- 0, Releases <- TRUE, Faults <- TRUE,
                                  sent <- messages, heard <- noticed
R == INSTANCE Handler_proofs WITH Args <- Given, FirstId <- 0, MaxClock <- 1, Releases <- FALSE, Faults <- FALSE,
                                  sent <- messages, heard <- noticed
T == INSTANCE CTimer WITH Object <- {o1}, want <- wanted

ASSUME LogAssumption == L!PathsAssumption /\ L!DaysAssumption /\ L!NoneAssumption
ASSUME MkdirpAssumption == M!PathsAssumption /\ Root \in DirName /\ MkdirPaths \subseteq Seq(DirName)
ASSUME SocketAssumption == S!KindsAssumption /\ S!AddrAssumption
ASSUME PacketsAssumption == F!RoleAssumption /\ F!BoundsAssumption /\ G!RoleAssumption /\ G!BoundsAssumption
ASSUME NumbersAssumption == N!LimitAssumption
ASSUME QueuesAssumption == Q!Assumptions /\ R!Assumptions
ASSUME TimersAssumption == T!NoneAssumption

-----------------------------------------------------------------------------
Units == {"log", "mkdirp", "socket", "server", "client", "numbers", "handler", "restart", "timer"}

\* All parts; what a part may start from besides is for its own unit.
Begin ==
    /\ L!Init /\ M!Init /\ S!Init /\ F!Init /\ N!Init /\ T!Init
    /\ IF unit = "restart" THEN R!Init ELSE Q!Init
    /\ dirs = {} \/ unit = "log"
    /\ kind = "CATcpServer" \/ unit = "socket"

Init == unit \in Units /\ Begin

Only(others) == UNCHANGED <<unit, others>>

Next ==
    \/ unit = "log"     /\ L!Next /\ Only(<<paths, socket, packets, counter, queues, timers>>)
    \/ unit = "mkdirp"  /\ M!Next /\ Only(<<log, socket, packets, counter, queues, timers>>)
    \/ unit = "socket"  /\ S!Next /\ Only(<<log, paths, packets, counter, queues, timers>>)
    \/ unit = "server"  /\ F!Next /\ Only(<<log, paths, socket, counter, queues, timers>>)
    \/ unit = "client"  /\ G!Next /\ Only(<<log, paths, socket, counter, queues, timers>>)
    \/ unit = "numbers" /\ N!Next /\ Only(<<log, paths, socket, packets, queues, timers>>)
    \/ unit = "handler" /\ Q!Next /\ Only(<<log, paths, socket, packets, counter, timers>>)
    \/ unit = "restart" /\ R!Next /\ Only(<<log, paths, socket, packets, counter, timers>>)
    \/ unit = "timer"   /\ T!Next /\ Only(<<log, paths, socket, packets, counter, queues>>)

vars == <<unit, log, paths, socket, packets, counter, queues, timers>>
Spec == Init /\ [][Next]_vars

-----------------------------------------------------------------------------
(* Properties: what the units' modules state of them.                      *)

\* Every variable of the unit keeps its type.
TypeOK ==
    /\ unit = "log"     => L!TypeOK
    /\ unit = "mkdirp"  => M!TypeOK
    /\ unit = "socket"  => S!TypeOK
    /\ unit = "server"  => F!TypeOK
    /\ unit = "client"  => G!TypeOK
    /\ unit = "numbers" => N!TypeOK
    /\ unit = "handler" => Q!TypeOK
    /\ unit = "restart" => R!TypeOK
    /\ unit = "timer"   => T!TypeOK

\* Threads log, unlocked.  A line is in the file of a day between the one it is stamped
\* with and the one it is written on, and of the path set last when it was looked up,
\* unless another file of that name was there; it is lost only if that file could not be
\* opened, or was removed, closed or hidden by another of its name while the line was on
\* its way, or the disk refused it - except for what a line does that is written while
\* another opens the file, or after two opened it at once or a write failed, until one
\* line alone opens the file again (_log at midnight, writeLog, _setLogPath).
LinesKept == unit = "log" => L!LostForAReason /\ L!LineInItsDay /\ L!LineAtItsPath

\* After TRUE everything on the path exists, a file in the place of the last directory
\* included; FALSE is for a mkdir that was refused or a file in the way, never for a
\* directory that another thread made first (mkdirp).
MkdirpTells == unit = "mkdirp" => M!TrueMeansThere /\ M!FalseForAReason

\* Whichever step of start() failed, the object's only open socket is the one stop()
\* will close; a start() that reports success has it listening, bound or connected;
\* what bind, connect and send go by is what the kernel's socket is, and the address
\* that was given this time, not one of an earlier start().
SocketKept ==
    unit = "socket" => S!NothingLeftOpen /\ S!StartTells /\ S!KnowsItsSocket /\ S!UsesItsAddress

\* A timer that will be due can be killed: mapTimerId has it under its id, so there is
\* at most one for an id; nothing is due for an id once killTimer has returned
\* (_SetTimer, _KillTimer).
TimersKillable == unit = "timer" => T!NoTimerLost /\ T!KilledStops

\* By each of its ways the application gets packets in the order they were sent and
\* none twice, however the stream was cut up; requests are answered in the order they
\* came, each once and only when the whole of it was read, and nothing is said after a
\* complaint (runCMPHandler); a number is given to a packet again only after all the
\* others, and 0 to none (getSequence).
PacketsInOrder ==
    /\ unit = "server" => F!EachWayInOrder /\ F!AnswersInOrder
    /\ unit = "client" => G!EachWayInOrder /\ G!AnswersInOrder
    /\ unit = "numbers" => N!NoNumberTwice

\* A message thread never runs on a Handler that is gone; a message reaches an object
\* with the queue key of the one it was sent through and the filter it was sent to; a
\* queue that exists and that an object of this process has is one release() would
\* remove, id 0 included, also while a release() runs, unless the object was made
\* meanwhile or a close() erased the id its iterator stood on; all of it also after a
\* crash (~Handler, recvMessage, CMessageHandler::init and release).
QueuesKept ==
    /\ unit = "handler" => Q!NoUseAfterFree /\ Q!SameAddress /\ Q!OpenedListed
    /\ unit = "restart" => R!NoUseAfterFree /\ R!SameAddress /\ R!OpenedListed
=============================================================================

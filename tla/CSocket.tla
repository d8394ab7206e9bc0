------------------------------- MODULE CSocket -------------------------------
(***************************************************************************)
(* socketHandler/CSocket.cpp: the socket object the four server and client *)
(* classes derive from, driven by the socket side of their start() and     *)
(* stop().  Every step of it may fail, and the object is started and       *)
(* stopped again with other addresses and families.                        *)
(*                                                                         *)
(* What matters is what one step leaves behind for a later one: m_nSocketFD*)
(* decides what stop() closes, m_nSocketType which branch bind, connect    *)
(* and close take, m_nSocketStyle how a packet is sent, szPath and szIP    *)
(* where to.  Only socketClose() clears szPath, and only after AF_UNIX.    *)
(***************************************************************************)
EXTENDS Naturals, FiniteSets

CONSTANTS
    Kinds,     \* the classes an object may be of
    Addr,      \* addresses that are valid as IP and as path
    FD,        \* descriptors the kernel has left
    None       \* no descriptor (-1), no address (NULL or "")

AnyAddr == "INADDR_ANY"
BadHost == "not dotted"   \* inet_aton refuses it
BadPort == "bad port"     \* setInetSocket refuses it, or the length of the address

KindsAssumption == Kinds \subseteq {"CATcpServer", "CSocketServer", "CSocketClient", "CATcpClient"}
AddrAssumption  == None \notin Addr \cup FD /\ {AnyAddr, BadHost, BadPort} \cap (Addr \cup {None}) = {}

VARIABLES
    kind,            \* the object's class
    pc, want,        \* where the application's call is, what start() was given
    m_nSocketFD, m_nSocketType, m_nSocketStyle, m_nLastError,
    szPath, szIP,
    unAddr, inAddr,  \* the addresses createSocket() made of them
    sock,            \* descriptor -> the kernel's socket
    sent             \* where the last socketSend() went

object == <<m_nSocketFD, m_nSocketType, m_nSocketStyle, m_nLastError>>
names  == <<szPath, szIP, unAddr, inAddr>>
vars == <<kind, pc, want, object, names, sock, sent>>

-----------------------------------------------------------------------------
Family == {"AF_UNIX", "AF_INET"}
Style  == {"SOCK_STREAM", "SOCK_DGRAM"}
Where  == Addr \cup {None, AnyAddr}
Closed == [state |-> "closed", fam |-> "AF_INET", style |-> "SOCK_STREAM", addr |-> None]
Sock   == [state : {"closed", "open", "bound", "listening", "connected", "mac"},
           fam : Family, style : Style, addr : Where]
Wanted == [fam : Family, addr : Addr \cup {None, BadHost, BadPort}, style : Style]

Server == kind \in {"CATcpServer", "CSocketServer"}
Generic == kind \in {"CSocketServer", "CSocketClient"}

Init ==
    /\ kind \in Kinds /\ pc = "idle"
    /\ want = [fam |-> "AF_INET", addr |-> None, style |-> "SOCK_STREAM"]
    /\ m_nSocketFD = None /\ m_nSocketType = "AF_INET" /\ m_nSocketStyle = "SOCK_STREAM"
    /\ m_nLastError = "OK"
    /\ szPath = None /\ szIP = None /\ unAddr = None /\ inAddr = None
    /\ sock = [fd \in FD |-> Closed]
    /\ sent = None

At(from, to) == pc = from /\ pc' = to

setLastError(error) == m_nLastError' = error

-----------------------------------------------------------------------------
(* start(), connect(): the address                                         *)

\* Only the generic classes take a family and a style.
Begin(w) ==
    /\ pc \in {"idle", "failed", "stopped"}
    /\ Generic \/ (w.fam = "AF_INET" /\ w.style = "SOCK_STREAM")
    /\ pc' = "address" /\ want' = w /\ sent' = None
    /\ UNCHANGED <<kind, object, names, sock>>

\* initMessage fails; CSocketClient calls it later and goes on without.
NoQueue ==
    /\ kind # "CSocketClient" /\ At("address", "failed")
    /\ UNCHANGED <<kind, want, object, names, sock, sent>>

\* An empty path leaves the one of an earlier start().
setDomainSocketPath ==
    /\ At("address", "create") /\ want.fam = "AF_UNIX"
    /\ szPath' = IF want.addr = None THEN szPath ELSE want.addr
    /\ UNCHANGED <<kind, want, object, szIP, unAddr, inAddr, sock, sent>>

BugInetSocketUnchecked ==
    /\ At("address", "create") /\ want.fam = "AF_INET"
    /\ szIP' = want.addr
    /\ UNCHANGED <<kind, want, object, szPath, unAddr, inAddr, sock, sent>>

\* szIP and m_nPort are cleared before they are checked.
setInetSocket ==
    /\ pc = "address" /\ want.fam = "AF_INET"
    /\ pc' = (IF want.addr = BadPort THEN "failed" ELSE "create")
    /\ szIP' = IF want.addr = BadPort THEN None ELSE want.addr
    /\ UNCHANGED <<kind, want, object, szPath, unAddr, inAddr, sock, sent>>

-----------------------------------------------------------------------------
(* createSocket()                                                          *)

NoAddress ==
    /\ At("create", "failed")
    /\ \/ want.fam = "AF_UNIX" /\ szPath = None /\ setLastError("NOT_SET_DOMAIN_PATH")
       \/ want.fam = "AF_INET" /\ szIP = BadHost /\ UNCHANGED m_nLastError
    /\ UNCHANGED <<kind, want, m_nSocketFD, m_nSocketType, m_nSocketStyle, names, sock, sent>>

BugAddressedOnce ==
    /\ pc = "create"
    /\ IF want.fam = "AF_UNIX"
       THEN szPath # None /\ unAddr' = szPath /\ UNCHANGED inAddr
       ELSE /\ szIP # BadHost
            /\ inAddr' = IF inAddr # None THEN inAddr ELSE IF szIP = None THEN AnyAddr ELSE szIP
            /\ UNCHANGED unAddr
    /\ m_nSocketType' = want.fam /\ m_nSocketStyle' = want.style
    /\ UNCHANGED <<kind, want, szPath, szIP, sent>>

\* An address, and then the family and the style, before socket() is called.
Addressed ==
    /\ pc = "create"
    /\ IF want.fam = "AF_UNIX"
       THEN szPath # None /\ unAddr' = szPath /\ UNCHANGED inAddr
       ELSE /\ szIP # BadHost
            /\ inAddr' = IF szIP = None THEN AnyAddr ELSE szIP
            /\ UNCHANGED unAddr
    /\ m_nSocketType' = want.fam /\ m_nSocketStyle' = want.style
    /\ UNCHANGED <<kind, want, szPath, szIP, sent>>

\* The kernel knows no AF_UNIX socket of protocol IPPROTO_UDP.
createSocket(fd) ==
    /\ Addressed
    /\ want.fam = "AF_INET" \/ want.style = "SOCK_STREAM"
    /\ sock[fd].state = "closed"
    /\ sock' = [sock EXCEPT ![fd] = [state |-> "open", fam |-> want.fam, style |-> want.style, addr |-> None]]
    /\ m_nSocketFD' = fd /\ UNCHANGED m_nLastError
    /\ pc' = IF Server THEN "bind" ELSE IF want.style = "SOCK_STREAM" THEN "connect" ELSE "up"

NoSocket ==
    /\ Addressed /\ pc' = "failed"
    /\ m_nSocketFD' = None /\ setLastError("SOCKET_CREATE_FAIL")
    /\ UNCHANGED sock

-----------------------------------------------------------------------------
(* socketBind(), socketListen(), connectServer(), socketClose()            *)

Become(state, addr) == sock' = [sock EXCEPT ![m_nSocketFD] = [@ EXCEPT !.state = state, !.addr = addr]]

Address == IF m_nSocketType = "AF_UNIX" THEN unAddr ELSE inAddr

OnlySocket == UNCHANGED <<kind, want, object, names, sent>>

\* CATcpServer reports the descriptor's number, not what became of it.
socketBind ==
    /\ At("bind", IF want.style = "SOCK_STREAM" THEN "listen" ELSE "up")
    /\ Become("bound", Address)
    /\ OnlySocket

socketListen == At("listen", "up") /\ Become("listening", sock[m_nSocketFD].addr) /\ OnlySocket

\* gethostbyname of an empty szIP finds no host.
connectServer ==
    /\ At("connect", "up") /\ (m_nSocketType = "AF_UNIX" \/ szIP # None)
    /\ Become("connected", IF m_nSocketType = "AF_UNIX" THEN unAddr ELSE szIP)
    /\ OnlySocket

StepFails ==
    /\ \/ pc = "bind" /\ pc' = "closing" /\ setLastError("BIND_FAIL")
       \/ pc = "listen" /\ pc' = "closing" /\ setLastError("LISTEN_FAIL")
       \/ pc = "connect" /\ pc' = "closing" /\ m_nLastError' \in {m_nLastError, "CONNECT_FAIL"}
    /\ UNCHANGED <<kind, want, m_nSocketFD, m_nSocketType, m_nSocketStyle, names, sock, sent>>

socketClose ==
    /\ IF m_nSocketFD = None THEN UNCHANGED <<sock, szPath, object>>
       ELSE /\ sock' = [sock EXCEPT ![m_nSocketFD] = Closed]
            /\ szPath' = IF m_nSocketType = "AF_UNIX" THEN None ELSE szPath
            /\ m_nSocketFD' = None /\ m_nSocketType' = None /\ UNCHANGED m_nSocketStyle
            /\ setLastError("OK")
    /\ UNCHANGED <<kind, want, szIP, unAddr, inAddr, sent>>

\* CATcpServer::start returns the number of the closed descriptor when the
\* bind failed, as if it had started.
CloseFailed ==
    /\ pc = "closing"
    /\ pc' = (IF kind = "CATcpServer" /\ m_nLastError = "BIND_FAIL" THEN "up" ELSE "failed")
    /\ socketClose

stop == pc \in {"up", "failed"} /\ pc' = "stopped" /\ socketClose

\* The descriptor is not tested: a send on -1 fails too.
socketSend ==
    /\ pc = "up" /\ ~Server
    /\ sent' = IF m_nSocketStyle = "SOCK_STREAM" THEN sock[m_nSocketFD].addr ELSE inAddr
    /\ UNCHANGED <<kind, pc, want, object, names, sock>>

SendFails ==
    /\ pc = "up" /\ setLastError("SEND_FAIL")
    /\ UNCHANGED <<kind, pc, want, m_nSocketFD, m_nSocketType, m_nSocketStyle, names, sock, sent>>

-----------------------------------------------------------------------------
(* getMac()                                                                *)

\* The descriptor getMac opens is never closed.
getMac(fd) ==
    /\ pc \in {"idle", "stopped", "up"} /\ sock[fd].state = "closed"
    /\ sock' = [sock EXCEPT ![fd] = [Closed EXCEPT !.state = "mac", !.style = "SOCK_DGRAM"]]
    /\ UNCHANGED <<kind, pc, want, object, names, sent>>

-----------------------------------------------------------------------------
Next ==
    \/ \E w \in Wanted : Begin(w)
    \/ NoQueue \/ setDomainSocketPath \/ setInetSocket \/ NoAddress \/ NoSocket
    \/ socketBind \/ socketListen \/ connectServer \/ StepFails \/ CloseFailed \/ stop
    \/ socketSend \/ SendFails
    \/ \E fd \in FD : createSocket(fd) \/ getMac(fd)

Spec == Init /\ [][Next]_vars

-----------------------------------------------------------------------------
(* Properties                                                              *)

\* Every variable keeps its type (CSocket.h).
TypeOK ==
    /\ kind \in Kinds
    /\ pc \in {"idle", "address", "create", "bind", "listen", "connect", "closing", "up", "failed",
               "stopped"}
    /\ want \in Wanted
    /\ m_nSocketFD \in FD \cup {None}
    /\ m_nSocketType \in Family \cup {None} /\ m_nSocketStyle \in Style
    /\ m_nLastError \in {"OK", "NOT_SET_DOMAIN_PATH", "SOCKET_CREATE_FAIL", "BIND_FAIL", "LISTEN_FAIL",
                         "CONNECT_FAIL", "SEND_FAIL"}
    /\ szPath \in Addr \cup {None, BadHost, BadPort} /\ szIP \in Addr \cup {None, BadHost}
    /\ unAddr \in Addr \cup {None, BadHost, BadPort} /\ inAddr \in Where

\* Whichever step of start() failed, and however often the object was used
\* before: its only open socket is the one stop() will close, and after a
\* failed start() or a stop() there is none (start, connect, socketClose).
NothingLeftOpen ==
    /\ \A fd \in FD : sock[fd].state \notin {"closed", "mac"} => m_nSocketFD = fd
    /\ pc \in {"failed", "stopped"} => m_nSocketFD = None

\* What bind, connect and send go by is what the kernel's socket is: the
\* object never takes a stream for a datagram socket or AF_UNIX for AF_INET.
KnowsItsSocket ==
    m_nSocketFD # None =>
        sock[m_nSocketFD].fam = m_nSocketType /\ sock[m_nSocketFD].style = m_nSocketStyle

\* An object that was given an address serves, reaches and sends to this
\* one, not the one of an earlier start().
UsesItsAddress ==
    pc = "up" /\ m_nSocketFD # None /\ want.addr # None =>
        /\ sock[m_nSocketFD].addr \in {want.addr, None}
        /\ sent \in {want.addr, None}

\* A start() that reports success has its socket listening, bound or
\* connected (CSocketServer, CSocketClient, CATcpClient).
StartTells ==
    pc = "up" /\ kind # "CATcpServer" =>
        /\ m_nSocketFD # None
        /\ sock[m_nSocketFD].state =
             IF want.style = "SOCK_DGRAM" THEN IF Server THEN "bound" ELSE "open"
             ELSE IF Server THEN "listening" ELSE "connected"
=============================================================================

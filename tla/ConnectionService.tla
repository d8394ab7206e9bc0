-------------------------- MODULE ConnectionService --------------------------
(***************************************************************************)
(* What CATcpServer promises the application that overrides               *)
(* onClientConnect and onClientDisconnect: a socket is let go only after   *)
(* every connection that was announced got its farewell, each callback     *)
(* comes at most once per connection and in this order, and a connection   *)
(* whose client is gone is not kept.                                       *)
(***************************************************************************)
CONSTANT Conn

VARIABLES
    phase,  \* where the connection is: outside, in the backlog, held by a socket
    told,   \* the callbacks made for it
    hup     \* the connections whose client has closed its end

vars == <<phase, told, hup>>

Init ==
    /\ phase = [c \in Conn |-> "outside"]
    /\ told = [c \in Conn |-> "nothing"]
    /\ hup = {}

Arrive(c) ==
    /\ phase[c] = "outside"
    /\ phase' = [phase EXCEPT ![c] = "backlog"]
    /\ told' = [told EXCEPT ![c] = "nothing"]
    /\ hup' = hup \ {c}

Hangup(c) ==
    /\ phase[c] # "outside" /\ c \notin hup
    /\ hup' = hup \cup {c}
    /\ UNCHANGED <<phase, told>>

TakeUp(c) ==
    /\ phase[c] = "backlog"
    /\ phase' = [phase EXCEPT ![c] = "held"]
    /\ UNCHANGED <<told, hup>>

Announce(c) ==
    /\ phase[c] = "held" /\ told[c] = "nothing"
    /\ told' = [told EXCEPT ![c] = "connected"]
    /\ UNCHANGED <<phase, hup>>

SayFarewell(c) ==
    /\ phase[c] = "held" /\ told[c] = "connected"
    /\ told' = [told EXCEPT ![c] = "disconnected"]
    /\ UNCHANGED <<phase, hup>>

Release(c) ==
    /\ phase[c] = "held" /\ told[c] # "connected"
    /\ phase' = [phase EXCEPT ![c] = "outside"]
    /\ UNCHANGED <<told, hup>>

Finish(c) == c \in hup /\ (Announce(c) \/ SayFarewell(c) \/ Release(c))

Next ==
    \E c \in Conn :
        \/ Arrive(c) \/ Hangup(c) \/ TakeUp(c)
        \/ Announce(c) \/ SayFarewell(c) \/ Release(c)

Spec == Init /\ [][Next]_vars

\* Once its client is gone, a connection the service holds moves on.
FairSpec == Spec /\ \A c \in Conn : WF_vars(Finish(c))
=============================================================================

---------------------------- MODULE PacketChannel ----------------------------
(***************************************************************************)
(* What reading CMP packets from a connection promises: the application    *)
(* hears the packets that carry something for it, whole, each once and in  *)
(* the order they were sent, until the channel shuts.  It shuts once.      *)
(***************************************************************************)
EXTENDS Naturals, Sequences

CONSTANTS
    Packet,     \* what a peer may send
    Silent(_),  \* packets answered without telling the application
    MaxPackets  \* bound: packets sent

VARIABLES sent, heard, open

vars == <<sent, heard, open>>

Init == sent = <<>> /\ heard = <<>> /\ open = TRUE

Send(p) ==
    /\ Len(sent) < MaxPackets /\ sent' = Append(sent, p)
    /\ UNCHANGED <<heard, open>>

\* The packets heard so far end with number Last.
Last == IF heard = <<>> THEN 0 ELSE heard[Len(heard)]

Hear ==
    \E n \in DOMAIN sent :
        /\ open /\ n > Last /\ ~Silent(sent[n])
        /\ \A k \in Last + 1..n - 1 : Silent(sent[k])
        /\ heard' = Append(heard, n) /\ UNCHANGED <<sent, open>>

Shut == open /\ open' = FALSE /\ UNCHANGED <<sent, heard>>

Next == (\E p \in Packet : Send(p)) \/ Hear \/ Shut

\* What was sent is heard unless the channel shuts.
Spec == Init /\ [][Next]_vars /\ WF_vars(Hear)
=============================================================================

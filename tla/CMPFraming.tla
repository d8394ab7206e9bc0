------------------------------ MODULE CMPFraming ------------------------------
(***************************************************************************)
(* How runCMPHandler of socketHandler/CSocketServer.cpp, and its twin in   *)
(* CSocketClient.cpp, cut a TCP stream into CMP packets (global_inc/       *)
(* packet.h): a header of fixed size, that gives the length of the body    *)
(* that follows.  Each recv() asks for a header or a body and returns what *)
(* has arrived, up to that; anything less than asked for ends the          *)
(* connection.  Packets longer than MAX_SIZE go to the application by a    *)
(* way of their own.                                                       *)
(*                                                                         *)
(* The threads and descriptors around it are in CSocketServer.tla and      *)
(* CSocketClient.tla; here it is one connection that nobody else closes.   *)
(***************************************************************************)
EXTENDS Naturals, Sequences, SequencesExt

CONSTANTS
    Role,       \* "server" or "client": whose runCMPHandler
    Handle,     \* mnPacketHandle: "PK_MSQ" or "PK_ASYNC"
    MaxPackets, \* bound: packets sent
    QueueCap    \* messages the queue holds before msgsnd sleeps

RoleAssumption == Role \in {"server", "client"} /\ Handle \in {"PK_MSQ", "PK_ASYNC"}
BoundsAssumption == {MaxPackets, QueueCap} \subseteq Nat \ {0}

\* enquire_link_request is a header only.
Packet == {[cmd |-> "enquire_link", body |-> "none"]}
          \cup [cmd : {"access_log", "other"}, body : {"none", "small", "big"}]

\* In units of half a header: what recv() returns can end inside either part.
HeaderLen == 2
BodyLen(p) == IF p.body = "none" THEN 0 ELSE 2

Number == 1..MaxPackets
Unit == [n : Number, i : 1..4]

Units(n, p) == [i \in 1..HeaderLen + BodyLen(p) |-> [n |-> n, i |-> i]]

VARIABLES
    sent,   \* the packets of the peer
    wire,   \* what is on its way
    arrived,\* what recv() can return
    hup,    \* the peer has closed its end
    rpc,    \* where the thread is
    packet, \* cmpPacket: what was read of it so far, and what its header says
    queue,  \* packets in the message queue
    heard,  \* packets given to the application, and how
    replies \* what the thread sent back

vars == <<sent, wire, arrived, hup, rpc, packet, queue, heard, replies>>

NoPacket == [units |-> <<>>, says |-> [cmd |-> "other", body |-> "none"]]
State == {"header", "body", "bigbody", "deliver", "close", "closed"}

Init ==
    /\ sent = <<>> /\ wire = <<>> /\ arrived = <<>> /\ hup = FALSE
    /\ rpc = "header" /\ packet = NoPacket
    /\ queue = <<>> /\ heard = <<>> /\ replies = <<>>

-----------------------------------------------------------------------------
(* The peer and the network.                                               *)

Send(p) ==
    /\ ~hup /\ Len(sent) < MaxPackets
    /\ sent' = Append(sent, p)
    /\ wire' = IF rpc = "closed" THEN <<>> ELSE wire \o Units(Len(sent) + 1, p)
    /\ UNCHANGED <<arrived, hup, rpc, packet, queue, heard, replies>>

\* A peer that dies has not always written the end of what it was sending.
Hangup ==
    /\ ~hup /\ hup' = TRUE
    /\ \E k \in 0..Len(wire) : wire' = SubSeq(wire, 1, k)
    /\ UNCHANGED <<sent, arrived, rpc, packet, queue, heard, replies>>

Arrive ==
    /\ \E k \in 1..Len(wire) :
        /\ arrived' = arrived \o SubSeq(wire, 1, k)
        /\ wire' = SubSeq(wire, k + 1, Len(wire))
    /\ UNCHANGED <<sent, hup, rpc, packet, queue, heard, replies>>

-----------------------------------------------------------------------------
(* The client thread.                                                      *)

\* recv() without MSG_WAITALL: what has arrived, up to size; nothing when the
\* peer has closed.
Got(size) == SubSeq(arrived, 1, IF Len(arrived) < size THEN Len(arrived) ELSE size)

recv(size) ==
    /\ arrived # <<>> \/ (hup /\ wire = <<>>)
    /\ arrived' = SubSeq(arrived, Len(Got(size)) + 1, Len(arrived))

Reply(what) == replies' = Append(replies, what)
Done(n) == [n |-> n, what |-> "STATUS_ROK"]
Complaint(text) == [n |-> 0, what |-> text]

\* A header that is not one packet's says anything.
Says(units) ==
    LET p == sent[units[1].n] IN
    IF units = SubSeq(Units(units[1].n, p), 1, HeaderLen) THEN {p} ELSE Packet

OnlyThread == UNCHANGED <<sent, wire, hup, queue, heard>>

\* enquire_link_request is answered here; an answer needs nothing else.
TakeHeader(got) ==
    \E p \in Says(got) :
        /\ packet' = [units |-> got, says |-> p]
        /\ IF p.cmd = "enquire_link" THEN rpc' = "header" /\ Reply(Done(got[1].n))
           ELSE /\ UNCHANGED replies
                /\ rpc' = CASE p.body = "none"  -> "deliver"
                            [] p.body = "small" -> "body"
                            [] p.body = "big"   -> "bigbody"

BugReadHeaderKeepsShort ==
    /\ rpc = "header" /\ recv(HeaderLen) /\ Got(HeaderLen) # <<>>
    /\ TakeHeader(Got(HeaderLen)) /\ OnlyThread

ReadHeader ==
    /\ rpc = "header" /\ recv(HeaderLen) /\ Len(Got(HeaderLen)) = HeaderLen
    /\ TakeHeader(Got(HeaderLen)) /\ OnlyThread

ReadHeaderEnd ==
    /\ rpc = "header" /\ recv(HeaderLen) /\ Got(HeaderLen) = <<>>
    /\ rpc' = "close" /\ OnlyThread /\ UNCHANGED <<packet, replies>>

ReadHeaderShort ==
    /\ rpc = "header" /\ recv(HeaderLen) /\ Len(Got(HeaderLen)) \in 1..HeaderLen - 1
    /\ rpc' = "close" /\ Reply(Complaint("Please use CMP"))
    /\ OnlyThread /\ UNCHANGED packet

Size == BodyLen(packet.says)

\* Only a body that is not big has its access_log_request answered.
TakeBody ==
    /\ packet' = [packet EXCEPT !.units = @ \o Got(Size)]
    /\ rpc' = "deliver"
    /\ IF rpc = "body" /\ packet.says.cmd = "access_log"
       THEN Reply(Done(packet.units[1].n)) ELSE UNCHANGED replies

ReadBody ==
    /\ rpc \in {"body", "bigbody"} /\ recv(Size) /\ Len(Got(Size)) = Size
    /\ TakeBody /\ OnlyThread

BugReadBodyShortGoesOn ==
    /\ rpc \in {"body", "bigbody"} /\ recv(Size) /\ Len(Got(Size)) < Size
    /\ rpc' = "header" /\ Reply(Complaint("Invalid Packet"))
    /\ OnlyThread /\ UNCHANGED packet

ReadBodyShort ==
    /\ rpc \in {"body", "bigbody"} /\ recv(Size) /\ Len(Got(Size)) < Size
    /\ rpc' = "close" /\ Reply(Complaint("Invalid Packet"))
    /\ OnlyThread /\ UNCHANGED packet

\* An access_log_request without a body is answered on its way out.
AnswersNow == packet.says.cmd = "access_log" /\ packet.says.body = "none"

\* What the thread has read, as the application would see it: 0 is no packet
\* that was sent.
Identity ==
    LET n == packet.units[1].n IN
    IF packet.units = Units(n, sent[n]) /\ packet.says = sent[n] THEN n ELSE 0

Deliver ==
    /\ rpc = "deliver" /\ rpc' = "header"
    /\ IF AnswersNow THEN Reply(Done(packet.units[1].n)) ELSE UNCHANGED replies
    /\ IF packet.says.body = "big"
       THEN heard' = Append(heard, [n |-> Identity, by |-> "ServerReceive"]) /\ UNCHANGED queue
       ELSE IF Handle = "PK_ASYNC"
       THEN /\ heard' = Append(heard, [n |-> Identity,
                            by |-> IF Role = "server" THEN "ServerReceive" ELSE "ClientReceive"])
            /\ UNCHANGED queue
       ELSE Len(queue) < QueueCap /\ queue' = Append(queue, Identity) /\ UNCHANGED heard
    /\ packet' = NoPacket /\ UNCHANGED <<sent, wire, arrived, hup>>

\* DISCONNECT and socketClose: what is still on its way is lost.
Close ==
    /\ rpc = "close" /\ rpc' = "closed"
    /\ wire' = <<>> /\ arrived' = <<>> /\ packet' = NoPacket
    /\ UNCHANGED <<sent, hup, queue, heard, replies>>

\* The receiver of the messages.
Take ==
    /\ queue # <<>> /\ queue' = Tail(queue)
    /\ heard' = Append(heard, [n |-> Head(queue), by |-> "message"])
    /\ UNCHANGED <<sent, wire, arrived, hup, rpc, packet, replies>>

-----------------------------------------------------------------------------
runCMPHandler ==
    ReadHeader \/ ReadHeaderEnd \/ ReadHeaderShort \/ ReadBody \/ ReadBodyShort \/ Deliver \/ Close

Next == (\E p \in Packet : Send(p)) \/ Hangup \/ Arrive \/ runCMPHandler \/ Take

Spec == Init /\ [][Next]_vars

\* The thread runs, the network delivers and messages are taken; a peer need
\* not send, nor hang up.
Fairness == WF_vars(runCMPHandler) /\ WF_vars(Arrive) /\ WF_vars(Take)

-----------------------------------------------------------------------------
(* Properties                                                              *)

TypeOK ==
    /\ sent \in Seq(Packet) /\ Len(sent) <= MaxPackets
    /\ wire \in Seq(Unit) /\ arrived \in Seq(Unit) /\ hup \in BOOLEAN /\ rpc \in State
    /\ packet \in [units : Seq(Unit), says : Packet]
    /\ queue \in Seq(Number) /\ Len(queue) <= QueueCap
    /\ heard \in Seq([n : Number, by : {"ServerReceive", "ClientReceive", "message"}])
    /\ replies \in Seq([n : Number, what : {"STATUS_ROK"}]
                         \cup {Complaint("Invalid Packet"), Complaint("Please use CMP")})

\* By each of its ways - messages, and the direct call that long packets take
\* past the queue - the application gets packets in the order they were sent
\* and none twice, however the stream was cut up.
EachWayInOrder ==
    \A i, j \in DOMAIN heard : i < j /\ heard[i].by = heard[j].by => heard[i].n < heard[j].n

\* Requests are answered in the order they came, each once and only when the
\* whole of it was read, and nothing is said after a complaint: the sequence
\* numbers the peer gets back can be matched with its own.
AnswersInOrder ==
    \A i, j \in DOMAIN replies : i < j => replies[i].n # 0 /\ (replies[j].n # 0 => replies[i].n < replies[j].n)

\* With PK_ASYNC, the thread is a packet channel.
Channel == INSTANCE PacketChannel WITH
    Silent <- LAMBDA p : p.cmd = "enquire_link",
    heard  <- [i \in DOMAIN heard |-> heard[i].n],
    open   <- rpc \notin {"close", "closed"}

\* The application hears whole packets in order until the connection ends, and
\* what arrives is heard if it does not end.
ImplementsChannel == Channel!Spec
=============================================================================

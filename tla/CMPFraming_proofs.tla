-------------------------- MODULE CMPFraming_proofs --------------------------
(***************************************************************************)
(* Theorems about CMPFraming for both roles, both ways of handing packets  *)
(* on and any number of packets: the framing never loses its place in the  *)
(* stream, however TCP cuts it, so that what the application hears and     *)
(* what is answered is what was sent, whole and in order.                  *)
(***************************************************************************)
EXTENDS CMPFraming, TLAPS

-----------------------------------------------------------------------------
(* The inductive invariant                                                 *)

Reading == rpc \notin {"close", "closed"}

\* What the thread has not read yet.
Rest == arrived \o wire

UnitsOf(n) == HeaderLen + BodyLen(sent[n])

After(u) == IF u.i < UnitsOf(u.n) THEN [n |-> u.n, i |-> u.i + 1] ELSE [n |-> u.n + 1, i |-> 1]

\* The first unit of the packet that is not sent yet.
End == [n |-> Len(sent) + 1, i |-> 1]

NextUnit == IF Len(Rest) = 0 THEN End ELSE Rest[1]

\* The packet the thread has begun to read.
Current == packet.units[1].n

\* The rest is a piece of what was sent, up to its end unless the peer died.
Linked == \A j \in 1..Len(Rest) :
    /\ Rest[j].n \in 1..Len(sent) /\ Rest[j].i \in 1..UnitsOf(Rest[j].n)
    /\ j < Len(Rest) => Rest[j + 1] = After(Rest[j])
    /\ j = Len(Rest) => hup \/ After(Rest[j]) = End

\* More is to come, or the thread is where the stream ends.
Coming == Len(Rest) > 0 \/ ~hup

\* What comes next is what the thread takes it for.
Awaited ==
    Coming =>
        /\ rpc = "header" => NextUnit.i = 1
        /\ rpc \in {"body", "bigbody"} => NextUnit = [n |-> Current, i |-> 3]
        /\ rpc = "deliver" => NextUnit = [n |-> Current + 1, i |-> 1]

\* What was read of a packet is the beginning of one that was sent, or all of it.
InHand ==
    rpc \in {"body", "bigbody", "deliver"} =>
        /\ Current \in 1..Len(sent) /\ packet.says = sent[Current]
        /\ packet.says.cmd # "enquire_link"
        /\ rpc = "body" => packet.says.body = "small"
        /\ rpc = "bigbody" => packet.says.body = "big"
        /\ Len(packet.units) = IF rpc = "deliver" THEN UnitsOf(Current) ELSE HeaderLen
        /\ \A j \in 1..Len(packet.units) : packet.units[j] = [n |-> Current, i |-> j]

StreamInv == Reading => Linked /\ Awaited /\ InHand

\* The packets before this one have been dealt with.
Ceiling == IF rpc = "header" THEN NextUnit.n ELSE Current

-----------------------------------------------------------------------------
(* Two ends of a sequence                                                  *)

LEMMA Joined ==
    ASSUME NEW S, NEW a \in Seq(S), NEW w \in Seq(S)
    PROVE  /\ a \o w \in Seq(S) /\ Len(a \o w) \in Nat /\ Len(a \o w) = Len(a) + Len(w)
           /\ \A j \in 1..Len(a \o w) : (a \o w)[j] \in S
           /\ \A j \in 1..Len(a) : j \in 1..Len(a \o w) /\ (a \o w)[j] = a[j]
           /\ \A j \in 1..Len(w) : j + Len(a) \in 1..Len(a \o w) /\ (a \o w)[j + Len(a)] = w[j]
OBVIOUS

\* The same, from the second of them.
LEMMA JoinedAt ==
    ASSUME NEW S, NEW a \in Seq(S), NEW w \in Seq(S), NEW j \in 1..Len(a \o w)
    PROVE  /\ j <= Len(a) => (a \o w)[j] = a[j]
           /\ j > Len(a) => (a \o w)[j] = w[j - Len(a)]
OBVIOUS

\* s without its first k members.
From(b, s, k) ==
    /\ Len(b) = Len(s) - k /\ Len(b) \in Nat
    /\ \A j \in 1..Len(b) : j + k \in 1..Len(s) /\ b[j] = s[j + k]

\* recv() takes k units.
LEMMA Shifted ==
    ASSUME NEW S, NEW a \in Seq(S), NEW w \in Seq(S), NEW k \in 0..Len(a),
           NEW b, b = SubSeq(a, k + 1, Len(a))
    PROVE  b \in Seq(S) /\ From(b \o w, a \o w, k)
<1>1. /\ b \in Seq(S) /\ Len(b) = Len(a) - k
      /\ \A j \in 1..Len(b) : b[j] = a[j + k]
  OBVIOUS
<1>2. /\ Len(a \o w) = Len(a) + Len(w) /\ Len(b \o w) = Len(b) + Len(w)
      /\ Len(a) \in Nat /\ Len(b) \in Nat /\ Len(w) \in Nat /\ k \in Nat
  <2>1. b \in Seq(S)
    BY <1>1
  <2>2. Len(a \o w) = Len(a) + Len(w)
    OBVIOUS
  <2>3. Len(b \o w) = Len(b) + Len(w)
    BY <2>1
  <2>4. Len(a) \in Nat /\ Len(b) \in Nat /\ Len(w) \in Nat /\ k \in Nat
    BY <2>1
  <2> QED BY <2>2, <2>3, <2>4
<1>3. Len(b \o w) = Len(a \o w) - k /\ Len(b \o w) \in Nat
  BY ONLY <1>1, <1>2
<1>4. ASSUME NEW j \in 1..Len(b \o w) PROVE j + k \in 1..Len(a \o w) /\ (b \o w)[j] = (a \o w)[j + k]
  <2>1. j + k \in 1..Len(a \o w)
    BY ONLY <1>2, <1>3, <1>4
  <2>2. CASE j <= Len(b)
    <3>1. j \in 1..Len(b) /\ j + k <= Len(a)
      BY ONLY <1>1, <1>2, <1>4, <2>2
    <3> QED BY <1>1, <2>1, <2>2, <3>1, JoinedAt
  <2>3. CASE j > Len(b)
    <3>1. j + k > Len(a) /\ j + k - Len(a) = j - Len(b)
      BY ONLY <1>1, <1>2, <1>4, <2>3
    <3> QED BY ONLY a \in Seq(S), w \in Seq(S), <1>1, <1>4, <2>1, <2>3, <3>1, JoinedAt
  <2> QED BY ONLY <1>1, <1>2, <1>4, <2>1, <2>2, <2>3
<1> QED BY <1>1, <1>3, <1>4 DEF From

Same(b, s) == Len(b) = Len(s) /\ \A j \in 1..Len(b) : b[j] = s[j]

\* The network brings k units nearer.
LEMMA Moved ==
    ASSUME NEW S, NEW a \in Seq(S), NEW w \in Seq(S), NEW k \in 1..Len(w)
    PROVE  /\ a \o SubSeq(w, 1, k) \in Seq(S) /\ SubSeq(w, k + 1, Len(w)) \in Seq(S)
           /\ Same((a \o SubSeq(w, 1, k)) \o SubSeq(w, k + 1, Len(w)), a \o w)
<1> DEFINE b == a \o SubSeq(w, 1, k)
           v == SubSeq(w, k + 1, Len(w))
<1>1. /\ b \in Seq(S) /\ v \in Seq(S) /\ Len(b) = Len(a) + k /\ Len(v) = Len(w) - k
      /\ \A j \in 1..Len(v) : v[j] = w[j + k]
  OBVIOUS
<1>2. \A j \in 1..Len(b) : j \in 1..Len(a \o w) /\ b[j] = (a \o w)[j]
  OBVIOUS
<1> HIDE DEF b, v
<1>3. /\ Len(a \o w) = Len(a) + Len(w) /\ Len(b \o v) = Len(b) + Len(v)
      /\ Len(a) \in Nat /\ Len(b) \in Nat /\ Len(w) \in Nat /\ Len(v) \in Nat /\ k \in Nat
  <2>1. b \in Seq(S) /\ v \in Seq(S)
    BY <1>1
  <2>2. Len(a \o w) = Len(a) + Len(w)
    OBVIOUS
  <2>3. Len(b \o v) = Len(b) + Len(v)
    BY <2>1
  <2>4. Len(a) \in Nat /\ Len(b) \in Nat /\ Len(w) \in Nat /\ Len(v) \in Nat /\ k \in Nat
    BY <2>1
  <2> QED BY <2>2, <2>3, <2>4
<1>4. Len(b \o v) = Len(a \o w)
  BY ONLY <1>1, <1>3
<1>5. ASSUME NEW j \in 1..Len(b \o v) PROVE (b \o v)[j] = (a \o w)[j]
  <2>1. CASE j <= Len(b)
    <3>1. j \in 1..Len(b)
      BY ONLY <1>3, <1>5, <2>1
    <3> QED BY ONLY <1>1, <1>2, <1>5, <2>1, <3>1, JoinedAt
  <2>2. CASE j > Len(b)
    <3>1. j > Len(a) /\ j \in 1..Len(a \o w) /\ j - Len(b) \in 1..Len(v) /\ j - Len(b) + k = j - Len(a)
      BY ONLY <1>1, <1>3, <1>4, <1>5, <2>2
    <3>2. (b \o v)[j] = v[j - Len(b)]
      BY ONLY <1>1, <1>5, <2>2, JoinedAt
    <3>3. (a \o w)[j] = w[j - Len(a)]
      BY ONLY a \in Seq(S), w \in Seq(S), <3>1, JoinedAt
    <3> QED BY ONLY <1>1, <3>1, <3>2, <3>3
  <2>3. j <= Len(b) \/ j > Len(b)
    BY ONLY <1>3, <1>5
  <2> QED BY ONLY <2>1, <2>2, <2>3
<1>6. Same(b \o v, a \o w)
  BY <1>4, <1>5 DEF Same
<1> QED BY <1>1, <1>6 DEF b, v

\* A peer that dies leaves k of the units that were on their way.
LEMMA Cut ==
    ASSUME NEW S, NEW a \in Seq(S), NEW w \in Seq(S), NEW k \in 0..Len(w)
    PROVE  LET v == SubSeq(w, 1, k) IN
           /\ v \in Seq(S) /\ Len(a \o v) \in 0..Len(a \o w)
           /\ \A j \in 1..Len(a \o v) : (a \o v)[j] = (a \o w)[j]
OBVIOUS

-----------------------------------------------------------------------------
(* The stream                                                              *)

LEMMA PacketLengths == \A p \in Packet : BodyLen(p) \in {0, 2} /\ (p.cmd = "enquire_link" => BodyLen(p) = 0)
BY DEF Packet, BodyLen

LEMMA RestType ==
    ASSUME TypeOK
    PROVE  Rest \in Seq(Unit) /\ Len(Rest) \in Nat /\ \A j \in 1..Len(Rest) : Rest[j] \in Unit
BY Joined DEF TypeOK, Rest

\* What recv() returns is the beginning of the rest, and the rest goes on behind it.
LEMMA ReadFacts ==
    ASSUME TypeOK, NEW size \in Nat, recv(size), wire' = wire
    PROVE  /\ Got(size) \in Seq(Unit) /\ Len(Got(size)) \in 0..size /\ arrived' \in Seq(Unit)
           /\ \A j \in 1..Len(Got(size)) : j \in 1..Len(Rest) /\ Got(size)[j] = Rest[j]
           /\ Len(Rest') \in Nat /\ Len(Rest') = Len(Rest) - Len(Got(size))
           /\ \A j \in 1..Len(Rest') : /\ j + Len(Got(size)) \in 1..Len(Rest)
                                       /\ Rest'[j] = Rest[j + Len(Got(size))]
<1> DEFINE k == Len(Got(size))
<1>1. arrived \in Seq(Unit) /\ wire \in Seq(Unit)
  BY DEF TypeOK
<1>2. /\ Got(size) \in Seq(Unit) /\ k \in 0..size /\ k \in 0..Len(arrived)
      /\ \A j \in 1..k : j \in 1..Len(arrived) /\ Got(size)[j] = arrived[j]
  BY <1>1 DEF Got
<1>3. arrived' = SubSeq(arrived, k + 1, Len(arrived))
  BY DEF recv
<1> HIDE DEF k
<1>4. \A j \in 1..k : j \in 1..Len(Rest) /\ Got(size)[j] = Rest[j]
  BY <1>1, <1>2, Joined DEF Rest
<1>5. /\ arrived' \in Seq(Unit) /\ Len(arrived' \o wire) = Len(arrived \o wire) - k
      /\ Len(arrived' \o wire) \in Nat
      /\ \A j \in 1..Len(arrived' \o wire) :
            j + k \in 1..Len(arrived \o wire) /\ (arrived' \o wire)[j] = (arrived \o wire)[j + k]
  <2>1. arrived \in Seq(Unit) /\ wire \in Seq(Unit) /\ k \in 0..Len(arrived)
    BY <1>1, <1>2
  <2>2. arrived' \in Seq(Unit) /\ From(arrived' \o wire, arrived \o wire, k)
    BY ONLY <1>3, <2>1, Shifted
  <2> QED BY ONLY <2>2, Zenon DEF From
<1>6. Rest' = arrived' \o wire
  BY DEF Rest
<1> QED BY <1>2, <1>4, <1>5, <1>6 DEF k, Rest

\* Behind k units that were read comes what follows the last of them.
LEMMA LinkedBehind ==
    ASSUME TypeOK, Linked, UNCHANGED <<sent, hup>>, NEW k \in Nat \ {0}, k <= Len(Rest),
           Len(Rest') \in Nat, Len(Rest') = Len(Rest) - k,
           \A j \in 1..Len(Rest') : j + k \in 1..Len(Rest) /\ Rest'[j] = Rest[j + k]
    PROVE  Linked' /\ (Coming' => NextUnit' = After(Rest[k]))
<1> USE RestType
<1>1. /\ \A n : UnitsOf(n)' = UnitsOf(n)
      /\ \A u : After(u)' = After(u)
      /\ End' = End
  BY DEF UnitsOf, After, End
<1>2. Linked'
  <2> SUFFICES ASSUME NEW j \in 1..Len(Rest')
               PROVE  /\ Rest'[j].n \in 1..Len(sent) /\ Rest'[j].i \in 1..UnitsOf(Rest'[j].n)
                      /\ j < Len(Rest') => Rest'[j + 1] = After(Rest'[j])
                      /\ j = Len(Rest') => hup \/ After(Rest'[j]) = End
    BY <1>1 DEF Linked
  <2>1. /\ j + k \in 1..Len(Rest) /\ Rest'[j] = Rest[j + k]
        /\ j < Len(Rest') => j + k < Len(Rest) /\ j + 1 \in 1..Len(Rest') /\ Rest'[j + 1] = Rest[j + k + 1]
        /\ j = Len(Rest') => j + k = Len(Rest)
    <3>1. j < Len(Rest') => j + 1 \in 1..Len(Rest') /\ (j + 1) + k = j + k + 1
      OBVIOUS
    <3>2. j < Len(Rest') => Rest'[j + 1] = Rest[(j + 1) + k]
      BY <3>1
    <3>3. /\ j < Len(Rest') => j + k < Len(Rest)
          /\ j = Len(Rest') => j + k = Len(Rest)
      OBVIOUS
    <3>4. j + k \in 1..Len(Rest) /\ Rest'[j] = Rest[j + k]
      OBVIOUS
    <3> QED BY <3>1, <3>2, <3>3, <3>4
  <2> QED BY <2>1 DEF Linked
<1>3. ASSUME Coming' PROVE NextUnit' = After(Rest[k])
  <2>1. k \in 1..Len(Rest)
    OBVIOUS
  <2>2. CASE Len(Rest') = 0
    <3>1. k = Len(Rest) /\ ~hup
      BY <1>3, <2>2 DEF Coming
    <3> QED BY <1>1, <2>1, <2>2, <3>1 DEF Linked, NextUnit
  <2>3. CASE Len(Rest') > 0
    <3>1. 1 \in 1..Len(Rest') /\ Rest'[1] = Rest[k + 1] /\ k < Len(Rest)
      <4>1. 1 \in 1..Len(Rest') /\ 1 + k = k + 1
        BY <2>3
      <4> QED BY <4>1
    <3> QED BY <2>1, <2>3, <3>1 DEF Linked, NextUnit
  <2> QED BY <2>2, <2>3
<1> QED BY <1>2, <1>3

\* A header that was read whole is one packet's, and says what it is.
LEMMA HeaderFacts ==
    ASSUME TypeOK, StreamInv, ReadHeader
    PROVE  \E n \in 1..Len(sent) :
             /\ Len(Rest) > 0 /\ NextUnit = [n |-> n, i |-> 1]
             /\ packet' \in [units : Seq(Unit), says : Packet]
             /\ packet'.says = sent[n] /\ Len(packet'.units) = HeaderLen
             /\ packet'.units[1] = [n |-> n, i |-> 1] /\ packet'.units[2] = [n |-> n, i |-> 2]
             /\ Linked' /\ arrived' \in Seq(Unit)
             /\ Coming' => NextUnit' = IF BodyLen(sent[n]) = 0 THEN [n |-> n + 1, i |-> 1] ELSE [n |-> n, i |-> 3]
             /\ IF sent[n].cmd = "enquire_link"
                THEN rpc' = "header" /\ replies' = Append(replies, Done(n))
                ELSE /\ replies' = replies
                     /\ rpc' = CASE sent[n].body = "none"  -> "deliver"
                                 [] sent[n].body = "small" -> "body"
                                 [] sent[n].body = "big"   -> "bigbody"
<1> DEFINE got == Got(HeaderLen)
           n == got[1].n
<1> USE RestType
<1>1. rpc = "header" /\ Linked /\ Awaited
  BY DEF ReadHeader, StreamInv, Reading
<1>2. /\ recv(HeaderLen) /\ Len(got) = 2 /\ TakeHeader(got) /\ HeaderLen = 2
      /\ UNCHANGED <<sent, wire, hup, queue, heard>>
  BY DEF ReadHeader, OnlyThread, HeaderLen
<1> HIDE DEF got
<1>3. /\ got \in Seq(Unit) /\ arrived' \in Seq(Unit)
      /\ 1 \in 1..Len(Rest) /\ 2 \in 1..Len(Rest) /\ got[1] = Rest[1] /\ got[2] = Rest[2]
      /\ Len(Rest') \in Nat /\ Len(Rest') = Len(Rest) - 2
      /\ \A j \in 1..Len(Rest') : j + 2 \in 1..Len(Rest) /\ Rest'[j] = Rest[j + 2]
  <2>1. 2 \in Nat /\ got = Got(2) /\ recv(2) /\ wire' = wire
    BY <1>2 DEF got
  <2>2. /\ Got(2) \in Seq(Unit) /\ arrived' \in Seq(Unit)
        /\ \A j \in 1..2 : j \in 1..Len(Rest) /\ Got(2)[j] = Rest[j]
        /\ Len(Rest') \in Nat /\ Len(Rest') = Len(Rest) - 2
        /\ \A j \in 1..Len(Rest') : j + 2 \in 1..Len(Rest) /\ Rest'[j] = Rest[j + 2]
    BY <1>2, <2>1, ReadFacts
  <2> QED BY <2>1, <2>2
<1>4. /\ n \in 1..Len(sent) /\ sent[n] \in Packet /\ BodyLen(sent[n]) \in {0, 2}
      /\ UnitsOf(n) = 2 + BodyLen(sent[n])
  <2>1. n \in 1..Len(sent)
    BY <1>1, <1>3 DEF Linked
  <2>2. sent[n] \in Packet
    <3>1. sent \in Seq(Packet)
      BY DEF TypeOK
    <3> QED BY <2>1, <3>1
  <2> QED BY <1>2, <2>1, <2>2, PacketLengths DEF UnitsOf
<1>5. Rest[1] = [n |-> n, i |-> 1]
  BY <1>1, <1>3 DEF Awaited, Coming, NextUnit, Unit
<1>6. Rest[2] = [n |-> n, i |-> 2]
  <2>1. 1 < Len(Rest) /\ 1 + 1 = 2
    BY <1>3
  <2>2. Rest[1 + 1] = After(Rest[1])
    BY ONLY <1>1, <1>3, <2>1, Zenon DEF Linked
  <2> QED BY <1>4, <1>5, <2>1, <2>2 DEF After
<1>7. After(Rest[2]) = IF BodyLen(sent[n]) = 0 THEN [n |-> n + 1, i |-> 1] ELSE [n |-> n, i |-> 3]
  BY <1>4, <1>6 DEF After
<1>8. Linked' /\ (Coming' => NextUnit' = After(Rest[2]))
  BY <1>1, <1>2, <1>3, LinkedBehind
<1>9. Says(got) = {sent[n]}
  <2> DEFINE U == Units(n, sent[n])
  <2>1. /\ U \in Seq(Unit) /\ Len(U) = 2 + BodyLen(sent[n])
        /\ U[1] = [n |-> n, i |-> 1] /\ U[2] = [n |-> n, i |-> 2]
    <3>1. n \in Number
      BY <1>2, <1>3 DEF Unit
    <3>2. \A i \in 1..HeaderLen + BodyLen(sent[n]) : [n |-> n, i |-> i] \in Unit
      BY <1>2, <1>4, <3>1 DEF Unit
    <3>3. HeaderLen + BodyLen(sent[n]) \in Nat /\ HeaderLen + BodyLen(sent[n]) >= 2
      BY <1>2, <1>4
    <3>4. U = [i \in 1..HeaderLen + BodyLen(sent[n]) |-> [n |-> n, i |-> i]]
      BY DEF Units
    <3>5. U \in Seq(Unit) /\ Len(U) = HeaderLen + BodyLen(sent[n])
      BY <3>2, <3>3, <3>4
    <3> QED BY <1>2, <3>3, <3>4, <3>5
  <2> HIDE DEF U
  <2>2. got = SubSeq(U, 1, 2)
    BY <1>2, <1>3, <1>4, <1>5, <1>6, <2>1
  <2> QED BY <1>2, <2>2 DEF Says, U
<1>10. packet' = [units |-> got, says |-> sent[n]]
  BY <1>2, <1>9 DEF TakeHeader
<1>11. IF sent[n].cmd = "enquire_link"
       THEN rpc' = "header" /\ replies' = Append(replies, Done(n))
       ELSE /\ replies' = replies
            /\ rpc' = CASE sent[n].body = "none"  -> "deliver"
                        [] sent[n].body = "small" -> "body"
                        [] sent[n].body = "big"   -> "bigbody"
  BY <1>2, <1>9 DEF TakeHeader, Reply
<1>12. Len(Rest) > 0 /\ NextUnit = [n |-> n, i |-> 1]
  BY <1>3, <1>5 DEF NextUnit
<1> QED BY <1>2, <1>3, <1>4, <1>5, <1>6, <1>7, <1>8, <1>10, <1>11, <1>12

\* A body that was read whole completes the packet its header began.
LEMMA BodyFacts ==
    ASSUME TypeOK, StreamInv, ReadBody
    PROVE  /\ Current \in 1..Len(sent) /\ packet.says = sent[Current]
           /\ packet' \in [units : Seq(Unit), says : Packet]
           /\ packet'.says = packet.says /\ Len(packet'.units) = UnitsOf(Current)
           /\ \A j \in 1..Len(packet'.units) : packet'.units[j] = [n |-> Current, i |-> j]
           /\ packet'.units[1] = packet.units[1]
           /\ rpc' = "deliver" /\ Linked' /\ arrived' \in Seq(Unit)
           /\ Coming' => NextUnit' = [n |-> Current + 1, i |-> 1]
<1> DEFINE got == Got(2)
           n == Current
<1> USE RestType
<1>1. Linked /\ Awaited /\ InHand /\ rpc \in {"body", "bigbody"}
  BY DEF ReadBody, StreamInv, Reading
<1>2. /\ n \in 1..Len(sent) /\ packet.says = sent[n] /\ packet.says.body \in {"small", "big"}
      /\ Len(packet.units) = 2 /\ \A j \in 1..2 : packet.units[j] = [n |-> n, i |-> j]
  BY <1>1 DEF InHand, HeaderLen
<1>3. Size = 2 /\ BodyLen(sent[n]) = 2 /\ UnitsOf(n) = 4
  BY <1>2 DEF Size, BodyLen, UnitsOf, HeaderLen
<1>4. /\ recv(2) /\ Len(got) = 2 /\ wire' = wire /\ UNCHANGED <<sent, hup>>
      /\ packet' = [packet EXCEPT !.units = @ \o got] /\ rpc' = "deliver"
  BY <1>3 DEF ReadBody, TakeBody, OnlyThread
<1> HIDE DEF got
<1>5. /\ got \in Seq(Unit) /\ arrived' \in Seq(Unit)
      /\ \A j \in 1..2 : j \in 1..Len(Rest) /\ got[j] = Rest[j]
      /\ Len(Rest') \in Nat /\ Len(Rest') = Len(Rest) - 2
      /\ \A j \in 1..Len(Rest') : j + 2 \in 1..Len(Rest) /\ Rest'[j] = Rest[j + 2]
  <2>1. 2 \in Nat /\ got = Got(2)
    BY DEF got
  <2> QED BY <1>4, <2>1, ReadFacts
<1>6. Rest[1] = [n |-> n, i |-> 3]
  BY <1>1, <1>5 DEF Awaited, Coming, NextUnit
<1>7. Rest[2] = [n |-> n, i |-> 4]
  <2>1. 1 \in 1..Len(Rest) /\ 1 < Len(Rest) /\ 1 + 1 = 2
    BY <1>5
  <2>2. Rest[1 + 1] = After(Rest[1])
    BY ONLY <1>1, <2>1, Zenon DEF Linked
  <2> QED BY <1>3, <1>6, <2>1, <2>2 DEF After
<1>8. Linked' /\ (Coming' => NextUnit' = After(Rest[2]))
  BY <1>1, <1>4, <1>5, LinkedBehind
<1>9. After(Rest[2]) = [n |-> n + 1, i |-> 1]
  BY <1>2, <1>3, <1>7 DEF After
<1>10. packet \in [units : Seq(Unit), says : Packet]
  BY DEF TypeOK
<1>11. /\ packet' \in [units : Seq(Unit), says : Packet]
       /\ packet'.says = packet.says /\ packet'.units = packet.units \o got
  <2>1. packet = [units |-> packet.units, says |-> packet.says] /\ packet.says \in Packet
    BY <1>10
  <2>2. packet.units \o got \in Seq(Unit)
    BY <1>5, <1>10
  <2>3. packet' = [units |-> packet.units \o got, says |-> packet.says]
    BY <1>4, <2>1
  <2> QED BY <2>1, <2>2, <2>3
<1>12. packet.units \in Seq(Unit) /\ got \in Seq(Unit)
  BY <1>5, <1>10
<1>13. /\ Len(packet.units \o got) = 4
       /\ (packet.units \o got)[1] = packet.units[1] /\ (packet.units \o got)[2] = packet.units[2]
       /\ (packet.units \o got)[3] = got[1] /\ (packet.units \o got)[4] = got[2]
  <2> DEFINE units == packet.units
  <2>1. Len(units) = 2 /\ Len(got) = 2 /\ units \in Seq(Unit) /\ got \in Seq(Unit)
    BY <1>2, <1>4, <1>12
  <2> HIDE DEF units
  <2>2. Len(units \o got) = Len(units) + Len(got)
    BY ONLY <2>1, Joined
  <2>3. Len(units \o got) = 4
    BY ONLY <2>1, <2>2
  <2>4. \A j \in 1..4 : /\ j <= 2 => (units \o got)[j] = units[j]
                        /\ j > 2 => (units \o got)[j] = got[j - 2]
    BY ONLY <2>1, <2>3, JoinedAt
  <2>5. 1 \in 1..4 /\ 2 \in 1..4 /\ 3 \in 1..4 /\ 4 \in 1..4 /\ 3 > 2 /\ 4 > 2 /\ 3 - 2 = 1 /\ 4 - 2 = 2
    OBVIOUS
  <2> QED BY <2>3, <2>4, <2>5 DEF units
<1>14. got[1] = [n |-> n, i |-> 3] /\ got[2] = [n |-> n, i |-> 4]
  BY <1>5, <1>6, <1>7
<1>15. \A j \in 1..4 : packet'.units[j] = [n |-> n, i |-> j]
  <2>1. packet.units[1] = [n |-> n, i |-> 1] /\ packet.units[2] = [n |-> n, i |-> 2]
    BY <1>2
  <2>2. /\ packet'.units[1] = [n |-> n, i |-> 1] /\ packet'.units[2] = [n |-> n, i |-> 2]
        /\ packet'.units[3] = [n |-> n, i |-> 3] /\ packet'.units[4] = [n |-> n, i |-> 4]
    BY ONLY <1>11, <1>13, <1>14, <2>1, Zenon
  <2>3. \A j \in 1..4 : j = 1 \/ j = 2 \/ j = 3 \/ j = 4
    OBVIOUS
  <2> QED BY ONLY <2>2, <2>3, Zenon
<1> QED BY <1>2, <1>3, <1>4, <1>5, <1>8, <1>9, <1>11, <1>13, <1>15

\* What is delivered is the packet that was sent.
LEMMA DeliverFacts ==
    ASSUME TypeOK, StreamInv, Deliver
    PROVE  /\ Current \in 1..Len(sent) /\ packet.says = sent[Current] /\ Identity = Current
           /\ Linked /\ Linked' /\ NextUnit' = NextUnit /\ (Coming' <=> Coming)
           /\ Coming => NextUnit = [n |-> Current + 1, i |-> 1]
<1>1. Linked /\ Awaited /\ InHand /\ rpc = "deliver"
  BY DEF Deliver, StreamInv, Reading
<1>2. /\ Current \in 1..Len(sent) /\ packet.says = sent[Current] /\ Len(packet.units) = UnitsOf(Current)
      /\ \A j \in 1..Len(packet.units) : packet.units[j] = [n |-> Current, i |-> j]
  BY <1>1 DEF InHand
<1>3. packet.units \in Seq(Unit) /\ sent[Current] \in Packet
  BY <1>2 DEF TypeOK
<1>4. packet.units = Units(Current, sent[Current])
  <2> DEFINE l == HeaderLen + BodyLen(sent[Current])
  <2>1. l \in Nat /\ Len(packet.units) = l
    BY <1>2, <1>3, PacketLengths DEF UnitsOf, HeaderLen
  <2>2. packet.units = [j \in 1..Len(packet.units) |-> packet.units[j]]
    BY <1>3
  <2>3. Units(Current, sent[Current]) = [j \in 1..l |-> [n |-> Current, i |-> j]]
    BY DEF Units
  <2> HIDE DEF l
  <2> QED BY <1>2, <2>1, <2>2, <2>3
<1>5. Identity = Current
  BY <1>2, <1>4 DEF Identity, Current
<1>6. UNCHANGED <<sent, wire, arrived, hup>>
  BY DEF Deliver
<1>7. /\ Linked' /\ NextUnit' = NextUnit /\ (Coming' <=> Coming)
  BY <1>1, <1>6 DEF Linked, NextUnit, Coming, Rest, UnitsOf, After, End
<1> QED BY <1>1, <1>2, <1>5, <1>7 DEF Awaited

-----------------------------------------------------------------------------
(* Its place in the stream, and the types                                  *)

\* What the peer and the network do to the rest: it stays, or loses its end, or gets a packet more.
LEMMA ArriveFacts ==
    ASSUME TypeOK, Arrive
    PROVE  /\ arrived' \in Seq(Unit) /\ wire' \in Seq(Unit) /\ Len(Rest') = Len(Rest)
           /\ \A j \in 1..Len(Rest') : Rest'[j] = Rest[j]
<1>1. PICK k \in 1..Len(wire) : /\ arrived' = arrived \o SubSeq(wire, 1, k)
                                /\ wire' = SubSeq(wire, k + 1, Len(wire))
  BY DEF Arrive
<1>2. arrived \in Seq(Unit) /\ wire \in Seq(Unit)
  BY DEF TypeOK
<1>3. Rest' = arrived' \o wire' /\ Rest = arrived \o wire
  BY DEF Rest
<1>4. arrived' \in Seq(Unit) /\ wire' \in Seq(Unit) /\ Same(arrived' \o wire', arrived \o wire)
  <2> DEFINE b == arrived \o SubSeq(wire, 1, k)
             v == SubSeq(wire, k + 1, Len(wire))
  <2>1. b \in Seq(Unit) /\ v \in Seq(Unit) /\ Same(b \o v, arrived \o wire)
    BY ONLY <1>2, k \in 1..Len(wire), Moved, Zenon
  <2>2. arrived' = b /\ wire' = v
    BY <1>1
  <2> HIDE DEF b, v
  <2> QED BY ONLY <2>1, <2>2
<1> QED BY ONLY <1>3, <1>4, Zenon DEF Same

LEMMA HangupFacts ==
    ASSUME TypeOK, Hangup
    PROVE  /\ wire' \in Seq(Unit) /\ Len(Rest') \in 0..Len(Rest)
           /\ \A j \in 1..Len(Rest') : Rest'[j] = Rest[j]
<1>1. PICK k \in 0..Len(wire) : wire' = SubSeq(wire, 1, k)
  BY DEF Hangup
<1>2. arrived \in Seq(Unit) /\ wire \in Seq(Unit)
  BY DEF TypeOK
<1>3. Rest' = arrived \o wire' /\ Rest = arrived \o wire
  BY DEF Rest, Hangup
<1>4. wire' \in Seq(Unit)
  BY ONLY <1>1, <1>2, Cut
<1>5. Len(arrived \o wire') \in 0..Len(arrived \o wire)
  BY ONLY <1>1, <1>2, Cut
<1>6. \A j \in 1..Len(arrived \o wire') : (arrived \o wire')[j] = (arrived \o wire)[j]
  BY ONLY <1>1, <1>2, Cut
<1> QED BY <1>3, <1>4, <1>5, <1>6

LEMMA SendFacts ==
    ASSUME BoundsAssumption, TypeOK, NEW p \in Packet, Send(p), Reading
    PROVE  LET m == Len(sent) + 1  b == HeaderLen + BodyLen(p) IN
           /\ m \in Number /\ b \in {2, 4}
           /\ sent' \in Seq(Packet) /\ Len(sent') = m /\ sent'[m] = p
           /\ \A j \in 1..Len(sent) : sent'[j] = sent[j]
           /\ wire' \in Seq(Unit) /\ Len(Rest') = Len(Rest) + b
           /\ \A j \in 1..Len(Rest) : Rest'[j] = Rest[j]
           /\ \A j \in 1..b : Rest'[Len(Rest) + j] = [n |-> m, i |-> j]
<1> DEFINE m == Len(sent) + 1
           b == HeaderLen + BodyLen(p)
           U == Units(m, p)
<1>1. sent \in Seq(Packet) /\ arrived \in Seq(Unit) /\ wire \in Seq(Unit) /\ Len(sent) <= MaxPackets
  BY DEF TypeOK
<1>2. MaxPackets \in Nat /\ Len(sent) < MaxPackets /\ ~hup
  <2>1. Len(sent) < MaxPackets /\ ~hup
    BY DEF Send
  <2>2. MaxPackets \in Nat
    BY DEF BoundsAssumption
  <2> QED BY <2>1, <2>2
<1>3. m \in Number /\ Len(sent) \in Nat
  BY <1>1, <1>2 DEF Number
<1>4. b \in {2, 4}
  BY PacketLengths DEF HeaderLen
<1>5. sent' \in Seq(Packet) /\ Len(sent') = m /\ sent'[m] = p /\ \A j \in 1..Len(sent) : sent'[j] = sent[j]
  BY <1>1 DEF Send
<1>6. U \in Seq(Unit) /\ Len(U) = b /\ \A j \in 1..b : U[j] = [n |-> m, i |-> j]
  <2>1. \A j \in 1..b : [n |-> m, i |-> j] \in Unit
    BY <1>3, <1>4 DEF Unit
  <2>2. U = [j \in 1..b |-> [n |-> m, i |-> j]]
    BY DEF Units
  <2> HIDE DEF m, b, U
  <2> QED BY <1>4, <2>1, <2>2
<1>7. wire' = wire \o U /\ arrived' = arrived
  BY DEF Send, Reading
<1> HIDE DEF m, b, U
<1>8. wire' \in Seq(Unit) /\ Len(wire') = Len(wire) + b /\ \A j \in 1..b : wire'[Len(wire) + j] = [n |-> m, i |-> j]
  BY <1>1, <1>4, <1>6, <1>7
<1>9. \A j \in 1..Len(wire) : wire'[j] = wire[j]
  BY <1>1, <1>4, <1>6, <1>7
<1>10. /\ Len(Rest) = Len(arrived) + Len(wire) /\ Len(Rest') = Len(arrived) + Len(wire')
       /\ Len(arrived) \in Nat /\ Len(wire) \in Nat
  BY <1>1, <1>7, <1>8, Joined DEF Rest
<1>11. Len(Rest') = Len(Rest) + b
  BY <1>4, <1>8, <1>10
<1>12. ASSUME NEW j \in 1..Len(Rest) PROVE Rest'[j] = Rest[j]
  BY <1>1, <1>7, <1>8, <1>9, <1>10, <1>4 DEF Rest
<1>13. ASSUME NEW j \in 1..b PROVE Rest'[Len(Rest) + j] = [n |-> m, i |-> j]
  <2>1. Len(wire) + j \in 1..Len(wire') /\ (Len(wire) + j) + Len(arrived) = Len(Rest) + j
    BY <1>4, <1>8, <1>10
  <2>2. (arrived \o wire')[(Len(wire) + j) + Len(arrived)] = wire'[Len(wire) + j]
    BY <1>1, <1>8, <2>1, Joined
  <2> QED BY <1>7, <1>8, <2>1, <2>2 DEF Rest
<1> QED BY <1>3, <1>4, <1>5, <1>8, <1>11, <1>12, <1>13 DEF m, b

\* The place stays the place while what follows it only moves, is cut or grows.
LEMMA PlaceKept ==
    ASSUME BoundsAssumption, TypeOK, StreamInv, Reading, (\E p \in Packet : Send(p)) \/ Hangup \/ Arrive
    PROVE  Linked' /\ (Coming' => Coming /\ NextUnit' = NextUnit)
<1> USE RestType
<1>1. Linked
  BY DEF StreamInv
<1>2. CASE \E p \in Packet : Send(p)
  <2> PICK p \in Packet : Send(p)
    BY <1>2
  <2> PICK m : m = Len(sent) + 1
    OBVIOUS
  <2> DEFINE b == HeaderLen + BodyLen(p)
  <2>1. /\ m \in Nat /\ b \in {2, 4} /\ Len(sent) \in Nat
        /\ Len(sent') = m /\ sent'[m] = p
        /\ \A j \in 1..Len(sent) : sent'[j] = sent[j]
        /\ Len(Rest') = Len(Rest) + b
        /\ \A j \in 1..Len(Rest) : Rest'[j] = Rest[j]
        /\ \A j \in 1..b : Rest'[Len(Rest) + j] = [n |-> m, i |-> j]
    <3>1. sent \in Seq(Packet)
      BY DEF TypeOK
    <3>2. Len(sent) \in Nat
      BY <3>1
    <3> QED BY <3>2, SendFacts
  <2>2. hup' = hup /\ ~hup
    BY DEF Send
  <2>3. /\ HeaderLen + BodyLen(sent'[m]) = b
        /\ \A n \in 1..Len(sent) : HeaderLen + BodyLen(sent'[n]) = UnitsOf(n)
    BY <2>1 DEF UnitsOf
  <2>4. ASSUME NEW u, u.n \in 1..Len(sent) PROVE After(u)' = After(u)
    BY <2>3, <2>4 DEF After, UnitsOf
  <2>5. ASSUME NEW i \in 1..b
        PROVE  After([n |-> m, i |-> i])' = IF i = b THEN [n |-> m + 1, i |-> 1] ELSE [n |-> m, i |-> i + 1]
    BY <2>1, <2>3 DEF After, UnitsOf
  <2>6. End = [n |-> m, i |-> 1] /\ End' = [n |-> m + 1, i |-> 1]
    BY <2>1 DEF End
  <2> HIDE DEF b
  <2>7. Linked'
    <3> SUFFICES ASSUME NEW j \in 1..Len(Rest'), NEW u, u = Rest'[j]
                 PROVE  /\ u.n \in 1..m /\ u.i \in 1..HeaderLen + BodyLen(sent'[u.n])
                        /\ j < Len(Rest') => Rest'[j + 1] = After(u)'
                        /\ j = Len(Rest') => After(u)' = End'
      BY <2>1 DEF Linked, UnitsOf, After
    <3>1. CASE j <= Len(Rest)
      <4>1. j \in 1..Len(Rest) /\ u = Rest[j] /\ j < Len(Rest')
        BY <2>1, <3>1
      <4>2. /\ u.n \in 1..Len(sent) /\ u.i \in 1..UnitsOf(u.n)
            /\ j < Len(Rest) => Rest[j + 1] = After(u)
            /\ j = Len(Rest) => After(u) = End
        BY <1>1, <2>2, <4>1 DEF Linked
      <4>3. j < Len(Rest) => Rest'[j + 1] = Rest[j + 1]
        BY <2>1, <4>1
      <4>4. j = Len(Rest) => Rest'[j + 1] = End
        <5>1. 1 \in 1..b
          BY <2>1
        <5> QED BY <2>1, <2>6, <5>1
      <4>5. Rest'[j + 1] = After(u)
        BY <3>1, <4>2, <4>3, <4>4
      <4>6. u.n \in 1..m /\ u.i \in 1..HeaderLen + BodyLen(sent'[u.n])
        BY <2>1, <2>3, <4>2
      <4>7. After(u)' = After(u)
        BY <2>4, <4>2
      <4> QED BY <4>1, <4>5, <4>6, <4>7
    <3>2. CASE j > Len(Rest)
      <4>1. PICK i \in 1..b : j = Len(Rest) + i
        <5>1. j - Len(Rest) \in 1..b /\ j = Len(Rest) + (j - Len(Rest))
          BY <2>1, <3>2
        <5> QED BY <5>1
      <4>2. u = [n |-> m, i |-> i]
        BY <2>1, <4>1
      <4>3. j < Len(Rest') => i # b /\ Rest'[j + 1] = [n |-> m, i |-> i + 1]
        <5>1. j < Len(Rest') => i # b /\ i + 1 \in 1..b /\ j + 1 = Len(Rest) + (i + 1)
          BY <2>1, <4>1
        <5> QED BY <2>1, <5>1
      <4>4. j = Len(Rest') => i = b
        BY <2>1, <4>1
      <4>5. m \in 1..m
        BY <2>1
      <4>6. After(u)' = IF i = b THEN [n |-> m + 1, i |-> 1] ELSE [n |-> m, i |-> i + 1]
        BY <2>5, <4>1, <4>2
      <4> QED BY <2>3, <2>6, <4>1, <4>2, <4>3, <4>4, <4>5, <4>6
    <3> QED BY <3>1, <3>2
  <2>8. Coming /\ NextUnit' = NextUnit
    <3>1. CASE Len(Rest) = 0
      BY <2>1, <2>2, <2>6, <3>1 DEF Coming, NextUnit
    <3>2. CASE Len(Rest) > 0
      BY <2>1, <2>2, <3>2 DEF Coming, NextUnit
    <3> QED BY <3>1, <3>2
  <2> QED BY <2>7, <2>8
<1>3. CASE Hangup
  <2>1. /\ Len(Rest') \in 0..Len(Rest) /\ \A j \in 1..Len(Rest') : Rest'[j] = Rest[j]
        /\ hup' /\ sent' = sent
    BY <1>3, HangupFacts DEF Hangup
  <2>2. (\A n : UnitsOf(n)' = UnitsOf(n)) /\ \A u : After(u)' = After(u)
    BY <2>1 DEF UnitsOf, After
  <2>3. Linked'
    BY <1>1, <2>1, <2>2 DEF Linked
  <2>4. Coming' => Coming /\ NextUnit' = NextUnit
    BY <2>1 DEF Coming, NextUnit
  <2> QED BY <2>3, <2>4
<1>4. CASE Arrive
  <2>1. /\ Len(Rest') = Len(Rest) /\ \A j \in 1..Len(Rest') : Rest'[j] = Rest[j]
        /\ hup' = hup /\ sent' = sent
    BY <1>4, ArriveFacts DEF Arrive
  <2>2. (\A n : UnitsOf(n)' = UnitsOf(n)) /\ (\A u : After(u)' = After(u)) /\ End' = End
    BY <2>1 DEF UnitsOf, After, End
  <2>3. Linked'
    BY <1>1, <2>1, <2>2 DEF Linked
  <2>4. Coming' => Coming /\ NextUnit' = NextUnit
    BY <2>1, <2>2 DEF Coming, NextUnit
  <2> QED BY <2>3, <2>4
<1> QED BY <1>2, <1>3, <1>4

LEMMA StreamInit == ASSUME BoundsAssumption, Init PROVE TypeOK /\ StreamInv
<1>1. TypeOK
  <2>1. NoPacket \in [units : Seq(Unit), says : Packet] /\ MaxPackets \in Nat /\ QueueCap \in Nat
    BY DEF NoPacket, Packet, BoundsAssumption
  <2>2. sent \in Seq(Packet) /\ wire \in Seq(Unit) /\ arrived \in Seq(Unit) /\ queue \in Seq(Number)
    BY DEF Init
  <2>3. /\ heard \in Seq([n : Number, by : {"ServerReceive", "ClientReceive", "message"}])
        /\ replies \in Seq([n : Number, what : {"STATUS_ROK"}]
                             \cup {Complaint("Invalid Packet"), Complaint("Please use CMP")})
    BY DEF Init
  <2>4. Len(sent) <= MaxPackets /\ Len(queue) <= QueueCap
    BY <2>1 DEF Init
  <2> QED BY <2>1, <2>2, <2>3, <2>4 DEF Init, TypeOK, State
<1>2. Len(Rest) = 0 /\ rpc = "header" /\ End.i = 1
  BY DEF Init, Rest, End
<1> QED BY <1>1, <1>2 DEF StreamInv, Linked, Awaited, InHand, NextUnit

\* Where the thread is in the stream stays what the invariant says.
LEMMA StreamStep == ASSUME BoundsAssumption, TypeOK, StreamInv, [Next]_vars PROVE StreamInv'
<1> SUFFICES ASSUME Reading' PROVE Linked' /\ Awaited' /\ InHand'
  BY DEF StreamInv
<1>1. CASE (\E p \in Packet : Send(p)) \/ Hangup \/ Arrive
  <2>1. rpc' = rpc /\ packet' = packet
    BY <1>1 DEF Send, Hangup, Arrive
  <2>2. Reading /\ Linked /\ Awaited /\ InHand
    BY <2>1 DEF Reading, StreamInv
  <2>3. Linked' /\ (Coming' => Coming /\ NextUnit' = NextUnit)
    BY <1>1, <2>2, PlaceKept
  <2>4. Awaited'
    BY <2>1, <2>2, <2>3 DEF Awaited, Current
  <2>5. InHand'
    <3>1. \A n \in 1..Len(sent) : n \in 1..Len(sent') /\ sent'[n] = sent[n]
      <4>1. CASE \E p \in Packet : Send(p)
        <5>1. Len(sent') = Len(sent) + 1 /\ \A n \in 1..Len(sent) : sent'[n] = sent[n]
          BY <2>2, <4>1, SendFacts
        <5>2. sent \in Seq(Packet)
          BY DEF TypeOK
        <5> QED BY <5>1, <5>2
      <4>2. CASE Hangup \/ Arrive
        BY <4>2 DEF Hangup, Arrive
      <4> QED BY <1>1, <4>1, <4>2
    <3> QED BY <2>1, <2>2, <3>1 DEF InHand, Current, UnitsOf
  <2> QED BY <2>3, <2>4, <2>5
<1>2. CASE ReadHeader
  <2>1. PICK n \in 1..Len(sent) :
             /\ packet' \in [units : Seq(Unit), says : Packet]
             /\ packet'.says = sent[n] /\ Len(packet'.units) = HeaderLen
             /\ packet'.units[1] = [n |-> n, i |-> 1] /\ packet'.units[2] = [n |-> n, i |-> 2]
             /\ Linked'
             /\ Coming' => NextUnit' = IF BodyLen(sent[n]) = 0 THEN [n |-> n + 1, i |-> 1] ELSE [n |-> n, i |-> 3]
             /\ IF sent[n].cmd = "enquire_link"
                THEN rpc' = "header" /\ replies' = Append(replies, Done(n))
                ELSE /\ replies' = replies
                     /\ rpc' = CASE sent[n].body = "none"  -> "deliver"
                                 [] sent[n].body = "small" -> "body"
                                 [] sent[n].body = "big"   -> "bigbody"
    BY <1>2, HeaderFacts
  <2>2. sent' = sent /\ Current' = n /\ packet'.says = sent[n] /\ sent[n] \in Packet
    <3>1. sent \in Seq(Packet)
      BY DEF TypeOK
    <3> QED BY <1>2, <2>1, <3>1 DEF ReadHeader, OnlyThread, Current
  <2>3. /\ sent[n].cmd = "enquire_link" => BodyLen(sent[n]) = 0
        /\ sent[n].body \in {"none", "small", "big"} /\ (sent[n].body = "none" <=> BodyLen(sent[n]) = 0)
    BY <2>2 DEF Packet, BodyLen
  <2>4. Awaited'
    BY <2>1, <2>2, <2>3 DEF Awaited
  <2>5. \A j \in 1..Len(packet'.units) : packet'.units[j] = [n |-> n, i |-> j]
    BY <2>1 DEF HeaderLen
  <2>6. UnitsOf(n)' = HeaderLen + BodyLen(sent[n])
    BY <2>2 DEF UnitsOf
  <2>7. InHand'
    BY <2>1, <2>2, <2>3, <2>5, <2>6 DEF InHand, UnitsOf, HeaderLen
  <2> QED BY <2>1, <2>4, <2>7
<1>3. CASE ReadBody
  <2>1. /\ Current \in 1..Len(sent) /\ packet.says = sent[Current]
        /\ packet'.says = packet.says /\ Len(packet'.units) = UnitsOf(Current)
        /\ \A j \in 1..Len(packet'.units) : packet'.units[j] = [n |-> Current, i |-> j]
        /\ packet'.units[1] = packet.units[1]
        /\ rpc' = "deliver" /\ Linked'
        /\ Coming' => NextUnit' = [n |-> Current + 1, i |-> 1]
    BY <1>3, BodyFacts
  <2>2. sent' = sent /\ Current' = Current /\ packet.says.cmd # "enquire_link"
    BY <1>3, <2>1 DEF ReadBody, OnlyThread, Current, StreamInv, Reading, InHand
  <2>3. UnitsOf(Current)' = UnitsOf(Current)
    BY <2>2 DEF UnitsOf
  <2>4. Awaited'
    BY <2>1, <2>2 DEF Awaited
  <2>5. InHand'
    BY <2>1, <2>2, <2>3 DEF InHand
  <2> QED BY <2>1, <2>4, <2>5
<1>4. CASE Deliver
  <2>1. rpc' = "header" /\ Linked' /\ (Coming' => NextUnit'.i = 1)
    BY <1>4, DeliverFacts DEF Deliver
  <2> QED BY <2>1 DEF Awaited, InHand
<1>5. CASE ReadHeaderEnd \/ ReadHeaderShort \/ ReadBodyShort \/ Close
  BY <1>5 DEF ReadHeaderEnd, ReadHeaderShort, ReadBodyShort, Close, Reading
<1>6. CASE Take \/ UNCHANGED vars
  <2>1. UNCHANGED <<sent, wire, arrived, hup, rpc, packet>>
    BY <1>6 DEF Take, vars
  <2>2. Linked /\ Awaited /\ InHand
    BY <2>1 DEF StreamInv, Reading
  <2>3. /\ Rest' = Rest /\ (Coming' <=> Coming) /\ NextUnit' = NextUnit /\ Current' = Current
        /\ \A n : UnitsOf(n)' = UnitsOf(n)
    BY <2>1 DEF Rest, Coming, NextUnit, Current, UnitsOf, End
  <2>4. Linked'
    BY <2>1, <2>2, <2>3 DEF Linked, After, End
  <2> QED BY <2>1, <2>2, <2>3, <2>4 DEF Awaited, InHand
<1> QED BY <1>1, <1>2, <1>3, <1>4, <1>5, <1>6 DEF Next, runCMPHandler

\* What the application hears is numbered as the packets are, and so is what is answered.
LEMMA TypeStep == ASSUME BoundsAssumption, TypeOK, StreamInv, [Next]_vars PROVE TypeOK'
<1> DEFINE Heard == [n : Number, by : {"ServerReceive", "ClientReceive", "message"}]
           Answer == [n : Number, what : {"STATUS_ROK"}]
                       \cup {Complaint("Invalid Packet"), Complaint("Please use CMP")}
<1>1. /\ sent \in Seq(Packet) /\ Len(sent) \in 0..MaxPackets /\ MaxPackets \in Nat /\ QueueCap \in Nat
      /\ wire \in Seq(Unit) /\ arrived \in Seq(Unit) /\ hup \in BOOLEAN /\ rpc \in State
      /\ packet \in [units : Seq(Unit), says : Packet]
      /\ queue \in Seq(Number) /\ Len(queue) <= QueueCap /\ heard \in Seq(Heard) /\ replies \in Seq(Answer)
  <2>1. sent \in Seq(Packet) /\ Len(sent) <= MaxPackets
    BY DEF TypeOK
  <2>2. MaxPackets \in Nat /\ QueueCap \in Nat
    BY DEF BoundsAssumption
  <2>3. Len(sent) \in 0..MaxPackets
    BY <2>1, <2>2
  <2>4. /\ wire \in Seq(Unit) /\ arrived \in Seq(Unit) /\ hup \in BOOLEAN /\ rpc \in State
        /\ packet \in [units : Seq(Unit), says : Packet]
        /\ queue \in Seq(Number) /\ Len(queue) <= QueueCap /\ heard \in Seq(Heard) /\ replies \in Seq(Answer)
    BY DEF TypeOK
  <2> QED BY <2>1, <2>2, <2>3, <2>4
<1> SUFFICES /\ sent' \in Seq(Packet) /\ Len(sent') <= MaxPackets
             /\ wire' \in Seq(Unit) /\ arrived' \in Seq(Unit) /\ hup' \in BOOLEAN /\ rpc' \in State
             /\ packet' \in [units : Seq(Unit), says : Packet]
             /\ queue' \in Seq(Number) /\ Len(queue') <= QueueCap
             /\ heard' \in Seq(Heard) /\ replies' \in Seq(Answer)
  BY DEF TypeOK
<1>2. \A n \in 1..Len(sent) : n \in Number /\ Done(n) \in Answer
  <2>1. Len(sent) \in 0..MaxPackets /\ MaxPackets \in Nat
    BY <1>1
  <2>2. \A n \in 1..Len(sent) : n \in Number
    BY ONLY <2>1 DEF Number
  <2> QED BY <2>2 DEF Done
<1>3. Complaint("Invalid Packet") \in Answer /\ Complaint("Please use CMP") \in Answer
  OBVIOUS
<1> HIDE DEF Heard, Answer
<1>4. \A a \in Answer : Append(replies, a) \in Seq(Answer)
  <2>1. replies \in Seq(Answer)
    BY <1>1
  <2> QED BY ONLY <2>1
<1>5. \A r \in Heard : Append(heard, r) \in Seq(Heard)
  <2>1. heard \in Seq(Heard)
    BY <1>1
  <2> QED BY ONLY <2>1
<1>6. NoPacket \in [units : Seq(Unit), says : Packet]
  BY DEF NoPacket, Packet
<1>7. recv(HeaderLen) \/ recv(Size) => arrived' \in Seq(Unit)
  <2> arrived \in Seq(Unit)
    BY <1>1
  <2>1. \A l \in Nat : SubSeq(arrived, l + 1, Len(arrived)) \in Seq(Unit)
    OBVIOUS
  <2>2. HeaderLen \in Nat /\ Size \in Nat
    <3>1. packet.says \in Packet
      BY <1>1
    <3> QED BY <3>1, PacketLengths DEF HeaderLen, Size
  <2>3. \A s \in Nat : Got(s) \in Seq(Unit)
    BY DEF Got
  <2>4. \A s \in Nat : Len(Got(s)) \in Nat
    BY <2>3
  <2> QED BY <2>1, <2>2, <2>4 DEF recv
<1>8. ASSUME NEW p \in Packet, Send(p) PROVE sent' \in Seq(Packet) /\ Len(sent') <= MaxPackets /\ wire' \in Seq(Unit)
  <2>1. sent' = Append(sent, p) /\ Len(sent) < MaxPackets
    BY <1>8 DEF Send
  <2>2. sent' \in Seq(Packet) /\ Len(sent') = Len(sent) + 1
    BY <1>1, <2>1
  <2>3. Len(sent') <= MaxPackets
    BY <1>1, <2>1, <2>2
  <2>4. wire' \in Seq(Unit)
    <3> DEFINE m == Len(sent) + 1
               l == HeaderLen + BodyLen(p)
    <3>1. m \in Number
      BY <1>1, <2>1 DEF Number
    <3>2. l \in {2, 4}
      BY PacketLengths DEF HeaderLen
    <3>3. \A i \in 1..l : [n |-> m, i |-> i] \in Unit
      BY <3>1, <3>2 DEF Unit
    <3>4. Units(m, p) = [i \in 1..l |-> [n |-> m, i |-> i]]
      BY DEF Units
    <3> HIDE DEF m, l
    <3>5. Units(m, p) \in Seq(Unit)
      BY <3>2, <3>3, <3>4
    <3>6. wire' = <<>> \/ wire' = wire \o Units(m, p)
      BY <1>8 DEF Send, m
    <3>7. wire \o Units(m, p) \in Seq(Unit) /\ <<>> \in Seq(Unit)
      BY <1>1, <3>5
    <3> QED BY <3>6, <3>7
  <2> QED BY <2>2, <2>3, <2>4
<1>9. CASE \E p \in Packet : Send(p)
  <2>1. UNCHANGED <<arrived, hup, rpc, packet, queue, heard, replies>>
    BY <1>9 DEF Send
  <2> QED BY <1>1, <1>8, <1>9, <2>1
<1>10. CASE Hangup
  <2>1. wire' \in Seq(Unit)
    BY <1>10, HangupFacts
  <2> QED BY <1>1, <1>10, <2>1 DEF Hangup
<1>11. CASE Arrive
  <2>1. arrived' \in Seq(Unit) /\ wire' \in Seq(Unit)
    BY <1>11, ArriveFacts
  <2> QED BY <1>1, <1>11, <2>1 DEF Arrive
<1>12. CASE ReadHeader
  <2>1. PICK n \in 1..Len(sent) :
             /\ packet' \in [units : Seq(Unit), says : Packet] /\ packet'.says = sent[n]
             /\ arrived' \in Seq(Unit)
             /\ IF sent[n].cmd = "enquire_link"
                THEN rpc' = "header" /\ replies' = Append(replies, Done(n))
                ELSE /\ replies' = replies
                     /\ rpc' = CASE sent[n].body = "none"  -> "deliver"
                                 [] sent[n].body = "small" -> "body"
                                 [] sent[n].body = "big"   -> "bigbody"
    BY <1>12, HeaderFacts
  <2>2. replies' \in Seq(Answer)
    BY <1>1, <1>2, <1>4, <2>1
  <2>3. sent[n].body \in {"none", "small", "big"}
    BY <2>1 DEF Packet
  <2>4. rpc' \in State
    BY <2>1, <2>3 DEF State
  <2>5. UNCHANGED <<sent, wire, hup, queue, heard>>
    BY <1>12 DEF ReadHeader, OnlyThread
  <2> QED BY <1>1, <2>1, <2>2, <2>4, <2>5
<1>13. CASE ReadHeaderEnd
  BY <1>1, <1>7, <1>13 DEF ReadHeaderEnd, OnlyThread, State
<1>14. CASE ReadHeaderShort
  <2>1. replies' = Append(replies, Complaint("Please use CMP"))
    BY <1>14 DEF ReadHeaderShort, Reply
  <2>2. replies' \in Seq(Answer)
    BY <1>3, <1>4, <2>1
  <2>3. rpc' = "close" /\ recv(HeaderLen) /\ UNCHANGED <<sent, wire, hup, queue, heard, packet>>
    BY <1>14 DEF ReadHeaderShort, OnlyThread
  <2>4. rpc' \in State /\ arrived' \in Seq(Unit)
    BY <1>7, <2>3 DEF State
  <2> QED BY <1>1, <2>2, <2>3, <2>4
<1>15. CASE ReadBody
  <2>1. /\ Current \in 1..Len(sent) /\ arrived' \in Seq(Unit) /\ rpc' = "deliver"
        /\ packet' \in [units : Seq(Unit), says : Packet]
    BY <1>15, BodyFacts
  <2>2. replies' = replies \/ replies' = Append(replies, Done(Current))
    BY <1>15 DEF ReadBody, TakeBody, Reply, Current
  <2>3. replies' \in Seq(Answer)
    BY <1>1, <1>2, <1>4, <2>1, <2>2
  <2>4. UNCHANGED <<sent, wire, hup, queue, heard>>
    BY <1>15 DEF ReadBody, OnlyThread
  <2> QED BY <1>1, <2>1, <2>3, <2>4 DEF State
<1>16. CASE ReadBodyShort
  <2>1. replies' = Append(replies, Complaint("Invalid Packet"))
    BY <1>16 DEF ReadBodyShort, Reply
  <2>2. replies' \in Seq(Answer)
    BY <1>3, <1>4, <2>1
  <2>3. rpc' = "close" /\ recv(Size) /\ UNCHANGED <<sent, wire, hup, queue, heard, packet>>
    BY <1>16 DEF ReadBodyShort, OnlyThread
  <2>4. rpc' \in State /\ arrived' \in Seq(Unit)
    BY <1>7, <2>3 DEF State
  <2> QED BY <1>1, <2>2, <2>3, <2>4
<1>17. CASE Deliver
  <2>1. Current \in Number /\ Identity = Current /\ Done(Current) \in Answer
    BY <1>2, <1>17, DeliverFacts
  <2>2. replies' = replies \/ replies' = Append(replies, Done(Current))
    BY <1>17 DEF Deliver, Reply, Current
  <2>3. replies' \in Seq(Answer)
    BY <1>1, <1>4, <2>1, <2>2
  <2>4. heard' = heard \/ \E w \in {"ServerReceive", "ClientReceive"} : heard' = Append(heard, [n |-> Current, by |-> w])
    BY <1>17, <2>1 DEF Deliver
  <2>5. heard' \in Seq(Heard)
    BY <1>1, <1>5, <2>1, <2>4 DEF Heard
  <2>6. queue' = queue \/ (Len(queue) < QueueCap /\ queue' = Append(queue, Current))
    BY <1>17, <2>1 DEF Deliver
  <2>7. Append(queue, Current) \in Seq(Number) /\ Len(Append(queue, Current)) = Len(queue) + 1 /\ Len(queue) \in Nat
    BY <1>1, <2>1
  <2>8. queue' \in Seq(Number) /\ Len(queue') <= QueueCap
    <3>1. QueueCap \in Nat /\ queue \in Seq(Number) /\ Len(queue) <= QueueCap
      BY <1>1
    <3> QED BY ONLY <2>6, <2>7, <3>1
  <2> QED BY <1>1, <1>6, <1>17, <2>3, <2>5, <2>8 DEF Deliver, State
<1>18. CASE Close
  <2>1. <<>> \in Seq(Unit)
    OBVIOUS
  <2> QED BY <1>1, <1>6, <1>18, <2>1 DEF Close, State
<1>19. CASE Take
  <2>1. queue # <<>> /\ queue' = Tail(queue) /\ heard' = Append(heard, [n |-> Head(queue), by |-> "message"])
    BY <1>19 DEF Take
  <2>2. Head(queue) \in Number /\ Tail(queue) \in Seq(Number) /\ Len(Tail(queue)) = Len(queue) - 1 /\ Len(queue) \in Nat
    BY <1>1, <2>1
  <2>3. heard' \in Seq(Heard)
    BY <1>5, <2>1, <2>2 DEF Heard
  <2>4. queue' \in Seq(Number) /\ Len(queue') <= QueueCap
    BY <1>1, <2>1, <2>2
  <2> QED BY <1>1, <1>19, <2>3, <2>4 DEF Take
<1>20. CASE UNCHANGED vars
  BY <1>1, <1>20 DEF vars
<1> QED BY <1>9, <1>10, <1>11, <1>12, <1>13, <1>14, <1>15, <1>16, <1>17, <1>18, <1>19, <1>20
        DEF Next, runCMPHandler

LEMMA StreamAlways == ASSUME BoundsAssumption PROVE Spec => [](TypeOK /\ StreamInv)
<1>1. Init => TypeOK /\ StreamInv
  BY StreamInit
<1>2. TypeOK /\ StreamInv /\ [Next]_vars => (TypeOK /\ StreamInv)'
  BY StreamStep, TypeStep
<1> QED BY <1>1, <1>2, PTL DEF Spec

\* Whatever TCP makes of the stream, no number is heard or answered that no packet has.
THEOREM TypeCorrect == ASSUME BoundsAssumption PROVE Spec => []TypeOK
BY StreamAlways, PTL

\* However the stream is cut, the thread takes headers for headers and bodies for bodies, of
\* packets that were sent.
THEOREM NeverLosesItsPlace == ASSUME BoundsAssumption PROVE Spec => []StreamInv
BY StreamAlways, PTL

-----------------------------------------------------------------------------
(* What is answered and what is heard                                      *)

\* The packets before the ceiling were sent.
CeilingInv ==
    Reading =>
        /\ Len(sent) \in Nat /\ Ceiling \in 1..Len(sent) + 1
        /\ rpc # "header" => Current \in 1..Len(sent)
        /\ rpc = "header" => Ceiling = NextUnit.n
        /\ ~Coming => NextUnit.n = Len(sent) + 1

LEMMA CeilingType == TypeOK /\ StreamInv => CeilingInv
<1> SUFFICES ASSUME TypeOK, StreamInv, Reading
             PROVE  /\ Len(sent) \in Nat /\ Ceiling \in 1..Len(sent) + 1
                    /\ rpc # "header" => Current \in 1..Len(sent)
                    /\ rpc = "header" => Ceiling = NextUnit.n
                    /\ ~Coming => NextUnit.n = Len(sent) + 1
  BY DEF CeilingInv
<1>1. Linked /\ InHand /\ rpc \in State
  BY DEF StreamInv, TypeOK
<1>2. Len(sent) \in Nat
  <2>1. sent \in Seq(Packet)
    BY DEF TypeOK
  <2> QED BY <2>1
<1>3. NextUnit.n \in 1..Len(sent) + 1 /\ (Len(Rest) = 0 => NextUnit.n = Len(sent) + 1)
  <2>1. CASE Len(Rest) = 0
    BY <1>2, <2>1 DEF NextUnit, End
  <2>2. CASE Len(Rest) # 0
    <3>1. 1 \in 1..Len(Rest)
      BY <2>2, RestType
    <3>2. NextUnit.n \in 1..Len(sent)
      BY <1>1, <2>2, <3>1 DEF Linked, NextUnit
    <3> QED BY <1>2, <2>2, <3>2
  <2> QED BY <2>1, <2>2
<1>4. rpc # "header" => Current \in 1..Len(sent)
  BY <1>1 DEF InHand, Reading, State
<1>5. ~Coming => Len(Rest) = 0
  BY RestType DEF Coming
<1> QED BY <1>2, <1>3, <1>4, <1>5 DEF Ceiling

\* The peer and the network never lower it.
LEMMA CeilingKept ==
    ASSUME BoundsAssumption, TypeOK, StreamInv, Reading, (\E p \in Packet : Send(p)) \/ Hangup \/ Arrive
    PROVE  Ceiling <= Ceiling'
<1>1. rpc' = rpc /\ packet' = packet /\ Reading'
  BY DEF Send, Hangup, Arrive, Reading
<1>2. CeilingInv'
  <2>1. TypeOK' /\ StreamInv'
    BY StreamStep, TypeStep DEF Next
  <2> QED BY <2>1, CeilingType, PTL
<1>3. Coming' => NextUnit' = NextUnit
  BY PlaceKept
<1>4. /\ Len(sent) \in Nat /\ Ceiling \in 1..Len(sent) + 1
      /\ rpc # "header" => Current \in 1..Len(sent)
      /\ rpc = "header" => Ceiling = NextUnit.n
  BY CeilingType DEF CeilingInv
<1>5. /\ Len(sent') \in Nat /\ (rpc = "header" => Ceiling' = NextUnit'.n)
      /\ ~Coming' => NextUnit'.n = Len(sent') + 1
  BY <1>1, <1>2 DEF CeilingInv
<1>6. Len(sent') = Len(sent) \/ Len(sent') = Len(sent) + 1
  <2>1. sent' = sent \/ \E p \in Packet : sent' = Append(sent, p)
    BY DEF Send, Hangup, Arrive
  <2>2. sent \in Seq(Packet)
    BY DEF TypeOK
  <2>3. \A p \in Packet : Len(Append(sent, p)) = Len(sent) + 1
    BY <2>2
  <2> QED BY <2>1, <2>3
<1>7. CASE rpc = "header"
  <2>1. CASE Coming'
    BY <1>3, <1>4, <1>5, <1>7, <2>1
  <2>2. CASE ~Coming'
    <3>1. Ceiling' = Len(sent') + 1
      BY <1>5, <1>7, <2>2
    <3> QED BY <1>4, <1>6, <3>1
  <2> QED BY <2>1, <2>2
<1>8. CASE rpc # "header"
  <2>1. Ceiling = Current /\ Ceiling' = Current
    BY <1>1, <1>8 DEF Ceiling, Current
  <2> QED BY <1>4, <1>8, <2>1
<1> QED BY <1>7, <1>8

\* A header that is a packet of its own puts it behind the thread.
LEMMA CeilingHeader ==
    ASSUME BoundsAssumption, TypeOK, StreamInv, ReadHeader
    PROVE  /\ Ceiling \in 1..Len(sent)
           /\ \/ /\ sent[Ceiling].cmd = "enquire_link" /\ rpc' = "header" /\ Ceiling < Ceiling'
                 /\ Coming' => Ceiling' = Ceiling + 1
                 /\ replies' = Append(replies, Done(Ceiling))
              \/ /\ rpc' \in {"body", "bigbody", "deliver"} /\ Ceiling' = Ceiling /\ replies' = replies
                 /\ packet'.says = sent[Ceiling] /\ sent[Ceiling].cmd # "enquire_link"
                 /\ rpc' = "deliver" => packet'.says.body = "none"
<1>1. PICK n \in 1..Len(sent) :
             /\ NextUnit = [n |-> n, i |-> 1]
             /\ packet'.says = sent[n] /\ packet'.units[1] = [n |-> n, i |-> 1]
             /\ Coming' => NextUnit' = IF BodyLen(sent[n]) = 0 THEN [n |-> n + 1, i |-> 1] ELSE [n |-> n, i |-> 3]
             /\ IF sent[n].cmd = "enquire_link"
                THEN rpc' = "header" /\ replies' = Append(replies, Done(n))
                ELSE /\ replies' = replies
                     /\ rpc' = CASE sent[n].body = "none"  -> "deliver"
                                 [] sent[n].body = "small" -> "body"
                                 [] sent[n].body = "big"   -> "bigbody"
  BY HeaderFacts
<1>2. rpc = "header" /\ sent' = sent /\ Ceiling = n
  BY <1>1 DEF ReadHeader, OnlyThread, Ceiling
<1>3. CeilingInv'
  <2>1. TypeOK' /\ StreamInv'
    BY StreamStep, TypeStep DEF Next, runCMPHandler
  <2> QED BY <2>1, CeilingType, PTL
<1>4. sent[n] \in Packet
  <2>1. sent \in Seq(Packet)
    BY DEF TypeOK
  <2> QED BY <2>1
<1>5. CASE sent[n].cmd = "enquire_link"
  <2>1. rpc' = "header" /\ Reading'
    BY <1>1, <1>5 DEF Reading
  <2>2. BodyLen(sent[n]) = 0
    BY <1>4, <1>5, PacketLengths
  <2>3. Ceiling' = NextUnit'.n /\ Len(sent) \in Nat /\ (~Coming' => NextUnit'.n = Len(sent) + 1)
    BY <1>2, <1>3, <2>1 DEF CeilingInv
  <2>4. Coming' => Ceiling' = n + 1
    BY <1>1, <2>2, <2>3
  <2>5. n < Ceiling'
    BY <1>1, <2>3, <2>4
  <2> QED BY <1>1, <1>2, <1>5, <2>1, <2>4, <2>5
<1>6. CASE sent[n].cmd # "enquire_link"
  <2>1. sent[n].body \in {"none", "small", "big"}
    BY <1>4, <1>6 DEF Packet
  <2>2. rpc' \in {"body", "bigbody", "deliver"} /\ (rpc' = "deliver" => sent[n].body = "none")
    BY <1>1, <1>6, <2>1
  <2>3. Ceiling' = n
    BY <1>1, <2>2 DEF Ceiling, Current
  <2> QED BY <1>1, <1>2, <1>6, <2>2, <2>3
<1> QED BY <1>5, <1>6

LEMMA CeilingBody ==
    ASSUME BoundsAssumption, TypeOK, StreamInv, ReadBody
    PROVE  /\ Ceiling = Current /\ Current \in 1..Len(sent) /\ Ceiling' = Ceiling
           /\ rpc' = "deliver" /\ packet'.says = packet.says
           /\ rpc = "body" => packet.says.body = "small"
           /\ rpc = "bigbody" => packet.says.body = "big"
<1>1. /\ Current \in 1..Len(sent) /\ packet'.units[1] = packet.units[1] /\ packet'.says = packet.says
      /\ rpc' = "deliver"
  BY BodyFacts
<1>2. rpc \in {"body", "bigbody"} /\ InHand
  BY DEF ReadBody, StreamInv, Reading
<1> QED BY <1>1, <1>2 DEF Ceiling, Current, InHand

\* What is delivered is behind the thread.
LEMMA CeilingDeliver ==
    ASSUME BoundsAssumption, TypeOK, StreamInv, Deliver
    PROVE  /\ Ceiling = Current /\ Identity = Current /\ Current \in 1..Len(sent) /\ Ceiling < Ceiling'
           /\ Coming' => Ceiling' = Ceiling + 1
           /\ rpc' = "header" /\ sent' = sent /\ packet.says = sent[Current] /\ sent[Current].cmd # "enquire_link"
<1>1. /\ Current \in 1..Len(sent) /\ Identity = Current /\ NextUnit' = NextUnit /\ (Coming' <=> Coming)
      /\ Coming => NextUnit = [n |-> Current + 1, i |-> 1]
      /\ packet.says = sent[Current]
  BY DeliverFacts
<1>2. rpc = "deliver" /\ rpc' = "header" /\ sent' = sent /\ Reading' /\ Ceiling = Current /\ InHand
  BY DEF Deliver, Reading, Ceiling, StreamInv
<1>3. CeilingInv'
  <2>1. TypeOK' /\ StreamInv'
    BY StreamStep, TypeStep DEF Next, runCMPHandler
  <2> QED BY <2>1, CeilingType, PTL
<1>4. Ceiling' = NextUnit'.n /\ Len(sent) \in Nat /\ (~Coming' => NextUnit'.n = Len(sent) + 1)
  BY <1>2, <1>3 DEF CeilingInv
<1>5. Coming' => Ceiling' = Current + 1
  BY <1>1, <1>4
<1>6. Current < Ceiling'
  BY <1>1, <1>4, <1>5
<1> QED BY <1>1, <1>2, <1>5, <1>6 DEF InHand

\* An access_log_request is answered when its body is read, before it is delivered.
Answered == rpc = "deliver" /\ packet.says.cmd = "access_log" /\ packet.says.body = "small"

ReplyInv ==
    /\ AnswersInOrder
    /\ Reading => \A i \in DOMAIN replies :
         replies[i].n # 0 /\ (replies[i].n < Ceiling \/ (Answered /\ replies[i].n = Ceiling))

LEMMA Appended ==
    ASSUME NEW S, NEW q \in Seq(S), NEW e \in S
    PROVE  /\ DOMAIN q = 1..Len(q) /\ Len(q) \in Nat
           /\ DOMAIN Append(q, e) = 1..Len(q) + 1
           /\ \A i \in 1..Len(q) : Append(q, e)[i] = q[i]
           /\ Append(q, e)[Len(q) + 1] = e
OBVIOUS

LEMMA LastOne ==
    ASSUME NEW l \in Nat, NEW i \in 1..l + 1
    PROVE  i \in 1..l \/ i = l + 1
OBVIOUS

Answer == [n : Number, what : {"STATUS_ROK"}] \cup {Complaint("Invalid Packet"), Complaint("Please use CMP")}

LEMMA Answers ==
    ASSUME BoundsAssumption, TypeOK
    PROVE  /\ replies \in Seq(Answer) /\ \A a \in Answer : a.n \in Nat
           /\ \A n \in 1..Len(sent) : Done(n) \in Answer /\ Done(n).n = n
           /\ \A text \in {"Invalid Packet", "Please use CMP"} :
                 Complaint(text) \in Answer /\ Complaint(text).n = 0
<1>1. replies \in Seq(Answer)
  BY DEF TypeOK, Answer
<1>2. MaxPackets \in Nat /\ Len(sent) <= MaxPackets /\ Len(sent) \in Nat
  <2>1. sent \in Seq(Packet) /\ Len(sent) <= MaxPackets
    BY DEF TypeOK
  <2>2. MaxPackets \in Nat
    BY DEF BoundsAssumption
  <2> QED BY <2>1, <2>2
<1>3. \A n \in Number : n \in Nat
  BY <1>2 DEF Number
<1>4. \A text : Complaint(text).n = 0
  BY DEF Complaint
<1>5. \A a \in Answer : a.n \in Nat
  <2> SUFFICES ASSUME NEW a \in Answer PROVE a.n \in Nat
    OBVIOUS
  <2>1. CASE a \in [n : Number, what : {"STATUS_ROK"}]
    BY <1>3, <2>1
  <2>2. CASE a = Complaint("Invalid Packet") \/ a = Complaint("Please use CMP")
    <3>1. a.n = 0
      BY <1>4, <2>2
    <3> QED BY <3>1
  <2> QED BY <2>1, <2>2 DEF Answer
<1>6. \A n \in 1..Len(sent) : n \in Number
  BY <1>2 DEF Number
<1>7. \A n \in 1..Len(sent) : Done(n) \in Answer /\ Done(n).n = n
  BY <1>6 DEF Answer, Done
<1>8. Complaint("Invalid Packet") \in Answer /\ Complaint("Please use CMP") \in Answer
  BY DEF Answer
<1> QED BY <1>1, <1>4, <1>5, <1>7, <1>8

\* One answer more, where none was a complaint.
LEMMA ReplyMore ==
    ASSUME BoundsAssumption, TypeOK, ReplyInv, Reading, NEW a \in Answer, replies' = Append(replies, a),
           a.n # 0 => ~Answered /\ a.n = Ceiling, Ceiling \in Nat
    PROVE  /\ AnswersInOrder'
           /\ \A i \in DOMAIN replies' : \/ i \in DOMAIN replies /\ replies'[i] = replies[i]
                                         \/ replies'[i] = a
<1> DEFINE l == Len(replies)
<1>1. replies \in Seq(Answer)
  BY Answers
<1>2. /\ DOMAIN replies = 1..l /\ l \in Nat /\ DOMAIN replies' = 1..l + 1
      /\ \A i \in 1..l : replies'[i] = replies[i]
      /\ replies'[l + 1] = a
  BY <1>1, Appended
<1> HIDE DEF l
<1>3. \A i \in 1..l : replies[i].n # 0 /\ (a.n # 0 => replies[i].n < a.n)
  BY <1>2 DEF ReplyInv
<1>4. ASSUME NEW i \in 1..l + 1, NEW j \in 1..l + 1, i < j
      PROVE  replies'[i].n # 0 /\ (replies'[j].n # 0 => replies'[i].n < replies'[j].n)
  <2>1. i \in 1..l /\ (j \in 1..l \/ j = l + 1)
    BY ONLY <1>2, <1>4
  <2> QED BY <1>2, <1>3, <1>4, <2>1 DEF ReplyInv, AnswersInOrder
<1>5. AnswersInOrder'
  BY <1>2, <1>4 DEF AnswersInOrder
<1>6. ASSUME NEW i \in DOMAIN replies'
      PROVE  (i \in DOMAIN replies /\ replies'[i] = replies[i]) \/ replies'[i] = a
  BY <1>2, LastOne
<1> QED BY <1>5, <1>6

\* The answers stay behind the packet the thread has begun to read.
LEMMA ReplyStep ==
    ASSUME BoundsAssumption, TypeOK, StreamInv, ReplyInv, [Next]_vars PROVE ReplyInv'
<1>1. TypeOK'
  BY TypeStep
<1>2. Reading => Ceiling \in Nat \ {0}
  <2>1. CeilingInv
    BY CeilingType
  <2> QED BY <2>1 DEF CeilingInv
<1>3. \A i \in DOMAIN replies : replies[i].n \in Nat
  <2>1. replies \in Seq(Answer) /\ \A a \in Answer : a.n \in Nat
    BY Answers
  <2>2. \A i \in DOMAIN replies : replies[i] \in Answer
    BY ONLY <2>1
  <2> QED BY <2>1, <2>2
<1>4. CASE (\E p \in Packet : Send(p)) \/ Hangup \/ Arrive
  <2>1. replies' = replies /\ (Reading' <=> Reading) /\ (Answered' <=> Answered) /\ rpc' = rpc /\ packet' = packet
    BY <1>4 DEF Send, Hangup, Arrive, Reading, Answered
  <2>2. CeilingInv'
    <3>1. TypeOK' /\ StreamInv'
      BY <1>1, StreamStep
    <3> QED BY <3>1, CeilingType, PTL
  <2>3. Reading => Ceiling' \in Nat /\ Ceiling <= Ceiling' /\ (Answered => Ceiling' = Ceiling)
    <3>1. Reading => Ceiling <= Ceiling'
      BY <1>4, CeilingKept
    <3>2. Answered => Ceiling' = Ceiling
      BY <2>1 DEF Answered, Ceiling, Current
    <3> QED BY <2>1, <2>2, <3>1, <3>2 DEF CeilingInv
  <2> QED BY <1>2, <1>3, <2>1, <2>3 DEF ReplyInv, AnswersInOrder
<1>5. CASE ReadHeader
  <2>1. Reading /\ ~Answered
    BY <1>5 DEF ReadHeader, Reading, Answered
  <2>2. CASE /\ sent[Ceiling].cmd = "enquire_link" /\ rpc' = "header" /\ Ceiling < Ceiling'
             /\ replies' = Append(replies, Done(Ceiling))
    <3>1. Reading' /\ Ceiling' \in Nat
      <4>1. TypeOK' /\ StreamInv'
        BY <1>1, StreamStep
      <4>2. CeilingInv'
        BY <4>1, CeilingType, PTL
      <4> QED BY <2>2, <4>2 DEF CeilingInv, Reading
    <3>2. Done(Ceiling).n = Ceiling /\ Done(Ceiling) \in Answer
      BY <1>5, CeilingHeader, Answers
    <3>3. /\ AnswersInOrder'
          /\ \A i \in DOMAIN replies' : \/ i \in DOMAIN replies /\ replies'[i] = replies[i]
                                        \/ replies'[i] = Done(Ceiling)
      BY <1>1, <1>2, <2>1, <2>2, <3>2, ReplyMore
    <3>4. \A i \in DOMAIN replies : replies[i].n # 0 /\ replies[i].n < Ceiling
      BY <2>1 DEF ReplyInv
    <3>5. \A i \in DOMAIN replies' : replies'[i].n # 0 /\ replies'[i].n < Ceiling'
      BY <1>2, <1>3, <2>1, <2>2, <3>1, <3>2, <3>3, <3>4
    <3> QED BY <3>3, <3>5 DEF ReplyInv
  <2>3. CASE Ceiling' = Ceiling /\ replies' = replies /\ rpc' \in {"body", "bigbody", "deliver"}
    BY <2>1, <2>3 DEF ReplyInv, AnswersInOrder
  <2> QED BY <1>5, <2>2, <2>3, CeilingHeader
<1>6. CASE ReadBody
  <2>1. /\ Reading /\ ~Answered /\ Ceiling = Current /\ Current \in 1..Len(sent) /\ Ceiling' = Ceiling
        /\ rpc' = "deliver" /\ packet'.says = packet.says /\ (rpc = "body" => packet.says.body = "small")
    BY <1>6, CeilingBody DEF ReadBody, Reading, Answered
  <2>2. CASE rpc = "body" /\ packet.says.cmd = "access_log"
    <3>1. replies' = Append(replies, Done(Ceiling)) /\ Answered'
      BY <1>6, <2>1, <2>2 DEF ReadBody, TakeBody, Reply, Current, Answered
    <3>2. Done(Ceiling).n = Ceiling /\ Done(Ceiling) \in Answer
      BY <2>1, Answers
    <3>3. /\ AnswersInOrder'
          /\ \A i \in DOMAIN replies' : \/ i \in DOMAIN replies /\ replies'[i] = replies[i]
                                        \/ replies'[i] = Done(Ceiling)
      BY <1>1, <1>2, <2>1, <3>1, <3>2, ReplyMore
    <3>4. \A i \in DOMAIN replies' : replies'[i].n # 0 /\ (replies'[i].n < Ceiling' \/ replies'[i].n = Ceiling')
      BY <1>2, <2>1, <3>2, <3>3 DEF ReplyInv
    <3> QED BY <3>1, <3>3, <3>4 DEF ReplyInv
  <2>3. CASE ~(rpc = "body" /\ packet.says.cmd = "access_log")
    <3>1. replies' = replies
      BY <1>6, <2>3 DEF ReadBody, TakeBody
    <3> QED BY <2>1, <3>1 DEF ReplyInv, AnswersInOrder
  <2> QED BY <2>2, <2>3
<1>7. CASE Deliver
  <2>1. Reading /\ Ceiling = Current /\ Current \in 1..Len(sent) /\ Ceiling < Ceiling' /\ rpc' = "header"
    BY <1>7, CeilingDeliver DEF Deliver, Reading
  <2>2. Ceiling' \in Nat
    <3>1. TypeOK' /\ StreamInv'
      BY <1>1, StreamStep
    <3>2. CeilingInv'
      BY <3>1, CeilingType, PTL
    <3> QED BY <2>1, <3>2 DEF CeilingInv, Reading
  <2>3. CASE AnswersNow
    <3>1. replies' = Append(replies, Done(Ceiling)) /\ ~Answered
      BY <1>7, <2>1, <2>3 DEF Deliver, Reply, Current, Answered, AnswersNow
    <3>2. Done(Ceiling).n = Ceiling /\ Done(Ceiling) \in Answer
      BY <2>1, Answers
    <3>3. /\ AnswersInOrder'
          /\ \A i \in DOMAIN replies' : \/ i \in DOMAIN replies /\ replies'[i] = replies[i]
                                        \/ replies'[i] = Done(Ceiling)
      BY <1>1, <1>2, <2>1, <3>1, <3>2, ReplyMore
    <3>4. \A i \in DOMAIN replies : replies[i].n # 0 /\ replies[i].n < Ceiling
      BY <2>1, <3>1 DEF ReplyInv
    <3>5. \A i \in DOMAIN replies' : replies'[i].n # 0 /\ replies'[i].n < Ceiling'
      BY <1>2, <1>3, <2>1, <2>2, <3>2, <3>3, <3>4
    <3> QED BY <3>3, <3>5 DEF ReplyInv
  <2>4. CASE ~AnswersNow
    <3>1. replies' = replies
      BY <1>7, <2>4 DEF Deliver
    <3>2. \A i \in DOMAIN replies : replies[i].n # 0 /\ replies[i].n < Ceiling'
      BY <1>2, <1>3, <2>1, <2>2 DEF ReplyInv
    <3> QED BY <3>1, <3>2 DEF ReplyInv, AnswersInOrder
  <2> QED BY <2>3, <2>4
<1>8. CASE ReadHeaderShort \/ ReadBodyShort
  <2>1. /\ Reading /\ ~Reading'
        /\ \E a \in {Complaint("Please use CMP"), Complaint("Invalid Packet")} : replies' = Append(replies, a)
    BY <1>8 DEF ReadHeaderShort, ReadBodyShort, Reading, Reply
  <2>2. PICK a \in {Complaint("Please use CMP"), Complaint("Invalid Packet")} : replies' = Append(replies, a)
    BY <2>1
  <2>3. a.n = 0 /\ a \in Answer
    BY <2>2, Answers
  <2>4. AnswersInOrder'
    BY <1>1, <1>2, <2>1, <2>2, <2>3, ReplyMore
  <2> QED BY <2>1, <2>4 DEF ReplyInv
<1>9. CASE ReadHeaderEnd \/ Close
  BY <1>9 DEF ReadHeaderEnd, Close, ReplyInv, AnswersInOrder, Reading
<1>10. CASE Take \/ UNCHANGED vars
  <2>1. UNCHANGED <<sent, wire, arrived, hup, rpc, packet, replies>>
    BY <1>10 DEF Take, vars
  <2>2. (Reading' <=> Reading) /\ Ceiling' = Ceiling /\ (Answered' <=> Answered)
    BY <2>1 DEF Reading, Ceiling, Answered, NextUnit, Rest, End, Current
  <2> QED BY <2>1, <2>2 DEF ReplyInv, AnswersInOrder
<1> QED BY <1>4, <1>5, <1>6, <1>7, <1>8, <1>9, <1>10 DEF Next, runCMPHandler

\* Requests are answered in the order they came, each once, and nothing is said after a
\* complaint: the peer can match the sequence numbers it gets back with its own.
THEOREM AnswersMatchRequests == ASSUME BoundsAssumption PROVE Spec => []AnswersInOrder
<1>1. Init => TypeOK /\ StreamInv /\ ReplyInv
  <2>1. Init => ReplyInv
    BY DEF Init, ReplyInv, AnswersInOrder
  <2> QED BY <2>1, StreamInit
<1>2. TypeOK /\ StreamInv /\ ReplyInv /\ [Next]_vars => (TypeOK /\ StreamInv /\ ReplyInv)'
  BY TypeStep, StreamStep, ReplyStep
<1>3. ReplyInv => AnswersInOrder
  BY DEF ReplyInv
<1> QED BY <1>1, <1>2, <1>3, PTL DEF Spec

\* What waits in the queue comes after what was taken from it.
HeardInv ==
    /\ EachWayInOrder
    /\ \A i, j \in DOMAIN queue : i < j => queue[i] < queue[j]
    /\ \A i \in DOMAIN heard, j \in DOMAIN queue : heard[i].by = "message" => heard[i].n < queue[j]
    /\ Reading => /\ \A i \in DOMAIN heard : heard[i].n < Ceiling
                  /\ \A i \in DOMAIN queue : queue[i] < Ceiling

Heard == [n : Number, by : {"ServerReceive", "ClientReceive", "message"}]

LEMMA HeardFacts ==
    ASSUME BoundsAssumption, TypeOK
    PROVE  /\ heard \in Seq(Heard) /\ queue \in Seq(Number)
           /\ \A i \in DOMAIN heard : heard[i].n \in Nat
           /\ \A i \in DOMAIN queue : queue[i] \in Nat
           /\ \A n \in 1..Len(sent) : n \in Number
<1>1. heard \in Seq(Heard) /\ queue \in Seq(Number)
  BY DEF TypeOK, Heard
<1>2. MaxPackets \in Nat /\ Len(sent) <= MaxPackets /\ Len(sent) \in Nat
  <2>1. sent \in Seq(Packet) /\ Len(sent) <= MaxPackets
    BY DEF TypeOK
  <2>2. MaxPackets \in Nat
    BY DEF BoundsAssumption
  <2> QED BY <2>1, <2>2
<1>3. \A n \in Number : n \in Nat
  BY <1>2 DEF Number
<1>4. \A r \in Heard : r.n \in Nat
  BY <1>3 DEF Heard
<1>5. /\ \A i \in DOMAIN heard : heard[i] \in Heard
      /\ \A i \in DOMAIN queue : queue[i] \in Number
  BY ONLY <1>1
<1>6. \A n \in 1..Len(sent) : n \in Number
  BY <1>2 DEF Number
<1> QED BY <1>1, <1>3, <1>4, <1>5, <1>6

\* The application hears one packet more, past the queue.
LEMMA HeardMore ==
    ASSUME TypeOK, HeardInv, NEW r \in Heard, heard' = Append(heard, r), queue' = queue,
           r.by # "message", \A i \in DOMAIN heard : heard[i].n < r.n
    PROVE  /\ EachWayInOrder'
           /\ \A i \in DOMAIN heard' : \/ i \in DOMAIN heard /\ heard'[i] = heard[i]
                                       \/ heard'[i] = r
           /\ \A i \in DOMAIN heard', j \in DOMAIN queue' : heard'[i].by = "message" => heard'[i].n < queue'[j]
<1> DEFINE l == Len(heard)
<1>1. heard \in Seq(Heard)
  BY DEF TypeOK, Heard
<1>2. /\ DOMAIN heard = 1..l /\ l \in Nat /\ DOMAIN heard' = 1..l + 1
      /\ \A i \in 1..l : heard'[i] = heard[i]
      /\ heard'[l + 1] = r
  BY <1>1, Appended
<1> HIDE DEF l
<1>3. ASSUME NEW i \in 1..l + 1, NEW j \in 1..l + 1, i < j, heard'[i].by = heard'[j].by
      PROVE  heard'[i].n < heard'[j].n
  <2>1. i \in 1..l /\ (j \in 1..l \/ j = l + 1)
    BY ONLY <1>2, <1>3
  <2> QED BY <1>2, <1>3, <2>1 DEF HeardInv, EachWayInOrder
<1>4. EachWayInOrder'
  BY <1>2, <1>3 DEF EachWayInOrder
<1>5. ASSUME NEW i \in DOMAIN heard'
      PROVE  (i \in DOMAIN heard /\ heard'[i] = heard[i]) \/ heard'[i] = r
  BY <1>2, LastOne
<1>6. \A i \in DOMAIN heard', j \in DOMAIN queue' : heard'[i].by = "message" => heard'[i].n < queue'[j]
  BY <1>5 DEF HeardInv
<1> QED BY <1>4, <1>5, <1>6

\* A packet joins the queue.
LEMMA QueueMore ==
    ASSUME TypeOK, HeardInv, NEW n \in Number, queue' = Append(queue, n), heard' = heard,
           \A i \in DOMAIN heard : heard[i].n < n, \A i \in DOMAIN queue : queue[i] < n
    PROVE  /\ EachWayInOrder'
           /\ \A i, j \in DOMAIN queue' : i < j => queue'[i] < queue'[j]
           /\ \A i \in DOMAIN heard', j \in DOMAIN queue' : heard'[i].by = "message" => heard'[i].n < queue'[j]
           /\ \A i \in DOMAIN queue' : (i \in DOMAIN queue /\ queue'[i] = queue[i]) \/ queue'[i] = n
<1> DEFINE l == Len(queue)
<1>1. queue \in Seq(Number)
  BY DEF TypeOK
<1>2. /\ DOMAIN queue = 1..l /\ l \in Nat /\ DOMAIN queue' = 1..l + 1
      /\ \A i \in 1..l : queue'[i] = queue[i]
      /\ queue'[l + 1] = n
  BY <1>1, Appended
<1> HIDE DEF l
<1>3. ASSUME NEW i \in 1..l + 1, NEW j \in 1..l + 1, i < j PROVE queue'[i] < queue'[j]
  <2>1. i \in 1..l /\ (j \in 1..l \/ j = l + 1)
    BY ONLY <1>2, <1>3
  <2> QED BY <1>2, <1>3, <2>1 DEF HeardInv
<1>4. ASSUME NEW i \in DOMAIN queue'
      PROVE  (i \in DOMAIN queue /\ queue'[i] = queue[i]) \/ queue'[i] = n
  BY <1>2, LastOne
<1>5. \A i \in DOMAIN heard', j \in DOMAIN queue' : heard'[i].by = "message" => heard'[i].n < queue'[j]
  BY <1>4 DEF HeardInv
<1> QED BY <1>2, <1>3, <1>4, <1>5 DEF HeardInv, EachWayInOrder

\* The receiver takes the first of the queue.
LEMMA TakeFacts ==
    ASSUME BoundsAssumption, TypeOK, HeardInv, Take
    PROVE  HeardInv'
<1> DEFINE l == Len(heard)
           n == Head(queue)
<1>1. /\ queue # <<>> /\ queue' = Tail(queue) /\ heard' = Append(heard, [n |-> n, by |-> "message"])
      /\ UNCHANGED <<sent, wire, arrived, hup, rpc, packet, replies>>
  BY DEF Take
<1>2. /\ heard \in Seq(Heard) /\ queue \in Seq(Number)
      /\ \A i \in DOMAIN heard : heard[i].n \in Nat
      /\ \A i \in DOMAIN queue : queue[i] \in Nat
  BY HeardFacts
<1>3. /\ 1 \in DOMAIN queue /\ n = queue[1] /\ n \in Number /\ DOMAIN queue \subseteq Nat
      /\ \A i \in DOMAIN queue' : i + 1 \in DOMAIN queue /\ queue'[i] = queue[i + 1] /\ i \in Nat /\ 1 < i + 1
  BY <1>1, <1>2
<1> HIDE DEF n
<1>4. [n |-> n, by |-> "message"] \in Heard
  BY <1>3 DEF Heard
<1>5. /\ DOMAIN heard = 1..l /\ l \in Nat /\ DOMAIN heard' = 1..l + 1
      /\ \A i \in 1..l : heard'[i] = heard[i]
      /\ heard'[l + 1] = [n |-> n, by |-> "message"]
  BY <1>1, <1>2, <1>4, Appended
<1> HIDE DEF l
<1>6. \A i \in DOMAIN heard' : (i \in DOMAIN heard /\ heard'[i] = heard[i]) \/ heard'[i] = [n |-> n, by |-> "message"]
  BY <1>5, LastOne
<1>7. \A i \in DOMAIN heard : heard[i].by = "message" => heard[i].n < n
  BY <1>3 DEF HeardInv
<1>8. ASSUME NEW i \in 1..l + 1, NEW j \in 1..l + 1, i < j, heard'[i].by = heard'[j].by
      PROVE  heard'[i].n < heard'[j].n
  <2>1. i \in 1..l /\ (j \in 1..l \/ j = l + 1)
    BY ONLY <1>5, <1>8
  <2> QED BY <1>5, <1>7, <1>8, <2>1 DEF HeardInv, EachWayInOrder
<1>9. EachWayInOrder'
  BY <1>5, <1>8 DEF EachWayInOrder
<1>10. \A i, j \in DOMAIN queue' : i < j => queue'[i] < queue'[j]
  <2> SUFFICES ASSUME NEW i \in DOMAIN queue', NEW j \in DOMAIN queue', i < j PROVE queue'[i] < queue'[j]
    OBVIOUS
  <2>1. i + 1 < j + 1
    BY <1>3
  <2> QED BY <1>3, <2>1 DEF HeardInv
<1>11. \A i \in DOMAIN heard', j \in DOMAIN queue' : heard'[i].by = "message" => heard'[i].n < queue'[j]
  <2> SUFFICES ASSUME NEW i \in DOMAIN heard', NEW j \in DOMAIN queue', heard'[i].by = "message"
               PROVE  heard'[i].n < queue'[j]
    OBVIOUS
  <2>1. n < queue'[j] /\ j + 1 \in DOMAIN queue
    BY <1>3 DEF HeardInv
  <2> QED BY <1>3, <1>6, <2>1 DEF HeardInv
<1>12. (Reading' <=> Reading) /\ Ceiling' = Ceiling
  BY <1>1 DEF Reading, Ceiling, NextUnit, Rest, End, Current
<1>13. Reading => /\ \A i \in DOMAIN heard' : heard'[i].n < Ceiling
                  /\ \A i \in DOMAIN queue' : queue'[i] < Ceiling
  BY <1>3, <1>6 DEF HeardInv
<1> QED BY <1>9, <1>10, <1>11, <1>12, <1>13 DEF HeardInv

\* What was handed on stays behind the packet the thread has begun to read.
LEMMA HeardStep ==
    ASSUME BoundsAssumption, TypeOK, StreamInv, HeardInv, [Next]_vars PROVE HeardInv'
<1>1. CeilingInv /\ CeilingInv'
  <2>1. TypeOK' /\ StreamInv'
    BY TypeStep, StreamStep
  <2>2. CeilingInv'
    BY <2>1, CeilingType, PTL
  <2> QED BY <2>2, CeilingType
<1>2. (Reading => Ceiling \in Nat) /\ (Reading' => Ceiling' \in Nat)
  BY <1>1 DEF CeilingInv
<1>3. /\ \A i \in DOMAIN heard : heard[i].n \in Nat
      /\ \A i \in DOMAIN queue : queue[i] \in Nat
      /\ \A n \in 1..Len(sent) : n \in Number
  BY HeardFacts
<1>4. ASSUME UNCHANGED <<heard, queue>>, Reading' => Reading /\ Ceiling <= Ceiling' PROVE HeardInv'
  <2>1. /\ EachWayInOrder'
        /\ \A i, j \in DOMAIN queue' : i < j => queue'[i] < queue'[j]
        /\ \A i \in DOMAIN heard', j \in DOMAIN queue' : heard'[i].by = "message" => heard'[i].n < queue'[j]
    BY <1>4 DEF HeardInv, EachWayInOrder
  <2>2. Reading' => /\ \A i \in DOMAIN heard' : heard'[i].n < Ceiling'
                    /\ \A i \in DOMAIN queue' : queue'[i] < Ceiling'
    BY <1>2, <1>3, <1>4 DEF HeardInv
  <2> QED BY <2>1, <2>2 DEF HeardInv
<1>5. CASE (\E p \in Packet : Send(p)) \/ Hangup \/ Arrive
  <2>1. UNCHANGED <<heard, queue>> /\ (Reading' <=> Reading)
    BY <1>5 DEF Send, Hangup, Arrive, Reading
  <2> QED BY <1>4, <1>5, <2>1, CeilingKept
<1>6. CASE ReadHeader
  <2>1. UNCHANGED <<heard, queue>> /\ Reading
    BY <1>6 DEF ReadHeader, OnlyThread, Reading
  <2>2. Ceiling' = Ceiling \/ Ceiling < Ceiling'
    BY <1>6, CeilingHeader
  <2> QED BY <1>2, <1>4, <2>1, <2>2
<1>7. CASE ReadBody
  <2>1. UNCHANGED <<heard, queue>> /\ Reading
    BY <1>7 DEF ReadBody, OnlyThread, Reading
  <2>2. Ceiling' = Ceiling
    BY <1>7, CeilingBody
  <2> QED BY <1>2, <1>4, <2>1, <2>2
<1>8. CASE ReadHeaderEnd \/ ReadHeaderShort \/ ReadBodyShort \/ Close
  <2>1. UNCHANGED <<heard, queue>> /\ ~Reading'
    BY <1>8 DEF ReadHeaderEnd, ReadHeaderShort, ReadBodyShort, Close, OnlyThread, Reading
  <2> QED BY <1>4, <2>1
<1>9. CASE UNCHANGED vars
  <2>1. UNCHANGED <<heard, queue>> /\ (Reading' <=> Reading) /\ Ceiling' = Ceiling
    BY <1>9 DEF vars, Reading, Ceiling, NextUnit, Rest, End, Current
  <2> QED BY <1>2, <1>4, <2>1
<1>10. CASE Deliver
  <2> PICK c : c = Ceiling
    OBVIOUS
  <2>1. /\ Reading /\ Identity = c /\ c \in Number /\ c < Ceiling' /\ rpc' = "header" /\ Reading'
        /\ Ceiling' \in Nat /\ c \in Nat
    <3>1. /\ Identity = Ceiling /\ Ceiling \in 1..Len(sent) /\ Ceiling < Ceiling' /\ rpc' = "header"
      BY <1>10, CeilingDeliver
    <3>2. Reading /\ Reading'
      BY <1>10, <3>1 DEF Deliver, Reading
    <3> QED BY <1>2, <1>3, <3>1, <3>2
  <2>2. /\ \A i \in DOMAIN heard : heard[i].n < c
        /\ \A i \in DOMAIN queue : queue[i] < c
    BY <2>1 DEF HeardInv
  <2>3. ASSUME NEW w \in {"ServerReceive", "ClientReceive"},
               heard' = Append(heard, [n |-> c, by |-> w]), queue' = queue
        PROVE  HeardInv'
    <3>1. [n |-> c, by |-> w] \in Heard
      BY <2>1 DEF Heard
    <3>2. /\ EachWayInOrder'
          /\ \A i \in DOMAIN heard' : (i \in DOMAIN heard /\ heard'[i] = heard[i]) \/ heard'[i] = [n |-> c, by |-> w]
          /\ \A i \in DOMAIN heard', j \in DOMAIN queue' : heard'[i].by = "message" => heard'[i].n < queue'[j]
      BY <2>2, <2>3, <3>1, HeardMore
    <3>3. \A i \in DOMAIN heard' : heard'[i].n < Ceiling'
      BY <1>3, <2>1, <2>2, <3>2
    <3>4. /\ \A i \in DOMAIN queue' : queue'[i] < Ceiling'
          /\ \A i, j \in DOMAIN queue' : i < j => queue'[i] < queue'[j]
      BY <1>3, <2>1, <2>2, <2>3 DEF HeardInv
    <3> QED BY <3>2, <3>3, <3>4 DEF HeardInv
  <2>4. ASSUME queue' = Append(queue, c), heard' = heard
        PROVE  HeardInv'
    <3>1. /\ EachWayInOrder'
          /\ \A i, j \in DOMAIN queue' : i < j => queue'[i] < queue'[j]
          /\ \A i \in DOMAIN heard', j \in DOMAIN queue' : heard'[i].by = "message" => heard'[i].n < queue'[j]
          /\ \A i \in DOMAIN queue' : (i \in DOMAIN queue /\ queue'[i] = queue[i]) \/ queue'[i] = c
      BY <2>1, <2>2, <2>4, QueueMore
    <3>2. \A i \in DOMAIN queue' : queue'[i] < Ceiling'
      BY <1>3, <2>1, <2>2, <3>1
    <3>3. \A i \in DOMAIN heard' : heard'[i].n < Ceiling'
      BY <1>3, <2>1, <2>2, <2>4
    <3> QED BY <3>1, <3>2, <3>3 DEF HeardInv
  <2>5. \/ \E w \in {"ServerReceive", "ClientReceive"} : heard' = Append(heard, [n |-> c, by |-> w]) /\ queue' = queue
        \/ queue' = Append(queue, c) /\ heard' = heard
    BY <1>10, <2>1 DEF Deliver
  <2> QED BY <2>3, <2>4, <2>5
<1>11. CASE Take
  BY <1>11, TakeFacts
<1> QED BY <1>5, <1>6, <1>7, <1>8, <1>9, <1>10, <1>11 DEF Next, runCMPHandler

\* By each of its ways the application gets packets in the order they were sent and none
\* twice, however the stream was cut up.
THEOREM HeardInOrder == ASSUME BoundsAssumption PROVE Spec => []EachWayInOrder
<1>1. Init => TypeOK /\ StreamInv /\ HeardInv
  <2>1. Init => HeardInv
    BY DEF Init, HeardInv, EachWayInOrder
  <2> QED BY <2>1, StreamInit
<1>2. TypeOK /\ StreamInv /\ HeardInv /\ [Next]_vars => (TypeOK /\ StreamInv /\ HeardInv)'
  BY TypeStep, StreamStep, HeardStep
<1>3. HeardInv => EachWayInOrder
  BY DEF HeardInv
<1> QED BY <1>1, <1>2, <1>3, PTL DEF Spec

-----------------------------------------------------------------------------
(* With PK_ASYNC, it is a packet channel                                   *)

LastHeard == IF heard = <<>> THEN 0 ELSE heard[Len(heard)].n

\* Between the packet heard last and the one the thread is at, all were answered by the thread.
AsyncInv ==
    /\ queue = <<>>
    /\ Reading => LastHeard < Ceiling
    /\ Reading /\ (rpc = "header" => Coming) =>
         \A k \in 1..Len(sent) : LastHeard < k /\ k < Ceiling => sent[k].cmd = "enquire_link"

LEMMA LastHeardType == ASSUME BoundsAssumption, TypeOK PROVE LastHeard \in Nat
<1>1. heard \in Seq(Heard) /\ \A i \in DOMAIN heard : heard[i].n \in Nat
  BY HeardFacts
<1>2. heard # <<>> => Len(heard) \in DOMAIN heard
  BY <1>1
<1> QED BY <1>1, <1>2 DEF LastHeard

\* A delivered packet is heard at once.
LEMMA DeliverAsync ==
    ASSUME BoundsAssumption, Handle = "PK_ASYNC", TypeOK, StreamInv, Deliver
    PROVE  \E w \in {"ServerReceive", "ClientReceive"} :
             heard' = Append(heard, [n |-> Ceiling, by |-> w]) /\ queue' = queue
BY CeilingDeliver DEF Deliver

LEMMA AsyncStep ==
    ASSUME BoundsAssumption, Handle = "PK_ASYNC", TypeOK, StreamInv, AsyncInv, [Next]_vars PROVE AsyncInv'
<1>1. CeilingInv /\ CeilingInv'
  <2>1. TypeOK' /\ StreamInv'
    BY TypeStep, StreamStep
  <2>2. CeilingInv'
    BY <2>1, CeilingType, PTL
  <2> QED BY <2>2, CeilingType
<1>2. /\ Reading => Len(sent) \in Nat /\ Ceiling \in 1..Len(sent) + 1
      /\ Reading' => Ceiling' \in Nat
  BY <1>1 DEF CeilingInv
<1>3. LastHeard \in Nat
  BY LastHeardType
<1>4. CASE (\E p \in Packet : Send(p)) \/ Hangup \/ Arrive
  <2>1. UNCHANGED <<heard, queue, rpc, packet>> /\ (Reading' <=> Reading) /\ LastHeard' = LastHeard
    BY <1>4 DEF Send, Hangup, Arrive, Reading, LastHeard
  <2> SUFFICES ASSUME Reading
               PROVE  /\ LastHeard < Ceiling'
                      /\ (rpc = "header" => Coming') =>
                           \A k \in 1..Len(sent') : LastHeard < k /\ k < Ceiling' => sent'[k].cmd = "enquire_link"
    BY <2>1 DEF AsyncInv
  <2>2. Ceiling <= Ceiling'
    BY <1>4, CeilingKept
  <2>3. LastHeard < Ceiling'
    BY <1>2, <1>3, <2>1, <2>2 DEF AsyncInv
  <2>4. ASSUME rpc = "header" => Coming', NEW k \in 1..Len(sent'), LastHeard < k, k < Ceiling'
        PROVE  sent'[k].cmd = "enquire_link"
    <3>1. Coming' => Coming /\ NextUnit' = NextUnit
      BY <1>4, PlaceKept
    <3>2. (rpc = "header" => Coming) /\ Ceiling' = Ceiling
      BY <2>1, <2>4, <3>1 DEF Ceiling, Current
    <3>3. k \in 1..Len(sent)
      BY <1>2, <2>4, <3>2
    <3>4. sent'[k] = sent[k]
      <4>1. CASE \E p \in Packet : Send(p)
        BY <3>3, <4>1, SendFacts
      <4>2. CASE Hangup \/ Arrive
        BY <4>2 DEF Hangup, Arrive
      <4> QED BY <1>4, <4>1, <4>2
    <3> QED BY <2>4, <3>2, <3>3, <3>4 DEF AsyncInv
  <2> QED BY <2>3, <2>4
<1>5. CASE ReadHeader
  <2>1. UNCHANGED <<heard, queue, sent>> /\ Reading /\ rpc = "header" /\ LastHeard' = LastHeard
    BY <1>5 DEF ReadHeader, OnlyThread, Reading, LastHeard
  <2>2. Coming
    <3>1. Len(Rest) > 0
      BY <1>5, HeaderFacts
    <3> QED BY <3>1 DEF Coming
  <2>3. LastHeard < Ceiling /\ \A k \in 1..Len(sent) : LastHeard < k /\ k < Ceiling => sent[k].cmd = "enquire_link"
    BY <2>1, <2>2 DEF AsyncInv
  <2>4. CASE /\ sent[Ceiling].cmd = "enquire_link" /\ rpc' = "header" /\ Ceiling < Ceiling'
             /\ Coming' => Ceiling' = Ceiling + 1
    <3>1. Reading'
      BY <2>4 DEF Reading
    <3>2. LastHeard < Ceiling'
      BY <1>2, <1>3, <2>1, <2>3, <2>4, <3>1
    <3>3. ASSUME Coming', NEW k \in 1..Len(sent), LastHeard < k, k < Ceiling' PROVE sent[k].cmd = "enquire_link"
      <4>1. k < Ceiling \/ k = Ceiling
        BY <1>2, <2>1, <2>4, <3>3
      <4> QED BY <2>3, <2>4, <3>3, <4>1
    <3> QED BY <2>1, <2>4, <3>2, <3>3 DEF AsyncInv
  <2>5. CASE rpc' \in {"body", "bigbody", "deliver"} /\ Ceiling' = Ceiling
    BY <2>1, <2>3, <2>5 DEF AsyncInv
  <2> QED BY <1>5, <2>4, <2>5, CeilingHeader
<1>6. CASE ReadBody
  <2>1. UNCHANGED <<heard, queue, sent>> /\ Reading /\ rpc # "header" /\ LastHeard' = LastHeard
    BY <1>6 DEF ReadBody, OnlyThread, Reading, LastHeard
  <2>2. Ceiling' = Ceiling
    BY <1>6, CeilingBody
  <2> QED BY <2>1, <2>2 DEF AsyncInv
<1>7. CASE Deliver
  <2> PICK c : c = Ceiling
    OBVIOUS
  <2>1. /\ c \in 1..Len(sent) /\ c < Ceiling' /\ (Coming' => Ceiling' = c + 1)
        /\ rpc' = "header" /\ sent' = sent
    BY <1>7, CeilingDeliver
  <2>2. Reading' /\ Ceiling' \in Nat
    BY <1>2, <2>1 DEF Reading
  <2>3. LastHeard' = c /\ queue' = queue
    <3>1. PICK w \in {"ServerReceive", "ClientReceive"} : heard' = Append(heard, [n |-> c, by |-> w]) /\ queue' = queue
      BY <1>7, DeliverAsync
    <3>2. heard \in Seq(Heard) /\ [n |-> c, by |-> w] \in Heard
      BY <2>1, HeardFacts DEF Heard
    <3>3. heard' # <<>> /\ heard'[Len(heard')] = [n |-> c, by |-> w]
      BY <3>1, <3>2
    <3> QED BY <3>1, <3>3 DEF LastHeard
  <2>4. ASSUME Coming', NEW k \in 1..Len(sent), c < k, k < Ceiling' PROVE FALSE
    BY <2>1, <2>4
  <2> QED BY <2>1, <2>3, <2>4 DEF AsyncInv
<1>8. CASE ReadHeaderEnd \/ ReadHeaderShort \/ ReadBodyShort \/ Close
  <2>1. queue' = queue /\ ~Reading'
    BY <1>8 DEF ReadHeaderEnd, ReadHeaderShort, ReadBodyShort, Close, OnlyThread, Reading
  <2> QED BY <2>1 DEF AsyncInv
<1>9. CASE Take
  BY <1>9 DEF Take, AsyncInv
<1>10. CASE UNCHANGED vars
  <2>1. /\ UNCHANGED <<queue, rpc, sent>> /\ (Reading' <=> Reading) /\ Ceiling' = Ceiling /\ LastHeard' = LastHeard
        /\ (Coming' <=> Coming)
    BY <1>10 DEF vars, Reading, Ceiling, NextUnit, Rest, End, Current, LastHeard, Coming
  <2> QED BY <2>1 DEF AsyncInv
<1> QED BY <1>4, <1>5, <1>6, <1>7, <1>8, <1>9, <1>10 DEF Next, runCMPHandler

\* The numbers that are heard, as the channel sees them.
LEMMA NumberMore ==
    ASSUME NEW q \in Seq(Heard), NEW r \in Heard, Number \subseteq Nat
    PROVE  /\ [i \in DOMAIN Append(q, r) |-> Append(q, r)[i].n] = Append([i \in DOMAIN q |-> q[i].n], r.n)
           /\ [i \in DOMAIN q |-> q[i].n] \in Seq(Nat)
<1> DEFINE f == [i \in DOMAIN q |-> q[i].n]
           g == [i \in DOMAIN Append(q, r) |-> Append(q, r)[i].n]
           l == Len(q)
<1>1. /\ DOMAIN q = 1..l /\ l \in Nat /\ DOMAIN Append(q, r) = 1..l + 1
      /\ \A i \in 1..l : Append(q, r)[i] = q[i]
      /\ Append(q, r)[l + 1] = r
  BY Appended
<1>2. r.n \in Nat /\ \A i \in 1..l : q[i].n \in Nat
  <2>1. \A e \in Heard : e.n \in Nat
    BY DEF Heard
  <2>2. \A i \in 1..l : q[i] \in Heard
    BY ONLY <1>1, q \in Seq(Heard)
  <2> QED BY <2>1, <2>2
<1> HIDE DEF l
<1>3. f = [i \in 1..l |-> q[i].n]
  BY <1>1
<1>4. f \in Seq(Nat) /\ Len(f) = l
  BY <1>1, <1>2, <1>3
<1>5. g = [i \in 1..l + 1 |-> Append(q, r)[i].n]
  BY <1>1
<1> HIDE DEF f, g
<1>6. Append(f, r.n) = [i \in 1..l + 1 |-> IF i = l + 1 THEN r.n ELSE f[i]]
  BY <1>1, <1>2, <1>4
<1>7. \A i \in 1..l + 1 : Append(q, r)[i].n = IF i = l + 1 THEN r.n ELSE f[i]
  BY <1>1, <1>3, LastOne
<1>8. g = Append(f, r.n)
  BY <1>5, <1>6, <1>7
<1> QED BY <1>4, <1>8 DEF f, g

\* Every step of the thread is a step of the channel, or none.
LEMMA ChannelStep ==
    ASSUME BoundsAssumption, Handle = "PK_ASYNC", TypeOK, StreamInv, AsyncInv, [Next]_vars
    PROVE  [Channel!Next]_(Channel!vars)
<1> DEFINE Numbers == [i \in DOMAIN heard |-> heard[i].n]
<1>1. CASE \E p \in Packet : Send(p)
  <2> PICK p \in Packet : Send(p)
    BY <1>1
  <2>1. Len(sent) < MaxPackets /\ sent' = Append(sent, p) /\ heard' = heard /\ rpc' = rpc
    BY DEF Send
  <2>2. Channel!Send(p)
    BY <2>1 DEF Channel!Send
  <2> QED BY <2>2 DEF Channel!Next
<1>2. CASE Hangup \/ Arrive
  BY <1>2 DEF Hangup, Arrive, Channel!vars
<1>3. CASE ReadHeader \/ ReadBody
  <2>1. sent' = sent /\ heard' = heard /\ Reading
    BY <1>3 DEF ReadHeader, ReadBody, OnlyThread, Reading
  <2>2. Reading'
    <3>1. CASE ReadHeader
      BY <3>1, CeilingHeader DEF Reading
    <3>2. CASE ReadBody
      BY <3>2, CeilingBody DEF Reading
    <3> QED BY <1>3, <3>1, <3>2
  <2> QED BY <2>1, <2>2 DEF Channel!vars, Reading
<1>4. CASE ReadHeaderEnd \/ ReadHeaderShort \/ ReadBodyShort
  <2>1. sent' = sent /\ heard' = heard /\ rpc \notin {"close", "closed"} /\ rpc' = "close"
    BY <1>4 DEF ReadHeaderEnd, ReadHeaderShort, ReadBodyShort, OnlyThread
  <2>2. Channel!Shut
    BY <2>1 DEF Channel!Shut
  <2> QED BY <2>2 DEF Channel!Next
<1>5. CASE Close
  <2>1. sent' = sent /\ heard' = heard /\ rpc = "close" /\ rpc' = "closed"
    BY <1>5 DEF Close
  <2> QED BY <2>1 DEF Channel!vars
<1>6. CASE Deliver
  <2> PICK n : n = Ceiling
    OBVIOUS
  <2>1. /\ n \in 1..Len(sent) /\ sent' = sent /\ sent[n].cmd # "enquire_link" /\ rpc = "deliver" /\ rpc' = "header"
    BY <1>6, CeilingDeliver DEF Deliver
  <2>2. LastHeard < n /\ \A k \in 1..Len(sent) : LastHeard < k /\ k < n => sent[k].cmd = "enquire_link"
    BY <2>1 DEF AsyncInv, Reading
  <2>3. PICK w \in {"ServerReceive", "ClientReceive"} : heard' = Append(heard, [n |-> n, by |-> w])
    BY <1>6, DeliverAsync
  <2>4. heard \in Seq(Heard) /\ [n |-> n, by |-> w] \in Heard /\ Number \subseteq Nat
    <3>1. MaxPackets \in Nat
      BY DEF BoundsAssumption
    <3> QED BY <2>1, <3>1, HeardFacts DEF Heard, Number
  <2>5. Numbers' = Append(Numbers, n) /\ Numbers \in Seq(Nat)
    <3>1. /\ [i \in DOMAIN Append(heard, [n |-> n, by |-> w]) |-> Append(heard, [n |-> n, by |-> w])[i].n]
               = Append(Numbers, n)
          /\ Numbers \in Seq(Nat)
      BY <2>4, NumberMore
    <3> QED BY <2>3, <3>1
  <2>6. Channel!Last = LastHeard /\ LastHeard \in Nat
    <3>1. DOMAIN heard = 1..Len(heard) /\ Len(heard) \in Nat
      BY <2>4
    <3>2. heard # <<>> <=> Len(heard) > 0
      BY <2>4
    <3>3. Len(Numbers) = Len(heard) /\ (Numbers = <<>> <=> Len(heard) = 0)
      BY <2>5, <3>1
    <3>4. heard # <<>> => Numbers[Len(heard)] = heard[Len(heard)].n
      BY <3>1, <3>2
    <3>5. Channel!Last = IF Numbers = <<>> THEN 0 ELSE Numbers[Len(Numbers)]
      BY DEF Channel!Last
    <3> HIDE DEF Numbers
    <3> QED BY <3>1, <3>2, <3>3, <3>4, <3>5, LastHeardType DEF LastHeard
  <2>7. sent \in Seq(Packet)
    BY DEF TypeOK
  <2>8. n \in DOMAIN sent /\ \A k \in LastHeard + 1..n - 1 : sent[k].cmd = "enquire_link"
    BY <2>1, <2>2, <2>6, <2>7
  <2>9. n > LastHeard
    BY <2>1, <2>2, <2>6
  <2>10. Channel!Hear
    BY <2>1, <2>5, <2>6, <2>8, <2>9 DEF Channel!Hear
  <2> QED BY <2>10 DEF Channel!Next
<1>7. CASE Take
  BY <1>7 DEF Take, AsyncInv
<1>8. CASE UNCHANGED vars
  BY <1>8 DEF vars, Channel!vars
<1> QED BY <1>1, <1>2, <1>3, <1>4, <1>5, <1>6, <1>7, <1>8 DEF Next, runCMPHandler

\* With PK_ASYNC the application hears whole packets, each once and in the order they were
\* sent, and misses none but those the thread answers itself, until the connection ends.
THEOREM IsPacketChannel ==
    ASSUME BoundsAssumption, Handle = "PK_ASYNC" PROVE Spec => Channel!Init /\ [][Channel!Next]_(Channel!vars)
<1>1. Init => TypeOK /\ StreamInv /\ AsyncInv /\ Channel!Init
  <2>1. ASSUME Init PROVE AsyncInv
    <3>1. NextUnit = [n |-> 1, i |-> 1]
      BY <2>1 DEF Init, NextUnit, Rest, End
    <3>2. LastHeard = 0 /\ Ceiling = 1 /\ queue = <<>> /\ Len(sent) = 0
      BY <2>1, <3>1 DEF Init, LastHeard, Ceiling
    <3> QED BY <3>2 DEF AsyncInv
  <2>2. ASSUME Init PROVE Channel!Init
    BY <2>2 DEF Init, Channel!Init
  <2> QED BY <2>1, <2>2, StreamInit
<1>2. TypeOK /\ StreamInv /\ AsyncInv /\ [Next]_vars => (TypeOK /\ StreamInv /\ AsyncInv)'
  BY TypeStep, StreamStep, AsyncStep
<1>3. TypeOK /\ StreamInv /\ AsyncInv /\ [Next]_vars => [Channel!Next]_(Channel!vars)
  BY ChannelStep
<1> QED BY <1>1, <1>2, <1>3, PTL DEF Spec

=============================================================================

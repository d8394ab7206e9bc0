---------------------------- MODULE PacketNumbers ----------------------------
(***************************************************************************)
(* getSequence() of global_inc/packet.h, which numbers the packets.        *)
(***************************************************************************)
EXTENDS Integers, Sequences

CONSTANT Limit    \* 0x7FFFFFFF, the number getSequence never gives

LimitAssumption == Limit \in Nat /\ Limit > 1

VARIABLES
    msnSequence,
    given           \* the last Limit - 1 numbers, the newest last

vars == <<msnSequence, given>>

-----------------------------------------------------------------------------
Init == msnSequence = 0 /\ given = <<>>

NextSequence == IF msnSequence + 1 >= Limit THEN 1 ELSE msnSequence + 1

getSequence ==
    /\ msnSequence' = NextSequence
    /\ given' = Append(IF Len(given) = Limit - 1 THEN Tail(given) ELSE given, msnSequence')

Next == getSequence

Spec == Init /\ [][Next]_vars

-----------------------------------------------------------------------------
\* The counter stays below the limit.
TypeOK ==
    /\ msnSequence \in 0..Limit - 1
    /\ given \in Seq(Nat) /\ Len(given) <= Limit - 1

\* The counter wraps without giving 0, which no packet has, and gives a number again
\* only after all the others (packet.h:231-238).
NoNumberTwice ==
    /\ \A i \in DOMAIN given : given[i] \in 1..Limit - 1
    /\ \A i, j \in DOMAIN given : given[i] = given[j] => i = j
=============================================================================

------------------------------- MODULE Helpers -------------------------------
(***************************************************************************)
(* The string helpers of global_inc/utility.h, tried on every short string,*)
(* which is a sequence of characters.                                      *)
(***************************************************************************)
EXTENDS Integers, Sequences, FiniteSets
SX == INSTANCE SequencesExt

CONSTANTS
    Chars,    \* the characters of the strings
    White,    \* those trim() takes off: blank, newline, return, tab
    Mark,     \* a character that is in none of them
    MaxLen    \* bound: characters of a string

MarkAssumption == White \subseteq Chars /\ Mark \notin Chars

VARIABLES str, vData

vars == <<str, vData>>

Code(s) == {s[k] : k \in DOMAIN s}

-----------------------------------------------------------------------------
RECURSIVE BugTokens(_, _)
BugTokens(s, delim) ==
    LET ends == {k \in DOMAIN s : s[k] \in delim} \cup {Len(s) + 1}
        e    == CHOOSE k \in ends : \A j \in ends : k <= j
    IN IF s = <<>> THEN <<>>
       ELSE <<SubSeq(s, 1, e - 1)>> \o BugTokens(SubSeq(s, e + 1, Len(s)), delim)

\* strtok: the runs of characters that are no delimiters.
RECURSIVE Tokens(_, _)
Tokens(s, delim) ==
    LET from == {k \in DOMAIN s : s[k] \notin delim}
        b    == CHOOSE k \in from : \A j \in from : k <= j
        ends == {k \in b..Len(s) : s[k] \in delim} \cup {Len(s) + 1}
        e    == CHOOSE k \in ends : \A j \in ends : k <= j
    IN IF from = {} THEN <<>>
       ELSE <<SubSeq(s, b, e - 1)>> \o Tokens(SubSeq(s, e + 1, Len(s)), delim)

\* Appended to what the vector, or put to what the set, has already; the size of it
\* all is returned.
spliteVector(s, delim, v) == [data |-> v \o Tokens(s, delim), size |-> Len(v) + Len(Tokens(s, delim))]
spliteSet(s, delim, S)    == LET T == S \cup Code(Tokens(s, delim)) IN [data |-> T, size |-> Cardinality(T)]

trim(s) ==
    LET black == {k \in DOMAIN s : s[k] \notin White}
    IN IF black = {} THEN <<>>
       ELSE SubSeq(s, CHOOSE k \in black : \A j \in black : k <= j,
                      CHOOSE k \in black : \A j \in black : k >= j)

\* std::string::find from start_pos on; 0 is npos.
Find(s, from, start) ==
    LET at == {k \in start..Len(s) - Len(from) + 1 : SubSeq(s, k, k + Len(from) - 1) = from}
    IN IF at = {} THEN 0 ELSE CHOOSE k \in at : \A j \in at : k <= j

\* The search goes on behind what was put in.  An empty from is found again and again:
\* the loop of the code does not end then.
RECURSIVE Replaced(_, _, _, _)
Replaced(s, from, to, start) ==
    LET k == Find(s, from, start)
    IN IF k = 0 THEN s
       ELSE Replaced(SubSeq(s, 1, k - 1) \o to \o SubSeq(s, k + Len(from), Len(s)), from, to, k + Len(to))

ReplaceAll(s, from, to) == Replaced(s, from, to, 1)

\* strlen is positive and less than the size of the buffer.
isValidStr(s, nMaxSize) == Len(s) \in 1..nMaxSize - 1

-----------------------------------------------------------------------------
Init == str = <<>> /\ vData = <<>>

Type(c) ==
    /\ Len(str) < MaxLen
    /\ str' = Append(str, c)
    /\ UNCHANGED vData

Splite(delim) ==
    /\ vData = <<>>
    /\ vData' = spliteVector(str, delim, vData).data
    /\ UNCHANGED str

Trim ==
    /\ str' = trim(str)
    /\ UNCHANGED vData

Next == \/ \E c \in Chars : Type(c)
        \/ \E delim \in SUBSET Chars : Splite(delim)
        \/ Trim

Spec == Init /\ [][Next]_vars

-----------------------------------------------------------------------------
\* Strings stay within their bound.
TypeOK ==
    /\ str \in Seq(Chars) /\ Len(str) <= MaxLen
    /\ \A k \in DOMAIN vData : isValidStr(vData[k], MaxLen + 1)

\* The pieces of a string are its characters other than delimiters, in order, and
\* there are as many as runs of them: no piece is empty and none goes over a delimiter
\* (utility.h:49-75).
SplitKeepsText ==
    \A delim \in SUBSET Chars :
        LET v      == spliteVector(str, delim, <<>>)
            begins == {k \in DOMAIN str : str[k] \notin delim /\ (k = 1 \/ str[k - 1] \in delim)}
        IN /\ SX!FlattenSeq(v.data) = SelectSeq(str, LAMBDA c : c \notin delim)
           /\ v.size = Cardinality(begins)
           /\ spliteSet(str, delim, {}).size <= v.size

\* What trim() takes off is white, and what it leaves begins and ends with something
\* that is not, or is empty (utility.h:165-172).
TrimsTheEnds ==
    LET t == trim(str)
    IN /\ t = <<>> \/ (t[1] \notin White /\ t[Len(t)] \notin White)
       /\ \E i \in 0..Len(str) : \E j \in i..Len(str) :
             /\ SubSeq(str, i + 1, j) = t
             /\ Code(SubSeq(str, 1, i)) \cup Code(SubSeq(str, j + 1, Len(str))) \subseteq White

\* Replacing by something new and back gives the string again, and in between nothing
\* of it is left; replacing by something longer that has it inside ends (utility.h:222-231).
ReplaceIsUndone ==
    \A from \in UNION {[1..k -> Chars] : k \in 1..2} :
        LET marked == ReplaceAll(str, from, <<Mark>>)
        IN /\ ReplaceAll(marked, <<Mark>>, from) = str
           /\ Find(marked, from, 1) = 0
           /\ ReplaceAll(str, from, <<Mark>> \o from) = ReplaceAll(marked, <<Mark>>, <<Mark>> \o from)
=============================================================================

------------------------------ MODULE Utf8Text ------------------------------
(***************************************************************************)
(* A buffer worked on with the functions of global_inc/utf8.h, beside the  *)
(* text it stands for: the sequence of codepoints a reader would write     *)
(* down.  The functions are written over bytes and loops; what each of them*)
(* promises is said here over codepoints, for every buffer that can be     *)
(* reached and every sample it can be compared with.                       *)
(***************************************************************************)
EXTENDS Utf8

CONSTANTS
    Chars,      \* the codepoints that are typed
    Samples,    \* texts the buffer is set to, extended by and compared with
    Fragments,  \* byte strings, well formed or not, that may follow the buffer
    MaxText,    \* bound: codepoints in the buffer
    Room        \* bytes of the buffer, without the terminator

VARIABLES buf, text

vars == <<buf, text>>

RECURSIVE Bytes(_)
Bytes(t) == IF t = <<>> THEN <<>> ELSE Encoded(Head(t)) \o Bytes(Tail(t))

RECURSIVE Decoded(_, _)
Decoded(s, i) ==
    LET c == utf8codepoint(s, i) IN IF At(s, i) = NUL THEN <<>> ELSE <<c.cp>> \o Decoded(s, c.next)

Init == buf = <<>> /\ text = <<>>

Type(c) ==
    LET r == utf8catcodepoint(buf, Len(buf) + 1, c, Room - Len(buf))
    IN /\ Len(text) < MaxText
       /\ buf'  = r.str
       /\ text' = IF r.end = Null THEN text ELSE Append(text, c)

Set(t) ==
    /\ Len(Bytes(t)) <= Room
    /\ buf'  = utf8cpy(Bytes(t))
    /\ text' = t

Extend(t) ==
    /\ Len(text) + Len(t) <= MaxText
    /\ Len(buf) + Len(Bytes(t)) <= Room
    /\ buf'  = utf8cat(buf, Bytes(t))
    /\ text' = text \o t

Lower == /\ buf'  = utf8lwr(buf)
         /\ text' = [k \in DOMAIN text |-> utf8lwrcodepoint(text[k])]

Upper == /\ buf'  = utf8upr(buf)
         /\ text' = [k \in DOMAIN text |-> utf8uprcodepoint(text[k])]

Next == \/ \E c \in Chars : Type(c)
        \/ \E t \in Samples : Set(t) \/ Extend(t)
        \/ Lower
        \/ Upper

Spec == Init /\ [][Next]_vars

-----------------------------------------------------------------------------
\* References over codepoints.

\* Where the k-th codepoint of a text begins.
Pos(t, k) == Len(Bytes(SubSeq(t, 1, k - 1))) + 1

Occurs(t, n, k) == k + Len(n) - 1 <= Len(t) /\ SubSeq(t, k, k + Len(n) - 1) = n

FirstPos(t, K) == IF K = {} THEN Null ELSE Pos(t, Min(K))
LastPos(t, K)  == IF K = {} THEN Null ELSE Pos(t, Max(K))

In(t, n) == {k \in DOMAIN t : Occurs(t, n, k)}

Codes(t) == {t[k] : k \in DOMAIN t}

Folded(t) == [k \in DOMAIN t |-> utf8lwrcodepoint(t[k])]

Order(t, u) ==
    LET D == {k \in 1..Max({Len(t), Len(u)}) : At(t, k) # At(u, k)}
    IN IF D = {} THEN 0 ELSE Sign(At(t, Min(D)), At(u, Min(D)))

\* How many codepoints a text begins with that satisfy the set's predicate.
Leading(t, S) == Max({k \in 0..Len(t) : Codes(SubSeq(t, 1, k)) \subseteq S})

-----------------------------------------------------------------------------
\* The buffer holds bytes, and as many as it has room for: neither an append nor a
\* change of case writes past its end.
TypeOK == /\ buf \in Seq(1..255)
          /\ Len(buf) <= Room
          /\ text \in Seq(Nat \ {0})

\* Whatever was typed, appended and changed in place, the bytes are well formed and
\* say the text: utf8lwr and utf8upr write each codepoint over the old one, so its
\* size must not change (utf8.h:1253-1297).
SaysText == Decoded(buf, 1) = text /\ utf8valid(buf) = Null

\* The functions that count letters, in four ways, agree with each other and with
\* the text, and the offset behind each letter is where the next one begins
\* (utf8.h:459-493, 865-876, 1619-1704).
Counts ==
    /\ utf8len(buf) = Len(text) /\ GetUtf8LetterNumber(buf) = Len(text)
    /\ \A k \in 1..Len(text) + 1 :
          LET w == GetUtf8Word(buf, k)
          IN w.num = Min({k, Len(text)}) /\ w.offset = Pos(text, w.num + 1) - 1
    /\ \A n \in 1..Len(text) + 1 : utf8_substr(buf, 0, n) = Bytes(SubSeq(text, 1, Min({n, Len(text)})))

\* Comparing bytes compares codepoints; cutting both strings to n bytes first makes
\* no difference to utf8ncmp, and a copy cut to n bytes is a prefix.
Ordered ==
    \A t \in Samples : LET s == Bytes(t) IN
        /\ utf8cmp(buf, s) = Order(text, t)
        /\ \A n \in 0..Room : utf8ncmp(buf, s, n) = utf8cmp(utf8ndup(buf, n, TRUE)[1], utf8ndup(s, n, TRUE)[1])
        /\ utf8dup(s, TRUE) = utf8ndup(s, Len(s), TRUE)

\* Strings that differ in case only are equal for utf8casecmp, utf8ncasecmp and
\* utf8casestr, also when n ends inside a codepoint, and no others are.
CaseBlind ==
    \A t \in Samples \cup {text} : \A s \in {Bytes(t), utf8upr(Bytes(t)), utf8lwr(Bytes(t))} :
        /\ (utf8casecmp(buf, s) = 0) = (Folded(text) = Folded(t))
        /\ utf8casecmp(buf, s) = -utf8casecmp(s, buf)
        /\ Folded(text) = Folded(t) =>
              /\ utf8casestr(buf, s) = 1
              /\ \A n \in 0..Room : utf8ncasecmp(buf, s, n) = 0
        /\ utf8ncasecmp(buf, s, Room + 1) = utf8casecmp(buf, s)

\* The two tables of utf8.h:1299-1617 are each other's inverse: going to one case
\* and back loses nothing that going there directly would have kept, a codepoint is
\* not of both cases, and both forms have the same size.
CasePairs ==
    \A c \in Codes(text) : LET l == utf8lwrcodepoint(c)  u == utf8uprcodepoint(c) IN
        /\ utf8lwrcodepoint(u) = l /\ utf8uprcodepoint(l) = u
        /\ ~(utf8islower(c) /\ utf8isupper(c))
        /\ {utf8codepointsize(l), utf8codepointsize(u)} = {utf8codepointsize(c)}

\* A codepoint of the buffer is found, and where it is first; of a set of them, the
\* first that is in the set (utf8.h:268-318, 802-863).  Parts of codepoints, which
\* share their first byte, are not mistaken for them.
Finds ==
    \A t \in Samples :
        /\ \A c \in Codes(t) : utf8chr(buf, c) = FirstPos(text, In(text, <<c>>))
        /\ utf8pbrk(buf, Bytes(t)) = FirstPos(text, {k \in DOMAIN text : text[k] \in Codes(t)})

\* utf8valid accepts exactly the strings that encode their codepoints in the
\* fewest bytes (utf8.h:1034-1131).
ValidIsEncoded ==
    \A f \in Fragments : LET d == Decoded(buf \o f, 1) IN
        (utf8valid(buf \o f) = Null) = (Codes(d) \subseteq Nat /\ Bytes(d) = buf \o f)

\* utf8spn and utf8cspn count the codepoints at the start of the buffer that are in a
\* set, or are not, as utf8.h:101-103 and 154-156 say - for a set whose last codepoint
\* is not its only one of that value.  Of other sets they leave the last codepoint out,
\* and nothing is stated.
Spans ==
    \A t \in Samples \ {<<>>} : LET set == Bytes(Append(t, t[1])) IN
        /\ utf8spn(buf, set)  = Leading(text, Codes(t))
        /\ utf8cspn(buf, set) = Leading(text, Codes(text) \ Codes(t))

\* utf8str returns the first occurrence of the needle, or null when it has none, as
\* utf8.h:158 says - when nothing before it begins like the needle: behind what does,
\* an occurrence may be passed over, and nothing is stated.  utf8rchr, over memory that
\* goes on behind the terminator, returns the last occurrence unless the string ends
\* with it (utf8.h:715-800, 937-982).
FindsFirst ==
    \A t \in Samples \ {<<>>} : LET K == In(text, t) IN
        /\ (K # {} => Min(K) = Min(In(text, <<t[1]>>))) => utf8str(buf, Bytes(t)) = FirstPos(text, K)
        /\ \A c \in Codes(t) : At(text, Len(text)) # c =>
              utf8rchr(buf \o <<NUL>> \o Bytes(t), c) = LastPos(text, In(text, <<c>>))

\* The n bytes of utf8ncpy and utf8ncat, as utf8.h:119-134 says: of a string of more
\* than n bytes just the first n are written; of another, the n bytes are the string
\* and NULs; and utf8ncat writes as many of the string's, and one NUL.  What utf8ncpy
\* writes after n bytes, n = 0 and the empty string are not as the header says, and
\* nothing is stated of them (utf8.h:606-676).
WritesTheseBytes ==
    \A n \in 1..Room + 1 : buf # <<>> =>
        /\ n < Len(buf) => Len(utf8ncpy(buf, n)) = n
        /\ SubSeq(utf8ncpy(buf, n), 1, n) = [k \in 1..n |-> At(buf, k)]
        /\ utf8ncat(buf, n) = Append(utf8ndup(buf, n, TRUE)[1], NUL)
=============================================================================

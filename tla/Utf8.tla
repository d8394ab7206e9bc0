-------------------------------- MODULE Utf8 --------------------------------
(***************************************************************************)
(* global_inc/utf8.h: the functions on UTF-8 strings.                      *)
(*                                                                         *)
(* A C string is a sequence of bytes; reading at or after its end gives the*)
(* terminating NUL, and a sequence with a NUL inside is memory that goes on*)
(* after the terminator.  A pointer into it is an index from 1, and a null *)
(* pointer is 0.  char is signed, as in the builds of the project.         *)
(***************************************************************************)
EXTENDS Integers, Sequences, FiniteSets, FiniteSetsExt

NUL  == 0
Null == 0   \* the null pointer

At(s, i) == IF i \in 1..Len(s) THEN s[i] ELSE NUL

\* 0b10xxxxxx: the byte goes on with a codepoint.
Cont(b) == b \div 64 = 2

\* The number of bytes a first byte announces.
Width(b) ==
    IF b \div 8 = 30 THEN 4 ELSE IF b \div 16 = 14 THEN 3 ELSE IF b \div 32 = 6 THEN 2 ELSE 1

\* "do s++ while (0x80 == (0xc0 & *s))": the next byte that begins a codepoint.
Next1(s, i) == CHOOSE j \in i + 1..Len(s) + 1 :
    ~Cont(At(s, j)) /\ \A k \in i + 1..j - 1 : Cont(At(s, k))

Sign(x, y) == IF x < y THEN -1 ELSE IF x > y THEN 1 ELSE 0

(***************************************************************************)
(* One codepoint.                                                          *)
(***************************************************************************)
utf8codepointsize(chr) ==
    IF chr \in 0..127 THEN 1 ELSE IF chr \in 128..2047 THEN 2 ELSE IF chr \in 2048..65535 THEN 3 ELSE 4

\* The bytes utf8catcodepoint, utf8chr and utf8rchr make of a codepoint.
Encoded(chr) ==
    LET w == utf8codepointsize(chr)
    IN IF w = 1 THEN <<chr>>
       ELSE [k \in 1..w |-> IF k = 1 THEN 256 - 2^(8 - w) + chr \div 64^(w - 1)
                                     ELSE 128 + ((chr \div 64^(w - k)) % 64)]

utf8codepoint(s, i) ==
    LET w == Width(At(s, i))
    IN [cp   |-> IF w = 1 THEN (IF At(s, i) < 128 THEN At(s, i) ELSE At(s, i) - 256)
                 ELSE (At(s, i) % 2^(7 - w)) * 64^(w - 1)
                      + MapThenSumSet(LAMBDA k : (At(s, i + k) % 64) * 64^(w - 1 - k), 1..w - 1),
        next |-> i + w]

\* Writes chr over the bytes from i on, when n bytes are enough.
utf8catcodepoint(s, i, chr, n) ==
    LET e == Encoded(chr)
    IN IF Len(e) > n THEN [str |-> s, end |-> Null]
       ELSE [str |-> [k \in 1..Max({Len(s), i + Len(e) - 1}) |->
                        IF k \in i..i + Len(e) - 1 THEN e[k - i + 1] ELSE s[k]],
             end |-> i + Len(e)]

(***************************************************************************)
(* Upper and lower case.                                                   *)
(***************************************************************************)
\* The pairs that lie side by side: the even codepoint is upper case ...
EvenUpper == \h100..\h12f \cup \h132..\h137 \cup \h14a..\h177 \cup \h182..\h185 \cup \h1a0..\h1a5
             \cup \h1de..\h1ef \cup \h1f8..\h21f \cup \h222..\h233 \cup \h246..\h24f \cup \h3d8..\h3ef
\* ... or the odd one.
OddUpper == \h139..\h148 \cup \h179..\h17e \cup \h1af..\h1b0 \cup \h1b3..\h1b6 \cup \h1cd..\h1dc

LwrSwitch == {
    <<\h178, \hff>>,  <<\h243, \h180>>, <<\h18e, \h1dd>>, <<\h23d, \h19a>>, <<\h220, \h19e>>,
    <<\h1b7, \h292>>, <<\h1c4, \h1c6>>, <<\h1c7, \h1c9>>, <<\h1ca, \h1cc>>, <<\h1f1, \h1f3>>,
    <<\h1f7, \h1bf>>, <<\h187, \h188>>, <<\h18b, \h18c>>, <<\h191, \h192>>, <<\h198, \h199>>,
    <<\h1a7, \h1a8>>, <<\h1ac, \h1ad>>, <<\h1af, \h1b0>>, <<\h1b8, \h1b9>>, <<\h1bc, \h1bd>>,
    <<\h1f4, \h1f5>>, <<\h23b, \h23c>>, <<\h241, \h242>>, <<\h3fd, \h37b>>, <<\h3fe, \h37c>>,
    <<\h3ff, \h37d>>, <<\h37f, \h3f3>>, <<\h386, \h3ac>>, <<\h388, \h3ad>>, <<\h389, \h3ae>>,
    <<\h38a, \h3af>>, <<\h38c, \h3cc>>, <<\h38e, \h3cd>>, <<\h38f, \h3ce>>, <<\h370, \h371>>,
    <<\h372, \h373>>, <<\h376, \h377>>, <<\h3f4, \h3d1>>, <<\h3cf, \h3d7>>, <<\h3f9, \h3f2>>,
    <<\h3f7, \h3f8>>, <<\h3fa, \h3fb>>}

UprSwitch == {
    <<\hff, \h178>>,  <<\h180, \h243>>, <<\h1dd, \h18e>>, <<\h19a, \h23d>>, <<\h19e, \h220>>,
    <<\h292, \h1b7>>, <<\h1c6, \h1c4>>, <<\h1c9, \h1c7>>, <<\h1cc, \h1ca>>, <<\h1f3, \h1f1>>,
    <<\h1bf, \h1f7>>, <<\h188, \h187>>, <<\h18c, \h18b>>, <<\h192, \h191>>, <<\h199, \h198>>,
    <<\h1a8, \h1a7>>, <<\h1ad, \h1ac>>, <<\h1b0, \h1af>>, <<\h1b9, \h1b8>>, <<\h1bd, \h1bc>>,
    <<\h1f5, \h1f4>>, <<\h23c, \h23b>>, <<\h242, \h241>>, <<\h37b, \h3fd>>, <<\h37c, \h3fe>>,
    <<\h37d, \h3ff>>, <<\h3f3, \h37f>>, <<\h3ac, \h386>>, <<\h3ad, \h388>>, <<\h3ae, \h389>>,
    <<\h3af, \h38a>>, <<\h3cc, \h38c>>, <<\h3cd, \h38e>>, <<\h3ce, \h38f>>, <<\h371, \h370>>,
    <<\h373, \h372>>, <<\h377, \h376>>, <<\h3d1, \h3f4>>, <<\h3d7, \h3cf>>, <<\h3f2, \h3f9>>,
    <<\h3f8, \h3f7>>, <<\h3fb, \h3fa>>}

Switch(table, cp) ==
    IF \E p \in table : p[1] = cp THEN (CHOOSE p \in table : p[1] = cp)[2] ELSE cp

utf8lwrcodepoint(cp) ==
    IF cp \in \h41..\h5a \cup \hc0..\hd6 \cup \hd8..\hde \cup \h391..\h3a1 \cup \h3a3..\h3ab THEN cp + 32
    ELSE IF cp \in EvenUpper THEN 2 * (cp \div 2) + 1
    ELSE IF cp \in OddUpper  THEN 2 * ((cp + 1) \div 2)
    ELSE Switch(LwrSwitch, cp)

utf8uprcodepoint(cp) ==
    IF cp \in \h61..\h7a \cup \he0..\hf6 \cup \hf8..\hfe \cup \h3b1..\h3c1 \cup \h3c3..\h3cb THEN cp - 32
    ELSE IF cp \in EvenUpper THEN 2 * (cp \div 2)
    ELSE IF cp \in OddUpper  THEN 2 * ((cp - 1) \div 2) + 1
    ELSE Switch(UprSwitch, cp)

utf8islower(chr) == chr # utf8uprcodepoint(chr)
utf8isupper(chr) == chr # utf8lwrcodepoint(chr)

\* The string is changed in place: the next codepoint is looked for where it was
\* before the new one is written.
RECURSIVE Recased(_, _, _)
Recased(s, i, up) ==
    LET c  == utf8codepoint(s, i)
        to == IF up THEN utf8uprcodepoint(c.cp) ELSE utf8lwrcodepoint(c.cp)
    IN IF c.cp = NUL THEN s
       ELSE Recased(IF to = c.cp THEN s ELSE utf8catcodepoint(s, i, to, utf8codepointsize(to)).str,
                    c.next, up)

utf8lwr(s) == Recased(s, 1, FALSE)
utf8upr(s) == Recased(s, 1, TRUE)

(***************************************************************************)
(* Sizes and copies.                                                       *)
(***************************************************************************)
utf8size(s) == CHOOSE n \in 1..Len(s) + 1 : At(s, n) = NUL /\ \A k \in 1..n - 1 : s[k] # NUL

Str(s) == SubSeq(s, 1, utf8size(s) - 1)

utf8cpy(s)    == Str(s)
utf8cat(d, s) == Str(d) \o Str(s)

\* malloc may fail: <<>> is the null pointer, <<copy>> a new string.
utf8dup(s, malloc)     == IF malloc THEN <<Str(s)>> ELSE <<>>
utf8ndup(s, n, malloc) == IF malloc THEN <<SubSeq(s, 1, Min({n, utf8size(s) - 1}))>> ELSE <<>>

BugCopied(s, n) ==
    CHOOSE k \in 1..Len(s) + 2 : /\ At(s, k + 1) = NUL \/ k = n + 1
                                 /\ \A j \in 1..k - 1 : At(s, j + 1) # NUL /\ j # n + 1

\* "do *d++ = *s++ while ('\0' != *s && 0 != --n)": at least one byte; with n = 0 the
\* counter wraps and never stops the loop.
Copied(s, n) ==
    CHOOSE k \in 1..Len(s) + 1 : /\ At(s, k + 1) = NUL \/ k = n
                                 /\ \A j \in 1..k - 1 : At(s, j + 1) # NUL /\ j # n

\* The bytes written: after dst's own, and from the start of dst on (n > 0: for 0
\* the second loop would write 2^64 NULs).
utf8ncat(s, n) == Append([k \in 1..Copied(s, n) |-> At(s, k)], NUL)
utf8ncpy(s, n) ==
    LET k    == Copied(s, n)
        left == IF At(s, k + 1) = NUL THEN n - (k - 1) ELSE 0   \* --n is skipped at the NUL
    IN [j \in 1..k + left |-> IF j <= k THEN At(s, j) ELSE NUL]

RECURSIVE Letters(_, _)
Letters(s, i) == IF At(s, i) = NUL THEN 0 ELSE 1 + Letters(s, i + Width(s[i]))
utf8len(s) == Letters(s, 1)

Starts(s) == {i \in 1..utf8size(s) - 1 : ~Cont(s[i])}
GetUtf8LetterNumber(s) == Cardinality(Starts(s))

\* The number of letters read up to the wanted one, and the offset (from 0) after it.
GetUtf8Word(s, wantedNum) ==
    LET n == GetUtf8LetterNumber(s)
    IN IF wantedNum \in 1..n - 1
       THEN [num    |-> wantedNum,
             offset |-> (CHOOSE i \in Starts(s) :
                            Cardinality({k \in Starts(s) : k <= i}) = wantedNum + 1) - 1]
       ELSE [num |-> n, offset |-> utf8size(s) - 1]

\* The offsets (from 0) of the letters and the end; <<-1>> ends them at a bad byte.
RECURSIVE Offsets(_, _)
Offsets(s, i) ==
    IF i > Len(s) THEN <<i - 1>>
    ELSE IF s[i] \div 8 > 30 \/ Cont(s[i]) THEN <<-1>>
    ELSE <<i - 1>> \o Offsets(s, i + Width(s[i]))

\* std::string::substr takes a start and a count; it is given the offset of the end.
utf8_substr(s, start, leng) ==
    LET o == Offsets(s, 1)
        q == Len(o) - 1
    IN IF leng = 0 \/ o[q + 1] = -1 \/ start >= q THEN <<>>
       ELSE SubSeq(s, o[start + 1] + 1,
                   Min({Len(s), o[start + 1] + o[Min({q, start + leng}) + 1]}))

(***************************************************************************)
(* Comparison.                                                             *)
(***************************************************************************)
\* The first of the first n bytes in which two strings differ.
Differ(s1, s2, n) == {i \in 1..Min({n, Max({utf8size(s1), utf8size(s2)})}) : At(s1, i) # At(s2, i)}

utf8ncmp(s1, s2, n) ==
    IF Differ(s1, s2, n) = {} THEN 0
    ELSE LET i == Min(Differ(s1, s2, n)) IN Sign(At(s1, i), At(s2, i))

utf8cmp(s1, s2) == utf8ncmp(s1, s2, Max({utf8size(s1), utf8size(s2)}))

\* Equal up to case, or decided by the codepoints as they are, not as lowered.
RECURSIVE CaseCmp(_, _, _, _)
CaseCmp(s1, i, s2, j) ==
    LET c1 == utf8codepoint(s1, i)
        c2 == utf8codepoint(s2, j)
    IN IF c1.cp = NUL /\ c2.cp = NUL THEN 0
       ELSE IF utf8lwrcodepoint(c1.cp) = utf8lwrcodepoint(c2.cp) THEN CaseCmp(s1, c1.next, s2, c2.next)
       ELSE Sign(c1.cp, c2.cp)
utf8casecmp(s1, s2) == CaseCmp(s1, 1, s2, 1)

\* The widths of a first byte for which n bytes are too few; the first bytes are
\* then compared by their marks alone.
Cut(b1, b2, n) == {w \in 2..4 : n < w /\ (Width(b1) = w \/ Width(b2) = w)}

RECURSIVE NCaseCmp(_, _, _, _, _)
NCaseCmp(s1, i, s2, j, n) ==
    LET c1  == utf8codepoint(s1, i)
        c2  == utf8codepoint(s2, j)
        cut == Cut(At(s1, i), At(s2, j), n)
    IN IF n = 0 THEN 0
       ELSE IF cut # {}
       THEN Sign(At(s1, i) \div 2^(7 - Min(cut)), At(s2, j) \div 2^(7 - Min(cut)))
       ELSE IF c1.cp = NUL /\ c2.cp = NUL THEN 0
       ELSE IF utf8lwrcodepoint(c1.cp) = utf8lwrcodepoint(c2.cp)
       THEN NCaseCmp(s1, c1.next, s2, c2.next, n - utf8codepointsize(c1.cp))
       ELSE Sign(c1.cp, c2.cp)

BugNcasecmp(s1, s2, n) == utf8ncmp(s1, s2, n)

utf8ncasecmp(s1, s2, n) == NCaseCmp(s1, 1, s2, 1, n)

(***************************************************************************)
(* Search.                                                                 *)
(***************************************************************************)
\* How far two strings agree from i and 1 on.
Agree(h, i, n) == CHOOSE k \in 0..Len(n) :
    /\ \A j \in 0..k - 1 : At(h, i + j) = n[j + 1]
    /\ k = Len(n) \/ At(h, i + k) # n[k + 1]

\* After a partial match the search goes on behind it, not behind where it began.
RECURSIVE StrFrom(_, _, _)
StrFrom(h, i, n) ==
    LET k == Agree(h, i, n)
    IN IF At(h, i) = NUL THEN Null
       ELSE IF k = Len(n) THEN i
       ELSE IF At(h, i + k) = NUL THEN Null
       ELSE StrFrom(h, Next1(h, i + k), n)
utf8str(h, n) == IF n = <<>> THEN 1 ELSE StrFrom(h, 1, n)

utf8chr(s, chr) == IF chr = 0 THEN utf8size(s) ELSE utf8str(s, Encoded(chr))

\* Where the needle ends, or the codepoints at which it and the haystack part.
RECURSIVE CaseMatch(_, _, _, _)
CaseMatch(h, i, n, j) ==
    LET c == utf8codepoint(h, i)
        d == utf8codepoint(n, j)
    IN IF c.cp # NUL /\ d.cp # NUL /\ utf8lwrcodepoint(c.cp) = utf8lwrcodepoint(d.cp)
       THEN CaseMatch(h, c.next, n, d.next)
       ELSE [found |-> d.cp = NUL, end |-> c.cp = NUL, next |-> c.next]

RECURSIVE CaseStrFrom(_, _, _)
CaseStrFrom(h, i, n) ==
    LET m == CaseMatch(h, i, n, 1)
    IN IF m.found THEN i ELSE IF m.end THEN Null ELSE CaseStrFrom(h, m.next, n)
utf8casestr(h, n) == IF n = <<>> THEN 1 ELSE CaseStrFrom(h, 1, n)

\* c is an array of five bytes: behind the codepoint it is NUL, and so may be s.
RunLen(s, i, c) == CHOOSE k \in 0..5 :
    /\ \A j \in 0..k - 1 : At(s, i + j) = At(c, j + 1)
    /\ k = 5 \/ At(s, i + k) # At(c, k + 1)

RECURSIVE RchrFrom(_, _, _, _)
RchrFrom(s, i, c, match) ==
    LET k == RunLen(s, i, c)
    IN IF At(s, i) = NUL THEN match
       ELSE IF At(c, k + 1) = NUL THEN RchrFrom(s, i + k, c, i)
       ELSE IF At(s, i + k) = NUL THEN match
       ELSE RchrFrom(s, Next1(s, i + k), c, match)
utf8rchr(s, chr) == IF chr = 0 THEN utf8size(s) ELSE RchrFrom(s, 1, Encoded(chr), Null)

\* The loop of utf8cspn, utf8spn and utf8pbrk over a set of codepoints: whether it
\* came to the end of the set, and how many bytes agreed then.
RECURSIVE Scan(_, _, _, _, _)
Scan(s, i, a, k, offset) ==
    IF At(a, k) = NUL THEN [ended |-> TRUE, offset |-> offset]
    ELSE IF ~Cont(a[k]) /\ offset > 0 THEN [ended |-> FALSE, offset |-> offset]
    ELSE IF a[k] = At(s, i + offset) THEN Scan(s, i, a, k + 1, offset + 1)
    ELSE Scan(s, i, a, Next1(a, k), 0)

\* A codepoint that agrees with the last one of the set has offset > 0 at its end;
\* of the three functions only utf8pbrk looks.
RECURSIVE CspnFrom(_, _, _)
CspnFrom(s, i, reject) ==
    IF At(s, i) = NUL \/ ~Scan(s, i, reject, 1, 0).ended THEN 0
    ELSE 1 + CspnFrom(s, Next1(s, i), reject)
utf8cspn(s, reject) == CspnFrom(s, 1, reject)

RECURSIVE SpnFrom(_, _, _)
SpnFrom(s, i, accept) ==
    LET r == Scan(s, i, accept, 1, 0)
    IN IF At(s, i) = NUL \/ r.ended THEN 0 ELSE 1 + SpnFrom(s, i + r.offset, accept)
utf8spn(s, accept) == SpnFrom(s, 1, accept)

RECURSIVE PbrkFrom(_, _, _)
PbrkFrom(s, i, accept) ==
    LET r == Scan(s, i, accept, 1, 0)
    IN IF At(s, i) = NUL THEN Null
       ELSE IF ~r.ended \/ r.offset > 0 THEN i
       ELSE PbrkFrom(s, Next1(s, i), accept)

utf8pbrk(s, accept) == PbrkFrom(s, 1, accept)

(***************************************************************************)
(* Validity.                                                               *)
(***************************************************************************)
\* The codepoint at i is broken off, too long, or encoded in more bytes than needed.
BadAt(s, i) ==
    LET b == s[i]
        w == Width(b)
    IN \/ \E k \in 1..w - 1 : ~Cont(At(s, i + k))
       \/ w > 1 /\ Cont(At(s, i + w))
       \/ w = 4 /\ b % 8 = 0  /\ (At(s, i + 1) \div 16) % 4 = 0
       \/ w = 3 /\ b % 16 = 0 /\ (At(s, i + 1) \div 32) % 2 = 0
       \/ w = 2 /\ (b \div 2) % 16 = 0
       \/ w = 1 /\ b > 127

RECURSIVE ValidFrom(_, _)
ValidFrom(s, i) ==
    IF At(s, i) = NUL THEN Null
    ELSE IF BadAt(s, i) THEN i
    ELSE ValidFrom(s, i + Width(s[i]))
utf8valid(s) == ValidFrom(s, 1)
=============================================================================

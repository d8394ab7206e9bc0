------------------------------- MODULE MCParts -------------------------------
(***************************************************************************)
(* Small instances of the parts of Parts and, beside them, of the helpers  *)
(* and the text functions, whose definitions are recursive.                *)
(***************************************************************************)
EXTENDS Parts, TLC

CONSTANTS n1, n2, n3, blank, mark

VARIABLES
    str, vData,                                                             \* Helpers
    buf, text                                                               \* Utf8Text

helpers == <<str, vData>>
utf8    == <<buf, text>>

-----------------------------------------------------------------------------
\* Absolute and relative paths that share directories, a name alone, one under a file.
SomePaths == {<<Root, n3>>, <<Root, n1, n3>>, <<Root, n1, n2, n3>>, <<n1, n2, n3>>, <<n3>>, <<Root, n2, n1, n3>>}
AFile     == {<<Root, n2>>}

\* The time as key and the queue's id as filter; one given key and two filters.
Unnamed == {<<-1, -1>>}
Named   == {<<9, 5>>, <<9, 7>>}

UpTo(k, elements) == UNION {[1..i -> elements] : i \in 0..k}

\* a and A, e acute in both cases (which share their first byte), a codepoint of three
\* bytes and one of four.
Letters == {97, 65, 233, 201, 20013, 128512}
Texts   == UpTo(2, Letters)

\* Every codepoint the case tables speak of, and the bounds of the encodings.
Latin == 1..1023 \cup {1024, 2047, 2048, 65535, 65536, 1114111}

\* A first byte of each width, good and bad, and up to three bytes behind it.
Broken == {<<l>> \o c : l \in {65, 128, 193, 194, 224, 240, 248}, c \in UpTo(3, {65, 128, 144, 160})}

H == INSTANCE Helpers WITH Chars <- {n1, n2, blank}, White <- {blank}, Mark <- mark, MaxLen <- 5
U == INSTANCE Utf8Text WITH Chars <- Letters, Samples <- Texts, Fragments <- {<<>>}, MaxText <- 3, Room <- 9
V == INSTANCE Utf8Text WITH Chars <- Letters, Samples <- {<<>>}, Fragments <- Broken, MaxText <- 3, Room <- 12
C == INSTANCE Utf8Text WITH Chars <- Latin, Samples <- {<<>>}, Fragments <- {<<>>}, MaxText <- 1, Room <- 4

ASSUME HelpersAssumption == H!MarkAssumption

-----------------------------------------------------------------------------
TextUnits == {"helpers", "utf8", "valid", "case"}

MCInit == unit \in Units \cup TextUnits /\ Begin /\ H!Init /\ U!Init

MCNext ==
    \/ Next /\ UNCHANGED <<helpers, utf8>>
    \/ unit = "helpers" /\ H!Next /\ UNCHANGED <<vars, utf8>>
    \/ unit = "utf8"    /\ U!Next /\ UNCHANGED <<vars, helpers>>
    \/ unit = "valid"   /\ V!Next /\ UNCHANGED <<vars, helpers>>
    \/ unit = "case"    /\ C!Next /\ UNCHANGED <<vars, helpers>>

MCSpec == MCInit /\ [][MCNext]_<<vars, helpers, utf8>>

\* No action orders these.
Symmetry == Permutations(Object) \cup Permutations(Writers)

-----------------------------------------------------------------------------
(* Properties: what the modules state of them, their types included.       *)

\* The pieces of a string are its characters other than delimiters, in order and as
\* many as runs of them; what trim() takes off is white, and what it leaves neither
\* begins nor ends so; replacing by something new and back gives the string again
\* (spliteData, trim, ReplaceAll).
HelpersKeepWhatTheyGet ==
    unit = "helpers" =>
        H!TypeOK /\ H!SplitKeepsText /\ H!TrimsTheEnds /\ H!ReplaceIsUndone

\* The functions that read a text agree with each other and with the text: those that
\* count its letters; those that compare, by codepoint, up to n bytes or but for case,
\* also when n ends inside a codepoint; those that look for a codepoint or for one of a
\* set; utf8spn and utf8cspn for a set that repeats its last codepoint, utf8str for a
\* needle like which nothing before it begins, utf8rchr but at the very end.  utf8valid
\* accepts exactly the strings that encode their codepoints in the fewest bytes.
ReadsText ==
    /\ unit = "utf8" => /\ U!Counts  /\ U!Ordered  /\ U!CaseBlind
                        /\ U!Finds   /\ U!Spans    /\ U!FindsFirst
    /\ unit = "valid" => V!TypeOK /\ V!ValidIsEncoded

\* Whatever was typed, appended and changed in place, the bytes are well formed and say
\* the text (utf8lwr, utf8upr, utf8catcodepoint); of a text cut to n bytes utf8ncpy and
\* utf8ncat write just these, and of a shorter one all of it; the tables of
\* utf8lwrcodepoint and utf8uprcodepoint are each other's inverse and keep the size.
WritesText ==
    /\ unit = "utf8" => U!TypeOK /\ U!SaysText /\ U!WritesTheseBytes
    /\ unit = "case" => C!TypeOK /\ C!SaysText /\ C!CasePairs
=============================================================================

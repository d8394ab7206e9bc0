------------------------------- MODULE Mkdirp -------------------------------
(***************************************************************************)
(* mkdirp() of global_inc/utility.h: the directories above a file, made one*)
(* after the other, as _setLogPath calls it.  Several threads make paths   *)
(* that have directories in common; a mkdir may be refused, and a file may *)
(* have the name of a directory.                                           *)
(*                                                                         *)
(* A path is the sequence of its names; an absolute one begins with Root.  *)
(***************************************************************************)
EXTENDS Naturals, Sequences

CONSTANTS
    Threads,
    Root,    \* the "" before the first slash
    Paths,   \* what mkdirp is called with
    Plain,   \* plain files that exist
    Faults   \* whether mkdir is refused for lack of rights or space

PathsAssumption == \A p \in Paths : p # <<>> /\ p # <<Root>>

VARIABLES
    dirs,     \* directories that exist
    pc, path, \* each thread's step and argument
    at,       \* the names up to p, where the code has put the end of the string
    result,   \* what its last call returned
    refused   \* observer: that call was refused a mkdir

vars == <<dirs, pc, path, at, result, refused>>

Above(p) == SubSeq(p, 1, Len(p) - 1)

\* The part before the last slash, or all of it when there is none.
Dir(p) == IF Len(p) = 1 THEN p ELSE Above(p)

\* The end of the first name: the character before it is skipped, so the root is not made.
First(p) == IF p[1] = Root THEN 2 ELSE 1

Init ==
    /\ dirs = {<<>>, <<Root>>}
    /\ pc = [t \in Threads |-> "idle"] /\ path = [t \in Threads |-> <<>>]
    /\ at = [t \in Threads |-> 0]
    /\ result = [t \in Threads |-> TRUE] /\ refused = [t \in Threads |-> FALSE]

mkdirp(t, p) ==
    /\ pc[t] = "idle"
    /\ path' = [path EXCEPT ![t] = Dir(p)]
    /\ at'   = [at EXCEPT ![t] = First(Dir(p))]
    /\ pc'   = [pc EXCEPT ![t] = "make"]
    /\ refused' = [refused EXCEPT ![t] = FALSE]
    /\ UNCHANGED <<dirs, result>>

\* mkdir of one directory: done, EEXIST, or an error.
Makes(d)  == d \notin dirs \cup Plain /\ Above(d) \in dirs
Exists(d) == d \in dirs \cup Plain

Continue(t) == at' = [at EXCEPT ![t] = @ + 1] /\ UNCHANGED <<pc, result, refused>>

Fail(t) == /\ result' = [result EXCEPT ![t] = FALSE]
           /\ pc' = [pc EXCEPT ![t] = "idle"]
           /\ UNCHANGED at

BugMakeOn(t) ==
    LET d == SubSeq(path[t], 1, at[t])
    IN /\ pc[t] = "make" /\ at[t] <= Len(path[t])
       /\ \/ Makes(d) /\ dirs' = dirs \cup {d} /\ Continue(t)
          \/ ~Makes(d) /\ Continue(t) /\ UNCHANGED dirs
          \/ Faults /\ Makes(d) /\ Continue(t) /\ UNCHANGED dirs
       /\ UNCHANGED path

Make(t) ==
    LET d == SubSeq(path[t], 1, at[t])
    IN /\ pc[t] = "make" /\ at[t] <= Len(path[t])
       /\ \/ Makes(d)  /\ dirs' = dirs \cup {d} /\ Continue(t)
          \/ Exists(d) /\ Continue(t) /\ UNCHANGED dirs
          \/ ~Exists(d) /\ ~Makes(d) /\ Fail(t) /\ UNCHANGED <<dirs, refused>>
          \/ Faults /\ Makes(d) /\ Fail(t) /\ refused' = [refused EXCEPT ![t] = TRUE] /\ UNCHANGED dirs
       /\ UNCHANGED path

Return(t) ==
    /\ pc[t] = "make" /\ at[t] > Len(path[t])
    /\ result' = [result EXCEPT ![t] = TRUE]
    /\ pc'     = [pc EXCEPT ![t] = "idle"]
    /\ UNCHANGED <<dirs, path, at, refused>>

Next == \E t \in Threads : (\E p \in Paths : mkdirp(t, p)) \/ Make(t) \/ Return(t)

Spec == Init /\ [][Next]_vars

-----------------------------------------------------------------------------
Done(t) == pc[t] = "idle" /\ path[t] # <<>>

\* A directory is made in a directory that exists, never twice and never over a file,
\* and the root is not made.
TypeOK ==
    /\ \A d \in dirs \ {<<>>, <<Root>>} : Above(d) \in dirs /\ d \notin Plain
    /\ pc \in [Threads -> {"idle", "make"}]
    /\ \A t \in Threads : at[t] <= Len(path[t]) + 1

\* After TRUE everything on the path exists, a file in the place of the last directory
\* included (utility.h:99: EEXIST does not say of what).
TrueMeansThere ==
    \A t \in Threads : Done(t) /\ result[t] =>
        \A k \in First(path[t])..Len(path[t]) : Exists(SubSeq(path[t], 1, k))

\* FALSE is for a mkdir that was refused or a file in the way, never for a directory
\* that another thread made first.
FalseForAReason ==
    \A t \in Threads : Done(t) /\ ~result[t] =>
        refused[t] \/ \E k \in 1..Len(path[t]) : SubSeq(path[t], 1, k) \in Plain
=============================================================================

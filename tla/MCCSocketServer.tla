-------------------------- MODULE MCCSocketServer --------------------------
(* Small instances of CSocketServer for TLC. *)
EXTENDS CSocketServer, FiniteSets, TLC

Using(packets, events, closing, stopping, failing) ==
    [cmp |-> packets, external |-> events, closes |-> closing, stops |-> stopping, fails |-> failing]

\* PK_CMP and external events, and the same with an application that calls stop.
Serving  == {Using(TRUE, TRUE, FALSE, FALSE, FALSE)}
Stopping == {Using(TRUE, TRUE, FALSE, TRUE, FALSE)}

\* Also PK_BYTE without events, and an application that calls closeClient and stop
\* while threads cannot always be created.
SomeUses ==
    Serving \cup {Using(FALSE, FALSE, FALSE, FALSE, FALSE), Using(TRUE, TRUE, TRUE, TRUE, TRUE)}

\* For the last, two connections, two threads and a queue of one message are enough:
\* TLC goes no further from a state with more.
Small ==
    use.closes =>
        /\ Cardinality({c \in Conn : Mentioned(c) \/ c \in hup \/ told[c] # "nothing"}) <= 2
        /\ Cardinality({t \in Thread : tpc[t] # "free" \/ tfd[t] # None}) <= 2
        /\ Len(inbox) + Len(outbox) <= 1

\* No action and no safety property orders connections, descriptors or threads.
Symmetry == Permutations(Conn) \cup Permutations(FD) \cup Permutations(Thread)
=============================================================================

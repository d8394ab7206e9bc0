--------------------------- MODULE MCCSocketClient ---------------------------
(* Small instances of CSocketClient for TLC. *)
EXTENDS CSocketClient

App(n, packets, queued, receiver, failing) ==
    [starts |-> n, cmp |-> packets, msq |-> queued, external |-> receiver,
     stops |-> TRUE, early |-> TRUE, faults |-> failing]

\* CMP packets for a receiver of the application, twice; bytes handled in place,
\* twice; and a single session for the internal filter in which calls may fail.
SomeApps ==
    {App(2, TRUE, TRUE, TRUE, FALSE), App(2, FALSE, FALSE, FALSE, FALSE),
     App(1, TRUE, TRUE, FALSE, TRUE)}
=============================================================================

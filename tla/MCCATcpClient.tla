--------------------------- MODULE MCCATcpClient ---------------------------
(* Small instances of CATcpClient for TLC. *)
EXTENDS CATcpClient

Use(n, key, stopping, before, closing, idling) ==
    [connects |-> n, extKey |-> key, stops |-> stopping, stopsFirst |-> before, closes |-> closing, idle |-> idling]

\* One that reconnects after a stop(), one that reconnects without, and ones that do
\* everything in a single connection.
SomeApps == {Use(2, FALSE, TRUE, TRUE, FALSE, FALSE), Use(2, TRUE, FALSE, FALSE, FALSE, FALSE)}
            \cup {Use(1, key, TRUE, TRUE, TRUE, idling) : key, idling \in BOOLEAN}
=============================================================================

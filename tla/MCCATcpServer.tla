--------------------------- MODULE MCCATcpServer ---------------------------
(* Small instances of CATcpServer for TLC. *)
EXTENDS CATcpServer, TLC

\* Connections are interchangeable, and so are descriptors and threads: no
\* action and no safety property orders them.
Symmetry == Permutations(Conn) \cup Permutations(FD) \cup Permutations(Thread)
=============================================================================

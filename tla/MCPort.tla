------------------------------- MODULE MCPort -------------------------------
(* Bounded instance of Port for TLC.                                       *)
EXTENDS Port, TLC

\* Segments that open a flow and close it at once, where the states in
\* between do not matter, and one with none of the flags, which a flow that
\* is not open does not expect.
MCOpenAndClose == {{"ACK"}, {"RST"}, {}}

\* Threads are interchangeable, and so are the TCP flows.
Symmetry == Permutations(Threads) \cup Permutations(TcpFlows)
=============================================================================

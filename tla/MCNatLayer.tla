----------------------------- MODULE MCNatLayer -----------------------------
(* Bounded instance of NatLayer for TLC.                                   *)
EXTENDS NatLayer, TLC

\* The ports of the pool are interchangeable, and so are the remotes.
Symmetry == Permutations(PubPorts) \cup Permutations(Remotes)
=============================================================================

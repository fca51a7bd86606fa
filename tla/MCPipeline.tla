----------------------------- MODULE MCPipeline -----------------------------
(* Values for TLC. *)
EXTENDS Pipeline, TLC

CONSTANTS r1
MCRemote == [f \in Flows |-> r1]
MCSymmetry == Permutations(Flows) \cup Permutations(PubPorts)
=============================================================================

-------------------------- MODULE MCFirewallLayer --------------------------
EXTENDS FirewallLayer, TLC

Symmetry == Permutations(Flows)
=============================================================================

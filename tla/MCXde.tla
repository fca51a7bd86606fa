------------------------------- MODULE MCXde -------------------------------
(* Bounded instance of Xde for TLC.                                        *)
EXTENDS Xde, TLC

MCBoundary == [ether |-> "mb", ip |-> "hb", vni |-> 9]
On(host) == [ether |-> "m1", ip |-> host]

\* Two VPCs that use the same addresses, and may use the same MAC address.
MCConfigs == { [name |-> "x1", mac |-> "m1", vni |-> 1, ips |-> <<"a", "c">>],
               [name |-> "x2", mac |-> "m1", vni |-> 2, ips |-> <<"a">>],
               [name |-> "x2", mac |-> "m1", vni |-> 1, ips |-> <<"b">>],
               [name |-> "x2", mac |-> "m2", vni |-> 1, ips |-> <<"b">>] }

\* The control plane learns that a guest moved, or says again where it is.
MCPushes == { [vip |-> "b", vni |-> 1, phys |-> On("h2")],
              [vip |-> "a", vni |-> 1, phys |-> On("self")] }

Symmetry == Permutations(Threads)
=============================================================================

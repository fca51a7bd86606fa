------------------------------ MODULE MCRouter ------------------------------
(* Bounded instance of Router for TLC: four-bit addresses of two octets;   *)
(* the default route, a prefix that cuts the first octet and one inside it *)
(* that cuts the second, so that an address has three nested routes or one *)
(* alone, and in the other family the same bits with other routes.         *)
EXTENDS Router, TLC

MCDests == {NewCidr(FALSE, 0, 0), NewCidr(FALSE, 8, 1), NewCidr(FALSE, 10, 3),
            NewCidr(TRUE, 0, 0), NewCidr(TRUE, 10, 3)}

Symmetry == Permutations(Callers)

ASSUME PrefixesOfMC == MembersShareBits
=============================================================================

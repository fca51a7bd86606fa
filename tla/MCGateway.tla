----------------------------- MODULE MCGateway -----------------------------
(* Bounded instance of Gateway for TLC.                                    *)
EXTENDS Gateway

\* Each choice a guest has, in some guest; the two families share nothing.
MCGuests ==
  {[family |-> "ip4", broadcast |-> b, rapid |-> FALSE, ll |-> "llGuest"]
     : b \in BOOLEAN}
  \cup {[family |-> "ip6", broadcast |-> FALSE, rapid |-> r,
         ll |-> IF r THEN "llGuest" ELSE "llOther"] : r \in BOOLEAN}
=============================================================================

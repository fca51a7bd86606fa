------------------------------ MODULE MCPacket ------------------------------
(* Values for TLC. *)
EXTENDS Packet
=============================================================================

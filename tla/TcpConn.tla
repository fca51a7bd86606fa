------------------------------- MODULE TcpConn -------------------------------
(***************************************************************************)
(* A TCP connection between the guest and a remote, as the port's TCP      *)
(* tracking sees it.                                                       *)
(*                                                                         *)
(* TcpFlow admits every segment; here the endpoints keep to the protocol   *)
(* until a stray segment passes that is none of theirs.                    *)
(* Either side opens, both send and close when they like, segments from    *)
(* the guest are lost after the port and those from the remote before it,  *)
(* they are sent again and arrive out of order: an acknowledgement names   *)
(* any amount the guest has sent so far, and old data is sent again.       *)
(* Simultaneous open, which tcp_state.rs leaves out, does not happen.      *)
(*                                                                         *)
(* The endpoints are no code of this repository.  They count what the      *)
(* guest sends by offset: its SYN has offset 0, one offset per segment of  *)
(* data follows (all segments carry one byte) and the FIN is the last.     *)
(***************************************************************************)
EXTENDS TcpFlow

CONSTANTS
  Iss,          \* the guest's initial sequence number
  MaxData       \* bound on the segments of data the guest sends

ASSUME ConnAssumption == Iss \in SeqNums /\ MaxData \in Nat /\ MaxData + 2 < W

VARIABLES
  opener,       \* who opened: "none", "guest" or "remote"
  synIn,        \* the remote's SYN has been let in
  next,         \* offset of the next segment the guest sends
  closed,       \* has the guest sent its FIN, at offset next - 1?
  acked,        \* highest offset the remote acknowledged
  strayed,      \* has a stray segment passed?
  refused       \* ghost: a segment of the connection was not expected

connVars == <<opener, synIn, next, closed, acked, strayed, refused>>
vars == <<flowVars, connVars>>

Seq(offset) == (Iss + offset) % W

Larger(m, n) == IF m > n THEN m ELSE n

ConnInit ==
  /\ FlowInit
  /\ opener = "none"
  /\ synIn = FALSE
  /\ next = 0
  /\ closed = FALSE
  /\ acked = 0
  /\ strayed = FALSE
  /\ refused = FALSE

-----------------------------------------------------------------------------
(* The guest sends: the segment is seen by the port first.                 *)
GuestSends(flags, offset) ==
  LET seg == [flags |-> flags, seq |-> Seq(offset), ack |-> 0]
  IN /\ ~strayed
     /\ refused' = (FlowOut(st, flags) = Unexpected)
     /\ Out(seg)

(* The remote's segment reaches the port.                                  *)
RemoteSends(flags, offset) ==
  LET seg == [flags |-> flags, seq |-> 0, ack |-> Seq(offset)]
  IN /\ ~strayed
     /\ refused' = (FlowIn(st, flags, Covers(seg)) = Unexpected)
     /\ In(seg)

(* The guest has seen the handshake through.                               *)
GuestIsOpen ==
  /\ synIn
  /\ opener = "guest" \/ acked > 0

(* The remote may have seen the handshake through.                         *)
RemoteIsOpen ==
  IF opener = "guest" THEN synIn ELSE next > 0

GuestSyn ==
  /\ opener \in {"none", "guest"} /\ ~synIn
  /\ GuestSends({"SYN"}, 0)
  /\ opener' = "guest"
  /\ next' = 1
  /\ UNCHANGED <<synIn, closed, acked, strayed>>

GuestSynAck ==
  /\ opener = "remote" /\ acked = 0
  /\ GuestSends({"SYN", "ACK"}, 0)
  /\ next' = 1
  /\ UNCHANGED <<opener, synIn, closed, acked, strayed>>

GuestAck ==
  /\ GuestIsOpen
  /\ GuestSends({"ACK"}, next)
  /\ UNCHANGED <<opener, synIn, next, closed, acked, strayed>>

GuestData ==
  /\ GuestIsOpen
  /\ \E offset \in 1..next :
       /\ closed => offset < next - 1
       /\ offset <= MaxData
       /\ GuestSends({"ACK"}, offset)
       /\ next' = Larger(next, offset + 1)
  /\ UNCHANGED <<opener, synIn, closed, acked, strayed>>

GuestFin ==
  /\ GuestIsOpen
  /\ GuestSends({"FIN", "ACK"}, IF closed THEN next - 1 ELSE next)
  /\ next' = IF closed THEN next ELSE next + 1
  /\ closed' = TRUE
  /\ UNCHANGED <<opener, synIn, acked, strayed>>

RemoteSyn ==
  /\ opener \in {"none", "remote"} /\ acked = 0
  /\ RemoteSends({"SYN"}, 0)
  /\ opener' = "remote"
  /\ synIn' = TRUE
  /\ UNCHANGED <<next, closed, acked, strayed>>

RemoteSynAck ==
  /\ opener = "guest" /\ acked <= 1
  /\ RemoteSends({"SYN", "ACK"}, 1)
  /\ synIn' = TRUE
  /\ acked' = 1
  /\ UNCHANGED <<opener, next, closed, strayed>>

(* An acknowledgement, with or without data.                               *)
RemoteAck ==
  /\ RemoteIsOpen
  /\ \E offset \in 1..next :
       /\ RemoteSends({"ACK"}, offset)
       /\ acked' = Larger(acked, offset)
  /\ UNCHANGED <<opener, synIn, next, closed, strayed>>

RemoteFin ==
  /\ RemoteIsOpen
  /\ \E offset \in 1..next :
       /\ RemoteSends({"FIN", "ACK"}, offset)
       /\ acked' = Larger(acked, offset)
  /\ UNCHANGED <<opener, synIn, next, closed, strayed>>

(* The connection is over, as far as the endpoints go.                     *)
Over ==
  /\ opener' = "none"
  /\ synIn' = FALSE
  /\ next' = 0
  /\ closed' = FALSE
  /\ acked' = 0

(* A reset from either side ends the connection; the endpoints may open    *)
(* another.                                                                *)
Reset ==
  /\ opener # "none"
  /\ GuestSends({"RST"}, next) \/ RemoteSends({"RST"}, 0)
  /\ Over
  /\ UNCHANGED strayed

(* A segment that is none of the endpoints', in either direction: from now *)
(* on any segment may be seen.                                             *)
Stray(seg) ==
  /\ Out(seg) \/ In(seg)
  /\ strayed' = TRUE
  /\ refused' = FALSE
  /\ Over

Next ==
  \/ GuestSyn \/ GuestSynAck \/ GuestAck \/ GuestData \/ GuestFin
  \/ RemoteSyn \/ RemoteSynAck \/ RemoteAck \/ RemoteFin
  \/ Reset
  \/ \E seg \in Segments : Stray(seg)

Spec == ConnInit /\ [][Next]_vars

-----------------------------------------------------------------------------
(* No segment of a connection that keeps to the protocol is refused: the   *)
(* tracking never gets ahead of, or falls behind, the endpoints in a way   *)
(* that makes the port drop their traffic.                                 *)
LegalTrafficPasses == ~refused
=============================================================================

------------------------------ MODULE TcpState ------------------------------
(***************************************************************************)
(* The TCP state OPTE infers for a flow of the guest from the segments it  *)
(* sees pass (opte/src/engine/tcp_state.rs, struct TcpFlowState).          *)
(*                                                                         *)
(* The states are those of the guest's endpoint.  The two functions below  *)
(* are shared by TcpFlow, which follows one flow with its sequence         *)
(* numbers, and Port, which follows the tables around it.                  *)
(***************************************************************************)

States == {"Closed", "Listen", "SynSent", "SynRcvd", "Established",
           "CloseWait", "LastAck", "FinWait1", "FinWait2", "TimeWait"}

Flags == {"SYN", "ACK", "FIN", "RST"}

(* What flow_in() and flow_out() return for an unexpected segment.         *)
Unexpected == "unexpected"

-----------------------------------------------------------------------------
(* Segments that leave the state as it is: from the remote ...             *)
StaysIn(s, flags) ==
  CASE s \in {"Listen", "SynRcvd"} -> "SYN" \in flags
    [] s \in {"CloseWait", "TimeWait"} -> flags \cap {"FIN", "ACK"} # {}
    [] s \in {"LastAck", "FinWait1", "FinWait2"} -> "ACK" \in flags
    [] s = "Established" -> TRUE
    [] OTHER -> FALSE

(* Mutant: a guest that closed may only resend its FIN.                    *)
StaysOutFinOnly(s, flags) ==
  CASE s = "SynSent" -> "SYN" \in flags
    [] s = "SynRcvd" -> {"SYN", "ACK"} \subseteq flags
    [] s \in {"FinWait1", "LastAck"} -> "FIN" \in flags
    [] s \in {"FinWait2", "TimeWait"} -> "ACK" \in flags
    [] s \in {"Established", "CloseWait"} -> TRUE
    [] OTHER -> FALSE

(* ... and from the guest.                                                 *)
StaysOut(s, flags) ==
  CASE s = "SynSent" -> "SYN" \in flags
    [] s = "SynRcvd" -> {"SYN", "ACK"} \subseteq flags
    [] s \in {"FinWait1", "LastAck"} -> flags \cap {"FIN", "ACK"} # {}
    [] s \in {"FinWait2", "TimeWait"} -> "ACK" \in flags
    [] s \in {"Established", "CloseWait"} -> TRUE
    [] OTHER -> FALSE

(* Mutant: an acknowledgement alone is taken for the remote's close.       *)
AcksAtAll(flags) == "ACK" \in flags

(* "The remote sent its FIN+ACK together."                                 *)
FinAndAck(flags) == {"FIN", "ACK"} \subseteq flags

(* flow_in(): the state after a segment from the remote.  `covers` says    *)
(* whether it acknowledges the guest's last sequence number.               *)
FlowIn(s, flags, covers) ==
  LET syn == "SYN" \in flags
      ack == "ACK" \in flags
      fin == "FIN" \in flags
  IN IF "RST" \in flags THEN "Closed" ELSE
     CASE s = "Closed" /\ syn -> "Listen"
       [] s = "Closed" /\ ~syn /\ ack -> "Established"
       [] s = "SynSent" /\ syn /\ ack -> "Established"
       [] s = "SynRcvd" /\ ack -> "Established"
       [] s = "Established" /\ fin -> "CloseWait"
       [] s = "LastAck" /\ ack /\ covers -> "Closed"
       [] s = "FinWait1" /\ FinAndAck(flags) -> "TimeWait"
       [] s = "FinWait1" /\ ~FinAndAck(flags) /\ ack /\ covers -> "FinWait2"
       [] s = "FinWait2" /\ fin /\ covers -> "TimeWait"
       [] OTHER -> IF StaysIn(s, flags) THEN s ELSE Unexpected

(* flow_out(): the state after a segment from the guest.                   *)
FlowOut(s, flags) ==
  LET syn == "SYN" \in flags
      ack == "ACK" \in flags
      fin == "FIN" \in flags
  IN IF "RST" \in flags THEN "Closed" ELSE
     CASE s = "Closed" /\ syn -> "SynSent"
       [] s = "Closed" /\ ~syn /\ ack -> "Established"
       [] s = "Listen" /\ syn /\ ack -> "SynRcvd"
       [] s = "Established" /\ fin -> "FinWait1"
       [] s = "CloseWait" /\ fin -> "LastAck"
       [] OTHER -> IF StaysOut(s, flags) THEN s ELSE Unexpected
=============================================================================

------------------------------- MODULE TcpFlow -------------------------------
(***************************************************************************)
(* One entry of the port's TCP flow table under arbitrary segments         *)
(* (opte/src/engine/tcp_state.rs, TcpFlowState::process).                  *)
(*                                                                         *)
(* Nothing is assumed of the two endpoints: any segment may be seen in     *)
(* either direction at any time, as it may on a network.  The port removes *)
(* an entry that reaches Closed, so Closed is the state of a new entry     *)
(* with nothing recorded.                                                  *)
(*                                                                         *)
(* A segment is its flags, its sequence number and its acknowledgement.    *)
(* guest_ack and remote_seq are recorded by the code and never read: they  *)
(* are left out.  Sequence numbers are counted modulo W (2^32 in the       *)
(* code), with the wrapping addition of a release build.                   *)
(***************************************************************************)
EXTENDS TcpState, Naturals

CONSTANTS
  W,            \* number of sequence numbers
  NoSeq         \* a sequence number that has not been seen (None)

ASSUME WAssumption == W \in Nat \ {0} /\ NoSeq \notin 0..(W - 1)

SeqNums == 0..(W - 1)

Segments == [flags : SUBSET Flags, seq : SeqNums, ack : SeqNums]

VARIABLES
  st,           \* TcpFlowState.tcp_state
  guestSeq,     \* TcpFlowState.guest_seq
  remoteAck,    \* TcpFlowState.remote_ack
  finOut,       \* ghost: the guest's FIN was let out
  finIn         \* ghost: the remote's FIN was let in

flowVars == <<st, guestSeq, remoteAck, finOut, finIn>>

FlowInit ==
  /\ st = "Closed"
  /\ guestSeq = NoSeq
  /\ remoteAck = NoSeq
  /\ finOut = FALSE
  /\ finIn = FALSE

-----------------------------------------------------------------------------
(* The remote's acknowledgement covers the last sequence number the guest  *)
(* used.                                                                   *)
Covers(seg) == guestSeq # NoSeq /\ seg.ack = (guestSeq + 1) % W

(* process(): an unexpected segment leaves the state alone.                *)
NewState(to) == IF to = Unexpected THEN st ELSE to

(* A flow that is closed is forgotten.                                     *)
Forget ==
  /\ st' = "Closed"
  /\ guestSeq' = NoSeq
  /\ remoteAck' = NoSeq
  /\ finOut' = FALSE
  /\ finIn' = FALSE

(* Mutant: the guest's sequence number is recorded with its ack only.      *)
RecordWithAck(seg) == guestSeq' = IF "ACK" \in seg.flags THEN seg.seq ELSE guestSeq

(* process() records the guest's sequence number even of a segment that    *)
(* is not expected.                                                        *)
Record(seg) == guestSeq' = seg.seq

(* process() of a segment from the guest.                                  *)
Out(seg) ==
  LET to == FlowOut(st, seg.flags)
  IN IF to = "Closed"
     THEN Forget
     ELSE /\ st' = NewState(to)
          /\ Record(seg)
          /\ finOut' = (finOut \/ (to # Unexpected /\ "FIN" \in seg.flags))
          /\ UNCHANGED <<remoteAck, finIn>>

(* process() of a segment from the remote.                                 *)
In(seg) ==
  LET to == FlowIn(st, seg.flags, Covers(seg))
  IN IF to = "Closed"
     THEN Forget
     ELSE /\ st' = NewState(to)
          /\ remoteAck' = IF "ACK" \in seg.flags THEN seg.ack ELSE remoteAck
          /\ finIn' = (finIn \/ (to # Unexpected /\ "FIN" \in seg.flags))
          /\ UNCHANGED <<guestSeq, finOut>>

FlowNext == \E seg \in Segments : Out(seg) \/ In(seg)

FlowSpec == FlowInit /\ [][FlowNext]_flowVars

-----------------------------------------------------------------------------
(* The entry has its type: in particular it is never left in the state of  *)
(* a segment that was refused.                                             *)
FlowTypeOK ==
  /\ st \in States
  /\ guestSeq \in SeqNums \cup {NoSeq}
  /\ remoteAck \in SeqNums \cup {NoSeq}
  /\ finOut \in BOOLEAN
  /\ finIn \in BOOLEAN

(* flow_in() unwraps guest_seq in the LAST_ACK, FIN_WAIT_1 and FIN_WAIT_2  *)
(* states: whatever is sent, it has been set by then.                      *)
SeqIsKnown == st \in {"LastAck", "FinWait1", "FinWait2"} => guestSeq # NoSeq

(* The closing states are not entered without the FINs they stand for: a   *)
(* half-closed connection is never mistaken for one both sides closed.     *)
ClosingMatchesFins ==
  /\ st \in {"FinWait1", "FinWait2", "LastAck", "TimeWait"} => finOut
  /\ st \in {"CloseWait", "LastAck", "TimeWait"} => finIn
=============================================================================

--------------------------- MODULE TcpConn_proofs ---------------------------
(***************************************************************************)
(* Proofs about TCP tracking for every number of sequence numbers.         *)
(*                                                                         *)
(* TcpState: what the two functions of the state machine return and from   *)
(* where each closing state can be entered.  TcpFlow: whatever segments    *)
(* are seen, the state machine does not unwrap a sequence number it has    *)
(* not recorded and does not enter a closing state without its FINs.       *)
(* TcpConn: it refuses no segment of a connection that keeps to the        *)
(* protocol, wherever the connection's sequence numbers begin and however  *)
(* much data it carries.                                                   *)
(***************************************************************************)
EXTENDS TcpConn, Integers, TLAPS

(* What flow_out() returns: a state, and where the closing states it       *)
(* returns come from.                                                      *)
LEMMA FlowOutTo ==
  ASSUME NEW s \in States, NEW flags \in SUBSET Flags
  PROVE  LET to == FlowOut(s, flags) IN
         /\ to \in States \cup {Unexpected}
         /\ to = "FinWait1" => s = "FinWait1" \/ "FIN" \in flags
         /\ to = "FinWait2" => s = "FinWait2"
         /\ to = "TimeWait" => s = "TimeWait"
         /\ to = "CloseWait" => s = "CloseWait"
         /\ to = "LastAck" => s = "LastAck" \/ (s = "CloseWait" /\ "FIN" \in flags)
<1> DEFINE to == FlowOut(s, flags)
<1>1. CASE "RST" \in flags
  BY <1>1 DEF FlowOut, States, Unexpected
<1>2. CASE "RST" \notin flags
  <2>1. CASE s = "Closed"
    BY <1>2, <2>1 DEF FlowOut, StaysOut, States, Unexpected
  <2>2. CASE s = "Listen"
    BY <1>2, <2>2 DEF FlowOut, StaysOut, States, Unexpected
  <2>3. CASE s = "SynSent"
    BY <1>2, <2>3 DEF FlowOut, StaysOut, States, Unexpected
  <2>4. CASE s = "SynRcvd"
    BY <1>2, <2>4 DEF FlowOut, StaysOut, States, Unexpected
  <2>5. CASE s = "Established"
    BY <1>2, <2>5 DEF FlowOut, StaysOut, States, Unexpected
  <2>6. CASE s = "CloseWait"
    BY <1>2, <2>6 DEF FlowOut, StaysOut, States, Unexpected
  <2>7. CASE s = "LastAck"
    BY <1>2, <2>7 DEF FlowOut, StaysOut, States, Unexpected
  <2>8. CASE s = "FinWait1"
    BY <1>2, <2>8 DEF FlowOut, StaysOut, States, Unexpected
  <2>9. CASE s = "FinWait2"
    BY <1>2, <2>9 DEF FlowOut, StaysOut, States, Unexpected
  <2>10. CASE s = "TimeWait"
    BY <1>2, <2>10 DEF FlowOut, StaysOut, States, Unexpected
  <2>11. QED
    BY <2>1, <2>2, <2>3, <2>4, <2>5, <2>6, <2>7, <2>8, <2>9, <2>10 DEF States
<1>3. QED
  BY <1>1, <1>2

(* The same for flow_in().                                                 *)
LEMMA FlowInTo ==
  ASSUME NEW s \in States, NEW flags \in SUBSET Flags, NEW covers \in BOOLEAN
  PROVE  LET to == FlowIn(s, flags, covers) IN
         /\ to \in States \cup {Unexpected}
         /\ to = "FinWait1" => s = "FinWait1"
         /\ to = "FinWait2" => s \in {"FinWait1", "FinWait2"}
         /\ to = "TimeWait" =>
              \/ s = "TimeWait"
              \/ s \in {"FinWait1", "FinWait2"} /\ "FIN" \in flags
         /\ to = "CloseWait" => s = "CloseWait" \/ "FIN" \in flags
         /\ to = "LastAck" => s = "LastAck"
<1> DEFINE to == FlowIn(s, flags, covers)
<1>1. CASE "RST" \in flags
  BY <1>1 DEF FlowIn, States, Unexpected
<1>2. CASE "RST" \notin flags
  <2>1. CASE s = "Closed"
    BY <1>2, <2>1 DEF FlowIn, StaysIn, States, Unexpected
  <2>2. CASE s = "Listen"
    BY <1>2, <2>2 DEF FlowIn, StaysIn, States, Unexpected
  <2>3. CASE s = "SynSent"
    BY <1>2, <2>3 DEF FlowIn, StaysIn, States, Unexpected
  <2>4. CASE s = "SynRcvd"
    BY <1>2, <2>4 DEF FlowIn, StaysIn, States, Unexpected
  <2>5. CASE s = "Established"
    BY <1>2, <2>5 DEF FlowIn, StaysIn, States, Unexpected
  <2>6. CASE s = "CloseWait"
    BY <1>2, <2>6 DEF FlowIn, StaysIn, States, Unexpected
  <2>7. CASE s = "LastAck"
    BY <1>2, <2>7 DEF FlowIn, StaysIn, States, Unexpected
  <2>8. CASE s = "FinWait1"
    BY <1>2, <2>8 DEF FlowIn, StaysIn, FinAndAck, States, Unexpected
  <2>9. CASE s = "FinWait2"
    BY <1>2, <2>9 DEF FlowIn, StaysIn, States, Unexpected
  <2>10. CASE s = "TimeWait"
    BY <1>2, <2>10 DEF FlowIn, StaysIn, States, Unexpected
  <2>11. QED
    BY <2>1, <2>2, <2>3, <2>4, <2>5, <2>6, <2>7, <2>8, <2>9, <2>10 DEF States
<1>3. QED
  BY <1>1, <1>2

-----------------------------------------------------------------------------
IInv == FlowTypeOK /\ SeqIsKnown /\ ClosingMatchesFins

-----------------------------------------------------------------------------
(* A flow that is forgotten is a new one.                                  *)
LEMMA ForgetIInv == Forget => IInv'
  BY DEF Forget, IInv, FlowTypeOK, SeqIsKnown, ClosingMatchesFins, States

(* Segments of the guest: its sequence number is known from then on.       *)
LEMMA OutIInv ==
  ASSUME IInv, NEW seg \in Segments, Out(seg)
  PROVE  IInv'
<1> DEFINE to == FlowOut(st, seg.flags)
<1>1. CASE to = "Closed"
  BY <1>1, ForgetIInv DEF Out
<1>2. CASE to # "Closed"
  <2>1. seg.flags \in SUBSET Flags /\ seg.seq \in SeqNums /\ st \in States
    BY DEF Segments, IInv, FlowTypeOK
  <2>2. /\ to \in States \cup {Unexpected}
        /\ to = "FinWait1" => st = "FinWait1" \/ "FIN" \in seg.flags
        /\ to = "FinWait2" => st = "FinWait2"
        /\ to = "TimeWait" => st = "TimeWait"
        /\ to = "CloseWait" => st = "CloseWait"
        /\ to = "LastAck" => st = "LastAck" \/ (st = "CloseWait" /\ "FIN" \in seg.flags)
    BY <2>1, FlowOutTo
  <2>3. /\ st' = NewState(to) /\ guestSeq' = seg.seq
        /\ finOut' = (finOut \/ (to # Unexpected /\ "FIN" \in seg.flags))
        /\ UNCHANGED <<remoteAck, finIn>>
    BY <1>2 DEF Out, Record
  <2> HIDE DEF to
  <2>4. FlowTypeOK'
    BY <2>1, <2>2, <2>3 DEF IInv, FlowTypeOK, NewState
  <2>5. SeqIsKnown'
    BY <2>1, <2>3, WAssumption DEF SeqIsKnown, SeqNums
  <2>6. ClosingMatchesFins'
    <3>1. CASE to = Unexpected
      BY <2>3, <3>1 DEF IInv, ClosingMatchesFins, NewState
    <3>2. CASE to # Unexpected
      BY <2>2, <2>3, <3>2 DEF IInv, ClosingMatchesFins, NewState
    <3>3. QED
      BY <3>1, <3>2
  <2>7. QED
    BY <2>4, <2>5, <2>6 DEF IInv
<1>3. QED
  BY <1>1, <1>2

(* Segments of the remote: a state that needs the guest's sequence number  *)
(* is reached only from another that does.                                 *)
LEMMA InIInv ==
  ASSUME IInv, NEW seg \in Segments, In(seg)
  PROVE  IInv'
<1> DEFINE to == FlowIn(st, seg.flags, Covers(seg))
<1>1. CASE to = "Closed"
  BY <1>1, ForgetIInv DEF In
<1>2. CASE to # "Closed"
  <2>1. seg.flags \in SUBSET Flags /\ seg.ack \in SeqNums /\ st \in States
    BY DEF Segments, IInv, FlowTypeOK
  <2>2. Covers(seg) \in BOOLEAN
    BY DEF Covers
  <2>3. /\ to \in States \cup {Unexpected}
        /\ to = "FinWait1" => st = "FinWait1"
        /\ to = "FinWait2" => st \in {"FinWait1", "FinWait2"}
        /\ to = "TimeWait" =>
             \/ st = "TimeWait"
             \/ st \in {"FinWait1", "FinWait2"} /\ "FIN" \in seg.flags
        /\ to = "CloseWait" => st = "CloseWait" \/ "FIN" \in seg.flags
        /\ to = "LastAck" => st = "LastAck"
    BY <2>1, <2>2, FlowInTo
  <2>4. /\ st' = NewState(to)
        /\ remoteAck' = IF "ACK" \in seg.flags THEN seg.ack ELSE remoteAck
        /\ finIn' = (finIn \/ (to # Unexpected /\ "FIN" \in seg.flags))
        /\ UNCHANGED <<guestSeq, finOut>>
    BY <1>2 DEF In
  <2> HIDE DEF to
  <2>5. FlowTypeOK'
    BY <2>1, <2>3, <2>4 DEF IInv, FlowTypeOK, NewState
  <2>6. SeqIsKnown'
    BY <2>3, <2>4 DEF IInv, SeqIsKnown, NewState
  <2>7. ClosingMatchesFins'
    <3>1. CASE to = Unexpected
      BY <2>4, <3>1 DEF IInv, ClosingMatchesFins, NewState
    <3>2. CASE to # Unexpected
      BY <2>3, <2>4, <3>2 DEF IInv, ClosingMatchesFins, NewState
    <3>3. QED
      BY <3>1, <3>2
  <2>8. QED
    BY <2>5, <2>6, <2>7 DEF IInv
<1>3. QED
  BY <1>1, <1>2

-----------------------------------------------------------------------------
(* The invariant holds initially and is inductive, so it always holds.     *)
THEOREM IInvHolds == FlowSpec => []IInv
<1>1. FlowInit => IInv
  BY DEF FlowInit, IInv, FlowTypeOK, SeqIsKnown, ClosingMatchesFins, States
<1>2. IInv /\ [FlowNext]_flowVars => IInv'
  <2> SUFFICES ASSUME IInv, [FlowNext]_flowVars PROVE IInv'
    OBVIOUS
  <2>1. ASSUME NEW seg \in Segments, Out(seg) PROVE IInv'
    BY <2>1, OutIInv
  <2>2. ASSUME NEW seg \in Segments, In(seg) PROVE IInv'
    BY <2>2, InIInv
  <2>3. CASE UNCHANGED flowVars
    BY <2>3 DEF flowVars, IInv, FlowTypeOK, SeqIsKnown, ClosingMatchesFins
  <2>4. QED
    BY <2>1, <2>2, <2>3 DEF FlowNext
<1>3. QED
  BY <1>1, <1>2, PTL DEF FlowSpec

(* The TCP flow entry keeps its type (tcp_state.rs, struct TcpFlowState).  *)
THEOREM TypeCorrect == FlowSpec => []FlowTypeOK
<1>1. IInv => FlowTypeOK
  BY DEF IInv
<1>2. QED
  BY <1>1, IInvHolds, PTL

(* guest_seq.unwrap() in flow_in() never panics, whatever segments arrive. *)
THEOREM UnwrapIsSafe == FlowSpec => []SeqIsKnown
<1>1. IInv => SeqIsKnown
  BY DEF IInv
<1>2. QED
  BY <1>1, IInvHolds, PTL

(* The closing states stand for FINs that were seen (tcp_state.rs).        *)
THEOREM FinsAreSeen == FlowSpec => []ClosingMatchesFins
<1>1. IInv => ClosingMatchesFins
  BY DEF IInv
<1>2. QED
  BY <1>1, IInvHolds, PTL

-----------------------------------------------------------------------------
(* TcpConn: every step of the connection is one of the tracked flow.       *)

LEMMA SeqType ==
  ASSUME NEW offset \in Nat
  PROVE  Seq(offset) \in SeqNums
BY ConnAssumption, WAssumption DEF Seq, SeqNums

(* Residues: numbers that are equal modulo W are W apart.                  *)
LEMMA SameResidue ==
  ASSUME NEW m \in Nat, NEW n \in Nat, m < n, m % W = n % W
  PROVE  n - m >= W
<1>1. /\ m = W * (m \div W) + (m % W) /\ m \div W \in Int
      /\ n = W * (n \div W) + (n % W) /\ n \div W \in Int
  BY WAssumption
<1> DEFINE k == (n \div W) - (m \div W)
<1>2. n - m = W * k /\ k \in Int
  BY <1>1, WAssumption
<1> HIDE DEF k
<1>3. k >= 1
  BY <1>2, WAssumption
<1>4. QED
  BY <1>2, <1>3, WAssumption

LEMMA SuccResidue ==
  ASSUME NEW n \in Nat
  PROVE  ((n % W) + 1) % W = (n + 1) % W
<1>1. n = W * (n \div W) + (n % W) /\ n \div W \in Nat /\ n % W \in 0..(W - 1)
  BY WAssumption
<1> DEFINE r == n % W
           q == n \div W
<1> HIDE DEF r, q
<1>2. n = W * q + r /\ q \in Nat /\ r \in 0..(W - 1)
  BY <1>1 DEF r, q
<1>3. (W * q + (r + 1)) % W = (r + 1) % W
  BY <1>2, WAssumption
<1>4. n + 1 = W * q + (r + 1)
  BY <1>2, WAssumption
<1>5. QED
  BY <1>3, <1>4 DEF r

(* An offset of the guest that follows one it used does not wrap round to  *)
(* an earlier one: only the next offset is covered by an acknowledgement.  *)
LEMMA CoveredIsNext ==
  ASSUME NEW o \in 1..(MaxData + 2), NEW offset \in 1..(MaxData + 2),
         Seq(offset) = (Seq(o) + 1) % W
  PROVE  offset = o + 1
<1>1. /\ Iss \in Nat /\ MaxData \in Nat /\ W \in Nat
      /\ o \in Nat /\ offset \in Nat /\ MaxData + 2 < W
  BY ConnAssumption, WAssumption DEF SeqNums
<1> DEFINE m == Iss + offset
           n == (Iss + o) + 1
<1>2. m % W = n % W
  BY <1>1, SuccResidue DEF Seq
<1>3. m \in Nat /\ n \in Nat /\ m - n < W /\ n - m < W
  BY <1>1
<1> HIDE DEF m, n
<1>4. /\ m < n => n - m >= W
      /\ n < m => m - n >= W
  BY <1>2, <1>3, SameResidue, Zenon
<1>5. m = n
  BY <1>3, <1>4, WAssumption
<1>6. QED
  BY <1>1, <1>5 DEF m, n

-----------------------------------------------------------------------------
(* What the tracking knows of a connection that keeps to the protocol.     *)
(* Once the handshake is through its state accepts whatever is             *)
(* acknowledged.  A flow that was closed and forgotten is taken up again   *)
(* by the next segment, unless that is a SYN: so none may be left to come, *)
(* which is why a flow closes only after the remote has acknowledged more  *)
(* than the guest's SYN.                                                   *)
Open == {"Established", "CloseWait", "LastAck", "FinWait1", "FinWait2", "TimeWait"}

Counters ==
  /\ next \in 0..(MaxData + 2)
  /\ acked \in Nat
  /\ closed \in BOOLEAN /\ synIn \in BOOLEAN
  /\ ~closed => next <= MaxData + 1
  /\ closed => next >= 2

NotOpened ==
  opener = "none" => st = "Closed" /\ ~synIn /\ next = 0 /\ acked = 0 /\ ~closed

GuestOpened ==
  opener = "guest" =>
    /\ next >= 1
    /\ ~synIn => st = "SynSent" /\ acked = 0 /\ ~closed
    /\ synIn => st \in Open \cup {"Closed"}
    /\ synIn /\ acked <= 1 => st # "Closed"

RemoteOpened ==
  opener = "remote" =>
    /\ synIn
    /\ acked = 0 => st = (IF next = 0 THEN "Listen" ELSE "SynRcvd") /\ ~closed
    /\ acked > 0 => st \in Open \cup {"Closed"} /\ next >= 1

(* In LAST_ACK the guest's last sequence number is that of its FIN or of   *)
(* something it sent since.                                                *)
LastSeq ==
  opener # "none" /\ st = "LastAck" => \E o \in 1..next : guestSeq = Seq(o)

ConnInv ==
  /\ strayed \in BOOLEAN
  /\ opener \in {"none", "guest", "remote"}
  /\ Counters
  /\ ~strayed => NotOpened /\ GuestOpened /\ RemoteOpened /\ LastSeq
  /\ ~refused

-----------------------------------------------------------------------------
(* What the state machine makes of segments once a connection is open.     *)
Later == {{"ACK"}, {"FIN", "ACK"}}

LEMMA OutLater ==
  ASSUME NEW s \in Open \cup {"Closed"}, NEW flags \in Later
  PROVE  LET to == FlowOut(s, flags) IN
         /\ to \in Open
         /\ to = "LastAck" => s = "LastAck" \/ "FIN" \in flags
<1>1. CASE flags = {"ACK"}
  BY <1>1 DEF Open, FlowOut, StaysOut, Unexpected
<1>2. CASE flags = {"FIN", "ACK"}
  BY <1>2 DEF Open, FlowOut, StaysOut, Unexpected
<1>3. QED
  BY <1>1, <1>2 DEF Later

LEMMA InLater ==
  ASSUME NEW s \in Open \cup {"Closed", "SynRcvd"}, NEW flags \in Later,
         NEW covers \in BOOLEAN
  PROVE  LET to == FlowIn(s, flags, covers) IN
         /\ to \in Open \cup {"Closed"}
         /\ to = "Closed" => s = "LastAck" /\ covers
         /\ to = "LastAck" => s = "LastAck"
<1>1. CASE flags = {"ACK"}
  BY <1>1 DEF Open, FlowIn, StaysIn, FinAndAck, Unexpected
<1>2. CASE flags = {"FIN", "ACK"}
  BY <1>2 DEF Open, FlowIn, StaysIn, FinAndAck, Unexpected
<1>3. QED
  BY <1>1, <1>2 DEF Later

LEMMA InSynAck ==
  ASSUME NEW s \in Open \cup {"SynSent"}, NEW covers \in BOOLEAN
  PROVE  LET to == FlowIn(s, {"SYN", "ACK"}, covers) IN
         /\ to \in Open \cup {"Closed"}
         /\ to = "Closed" => s = "LastAck" /\ covers
         /\ to = "LastAck" => s = "LastAck"
BY DEF Open, FlowIn, StaysIn, FinAndAck, Unexpected

(* A segment of the guest that leaves an open connection open.             *)
LEMMA GuestLater ==
  ASSUME ConnInv, NEW flags \in Later, NEW offset \in 1..(MaxData + 2),
         st \in Open \cup {"Closed"}, GuestSends(flags, offset)
  PROVE  /\ ~strayed /\ ~refused'
         /\ st' \in Open
         /\ guestSeq' = Seq(offset)
         /\ \E seg \in Segments : Out(seg)
<1> DEFINE seg == [flags |-> flags, seq |-> Seq(offset), ack |-> 0]
<1>1. /\ ~strayed /\ Out(seg)
      /\ refused' = (FlowOut(st, flags) = Unexpected)
  BY DEF GuestSends
<1>2. FlowOut(st, flags) \in Open
  BY OutLater
<1>3. FlowOut(st, flags) \notin {"Closed", Unexpected}
  BY <1>2 DEF Open, Unexpected
<1>4. st' = FlowOut(st, flags) /\ guestSeq' = Seq(offset)
  BY <1>1, <1>3 DEF Out, Record, NewState
<1>5. seg \in Segments
  <2>1. Seq(offset) \in SeqNums /\ 0 \in SeqNums
    BY SeqType, ConnAssumption, WAssumption DEF SeqNums
  <2>2. QED
    BY <2>1 DEF Segments, Later, Flags
<1>6. QED
  BY <1>1, <1>2, <1>3, <1>4, <1>5

(* A segment of the remote, likewise: it closes the flow only if it        *)
(* acknowledges what the guest sent last.                                  *)
LEMMA RemoteLater ==
  ASSUME ConnInv, NEW flags \in Later \cup {{"SYN", "ACK"}},
         NEW offset \in 1..(MaxData + 2),
         flags \in Later => st \in Open \cup {"Closed", "SynRcvd"},
         flags \notin Later => st \in Open \cup {"SynSent"},
         opener # "none", RemoteSends(flags, offset)
  PROVE  /\ ~strayed /\ ~refused'
         /\ st' \in Open \cup {"Closed"}
         /\ st' = "Closed" => offset >= 2
         /\ st' = "LastAck" => st = "LastAck" /\ guestSeq' = guestSeq
         /\ \E seg \in Segments : In(seg)
<1> DEFINE seg == [flags |-> flags, seq |-> 0, ack |-> Seq(offset)]
           to == FlowIn(st, flags, Covers(seg))
<1>1. /\ ~strayed /\ In(seg)
      /\ refused' = (to = Unexpected)
  BY DEF RemoteSends
<1>2. Covers(seg) \in BOOLEAN
  BY DEF Covers
<1>3. /\ to \in Open \cup {"Closed"}
      /\ to = "Closed" => st = "LastAck" /\ Covers(seg)
      /\ to = "LastAck" => st = "LastAck"
  BY <1>2, InLater, InSynAck
<1> HIDE DEF to
<1>4. to # Unexpected
  BY <1>3 DEF Open, Unexpected
<1>5. st' = to /\ (to # "Closed" => guestSeq' = guestSeq)
  BY <1>1, <1>4 DEF In, Forget, NewState, to
<1>6. ASSUME to = "Closed" PROVE offset >= 2
  <2>1. PICK o \in 1..next : guestSeq = Seq(o)
    BY <1>1, <1>3, <1>6 DEF ConnInv, LastSeq
  <2>2. o \in 1..(MaxData + 2)
    BY ConnAssumption DEF ConnInv, Counters
  <2>3. Seq(offset) = (Seq(o) + 1) % W
    BY <1>3, <1>6, <2>1 DEF Covers
  <2>4. offset = o + 1
    BY <2>2, <2>3, CoveredIsNext
  <2>5. QED
    BY <2>2, <2>4
<1>7. seg \in Segments
  <2>1. Seq(offset) \in SeqNums /\ 0 \in SeqNums
    BY SeqType, ConnAssumption, WAssumption DEF SeqNums
  <2>2. QED
    BY <2>1 DEF Segments, Later, Flags
<1>8. QED
  BY <1>1, <1>3, <1>4, <1>5, <1>6, <1>7

-----------------------------------------------------------------------------
(* The steps of the connection.  The handshake first.                      *)
LEMMA SynStep ==
  ASSUME ConnInv, GuestSyn \/ GuestSynAck \/ RemoteSyn
  PROVE  ConnInv' /\ FlowNext
<1>1. /\ 0 \in Nat /\ Seq(0) \in SeqNums /\ 0 \in SeqNums
      /\ MaxData \in Nat
  BY SeqType, ConnAssumption, WAssumption DEF SeqNums
<1>2. CASE GuestSyn
  <2> DEFINE seg == [flags |-> {"SYN"}, seq |-> Seq(0), ack |-> 0]
  <2>1. /\ ~strayed /\ opener \in {"none", "guest"} /\ ~synIn /\ Out(seg)
        /\ refused' = (FlowOut(st, {"SYN"}) = Unexpected)
        /\ opener' = "guest" /\ next' = 1
        /\ UNCHANGED <<synIn, closed, acked, strayed>>
    BY <1>2 DEF GuestSyn, GuestSends
  <2>2. st \in {"Closed", "SynSent"} /\ acked = 0 /\ ~closed
    BY <2>1 DEF ConnInv, NotOpened, GuestOpened
  <2>3. FlowOut(st, {"SYN"}) = "SynSent"
    BY <2>2 DEF FlowOut, StaysOut
  <2>4. st' = "SynSent" /\ ~refused'
    BY <2>1, <2>3 DEF Out, NewState, Unexpected
  <2>5. seg \in Segments
    BY <1>1 DEF Segments, Flags
  <2>6. ConnInv'
    BY <1>1, <2>1, <2>2, <2>4
       DEF ConnInv, Counters, NotOpened, GuestOpened, RemoteOpened, LastSeq
  <2>7. QED
    BY <2>1, <2>5, <2>6 DEF FlowNext
<1>3. CASE GuestSynAck
  <2> DEFINE seg == [flags |-> {"SYN", "ACK"}, seq |-> Seq(0), ack |-> 0]
  <2>1. /\ ~strayed /\ opener = "remote" /\ acked = 0 /\ Out(seg)
        /\ refused' = (FlowOut(st, {"SYN", "ACK"}) = Unexpected)
        /\ next' = 1
        /\ UNCHANGED <<opener, synIn, closed, acked, strayed>>
    BY <1>3 DEF GuestSynAck, GuestSends
  <2>2. st \in {"Listen", "SynRcvd"} /\ ~closed /\ synIn
    BY <2>1 DEF ConnInv, RemoteOpened
  <2>3. FlowOut(st, {"SYN", "ACK"}) = "SynRcvd"
    BY <2>2 DEF FlowOut, StaysOut
  <2>4. st' = "SynRcvd" /\ ~refused'
    BY <2>1, <2>3 DEF Out, NewState, Unexpected
  <2>5. seg \in Segments
    BY <1>1 DEF Segments, Flags
  <2>6. ConnInv'
    BY <1>1, <2>1, <2>2, <2>4
       DEF ConnInv, Counters, NotOpened, GuestOpened, RemoteOpened, LastSeq
  <2>7. QED
    BY <2>1, <2>5, <2>6 DEF FlowNext
<1>4. CASE RemoteSyn
  <2> DEFINE seg == [flags |-> {"SYN"}, seq |-> 0, ack |-> Seq(0)]
             to == FlowIn(st, {"SYN"}, Covers(seg))
  <2>1. /\ ~strayed /\ opener \in {"none", "remote"} /\ acked = 0 /\ In(seg)
        /\ refused' = (to = Unexpected)
        /\ opener' = "remote" /\ synIn' = TRUE
        /\ UNCHANGED <<next, closed, acked, strayed>>
    BY <1>4 DEF RemoteSyn, RemoteSends
  <2>2. /\ opener = "none" => st = "Closed" /\ next = 0
        /\ opener = "remote" => st = IF next = 0 THEN "Listen" ELSE "SynRcvd"
        /\ ~closed
    BY <2>1 DEF ConnInv, NotOpened, RemoteOpened
  <2>3. to = IF next = 0 THEN "Listen" ELSE "SynRcvd"
    <3>1. CASE st = "Closed" /\ next = 0
      BY <3>1 DEF FlowIn, StaysIn
    <3>2. CASE st = "Listen" /\ next = 0
      BY <3>2 DEF FlowIn, StaysIn
    <3>3. CASE st = "SynRcvd" /\ next # 0
      BY <3>3 DEF FlowIn, StaysIn
    <3>4. QED
      BY <2>1, <2>2, <3>1, <3>2, <3>3
  <2> HIDE DEF to
  <2>4. to \notin {"Closed", Unexpected}
    BY <2>3 DEF Unexpected
  <2>5. st' = to /\ ~refused'
    BY <2>1, <2>4 DEF In, NewState, to
  <2>6. seg \in Segments
    BY <1>1 DEF Segments, Flags
  <2>7. ConnInv'
    BY <1>1, <2>1, <2>2, <2>3, <2>5
       DEF ConnInv, Counters, NotOpened, GuestOpened, RemoteOpened, LastSeq
  <2>8. QED
    BY <2>1, <2>6, <2>7 DEF FlowNext
<1>5. QED
  BY <1>2, <1>3, <1>4

(* An open connection, from the guest's side.                              *)
LEMMA GuestStep ==
  ASSUME ConnInv, GuestAck \/ GuestData \/ GuestFin
  PROVE  ConnInv' /\ FlowNext
<1>1. /\ MaxData \in Nat /\ next \in 0..(MaxData + 2) /\ acked \in Nat
      /\ closed \in BOOLEAN
      /\ ~closed => next <= MaxData + 1
      /\ closed => next >= 2
  BY ConnAssumption DEF ConnInv, Counters
<1>2. ASSUME NEW flags \in Later, NEW offset \in 1..(MaxData + 2),
             NEW n \in 0..(MaxData + 2), NEW c \in BOOLEAN,
             GuestIsOpen, GuestSends(flags, offset), next' = n, closed' = c,
             UNCHANGED <<opener, synIn, acked, strayed>>,
             n >= next, n >= offset, ~c => n <= MaxData + 1, c => n >= 2
      PROVE  ConnInv' /\ FlowNext
  <2>1. ~strayed /\ synIn /\ (opener = "guest" \/ acked > 0)
    BY <1>2 DEF GuestIsOpen, GuestSends
  <2>2. opener # "none" /\ st \in Open \cup {"Closed"} /\ next >= 1
    BY <1>1, <2>1 DEF ConnInv, NotOpened, GuestOpened, RemoteOpened
  <2>3. /\ ~refused' /\ st' \in Open /\ guestSeq' = Seq(offset)
        /\ \E seg \in Segments : Out(seg)
    BY <1>2, <2>2, GuestLater
  <2>4. LastSeq'
    BY <1>2, <2>3 DEF LastSeq, Seq
  <2>5. /\ "Closed" \notin Open /\ opener' = opener /\ synIn' = synIn
        /\ acked' = acked /\ strayed' = strayed
    BY <1>2 DEF Open
  <2>6. Counters'
    BY <1>1, <1>2, <2>5 DEF Counters, ConnInv
  <2>7. GuestOpened' /\ RemoteOpened' /\ NotOpened'
    BY <1>1, <1>2, <2>1, <2>2, <2>3, <2>5
       DEF ConnInv, GuestOpened, RemoteOpened, NotOpened
  <2>8. QED
    BY <2>3, <2>4, <2>5, <2>6, <2>7 DEF ConnInv, FlowNext
<1>3. GuestIsOpen => next >= 1 \/ strayed
  BY <1>1 DEF GuestIsOpen, ConnInv, NotOpened, GuestOpened, RemoteOpened
<1>4. CASE GuestAck
  <2>1. /\ GuestIsOpen /\ GuestSends({"ACK"}, next) /\ ~strayed
        /\ UNCHANGED <<opener, synIn, next, closed, acked, strayed>>
    BY <1>4 DEF GuestAck, GuestSends
  <2>2. next \in 1..(MaxData + 2) /\ {"ACK"} \in Later
    BY <1>1, <1>3, <2>1 DEF Later
  <2>3. QED
    BY <1>1, <1>2, <2>1, <2>2
<1>5. CASE GuestData
  <2>1. PICK offset \in 1..next :
          /\ closed => offset < next - 1
          /\ offset <= MaxData
          /\ GuestSends({"ACK"}, offset)
          /\ next' = Larger(next, offset + 1)
    BY <1>5 DEF GuestData
  <2>2. GuestIsOpen /\ UNCHANGED <<opener, synIn, closed, acked, strayed>>
    BY <1>5 DEF GuestData
  <2>3. /\ {"ACK"} \in Later /\ offset \in 1..(MaxData + 2)
        /\ next' \in 0..(MaxData + 2) /\ next' >= next /\ next' >= offset
        /\ ~closed => next' <= MaxData + 1
        /\ closed => next' >= 2
    BY <1>1, <2>1 DEF Later, Larger
  <2>4. QED
    BY <1>1, <1>2, <2>1, <2>2, <2>3
<1>6. CASE GuestFin
  <2> DEFINE offset == IF closed THEN next - 1 ELSE next
  <2>1. /\ GuestIsOpen /\ GuestSends({"FIN", "ACK"}, offset) /\ ~strayed
        /\ next' = (IF closed THEN next ELSE next + 1)
        /\ closed' = TRUE
        /\ UNCHANGED <<opener, synIn, acked, strayed>>
    BY <1>6 DEF GuestFin, GuestSends
  <2>2. /\ {"FIN", "ACK"} \in Later /\ offset \in 1..(MaxData + 2)
        /\ next' \in 0..(MaxData + 2) /\ next' >= next /\ next' >= offset
        /\ next' >= 2
    BY <1>1, <1>3, <2>1 DEF Later
  <2> HIDE DEF offset
  <2>3. QED
    BY <1>1, <1>2, <2>1, <2>2
<1>7. QED
  BY <1>4, <1>5, <1>6

(* From the remote's side.                                                 *)
LEMMA RemoteStep ==
  ASSUME ConnInv, RemoteSynAck \/ RemoteAck \/ RemoteFin
  PROVE  ConnInv' /\ FlowNext
<1>1. /\ MaxData \in Nat /\ next \in 0..(MaxData + 2) /\ acked \in Nat
  BY ConnAssumption DEF ConnInv, Counters
<1>2. ASSUME NEW flags \in Later \cup {{"SYN", "ACK"}}, NEW offset \in 1..next,
             flags \in Later => RemoteIsOpen,
             flags \notin Later => opener = "guest" /\ acked <= 1,
             RemoteSends(flags, offset),
             NEW a \in Nat, acked' = a, a >= acked, a >= offset, synIn' = TRUE,
             UNCHANGED <<opener, next, closed, strayed>>
      PROVE  ConnInv' /\ FlowNext
  <2>1. ~strayed /\ offset \in 1..(MaxData + 2) /\ next >= 1
    BY <1>1, <1>2 DEF RemoteSends
  <2>2. opener # "none"
    BY <2>1, <1>1 DEF ConnInv, NotOpened
  <2>3. flags \in Later => st \in Open \cup {"Closed", "SynRcvd"}
    BY <1>1, <1>2, <2>1, <2>2
       DEF RemoteIsOpen, ConnInv, GuestOpened, RemoteOpened
  <2>4. flags \notin Later => st \in Open \cup {"SynSent"}
    BY <1>1, <1>2, <2>1, <2>2 DEF ConnInv, GuestOpened
  <2>5. /\ ~refused' /\ st' \in Open \cup {"Closed"}
        /\ st' = "Closed" => offset >= 2
        /\ st' = "LastAck" => st = "LastAck" /\ guestSeq' = guestSeq
        /\ \E seg \in Segments : In(seg)
    BY <1>2, <2>1, <2>2, <2>3, <2>4, RemoteLater
  <2>6. LastSeq'
    BY <1>2, <2>1, <2>2, <2>5 DEF ConnInv, LastSeq, Seq
  <2>7. opener' = opener /\ next' = next /\ closed' = closed /\ strayed' = strayed
    BY <1>2
  <2>8. Counters'
    BY <1>1, <1>2, <2>7 DEF Counters, ConnInv
  <2>9. GuestOpened' /\ RemoteOpened' /\ NotOpened'
    <3>1. a >= 1 /\ (a <= 1 => offset < 2)
      BY <1>1, <1>2
    <3>2. QED
      BY <1>1, <1>2, <2>1, <2>2, <2>5, <2>7, <3>1
         DEF GuestOpened, RemoteOpened, NotOpened
  <2>10. QED
    BY <2>5, <2>6, <2>7, <2>8, <2>9 DEF ConnInv, FlowNext
<1>3. CASE RemoteSynAck
  <2>1. /\ opener = "guest" /\ acked <= 1 /\ RemoteSends({"SYN", "ACK"}, 1)
        /\ synIn' = TRUE /\ acked' = 1 /\ ~strayed
        /\ UNCHANGED <<opener, next, closed, strayed>>
    BY <1>3 DEF RemoteSynAck, RemoteSends
  <2>2. next >= 1 /\ {"SYN", "ACK"} \notin Later
    BY <1>1, <2>1 DEF ConnInv, GuestOpened, Later
  <2>3. QED
    BY <1>1, <1>2, <2>1, <2>2
<1>4. ASSUME NEW flags \in Later, NEW offset \in 1..next,
             RemoteIsOpen, RemoteSends(flags, offset), acked' = Larger(acked, offset),
             UNCHANGED <<opener, synIn, next, closed, strayed>>
      PROVE  ConnInv' /\ FlowNext
  <2>1. synIn' = TRUE
    BY <1>1, <1>4 DEF RemoteIsOpen, RemoteSends, ConnInv, Counters, NotOpened, RemoteOpened
  <2>2. acked' \in Nat /\ acked' >= acked /\ acked' >= offset
    BY <1>1, <1>4 DEF Larger
  <2>3. QED
    BY <1>2, <1>4, <2>1, <2>2
<1>5. CASE RemoteAck
  BY <1>4, <1>5 DEF RemoteAck, Later
<1>6. CASE RemoteFin
  BY <1>4, <1>6 DEF RemoteFin, Later
<1>7. QED
  BY <1>3, <1>5, <1>6

(* Where nothing has been sent yet.                                        *)
LEMMA FreshCounters ==
  ASSUME next = 0, acked = 0, closed = FALSE, synIn = FALSE
  PROVE  Counters
<1>1. next \in 0..(MaxData + 2) /\ next <= MaxData + 1 /\ acked \in Nat
  BY ConnAssumption
<1>2. QED
  BY <1>1 DEF Counters

LEMMA OverCounters ==
  ASSUME Over
  PROVE  Counters'
<1>1. next' \in 0..(MaxData + 2) /\ next' <= MaxData + 1 /\ acked' \in Nat
  BY ConnAssumption DEF Over
<1>2. QED
  BY <1>1 DEF Counters, Over

(* A reset is never refused, and the endpoints start over.                 *)
LEMMA ResetStep ==
  ASSUME ConnInv, Reset
  PROVE  ConnInv' /\ FlowNext
<1>1. /\ next \in Nat /\ 0 \in Nat /\ 0 \in SeqNums /\ MaxData \in Nat
      /\ Seq(next) \in SeqNums /\ Seq(0) \in SeqNums
  BY SeqType, ConnAssumption, WAssumption DEF ConnInv, Counters, SeqNums
<1>2. Over /\ UNCHANGED strayed
  BY DEF Reset
<1>3. st' = "Closed" /\ ~refused' /\ FlowNext
  <2>1. CASE GuestSends({"RST"}, next)
    <3> DEFINE seg == [flags |-> {"RST"}, seq |-> Seq(next), ack |-> 0]
    <3>1. seg \in Segments /\ Out(seg)
          /\ refused' = (FlowOut(st, {"RST"}) = Unexpected)
      BY <1>1, <2>1 DEF GuestSends, Segments, Flags
    <3>2. FlowOut(st, {"RST"}) = "Closed"
      BY DEF FlowOut
    <3>3. QED
      BY <3>1, <3>2 DEF Out, Forget, FlowNext, Unexpected
  <2>2. CASE RemoteSends({"RST"}, 0)
    <3> DEFINE seg == [flags |-> {"RST"}, seq |-> 0, ack |-> Seq(0)]
    <3>1. seg \in Segments /\ In(seg)
          /\ refused' = (FlowIn(st, {"RST"}, Covers(seg)) = Unexpected)
      BY <1>1, <2>2 DEF RemoteSends, Segments, Flags
    <3>2. FlowIn(st, {"RST"}, Covers(seg)) = "Closed"
      BY DEF FlowIn
    <3>3. QED
      BY <3>1, <3>2 DEF In, Forget, FlowNext, Unexpected
  <2>3. QED
    BY <2>1, <2>2 DEF Reset
<1>4. Counters'
  BY <1>2, OverCounters
<1>5. NotOpened' /\ GuestOpened' /\ RemoteOpened' /\ LastSeq'
  BY <1>2, <1>3 DEF Over, NotOpened, GuestOpened, RemoteOpened, LastSeq
<1>6. QED
  BY <1>2, <1>3, <1>4, <1>5 DEF Over, ConnInv

LEMMA ConnStep == ConnInv /\ [Next]_vars => ConnInv' /\ [FlowNext]_flowVars
<1> SUFFICES ASSUME ConnInv, [Next]_vars
             PROVE  ConnInv' /\ [FlowNext]_flowVars
  OBVIOUS
<1>1. CASE GuestSyn \/ GuestSynAck \/ RemoteSyn
  BY <1>1, SynStep
<1>2. CASE GuestAck \/ GuestData \/ GuestFin
  BY <1>2, GuestStep
<1>3. CASE RemoteSynAck \/ RemoteAck \/ RemoteFin
  BY <1>3, RemoteStep
<1>4. CASE Reset
  BY <1>4, ResetStep
<1>5. ASSUME NEW seg \in Segments, Stray(seg)
      PROVE  ConnInv' /\ FlowNext
  <2>1. FlowNext /\ Over /\ strayed' = TRUE /\ refused' = FALSE
    BY <1>5 DEF Stray, FlowNext
  <2>2. ConnInv'
    BY <2>1, OverCounters DEF Over, ConnInv
  <2>3. QED
    BY <2>1, <2>2
<1>6. CASE UNCHANGED vars
  BY <1>6 DEF vars, connVars, flowVars, ConnInv, Counters, NotOpened, GuestOpened,
              RemoteOpened, LastSeq, Seq
<1>7. QED
  BY <1>1, <1>2, <1>3, <1>4, <1>5, <1>6 DEF Next

LEMMA InitConnInv == ConnInit => ConnInv /\ FlowInit
<1> SUFFICES ASSUME ConnInit
             PROVE  ConnInv /\ FlowInit
  OBVIOUS
<1>1. Counters
  BY FreshCounters DEF ConnInit
<1>2. NotOpened /\ GuestOpened /\ RemoteOpened /\ LastSeq
  BY DEF ConnInit, FlowInit, NotOpened, GuestOpened, RemoteOpened, LastSeq
<1>3. QED
  BY <1>1, <1>2 DEF ConnInit, ConnInv

(* A connection with its endpoints is a flow under particular segments, so *)
(* all that holds of a tracked flow holds of it.                           *)
THEOREM ConnIsAFlow == Spec => FlowSpec
<1>1. Spec => FlowInit /\ [][FlowNext]_flowVars
  BY InitConnInv, ConnStep, PTL DEF Spec
<1>2. QED
  BY <1>1, PTL DEF FlowSpec

(* The port's TCP tracking drops no segment of a connection that keeps to  *)
(* the protocol (port.rs, TcpState::UnexpectedSegment), for any number of  *)
(* sequence numbers, initial sequence number and amount of data.           *)
THEOREM LegalTrafficIsLetThrough == Spec => []LegalTrafficPasses
<1>1. ConnInv => LegalTrafficPasses
  BY DEF ConnInv, LegalTrafficPasses
<1>2. QED
  BY <1>1, InitConnInv, ConnStep, PTL DEF Spec
=============================================================================

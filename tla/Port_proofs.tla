----------------------------- MODULE Port_proofs -----------------------------
(***************************************************************************)
(* Proofs about Port for every number of threads, flows and rule changes   *)
(* and every limit: its state keeps its type, no packet gets past the      *)
(* firewall by way of a stale entry, and what the port's tables hold is    *)
(* what its state allows.                                                  *)
(*                                                                         *)
(* The first argument is about stamps.  An entry stamped with the current  *)
(* epoch was made since the last change, of what the firewall accepted     *)
(* since; an entry whose stamp is the epoch a thread read was there when   *)
(* the thread read it, or was made after: either way the firewall accepted *)
(* the flow while the packet was under way.                                *)
(***************************************************************************)
EXTENDS Port, TLAPS

(* There is a UFT entry of the flow in this direction with this stamp.     *)
Stamped(dir, f, e) ==
  IF dir = "out" THEN uftOut[f] # None /\ uftOut[f].epoch = e
                 ELSE uftIn[NetKey(f)] # None /\ uftIn[NetKey(f)] = e

StampsArePast ==
  \A dir \in Dirs, f \in Flows, e \in Epochs : Stamped(dir, f, e) => e <= epoch

CurrentIsAccepted ==
  \A dir \in Dirs, f \in Flows : Stamped(dir, f, epoch) => <<dir, f>> \in accepted

(* Between the announcement of a change and the change no entry can be     *)
(* made, so none has the new epoch.                                        *)
AnnouncedIsNew ==
  lock \in {"adding", "setting"} =>
    \A dir \in Dirs, f \in Flows : ~Stamped(dir, f, epoch)

RemovalCanEnd == lock = "removing" => epoch < MaxEpoch

(* What a packet under way knows.                                          *)
Knows(t) ==
  UnderWay(t) =>
    /\ pkt[t].epoch <= epoch
    /\ <<pkt[t].dir, pkt[t].flow>> \in accepted => pkt[t].ok
    /\ Stamped(pkt[t].dir, pkt[t].flow, pkt[t].epoch) => pkt[t].ok

IInv ==
  /\ TypeOK
  /\ StampsArePast
  /\ CurrentIsAccepted
  /\ AnnouncedIsNew
  /\ RemovalCanEnd
  /\ \A t \in Threads : Knows(t)
  /\ FirewallHolds

-----------------------------------------------------------------------------
(* In the initial state there are neither entries nor packets.             *)
LEMMA InitIInv == Init => IInv
<1> SUFFICES ASSUME Init PROVE IInv
  OBVIOUS
<1>1. \A f \in Flows : NetKey(f) \in Keys
  BY DEF NetKey, GuestKey, Keys
<1>2. \A dir \in Dirs, f \in Flows, e \in Epochs : ~Stamped(dir, f, e)
  BY <1>1 DEF Init, Stamped
<1>3. 0 \in Epochs
  BY PortAssumption DEF Epochs
<1>4. TypeOK
  BY <1>3, PortAssumption DEF Init, TypeOK, PortStates, Dirs
<1>5. \A t \in Threads : ~UnderWay(t) /\ ~HasPassed(t)
  BY DEF Init, UnderWay, HasPassed
<1>6. lock = None /\ epoch \in Epochs
  BY <1>3 DEF Init
<1>7. RemovalCanEnd /\ AnnouncedIsNew
  BY <1>2, <1>6, NoneAssumption DEF RemovalCanEnd, AnnouncedIsNew, Changes
<1>8. QED
  BY <1>2, <1>4, <1>5, <1>6, <1>7
     DEF IInv, StampsArePast, CurrentIsAccepted, Knows, FirewallHolds

(* What a thread's packet may learn without being moved on.                *)
Carried(n, acc, s) ==
  /\ n[s] = None <=> pkt[s] = None
  /\ pkt[s] # None =>
       /\ n[s].at = pkt[s].at /\ n[s].dir = pkt[s].dir
       /\ n[s].flow = pkt[s].flow /\ n[s].epoch = pkt[s].epoch
       /\ pkt[s].ok => n[s].ok
       /\ <<pkt[s].dir, pkt[s].flow>> \in acc => n[s].ok

LEMMA NotedShape ==
  ASSUME TypeOK, NEW acc
  PROVE  /\ Noted(acc) \in [Threads -> Packet \cup {None}]
         /\ \A s \in Threads : Carried(Noted(acc), acc, s)
<1> DEFINE n == Noted(acc)
<1>1. ASSUME NEW s \in Threads
      PROVE  n[s] \in Packet \cup {None} /\ Carried(n, acc, s)
  <2>1. pkt[s] \in Packet \cup {None}
    BY DEF TypeOK
  <2>2. n[s] = IF pkt[s] # None /\ <<pkt[s].dir, pkt[s].flow>> \in acc
               THEN [pkt[s] EXCEPT !.ok = TRUE] ELSE pkt[s]
    BY DEF Noted
  <2> HIDE DEF n
  <2>3. CASE pkt[s] # None /\ <<pkt[s].dir, pkt[s].flow>> \in acc
    <3>1. n[s] = [pkt[s] EXCEPT !.ok = TRUE] /\ pkt[s] \in Packet
      BY <2>1, <2>2, <2>3
    <3>2. n[s] \in Packet
      BY <3>1 DEF Packet
    <3>3. n[s] # None
      BY <3>2, NoneAssumption
    <3>4. QED
      BY <2>3, <3>1, <3>2, <3>3 DEF Carried, Packet
  <2>4. CASE ~(pkt[s] # None /\ <<pkt[s].dir, pkt[s].flow>> \in acc)
    BY <2>1, <2>2, <2>4 DEF Carried
  <2>5. QED
    BY <2>3, <2>4
<1>2. n = [s \in Threads |-> n[s]]
  BY DEF Noted
<1> HIDE DEF n
<1>3. n \in [Threads -> Packet \cup {None}] /\ \A s \in Threads : Carried(n, acc, s)
  BY <1>1, <1>2
<1>4. QED
  BY <1>3 DEF n

(* After a step the packets under way are those that were, with what they  *)
(* learned, and those that passed had reason to.                           *)
Onward ==
  /\ pkt' \in [Threads -> Packet \cup {None}]
  /\ accepted' \in SUBSET (Dirs \X Flows)
  /\ accepted \subseteq accepted'
  /\ \A s \in Threads :
       /\ HasPassed(s)' => pkt'[s].ok
       /\ UnderWay(s)' =>
            /\ UnderWay(s)
            /\ pkt'[s].dir = pkt[s].dir /\ pkt'[s].flow = pkt[s].flow
            /\ pkt'[s].epoch = pkt[s].epoch
            /\ pkt[s].ok => pkt'[s].ok
            /\ <<pkt[s].dir, pkt[s].flow>> \in accepted' => pkt'[s].ok

LEMMA AcceptableType ==
  ASSUME NEW table, NEW rules
  PROVE  Acceptable(table, rules) \in SUBSET (Dirs \X Flows)
BY DEF Acceptable

LEMMA DropOnward ==
  ASSUME IInv, NEW t \in Threads, Drop(t)
  PROVE  Onward
<1>1. /\ accepted' \in SUBSET (Dirs \X Flows)
      /\ accepted \subseteq accepted'
  BY AcceptableType DEF Drop, Learn, IInv, TypeOK
<1> DEFINE n == Noted(accepted')
<1>2. /\ n \in [Threads -> Packet \cup {None}]
      /\ \A s \in Threads : Carried(n, accepted', s)
  BY NotedShape DEF IInv
<1>3. pkt' = [n EXCEPT ![t] = None]
  BY DEF Drop
<1> HIDE DEF n
<1>4. pkt' \in [Threads -> Packet \cup {None}]
  BY <1>2, <1>3
<1>5. ASSUME NEW s \in Threads
      PROVE  /\ HasPassed(s)' => pkt'[s].ok
             /\ UnderWay(s)' =>
                  /\ UnderWay(s)
                  /\ pkt'[s].dir = pkt[s].dir /\ pkt'[s].flow = pkt[s].flow
                  /\ pkt'[s].epoch = pkt[s].epoch
                  /\ pkt[s].ok => pkt'[s].ok
                  /\ <<pkt[s].dir, pkt[s].flow>> \in accepted' => pkt'[s].ok
  <2>1. CASE s = t
    BY <1>2, <1>3, <2>1 DEF HasPassed, UnderWay
  <2>2. CASE s # t
    <3>1. pkt'[s] = n[s] /\ Carried(n, accepted', s)
      BY <1>2, <1>3, <2>2
    <3>2. QED
      BY <3>1 DEF Carried, HasPassed, UnderWay, IInv, FirewallHolds
  <2>3. QED
    BY <2>1, <2>2
<1>6. QED
  BY <1>1, <1>4, <1>5 DEF Onward

LEMMA PassOnward ==
  ASSUME IInv, NEW t \in Threads, UnderWay(t), Pass(t),
         pkt[t].ok \/ <<pkt[t].dir, pkt[t].flow>> \in accepted'
  PROVE  Onward
<1>1. /\ accepted' \in SUBSET (Dirs \X Flows)
      /\ accepted \subseteq accepted'
  BY AcceptableType DEF Pass, Learn, IInv, TypeOK
<1> DEFINE n == Noted(accepted')
<1>2. /\ n \in [Threads -> Packet \cup {None}]
      /\ \A s \in Threads : Carried(n, accepted', s)
  BY NotedShape DEF IInv
<1>3. pkt' = [n EXCEPT ![t].at = "passed"]
  BY DEF Pass
<1> HIDE DEF n
<1>4. n[t] \in Packet /\ n[t] # None /\ n[t].ok
  BY <1>2 DEF Carried, UnderWay
<1>5. /\ pkt'[t] \in Packet /\ pkt'[t].at = "passed" /\ pkt'[t].ok
      /\ \A s \in Threads : s # t => pkt'[s] = n[s]
  BY <1>2, <1>3, <1>4 DEF Packet
<1>6. pkt' \in [Threads -> Packet \cup {None}]
  BY <1>2, <1>3, <1>5
<1>7. ASSUME NEW s \in Threads
      PROVE  /\ HasPassed(s)' => pkt'[s].ok
             /\ UnderWay(s)' =>
                  /\ UnderWay(s)
                  /\ pkt'[s].dir = pkt[s].dir /\ pkt'[s].flow = pkt[s].flow
                  /\ pkt'[s].epoch = pkt[s].epoch
                  /\ pkt[s].ok => pkt'[s].ok
                  /\ <<pkt[s].dir, pkt[s].flow>> \in accepted' => pkt'[s].ok
  <2>1. CASE s = t
    BY <1>5, <2>1 DEF HasPassed, UnderWay
  <2>2. CASE s # t
    <3>1. pkt'[s] = n[s] /\ Carried(n, accepted', s)
      BY <1>2, <1>5, <2>2
    <3>2. QED
      BY <3>1 DEF Carried, HasPassed, UnderWay, IInv, FirewallHolds
  <2>3. QED
    BY <2>1, <2>2
<1>8. QED
  BY <1>1, <1>6, <1>7 DEF Onward

(* A step within an epoch and without the rules: entries that are new are  *)
(* of flows the firewall has accepted.                                     *)
LEMMA TableStep ==
  ASSUME IInv, Onward, lock = None,
         UNCHANGED <<epoch, lock, allow>>,
         state' \in PortStates, panicked' \in BOOLEAN,
         lft' \in SUBSET Flows,
         uftOut' \in [Flows -> OutEntry \cup {None}],
         uftIn' \in [Keys -> Epochs \cup {None}],
         tcp' \in [Flows -> TcpEntry \cup {None}],
         \A dir \in Dirs, f \in Flows, e \in Epochs :
           Stamped(dir, f, e)' =>
             Stamped(dir, f, e) \/ (<<dir, f>> \in accepted' /\ e <= epoch)
  PROVE  IInv'
<1>1. TypeOK'
  BY DEF IInv, TypeOK, Onward
<1>2. StampsArePast'
  BY DEF IInv, StampsArePast
<1>3. epoch \in Epochs
  BY DEF IInv, TypeOK
<1>4. CurrentIsAccepted'
  BY <1>3 DEF IInv, CurrentIsAccepted, Onward
<1>5. AnnouncedIsNew' /\ RemovalCanEnd'
  BY NoneAssumption DEF AnnouncedIsNew, RemovalCanEnd, Changes
<1>6. ASSUME NEW s \in Threads PROVE Knows(s)'
  <2> SUFFICES ASSUME UnderWay(s)'
               PROVE  /\ pkt'[s].epoch <= epoch'
                      /\ <<pkt'[s].dir, pkt'[s].flow>> \in accepted' => pkt'[s].ok
                      /\ Stamped(pkt[s].dir, pkt[s].flow, pkt[s].epoch)' => pkt'[s].ok
    BY DEF Knows
  <2>1. /\ UnderWay(s)
        /\ pkt'[s].dir = pkt[s].dir /\ pkt'[s].flow = pkt[s].flow
        /\ pkt'[s].epoch = pkt[s].epoch
        /\ pkt[s].ok => pkt'[s].ok
        /\ <<pkt[s].dir, pkt[s].flow>> \in accepted' => pkt'[s].ok
    BY DEF Onward
  <2>2. pkt[s].dir \in Dirs /\ pkt[s].flow \in Flows /\ pkt[s].epoch \in Epochs
    BY <2>1 DEF IInv, TypeOK, Packet, UnderWay
  <2>3. Knows(s)
    BY DEF IInv
  <2>4. \A dir \in Dirs, f \in Flows, e \in Epochs :
          dir = pkt[s].dir /\ f = pkt[s].flow /\ e = pkt[s].epoch /\ Stamped(dir, f, e)'
            => pkt'[s].ok
    BY <2>1, <2>2, <2>3 DEF Knows
  <2>5. Stamped(pkt[s].dir, pkt[s].flow, pkt[s].epoch)' => pkt'[s].ok
    BY <2>1, <2>2, <2>4 DEF Stamped
  <2>6. pkt'[s].epoch <= epoch'
    BY <2>1, <2>3 DEF Knows
  <2>7. QED
    BY <2>1, <2>5, <2>6
<1>7. FirewallHolds'
  BY DEF Onward, FirewallHolds
<1>8. QED
  BY <1>1, <1>2, <1>4, <1>5, <1>6, <1>7 DEF IInv

-----------------------------------------------------------------------------
(* Tables that hold entries of the present ones only, with their stamps.   *)
OutShrunk(out) ==
  /\ out \in [Flows -> OutEntry \cup {None}]
  /\ \A f \in Flows :
       out[f] # None => uftOut[f] # None /\ out[f].epoch = uftOut[f].epoch

InShrunk(in) ==
  /\ in \in [Keys -> Epochs \cup {None}]
  /\ \A k \in Keys : in[k] # None => in[k] = uftIn[k]

LEMMA KeysOfFlows ==
  ASSUME NEW f \in Flows
  PROVE  /\ NetKey(f) \in Keys /\ GuestKey(f) \in Keys
         /\ \A g \in Flows : NetKey(f) = NetKey(g) => f = g
BY DEF NetKey, GuestKey, Keys

LEMMA NothingShrunk ==
  ASSUME TypeOK
  PROVE  OutShrunk(uftOut) /\ InShrunk(uftIn)
BY DEF TypeOK, OutShrunk, InShrunk

LEMMA WithoutOut ==
  ASSUME NEW out, OutShrunk(out), NEW f \in Flows
  PROVE  OutShrunk(Without(out, f))
<1>1. f # None => Without(out, f) = [out EXCEPT ![f] = None]
  BY DEF Without
<1>2. f = None => Without(out, f) = out
  BY DEF Without
<1>3. QED
  BY <1>1, <1>2 DEF OutShrunk

LEMMA WithoutIn ==
  ASSUME NEW in, InShrunk(in), NEW k \in Keys \cup {None}
  PROVE  InShrunk(Without(in, k))
<1>1. k # None => Without(in, k) = [in EXCEPT ![k] = None] /\ k \in Keys
  BY DEF Without
<1>2. k = None => Without(in, k) = in
  BY DEF Without
<1>3. QED
  BY <1>1, <1>2 DEF InShrunk

(* The tables process_in and process_out leave when they invalidate a      *)
(* stale entry and its pair.                                               *)
LEMMA InvalidatedShrunk ==
  ASSUME TypeOK, NEW t \in Threads, UnderWay(t)
  PROVE  /\ InShrunk(InvalidatedIn(t)) /\ OutShrunk(OutOfInvalidatedIn(t))
         /\ OutShrunk(PairedOut(t))
         /\ OutShrunk(InvalidatedOut(t)) /\ InShrunk(InOfInvalidatedOut(t))
<1> DEFINE f == pkt[t].flow
<1>1. f \in Flows /\ NetKey(f) \in Keys
  BY KeysOfFlows DEF TypeOK, UnderWay, Packet
<1>2. OutShrunk(uftOut) /\ InShrunk(uftIn)
  BY NothingShrunk
<1>3. InShrunk(InvalidatedIn(t)) /\ OutShrunk(InvalidatedOut(t))
  BY <1>1, <1>2, WithoutIn, WithoutOut DEF InvalidatedIn, InvalidatedOut
<1>4. OutShrunk(OutOfInvalidatedIn(t))
  BY <1>1, <1>2, WithoutOut DEF OutOfInvalidatedIn
<1>5. InShrunk(InOfInvalidatedOut(t))
  <2>1. CASE uftOut[f] # None
    <3>1. uftOut[f].pair \in Keys \cup {None}
      BY <1>1, <2>1 DEF TypeOK, OutEntry
    <3>2. QED
      BY <1>2, <2>1, <3>1, WithoutIn DEF InOfInvalidatedOut
  <2>2. CASE uftOut[f] = None
    BY <1>2, <2>2 DEF InOfInvalidatedOut
  <2>3. QED
    BY <2>1, <2>2
<1>6. OutShrunk(PairedOut(t))
  <2> DEFINE out == OutOfInvalidatedIn(t)
  <2>1. PairedOut(t) = IF out[f] # None THEN [out EXCEPT ![f].pair = NetKey(f)] ELSE out
    BY DEF PairedOut
  <2>2. OutShrunk(out)
    BY <1>4
  <2> HIDE DEF out, f
  <2>3. CASE out[f] # None
    <3>1. out[f] \in OutEntry
      BY <1>1, <2>2, <2>3 DEF OutShrunk
    <3>2. [out[f] EXCEPT !.pair = NetKey(f)] \in OutEntry
          /\ [out[f] EXCEPT !.pair = NetKey(f)].epoch = out[f].epoch
      BY <1>1, <3>1 DEF OutEntry
    <3>3. PairedOut(t) = [out EXCEPT ![f] = [out[f] EXCEPT !.pair = NetKey(f)]]
      BY <2>1, <2>3, <2>2, <1>1 DEF OutShrunk
    <3>4. QED
      BY <1>1, <2>2, <2>3, <3>2, <3>3 DEF OutShrunk
  <2>4. CASE out[f] = None
    BY <2>1, <2>2, <2>4
  <2>5. QED
    BY <2>3, <2>4
<1>7. QED
  BY <1>3, <1>4, <1>5, <1>6

(* A step that adds no entry.                                              *)
LEMMA ShrinkStep ==
  ASSUME IInv, Onward, lock = None,
         UNCHANGED <<epoch, lock, allow>>,
         state' \in PortStates, panicked' \in BOOLEAN,
         lft' \in SUBSET Flows,
         OutShrunk(uftOut'), InShrunk(uftIn'),
         tcp' \in [Flows -> TcpEntry \cup {None}]
  PROVE  IInv'
<1>1. \A dir \in Dirs, f \in Flows, e \in Epochs :
        Stamped(dir, f, e)' => Stamped(dir, f, e)
  BY KeysOfFlows DEF Stamped, OutShrunk, InShrunk
<1>2. /\ uftOut' \in [Flows -> OutEntry \cup {None}]
      /\ uftIn' \in [Keys -> Epochs \cup {None}]
  BY DEF OutShrunk, InShrunk
<1>3. QED
  BY <1>1, <1>2, TableStep

(* A step that adds an outbound entry for the packet that passes.          *)
LEMMA NewOutStep ==
  ASSUME IInv, Onward, lock = None,
         UNCHANGED <<epoch, lock, allow>>,
         state' \in PortStates, panicked' \in BOOLEAN,
         lft' \in SUBSET Flows,
         NEW t \in Threads, UnderWay(t),
         uftOut' = [uftOut EXCEPT ![pkt[t].flow] =
                      [epoch |-> pkt[t].epoch, pair |-> None]],
         <<"out", pkt[t].flow>> \in accepted',
         InShrunk(uftIn'),
         tcp' \in [Flows -> TcpEntry \cup {None}]
  PROVE  IInv'
<1> DEFINE f == pkt[t].flow
           e == pkt[t].epoch
<1>1. f \in Flows /\ e \in Epochs /\ e <= epoch
  BY DEF IInv, TypeOK, UnderWay, Packet, Knows
<1>2. /\ uftOut \in [Flows -> OutEntry \cup {None}]
      /\ uftOut' = [uftOut EXCEPT ![f] = [epoch |-> e, pair |-> None]]
      /\ <<"out", f>> \in accepted'
  BY DEF IInv, TypeOK
<1> HIDE DEF f, e
<1>3. [epoch |-> e, pair |-> None] \in OutEntry
  BY <1>1 DEF OutEntry
<1>4. /\ uftOut' \in [Flows -> OutEntry \cup {None}]
      /\ uftIn' \in [Keys -> Epochs \cup {None}]
  BY <1>2, <1>3 DEF InShrunk
<1>5. ASSUME NEW dir \in Dirs, NEW g \in Flows, NEW x \in Epochs, Stamped(dir, g, x)'
      PROVE  Stamped(dir, g, x) \/ (<<dir, g>> \in accepted' /\ x <= epoch)
  <2>1. CASE dir = "in"
    BY <1>5, <2>1, KeysOfFlows DEF Stamped, InShrunk
  <2>2. CASE dir = "out" /\ g # f
    BY <1>2, <1>5, <2>2 DEF Stamped
  <2>3. CASE dir = "out" /\ g = f
    <3>1. x = e
      BY <1>1, <1>2, <1>5, <2>3 DEF Stamped
    <3>2. QED
      BY <1>1, <1>2, <2>3, <3>1
  <2>4. QED
    BY <2>1, <2>2, <2>3 DEF Dirs
<1>6. QED
  BY <1>4, <1>5, TableStep

(* A step that adds an inbound entry for the packet that passes.           *)
LEMMA NewInStep ==
  ASSUME IInv, Onward, lock = None,
         UNCHANGED <<epoch, lock, allow>>,
         state' \in PortStates, panicked' \in BOOLEAN,
         lft' \in SUBSET Flows,
         NEW t \in Threads, UnderWay(t),
         uftIn' = [uftIn EXCEPT ![NetKey(pkt[t].flow)] = pkt[t].epoch],
         <<"in", pkt[t].flow>> \in accepted',
         OutShrunk(uftOut'),
         tcp' \in [Flows -> TcpEntry \cup {None}]
  PROVE  IInv'
<1> DEFINE f == pkt[t].flow
           e == pkt[t].epoch
<1>1. f \in Flows /\ NetKey(f) \in Keys /\ e \in Epochs /\ e <= epoch
  BY KeysOfFlows DEF IInv, TypeOK, UnderWay, Packet, Knows
<1>2. /\ uftIn \in [Keys -> Epochs \cup {None}]
      /\ uftIn' = [uftIn EXCEPT ![NetKey(f)] = e]
      /\ <<"in", f>> \in accepted'
  BY DEF IInv, TypeOK
<1> HIDE DEF f, e
<1>3. /\ uftOut' \in [Flows -> OutEntry \cup {None}]
      /\ uftIn' \in [Keys -> Epochs \cup {None}]
  BY <1>1, <1>2 DEF OutShrunk
<1>4. ASSUME NEW dir \in Dirs, NEW g \in Flows, NEW x \in Epochs, Stamped(dir, g, x)'
      PROVE  Stamped(dir, g, x) \/ (<<dir, g>> \in accepted' /\ x <= epoch)
  <2>1. CASE dir = "out"
    BY <1>4, <2>1 DEF Stamped, OutShrunk
  <2>2. CASE dir = "in" /\ g # f
    <3>1. NetKey(g) # NetKey(f) /\ NetKey(g) \in Keys
      BY <1>1, <2>2, KeysOfFlows
    <3>2. uftIn'[NetKey(g)] = uftIn[NetKey(g)]
      BY <1>2, <3>1
    <3>3. QED
      BY <1>4, <2>2, <3>2 DEF Stamped
  <2>3. CASE dir = "in" /\ g = f
    <3>1. x = e
      BY <1>1, <1>2, <1>4, <2>3 DEF Stamped
    <3>2. QED
      BY <1>1, <1>2, <2>3, <3>1
  <2>4. QED
    BY <2>1, <2>2, <2>3 DEF Dirs
<1>5. QED
  BY <1>3, <1>4, TableStep

-----------------------------------------------------------------------------
(* What the actions of packet processing have in common.                   *)
LEMMA AtWork ==
  ASSUME TypeOK, NEW t \in Threads, UnderWay(t)
  PROVE  /\ pkt[t].flow \in Flows /\ pkt[t].dir \in Dirs /\ pkt[t].epoch \in Epochs
         /\ NetKey(pkt[t].flow) \in Keys /\ GuestKey(pkt[t].flow) \in Keys
         /\ tcp[pkt[t].flow] # None =>
              /\ tcp[pkt[t].flow].st \in States \ {"Closed"}
              /\ tcp[pkt[t].flow].inb \in Keys \cup {None}
         /\ lft \in SUBSET Flows /\ state \in PortStates /\ panicked \in BOOLEAN
         /\ tcp \in [Flows -> TcpEntry \cup {None}]
<1>1. pkt[t] \in Packet
  BY DEF TypeOK, UnderWay
<1>2. pkt[t].flow \in Flows /\ pkt[t].dir \in Dirs /\ pkt[t].epoch \in Epochs
  BY <1>1 DEF Packet
<1>3. tcp[pkt[t].flow] # None => tcp[pkt[t].flow] \in TcpEntry
  BY <1>2 DEF TypeOK
<1>4. QED
  BY <1>2, <1>3, KeysOfFlows DEF TypeOK, TcpEntry

(* An entry of tcp_flows that is removed, updated or made.                 *)
LEMMA TcpTyped ==
  ASSUME TypeOK, NEW f \in Flows, NEW st \in States \ {"Closed"},
         NEW k \in Keys \cup {None}
  PROVE  /\ Without(tcp, f) \in [Flows -> TcpEntry \cup {None}]
         /\ [tcp EXCEPT ![f] = [st |-> st, inb |-> k]] \in [Flows -> TcpEntry \cup {None}]
         /\ tcp[f] # None =>
              /\ [tcp EXCEPT ![f].st = st] \in [Flows -> TcpEntry \cup {None}]
              /\ [tcp EXCEPT ![f].inb = k] \in [Flows -> TcpEntry \cup {None}]
<1>1. tcp \in [Flows -> TcpEntry \cup {None}]
  BY DEF TypeOK
<1>2. Without(tcp, f) \in [Flows -> TcpEntry \cup {None}]
  BY <1>1 DEF Without
<1>3. [st |-> st, inb |-> k] \in TcpEntry
  BY DEF TcpEntry
<1>4. [tcp EXCEPT ![f] = [st |-> st, inb |-> k]] \in [Flows -> TcpEntry \cup {None}]
  BY <1>1, <1>3
<1>5. ASSUME tcp[f] # None
      PROVE  /\ [tcp EXCEPT ![f].st = st] \in [Flows -> TcpEntry \cup {None}]
             /\ [tcp EXCEPT ![f].inb = k] \in [Flows -> TcpEntry \cup {None}]
  <2>1. tcp[f] \in TcpEntry
    BY <1>1, <1>5
  <2>2. [tcp[f] EXCEPT !.st = st] \in TcpEntry /\ [tcp[f] EXCEPT !.inb = k] \in TcpEntry
    BY <2>1 DEF TcpEntry
  <2>3. QED
    BY <1>1, <2>2
<1>6. QED
  BY <1>2, <1>4, <1>5

(* The state a segment brings a flow to, one that is not tracked yet       *)
(* included.                                                               *)
LEMMA SegmentTo ==
  ASSUME TypeOK, NEW f \in Flows, NEW flags \in FlagSets, NEW covers \in BOOLEAN,
         NEW from, from = "Closed" \/ (tcp[f] # None /\ from = tcp[f].st)
  PROVE  /\ FlowIn(from, flags, covers) \in States \cup {Unexpected}
         /\ FlowOut(from, flags) \in States \cup {Unexpected}
<1>1. flags \in SUBSET Flags
  BY PortAssumption
<1>2. tcp[f] # None => tcp[f] \in TcpEntry
  BY DEF TypeOK
<1>3. from \in States
  BY <1>2 DEF TcpEntry, States
<1>4. FlowIn(from, flags, covers) \in States \cup {Unexpected}
  <2>1. CASE "RST" \in flags
    BY <2>1 DEF FlowIn, States
  <2>2. CASE "RST" \notin flags
    BY <1>3, <2>2 DEF FlowIn, States
  <2>3. QED
    BY <2>1, <2>2
<1>5. FlowOut(from, flags) \in States \cup {Unexpected}
  <2>1. CASE "RST" \in flags
    BY <2>1 DEF FlowOut, States
  <2>2. CASE "RST" \notin flags
    BY <1>3, <2>2 DEF FlowOut, States
  <2>3. QED
    BY <2>1, <2>2
<1>6. QED
  BY <1>4, <1>5

(* What the firewall's decision does to its table, and what it says of a   *)
(* packet it lets through.                                                 *)
LEMMA FirewallShape ==
  ASSUME TypeOK, NEW dir \in Dirs, NEW f \in Flows, NEW res, Firewall(dir, f, res)
  PROVE  /\ lft' \in SUBSET Flows
         /\ res = "allowed" /\ Learn => <<dir, f>> \in accepted'
<1>1. lft \in SUBSET Flows
  BY DEF TypeOK
<1>2. lft' = lft \/ lft' = lft \cup {f}
  BY DEF Firewall
<1>3. res = "allowed" => f \in lft'
  BY DEF Firewall
<1>4. QED
  BY <1>1, <1>2, <1>3 DEF Learn, Acceptable

-----------------------------------------------------------------------------
(* One lemma for each action: it keeps the invariant.                      *)
LEMMA ArriveStep ==
  ASSUME IInv, NEW t \in Threads, NEW dir \in Dirs, NEW f \in Flows, Arrive(t, dir, f)
  PROVE  IInv'
<1> DEFINE p == [at |-> "arrived", dir |-> dir, flow |-> f, epoch |-> epoch,
                 ok |-> <<dir, f>> \in accepted]
<1>1. pkt' = [pkt EXCEPT ![t] = p]
  BY DEF Arrive
<1>2. UNCHANGED <<state, epoch, lock, allow, lft, uftOut, uftIn, tcp, panicked, accepted>>
  BY DEF Arrive, tables
<1>3. /\ p.at = "arrived" /\ p.dir = dir /\ p.flow = f /\ p.epoch = epoch
      /\ p.ok <=> <<dir, f>> \in accepted
  OBVIOUS
<1>4. epoch \in Epochs
  BY DEF IInv, TypeOK
<1>5. p \in Packet
  BY <1>4 DEF Packet
<1> HIDE DEF p
<1>6. TypeOK'
  BY <1>1, <1>2, <1>5 DEF IInv, TypeOK
<1>7. \A d \in Dirs, g \in Flows, e \in Epochs : Stamped(d, g, e)' <=> Stamped(d, g, e)
  BY <1>2 DEF Stamped
<1>8. StampsArePast' /\ CurrentIsAccepted' /\ AnnouncedIsNew' /\ RemovalCanEnd'
  BY <1>2, <1>4, <1>7
     DEF IInv, StampsArePast, CurrentIsAccepted, AnnouncedIsNew, RemovalCanEnd
<1>9. ASSUME NEW s \in Threads
      PROVE  Knows(s)' /\ (HasPassed(s)' => pkt'[s].ok)
  <2>1. CASE s = t
    <3>1. pkt'[s] = p
      BY <1>1, <2>1 DEF IInv, TypeOK
    <3>2. Stamped(dir, f, epoch) => <<dir, f>> \in accepted
      BY DEF IInv, CurrentIsAccepted
    <3>3. epoch <= epoch
      BY <1>4 DEF Epochs
    <3>4. QED
      BY <1>2, <1>3, <3>1, <3>2, <3>3 DEF Knows, HasPassed, Stamped
  <2>2. CASE s # t
    <3>1. pkt'[s] = pkt[s]
      BY <1>1, <2>2 DEF IInv, TypeOK
    <3>2. Knows(s) /\ (HasPassed(s) => pkt[s].ok)
      BY DEF IInv, FirewallHolds
    <3>3. QED
      BY <1>2, <3>1, <3>2 DEF Knows, HasPassed, UnderWay, Stamped
  <2>3. QED
    BY <2>1, <2>2
<1>10. QED
  BY <1>6, <1>8, <1>9 DEF IInv, FirewallHolds

LEMMA RefuseStep ==
  ASSUME IInv, NEW t \in Threads, Refuse(t)
  PROVE  IInv'
<1>1. pkt' = [pkt EXCEPT ![t] = None]
  BY DEF Refuse
<1>2. UNCHANGED <<state, epoch, lock, allow, lft, uftOut, uftIn, tcp, panicked, accepted>>
      /\ lock = None
  BY DEF Refuse, tables
<1>3. TypeOK
  BY DEF IInv
<1>4. Onward
  <2>1. \A s \in Threads : pkt'[s] = None \/ pkt'[s] = pkt[s]
    BY <1>1, <1>3 DEF TypeOK
  <2>2. pkt' \in [Threads -> Packet \cup {None}]
    BY <1>1, <1>3 DEF TypeOK
  <2>3. \A s \in Threads : Knows(s) /\ (HasPassed(s) => pkt[s].ok)
    BY DEF IInv, FirewallHolds
  <2>4. QED
    BY <1>2, <1>3, <2>1, <2>2, <2>3 DEF Onward, HasPassed, UnderWay, Knows, TypeOK
<1>5. OutShrunk(uftOut') /\ InShrunk(uftIn')
  BY <1>2, <1>3, NothingShrunk DEF OutShrunk, InShrunk
<1>6. QED
  BY <1>2, <1>3, <1>4, <1>5, ShrinkStep DEF TypeOK

(* A packet that takes a current entry may pass.                           *)
LEMMA CurrentMayPass ==
  ASSUME IInv, NEW t \in Threads, UnderWay(t),
         \/ /\ pkt[t].dir = "in" /\ uftIn[NetKey(pkt[t].flow)] # None
            /\ IsCurrent(uftIn[NetKey(pkt[t].flow)], t)
         \/ /\ pkt[t].dir = "out" /\ uftOut[pkt[t].flow] # None
            /\ IsCurrent(uftOut[pkt[t].flow].epoch, t)
  PROVE  pkt[t].ok
<1>1. Stamped(pkt[t].dir, pkt[t].flow, pkt[t].epoch)
  BY DEF Stamped, IsCurrent
<1>2. QED
  BY <1>1 DEF IInv, Knows

LEMMA HitStep ==
  ASSUME IInv, NEW t \in Threads, InHit(t) \/ OutHit(t)
  PROVE  IInv'
<1>1. /\ UnderWay(t) /\ lock = None /\ Pass(t)
      /\ UNCHANGED <<state, epoch, lock, allow, lft, uftOut, uftIn, tcp, panicked>>
  BY DEF InHit, OutHit, Holds, tables
<1>2. pkt[t].ok
  BY CurrentMayPass DEF InHit, OutHit, Holds
<1>3. Onward
  BY <1>1, <1>2, PassOnward
<1>4. TypeOK
  BY DEF IInv
<1>5. OutShrunk(uftOut') /\ InShrunk(uftIn')
  BY <1>1, <1>4, NothingShrunk DEF OutShrunk, InShrunk
<1>6. QED
  BY <1>1, <1>3, <1>4, <1>5, ShrinkStep DEF TypeOK

(* The three ways to end the two TCP hits share.                           *)
HitEnds(t, to) ==
  LET f == pkt[t].flow IN
  \/ /\ to = Unexpected
     /\ Drop(t)
     /\ UNCHANGED <<uftOut, uftIn, tcp>>
  \/ to = "Closed" /\ Pass(t) /\ Retire(f, uftOut, uftIn)
  \/ /\ to \notin {Unexpected, "Closed"}
     /\ Pass(t)
     /\ tcp' = [tcp EXCEPT ![f].st = to]
     /\ UNCHANGED <<uftOut, uftIn>>

LEMMA HitTcpStep ==
  ASSUME IInv, NEW t \in Threads, NEW flags \in FlagSets, NEW covers \in BOOLEAN,
         InHitTcp(t, flags, covers) \/ OutHitTcp(t, flags)
  PROVE  IInv'
<1> DEFINE f == pkt[t].flow
<1>1. /\ UnderWay(t) /\ lock = None
      /\ UNCHANGED <<state, epoch, lock, allow, lft, panicked>>
  BY DEF InHitTcp, OutHitTcp, Holds
<1>2. pkt[t].ok
  BY CurrentMayPass DEF InHitTcp, OutHitTcp, Holds
<1>3. TypeOK
  BY DEF IInv
<1>4. PICK to \in States \cup {Unexpected} :
        /\ to # Unexpected => tcp[f] # None
        /\ HitEnds(t, to)
  <2>1. f \in Flows
    BY <1>1, <1>3, AtWork
  <2>2. CASE InHitTcp(t, flags, covers)
    <3> DEFINE to == IF tcp[f] = None THEN Unexpected
                     ELSE FlowIn(tcp[f].st, flags, covers)
    <3>1. to \in States \cup {Unexpected} /\ (to # Unexpected => tcp[f] # None)
      BY <1>3, <2>1, SegmentTo
    <3>2. HitEnds(t, to)
      BY <2>2 DEF InHitTcp, HitEnds
    <3> HIDE DEF to
    <3>3. QED
      BY <3>1, <3>2
  <2>3. CASE OutHitTcp(t, flags)
    <3> DEFINE to == IF tcp[f] = None THEN Unexpected ELSE FlowOut(tcp[f].st, flags)
    <3>1. to \in States \cup {Unexpected} /\ (to # Unexpected => tcp[f] # None)
      BY <1>3, <2>1, SegmentTo
    <3>2. HitEnds(t, to)
      BY <2>3 DEF OutHitTcp, HitEnds
    <3> HIDE DEF to
    <3>3. QED
      BY <3>1, <3>2
  <2>4. QED
    BY <2>2, <2>3
<1>5. Onward
  BY <1>1, <1>2, <1>4, PassOnward, DropOnward DEF HitEnds
<1>6. \/ /\ to = Unexpected
          /\ UNCHANGED <<uftOut, uftIn, tcp>>
       \/ /\ to = "Closed"
          /\ uftOut' = Without(uftOut, f)
          /\ uftIn' = Without(uftIn, tcp[f].inb)
          /\ tcp' = Without(tcp, f)
       \/ /\ to \notin {Unexpected, "Closed"}
          /\ tcp' = [tcp EXCEPT ![f].st = to]
          /\ UNCHANGED <<uftOut, uftIn>>
  BY <1>4 DEF HitEnds, Retire
<1>7. /\ f \in Flows
      /\ tcp[f] # None => tcp[f].inb \in Keys \cup {None}
      /\ lft \in SUBSET Flows /\ state \in PortStates /\ panicked \in BOOLEAN
      /\ tcp \in [Flows -> TcpEntry \cup {None}]
  BY <1>1, <1>3, AtWork
<1>8. OutShrunk(uftOut) /\ InShrunk(uftIn)
  BY <1>3, NothingShrunk
<1> HIDE DEF f
<1>9. OutShrunk(uftOut') /\ InShrunk(uftIn')
  <2>1. CASE to = "Closed"
    <3>1. to # Unexpected
      BY <2>1 DEF Unexpected
    <3>2. uftOut' = Without(uftOut, f) /\ uftIn' = Without(uftIn, tcp[f].inb)
          /\ tcp[f].inb \in Keys \cup {None}
      BY <1>4, <1>6, <1>7, <2>1, <3>1
    <3>3. QED
      BY <1>7, <1>8, <3>2, WithoutOut, WithoutIn
  <2>2. CASE to # "Closed"
    BY <1>6, <1>8, <2>2 DEF OutShrunk, InShrunk
  <2>3. QED
    BY <2>1, <2>2
<1>10. tcp' \in [Flows -> TcpEntry \cup {None}]
  <2>1. CASE to = Unexpected
    BY <1>6, <1>7, <2>1 DEF Unexpected
  <2>2. CASE to = "Closed"
    <3>1. tcp' = Without(tcp, f) /\ "Listen" \in States \ {"Closed"}
      BY <1>6, <2>2 DEF Unexpected, States
    <3>2. QED
      BY <1>3, <1>7, <3>1, TcpTyped
  <2>3. CASE to \notin {Unexpected, "Closed"}
    <3>1. tcp' = [tcp EXCEPT ![f].st = to] /\ to \in States \ {"Closed"} /\ tcp[f] # None
      BY <1>4, <1>6, <2>3
    <3>2. QED
      BY <1>3, <1>7, <3>1, TcpTyped
  <2>4. QED
    BY <2>1, <2>2, <2>3
<1>11. QED
  BY <1>1, <1>5, <1>7, <1>9, <1>10, ShrinkStep

(* What the layers allow may pass.                                         *)
LEMMA AllowedMayPass ==
  ASSUME IInv, NEW t \in Threads, UnderWay(t), NEW dir, pkt[t].dir = dir,
         Firewall(dir, pkt[t].flow, "allowed"), Pass(t)
  PROVE  Onward /\ <<dir, pkt[t].flow>> \in accepted'
<1>1. TypeOK
  BY DEF IInv
<1>2. dir \in Dirs /\ pkt[t].flow \in Flows
  BY <1>1, AtWork
<1>3. Learn
  BY DEF Pass
<1>4. <<dir, pkt[t].flow>> \in accepted'
  BY <1>1, <1>2, <1>3, FirewallShape
<1>5. QED
  BY <1>4, PassOnward

LEMMA InMissDroppedStep ==
  ASSUME IInv, NEW t \in Threads, NEW res, InMissDropped(t, res)
  PROVE  IInv'
<1>1. /\ UnderWay(t) /\ lock = None /\ Drop(t)
      /\ Firewall("in", pkt[t].flow, res)
      /\ uftOut' = OutOfInvalidatedIn(t) /\ uftIn' = InvalidatedIn(t)
      /\ UNCHANGED <<state, epoch, lock, allow, tcp, panicked>>
  BY DEF InMissDropped, InMiss, Holds
<1>2. TypeOK
  BY DEF IInv
<1>3. Onward
  BY <1>1, DropOnward
<1>4. lft' \in SUBSET Flows
  BY <1>1, <1>2, AtWork, FirewallShape DEF Dirs
<1>5. OutShrunk(uftOut') /\ InShrunk(uftIn')
  BY <1>1, <1>2, InvalidatedShrunk
<1>6. QED
  BY <1>1, <1>2, <1>3, <1>4, <1>5, ShrinkStep DEF TypeOK

LEMMA InMissAllowedStep ==
  ASSUME IInv, NEW t \in Threads, InMissAllowed(t)
  PROVE  IInv'
<1>1. /\ UnderWay(t) /\ pkt[t].dir = "in" /\ lock = None /\ Pass(t)
      /\ Firewall("in", pkt[t].flow, "allowed")
      /\ uftOut' = PairedOut(t)
      /\ uftIn' = [uftIn EXCEPT ![NetKey(pkt[t].flow)] = pkt[t].epoch]
      /\ UNCHANGED <<state, epoch, lock, allow, tcp, panicked>>
  BY DEF InMissAllowed, InMiss, Holds
<1>2. TypeOK
  BY DEF IInv
<1>3. Onward /\ <<"in", pkt[t].flow>> \in accepted'
  BY <1>1, AllowedMayPass
<1>4. lft' \in SUBSET Flows
  BY <1>1, <1>2, AtWork, FirewallShape DEF Dirs
<1>5. OutShrunk(uftOut')
  BY <1>1, <1>2, InvalidatedShrunk
<1>6. QED
  BY <1>1, <1>2, <1>3, <1>4, <1>5, NewInStep DEF TypeOK

LEMMA InMissTcpStep ==
  ASSUME IInv, NEW t \in Threads, NEW flags \in FlagSets, NEW covers \in BOOLEAN,
         InMissTcp(t, flags, covers)
  PROVE  IInv'
<1> DEFINE f == pkt[t].flow
           new == tcp[f] = None
           to == FlowIn(IF new THEN "Closed" ELSE tcp[f].st, flags, covers)
<1>1. /\ UnderWay(t) /\ pkt[t].dir = "in" /\ lock = None
      /\ Firewall("in", f, "allowed")
      /\ UNCHANGED <<state, epoch, lock, allow, panicked>>
  BY DEF InMissTcp, InMiss, Holds
<1>2. TypeOK
  BY DEF IInv
<1>3. /\ f \in Flows /\ GuestKey(f) \in Keys
      /\ tcp[f] # None => tcp[f].st \in States \ {"Closed"}
                          /\ tcp[f].inb \in Keys \cup {None}
      /\ state \in PortStates /\ panicked \in BOOLEAN
      /\ tcp \in [Flows -> TcpEntry \cup {None}]
  BY <1>1, <1>2, AtWork
<1>4. to \in States \cup {Unexpected}
  BY <1>2, <1>3, SegmentTo
<1>5. lft' \in SUBSET Flows
  BY <1>1, <1>2, <1>3, FirewallShape DEF Dirs
<1>6. OutShrunk(PairedOut(t)) /\ InShrunk(InvalidatedIn(t))
  BY <1>1, <1>2, InvalidatedShrunk
<1>7. CASE /\ to = Unexpected
           /\ Drop(t)
           /\ tcp' = IF new THEN tcp ELSE [tcp EXCEPT ![f].inb = GuestKey(f)]
           /\ uftOut' = PairedOut(t)
           /\ uftIn' = InvalidatedIn(t)
  <2>1. "Listen" \in States \ {"Closed"}
    BY DEF States
  <2>2. tcp' \in [Flows -> TcpEntry \cup {None}]
    BY <1>2, <1>3, <1>7, <2>1, TcpTyped
  <2>3. Onward
    BY <1>7, DropOnward
  <2>4. QED
    BY <1>1, <1>3, <1>5, <1>6, <1>7, <2>2, <2>3, ShrinkStep
<1>8. CASE /\ to = "Closed" /\ new
           /\ Pass(t)
           /\ uftOut' = PairedOut(t)
           /\ uftIn' = InvalidatedIn(t)
           /\ UNCHANGED tcp
  <2>1. Onward
    BY <1>1, <1>8, AllowedMayPass
  <2>2. QED
    BY <1>1, <1>3, <1>5, <1>6, <1>8, <2>1, ShrinkStep
<1>9. CASE /\ to = "Closed" /\ ~new
           /\ Pass(t)
           /\ tcp' = Without(tcp, f)
           /\ uftOut' = Without(PairedOut(t), f)
           /\ uftIn' = Without(InvalidatedIn(t), tcp[f].inb)
  <2>1. Onward
    BY <1>1, <1>9, AllowedMayPass
  <2>2. OutShrunk(uftOut') /\ InShrunk(uftIn')
    BY <1>3, <1>6, <1>9, WithoutOut, WithoutIn
  <2>3. "Listen" \in States \ {"Closed"}
    BY DEF States
  <2>4. tcp' \in [Flows -> TcpEntry \cup {None}]
    BY <1>2, <1>3, <1>9, <2>3, TcpTyped
  <2>5. QED
    BY <1>1, <1>3, <1>5, <2>1, <2>2, <2>4, ShrinkStep
<1>10. CASE /\ to \notin {Unexpected, "Closed"}
            /\ Pass(t)
            /\ tcp' = [tcp EXCEPT ![f] = [st |-> to, inb |-> GuestKey(f)]]
            /\ uftOut' = PairedOut(t)
            /\ uftIn' = [uftIn EXCEPT ![NetKey(f)] = pkt[t].epoch]
  <2>1. Onward /\ <<"in", f>> \in accepted'
    BY <1>1, <1>10, AllowedMayPass
  <2>2. to \in States \ {"Closed"}
    BY <1>4, <1>10
  <2> HIDE DEF to, new
  <2>3. tcp' \in [Flows -> TcpEntry \cup {None}]
    BY <1>2, <1>3, <1>10, <2>2, TcpTyped
  <2>4. OutShrunk(uftOut')
    BY <1>6, <1>10
  <2>5. QED
    BY <1>1, <1>3, <1>5, <1>10, <2>1, <2>3, <2>4, NewInStep
<1>11. QED
  BY <1>7, <1>8, <1>9, <1>10 DEF InMissTcp, Retire

(* The ends of an outbound miss that adds an entry when it is allowed.     *)
LEMMA OutMissEnds ==
  ASSUME IInv, NEW t \in Threads, NEW res, OutMiss(t),
         Firewall("out", pkt[t].flow, res),
         UNCHANGED <<state, epoch, lock, allow, panicked>>,
         tcp' \in [Flows -> TcpEntry \cup {None}],
         uftIn' = InOfInvalidatedOut(t),
         \/ Drop(t) /\ uftOut' = InvalidatedOut(t)
         \/ /\ res = "allowed" /\ Pass(t)
            /\ uftOut' = [uftOut EXCEPT ![pkt[t].flow] =
                            [epoch |-> pkt[t].epoch, pair |-> None]]
  PROVE  IInv'
<1>1. UnderWay(t) /\ pkt[t].dir = "out" /\ lock = None
  BY DEF OutMiss, Holds
<1>2. TypeOK
  BY DEF IInv
<1>3. state' \in PortStates /\ panicked' \in BOOLEAN
  BY <1>2 DEF TypeOK
<1>4. lft' \in SUBSET Flows
  BY <1>1, <1>2, AtWork, FirewallShape DEF Dirs
<1>5. InShrunk(uftIn') /\ OutShrunk(InvalidatedOut(t))
  BY <1>1, <1>2, InvalidatedShrunk
<1>6. CASE Drop(t) /\ uftOut' = InvalidatedOut(t)
  <2>1. Onward
    BY <1>6, DropOnward
  <2>2. QED
    BY <1>1, <1>3, <1>4, <1>5, <1>6, <2>1, ShrinkStep
<1>7. CASE /\ res = "allowed" /\ Pass(t)
           /\ uftOut' = [uftOut EXCEPT ![pkt[t].flow] =
                           [epoch |-> pkt[t].epoch, pair |-> None]]
  <2>1. Onward /\ <<"out", pkt[t].flow>> \in accepted'
    BY <1>1, <1>7, AllowedMayPass
  <2>2. QED
    BY <1>1, <1>3, <1>4, <1>5, <1>7, <2>1, NewOutStep
<1>8. QED
  BY <1>6, <1>7

LEMMA OutMissUdpStep ==
  ASSUME IInv, NEW t \in Threads, NEW res, OutMissUdp(t, res)
  PROVE  IInv'
<1>1. tcp' \in [Flows -> TcpEntry \cup {None}]
  BY DEF OutMissUdp, IInv, TypeOK
<1>2. QED
  BY <1>1, OutMissEnds DEF OutMissUdp

LEMMA OutMissTcpStep ==
  ASSUME IInv, NEW t \in Threads, NEW flags \in FlagSets, NEW res,
         OutMissTcp(t, flags, res)
  PROVE  IInv'
<1> DEFINE f == pkt[t].flow
           new == tcp[f] = None
           to == FlowOut(IF new THEN "Closed" ELSE tcp[f].st, flags)
           inb == IF new THEN None ELSE tcp[f].inb
<1>1. TypeOK /\ UnderWay(t)
  BY DEF IInv, OutMissTcp, OutMiss, Holds
<1>2. /\ f \in Flows
      /\ tcp[f] # None => tcp[f].st \in States \ {"Closed"}
                          /\ tcp[f].inb \in Keys \cup {None}
  BY <1>1, AtWork
<1>3. to \in States \cup {Unexpected} /\ to \notin {Unexpected, "Closed"}
  BY <1>1, <1>2, SegmentTo DEF OutMissTcp
<1>4. inb \in Keys \cup {None}
  BY <1>2
<1>5. tcp' = [tcp EXCEPT ![f] = [st |-> to, inb |-> inb]]
  BY DEF OutMissTcp
<1> HIDE DEF f, new, to, inb
<1>6. tcp' \in [Flows -> TcpEntry \cup {None}]
  BY <1>1, <1>2, <1>3, <1>4, <1>5, TcpTyped
<1>7. QED
  BY <1>6, OutMissEnds DEF OutMissTcp

LEMMA OutMissTcpUnexpectedStep ==
  ASSUME IInv, NEW t \in Threads, NEW flags, OutMissTcpUnexpected(t, flags)
  PROVE  IInv'
<1>1. TypeOK
  BY DEF IInv
<1>2. /\ UnderWay(t) /\ lock = None /\ Drop(t)
      /\ uftOut' = InvalidatedOut(t) /\ uftIn' = InOfInvalidatedOut(t)
      /\ UNCHANGED <<state, epoch, lock, allow, lft, tcp, panicked>>
  BY DEF OutMissTcpUnexpected, OutMiss, Holds
<1>3. OutShrunk(uftOut') /\ InShrunk(uftIn')
  BY <1>1, <1>2, InvalidatedShrunk
<1>4. Onward
  BY <1>2, DropOnward
<1>5. QED
  BY <1>1, <1>2, <1>3, <1>4, ShrinkStep DEF TypeOK

LEMMA OutMissTcpClosedStep ==
  ASSUME IInv, NEW t \in Threads, NEW flags, NEW res, OutMissTcpClosed(t, flags, res)
  PROVE  IInv'
<1> DEFINE f == pkt[t].flow
<1>1. TypeOK
  BY DEF IInv
<1>2. /\ UnderWay(t) /\ lock = None /\ pkt[t].dir = "out"
      /\ Firewall("out", f, res)
      /\ IF res = "allowed" THEN Pass(t) ELSE Drop(t)
      /\ tcp' = tcp \/ tcp' = Without(tcp, f)
      /\ uftOut' = InvalidatedOut(t) \/ uftOut' = Without(InvalidatedOut(t), f)
      /\ \/ uftIn' = InOfInvalidatedOut(t)
         \/ tcp[f] # None /\ uftIn' = Without(InOfInvalidatedOut(t), tcp[f].inb)
      /\ UNCHANGED <<state, epoch, lock, allow, panicked>>
  BY DEF OutMissTcpClosed, OutMiss, Holds, Retire
<1>3. /\ f \in Flows /\ state \in PortStates /\ panicked \in BOOLEAN
      /\ tcp[f] # None => tcp[f].inb \in Keys \cup {None}
  BY <1>1, <1>2, AtWork
<1>4. Onward
  BY <1>2, AllowedMayPass, DropOnward
<1>5. lft' \in SUBSET Flows
  BY <1>1, <1>2, <1>3, FirewallShape DEF Dirs
<1>6. OutShrunk(uftOut') /\ InShrunk(uftIn')
  BY <1>1, <1>2, <1>3, InvalidatedShrunk, WithoutIn, WithoutOut
<1>7. "Listen" \in States \ {"Closed"}
  BY DEF States
<1>8. tcp' \in [Flows -> TcpEntry \cup {None}]
  BY <1>1, <1>2, <1>3, <1>7, TcpTyped DEF TypeOK
<1>9. QED
  BY <1>2, <1>3, <1>4, <1>5, <1>6, <1>8, ShrinkStep

LEMMA UnwrapStep ==
  ASSUME IInv, NEW t \in Threads, NEW flags, NEW covers,
         UnwrapFailsIn(t, flags, covers) \/ UnwrapFailsOut(t, flags)
  PROVE  IInv'
<1>1. TypeOK
  BY DEF IInv
<1>2. /\ UnderWay(t) /\ lock = None /\ Drop(t) /\ panicked' = TRUE
      /\ UNCHANGED <<state, epoch, lock, allow, uftOut, uftIn, tcp>>
  BY DEF UnwrapFailsIn, UnwrapFailsOut, InMiss, OutMiss, Holds
<1>3. lft' \in SUBSET Flows
  BY <1>1, <1>2, AtWork, FirewallShape DEF UnwrapFailsIn, UnwrapFailsOut, Dirs
<1>4. OutShrunk(uftOut') /\ InShrunk(uftIn')
  BY <1>1, <1>2, NothingShrunk DEF OutShrunk, InShrunk
<1>5. Onward
  BY <1>2, DropOnward
<1>6. QED
  BY <1>1, <1>2, <1>3, <1>4, <1>5, ShrinkStep DEF TypeOK

(* An announced epoch is one no entry has.                                 *)
LEMMA AnnounceStep ==
  ASSUME IInv, NEW what \in {"adding", "setting"}, Announce(what)
  PROVE  IInv'
<1>1. /\ epoch' = epoch + 1 /\ epoch < MaxEpoch /\ lock' = what
      /\ UNCHANGED <<state, allow, lft, uftOut, uftIn, tcp, panicked, pkt, accepted>>
  BY DEF Announce, Bump, tables
<1>2. epoch \in Nat /\ epoch' \in Epochs /\ epoch < epoch'
  BY <1>1, PortAssumption DEF IInv, TypeOK, Epochs
<1>3. TypeOK'
  BY <1>1, <1>2 DEF IInv, TypeOK, Changes
<1>4. \A dir \in Dirs, f \in Flows, e \in Epochs :
        (Stamped(dir, f, e)' <=> Stamped(dir, f, e)) /\ (Stamped(dir, f, e) => e <= epoch)
  BY <1>1 DEF Stamped, IInv, StampsArePast
<1>5. \A e \in Epochs : e <= epoch => e <= epoch' /\ e # epoch'
  BY <1>2 DEF Epochs
<1>6. StampsArePast'
  BY <1>4, <1>5 DEF StampsArePast
<1>7. \A dir \in Dirs, f \in Flows : ~Stamped(dir, f, epoch)'
  BY <1>1, <1>2, <1>4, <1>5 DEF Stamped
<1>8. CurrentIsAccepted' /\ AnnouncedIsNew' /\ RemovalCanEnd'
  BY <1>1, <1>7 DEF CurrentIsAccepted, AnnouncedIsNew, RemovalCanEnd
<1>9. ASSUME NEW s \in Threads PROVE Knows(s)'
  <2>1. Knows(s) /\ (UnderWay(s) => pkt[s].epoch \in Epochs)
    BY AtWork DEF IInv
  <2>2. QED
    BY <1>1, <1>5, <2>1 DEF Knows, UnderWay, Stamped
<1>10. FirewallHolds'
  BY <1>1 DEF IInv, FirewallHolds, HasPassed
<1>11. QED
  BY <1>3, <1>6, <1>8, <1>9, <1>10 DEF IInv

(* A change of the rules: what was accepted before counts no more, and no  *)
(* entry claims otherwise.                                                 *)
LEMMA StartOverStep ==
  ASSUME IInv, StartOver, lock' = None,
         UNCHANGED <<state, uftOut, uftIn, tcp, panicked>>,
         epoch' \in Epochs, epoch <= epoch',
         allow' \in [Dirs -> SUBSET Flows], lft' \in SUBSET Flows,
         \A dir \in Dirs, f \in Flows : ~Stamped(dir, f, epoch')
  PROVE  IInv'
<1>1. TypeOK
  BY DEF IInv
<1>2. accepted' \in SUBSET (Dirs \X Flows)
  BY AcceptableType DEF StartOver
<1>3. /\ pkt' \in [Threads -> Packet \cup {None}]
      /\ \A s \in Threads : Carried(pkt', accepted', s)
  BY <1>1, NotedShape DEF StartOver
<1>4. TypeOK'
  BY <1>1, <1>2, <1>3 DEF TypeOK
<1>5. \A dir \in Dirs, f \in Flows, e \in Epochs :
        /\ Stamped(dir, f, e)' <=> Stamped(dir, f, e)
        /\ Stamped(dir, f, e) => e <= epoch /\ e # epoch'
  BY DEF Stamped, IInv, StampsArePast
<1>6. \A e \in Epochs : e <= epoch => e <= epoch'
  BY <1>1 DEF TypeOK, Epochs
<1>7. StampsArePast' /\ CurrentIsAccepted'
  BY <1>5, <1>6 DEF StampsArePast, CurrentIsAccepted, Stamped
<1>8. AnnouncedIsNew' /\ RemovalCanEnd'
  BY NoneAssumption DEF AnnouncedIsNew, RemovalCanEnd, Changes
<1>9. ASSUME NEW s \in Threads
      PROVE  Knows(s)' /\ (HasPassed(s)' => pkt'[s].ok)
  <2>1. /\ Carried(pkt', accepted', s) /\ Knows(s)
        /\ HasPassed(s) => pkt[s].ok
        /\ UnderWay(s) => pkt[s].epoch \in Epochs
    BY <1>1, <1>3, AtWork DEF IInv, FirewallHolds
  <2>2. HasPassed(s)' => pkt'[s].ok
    BY <2>1 DEF Carried, HasPassed
  <2>3. UnderWay(s)' => UnderWay(s) /\ pkt'[s].epoch = pkt[s].epoch
          /\ pkt'[s].dir = pkt[s].dir /\ pkt'[s].flow = pkt[s].flow
          /\ (pkt[s].ok => pkt'[s].ok)
          /\ (<<pkt[s].dir, pkt[s].flow>> \in accepted' => pkt'[s].ok)
    BY <2>1 DEF Carried, UnderWay
  <2>4. QED
    BY <1>6, <2>1, <2>2, <2>3 DEF Knows, Stamped
<1>10. QED
  BY <1>4, <1>7, <1>8, <1>9 DEF IInv, FirewallHolds

LEMMA AddRuleStep ==
  ASSUME IInv, NEW dir \in Dirs, NEW flows \in SUBSET Flows, AddRule(dir, flows)
  PROVE  IInv'
<1>1. /\ lock = "adding" /\ lock' = None /\ StartOver
      /\ allow' = [allow EXCEPT ![dir] = flows]
      /\ UNCHANGED <<state, epoch, lft, uftOut, uftIn, tcp, panicked>>
  BY DEF AddRule, tables
<1>2. epoch' \in Epochs /\ epoch <= epoch' /\ lft' \in SUBSET Flows
      /\ allow' \in [Dirs -> SUBSET Flows]
  BY <1>1 DEF IInv, TypeOK, Epochs
<1>3. \A d \in Dirs, f \in Flows : ~Stamped(d, f, epoch')
  BY <1>1 DEF IInv, AnnouncedIsNew
<1>4. QED
  BY <1>1, <1>2, <1>3, StartOverStep

LEMMA SetRulesStep ==
  ASSUME IInv, NEW rules \in [Dirs -> SUBSET Flows], SetRules(rules)
  PROVE  IInv'
<1>1. /\ lock = "setting" /\ lock' = None /\ StartOver
      /\ allow' = rules /\ lft' = {}
      /\ UNCHANGED <<state, epoch, uftOut, uftIn, tcp, panicked>>
  BY DEF SetRules
<1>2. epoch' \in Epochs /\ epoch <= epoch'
  BY <1>1 DEF IInv, TypeOK, Epochs
<1>3. \A d \in Dirs, f \in Flows : ~Stamped(d, f, epoch')
  BY <1>1 DEF IInv, AnnouncedIsNew
<1>4. QED
  BY <1>1, <1>2, <1>3, StartOverStep

LEMMA RuleRemovedStep ==
  ASSUME IInv, RuleRemoved
  PROVE  IInv'
<1>1. /\ lock = "removing" /\ lock' = None /\ StartOver /\ epoch' = epoch + 1
      /\ UNCHANGED <<state, allow, lft, uftOut, uftIn, tcp, panicked>>
  BY DEF RuleRemoved, Bump, tables
<1>2. epoch \in Epochs /\ epoch < MaxEpoch
      /\ lft' \in SUBSET Flows /\ allow' \in [Dirs -> SUBSET Flows]
  BY <1>1 DEF IInv, TypeOK, RemovalCanEnd
<1>3. epoch' \in Epochs /\ epoch <= epoch' /\ ~(epoch' <= epoch)
  BY <1>1, <1>2, PortAssumption DEF Epochs
<1>4. \A d \in Dirs, f \in Flows : ~Stamped(d, f, epoch')
  BY <1>3 DEF IInv, StampsArePast
<1>5. QED
  BY <1>1, <1>2, <1>3, <1>4, StartOverStep

(* RemoveRule changes rules no packet can see until it ends.               *)
LEMMA RemoveRuleStep ==
  ASSUME IInv, NEW dir \in Dirs, NEW flows \in SUBSET Flows, RemoveRule(dir, flows)
  PROVE  IInv'
<1>1. /\ epoch < MaxEpoch /\ lock' = "removing"
      /\ allow' = [allow EXCEPT ![dir] = flows]
      /\ UNCHANGED <<state, epoch, lft, uftOut, uftIn, tcp, panicked, pkt, accepted>>
  BY DEF RemoveRule, tables
<1>2. TypeOK'
  BY <1>1 DEF IInv, TypeOK, Changes
<1>3. \A d \in Dirs, f \in Flows, e \in Epochs : Stamped(d, f, e)' <=> Stamped(d, f, e)
  BY <1>1 DEF Stamped
<1>4. StampsArePast' /\ CurrentIsAccepted'
  BY <1>1, <1>3 DEF IInv, StampsArePast, CurrentIsAccepted, Stamped
<1>5. AnnouncedIsNew' /\ RemovalCanEnd'
  BY <1>1 DEF AnnouncedIsNew, RemovalCanEnd
<1>6. \A s \in Threads : Knows(s)'
  BY <1>1 DEF IInv, Knows, UnderWay, Stamped
<1>7. FirewallHolds'
  BY <1>1 DEF IInv, FirewallHolds, HasPassed
<1>8. QED
  BY <1>2, <1>4, <1>5, <1>6, <1>7 DEF IInv

(* The rest of the port's calls leave the packets alone and add no entry.  *)
LEMMA ManageStep ==
  ASSUME IInv, Pause \/ Start \/ Reset \/ ClearUft \/ Expire
  PROVE  IInv'
<1>1. /\ lock = None
      /\ UNCHANGED <<epoch, lock, allow, panicked, pkt, accepted>>
  BY DEF Pause, Start, Reset, ClearUft, Expire, ExpireFlows, Free
<1>2. TypeOK
  BY DEF IInv
<1>3. \A s \in Threads : Knows(s) /\ (HasPassed(s) => pkt[s].ok)
  BY DEF IInv, FirewallHolds
<1>4. Onward
  BY <1>1, <1>2, <1>3 DEF Onward, HasPassed, UnderWay, Knows, TypeOK
<1>5. state' \in PortStates /\ panicked' \in BOOLEAN
  BY <1>1, <1>2
     DEF TypeOK, PortStates, Pause, Start, Reset, ClearUft, Expire, ExpireFlows
<1>6. lft' \in SUBSET Flows /\ tcp' \in [Flows -> TcpEntry \cup {None}]
  BY <1>2 DEF TypeOK, Pause, Start, Reset, ClearAll, ClearUft, Expire, ExpireFlows, tables
<1>7. OutShrunk(uftOut') /\ InShrunk(uftIn')
  <2>1. CASE Pause \/ Start
    BY <1>2, <2>1, NothingShrunk DEF Pause, Start, tables, OutShrunk, InShrunk
  <2>2. CASE Reset \/ ClearUft
    BY <2>2 DEF Reset, ClearAll, ClearUft, OutShrunk, InShrunk
  <2>3. CASE Expire
    <3>1. PICK oldLft \in SUBSET lft, oldOut \in SUBSET Live(uftOut),
               oldIn \in SUBSET Live(uftIn) : ExpireFlows(oldLft, oldOut, oldIn)
      BY <2>3 DEF Expire
    <3>2. /\ uftOut' = [f \in Flows |-> IF f \in oldOut THEN None ELSE uftOut[f]]
          /\ uftIn' = [k \in Keys |-> IF k \in oldIn THEN None ELSE uftIn[k]]
      BY <3>1 DEF ExpireFlows
    <3>3. QED
      BY <1>2, <3>2 DEF TypeOK, OutShrunk, InShrunk
  <2>4. QED
    BY <2>1, <2>2, <2>3
<1>8. QED
  BY <1>1, <1>4, <1>5, <1>6, <1>7, ShrinkStep

-----------------------------------------------------------------------------
LEMMA ProcessStep ==
  ASSUME IInv, NEW t \in Threads, Process(t)
  PROVE  IInv'
<1>1. CASE Refuse(t)
  BY <1>1, RefuseStep
<1>2. CASE InHit(t) \/ OutHit(t)
  BY <1>2, HitStep
<1>3. CASE \E res \in Outcomes : InMissDropped(t, res) \/ OutMissUdp(t, res)
  BY <1>3, InMissDroppedStep, OutMissUdpStep
<1>4. CASE InMissAllowed(t)
  BY <1>4, InMissAllowedStep
<1>5. CASE \E flags \in FlagSets, covers \in BOOLEAN :
             \/ InHitTcp(t, flags, covers)
             \/ InMissTcp(t, flags, covers)
             \/ UnwrapFailsIn(t, flags, covers)
  BY <1>5, HitTcpStep, InMissTcpStep, UnwrapStep
<1>6. CASE \E flags \in FlagSets :
             \/ OutHitTcp(t, flags)
             \/ OutMissTcpUnexpected(t, flags)
             \/ UnwrapFailsOut(t, flags)
  <2>1. TRUE \in BOOLEAN
    OBVIOUS
  <2>2. QED
    BY <1>6, <2>1, HitTcpStep, OutMissTcpUnexpectedStep, UnwrapStep
<1>7. CASE \E flags \in FlagSets, res \in Outcomes :
             OutMissTcpClosed(t, flags, res) \/ OutMissTcp(t, flags, res)
  BY <1>7, OutMissTcpClosedStep, OutMissTcpStep
<1>8. QED
  BY <1>1, <1>2, <1>3, <1>4, <1>5, <1>6, <1>7 DEF Process

LEMMA NextIInv ==
  ASSUME IInv, [Next]_vars
  PROVE  IInv'
<1>1. CASE \E t \in Threads, dir \in Dirs, f \in Flows : Arrive(t, dir, f)
  BY <1>1, ArriveStep
<1>2. CASE \E t \in Threads : Process(t)
  BY <1>2, ProcessStep
<1>3. CASE \E what \in {"adding", "setting"} : Announce(what)
  BY <1>3, AnnounceStep
<1>4. CASE \E dir \in Dirs, flows \in SUBSET Flows : AddRule(dir, flows)
  BY <1>4, AddRuleStep
<1>5. CASE \E rules \in [Dirs -> SUBSET Flows] : SetRules(rules)
  BY <1>5, SetRulesStep
<1>6. CASE \E dir \in Dirs, flows \in SUBSET Flows : RemoveRule(dir, flows)
  BY <1>6, RemoveRuleStep
<1>7. CASE RuleRemoved
  BY <1>7, RuleRemovedStep
<1>8. CASE Pause \/ Start \/ Reset \/ ClearUft \/ Expire
  BY <1>8, ManageStep
<1>9. CASE UNCHANGED vars
  BY <1>9 DEF vars, tables, IInv, TypeOK, StampsArePast, CurrentIsAccepted,
              AnnouncedIsNew, RemovalCanEnd, Knows, FirewallHolds, Stamped,
              UnderWay, HasPassed
<1>10. QED
  BY <1>1, <1>2, <1>3, <1>4, <1>5, <1>6, <1>7, <1>8, <1>9 DEF Next

(* The invariant of stamps: whatever threads, rule changes and calls       *)
(* interleave.                                                             *)
THEOREM IInvHolds == Spec => []IInv
<1>1. Init => IInv
  BY InitIInv
<1>2. IInv /\ [Next]_vars => IInv'
  BY NextIInv
<1>3. QED
  BY <1>1, <1>2, PTL DEF Spec

(* The tables of a port hold entries of their types (struct PortData), so  *)
(* no epoch, state or key outside its range is ever stored.                *)
THEOREM TypeCorrect == Spec => []TypeOK
<1>1. IInv => TypeOK
  BY DEF IInv
<1>2. QED
  BY <1>1, IInvHolds, PTL

(* Checking the epoch on every hit (process_in, process_out) is enough:    *)
(* for any number of threads, although the epoch is read without the lock  *)
(* and the three rule changes move it at different points, no packet       *)
(* passes that the firewall did not accept while it was under way.         *)
THEOREM FirewallIsNotBypassed == Spec => []FirewallHolds
<1>1. IInv => FirewallHolds
  BY DEF IInv
<1>2. QED
  BY <1>1, IInvHolds, PTL

-----------------------------------------------------------------------------
(* What the tables hold in the states of a port: a port that is ready      *)
(* holds no flows and one that is paused changes nothing, which follow     *)
(* from who may hold the lock in which state; and, where the network knows *)
(* a flow by the guest's key, a UFT entry of a TCP flow never outlives the *)
(* tracking of the flow.  That needs the key that tcp_flows remembers: it  *)
(* is that of the inbound entry whenever there is one, and so the          *)
(* retirement of the flow finds the entry.                                 *)

(* A rule change that is half-way started on a port that is not paused,    *)
(* and nothing pauses a port whose lock is held.                           *)
LockedIsOpen == lock # None => state # "Paused"

StateInv == LockedIsOpen /\ ReadyHasNoFlows

-----------------------------------------------------------------------------
(* A packet changes neither the port's state nor its rules, and tables     *)
(* only while the port runs.                                               *)
LEMMA PacketStep ==
  ASSUME NEW t \in Threads, Process(t)
  PROVE  /\ UNCHANGED <<state, epoch, lock, allow>>
         /\ state = "Running" \/ Refuse(t)
<1>1. CASE Refuse(t)
  BY <1>1 DEF Refuse
<1>2. CASE InHit(t) \/ OutHit(t)
  BY <1>2 DEF InHit, OutHit, Holds
<1>3. CASE \E res \in Outcomes : InMissDropped(t, res)
  BY <1>3 DEF InMissDropped, InMiss, Holds
<1>4. CASE InMissAllowed(t)
  BY <1>4 DEF InMissAllowed, InMiss, Holds
<1>5. CASE \E res \in Outcomes : OutMissUdp(t, res)
  BY <1>5 DEF OutMissUdp, OutMiss, Holds
<1>6. CASE \E flags \in FlagSets, covers \in BOOLEAN : InHitTcp(t, flags, covers)
  BY <1>6 DEF InHitTcp, Holds
<1>7. CASE \E flags \in FlagSets, covers \in BOOLEAN :
             InMissTcp(t, flags, covers) \/ UnwrapFailsIn(t, flags, covers)
  BY <1>7 DEF InMissTcp, UnwrapFailsIn, InMiss, Holds
<1>8. CASE \E flags \in FlagSets : OutHitTcp(t, flags)
  BY <1>8 DEF OutHitTcp, Holds
<1>9. CASE \E flags \in FlagSets :
             OutMissTcpUnexpected(t, flags) \/ UnwrapFailsOut(t, flags)
  BY <1>9 DEF OutMissTcpUnexpected, UnwrapFailsOut, OutMiss, Holds
<1>10. CASE \E flags \in FlagSets, res \in Outcomes :
              OutMissTcpClosed(t, flags, res) \/ OutMissTcp(t, flags, res)
  BY <1>10 DEF OutMissTcpClosed, OutMissTcp, OutMiss, Holds
<1>11. QED
  BY <1>1, <1>2, <1>3, <1>4, <1>5, <1>6, <1>7, <1>8, <1>9, <1>10 DEF Process

(* A rule change that ends had the lock.                                   *)
LEMMA HadLock == lock \in {"adding", "setting", "removing"} => lock # None
BY NoneAssumption DEF Changes

(* Empty tables stay so in a step that touches none.                       *)
LEMMA TablesKept ==
  ASSUME ReadyHasNoFlows, UNCHANGED <<tables, state>>
  PROVE  ReadyHasNoFlows'
BY DEF ReadyHasNoFlows, tables, Live

LEMMA InitStateInv == Init => StateInv
BY DEF Init, StateInv, LockedIsOpen, ReadyHasNoFlows, Live

LEMMA NextStateInv ==
  ASSUME StateInv, [Next]_vars
  PROVE  StateInv'
<1> USE DEF StateInv, LockedIsOpen
<1>1. CASE \E t \in Threads, dir \in Dirs, f \in Flows : Arrive(t, dir, f)
  BY <1>1, TablesKept DEF Arrive
<1>2. ASSUME NEW t \in Threads, Process(t)
      PROVE  StateInv'
  <2>1. UNCHANGED <<state, lock>>
    BY <1>2, PacketStep
  <2>2. CASE state = "Running"
    BY <2>1, <2>2 DEF ReadyHasNoFlows
  <2>3. CASE Refuse(t)
    BY <2>1, <2>3, TablesKept DEF Refuse
  <2>4. QED
    BY <1>2, <2>2, <2>3, PacketStep
<1>3. CASE \E what \in {"adding", "setting"} : Announce(what)
  BY <1>3, TablesKept DEF Announce, MayChangeRules
<1>4. CASE \E dir \in Dirs, flows \in SUBSET Flows : AddRule(dir, flows)
  BY <1>4, TablesKept DEF AddRule
<1>5. CASE \E rules \in [Dirs -> SUBSET Flows] : SetRules(rules)
  BY <1>5 DEF SetRules, ReadyHasNoFlows, Live
<1>6. CASE \E dir \in Dirs, flows \in SUBSET Flows : RemoveRule(dir, flows)
  BY <1>6, TablesKept DEF RemoveRule, MayChangeRules
<1>7. CASE RuleRemoved
  BY <1>7, TablesKept DEF RuleRemoved
<1>8. CASE Pause \/ Start
  BY <1>8 DEF Pause, Start, Free, ReadyHasNoFlows
<1>9. CASE Reset
  BY <1>9 DEF Reset, Free, ClearAll, ReadyHasNoFlows, Live
<1>10. CASE ClearUft \/ Expire
  BY <1>10 DEF ClearUft, Expire, ExpireFlows, Free, ReadyHasNoFlows
<1>11. CASE UNCHANGED vars
  BY <1>11, TablesKept DEF vars
<1>12. QED
  BY <1>1, <1>2, <1>3, <1>4, <1>5, <1>6, <1>7, <1>8, <1>9, <1>10, <1>11 DEF Next

LEMMA StateInvHolds == Spec => []StateInv
<1>1. Init => StateInv
  BY InitStateInv
<1>2. StateInv /\ [Next]_vars => StateInv'
  BY NextStateInv
<1>3. QED
  BY <1>1, <1>2, PTL DEF Spec

(* "A Ready port has no flow state" (PortState): whatever order the calls  *)
(* come in that start, pause and reset a port, and whatever packets were   *)
(* under way when they did.                                                *)
THEOREM ReadyIsEmpty == Spec => []ReadyHasNoFlows
<1>1. StateInv => ReadyHasNoFlows
  BY DEF StateInv
<1>2. QED
  BY <1>1, StateInvHolds, PTL

-----------------------------------------------------------------------------
LEMMA PausedStep ==
  ASSUME StateInv, TypeOK, [Next]_vars, state = "Paused", state' = "Paused"
  PROVE  /\ UNCHANGED <<epoch, allow, tables>>
         /\ \A t \in Threads : ~(UnderWay(t) /\ HasPassed(t)')
<1>1. lock = None
  BY DEF StateInv, LockedIsOpen
<1>2. \A t \in Threads : UnderWay(t) => ~HasPassed(t)
  BY DEF UnderWay, HasPassed
<1>3. CASE UNCHANGED <<epoch, allow, tables, pkt>>
  BY <1>2, <1>3 DEF UnderWay, HasPassed
<1>4. ASSUME NEW s \in Threads, NEW dir \in Dirs, NEW f \in Flows, Arrive(s, dir, f)
      PROVE  \A t \in Threads : ~(UnderWay(t) /\ HasPassed(t)')
  <2>1. pkt \in [Threads -> Packet \cup {None}]
    BY DEF TypeOK
  <2>2. pkt'[s].at = "arrived"
    BY <1>4, <2>1 DEF Arrive
  <2>3. \A t \in Threads \ {s} : pkt'[t] = pkt[t]
    BY <1>4, <2>1 DEF Arrive
  <2>4. QED
    BY <1>2, <2>2, <2>3 DEF UnderWay, HasPassed
<1>5. ASSUME NEW s \in Threads, Refuse(s)
      PROVE  \A t \in Threads : ~(UnderWay(t) /\ HasPassed(t)')
  <2>1. pkt \in [Threads -> Packet \cup {None}]
    BY DEF TypeOK
  <2>2. pkt'[s] = None /\ \A t \in Threads \ {s} : pkt'[t] = pkt[t]
    BY <1>5, <2>1 DEF Refuse
  <2>3. QED
    BY <1>2, <2>2 DEF UnderWay, HasPassed
<1>6. CASE \E s \in Threads, dir \in Dirs, f \in Flows : Arrive(s, dir, f)
  BY <1>4, <1>6 DEF Arrive
<1>7. CASE \E s \in Threads : Process(s)
  <2>1. PICK s \in Threads : Refuse(s)
    BY <1>7, PacketStep
  <2>2. QED
    BY <1>5, <2>1 DEF Refuse
<1>8. CASE \E what \in {"adding", "setting"} : Announce(what)
  BY <1>8 DEF Announce, MayChangeRules
<1>9. CASE \/ \E dir \in Dirs, flows \in SUBSET Flows : AddRule(dir, flows)
           \/ \E rules \in [Dirs -> SUBSET Flows] : SetRules(rules)
           \/ RuleRemoved
  BY <1>1, <1>9, HadLock DEF AddRule, SetRules, RuleRemoved
<1>10. CASE \E dir \in Dirs, flows \in SUBSET Flows : RemoveRule(dir, flows)
  BY <1>10 DEF RemoveRule, MayChangeRules
<1>11. CASE Pause \/ Start \/ Reset \/ ClearUft \/ Expire
  BY <1>11 DEF Pause, Start, Reset, ClearUft, Expire, ExpireFlows
<1>12. CASE UNCHANGED vars
  BY <1>3, <1>12 DEF vars
<1>13. QED
  BY <1>6, <1>7, <1>8, <1>9, <1>10, <1>11, <1>12 DEF Next

(* Every mutating call checks the port's state under the lock              *)
(* (check_state!): while a port is paused no call, rule change that was    *)
(* begun before, packet that was under way, or expiry changes its rules,   *)
(* its epoch or its flows.                                                 *)
THEOREM PausedPortIsFrozen == Spec => PausedIsFrozen
<1>1. StateInv /\ TypeOK /\ [Next]_vars =>
        [state = "Paused" /\ state' = "Paused" =>
           /\ UNCHANGED <<epoch, allow, tables>>
           /\ \A t \in Threads : ~(UnderWay(t) /\ HasPassed(t)')]_vars
  BY PausedStep
<1>2. QED
  BY <1>1, StateInvHolds, TypeCorrect, PTL DEF Spec, PausedIsFrozen

-----------------------------------------------------------------------------
(* A TCP flow with a UFT entry is tracked, and with an inbound one it is   *)
(* tracked under the key of that entry.                                    *)
Tracked ==
  \A f \in TcpFlows :
    /\ uftOut[f] # None => tcp[f] # None
    /\ uftIn[NetKey(f)] # None => tcp[f] # None /\ tcp[f].inb = NetKey(f)

(* A step that does more than remove entries does so for one flow.         *)
LEMMA OneFlowStep ==
  ASSUME Tracked, NEW f \in Flows,
         \A g \in Flows \ {f} :
           /\ tcp'[g] = tcp[g]
           /\ uftOut'[g] # None => uftOut[g] # None
           /\ uftIn'[NetKey(g)] # None => uftIn[NetKey(g)] # None,
         f \in TcpFlows =>
           /\ uftOut'[f] # None => tcp'[f] # None
           /\ uftIn'[NetKey(f)] # None => tcp'[f] # None /\ tcp'[f].inb = NetKey(f)
  PROVE  Tracked'
<1>1. \A g \in Flows : NetKey(g)' = NetKey(g)
  BY DEF NetKey, GuestKey
<1> SUFFICES ASSUME NEW g \in TcpFlows
             PROVE  /\ uftOut'[g] # None => tcp'[g] # None
                    /\ uftIn'[NetKey(g)] # None =>
                         tcp'[g] # None /\ tcp'[g].inb = NetKey(g)
  BY PortAssumption, <1>1 DEF Tracked
<1>2. CASE g = f
  BY <1>2
<1>3. CASE g # f
  BY <1>3, PortAssumption DEF Tracked
<1>4. QED
  BY <1>2, <1>3

LEMMA ShrinkTracked ==
  ASSUME Tracked, OutShrunk(uftOut'), InShrunk(uftIn'), tcp' = tcp
  PROVE  Tracked'
<1>1. \A g \in Flows : /\ uftOut'[g] # None => uftOut[g] # None
                       /\ uftIn'[NetKey(g)] # None => uftIn[NetKey(g)] # None
  BY KeysOfFlows DEF OutShrunk, InShrunk
<1>2. \A g \in Flows : NetKey(g)' = NetKey(g)
  BY DEF NetKey, GuestKey
<1>3. QED
  BY <1>1, <1>2, PortAssumption DEF Tracked

(* A flow that is retired is found under the key that it was tracked with. *)
LEMMA RetireTracked ==
  ASSUME TypeOK, Tracked, NEW f \in TcpFlows, tcp[f] # None,
         NEW out, NEW in, OutShrunk(out), InShrunk(in),
         Retire(f, out, in)
  PROVE  Tracked'
<1>1. f \in Flows /\ f # None /\ NetKey(f) \in Keys /\ NetKey(f) # None
  BY PortAssumption, NoneAssumption, KeysOfFlows
<1>2. tcp[f].inb \in Keys \cup {None}
  BY <1>1 DEF TypeOK, TcpEntry
<1>3. uftOut' = [out EXCEPT ![f] = None] /\ tcp' = [tcp EXCEPT ![f] = None]
  BY <1>1 DEF Retire, Without
<1>4. InShrunk(uftIn')
  BY <1>2, WithoutIn DEF Retire
<1>5. uftIn'[NetKey(f)] = None
  <2>1. CASE in[NetKey(f)] = None
    BY <1>1, <1>2, <2>1 DEF Retire, Without, InShrunk
  <2>2. CASE in[NetKey(f)] # None
    <3>1. tcp[f].inb = NetKey(f)
      BY <1>1, <2>2 DEF InShrunk, Tracked
    <3>2. uftIn' = [in EXCEPT ![NetKey(f)] = None]
      BY <1>1, <3>1 DEF Retire, Without
    <3>3. QED
      BY <1>1, <3>2 DEF InShrunk
  <2>3. QED
    BY <2>1, <2>2
<1>6. uftOut'[f] = None
  BY <1>1, <1>3 DEF OutShrunk
<1>7. \A g \in Flows \ {f} : /\ tcp'[g] = tcp[g]
                             /\ uftOut'[g] # None => uftOut[g] # None
                             /\ uftIn'[NetKey(g)] # None => uftIn[NetKey(g)] # None
  BY <1>3, <1>4, KeysOfFlows DEF OutShrunk, InShrunk, TypeOK
<1>8. QED
  BY <1>1, <1>5, <1>6, <1>7, OneFlowStep

(* What an entry of tcp_flows becomes.                                     *)
LEMMA TcpUpdated ==
  ASSUME TypeOK, NEW f \in Flows, NEW st \in States \ {"Closed"},
         NEW k \in Keys \cup {None}
  PROVE  /\ [tcp EXCEPT ![f] = [st |-> st, inb |-> k]][f] # None
         /\ [tcp EXCEPT ![f] = [st |-> st, inb |-> k]][f].inb = k
         /\ tcp[f] # None =>
              /\ [tcp EXCEPT ![f].st = st][f] # None
              /\ [tcp EXCEPT ![f].st = st][f].inb = tcp[f].inb
              /\ [tcp EXCEPT ![f].inb = k][f] # None
              /\ [tcp EXCEPT ![f].inb = k][f].inb = k
<1>1. tcp \in [Flows -> TcpEntry \cup {None}]
  BY DEF TypeOK
<1>2. [st |-> st, inb |-> k] \in TcpEntry
  BY DEF TcpEntry
<1>3. ASSUME tcp[f] # None
      PROVE  /\ [tcp[f] EXCEPT !.st = st] \in TcpEntry
             /\ [tcp[f] EXCEPT !.st = st].inb = tcp[f].inb
             /\ [tcp[f] EXCEPT !.inb = k] \in TcpEntry
             /\ [tcp[f] EXCEPT !.inb = k].inb = k
  <2>1. tcp[f] \in TcpEntry
    BY <1>1, <1>3
  <2>2. QED
    BY <2>1 DEF TcpEntry
<1>4. \A e \in TcpEntry : e # None
  BY NoneAssumption
<1>5. QED
  BY <1>1, <1>2, <1>3, <1>4

-----------------------------------------------------------------------------
LEMMA HitTcpTracked ==
  ASSUME TypeOK, Tracked, NEW t \in Threads,
         NEW flags \in FlagSets, NEW covers \in BOOLEAN,
         InHitTcp(t, flags, covers) \/ OutHitTcp(t, flags)
  PROVE  Tracked'
<1> DEFINE f == pkt[t].flow
<1>1. UnderWay(t) /\ f \in TcpFlows
  BY DEF InHitTcp, OutHitTcp, Holds
<1>2. f \in Flows /\ tcp \in [Flows -> TcpEntry \cup {None}]
  BY <1>1, AtWork
<1>3. OutShrunk(uftOut) /\ InShrunk(uftIn)
  BY NothingShrunk
<1>4. PICK to \in States \cup {Unexpected} :
        /\ to # Unexpected => tcp[f] # None
        /\ HitEnds(t, to)
  <2>1. CASE InHitTcp(t, flags, covers)
    <3> DEFINE to == IF tcp[f] = None THEN Unexpected
                     ELSE FlowIn(tcp[f].st, flags, covers)
    <3>1. to \in States \cup {Unexpected} /\ (to # Unexpected => tcp[f] # None)
      BY <1>2, SegmentTo
    <3>2. HitEnds(t, to)
      BY <2>1 DEF InHitTcp, HitEnds
    <3> HIDE DEF to
    <3>3. QED
      BY <3>1, <3>2
  <2>2. CASE OutHitTcp(t, flags)
    <3> DEFINE to == IF tcp[f] = None THEN Unexpected ELSE FlowOut(tcp[f].st, flags)
    <3>1. to \in States \cup {Unexpected} /\ (to # Unexpected => tcp[f] # None)
      BY <1>2, SegmentTo
    <3>2. HitEnds(t, to)
      BY <2>2 DEF OutHitTcp, HitEnds
    <3> HIDE DEF to
    <3>3. QED
      BY <3>1, <3>2
  <2>3. QED
    BY <2>1, <2>2
<1>5. \/ UNCHANGED <<uftOut, uftIn, tcp>>
      \/ to # Unexpected /\ Retire(f, uftOut, uftIn)
      \/ /\ to \notin {Unexpected, "Closed"}
         /\ tcp' = [tcp EXCEPT ![f].st = to]
         /\ UNCHANGED <<uftOut, uftIn>>
  <2>1. "Closed" # Unexpected
    BY DEF Unexpected
  <2>2. QED
    BY <1>4, <2>1 DEF HitEnds
<1> HIDE DEF f
<1>6. CASE UNCHANGED <<uftOut, uftIn, tcp>>
  BY <1>3, <1>6, ShrinkTracked
<1>7. CASE to # Unexpected /\ Retire(f, uftOut, uftIn)
  BY <1>1, <1>3, <1>4, <1>7, RetireTracked
<1>8. CASE /\ to \notin {Unexpected, "Closed"}
           /\ tcp' = [tcp EXCEPT ![f].st = to]
           /\ UNCHANGED <<uftOut, uftIn>>
  <2>1. to \in States \ {"Closed"} /\ tcp[f] # None
    BY <1>4, <1>8
  <2>2. tcp'[f] # None /\ tcp'[f].inb = tcp[f].inb
    BY <1>2, <1>8, <2>1, TcpUpdated
  <2>3. \A g \in Flows \ {f} : tcp'[g] = tcp[g]
    BY <1>2, <1>8
  <2>4. uftIn[NetKey(f)] # None => tcp[f].inb = NetKey(f)
    BY <1>1 DEF Tracked
  <2>5. QED
    BY <1>2, <1>8, <2>2, <2>3, <2>4, OneFlowStep
<1>9. QED
  BY <1>5, <1>6, <1>7, <1>8

(* Packets without TCP have keys of their own.                             *)
LEMMA UdpTracked ==
  ASSUME TypeOK, Tracked, NEW t \in Threads,
         InMissAllowed(t) \/ \E res \in Outcomes : OutMissUdp(t, res)
  PROVE  Tracked'
<1> DEFINE f == pkt[t].flow
<1>1. UnderWay(t) /\ f \notin TcpFlows /\ tcp' = tcp
  BY DEF InMissAllowed, OutMissUdp, InMiss, OutMiss, Holds
<1>2. f \in Flows /\ NetKey(f) \in Keys
  BY <1>1, AtWork
<1>3. /\ OutShrunk(PairedOut(t)) /\ OutShrunk(InvalidatedOut(t))
      /\ InShrunk(InOfInvalidatedOut(t))
  BY <1>1, InvalidatedShrunk
<1>4. uftIn \in [Keys -> Epochs \cup {None}] /\ uftOut \in [Flows -> OutEntry \cup {None}]
  BY DEF TypeOK
<1>5. \/ /\ uftOut' = PairedOut(t)
         /\ uftIn' = [uftIn EXCEPT ![NetKey(f)] = pkt[t].epoch]
      \/ /\ uftIn' = InOfInvalidatedOut(t)
         /\ \/ uftOut' = InvalidatedOut(t)
            \/ uftOut' = [uftOut EXCEPT ![f] = [epoch |-> pkt[t].epoch, pair |-> None]]
  BY DEF InMissAllowed, OutMissUdp
<1> HIDE DEF f
<1>6. ASSUME NEW g \in Flows \ {f}
      PROVE  /\ uftOut'[g] # None => uftOut[g] # None
             /\ uftIn'[NetKey(g)] # None => uftIn[NetKey(g)] # None
  <2>1. NetKey(g) \in Keys /\ NetKey(g) # NetKey(f)
    BY <1>2, KeysOfFlows
  <2>2. QED
    BY <1>2, <1>3, <1>4, <1>5, <2>1 DEF OutShrunk, InShrunk
<1>7. QED
  BY <1>1, <1>2, <1>6, OneFlowStep DEF f

LEMMA InMissTcpTracked ==
  ASSUME TypeOK, Tracked, ~Translated, NEW t \in Threads,
         NEW flags \in FlagSets, NEW covers \in BOOLEAN,
         InMissTcp(t, flags, covers)
  PROVE  Tracked'
<1> DEFINE f == pkt[t].flow
           new == tcp[f] = None
           to == FlowIn(IF new THEN "Closed" ELSE tcp[f].st, flags, covers)
<1>1. UnderWay(t) /\ f \in TcpFlows
  BY DEF InMissTcp, InMiss, Holds
<1>2. /\ f \in Flows /\ GuestKey(f) \in Keys /\ NetKey(f) = GuestKey(f)
      /\ tcp \in [Flows -> TcpEntry \cup {None}]
      /\ tcp[f] # None => tcp[f].st \in States \ {"Closed"}
  BY <1>1, AtWork DEF NetKey
<1>3. to \in States \cup {Unexpected}
  BY <1>2, SegmentTo
<1>4. OutShrunk(PairedOut(t)) /\ InShrunk(InvalidatedIn(t))
  BY <1>1, InvalidatedShrunk
<1>5. InvalidatedIn(t)[NetKey(f)] = None
  BY <1>2, NoneAssumption DEF InvalidatedIn, Without, TypeOK
<1>6. "Listen" \in States \ {"Closed"}
  BY DEF States
<1>7. CASE /\ tcp' = IF new THEN tcp ELSE [tcp EXCEPT ![f].inb = GuestKey(f)]
           /\ uftOut' = PairedOut(t)
           /\ uftIn' = InvalidatedIn(t)
  <2>1. CASE new
    BY <1>4, <1>7, <2>1, ShrinkTracked
  <2>2. CASE ~new
    <3>1. tcp'[f] # None
      BY <1>2, <1>6, <1>7, <2>2, TcpUpdated
    <3>2. \A g \in Flows \ {f} :
            /\ tcp'[g] = tcp[g]
            /\ uftOut'[g] # None => uftOut[g] # None
            /\ uftIn'[NetKey(g)] # None => uftIn[NetKey(g)] # None
      BY <1>2, <1>4, <1>7, <2>2, KeysOfFlows DEF OutShrunk, InShrunk
    <3>3. QED
      BY <1>2, <1>5, <1>7, <3>1, <3>2, OneFlowStep
  <2>3. QED
    BY <2>1, <2>2
<1>8. CASE uftOut' = PairedOut(t) /\ uftIn' = InvalidatedIn(t) /\ UNCHANGED tcp
  BY <1>4, <1>8, ShrinkTracked
<1>9. CASE ~new /\ Retire(f, PairedOut(t), InvalidatedIn(t))
  BY <1>1, <1>4, <1>9, RetireTracked
<1>10. CASE /\ to \notin {Unexpected, "Closed"}
            /\ tcp' = [tcp EXCEPT ![f] = [st |-> to, inb |-> GuestKey(f)]]
            /\ uftOut' = PairedOut(t)
            /\ uftIn' = [uftIn EXCEPT ![NetKey(f)] = pkt[t].epoch]
  <2>1. to \in States \ {"Closed"}
    BY <1>3, <1>10
  <2> HIDE DEF to, new
  <2>2. tcp'[f] # None /\ tcp'[f].inb = NetKey(f)
    BY <1>2, <1>10, <2>1, TcpUpdated
  <2>3. ASSUME NEW g \in Flows \ {f}
        PROVE  /\ tcp'[g] = tcp[g]
               /\ uftOut'[g] # None => uftOut[g] # None
               /\ uftIn'[NetKey(g)] # None => uftIn[NetKey(g)] # None
    <3>1. NetKey(g) \in Keys /\ NetKey(g) # NetKey(f)
      BY <1>2, KeysOfFlows
    <3>2. QED
      BY <1>2, <1>4, <1>10, <3>1 DEF OutShrunk, TypeOK
  <2>4. QED
    BY <1>2, <2>2, <2>3, OneFlowStep
<1>11. QED
  BY <1>7, <1>8, <1>9, <1>10 DEF InMissTcp

LEMMA OutMissTcpTracked ==
  ASSUME TypeOK, Tracked, NEW t \in Threads,
         NEW flags \in FlagSets, NEW res \in Outcomes,
         OutMissTcp(t, flags, res)
  PROVE  Tracked'
<1> DEFINE f == pkt[t].flow
           new == tcp[f] = None
           to == FlowOut(IF new THEN "Closed" ELSE tcp[f].st, flags)
           inb == IF new THEN None ELSE tcp[f].inb
<1>1. UnderWay(t) /\ f \in TcpFlows
  BY DEF OutMissTcp, OutMiss, Holds
<1>2. /\ f \in Flows /\ NetKey(f) \in Keys
      /\ tcp \in [Flows -> TcpEntry \cup {None}]
      /\ tcp[f] # None => tcp[f].st \in States \ {"Closed"}
                          /\ tcp[f].inb \in Keys \cup {None}
  BY <1>1, AtWork
<1>3. to \in States \ {"Closed"}
  BY <1>2, SegmentTo DEF OutMissTcp
<1>4. OutShrunk(InvalidatedOut(t)) /\ InShrunk(InOfInvalidatedOut(t))
  BY <1>1, InvalidatedShrunk
<1>5. /\ tcp' = [tcp EXCEPT ![f] = [st |-> to, inb |-> inb]]
      /\ uftIn' = InOfInvalidatedOut(t)
      /\ \/ uftOut' = InvalidatedOut(t)
         \/ uftOut' = [uftOut EXCEPT ![f] = [epoch |-> pkt[t].epoch, pair |-> None]]
  BY DEF OutMissTcp
<1>6. inb \in Keys \cup {None}
  BY <1>2
<1>7. uftIn[NetKey(f)] # None => inb = NetKey(f)
  BY <1>1 DEF Tracked
<1> HIDE DEF f, new, to, inb
<1>8. tcp'[f] # None /\ tcp'[f].inb = inb
  BY <1>2, <1>3, <1>5, <1>6, TcpUpdated
<1>9. \A g \in Flows \ {f} :
        /\ tcp'[g] = tcp[g]
        /\ uftOut'[g] # None => uftOut[g] # None
        /\ uftIn'[NetKey(g)] # None => uftIn[NetKey(g)] # None
  BY <1>2, <1>4, <1>5, KeysOfFlows DEF OutShrunk, InShrunk, TypeOK
<1>10. uftIn'[NetKey(f)] # None => inb = NetKey(f)
  BY <1>2, <1>4, <1>5, <1>7 DEF InShrunk
<1>11. QED
  BY <1>2, <1>8, <1>9, <1>10, OneFlowStep

(* Packets that leave tcp_flows alone, or close a connection.              *)
LEMMA ClosingTracked ==
  ASSUME TypeOK, Tracked, NEW t \in Threads, NEW flags \in FlagSets, NEW res \in Outcomes,
         \/ InMissDropped(t, res)
         \/ OutMissTcpUnexpected(t, flags)
         \/ OutMissTcpClosed(t, flags, res)
  PROVE  Tracked'
<1> DEFINE f == pkt[t].flow
<1>1. UnderWay(t)
  BY DEF InMissDropped, OutMissTcpUnexpected, OutMissTcpClosed, InMiss, OutMiss, Holds
<1>2. /\ InShrunk(InvalidatedIn(t)) /\ OutShrunk(OutOfInvalidatedIn(t))
      /\ OutShrunk(InvalidatedOut(t)) /\ InShrunk(InOfInvalidatedOut(t))
  BY <1>1, InvalidatedShrunk
<1>3. CASE InMissDropped(t, res)
  BY <1>2, <1>3, ShrinkTracked DEF InMissDropped
<1>4. CASE OutMissTcpUnexpected(t, flags)
  BY <1>2, <1>4, ShrinkTracked DEF OutMissTcpUnexpected
<1>5. CASE OutMissTcpClosed(t, flags, res)
  <2>1. f \in TcpFlows
    BY <1>5 DEF OutMissTcpClosed
  <2>2. CASE /\ uftOut' = InvalidatedOut(t)
             /\ uftIn' = InOfInvalidatedOut(t)
             /\ UNCHANGED tcp
    BY <1>2, <2>2, ShrinkTracked
  <2>3. CASE tcp[f] # None /\ Retire(f, InvalidatedOut(t), InOfInvalidatedOut(t))
    BY <1>2, <2>1, <2>3, RetireTracked
  <2>4. QED
    BY <1>5, <2>2, <2>3 DEF OutMissTcpClosed
<1>6. QED
  BY <1>3, <1>4, <1>5

LEMMA ProcessTracked ==
  ASSUME TypeOK, Tracked, ~Translated, NEW t \in Threads, Process(t)
  PROVE  Tracked'
<1>1. CASE UNCHANGED <<uftOut, uftIn, tcp>>
  BY <1>1, NothingShrunk, ShrinkTracked
<1>2. CASE Refuse(t) \/ InHit(t) \/ OutHit(t)
  BY <1>1, <1>2 DEF Refuse, InHit, OutHit, tables
<1>3. CASE \E flags \in FlagSets, covers \in BOOLEAN :
             UnwrapFailsIn(t, flags, covers) \/ UnwrapFailsOut(t, flags)
  BY <1>1, <1>3 DEF UnwrapFailsIn, UnwrapFailsOut
<1>4. CASE \E flags \in FlagSets, covers \in BOOLEAN :
             InHitTcp(t, flags, covers) \/ OutHitTcp(t, flags)
  BY <1>4, HitTcpTracked
<1>5. CASE InMissAllowed(t) \/ \E res \in Outcomes : OutMissUdp(t, res)
  BY <1>5, UdpTracked
<1>6. CASE \E flags \in FlagSets, covers \in BOOLEAN : InMissTcp(t, flags, covers)
  BY <1>6, InMissTcpTracked
<1>7. CASE \E flags \in FlagSets, res \in Outcomes :
             OutMissTcp(t, flags, res) \/ OutMissTcpClosed(t, flags, res)
  BY <1>7, OutMissTcpTracked, ClosingTracked
<1>8. CASE \E res \in Outcomes : InMissDropped(t, res)
  <2>1. PICK res \in Outcomes : InMissDropped(t, res)
    BY <1>8
  <2>2. /\ UnderWay(t) /\ tcp' = tcp
        /\ uftOut' = OutOfInvalidatedIn(t) /\ uftIn' = InvalidatedIn(t)
    BY <2>1 DEF InMissDropped, InMiss, Holds
  <2>3. QED
    BY <2>2, InvalidatedShrunk, ShrinkTracked
<1>9. CASE \E flags \in FlagSets : OutMissTcpUnexpected(t, flags)
  BY <1>9, ClosingTracked DEF Outcomes
<1>10. CASE \E flags \in FlagSets : OutHitTcp(t, flags) \/ UnwrapFailsOut(t, flags)
  BY <1>3, <1>4, <1>10
<1>11. QED
  BY <1>2, <1>3, <1>4, <1>5, <1>6, <1>7, <1>8, <1>9, <1>10 DEF Process

LEMMA InitTracked == Init => Tracked
BY PortAssumption, KeysOfFlows DEF Init, Tracked

LEMMA NextTracked ==
  ASSUME TypeOK, Tracked, ~Translated, [Next]_vars
  PROVE  Tracked'
<1>1. CASE UNCHANGED <<uftOut, uftIn, tcp>>
  BY <1>1, NothingShrunk, ShrinkTracked
<1>2. CASE \E t \in Threads, dir \in Dirs, f \in Flows : Arrive(t, dir, f)
  BY <1>1, <1>2 DEF Arrive, tables
<1>3. CASE \E t \in Threads : Process(t)
  BY <1>3, ProcessTracked
<1>4. CASE \/ \E what \in {"adding", "setting"} : Announce(what)
           \/ \E dir \in Dirs, flows \in SUBSET Flows :
                AddRule(dir, flows) \/ RemoveRule(dir, flows)
           \/ \E rules \in [Dirs -> SUBSET Flows] : SetRules(rules)
           \/ RuleRemoved \/ Pause \/ Start
  BY <1>1, <1>4 DEF Announce, AddRule, RemoveRule, SetRules, RuleRemoved, Pause, Start, tables
<1>5. CASE Reset \/ ClearUft
  <2>1. \A f \in TcpFlows : uftOut'[f] = None /\ uftIn'[NetKey(f)] = None
    BY <1>5, PortAssumption, KeysOfFlows DEF Reset, ClearAll, ClearUft
  <2>2. QED
    BY <2>1 DEF Tracked, NetKey, GuestKey
<1>6. CASE Expire
  <2>1. PICK oldLft \in SUBSET lft, oldOut \in SUBSET Live(uftOut),
             oldIn \in SUBSET Live(uftIn) : ExpireFlows(oldLft, oldOut, oldIn)
    BY <1>6 DEF Expire
  <2>2. OutShrunk(uftOut') /\ InShrunk(uftIn') /\ tcp' = tcp
    BY <2>1 DEF ExpireFlows, OutShrunk, InShrunk, TypeOK
  <2>3. QED
    BY <2>2, ShrinkTracked
<1>7. CASE UNCHANGED vars
  BY <1>1, <1>7 DEF vars, tables
<1>8. QED
  BY <1>2, <1>3, <1>4, <1>5, <1>6, <1>7 DEF Next

(* Where the network knows flows by the guest's keys, process_in_tcp_new() *)
(* records the key that the inbound entry has, and so uft_tcp_closed()     *)
(* retires both entries of a connection: none outlives it, whatever        *)
(* segments, expiry and resets do in between.                              *)
THEOREM UftEntriesAreTracked ==
  ASSUME ~Translated
  PROVE  Spec => []UftIsTracked
<1>1. Init => Tracked
  BY InitTracked
<1>2. TypeOK /\ Tracked /\ [Next]_vars => Tracked'
  BY NextTracked
<1>3. Tracked => UftIsTracked
  BY DEF Tracked, UftIsTracked
<1>4. QED
  BY <1>1, <1>2, <1>3, TypeCorrect, PTL DEF Spec
=============================================================================

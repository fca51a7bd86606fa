-------------------------------- MODULE Port --------------------------------
(***************************************************************************)
(* A port: the unit that processes a guest's packets                       *)
(* (opte/src/engine/port.rs).                                              *)
(*                                                                         *)
(* Packets are processed by several threads.  Each reads the port's epoch, *)
(* then takes the lock on the port's data and holds it until the packet is *)
(* done.  A first packet goes through the layers; what they decided is     *)
(* compiled into an entry of the unified flow table (UFT), stamped with    *)
(* the epoch the thread read, and later packets of the flow take the entry *)
(* instead of the layers as long as the stamp is the epoch they read.      *)
(* Changing rules moves the epoch on.  TCP flows are tracked besides.      *)
(*                                                                         *)
(* Of the layers only the firewall has state here: its rules, as the flows *)
(* they let through in each direction, and its flow table, as the set of   *)
(* flows that have a pair of entries.  Any other layer may drop a packet.  *)
(* A flow is named as the guest knows it; with NAT the network knows it by *)
(* another key.                                                            *)
(*                                                                         *)
(* A packet is its direction and flow; what a TCP segment says is chosen   *)
(* when it is processed.  Any entry may have reached its time to live when *)
(* expire_flows() runs.                                                    *)
(***************************************************************************)
EXTENDS TcpState, Naturals, FiniteSets

CONSTANTS
  Threads,      \* threads that call Port::process
  Flows,        \* flows of the guest
  TcpFlows,     \* those of them that are TCP
  Translated,   \* does NAT give the flows another key on the network side?
  FlagSets,     \* the flags TCP segments carry
  LftLimit,     \* the firewall's flow table limit
  UftLimit,     \* limit of uft_in and of uft_out
  TcpLimit,     \* limit of tcp_flows
  MaxEpoch,     \* bound on rule changes
  None

ASSUME PortAssumption ==
  /\ TcpFlows \subseteq Flows
  /\ Translated \in BOOLEAN
  /\ FlagSets \subseteq SUBSET Flags
  /\ LftLimit \in Nat \ {0} /\ UftLimit \in Nat \ {0} /\ TcpLimit \in Nat \ {0}
  /\ MaxEpoch \in Nat

VARIABLES
  state,        \* PortData.state
  epoch,        \* Port.epoch, an atomic outside the lock
  lock,         \* the rule change that holds the data lock half-way, or None
  allow,        \* direction -> flows the firewall's rules let through
  lft,          \* flows in the firewall's flow table
  uftOut,       \* uft_out: flow -> [epoch, pair] or None
  uftIn,        \* uft_in: inbound key -> epoch or None
  tcp,          \* tcp_flows: flow -> [st, inb] or None
  panicked,     \* an unwrap() failed: the kernel is down
  pkt,          \* thread -> the packet it processes, or None
  accepted      \* ghost: what the firewall accepted since the last change

tables == <<lft, uftOut, uftIn, tcp>>
vars == <<state, epoch, lock, allow, tables, panicked, pkt, accepted>>

Dirs == {"in", "out"}
PortStates == {"Ready", "Running", "Paused"}

(* Keys of uft_in.  Without NAT the network sees a flow as the guest does. *)
Keys == {"guest", "net"} \X Flows
GuestKey(f) == <<"guest", f>>
NetKey(f) == IF Translated THEN <<"net", f>> ELSE GuestKey(f)

Epochs == 0..MaxEpoch
OutEntry == [epoch : Epochs, pair : Keys \cup {None}]
TcpEntry == [st : States \ {"Closed"}, inb : Keys \cup {None}]
Packet == [at : {"arrived", "passed"}, dir : Dirs, flow : Flows,
           epoch : Epochs, ok : BOOLEAN]

Changes == {"adding", "setting", "removing"}

ASSUME NoneAssumption ==
  None \notin Flows \cup OutEntry \cup TcpEntry \cup Packet \cup Epochs \cup Keys
           \cup Changes

Init ==
  /\ state = "Ready"
  /\ epoch = 0
  /\ lock = None
  /\ allow = [d \in Dirs |-> IF d = "in" THEN {} ELSE Flows]
  /\ lft = {}
  /\ uftOut = [f \in Flows |-> None]
  /\ uftIn = [k \in Keys |-> None]
  /\ tcp = [f \in Flows |-> None]
  /\ panicked = FALSE
  /\ pkt = [t \in Threads |-> None]
  /\ accepted = {"out"} \X Flows

-----------------------------------------------------------------------------
(* Ghosts.  The firewall accepts a flow in a direction when its rules let  *)
(* it through or when it has the flow in its table.                        *)
Acceptable(table, rules) ==
  {a \in Dirs \X Flows : a[2] \in rules[a[1]] \/ a[2] \in table}

(* Packets under way learn that the firewall has accepted their flow.      *)
Noted(acc) ==
  [t \in Threads |->
     IF pkt[t] # None /\ <<pkt[t].dir, pkt[t].flow>> \in acc
     THEN [pkt[t] EXCEPT !.ok = TRUE] ELSE pkt[t]]

(* A step that changes the firewall within an epoch, and one that starts   *)
(* a new set of rules.                                                     *)
Learn ==
  accepted' = accepted \cup Acceptable(lft', allow)

StartOver ==
  /\ accepted' = Acceptable(lft', allow')
  /\ pkt' = Noted(accepted')

-----------------------------------------------------------------------------
(* Small steps of packet processing.                                       *)
UnderWay(t) == pkt[t] # None /\ pkt[t].at = "arrived"
HasPassed(t) == pkt[t] # None /\ pkt[t].at = "passed"

Live(table) == {k \in DOMAIN table : table[k] # None}

Drop(t) == Learn /\ pkt' = [Noted(accepted') EXCEPT ![t] = None]
Pass(t) == Learn /\ pkt' = [Noted(accepted') EXCEPT ![t].at = "passed"]

(* Mutant: the epoch an entry was compiled in is not looked at.            *)
IsCurrentAlways(e, t) == TRUE

(* An entry is used when it was compiled in the epoch the thread read.     *)
IsCurrent(e, t) == e = pkt[t].epoch

Without(table, k) == IF k = None THEN table ELSE [table EXCEPT ![k] = None]

(* Mutant: a closed flow stays in tcp_flows, as a closed one.              *)
RetireAsClosed(f, out, in) ==
  /\ uftOut' = Without(out, f)
  /\ uftIn' = Without(in, tcp[f].inb)
  /\ tcp' = [tcp EXCEPT ![f].st = "Closed"]

(* Mutant: the inbound entry of a closed flow stays.                       *)
RetireOutOnly(f, out, in) ==
  /\ uftOut' = Without(out, f)
  /\ uftIn' = in
  /\ tcp' = Without(tcp, f)

(* uft_tcp_closed(), and the removal of the flow from tcp_flows: what is   *)
(* left of the two UFTs when a TCP flow closes.                            *)
Retire(f, out, in) ==
  /\ uftOut' = Without(out, f)
  /\ uftIn' = Without(in, tcp[f].inb)
  /\ tcp' = Without(tcp, f)

(* process() has the lock, the port runs, and the packet goes this way.    *)
Holds(t, dir) ==
  /\ ~panicked
  /\ lock = None
  /\ state = "Running"
  /\ UnderWay(t) /\ pkt[t].dir = dir

(* The layers, by where the packet ends: dropped ahead of the firewall     *)
(* ("early"), by it ("denied"), after it ("late"), or allowed by all.      *)
Outcomes == {"early", "denied", "late", "allowed"}

Firewall(dir, f, res) ==
  LET hit == f \in lft
      room == Cardinality(lft) < LftLimit
  IN \/ res = "early" /\ UNCHANGED lft
     \/ /\ res = "denied" /\ ~hit /\ (f \notin allow[dir] \/ ~room)
        /\ UNCHANGED lft
     \/ /\ res \in {"late", "allowed"}
        /\ hit \/ (f \in allow[dir] /\ room)
        /\ lft' = lft \cup {f}

-----------------------------------------------------------------------------
(* process(): the packet's thread reads the epoch, without the lock.       *)
Arrive(t, dir, f) ==
  /\ ~panicked
  /\ ~UnderWay(t)
  /\ pkt' = [pkt EXCEPT ![t] =
               [at |-> "arrived", dir |-> dir, flow |-> f, epoch |-> epoch,
                ok |-> <<dir, f>> \in accepted]]
  /\ UNCHANGED <<state, epoch, lock, allow, tables, panicked, accepted>>

(* process() of a port that does not run: BadState.                        *)
Refuse(t) ==
  /\ ~panicked /\ lock = None /\ state # "Running"
  /\ UnderWay(t)
  /\ pkt' = [pkt EXCEPT ![t] = None]
  /\ UNCHANGED <<state, epoch, lock, allow, tables, panicked, accepted>>

(* process_in with a current entry, no TCP.                                *)
InHit(t) ==
  LET f == pkt[t].flow IN
  /\ Holds(t, "in") /\ f \notin TcpFlows
  /\ uftIn[NetKey(f)] # None /\ IsCurrent(uftIn[NetKey(f)], t)
  /\ UNCHANGED <<state, epoch, lock, allow, tables, panicked>>
  /\ Pass(t)

(* process_in with a current entry, TCP (process_in_tcp_existing).         *)
InHitTcp(t, flags, covers) ==
  LET f == pkt[t].flow
      to == IF tcp[f] = None THEN Unexpected ELSE FlowIn(tcp[f].st, flags, covers)
  IN
  /\ Holds(t, "in") /\ f \in TcpFlows
  /\ uftIn[NetKey(f)] # None /\ IsCurrent(uftIn[NetKey(f)], t)
  /\ UNCHANGED <<state, epoch, lock, allow, lft, panicked>>
  /\ \/ /\ to = Unexpected
        /\ Drop(t)
        /\ UNCHANGED <<uftOut, uftIn, tcp>>
     \/ to = "Closed" /\ Pass(t) /\ Retire(f, uftOut, uftIn)
     \/ /\ to \notin {Unexpected, "Closed"}
        /\ Pass(t)
        /\ tcp' = [tcp EXCEPT ![f].st = to]
        /\ UNCHANGED <<uftOut, uftIn>>

(* process_in without a current entry: a stale one is invalidated with its *)
(* pair before the layers see the packet.                                  *)
InMiss(t) ==
  LET k == NetKey(pkt[t].flow)
  IN Holds(t, "in") /\ ~(uftIn[k] # None /\ IsCurrent(uftIn[k], t))

InvalidatedIn(t) == Without(uftIn, NetKey(pkt[t].flow))
OutOfInvalidatedIn(t) ==
  LET f == pkt[t].flow
  IN IF uftIn[NetKey(f)] # None THEN Without(uftOut, f) ELSE uftOut

(* process_in_miss allowed by the layers: an outbound entry learns of its  *)
(* inbound pair.                                                           *)
PairedOut(t) ==
  LET f == pkt[t].flow
      out == OutOfInvalidatedIn(t)
  IN IF out[f] # None THEN [out EXCEPT ![f].pair = NetKey(f)] ELSE out

InMissDropped(t, res) ==
  /\ InMiss(t)
  /\ res # "allowed" /\ Firewall("in", pkt[t].flow, res)
  /\ Drop(t)
  /\ uftOut' = OutOfInvalidatedIn(t)
  /\ uftIn' = InvalidatedIn(t)
  /\ UNCHANGED <<state, epoch, lock, allow, tcp, panicked>>

InMissAllowed(t) ==
  LET f == pkt[t].flow IN
  /\ InMiss(t) /\ f \notin TcpFlows
  /\ Firewall("in", f, "allowed")
  /\ Cardinality(Live(InvalidatedIn(t))) < UftLimit
  /\ Pass(t)
  /\ uftOut' = PairedOut(t)
  /\ uftIn' = [uftIn EXCEPT ![NetKey(f)] = pkt[t].epoch]
  /\ UNCHANGED <<state, epoch, lock, allow, tcp, panicked>>

(* process_in_tcp_new.  The inbound key it records is taken from the       *)
(* packet after processing: the guest's view of the flow.                  *)
InMissTcp(t, flags, covers) ==
  LET f == pkt[t].flow
      new == tcp[f] = None
      to == FlowIn(IF new THEN "Closed" ELSE tcp[f].st, flags, covers)
  IN
  /\ InMiss(t) /\ f \in TcpFlows
  /\ Firewall("in", f, "allowed")
  /\ \/ /\ to = Unexpected
        /\ Drop(t)
        /\ tcp' = IF new THEN tcp ELSE [tcp EXCEPT ![f].inb = GuestKey(f)]
        /\ uftOut' = PairedOut(t)
        /\ uftIn' = InvalidatedIn(t)
     \/ /\ to = "Closed" /\ new
        /\ Pass(t)
        /\ uftOut' = PairedOut(t)
        /\ uftIn' = InvalidatedIn(t)
        /\ UNCHANGED tcp
     \/ to = "Closed" /\ ~new /\ Pass(t) /\ Retire(f, PairedOut(t), InvalidatedIn(t))
     \/ /\ to \notin {Unexpected, "Closed"}
        /\ new => Cardinality(Live(tcp)) < TcpLimit
        /\ Cardinality(Live(InvalidatedIn(t))) < UftLimit
        /\ Pass(t)
        /\ tcp' = [tcp EXCEPT ![f] = [st |-> to, inb |-> GuestKey(f)]]
        /\ uftOut' = PairedOut(t)
        /\ uftIn' = [uftIn EXCEPT ![NetKey(f)] = pkt[t].epoch]
  /\ UNCHANGED <<state, epoch, lock, allow, panicked>>

-----------------------------------------------------------------------------
(* process_out with a current entry, no TCP.                               *)
OutHit(t) ==
  LET f == pkt[t].flow IN
  /\ Holds(t, "out") /\ f \notin TcpFlows
  /\ uftOut[f] # None /\ IsCurrent(uftOut[f].epoch, t)
  /\ UNCHANGED <<state, epoch, lock, allow, tables, panicked>>
  /\ Pass(t)

(* process_out with a current entry, TCP (process_out_tcp_existing).       *)
OutHitTcp(t, flags) ==
  LET f == pkt[t].flow
      to == IF tcp[f] = None THEN Unexpected ELSE FlowOut(tcp[f].st, flags)
  IN
  /\ Holds(t, "out") /\ f \in TcpFlows
  /\ uftOut[f] # None /\ IsCurrent(uftOut[f].epoch, t)
  /\ UNCHANGED <<state, epoch, lock, allow, lft, panicked>>
  /\ \/ /\ to = Unexpected
        /\ Drop(t)
        /\ UNCHANGED <<uftOut, uftIn, tcp>>
     \/ to = "Closed" /\ Pass(t) /\ Retire(f, uftOut, uftIn)
     \/ /\ to \notin {Unexpected, "Closed"}
        /\ Pass(t)
        /\ tcp' = [tcp EXCEPT ![f].st = to]
        /\ UNCHANGED <<uftOut, uftIn>>

(* process_out without a current entry.                                    *)
OutMiss(t) ==
  LET e == uftOut[pkt[t].flow]
  IN Holds(t, "out") /\ ~(e # None /\ IsCurrent(e.epoch, t))

InvalidatedOut(t) == Without(uftOut, pkt[t].flow)
InOfInvalidatedOut(t) ==
  LET e == uftOut[pkt[t].flow]
  IN IF e # None THEN Without(uftIn, e.pair) ELSE uftIn

(* process_out_miss, no TCP.                                               *)
OutMissUdp(t, res) ==
  LET f == pkt[t].flow IN
  /\ OutMiss(t) /\ f \notin TcpFlows
  /\ Firewall("out", f, res)
  /\ uftIn' = InOfInvalidatedOut(t)
  /\ \/ /\ res # "allowed"
        /\ Drop(t)
        /\ uftOut' = InvalidatedOut(t)
     \/ /\ res = "allowed"
        /\ Cardinality(Live(InvalidatedOut(t))) < UftLimit
        /\ Pass(t)
        /\ uftOut' = [uftOut EXCEPT ![f] = [epoch |-> pkt[t].epoch, pair |-> None]]
  /\ UNCHANGED <<state, epoch, lock, allow, tcp, panicked>>

(* process_out_miss, TCP.  The segment is tracked before the layers decide *)
(* (process_out_tcp_new); what they drop stays tracked.                    *)
OutMissTcpUnexpected(t, flags) ==
  LET f == pkt[t].flow IN
  /\ OutMiss(t) /\ f \in TcpFlows
  /\ FlowOut(IF tcp[f] = None THEN "Closed" ELSE tcp[f].st, flags) = Unexpected
  /\ lft' = lft
  /\ Drop(t)
  /\ uftOut' = InvalidatedOut(t)
  /\ uftIn' = InOfInvalidatedOut(t)
  /\ UNCHANGED <<state, epoch, lock, allow, tcp, panicked>>

OutMissTcpClosed(t, flags, res) ==
  LET f == pkt[t].flow IN
  /\ OutMiss(t) /\ f \in TcpFlows
  /\ FlowOut(IF tcp[f] = None THEN "Closed" ELSE tcp[f].st, flags) = "Closed"
  /\ tcp[f] = None => Cardinality(Live(tcp)) < TcpLimit
  /\ Firewall("out", f, res)
  /\ IF res = "allowed" THEN Pass(t) ELSE Drop(t)
  /\ \/ /\ tcp[f] = None
        /\ uftOut' = InvalidatedOut(t)
        /\ uftIn' = InOfInvalidatedOut(t)
        /\ UNCHANGED tcp
     \/ tcp[f] # None /\ Retire(f, InvalidatedOut(t), InOfInvalidatedOut(t))
  /\ UNCHANGED <<state, epoch, lock, allow, panicked>>

OutMissTcp(t, flags, res) ==
  LET f == pkt[t].flow
      new == tcp[f] = None
      to == FlowOut(IF new THEN "Closed" ELSE tcp[f].st, flags)
  IN
  /\ OutMiss(t) /\ f \in TcpFlows
  /\ to \notin {Unexpected, "Closed"}
  /\ new => Cardinality(Live(tcp)) < TcpLimit
  /\ Firewall("out", f, res)
  /\ tcp' = [tcp EXCEPT ![f] =
               [st |-> to, inb |-> IF new THEN None ELSE tcp[f].inb]]
  /\ uftIn' = InOfInvalidatedOut(t)
  /\ \/ /\ res # "allowed"
        /\ Drop(t)
        /\ uftOut' = InvalidatedOut(t)
     \/ /\ res = "allowed"
        /\ Cardinality(Live(InvalidatedOut(t))) < UftLimit
        /\ Pass(t)
        /\ uftOut' = [uftOut EXCEPT ![f] = [epoch |-> pkt[t].epoch, pair |-> None]]
  /\ UNCHANGED <<state, epoch, lock, allow, panicked>>

(* "TODO kill unwrap": the kernel panics when a table has no room for the  *)
(* entry a packet needs.                                                   *)
UnwrapFailsIn(t, flags, covers) ==
  LET f == pkt[t].flow
      isTcp == f \in TcpFlows
      new == tcp[f] = None
      to == FlowIn(IF new THEN "Closed" ELSE tcp[f].st, flags, covers)
  IN
  /\ InMiss(t)
  /\ Firewall("in", f, "allowed")
  /\ isTcp => to \notin {Unexpected, "Closed"}
  /\ \/ isTcp /\ new /\ Cardinality(Live(tcp)) = TcpLimit
     \/ Cardinality(Live(InvalidatedIn(t))) = UftLimit
  /\ panicked' = TRUE
  /\ Drop(t)
  /\ UNCHANGED <<state, epoch, lock, allow, uftOut, uftIn, tcp>>

UnwrapFailsOut(t, flags) ==
  LET f == pkt[t].flow
      isTcp == f \in TcpFlows
      to == FlowOut(IF tcp[f] = None THEN "Closed" ELSE tcp[f].st, flags)
      tcpFull == isTcp /\ tcp[f] = None /\ Cardinality(Live(tcp)) = TcpLimit
  IN
  /\ OutMiss(t)
  /\ isTcp => to # Unexpected
  /\ \/ tcpFull /\ UNCHANGED lft
     \/ /\ ~tcpFull /\ (isTcp => to # "Closed")
        /\ Firewall("out", f, "allowed")
        /\ Cardinality(Live(InvalidatedOut(t))) = UftLimit
  /\ panicked' = TRUE
  /\ Drop(t)
  /\ UNCHANGED <<state, epoch, lock, allow, uftOut, uftIn, tcp>>

-----------------------------------------------------------------------------
(* Changing rules.  Each takes the data lock, and moves the epoch on while *)
(* it holds it; only the epoch can be seen without the lock.               *)
MayChangeRulesAlways == TRUE        \* Mutant: the port's state is not checked.
MayChangeRules == state \in {"Ready", "Running"}

Bump == epoch' = epoch + 1

Free == ~panicked /\ lock = None

(* add_rule() and set_rules() move the epoch on before they touch the      *)
(* layer.                                                                  *)
Announce(what) ==
  /\ Free /\ MayChangeRules /\ epoch < MaxEpoch
  /\ what \in {"adding", "setting"}
  /\ lock' = what
  /\ Bump
  /\ UNCHANGED <<state, allow, tables, panicked, pkt, accepted>>

AddRule(dir, flows) ==
  /\ ~panicked /\ lock = "adding"
  /\ allow' = [allow EXCEPT ![dir] = flows]
  /\ lock' = None
  /\ UNCHANGED <<state, epoch, tables, panicked>>
  /\ StartOver

(* set_rules() also clears the layer's flow table.                         *)
SetRules(rules) ==
  /\ ~panicked /\ lock = "setting"
  /\ allow' = rules
  /\ lft' = {}
  /\ lock' = None
  /\ UNCHANGED <<state, epoch, uftOut, uftIn, tcp, panicked>>
  /\ StartOver

(* remove_rule() changes the layer first: "there is a tiny window between  *)
(* the rule being removed and the epoch incremented".                      *)
RemoveRule(dir, flows) ==
  /\ Free /\ MayChangeRules /\ epoch < MaxEpoch
  /\ allow' = [allow EXCEPT ![dir] = flows]
  /\ lock' = "removing"
  /\ UNCHANGED <<state, epoch, tables, panicked, pkt, accepted>>

RuleRemoved ==
  /\ ~panicked /\ lock = "removing"
  /\ Bump
  /\ lock' = None
  /\ UNCHANGED <<state, allow, tables, panicked>>
  /\ StartOver

-----------------------------------------------------------------------------
(* pause(), start() and reset().                                           *)
Pause ==
  /\ Free /\ state = "Running"
  /\ state' = "Paused"
  /\ UNCHANGED <<epoch, lock, allow, tables, panicked, pkt, accepted>>

Start ==
  /\ Free
  /\ state' = "Running"
  /\ UNCHANGED <<epoch, lock, allow, tables, panicked, pkt, accepted>>

(* Mutant: the TCP flow table survives a reset.                            *)
ClearAllButTcp ==
  /\ lft' = {}
  /\ uftOut' = [f \in Flows |-> None]
  /\ uftIn' = [k \in Keys |-> None]
  /\ tcp' = tcp

ClearAll ==
  /\ lft' = {}
  /\ uftOut' = [f \in Flows |-> None]
  /\ uftIn' = [k \in Keys |-> None]
  /\ tcp' = [f \in Flows |-> None]

Reset ==
  /\ Free
  /\ state' = "Ready"
  /\ ClearAll
  /\ UNCHANGED <<epoch, lock, allow, panicked, pkt, accepted>>

(* clear_uft().                                                            *)
ClearUft ==
  /\ Free /\ state = "Running"
  /\ uftOut' = [f \in Flows |-> None]
  /\ uftIn' = [k \in Keys |-> None]
  /\ UNCHANGED <<state, epoch, lock, allow, lft, tcp, panicked, pkt, accepted>>

(* expire_flows(): the firewall's table and the UFT, not tcp_flows.        *)
ExpireFlows(oldLft, oldOut, oldIn) ==
  /\ Free /\ state = "Running"
  /\ lft' = lft \ oldLft
  /\ uftOut' = [f \in Flows |-> IF f \in oldOut THEN None ELSE uftOut[f]]
  /\ uftIn' = [k \in Keys |-> IF k \in oldIn THEN None ELSE uftIn[k]]
  /\ UNCHANGED <<state, epoch, lock, allow, tcp, panicked, pkt, accepted>>

Expire ==
  \E oldLft \in SUBSET lft, oldOut \in SUBSET Live(uftOut),
     oldIn \in SUBSET Live(uftIn) : ExpireFlows(oldLft, oldOut, oldIn)

Process(t) ==
  \/ Refuse(t)
  \/ InHit(t)
  \/ \E res \in Outcomes : InMissDropped(t, res)
  \/ InMissAllowed(t)
  \/ OutHit(t)
  \/ \E res \in Outcomes : OutMissUdp(t, res)
  \/ \E flags \in FlagSets, covers \in BOOLEAN :
       \/ InHitTcp(t, flags, covers)
       \/ InMissTcp(t, flags, covers)
       \/ UnwrapFailsIn(t, flags, covers)
  \/ \E flags \in FlagSets :
       \/ OutHitTcp(t, flags)
       \/ OutMissTcpUnexpected(t, flags)
       \/ \E res \in Outcomes : OutMissTcpClosed(t, flags, res)
       \/ \E res \in Outcomes : OutMissTcp(t, flags, res)
       \/ UnwrapFailsOut(t, flags)

Next ==
  \/ \E t \in Threads, dir \in Dirs, f \in Flows : Arrive(t, dir, f)
  \/ \E t \in Threads : Process(t)
  \/ \E what \in {"adding", "setting"} : Announce(what)
  \/ \E dir \in Dirs, flows \in SUBSET Flows : AddRule(dir, flows)
  \/ \E rules \in [Dirs -> SUBSET Flows] : SetRules(rules)
  \/ \E dir \in Dirs, flows \in SUBSET Flows : RemoveRule(dir, flows)
  \/ RuleRemoved
  \/ Pause \/ Start \/ Reset \/ ClearUft
  \/ Expire

Spec == Init /\ [][Next]_vars

-----------------------------------------------------------------------------
(* The port's state has its type.                                          *)
TypeOK ==
  /\ state \in PortStates
  /\ epoch \in Epochs
  /\ lock \in Changes \cup {None}
  /\ allow \in [Dirs -> SUBSET Flows]
  /\ lft \in SUBSET Flows
  /\ uftOut \in [Flows -> OutEntry \cup {None}]
  /\ uftIn \in [Keys -> Epochs \cup {None}]
  /\ tcp \in [Flows -> TcpEntry \cup {None}]
  /\ panicked \in BOOLEAN
  /\ pkt \in [Threads -> Packet \cup {None}]
  /\ accepted \in SUBSET (Dirs \X Flows)

(* No packet gets past the firewall by way of a stale UFT entry: when a    *)
(* packet passes, the firewall accepted its flow in its direction by rules *)
(* that were in force at some time between the packet's arrival and its    *)
(* passing, or by a flow entry it had under those rules.                   *)
FirewallHolds ==
  \A t \in Threads : HasPassed(t) => pkt[t].ok

(* A TCP flow with a UFT entry in either direction is tracked: closing the *)
(* connection retires both entries, so no packet takes an entry of a flow  *)
(* that is gone.                                                           *)
UftIsTracked ==
  \A f \in TcpFlows :
    uftOut[f] # None \/ uftIn[NetKey(f)] # None => tcp[f] # None

(* "A Ready port has no flow state": however it got there.                 *)
ReadyHasNoFlows ==
  state = "Ready" =>
    /\ lft = {}
    /\ Live(uftOut) = {} /\ Live(uftIn) = {} /\ Live(tcp) = {}

(* A paused port keeps its rules and its flow state as they are, whatever  *)
(* calls are made on it, and lets no packet pass.                          *)
PausedIsFrozen ==
  [][state = "Paused" /\ state' = "Paused" =>
       /\ UNCHANGED <<epoch, allow, tables>>
       /\ \A t \in Threads : ~(UnderWay(t) /\ HasPassed(t)')]_vars
=============================================================================

------------------------------ MODULE NatLayer ------------------------------
(***************************************************************************)
(* The NAT layer of a VPC port: the layer's flow table together with the   *)
(* pool of public ports source NAT draws from                              *)
(* (oxide-vpc/src/engine/nat.rs, opte/src/engine/{layer,nat,snat}.rs).     *)
(*                                                                         *)
(* The guest has one private address (the gateway layer lets no other out) *)
(* so an outbound flow is a remote endpoint and a private port.  ICMP has  *)
(* no ports: its flow id carries zero for both, here NoPort.  An inbound   *)
(* flow is a remote endpoint, the public address it was sent to ("snat" or *)
(* the external address "ext" of 1:1 NAT) and the public port.             *)
(*                                                                         *)
(* A descriptor that owns a public port gives it back when its last        *)
(* reference is dropped (impl Drop for SNatDesc, SNatIcmpEchoDesc), that   *)
(* is, when neither table holds it any more.                               *)
(***************************************************************************)
EXTENDS LayerFlowTable

CONSTANTS
  Remotes,      \* endpoints outside the VPC
  PrivPorts,    \* ports, and ICMP echo identifiers, the guest uses
  PubPorts,     \* ports of the pool (SNatCfg.ports)
  NoPort        \* the zero port of an ICMP flow id

ASSUME PortsAssumption == NoPort \notin PrivPorts \cup PubPorts

VARIABLES
  externalIp,   \* is a 1:1 NAT address configured (Ipv4Cfg.external_ips)?
  free,         \* port -> how often it is in PortList.free_ports
  idents        \* ghost: echo identifiers that went out through the entry

vars == <<ftOut, ftIn, count, statFlows, externalIp, free, idents>>

OutFlow == [remote : Remotes, port : PrivPorts \cup {NoPort}]
InFlow == [remote : Remotes, addr : {"snat", "ext"},
           port : PrivPorts \cup PubPorts \cup {NoPort}]

(* `nat` is the public port the descriptor owns, `priv` the private port   *)
(* or echo identifier it restores.                                         *)
Desc == [addr : {"snat", "ext"}, nat : PubPorts \cup {NoPort},
         priv : PrivPorts \cup {NoPort}]

OutEntry == [pair : InFlow, desc : Desc, age : 0..Ttl]

ASSUME NoEntryAssumption == NoEntry \notin OutEntry /\ NoEntry \notin Desc

-----------------------------------------------------------------------------
(* NatDesc: 1:1 NAT rewrites the address only.                             *)
OneToOne == [addr |-> "ext", nat |-> NoPort, priv |-> NoPort]

(* SNatDesc and SNatIcmpEchoDesc: what gen_desc() makes of a pool entry    *)
(* for a flow with this private port or echo identifier.                   *)
SNatDesc(p, priv) == [addr |-> "snat", nat |-> p, priv |-> priv]

(* The flow after gen_ht(Out), mirrored: how replies to it arrive.         *)
Translate(d, f) ==
  [remote |-> f.remote,
   addr |-> d.addr,
   port |-> IF d.addr = "snat" /\ f.port # NoPort THEN d.nat ELSE f.port]

(* Mutant: the public port is left in place.                               *)
RestoreNothing(d, g) == [remote |-> g.remote, port |-> g.port]

(* The flow after gen_ht(In), mirrored: the guest's flow a packet that     *)
(* arrives on g belongs to.                                                *)
Restore(d, g) ==
  [remote |-> g.remote,
   port |-> IF d.addr = "snat" /\ g.port # NoPort THEN d.priv ELSE g.port]

(* Ports some descriptor in either table owns.                             *)
Held(in, out) ==
  {p \in PubPorts :
     \/ \E g \in InFlow : in[g] # NoEntry /\ in[g].nat = p
     \/ \E f \in OutFlow : out[f] # NoEntry /\ out[f].desc.nat = p}

(* Mutant: each of the two table entries gives the port back.              *)
ReleaseTwice ==
  free' = [p \in PubPorts |->
             IF p \in Held(ftIn, ftOut) \ Held(ftIn', ftOut')
             THEN free[p] + 2 ELSE free[p]]

(* NatPool::release for the descriptors that were dropped in this step.    *)
ReleaseDropped ==
  free' = [p \in PubPorts |->
             IF p \in Held(ftIn, ftOut) \ Held(ftIn', ftOut')
             THEN free[p] + 1 ELSE free[p]]

(* Mutant: a port is handed out whether or not the list has it.            *)
ObtainUnchecked(p) == free' = [free EXCEPT ![p] = @ - 1]

(* NatPool::obtain.  Which free port comes off the list is left open.      *)
Obtain(p) ==
  /\ free[p] > 0
  /\ free' = [free EXCEPT ![p] = @ - 1]

-----------------------------------------------------------------------------
(* The configuration of a port is fixed when the port is made.             *)
Init ==
  /\ externalIp \in BOOLEAN
  /\ ftOut = [f \in OutFlow |-> NoEntry]
  /\ ftIn = [g \in InFlow |-> NoEntry]
  /\ count = 0
  /\ statFlows = 0
  /\ free = [p \in PubPorts |-> 1]
  /\ idents = [f \in OutFlow |-> {}]

(* An ICMP flow carries an echo identifier, any other flow its own port.   *)
PrivOf(f, ident) == IF f.port = NoPort THEN ident ELSE f.port

(* process_out: the flow has an entry, and the packet leaves translated by *)
(* its descriptor.                                                         *)
OutHit(f, ident) ==
  /\ HitOut(f)
  /\ idents' = [idents EXCEPT ![f] = @ \cup {PrivOf(f, ident)}]
  /\ UNCHANGED <<externalIp, free>>

(* The same for an ICMP packet that is no echo: gen_ht() is applied, the   *)
(* body transformation fails and the packet is lost, but the hit counts.   *)
OutHitNotEcho(f) ==
  /\ f.port = NoPort
  /\ HitOut(f)
  /\ ftOut[f].desc.addr = "snat"
  /\ UNCHANGED <<externalIp, free, idents>>

(* process_out_rules, 1:1 NAT: preferred whenever it is configured.        *)
OutOneToOne(f, ident) ==
  /\ externalIp
  /\ f \notin OutKeys
  /\ ~IsFull
  /\ AddPair(OneToOne, Translate(OneToOne, f), f)
  /\ idents' = [idents EXCEPT ![f] = {PrivOf(f, ident)}]
  /\ UNCHANGED <<externalIp, free>>

(* process_out_rules, source NAT of a new flow (SNat::gen_desc).           *)
OutSNat(f, ident, p) ==
  /\ ~externalIp
  /\ f \notin OutKeys
  /\ ~IsFull
  /\ Obtain(p)
  /\ LET d == SNatDesc(p, PrivOf(f, ident))
     IN AddPair(d, Translate(d, f), f)
  /\ idents' = [idents EXCEPT ![f] = {PrivOf(f, ident)}]
  /\ UNCHANGED externalIp

(* process_out_rules, source NAT of an ICMP packet that is no echo         *)
(* request: gen_icmp_desc() returns an error, and the port that was        *)
(* obtained for it (a Copy value without a Drop) is never given back.      *)
OutSNatNotEcho(f, p) ==
  /\ ~externalIp
  /\ f.port = NoPort
  /\ f \notin OutKeys
  /\ ~IsFull
  /\ Obtain(p)
  /\ UNCHANGED <<ftOut, ftIn, count, statFlows, externalIp, idents>>

(* process_in_rules: a packet for the external address without an entry.   *)
(* Any other packet that misses passes through and leaves no state.        *)
InOneToOne(g) ==
  /\ externalIp
  /\ g.addr = "ext" /\ g.port \in PrivPorts \cup {NoPort}
  /\ g \notin InKeys
  /\ ~IsFull
  /\ AddPair(OneToOne, g, Restore(OneToOne, g))
  /\ UNCHANGED <<externalIp, free, idents>>

(* Entries that are gone have carried nothing.                             *)
ForgetIdents ==
  idents' = [f \in OutFlow |-> IF ftOut'[f] = NoEntry THEN {} ELSE idents[f]]

(* Layer::expire_flows, from Port::expire_flows.                           *)
Expire == ExpireFlows /\ ReleaseDropped /\ ForgetIdents /\ UNCHANGED externalIp

(* Layer::clear_flows, from Port::reset.                                   *)
Clear == ClearFlows /\ ReleaseDropped /\ ForgetIdents /\ UNCHANGED externalIp

(* Time passes.                                                            *)
Age == Tick /\ UNCHANGED <<externalIp, free, idents>>

Next ==
  \/ \E f \in OutFlow, i \in PrivPorts : OutHit(f, i)
  \/ \E f \in OutFlow : OutHitNotEcho(f)
  \/ \E f \in OutFlow, i \in PrivPorts : OutOneToOne(f, i)
  \/ \E f \in OutFlow, i \in PrivPorts, p \in PubPorts : OutSNat(f, i, p)
  \/ \E f \in OutFlow, p \in PubPorts : OutSNatNotEcho(f, p)
  \/ \E g \in InFlow : InOneToOne(g)
  \/ Expire
  \/ Clear
  \/ Age

Spec == Init /\ [][Next]_vars

(* xde runs Port::expire_flows from a kernel periodic, and time passes.    *)
FairSpec == Spec /\ WF_vars(Expire) /\ WF_vars(Age)

-----------------------------------------------------------------------------
(* The NAT layer's state has its type.                                     *)
TypeOK ==
  /\ ftOut \in [OutFlow -> OutEntry \cup {NoEntry}]
  /\ ftIn \in [InFlow -> Desc \cup {NoEntry}]
  /\ count \in Nat
  /\ statFlows \in Nat
  /\ externalIp \in BOOLEAN
  /\ free \in [PubPorts -> Nat]
  /\ idents \in [OutFlow -> SUBSET PrivPorts]

(* A public port is on the free list at most once, is not on it while a    *)
(* flow owns it, and has one owner: no two flows of the guest leave with   *)
(* the same public port, however ports are obtained, dropped and reused.   *)
PortsAreExclusive ==
  /\ \A p \in PubPorts : free[p] \in {0, 1}
  /\ \A f \in OutKeys : ftOut[f].desc.nat # NoPort => free[ftOut[f].desc.nat] = 0
  /\ \A f, h \in OutKeys :
       ftOut[f].desc.nat = ftOut[h].desc.nat /\ ftOut[f].desc.nat # NoPort => f = h

(* Replies find their way back: a packet that arrives on the inbound flow  *)
(* of a pair is handed to the guest as the outbound flow of that pair, the *)
(* ports and addresses restored.                                           *)
RoundTrip ==
  \A f \in OutKeys :
    LET g == ftOut[f].pair
    IN ftIn[g] # NoEntry /\ Restore(ftIn[g], g) = f

(* "Perform SNAT for ICMP Echo/Reply messages, treating the Identifier as  *)
(* a source port": every echo reply gets the identifier of the request it  *)
(* answers back.                                                           *)
EchoIdentRestored ==
  \A f \in OutKeys :
    ftOut[f].desc.addr = "snat" => idents[f] \subseteq {ftOut[f].desc.priv}

(* A flow whose entry reached its TTL is removed, or sent again before     *)
(* that: idle flows do not hold table entries and ports for ever.          *)
IdleFlowsExpire ==
  \A f \in OutFlow :
    (f \in OutKeys /\ ftOut[f].age = Ttl)
      ~> (f \notin OutKeys \/ ftOut[f].age = 0)
=============================================================================

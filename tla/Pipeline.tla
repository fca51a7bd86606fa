------------------------------ MODULE Pipeline ------------------------------
(***************************************************************************)
(* The layers of one VPC port under its unified flow table                 *)
(* (opte/src/engine/{port,layer}.rs, oxide-vpc/src/engine/*.rs).           *)
(*                                                                         *)
(* An outbound packet meets gateway, firewall, router, NAT and overlay, an *)
(* inbound one the same layers in reverse.  Each of firewall and NAT has a *)
(* flow table of its own (two instances of LayerFlowTable), and the UFT    *)
(* remembers what all of them together did, so that a packet that hits it  *)
(* is seen by none of them.  The subject here is how these tables, which   *)
(* age and are emptied separately, stay in step: what a layer keeps of a   *)
(* packet that a later one drops, what expires under a UFT entry, what a   *)
(* change of rules leaves behind.                                          *)
(*                                                                         *)
(* Port has the parts that are left out here: the race of a packet with    *)
(* the epoch, TCP tracking, and full UFTs (which here are large enough).   *)
(* Rule changes and packets are steps of the port's lock.  Packets without *)
(* a flow id and 1:1 NAT are left out (see NatLayer).                      *)
(***************************************************************************)
EXTENDS Naturals, FiniteSets

CONSTANTS
  NoEntry,      \* what a key without an entry maps to
  Flows,        \* flows of the guest: a private port each
  Remote,       \* flow -> the endpoint it talks to
  PubPorts,     \* the ports of the SNAT pool
  FwLimit,      \* room in the firewall's flow table
  NatLimit,     \* room in the NAT layer's flow table
  Ttl           \* TTL of every flow table, in ticks

ASSUME PipelineAssumption ==
  /\ Flows \cap PubPorts = {}
  /\ FwLimit \in Nat \ {0} /\ NatLimit \in Nat \ {0} /\ Ttl \in Nat \ {0}

VARIABLES
  allow,                   \* does a firewall rule let inbound packets in?
  fwOut, fwIn, fwCount,    \* the firewall's flow table
  route,                   \* remote -> the router's target
  natOut, natIn, natCount, \* the NAT layer's flow table
  free,                    \* PortList.free_ports
  uftOut, uftIn,           \* the unified flow tables
  cut,                     \* ghost: flows with a NAT entry whose firewall
                           \* state was cleared since the layers last let
                           \* them out
  quiet                    \* neither packets nor requests come any more

fwVars == <<fwOut, fwIn, fwCount>>
natVars == <<natOut, natIn, natCount, free>>
uftVars == <<uftOut, uftIn>>
cfgVars == <<allow, route>>
vars == <<cfgVars, fwVars, natVars, uftVars, cut, quiet>>

(* InnerFlowId of an inbound packet, mirrored: the remote, and the port on *)
(* this side.  A private port stands for the guest's address as well, a    *)
(* public port for the address of the pool.                                *)
Remotes == {Remote[f] : f \in Flows}
FlowId == [remote : Remotes, port : Flows \cup PubPorts]

Key(f) == [remote |-> Remote[f], port |-> f]

(* The flow table of a layer without its statistic, which follows the      *)
(* counter here.                                                           *)
FW == INSTANCE LayerFlowTable
  WITH ftOut <- fwOut, ftIn <- fwIn, count <- fwCount, statFlows <- fwCount,
       Limit <- FwLimit

NAT == INSTANCE LayerFlowTable
  WITH ftOut <- natOut, ftIn <- natIn, count <- natCount,
       statFlows <- natCount, Limit <- NatLimit

(* What the two tables hold: the firewall's entries do nothing to a        *)
(* packet, those of the NAT layer own a port of the pool.                  *)
FwEntry == [pair : FlowId, desc : {"NoOp"}, age : 0..Ttl]
SNatDesc == [port : PubPorts, priv : Flows]
NatEntry == [pair : FlowId, desc : SNatDesc, age : 0..Ttl]

ASSUME NoEntryAssumption ==
  NoEntry \notin {"NoOp"} \cup SNatDesc \cup FwEntry \cup NatEntry

Targets == {"ig", "vpc", "drop"}

Init ==
  /\ allow = FALSE
  /\ fwOut = [k \in FlowId |-> NoEntry] /\ fwIn = fwOut /\ fwCount = 0
  /\ route = [r \in Remotes |-> "drop"]
  /\ natOut = [k \in FlowId |-> NoEntry] /\ natIn = natOut /\ natCount = 0
  /\ free = PubPorts
  /\ uftOut = [k \in FlowId |-> NoEntry] /\ uftIn = uftOut
  /\ cut = {}
  /\ quiet = FALSE

-----------------------------------------------------------------------------
(* UFT entries.  `current` says whether the entry has the port's epoch.    *)
Hits(uft, k) == uft[k] # NoEntry /\ uft[k].current

NewUftOut(net) == [net |-> net, pair |-> NoEntry, current |-> TRUE, age |-> 0]
NewUftIn(k) == [flow |-> k, current |-> TRUE, age |-> 0]

(* uft_invalidate() of a packet's own entry, if it is out of date, and of  *)
(* the entry it is paired with: the tables as process_*_miss() finds them. *)
OutAfterOut(k) == [uftOut EXCEPT ![k] = NoEntry]
InAfterOut(k) ==
  [n \in FlowId |->
     IF uftOut[k] # NoEntry /\ uftOut[k].pair = n THEN NoEntry ELSE uftIn[n]]
OutAfterIn(n) ==
  [k \in FlowId |->
     IF uftIn[n] # NoEntry /\ uftIn[n].flow = k THEN NoEntry ELSE uftOut[k]]
InAfterIn(n) == [uftIn EXCEPT ![n] = NoEntry]

(* The port's epoch moves on: no entry has it any more.                    *)
Outdated(uft) ==
  [k \in FlowId |->
     IF uft[k] = NoEntry THEN NoEntry ELSE [uft[k] EXCEPT !.current = FALSE]]
BumpEpoch == uftOut' = Outdated(uftOut) /\ uftIn' = Outdated(uftIn)

-----------------------------------------------------------------------------
(* The firewall, outbound.                                                 *)
FwOutPasses(k) ==
  \/ FW!HitOut(k)
  \/ /\ k \notin FW!OutKeys /\ ~FW!IsFull
     /\ FW!AddPair("NoOp", k, k)

FwOutDrops(k) ==
  /\ k \notin FW!OutKeys /\ FW!IsFull
  /\ UNCHANGED fwVars

(* The NAT layer, outbound: an entry is used whatever the router said;     *)
(* without one, source NAT is for what goes to the internet gateway.       *)
NatOutPasses(f) ==
  LET k == Key(f)
  IN \/ NAT!HitOut(k) /\ UNCHANGED free
     \/ /\ k \notin NAT!OutKeys /\ route[Remote[f]] = "ig" /\ ~NAT!IsFull
        /\ \E p \in free :
             /\ NAT!AddPair([port |-> p, priv |-> f],
                            [remote |-> k.remote, port |-> p], k)
             /\ free' = free \ {p}
     \/ k \notin NAT!OutKeys /\ route[Remote[f]] # "ig" /\ UNCHANGED natVars

NatOutDrops(f) ==
  /\ Key(f) \notin NAT!OutKeys /\ route[Remote[f]] = "ig"
  /\ NAT!IsFull \/ free = {}
  /\ UNCHANGED natVars

(* layers_process(Out): every layer before the one that drops the packet   *)
(* has done its work.  The overlay may lack a mapping for what goes to the *)
(* VPC; mappings come and go without the port being told.                  *)
OutLayers(f) ==
  LET k == Key(f)
      Dropped == /\ uftOut' = OutAfterOut(k) /\ uftIn' = InAfterOut(k)
                 /\ UNCHANGED cut
  IN \/ FwOutDrops(k) /\ UNCHANGED natVars /\ Dropped
     \/ FwOutPasses(k) /\ route[Remote[f]] = "drop" /\ UNCHANGED natVars /\ Dropped
     \/ FwOutPasses(k) /\ route[Remote[f]] # "drop" /\ NatOutDrops(f) /\ Dropped
     \/ /\ FwOutPasses(k) /\ route[Remote[f]] # "drop" /\ NatOutPasses(f)
        /\ route[Remote[f]] = "vpc" /\ Dropped
     \/ /\ FwOutPasses(k) /\ route[Remote[f]] # "drop" /\ NatOutPasses(f)
        /\ uftOut' = [OutAfterOut(k) EXCEPT ![k] = NewUftOut(
             IF natOut'[k] # NoEntry THEN natOut'[k].pair ELSE k)]
        /\ uftIn' = InAfterOut(k)
        /\ cut' = cut \ {f}

(* process_out(): the compiled entry is used, and renewed; or the layers   *)
(* decide.                                                                 *)
Out(f) ==
  /\ \/ /\ Hits(uftOut, Key(f))
        /\ uftOut' = [uftOut EXCEPT ![Key(f)].age = 0]
        /\ UNCHANGED <<fwVars, natVars, uftIn, cut>>
     \/ ~Hits(uftOut, Key(f)) /\ OutLayers(f)
  /\ UNCHANGED cfgVars

(* The flow the guest would see after the NAT layer, inbound.              *)
Restored(n) ==
  IF natIn[n] # NoEntry
  THEN [remote |-> n.remote, port |-> natIn[n].priv] ELSE n

(* The firewall, inbound.                                                  *)
FwInPasses(k) ==
  \/ k \in FW!InKeys /\ UNCHANGED fwVars
  \/ /\ k \notin FW!InKeys /\ allow /\ ~FW!IsFull
     /\ FW!AddPair("NoOp", k, k)

FwInDrops(k) ==
  /\ k \notin FW!InKeys
  /\ ~allow \/ FW!IsFull
  /\ UNCHANGED fwVars

(* The gateway layer lets in what has the guest's address.                 *)
GatewayPasses(k) == k.port \in Flows

(* layers_process(In), and the UFT entry of what is let in: an outbound    *)
(* entry of the same flow, of whatever epoch, is paired with it.           *)
InLayers(n) ==
  LET k == Restored(n)
  IN \/ /\ FwInDrops(k) \/ (FwInPasses(k) /\ ~GatewayPasses(k))
        /\ uftOut' = OutAfterIn(n) /\ uftIn' = InAfterIn(n)
     \/ /\ FwInPasses(k) /\ GatewayPasses(k)
        /\ uftOut' = [OutAfterIn(n) EXCEPT ![k] =
                        IF @ = NoEntry THEN NoEntry
                        ELSE [pair |-> n, net |-> @.net, current |-> @.current,
                              age |-> @.age]]
        /\ uftIn' = [uftIn EXCEPT ![n] = NewUftIn(k)]

(* process_in().                                                           *)
In(n) ==
  /\ \/ /\ Hits(uftIn, n)
        /\ uftIn' = [uftIn EXCEPT ![n].age = 0]
        /\ UNCHANGED <<fwVars, uftOut>>
     \/ ~Hits(uftIn, n) /\ InLayers(n)
  /\ UNCHANGED <<cfgVars, natVars, cut>>

-----------------------------------------------------------------------------
(* Flows the NAT layer has an entry for.                                   *)
NatFlows == {f \in Flows : natOut[Key(f)] # NoEntry}

(* Mutant: add_rule() clears the firewall's flows like set_rules().        *)
ChangeFwRulesClears ==
  /\ allow' = ~allow
  /\ FW!ClearTables
  /\ BumpEpoch
  /\ UNCHANGED <<route, natVars, cut>>

(* Port::add_rule and Port::remove_rule on the firewall layer.             *)
ChangeFwRules ==
  /\ allow' = ~allow
  /\ BumpEpoch
  /\ UNCHANGED <<route, fwVars, natVars, cut>>

(* Port::set_rules on the firewall layer: its flows go with the rules.     *)
SetFwRules(new) ==
  /\ allow' = new
  /\ FW!ClearTables
  /\ cut' = NatFlows
  /\ BumpEpoch
  /\ UNCHANGED <<route, natVars>>

(* add_entry() and del_entry() of the router.                              *)
SetRoute(r, t) ==
  /\ route[r] # t
  /\ route' = [route EXCEPT ![r] = t]
  /\ BumpEpoch
  /\ UNCHANGED <<allow, fwVars, natVars, cut>>

(* Port::clear_uft.                                                        *)
ClearUft ==
  /\ uftOut' = [k \in FlowId |-> NoEntry] /\ uftIn' = [k \in FlowId |-> NoEntry]
  /\ UNCHANGED <<cfgVars, fwVars, natVars, cut>>

(* Ports held by descriptors of the NAT layer.                             *)
Held(out) == {out[k].desc.port : k \in {j \in FlowId : out[j] # NoEntry}}

(* Mutant: descriptors are leaked with their ports.                        *)
KeepPorts == free' = free

(* Drop of the descriptors that left the NAT layer's tables.               *)
ReleaseDropped == free' = free \cup (Held(natOut) \ Held(natOut'))

(* Port::reset, and the start that follows: all flow state goes.           *)
Reset ==
  /\ FW!ClearTables /\ NAT!ClearTables /\ ReleaseDropped
  /\ uftOut' = [k \in FlowId |-> NoEntry] /\ uftIn' = [k \in FlowId |-> NoEntry]
  /\ cut' = {}
  /\ UNCHANGED cfgVars

Aged(uft) ==
  [k \in FlowId |->
     IF uft[k] # NoEntry /\ uft[k].age < Ttl
     THEN [uft[k] EXCEPT !.age = @ + 1] ELSE uft[k]]

Unexpired(uft) ==
  [k \in FlowId |->
     IF uft[k] # NoEntry /\ uft[k].age >= Ttl THEN NoEntry ELSE uft[k]]

(* Mutant: the layers' tables are not expired.                             *)
ExpireUftOnly ==
  /\ uftOut' = Unexpired(uftOut) /\ uftIn' = Unexpired(uftIn)
  /\ UNCHANGED <<cfgVars, fwVars, natVars, cut>>

(* Port::expire_flows: every layer, then the two UFTs.                     *)
Expire ==
  /\ FW!ExpireFlows /\ NAT!ExpireFlows /\ ReleaseDropped
  /\ uftOut' = Unexpired(uftOut) /\ uftIn' = Unexpired(uftIn)
  /\ cut' = {f \in cut : natOut'[Key(f)] # NoEntry}
  /\ UNCHANGED cfgVars

(* Time passes.                                                            *)
Age ==
  /\ FW!Tick /\ NAT!Tick
  /\ uftOut' = Aged(uftOut) /\ uftIn' = Aged(uftIn)
  /\ UNCHANGED <<cfgVars, free, cut>>

Packet == (\E f \in Flows : Out(f)) \/ (\E n \in FlowId : In(n))

Request ==
  \/ ChangeFwRules
  \/ \E new \in BOOLEAN : SetFwRules(new)
  \/ \E r \in Remotes, t \in Targets : SetRoute(r, t)
  \/ ClearUft
  \/ Reset

(* Guest, network and control plane may fall silent at any time.           *)
Quiesce == ~quiet /\ quiet' = TRUE /\ UNCHANGED <<cfgVars, fwVars, natVars, uftVars, cut>>

Next ==
  \/ ~quiet /\ Packet /\ UNCHANGED quiet
  \/ ~quiet /\ Request /\ UNCHANGED quiet
  \/ Expire /\ UNCHANGED quiet
  \/ Age /\ UNCHANGED quiet
  \/ Quiesce

Spec == Init /\ [][Next]_vars

(* Expiry is run from a kernel periodic for as long as the port lives.     *)
FairSpec == Spec /\ WF_vars(Expire /\ UNCHANGED quiet) /\ WF_vars(Age /\ UNCHANGED quiet)

-----------------------------------------------------------------------------
(* Where an inbound packet gets to by way of the layers' flow tables.      *)
Admitted(n) == Restored(n) \in FW!InKeys /\ GatewayPasses(Restored(n))

(* Replies get through the layers: while the NAT layer keeps a public port *)
(* for a flow, what arrives there is let in by the firewall and reaches    *)
(* that flow, although the two tables expire on their own and are emptied  *)
(* at different times (set_rules() on the firewall cuts open flows off).   *)
RepliesPass ==
  \A f \in Flows \ cut :
    natOut[Key(f)] # NoEntry =>
      /\ Restored(natOut[Key(f)].pair) = Key(f)
      /\ Admitted(natOut[Key(f)].pair)

(* No port is lost, and none is in the pool and held at once, whichever    *)
(* layer drops the packet a port was taken for and whenever its flow ends. *)
PortsAccounted ==
  /\ free \cup Held(natOut) = PubPorts
  /\ free \cap Held(natOut) = {}
  /\ Cardinality(Held(natOut)) = Cardinality(NAT!OutKeys)

Empty(table) == \A k \in FlowId : table[k] = NoEntry

(* When the traffic stops, all that was kept for it goes in the end, also  *)
(* what the earlier layers kept of packets that a later one dropped and    *)
(* what the UFT kept of a mapping that is out of date, and all ports are   *)
(* free again.                                                             *)
QuietPortDrains ==
  quiet ~> /\ Empty(fwOut) /\ Empty(fwIn) /\ Empty(natOut) /\ Empty(natIn)
           /\ Empty(uftOut) /\ Empty(uftIn) /\ free = PubPorts

(* "When a flow is inactive for longer than the TTL, it is considered      *)
(* expired": a flow whose packets leave with a public port has the entry   *)
(* that owns the port.                                                     *)
ActiveFlowIsKept ==
  \A f \in Flows :
    Hits(uftOut, Key(f)) /\ uftOut[Key(f)].net.port \in PubPorts =>
      natOut[Key(f)] # NoEntry
=============================================================================

---------------------------- MODULE FirewallLayer ----------------------------
(***************************************************************************)
(* The firewall layer of a VPC port: rules and the layer's flow table      *)
(* (oxide-vpc/src/engine/firewall.rs, opte/src/engine/layer.rs).           *)
(*                                                                         *)
(* Every rule either denies or allows statefully, and the defaults deny    *)
(* what comes in and allow what goes out, so the rules amount to the flows *)
(* they let through in each direction.  The firewall changes no headers:   *)
(* the key of a flow in ftIn mirrors its key in ftOut, here the same name. *)
(* Packets without IP, which only reach the firewall of a port with proxy  *)
(* ARP, have no flow of their own and are left out.                        *)
(***************************************************************************)
EXTENDS LayerFlowTable

CONSTANTS
  Flows,        \* flows of the guest
  MaxStat       \* bound on the flows statistic, which set_rules() lets grow

ASSUME MaxStatAssumption == MaxStat \in Nat

VARIABLES
  allow,        \* direction -> flows its rules and its default let through
  last          \* what became of the last packet

fwVars == <<ftVars, allow, last>>

Dirs == {"in", "out"}
FwEntry == [pair : Flows, desc : {"NoOp"}, age : 0..Ttl]
Verdict == [dir : Dirs, flow : Flows, res : {"pass", "deny", "full"}]

ASSUME FwEntryAssumption == NoEntry \notin FwEntry \cup {"NoOp"}

FwInit ==
  /\ ftOut = [f \in Flows |-> NoEntry]
  /\ ftIn = [f \in Flows |-> NoEntry]
  /\ count = 0
  /\ statFlows = 0
  /\ allow = [d \in Dirs |-> IF d = "in" THEN {} ELSE Flows]
  /\ last \in Verdict

Says(dir, f, res) == last' = [dir |-> dir, flow |-> f, res |-> res]

(* Has the flow an entry, on the side the packet comes from?               *)
Hits(dir, f) == f \in IF dir = "in" THEN InKeys ELSE OutKeys

-----------------------------------------------------------------------------
(* process_in, process_out: the flow has an entry.  Only a hit on the      *)
(* outbound side counts when flows expire.                                 *)
FwInHit(f) ==
  /\ Hits("in", f)
  /\ Says("in", f, "pass")
  /\ UNCHANGED <<ftVars, allow>>

FwOutHit(f) ==
  /\ Hits("out", f)
  /\ HitOut(f)
  /\ Says("out", f, "pass")
  /\ UNCHANGED allow

(* process_in_rules, process_out_rules: StatefulAllow, by a rule or by the *)
(* default.                                                                *)
Accept(dir, f) ==
  /\ ~Hits(dir, f) /\ f \in allow[dir]
  /\ ~IsFull /\ statFlows < MaxStat
  /\ AddPair("NoOp", f, f)
  /\ Says(dir, f, "pass")
  /\ UNCHANGED allow

(* FlowTableFull.                                                          *)
RefuseFull(dir, f) ==
  /\ ~Hits(dir, f) /\ f \in allow[dir]
  /\ IsFull
  /\ Says(dir, f, "full")
  /\ UNCHANGED <<ftVars, allow>>

(* Deny, by a rule or by the default.                                      *)
Deny(dir, f) ==
  /\ ~Hits(dir, f) /\ f \notin allow[dir]
  /\ Says(dir, f, "deny")
  /\ UNCHANGED <<ftVars, allow>>

(* Layer::add_rule and Layer::remove_rule: the flow table stays.           *)
ChangeRules(dir, flows) ==
  /\ allow' = [allow EXCEPT ![dir] = flows]
  /\ UNCHANGED <<ftVars, last>>

(* Mutant: flows survive their rules.                                      *)
SetRulesKeepFlows(new) ==
  /\ allow' = new
  /\ UNCHANGED <<ftVars, last>>

(* Layer::set_rules: the flow table is cleared, its statistic is not.      *)
SetRules(new) ==
  /\ allow' = new
  /\ ClearTables
  /\ UNCHANGED <<statFlows, last>>

(* Layer::expire_flows, Layer::clear_flows, and time.                      *)
FwExpire == ExpireFlows /\ UNCHANGED <<allow, last>>
FwClear == ClearFlows /\ UNCHANGED <<allow, last>>
FwAge == Tick /\ UNCHANGED <<allow, last>>

FwNext ==
  \/ \E f \in Flows : FwInHit(f) \/ FwOutHit(f)
  \/ \E dir \in Dirs, f \in Flows :
       Accept(dir, f) \/ RefuseFull(dir, f) \/ Deny(dir, f)
  \/ \E dir \in Dirs, flows \in SUBSET Flows : ChangeRules(dir, flows)
  \/ \E new \in [Dirs -> SUBSET Flows] : SetRules(new)
  \/ FwExpire \/ FwClear \/ FwAge

FwSpec == FwInit /\ [][FwNext]_fwVars

-----------------------------------------------------------------------------
(* The firewall's state has its type.                                      *)
FwTypeOK ==
  /\ ftOut \in [Flows -> FwEntry \cup {NoEntry}]
  /\ ftIn \in [Flows -> {"NoOp", NoEntry}]
  /\ count \in 0..Limit
  /\ statFlows \in 0..MaxStat
  /\ allow \in [Dirs -> SUBSET Flows]
  /\ last \in Verdict

(* The firewall is a stateful filter: its open flows are those that have   *)
(* an outbound entry.                                                      *)
Filter == INSTANCE StatefulFilter
  WITH Capacity <- Limit,
       rules <- allow, open <- OutKeys, verdict <- last

(* A packet passes the firewall if its flow is open or the rules then in   *)
(* force let it through, in both directions alike, and set_rules() closes  *)
(* every flow the old rules opened.                                        *)
FilterSpec == Filter!Spec
=============================================================================

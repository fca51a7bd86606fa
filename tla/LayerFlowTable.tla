--------------------------- MODULE LayerFlowTable ---------------------------
(***************************************************************************)
(* The flow table of an OPTE layer                                         *)
(* (opte/src/engine/layer.rs, struct LayerFlowTable).                      *)
(*                                                                         *)
(* A flow that a stateful rule accepted owns a pair of entries: ftOut is   *)
(* keyed by the flow as the guest sees it, ftIn by the flow as the network *)
(* sees it.  Both carry the action descriptor, and the outbound entry      *)
(* remembers the key of its partner.  The table enforces its limit with a  *)
(* counter of its own.  This module holds the table and its operations;    *)
(* the layers that use it (NatLayer, FirewallLayer) extend it.             *)
(*                                                                         *)
(* A BTreeMap is a function from every flow to an entry or to NoEntry.     *)
(* last_hit is an age in ticks that stops growing at the TTL; only the     *)
(* outbound entry has one, since the inbound one is never read.            *)
(***************************************************************************)
EXTENDS Naturals, FiniteSets

CONSTANTS
  NoEntry,      \* what a key without an entry maps to
  Limit,        \* LayerFlowTable.limit (NonZeroU32)
  Ttl           \* flow TTL in ticks

ASSUME NonZeroAssumption == Limit \in Nat \ {0} /\ Ttl \in Nat \ {0}

VARIABLES
  ftOut,        \* outbound flow -> [pair, desc, age] or NoEntry
  ftIn,         \* inbound flow -> desc or NoEntry
  count,        \* LayerFlowTable.count
  statFlows     \* LayerStats.flows

ftVars == <<ftOut, ftIn, count, statFlows>>

OutKeys == {f \in DOMAIN ftOut : ftOut[f] # NoEntry}
InKeys == {g \in DOMAIN ftIn : ftIn[g] # NoEntry}

-----------------------------------------------------------------------------
(* FlowEntry::is_expired: `now - last_hit >= ttl`.                         *)
IsExpiredLate(e) == e.age > Ttl     \* Mutant: strictly older than the TTL.
IsExpired(e) == e.age >= Ttl

(* The test both stateful actions make before they add a pair.             *)
IsFull == count = Limit

(* Mutant: the counter is not incremented.                                 *)
AddPairUncounted(desc, inFlow, outFlow) ==
  /\ ftIn' = [ftIn EXCEPT ![inFlow] = desc]
  /\ ftOut' = [ftOut EXCEPT ![outFlow] =
                 [pair |-> inFlow, desc |-> desc, age |-> 0]]
  /\ count' = count
  /\ statFlows' = statFlows + 1

(* add_pair(), and the flows statistic its two callers increment.          *)
AddPair(desc, inFlow, outFlow) ==
  /\ ftIn' = [ftIn EXCEPT ![inFlow] = desc]
  /\ ftOut' = [ftOut EXCEPT ![outFlow] =
                 [pair |-> inFlow, desc |-> desc, age |-> 0]]
  /\ count' = count + 1
  /\ statFlows' = statFlows + 1

(* get_out() of a flow that has an entry: the hit renews it.               *)
HitOut(f) ==
  /\ f \in OutKeys
  /\ ftOut' = [ftOut EXCEPT ![f].age = 0]
  /\ UNCHANGED <<ftIn, count, statFlows>>

(* clear(): both tables and the counter.                                   *)
ClearTables ==
  /\ ftOut' = [f \in DOMAIN ftOut |-> NoEntry]
  /\ ftIn' = [g \in DOMAIN ftIn |-> NoEntry]
  /\ count' = 0

(* Outbound flows whose entry expire_flows() removes.                      *)
Expired == {f \in OutKeys : IsExpired(ftOut[f])}

(* Mutant: the partner entries stay behind.                                *)
ExpireOutSideOnly ==
  /\ ftOut' = [f \in DOMAIN ftOut |-> IF f \in Expired THEN NoEntry ELSE ftOut[f]]
  /\ ftIn' = ftIn
  /\ count' = Cardinality(OutKeys \ Expired)
  /\ statFlows' = count'

(* expire_flows(): expiry is decided on the outbound side; the partner of  *)
(* each expired entry goes with it and the counter is taken anew.          *)
ExpireFlows ==
  /\ ftOut' = [f \in DOMAIN ftOut |-> IF f \in Expired THEN NoEntry ELSE ftOut[f]]
  /\ ftIn' = [g \in DOMAIN ftIn |->
                IF \E f \in Expired : ftOut[f].pair = g THEN NoEntry ELSE ftIn[g]]
  /\ count' = Cardinality(OutKeys \ Expired)
  /\ statFlows' = count'

(* Layer::clear_flows, called when the port is reset.                      *)
ClearFlows ==
  /\ ClearTables
  /\ statFlows' = 0

(* Time passes.                                                            *)
Tick ==
  /\ ftOut' = [f \in DOMAIN ftOut |->
                 IF f \in OutKeys /\ ftOut[f].age < Ttl
                 THEN [ftOut[f] EXCEPT !.age = @ + 1] ELSE ftOut[f]]
  /\ UNCHANGED <<ftIn, count, statFlows>>

-----------------------------------------------------------------------------
(* Every outbound entry has its partner with the same descriptor, no two   *)
(* share one, and no inbound entry is left without an outbound one.        *)
Paired ==
  /\ \A f \in OutKeys : ftIn[ftOut[f].pair] = ftOut[f].desc
  /\ \A f, h \in OutKeys : ftOut[f].pair = ftOut[h].pair => f = h
  /\ \A g \in InKeys : \E f \in OutKeys : ftOut[f].pair = g

(* The counter the limit is checked against is the number of flows in the  *)
(* table, and the table never holds more flows than its limit.             *)
CountIsExact == count = Cardinality(OutKeys) /\ count <= Limit
=============================================================================

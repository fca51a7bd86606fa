--------------------------- MODULE StatefulFilter ---------------------------
(***************************************************************************)
(* What a stateful firewall promises, whatever its tables look like.       *)
(*                                                                         *)
(* It has rules and a set of open flows.  A packet passes if its flow is   *)
(* open, in either direction, or if the rules of its direction let it      *)
(* through and there is room to open its flow.  Flows close by being idle  *)
(* or when all the rules are replaced.                                     *)
(***************************************************************************)
EXTENDS Naturals, FiniteSets

CONSTANTS
  Flows,        \* flows there can be
  Capacity      \* how many of them can be open at a time

VARIABLES
  rules,        \* direction -> flows the rules let through
  open,         \* open flows
  verdict       \* the last packet: [dir, flow, res]

vars == <<rules, open, verdict>>

Dirs == {"in", "out"}
Verdict == [dir : Dirs, flow : Flows, res : {"pass", "deny", "full"}]

Init ==
  /\ rules = [d \in Dirs |-> IF d = "in" THEN {} ELSE Flows]
  /\ open = {}
  /\ verdict \in Verdict

Says(dir, f, res) == verdict' = [dir |-> dir, flow |-> f, res |-> res]

PassOpen(dir, f) ==
  /\ f \in open
  /\ Says(dir, f, "pass")
  /\ UNCHANGED <<rules, open>>

Open(dir, f) ==
  /\ f \notin open /\ f \in rules[dir]
  /\ Cardinality(open) < Capacity
  /\ open' = open \cup {f}
  /\ Says(dir, f, "pass")
  /\ UNCHANGED rules

RefuseFull(dir, f) ==
  /\ f \notin open /\ f \in rules[dir]
  /\ Cardinality(open) = Capacity
  /\ Says(dir, f, "full")
  /\ UNCHANGED <<rules, open>>

Deny(dir, f) ==
  /\ f \notin open /\ f \notin rules[dir]
  /\ Says(dir, f, "deny")
  /\ UNCHANGED <<rules, open>>

Close(flows) ==
  /\ open' = open \ flows
  /\ UNCHANGED <<rules, verdict>>

ChangeRules(dir, flows) ==
  /\ rules' = [rules EXCEPT ![dir] = flows]
  /\ UNCHANGED <<open, verdict>>

ReplaceRules(new) ==
  /\ rules' = new
  /\ open' = {}
  /\ UNCHANGED verdict

Next ==
  \/ \E dir \in Dirs, f \in Flows :
       PassOpen(dir, f) \/ Open(dir, f) \/ RefuseFull(dir, f) \/ Deny(dir, f)
  \/ \E flows \in SUBSET open : Close(flows)
  \/ \E dir \in Dirs, flows \in SUBSET Flows : ChangeRules(dir, flows)
  \/ \E new \in [Dirs -> SUBSET Flows] : ReplaceRules(new)

Spec == Init /\ [][Next]_vars
=============================================================================

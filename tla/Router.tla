------------------------------- MODULE Router -------------------------------
(***************************************************************************)
(* The router layer of a VPC port                                          *)
(* (oxide-vpc/src/engine/router.rs): IPv4 and IPv6 routes, kept as rules   *)
(* in the layer's table of outbound rules (RuleTable).                     *)
(*                                                                         *)
(* The layer has no longest-prefix match of its own.  make_rule() gives a  *)
(* route a priority that falls with its prefix length, and the rule table  *)
(* does the rest.  del_entry() looks a route up and removes it under two   *)
(* acquisitions of the port's lock; `asked` is what a caller holds between *)
(* them.  Every other operation is one acquisition.                        *)
(***************************************************************************)
EXTENDS RuleTable, Cidr, FiniteSets

CONSTANTS
  Dests,          \* the destinations routes are made for
  Drop, Gateway,  \* RouterTarget::Drop, RouterTarget::InternetGateway
  Others,         \* further targets: an address or subnet of the family
  Callers,        \* concurrent callers of del_entry()
  None            \* a caller that is not between lookup and removal

VARIABLES asked   \* caller -> [dest, target, id] between lookup and removal

routerVars == <<vars, asked>>

Targets == {Drop, Gateway} \cup Others
Packets == [v6 : BOOLEAN, ip : Addrs]

-----------------------------------------------------------------------------
(* Mutant: priority grows with the prefix length.                          *)
PriorityOfLength(d) == d.len + 10

(* prefix_len_to_priority()                                                *)
Priority(d) == (Bits - d.len) + 10

(* valid_router_dest_target_pair(), for targets of the right family.       *)
ValidPair(d, target) == target = Gateway => IsDefault(d)

(* make_rule(): the one predicate is "destination in d".                   *)
MakeRule(d, target) ==
  [prio |-> Priority(d), deny |-> target = Drop, preds |-> {d}, target |-> target]

Routes == {MakeRule(p[1], p[2]) :
             p \in {q \in Dests \X Targets : ValidPair(q[1], q[2])}}

(* Packets, as the predicates they satisfy and, apart from how those are   *)
(* computed, as the destinations that their addresses start with.          *)
Views == {[sat   |-> {d \in Dests : IsMember(d, p)},
           start |-> {d \in Dests : d.v6 = p.v6 /\ ShareBits(d.ip, p.ip, d.len)}] :
            p \in Packets}

ASSUME RouterAssumption ==
  /\ \A d \in Dests : /\ d.v6 \in BOOLEAN /\ d.ip \in Addrs /\ d.len \in Lengths
                      /\ d = NewCidr(d.v6, d.ip, d.len)
  /\ Preds = Dests
  /\ Rule = Routes

-----------------------------------------------------------------------------
RouterInit == Init /\ asked = [c \in Callers |-> None]

(* add_entry(); an invalid pair is refused.                                *)
AddEntry(d, target) ==
  /\ ValidPair(d, target)
  /\ AddRule(MakeRule(d, target))
  /\ UNCHANGED asked

(* replace(): one set_rules() with the rules of all entries; an invalid    *)
(* entry refuses the list as a whole.                                      *)
Replace(entries) ==
  /\ \A i \in DOMAIN entries : ValidPair(entries[i].d, entries[i].target)
  /\ SetRules([i \in DOMAIN entries |-> MakeRule(entries[i].d, entries[i].target)])
  /\ UNCHANGED asked

(* del_entry(), first half: Port::find_rule.                               *)
DelFind(c, d, target) ==
  /\ asked[c] = None
  /\ ValidPair(d, target)
  /\ pending = <<>>
  /\ LET i == FindRule(rules, MakeRule(d, target))
     IN /\ i # 0
        /\ asked' = [asked EXCEPT ![c] = [dest |-> d, target |-> target,
                                          id |-> rules[i].id]]
  /\ UNCHANGED vars

(* del_entry(), second half: Port::remove_rule of the id found, which may  *)
(* be gone by now (RuleNotFound).                                          *)
DelRemove(c) ==
  /\ asked[c] # None
  /\ \/ RemoveRule(asked[c].id)
     \/ pending = <<>> /\ asked[c].id \notin Ids /\ UNCHANGED vars
  /\ asked' = [asked EXCEPT ![c] = None]

Entries == UNION {[1..n -> [d : Dests, target : Targets]] : n \in 0..MaxBatch}

RouterNext ==
  \/ \E d \in Dests, target \in Targets : AddEntry(d, target)
  \/ \E entries \in Entries : Replace(entries)
  \/ SetRulesAdd /\ UNCHANGED asked
  \/ \E c \in Callers, d \in Dests, target \in Targets : DelFind(c, d, target)
  \/ \E c \in Callers : DelRemove(c)

RouterSpec == RouterInit /\ [][RouterNext]_routerVars

-----------------------------------------------------------------------------
(* The routes for a packet: those whose destination it starts with.        *)
Fits(p) == {i \in DOMAIN rules : rules[i].rule.preds \subseteq p.start}

(* A packet takes the route with the longest prefix that its destination   *)
(* starts with, however routes of both families were added, replaced and   *)
(* deleted; a drop route for that prefix wins over the others for it; and  *)
(* a packet with a route is never left without one (router.rs,             *)
(* prefix_len_to_priority, the masks of ip.rs and the rule order of        *)
(* layer.rs together).                                                     *)
LongestPrefixWins ==
  \A p \in Views :
    LET m == FindMatch(rules, p.sat)
    IN /\ Fits(p) # {} => m \in Fits(p)
       /\ \A i \in Fits(p) :
            \A d \in rules[i].rule.preds, best \in rules[m].rule.preds :
              /\ d.len <= best.len
              /\ d.len = best.len /\ rules[i].rule.deny => rules[m].rule.deny

(* Routes that a step takes away.                                          *)
Gone == {i \in DOMAIN rules : rules[i] \notin {rules'[j] : j \in DOMAIN rules'}}

(* The call of del_entry() that ends in this step.                         *)
Deletes(c) == asked[c] # None /\ asked'[c] = None

(* A delete takes away at most one route, and one for the destination it   *)
(* was asked to delete, whatever was added, replaced or deleted since it   *)
(* looked the route up: the lookup and the removal are two acquisitions of *)
(* the port's lock, and only the id connects them.                         *)
DeleteRemovesDest ==
  [][\A c \in Callers : Deletes(c) =>
       /\ \A i, j \in Gone : i = j
       /\ \A i \in Gone : rules[i].rule.preds = {asked[c].dest}]_routerVars

(* A delete takes away only a route with the target it was given, as the   *)
(* comment on del_entry() says ("it must match exactly for the destination *)
(* as well as its paired RouterTarget").  Rules are compared by their      *)
(* predicates alone, so the code deletes the first route for the           *)
(* destination, whatever its target.                                       *)
DeleteIsExact ==
  [][\A c \in Callers : Deletes(c) =>
       \A i \in Gone : rules[i].rule.target = asked[c].target]_routerVars
=============================================================================

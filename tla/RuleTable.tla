------------------------------ MODULE RuleTable ------------------------------
(***************************************************************************)
(* One direction's rule table of an OPTE layer                             *)
(* (opte/src/engine/layer.rs, struct RuleTable).                           *)
(*                                                                         *)
(* The table is a vector kept in the order in which rules are tried: lower *)
(* priority number first and, inside one priority, Deny rules first.       *)
(* set_rules() replaces the table by clearing it and adding the new rules  *)
(* one at a time.  The port's lock is held for the whole of it, so no      *)
(* other operation runs in between: `pending` holds the rules that remain  *)
(* to be added.                                                            *)
(***************************************************************************)
EXTENDS RuleOrder

CONSTANTS
  Preds,        \* predicates that can appear in a rule
  Rule,         \* the rules the table's owner makes: at least [prio, deny, preds]
  MaxBatch,     \* longest list of rules one set_rules() call carries
  MaxId         \* bound: rules ever added to the table

ASSUME RulesAssumption ==
  \A r \in Rule : r.prio \in Nat /\ r.deny \in BOOLEAN /\ r.preds \subseteq Preds
ASSUME MaxIdAssumption == MaxId \in Nat

VARIABLES
  rules,        \* the vector: <<entry, ...>>, tried from the front
  nextId,       \* id the next added rule gets
  pending       \* rules set_rules() still has to add

vars == <<rules, nextId, pending>>

-----------------------------------------------------------------------------
(* Mutant: the counter is advanced before the id is taken.                 *)
InsertBumpFirst(r) ==
  /\ nextId < MaxId
  /\ rules' = Added(rules, r, nextId + 1)
  /\ nextId' = nextId + 1

(* Mutant: the id counter is derived from the table's length.              *)
InsertReusingIds(r) ==
  /\ nextId < MaxId
  /\ rules' = Added(rules, r, Len(rules))
  /\ nextId' = nextId + 1

(* The body of RuleTable::add.                                             *)
Insert(r) ==
  /\ nextId < MaxId
  /\ rules' = Added(rules, r, nextId)
  /\ nextId' = nextId + 1

Init ==
  /\ rules = <<>>
  /\ nextId = 0
  /\ pending = <<>>

(* RuleTable::add, called by Layer::add_rule.                              *)
AddRule(r) ==
  /\ pending = <<>>
  /\ Insert(r)
  /\ UNCHANGED pending

Ids == {rules[i].id : i \in DOMAIN rules}

(* RuleTable::remove of an id the table holds.                             *)
RemoveRule(id) ==
  /\ pending = <<>>
  /\ \E i \in DOMAIN rules : rules[i].id = id /\ rules' = RemoveAt(rules, i)
  /\ UNCHANGED <<nextId, pending>>

(* RuleTable::set_rules: clear, then ...                                   *)
SetRules(batch) ==
  /\ pending = <<>>
  /\ nextId + Len(batch) <= MaxId
  /\ rules' = <<>>
  /\ pending' = batch
  /\ UNCHANGED nextId

(* ... add each rule of the batch in turn.                                 *)
SetRulesAdd ==
  /\ pending # <<>>
  /\ Insert(Head(pending))
  /\ pending' = Tail(pending)

Batches == UNION {[1..n -> Rule] : n \in 0..MaxBatch}

Next ==
  \/ \E r \in Rule : AddRule(r)
  \/ \E id \in Ids : RemoveRule(id)
  \/ \E batch \in Batches : SetRules(batch)
  \/ SetRulesAdd

Spec == Init /\ [][Next]_vars

-----------------------------------------------------------------------------
(* a takes precedence over b: lower priority number, then Deny, then the   *)
(* rule that was added last.                                               *)
Outranks(a, b) ==
  \/ a.rule.prio < b.rule.prio
  \/ a.rule.prio = b.rule.prio /\ a.rule.deny /\ ~b.rule.deny
  \/ /\ a.rule.prio = b.rule.prio
     /\ a.rule.deny = b.rule.deny
     /\ a.id > b.id

(* Every id in the table has been handed out already.                      *)
IdsIssued == \A i \in DOMAIN rules : rules[i].id < nextId

(* The rule table has its type: entries with ids already handed out.       *)
TypeOK ==
  /\ rules \in Seq([id : 0..MaxId, rule : Rule])
  /\ nextId \in 0..MaxId
  /\ pending \in Seq(Rule)
  /\ IdsIssued

(* For every packet, the entry find_match() stops at takes precedence over *)
(* every other entry that matches the packet, whatever the order in which  *)
(* the rules were added, removed and replaced: in particular a matching    *)
(* Deny is never hidden by an Allow of its own priority.                   *)
MatchIsBest ==
  \A sat \in SUBSET Preds :
    LET m == FindMatch(rules, sat)
    IN \A i \in DOMAIN rules :
         IsMatch(rules[i].rule, sat) /\ i # m => Outranks(rules[m], rules[i])

(* An id never comes to name another rule: an entry whose id was handed    *)
(* out before a step was in the table, with that id and rule, before it.   *)
(* A caller that looked an id up under one lock acquisition and removes it *)
(* under another (router::del_entry) removes the rule it saw or nothing.   *)
IdsAreStable ==
  [][\A j \in DOMAIN rules' :
       rules'[j].id < nextId => \E i \in DOMAIN rules : rules[i] = rules'[j]]_vars
=============================================================================

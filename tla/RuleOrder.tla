------------------------------ MODULE RuleOrder ------------------------------
(***************************************************************************)
(* How a rule table orders and searches its rules                          *)
(* (opte/src/engine/layer.rs, struct RuleTable; opte/src/engine/rule.rs).  *)
(*                                                                         *)
(* A rule is a record with at least a priority, whether its action is      *)
(* Deny, and the set of its predicates.  A table is a sequence of entries  *)
(* [id, rule].  A rule matches a packet that satisfies all of its          *)
(* predicates; one without predicates (`preds: None`) matches every packet.*)
(***************************************************************************)
EXTENDS Naturals, Sequences, SequencesExt

(* Rule::is_match: `sat` is the set of predicates the packet satisfies.    *)
IsMatch(r, sat) == r.preds \subseteq sat

(* Mutant: Deny gets no preference inside a priority.                      *)
GoesBeforeIgnoringDeny(new, old) == new.prio <= old.prio

(* The test find_pos() makes at an entry holding `old`: does the new rule  *)
(* go in front of it?                                                      *)
GoesBefore(new, old) ==
  \/ new.prio < old.prio
  \/ new.prio = old.prio /\ (new.deny \/ ~old.deny)

(* find_pos(): the first position whose entry the rule goes in front of,   *)
(* or one past the end (RulePlace::End).                                   *)
FindPos(s, r) ==
  LET before == {i \in DOMAIN s : GoesBefore(r, s[i].rule)}
  IN IF before = {} THEN Len(s) + 1
     ELSE CHOOSE i \in before : \A j \in before : i <= j

(* find_match(): the first entry, from the front, whose rule matches.      *)
FindMatch(s, sat) ==
  LET hits == {i \in DOMAIN s : IsMatch(s[i].rule, sat)}
  IN IF hits = {} THEN 0 ELSE CHOOSE i \in hits : \A j \in hits : i <= j

(* find_rule(): the first entry whose rule has the queried rule's          *)
(* predicates; priority and action are not compared.                       *)
FindRule(s, r) ==
  LET same == {i \in DOMAIN s : s[i].rule.preds = r.preds}
  IN IF same = {} THEN 0 ELSE CHOOSE i \in same : \A j \in same : i <= j

(* The table after RuleTable::add of a rule that gets this id.             *)
Added(s, r, id) == InsertAt(s, FindPos(s, r), [id |-> id, rule |-> r])
=============================================================================

-------------------------- MODULE RuleTable_proofs ---------------------------
(***************************************************************************)
(* Proofs about RuleTable for every set of rules and every bound: the      *)
(* table stays in precedence order, so that the first match is the best    *)
(* match, and ids are never reused.  In the second part, proofs about      *)
(* Cidr: the arithmetic of both families computes prefixes, for addresses  *)
(* of any number of octets of any width.  In the third, proofs about       *)
(* Router: its steps are steps of the table, which gives it the facts of   *)
(* the first part; with the second follows the longest-prefix match, and   *)
(* from unique ids that a delete removes a route for the destination it    *)
(* was asked for.                                                          *)
(***************************************************************************)
EXTENDS Router, SequenceTheorems, FiniteSetTheorems, FunctionTheorems,
        WellFoundedInduction, TLAPS

(* What find_match() relies on: each entry outranks all that follow it.    *)
Ordered ==
  \A i, j \in DOMAIN rules : i < j => Outranks(rules[i], rules[j])

(* The inductive invariant: TypeOK says that ids in the table are older    *)
(* than the next one, which is what puts a new rule in front of its peers. *)
IInv == TypeOK /\ Ordered

-----------------------------------------------------------------------------
(* Vec::insert: what the vector holds afterwards.                          *)
LEMMA InsertAtElements ==
  ASSUME NEW S, NEW s \in Seq(S), NEW i \in 1..(Len(s) + 1), NEW e \in S
  PROVE  /\ InsertAt(s, i, e) \in Seq(S)
         /\ Len(InsertAt(s, i, e)) = Len(s) + 1
         /\ \A j \in 1..(Len(s) + 1) :
              InsertAt(s, i, e)[j] = IF j < i THEN s[j]
                                     ELSE IF j = i THEN e ELSE s[j - 1]
<1> DEFINE front == SubSeq(s, 1, i - 1)
           back == SubSeq(s, i, Len(s))
<1>1. /\ Len(s) \in Nat
      /\ \A j \in 1..Len(s) : s[j] \in S
  BY LenProperties, ElementOfSeq
<1>2. /\ front \in Seq(S)
      /\ Len(front) = i - 1
      /\ \A j \in 1..(i - 1) : front[j] = s[j]
  BY <1>1, SubSeqProperties
<1>3. /\ back \in Seq(S)
      /\ Len(back) = Len(s) - i + 1
      /\ \A j \in 1..(Len(s) - i + 1) : back[j] = s[i + j - 1]
  BY <1>1, SubSeqProperties
<1>4. InsertAt(s, i, e) = (front \o <<e>>) \o back
  BY DEF InsertAt
<1> HIDE DEF front, back
<1>5. /\ <<e>> \in Seq(S)
      /\ Len(<<e>>) = 1
      /\ <<e>>[1] = e
  OBVIOUS
<1>6. /\ front \o <<e>> \in Seq(S)
      /\ Len(front \o <<e>>) = i
      /\ \A j \in 1..i : (front \o <<e>>)[j] = IF j < i THEN s[j] ELSE e
  BY <1>1, <1>2, <1>5, ConcatProperties
<1> DEFINE head == front \o <<e>>
<1>7. /\ head \in Seq(S)
      /\ Len(head) = i
      /\ \A j \in 1..i : head[j] = IF j < i THEN s[j] ELSE e
  BY <1>6
<1> HIDE DEF head
<1>8. /\ head \o back \in Seq(S)
      /\ Len(head \o back) = Len(head) + Len(back)
      /\ \A j \in 1..(Len(head) + Len(back)) :
           (head \o back)[j] = IF j <= Len(head) THEN head[j]
                                ELSE back[j - Len(head)]
  BY <1>3, <1>7, ConcatProperties
<1>9. Len(head) + Len(back) = Len(s) + 1
  BY <1>1, <1>3, <1>7
<1>10. ASSUME NEW j \in 1..(Len(s) + 1)
       PROVE  (head \o back)[j] = IF j < i THEN s[j]
                                   ELSE IF j = i THEN e ELSE s[j - 1]
  <2>1. CASE j <= i
    BY <2>1, <1>1, <1>7, <1>8, <1>9
  <2>2. CASE j > i
    <3>1. /\ j - i \in 1..(Len(s) - i + 1)
          /\ i + (j - i) - 1 = j - 1
      BY <2>2, <1>1
    <3>2. (head \o back)[j] = back[j - i]
      BY <2>2, <1>1, <1>7, <1>8, <1>9
    <3>3. QED
      BY <2>2, <3>1, <3>2, <1>3
  <2>3. j <= i \/ j > i
    BY <1>1
  <2>4. QED
    BY <2>1, <2>2, <2>3, Zenon
<1>11. QED
  BY <1>4, <1>8, <1>9, <1>10 DEF head

(* Vec::remove: what the vector holds afterwards.                          *)
LEMMA RemoveAtElements ==
  ASSUME NEW S, NEW s \in Seq(S), NEW i \in 1..Len(s)
  PROVE  /\ RemoveAt(s, i) \in Seq(S)
         /\ Len(RemoveAt(s, i)) = Len(s) - 1
         /\ \A j \in 1..(Len(s) - 1) :
              RemoveAt(s, i)[j] = IF j < i THEN s[j] ELSE s[j + 1]
<1> DEFINE front == SubSeq(s, 1, i - 1)
           back == SubSeq(s, i + 1, Len(s))
<1>1. /\ Len(s) \in Nat
      /\ \A j \in 1..Len(s) : s[j] \in S
  BY LenProperties, ElementOfSeq
<1>2. /\ front \in Seq(S)
      /\ Len(front) = i - 1
      /\ \A j \in 1..(i - 1) : front[j] = s[j]
  BY <1>1, SubSeqProperties
<1>3. /\ back \in Seq(S)
      /\ Len(back) = Len(s) - i
      /\ \A j \in 1..(Len(s) - i) : back[j] = s[i + j]
  BY <1>1, SubSeqProperties
<1>4. RemoveAt(s, i) = front \o back
  BY DEF RemoveAt
<1> HIDE DEF front, back
<1>5. /\ front \o back \in Seq(S)
      /\ Len(front \o back) = Len(front) + Len(back)
      /\ \A j \in 1..(Len(front) + Len(back)) :
           (front \o back)[j] = IF j <= Len(front) THEN front[j]
                                 ELSE back[j - Len(front)]
  BY <1>2, <1>3, ConcatProperties
<1>6. Len(front) + Len(back) = Len(s) - 1
  BY <1>1, <1>2, <1>3
<1>7. ASSUME NEW j \in 1..(Len(s) - 1)
      PROVE  (front \o back)[j] = IF j < i THEN s[j] ELSE s[j + 1]
  <2>1. CASE j < i
    BY <2>1, <1>1, <1>2, <1>5, <1>6
  <2>2. CASE j >= i
    <3>1. /\ j - (i - 1) \in 1..(Len(s) - i)
          /\ i + (j - (i - 1)) = j + 1
      BY <2>2, <1>1
    <3>2. (front \o back)[j] = back[j - (i - 1)]
      BY <2>2, <1>1, <1>2, <1>5, <1>6
    <3>3. QED
      BY <2>2, <3>1, <3>2, <1>3
  <2>3. j < i \/ j >= i
    BY <1>1
  <2>4. QED
    BY <2>1, <2>2, <2>3, Zenon
<1>8. QED
  BY <1>4, <1>5, <1>6, <1>7

(* A nonempty set of naturals has a least element.                         *)
LEMMA NatLeast ==
  ASSUME NEW T \in SUBSET Nat, T # {}
  PROVE  \E x \in T : \A y \in T : x <= y
<1> DEFINE less == {ss \in Nat \X Nat : ss[1] < ss[2]}
<1>1. IsWellFoundedOn(less, Nat)
  BY NatLessThanWellFounded, Zenon DEF OpToRel
<1>2. PICK x \in T : \A y \in T : ~(<<y, x>> \in less)
  <2> HIDE DEF less
  <2>1. QED
    BY <1>1, WFMin
<1>3. ASSUME NEW y \in T
      PROVE  x <= y
  <2>1. x \in Nat /\ y \in Nat
    BY <1>3
  <2>2. ~(y < x)
    <3>1. <<y, x>> \in less <=> y < x
      BY <2>1
    <3> HIDE DEF less
    <3>2. QED
      BY <1>2, <1>3, <3>1, Zenon
  <2>3. QED
    BY <2>1, <2>2
<1>4. QED
  BY <1>3

(* Where find_pos() puts a rule: everything in front of that place does    *)
(* not yield to the rule, and the entry at that place does.                *)
LEMMA FindPosSplits ==
  ASSUME NEW r \in Rule, NEW s, NEW n \in Nat, DOMAIN s = 1..n, Len(s) = n
  PROVE  /\ FindPos(s, r) \in 1..(n + 1)
         /\ \A i \in 1..n : i < FindPos(s, r) => ~GoesBefore(r, s[i].rule)
         /\ FindPos(s, r) \in 1..n => GoesBefore(r, s[FindPos(s, r)].rule)
<1> DEFINE before == {i \in DOMAIN s : GoesBefore(r, s[i].rule)}
<1>1. CASE before = {}
  <2>1. FindPos(s, r) = n + 1
    BY <1>1 DEF FindPos
  <2>2. QED
    BY <1>1, <2>1
<1>2. CASE before # {}
  <2>1. PICK least \in before : \A j \in before : least <= j
    <3>1. before \in SUBSET Nat /\ before # {}
      BY <1>2
    <3> HIDE DEF before
    <3>2. QED
      BY <3>1, NatLeast
  <2>2. FindPos(s, r) \in before /\ \A j \in before : FindPos(s, r) <= j
    BY <1>2, <2>1 DEF FindPos
  <2>3. QED
    BY <2>2
<1>3. QED
  BY <1>1, <1>2

-----------------------------------------------------------------------------
(* The table starts empty, so it starts in order.                          *)
LEMMA InitIInv == Init => IInv
  BY EmptySeq, MaxIdAssumption DEF Init, IInv, TypeOK, Ordered, IdsIssued, Outranks

(* Insert(r), entry by entry: the new rule sits at the place find_pos()    *)
(* chose and the entries behind it have moved back by one.                 *)
LEMMA InsertShape ==
  ASSUME TypeOK, NEW r \in Rule, Insert(r)
  PROVE  LET n == Len(rules)
             pos == FindPos(rules, r)
         IN /\ pos \in 1..(n + 1)
            /\ rules' \in Seq([id : 0..MaxId, rule : Rule])
            /\ DOMAIN rules' = 1..(n + 1)
            /\ \A j \in 1..(n + 1) :
                 rules'[j] = IF j < pos THEN rules[j]
                             ELSE IF j = pos THEN [id |-> nextId, rule |-> r]
                             ELSE rules[j - 1]
<1> DEFINE new == [id |-> nextId, rule |-> r]
           pos == FindPos(rules, r)
           n == Len(rules)
           E == [id : 0..MaxId, rule : Rule]
<1>1. n \in Nat /\ DOMAIN rules = 1..n
  BY LenProperties DEF TypeOK
<1>2. rules \in Seq(E) /\ new \in E
  BY DEF TypeOK
<1>3. pos \in 1..(n + 1)
  BY <1>1, FindPosSplits
<1>4. rules' = InsertAt(rules, pos, new)
  BY DEF Insert, Added
<1> HIDE DEF pos, n, E, new
<1>5. /\ rules' \in Seq(E)
      /\ Len(rules') = n + 1
      /\ \A j \in 1..(n + 1) :
           rules'[j] = IF j < pos THEN rules[j]
                       ELSE IF j = pos THEN new ELSE rules[j - 1]
  BY <1>2, <1>3, <1>4, InsertAtElements DEF n
<1>6. DOMAIN rules' = 1..(n + 1)
  BY <1>5, LenProperties
<1>7. QED
  BY <1>3, <1>5, <1>6 DEF n, pos, new, E

(* Adding a rule at the place find_pos() chooses keeps the order: what is  *)
(* in front does not yield to the rule, what is behind comes after an      *)
(* entry that does, and the rule carries the newest id.                    *)
LEMMA InsertPreserves ==
  ASSUME IInv, NEW r \in Rule, Insert(r)
  PROVE  /\ rules' \in Seq([id : 0..MaxId, rule : Rule])
         /\ nextId' \in 0..MaxId
         /\ Ordered'
         /\ IdsIssued'
<1> DEFINE new == [id |-> nextId, rule |-> r]
           pos == FindPos(rules, r)
           n == Len(rules)
           E == [id : 0..MaxId, rule : Rule]
<1>1. /\ n \in Nat
      /\ DOMAIN rules = 1..n
      /\ \A i \in 1..n : rules[i] \in E
  BY LenProperties, ElementOfSeq DEF IInv, TypeOK
<1>2. nextId \in 0..MaxId /\ nextId + 1 \in 0..MaxId /\ new \in E
  BY MaxIdAssumption DEF IInv, TypeOK, Insert
<1>3. /\ pos \in 1..(n + 1)
      /\ \A i \in 1..n : i < pos => ~GoesBefore(r, rules[i].rule)
      /\ pos \in 1..n => GoesBefore(r, rules[pos].rule)
  BY <1>1, FindPosSplits
<1> HIDE DEF pos, n, E, new
<1>4. nextId' = nextId + 1
  BY DEF Insert
<1>5. /\ rules' \in Seq(E)
      /\ \A j \in 1..(n + 1) :
           rules'[j] = IF j < pos THEN rules[j]
                       ELSE IF j = pos THEN new ELSE rules[j - 1]
  BY InsertShape DEF IInv, n, pos, new, E
<1>6. DOMAIN rules' = 1..(n + 1)
  BY InsertShape DEF IInv, n
<1>7. /\ new.id = nextId
      /\ new.rule = r
      /\ r.prio \in Nat
      /\ r.deny \in BOOLEAN
  BY RulesAssumption DEF new
<1>8. \A i \in 1..n : /\ rules[i].id \in Nat
                      /\ rules[i].id < nextId
                      /\ rules[i].rule.prio \in Nat
                      /\ rules[i].rule.deny \in BOOLEAN
  <2>1. \A i \in 1..n : rules[i].id \in 0..MaxId /\ rules[i].rule \in Rule
    BY <1>1 DEF E
  <2>2. \A i \in 1..n : rules[i].id < nextId
    BY <1>1 DEF IInv, TypeOK, IdsIssued
  <2>3. \A x \in Rule : x.prio \in Nat /\ x.deny \in BOOLEAN
    BY RulesAssumption
  <2>4. QED
    BY <2>1, <2>2, <2>3, MaxIdAssumption
<1>9. \A i, j \in 1..n : i < j => Outranks(rules[i], rules[j])
  BY <1>1 DEF IInv, Ordered
<1>10. \A i \in 1..n : i < pos => Outranks(rules[i], new)
  BY <1>3, <1>7, <1>8 DEF GoesBefore, Outranks
<1>11. \A i \in 1..n : i >= pos => Outranks(new, rules[i])
  <2> SUFFICES ASSUME NEW i \in 1..n, i >= pos
               PROVE  Outranks(new, rules[i])
    OBVIOUS
  <2>1. pos \in 1..n
    BY <1>1, <1>3
  <2>2. pos = i \/ Outranks(rules[pos], rules[i])
    BY <1>9, <2>1
  <2>3. Outranks(new, rules[pos])
    BY <1>3, <1>7, <1>8, <2>1 DEF GoesBefore, Outranks
  <2>4. QED
    BY <1>7, <1>8, <2>1, <2>2, <2>3 DEF Outranks
<1>12. Ordered'
  <2> SUFFICES ASSUME NEW i \in 1..(n + 1), NEW j \in 1..(n + 1), i < j
               PROVE  Outranks(rules'[i], rules'[j])
    BY <1>6 DEF Ordered, Outranks
  <2>1. CASE j < pos
    BY <1>1, <1>3, <1>5, <1>9, <2>1
  <2>2. CASE j = pos
    BY <1>1, <1>3, <1>5, <1>10, <2>2
  <2>3. CASE j > pos /\ i < pos
    BY <1>1, <1>3, <1>5, <1>9, <2>3
  <2>4. CASE j > pos /\ i = pos
    BY <1>1, <1>3, <1>5, <1>11, <2>4
  <2>5. CASE i > pos
    BY <1>1, <1>3, <1>5, <1>9, <2>5
  <2>6. QED
    BY <1>1, <1>3, <2>1, <2>2, <2>3, <2>4, <2>5
<1>13. IdsIssued'
  <2> SUFFICES ASSUME NEW j \in 1..(n + 1)
               PROVE  rules'[j].id < nextId + 1
    BY <1>4, <1>6 DEF IdsIssued
  <2>1. CASE j < pos
    BY <1>1, <1>2, <1>3, <1>5, <1>8, <2>1
  <2>2. CASE j = pos
    BY <1>2, <1>5, <1>7, <2>2
  <2>3. CASE j > pos
    BY <1>1, <1>2, <1>3, <1>5, <1>8, <2>3
  <2>4. QED
    BY <1>1, <1>3, <2>1, <2>2, <2>3
<1>14. QED
  BY <1>2, <1>4, <1>5, <1>12, <1>13 DEF E

(* Removing an entry leaves the others in their order.                     *)
LEMMA RemovePreserves ==
  ASSUME IInv, NEW id, RemoveRule(id)
  PROVE  IInv'
<1> DEFINE n == Len(rules)
           E == [id : 0..MaxId, rule : Rule]
<1>1. /\ n \in Nat
      /\ DOMAIN rules = 1..n
      /\ rules \in Seq(E)
  BY LenProperties DEF IInv, TypeOK
<1>2. /\ nextId' = nextId
      /\ pending' = pending
  BY DEF RemoveRule
<1>3. PICK k \in 1..n : rules' = RemoveAt(rules, k)
  BY <1>1 DEF RemoveRule
<1> HIDE DEF n, E
<1>4. /\ rules' \in Seq(E)
      /\ Len(rules') = n - 1
      /\ \A j \in 1..(n - 1) :
           rules'[j] = IF j < k THEN rules[j] ELSE rules[j + 1]
  BY <1>1, <1>3, RemoveAtElements DEF n
<1>5. DOMAIN rules' = 1..(n - 1)
  BY <1>4, LenProperties
<1>6. Ordered'
  <2> SUFFICES ASSUME NEW i \in 1..(n - 1), NEW j \in 1..(n - 1), i < j
               PROVE  Outranks(rules'[i], rules'[j])
    BY <1>5 DEF Ordered, Outranks
  <2>1. \A a, b \in 1..n : a < b => Outranks(rules[a], rules[b])
    BY <1>1 DEF IInv, Ordered
  <2>2. CASE j < k
    BY <1>1, <1>4, <2>1, <2>2
  <2>3. CASE i < k /\ j >= k
    BY <1>1, <1>4, <2>1, <2>3
  <2>4. CASE i >= k
    BY <1>1, <1>4, <2>1, <2>4
  <2>5. QED
    BY <1>1, <2>2, <2>3, <2>4
<1>7. IdsIssued'
  <2> SUFFICES ASSUME NEW j \in 1..(n - 1)
               PROVE  rules'[j].id < nextId
    BY <1>2, <1>5 DEF IdsIssued
  <2>1. \A a \in 1..n : rules[a].id < nextId
    BY <1>1 DEF IInv, TypeOK, IdsIssued
  <2>2. CASE j < k
    BY <1>1, <1>4, <2>1, <2>2
  <2>3. CASE j >= k
    BY <1>1, <1>4, <2>1, <2>3
  <2>4. QED
    BY <1>1, <2>2, <2>3
<1>8. TypeOK'
  BY <1>2, <1>4, <1>7 DEF IInv, TypeOK, E
<1>9. QED
  BY <1>6, <1>8 DEF IInv

(* Every step keeps the table in order and its ids issued.                 *)
LEMMA NextIInv == IInv /\ [Next]_vars => IInv'
<1> SUFFICES ASSUME IInv, [Next]_vars
             PROVE  IInv'
  OBVIOUS
<1>1. ASSUME NEW r \in Rule, AddRule(r)
      PROVE  IInv'
  BY <1>1, InsertPreserves DEF AddRule, IInv, TypeOK
<1>2. ASSUME NEW id, RemoveRule(id)
      PROVE  IInv'
  BY <1>2, RemovePreserves
<1>3. ASSUME NEW batch \in Batches, SetRules(batch)
      PROVE  IInv'
  <2>1. batch \in Seq(Rule)
    BY <1>3 DEF Batches
  <2>2. rules' = <<>> /\ pending' = batch /\ nextId' = nextId
    BY <1>3 DEF SetRules
  <2>3. QED
    BY <2>1, <2>2, EmptySeq DEF IInv, TypeOK, Ordered, IdsIssued, Outranks
<1>4. CASE SetRulesAdd
  <2>1. Head(pending) \in Rule /\ Tail(pending) \in Seq(Rule)
    BY <1>4, HeadTailProperties DEF SetRulesAdd, IInv, TypeOK
  <2>2. Insert(Head(pending)) /\ pending' = Tail(pending)
    BY <1>4 DEF SetRulesAdd
  <2>3. QED
    BY <2>1, <2>2, InsertPreserves DEF IInv, TypeOK
<1>5. CASE UNCHANGED vars
  BY <1>5 DEF vars, IInv, TypeOK, Ordered, IdsIssued, Outranks
<1>6. QED
  BY <1>1, <1>2, <1>3, <1>4, <1>5 DEF Next

(* The inductive invariant holds of every behaviour of the table.          *)
THEOREM IInvHolds == Spec => []IInv
  BY InitIInv, NextIInv, PTL DEF Spec

-----------------------------------------------------------------------------
(* The table keeps its type under every sequence of additions, removals    *)
(* and replacements of rules (RuleTable::add, remove, set_rules).          *)
THEOREM TypeCorrect == Spec => []TypeOK
<1>1. IInv => TypeOK
  BY DEF IInv
<1>2. QED
  BY <1>1, IInvHolds, PTL

(* What find_match() returns if there is a match: the first one.           *)
LEMMA FindMatchFirst ==
  ASSUME TypeOK, NEW sat, NEW i \in DOMAIN rules, IsMatch(rules[i].rule, sat)
  PROVE  LET m == FindMatch(rules, sat)
         IN m \in DOMAIN rules /\ IsMatch(rules[m].rule, sat) /\ m <= i
<1> DEFINE hits == {k \in DOMAIN rules : IsMatch(rules[k].rule, sat)}
<1>1. DOMAIN rules \subseteq Nat
  BY LenProperties DEF TypeOK
<1>2. i \in hits /\ hits \in SUBSET Nat
  BY <1>1
<1>3. \E k \in hits : \A j \in hits : k <= j
  <2> HIDE DEF hits
  <2>1. QED
    BY <1>2, NatLeast
<1>4. /\ FindMatch(rules, sat) \in hits
      /\ \A j \in hits : FindMatch(rules, sat) <= j
  BY <1>2, <1>3 DEF FindMatch
<1>5. QED
  <2> HIDE DEF FindMatch
  <2>1. QED
    BY <1>2, <1>4

(* A table in order has its best match in front.                           *)
LEMMA OrderedMatchIsBest == IInv => MatchIsBest
<1> SUFFICES ASSUME IInv,
                    NEW sat \in SUBSET Preds,
                    NEW i \in DOMAIN rules,
                    IsMatch(rules[i].rule, sat),
                    i # FindMatch(rules, sat)
             PROVE  Outranks(rules[FindMatch(rules, sat)], rules[i])
  BY DEF MatchIsBest
<1> DEFINE m == FindMatch(rules, sat)
<1>1. m \in DOMAIN rules /\ m <= i
  BY FindMatchFirst DEF IInv
<1>2. DOMAIN rules \subseteq Nat
  BY LenProperties DEF IInv, TypeOK
<1>3. m # i
  OBVIOUS
<1> HIDE DEF m
<1>4. m < i
  BY <1>1, <1>2, <1>3
<1>5. Outranks(rules[m], rules[i])
  BY <1>1, <1>4 DEF IInv, Ordered
<1>6. QED
  BY <1>5 DEF m

(* The rule find_match() stops at outranks every other rule that matches   *)
(* the packet: the scan of a table that is in order finds the best match.  *)
THEOREM FirstMatchIsBest == Spec => []MatchIsBest
  BY OrderedMatchIsBest, IInvHolds, PTL

(* Every entry with an id issued before the step was there before it.      *)
Stable ==
  \A j \in DOMAIN rules' :
    rules'[j].id < nextId => \E i \in DOMAIN rules : rules[i] = rules'[j]

LEMMA InsertStable ==
  ASSUME IInv, NEW r \in Rule, Insert(r)
  PROVE  Stable /\ nextId' >= nextId
<1> DEFINE new == [id |-> nextId, rule |-> r]
           pos == FindPos(rules, r)
           n == Len(rules)
<1>1. n \in Nat /\ DOMAIN rules = 1..n
  BY LenProperties DEF IInv, TypeOK
<1>2. new.id = nextId
  OBVIOUS
<1> HIDE DEF new, pos, n
<1>3. /\ pos \in 1..(n + 1)
      /\ DOMAIN rules' = 1..(n + 1)
      /\ \A j \in 1..(n + 1) :
           rules'[j] = IF j < pos THEN rules[j]
                       ELSE IF j = pos THEN new ELSE rules[j - 1]
  BY InsertShape DEF IInv, n, pos, new
<1>4. nextId \in Nat /\ nextId' = nextId + 1
  BY MaxIdAssumption DEF IInv, TypeOK, Insert
<1>5. ASSUME NEW j \in DOMAIN rules', rules'[j].id < nextId
      PROVE  \E i \in DOMAIN rules : rules[i] = rules'[j]
  <2>1. j # pos
    BY <1>2, <1>3, <1>4, <1>5
  <2>2. CASE j < pos
    BY <1>1, <1>3, <1>5, <2>2
  <2>3. CASE j > pos
    <3>1. j - 1 \in DOMAIN rules /\ rules'[j] = rules[j - 1]
      BY <1>1, <1>3, <1>5, <2>3
    <3>2. QED
      BY <3>1
  <2>4. j < pos \/ j = pos \/ j > pos
    BY <1>1, <1>3, <1>5
  <2>5. QED
    BY <2>1, <2>2, <2>3, <2>4
<1>6. QED
  BY <1>4, <1>5 DEF Stable

(* A removal takes the entry at one place and keeps the others.            *)
LEMMA RemoveKeeps ==
  ASSUME TypeOK, NEW id, RemoveRule(id)
  PROVE  /\ nextId' = nextId
         /\ \A j \in DOMAIN rules' : \E i \in DOMAIN rules : rules[i] = rules'[j]
         /\ \E k \in DOMAIN rules :
              /\ rules[k].id = id
              /\ \A i \in DOMAIN rules :
                   i # k => \E j \in DOMAIN rules' : rules'[j] = rules[i]
<1>1. rules \in Seq([id : 0..MaxId, rule : Rule])
  BY DEF TypeOK
<1>2. Len(rules) \in Nat /\ DOMAIN rules = 1..Len(rules)
  BY <1>1, LenProperties
<1>3. PICK k \in 1..Len(rules) : rules[k].id = id /\ rules' = RemoveAt(rules, k)
  BY <1>2 DEF RemoveRule
<1>4. /\ rules' \in Seq([id : 0..MaxId, rule : Rule])
      /\ Len(rules') = Len(rules) - 1
      /\ \A j \in 1..(Len(rules) - 1) :
           rules'[j] = IF j < k THEN rules[j] ELSE rules[j + 1]
  BY <1>1, <1>3, RemoveAtElements
<1>5. DOMAIN rules' = 1..(Len(rules) - 1)
  BY <1>4, LenProperties
<1>6. ASSUME NEW j \in DOMAIN rules'
      PROVE  \E i \in DOMAIN rules : rules[i] = rules'[j]
  <2>1. j \in DOMAIN rules /\ j + 1 \in DOMAIN rules
    BY <1>2, <1>5
  <2>2. rules'[j] = rules[j] \/ rules'[j] = rules[j + 1]
    BY <1>4, <1>5
  <2>3. QED
    BY <2>1, <2>2
<1>7. ASSUME NEW i \in DOMAIN rules, i # k
      PROVE  \E j \in DOMAIN rules' : rules'[j] = rules[i]
  <2>1. CASE i < k
    <3>1. i \in DOMAIN rules' /\ rules'[i] = rules[i]
      BY <1>2, <1>4, <1>5, <2>1
    <3>2. QED
      BY <3>1
  <2>2. CASE i > k
    <3>1. i - 1 \in DOMAIN rules' /\ rules'[i - 1] = rules[i]
      BY <1>2, <1>4, <1>5, <2>2
    <3>2. QED
      BY <3>1
  <2>3. i < k \/ i > k
    BY <1>2, <1>7
  <2>4. QED
    BY <2>1, <2>2, <2>3
<1>8. QED
  BY <1>2, <1>3, <1>6, <1>7 DEF RemoveRule

LEMMA StepIsStable == IInv /\ [Next]_vars => Stable /\ nextId' >= nextId
<1> SUFFICES ASSUME IInv, [Next]_vars
             PROVE  Stable /\ nextId' >= nextId
  OBVIOUS
<1>1. nextId \in Nat
  BY MaxIdAssumption DEF IInv, TypeOK
<1>2. ASSUME NEW r \in Rule, AddRule(r)
      PROVE  Stable /\ nextId' >= nextId
  BY <1>2, InsertStable DEF AddRule
<1>3. ASSUME NEW id, RemoveRule(id)
      PROVE  Stable /\ nextId' >= nextId
  BY <1>1, <1>3, RemoveKeeps DEF IInv, Stable
<1>4. ASSUME NEW batch \in Batches, SetRules(batch)
      PROVE  Stable /\ nextId' >= nextId
  BY <1>1, <1>4 DEF SetRules, Stable
<1>5. CASE SetRulesAdd
  <2>1. Head(pending) \in Rule /\ Insert(Head(pending))
    BY <1>5, HeadTailProperties DEF SetRulesAdd, IInv, TypeOK
  <2>2. QED
    BY <2>1, InsertStable
<1>6. CASE UNCHANGED vars
  BY <1>1, <1>6 DEF vars, Stable
<1>7. QED
  BY <1>2, <1>3, <1>4, <1>5, <1>6 DEF Next

(* No id ever comes to name a second rule: an entry with an id issued      *)
(* before the step was in the table before the step.                       *)
THEOREM IdsNeverReused == Spec => IdsAreStable
<1>1. IInv /\ [Next]_vars => [Stable]_vars
  BY StepIsStable
<1>2. Spec => [][Stable]_vars
  BY <1>1, IInvHolds, PTL DEF Spec
<1>3. QED
  BY <1>2, Zenon DEF Stable, IdsAreStable
-----------------------------------------------------------------------------
(* Induction: T is the set of the numbers for which what is to be shown    *)
(* holds.                                                                  *)
LEMMA Induction ==
  ASSUME NEW T, 0 \in T, \A i \in Nat : i \in T => i + 1 \in T
  PROVE  \A i \in Nat : i \in T
<1> DEFINE Bad == {i \in Nat : i \notin T}
<1>1. CASE Bad = {}
  BY <1>1
<1>2. CASE Bad # {}
  <2>1. PICK i \in Bad : \A j \in Bad : i <= j
    BY <1>2, NatLeast
  <2>2. i \in Nat /\ i \notin T /\ i # 0
    BY <2>1
  <2>3. i - 1 \in Nat /\ ~(i <= i - 1) /\ (i - 1) + 1 = i
    BY <2>2
  <2>4. i - 1 \in T
    BY <2>1, <2>3
  <2>5. QED
    BY <2>2, <2>3, <2>4
<1>3. QED
  BY <1>1, <1>2

-----------------------------------------------------------------------------
(* Powers of two count the subsets of a set.                               *)
LEMMA PowCounts ==
  ASSUME NEW n \in Nat
  PROVE  /\ IsFiniteSet(SUBSET (1..n)) /\ Cardinality(SUBSET (1..n)) = 2^n
         /\ 2^n \in Nat
<1>1. IsFiniteSet(1..n) /\ Cardinality(1..n) = n
  BY FS_Interval
<1>2. IsFiniteSet(SUBSET (1..n)) /\ Cardinality(SUBSET (1..n)) = 2^n
  BY <1>1, FS_SUBSET
<1>3. QED
  BY <1>2, FS_CardinalityType

LEMMA PowStep ==
  ASSUME NEW n \in Nat
  PROVE  2^(n + 1) = 2 * 2^n
<1> DEFINE Old == SUBSET (1..n)
           New == {S \cup {n + 1} : S \in Old}
           f == [S \in Old |-> S \cup {n + 1}]
<1>1. SUBSET (1..(n + 1)) = Old \cup New
  <2>1. ASSUME NEW S \in SUBSET (1..(n + 1))
        PROVE  S \in Old \cup New
    <3>1. CASE n + 1 \notin S
      BY <3>1
    <3>2. CASE n + 1 \in S
      <4>1. S \ {n + 1} \in Old /\ S = (S \ {n + 1}) \cup {n + 1}
        BY <3>2
      <4>2. QED
        BY <4>1
    <3>3. QED
      BY <3>1, <3>2
  <2>2. \A S \in Old \cup New : S \in SUBSET (1..(n + 1))
    OBVIOUS
  <2>3. QED
    BY <2>1, <2>2
<1>2. Old \cap New = {}
  <2>1. \A S \in Old : n + 1 \notin S
    OBVIOUS
  <2>2. \A S \in New : n + 1 \in S
    OBVIOUS
  <2>3. QED
    BY <2>1, <2>2
<1>3. ExistsBijection(Old, New)
  <2>1. f \in [Old -> New]
    BY Zenon
  <2>2. ASSUME NEW S \in Old, NEW T \in Old, f[S] = f[T]
        PROVE  S = T
    <3>1. S \cup {n + 1} = T \cup {n + 1}
      BY <2>2
    <3>2. n + 1 \notin S /\ n + 1 \notin T
      OBVIOUS
    <3>3. QED
      BY <3>1, <3>2
  <2>3. f \in Injection(Old, New)
    BY <2>1, <2>2, Fun_IsInj, Zenon
  <2>4. f \in Surjection(Old, New)
    BY <2>1, Zenon DEF Surjection
  <2>5. QED
    BY <2>3, <2>4, Zenon DEF Bijection, ExistsBijection
<1> HIDE DEF Old, New, f
<1>4. /\ IsFiniteSet(Old) /\ Cardinality(Old) = 2^n /\ 2^n \in Nat
      /\ Cardinality(Old \cup New) = 2^(n + 1)
  <2>1. n + 1 \in Nat
    OBVIOUS
  <2>2. Cardinality(SUBSET (1..(n + 1))) = 2^(n + 1)
    BY <2>1, PowCounts
  <2>3. QED
    BY <1>1, <2>2, PowCounts DEF Old
<1>5. IsFiniteSet(New) /\ Cardinality(New) = Cardinality(Old)
  BY <1>3, <1>4, FS_Bijection
<1>6. Cardinality(Old \cup New)
        = Cardinality(Old) + Cardinality(New) - Cardinality(Old \cap New)
  BY <1>4, <1>5, FS_Union
<1>7. Cardinality({}) = 0
  BY FS_EmptySet
<1>8. Cardinality(Old \cup New) = 2^n + 2^n - 0
  BY <1>2, <1>4, <1>5, <1>6, <1>7
<1>9. QED
  BY <1>4, <1>8

LEMMA PowPositive ==
  ASSUME NEW n \in Nat
  PROVE  2^n \in Nat /\ 2^n >= 1
<1> DEFINE T == {i \in Nat : 2^i \in Nat /\ 2^i >= 1}
<1>1. 0 \in T
  <2>1. 2^0 = 1
    OBVIOUS
  <2>2. QED
    BY <2>1
<1>2. ASSUME NEW i \in Nat, i \in T
      PROVE  i + 1 \in T
  BY <1>2, PowStep
<1> HIDE DEF T
<1>3. \A i \in Nat : i \in T
  BY <1>1, <1>2, Induction
<1>4. QED
  BY <1>3 DEF T

LEMMA PowAdd ==
  ASSUME NEW a \in Nat, NEW c \in Nat
  PROVE  2^(a + c) = 2^a * 2^c
<1> DEFINE T == {i \in Nat : 2^(a + i) = 2^a * 2^i}
<1>1. 0 \in T
  <2>1. 2^0 = 1 /\ 2^a \in Nat /\ a + 0 = a
    BY PowPositive
  <2>2. QED
    BY <2>1
<1>2. ASSUME NEW i \in Nat, i \in T
      PROVE  i + 1 \in T
  <2>1. 2^(i + 1) = 2 * 2^i
    BY PowStep
  <2>2. 2^((a + i) + 1) = 2 * 2^(a + i)
    BY PowStep
  <2>3. a + (i + 1) = (a + i) + 1
    OBVIOUS
  <2>4. 2^(a + (i + 1)) = 2 * (2^a * 2^i)
    BY <1>2, <2>2, <2>3
  <2>5. 2^a \in Nat /\ 2^i \in Nat
    BY PowPositive
  <2>6. 2 * (2^a * 2^i) = 2^a * (2 * 2^i)
    BY <2>5
  <2>7. QED
    BY <2>1, <2>4, <2>6
<1> HIDE DEF T
<1>3. \A i \in Nat : i \in T
  BY <1>1, <1>2, Induction
<1>4. QED
  BY <1>3 DEF T

(* A larger exponent, a larger power, and a multiple.                      *)
LEMMA PowOrdered ==
  ASSUME NEW a \in Nat, NEW c \in Nat, a <= c
  PROVE  2^a <= 2^c /\ 2^c = 2^a * 2^(c - a)
<1>1. c - a \in Nat /\ a + (c - a) = c
  OBVIOUS
<1>2. 2^c = 2^a * 2^(c - a)
  BY <1>1, PowAdd
<1> DEFINE p == 2^a
           r == 2^(c - a)
<1>3. p \in Nat /\ r \in Nat /\ r >= 1
  BY <1>1, PowPositive
<1>4. 2^c = p * r
  BY <1>2
<1> HIDE DEF p, r
<1>5. p * r >= p
  BY <1>3
<1>6. QED
  BY <1>2, <1>4, <1>5 DEF p, r

-----------------------------------------------------------------------------
(* Division with remainder.                                                *)
LEMMA Small ==
  ASSUME NEW d \in Nat, NEW t \in Int, t * d < d, t * d > 0 - d
  PROVE  t = 0
<1>1. CASE t >= 1
  <2>1. (t - 1) * d >= 0
    BY <1>1
  <2>2. QED
    BY <2>1
<1>2. CASE t <= -1
  <2>1. (-1 - t) * d >= 0
    BY <1>2
  <2>2. QED
    BY <2>1
<1>3. QED
  BY <1>1, <1>2

LEMMA DivParts ==
  ASSUME NEW x \in Int, NEW d \in Nat, d # 0
  PROVE  /\ x \div d \in Int /\ x % d \in 0..(d - 1)
         /\ x = (x \div d) * d + (x % d)
OBVIOUS

LEMMA DivUnique ==
  ASSUME NEW x \in Int, NEW d \in Nat, d # 0, NEW q \in Int, NEW r \in 0..(d - 1),
         x = q * d + r
  PROVE  x \div d = q /\ x % d = r
<1> DEFINE s == x \div d
           u == x % d
<1>1. s \in Int /\ u \in 0..(d - 1) /\ x = s * d + u
  BY DivParts
<1> HIDE DEF s, u
<1>2. (q - s) * d = u - r
  BY <1>1
<1>3. q - s \in Int /\ (q - s) * d < d /\ (q - s) * d > 0 - d
  BY <1>1, <1>2
<1>4. q - s = 0
  BY <1>3, Small
<1>5. QED
  BY <1>1, <1>4 DEF s, u

LEMMA DivTwice ==
  ASSUME NEW x \in Nat, NEW p \in Nat, p # 0, NEW s \in Nat, s # 0
  PROVE  /\ x \div (p * s) = (x \div p) \div s
         /\ x % (p * s) = ((x \div p) % s) * p + (x % p)
<1> DEFINE q == x \div p
           r == x % p
           h == q \div s
           e == q % s
<1>1. q \in Int /\ r \in 0..(p - 1) /\ x = q * p + r
  BY DivParts
<1> HIDE DEF q, r
<1>2. h \in Int /\ e \in 0..(s - 1) /\ q = h * s + e
  BY <1>1, DivParts
<1> HIDE DEF h, e
<1>3. x = (h * s + e) * p + r
  BY <1>1, <1>2
<1>4. x = h * (p * s) + (e * p + r)
  BY <1>1, <1>2, <1>3
<1>5. (s - 1 - e) * p >= 0 /\ e * p >= 0
  BY <1>2
<1>6. e * p + r \in 0..(p * s - 1)
  BY <1>1, <1>2, <1>5
<1>7. p * s \in Nat /\ p * s # 0
  OBVIOUS
<1>8. x \div (p * s) = h /\ x % (p * s) = e * p + r
  BY <1>2, <1>4, <1>6, <1>7, DivUnique
<1>9. QED
  BY <1>8 DEF h, e, q, r

(* Clearing is dividing and multiplying.                                   *)
LEMMA Cleared ==
  ASSUME NEW y \in Nat, NEW c \in Nat
  PROVE  /\ y - (y % 2^c) = (y \div 2^c) * 2^c /\ y \div 2^c \in Nat
         /\ y - (y % 2^c) \in Nat /\ y % 2^c \in Nat
<1> DEFINE p == 2^c
<1>1. p \in Nat /\ p >= 1
  BY PowPositive
<1>2. p # 0
  BY <1>1
<1> HIDE DEF p
<1>3. y \div p \in Int /\ y % p \in 0..(p - 1) /\ y = (y \div p) * p + (y % p)
  BY <1>1, <1>2, DivParts
<1> DEFINE q == y \div p
           r == y % p
<1>4. q \in Int /\ r \in Int /\ y = q * p + r
  BY <1>1, <1>3
<1> HIDE DEF q, r
<1>5. q * p \in Int
  BY <1>1, <1>4
<1>6. y - r = q * p
  BY <1>4, <1>5
<1>7. q >= 0
  <2>1. r \in 0..(p - 1)
    BY <1>3 DEF r
  <2>2. CASE q <= -1
    <3>1. (-1 - q) * p >= 0
      BY <1>1, <1>4, <2>2
    <3>2. QED
      BY <1>1, <1>4, <2>1, <3>1
  <2>3. QED
    BY <1>4, <2>2
<1>8. q * p \in Nat /\ q \in Nat
  BY <1>1, <1>4, <1>7
<1>9. r \in Nat
  BY <1>3 DEF r
<1>10. QED
  BY <1>6, <1>8, <1>9 DEF p, q, r

(* Less and less of an address: what is left of it modulo a smaller power. *)
LEMMA ModOfMod ==
  ASSUME NEW x \in Nat, NEW a \in Nat, NEW c \in Nat, a <= c
  PROVE  (x % 2^c) % 2^a = x % 2^a
<1> DEFINE p == 2^a
           s == 2^(c - a)
           e == ((x \div p) % s)
<1>1. /\ p \in Nat /\ p # 0 /\ s \in Nat /\ s # 0
      /\ 2^c = p * s
  BY PowPositive, PowOrdered
<1> HIDE DEF p, s
<1>2. x % (p * s) = e * p + (x % p)
  BY <1>1, DivTwice
<1>3. x \div p \in Int /\ x % p \in 0..(p - 1)
  BY <1>1, DivParts
<1>4. e \in Int
  BY <1>1, <1>3, DivParts
<1> HIDE DEF e
<1>5. e * p + (x % p) \in Int
  BY <1>1, <1>3, <1>4
<1>6. (e * p + (x % p)) % p = x % p
  BY <1>1, <1>3, <1>4, <1>5, DivUnique
<1>7. QED
  BY <1>1, <1>2, <1>6 DEF p

(* One bit more of an address.                                             *)
LEMMA ModNextBit ==
  ASSUME NEW x \in Nat, NEW i \in Nat
  PROVE  /\ Bit(x, i) \in 0..1
         /\ x % 2^(i + 1) = (x % 2^i) + Bit(x, i) * 2^i
<1> DEFINE p == 2^i
           s == 2
           e == (x \div p) % s
<1>1. p \in Nat /\ p # 0 /\ s \in Nat /\ s # 0
  BY PowPositive
<1>2. 2^(i + 1) = p * s
  BY <1>1, PowStep
<1> HIDE DEF p, s
<1>3. x % (p * s) = e * p + (x % p)
  BY <1>1, DivTwice
<1>4. x \div p \in Int /\ x % p \in 0..(p - 1)
  BY <1>1, DivParts
<1>5. e \in 0..(s - 1)
  BY <1>1, <1>4, DivParts
<1> HIDE DEF e
<1>6. Bit(x, i) = e
  BY DEF Bit, e, p, s
<1>7. e \in 0..1
  BY <1>5 DEF s
<1>8. x % 2^(i + 1) = (x % p) + e * p
  <2>1. e * p + (x % p) = (x % p) + e * p
    BY <1>1, <1>4, <1>7
  <2>2. x % 2^(i + 1) = x % (p * s)
    BY <1>2, Zenon
  <2>3. QED
    BY <1>3, <2>1, <2>2, Zenon
<1>9. QED
  BY <1>6, <1>7, <1>8 DEF p

LEMMA BitBeyond ==
  ASSUME NEW w \in Nat, NEW x \in 0..(2^w - 1), NEW i \in Nat, w <= i
  PROVE  Bit(x, i) = 0
<1>1. x \in Nat /\ 2^w \in Nat /\ x < 2^w /\ 2^w <= 2^i /\ 2^i \in Nat
  BY PowPositive, PowOrdered
<1>2. x = 0 * 2^i + x /\ x \in 0..(2^i - 1) /\ 2^i # 0
  BY <1>1
<1>3. x \div 2^i = 0
  BY <1>1, <1>2, DivUnique
<1>4. 0 % 2 = 0
  OBVIOUS
<1>5. QED
  BY <1>3, <1>4 DEF Bit

(* A mask: ones, but for the k lowest bits.                                *)
LEMMA BitOfMask ==
  ASSUME NEW w \in Nat, NEW k \in 0..w, NEW i \in 0..(w - 1)
  PROVE  Bit(2^w - 2^k, i) = IF i < k THEN 0 ELSE 1
<1> DEFINE p == 2^i
<1>0. p \in Nat /\ p # 0
  BY PowPositive
<1>1. CASE i < k
  <2> DEFINE r == 2^(w - (i + 1))
             s == 2^(k - (i + 1))
  <2>1. r \in Nat /\ s \in Nat
    BY <1>1, PowPositive
  <2>2. 2^(i + 1) = 2 * p
    BY PowStep
  <2>3. 2^w = 2^(i + 1) * r /\ 2^k = 2^(i + 1) * s
    BY <1>1, PowOrdered
  <2> HIDE DEF p, r, s
  <2>4. 2^w = (2 * p) * r /\ 2^k = (2 * p) * s
    BY <2>2, <2>3
  <2> DEFINE m == 2^w - 2^k
  <2>5. m = (2 * (r - s)) * p + 0 /\ m \in Int
    BY <1>0, <2>1, <2>4
  <2> HIDE DEF m
  <2>6. m \div p = 2 * (r - s)
    BY <1>0, <2>1, <2>5, DivUnique
  <2>7. (2 * (r - s)) % 2 = 0
    BY <2>1
  <2>8. QED
    BY <1>1, <2>6, <2>7 DEF Bit, m, p
<1>2. CASE i >= k
  <2> DEFINE r == 2^(w - (i + 1))
             s == 2^k
  <2>1. r \in Nat /\ s \in Nat /\ s >= 1 /\ s <= p
    BY <1>2, PowPositive, PowOrdered
  <2>2. 2^(i + 1) = 2 * p
    BY PowStep
  <2>3. 2^w = 2^(i + 1) * r
    BY PowOrdered
  <2> HIDE DEF p, r, s
  <2>4. 2^w = (2 * p) * r
    BY <2>2, <2>3
  <2> DEFINE m == 2^w - s
  <2>5. m = (2 * r - 1) * p + (p - s) /\ m \in Int /\ p - s \in 0..(p - 1)
    BY <1>0, <2>1, <2>4
  <2> HIDE DEF m
  <2>6. m \div p = 2 * r - 1
    BY <1>0, <2>1, <2>5, DivUnique
  <2>7. (2 * r - 1) % 2 = 1
    BY <2>1
  <2>8. Bit(2^w - 2^k, i) = (m \div p) % 2
    BY DEF Bit, m, p, s
  <2>9. ~(i < k)
    BY <1>2
  <2>10. QED
    BY <2>6, <2>7, <2>8, <2>9
<1>3. QED
  BY <1>1, <1>2

-----------------------------------------------------------------------------
(* A function that is defined by recursion over the numbers up to n: from  *)
(* its value at i - 1 the function `step` gives that at i.                 *)
IsRecursion(f, n, zero, step) ==
  f = [i \in 0..n |-> IF i = 0 THEN zero ELSE step[<<i, f[i - 1]>>]]

LEMMA Recursion ==
  ASSUME NEW n \in Nat, NEW S, NEW zero \in S, NEW step \in [(1..n) \X S -> S]
  PROVE  \E f \in [0..n -> S] : IsRecursion(f, n, zero, step)
<1> DEFINE Upto(m, f) ==
             /\ f \in [0..m -> S] /\ f[0] = zero
             /\ \A i \in 1..m : f[i] = step[<<i, f[i - 1]>>]
           T == {m \in Nat : m <= n => \E f : Upto(m, f)}
<1>1. 0 \in T
  <2>1. Upto(0, [i \in 0..0 |-> zero])
    OBVIOUS
  <2>2. QED
    BY <2>1
<1>2. ASSUME NEW m \in Nat, m \in T
      PROVE  m + 1 \in T
  <2>1. CASE m + 1 <= n
    <3>1. PICK f : Upto(m, f)
      BY <1>2, <2>1
    <3> DEFINE e == step[<<m + 1, f[m]>>]
               g == [i \in 0..(m + 1) |-> IF i = m + 1 THEN e ELSE f[i]]
    <3>2. f[m] \in S /\ m + 1 \in 1..n
      BY <2>1, <3>1
    <3>3. e \in S
      BY <3>2
    <3> HIDE DEF e
    <3>4. g \in [0..(m + 1) -> S] /\ g[0] = zero
      BY <3>1, <3>3
    <3>5. ASSUME NEW i \in 1..(m + 1)
          PROVE  g[i] = step[<<i, g[i - 1]>>]
      <4>1. CASE i = m + 1
        <5>1. g[i] = e /\ g[i - 1] = f[m]
          BY <4>1
        <5>2. QED
          BY <4>1, <5>1 DEF e
      <4>2. CASE i # m + 1
        <5>1. i \in 1..m /\ g[i] = f[i] /\ g[i - 1] = f[i - 1]
          BY <4>2
        <5>2. QED
          BY <3>1, <5>1
      <4>3. QED
        BY <4>1, <4>2
    <3> HIDE DEF g
    <3>6. QED
      BY <3>4, <3>5
  <2>2. CASE ~(m + 1 <= n)
    BY <2>2
  <2>3. QED
    BY <2>1, <2>2
<1> HIDE DEF T
<1>3. n \in T
  BY <1>1, <1>2, Induction
<1>4. PICK f : Upto(n, f)
  BY <1>3 DEF T
<1>5. ASSUME NEW i \in 0..n
      PROVE  f[i] = IF i = 0 THEN zero ELSE step[<<i, f[i - 1]>>]
  BY <1>4
<1>6. f = [i \in 0..n |-> IF i = 0 THEN zero ELSE step[<<i, f[i - 1]>>]]
  BY <1>4, <1>5
<1>7. QED
  BY <1>4, <1>6 DEF IsRecursion

(* What BitAnd() adds up.                                                  *)
IsSum(f, x, y) ==
  f = [i \in 0..Bits |->
         IF i = 0 THEN 0
         ELSE f[i - 1] + Bit(x, i - 1) * Bit(y, i - 1) * 2^(i - 1)]

LEMMA BitsPositive == Bits \in Nat /\ Bits # 0
<1>1. OctetBits \in Nat /\ OctetBits >= 1 /\ Octets \in Nat /\ Octets >= 1
  BY CidrAssumption
<1>2. (OctetBits - 1) * (Octets - 1) >= 0
  BY <1>1
<1>3. QED
  BY <1>1, <1>2 DEF Bits

LEMMA BitAndUnfolds ==
  ASSUME NEW x \in Nat, NEW y \in Nat
  PROVE  \E f : IsSum(f, x, y) /\ BitAnd(x, y) = f[Bits]
<1> DEFINE Term(i) == Bit(x, i - 1) * Bit(y, i - 1) * 2^(i - 1)
           step == [a \in (1..Bits) \X Int |-> a[2] + Term(a[1])]
<1>1. \A i \in 1..Bits : Term(i) \in Int
  <2> TAKE i \in 1..Bits
  <2>1. i - 1 \in Nat
    OBVIOUS
  <2>2. Bit(x, i - 1) \in 0..1 /\ Bit(y, i - 1) \in 0..1 /\ 2^(i - 1) \in Nat
    BY <2>1, ModNextBit, PowPositive
  <2>3. QED
    BY <2>2
<1> HIDE DEF Term
<1>2. step \in [(1..Bits) \X Int -> Int]
  BY <1>1
<1>3. \A i \in 1..Bits, v \in Int : step[<<i, v>>] = v + Term(i)
  OBVIOUS
<1> HIDE DEF step
<1>4. Bits \in Nat
  BY BitsPositive
<1>5. PICK f \in [0..Bits -> Int] :
        f = [i \in 0..Bits |-> IF i = 0 THEN 0 ELSE step[<<i, f[i - 1]>>]]
  <2> DEFINE n == Bits
             S == Int
             zero == 0
  <2>1. n \in Nat /\ zero \in S /\ step \in [(1..n) \X S -> S]
    BY <1>2, <1>4
  <2> HIDE DEF n, S, zero
  <2>2. \E f \in [0..n -> S] : IsRecursion(f, n, zero, step)
    BY <2>1, Recursion
  <2>3. QED
    BY <2>2 DEF n, S, zero, IsRecursion
<1>6. \A i \in 1..Bits : f[i - 1] \in Int
  BY <1>4, <1>5
<1>7. ASSUME NEW i \in 0..Bits
      PROVE  f[i] = IF i = 0 THEN 0 ELSE f[i - 1] + Term(i)
  <2>1. f[i] = IF i = 0 THEN 0 ELSE step[<<i, f[i - 1]>>]
    BY <1>5
  <2>2. CASE i = 0
    BY <2>1, <2>2
  <2>3. CASE i # 0
    <3>1. i \in 1..Bits
      BY <1>4, <2>3
    <3>2. QED
      BY <1>3, <1>6, <2>1, <2>3, <3>1
  <2>4. QED
    BY <2>2, <2>3
<1>8. f = [i \in 0..Bits |-> IF i = 0 THEN 0 ELSE f[i - 1] + Term(i)]
  BY <1>5, <1>7
<1>9. IsSum(f, x, y)
  BY <1>8 DEF IsSum, Term
<1> DEFINE low == CHOOSE g : IsSum(g, x, y)
<1>10. IsSum(low, x, y)
  BY <1>9
<1>11. BitAnd(x, y) = low[Bits]
  BY DEF BitAnd, IsSum
<1> HIDE DEF low
<1>12. QED
  BY <1>10, <1>11

(* To mask an address takes away its remainder.                            *)
LEMMA AndMask ==
  ASSUME NEW w \in 0..Bits, NEW x \in 0..(2^w - 1), NEW k \in 0..w
  PROVE  BitAnd(x, 2^w - 2^k) = x - (x % 2^k)
<1> DEFINE y == 2^w - 2^k
           rest == x % 2^k
<1>1. /\ Bits \in Nat /\ w \in Nat /\ k \in Nat /\ x \in Nat /\ y \in Nat
      /\ 2^w \in Nat /\ 2^k \in Nat /\ 2^k >= 1
  BY BitsPositive, PowPositive, PowOrdered
<1>2. PICK f : IsSum(f, x, y) /\ BitAnd(x, y) = f[Bits]
  BY <1>1, BitAndUnfolds
<1>3. f[0] = 0 /\ \A i \in 0..(Bits - 1) :
        f[i + 1] = f[i] + Bit(x, i) * Bit(y, i) * 2^i
  <2>1. \A i \in 0..Bits :
          f[i] = IF i = 0 THEN 0
                 ELSE f[i - 1] + Bit(x, i - 1) * Bit(y, i - 1) * 2^(i - 1)
    BY <1>2 DEF IsSum
  <2>2. f[0] = 0
    BY <1>1, <2>1
  <2>3. ASSUME NEW i \in 0..(Bits - 1)
        PROVE  f[i + 1] = f[i] + Bit(x, i) * Bit(y, i) * 2^i
    <3>1. i + 1 \in 0..Bits /\ i + 1 # 0 /\ (i + 1) - 1 = i
      BY <1>1
    <3>2. QED
      BY <2>1, <3>1
  <2>4. QED
    BY <2>2, <2>3
<1>4. rest \in Nat /\ rest <= x
  <2>1. x - rest \in Nat /\ rest \in Nat
    BY <1>1, Cleared
  <2> HIDE DEF rest
  <2>2. QED
    BY <1>1, <2>1
<1> DEFINE Sum(i) == IF i <= k THEN 0 ELSE (x % 2^i) - rest
           U == {i \in Nat : i <= Bits => f[i] = Sum(i)}
<1>5. 0 \in U
  BY <1>1, <1>3
<1>6. ASSUME NEW i \in Nat, i \in U
      PROVE  i + 1 \in U
  <2> SUFFICES ASSUME i + 1 <= Bits
               PROVE  f[i + 1] = Sum(i + 1)
    OBVIOUS
  <2>1. i \in 0..(Bits - 1) /\ f[i] = Sum(i)
    BY <1>1, <1>6
  <2>2. f[i + 1] = Sum(i) + Bit(x, i) * Bit(y, i) * 2^i
    BY <1>3, <2>1
  <2>3. /\ Bit(x, i) \in 0..1 /\ Bit(y, i) \in 0..1
        /\ x % 2^(i + 1) = (x % 2^i) + Bit(x, i) * 2^i
        /\ 2^i \in Nat /\ x % 2^i \in Nat
    <3>1. 2^i \in Nat /\ 2^i # 0
      BY PowPositive
    <3>2. x % 2^i \in 0..(2^i - 1)
      BY <1>1, <3>1, DivParts
    <3>3. QED
      BY <1>1, <3>1, <3>2, ModNextBit
  <2>4. CASE i < k
    <3>1. i \in 0..(w - 1) /\ k \in 0..w
      BY <1>1, <2>4
    <3>2. Bit(y, i) = 0
      BY <1>1, <2>4, <3>1, BitOfMask
    <3>3. Sum(i) = 0 /\ Sum(i + 1) = 0
      BY <1>1, <2>4
    <3> HIDE DEF Sum
    <3>4. QED
      BY <2>2, <2>3, <3>2, <3>3
  <2>5. CASE i >= k
    <3>1. Bit(x, i) * Bit(y, i) = Bit(x, i)
      <4>1. CASE i < w
        <5>1. i \in 0..(w - 1) /\ k \in 0..w /\ ~(i < k)
          BY <1>1, <2>5, <4>1
        <5>2. Bit(y, i) = 1
          BY <1>1, <5>1, BitOfMask
        <5>3. QED
          BY <2>3, <5>2
      <4>2. CASE w <= i
        <5>1. Bit(x, i) = 0
          BY <1>1, <4>2, BitBeyond
        <5>2. QED
          BY <2>3, <5>1
      <4>3. QED
        BY <1>1, <4>1, <4>2
    <3>2. f[i + 1] = Sum(i) + Bit(x, i) * 2^i
      BY <2>2, <3>1
    <3>3. Sum(i) = (x % 2^i) - rest
      <4>1. CASE i = k
        <5>1. x % 2^i = rest
          BY <4>1
        <5>2. QED
          BY <4>1, <5>1, <1>4
      <4>2. CASE i # k
        <5>1. ~(i <= k)
          BY <1>1, <2>5, <4>2
        <5>2. QED
          BY <5>1
      <4>3. QED
        BY <4>1, <4>2
    <3>4. Sum(i + 1) = (x % 2^(i + 1)) - rest
      <4>1. ~(i + 1 <= k)
        BY <1>1, <2>5
      <4>2. QED
        BY <4>1
    <3> HIDE DEF Sum, rest
    <3> DEFINE a == x % 2^i
               c == Bit(x, i) * 2^i
    <3>5. a \in Nat /\ c \in Int
      BY <2>3
    <3>6. f[i + 1] = (a - rest) + c /\ Sum(i + 1) = (a + c) - rest
      BY <2>3, <3>2, <3>3, <3>4
    <3> HIDE DEF a, c
    <3>7. QED
      BY <1>4, <3>5, <3>6
  <2>6. QED
    BY <1>1, <2>4, <2>5
<1> HIDE DEF U
<1>7. Bits \in U
  BY <1>1, <1>5, <1>6, Induction
<1>8. f[Bits] = Sum(Bits)
  BY <1>1, <1>7 DEF U
<1>9. x % 2^Bits = x
  <2>1. 2^w <= 2^Bits /\ 2^Bits \in Nat
    BY <1>1, PowOrdered, PowPositive
  <2>2. x = 0 * 2^Bits + x /\ x \in 0..(2^Bits - 1) /\ 2^Bits # 0
    BY <1>1, <2>1
  <2>3. QED
    BY <1>1, <2>1, <2>2, DivUnique
<1>10. Sum(Bits) = x - rest
  <2>1. CASE Bits <= k
    <3>1. Bits = k
      BY <1>1, <2>1
    <3>2. rest = x
      BY <1>9, <3>1
    <3>3. QED
      BY <1>1, <2>1, <3>2
  <2>2. CASE ~(Bits <= k)
    BY <1>9, <2>2
  <2>3. QED
    BY <2>1, <2>2
<1>11. QED
  BY <1>2, <1>8, <1>10

(* The mask of a length: shifting the least integer copies its sign.       *)
LEMMA ShiftedIsMask ==
  ASSUME NEW w \in Nat, NEW l \in 1..w
  PROVE  Shifted(SignedMin(w), l - 1, w) = 2^w - 2^(w - l)
<1> DEFINE p == 2^(l - 1)
           r == 2^(w - l)
           h == 2^(w - 1)
<1>1. /\ p \in Nat /\ p >= 1 /\ r \in Nat /\ r >= 1 /\ h \in Nat /\ h >= 1
      /\ 2^w \in Nat /\ r <= 2^w
  <2>1. l - 1 \in Nat /\ w - l \in Nat /\ w - 1 \in Nat /\ w - l <= w
    OBVIOUS
  <2>2. QED
    BY <2>1, PowPositive, PowOrdered
<1>2. h = p * r
  <2>1. l - 1 \in Nat /\ w - 1 \in Nat /\ l - 1 <= w - 1 /\ (w - 1) - (l - 1) = w - l
    OBVIOUS
  <2>2. 2^(w - 1) = 2^(l - 1) * 2^((w - 1) - (l - 1))
    BY <2>1, PowOrdered
  <2>3. QED
    BY <2>1, <2>2
<1>3. 2^w = 2 * h
  <2>1. w - 1 \in Nat /\ (w - 1) + 1 = w
    OBVIOUS
  <2>2. 2^((w - 1) + 1) = 2 * 2^(w - 1)
    BY <2>1, PowStep
  <2>3. QED
    BY <2>1, <2>2
<1>4. (l - 1) % w = l - 1
  <2>1. l - 1 \in Int /\ l - 1 = 0 * w + (l - 1) /\ l - 1 \in 0..(w - 1) /\ w # 0
    OBVIOUS
  <2>2. QED
    BY <2>1, DivUnique
<1> DEFINE n == 2^w
           signed == IF h >= h THEN h - n ELSE h
<1>5. Shifted(SignedMin(w), l - 1, w) = (signed \div p) % n
  BY <1>4 DEF Shifted, SignedMin
<1> HIDE DEF p, r, h, n
<1>6. n \in Nat /\ n # 0 /\ n = 2 * h /\ r <= n
  BY <1>1, <1>3 DEF n
<1>7. signed = (0 - r) * p + 0 /\ signed \in Int
  BY <1>1, <1>2, <1>6
<1> HIDE DEF signed
<1>8. signed \div p = 0 - r
  <2>1. p # 0 /\ 0 - r \in Int /\ 0 \in 0..(p - 1)
    BY <1>1
  <2>2. QED
    BY <1>1, <1>7, <2>1, DivUnique
<1>9. (0 - r) % n = n - r
  <2>1. 0 - r = (-1) * n + (n - r) /\ n - r \in 0..(n - 1) /\ 0 - r \in Int /\ -1 \in Int
    BY <1>1, <1>6
  <2>2. QED
    BY <1>6, <2>1, DivUnique
<1>10. QED
  BY <1>5, <1>8, <1>9 DEF n, r

LEMMA AddrLess ==
  ASSUME NEW x \in Addrs
  PROVE  x \in Nat /\ x \div 2^Bits = 0 /\ x % 2^Bits = x
<1>1. Bits \in Nat /\ 2^Bits \in Nat /\ 2^Bits # 0
  BY BitsPositive, PowPositive
<1>2. x \in Int /\ x = 0 * 2^Bits + x /\ x \in 0..(2^Bits - 1) /\ x \in Nat
  BY <1>1 DEF Addrs
<1>3. QED
  BY <1>1, <1>2, DivUnique

(* What both families make of an address.                                  *)
Masked(x, len) == x - (x % 2^(Bits - len))

LEMMA Mask4Clears ==
  ASSUME NEW x \in Addrs, NEW len \in Lengths
  PROVE  Mask4(x, len) = Masked(x, len)
<1>1. /\ Bits \in Nat /\ Bits # 0 /\ len \in 0..Bits /\ 2^Bits \in Nat
      /\ x \in Nat /\ x % 2^Bits = x /\ x \in 0..(2^Bits - 1)
  BY BitsPositive, AddrLess, PowPositive DEF Lengths, Addrs
<1>2. CASE len = 0
  <2>1. Mask4(x, len) = 0 /\ Bits - len = Bits
    BY <1>1, <1>2 DEF Mask4
  <2>2. x - x = 0
    BY <1>1
  <2>3. QED
    BY <1>1, <2>1, <2>2 DEF Masked
<1>3. CASE len # 0
  <2>1. len \in 1..Bits /\ Bits - len \in 0..Bits /\ Bits \in 0..Bits
    BY <1>1, <1>3
  <2>2. Shifted(SignedMin(Bits), len - 1, Bits) = 2^Bits - 2^(Bits - len)
    BY <1>1, <2>1, ShiftedIsMask
  <2>3. BitAnd(x, 2^Bits - 2^(Bits - len)) = x - (x % 2^(Bits - len))
    BY <1>1, <2>1, AndMask
  <2>4. QED
    BY <1>3, <2>2, <2>3 DEF Mask4, Masked
<1>4. QED
  BY <1>2, <1>3

(* What FromOctets() adds up.                                              *)
IsJoin(f, octets) ==
  f = [i \in 0..Octets |->
         IF i = 0 THEN 0 ELSE f[i - 1] * 2^OctetBits + octets[i]]

LEMMA FromOctetsUnfolds ==
  ASSUME NEW octets \in [1..Octets -> Nat]
  PROVE  \E f : IsJoin(f, octets) /\ FromOctets(octets) = f[Octets]
<1> DEFINE step == [a \in (1..Octets) \X Nat |-> a[2] * 2^OctetBits + octets[a[1]]]
           n == Octets
           S == Nat
           zero == 0
<1>1. n \in Nat /\ OctetBits \in Nat
  BY CidrAssumption
<1>2. 2^OctetBits \in Nat
  BY <1>1, PowPositive
<1>3. step \in [(1..Octets) \X Nat -> Nat]
  <2>1. \A v \in Nat, i \in 1..Octets : v * 2^OctetBits + octets[i] \in Nat
    BY <1>2
  <2>2. QED
    BY <2>1
<1>4. \A i \in 1..Octets, v \in Nat : step[<<i, v>>] = v * 2^OctetBits + octets[i]
  OBVIOUS
<1> HIDE DEF step
<1>5. zero \in S /\ step \in [(1..n) \X S -> S]
  BY <1>3
<1> HIDE DEF n, S, zero
<1>6. \E f \in [0..n -> S] : IsRecursion(f, n, zero, step)
  BY <1>1, <1>5, Recursion
<1>7. PICK f \in [0..Octets -> Nat] :
        f = [i \in 0..Octets |-> IF i = 0 THEN 0 ELSE step[<<i, f[i - 1]>>]]
  BY <1>6 DEF IsRecursion, n, S, zero
<1>8. Octets \in Nat
  BY CidrAssumption
<1>9. ASSUME NEW i \in 0..Octets
      PROVE  f[i] = IF i = 0 THEN 0 ELSE f[i - 1] * 2^OctetBits + octets[i]
  <2>1. f[i] = IF i = 0 THEN 0 ELSE step[<<i, f[i - 1]>>]
    BY <1>7
  <2>2. CASE i = 0
    BY <2>1, <2>2
  <2>3. CASE i # 0
    <3>1. i \in 1..Octets /\ f[i - 1] \in Nat
      BY <1>7, <1>8, <2>3
    <3>2. step[<<i, f[i - 1]>>] = f[i - 1] * 2^OctetBits + octets[i]
      BY <1>4, <3>1
    <3>3. QED
      BY <2>1, <2>3, <3>2
  <2>4. QED
    BY <2>2, <2>3
<1>10. IsJoin(f, octets)
  BY <1>7, <1>9 DEF IsJoin
<1> DEFINE ip == CHOOSE g : IsJoin(g, octets)
<1>11. IsJoin(ip, octets)
  BY <1>10
<1>12. FromOctets(octets) = ip[Octets]
  BY DEF FromOctets, IsJoin
<1> HIDE DEF ip
<1>13. QED
  BY <1>11, <1>12

(* How far the first octets of an address reach, in bits.                  *)
Reach(j) == OctetBits * j

LEMMA ReachFacts ==
  /\ OctetBits \in Nat /\ OctetBits >= 1 /\ Octets \in Nat /\ Octets >= 1
  /\ Reach(0) = 0 /\ Reach(Octets) = Bits
  /\ \A j \in Nat : Reach(j) \in Nat /\ Reach(j + 1) = Reach(j) + OctetBits
  /\ \A i, j \in Nat : i <= j => Reach(i) <= Reach(j)
<1>1. OctetBits \in Nat /\ OctetBits >= 1 /\ Octets \in Nat /\ Octets >= 1
  BY CidrAssumption
<1>2. ASSUME NEW i \in Nat, NEW j \in Nat, i <= j
      PROVE  OctetBits * i <= OctetBits * j
  <2>1. OctetBits * (j - i) >= 0
    BY <1>1, <1>2
  <2>2. QED
    BY <1>1, <2>1
<1>3. QED
  BY <1>1, <1>2 DEF Reach, Bits

(* The first octets of an address, as a number.                            *)
First(x, j) == x \div 2^(Bits - Reach(j))

LEMMA FirstFacts ==
  ASSUME NEW x \in Addrs
  PROVE  /\ First(x, 0) = 0 /\ First(x, Octets) = x
         /\ \A j \in 0..Octets : First(x, j) \in Nat
         /\ OctetsOf(x) \in [1..Octets -> 0..(2^OctetBits - 1)]
         /\ \A j \in 1..Octets :
              /\ OctetsOf(x)[j] = First(x, j) % 2^OctetBits
              /\ First(x, j) = First(x, j - 1) * 2^OctetBits + OctetsOf(x)[j]
<1>1. x \in Nat /\ Bits \in Nat /\ 2^OctetBits \in Nat /\ 2^OctetBits # 0
  <2>1. OctetBits \in Nat /\ Bits \in Nat /\ x \in Nat
    BY AddrLess, BitsPositive, ReachFacts
  <2>2. 2^OctetBits \in Nat /\ 2^OctetBits >= 1
    BY <2>1, PowPositive
  <2>3. QED
    BY <2>1, <2>2
<1>2. \A j \in 0..Octets : Bits - Reach(j) \in Nat
  <2> TAKE j \in 0..Octets
  <2>1. j \in Nat /\ j <= Octets /\ Octets \in Nat
    BY ReachFacts
  <2>2. Reach(j) <= Reach(Octets) /\ Reach(j) \in Nat /\ Reach(Octets) = Bits
    BY <2>1, ReachFacts
  <2>3. QED
    BY <1>1, <2>2
<1>3. First(x, 0) = 0
  <2>1. Bits - Reach(0) = Bits
    BY <1>1, ReachFacts
  <2>2. QED
    BY <2>1, AddrLess DEF First
<1>4. First(x, Octets) = x
  <2>1. Bits - Reach(Octets) = 0 /\ 2^0 = 1
    BY <1>1, ReachFacts
  <2>2. x \div 1 = x
    BY <1>1
  <2>3. QED
    BY <2>1, <2>2 DEF First
<1>5. ASSUME NEW j \in 0..Octets
      PROVE  First(x, j) \in Nat
  <2>1. Bits - Reach(j) \in Nat
    BY <1>2
  <2>2. QED
    BY <1>1, <2>1, Cleared DEF First
<1>6. ASSUME NEW j \in 1..Octets
      PROVE  /\ OctetsOf(x)[j] = First(x, j) % 2^OctetBits
             /\ First(x, j) \div 2^OctetBits = First(x, j - 1)
  <2>1. j \in 0..Octets /\ j - 1 \in 0..Octets /\ Octets \in Nat /\ j \in Nat /\ j - 1 \in Nat
    BY ReachFacts
  <2>2. OctetBits * (Octets - j) = Bits - Reach(j)
    BY <2>1, ReachFacts DEF Bits, Reach
  <2>3. OctetsOf(x)[j] = First(x, j) % 2^OctetBits
    BY <2>2 DEF OctetsOf, First
  <2> DEFINE p == 2^(Bits - Reach(j))
             s == 2^OctetBits
  <2>4. /\ p \in Nat /\ p # 0 /\ s \in Nat /\ s # 0
    BY <1>1, <1>2, <2>1, PowPositive
  <2>5. 2^(Bits - Reach(j - 1)) = p * s
    <3>1. Reach(j) = Reach(j - 1) + OctetBits /\ Reach(j - 1) \in Nat /\ OctetBits \in Nat
      <4>1. Reach((j - 1) + 1) = Reach(j - 1) + OctetBits /\ (j - 1) + 1 = j
        BY <2>1, ReachFacts
      <4>2. QED
        BY <2>1, <4>1, ReachFacts
    <3>2. Bits - Reach(j - 1) = (Bits - Reach(j)) + OctetBits
      BY <1>1, <3>1
    <3>3. 2^((Bits - Reach(j)) + OctetBits) = 2^(Bits - Reach(j)) * 2^OctetBits
      BY <1>2, <2>1, <3>1, PowAdd
    <3>4. QED
      BY <3>2, <3>3
  <2> HIDE DEF p, s
  <2>6. x \div (p * s) = (x \div p) \div s
    BY <1>1, <2>4, DivTwice
  <2>7. QED
    BY <2>3, <2>5, <2>6 DEF First, p, s
<1>7. ASSUME NEW j \in 1..Octets
      PROVE  /\ OctetsOf(x)[j] \in 0..(2^OctetBits - 1)
             /\ First(x, j) = First(x, j - 1) * 2^OctetBits + OctetsOf(x)[j]
  <2> DEFINE y == First(x, j)
             s == 2^OctetBits
  <2>1. y \in Int /\ s \in Nat /\ s # 0
    <3>1. j \in 0..Octets
      BY ReachFacts
    <3>2. QED
      BY <1>1, <1>5, <3>1
  <2> HIDE DEF y, s
  <2>2. y % s \in 0..(s - 1) /\ y = (y \div s) * s + (y % s)
    BY <2>1, DivParts
  <2>3. OctetsOf(x)[j] = y % s /\ y \div s = First(x, j - 1)
    BY <1>6 DEF y, s
  <2>4. OctetsOf(x)[j] \in 0..(s - 1) /\ y = First(x, j - 1) * s + OctetsOf(x)[j]
    BY <2>2, <2>3
  <2>5. QED
    BY <2>4 DEF y, s
<1>8. OctetsOf(x) \in [1..Octets -> 0..(2^OctetBits - 1)]
  <2>1. OctetsOf(x) = [j \in 1..Octets |-> OctetsOf(x)[j]]
    BY DEF OctetsOf
  <2>2. QED
    BY <1>7, <2>1
<1>9. QED
  BY <1>3, <1>4, <1>5, <1>6, <1>7, <1>8

(* The octets of a masked address.                                         *)
Cut6(x, len) ==
  [i \in 1 .. Octets |->
     IF i <= len \div OctetBits THEN OctetsOf(x)[i]
     ELSE IF i = len \div OctetBits + 1 /\ len % OctetBits > 0
          THEN BitAnd(OctetsOf(x)[i],
                      Shifted(SignedMin(OctetBits), (len % OctetBits) - 1, OctetBits))
     ELSE 0]

LEMMA Cut6Octets ==
  ASSUME NEW x \in Addrs, NEW len \in Lengths
  PROVE  /\ Mask6(x, len) = FromOctets(Cut6(x, len))
         /\ \E idx \in 0..Octets, rest \in 0..(OctetBits - 1) :
              /\ len = Reach(idx) + rest
              /\ idx = Octets => rest = 0
              /\ \A j \in 1..Octets :
                   Cut6(x, len)[j] =
                     IF j <= idx THEN OctetsOf(x)[j]
                     ELSE IF j = idx + 1 /\ rest > 0
                     THEN OctetsOf(x)[j] - (OctetsOf(x)[j] % 2^(OctetBits - rest))
                     ELSE 0
<1> DEFINE idx == len \div OctetBits
           rest == len % OctetBits
<1>1. Mask6(x, len) = FromOctets(Cut6(x, len))
  BY DEF Mask6, Cut6
<1>2. /\ OctetBits \in Nat /\ OctetBits # 0 /\ Octets \in Nat /\ Bits \in Nat
      /\ len \in 0..Bits /\ len \in Int
  BY ReachFacts, BitsPositive DEF Lengths
<1>3. idx \in Int /\ rest \in 0..(OctetBits - 1) /\ len = idx * OctetBits + rest
  BY <1>2, DivParts
<1>4. Cut6(x, len) =
        [j \in 1..Octets |->
           IF j <= idx THEN OctetsOf(x)[j]
           ELSE IF j = idx + 1 /\ rest > 0
                THEN BitAnd(OctetsOf(x)[j],
                            Shifted(SignedMin(OctetBits), rest - 1, OctetBits))
           ELSE 0]
  BY DEF Cut6
<1> HIDE DEF idx, rest
<1>5. idx \in 0..Octets /\ (idx = Octets => rest = 0)
  <2>1. CASE idx <= -1
    <3>1. (-1 - idx) * OctetBits >= 0
      BY <1>2, <1>3, <2>1
    <3>2. QED
      BY <1>2, <1>3, <3>1
  <2>2. CASE idx >= Octets
    <3>1. (idx - Octets) * OctetBits >= 0
      BY <1>2, <1>3, <2>2
    <3>2. (idx - Octets) * OctetBits + rest <= 0
      BY <1>2, <1>3 DEF Bits
    <3>3. (idx - Octets) * OctetBits = 0 /\ rest = 0
      BY <1>2, <1>3, <3>1, <3>2
    <3>4. idx = Octets
      <4>1. CASE idx - Octets >= 1
        <5>1. (idx - Octets - 1) * OctetBits >= 0
          BY <1>2, <1>3, <4>1
        <5>2. QED
          BY <1>2, <1>3, <3>3, <5>1
      <4>2. QED
        BY <1>2, <1>3, <2>2, <4>1
    <3>5. QED
      BY <1>2, <3>3, <3>4
  <2>3. QED
    BY <1>2, <1>3, <2>1, <2>2
<1>6. len = Reach(idx) + rest
  BY <1>2, <1>3, <1>5 DEF Reach
<1>7. ASSUME NEW j \in 1..Octets, rest > 0
      PROVE  BitAnd(OctetsOf(x)[j], Shifted(SignedMin(OctetBits), rest - 1, OctetBits))
               = OctetsOf(x)[j] - (OctetsOf(x)[j] % 2^(OctetBits - rest))
  <2>1. rest \in 1..OctetBits /\ OctetBits - rest \in 0..OctetBits
    BY <1>2, <1>3, <1>7
  <2>2. Shifted(SignedMin(OctetBits), rest - 1, OctetBits)
          = 2^OctetBits - 2^(OctetBits - rest)
    BY <1>2, <2>1, ShiftedIsMask
  <2>3. OctetBits \in 0..Bits
    <3>1. Reach(1) <= Reach(Octets) /\ Reach(0 + 1) = Reach(0) + OctetBits
      BY <1>2, ReachFacts
    <3>2. QED
      BY <1>2, <3>1, ReachFacts
  <2> DEFINE o == OctetsOf(x)[j]
  <2>4. o \in 0..(2^OctetBits - 1)
    BY FirstFacts
  <2> HIDE DEF o
  <2>5. BitAnd(o, 2^OctetBits - 2^(OctetBits - rest)) = o - (o % 2^(OctetBits - rest))
    BY <2>1, <2>3, <2>4, AndMask
  <2>6. QED
    BY <2>2, <2>5 DEF o
<1>8. \A j \in 1..Octets :
        Cut6(x, len)[j] =
          IF j <= idx THEN OctetsOf(x)[j]
          ELSE IF j = idx + 1 /\ rest > 0
          THEN OctetsOf(x)[j] - (OctetsOf(x)[j] % 2^(OctetBits - rest))
          ELSE 0
  BY <1>4, <1>7
<1>9. QED
  BY <1>1, <1>3, <1>5, <1>6, <1>8

LEMMA DivFurther ==
  ASSUME NEW x \in Nat, NEW a \in Nat, NEW c \in Nat
  PROVE  (x \div 2^a) \div 2^c = x \div 2^(a + c)
<1>1. 2^a \in Nat /\ 2^a >= 1 /\ 2^c \in Nat /\ 2^c >= 1
  BY PowPositive
<1> DEFINE p == 2^a
           s == 2^c
<1>2. p \in Nat /\ p # 0 /\ s \in Nat /\ s # 0
  BY <1>1
<1>3. 2^(a + c) = p * s
  BY PowAdd
<1> HIDE DEF p, s
<1>4. x \div (p * s) = (x \div p) \div s
  BY <1>2, DivTwice
<1>5. QED
  BY <1>3, <1>4 DEF p, s

LEMMA Mask6Clears ==
  ASSUME NEW x \in Addrs, NEW len \in Lengths
  PROVE  Mask6(x, len) = Masked(x, len)
<1> DEFINE c == Cut6(x, len)
           b == OctetBits
           Q == x \div 2^(Bits - len)
<1>1. /\ b \in Nat /\ b >= 1 /\ Octets \in Nat /\ Octets >= 1 /\ Bits \in Nat
      /\ len \in 0..Bits /\ x \in Nat /\ 2^b \in Nat /\ 2^b >= 1
      /\ Bits - len \in Nat
  <2>1. b \in Nat /\ b >= 1 /\ Octets \in Nat /\ Octets >= 1
    BY ReachFacts
  <2>2. Bits \in Nat /\ len \in 0..Bits /\ x \in Nat
    BY BitsPositive, AddrLess DEF Lengths
  <2>3. QED
    BY <2>1, <2>2, PowPositive
<1>2. PICK idx \in 0..Octets, rest \in 0..(b - 1) :
        /\ len = Reach(idx) + rest
        /\ idx = Octets => rest = 0
        /\ \A j \in 1..Octets :
             c[j] = IF j <= idx THEN OctetsOf(x)[j]
                    ELSE IF j = idx + 1 /\ rest > 0
                    THEN OctetsOf(x)[j] - (OctetsOf(x)[j] % 2^(b - rest))
                    ELSE 0
  BY Cut6Octets
<1>3. /\ First(x, 0) = 0 /\ First(x, Octets) = x
      /\ \A j \in 0..Octets : First(x, j) \in Nat
      /\ \A j \in 1..Octets :
           /\ OctetsOf(x)[j] \in 0..(2^b - 1)
           /\ OctetsOf(x)[j] = First(x, j) % 2^b
           /\ First(x, j) = First(x, j - 1) * 2^b + OctetsOf(x)[j]
  BY FirstFacts
<1>4. Q \in Int /\ x - (x % 2^(Bits - len)) = Q * 2^(Bits - len)
  BY <1>1, Cleared
<1>5. \A j \in 0..Octets :
        /\ Reach(j) \in Nat /\ Bits - Reach(j) \in Nat
        /\ j > idx => Reach(j) - len \in Nat
  <2> TAKE j \in 0..Octets
  <2>1. j \in Nat /\ idx \in Nat /\ j <= Octets
    BY <1>1
  <2>2. Reach(j) \in Nat /\ Reach(j) <= Reach(Octets) /\ Reach(Octets) = Bits
    BY <1>1, <2>1, ReachFacts
  <2>3. ASSUME j > idx
        PROVE  Reach(j) >= len
    <3>1. Reach(idx + 1) = Reach(idx) + b /\ Reach(idx) \in Nat
      BY <2>1, ReachFacts
    <3>2. idx + 1 <= j /\ idx + 1 \in Nat
      BY <2>1, <2>3
    <3>3. Reach(idx + 1) <= Reach(j)
      BY <2>1, <3>2, ReachFacts
    <3>4. QED
      BY <1>1, <1>2, <2>2, <3>1, <3>3
  <2>4. QED
    BY <1>1, <2>2, <2>3
<1>6. c \in [1..Octets -> Nat]
  <2>1. ASSUME NEW j \in 1..Octets
        PROVE  c[j] \in Nat
    <3> DEFINE o == OctetsOf(x)[j]
    <3>1. o \in Nat
      BY <1>1, <1>3
    <3> HIDE DEF o
    <3>2. o - (o % 2^(b - rest)) \in Nat
      <4>1. b - rest \in Nat
        BY <1>1
      <4>2. QED
        BY <3>1, <4>1, Cleared
    <3>3. c[j] = o \/ c[j] = o - (o % 2^(b - rest)) \/ c[j] = 0
      BY <1>2 DEF o
    <3>4. QED
      BY <3>1, <3>2, <3>3
  <2>2. c = [j \in 1..Octets |-> c[j]]
    BY DEF Cut6
  <2> HIDE DEF c
  <2>3. QED
    BY <2>1, <2>2
<1> HIDE DEF c
<1>7. PICK f : IsJoin(f, c) /\ FromOctets(c) = f[Octets]
  BY <1>6, FromOctetsUnfolds
<1>8. f[0] = 0 /\ \A j \in 1..Octets : f[j] = f[j - 1] * 2^b + c[j]
  <2>1. \A j \in 0..Octets : f[j] = IF j = 0 THEN 0 ELSE f[j - 1] * 2^b + c[j]
    BY <1>7 DEF IsJoin
  <2>2. 0 \in 0..Octets /\ \A j \in 1..Octets : j \in 0..Octets /\ j # 0
    BY <1>1
  <2>3. QED
    BY <2>1, <2>2
<1> DEFINE Value(j) == IF j <= idx THEN First(x, j) ELSE Q * 2^(Reach(j) - len)
           T == {j \in Nat : j <= Octets => f[j] = Value(j)}
<1> HIDE DEF Q
<1>9. 0 \in T
  <2>1. 0 <= idx
    OBVIOUS
  <2>2. QED
    BY <1>3, <1>8, <2>1
<1>10. ASSUME NEW i \in Nat, i \in T
       PROVE  i + 1 \in T
  <2> SUFFICES ASSUME i + 1 <= Octets
               PROVE  f[i + 1] = Value(i + 1)
    OBVIOUS
  <2> DEFINE j == i + 1
  <2>1. /\ i \in 0..Octets /\ j \in 1..Octets /\ j \in 0..Octets /\ j - 1 = i
        /\ j \in Nat /\ idx \in Nat
    BY <1>1
  <2>2. f[j] = Value(i) * 2^b + c[j]
    <3>1. f[i] = Value(i)
      BY <1>1, <1>10, <2>1
    <3>2. f[j] = f[j - 1] * 2^b + c[j]
      BY <1>8, <2>1
    <3> HIDE DEF Value, j
    <3>3. QED
      BY <2>1, <3>1, <3>2
  <2>3. Reach(j) = Reach(i) + b
    BY ReachFacts
  <2>4. /\ OctetsOf(x)[j] \in 0..(2^b - 1)
        /\ OctetsOf(x)[j] = First(x, j) % 2^b
        /\ First(x, j) = First(x, i) * 2^b + OctetsOf(x)[j]
        /\ First(x, i) \in Nat /\ First(x, j) \in Nat
    BY <1>3, <2>1
  <2>5. /\ Reach(i) \in Nat /\ Reach(j) \in Nat /\ Bits - Reach(j) \in Nat
        /\ i > idx => Reach(i) - len \in Nat
        /\ j > idx => Reach(j) - len \in Nat
    BY <1>5, <2>1
  <2>6. c[j] = IF j <= idx THEN OctetsOf(x)[j]
               ELSE IF j = idx + 1 /\ rest > 0
               THEN OctetsOf(x)[j] - (OctetsOf(x)[j] % 2^(b - rest))
               ELSE 0
    BY <1>2, <2>1
  <2>7. CASE j <= idx
    <3>1. i <= idx /\ c[j] = OctetsOf(x)[j]
      BY <2>1, <2>6, <2>7
    <3>2. Value(i) = First(x, i) /\ Value(j) = First(x, j)
      BY <2>7, <3>1
    <3> HIDE DEF Value, j
    <3>3. QED
      BY <2>2, <2>4, <3>1, <3>2 DEF j
  <2>8. CASE j = idx + 1 /\ rest > 0
    <3>1. /\ i = idx /\ i <= idx /\ ~(j <= idx) /\ b - rest \in Nat /\ b - rest <= b
          /\ Reach(j) - len = b - rest
          /\ (Bits - Reach(j)) + (b - rest) = Bits - len
      <4>1. i = idx /\ len = Reach(i) + rest
        BY <1>2, <2>1, <2>8
      <4>2. rest \in Nat /\ rest <= b - 1
        BY <1>1
      <4>3. QED
        BY <1>1, <2>1, <2>3, <2>5, <2>8, <4>1, <4>2
    <3>2. c[j] = OctetsOf(x)[j] - (OctetsOf(x)[j] % 2^(b - rest))
      BY <2>6, <2>8, <3>1
    <3>3. Value(i) = First(x, i) /\ Value(j) = Q * 2^(b - rest)
      BY <3>1
    <3> DEFINE y == First(x, j)
               o == OctetsOf(x)[j]
               d == b - rest
    <3>4. o % 2^d = y % 2^d
      <4>1. (y % 2^b) % 2^d = y % 2^d
        BY <1>1, <2>4, <3>1, ModOfMod
      <4>2. QED
        BY <2>4, <4>1
    <3>5. y - (y % 2^d) = (y \div 2^d) * 2^d
      BY <2>4, <3>1, Cleared
    <3>6. y \div 2^d = Q
      <4> DEFINE a == Bits - Reach(j)
      <4>1. a \in Nat /\ d \in Nat /\ x \in Nat /\ a + d = Bits - len
        BY <1>1, <2>5, <3>1
      <4>2. y = x \div 2^a
        BY DEF First
      <4> HIDE DEF a, d, y
      <4>3. (x \div 2^a) \div 2^d = x \div 2^(a + d)
        BY <4>1, DivFurther
      <4>4. QED
        BY <4>1, <4>2, <4>3 DEF Q
    <3>7. y % 2^d \in Int
      <4>1. 2^d \in Nat /\ 2^d >= 1
        BY <3>1, PowPositive
      <4>2. 2^d # 0
        BY <4>1
      <4> DEFINE p == 2^d
      <4>3. y \in Int /\ p \in Nat /\ p # 0
        BY <2>4, <4>1, <4>2
      <4> HIDE DEF y, d, p
      <4>4. y % p \in 0..(p - 1)
        BY <4>3, DivParts
      <4>5. y % p \in Int
        BY <4>3, <4>4
      <4>6. QED
        BY <4>5 DEF p
    <3> DEFINE t == y % 2^d
               u == First(x, i) * 2^b
    <3>8. u \in Int /\ o \in Int /\ y = u + o /\ f[j] = u + (o - t)
      <4>1. u \in Int
        BY <1>1, <2>4
      <4>2. o \in Int
        BY <1>1, <2>4
      <4>3. f[j] = u + (o - t)
        BY <2>2, <3>2, <3>3, <3>4
      <4>4. QED
        BY <2>4, <4>1, <4>2, <4>3
    <3>9. y - t = Q * 2^d
      BY <3>5, <3>6
    <3> HIDE DEF t, u, o, y, d, Value, j
    <3>10. t \in Int
      BY <3>7 DEF t
    <3>11. f[j] = y - t
      BY <3>8, <3>10
    <3>12. QED
      BY <3>3, <3>9, <3>11 DEF d, j
  <2>9. CASE j = idx + 1 /\ rest = 0
    <3>1. /\ i = idx /\ i <= idx /\ ~(j <= idx) /\ Reach(i) = len
          /\ Reach(j) - len = b
      BY <1>1, <1>2, <2>1, <2>3, <2>5, <2>9
    <3>2. c[j] = 0
      BY <2>6, <2>9, <3>1
    <3>3. Value(i) = First(x, i) /\ Value(j) = Q * 2^b
      BY <3>1
    <3>4. First(x, i) = Q
      BY <3>1 DEF First, Q
    <3>5. Q * 2^b \in Int
      BY <1>1, <1>4
    <3> HIDE DEF Value, j
    <3>6. QED
      BY <2>2, <3>2, <3>3, <3>4, <3>5 DEF j
  <2>10. CASE j > idx + 1
    <3>1. i > idx /\ ~(i <= idx) /\ ~(j <= idx) /\ j # idx + 1
      BY <2>1, <2>10
    <3>2. c[j] = 0
      BY <2>6, <3>1
    <3> DEFINE d == Reach(i) - len
    <3>3. d \in Nat /\ Reach(j) - len = d + b
      BY <1>1, <2>3, <2>5, <3>1
    <3>4. Value(i) = Q * 2^d /\ Value(j) = Q * 2^(d + b)
      BY <3>1, <3>3
    <3> HIDE DEF Value, j, d
    <3>5. 2^(d + b) = 2^d * 2^b /\ 2^d \in Nat
      BY <1>1, <3>3, PowAdd, PowPositive
    <3> DEFINE r == 2^d
               s == 2^b
    <3>6. r \in Int /\ s \in Int
      BY <1>1, <3>5
    <3> HIDE DEF r, s
    <3>7. (Q * r) * s + 0 = Q * (r * s)
      BY <1>4, <3>6
    <3>8. f[j] = (Q * r) * s + 0 /\ Value(j) = Q * (r * s)
      BY <2>2, <3>2, <3>4, <3>5 DEF r, s
    <3>9. QED
      BY <3>7, <3>8 DEF j
  <2>11. QED
    BY <2>1, <2>7, <2>8, <2>9, <2>10
<1> HIDE DEF T
<1>11. Octets \in T
  BY <1>1, <1>9, <1>10, Induction
<1>12. f[Octets] = Value(Octets)
  BY <1>1, <1>11 DEF T
<1>13. Value(Octets) = Masked(x, len)
  <2>1. Reach(Octets) = Bits
    BY ReachFacts
  <2>2. CASE Octets <= idx
    <3>1. idx = Octets /\ rest = 0
      BY <1>1, <1>2, <2>2
    <3>2. Bits - len = 0
      BY <1>1, <1>2, <2>1, <3>1
    <3>3. x % 1 = 0 /\ 2^0 = 1
      BY <1>1
    <3>4. Masked(x, len) = x
      BY <1>1, <3>2, <3>3 DEF Masked
    <3>5. QED
      BY <1>3, <2>2, <3>4
  <2>3. CASE ~(Octets <= idx)
    <3>1. Value(Octets) = Q * 2^(Bits - len)
      BY <2>1, <2>3
    <3>2. QED
      BY <1>4, <3>1 DEF Masked
  <2>4. QED
    BY <2>2, <2>3
<1>14. Mask6(x, len) = FromOctets(c)
  BY Cut6Octets DEF c
<1>15. QED
  BY <1>7, <1>12, <1>13, <1>14

(* Both ways to compute with prefixes agree with what a prefix is, for     *)
(* addresses of any number of octets of any width.                         *)
THEOREM PrefixesAreShared == MembersShareBits
<1> SUFFICES ASSUME NEW v6 \in BOOLEAN, NEW base \in Addrs, NEW ip \in Addrs,
                    NEW len \in Lengths
             PROVE  IsMember(NewCidr(v6, base, len), [v6 |-> v6, ip |-> ip])
                      = ShareBits(base, ip, len)
  BY DEF MembersShareBits
<1>1. IsMember(NewCidr(v6, base, len), [v6 |-> v6, ip |-> ip])
        = (Mask(v6, ip, len) = Mask(v6, base, len))
  BY DEF IsMember, NewCidr
<1>2. \A x \in Addrs : Mask(v6, x, len) = Masked(x, len)
  BY Mask4Clears, Mask6Clears DEF Mask
<1> DEFINE p == 2^(Bits - len)
           q == base \div p
           r == ip \div p
<1>3. p \in Nat /\ p >= 1
  <2>1. Bits - len \in Nat
    BY BitsPositive DEF Lengths
  <2>2. QED
    BY <2>1, PowPositive
<1>4. \A x \in Addrs : Masked(x, len) = (x \div p) * p /\ x \div p \in Int
  <2>1. Bits - len \in Nat
    BY BitsPositive DEF Lengths
  <2>2. \A x \in Addrs : x \in Nat
    BY AddrLess
  <2>3. QED
    BY <2>1, <2>2, Cleared DEF Masked
<1>5. ShareBits(base, ip, len) = (q = r)
  BY DEF ShareBits
<1>6. /\ Masked(base, len) = q * p /\ q \in Int
      /\ Masked(ip, len) = r * p /\ r \in Int
  BY <1>4
<1> HIDE DEF p, q, r
<1>7. (r * p = q * p) = (q = r)
  <2>1. ASSUME r * p = q * p
        PROVE  q = r
    <3>1. (q - r) * p = 0
      BY <1>3, <1>6, <2>1
    <3>2. q - r = 0
      BY <1>3, <1>6, <3>1, Small
    <3>3. QED
      BY <1>6, <3>2
  <2>2. QED
    BY <2>1
<1>8. QED
  BY <1>1, <1>2, <1>5, <1>6, <1>7

-----------------------------------------------------------------------------
(* A route is a rule of the table.                                         *)
LEMMA RouteIsRule ==
  ASSUME NEW d \in Dests, NEW target \in Targets, ValidPair(d, target)
  PROVE  MakeRule(d, target) \in Rule
<1>1. <<d, target>> \in {q \in Dests \X Targets : ValidPair(q[1], q[2])}
  OBVIOUS
<1>2. MakeRule(d, target) \in Routes
  BY <1>1 DEF Routes
<1>3. QED
  BY <1>2, RouterAssumption

(* And a rule of the table is a route.                                     *)
LEMMA RuleIsRoute ==
  ASSUME NEW r \in Rule
  PROVE  \E d \in Dests, target \in Targets : r = MakeRule(d, target)
<1>1. r \in Routes
  BY RouterAssumption
<1>2. PICK p \in {q \in Dests \X Targets : ValidPair(q[1], q[2])} :
        r = MakeRule(p[1], p[2])
  BY <1>1 DEF Routes
<1>3. p[1] \in Dests /\ p[2] \in Targets
  BY <1>2
<1>4. QED
  BY <1>2, <1>3

(* No two entries have one id.                                             *)
Unique == \A i, j \in DOMAIN rules : rules[i].id = rules[j].id => i = j

LEMMA InsertUnique ==
  ASSUME IInv, Unique, NEW r \in Rule, Insert(r)
  PROVE  Unique'
<1> DEFINE new == [id |-> nextId, rule |-> r]
           pos == FindPos(rules, r)
           n == Len(rules)
<1>1. n \in Nat /\ DOMAIN rules = 1..n
  BY LenProperties DEF IInv, TypeOK
<1>2. \A i \in 1..n : rules[i].id # new.id
  <2>1. rules \in Seq([id : 0..MaxId, rule : Rule]) /\ IdsIssued
    BY DEF IInv, TypeOK
  <2>2. \A i \in 1..n : rules[i].id \in Nat /\ rules[i].id < nextId
    <3>1. \A i \in 1..n : rules[i] \in [id : 0..MaxId, rule : Rule]
      BY <1>1, <2>1, ElementOfSeq
    <3>2. \A i \in 1..n : rules[i].id < nextId
      BY <1>1, <2>1 DEF IdsIssued
    <3>3. QED
      BY <3>1, <3>2, MaxIdAssumption
  <2>3. nextId \in Nat
    BY MaxIdAssumption DEF IInv, TypeOK
  <2>4. QED
    BY <2>2, <2>3
<1> HIDE DEF new, pos, n
<1>3. /\ pos \in 1..(n + 1)
      /\ DOMAIN rules' = 1..(n + 1)
      /\ \A j \in 1..(n + 1) :
           rules'[j] = IF j < pos THEN rules[j]
                       ELSE IF j = pos THEN new ELSE rules[j - 1]
  BY InsertShape DEF IInv, n, pos, new
<1>4. \A i, j \in 1..n : rules[i].id = rules[j].id => i = j
  BY <1>1 DEF Unique
<1>5. ASSUME NEW i \in 1..(n + 1), NEW j \in 1..(n + 1), i < j
      PROVE  rules'[i].id # rules'[j].id
  <2>1. CASE j < pos
    BY <1>1, <1>3, <1>4, <1>5, <2>1
  <2>2. CASE j = pos
    BY <1>1, <1>2, <1>3, <1>5, <2>2
  <2>3. CASE j > pos /\ i < pos
    BY <1>1, <1>3, <1>4, <1>5, <2>3
  <2>4. CASE j > pos /\ i = pos
    BY <1>1, <1>2, <1>3, <1>5, <2>4
  <2>5. CASE i > pos
    BY <1>1, <1>3, <1>4, <1>5, <2>5
  <2>6. QED
    BY <1>1, <1>3, <1>5, <2>1, <2>2, <2>3, <2>4, <2>5
<1>6. \A i, j \in 1..(n + 1) : rules'[i].id = rules'[j].id => i = j
  <2>1. \A i, j \in 1..(n + 1) : i < j \/ i = j \/ j < i
    BY <1>1
  <2>2. QED
    BY <1>5, <2>1
<1>7. QED
  BY <1>3, <1>6 DEF Unique

LEMMA RemoveUnique ==
  ASSUME TypeOK, Unique, NEW id, RemoveRule(id)
  PROVE  Unique'
<1>1. rules \in Seq([id : 0..MaxId, rule : Rule])
  BY DEF TypeOK
<1>2. Len(rules) \in Nat /\ DOMAIN rules = 1..Len(rules)
  BY <1>1, LenProperties
<1>3. PICK k \in 1..Len(rules) : rules' = RemoveAt(rules, k)
  BY <1>2 DEF RemoveRule
<1>4. /\ rules' \in Seq([id : 0..MaxId, rule : Rule])
      /\ Len(rules') = Len(rules) - 1
      /\ \A j \in 1..(Len(rules) - 1) :
           rules'[j] = IF j < k THEN rules[j] ELSE rules[j + 1]
  BY <1>1, <1>3, RemoveAtElements
<1>5. DOMAIN rules' = 1..(Len(rules) - 1)
  BY <1>4, LenProperties
<1>6. \A i, j \in 1..Len(rules) : rules[i].id = rules[j].id => i = j
  BY <1>2 DEF Unique
<1>7. ASSUME NEW i \in DOMAIN rules', NEW j \in DOMAIN rules',
             rules'[i].id = rules'[j].id
      PROVE  i = j
  <2>1. /\ i \in 1..(Len(rules) - 1) /\ j \in 1..(Len(rules) - 1)
        /\ rules'[i] = IF i < k THEN rules[i] ELSE rules[i + 1]
        /\ rules'[j] = IF j < k THEN rules[j] ELSE rules[j + 1]
    BY <1>4, <1>5, <1>7
  <2>2. CASE i < k /\ j < k
    BY <1>2, <1>6, <1>7, <2>1, <2>2
  <2>3. CASE i < k /\ j >= k
    BY <1>2, <1>6, <1>7, <2>1, <2>3
  <2>4. CASE i >= k /\ j < k
    BY <1>2, <1>6, <1>7, <2>1, <2>4
  <2>5. CASE i >= k /\ j >= k
    BY <1>2, <1>6, <1>7, <2>1, <2>5
  <2>6. QED
    BY <1>2, <2>1, <2>2, <2>3, <2>4, <2>5
<1>8. QED
  BY <1>7 DEF Unique

LEMMA StepUnique == IInv /\ Unique /\ [Next]_vars => Unique'
<1> SUFFICES ASSUME IInv, Unique, [Next]_vars
             PROVE  Unique'
  OBVIOUS
<1>1. ASSUME NEW r \in Rule, AddRule(r)
      PROVE  Unique'
  BY <1>1, InsertUnique DEF AddRule
<1>2. ASSUME NEW id, RemoveRule(id)
      PROVE  Unique'
  BY <1>2, RemoveUnique DEF IInv
<1>3. ASSUME NEW batch \in Batches, SetRules(batch)
      PROVE  Unique'
  BY <1>3 DEF SetRules, Unique
<1>4. CASE SetRulesAdd
  <2>1. Head(pending) \in Rule /\ Insert(Head(pending))
    BY <1>4, HeadTailProperties DEF SetRulesAdd, IInv, TypeOK
  <2>2. QED
    BY <2>1, InsertUnique
<1>5. CASE UNCHANGED vars
  BY <1>5 DEF vars, Unique
<1>6. QED
  BY <1>1, <1>2, <1>3, <1>4, <1>5 DEF Next

(* Every step of the router is one of its table, or leaves it alone.       *)
LEMMA StepOfTable == [RouterNext]_routerVars => [Next]_vars
<1> SUFFICES ASSUME [RouterNext]_routerVars
             PROVE  [Next]_vars
  OBVIOUS
<1>1. ASSUME NEW d \in Dests, NEW target \in Targets, AddEntry(d, target)
      PROVE  Next
  BY <1>1, RouteIsRule DEF AddEntry, Next
<1>2. ASSUME NEW entries \in Entries, Replace(entries)
      PROVE  Next
  <2> DEFINE batch == [i \in DOMAIN entries |-> MakeRule(entries[i].d, entries[i].target)]
  <2>1. PICK n \in 0..MaxBatch : entries \in [1..n -> [d : Dests, target : Targets]]
    BY <1>2 DEF Entries
  <2>2. \A i \in DOMAIN entries :
          MakeRule(entries[i].d, entries[i].target) \in Rule
    BY <1>2, <2>1, RouteIsRule DEF Replace
  <2>3. batch \in [1..n -> Rule]
    BY <2>1, <2>2
  <2>4. SetRules(batch)
    BY <1>2 DEF Replace
  <2> HIDE DEF batch
  <2>5. batch \in Batches
    BY <2>3 DEF Batches
  <2>6. QED
    BY <2>4, <2>5 DEF Next
<1>3. CASE SetRulesAdd /\ UNCHANGED asked
  BY <1>3 DEF Next
<1>4. ASSUME NEW c \in Callers, NEW d \in Dests, NEW target \in Targets,
             DelFind(c, d, target)
      PROVE  UNCHANGED vars
  BY <1>4 DEF DelFind
<1>5. ASSUME NEW c \in Callers, DelRemove(c)
      PROVE  [Next]_vars
  <2>1. CASE RemoveRule(asked[c].id)
    <3>1. asked[c].id \in Ids
      BY <2>1 DEF RemoveRule, Ids
    <3>2. QED
      BY <2>1, <3>1 DEF Next
  <2>2. QED
    BY <1>5, <2>1 DEF DelRemove
<1>6. CASE UNCHANGED routerVars
  BY <1>6 DEF routerVars
<1>7. QED
  BY <1>1, <1>2, <1>3, <1>4, <1>5, <1>6 DEF RouterNext

(* The router implements a rule table: whatever callers do, its outbound   *)
(* rules take only the steps of RuleTable (router.rs through add_rule,     *)
(* set_rules and remove_rule of the port).                                 *)
THEOREM RouterIsATable == RouterSpec => Spec
<1>1. RouterInit => Init
  BY DEF RouterInit
<1>2. QED
  BY <1>1, StepOfTable, PTL DEF RouterSpec, Spec

-----------------------------------------------------------------------------
(* What the table and the packet's address say of a packet is the same.    *)
LEMMA ViewsAgree ==
  \A p \in Views : p.sat = p.start /\ p.sat \subseteq Preds
<1>1. ASSUME NEW a \in Packets, NEW d \in Dests
      PROVE  IsMember(d, a) <=> d.v6 = a.v6 /\ ShareBits(d.ip, a.ip, d.len)
  <2>1. /\ d.v6 \in BOOLEAN /\ d.ip \in Addrs /\ d.len \in Lengths
        /\ d = NewCidr(d.v6, d.ip, d.len)
    BY RouterAssumption
  <2>2. a.v6 \in BOOLEAN /\ a.ip \in Addrs /\ a = [v6 |-> a.v6, ip |-> a.ip]
    BY DEF Packets
  <2>3. CASE d.v6 = a.v6
    <3>1. IsMember(NewCidr(a.v6, d.ip, d.len), [v6 |-> a.v6, ip |-> a.ip])
            = ShareBits(d.ip, a.ip, d.len)
      BY <2>1, <2>2, PrefixesAreShared DEF MembersShareBits
    <3>2. IsMember(d, a) = ShareBits(d.ip, a.ip, d.len)
      BY <2>1, <2>2, <2>3, <3>1, Zenon
    <3>3. QED
      BY <2>3, <3>2
  <2>4. CASE d.v6 # a.v6
    BY <2>4 DEF IsMember
  <2>5. QED
    BY <2>3, <2>4
<1>2. QED
  BY <1>1, RouterAssumption DEF Views

(* The best match is the longest prefix: priorities fall with the length.  *)
LEMMA BestIsLongest == TypeOK /\ MatchIsBest => LongestPrefixWins
<1> SUFFICES ASSUME TypeOK, MatchIsBest, NEW p \in Views, NEW i \in Fits(p)
             PROVE  LET m == FindMatch(rules, p.sat)
                    IN /\ m \in Fits(p)
                       /\ \A d \in rules[i].rule.preds, best \in rules[m].rule.preds :
                            /\ d.len <= best.len
                            /\ d.len = best.len /\ rules[i].rule.deny
                                 => rules[m].rule.deny
  BY DEF LongestPrefixWins
<1> DEFINE m == FindMatch(rules, p.sat)
<1>1. p.sat = p.start /\ p.sat \in SUBSET Preds
  BY ViewsAgree
<1>2. i \in DOMAIN rules /\ IsMatch(rules[i].rule, p.sat)
  BY <1>1 DEF Fits, IsMatch
<1>3. m \in DOMAIN rules /\ IsMatch(rules[m].rule, p.sat)
  BY <1>2, FindMatchFirst
<1>4. m = i \/ Outranks(rules[m], rules[i])
  BY <1>1, <1>2 DEF MatchIsBest
<1> HIDE DEF m
<1>5. m \in Fits(p)
  BY <1>1, <1>3 DEF Fits, IsMatch
<1>6. \A k \in DOMAIN rules :
        /\ rules[k].rule.deny \in BOOLEAN
        /\ \E d \in Dests : /\ rules[k].rule.preds = {d}
                            /\ rules[k].rule.prio = (Bits - d.len) + 10
                            /\ d.len \in 0 .. Bits
  <2> SUFFICES ASSUME NEW k \in DOMAIN rules
               PROVE  /\ rules[k].rule.deny \in BOOLEAN
                      /\ \E d \in Dests :
                           /\ rules[k].rule.preds = {d}
                           /\ rules[k].rule.prio = (Bits - d.len) + 10
                           /\ d.len \in 0 .. Bits
    OBVIOUS
  <2>1. rules[k].rule \in Rule
    <3>1. rules \in Seq([id : 0..MaxId, rule : Rule])
      BY DEF TypeOK
    <3>2. DOMAIN rules = 1..Len(rules)
      BY <3>1, LenProperties
    <3>3. rules[k] \in [id : 0..MaxId, rule : Rule]
      BY <3>1, <3>2, ElementOfSeq
    <3>4. QED
      BY <3>3
  <2>2. PICK d \in Dests, target \in Targets : rules[k].rule = MakeRule(d, target)
    BY <2>1, RuleIsRoute
  <2>3. d.len \in 0 .. Bits
    BY RouterAssumption DEF Lengths
  <2>4. QED
    BY <2>2, <2>3 DEF MakeRule, Priority
<1>7. PICK d \in Dests : /\ rules[i].rule.preds = {d}
                         /\ rules[i].rule.prio = (Bits - d.len) + 10
                         /\ d.len \in 0 .. Bits
  BY <1>2, <1>6
<1>8. PICK best \in Dests : /\ rules[m].rule.preds = {best}
                            /\ rules[m].rule.prio = (Bits - best.len) + 10
                            /\ best.len \in 0 .. Bits
  BY <1>3, <1>6
<1>9. Bits \in Nat
  BY CidrAssumption DEF Bits
<1>10. /\ d.len <= best.len
       /\ d.len = best.len /\ rules[i].rule.deny => rules[m].rule.deny
  <2>1. CASE m = i
    <3>1. d = best
      BY <2>1, <1>7, <1>8
    <3>2. QED
      BY <2>1, <3>1, <1>7, <1>9
  <2>2. CASE Outranks(rules[m], rules[i])
    BY <2>2, <1>6, <1>2, <1>3, <1>7, <1>8, <1>9 DEF Outranks
  <2>3. QED
    BY <1>4, <2>1, <2>2 DEF m
<1>11. QED
  BY <1>5, <1>7, <1>8, <1>10 DEF m

(* A packet takes the route with the longest prefix, whatever routes were  *)
(* added, replaced and deleted, in either family.                          *)
THEOREM LongestRouteWins == RouterSpec => []LongestPrefixWins
<1>1. IInv => LongestPrefixWins
  BY OrderedMatchIsBest, BestIsLongest DEF IInv
<1>2. QED
  BY <1>1, RouterIsATable, IInvHolds, PTL

-----------------------------------------------------------------------------
(* What a caller of del_entry() holds between its two halves: an id that   *)
(* was issued and that, if it is still in the table, is that of a route    *)
(* for the destination.                                                    *)
HeldOK(held) ==
  \/ held = None
  \/ /\ held.id \in Nat /\ held.id < nextId
     /\ \A i \in DOMAIN rules :
          rules[i].id = held.id => rules[i].rule.preds = {held.dest}

AskedOK == DOMAIN asked = Callers /\ \A c \in Callers : HeldOK(asked[c])

RouterIInv == IInv /\ Unique /\ AskedOK

(* A step of the table leaves true what a caller holds.                    *)
LEMMA TableKeepsHeld ==
  ASSUME IInv, IInv', [Next]_vars, NEW CONSTANT held, HeldOK(held)
  PROVE  HeldOK(held)'
<1>1. Stable /\ nextId' >= nextId
  BY StepIsStable
<1>2. nextId \in Nat /\ nextId' \in Nat
  BY MaxIdAssumption DEF IInv, TypeOK
<1>3. CASE held = None
  BY <1>3 DEF HeldOK
<1>4. CASE held # None
  <2>1. held.id \in Nat /\ held.id < nextId
    BY <1>4 DEF HeldOK
  <2>2. ASSUME NEW i \in DOMAIN rules', rules'[i].id = held.id
        PROVE  rules'[i].rule.preds = {held.dest}
    <3>1. PICK k \in DOMAIN rules : rules[k] = rules'[i]
      BY <1>1, <2>1, <2>2 DEF Stable
    <3>2. rules[k].rule.preds = {held.dest}
      BY <1>4, <2>2, <3>1 DEF HeldOK
    <3>3. QED
      BY <3>1, <3>2
  <2>3. QED
    BY <1>1, <1>2, <2>1, <2>2 DEF HeldOK
<1>5. QED
  BY <1>3, <1>4

(* What the lookup finds is held rightly.                                  *)
LEMMA FoundIsHeld ==
  ASSUME IInv, NEW c \in Callers, NEW d \in Dests, NEW target \in Targets,
         DelFind(c, d, target), DOMAIN asked = Callers, Unique
  PROVE  HeldOK(asked'[c])
<1> DEFINE r == MakeRule(d, target)
           same == {i \in DOMAIN rules : rules[i].rule.preds = r.preds}
           k == FindRule(rules, r)
<1>1. k # 0 /\ asked'[c] = [dest |-> d, target |-> target, id |-> rules[k].id]
  BY DEF DelFind
<1>2. r.preds = {d}
  BY DEF MakeRule
<1> HIDE DEF r
<1>3. same # {} => \E x \in same : \A y \in same : x <= y
  <2>1. same \in SUBSET Nat
    BY LenProperties DEF IInv, TypeOK
  <2> HIDE DEF same
  <2>2. QED
    BY <2>1, NatLeast
<1>4. k \in same
  <2>1. k = IF same = {} THEN 0 ELSE CHOOSE x \in same : \A y \in same : x <= y
    BY DEF FindRule
  <2> HIDE DEF k, same
  <2>2. QED
    BY <1>1, <1>3, <2>1
<1>5. rules[k].id \in Nat /\ rules[k].id < nextId
  <2>1. rules \in Seq([id : 0..MaxId, rule : Rule]) /\ IdsIssued
    BY DEF IInv, TypeOK
  <2>2. DOMAIN rules = 1..Len(rules)
    BY <2>1, LenProperties
  <2> HIDE DEF k
  <2>3. rules[k] \in [id : 0..MaxId, rule : Rule]
    BY <1>4, <2>1, <2>2, ElementOfSeq
  <2>4. QED
    BY <1>4, <2>1, <2>3 DEF IdsIssued
<1> HIDE DEF k
<1>6. \A i \in DOMAIN rules :
        rules[i].id = rules[k].id => rules[i].rule.preds = {d}
  BY <1>2, <1>4 DEF Unique
<1>7. QED
  BY <1>1, <1>5, <1>6 DEF HeldOK

(* The router's invariant holds at first and after every step.             *)
LEMMA RouterInitIInv == RouterInit => RouterIInv
  BY InitIInv DEF RouterInit, Init, RouterIInv, AskedOK, HeldOK, Unique

LEMMA RouterNextIInv == RouterIInv /\ [RouterNext]_routerVars => RouterIInv'
<1> SUFFICES ASSUME RouterIInv, [RouterNext]_routerVars
             PROVE  RouterIInv'
  OBVIOUS
<1>1. [Next]_vars
  BY StepOfTable
<1>2. IInv' /\ Unique'
  BY <1>1, NextIInv, StepUnique DEF RouterIInv
<1>3. ASSUME NEW c \in Callers, asked'[c] = asked[c]
      PROVE  HeldOK(asked[c])'
  <2>1. PICK held : held = asked[c]
    OBVIOUS
  <2>2. HeldOK(held)
    BY <2>1 DEF RouterIInv, AskedOK
  <2>3. HeldOK(held)'
    BY <1>1, <1>2, <2>2, TableKeepsHeld DEF RouterIInv
  <2>4. QED
    BY <1>3, <2>1, <2>3 DEF HeldOK
<1>4. DOMAIN asked = Callers
  BY DEF RouterIInv, AskedOK
<1>5. CASE asked' = asked
  BY <1>2, <1>3, <1>4, <1>5 DEF RouterIInv, AskedOK
<1>6. ASSUME NEW c \in Callers, NEW d \in Dests, NEW target \in Targets,
             DelFind(c, d, target)
      PROVE  RouterIInv'
  <2>1. HeldOK(asked'[c]) /\ UNCHANGED <<rules, nextId>>
    BY <1>4, <1>6, FoundIsHeld DEF RouterIInv, DelFind, vars
  <2>2. HeldOK(asked[c])'
    BY <2>1 DEF HeldOK
  <2>3. DOMAIN asked' = Callers /\ \A e \in Callers : e # c => asked'[e] = asked[e]
    BY <1>4, <1>6 DEF DelFind
  <2>4. \A e \in Callers : HeldOK(asked[e])'
    BY <1>3, <2>2, <2>3
  <2>5. QED
    BY <1>2, <2>3, <2>4 DEF RouterIInv, AskedOK
<1>7. ASSUME NEW c \in Callers, DelRemove(c)
      PROVE  RouterIInv'
  <2>1. asked' = [asked EXCEPT ![c] = None]
    BY <1>7 DEF DelRemove
  <2>2. /\ DOMAIN asked' = Callers
        /\ asked'[c] = None
        /\ \A e \in Callers : e # c => asked'[e] = asked[e]
    BY <1>4, <2>1
  <2>3. HeldOK(asked[c])'
    BY <2>2 DEF HeldOK
  <2>4. \A e \in Callers : HeldOK(asked[e])'
    BY <1>3, <2>2, <2>3
  <2>5. QED
    BY <1>2, <2>2, <2>4 DEF RouterIInv, AskedOK
<1>8. QED
  BY <1>5, <1>6, <1>7 DEF RouterNext, AddEntry, Replace, routerVars

(* A delete takes away one route or none, and one for its destination.     *)
THEOREM DeletesItsDest == RouterSpec => DeleteRemovesDest
<1> DEFINE Right(c) == Deletes(c) =>
             /\ \A i, j \in Gone : i = j
             /\ \A i \in Gone : rules[i].rule.preds = {asked[c].dest}
<1>1. ASSUME RouterIInv, NEW c \in Callers, DelRemove(c)
      PROVE  Right(c)
  <2>1. CASE RemoveRule(asked[c].id)
    <3>1. PICK k \in DOMAIN rules :
            /\ rules[k].id = asked[c].id
            /\ \A i \in DOMAIN rules :
                 i # k => \E j \in DOMAIN rules' : rules'[j] = rules[i]
      BY <1>1, <2>1, RemoveKeeps DEF RouterIInv, IInv
    <3>2. \A i \in Gone : i = k
      BY <3>1 DEF Gone
    <3>3. asked[c] # None => rules[k].rule.preds = {asked[c].dest}
      BY <1>1, <3>1 DEF RouterIInv, AskedOK, HeldOK
    <3>4. QED
      BY <3>2, <3>3 DEF Deletes
  <2>2. CASE UNCHANGED vars
    BY <2>2 DEF vars, Gone
  <2>3. QED
    BY <1>1, <2>1, <2>2 DEF DelRemove
<1>2. ASSUME RouterIInv, RouterNext, NEW c \in Callers
      PROVE  Right(c)
  <2>1. DOMAIN asked = Callers
    BY <1>2 DEF RouterIInv, AskedOK
  <2>2. CASE asked' = asked
    BY <2>2 DEF Deletes
  <2>3. ASSUME NEW e \in Callers, NEW d \in Dests, NEW target \in Targets,
               DelFind(e, d, target)
        PROVE  ~Deletes(c)
    BY <2>1, <2>3 DEF DelFind, Deletes
  <2>4. ASSUME NEW e \in Callers, DelRemove(e), e # c
        PROVE  ~Deletes(c)
    BY <2>1, <2>4 DEF DelRemove, Deletes
  <2>5. QED
    BY <1>1, <1>2, <2>2, <2>3, <2>4 DEF RouterNext, AddEntry, Replace
<1>3. RouterSpec => []RouterIInv
  BY RouterInitIInv, RouterNextIInv, PTL DEF RouterSpec
<1>4. RouterIInv /\ [RouterNext]_routerVars
        => [\A c \in Callers : Right(c)]_routerVars
  BY <1>2
<1>5. QED
  BY <1>3, <1>4, PTL DEF RouterSpec, DeleteRemovesDest
=============================================================================

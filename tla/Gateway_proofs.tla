--------------------------- MODULE Gateway_proofs ---------------------------
(***************************************************************************)
(* Proofs about the gateway layer, for any guests, transaction ids, and    *)
(* room in the queue and the UFT: what a guest was told is true, and       *)
(* nothing it sent takes the frames that configure it past the layer.      *)
(*                                                                         *)
(* The rules are looked up in a table that is made by a fold over the      *)
(* calls of add_rule().  Which rules it holds is shown by induction; their *)
(* order does not matter, since the rules that match one of the frames     *)
(* concerned all have the same action.                                     *)
(***************************************************************************)
EXTENDS Gateway, Integers, SequenceTheorems, WellFoundedInduction, TLAPS

(* A set of natural numbers that is not empty has a least one.             *)
LEMMA NatLeast ==
  ASSUME NEW T \in SUBSET Nat, T # {}
  PROVE  \E n \in T : \A m \in T : n <= m
<1>1. IsWellFoundedOn(OpToRel(<, Nat), Nat)
  BY NatLessThanWellFounded
<1>2. PICK n \in T : \A m \in T : <<m, n>> \notin OpToRel(<, Nat)
  BY <1>1, WFMin
<1>3. \A m \in T : ~(m < n)
  BY <1>2 DEF OpToRel
<1>4. QED
  BY <1>3

(* find_pos() finds a place in the table or at its end.                    *)
LEMMA FindPosInRange ==
  ASSUME NEW S, NEW s \in Seq(S), NEW r
  PROVE  FindPos(s, r) \in 1..(Len(s) + 1)
<1> DEFINE before == {i \in DOMAIN s : GoesBefore(r, s[i].rule)}
<1>1. Len(s) \in Nat /\ DOMAIN s = 1..Len(s)
  BY LenProperties
<1>2. CASE before = {}
  BY <1>1, <1>2 DEF FindPos
<1>3. CASE before # {}
  <2>1. before \in SUBSET Nat
    BY <1>1
  <2>2. \E i \in before : \A j \in before : i <= j
    BY <1>3, <2>1, NatLeast
  <2>3. (CHOOSE i \in before : \A j \in before : i <= j) \in before
    BY <2>2
  <2>4. FindPos(s, r) \in before
    BY <1>3, <2>3 DEF FindPos
  <2>5. QED
    BY <1>1, <2>4
<1>4. QED
  BY <1>2, <1>3

(* Vec::insert adds its element and keeps the others.                      *)
LEMMA InsertAtRange ==
  ASSUME NEW S, NEW s \in Seq(S), NEW i \in 1..(Len(s) + 1), NEW e \in S
  PROVE  /\ InsertAt(s, i, e) \in Seq(S)
         /\ Range(InsertAt(s, i, e)) = Range(s) \cup {e}
<1> DEFINE front == SubSeq(s, 1, i - 1)
           back == SubSeq(s, i, Len(s))
<1>1. /\ Len(s) \in Nat
      /\ \A j \in 1..Len(s) : s[j] \in S
  BY LenProperties, ElementOfSeq
<1>2. /\ front \in Seq(S)
      /\ Len(front) = i - 1
      /\ \A j \in 1..(i - 1) : front[j] = s[j]
  BY <1>1, SubSeqProperties
<1>3. /\ back \in Seq(S)
      /\ Len(back) = Len(s) - i + 1
      /\ \A j \in 1..(Len(s) - i + 1) : back[j] = s[i + j - 1]
  BY <1>1, SubSeqProperties
<1>4. InsertAt(s, i, e) = (front \o <<e>>) \o back
  BY DEF InsertAt
<1> DEFINE mid == <<e>>
<1>5. mid \in Seq(S) /\ Len(mid) = 1 /\ mid[1] = e
  OBVIOUS
<1> HIDE DEF front, back, mid
<1>6. Range(mid) = {e}
  <2>1. Range(mid) = {mid[j] : j \in 1..Len(mid)}
    BY <1>5, RangeEquality
  <2>2. QED
    BY <2>1, <1>5
<1>7. /\ (front \o mid) \o back \in Seq(S)
      /\ Range((front \o mid) \o back)
           = (Range(front) \cup {e}) \cup Range(back)
  <2>1. front \o mid \in Seq(S)
    BY <1>2, <1>5, ConcatProperties, Zenon
  <2>2. (front \o mid) \o back \in Seq(S)
    BY <1>3, <2>1, ConcatProperties, Zenon
  <2>3. /\ Range(front \o mid) = Range(front) \cup Range(mid)
        /\ Range((front \o mid) \o back) = Range(front \o mid) \cup Range(back)
    BY <1>2, <1>3, <1>5, <2>1, RangeConcatenation, Zenon
  <2>4. QED
    BY <1>6, <2>2, <2>3
<1>8. Range(front) \cup Range(back) = Range(s)
  <2>1. /\ Range(s) = {s[j] : j \in 1..Len(s)}
        /\ Range(front) = {front[j] : j \in 1..(i - 1)}
        /\ Range(back) = {back[j] : j \in 1..(Len(s) - i + 1)}
    BY <1>2, <1>3, RangeEquality
  <2>2. Range(front) \subseteq Range(s)
    BY <1>1, <1>2, <2>1
  <2>3. Range(back) \subseteq Range(s)
    <3>1. ASSUME NEW j \in 1..(Len(s) - i + 1)
          PROVE  back[j] \in Range(s)
      <4>1. i + j - 1 \in 1..Len(s) /\ back[j] = s[i + j - 1]
        BY <1>1, <1>3
      <4>2. QED
        BY <2>1, <4>1
    <3>2. QED
      BY <2>1, <3>1
  <2>4. ASSUME NEW j \in 1..Len(s)
        PROVE  s[j] \in Range(front) \cup Range(back)
    <3>1. CASE j < i
      BY <3>1, <1>1, <1>2, <2>1
    <3>2. CASE j >= i
      <4>1. j - i + 1 \in 1..(Len(s) - i + 1) /\ i + (j - i + 1) - 1 = j
        BY <3>2, <1>1
      <4>2. back[j - i + 1] = s[j]
        BY <4>1, <1>3
      <4>3. QED
        BY <4>1, <4>2, <2>1
    <3>3. QED
      BY <3>1, <3>2, <1>1
  <2>5. QED
    BY <2>1, <2>2, <2>3, <2>4
<1>9. QED
  BY <1>4, <1>7, <1>8 DEF mid

-----------------------------------------------------------------------------
(* The table after the first calls of add_rule(), for every number of      *)
(* them: what TableOf computes.                                            *)
IsTables(t, rules, n) ==
  t = [i \in 0..n |-> IF i = 0 THEN <<>> ELSE Added(t[i - 1], rules[i], i)]

LEMMA TablesExist ==
  ASSUME NEW rules, NEW len \in Nat
  PROVE  \E t : IsTables(t, rules, len)
<1> DEFINE Missing == {n \in 0..len : ~ \E t : IsTables(t, rules, n)}
<1>1. CASE Missing = {}
  BY <1>1
<1>2. CASE Missing # {}
  <2>1. PICK n \in Missing : \A m \in Missing : n <= m
    <3>1. Missing \in SUBSET Nat
      OBVIOUS
    <3>2. QED
      BY <3>1, <1>2, NatLeast
  <2>2. n \in 0..len /\ ~ \E t : IsTables(t, rules, n)
    BY <2>1
  <2>3. CASE n = 0
    <3>1. IsTables([i \in 0..0 |-> <<>>], rules, 0)
      BY DEF IsTables
    <3>2. QED
      BY <2>2, <2>3, <3>1
  <2>4. CASE n # 0
    <3>1. n - 1 \in 0..len /\ ~(n <= n - 1)
      BY <2>2, <2>4
    <3>2. PICK t : IsTables(t, rules, n - 1)
      BY <2>1, <3>1
    <3> DEFINE u == [i \in 0..n |->
                      IF i = n THEN Added(t[n - 1], rules[n], n) ELSE t[i]]
    <3>3. \A i \in 0..(n - 1) : u[i] = t[i]
      BY <2>2, <2>4
    <3>4. ASSUME NEW i \in 0..n
          PROVE  u[i] = IF i = 0 THEN <<>> ELSE Added(u[i - 1], rules[i], i)
      <4>1. CASE i = n
        BY <4>1, <2>2, <2>4, <3>3
      <4>2. CASE i # n
        <5>1. i \in 0..(n - 1) /\ (i # 0 => i - 1 \in 0..(n - 1))
          BY <4>2, <2>2
        <5>2. t[i] = IF i = 0 THEN <<>> ELSE Added(t[i - 1], rules[i], i)
          BY <5>1, <3>2 DEF IsTables
        <5>3. QED
          BY <5>1, <5>2, <3>3
      <4>3. QED
        BY <4>1, <4>2
    <3>5. IsTables(u, rules, n)
      BY <3>4 DEF IsTables
    <3>6. QED
      BY <2>2, <3>5
  <2>5. QED
    BY <2>3, <2>4
<1>3. QED
  BY <1>1, <1>2

Entries(R) == [id : Nat, rule : R]

RulesIn(table) == {table[i].rule : i \in DOMAIN table}

(* The table holds the rules that were added to it.                        *)
LEMMA AddedHolds ==
  ASSUME NEW R, NEW s \in Seq(Entries(R)), NEW r \in R, NEW id \in Nat
  PROVE  /\ Added(s, r, id) \in Seq(Entries(R))
         /\ RulesIn(Added(s, r, id)) = RulesIn(s) \cup {r}
<1> DEFINE e == [id |-> id, rule |-> r]
           u == Added(s, r, id)
<1>1. e \in Entries(R) /\ e.rule = r
  BY DEF Entries
<1>2. FindPos(s, r) \in 1..(Len(s) + 1)
  BY FindPosInRange
<1>3. u \in Seq(Entries(R)) /\ Range(u) = Range(s) \cup {e}
  BY <1>1, <1>2, InsertAtRange DEF Added
<1> HIDE DEF e, u
<1>4. \A v \in Seq(Entries(R)) : RulesIn(v) = {x.rule : x \in Range(v)}
  BY LenProperties, RangeEquality DEF RulesIn
<1>5. RulesIn(u) = {x.rule : x \in Range(s) \cup {e}}
  BY <1>3, <1>4
<1>6. RulesIn(s) = {x.rule : x \in Range(s)}
  BY <1>4
<1>7. RulesIn(u) = RulesIn(s) \cup {r}
  BY <1>1, <1>5, <1>6
<1>8. QED
  BY <1>3, <1>7 DEF u

LEMMA TableHolds ==
  ASSUME NEW R, NEW rules \in Seq(R)
  PROVE  /\ TableOf(rules) \in Seq(Entries(R))
         /\ RulesIn(TableOf(rules)) = {rules[i] : i \in 1..Len(rules)}
<1> DEFINE len == Len(rules)
           t == CHOOSE u : IsTables(u, rules, len)
           Bad == {n \in 0..len :
                     ~ /\ t[n] \in Seq(Entries(R))
                       /\ RulesIn(t[n]) = {rules[i] : i \in 1..n}}
<1>1. len \in Nat /\ \A i \in 1..len : rules[i] \in R
  BY LenProperties, ElementOfSeq
<1>2. IsTables(t, rules, len)
  BY <1>1, TablesExist
<1>3. TableOf(rules) = t[len]
  BY DEF TableOf, IsTables
<1> HIDE DEF t, len
<1>4. CASE Bad = {}
  <2>1. len \notin Bad
    BY <1>4, Zenon
  <2>2. /\ t[len] \in Seq(Entries(R))
        /\ RulesIn(t[len]) = {rules[i] : i \in 1..len}
    BY <1>1, <2>1
  <2>3. QED
    BY <1>3, <2>2 DEF len
<1>5. CASE Bad # {}
  <2>1. PICK n \in Bad : \A m \in Bad : n <= m
    <3>1. Bad \in SUBSET Nat
      BY <1>1
    <3>2. QED
      BY <3>1, <1>5, NatLeast
  <2>2. n \in 0..len
    BY <2>1
  <2>3. CASE n = 0
    <3>1. t[0] = <<>>
      BY <1>1, <1>2 DEF IsTables
    <3>2. RulesIn(<<>>) = {}
      BY DEF RulesIn
    <3>3. <<>> \in Seq(Entries(R)) /\ {rules[i] : i \in 1..0} = {}
      OBVIOUS
    <3>4. QED
      BY <2>1, <2>3, <3>1, <3>2, <3>3
  <2>4. CASE n # 0
    <3>1. n - 1 \in 0..len /\ ~(n <= n - 1) /\ n \in Nat /\ n \in 1..len
      BY <1>1, <2>2, <2>4
    <3>2. /\ t[n - 1] \in Seq(Entries(R))
          /\ RulesIn(t[n - 1]) = {rules[i] : i \in 1..(n - 1)}
      BY <2>1, <3>1
    <3>3. t[n] = Added(t[n - 1], rules[n], n)
      BY <1>2, <2>2, <2>4 DEF IsTables
    <3>4. /\ t[n] \in Seq(Entries(R))
          /\ RulesIn(t[n]) = RulesIn(t[n - 1]) \cup {rules[n]}
      <4>1. rules[n] \in R /\ n \in Nat
        BY <1>1, <3>1
      <4>2. /\ Added(t[n - 1], rules[n], n) \in Seq(Entries(R))
            /\ RulesIn(Added(t[n - 1], rules[n], n))
                 = RulesIn(t[n - 1]) \cup {rules[n]}
        <5>1. \A s \in Seq(Entries(R)), r \in R, id \in Nat :
                /\ Added(s, r, id) \in Seq(Entries(R))
                /\ RulesIn(Added(s, r, id)) = RulesIn(s) \cup {r}
          BY AddedHolds
        <5>2. QED
          BY <4>1, <3>2, <5>1, Zenon
      <4>3. QED
        BY <4>2, <3>3
    <3>5. {rules[i] : i \in 1..n} = {rules[i] : i \in 1..(n - 1)} \cup {rules[n]}
      BY <3>1
    <3>6. QED
      BY <2>1, <3>2, <3>4, <3>5
  <2>5. QED
    BY <2>3, <2>4
<1>6. QED
  BY <1>4, <1>5

-----------------------------------------------------------------------------
(* The layer's rules, in whatever order.                                   *)
Rules ==
  {ArpRule, DhcpRule("offer", "discover"), DhcpRule("ack", "request"), EchoRule,
   NoSpoof("guest4"), Echo6Rule(1, "guest6"), Echo6Rule(2, Eui64.guest),
   RouterRule, NeighborRule, Dhcp6Rule, NoSpoof("guest6")}

LEMMA RulesAre == OutRules \in Seq(Rules) /\ Range(OutRules) = Rules
<1> DEFINE a == <<ArpRule>>
           b == DhcpRules
           c == <<EchoRule, NoSpoof("guest4")>>
           d == Icmp6Rules
           e == <<Dhcp6Rule, NoSpoof("guest6")>>
<1>1. a \in Seq(Rules) /\ Range(a) = {ArpRule}
  <2>1. /\ a \in Seq(Rules)
        /\ Len(a) = 1 /\ a[1] = ArpRule
    BY DEF Rules
  <2> HIDE DEF a
  <2>2. QED
    BY <2>1, RangeEquality
<1>2. /\ b \in Seq(Rules)
      /\ Range(b) = {DhcpRule("offer", "discover"), DhcpRule("ack", "request")}
  <2>1. /\ b \in Seq(Rules)
        /\ Len(b) = 2
        /\ b[1] = DhcpRule("offer", "discover")
        /\ b[2] = DhcpRule("ack", "request")
    BY DEF Rules, DhcpRules
  <2> HIDE DEF b
  <2>2. QED
    BY <2>1, RangeEquality
<1>3. c \in Seq(Rules) /\ Range(c) = {EchoRule, NoSpoof("guest4")}
  <2>1. /\ c \in Seq(Rules)
        /\ Len(c) = 2 /\ c[1] = EchoRule /\ c[2] = NoSpoof("guest4")
    BY DEF Rules
  <2> HIDE DEF c
  <2>2. QED
    BY <2>1, RangeEquality
<1>4. /\ d \in Seq(Rules)
      /\ Range(d) = {Echo6Rule(1, "guest6"), Echo6Rule(2, Eui64.guest),
                     RouterRule, NeighborRule}
  <2>1. /\ d \in Seq(Rules)
        /\ Len(d) = 4
        /\ d[1] = Echo6Rule(1, "guest6") /\ d[2] = Echo6Rule(2, Eui64.guest)
        /\ d[3] = RouterRule /\ d[4] = NeighborRule
    BY DEF Rules, Icmp6Rules
  <2> HIDE DEF d
  <2>2. QED
    BY <2>1, RangeEquality
<1>5. e \in Seq(Rules) /\ Range(e) = {Dhcp6Rule, NoSpoof("guest6")}
  <2>1. /\ e \in Seq(Rules)
        /\ Len(e) = 2 /\ e[1] = Dhcp6Rule /\ e[2] = NoSpoof("guest6")
    BY DEF Rules
  <2> HIDE DEF e
  <2>2. QED
    BY <2>1, RangeEquality
<1>6. OutRules = (((a \o b) \o c) \o d) \o e
  BY DEF OutRules
<1> HIDE DEF a, b, c, d, e
<1>7. \A s, t \in Seq(Rules) :
        s \o t \in Seq(Rules) /\ Range(s \o t) = Range(s) \cup Range(t)
  BY ConcatProperties, RangeConcatenation
<1>8. /\ a \o b \in Seq(Rules)
      /\ Range(a \o b) = Range(a) \cup Range(b)
  BY <1>1, <1>2, <1>7, Zenon
<1>9. /\ (a \o b) \o c \in Seq(Rules)
      /\ Range((a \o b) \o c) = Range(a \o b) \cup Range(c)
  BY <1>3, <1>7, <1>8, Zenon
<1>10. /\ ((a \o b) \o c) \o d \in Seq(Rules)
       /\ Range(((a \o b) \o c) \o d) = Range((a \o b) \o c) \cup Range(d)
  BY <1>4, <1>7, <1>9, Zenon
<1>11. /\ OutRules \in Seq(Rules)
       /\ Range(OutRules) = Range(((a \o b) \o c) \o d) \cup Range(e)
  BY <1>5, <1>6, <1>7, <1>10, Zenon
<1>12. Range(OutRules) =
         {ArpRule, DhcpRule("offer", "discover"), DhcpRule("ack", "request"),
          EchoRule, NoSpoof("guest4"), Echo6Rule(1, "guest6"),
          Echo6Rule(2, Eui64.guest), RouterRule, NeighborRule, Dhcp6Rule,
          NoSpoof("guest6")}
  BY <1>1, <1>2, <1>3, <1>4, <1>5, <1>8, <1>9, <1>10, <1>11
<1>13. QED
  BY <1>11, <1>12 DEF Rules

LEMMA OutTableHolds ==
  OutTable \in Seq(Entries(Rules)) /\ RulesIn(OutTable) = Rules
<1>1. /\ OutTable \in Seq(Entries(Rules))
      /\ RulesIn(OutTable) = {OutRules[i] : i \in 1..Len(OutRules)}
  BY RulesAre, TableHolds DEF OutTable
<1>2. Range(OutRules) = {OutRules[i] : i \in 1..Len(OutRules)}
  BY RulesAre, RangeEquality
<1>3. QED
  BY <1>1, <1>2, RulesAre

(* Rule::is_match for the frame itself.                                    *)
Matches(r, f) == \A p \in r.preds : f[p.field] \in p.values

LEMMA MatchesIsMatch ==
  ASSUME NEW r, NEW f, NEW preds, r.preds \subseteq preds
  PROVE  IsMatch(r, Satisfied(preds, f)) <=> Matches(r, f)
BY DEF IsMatch, Satisfied, Matches

LEMMA PredHolds ==
  ASSUME NEW f, NEW field, NEW values, f[field] \in values
  PROVE  f[Pred(field, values).field] \in Pred(field, values).values
BY DEF Pred

(* find_match() says whether a rule of the table matches, and finds one    *)
(* that does.                                                              *)
LEMMA FindMatchFinds ==
  ASSUME NEW R, NEW table \in Seq(Entries(R)), NEW f
  PROVE  LET i == FindMatch(table, Satisfied(PredsOf(table), f))
         IN /\ i \in 0..Len(table)
            /\ i = 0 => \A r \in RulesIn(table) : ~Matches(r, f)
            /\ i # 0 => /\ table[i].rule \in RulesIn(table)
                        /\ Matches(table[i].rule, f)
<1> DEFINE sat == Satisfied(PredsOf(table), f)
           hits == {i \in DOMAIN table : IsMatch(table[i].rule, sat)}
<1>1. Len(table) \in Nat /\ DOMAIN table = 1..Len(table)
  BY LenProperties
<1>2. ASSUME NEW i \in DOMAIN table
      PROVE  IsMatch(table[i].rule, sat) <=> Matches(table[i].rule, f)
  <2>1. table[i].rule.preds \subseteq PredsOf(table)
    BY DEF PredsOf
  <2>2. QED
    BY <2>1, MatchesIsMatch
<1> HIDE DEF sat
<1>3. hits = {i \in DOMAIN table : Matches(table[i].rule, f)}
  BY <1>2
<1>4. CASE hits = {}
  <2>1. FindMatch(table, sat) = 0
    BY <1>4 DEF FindMatch
  <2>2. \A r \in RulesIn(table) : ~Matches(r, f)
    BY <1>3, <1>4 DEF RulesIn
  <2>3. QED
    BY <1>1, <2>1, <2>2 DEF sat
<1>5. CASE hits # {}
  <2>1. \E i \in hits : \A j \in hits : i <= j
    <3>1. hits \in SUBSET Nat
      BY <1>1
    <3>2. QED
      BY <3>1, <1>5, NatLeast
  <2>2. FindMatch(table, sat) \in hits
    <3>1. FindMatch(table, sat) = CHOOSE i \in hits : \A j \in hits : i <= j
      BY <1>5 DEF FindMatch
    <3> HIDE DEF hits
    <3>2. QED
      BY <2>1, <3>1
  <2>3. FindMatch(table, sat) \in 1..Len(table)
    BY <1>1, <2>2
  <2>4. Matches(table[FindMatch(table, sat)].rule, f)
    BY <1>3, <2>2
  <2>5. table[FindMatch(table, sat)].rule \in RulesIn(table)
    BY <1>1, <2>3 DEF RulesIn
  <2>6. QED
    BY <1>1, <2>3, <2>4, <2>5 DEF sat
<1>6. QED
  BY <1>4, <1>5

(* The answer that a rule's action gives.                                  *)
Answer(a, f) ==
  CASE a = "deny" -> Denied
    [] a = "pass" -> Passed
    [] a = "arp" -> AnswerArp(f)
    [] a \in {"offer", "ack"} -> AnswerDhcp(a, f)
    [] a = "echo" -> AnswerEcho(f)
    [] a = "echo6" -> AnswerEcho6(f)
    [] a = "advertise router" -> AnswerRouter(f)
    [] a = "advertise neighbor" -> AnswerNeighbor(f)
    [] a = "dhcp6" -> AnswerDhcp6(f)

(* process_out_rules(): what the layer says is what one of the rules that  *)
(* match says, or Denied if there is none.                                 *)
LEMMA VerdictOfRule ==
  ASSUME NEW f
  PROVE  \/ OutVerdict(f) = Denied /\ \A r \in Rules : ~Matches(r, f)
         \/ \E r \in Rules :
              Matches(r, f) /\ OutVerdict(f) = Answer(r.action, f)
<1> DEFINE first == [sat \in SUBSET OutPreds |-> FindMatch(OutTable, sat)]
           action == [i \in 0..Len(OutTable) |->
                       IF i = 0 THEN "deny" ELSE OutTable[i].rule.action]
           answer == [a \in {"deny"} \cup OutActions |-> Answer(a, f)]
           i == FindMatch(OutTable, Satisfied(OutPreds, f))
<1>1. OutVerdict(f) = answer[action[first[Satisfied(OutPreds, f)]]]
  BY Zenon DEF OutVerdict, Answer
<1>2. first[Satisfied(OutPreds, f)] = i
  BY DEF Satisfied
<1>3. /\ i \in 0..Len(OutTable)
      /\ i = 0 => \A r \in Rules : ~Matches(r, f)
      /\ i # 0 => OutTable[i].rule \in Rules /\ Matches(OutTable[i].rule, f)
  BY OutTableHolds, FindMatchFinds DEF OutPreds
<1>4. action[i] = IF i = 0 THEN "deny" ELSE OutTable[i].rule.action
  BY <1>3
<1>5. \A r \in Rules : r.action \in OutActions
  <2>1. Range(OutRules) = {OutRules[k] : k \in 1..Len(OutRules)}
    BY RulesAre, RangeEquality
  <2>2. DOMAIN OutRules = 1..Len(OutRules)
    BY RulesAre, LenProperties
  <2>3. QED
    BY <2>1, <2>2, RulesAre DEF OutActions
<1>6. action[i] \in {"deny"} \cup OutActions
  BY <1>3, <1>4, <1>5
<1>7. OutVerdict(f) = Answer(action[i], f)
  BY <1>1, <1>2, <1>6
<1>8. CASE i = 0
  <2>1. Answer("deny", f) = Denied
    BY DEF Answer
  <2>2. QED
    BY <1>3, <1>4, <1>7, <1>8, <2>1
<1>9. CASE i # 0
  BY <1>3, <1>4, <1>7, <1>9
<1>10. QED
  BY <1>8, <1>9

-----------------------------------------------------------------------------
(* What a frame must have that a rule with some action matches.            *)
Asks(a, f) ==
  /\ a = "pass" => f.src \in {"guest4", "guest6"}
  /\ a = "arp" => f.type = "arp"
  /\ a \in {"offer", "ack"} => f.src = "any4"
  /\ a = "echo" => f.proto = "icmp"
  /\ a = "echo6" => f.proto = "icmp6" /\ f.msg = "echo6"
  /\ a = "advertise router" => f.proto = "icmp6" /\ f.msg = "router solicit"
  /\ a = "advertise neighbor" => f.proto = "icmp6" /\ f.msg = "neighbor solicit"
  /\ a = "dhcp6" => f.dst = "allDhcp"

Actions == {"pass", "arp", "offer", "ack", "echo", "echo6", "advertise router",
            "advertise neighbor", "dhcp6"}

LEMMA MatchAsks ==
  ASSUME NEW r \in Rules, NEW f, Matches(r, f)
  PROVE  r.action \in Actions /\ Asks(r.action, f)
<1>1. CASE r = ArpRule
  BY <1>1 DEF ArpRule, Rule, Pred, Matches, Actions, Asks
<1>2. ASSUME NEW a \in {"offer", "ack"}, NEW msg, r = DhcpRule(a, msg)
      PROVE  r.action \in Actions /\ Asks(r.action, f)
  <2>1. r.action = a /\ Pred("src", {"any4"}) \in r.preds
    BY <1>2 DEF DhcpRule, Rule, Preds
  <2>2. f.src = "any4"
    BY <2>1 DEF Pred, Matches
  <2>3. QED
    BY <2>1, <2>2 DEF Actions, Asks
<1>3. CASE r = EchoRule
  <2>1. r.action = "echo" /\ Pred("proto", {"icmp"}) \in r.preds
    BY <1>3 DEF EchoRule, Rule, Preds
  <2>2. f.proto = "icmp"
    BY <2>1 DEF Pred, Matches
  <2>3. QED
    BY <2>1, <2>2 DEF Actions, Asks
<1>4. ASSUME NEW ip \in {"guest4", "guest6"}, r = NoSpoof(ip)
      PROVE  r.action \in Actions /\ Asks(r.action, f)
  <2>1. r.action = "pass" /\ Pred("src", {ip}) \in r.preds
    BY <1>4 DEF NoSpoof, Rule
  <2>2. f.src = ip
    BY <2>1 DEF Pred, Matches
  <2>3. QED
    BY <2>1, <2>2 DEF Actions, Asks
<1>5. ASSUME NEW prio, NEW src, r = Echo6Rule(prio, src)
      PROVE  r.action \in Actions /\ Asks(r.action, f)
  <2>1. /\ r.action = "echo6"
        /\ Pred("proto", {"icmp6"}) \in r.preds
        /\ Pred("msg", {"echo6"}) \in r.preds
    BY <1>5 DEF Echo6Rule, Rule, Preds
  <2>2. f.proto = "icmp6" /\ f.msg = "echo6"
    BY <2>1 DEF Pred, Matches
  <2>3. QED
    BY <2>1, <2>2 DEF Actions, Asks
<1>6. CASE r = RouterRule
  <2>1. /\ r.action = "advertise router"
        /\ Pred("proto", {"icmp6"}) \in r.preds
        /\ Pred("msg", {"router solicit"}) \in r.preds
    BY <1>6 DEF RouterRule, Rule, Preds
  <2>2. f.proto = "icmp6" /\ f.msg = "router solicit"
    BY <2>1 DEF Pred, Matches
  <2>3. QED
    BY <2>1, <2>2 DEF Actions, Asks
<1>7. CASE r = NeighborRule
  <2>1. /\ r.action = "advertise neighbor"
        /\ Pred("proto", {"icmp6"}) \in r.preds
        /\ Pred("msg", {"neighbor solicit"}) \in r.preds
    BY <1>7 DEF NeighborRule, Rule, Preds
  <2>2. f.proto = "icmp6" /\ f.msg = "neighbor solicit"
    BY <2>1 DEF Pred, Matches
  <2>3. QED
    BY <2>1, <2>2 DEF Actions, Asks
<1>8. CASE r = Dhcp6Rule
  <2>1. r.action = "dhcp6" /\ Pred("dst", {"allDhcp"}) \in r.preds
    BY <1>8 DEF Dhcp6Rule, Rule
  <2>2. f.dst = "allDhcp"
    BY <2>1 DEF Pred, Matches
  <2>3. QED
    BY <2>1, <2>2 DEF Actions, Asks
<1>9. QED
  BY <1>1, <1>2, <1>3, <1>4, <1>5, <1>6, <1>7, <1>8 DEF Rules

(* Only one action passes a frame on.                                      *)
LEMMA AnswerIsNoPass ==
  ASSUME NEW f, NEW a \in Actions, a # "pass"
  PROVE  Answer(a, f).kind # "passed"
<1>1. /\ AnswerArp(f).kind # "passed"
      /\ AnswerEcho(f).kind # "passed"
      /\ AnswerEcho6(f).kind # "passed"
      /\ AnswerRouter(f).kind # "passed"
  BY DEF AnswerArp, AnswerEcho, AnswerEcho6, AnswerRouter, Denied, Hairpin
<1>2. AnswerDhcp(a, f).kind # "passed"
  BY DEF AnswerDhcp, Hairpin
<1>3. AnswerNeighbor(f).kind # "passed"
  BY DEF AnswerNeighbor, Denied, Failed, Hairpin
<1>4. AnswerDhcp6(f).kind # "passed"
  BY DEF AnswerDhcp6, Denied, Hairpin
<1>5. QED
  BY <1>1, <1>2, <1>3, <1>4 DEF Actions, Answer

(* The layer passes on only what comes from the guest's own address.       *)
LEMMA PassedHasGuestSource ==
  ASSUME NEW f, OutVerdict(f).kind = "passed"
  PROVE  f.src \in {"guest4", "guest6"}
<1>1. OutVerdict(f) # Denied
  BY DEF Denied
<1>2. PICK r \in Rules : Matches(r, f) /\ OutVerdict(f) = Answer(r.action, f)
  BY <1>1, VerdictOfRule
<1>3. r.action \in Actions /\ Asks(r.action, f)
  BY <1>2, MatchAsks
<1>4. r.action = "pass"
  BY <1>2, <1>3, AnswerIsNoPass
<1>5. QED
  BY <1>3, <1>4 DEF Asks

(* If the rules that match a frame can only have one action, and one does  *)
(* match, the answer is that of the action.                                *)
LEMMA VerdictOfAction ==
  ASSUME NEW f, NEW a, NEW r \in Rules, Matches(r, f),
         \A b \in Actions : Asks(b, f) => b = a
  PROVE  OutVerdict(f) = Answer(a, f)
<1>1. PICK q \in Rules : Matches(q, f) /\ OutVerdict(f) = Answer(q.action, f)
  BY VerdictOfRule
<1>2. q.action = a
  BY <1>1, MatchAsks
<1>3. QED
  BY <1>1, <1>2

(* What the guest sends from its address gets out.                         *)
LEMMA GuestDataPasses ==
  ASSUME NEW type \in {"ip4", "ip6"}, NEW ip \in {"guest4", "guest6"}
  PROVE  OutVerdict(Data(type, ip, "peer")).kind = "passed"
<1> DEFINE f == Data(type, ip, "peer")
<1>1. /\ f.smac = "guest" /\ f.type = type /\ f.src = ip /\ f.dst = "peer"
      /\ f.proto = "tcp" /\ f.msg = "data"
  BY DEF Data, Frame
<1> HIDE DEF f
<1>2. NoSpoof(ip) \in Rules /\ Matches(NoSpoof(ip), f)
  <2>1. NoSpoof(ip) \in Rules
    BY Zenon DEF Rules
  <2>2. NoSpoof(ip).preds = {Pred("src", {ip}), Pred("smac", {"guest"})}
    BY DEF NoSpoof, Rule
  <2>3. QED
    BY <1>1, <2>1, <2>2 DEF Pred, Matches
<1>3. \A b \in Actions : Asks(b, f) => b = "pass"
  BY <1>1 DEF Actions, Asks
<1>4. OutVerdict(f) = Answer("pass", f)
  BY <1>2, <1>3, VerdictOfAction
<1>5. QED
  BY <1>4 DEF Answer, Passed, f

(* What is sent to the guest's address gets in, from the gateway's MAC     *)
(* address.                                                                *)
LEMMA DataToGuestArrives ==
  ASSUME NEW type, NEW ip \in {"guest4", "guest6"}
  PROVE  \E m \in InFrames([Data(type, "peer", ip) EXCEPT !.dmac = "guest"]) :
           m.smac = "gateway"
<1> DEFINE f == [Data(type, "peer", ip) EXCEPT !.dmac = "guest"]
           R == {UnicastIn("guest4"), UnicastIn("guest6")}
           rules == <<UnicastIn("guest4"), UnicastIn("guest6")>>
<1>1. f.dst = ip /\ f.dmac = "guest"
  BY DEF Data, Frame
<1>2. RewriteSrcMac(f).smac = "gateway"
  BY DEF RewriteSrcMac, Data, Frame
<1> HIDE DEF f
<1>3. rules \in Seq(R) /\ {rules[i] : i \in 1..Len(rules)} = R
  OBVIOUS
<1> HIDE DEF rules, R
<1>4. InTable \in Seq(Entries(R)) /\ RulesIn(InTable) = R
  BY <1>3, TableHolds DEF InTable, rules
<1>5. UnicastIn(ip) \in R
  BY DEF R
<1>6. Matches(UnicastIn(ip), f)
  BY <1>1 DEF UnicastIn, Rule, Pred, Matches
<1>7. FindMatch(InTable, Satisfied(PredsOf(InTable), f)) # 0
  BY <1>4, <1>5, <1>6, FindMatchFinds
<1>8. RewriteSrcMac(f) \in InFrames(f)
  BY <1>7 DEF InFrames
<1>9. QED
  BY <1>2, <1>8 DEF f

(* The guest's ARP request for its router is answered if the router is     *)
(* the gateway.                                                            *)
LEMMA RouterIsAnswered ==
  ASSUME router = "gw4"
  PROVE  OutVerdict(ArpRequest).kind = "hairpin"
<1> DEFINE f == ArpRequest
<1>1. /\ f.smac = "guest" /\ f.dmac = "broadcast" /\ f.type = "arp"
      /\ f.src = None /\ f.dst = None /\ f.proto = None
      /\ f.msg = "arp request" /\ f.data.tpa = "gw4"
  BY DEF ArpRequest, Arp, Frame
<1> HIDE DEF f
<1>2. ArpRule \in Rules /\ Matches(ArpRule, f)
  <2>1. ArpRule.preds = {Pred("type", {"arp"}), Pred("dmac", {"broadcast"}),
                         Pred("smac", {"guest"})}
    BY DEF ArpRule, Rule
  <2>2. ArpRule \in Rules
    BY Zenon DEF Rules
  <2>3. ASSUME NEW p \in ArpRule.preds
        PROVE  f[p.field] \in p.values
    <3>1. CASE p = Pred("type", {"arp"})
      BY <1>1, <3>1, PredHolds
    <3>2. CASE p = Pred("dmac", {"broadcast"})
      BY <1>1, <3>2, PredHolds
    <3>3. CASE p = Pred("smac", {"guest"})
      BY <1>1, <3>3, PredHolds
    <3>4. QED
      BY <2>1, <3>1, <3>2, <3>3
  <2>4. QED
    BY <2>2, <2>3 DEF Matches
<1>3. \A b \in Actions : Asks(b, f) => b = "arp"
  BY <1>1 DEF Actions, Asks, None
<1>4. OutVerdict(f) = Answer("arp", f)
  BY <1>2, <1>3, VerdictOfAction
<1>5. AnswerArp(f).kind = "hairpin"
  BY <1>1 DEF AnswerArp, Hairpin
<1>6. QED
  BY <1>4, <1>5 DEF Answer, f

(* The guest's multicast neighbor solicitation is answered.                *)
LEMMA NeighborIsAnswered ==
  ASSUME NEW src \in {"llGuest", "llOther"}
  PROVE  OutVerdict(MulticastSolicit(src)).kind = "hairpin"
<1> DEFINE f == MulticastSolicit(src)
           group == SolicitedNode[Gw6]
<1>1. /\ f.smac = "guest" /\ f.dmac = MulticastMac(group) /\ f.type = "ip6"
      /\ f.src = src /\ f.dst = group /\ f.proto = "icmp6"
      /\ f.msg = "neighbor solicit" /\ f.data.target = Gw6
  BY DEF MulticastSolicit, NeighborSolicit, Icmp6, Frame
<1>2. group = "snGateway" /\ Gw6 = "llGateway"
  BY DEF SolicitedNode, Gw6, Eui64
<1>3. NeighborRule.preds =
        {Pred("smac", {"guest"}), Pred("dmac", {"gateway", MulticastMac(group)}),
         Pred("src", LinkLocal \cup {"any6"}), Pred("dst", {Gw6, group}),
         Pred("proto", {"icmp6"}), Pred("msg", {"neighbor solicit"})}
  BY DEF NeighborRule, Rule, Preds
<1>4. NeighborRule.action = "advertise neighbor"
  BY DEF NeighborRule, Rule
<1> HIDE DEF f, group
<1>5. NeighborRule \in Rules /\ Matches(NeighborRule, f)
  <2>1. NeighborRule \in Rules
    BY Zenon DEF Rules
  <2>2. src \in LinkLocal \cup {"any6"}
    BY DEF LinkLocal
  <2>3. ASSUME NEW p \in NeighborRule.preds
        PROVE  f[p.field] \in p.values
    <3>1. CASE p = Pred("smac", {"guest"})
      BY <1>1, <3>1, PredHolds
    <3>2. CASE p = Pred("dmac", {"gateway", MulticastMac(group)})
      BY <1>1, <3>2, PredHolds
    <3>3. CASE p = Pred("src", LinkLocal \cup {"any6"})
      BY <1>1, <2>2, <3>3, PredHolds
    <3>4. CASE p = Pred("dst", {Gw6, group})
      BY <1>1, <3>4, PredHolds
    <3>5. CASE p = Pred("proto", {"icmp6"})
      BY <1>1, <3>5, PredHolds
    <3>6. CASE p = Pred("msg", {"neighbor solicit"})
      BY <1>1, <3>6, PredHolds
    <3>7. QED
      BY <1>3, <3>1, <3>2, <3>3, <3>4, <3>5, <3>6
  <2>4. QED
    BY <2>1, <2>3 DEF Matches
<1>6. \A b \in Actions : Asks(b, f) => b = "advertise neighbor"
  BY <1>1, <1>2 DEF Actions, Asks
<1>7. OutVerdict(f) = Answer("advertise neighbor", f)
  BY <1>5, <1>6, VerdictOfAction
<1>8. Gw6 \notin Multicast6
  BY <1>2 DEF Multicast6, SolicitedNode
<1>9. ValidSolicit(f)
  BY <1>1, <1>8 DEF ValidSolicit
<1>10. AnswerNeighbor(f).kind = "hairpin"
  BY <1>1, <1>9 DEF AnswerNeighbor, Hairpin
<1>11. QED
  BY <1>7, <1>10 DEF Answer, f

-----------------------------------------------------------------------------
(* The invariant: what is on its way to the guest is true, so what the     *)
(* guest has configured is, and only flows from its own addresses have     *)
(* entries.                                                                *)
GuestAddr == IF guest.family = "ip4" THEN "guest4" ELSE "guest6"

MessageIsTrue(m) ==
  /\ m.msg \in {"offer", "ack"} =>
       guest.family = "ip4" /\ m.data.addr = "guest4" /\ m.data.router = "gw4"
  /\ m.msg = "arp reply" => m.data.sha = "gateway"
  /\ m.msg = "router advert" => guest.family = "ip6" /\ m.data.lladdr = "gateway"
  /\ m.msg = "neighbor advert" => m.data.lladdr = "gateway"
  /\ m.msg = "advertise" => guest.family = "ip6"
  /\ m.msg = "reply" => guest.family = "ip6" /\ m.data.addrs \subseteq {"guest6"}

ConfiguredIsTrue ==
  /\ addr \in {None, GuestAddr}
  /\ neighbor \in {None, "gateway"}
  /\ guest.family = "ip4" =>
       router \in {None, "gw4"} /\ (addr # None => router = "gw4")

EntriesAreOfGuest == \A k \in uft : k[2] \in {"guest4", "guest6"}

GInv ==
  /\ guest \in Guests
  /\ \A m \in inbox : MessageIsTrue(m)
  /\ ConfiguredIsTrue
  /\ EntriesAreOfGuest

LEMMA GuestShape ==
  ASSUME guest \in Guests
  PROVE  guest.family \in {"ip4", "ip6"} /\ guest.ll \in {"llGuest", "llOther"}
BY GuestsAssumption

(* A frame that a guest of this family may send.                           *)
OfFamily(f) ==
  /\ guest.family = "ip4" => f.proto # "icmp6" /\ f.dst # "allDhcp"
  /\ guest.family = "ip6" => f.src # "any4"

(* What the layer answers is true.                                         *)
LEMMA AnswerIsTrue ==
  ASSUME guest \in Guests, NEW f, OfFamily(f), OutVerdict(f).kind = "hairpin"
  PROVE  MessageIsTrue(OutVerdict(f).frame)
<1> DEFINE v == OutVerdict(f)
<1>1. v # Denied
  BY DEF Denied
<1>2. PICK r \in Rules : Matches(r, f) /\ v = Answer(r.action, f)
  BY <1>1, VerdictOfRule
<1>3. r.action \in Actions /\ Asks(r.action, f)
  BY <1>2, MatchAsks
<1>4. v.kind = "hairpin"
  OBVIOUS
<1> HIDE DEF v
<1>5. CASE r.action = "pass"
  BY <1>2, <1>4, <1>5 DEF Answer, Passed
<1>6. CASE r.action = "arp"
  <2>1. v = AnswerArp(f)
    BY <1>2, <1>6 DEF Answer
  <2>2. /\ v.frame.msg = "arp reply"
        /\ v.frame.data.sha = "gateway"
    BY <1>4, <2>1 DEF AnswerArp, Hairpin, Denied, Arp, Frame
  <2>3. QED
    BY <2>2 DEF MessageIsTrue, v
<1>7. CASE r.action \in {"offer", "ack"}
  <2>1. v = AnswerDhcp(r.action, f)
    BY <1>2, <1>7 DEF Answer
  <2>2. guest.family = "ip4"
    BY <1>3, <1>7, GuestShape DEF Asks, OfFamily
  <2>3. /\ v.frame.msg = r.action
        /\ v.frame.data.addr = "guest4" /\ v.frame.data.router = "gw4"
    BY <2>1 DEF AnswerDhcp, Hairpin, Frame
  <2>4. QED
    BY <1>7, <2>2, <2>3 DEF MessageIsTrue, v
<1>8. CASE r.action = "echo"
  <2>1. v = AnswerEcho(f)
    BY <1>2, <1>8 DEF Answer
  <2>2. v.frame.msg = "echo reply"
    BY <2>1 DEF AnswerEcho, Hairpin, Icmp4, Frame
  <2>3. QED
    BY <2>2 DEF MessageIsTrue, v
<1>9. CASE r.action = "echo6"
  <2>1. v = AnswerEcho6(f)
    BY <1>2, <1>9 DEF Answer
  <2>2. v.frame.msg = "echo6 reply"
    BY <2>1 DEF AnswerEcho6, Hairpin, Icmp6, Frame
  <2>3. QED
    BY <2>2 DEF MessageIsTrue, v
<1>10. CASE r.action = "advertise router"
  <2>1. v = AnswerRouter(f)
    BY <1>2, <1>10 DEF Answer
  <2>2. guest.family = "ip6"
    BY <1>3, <1>10, GuestShape DEF Asks, OfFamily
  <2>3. /\ v.frame.msg = "router advert"
        /\ v.frame.data.lladdr = "gateway"
    BY <1>4, <2>1 DEF AnswerRouter, Hairpin, Denied, Icmp6, Frame
  <2>4. QED
    BY <2>2, <2>3 DEF MessageIsTrue, v
<1>11. CASE r.action = "advertise neighbor"
  <2>1. v = AnswerNeighbor(f)
    BY <1>2, <1>11 DEF Answer
  <2>2. /\ v.frame.msg = "neighbor advert"
        /\ v.frame.data.lladdr = "gateway"
    BY <1>4, <2>1 DEF AnswerNeighbor, Hairpin, Denied, Failed, Icmp6, Frame
  <2>3. QED
    BY <2>2 DEF MessageIsTrue, v
<1>12. CASE r.action = "dhcp6"
  <2>1. v = AnswerDhcp6(f)
    BY <1>2, <1>12 DEF Answer
  <2>2. guest.family = "ip6"
    BY <1>3, <1>12, GuestShape DEF Asks, OfFamily
  <2> DEFINE replies == CASE f.msg = "solicit6" -> SolicitReply(f.data)
                          [] f.msg = "request6" -> RequestReply(f.data)
                          [] f.msg = "confirm6" -> ConfirmReply(f.data)
                          [] OTHER -> {}
             reply == CHOOSE x \in replies : TRUE
  <2>3. \A x \in replies :
          x.type \in {"reply", "advertise"} /\ x.addrs \subseteq {"guest6"}
    <3>1. ASSUME NEW type \in {"reply", "advertise"}, NEW m, NEW rapid
          PROVE  /\ Reply6(type, m, rapid).type \in {"reply", "advertise"}
                 /\ Reply6(type, m, rapid).addrs \subseteq {"guest6"}
      BY DEF Reply6
    <3>2. \A x \in SolicitReply(f.data) \cup RequestReply(f.data) :
            \E type \in {"reply", "advertise"} : \E rapid :
               x = Reply6(type, f.data, rapid)
      BY Zenon DEF SolicitReply, RequestReply
    <3>3. \A x \in ConfirmReply(f.data) :
            x.type \in {"reply", "advertise"} /\ x.addrs \subseteq {"guest6"}
      BY DEF ConfirmReply, Reply6
    <3>4. replies \subseteq (SolicitReply(f.data) \cup RequestReply(f.data))
                              \cup ConfirmReply(f.data)
      OBVIOUS
    <3> HIDE DEF replies
    <3>5. QED
      BY <3>1, <3>2, <3>3, <3>4
  <2>4. v = IF replies = {} THEN Denied
            ELSE Hairpin(Frame("gateway", "guest", "ip6", Gw6, f.src, "udp",
                               Dhcp6.server, Dhcp6.client, reply.type, reply))
    BY <2>1 DEF AnswerDhcp6
  <2> HIDE DEF replies
  <2>5. replies # {}
    BY <1>4, <2>4 DEF Denied
  <2>6. reply \in replies
    BY <2>5
  <2> HIDE DEF reply
  <2>7. v.frame.msg = reply.type /\ v.frame.data = reply
    BY <2>4, <2>5 DEF Hairpin, Frame
  <2>8. QED
    BY <2>2, <2>3, <2>6, <2>7 DEF MessageIsTrue, v
<1>13. QED
  BY <1>3, <1>5, <1>6, <1>7, <1>8, <1>9, <1>10, <1>11, <1>12 DEF Actions

(* Sending keeps the queue true and the entries the guest's.               *)
LEMMA SendKeeps ==
  ASSUME GInv, NEW f, OfFamily(f), NEW box \in SUBSET inbox, Send(f, box)
  PROVE  /\ guest' = guest
         /\ \A m \in inbox' : MessageIsTrue(m)
         /\ EntriesAreOfGuest'
<1> DEFINE v == IF InUft(f) THEN Denied ELSE OutVerdict(f)
<1>1. guest' = guest
  BY DEF Send
<1>2. ASSUME NEW m \in inbox'
      PROVE  MessageIsTrue(m)
  <2>1. CASE v.kind # "hairpin"
    BY <2>1 DEF Send, GInv
  <2>2. CASE v.kind = "hairpin"
    <3>1. v = OutVerdict(f)
      BY <2>2 DEF Denied
    <3>2. MessageIsTrue(v.frame)
      BY <2>2, <3>1, AnswerIsTrue DEF GInv
    <3>3. inbox' \subseteq box \cup {v.frame}
      BY <2>2 DEF Send
    <3>4. QED
      BY <3>2, <3>3 DEF GInv
  <2>3. QED
    BY <2>1, <2>2
<1>3. EntriesAreOfGuest'
  <2>1. CASE v.kind # "passed"
    BY <2>1 DEF Send, GInv, EntriesAreOfGuest
  <2>2. CASE v.kind = "passed"
    <3>1. v = OutVerdict(f)
      BY <2>2 DEF Denied
    <3>2. f.src \in {"guest4", "guest6"}
      BY <2>2, <3>1, PassedHasGuestSource
    <3>3. uft' \subseteq uft \cup {Key(f)}
      BY <2>2 DEF Send
    <3>4. Key(f)[2] = f.src
      BY DEF Key
    <3>5. QED
      BY <3>2, <3>3, <3>4 DEF GInv, EntriesAreOfGuest
  <2>3. QED
    BY <2>1, <2>2
<1>4. QED
  BY <1>1, <1>2, <1>3

LEMMA InitGInv == Init => GInv
BY DEF Init, GInv, ConfiguredIsTrue, EntriesAreOfGuest

(* The frames that a guest of either family sends.                         *)
LEMMA FramesOfFamily4 ==
  ASSUME guest.family = "ip4"
  PROVE  /\ \A msg, x : OfFamily(Discover4(msg, x))
         /\ \A dst \in {"gw4", "broadcast4"} : OfFamily(Renewal(dst))
         /\ OfFamily(ArpRequest)
         /\ \A f \in Strays4 : OfFamily(f)
<1>1. \A msg, x : OfFamily(Discover4(msg, x))
  BY DEF OfFamily, Discover4, Frame
<1>2. ASSUME NEW dst \in {"gw4", "broadcast4"}
      PROVE  OfFamily(Renewal(dst))
  BY DEF OfFamily, Renewal, Discover4, Frame
<1>3. OfFamily(ArpRequest)
  BY DEF OfFamily, ArpRequest, Arp, Frame, None
<1>4. ASSUME NEW f \in Strays4
      PROVE  OfFamily(f)
  <2> DEFINE ping == Icmp4("guest", "gateway", "guest4", "gw4", "echo")
             arp == Arp("guest", "broadcast", "arp request",
                        [sha |-> "guest", tpa |-> "peer4"])
             decline == Discover4("decline", CHOOSE x \in Xids : TRUE)
  <2>1. /\ OfFamily(ping)
        /\ OfFamily([ping EXCEPT !.msg = "echo reply"])
        /\ OfFamily([ping EXCEPT !.smac = "other"])
    BY DEF OfFamily, Icmp4, Frame
  <2>2. /\ OfFamily(Data("ip4", "guest4", "peer4"))
        /\ OfFamily(Data("ip4", "other4", "peer4"))
    BY DEF OfFamily, Data, Frame
  <2>3. OfFamily(arp)
    BY DEF OfFamily, Arp, Frame, None
  <2>4. OfFamily(decline)
    BY <1>1
  <2>5. f \in {ping, [ping EXCEPT !.msg = "echo reply"],
              [ping EXCEPT !.smac = "other"],
              Data("ip4", "guest4", "peer4"), Data("ip4", "other4", "peer4"),
              decline, arp}
    BY DEF Strays4
  <2> HIDE DEF ping, arp, decline
  <2>6. QED
    BY <2>1, <2>2, <2>3, <2>4, <2>5
<1>5. QED
  BY <1>1, <1>2, <1>3, <1>4

LEMMA FramesOfFamily6 ==
  ASSUME guest \in Guests, guest.family = "ip6"
  PROVE  /\ OfFamily(RouterSolicit)
         /\ \A msg, x, sid : OfFamily(Dhcp6Frame(msg, x, sid))
         /\ \A src, dst, dmac :
              src # "any4" => OfFamily(NeighborSolicit(src, dst, dmac))
         /\ \A f \in Strays6 : OfFamily(f)
<1>1. guest.ll # "any4"
  BY GuestShape
<1>2. OfFamily(RouterSolicit)
  BY <1>1 DEF OfFamily, RouterSolicit, Icmp6, Frame
<1>3. \A msg, x, sid : OfFamily(Dhcp6Frame(msg, x, sid))
  BY <1>1 DEF OfFamily, Dhcp6Frame, Frame
<1>4. \A src, dst, dmac :
        src # "any4" => OfFamily(NeighborSolicit(src, dst, dmac))
  BY DEF OfFamily, NeighborSolicit, Icmp6, Frame
<1>5. ASSUME NEW f \in Strays6
      PROVE  f.src # "any4"
  <2> DEFINE ping(src) == Icmp6("guest", "gateway", src, Gw6, "echo6", NoData)
             dhcp == Dhcp6Frame("confirm6", CHOOSE x \in Xids : TRUE, None)
  <2>1. /\ ping("guest6").src = "guest6"
        /\ ping(guest.ll).src = guest.ll
        /\ [ping("guest6") EXCEPT !.msg = "echo6 reply"].src = "guest6"
    BY DEF Icmp6, Frame
  <2>2. /\ Data("ip6", "guest6", "peer6").src = "guest6"
        /\ Data("ip6", "other6", "peer6").src = "other6"
    BY DEF Data, Frame
  <2>3. [RouterSolicit EXCEPT !.data = [sound |-> FALSE]].src = guest.ll
    BY DEF RouterSolicit, Icmp6, Frame
  <2>4. /\ MulticastSolicit("any6").src = "any6"
        /\ [MulticastSolicit("any6") EXCEPT !.data.lladdr = TRUE].src = "any6"
        /\ [MulticastSolicit(guest.ll) EXCEPT !.data.target = "allNodes"].src
             = guest.ll
    BY DEF MulticastSolicit, NeighborSolicit, Icmp6, Frame
  <2>5. /\ [dhcp EXCEPT !.msg = "rebind6"].src = guest.ll
        /\ [dhcp EXCEPT !.msg = "solicit6", !.data.cid = FALSE].src = guest.ll
        /\ [dhcp EXCEPT !.msg = "solicit6", !.data.elapsed = FALSE].src = guest.ll
        /\ [dhcp EXCEPT !.data.nested = {"guest6"}].src = guest.ll
        /\ [dhcp EXCEPT !.data.nested = {"other6"}].src = guest.ll
    BY DEF Dhcp6Frame, Frame
  <2>6. f \in {ping("guest6"), ping(guest.ll),
              [ping("guest6") EXCEPT !.msg = "echo6 reply"],
              Data("ip6", "guest6", "peer6"), Data("ip6", "other6", "peer6"),
              [RouterSolicit EXCEPT !.data = [sound |-> FALSE]],
              MulticastSolicit("any6"),
              [MulticastSolicit("any6") EXCEPT !.data.lladdr = TRUE],
              [MulticastSolicit(guest.ll) EXCEPT !.data.target = "allNodes"],
              [dhcp EXCEPT !.msg = "rebind6"],
              [dhcp EXCEPT !.msg = "solicit6", !.data.cid = FALSE],
              [dhcp EXCEPT !.msg = "solicit6", !.data.elapsed = FALSE],
              [dhcp EXCEPT !.data.nested = {"guest6"}],
              [dhcp EXCEPT !.data.nested = {"other6"}]}
    BY Zenon DEF Strays6
  <2>7. f.src \in {"guest6", "other6", "any6", guest.ll}
    BY <2>1, <2>2, <2>3, <2>4, <2>5, <2>6, Zenon
  <2>8. QED
    BY <1>1, <2>7
<1>6. QED
  BY <1>2, <1>3, <1>4, <1>5 DEF OfFamily

(* The invariant is kept by a step that sends: what the guest knows must   *)
(* be true after it.                                                       *)
LEMMA SendingStep ==
  ASSUME GInv, NEW f, OfFamily(f), NEW box \in SUBSET inbox, Send(f, box),
         UNCHANGED <<addr, router, neighbor>>
  PROVE  GInv'
<1>1. /\ guest' = guest
      /\ \A m \in inbox' : MessageIsTrue(m)
      /\ EntriesAreOfGuest'
  BY SendKeeps
<1>2. ConfiguredIsTrue'
  BY <1>1 DEF GInv, ConfiguredIsTrue, GuestAddr
<1>3. \A m \in inbox' : MessageIsTrue(m)'
  BY <1>1 DEF MessageIsTrue
<1>4. QED
  BY <1>1, <1>2, <1>3 DEF GInv

(* The same for a step that only takes messages or forgets entries.        *)
LEMMA TakingStep ==
  ASSUME GInv, UNCHANGED guest, inbox' \subseteq inbox, uft' \subseteq uft,
         ConfiguredIsTrue'
  PROVE  GInv'
<1>1. \A m \in inbox' : MessageIsTrue(m)'
  BY DEF GInv, MessageIsTrue
<1>2. QED
  BY <1>1 DEF GInv, EntriesAreOfGuest

LEMMA StepGInv == GInv /\ [Next]_vars => GInv'
<1> SUFFICES ASSUME GInv, [Next]_vars
             PROVE  GInv'
  OBVIOUS
<1>1. /\ guest \in Guests
      /\ guest.family \in {"ip4", "ip6"} /\ guest.ll \in {"llGuest", "llOther"}
      /\ inbox \in SUBSET inbox
  BY GuestShape DEF GInv
<1>2. CASE Discover
  BY <1>1, <1>2, FramesOfFamily4, SendingStep DEF Discover
<1>3. CASE TakeOffer
  <2>1. PICK m \in inbox :
          m.msg = "offer" /\ Send(Discover4("request", xid), inbox \ {m})
    BY <1>3 DEF TakeOffer
  <2>2. guest.family = "ip4"
    BY <2>1 DEF GInv, MessageIsTrue
  <2>3. inbox \ {m} \in SUBSET inbox /\ UNCHANGED <<addr, router, neighbor>>
    BY <1>3 DEF TakeOffer
  <2>4. QED
    BY <2>1, <2>2, <2>3, FramesOfFamily4, SendingStep
<1>4. CASE TakeAck
  <2>1. PICK m \in inbox :
          /\ m.msg = "ack" /\ addr' = m.data.addr /\ router' = m.data.router
          /\ inbox' = inbox \ {m}
    BY <1>4 DEF TakeAck
  <2>2. MessageIsTrue(m)
    BY <2>1 DEF GInv
  <2>3. ConfiguredIsTrue'
    BY <1>4, <2>1, <2>2 DEF TakeAck,
         MessageIsTrue, GInv, ConfiguredIsTrue, GuestAddr
  <2>4. QED
    BY <1>4, <2>1, <2>3, TakingStep DEF TakeAck
<1>5. CASE Renew
  BY <1>1, <1>5, FramesOfFamily4, SendingStep DEF Renew, client
<1>6. CASE AskForRouter
  BY <1>1, <1>6, FramesOfFamily4, SendingStep DEF AskForRouter, client
<1>7. CASE TakeArpReply
  <2>1. PICK m \in inbox :
          m.msg = "arp reply" /\ neighbor' = m.data.sha /\ inbox' = inbox \ {m}
    BY <1>7 DEF TakeArpReply
  <2>2. ConfiguredIsTrue'
    BY <1>7, <2>1 DEF TakeArpReply,
         MessageIsTrue, GInv, ConfiguredIsTrue, GuestAddr
  <2>3. QED
    BY <1>7, <2>1, <2>2, TakingStep DEF TakeArpReply
<1>8. CASE SolicitRouter
  BY <1>1, <1>8, FramesOfFamily6, SendingStep DEF SolicitRouter, client
<1>9. CASE TakeRouterAdvert
  <2>1. PICK m \in inbox :
          /\ m.msg = "router advert" /\ neighbor' = m.data.lladdr
          /\ inbox' = inbox \ {m}
    BY <1>9 DEF TakeRouterAdvert
  <2>2. ConfiguredIsTrue'
    BY <1>9, <2>1 DEF TakeRouterAdvert,
         MessageIsTrue, GInv, ConfiguredIsTrue, GuestAddr
  <2>3. QED
    BY <1>9, <2>1, <2>2, TakingStep DEF TakeRouterAdvert
<1>10. CASE Solicit
  BY <1>1, <1>10, FramesOfFamily6, SendingStep DEF Solicit
<1>11. CASE TakeAdvertise
  <2>1. PICK m \in inbox, x \in Xids :
          /\ m.msg = "advertise"
          /\ Send(Dhcp6Frame("request6", x, server'), inbox \ {m})
    BY <1>11 DEF TakeAdvertise
  <2>2. inbox \ {m} \in SUBSET inbox /\ UNCHANGED <<addr, router, neighbor>>
    BY <1>11 DEF TakeAdvertise
  <2>3. guest.family = "ip6"
    BY <2>1 DEF GInv, MessageIsTrue
  <2>4. QED
    BY <1>1, <2>1, <2>2, <2>3, FramesOfFamily6, SendingStep
<1>12. CASE TakeReply
  <2>1. PICK m \in inbox :
          m.msg = "reply" /\ addr' \in m.data.addrs /\ inbox' = inbox \ {m}
    BY <1>12 DEF TakeReply
  <2>2. MessageIsTrue(m)
    BY <2>1 DEF GInv
  <2>3. ConfiguredIsTrue'
    BY <1>12, <2>1, <2>2 DEF TakeReply,
         MessageIsTrue, GInv, ConfiguredIsTrue, GuestAddr
  <2>4. QED
    BY <1>12, <2>1, <2>3, TakingStep DEF TakeReply
<1>13. CASE Confirm
  BY <1>1, <1>13, FramesOfFamily6, SendingStep DEF Confirm, client
<1>14. ASSUME NEW src, src # "any4", SolicitNeighbor(src)
       PROVE  GInv'
  BY <1>1, <1>14, FramesOfFamily6, SendingStep
     DEF SolicitNeighbor, MulticastSolicit, client
<1>15. CASE SolicitFromLinkLocal
  BY <1>1, <1>14, <1>15 DEF SolicitFromLinkLocal
<1>16. CASE SolicitFromAddress
  BY <1>14, <1>16 DEF SolicitFromAddress, GInv, ConfiguredIsTrue, GuestAddr, None
<1>17. CASE TakeNeighborAdvert
  <2>1. PICK m \in inbox :
          /\ m.msg = "neighbor advert" /\ neighbor' = m.data.lladdr
          /\ inbox' = inbox \ {m}
    BY <1>17 DEF TakeNeighborAdvert
  <2>2. ConfiguredIsTrue'
    BY <1>17, <2>1 DEF TakeNeighborAdvert,
         MessageIsTrue, GInv, ConfiguredIsTrue, GuestAddr
  <2>3. QED
    BY <1>17, <2>1, <2>2, TakingStep DEF TakeNeighborAdvert
<1>18. CASE Release
  <2>1. ConfiguredIsTrue'
    BY <1>18 DEF Release, ConfiguredIsTrue
  <2>2. QED
    BY <1>18, <2>1, TakingStep DEF Release
<1>19. CASE Forget
  <2>1. ConfiguredIsTrue'
    BY <1>19 DEF Forget, GInv, ConfiguredIsTrue, GuestAddr
  <2>2. QED
    BY <1>19, <2>1, TakingStep DEF Forget
<1>20. CASE Stray
  BY <1>1, <1>20, FramesOfFamily4, FramesOfFamily6, SendingStep DEF Stray, client
<1>21. CASE Expire
  <2>1. ConfiguredIsTrue'
    BY <1>21 DEF Expire, client, GInv, ConfiguredIsTrue, GuestAddr
  <2>2. QED
    BY <1>21, <2>1, TakingStep DEF Expire
<1>22. CASE Lose
  <2>1. ConfiguredIsTrue'
    BY <1>22 DEF Lose, client, GInv, ConfiguredIsTrue, GuestAddr
  <2>2. QED
    BY <1>22, <2>1, TakingStep DEF Lose
<1>23. CASE UNCHANGED vars
  <2>1. ConfiguredIsTrue'
    BY <1>23 DEF vars, client, GInv, ConfiguredIsTrue, GuestAddr
  <2>2. QED
    BY <1>23, <2>1, TakingStep DEF vars
<1>24. QED
  BY <1>2, <1>3, <1>4, <1>5, <1>6, <1>7, <1>8, <1>9, <1>10, <1>11, <1>12, <1>13,
     <1>15, <1>16, <1>17, <1>18, <1>19, <1>20, <1>21, <1>22, <1>23 DEF Next

THEOREM GInvHolds == Spec => []GInv
<1>1. QED
  BY InitGInv, StepGInv, PTL DEF Spec

(* A guest that has an address can use it, whatever it sent before and     *)
(* whatever answers were lost or late.                                     *)
THEOREM BoundIsConnected == Spec => []BoundGuestIsConnected
<1>1. GInv => BoundGuestIsConnected
  <2> SUFFICES ASSUME GInv, addr # None
               PROVE  /\ OutVerdict(Data(guest.family, addr, "peer")).kind
                           = "passed"
                      /\ \E m \in InFrames([Data(guest.family, "peer", addr)
                                              EXCEPT !.dmac = "guest"]) :
                           m.smac = IF neighbor = None THEN "gateway"
                                    ELSE neighbor
                      /\ OutVerdict(IF guest.family = "ip4" THEN ArpRequest
                                    ELSE MulticastSolicit(guest.ll)).kind
                           = "hairpin"
    BY DEF BoundGuestIsConnected
  <2>1. /\ guest.family \in {"ip4", "ip6"}
        /\ guest.ll \in {"llGuest", "llOther"}
        /\ addr \in {"guest4", "guest6"}
        /\ neighbor \in {None, "gateway"}
        /\ guest.family = "ip4" => router = "gw4"
    BY GuestShape DEF GInv, ConfiguredIsTrue, GuestAddr
  <2>2. OutVerdict(Data(guest.family, addr, "peer")).kind = "passed"
    BY <2>1, GuestDataPasses
  <2>3. \E m \in InFrames([Data(guest.family, "peer", addr) EXCEPT !.dmac = "guest"]) :
          m.smac = "gateway"
    BY <2>1, DataToGuestArrives
  <2>4. OutVerdict(IF guest.family = "ip4" THEN ArpRequest
                   ELSE MulticastSolicit(guest.ll)).kind = "hairpin"
    BY <2>1, RouterIsAnswered, NeighborIsAnswered
  <2>5. QED
    BY <2>1, <2>2, <2>3, <2>4
<1>2. QED
  BY <1>1, GInvHolds, PTL

(* No UFT entry takes the frames that configure the guest past the layer:  *)
(* entries have the guest's own addresses as their source, these frames    *)
(* have none yet.                                                          *)
THEOREM ConfigMeetsTheLayer == Spec => []ConfigIsNotShadowed
<1>1. GInv => ConfigIsNotShadowed
  <2> SUFFICES ASSUME GInv
               PROVE  ConfigIsNotShadowed
    OBVIOUS
  <2>1. guest.ll \in {"llGuest", "llOther"}
    BY GuestShape DEF GInv
  <2>2. ASSUME NEW f, f.src \in {"any4", "llGuest", "llOther"}
        PROVE  ~InUft(f)
    <3>1. Key(f)[2] = f.src
      BY DEF Key
    <3>2. QED
      BY <2>2, <3>1 DEF InUft, GInv, EntriesAreOfGuest
  <2>3. \A msg, x : Discover4(msg, x).src = "any4"
    BY DEF Discover4, Frame
  <2>4. /\ RouterSolicit.src = guest.ll
        /\ MulticastSolicit(guest.ll).src = guest.ll
        /\ \A msg, x, sid : Dhcp6Frame(msg, x, sid).src = guest.ll
    BY DEF RouterSolicit, MulticastSolicit, NeighborSolicit, Dhcp6Frame, Icmp6, Frame
  <2>5. QED
    BY <2>1, <2>2, <2>3, <2>4 DEF ConfigIsNotShadowed
<1>2. QED
  BY <1>1, GInvHolds, PTL
=============================================================================

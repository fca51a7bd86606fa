---------------------------- MODULE Layers_proofs ----------------------------
(***************************************************************************)
(* Proofs about the two layers that are built on LayerFlowTable, for every *)
(* limit and TTL.                                                          *)
(*                                                                         *)
(* The NAT layer, for every set of remotes and ports, with and without 1:1 *)
(* NAT: public ports are exclusive, the two tables stay paired, replies    *)
(* are mapped back to the flow they answer, and the counter is exact.      *)
(* The three facts hang together.  That no two flows share an inbound key  *)
(* needs the exclusive ports; that ports are exclusive needs the pairing,  *)
(* since a port comes back when both entries of a pair are gone; and the   *)
(* counter is exact because add_pair() never overwrites an entry.          *)
(*                                                                         *)
(* The firewall layer implements a stateful filter, for any flows.  What   *)
(* the refinement needs of the layer's flow table: both sides have entries *)
(* for the same flows, so that a flow is open in both directions or in     *)
(* neither, and the counter that the limit is checked against is the       *)
(* number of flows that are open.                                          *)
(***************************************************************************)
EXTENDS NatLayer, FirewallLayer, FiniteSetTheorems, TLAPS

(* How an entry was made: by 1:1 NAT when an external address is there,    *)
(* by source NAT with a pool port otherwise; its partner is keyed by the   *)
(* translated flow.                                                        *)
WellFormed ==
  \A f \in OutKeys :
    /\ ftOut[f].pair = Translate(ftOut[f].desc, f)
    /\ externalIp => ftOut[f].desc = OneToOne
    /\ ~externalIp => /\ ftOut[f].desc.addr = "snat"
                      /\ ftOut[f].desc.nat \in PubPorts
                      /\ f.port # NoPort => ftOut[f].desc.priv = f.port

FiniteKeys == IsFiniteSet(OutKeys)

IInv ==
  /\ TypeOK
  /\ WellFormed
  /\ Paired
  /\ PortsAreExclusive
  /\ FiniteKeys
  /\ CountIsExact

-----------------------------------------------------------------------------
(* Before the first packet the tables are empty and every port is free.    *)
LEMMA InitIInv == Init => IInv
<1> SUFFICES ASSUME Init PROVE IInv
  OBVIOUS
<1>1. OutKeys = {} /\ InKeys = {}
  BY DEF Init, OutKeys, InKeys
<1>2. TypeOK
  BY DEF Init, TypeOK
<1>3. FiniteKeys /\ CountIsExact
  BY <1>1, FS_EmptySet, NonZeroAssumption DEF Init, FiniteKeys, CountIsExact
<1>4. WellFormed /\ Paired
  BY <1>1 DEF WellFormed, Paired
<1>5. PortsAreExclusive
  BY <1>1 DEF Init, PortsAreExclusive
<1>6. QED
  BY <1>2, <1>3, <1>4, <1>5 DEF IInv

(* Adding a pair for a flow and an inbound key that have no entry: the     *)
(* tables stay paired and counted, and nothing else moves.                 *)
LEMMA AddPairShape ==
  ASSUME IInv, NEW d \in Desc, NEW f \in OutFlow, NEW g \in InFlow,
         f \notin OutKeys, g \notin InKeys, ~IsFull, AddPair(d, g, f)
  PROVE  /\ ftOut' \in [OutFlow -> OutEntry \cup {NoEntry}]
         /\ ftIn' \in [InFlow -> Desc \cup {NoEntry}]
         /\ count' \in Nat /\ statFlows' \in Nat
         /\ OutKeys' = OutKeys \cup {f}
         /\ ftOut'[f] = [pair |-> g, desc |-> d, age |-> 0]
         /\ \A h \in OutKeys : ftOut'[h] = ftOut[h]
         /\ Paired'
         /\ FiniteKeys'
         /\ CountIsExact'
<1> DEFINE e == [pair |-> g, desc |-> d, age |-> 0]
<1>1. e \in OutEntry /\ e # NoEntry /\ d # NoEntry
  BY NonZeroAssumption, NoEntryAssumption DEF OutEntry
<1>2. /\ ftOut' = [ftOut EXCEPT ![f] = e]
      /\ ftIn' = [ftIn EXCEPT ![g] = d]
      /\ count' = count + 1
      /\ statFlows' = statFlows + 1
  BY DEF AddPair
<1>3. /\ ftOut \in [OutFlow -> OutEntry \cup {NoEntry}]
      /\ ftIn \in [InFlow -> Desc \cup {NoEntry}]
      /\ count \in Nat /\ statFlows \in Nat
  BY DEF IInv, TypeOK
<1>4. /\ ftOut' \in [OutFlow -> OutEntry \cup {NoEntry}]
      /\ ftIn' \in [InFlow -> Desc \cup {NoEntry}]
      /\ count' \in Nat /\ statFlows' \in Nat
  BY <1>1, <1>2, <1>3
<1>5. OutKeys' = OutKeys \cup {f} /\ InKeys' = InKeys \cup {g}
  BY <1>1, <1>2, <1>3 DEF OutKeys, InKeys
<1>6. /\ ftOut'[f] = e
      /\ \A h \in OutKeys : ftOut'[h] = ftOut[h]
  BY <1>2, <1>3 DEF OutKeys
<1>7. \A h \in OutKeys : ftOut[h].pair # g
  BY <1>3, NoEntryAssumption DEF IInv, Paired, InKeys, OutKeys, OutEntry
<1>8. Paired'
  <2>1. \A h \in OutKeys' : ftIn'[ftOut'[h].pair] = ftOut'[h].desc
    <3>1. ftIn'[ftOut'[f].pair] = ftOut'[f].desc
      BY <1>2, <1>3, <1>6
    <3>2. \A h \in OutKeys : ftIn'[ftOut[h].pair] = ftIn[ftOut[h].pair]
      BY <1>2, <1>3, <1>7
    <3>3. QED
      BY <1>5, <1>6, <3>1, <3>2 DEF IInv, Paired
  <2>2. \A h, k \in OutKeys' : ftOut'[h].pair = ftOut'[k].pair => h = k
    BY <1>5, <1>6, <1>7 DEF IInv, Paired
  <2>3. \A x \in InKeys' : \E h \in OutKeys' : ftOut'[h].pair = x
    BY <1>5, <1>6 DEF IInv, Paired
  <2>4. QED
    BY <2>1, <2>2, <2>3 DEF Paired
<1>9. FiniteKeys' /\ CountIsExact'
  <2>1. /\ IsFiniteSet(OutKeys) /\ count = Cardinality(OutKeys)
        /\ count <= Limit /\ count # Limit
    BY DEF IInv, FiniteKeys, CountIsExact, IsFull
  <2>2. /\ IsFiniteSet(OutKeys \cup {f})
        /\ Cardinality(OutKeys \cup {f}) = Cardinality(OutKeys) + 1
    BY <2>1, FS_AddElement
  <2>3. QED
    BY <1>2, <1>3, <1>5, <2>1, <2>2, NonZeroAssumption DEF FiniteKeys, CountIsExact
<1>10. QED
  BY <1>4, <1>5, <1>6, <1>8, <1>9

(* A pair made with a well-formed descriptor: what is left to show of the  *)
(* invariant when the owner of a new public port, if any, is the new flow. *)
LEMMA NewPairIInv ==
  ASSUME IInv, NEW d \in Desc, NEW f \in OutFlow, NEW g \in InFlow,
         f \notin OutKeys, g \notin InKeys, ~IsFull, AddPair(d, g, f),
         g = Translate(d, f),
         externalIp => d = OneToOne,
         ~externalIp => /\ d.addr = "snat"
                        /\ d.nat \in PubPorts
                        /\ f.port # NoPort => d.priv = f.port,
         \/ d.nat = NoPort /\ UNCHANGED free
         \/ d.nat \in PubPorts /\ Obtain(d.nat),
         UNCHANGED externalIp,
         idents' \in [OutFlow -> SUBSET PrivPorts]
  PROVE  IInv'
<1>1. /\ ftOut' \in [OutFlow -> OutEntry \cup {NoEntry}]
      /\ ftIn' \in [InFlow -> Desc \cup {NoEntry}]
      /\ count' \in Nat /\ statFlows' \in Nat
      /\ OutKeys' = OutKeys \cup {f}
      /\ ftOut'[f] = [pair |-> g, desc |-> d, age |-> 0]
      /\ \A h \in OutKeys : ftOut'[h] = ftOut[h]
      /\ Paired'
      /\ FiniteKeys'
      /\ CountIsExact'
  BY AddPairShape
<1>2. /\ free \in [PubPorts -> Nat]
      /\ \A p \in PubPorts : free[p] \in {0, 1}
      /\ NoPort \notin PubPorts
  BY PortsAssumption DEF IInv, TypeOK, PortsAreExclusive
<1>3. \A h \in OutKeys : ftOut[h].desc.nat \in PubPorts \cup {NoPort}
  BY DEF IInv, TypeOK, OutKeys, OutEntry, Desc
<1>4. /\ free' \in [PubPorts -> Nat]
      /\ \A p \in PubPorts : free'[p] \in {0, 1}
      /\ d.nat # NoPort => free'[d.nat] = 0 /\ free[d.nat] = 1
      /\ \A p \in PubPorts : p # d.nat => free'[p] = free[p]
  BY <1>2 DEF Obtain
<1>5. TypeOK'
  BY <1>1, <1>4 DEF TypeOK, IInv
<1>6. WellFormed'
  BY <1>1 DEF WellFormed, IInv, Translate
<1>7. \A h \in OutKeys : ftOut[h].desc.nat # NoPort =>
        ftOut[h].desc.nat # d.nat /\ free[ftOut[h].desc.nat] = 0
  BY <1>2, <1>3, <1>4 DEF IInv, PortsAreExclusive
<1>8. PortsAreExclusive'
  <2>1. \A h \in OutKeys' : ftOut'[h].desc.nat # NoPort =>
          free'[ftOut'[h].desc.nat] = 0
    BY <1>1, <1>3, <1>4, <1>7
  <2>2. \A h, k \in OutKeys' :
          ftOut'[h].desc.nat = ftOut'[k].desc.nat /\ ftOut'[h].desc.nat # NoPort
            => h = k
    BY <1>1, <1>7 DEF IInv, PortsAreExclusive
  <2>3. QED
    BY <1>4, <2>1, <2>2 DEF PortsAreExclusive
<1>9. QED
  BY <1>1, <1>5, <1>6, <1>8 DEF IInv

(* Source NAT of a new flow: the port that comes off the free list makes   *)
(* the inbound key one that no flow of the table has.                      *)
LEMMA OutSNatIInv ==
  ASSUME IInv, NEW f \in OutFlow, NEW i \in PrivPorts, NEW p \in PubPorts,
         OutSNat(f, i, p)
  PROVE  IInv'
<1> DEFINE d == SNatDesc(p, PrivOf(f, i))
           g == Translate(d, f)
<1>1. /\ d \in Desc
      /\ d.addr = "snat" /\ d.nat = p
      /\ f.port # NoPort => d.priv = f.port
  BY DEF SNatDesc, PrivOf, Desc, OutFlow
<1>2. /\ g \in InFlow
      /\ g.remote = f.remote /\ g.addr = "snat"
      /\ g.port = IF f.port # NoPort THEN p ELSE f.port
  BY <1>1 DEF Translate, InFlow, OutFlow
<1>3. /\ ~externalIp /\ f \notin OutKeys /\ ~IsFull
      /\ Obtain(p) /\ AddPair(d, g, f) /\ UNCHANGED externalIp
  BY DEF OutSNat
<1>4. idents' \in [OutFlow -> SUBSET PrivPorts]
  BY PortsAssumption DEF OutSNat, IInv, TypeOK, PrivOf, OutFlow
<1> HIDE DEF d, g
<1>5. g \notin InKeys
  <2> SUFFICES ASSUME g \in InKeys PROVE FALSE
    OBVIOUS
  <2>1. PICK h \in OutKeys : ftOut[h].pair = g
    BY DEF IInv, Paired
  <2>2. /\ h \in OutFlow
        /\ g = Translate(ftOut[h].desc, h)
        /\ ftOut[h].desc.addr = "snat" /\ ftOut[h].desc.nat \in PubPorts
    BY <1>3, <2>1 DEF IInv, WellFormed, TypeOK, OutKeys
  <2>3. h.remote = f.remote
    BY <1>2, <2>2 DEF Translate
  <2>4. CASE f.port = NoPort
    <3>1. h.port = NoPort
      BY <1>2, <2>2, <2>4, PortsAssumption DEF Translate
    <3>2. h = f
      BY <2>2, <2>3, <2>4, <3>1 DEF OutFlow
    <3>3. QED
      BY <1>3, <3>2
  <2>5. CASE f.port # NoPort
    <3>1. ftOut[h].desc.nat = p
      BY <1>2, <2>2, <2>5, PortsAssumption DEF Translate
    <3>2. free[p] = 0
      BY <3>1, PortsAssumption DEF IInv, PortsAreExclusive
    <3>3. QED
      BY <1>3, <3>2 DEF Obtain
  <2>6. QED
    BY <2>4, <2>5
<1>6. g = Translate(d, f)
  BY DEF g
<1>7. QED
  BY <1>1, <1>2, <1>3, <1>4, <1>5, <1>6, NewPairIInv

(* 1:1 NAT of a new outbound flow: the translation keeps the port, so two  *)
(* flows of the guest never meet in one inbound key.                       *)
LEMMA OutOneToOneIInv ==
  ASSUME IInv, NEW f \in OutFlow, NEW i \in PrivPorts, OutOneToOne(f, i)
  PROVE  IInv'
<1> DEFINE g == Translate(OneToOne, f)
<1>1. OneToOne \in Desc /\ OneToOne.addr = "ext" /\ OneToOne.nat = NoPort
  BY DEF OneToOne, Desc
<1>2. /\ g \in InFlow
      /\ g.remote = f.remote /\ g.port = f.port
  BY <1>1 DEF Translate, InFlow, OutFlow
<1>3. /\ externalIp /\ f \notin OutKeys /\ ~IsFull
      /\ AddPair(OneToOne, g, f) /\ UNCHANGED <<externalIp, free>>
  BY DEF OutOneToOne
<1>4. idents' \in [OutFlow -> SUBSET PrivPorts]
  BY PortsAssumption DEF OutOneToOne, IInv, TypeOK, PrivOf, OutFlow
<1>5. g = Translate(OneToOne, f)
  OBVIOUS
<1> HIDE DEF g
<1>6. g \notin InKeys
  <2> SUFFICES ASSUME g \in InKeys PROVE FALSE
    OBVIOUS
  <2>1. PICK h \in OutKeys : ftOut[h].pair = g
    BY DEF IInv, Paired
  <2>2. h \in OutFlow /\ g = Translate(OneToOne, h)
    BY <1>3, <2>1 DEF IInv, WellFormed, TypeOK, OutKeys
  <2>3. h = f
    BY <1>1, <1>2, <2>2 DEF Translate, OutFlow
  <2>4. QED
    BY <1>3, <2>3
<1>7. QED
  BY <1>1, <1>2, <1>3, <1>4, <1>5, <1>6, NewPairIInv

(* 1:1 NAT of a new inbound flow: had its outbound flow an entry, the      *)
(* partner of that entry would be the inbound flow itself.                 *)
LEMMA InOneToOneIInv ==
  ASSUME IInv, NEW g \in InFlow, InOneToOne(g)
  PROVE  IInv'
<1> DEFINE f == Restore(OneToOne, g)
<1>1. OneToOne \in Desc /\ OneToOne.addr = "ext" /\ OneToOne.nat = NoPort
  BY DEF OneToOne, Desc
<1>2. /\ externalIp /\ g \notin InKeys /\ ~IsFull
      /\ g.addr = "ext" /\ g.port \in PrivPorts \cup {NoPort}
      /\ AddPair(OneToOne, g, f)
      /\ UNCHANGED <<externalIp, free, idents>>
  BY DEF InOneToOne
<1>3. f \in OutFlow /\ f.remote = g.remote /\ f.port = g.port
  BY <1>1, <1>2 DEF Restore, OutFlow, InFlow
<1> HIDE DEF f
<1>4. g = Translate(OneToOne, f)
  BY <1>1, <1>2, <1>3 DEF Translate, InFlow
<1>5. f \notin OutKeys
  <2> SUFFICES ASSUME f \in OutKeys PROVE FALSE
    OBVIOUS
  <2>1. ftOut[f].pair = g /\ ftOut[f].desc = OneToOne
    BY <1>2, <1>4 DEF IInv, WellFormed
  <2>2. ftIn[g] = OneToOne
    BY <2>1 DEF IInv, Paired
  <2>3. g \in InKeys
    BY <1>1, <2>2, NoEntryAssumption DEF InKeys, IInv, TypeOK
  <2>4. QED
    BY <1>2, <2>3
<1>6. idents' \in [OutFlow -> SUBSET PrivPorts]
  BY <1>2 DEF IInv, TypeOK
<1>7. QED
  BY <1>1, <1>2, <1>3, <1>4, <1>5, <1>6, NewPairIInv

(* Port that is obtained and lost: it goes off the free list and, having   *)
(* been on it, is no flow's.                                               *)
LEMMA OutSNatNotEchoIInv ==
  ASSUME IInv, NEW f \in OutFlow, NEW p \in PubPorts, OutSNatNotEcho(f, p)
  PROVE  IInv'
<1>1. /\ UNCHANGED <<ftOut, ftIn, count, statFlows, externalIp, idents>>
      /\ Obtain(p)
  BY DEF OutSNatNotEcho
<1>2. /\ free \in [PubPorts -> Nat]
      /\ \A q \in PubPorts : free[q] \in {0, 1}
  BY DEF IInv, TypeOK, PortsAreExclusive
<1>3. /\ free' \in [PubPorts -> Nat]
      /\ \A q \in PubPorts : free'[q] \in {0, 1} /\ (free[q] = 0 => free'[q] = 0)
  BY <1>1, <1>2 DEF Obtain
<1>4. OutKeys' = OutKeys /\ InKeys' = InKeys
  BY <1>1 DEF OutKeys, InKeys
<1>5. \A h \in OutKeys : ftOut[h].desc.nat \in PubPorts \cup {NoPort}
  BY DEF IInv, TypeOK, OutKeys, OutEntry, Desc
<1>6. PortsAreExclusive'
  BY <1>1, <1>3, <1>4, <1>5 DEF IInv, PortsAreExclusive
<1>7. TypeOK' /\ WellFormed' /\ Paired' /\ FiniteKeys' /\ CountIsExact'
  BY <1>1, <1>3, <1>4 DEF IInv, TypeOK, WellFormed, Paired, FiniteKeys, CountIsExact
<1>8. QED
  BY <1>6, <1>7 DEF IInv

(* Steps that change nothing but the age of entries.                       *)
LEMMA AgesOnlyIInv ==
  ASSUME IInv,
         ftOut' \in [OutFlow -> OutEntry \cup {NoEntry}],
         OutKeys' = OutKeys,
         \A h \in OutKeys : /\ ftOut'[h].pair = ftOut[h].pair
                            /\ ftOut'[h].desc = ftOut[h].desc,
         UNCHANGED <<ftIn, count, statFlows, externalIp, free>>,
         idents' \in [OutFlow -> SUBSET PrivPorts]
  PROVE  IInv'
<1>1. InKeys' = InKeys
  BY DEF InKeys
<1>2. TypeOK' /\ FiniteKeys' /\ CountIsExact'
  BY DEF IInv, TypeOK, FiniteKeys, CountIsExact
<1>3. WellFormed' /\ PortsAreExclusive'
  BY DEF IInv, WellFormed, PortsAreExclusive
<1>4. Paired'
  BY <1>1 DEF IInv, Paired
<1>5. QED
  BY <1>2, <1>3, <1>4 DEF IInv

(* A hit renews one entry.                                                 *)
LEMMA HitIInv ==
  ASSUME IInv, NEW f \in OutFlow, HitOut(f), UNCHANGED <<externalIp, free>>,
         idents' \in [OutFlow -> SUBSET PrivPorts]
  PROVE  IInv'
<1>1. /\ ftOut \in [OutFlow -> OutEntry \cup {NoEntry}]
      /\ f \in OutKeys /\ ftOut[f] \in OutEntry
      /\ ftOut' = [ftOut EXCEPT ![f].age = 0]
      /\ UNCHANGED <<ftIn, count, statFlows>>
  BY DEF IInv, TypeOK, HitOut, OutKeys
<1>2. /\ ftOut'[f] \in OutEntry
      /\ ftOut'[f].pair = ftOut[f].pair /\ ftOut'[f].desc = ftOut[f].desc
      /\ \A h \in OutFlow : h # f => ftOut'[h] = ftOut[h]
  BY <1>1, NonZeroAssumption DEF OutEntry
<1>3. ftOut' \in [OutFlow -> OutEntry \cup {NoEntry}]
  BY <1>1, <1>2
<1>4. OutKeys' = OutKeys
  BY <1>1, <1>2, <1>3, NoEntryAssumption DEF OutKeys
<1>5. \A h \in OutKeys : /\ ftOut'[h].pair = ftOut[h].pair
                         /\ ftOut'[h].desc = ftOut[h].desc
  BY <1>1, <1>2 DEF OutKeys
<1>6. QED
  BY <1>1, <1>3, <1>4, <1>5, AgesOnlyIInv

(* Time passes for every entry.                                            *)
LEMMA AgeIInv ==
  ASSUME IInv, Age
  PROVE  IInv'
<1>1. /\ ftOut \in [OutFlow -> OutEntry \cup {NoEntry}]
      /\ idents \in [OutFlow -> SUBSET PrivPorts]
      /\ UNCHANGED <<ftIn, count, statFlows, externalIp, free, idents>>
  BY DEF IInv, TypeOK, Age, Tick
<1>2. \A h \in OutFlow : h \notin OutKeys => ftOut'[h] = NoEntry
  BY <1>1 DEF Age, Tick, OutKeys
<1>3. ASSUME NEW h \in OutKeys
      PROVE  /\ ftOut'[h] \in OutEntry
             /\ ftOut'[h].pair = ftOut[h].pair
             /\ ftOut'[h].desc = ftOut[h].desc
  <2>1. h \in OutFlow /\ ftOut[h] \in OutEntry
    BY <1>1 DEF OutKeys
  <2>2. CASE ftOut[h].age < Ttl
    <3>1. ftOut'[h] = [ftOut[h] EXCEPT !.age = @ + 1]
      BY <1>1, <2>1, <2>2 DEF Age, Tick
    <3>2. QED
      BY <2>1, <2>2, <3>1, NonZeroAssumption DEF OutEntry
  <2>3. CASE ~(ftOut[h].age < Ttl)
    BY <1>1, <2>1, <2>3 DEF Age, Tick
  <2>4. QED
    BY <2>2, <2>3
<1>4. ftOut' \in [OutFlow -> OutEntry \cup {NoEntry}]
  <2>1. ftOut' = [h \in OutFlow |-> ftOut'[h]]
    BY <1>1 DEF Age, Tick
  <2>2. \A h \in OutFlow : ftOut'[h] \in OutEntry \cup {NoEntry}
    BY <1>2, <1>3
  <2>3. QED
    BY <2>1, <2>2
<1>5. OutKeys' = OutKeys
  BY <1>1, <1>2, <1>3, <1>4, NoEntryAssumption DEF OutKeys
<1>6. QED
  BY <1>1, <1>3, <1>4, <1>5, AgesOnlyIInv

(* Steps that drop pairs: those of the flows in K stay, the others go on   *)
(* both sides and give their ports back.                                   *)
LEMMA ShrinkIInv ==
  ASSUME IInv, NEW K \in SUBSET OutKeys,
         ftOut' = [f \in OutFlow |-> IF f \in K THEN ftOut[f] ELSE NoEntry],
         ftIn' = [g \in InFlow |->
                    IF \E f \in K : ftOut[f].pair = g THEN ftIn[g] ELSE NoEntry],
         count' = Cardinality(K),
         statFlows' = count',
         ReleaseDropped, ForgetIdents, UNCHANGED externalIp
  PROVE  IInv'
<1>1. /\ ftOut \in [OutFlow -> OutEntry \cup {NoEntry}]
      /\ ftIn \in [InFlow -> Desc \cup {NoEntry}]
      /\ free \in [PubPorts -> Nat]
      /\ idents \in [OutFlow -> SUBSET PrivPorts]
  BY DEF IInv, TypeOK
<1>2. \A h \in OutKeys : /\ h \in OutFlow /\ ftOut[h] \in OutEntry
                         /\ ftOut[h].pair \in InFlow /\ ftOut[h].desc \in Desc
                         /\ ftOut[h].desc.nat \in PubPorts \cup {NoPort}
  BY <1>1 DEF OutKeys, OutEntry, Desc
<1>3. OutKeys' = K /\ \A h \in K : ftOut'[h] = ftOut[h]
  BY <1>2, NoEntryAssumption DEF OutKeys
<1>4. /\ IsFiniteSet(K) /\ Cardinality(K) \in Nat
      /\ Cardinality(K) <= Cardinality(OutKeys)
      /\ Cardinality(OutKeys) \in Nat
  BY FS_Subset, FS_CardinalityType DEF IInv, FiniteKeys
<1>5. FiniteKeys' /\ CountIsExact'
  BY <1>3, <1>4, NonZeroAssumption DEF IInv, FiniteKeys, CountIsExact
<1>6. /\ \A h \in K : ftIn'[ftOut[h].pair] = ftOut[h].desc
      /\ \A g \in InKeys' : \E h \in K : ftOut[h].pair = g
  BY <1>2 DEF IInv, Paired, InKeys
<1>7. Paired'
  <2>1. \A f, h \in K : ftOut[f].pair = ftOut[h].pair => f = h
    BY DEF IInv, Paired
  <2>2. \A f \in OutKeys' : ftIn'[ftOut'[f].pair] = ftOut'[f].desc
    BY <1>3, <1>6
  <2>3. \A f, h \in OutKeys' : ftOut'[f].pair = ftOut'[h].pair => f = h
    BY <1>3, <2>1
  <2>4. \A g \in InKeys' : \E f \in OutKeys' : ftOut'[f].pair = g
    BY <1>3, <1>6
  <2>5. QED
    BY <2>2, <2>3, <2>4 DEF Paired
<1>8. WellFormed'
  BY <1>3 DEF IInv, WellFormed
<1>9. \A p \in PubPorts : p \in Held(ftIn, ftOut) => free[p] = 0
  <2> SUFFICES ASSUME NEW p \in PubPorts, p \in Held(ftIn, ftOut)
               PROVE  free[p] = 0
    OBVIOUS
  <2>1. \E h \in OutKeys : ftOut[h].desc.nat = p
    <3>1. CASE \E g \in InFlow : ftIn[g] # NoEntry /\ ftIn[g].nat = p
      <4>1. PICK g \in InKeys : ftIn[g].nat = p
        BY <1>1, <3>1 DEF InKeys
      <4>2. PICK h \in OutKeys : ftOut[h].pair = g
        BY <4>1 DEF IInv, Paired
      <4>3. QED
        BY <4>1, <4>2 DEF IInv, Paired
    <3>2. CASE \E f \in OutFlow : ftOut[f] # NoEntry /\ ftOut[f].desc.nat = p
      BY <1>1, <3>2 DEF OutKeys
    <3>3. QED
      BY <3>1, <3>2 DEF Held
  <2>2. QED
    BY <2>1, PortsAssumption DEF IInv, PortsAreExclusive
<1>10. \A h \in K : ftOut[h].desc.nat # NoPort =>
         ftOut[h].desc.nat \in Held(ftIn', ftOut')
  <2> SUFFICES ASSUME NEW h \in K, ftOut[h].desc.nat # NoPort
               PROVE  ftOut[h].desc.nat \in Held(ftIn', ftOut')
    OBVIOUS
  <2>1. h \in OutFlow /\ ftOut'[h] # NoEntry /\ ftOut'[h].desc.nat = ftOut[h].desc.nat
    BY <1>2, <1>3, NoEntryAssumption
  <2>2. ftOut[h].desc.nat \in PubPorts
    BY <1>2
  <2>3. QED
    BY <2>1, <2>2 DEF Held
<1>11. /\ free' \in [PubPorts -> Nat]
       /\ \A p \in PubPorts : free'[p] \in {0, 1}
       /\ \A p \in PubPorts : p \in Held(ftIn', ftOut') => free'[p] = free[p]
  BY <1>1, <1>9 DEF ReleaseDropped, IInv, PortsAreExclusive
<1>12. PortsAreExclusive'
  <2>1. \A h \in K : ftOut[h].desc.nat # NoPort => free'[ftOut[h].desc.nat] = 0
    BY <1>2, <1>10, <1>11 DEF IInv, PortsAreExclusive
  <2>2. QED
    BY <1>3, <1>11, <2>1 DEF IInv, PortsAreExclusive
<1>13. TypeOK'
  <2>1. ftOut' \in [OutFlow -> OutEntry \cup {NoEntry}]
    BY <1>1
  <2>2. ftIn' \in [InFlow -> Desc \cup {NoEntry}]
    BY <1>1
  <2>3. idents' \in [OutFlow -> SUBSET PrivPorts]
    BY <1>1 DEF ForgetIdents
  <2>4. QED
    BY <1>4, <1>11, <2>1, <2>2, <2>3 DEF TypeOK, IInv
<1>14. QED
  BY <1>5, <1>7, <1>8, <1>12, <1>13 DEF IInv

(* Expiry keeps the pairs of the flows that are not expired.               *)
LEMMA ExpireIInv ==
  ASSUME IInv, Expire
  PROVE  IInv'
<1> DEFINE K == OutKeys \ Expired
<1>1. /\ ftOut \in [OutFlow -> OutEntry \cup {NoEntry}]
      /\ ftIn \in [InFlow -> Desc \cup {NoEntry}]
      /\ DOMAIN ftOut = OutFlow /\ DOMAIN ftIn = InFlow
  BY DEF IInv, TypeOK
<1>2. /\ ftOut' = [f \in OutFlow |-> IF f \in Expired THEN NoEntry ELSE ftOut[f]]
      /\ ftIn' = [g \in InFlow |-> IF \E f \in Expired : ftOut[f].pair = g
                                   THEN NoEntry ELSE ftIn[g]]
      /\ count' = Cardinality(K) /\ statFlows' = count'
      /\ ReleaseDropped /\ ForgetIdents /\ UNCHANGED externalIp
  BY <1>1 DEF Expire, ExpireFlows
<1>3. Expired \subseteq OutKeys
  BY DEF Expired
<1>4. ftOut' = [f \in OutFlow |-> IF f \in K THEN ftOut[f] ELSE NoEntry]
  <2>1. \A f \in OutFlow : (IF f \in Expired THEN NoEntry ELSE ftOut[f])
                           = (IF f \in K THEN ftOut[f] ELSE NoEntry)
    BY <1>1, <1>3 DEF OutKeys
  <2>2. QED
    BY <1>2, <2>1
<1>5. ftIn' = [g \in InFlow |->
                 IF \E f \in K : ftOut[f].pair = g THEN ftIn[g] ELSE NoEntry]
  <2>1. ASSUME NEW g \in InFlow
        PROVE  (IF \E f \in Expired : ftOut[f].pair = g THEN NoEntry ELSE ftIn[g])
                 = (IF \E f \in K : ftOut[f].pair = g THEN ftIn[g] ELSE NoEntry)
    <3>1. CASE ftIn[g] = NoEntry
      BY <3>1
    <3>2. CASE ftIn[g] # NoEntry
      <4>1. PICK h \in OutKeys : ftOut[h].pair = g
        BY <1>1, <3>2 DEF IInv, Paired, InKeys
      <4>2. \A f \in OutKeys : ftOut[f].pair = g => f = h
        BY <4>1 DEF IInv, Paired
      <4>3. QED
        BY <1>3, <4>1, <4>2
    <3>3. QED
      BY <3>1, <3>2
  <2>2. QED
    BY <1>2, <2>1
<1>6. K \in SUBSET OutKeys
  OBVIOUS
<1> HIDE DEF K
<1>7. QED
  BY <1>2, <1>4, <1>5, <1>6, ShrinkIInv

(* Resetting the port drops every pair.                                    *)
LEMMA ClearIInv ==
  ASSUME IInv, Clear
  PROVE  IInv'
<1>1. DOMAIN ftOut = OutFlow /\ DOMAIN ftIn = InFlow
  BY DEF IInv, TypeOK
<1>2. /\ ftOut' = [f \in OutFlow |-> NoEntry]
      /\ ftIn' = [g \in InFlow |-> NoEntry]
      /\ count' = Cardinality({}) /\ statFlows' = count'
      /\ ReleaseDropped /\ ForgetIdents /\ UNCHANGED externalIp
  BY <1>1, FS_EmptySet DEF Clear, ClearFlows, ClearTables
<1>3. /\ ftOut' = [f \in OutFlow |-> IF f \in {} THEN ftOut[f] ELSE NoEntry]
      /\ ftIn' = [g \in InFlow |-> IF \E f \in {} : ftOut[f].pair = g
                                   THEN ftIn[g] ELSE NoEntry]
  BY <1>2
<1>4. QED
  BY <1>2, <1>3, ShrinkIInv

-----------------------------------------------------------------------------
(* The invariant is inductive.                                             *)
LEMMA NextIInv == IInv /\ [Next]_vars => IInv'
<1> SUFFICES ASSUME IInv, [Next]_vars PROVE IInv'
  OBVIOUS
<1>1. ASSUME NEW f \in OutFlow, NEW i \in PrivPorts, OutHit(f, i)
      PROVE  IInv'
  <2>1. idents' \in [OutFlow -> SUBSET PrivPorts]
    BY <1>1, PortsAssumption DEF OutHit, IInv, TypeOK, PrivOf, OutFlow
  <2>2. QED
    BY <1>1, <2>1, HitIInv DEF OutHit
<1>2. ASSUME NEW f \in OutFlow, OutHitNotEcho(f)
      PROVE  IInv'
  BY <1>2, HitIInv DEF OutHitNotEcho, IInv, TypeOK
<1>3. ASSUME NEW f \in OutFlow, NEW i \in PrivPorts, OutOneToOne(f, i)
      PROVE  IInv'
  BY <1>3, OutOneToOneIInv
<1>4. ASSUME NEW f \in OutFlow, NEW i \in PrivPorts, NEW p \in PubPorts,
             OutSNat(f, i, p)
      PROVE  IInv'
  BY <1>4, OutSNatIInv
<1>5. ASSUME NEW f \in OutFlow, NEW p \in PubPorts, OutSNatNotEcho(f, p)
      PROVE  IInv'
  BY <1>5, OutSNatNotEchoIInv
<1>6. ASSUME NEW g \in InFlow, InOneToOne(g)
      PROVE  IInv'
  BY <1>6, InOneToOneIInv
<1>7. CASE Expire
  BY <1>7, ExpireIInv
<1>8. CASE Clear
  BY <1>8, ClearIInv
<1>9. CASE Age
  BY <1>9, AgeIInv
<1>10. CASE UNCHANGED vars
  <2>1. /\ UNCHANGED <<ftOut, ftIn, count, statFlows, externalIp, free, idents>>
        /\ OutKeys' = OutKeys
    BY <1>10 DEF vars, OutKeys
  <2>2. QED
    BY <2>1, AgesOnlyIInv DEF IInv, TypeOK
<1>11. QED
  BY <1>1, <1>2, <1>3, <1>4, <1>5, <1>6, <1>7, <1>8, <1>9, <1>10 DEF Next

(* The invariant the theorems below read off holds of every behaviour.     *)
THEOREM IInvHolds == Spec => []IInv
  BY InitIInv, NextIInv, PTL DEF Spec

(* The NAT layer's state keeps its type (nat.rs, layer.rs).                *)
THEOREM TypeCorrect == Spec => []TypeOK
<1>1. IInv => TypeOK
  BY DEF IInv
<1>2. QED
  BY <1>1, IInvHolds, PTL

(* No two flows ever own one public port and no owned port is on the free  *)
(* list (FiniteResource, NatPool), for every number of flows and ports.    *)
THEOREM PortsExclusive == Spec => []PortsAreExclusive
<1>1. IInv => PortsAreExclusive
  BY DEF IInv
<1>2. QED
  BY <1>1, IInvHolds, PTL

(* LayerFlowTable's two tables stay each other's mirror image.             *)
THEOREM TablesPaired == Spec => []Paired
<1>1. IInv => Paired
  BY DEF IInv
<1>2. QED
  BY <1>1, IInvHolds, PTL

(* LayerFlowTable.count is the number of flows and respects the limit.     *)
THEOREM CounterExact == Spec => []CountIsExact
<1>1. IInv => CountIsExact
  BY DEF IInv
<1>2. QED
  BY <1>1, IInvHolds, PTL

(* An inbound packet of a pair is restored to the flow it answers: the     *)
(* descriptor's inbound transformation inverts its outbound one.           *)
THEOREM RepliesReturn == Spec => []RoundTrip
<1>1. IInv => RoundTrip
  <2> SUFFICES ASSUME IInv, NEW f \in OutKeys
               PROVE  /\ ftIn[ftOut[f].pair] # NoEntry
                      /\ Restore(ftIn[ftOut[f].pair], ftOut[f].pair) = f
    BY DEF RoundTrip
  <2> DEFINE d == ftOut[f].desc
  <2>1. f \in OutFlow /\ d \in Desc
    BY DEF IInv, TypeOK, OutKeys, OutEntry
  <2>2. ftIn[ftOut[f].pair] = d
    BY DEF IInv, Paired
  <2>3. ftOut[f].pair = Translate(d, f)
    BY DEF IInv, WellFormed
  <2>4. \/ d = OneToOne
        \/ /\ d.addr = "snat" /\ d.nat \in PubPorts
           /\ f.port # NoPort => d.priv = f.port
    BY PortsAssumption DEF IInv, WellFormed
  <2> HIDE DEF d
  <2>5. Restore(d, Translate(d, f)) = [remote |-> f.remote, port |-> f.port]
    BY <2>4, PortsAssumption DEF Restore, Translate, OneToOne
  <2>6. f = [remote |-> f.remote, port |-> f.port]
    BY <2>1 DEF OutFlow
  <2>7. QED
    BY <2>1, <2>2, <2>3, <2>5, <2>6, NoEntryAssumption
<1>2. QED
  BY <1>1, IInvHolds, PTL

-----------------------------------------------------------------------------
(* Entries are where they belong: each outbound entry is its own partner's *)
(* flow, as the firewall changes no headers.                               *)
Entries ==
  /\ ftOut \in [Flows -> FwEntry \cup {NoEntry}]
  /\ ftIn \in [Flows -> {"NoOp", NoEntry}]
  /\ \A f \in OutKeys : ftOut[f].pair = f

SidesAgree == InKeys = OutKeys

Counted ==
  /\ IsFiniteSet(OutKeys)
  /\ count = Cardinality(OutKeys)
  /\ count <= Limit

FInv == Entries /\ SidesAgree /\ Counted

-----------------------------------------------------------------------------
LEMMA InitFInv == FwInit => FInv /\ Filter!Init
<1> SUFFICES ASSUME FwInit
             PROVE  FInv /\ Filter!Init
  OBVIOUS
<1>1. OutKeys = {} /\ InKeys = {}
  BY DEF FwInit, OutKeys, InKeys
<1>2. Cardinality({}) = 0 /\ IsFiniteSet({})
  BY FS_EmptySet
<1>3. FInv
  BY <1>1, <1>2, NonZeroAssumption DEF FInv, Entries, SidesAgree, Counted, FwInit
<1>4. Filter!Init
  BY <1>1 DEF FwInit, Filter!Init, Dirs, Filter!Dirs, Verdict, Filter!Verdict
<1>5. QED
  BY <1>3, <1>4

(* Steps that keep the flows of the table, and steps that empty it.        *)
LEMMA SameFlows ==
  ASSUME FInv, UNCHANGED ftVars
  PROVE  FInv' /\ OutKeys' = OutKeys
BY DEF ftVars, FInv, Entries, SidesAgree, Counted, OutKeys, InKeys

LEMMA NoFlows ==
  ASSUME FInv, ClearTables
  PROVE  FInv' /\ OutKeys' = {}
<1>1. /\ ftOut' = [f \in Flows |-> NoEntry]
      /\ ftIn' = [f \in Flows |-> NoEntry]
      /\ count' = 0
  BY DEF ClearTables, FInv, Entries
<1>2. OutKeys' = {} /\ InKeys' = {}
  BY <1>1 DEF OutKeys, InKeys
<1>3. Cardinality({}) = 0 /\ IsFiniteSet({})
  BY FS_EmptySet
<1>4. QED
  BY <1>1, <1>2, <1>3, NonZeroAssumption DEF FInv, Entries, SidesAgree, Counted

(* A hit renews an entry and time ages them: the flows stay the same.      *)
LEMMA HitKeeps ==
  ASSUME FInv, NEW f \in Flows, HitOut(f)
  PROVE  FInv' /\ OutKeys' = OutKeys
<1> DEFINE e == [ftOut[f] EXCEPT !.age = 0]
<1>1. /\ f \in OutKeys
      /\ ftOut' = [ftOut EXCEPT ![f] = e]
      /\ UNCHANGED <<ftIn, count>>
  BY DEF HitOut
<1>2. ftOut[f] \in FwEntry
  BY <1>1 DEF FInv, Entries, OutKeys
<1>3. e \in FwEntry /\ e.pair = ftOut[f].pair
  BY <1>2, NonZeroAssumption DEF FwEntry
<1> HIDE DEF e
<1>4. e # NoEntry
  BY <1>3, FwEntryAssumption
<1>5. DOMAIN ftOut = Flows /\ DOMAIN ftOut' = Flows
  BY <1>1 DEF FInv, Entries
<1>6. OutKeys' = OutKeys
  BY <1>1, <1>4, <1>5 DEF OutKeys
<1>7. Entries'
  BY <1>1, <1>3, <1>5, <1>6 DEF FInv, Entries, OutKeys
<1>8. QED
  BY <1>1, <1>6, <1>7 DEF FInv, SidesAgree, Counted, InKeys

LEMMA TickKeeps ==
  ASSUME FInv, Tick
  PROVE  FInv' /\ OutKeys' = OutKeys
<1> DEFINE older(f) == [ftOut[f] EXCEPT !.age = @ + 1]
<1>1. /\ ftOut' = [f \in Flows |-> IF f \in OutKeys /\ ftOut[f].age < Ttl
                                   THEN older(f) ELSE ftOut[f]]
      /\ UNCHANGED <<ftIn, count>>
  BY DEF Tick, FInv, Entries
<1>2. \A f \in OutKeys : f \in Flows /\ ftOut[f] \in FwEntry
  BY DEF FInv, Entries, OutKeys
<1>3. ASSUME NEW f \in OutKeys, ftOut[f].age < Ttl
      PROVE  older(f) \in FwEntry /\ older(f).pair = ftOut[f].pair
  BY <1>2, <1>3, NonZeroAssumption DEF FwEntry
<1> HIDE DEF older
<1>4. \A f \in OutKeys : ftOut'[f] \in FwEntry /\ ftOut'[f].pair = ftOut[f].pair
  BY <1>1, <1>2, <1>3
<1>5. \A f \in Flows \ OutKeys : ftOut'[f] = NoEntry
  BY <1>1 DEF FInv, Entries, OutKeys
<1>6. DOMAIN ftOut' = Flows
  BY <1>1
<1>7. OutKeys' = OutKeys
  BY <1>2, <1>4, <1>5, <1>6, FwEntryAssumption DEF OutKeys
<1>8. Entries'
  <2>1. ftOut' \in [Flows -> FwEntry \cup {NoEntry}]
    BY <1>1, <1>4, <1>5
  <2>2. QED
    BY <1>1, <1>4, <1>7, <2>1 DEF FInv, Entries
<1>9. QED
  BY <1>1, <1>7, <1>8 DEF FInv, SidesAgree, Counted, InKeys

(* A flow that is let in gets an entry on each side.                       *)
LEMMA AddOpens ==
  ASSUME FInv, NEW f \in Flows, f \notin OutKeys, ~IsFull, AddPair("NoOp", f, f)
  PROVE  FInv' /\ OutKeys' = OutKeys \cup {f} /\ Cardinality(OutKeys) < Limit
<1> DEFINE e == [pair |-> f, desc |-> "NoOp", age |-> 0]
<1>1. /\ ftIn' = [ftIn EXCEPT ![f] = "NoOp"]
      /\ ftOut' = [ftOut EXCEPT ![f] = e]
      /\ count' = count + 1
  BY DEF AddPair
<1>2. e \in FwEntry /\ e.pair = f
  BY NonZeroAssumption DEF FwEntry
<1> HIDE DEF e
<1>3. e # NoEntry /\ NoEntry # "NoOp"
  BY <1>2, FwEntryAssumption
<1>4. /\ DOMAIN ftOut = Flows /\ DOMAIN ftOut' = Flows
      /\ DOMAIN ftIn = Flows /\ DOMAIN ftIn' = Flows
  BY <1>1 DEF FInv, Entries
<1>5. OutKeys' = OutKeys \cup {f}
  BY <1>1, <1>3, <1>4 DEF OutKeys
<1>6. InKeys' = InKeys \cup {f}
  BY <1>1, <1>3, <1>4 DEF InKeys
<1>7. Entries'
  <2>1. ftOut' \in [Flows -> FwEntry \cup {NoEntry}]
    BY <1>1, <1>2 DEF FInv, Entries
  <2>2. ftIn' \in [Flows -> {"NoOp", NoEntry}]
    BY <1>1 DEF FInv, Entries
  <2>3. \A g \in OutKeys' : ftOut'[g].pair = g
    BY <1>1, <1>2, <1>4, <1>5 DEF FInv, Entries, OutKeys
  <2>4. QED
    BY <2>1, <2>2, <2>3 DEF Entries
<1>8. Cardinality(OutKeys) \in Nat
  BY FS_CardinalityType DEF FInv, Counted
<1>9. Cardinality(OutKeys) < Limit
  BY <1>8, NonZeroAssumption DEF FInv, Counted, IsFull
<1>10. /\ IsFiniteSet(OutKeys \cup {f})
       /\ Cardinality(OutKeys \cup {f}) = Cardinality(OutKeys) + 1
  BY FS_AddElement DEF FInv, Counted
<1>11. Counted'
  BY <1>1, <1>5, <1>8, <1>9, <1>10, NonZeroAssumption DEF FInv, Counted
<1>12. QED
  BY <1>5, <1>6, <1>7, <1>9, <1>11 DEF FInv, SidesAgree

(* Expiry takes both entries of the flows that it finds expired.           *)
LEMMA ExpireCloses ==
  ASSUME FInv, ExpireFlows
  PROVE  FInv' /\ OutKeys' = OutKeys \ Expired
<1>1. /\ ftOut' = [f \in Flows |-> IF f \in Expired THEN NoEntry ELSE ftOut[f]]
      /\ ftIn' = [f \in Flows |->
                    IF \E g \in Expired : ftOut[g].pair = f THEN NoEntry ELSE ftIn[f]]
      /\ count' = Cardinality(OutKeys \ Expired)
  BY DEF ExpireFlows, FInv, Entries
<1>2. Expired \subseteq OutKeys /\ \A g \in Expired : ftOut[g].pair = g
  BY DEF Expired, FInv, Entries
<1>3. \A f \in Flows : (\E g \in Expired : ftOut[g].pair = f) <=> f \in Expired
  BY <1>2
<1>4. ftIn' = [f \in Flows |-> IF f \in Expired THEN NoEntry ELSE ftIn[f]]
  BY <1>1, <1>3
<1>5. OutKeys' = OutKeys \ Expired
  BY <1>1 DEF OutKeys, FInv, Entries
<1>6. InKeys' = InKeys \ Expired
  BY <1>4 DEF InKeys, FInv, Entries
<1>7. Entries'
  <2>1. ftOut' \in [Flows -> FwEntry \cup {NoEntry}]
    BY <1>1 DEF FInv, Entries
  <2>2. ftIn' \in [Flows -> {"NoOp", NoEntry}]
    BY <1>4 DEF FInv, Entries
  <2>3. \A f \in OutKeys' : f \in Flows /\ f \in OutKeys /\ ftOut'[f] = ftOut[f]
    BY <1>1, <1>5 DEF FInv, Entries, OutKeys
  <2>4. QED
    BY <2>1, <2>2, <2>3 DEF FInv, Entries
<1>8. /\ IsFiniteSet(OutKeys \ Expired)
      /\ Cardinality(OutKeys \ Expired) <= Cardinality(OutKeys)
  BY FS_Subset DEF FInv, Counted
<1>9. Cardinality(OutKeys) \in Nat /\ Cardinality(OutKeys \ Expired) \in Nat
  BY <1>8, FS_CardinalityType DEF FInv, Counted
<1>10. Counted'
  BY <1>1, <1>5, <1>8, <1>9, NonZeroAssumption DEF FInv, Counted
<1>11. QED
  BY <1>5, <1>6, <1>7, <1>10 DEF FInv, SidesAgree

-----------------------------------------------------------------------------
(* The filter counts as the layer does.                                    *)
LEMMA SameCount ==
  ASSUME NEW S
  PROVE  Filter!Cardinality(S) = Cardinality(S)
BY Zenon DEF Cardinality, Filter!Cardinality

(* Every step of the layer keeps its invariant and is one of the filter,   *)
(* or none that the filter sees.                                           *)
LEMMA NextRefines ==
  FInv /\ [FwNext]_fwVars => FInv' /\ [Filter!Next]_(Filter!vars)
<1> SUFFICES ASSUME FInv, [FwNext]_fwVars
             PROVE  FInv' /\ [Filter!Next]_(Filter!vars)
  OBVIOUS
<1> USE DEF Filter!vars
<1>1. ASSUME NEW f \in Flows, FwInHit(f)
      PROVE  FInv' /\ [Filter!Next]_(Filter!vars)
  <2>1. FInv' /\ OutKeys' = OutKeys
    BY <1>1, SameFlows DEF FwInHit
  <2>2. Filter!PassOpen("in", f)
    BY <1>1, <2>1 DEF FwInHit, Hits, Says, FInv, SidesAgree,
                      Filter!PassOpen, Filter!Says
  <2>3. QED
    BY <2>1, <2>2 DEF Filter!Next, Filter!Dirs
<1>2. ASSUME NEW f \in Flows, FwOutHit(f)
      PROVE  FInv' /\ [Filter!Next]_(Filter!vars)
  <2>1. FInv' /\ OutKeys' = OutKeys
    BY <1>2, HitKeeps DEF FwOutHit
  <2>2. Filter!PassOpen("out", f)
    BY <1>2, <2>1 DEF FwOutHit, Hits, Says, Filter!PassOpen, Filter!Says
  <2>3. QED
    BY <2>1, <2>2 DEF Filter!Next, Filter!Dirs
<1>3. ASSUME NEW dir \in Dirs, NEW f \in Flows, Accept(dir, f)
      PROVE  FInv' /\ [Filter!Next]_(Filter!vars)
  <2>1. f \notin OutKeys
    BY <1>3 DEF Accept, Hits, FInv, SidesAgree
  <2>2. FInv' /\ OutKeys' = OutKeys \cup {f} /\ Cardinality(OutKeys) < Limit
    BY <1>3, <2>1, AddOpens DEF Accept
  <2>3. f \in allow[dir] /\ Says(dir, f, "pass") /\ allow' = allow
    BY <1>3 DEF Accept
  <2>4. Filter!Open(dir, f)
    BY <2>1, <2>2, <2>3, SameCount DEF Says, Filter!Open, Filter!Says
  <2>5. QED
    BY <2>2, <2>4 DEF Filter!Next, Filter!Dirs, Dirs
<1>4. ASSUME NEW dir \in Dirs, NEW f \in Flows, RefuseFull(dir, f)
      PROVE  FInv' /\ [Filter!Next]_(Filter!vars)
  <2>1. FInv' /\ OutKeys' = OutKeys
    BY <1>4, SameFlows DEF RefuseFull
  <2>2. f \notin OutKeys
    BY <1>4 DEF RefuseFull, Hits, FInv, SidesAgree
  <2>3. Cardinality(OutKeys) = Limit
    BY <1>4, NonZeroAssumption, FS_CardinalityType DEF RefuseFull, IsFull, FInv, Counted
  <2>4. f \in allow[dir] /\ Says(dir, f, "full") /\ allow' = allow
    BY <1>4 DEF RefuseFull
  <2>5. Filter!RefuseFull(dir, f)
    BY <2>1, <2>2, <2>3, <2>4, SameCount DEF Says, Filter!RefuseFull, Filter!Says
  <2>6. QED
    BY <2>1, <2>5 DEF Filter!Next, Filter!Dirs, Dirs
<1>5. ASSUME NEW dir \in Dirs, NEW f \in Flows, Deny(dir, f)
      PROVE  FInv' /\ [Filter!Next]_(Filter!vars)
  <2>1. FInv' /\ OutKeys' = OutKeys
    BY <1>5, SameFlows DEF Deny
  <2>2. Filter!Deny(dir, f)
    BY <1>5, <2>1 DEF Deny, Hits, Says, FInv, SidesAgree, Filter!Deny, Filter!Says
  <2>3. QED
    BY <2>1, <2>2 DEF Filter!Next, Filter!Dirs, Dirs
<1>6. ASSUME NEW dir \in Dirs, NEW flows \in SUBSET Flows, ChangeRules(dir, flows)
      PROVE  FInv' /\ [Filter!Next]_(Filter!vars)
  <2>1. FInv' /\ OutKeys' = OutKeys
    BY <1>6, SameFlows DEF ChangeRules
  <2>2. Filter!ChangeRules(dir, flows)
    BY <1>6, <2>1 DEF ChangeRules, Filter!ChangeRules
  <2>3. QED
    BY <2>1, <2>2 DEF Filter!Next, Filter!Dirs, Dirs
<1>7. ASSUME NEW new \in [Dirs -> SUBSET Flows], SetRules(new)
      PROVE  FInv' /\ [Filter!Next]_(Filter!vars)
  <2>1. FInv' /\ OutKeys' = {}
    BY <1>7, NoFlows DEF SetRules
  <2>2. Filter!ReplaceRules(new)
    BY <1>7, <2>1 DEF SetRules, Filter!ReplaceRules
  <2>3. QED
    BY <2>1, <2>2 DEF Filter!Next, Filter!Dirs, Dirs
<1>8. CASE FwExpire
  <2>1. FInv' /\ OutKeys' = OutKeys \ Expired
    BY <1>8, ExpireCloses DEF FwExpire
  <2>2. Expired \in SUBSET OutKeys /\ Filter!Close(Expired)
    BY <1>8, <2>1 DEF FwExpire, Expired, Filter!Close
  <2>3. QED
    BY <2>1, <2>2 DEF Filter!Next
<1>9. CASE FwClear
  <2>1. FInv' /\ OutKeys' = {}
    BY <1>9, NoFlows DEF FwClear, ClearFlows
  <2>2. Filter!Close(OutKeys)
    BY <1>9, <2>1 DEF FwClear, Filter!Close
  <2>3. QED
    BY <2>1, <2>2 DEF Filter!Next
<1>10. CASE FwAge
  <2>1. FInv' /\ OutKeys' = OutKeys
    BY <1>10, TickKeeps DEF FwAge
  <2>2. QED
    BY <1>10, <2>1 DEF FwAge
<1>11. CASE UNCHANGED fwVars
  <2>1. FInv' /\ OutKeys' = OutKeys
    BY <1>11, SameFlows DEF fwVars
  <2>2. QED
    BY <1>11, <2>1 DEF fwVars
<1>12. QED
  BY <1>1, <1>2, <1>3, <1>4, <1>5, <1>6, <1>7, <1>8, <1>9, <1>10, <1>11 DEF FwNext

(* The firewall layer, with its two tables, its counter and its ages, is a *)
(* stateful filter (process_in, process_out, set_rules and expire_flows of *)
(* layer.rs with the rules of firewall.rs).                                *)
THEOREM LayerIsAFilter == FwSpec => FilterSpec
<1>1. FwSpec => Filter!Init /\ [][Filter!Next]_(Filter!vars)
  BY InitFInv, NextRefines, PTL DEF FwSpec
<1>2. QED
  BY <1>1, PTL DEF FilterSpec, Filter!Spec

(* The firewall's state keeps its type.  That the statistic stays within   *)
(* its bound when flows expire needs that it never falls behind the        *)
(* counter, although set_rules() clears the counter alone.                 *)
THEOREM FilterIsTyped == FwSpec => []FwTypeOK
<1> DEFINE Rest == /\ statFlows \in 0..MaxStat /\ count <= statFlows
                   /\ allow \in [Dirs -> SUBSET Flows] /\ last \in Verdict
<1>1. FwInit => Rest
  BY MaxStatAssumption DEF FwInit, Dirs
<1>2. FInv /\ Rest /\ [FwNext]_fwVars => Rest'
  <2> SUFFICES ASSUME FInv, Rest, [FwNext]_fwVars
               PROVE  Rest'
    OBVIOUS
  <2>0. count \in Nat
    BY FS_CardinalityType DEF FInv, Counted
  <2>1. ASSUME NEW dir \in Dirs, NEW f \in Flows, NEW res \in {"pass", "deny", "full"},
               Says(dir, f, res)
        PROVE  last' \in Verdict
    BY <2>1 DEF Says, Verdict
  <2>2. ASSUME NEW f \in Flows, FwInHit(f)
        PROVE  Rest'
    BY <2>1, <2>2 DEF FwInHit, ftVars, Dirs
  <2>3. ASSUME NEW f \in Flows, FwOutHit(f)
        PROVE  Rest'
    BY <2>1, <2>3 DEF FwOutHit, HitOut, Dirs
  <2>4. ASSUME NEW dir \in Dirs, NEW f \in Flows, Accept(dir, f)
        PROVE  Rest'
    <3>1. /\ statFlows' = statFlows + 1 /\ statFlows < MaxStat
          /\ count' = count + 1
      BY <2>4 DEF Accept, AddPair
    <3>2. statFlows' \in 0..MaxStat /\ count' <= statFlows'
      BY <2>0, <3>1, MaxStatAssumption
    <3>3. QED
      BY <2>1, <2>4, <3>2 DEF Accept
  <2>5. ASSUME NEW dir \in Dirs, NEW f \in Flows, RefuseFull(dir, f) \/ Deny(dir, f)
        PROVE  Rest'
    BY <2>1, <2>5 DEF RefuseFull, Deny, ftVars
  <2>6. ASSUME NEW dir \in Dirs, NEW flows \in SUBSET Flows, ChangeRules(dir, flows)
        PROVE  Rest'
    BY <2>6 DEF ChangeRules, ftVars
  <2>7. ASSUME NEW new \in [Dirs -> SUBSET Flows], SetRules(new)
        PROVE  Rest'
    BY <2>7 DEF SetRules, ClearTables
  <2>8. CASE FwExpire
    <3>1. /\ statFlows' = count' /\ allow' = allow /\ last' = last
          /\ count' = Cardinality(OutKeys \ Expired)
      BY <2>8 DEF FwExpire, ExpireFlows
    <3>2. /\ IsFiniteSet(OutKeys \ Expired)
          /\ Cardinality(OutKeys \ Expired) <= Cardinality(OutKeys)
      BY FS_Subset DEF FInv, Counted
    <3>3. count' \in Nat /\ count' <= count
      BY <3>1, <3>2, FS_CardinalityType DEF FInv, Counted
    <3>4. QED
      BY <2>0, <3>1, <3>3, MaxStatAssumption
  <2>9. CASE FwClear
    BY <2>9, MaxStatAssumption DEF FwClear, ClearFlows, ClearTables
  <2>10. CASE FwAge
    BY <2>10 DEF FwAge, Tick
  <2>11. CASE UNCHANGED fwVars
    BY <2>11 DEF fwVars, ftVars
  <2>12. QED
    BY <2>2, <2>3, <2>4, <2>5, <2>6, <2>7, <2>8, <2>9, <2>10, <2>11 DEF FwNext
<1>3. FInv /\ Rest => FwTypeOK
  <2>1. FInv => count \in 0..Limit
    BY FS_CardinalityType DEF FInv, Counted
  <2>2. QED
    BY <2>1 DEF FInv, Entries, FwTypeOK
<1> HIDE DEF Rest
<1>4. FInv /\ [FwNext]_fwVars => FInv'
  BY NextRefines
<1>5. FwInit => FInv
  BY InitFInv
<1>6. QED
  BY <1>1, <1>2, <1>3, <1>4, <1>5, PTL DEF FwSpec
=============================================================================

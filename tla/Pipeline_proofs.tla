--------------------------- MODULE Pipeline_proofs ---------------------------
(***************************************************************************)
(* Proofs about Pipeline for every set of flows, remotes and ports, every  *)
(* limit and TTL: replies pass the layers for as long as the NAT layer     *)
(* keeps a port for their flow, and no port is lost.                       *)
(*                                                                         *)
(* The argument for the replies is one about time.  A packet that renews   *)
(* the NAT layer's entry has renewed the firewall's before it, so that the *)
(* firewall's entry is never the older one and does not expire first.      *)
(* That needs the tables to be paired, and the ports to be exclusive: the  *)
(* inbound entry of a flow that stays must not go with one that expires.   *)
(***************************************************************************)
EXTENDS Pipeline, FiniteSetTheorems, TLAPS

(* The firewall's tables: a flow has an entry in both or in none.          *)
FwInv ==
  /\ fwOut \in [FlowId -> FwEntry \cup {NoEntry}]
  /\ fwIn \in [FlowId -> {"NoOp", NoEntry}]
  /\ \A k \in FlowId :
       /\ fwOut[k] # NoEntry <=> fwIn[k] # NoEntry
       /\ fwOut[k] # NoEntry => fwOut[k].pair = k

NatTyped ==
  /\ natOut \in [FlowId -> NatEntry \cup {NoEntry}]
  /\ natIn \in [FlowId -> SNatDesc \cup {NoEntry}]
  /\ free \in SUBSET PubPorts

(* An entry of the NAT layer is that of one of the guest's flows, its      *)
(* partner is keyed by the translated flow and has the same descriptor.    *)
NatMade ==
  \A k \in NAT!OutKeys :
    /\ k.port \in Flows
    /\ k = Key(k.port)
    /\ natOut[k].desc.priv = k.port
    /\ natOut[k].pair = [remote |-> k.remote, port |-> natOut[k].desc.port]
    /\ natIn[natOut[k].pair] = natOut[k].desc

(* A port has one owner, or is in the pool.                                *)
NatOwners ==
  /\ IsFiniteSet(NAT!OutKeys)
  /\ \A k, j \in NAT!OutKeys : natOut[k].desc.port = natOut[j].desc.port => k = j
  /\ free \cup Held(natOut) = PubPorts
  /\ free \cap Held(natOut) = {}

NatInv == NatTyped /\ NatMade /\ NatOwners

(* The firewall's entry of a flow is at least as young as the NAT layer's. *)
FwOutlives ==
  \A k \in NAT!OutKeys :
    k.port \notin cut => fwOut[k] # NoEntry /\ fwOut[k].age <= natOut[k].age

IInv == FwInv /\ NatInv /\ cut \in SUBSET Flows /\ FwOutlives

-----------------------------------------------------------------------------
(* No entry of a table is NoEntry.                                         *)
LEMMA EntriesAreEntries ==
  /\ NoEntry # "NoOp"
  /\ \A e \in FwEntry : e # NoEntry
  /\ \A e \in NatEntry : e # NoEntry
  /\ \A d \in SNatDesc : d # NoEntry
  BY NoEntryAssumption

(* Key() yields flow ids of private ports, one for each flow.              *)
LEMMA KeyType ==
  ASSUME NEW f \in Flows
  PROVE  Key(f) \in FlowId /\ Key(f).port = f /\ Key(f).remote = Remote[f]
  BY DEF Key, FlowId, Remotes

(* What a packet does to the firewall's entries: one may be made or        *)
(* renewed, none goes or gets older.                                       *)
FwRenews ==
  \A k \in FlowId :
    fwOut[k] # NoEntry => fwOut'[k] # NoEntry /\ fwOut'[k].age <= fwOut[k].age

(* A new pair of the firewall.                                             *)
LEMMA FwAdd ==
  ASSUME FwInv, NEW k \in FlowId, fwOut[k] = NoEntry, FW!AddPair("NoOp", k, k)
  PROVE  FwInv' /\ FwRenews /\ fwOut'[k] # NoEntry /\ fwOut'[k].age = 0
<1> DEFINE e == [pair |-> k, desc |-> "NoOp", age |-> 0]
<1>1. e \in FwEntry /\ e # NoEntry /\ e.pair = k /\ e.age = 0
  BY EntriesAreEntries, PipelineAssumption DEF FwEntry
<1>2. fwOut' = [fwOut EXCEPT ![k] = e] /\ fwIn' = [fwIn EXCEPT ![k] = "NoOp"]
  BY DEF FW!AddPair
<1> HIDE DEF e
<1>3. fwOut' \in [FlowId -> FwEntry \cup {NoEntry}] /\ fwIn' \in [FlowId -> {"NoOp", NoEntry}]
  BY <1>1, <1>2 DEF FwInv
<1>4. fwOut'[k] = e /\ fwIn'[k] = "NoOp"
  BY <1>2 DEF FwInv
<1>5. \A j \in FlowId : j # k => fwOut'[j] = fwOut[j] /\ fwIn'[j] = fwIn[j]
  BY <1>2 DEF FwInv
<1>6. FwInv'
  BY <1>1, <1>3, <1>4, <1>5, EntriesAreEntries DEF FwInv
<1>7. \A j \in FlowId : fwOut[j] # NoEntry => fwOut[j].age \in Int
  BY DEF FwInv, FwEntry
<1>8. FwRenews
  BY <1>5, <1>7 DEF FwRenews
<1>9. QED
  BY <1>1, <1>4, <1>6, <1>8

(* A firewall entry is hit.                                                *)
LEMMA FwHit ==
  ASSUME FwInv, NEW k \in FlowId, FW!HitOut(k)
  PROVE  FwInv' /\ FwRenews /\ fwOut'[k] # NoEntry /\ fwOut'[k].age = 0
<1> DEFINE e == [fwOut[k] EXCEPT !.age = 0]
<1>1. fwOut[k] # NoEntry /\ fwOut[k] \in FwEntry
  BY DEF FwInv, FW!HitOut, FW!OutKeys
<1>2. e \in FwEntry /\ e # NoEntry /\ e.pair = k /\ e.age = 0
  BY <1>1, EntriesAreEntries, PipelineAssumption DEF FwEntry, FwInv
<1>3. fwOut' = [fwOut EXCEPT ![k] = e] /\ fwIn' = fwIn
  BY DEF FW!HitOut
<1> HIDE DEF e
<1>4. fwOut' \in [FlowId -> FwEntry \cup {NoEntry}] /\ fwIn' \in [FlowId -> {"NoOp", NoEntry}]
  BY <1>2, <1>3 DEF FwInv
<1>5. fwOut'[k] = e /\ \A j \in FlowId : j # k => fwOut'[j] = fwOut[j]
  BY <1>3 DEF FwInv
<1>6. FwInv'
  BY <1>1, <1>2, <1>3, <1>4, <1>5 DEF FwInv
<1>7. \A j \in FlowId : fwOut[j] # NoEntry => fwOut[j].age \in Nat
  BY PipelineAssumption DEF FwInv, FwEntry
<1>8. FwRenews
  BY <1>2, <1>5, <1>7 DEF FwRenews
<1>9. QED
  BY <1>2, <1>5, <1>6, <1>8

(* The firewall lets an outbound packet pass: its flow is young now.       *)
LEMMA FwOutPassesStep ==
  ASSUME FwInv, NEW k \in FlowId, FwOutPasses(k)
  PROVE  FwInv' /\ FwRenews /\ fwOut'[k] # NoEntry /\ fwOut'[k].age = 0
<1>1. CASE FW!HitOut(k)
  BY <1>1, FwHit
<1>2. CASE k \notin FW!OutKeys /\ FW!AddPair("NoOp", k, k)
  <2>1. fwOut[k] = NoEntry
    BY <1>2 DEF FW!OutKeys, FwInv
  <2>2. QED
    BY <1>2, <2>1, FwAdd
<1>3. QED
  BY <1>1, <1>2 DEF FwOutPasses

(* Steps that leave the firewall's tables alone.                           *)
LEMMA FwSame ==
  ASSUME FwInv, UNCHANGED <<fwOut, fwIn>>
  PROVE  FwInv' /\ FwRenews
<1>1. \A j \in FlowId : fwOut[j] # NoEntry => fwOut[j].age \in Int
  BY DEF FwInv, FwEntry
<1>2. QED
  BY <1>1 DEF FwInv, FwRenews

(* The firewall lets an inbound packet pass.                               *)
LEMMA FwInPassesStep ==
  ASSUME FwInv, NEW k \in FlowId, FwInPasses(k)
  PROVE  FwInv' /\ FwRenews
<1>1. CASE UNCHANGED fwVars
  BY <1>1, FwSame DEF fwVars
<1>2. CASE k \notin FW!InKeys /\ FW!AddPair("NoOp", k, k)
  <2>1. fwOut[k] = NoEntry
    BY <1>2 DEF FW!InKeys, FwInv
  <2>2. QED
    BY <1>2, <2>1, FwAdd
<1>3. QED
  BY <1>1, <1>2 DEF FwInPasses

(* set_rules() and reset() empty the firewall's tables.                    *)
LEMMA FwClears ==
  ASSUME FwInv, FW!ClearTables
  PROVE  FwInv'
<1>1. /\ fwOut' = [k \in FlowId |-> NoEntry]
      /\ fwIn' = [k \in FlowId |-> NoEntry]
  BY DEF FwInv, FW!ClearTables
<1>2. QED
  BY <1>1 DEF FwInv

(* Expiry takes the pairs whose outbound entry is old, and no other.       *)
LEMMA FwExpires ==
  ASSUME FwInv, FW!ExpireFlows
  PROVE  /\ FwInv'
         /\ \A k \in FlowId :
              fwOut[k] # NoEntry /\ fwOut[k].age < Ttl => fwOut'[k] = fwOut[k]
<1>1. DOMAIN fwOut = FlowId /\ DOMAIN fwIn = FlowId
  BY DEF FwInv
<1>2. \A k : k \in FW!Expired <=>
         k \in FlowId /\ fwOut[k] # NoEntry /\ fwOut[k].age >= Ttl
  BY <1>1 DEF FW!Expired, FW!OutKeys, FW!IsExpired
<1>3. \A k \in FlowId : (\E j \in FW!Expired : fwOut[j].pair = k) <=> k \in FW!Expired
  BY <1>2 DEF FwInv
<1>4. /\ fwOut' = [k \in FlowId |-> IF k \in FW!Expired THEN NoEntry ELSE fwOut[k]]
      /\ fwIn' = [k \in FlowId |->
                    IF \E j \in FW!Expired : fwOut[j].pair = k THEN NoEntry ELSE fwIn[k]]
  BY <1>1 DEF FW!ExpireFlows
<1>5. fwIn' = [k \in FlowId |-> IF k \in FW!Expired THEN NoEntry ELSE fwIn[k]]
  BY <1>3, <1>4
<1>6. fwOut' \in [FlowId -> FwEntry \cup {NoEntry}] /\ fwIn' \in [FlowId -> {"NoOp", NoEntry}]
  BY <1>4, <1>5 DEF FwInv
<1>7. \A k \in FlowId :
         /\ k \in FW!Expired => fwOut'[k] = NoEntry /\ fwIn'[k] = NoEntry
         /\ k \notin FW!Expired => fwOut'[k] = fwOut[k] /\ fwIn'[k] = fwIn[k]
  BY <1>4, <1>5
<1>8. FwInv'
  <2>1. ASSUME NEW k \in FlowId
        PROVE  /\ fwOut'[k] # NoEntry <=> fwIn'[k] # NoEntry
               /\ fwOut'[k] # NoEntry => fwOut'[k].pair = k
    <3>1. CASE k \in FW!Expired
      BY <1>7, <3>1
    <3>2. CASE k \notin FW!Expired
      BY <1>7, <3>2 DEF FwInv
    <3>3. QED
      BY <3>1, <3>2
  <2>2. QED
    BY <1>6, <2>1 DEF FwInv
<1>9. \A k \in FlowId : fwOut[k] # NoEntry => fwOut[k].age \in Int /\ Ttl \in Int
  BY PipelineAssumption DEF FwInv, FwEntry
<1>10. QED
  BY <1>2, <1>7, <1>8, <1>9

(* Time passes for the firewall's entries.                                 *)
LEMMA FwAges ==
  ASSUME FwInv, FW!Tick
  PROVE  /\ FwInv'
         /\ \A k \in FlowId :
              fwOut[k] # NoEntry =>
                /\ fwOut'[k] # NoEntry
                /\ fwOut'[k].age = IF fwOut[k].age < Ttl THEN fwOut[k].age + 1 ELSE fwOut[k].age
<1> DEFINE e(k) == [fwOut[k] EXCEPT !.age = @ + 1]
<1>1. /\ fwOut' = [k \in FlowId |-> IF k \in FW!OutKeys /\ fwOut[k].age < Ttl
                                    THEN e(k) ELSE fwOut[k]]
      /\ fwIn' = fwIn
  BY DEF FwInv, FW!Tick
<1>2. \A k \in FlowId : fwOut[k] # NoEntry => fwOut[k] \in FwEntry /\ k \in FW!OutKeys
  BY DEF FwInv, FW!OutKeys
<1>3. \A k \in FlowId : fwOut[k] # NoEntry /\ fwOut[k].age < Ttl =>
         /\ e(k) \in FwEntry /\ e(k) # NoEntry
         /\ e(k).pair = fwOut[k].pair /\ e(k).age = fwOut[k].age + 1
  <2> SUFFICES ASSUME NEW k \in FlowId, fwOut[k] # NoEntry, fwOut[k].age < Ttl
               PROVE  /\ e(k) \in FwEntry
                      /\ e(k).pair = fwOut[k].pair /\ e(k).age = fwOut[k].age + 1
    BY EntriesAreEntries
  <2>1. fwOut[k] \in FwEntry /\ fwOut[k].age + 1 \in 0..Ttl
    BY <1>2, PipelineAssumption DEF FwEntry
  <2>2. QED
    BY <2>1 DEF FwEntry
<1> HIDE DEF e
<1>4. \A k \in FlowId :
         /\ k \notin FW!OutKeys => fwOut[k] = NoEntry
         /\ fwOut'[k] = IF fwOut[k] # NoEntry /\ fwOut[k].age < Ttl THEN e(k) ELSE fwOut[k]
  BY <1>1, <1>2 DEF FW!OutKeys, FwInv
<1>5. fwOut' \in [FlowId -> FwEntry \cup {NoEntry}]
  BY <1>1, <1>3, <1>4 DEF FwInv
<1>6. FwInv'
  BY <1>1, <1>3, <1>4, <1>5 DEF FwInv
<1>7. QED
  BY <1>3, <1>4, <1>6

-----------------------------------------------------------------------------
(* An entry of the NAT layer has its type.                                 *)
LEMMA NatEntryType ==
  ASSUME NatInv, NEW k \in NAT!OutKeys
  PROVE  /\ k \in FlowId /\ natOut[k] \in NatEntry
         /\ natOut[k].desc \in SNatDesc /\ natOut[k].desc.port \in PubPorts
         /\ natOut[k].pair \in FlowId /\ natOut[k].age \in 0..Ttl
<1>1. k \in FlowId /\ natOut[k] \in NatEntry
  BY DEF NatInv, NatTyped, NAT!OutKeys
<1>2. QED
  BY <1>1 DEF NatEntry, SNatDesc

(* Which ports are held, by the keys of their owners.                      *)
LEMMA HeldByKeys ==
  ASSUME NatInv
  PROVE  Held(natOut) = {natOut[k].desc.port : k \in NAT!OutKeys}
  BY DEF Held, NAT!OutKeys, NatInv, NatTyped

(* Entries that stay, with their partners and ports, may be renewed or     *)
(* age.                                                                    *)
LEMMA NatSameKeys ==
  ASSUME NatInv, NatTyped',
         \A k \in FlowId : natOut'[k] # NoEntry <=> natOut[k] # NoEntry,
         \A k \in NAT!OutKeys : /\ natOut'[k].pair = natOut[k].pair
                                /\ natOut'[k].desc = natOut[k].desc,
         UNCHANGED <<natIn, free>>
  PROVE  NatInv' /\ NAT!OutKeys' = NAT!OutKeys
<1>1. NAT!OutKeys' = NAT!OutKeys
  BY DEF NAT!OutKeys, NatInv, NatTyped
<1>2. NatMade'
  BY <1>1 DEF NatInv, NatMade
<1>3. Held(natOut)' = Held(natOut)
  <2>1. Held(natOut)' = {natOut'[k].desc.port : k \in NAT!OutKeys'}
    BY DEF Held, NAT!OutKeys, NatTyped
  <2>2. QED
    BY <1>1, <2>1, HeldByKeys
<1>4. NatOwners'
  BY <1>1, <1>3 DEF NatInv, NatOwners
<1>5. QED
  BY <1>1, <1>2, <1>4 DEF NatInv

(* Steps that leave the NAT layer alone.                                   *)
LEMMA NatUnchanged ==
  ASSUME NatInv, UNCHANGED <<natOut, natIn, free>>
  PROVE  NatInv' /\ NAT!OutKeys' = NAT!OutKeys
<1>1. NatTyped'
  BY DEF NatInv, NatTyped
<1>2. QED
  BY <1>1, NatSameKeys

(* A flow without an entry gets one with a port from the pool.             *)
LEMMA NatAdd ==
  ASSUME NatInv, NEW f \in Flows, NEW p \in free, natOut[Key(f)] = NoEntry,
         NAT!AddPair([port |-> p, priv |-> f],
                     [remote |-> Key(f).remote, port |-> p], Key(f)),
         free' = free \ {p}
  PROVE  /\ NatInv'
         /\ NAT!OutKeys' = NAT!OutKeys \cup {Key(f)}
         /\ natOut'[Key(f)].age = 0
         /\ \A k \in NAT!OutKeys : natOut'[k] = natOut[k]
<1> DEFINE k0 == Key(f)
           d == [port |-> p, priv |-> f]
           g == [remote |-> k0.remote, port |-> p]
           e == [pair |-> g, desc |-> d, age |-> 0]
<1>1. k0 \in FlowId /\ k0.port = f /\ k0 = Key(k0.port)
  BY KeyType
<1>2. p \in PubPorts /\ p \notin Held(natOut)
  BY DEF NatInv, NatTyped, NatOwners
<1>3. g \in FlowId /\ d \in SNatDesc
  BY <1>1, <1>2 DEF FlowId, SNatDesc
<1>4. e \in NatEntry /\ e # NoEntry /\ d # NoEntry
  BY <1>3, PipelineAssumption, EntriesAreEntries DEF NatEntry
<1>5. natOut' = [natOut EXCEPT ![k0] = e] /\ natIn' = [natIn EXCEPT ![g] = d]
  BY DEF NAT!AddPair
<1>6. /\ e.pair = g /\ e.desc = d /\ e.age = 0 /\ d.port = p /\ d.priv = f
      /\ g.port = p /\ g = [remote |-> k0.remote, port |-> e.desc.port]
  OBVIOUS
<1> HIDE DEF k0, d, g, e
<1>7. NatTyped'
  BY <1>1, <1>3, <1>4, <1>5 DEF NatInv, NatTyped
<1>8. /\ natOut'[k0] = e /\ \A k \in FlowId : k # k0 => natOut'[k] = natOut[k]
      /\ natIn'[g] = d /\ \A n \in FlowId : n # g => natIn'[n] = natIn[n]
  BY <1>1, <1>3, <1>5 DEF NatInv, NatTyped
<1>9. NAT!OutKeys' = NAT!OutKeys \cup {k0} /\ k0 \notin NAT!OutKeys
  <2>1. DOMAIN natOut = FlowId /\ DOMAIN natOut' = FlowId
    BY <1>7 DEF NatInv, NatTyped
  <2>2. natOut[k0] = NoEntry
    BY DEF k0
  <2>3. QED
    BY <1>1, <1>4, <1>8, <2>1, <2>2 DEF NAT!OutKeys
<1>10. \A k \in NAT!OutKeys : natOut'[k] = natOut[k] /\ natOut[k].desc.port # p
  <2>1. \A k \in NAT!OutKeys : natOut[k].desc.port \in Held(natOut)
    BY HeldByKeys
  <2>2. QED
    BY <1>2, <1>8, <1>9, <2>1, NatEntryType
<1>11. NatMade'
  <2>1. ASSUME NEW k \in NAT!OutKeys
        PROVE  natOut[k].pair.port = natOut[k].desc.port
    <3>1. natOut[k].pair = [remote |-> k.remote, port |-> natOut[k].desc.port]
      BY <2>1 DEF NatInv, NatMade
    <3>2. QED
      BY <3>1
  <2>2. ASSUME NEW k \in NAT!OutKeys
        PROVE  natIn'[natOut'[k].pair] = natOut'[k].desc
    <3>1. natOut[k].pair \in FlowId /\ natOut[k].pair # g
      BY <1>6, <1>10, <2>1, NatEntryType
    <3>2. natIn'[natOut[k].pair] = natIn[natOut[k].pair]
      BY <1>8, <3>1
    <3>3. natIn[natOut[k].pair] = natOut[k].desc
      BY DEF NatInv, NatMade
    <3>4. QED
      BY <1>10, <3>2, <3>3
  <2>3. QED
    BY <1>1, <1>6, <1>8, <1>9, <1>10, <2>2 DEF NatInv, NatMade
<1>12. NatOwners'
  <2>1. IsFiniteSet(NAT!OutKeys')
    BY <1>9, FS_AddElement DEF NatInv, NatOwners
  <2>2. \A k, j \in NAT!OutKeys' :
           natOut'[k].desc.port = natOut'[j].desc.port => k = j
    BY <1>6, <1>8, <1>9, <1>10 DEF NatInv, NatOwners
  <2>3. Held(natOut)' = Held(natOut) \cup {p}
    <3>1. Held(natOut)' = {natOut'[k].desc.port : k \in NAT!OutKeys'}
      BY <1>7 DEF Held, NAT!OutKeys, NatTyped
    <3>2. QED
      BY <1>6, <1>8, <1>9, <1>10, <3>1, HeldByKeys
  <2>4. QED
    BY <1>2, <2>1, <2>2, <2>3 DEF NatInv, NatOwners
<1>13. QED
  BY <1>6, <1>7, <1>8, <1>9, <1>10, <1>11, <1>12 DEF NatInv, k0

(* The entry of a flow is hit.                                             *)
LEMMA NatHit ==
  ASSUME NatInv, NEW f \in Flows, NAT!HitOut(Key(f)), UNCHANGED free
  PROVE  /\ NatInv'
         /\ NAT!OutKeys' = NAT!OutKeys
         /\ natOut'[Key(f)].age = 0
         /\ \A k \in NAT!OutKeys : k # Key(f) => natOut'[k] = natOut[k]
<1> DEFINE k0 == Key(f)
           e == [natOut[k0] EXCEPT !.age = 0]
<1>1. k0 \in NAT!OutKeys
  BY DEF NAT!HitOut
<1>2. k0 \in FlowId /\ natOut[k0] \in NatEntry
  BY <1>1, NatEntryType
<1>3. /\ e \in NatEntry /\ e.age = 0
      /\ e.pair = natOut[k0].pair /\ e.desc = natOut[k0].desc
  BY <1>2, PipelineAssumption DEF NatEntry
<1>4. natOut' = [natOut EXCEPT ![k0] = e] /\ natIn' = natIn
  BY DEF NAT!HitOut
<1> HIDE DEF k0, e
<1>5. natOut'[k0] = e /\ \A k \in FlowId : k # k0 => natOut'[k] = natOut[k]
  BY <1>2, <1>4 DEF NatInv, NatTyped
<1>6. NatTyped'
  BY <1>3, <1>4 DEF NatInv, NatTyped
<1>7. /\ \A k \in FlowId : natOut'[k] # NoEntry <=> natOut[k] # NoEntry
      /\ \A k \in NAT!OutKeys : /\ natOut'[k].pair = natOut[k].pair
                                /\ natOut'[k].desc = natOut[k].desc
  BY <1>1, <1>2, <1>3, <1>5, EntriesAreEntries, NatEntryType DEF NAT!OutKeys
<1>8. NatInv' /\ NAT!OutKeys' = NAT!OutKeys
  BY <1>4, <1>6, <1>7, NatSameKeys
<1>9. QED
  BY <1>3, <1>5, <1>8, NatEntryType DEF k0

(* Time passes for the NAT layer's entries.                                *)
LEMMA NatAges ==
  ASSUME NatInv, NAT!Tick, UNCHANGED free
  PROVE  /\ NatInv'
         /\ NAT!OutKeys' = NAT!OutKeys
         /\ \A k \in NAT!OutKeys :
              natOut'[k].age = IF natOut[k].age < Ttl THEN natOut[k].age + 1 ELSE natOut[k].age
<1> DEFINE e(k) == [natOut[k] EXCEPT !.age = @ + 1]
<1>1. /\ natOut' = [k \in FlowId |-> IF k \in NAT!OutKeys /\ natOut[k].age < Ttl
                                     THEN e(k) ELSE natOut[k]]
      /\ natIn' = natIn
  BY DEF NatInv, NatTyped, NAT!Tick
<1>2. ASSUME NEW k \in NAT!OutKeys, natOut[k].age < Ttl
      PROVE  /\ e(k) \in NatEntry
             /\ e(k).pair = natOut[k].pair /\ e(k).desc = natOut[k].desc
             /\ e(k).age = natOut[k].age + 1
  <2>1. natOut[k] \in NatEntry /\ natOut[k].age + 1 \in 0..Ttl
    BY <1>2, NatEntryType, PipelineAssumption
  <2>2. QED
    BY <2>1 DEF NatEntry
<1> HIDE DEF e
<1>3. /\ \A k \in NAT!OutKeys :
           k \in FlowId /\ natOut'[k] = IF natOut[k].age < Ttl THEN e(k) ELSE natOut[k]
      /\ \A k \in FlowId : k \notin NAT!OutKeys => natOut'[k] = natOut[k] /\ natOut[k] = NoEntry
  BY <1>1, NatEntryType DEF NAT!OutKeys, NatInv, NatTyped
<1>4. natOut' \in [FlowId -> NatEntry \cup {NoEntry}]
  BY <1>1, <1>2 DEF NatInv, NatTyped
<1>5. NatTyped'
  BY <1>1, <1>4 DEF NatInv, NatTyped
<1>6. /\ \A k \in FlowId : natOut'[k] # NoEntry <=> natOut[k] # NoEntry
      /\ \A k \in NAT!OutKeys : /\ natOut'[k].pair = natOut[k].pair
                                /\ natOut'[k].desc = natOut[k].desc
  BY <1>2, <1>3, EntriesAreEntries, NatEntryType DEF NAT!OutKeys
<1>7. NatInv' /\ NAT!OutKeys' = NAT!OutKeys
  BY <1>1, <1>5, <1>6, NatSameKeys
<1>8. QED
  BY <1>2, <1>3, <1>7

(* Entries go, with their partners, and their ports return to the pool.    *)
LEMMA NatRemoves ==
  ASSUME NatInv, NatTyped', NEW gone \in SUBSET NAT!OutKeys,
         \A k \in FlowId : natOut'[k] = IF k \in gone THEN NoEntry ELSE natOut[k],
         \A k \in NAT!OutKeys \ gone : natIn'[natOut[k].pair] = natIn[natOut[k].pair],
         ReleaseDropped
  PROVE  NatInv' /\ NAT!OutKeys' = NAT!OutKeys \ gone
<1>1. NAT!OutKeys' = NAT!OutKeys \ gone
  BY DEF NAT!OutKeys, NatInv, NatTyped
<1>2. \A k \in NAT!OutKeys' : natOut'[k] = natOut[k] /\ k \in NAT!OutKeys
  BY <1>1, NatEntryType
<1>3. NatMade'
  BY <1>1, <1>2 DEF NatInv, NatMade
<1>4. Held(natOut)' \subseteq Held(natOut)
  <2>1. Held(natOut)' = {natOut'[k].desc.port : k \in NAT!OutKeys'}
    BY DEF Held, NAT!OutKeys, NatTyped
  <2>2. QED
    BY <1>2, <2>1, HeldByKeys
<1>5. NatOwners'
  <2>1. IsFiniteSet(NAT!OutKeys')
    BY <1>1, FS_Subset DEF NatInv, NatOwners
  <2>2. \A k, j \in NAT!OutKeys' :
           natOut'[k].desc.port = natOut'[j].desc.port => k = j
    BY <1>2 DEF NatInv, NatOwners
  <2>3. free' = free \cup (Held(natOut) \ Held(natOut)')
    BY DEF ReleaseDropped, Held
  <2>4. free' \cup Held(natOut)' = PubPorts /\ free' \cap Held(natOut)' = {}
    BY <1>4, <2>3 DEF NatInv, NatOwners
  <2>5. QED
    BY <2>1, <2>2, <2>4 DEF NatOwners
<1>6. QED
  BY <1>1, <1>3, <1>5 DEF NatInv

(* reset() empties the NAT layer's tables.                                 *)
LEMMA NatClears ==
  ASSUME NatInv, NAT!ClearTables, ReleaseDropped
  PROVE  NatInv' /\ NAT!OutKeys' = {}
<1>1. /\ natOut' = [k \in FlowId |-> NoEntry]
      /\ natIn' = [k \in FlowId |-> NoEntry]
  BY DEF NatInv, NatTyped, NAT!ClearTables
<1>2. free' \in SUBSET PubPorts
  BY DEF ReleaseDropped, NatInv, NatTyped, NatOwners
<1>3. NatTyped'
  BY <1>1, <1>2 DEF NatTyped
<1>4. \A k \in FlowId :
         natOut'[k] = IF k \in NAT!OutKeys THEN NoEntry ELSE natOut[k]
  BY <1>1 DEF NAT!OutKeys, NatInv, NatTyped
<1>5. NatInv' /\ NAT!OutKeys' = NAT!OutKeys \ NAT!OutKeys
  BY <1>3, <1>4, NatRemoves
<1>6. QED
  BY <1>5

(* Expiry takes the pairs whose outbound entry is old.  The partner of an  *)
(* entry that stays is no partner of one that goes: it has another port.   *)
LEMMA NatExpires ==
  ASSUME NatInv, NAT!ExpireFlows, ReleaseDropped
  PROVE  /\ NatInv'
         /\ \A k \in NAT!OutKeys' :
              k \in NAT!OutKeys /\ natOut[k].age < Ttl /\ natOut'[k] = natOut[k]
<1>1. /\ natOut' = [k \in FlowId |-> IF k \in NAT!Expired THEN NoEntry ELSE natOut[k]]
      /\ natIn' = [n \in FlowId |->
                     IF \E j \in NAT!Expired : natOut[j].pair = n THEN NoEntry ELSE natIn[n]]
  BY DEF NatInv, NatTyped, NAT!ExpireFlows
<1>2. NAT!Expired = {k \in NAT!OutKeys : natOut[k].age >= Ttl}
  BY DEF NAT!Expired, NAT!IsExpired
<1>3. free' \in SUBSET PubPorts
  BY DEF ReleaseDropped, NatInv, NatTyped, NatOwners
<1>4. NatTyped'
  BY <1>1, <1>3 DEF NatInv, NatTyped
<1>5. ASSUME NEW k \in NAT!OutKeys \ NAT!Expired
      PROVE  natIn'[natOut[k].pair] = natIn[natOut[k].pair]
  <2>1. ASSUME NEW j \in NAT!Expired
        PROVE  natOut[j].pair # natOut[k].pair
    <3>1. j \in NAT!OutKeys /\ j # k
      BY <1>2
    <3>2. natOut[j].desc.port # natOut[k].desc.port
      BY <3>1 DEF NatInv, NatOwners
    <3>3. natOut[j].pair = [remote |-> j.remote, port |-> natOut[j].desc.port]
      BY <3>1 DEF NatInv, NatMade
    <3>4. natOut[k].pair = [remote |-> k.remote, port |-> natOut[k].desc.port]
      BY DEF NatInv, NatMade
    <3>5. QED
      BY <3>2, <3>3, <3>4
  <2>2. natOut[k].pair \in FlowId
    BY NatEntryType
  <2>3. QED
    BY <1>1, <2>1, <2>2
<1>6. NatInv' /\ NAT!OutKeys' = NAT!OutKeys \ NAT!Expired
  <2>1. \A k \in FlowId :
           natOut'[k] = IF k \in NAT!Expired THEN NoEntry ELSE natOut[k]
    BY <1>1
  <2>2. NAT!Expired \in SUBSET NAT!OutKeys
    BY <1>2
  <2>3. QED
    BY <1>4, <1>5, <2>1, <2>2, NatRemoves
<1>7. ASSUME NEW k \in NAT!OutKeys'
      PROVE  k \in NAT!OutKeys /\ natOut[k].age < Ttl /\ natOut'[k] = natOut[k]
  <2>1. k \in NAT!OutKeys /\ ~(natOut[k].age >= Ttl) /\ k \notin NAT!Expired
    BY <1>2, <1>6
  <2>2. k \in FlowId /\ natOut[k].age \in 0..Ttl
    BY <2>1, NatEntryType
  <2>3. QED
    BY <1>1, <2>1, <2>2, PipelineAssumption
<1>8. QED
  BY <1>6, <1>7

(* The NAT layer lets a packet pass: of the entries there are after it,    *)
(* only that of the packet's own flow differs, and it is young.            *)
LEMMA NatOutPassesStep ==
  ASSUME NatInv, NEW f \in Flows, NatOutPasses(f)
  PROVE  /\ NatInv'
         /\ \A k \in NAT!OutKeys' :
              \/ k = Key(f) /\ natOut'[k].age = 0
              \/ k # Key(f) /\ k \in NAT!OutKeys /\ natOut'[k] = natOut[k]
<1>1. CASE NAT!HitOut(Key(f)) /\ UNCHANGED free
  BY <1>1, NatHit
<1>2. ASSUME Key(f) \notin NAT!OutKeys,
             NEW p \in free,
             NAT!AddPair([port |-> p, priv |-> f],
                         [remote |-> Key(f).remote, port |-> p], Key(f)),
             free' = free \ {p}
      PROVE  /\ NatInv'
             /\ \A k \in NAT!OutKeys' :
                  \/ k = Key(f) /\ natOut'[k].age = 0
                  \/ k # Key(f) /\ k \in NAT!OutKeys /\ natOut'[k] = natOut[k]
  <2>1. natOut[Key(f)] = NoEntry
    BY <1>2, KeyType DEF NAT!OutKeys, NatInv, NatTyped
  <2>2. QED
    BY <1>2, <2>1, NatAdd
<1>3. CASE Key(f) \notin NAT!OutKeys /\ UNCHANGED natVars
  <2>1. NatInv' /\ NAT!OutKeys' = NAT!OutKeys
    BY <1>3, NatUnchanged DEF natVars
  <2>2. QED
    BY <1>3, <2>1 DEF natVars
<1>4. QED
  BY <1>1, <1>2, <1>3 DEF NatOutPasses

-----------------------------------------------------------------------------
(* A packet that makes no difference to the NAT layer.                     *)
LEMMA FwOnlyIInv ==
  ASSUME IInv, FwInv', FwRenews, UNCHANGED <<natOut, natIn, free>>, cut' = cut
  PROVE  IInv'
<1>1. NatInv' /\ NAT!OutKeys' = NAT!OutKeys
  BY NatUnchanged DEF IInv
<1>2. ASSUME NEW k \in NAT!OutKeys, k.port \notin cut
      PROVE  fwOut'[k] # NoEntry /\ fwOut'[k].age <= natOut[k].age
  <2>1. k \in FlowId /\ natOut[k].age \in Int
    BY NatEntryType DEF IInv
  <2>2. fwOut[k] # NoEntry /\ fwOut[k].age <= natOut[k].age
    BY <1>2 DEF IInv, FwOutlives
  <2>3. fwOut'[k] # NoEntry /\ fwOut'[k].age <= fwOut[k].age
    BY <2>1, <2>2 DEF FwRenews
  <2>4. fwOut[k].age \in Int /\ fwOut'[k].age \in Int
    BY <2>1, <2>2, <2>3 DEF IInv, FwInv, FwEntry
  <2>5. QED
    BY <2>1, <2>2, <2>3, <2>4
<1>3. QED
  BY <1>1, <1>2 DEF IInv, FwOutlives

(* A packet that passes both layers.                                       *)
LEMMA BothPassIInv ==
  ASSUME IInv, NEW f \in Flows, FwOutPasses(Key(f)), NatOutPasses(f),
         cut' \in {cut, cut \ {f}}
  PROVE  IInv'
<1>1. Key(f) \in FlowId
  BY KeyType
<1>2. FwInv' /\ FwRenews /\ fwOut'[Key(f)] # NoEntry /\ fwOut'[Key(f)].age = 0
  BY <1>1, FwOutPassesStep DEF IInv
<1>3. /\ NatInv'
      /\ \A k \in NAT!OutKeys' :
           \/ k = Key(f) /\ natOut'[k].age = 0
           \/ k # Key(f) /\ k \in NAT!OutKeys /\ natOut'[k] = natOut[k]
  BY NatOutPassesStep DEF IInv
<1>4. ASSUME NEW k \in NAT!OutKeys', k.port \notin cut'
      PROVE  fwOut'[k] # NoEntry /\ fwOut'[k].age <= natOut'[k].age
  <2>1. CASE k = Key(f)
    BY <1>2, <1>3, <2>1
  <2>2. CASE k # Key(f)
    <3>1. k \in NAT!OutKeys /\ natOut'[k] = natOut[k]
      BY <1>3, <2>2
    <3>2. k \in FlowId /\ natOut[k].age \in Int /\ k.port # f
      <4>1. k \in FlowId /\ natOut[k].age \in Int
        BY <3>1, NatEntryType DEF IInv
      <4>2. k = Key(k.port)
        BY <3>1 DEF IInv, NatInv, NatMade
      <4>3. QED
        BY <2>2, <4>1, <4>2
    <3>3. fwOut[k] # NoEntry /\ fwOut[k].age <= natOut[k].age
      BY <1>4, <3>1, <3>2 DEF IInv, FwOutlives
    <3>4. fwOut'[k] # NoEntry /\ fwOut'[k].age <= fwOut[k].age
      BY <1>2, <3>2, <3>3 DEF FwRenews
    <3>5. fwOut[k].age \in Int /\ fwOut'[k].age \in Int
      BY <1>2, <3>2, <3>3, <3>4 DEF IInv, FwInv, FwEntry
    <3>6. QED
      BY <3>1, <3>2, <3>3, <3>4, <3>5
  <2>3. QED
    BY <2>1, <2>2
<1>5. cut' \in SUBSET Flows
  BY DEF IInv
<1>6. QED
  BY <1>2, <1>3, <1>4, <1>5 DEF IInv, FwOutlives

(* Steps in which neither layer takes part.                                *)
LEMMA NeitherIInv ==
  ASSUME IInv, UNCHANGED <<fwVars, natVars, cut>>
  PROVE  IInv'
<1>1. FwInv' /\ FwRenews
  BY FwSame DEF IInv, fwVars
<1>2. QED
  BY <1>1, FwOnlyIInv DEF natVars

(* An outbound packet.                                                     *)
LEMMA OutIInv ==
  ASSUME IInv, NEW f \in Flows, Out(f)
  PROVE  IInv'
<1>1. CASE UNCHANGED <<fwVars, natVars, cut>>
  BY <1>1, NeitherIInv
<1>2. CASE FwOutPasses(Key(f)) /\ UNCHANGED natVars /\ UNCHANGED cut
  <2>1. FwInv' /\ FwRenews
    BY <1>2, KeyType, FwOutPassesStep DEF IInv
  <2>2. QED
    BY <1>2, <2>1, FwOnlyIInv DEF natVars
<1>3. CASE FwOutPasses(Key(f)) /\ NatOutPasses(f) /\ cut' \in {cut, cut \ {f}}
  BY <1>3, BothPassIInv
<1>4. \/ UNCHANGED <<fwVars, natVars, cut>>
      \/ FwOutPasses(Key(f)) /\ UNCHANGED natVars /\ UNCHANGED cut
      \/ FwOutPasses(Key(f)) /\ NatOutPasses(f) /\ cut' \in {cut, cut \ {f}}
  BY DEF Out, OutLayers, FwOutDrops, NatOutDrops
<1>5. QED
  BY <1>1, <1>2, <1>3, <1>4

(* An inbound packet.                                                      *)
LEMMA InIInv ==
  ASSUME IInv, NEW n \in FlowId, In(n)
  PROVE  IInv'
<1>1. Restored(n) \in FlowId
  <2>1. natIn[n] # NoEntry => natIn[n] \in SNatDesc
    BY DEF IInv, NatInv, NatTyped
  <2>2. QED
    BY <2>1 DEF Restored, FlowId, SNatDesc
<1>2. UNCHANGED <<natOut, natIn, free>> /\ cut' = cut
  BY DEF In, natVars
<1>3. UNCHANGED fwVars \/ FwInPasses(Restored(n))
  BY DEF In, InLayers, FwInDrops
<1>4. FwInv' /\ FwRenews
  <2>1. CASE UNCHANGED fwVars
    BY <2>1, FwSame DEF IInv, fwVars
  <2>2. CASE FwInPasses(Restored(n))
    BY <1>1, <2>2, FwInPassesStep DEF IInv
  <2>3. QED
    BY <1>3, <2>1, <2>2
<1>5. QED
  BY <1>2, <1>4, FwOnlyIInv

(* set_rules() on the firewall: the flows the NAT layer has are cut off.   *)
LEMMA SetFwRulesIInv ==
  ASSUME IInv, NEW new \in BOOLEAN, SetFwRules(new)
  PROVE  IInv'
<1>1. FwInv'
  BY FwClears DEF IInv, SetFwRules
<1>2. NatInv' /\ NAT!OutKeys' = NAT!OutKeys
  BY NatUnchanged DEF IInv, SetFwRules, natVars
<1>3. \A k \in NAT!OutKeys : k.port \in Flows /\ k = Key(k.port) /\ natOut[k] # NoEntry
  BY DEF IInv, NatInv, NatMade, NAT!OutKeys
<1>4. cut' = NatFlows /\ \A k \in NAT!OutKeys : k.port \in cut'
  BY <1>3 DEF SetFwRules, NatFlows
<1>5. QED
  BY <1>1, <1>2, <1>4 DEF IInv, FwOutlives, NatFlows

(* reset().                                                                *)
LEMMA ResetIInv ==
  ASSUME IInv, Reset
  PROVE  IInv'
<1>1. FwInv'
  BY FwClears DEF IInv, Reset
<1>2. NatInv' /\ NAT!OutKeys' = {}
  BY NatClears DEF IInv, Reset
<1>3. QED
  BY <1>1, <1>2 DEF IInv, FwOutlives, Reset

(* expire_flows(): what the NAT layer keeps is not old, and then the       *)
(* firewall's entry is not old either.                                     *)
LEMMA ExpireIInv ==
  ASSUME IInv, Expire
  PROVE  IInv'
<1>1. /\ FwInv'
      /\ \A k \in FlowId :
           fwOut[k] # NoEntry /\ fwOut[k].age < Ttl => fwOut'[k] = fwOut[k]
  BY FwExpires DEF IInv, Expire
<1>2. /\ NatInv'
      /\ \A k \in NAT!OutKeys' :
           k \in NAT!OutKeys /\ natOut[k].age < Ttl /\ natOut'[k] = natOut[k]
  BY NatExpires DEF IInv, Expire
<1>3. cut' = {f \in cut : natOut'[Key(f)] # NoEntry}
  BY DEF Expire
<1>4. ASSUME NEW k \in NAT!OutKeys', k.port \notin cut'
      PROVE  fwOut'[k] # NoEntry /\ fwOut'[k].age <= natOut'[k].age
  <2>1. k \in NAT!OutKeys /\ natOut[k].age < Ttl /\ natOut'[k] = natOut[k]
    BY <1>2
  <2>2. k \in FlowId /\ natOut[k].age \in Int /\ k = Key(k.port)
    <3>1. k \in FlowId /\ natOut[k].age \in Int
      BY <2>1, NatEntryType DEF IInv
    <3>2. k = Key(k.port)
      BY <2>1 DEF IInv, NatInv, NatMade
    <3>3. QED
      BY <3>1, <3>2
  <2>3. natOut'[k] # NoEntry
    BY DEF NAT!OutKeys
  <2>4. k.port \notin cut
    BY <1>3, <1>4, <2>2, <2>3
  <2>5. fwOut[k] # NoEntry /\ fwOut[k].age <= natOut[k].age
    BY <2>1, <2>4 DEF IInv, FwOutlives
  <2>6. fwOut[k].age \in Int /\ Ttl \in Int
    BY <2>2, <2>5, PipelineAssumption DEF IInv, FwInv, FwEntry
  <2>7. fwOut[k].age < Ttl
    BY <2>1, <2>2, <2>5, <2>6
  <2>8. QED
    BY <1>1, <2>1, <2>2, <2>5, <2>7
<1>5. QED
  BY <1>1, <1>2, <1>3, <1>4 DEF IInv, FwOutlives

(* Time passes for both layers alike.                                      *)
LEMMA AgeIInv ==
  ASSUME IInv, Age
  PROVE  IInv'
<1>1. /\ FwInv'
      /\ \A k \in FlowId :
           fwOut[k] # NoEntry =>
             /\ fwOut'[k] # NoEntry
             /\ fwOut'[k].age = IF fwOut[k].age < Ttl THEN fwOut[k].age + 1 ELSE fwOut[k].age
  BY FwAges DEF IInv, Age
<1>2. /\ NatInv'
      /\ NAT!OutKeys' = NAT!OutKeys
      /\ \A k \in NAT!OutKeys :
           natOut'[k].age = IF natOut[k].age < Ttl THEN natOut[k].age + 1 ELSE natOut[k].age
  BY NatAges DEF IInv, Age
<1>3. cut' = cut
  BY DEF Age
<1>4. ASSUME NEW k \in NAT!OutKeys, k.port \notin cut
      PROVE  fwOut'[k] # NoEntry /\ fwOut'[k].age <= natOut'[k].age
  <2>1. k \in FlowId /\ natOut[k].age \in 0..Ttl
    BY NatEntryType DEF IInv
  <2>2. fwOut[k] # NoEntry /\ fwOut[k].age <= natOut[k].age
    BY <1>4 DEF IInv, FwOutlives
  <2>3. fwOut[k].age \in 0..Ttl /\ Ttl \in Nat
    BY <2>1, <2>2, PipelineAssumption DEF IInv, FwInv, FwEntry
  <2>4. QED
    BY <1>1, <1>2, <2>1, <2>2, <2>3
<1>5. QED
  BY <1>1, <1>2, <1>3, <1>4 DEF IInv, FwOutlives

(* Every step of the pipeline keeps the invariant.                         *)
LEMMA NextIInv == IInv /\ [Next]_vars => IInv'
<1> SUFFICES ASSUME IInv, [Next]_vars PROVE IInv'
  OBVIOUS
<1>1. CASE Packet
  BY <1>1, OutIInv, InIInv DEF Packet
<1>2. CASE Request
  <2>1. CASE ChangeFwRules
    BY <2>1, NeitherIInv DEF ChangeFwRules
  <2>2. CASE \E new \in BOOLEAN : SetFwRules(new)
    BY <2>2, SetFwRulesIInv
  <2>3. CASE \E r \in Remotes, t \in Targets : SetRoute(r, t)
    BY <2>3, NeitherIInv DEF SetRoute
  <2>4. CASE ClearUft
    BY <2>4, NeitherIInv DEF ClearUft
  <2>5. CASE Reset
    BY <2>5, ResetIInv
  <2>6. QED
    BY <1>2, <2>1, <2>2, <2>3, <2>4, <2>5 DEF Request
<1>3. CASE Expire
  BY <1>3, ExpireIInv
<1>4. CASE Age
  BY <1>4, AgeIInv
<1>5. CASE Quiesce
  BY <1>5, NeitherIInv DEF Quiesce
<1>6. CASE UNCHANGED vars
  BY <1>6, NeitherIInv DEF vars
<1>7. QED
  BY <1>1, <1>2, <1>3, <1>4, <1>5, <1>6 DEF Next

(* A port without traffic.                                                 *)
LEMMA InitIInv == Init => IInv
<1> SUFFICES ASSUME Init PROVE IInv
  OBVIOUS
<1>1. /\ \A k \in FlowId : fwOut[k] = NoEntry /\ fwIn[k] = NoEntry
      /\ fwOut = [k \in FlowId |-> NoEntry] /\ fwIn = [k \in FlowId |-> NoEntry]
      /\ natOut = [k \in FlowId |-> NoEntry] /\ natIn = [k \in FlowId |-> NoEntry]
  BY DEF Init
<1>2. FwInv
  BY <1>1 DEF FwInv
<1>3. NAT!OutKeys = {} /\ Held(natOut) = {}
  BY <1>1 DEF NAT!OutKeys, Held
<1>4. NatTyped
  BY <1>1 DEF Init, NatTyped
<1>5. NatMade
  BY <1>3 DEF NatMade
<1>6. NatOwners
  BY <1>3, FS_EmptySet DEF NatOwners, Init
<1>7. QED
  BY <1>2, <1>3, <1>4, <1>5, <1>6 DEF IInv, NatInv, FwOutlives, Init

(* The invariant holds of every behaviour of the pipeline.                 *)
THEOREM IInvHolds == Spec => []IInv
  BY InitIInv, NextIInv, PTL DEF Spec

(* While the NAT layer keeps a port for a flow, what arrives there passes  *)
(* the firewall and reaches that flow (layer.rs, nat.rs, snat.rs).         *)
THEOREM RepliesPassAlways == Spec => []RepliesPass
<1>1. IInv => RepliesPass
  <2> SUFFICES ASSUME IInv, NEW f \in Flows \ cut, natOut[Key(f)] # NoEntry
               PROVE  /\ Restored(natOut[Key(f)].pair) = Key(f)
                      /\ Admitted(natOut[Key(f)].pair)
    BY DEF RepliesPass
  <2> DEFINE k == Key(f)
             n == natOut[k].pair
  <2>1. k \in FlowId /\ k.port = f
    BY KeyType
  <2>2. k \in NAT!OutKeys
    BY <2>1 DEF NAT!OutKeys, IInv, NatInv, NatTyped
  <2>3. /\ natOut[k].desc.priv = f
        /\ n = [remote |-> k.remote, port |-> natOut[k].desc.port]
        /\ natIn[n] = natOut[k].desc
    BY <2>1, <2>2 DEF IInv, NatInv, NatMade
  <2>4. natIn[n] # NoEntry /\ natIn[n].priv = f
    BY <2>2, <2>3, NatEntryType, EntriesAreEntries DEF IInv
  <2>5. n.remote = Remote[f]
    BY <2>3, KeyType
  <2>6. Restored(n) = k
    BY <2>4, <2>5 DEF Restored, Key
  <2>7. k \in FW!InKeys
    BY <2>1, <2>2 DEF IInv, FwOutlives, FwInv, FW!InKeys
  <2>8. QED
    BY <2>1, <2>6, <2>7 DEF Admitted, GatewayPasses
<1>2. QED
  BY <1>1, IInvHolds, PTL

(* Every port of the pool is free or held, by one flow (nat.rs, snat.rs).  *)
THEOREM PortsAccountedAlways == Spec => []PortsAccounted
<1>1. IInv => PortsAccounted
  <2> SUFFICES ASSUME IInv
               PROVE  Cardinality(Held(natOut)) = Cardinality(NAT!OutKeys)
    BY DEF IInv, NatInv, NatOwners, PortsAccounted
  <2> DEFINE owns == [k \in NAT!OutKeys |-> natOut[k].desc.port]
  <2>1. Held(natOut) = {natOut[k].desc.port : k \in NAT!OutKeys}
    BY HeldByKeys DEF IInv
  <2>2. IsFiniteSet(NAT!OutKeys)
    BY DEF IInv, NatInv, NatOwners
  <2>3. owns \in Bijection(NAT!OutKeys, Held(natOut))
    <3>1. owns \in Surjection(NAT!OutKeys, Held(natOut))
      BY <2>1 DEF Surjection
    <3>2. owns \in Injection(NAT!OutKeys, Held(natOut))
      BY <2>1 DEF Injection, IsInjective, IInv, NatInv, NatOwners
    <3>3. QED
      BY <3>1, <3>2 DEF Bijection
  <2>4. QED
    BY <2>2, <2>3, FS_Bijection DEF ExistsBijection
<1>2. QED
  BY <1>1, IInvHolds, PTL
=============================================================================

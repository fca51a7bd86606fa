----------------------------- MODULE VpcMappings -----------------------------
(***************************************************************************)
(* The virtual-to-physical mappings of one host                            *)
(* (oxide-vpc/src/engine/overlay.rs, struct VpcMappings and Virt2Phys).    *)
(*                                                                         *)
(* There is one Virt2Phys per VNI, made when the VNI is first seen and     *)
(* shared: the overlay layer of every port in that VPC holds a reference   *)
(* to it.  An object is therefore named here by its position in `v2ps`,    *)
(* the objects ever made, and `byVni` says which one a VNI has.            *)
(***************************************************************************)
EXTENDS Integers, Sequences, FiniteSetsExt

CONSTANTS
  Vnis,         \* the VNIs of VPCs, numbers
  Vips,         \* virtual IP addresses, of either version
  Macs,         \* guest MAC addresses
  Hosts         \* underlay addresses of hosts

ASSUME VnisAssumption == Vnis \subseteq Nat \ {0}

VARIABLES
  byVni,        \* VpcMappings::inner: the object of each VNI, 0 for none
  v2ps          \* the Virt2Phys objects: physical address by virtual IP

mapVars == <<byVni, v2ps>>

(* PhysNet without its VNI.                                                *)
GuestPhysAddr == [ether : Macs, ip : Hosts]
NoPhys == [ether |-> "none", ip |-> "none"]
ASSUME NoPhysAssumption == NoPhys \notin GuestPhysAddr
NoMappings == [vip \in Vips |-> NoPhys]

MappingsTypeOK ==
  /\ v2ps \in Seq([Vips -> GuestPhysAddr \cup {NoPhys}])
  /\ byVni \in [Vnis -> 0 .. Len(v2ps)]

MappingsInit ==
  /\ byVni = [vni \in Vnis |-> 0]
  /\ v2ps = <<>>

(* Virt2Phys::get.                                                         *)
Lookup(obj, vip) == v2ps[obj][vip]

(* add(): set the address in the VNI's object, making one if need be.      *)
Add(vip, vni, phys) ==
  \/ /\ byVni[vni] # 0
     /\ v2ps' = [v2ps EXCEPT ![byVni[vni]][vip] = phys]
     /\ UNCHANGED byVni
  \/ /\ byVni[vni] = 0
     /\ v2ps' = Append(v2ps, [NoMappings EXCEPT ![vip] = phys])
     /\ byVni' = [byVni EXCEPT ![vni] = Len(v2ps) + 1]

(* Mutant: an object that becomes empty is taken out of the map.           *)
DelPruning(vip, vni) ==
  LET obj == byVni[vni] IN
  \/ obj = 0 /\ UNCHANGED mapVars
  \/ /\ obj # 0
     /\ v2ps' = [v2ps EXCEPT ![obj][vip] = NoPhys]
     /\ byVni' = IF v2ps'[obj] = NoMappings THEN [byVni EXCEPT ![vni] = 0]
                                             ELSE byVni

(* del(): whatever the address maps to is removed, and the VNI keeps its   *)
(* object.                                                                 *)
Del(vip, vni) ==
  /\ v2ps' = IF byVni[vni] = 0 THEN v2ps
             ELSE [v2ps EXCEPT ![byVni[vni]][vip] = NoPhys]
  /\ UNCHANGED byVni

(* ip_to_vni(): the first VNI, in their order, in which the address has a  *)
(* mapping.  `none` stands for the absence of one.                         *)
IpToVni(vip, none) ==
  LET mapped == {vni \in Vnis : byVni[vni] # 0
                                /\ Lookup(byVni[vni], vip) # NoPhys}
  IN IF mapped = {} THEN none ELSE Min(mapped)
=============================================================================

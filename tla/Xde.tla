-------------------------------- MODULE Xde --------------------------------
(***************************************************************************)
(* The xde driver of one host (xde/src/xde.rs): its underlay, its list of  *)
(* devices, the mappings the devices share, and the packets that cross it. *)
(*                                                                         *)
(* Threads run the handlers.  Creating a device holds the underlay mutex   *)
(* and then the write lock of the device list; deleting one holds the      *)
(* write lock; a packet that arrives, or is looped back to a guest of the  *)
(* same host, holds the read lock while it is delivered.  Each call into   *)
(* mac or DLS is a step that may fail, and so is each mapping that is      *)
(* added or removed, because the mappings have a lock of their own.        *)
(* Modelled with the ext_ip_hack tunable off: all traffic is encapsulated. *)
(***************************************************************************)
EXTENDS VpcMappings

CONSTANTS
  Threads,      \* threads that run handlers
  Configs,      \* create requests: [name, mac, vni, ips]
  Pushes,       \* mappings the control plane may set: [vip, vni, phys]
  Self,         \* this host's underlay address
  Boundary,     \* Boundary Services: [ether, ip, vni]
  Internet      \* destinations outside every VPC

Names == {cfg.name : cfg \in Configs}
Remote == "remote"
None == "none"

ASSUME SelfAssumption == Self \in Hosts /\ Boundary.ip # Self
ASSUME ConfigsAssumption ==
  \A cfg \in Configs :
    /\ cfg.name # Remote
    /\ cfg.mac \in Macs /\ cfg.vni \in Vnis
    /\ cfg.ips \in Seq(Vips) /\ cfg.ips # <<>>
ASSUME PushesAssumption ==
  \A push \in Pushes : /\ push.vip \in Vips /\ push.vni \in Vnis
                       /\ push.phys \in GuestPhysAddr
ASSUME ThreadsAssumption == None \notin Threads

NoBox == [cfg |-> None]

(* Resources of the underlay ports, in the order they are acquired: a mac  *)
(* handle, a mac client and a promiscuous callback for each.               *)
Underlay == <<"u1mh", "u2mh", "u1mch", "u2mch", "u1mph", "u2mph">>

VARIABLES
  attached,     \* attach(9E) succeeded: there is an XdeState
  underlay,     \* XdeState::underlay is Some
  handles,      \* underlay resources that are open
  mutex,        \* thread that holds the underlay's mutex
  writer,       \* thread that holds xde_devs for writing
  readers,      \* threads that hold xde_devs for reading
  boxes,        \* the XdeDev of each name
  pc,           \* what each thread does next
  arg           \* the local variables of each thread

vars == <<byVni, v2ps, attached, underlay, handles, mutex, writer, readers,
          boxes, pc, arg>>
lockVars == <<mutex, writer, readers>>

Live == {name \in Names : boxes[name] # NoBox}
Devs == {name \in Live : boxes[name].listed}
Ips(cfg) == {cfg.ips[i] : i \in DOMAIN cfg.ips}

Box == [cfg : Configs, v2p : Nat, mac : BOOLEAN, devnet : BOOLEAN,
        listed : BOOLEAN, running : BOOLEAN]
Packet == [from : Names \cup {Remote}, to : Names \cup {None},
           src : Vips \cup {Internet}, dst : Vips \cup {Internet},
           meta : Vnis \cup {Boundary.vni}, vni : Vnis \cup {Boundary.vni},
           mac : Macs \cup {Boundary.ether}]
Create == [cfg : Configs, todo : Seq(Vips)]
Setup == [open : 0 .. Len(Underlay), todo : Seq({Underlay[i] : i \in DOMAIN Underlay})]

TypeOK ==
  /\ MappingsTypeOK
  /\ attached \in BOOLEAN /\ underlay \in BOOLEAN
  /\ handles \subseteq {Underlay[i] : i \in DOMAIN Underlay}
  /\ mutex \in Threads \cup {None} /\ writer \in Threads \cup {None}
  /\ readers \subseteq Threads
  /\ boxes \in [Names -> Box \cup {NoBox}]
  /\ DOMAIN pc = Threads
  /\ \A t \in Threads :
       CASE pc[t] = "idle" -> arg[t] = None
         [] pc[t] \in {"setup", "unwind"} -> arg[t] \in Setup
         [] pc[t] \in {"t_encap", "t_loop", "deliver"} -> arg[t] \in Packet
         [] OTHER -> arg[t] \in Create

Init ==
  /\ MappingsInit
  /\ attached = TRUE /\ underlay = FALSE /\ handles = {}
  /\ mutex = None /\ writer = None /\ readers = {}
  /\ boxes = [name \in Names |-> NoBox]
  /\ pc = [t \in Threads |-> "idle"]
  /\ arg = [t \in Threads |-> None]

-----------------------------------------------------------------------------
Goto(t, label, locals) ==
  /\ pc' = [pc EXCEPT ![t] = label]
  /\ arg' = [arg EXCEPT ![t] = locals]
Return(t) == Goto(t, "idle", None)

(* Taking the write lock of xde_devs.                                      *)
WriteLock(t) == writer = None /\ readers = {} /\ writer' = t
Free(lock, t) == IF lock = t THEN None ELSE lock
(* The guards a handler still holds are dropped when it returns.           *)
Unlock(t) ==
  /\ mutex' = Free(mutex, t)
  /\ writer' = Free(writer, t)
  /\ readers' = readers \ {t}

-----------------------------------------------------------------------------
(* set_xde_underlay() holds the mutex while the underlay ports are opened. *)
SetUnderlay(t) ==
  /\ attached /\ pc[t] = "idle" /\ mutex = None /\ ~underlay
  /\ mutex' = t
  /\ Goto(t, "setup", [open |-> 0, todo |-> <<>>])
  /\ UNCHANGED <<mapVars, attached, underlay, handles, writer, readers, boxes>>

(* Mutant: the first callback is not removed when the second fails.        *)
UnwindingForgetful == [ u1mh  |-> <<>>,
               u2mh  |-> <<>>,
               u1mch |-> <<"u2mh", "u1mh">>,
               u2mch |-> <<"u2mh", "u1mh", "u1mch">>,
               u1mph |-> <<"u2mch", "u1mch", "u2mh", "u1mh">>,
               u2mph |-> <<"u2mch", "u1mch", "u2mh", "u1mh">> ]

(* What is closed, in order, when acquiring each resource fails: the mac   *)
(* handle of the first port is forgotten, and the client of the first is   *)
(* dropped on return, after the handles were closed.                       *)
Unwinding == [ u1mh  |-> <<>>,
               u2mh  |-> <<>>,
               u1mch |-> <<"u2mh", "u1mh">>,
               u2mch |-> <<"u2mh", "u1mh", "u1mch">>,
               u1mph |-> <<"u2mch", "u1mch", "u2mh", "u1mh">>,
               u2mph |-> <<"u1mph", "u2mch", "u1mch", "u2mh", "u1mh">> ]

(* One call of init_underlay_ingress_handlers().                           *)
OpenNext(t) ==
  LET n == arg[t].open + 1 IN
  /\ pc[t] = "setup" /\ n <= Len(Underlay)
  /\ \/ /\ handles' = handles \cup {Underlay[n]}
        /\ Goto(t, "setup", [arg[t] EXCEPT !.open = n])
     \/ /\ Goto(t, "unwind", [arg[t] EXCEPT !.todo = Unwinding[Underlay[n]]])
        /\ UNCHANGED handles
  /\ UNCHANGED <<mapVars, attached, underlay, lockVars, boxes>>

CloseNext(t) ==
  /\ pc[t] = "unwind" /\ arg[t].todo # <<>>
  /\ handles' = handles \ {Head(arg[t].todo)}
  /\ Goto(t, "unwind", [arg[t] EXCEPT !.todo = Tail(@)])
  /\ UNCHANGED <<mapVars, attached, underlay, lockVars, boxes>>

SetUnderlayEnd(t) ==
  /\ \/ pc[t] = "setup" /\ arg[t].open = Len(Underlay) /\ underlay' = TRUE
     \/ pc[t] = "unwind" /\ arg[t].todo = <<>> /\ UNCHANGED underlay
  /\ Return(t) /\ Unlock(t)
  /\ UNCHANGED <<mapVars, attached, handles, boxes>>

-----------------------------------------------------------------------------
(* create_xde() takes the mutex, sees an underlay, and waits for the list. *)
CreateXde(t, cfg) ==
  /\ attached /\ pc[t] = "idle" /\ mutex = None /\ underlay
  /\ mutex' = t
  /\ Goto(t, "c_check", [cfg |-> cfg, todo |-> cfg.ips])
  /\ UNCHANGED <<mapVars, attached, underlay, handles, writer, readers, boxes>>

(* Mutant: only the name is compared with those of the other devices.      *)
IsTakenByName(cfg) == cfg.name \in Devs

(* PortExists or MacExists.                                                *)
IsTaken(cfg) ==
  \/ cfg.name \in Devs
  \/ \E name \in Devs : /\ boxes[name].cfg.vni = cfg.vni
                        /\ boxes[name].cfg.mac = cfg.mac

CreateCheck(t) ==
  /\ pc[t] = "c_check" /\ WriteLock(t)
  /\ ~IsTaken(arg[t].cfg)
  /\ Goto(t, "c_map", arg[t])
  /\ UNCHANGED <<mapVars, attached, underlay, handles, mutex, readers, boxes>>

CreateRefused(t) ==
  /\ pc[t] = "c_check" /\ writer = None /\ readers = {}
  /\ IsTaken(arg[t].cfg)
  /\ Return(t) /\ Unlock(t)
  /\ UNCHANGED <<mapVars, attached, underlay, handles, boxes>>

(* Mutant: of a dual-stack guest, only the last address is mapped.         *)
CreateMapLast(t) ==
  LET cfg == arg[t].cfg IN
  /\ pc[t] = "c_map" /\ arg[t].todo # <<>>
  /\ Add(cfg.ips[Len(cfg.ips)], cfg.vni, [ether |-> cfg.mac, ip |-> Self])
  /\ Goto(t, "c_map", [arg[t] EXCEPT !.todo = Tail(@)])
  /\ UNCHANGED <<attached, underlay, handles, lockVars, boxes>>

(* The guest's addresses are mapped to this host, one call for each.       *)
CreateMap(t) ==
  LET cfg == arg[t].cfg IN
  /\ pc[t] = "c_map" /\ arg[t].todo # <<>>
  /\ Add(Head(arg[t].todo), cfg.vni, [ether |-> cfg.mac, ip |-> Self])
  /\ Goto(t, "c_map", [arg[t] EXCEPT !.todo = Tail(@)])
  /\ UNCHANGED <<attached, underlay, handles, lockVars, boxes>>

(* new_port() succeeds: the device is made, with references to the mapping *)
(* object the last add() returned and to the underlay, whose mutex is then *)
(* released.                                                               *)
CreatePort(t) ==
  LET cfg == arg[t].cfg IN
  /\ pc[t] = "c_map" /\ arg[t].todo = <<>>
  /\ boxes' = [boxes EXCEPT ![cfg.name] =
       [cfg |-> cfg, v2p |-> byVni[cfg.vni], mac |-> FALSE, devnet |-> FALSE,
        listed |-> FALSE, running |-> FALSE]]
  /\ mutex' = None
  /\ Goto(t, "c_reg", arg[t])
  /\ UNCHANGED <<mapVars, attached, underlay, handles, writer, readers>>

(* mac_alloc() and mac_register().                                         *)
CreateRegister(t) ==
  /\ pc[t] = "c_reg"
  /\ boxes' = [boxes EXCEPT ![arg[t].cfg.name].mac = TRUE]
  /\ Goto(t, "c_dls", arg[t])
  /\ UNCHANGED <<mapVars, attached, underlay, handles, lockVars>>

(* Mutant: the list is unlocked before the new device is in it.            *)
CreateDevnetUnlocking(t) ==
  /\ pc[t] = "c_dls"
  /\ boxes' = [boxes EXCEPT ![arg[t].cfg.name].devnet = TRUE]
  /\ Goto(t, "c_push", arg[t])
  /\ Unlock(t)
  /\ UNCHANGED <<mapVars, attached, underlay, handles>>

(* dls_devnet_create().                                                    *)
CreateDevnet(t) ==
  /\ pc[t] = "c_dls"
  /\ boxes' = [boxes EXCEPT ![arg[t].cfg.name].devnet = TRUE]
  /\ Goto(t, "c_push", arg[t])
  /\ UNCHANGED <<mapVars, attached, underlay, handles, lockVars>>

(* A step fails after the mappings were made: they stay.  The device, if   *)
(* there is one, is unregistered and dropped.                              *)
CreateFails(t) ==
  /\ \/ pc[t] = "c_map" /\ arg[t].todo = <<>>
     \/ pc[t] \in {"c_reg", "c_dls"}
  /\ boxes' = [boxes EXCEPT ![arg[t].cfg.name] = NoBox]
  /\ Return(t) /\ Unlock(t)
  /\ UNCHANGED <<mapVars, attached, underlay, handles>>

CreatePush(t) ==
  /\ pc[t] = "c_push"
  /\ boxes' = [boxes EXCEPT ![arg[t].cfg.name].listed = TRUE]
  /\ Return(t) /\ Unlock(t)
  /\ UNCHANGED <<mapVars, attached, underlay, handles>>

-----------------------------------------------------------------------------
(* delete_xde() takes the write lock and finds the device.                 *)
DeleteXde(t, name) ==
  /\ attached /\ pc[t] = "idle" /\ WriteLock(t)
  /\ name \in Devs
  /\ Goto(t, "d_dls", [cfg |-> boxes[name].cfg, todo |-> boxes[name].cfg.ips])
  /\ UNCHANGED <<mapVars, attached, underlay, handles, mutex, readers, boxes>>

(* dls_devnet_destroy() needs a devnet to destroy.                         *)
DeleteDevnet(t) ==
  /\ pc[t] = "d_dls" /\ boxes[arg[t].cfg.name].devnet
  /\ boxes' = [boxes EXCEPT ![arg[t].cfg.name].devnet = FALSE]
  /\ Goto(t, "d_unreg", arg[t])
  /\ UNCHANGED <<mapVars, attached, underlay, handles, lockVars>>

(* mac_unregister() refuses a device that a client has open.               *)
DeleteUnregister(t) ==
  /\ pc[t] = "d_unreg" /\ ~boxes[arg[t].cfg.name].running
  /\ boxes' = [boxes EXCEPT ![arg[t].cfg.name].mac = FALSE]
  /\ Goto(t, "d_map", arg[t])
  /\ UNCHANGED <<mapVars, attached, underlay, handles, lockVars>>

(* Either of the two fails and the device remains.  When it is the second, *)
(* the devnet is created again, which may fail too.                        *)
DeleteFails(t) ==
  LET name == arg[t].cfg.name IN
  /\ \/ pc[t] = "d_dls" /\ UNCHANGED boxes
     \/ pc[t] = "d_unreg" /\ boxes' = [boxes EXCEPT ![name].devnet = TRUE]
     \/ pc[t] = "d_unreg" /\ UNCHANGED boxes
  /\ Return(t) /\ Unlock(t)
  /\ UNCHANGED <<mapVars, attached, underlay, handles>>

(* The guest's addresses are removed from the mappings.                    *)
DeleteMap(t) ==
  /\ pc[t] = "d_map" /\ arg[t].todo # <<>>
  /\ Del(Head(arg[t].todo), arg[t].cfg.vni)
  /\ Goto(t, "d_map", [arg[t] EXCEPT !.todo = Tail(@)])
  /\ UNCHANGED <<attached, underlay, handles, lockVars, boxes>>

(* The entry is removed from the list, which drops the device.             *)
DeleteRemove(t) ==
  /\ pc[t] = "d_map" /\ arg[t].todo = <<>>
  /\ boxes' = [boxes EXCEPT ![arg[t].cfg.name] = NoBox]
  /\ Return(t) /\ Unlock(t)
  /\ UNCHANGED <<mapVars, attached, underlay, handles>>

-----------------------------------------------------------------------------
(* set_v2p_hdlr(): the control plane sets a mapping.  Only the lock of the *)
(* mappings is taken.                                                      *)
SetV2p(push) ==
  /\ attached
  /\ Add(push.vip, push.vni, push.phys)
  /\ UNCHANGED <<attached, underlay, handles, lockVars, boxes, pc, arg>>

(* xde_mc_start(): mac calls it when the first client opens the device,    *)
(* which it finds through its devnet.                                      *)
McStart(name) ==
  /\ name \in Live /\ boxes[name].devnet /\ ~boxes[name].running
  /\ boxes' = [boxes EXCEPT ![name].running = TRUE]
  /\ UNCHANGED <<mapVars, attached, underlay, handles, lockVars, pc, arg>>

(* Threads in the middle of a packet sent by the guest of a device.        *)
Sending(name) == {t \in Threads : /\ pc[t] \in {"t_encap", "t_loop", "deliver"}
                                  /\ arg[t].from = name}

(* xde_mc_stop(): the last client has closed, and has no packet under way. *)
McStop(name) ==
  /\ name \in Live /\ boxes[name].running /\ Sending(name) = {}
  /\ boxes' = [boxes EXCEPT ![name].running = FALSE]
  /\ UNCHANGED <<mapVars, attached, underlay, handles, lockVars, pc, arg>>

-----------------------------------------------------------------------------
(* xde_mc_tx(), as far as the gateway layer: the source must be one of the *)
(* guest's own addresses, and VpcMeta notes the VNI of the destination, or *)
(* that of Boundary Services, for the firewall to filter on.               *)
TxGateway(t, name, src, dst) ==
  /\ pc[t] = "idle" /\ name \in Live /\ boxes[name].running
  /\ src \in Ips(boxes[name].cfg)
  /\ Goto(t, "t_encap",
          [from |-> name, to |-> None, src |-> src, dst |-> dst,
           meta |-> IF dst = Internet THEN Boundary.vni
                    ELSE IpToVni(dst, Boundary.vni),
           vni |-> Boundary.vni, mac |-> Boundary.ether])
  /\ UNCHANGED <<mapVars, attached, underlay, handles, lockVars, boxes>>

(* EncapAction::gen_ht(): Boundary Services for the internet, otherwise    *)
(* what the port's own VPC has for an address, if it has something.        *)
EncapTarget(box, hop) ==
  IF hop = Internet THEN Boundary
  ELSE [ether |-> Lookup(box.v2p, hop).ether, ip |-> Lookup(box.v2p, hop).ip,
        vni |-> box.cfg.vni]

(* The overlay layer encapsulates; a packet for another host leaves.  The  *)
(* router layer has said where to: the internet, the subnet of the         *)
(* destination, or another address of the VPC.                             *)
TxEncap(t, hop) ==
  LET target == EncapTarget(boxes[arg[t].from], hop) IN
  /\ pc[t] = "t_encap"
  /\ IF target.ip = Self
     THEN Goto(t, "t_loop", [arg[t] EXCEPT !.vni = target.vni,
                                           !.mac = target.ether])
     ELSE Return(t)
  /\ UNCHANGED <<mapVars, attached, underlay, handles, lockVars, boxes>>

(* Mutant: the list is searched by MAC address only.                       *)
ReceiverByMac(pkt) == {name \in Devs : boxes[name].cfg.mac = pkt.mac}

(* The devices of the list with the packet's VNI and inner destination.    *)
Receiver(pkt) == {name \in Devs : /\ boxes[name].cfg.vni = pkt.vni
                                  /\ boxes[name].cfg.mac = pkt.mac}

(* Port::process() of the receiver passes an inbound packet: the port must *)
(* be running, and the gateway layer wants the guest's own address.        *)
Accepts(name, pkt) ==
  boxes[name].running /\ pkt.dst \in Ips(boxes[name].cfg)

(* guest_loopback() and xde_rx(): find the receiver under the read lock,   *)
(* process, and hand the packet to mac with the lock held.                 *)
Receive(t, pkt) ==
  /\ writer = None
  /\ \E name \in Receiver(pkt) :
       /\ Accepts(name, pkt)
       /\ Goto(t, "deliver", [pkt EXCEPT !.to = name])
  /\ readers' = readers \cup {t}
  /\ UNCHANGED <<mapVars, attached, underlay, handles, mutex, writer, boxes>>

TxLoopback(t) == pc[t] = "t_loop" /\ Receive(t, arg[t])

(* A layer of the sender denies the packet, or there is no receiver, or    *)
(* the receiver drops it, for these reasons or for those of its firewall.  *)
TxDrop(t) ==
  /\ pc[t] = "t_encap" \/ (pc[t] = "t_loop" /\ writer = None)
  /\ Return(t)
  /\ UNCHANGED <<mapVars, attached, underlay, handles, lockVars, boxes>>

(* A peer's packet comes in on an underlay port with a callback.           *)
Rx(t, dst, vni, mac) ==
  /\ pc[t] = "idle" /\ handles \cap {"u1mph", "u2mph"} # {}
  /\ Receive(t, [from |-> Remote, to |-> None, src |-> Internet, dst |-> dst,
                 meta |-> vni, vni |-> vni, mac |-> mac])

Delivered(t) ==
  /\ pc[t] = "deliver"
  /\ Return(t) /\ Unlock(t)
  /\ UNCHANGED <<mapVars, attached, underlay, handles, boxes>>

-----------------------------------------------------------------------------
(* xde_detach(): refused while there are devices.  The state goes, and the *)
(* underlay's resources with it.  The system detaches a driver that no     *)
(* thread is in.                                                           *)
Detach ==
  /\ attached /\ Devs = {}
  /\ \A t \in Threads : pc[t] = "idle"
  /\ attached' = FALSE
  /\ handles' = IF underlay THEN {} ELSE handles
  /\ underlay' = FALSE
  /\ byVni' = [vni \in Vnis |-> 0] /\ v2ps' = <<>>
  /\ UNCHANGED <<lockVars, boxes, pc, arg>>

(* xde_attach(): a new state, with nothing in it.                          *)
Attach ==
  /\ ~attached /\ attached' = TRUE
  /\ UNCHANGED <<mapVars, underlay, handles, lockVars, boxes, pc, arg>>

Next ==
  \/ \E t \in Threads :
       \/ SetUnderlay(t) \/ OpenNext(t) \/ CloseNext(t) \/ SetUnderlayEnd(t)
       \/ \E cfg \in Configs : CreateXde(t, cfg)
       \/ CreateCheck(t) \/ CreateRefused(t) \/ CreateMap(t) \/ CreatePort(t)
       \/ CreateRegister(t) \/ CreateDevnet(t) \/ CreateFails(t) \/ CreatePush(t)
       \/ \E name \in Names : DeleteXde(t, name)
       \/ DeleteDevnet(t) \/ DeleteUnregister(t) \/ DeleteFails(t)
       \/ DeleteMap(t) \/ DeleteRemove(t)
       \/ \E name \in Names, src \in Vips, dst \in Vips \cup {Internet} :
            TxGateway(t, name, src, dst)
       \/ \E hop \in Vips \cup {Internet} : TxEncap(t, hop)
       \/ TxLoopback(t) \/ TxDrop(t) \/ Delivered(t)
       \/ \E dst \in Vips, vni \in Vnis, mac \in Macs : Rx(t, dst, vni, mac)
  \/ \E push \in Pushes : SetV2p(push)
  \/ \E name \in Names : McStart(name) \/ McStop(name)
  \/ Detach \/ Attach

Spec == Init /\ [][Next]_vars

-----------------------------------------------------------------------------
(* Whoever gets a lock of the device list sees a settled list: every       *)
(* device that exists is in it, so that xde_detach(), which looks at the   *)
(* length of the list, never frees an underlay that a device refers to.    *)
LiveIsListed == writer = None => Live \subseteq Devs

(* No two devices of the list have a name in common, or a VNI and a MAC    *)
(* address: packets and requests find one device, in every interleaving of *)
(* creations, failures and deletions.                                      *)
DevicesDistinct ==
  \A m, n \in Devs : m # n =>
    <<boxes[m].cfg.vni, boxes[m].cfg.mac>> # <<boxes[n].cfg.vni, boxes[n].cfg.mac>>

(* The object a port's overlay layer encapsulates with is the one its VPC  *)
(* has now, whatever was created and deleted since: mappings the control   *)
(* plane sets reach it.                                                    *)
PortsShareMappings == \A name \in Live : boxes[name].v2p = byVni[boxes[name].cfg.vni]

(* A device's addresses are mapped in its VPC as long as it is in a list   *)
(* that nobody is changing, whatever other devices come and go.            *)
ListedIsMapped ==
  writer = None => \A name \in Devs : \A vip \in Ips(boxes[name].cfg) :
                     Lookup(boxes[name].v2p, vip) # NoPhys

(* A packet is handed only to the guest of its VPC that owns its           *)
(* destination, and one from a guest of this host comes from an address of *)
(* a guest of the same VPC; the receiver's mac handle is registered.       *)
DeliveredHome ==
  \A t \in Threads : pc[t] = "deliver" =>
    LET pkt == arg[t] IN
    /\ pkt.to \in Devs /\ boxes[pkt.to].mac
    /\ boxes[pkt.to].cfg.vni = pkt.vni
    /\ pkt.dst \in Ips(boxes[pkt.to].cfg)
    /\ pkt.from # Remote => /\ pkt.from \in Live
                            /\ boxes[pkt.from].cfg.vni = boxes[pkt.to].cfg.vni
                            /\ pkt.src \in Ips(boxes[pkt.from].cfg)

(* An attempt at the underlay that fails, at whatever step, leaves no      *)
(* callback and no mac client behind.                                      *)
FailedUnderlayIsQuiet ==
  (~underlay /\ mutex = None) =>
    handles \cap {"u1mch", "u2mch", "u1mph", "u2mph"} = {}

(* overlay.rs, ip_to_vni(): the VNI noted for a destination that the VPC   *)
(* of the port has a mapping for is the VNI of that VPC.                   *)
MetaIsOwnVni ==
  [][\A t \in Threads :
       LET pkt == arg'[t] IN
       (pc[t] = "idle" /\ pc'[t] = "t_encap" /\ pkt.dst # Internet) =>
         LET box == boxes[pkt.from] IN
         Lookup(box.v2p, pkt.dst) # NoPhys => pkt.meta = box.cfg.vni]_vars
=============================================================================

----------------------------- MODULE Xde_proofs -----------------------------
(***************************************************************************)
(* Proofs about Xde for every set of threads, requests, addresses and      *)
(* hosts: the list of devices is settled whenever it is not locked for     *)
(* writing, its devices are distinct, and packets are delivered home.      *)
(*                                                                         *)
(* The argument is about the write lock.  A device exists outside the list *)
(* only while the thread that makes it holds the lock, and that thread saw *)
(* under the same lock that no device has its name, or its VNI and MAC     *)
(* address.  A packet is delivered under the read lock, so no device goes  *)
(* away meanwhile, and its sender stays because a device that runs cannot  *)
(* be unregistered.  What the underlay leaves behind when its set-up fails *)
(* and the mappings that devices share are the subject of the two parts    *)
(* that follow, each with an invariant of its own.                         *)
(***************************************************************************)
EXTENDS Xde, TLAPS

CreateMade == {"c_reg", "c_dls", "c_push"}
CreateAt == CreateMade \cup {"c_map"}
DeleteAt == {"d_dls", "d_unreg", "d_map"}
SendAt == {"t_encap", "t_loop", "deliver"}

(* A thread's request, as far as it is one.                                *)
IsRequest(r) == r.cfg \in Configs

(* A device has the fields of one, and the name it is known by.            *)
IsBox(b, name) ==
  /\ b = [cfg |-> b.cfg, v2p |-> b.v2p, mac |-> b.mac, devnet |-> b.devnet,
          listed |-> b.listed, running |-> b.running]
  /\ b # NoBox
  /\ b.cfg \in Configs /\ b.cfg.name = name
  /\ b.mac \in BOOLEAN /\ b.devnet \in BOOLEAN
  /\ b.listed \in BOOLEAN /\ b.running \in BOOLEAN

IsPacket(p) ==
  /\ p = [from |-> p.from, to |-> p.to, src |-> p.src, dst |-> p.dst,
          meta |-> p.meta, vni |-> p.vni, mac |-> p.mac]
  /\ p.from \in Names \cup {Remote}

Boxes ==
  /\ boxes = [name \in Names |-> boxes[name]]
  /\ \A name \in Live : IsBox(boxes[name], name)

Locals ==
  /\ pc = [t \in Threads |-> pc[t]]
  /\ arg = [t \in Threads |-> arg[t]]
  /\ \A t \in Threads :
       /\ pc[t] \in CreateAt \cup DeleteAt \cup {"c_check"} =>
            /\ arg[t] = [cfg |-> arg[t].cfg, todo |-> arg[t].todo]
            /\ arg[t].cfg \in Configs
       /\ pc[t] \in SendAt => IsPacket(arg[t])

(* Who holds the lock of the device list.                                  *)
Locks ==
  /\ writer # None => readers = {}
  /\ \A t \in Threads :
       /\ pc[t] \in CreateAt \cup DeleteAt => writer = t
       /\ pc[t] = "deliver" => t \in readers

(* What the thread with the write lock knows of its device.                *)
Knows(t) ==
  LET cfg == arg[t].cfg  box == boxes[arg[t].cfg.name] IN
  /\ pc[t] \in CreateAt => ~IsTaken(cfg)
  /\ pc[t] = "c_map" => box = NoBox
  /\ pc[t] \in CreateMade => box # NoBox /\ box.cfg = cfg
  /\ pc[t] \in {"c_reg", "c_dls"} => ~box.devnet /\ ~box.running
  /\ pc[t] \in {"c_dls", "c_push"} => box.mac
  /\ pc[t] \in DeleteAt => box # NoBox /\ box.listed /\ box.cfg = cfg
  /\ pc[t] \in {"d_unreg", "d_map"} => ~box.devnet
  /\ pc[t] = "d_map" => ~box.running

(* A device is outside the list only while it is made, and without a mac   *)
(* handle in the list only while it is deleted.                            *)
Settled ==
  \A name \in Live :
    /\ \/ boxes[name].listed
       \/ \E t \in Threads : pc[t] \in CreateMade /\ arg[t].cfg.name = name
    /\ \/ ~boxes[name].listed \/ boxes[name].mac
       \/ \E t \in Threads : pc[t] = "d_map" /\ arg[t].cfg.name = name

(* The sender of a packet under way is still there, and running.           *)
Sent(t) ==
  LET p == arg[t]  box == boxes[arg[t].from] IN
  (pc[t] \in SendAt /\ p.from # Remote) =>
    /\ box # NoBox /\ box.running /\ p.src \in Ips(box.cfg)
    /\ pc[t] \in {"t_loop", "deliver"} => p.vni = box.cfg.vni

(* The receiver of a packet that is being delivered.                       *)
Received(t) ==
  LET p == arg[t]  box == boxes[arg[t].to] IN
  pc[t] = "deliver" =>
    /\ p.to \in Names /\ box # NoBox /\ box.listed
    /\ box.cfg.vni = p.vni /\ p.dst \in Ips(box.cfg)

IInv ==
  /\ Boxes /\ Locals /\ Locks /\ Settled /\ DevicesDistinct
  /\ \A t \in Threads : Knows(t) /\ Sent(t) /\ Received(t)

-----------------------------------------------------------------------------
(* What a step of one thread does to the program counters and locals.      *)
LEMMA GotoEffect ==
  ASSUME NEW t \in Threads, NEW label, NEW locals,
         pc = [u \in Threads |-> pc[u]], arg = [u \in Threads |-> arg[u]],
         Goto(t, label, locals)
  PROVE  /\ pc' = [u \in Threads |-> pc'[u]] /\ arg' = [u \in Threads |-> arg'[u]]
         /\ pc'[t] = label /\ arg'[t] = locals
         /\ \A u \in Threads \ {t} : pc'[u] = pc[u] /\ arg'[u] = arg[u]
  BY DEF Goto

(* A step that leaves the devices and the locks alone, in which a thread   *)
(* that is in no critical section moves to another place outside of them.  *)
LEMMA OutsideStep ==
  ASSUME IInv, NEW t \in Threads, NEW label, NEW locals, Goto(t, label, locals),
         pc[t] \notin CreateAt \cup DeleteAt \cup SendAt,
         label \notin CreateAt \cup DeleteAt \cup SendAt,
         label = "c_check" =>
           /\ locals = [cfg |-> locals.cfg, todo |-> locals.todo]
           /\ locals.cfg \in Configs,
         boxes' = boxes,
         writer' = writer \/ writer' = Free(writer, t),
         readers' \in {readers, readers \ {t}}
  PROVE  IInv'
<1>1. /\ pc' = [u \in Threads |-> pc'[u]] /\ arg' = [u \in Threads |-> arg'[u]]
      /\ pc'[t] = label /\ arg'[t] = locals
      /\ \A u \in Threads \ {t} : pc'[u] = pc[u] /\ arg'[u] = arg[u]
  BY GotoEffect DEF IInv, Locals
<1>2. Boxes' /\ DevicesDistinct' /\ Live' = Live /\ Devs' = Devs
  BY DEF IInv, Boxes, DevicesDistinct, Live, Devs
<1>3. Locals'
  BY <1>1 DEF IInv, Locals, IsPacket
<1>4. Locks'
  BY <1>1, ThreadsAssumption DEF IInv, Locks, Free, CreateAt, CreateMade, DeleteAt, SendAt
<1>5. Settled'
  BY <1>1, <1>2 DEF IInv, Settled, CreateAt, CreateMade, DeleteAt
<1>6. \A u \in Threads : Knows(u)'
  BY <1>1, <1>2 DEF IInv, Knows, IsTaken, CreateAt, CreateMade, DeleteAt
<1>7. \A u \in Threads : Sent(u)' /\ Received(u)'
  BY <1>1, <1>2 DEF IInv, Sent, Received, SendAt
<1> QED
  BY <1>2, <1>3, <1>4, <1>5, <1>6, <1>7 DEF IInv

-----------------------------------------------------------------------------
LEMMA InitIInv == Init => IInv
  BY DEF Init, IInv, Boxes, Locals, Locks, Settled, DevicesDistinct, Knows, Sent,
         Received, Live, Devs, CreateAt, CreateMade, DeleteAt, SendAt

(* Setting up the underlay is outside of every critical section.           *)
LEMMA UnderlaySteps ==
  ASSUME IInv, NEW t \in Threads,
         \/ SetUnderlay(t) \/ OpenNext(t) \/ CloseNext(t) \/ SetUnderlayEnd(t)
  PROVE  IInv'
<1>1. PICK label \in {"idle", "setup", "unwind"} :
        /\ \E locals : Goto(t, label, locals)
        /\ pc[t] \in {"idle", "setup", "unwind"}
        /\ boxes' = boxes
        /\ writer' = writer \/ writer' = Free(writer, t)
        /\ readers' \in {readers, readers \ {t}}
  BY DEF SetUnderlay, OpenNext, CloseNext, SetUnderlayEnd, Return, Unlock, lockVars
<1>2. PICK locals : Goto(t, label, locals)
  BY <1>1
<1> QED
  BY <1>1, <1>2, OutsideStep DEF CreateAt, CreateMade, DeleteAt, SendAt

(* So is a creation that waits for the list or is refused.                 *)
LEMMA CreateOutside ==
  ASSUME IInv, NEW t \in Threads,
         (\E cfg \in Configs : CreateXde(t, cfg)) \/ CreateRefused(t)
  PROVE  IInv'
<1>1. CASE \E cfg \in Configs : CreateXde(t, cfg)
  <2>1. PICK cfg \in Configs : CreateXde(t, cfg)
    BY <1>1
  <2> DEFINE locals == [cfg |-> cfg, todo |-> cfg.ips]
  <2>2. /\ Goto(t, "c_check", locals) /\ pc[t] = "idle"
        /\ boxes' = boxes /\ writer' = writer /\ readers' = readers
    BY <2>1 DEF CreateXde
  <2>3. locals = [cfg |-> locals.cfg, todo |-> locals.todo] /\ locals.cfg \in Configs
    OBVIOUS
  <2> HIDE DEF locals
  <2> QED
    BY <2>2, <2>3, OutsideStep DEF CreateAt, CreateMade, DeleteAt, SendAt
<1>2. CASE CreateRefused(t)
  <2>1. /\ Goto(t, "idle", None) /\ pc[t] = "c_check"
        /\ boxes' = boxes /\ writer' = Free(writer, t) /\ readers' = readers \ {t}
    BY <1>2 DEF CreateRefused, Return, Unlock
  <2> QED
    BY <2>1, OutsideStep DEF CreateAt, CreateMade, DeleteAt, SendAt
<1> QED
  BY <1>1, <1>2

-----------------------------------------------------------------------------
(* A step under the write lock, or one that takes or releases it: nobody   *)
(* else is in a critical section, so what it does to the devices concerns  *)
(* the thread itself and, if it touches a device that runs, senders.       *)
LEMMA InsideStep ==
  ASSUME IInv, NEW t \in Threads, NEW label, NEW locals, Goto(t, label, locals),
         pc[t] \notin SendAt,
         label \in CreateAt \cup DeleteAt \cup {"idle"},
         writer = t \/ (writer = None /\ readers = {}),
         label # "idle" =>
           /\ writer' = t /\ readers' = readers
           /\ locals = [cfg |-> locals.cfg, todo |-> locals.todo]
           /\ locals.cfg \in Configs,
         label = "idle" => writer' = None /\ readers' = readers \ {t},
         Boxes', Settled', DevicesDistinct', Knows(t)',
         \A name \in Names : (boxes[name] # NoBox /\ boxes[name].running) =>
           /\ boxes'[name] # NoBox /\ boxes'[name].running
           /\ boxes'[name].cfg = boxes[name].cfg
  PROVE  IInv'
<1>1. /\ pc' = [u \in Threads |-> pc'[u]] /\ arg' = [u \in Threads |-> arg'[u]]
      /\ pc'[t] = label /\ arg'[t] = locals
      /\ \A u \in Threads \ {t} : pc'[u] = pc[u] /\ arg'[u] = arg[u]
  BY GotoEffect DEF IInv, Locals
<1>2. readers = {} /\ \A u \in Threads \ {t} :
        pc[u] \notin CreateAt \cup DeleteAt /\ pc[u] # "deliver"
  BY ThreadsAssumption DEF IInv, Locks
<1>3. Locals'
  BY <1>1 DEF IInv, Locals, IsPacket, CreateAt, CreateMade, DeleteAt, SendAt
<1>4. Locks'
  BY <1>1, <1>2, ThreadsAssumption DEF IInv, Locks, CreateAt, CreateMade, DeleteAt, SendAt
<1>5. \A u \in Threads : Knows(u)'
  <2> SUFFICES ASSUME NEW u \in Threads, u # t PROVE Knows(u)'
    OBVIOUS
  <2>1. pc'[u] \notin CreateAt \cup DeleteAt
    BY <1>1, <1>2
  <2> QED
    BY <2>1 DEF Knows, CreateAt, CreateMade, DeleteAt
<1>6. \A u \in Threads : Sent(u)'
  <2> SUFFICES ASSUME NEW u \in Threads PROVE Sent(u)'
    OBVIOUS
  <2>1. CASE u = t
    BY <1>1, <2>1 DEF Sent, CreateAt, CreateMade, DeleteAt, SendAt
  <2>2. CASE u # t
    <3>1. Sent(u) /\ pc'[u] = pc[u] /\ arg'[u] = arg[u]
      BY <1>1, <2>2 DEF IInv
    <3>2. pc[u] \in SendAt /\ arg[u].from # Remote => arg[u].from \in Names
      BY DEF IInv, Locals, IsPacket
    <3> QED
      BY <3>1, <3>2 DEF Sent
  <2> QED
    BY <2>1, <2>2
<1>7. \A u \in Threads : Received(u)'
  BY <1>1, <1>2 DEF Received, CreateAt, CreateMade, DeleteAt, SendAt
<1> QED
  BY <1>3, <1>4, <1>5, <1>6, <1>7 DEF IInv

(* While a thread has the write lock, or takes it, every device but its    *)
(* own is in the list and registered.                                      *)
LEMMA OthersAreListed ==
  ASSUME IInv, NEW t \in Threads, writer = t \/ (writer = None /\ readers = {}),
         NEW name \in Live,
         pc[t] \in CreateMade \cup {"d_map"} => arg[t].cfg.name # name
  PROVE  boxes[name].listed /\ boxes[name].mac
<1>1. \A u \in Threads \ {t} : pc[u] \notin CreateAt \cup DeleteAt
  BY ThreadsAssumption DEF IInv, Locks
<1> QED
  BY <1>1 DEF IInv, Settled, CreateAt, DeleteAt

-----------------------------------------------------------------------------
(* The check of a new device's name, VNI and MAC address: what it excludes *)
(* in the list it excludes altogether.                                     *)
LEMMA CreateChecked ==
  ASSUME IInv, NEW t \in Threads, CreateCheck(t)
  PROVE  IInv'
<1>1. /\ Goto(t, "c_map", arg[t]) /\ pc[t] = "c_check"
      /\ writer = None /\ readers = {} /\ writer' = t /\ readers' = readers
      /\ boxes' = boxes /\ ~IsTaken(arg[t].cfg)
  BY DEF CreateCheck, WriteLock
<1>2. /\ arg[t] = [cfg |-> arg[t].cfg, todo |-> arg[t].todo]
      /\ arg[t].cfg \in Configs /\ arg[t].cfg.name \in Names
  BY <1>1 DEF IInv, Locals, Names
<1>3. boxes[arg[t].cfg.name] = NoBox
  BY <1>1, <1>2, OthersAreListed DEF IsTaken, Devs, Live, CreateMade
<1>4. pc'[t] = "c_map" /\ arg'[t] = arg[t]
      /\ \A u \in Threads \ {t} : pc'[u] = pc[u] /\ arg'[u] = arg[u]
  BY <1>1, GotoEffect DEF IInv, Locals
<1>5. Boxes' /\ DevicesDistinct' /\ Live' = Live /\ Devs' = Devs
  BY <1>1 DEF IInv, Boxes, DevicesDistinct, Live, Devs
<1>6. Settled'
  BY <1>1, <1>4, <1>5 DEF IInv, Settled, CreateMade
<1>7. Knows(t)'
  BY <1>1, <1>3, <1>4, <1>5 DEF Knows, IsTaken, CreateAt, CreateMade, DeleteAt
<1> QED
  BY <1>1, <1>2, <1>5, <1>6, <1>7, InsideStep DEF CreateAt, SendAt

(* The mappings are made while the thread's device does not exist, and     *)
(* removed when it is about to go: the devices do not change.              *)
LEMMA MappingSteps ==
  ASSUME IInv, NEW t \in Threads, CreateMap(t) \/ DeleteMap(t)
  PROVE  IInv'
<1> DEFINE rest == Tail(arg[t].todo)  locals == [arg[t] EXCEPT !.todo = rest]
<1>1. PICK label \in {"c_map", "d_map"} :
        /\ pc[t] = label
        /\ Goto(t, label, locals)
        /\ boxes' = boxes /\ writer' = writer /\ readers' = readers
  BY DEF CreateMap, DeleteMap, lockVars
<1>2. /\ arg[t] = [cfg |-> arg[t].cfg, todo |-> arg[t].todo]
      /\ arg[t].cfg \in Configs
  BY <1>1 DEF IInv, Locals, CreateAt, DeleteAt
<1> HIDE DEF rest
<1>3. /\ locals = [cfg |-> locals.cfg, todo |-> locals.todo]
      /\ locals.cfg = arg[t].cfg
  BY <1>2
<1> HIDE DEF locals
<1>4. /\ Goto(t, label, locals) /\ pc'[t] = label /\ arg'[t] = locals
      /\ \A u \in Threads \ {t} : pc'[u] = pc[u] /\ arg'[u] = arg[u]
  BY <1>1, GotoEffect DEF IInv, Locals
<1>5. writer = t
  BY <1>1 DEF IInv, Locks, CreateAt, DeleteAt
<1>6. Boxes' /\ DevicesDistinct' /\ Live' = Live /\ Devs' = Devs
  BY <1>1 DEF IInv, Boxes, DevicesDistinct, Live, Devs
<1>7. Settled'
  BY <1>1, <1>3, <1>4, <1>6 DEF IInv, Settled, CreateMade
<1>8. Knows(t)'
  BY <1>1, <1>3, <1>4, <1>6 DEF IInv, Knows, IsTaken, CreateAt, CreateMade, DeleteAt
<1> QED
  BY <1>1, <1>2, <1>3, <1>4, <1>5, <1>6, <1>7, <1>8, InsideStep
     DEF CreateAt, DeleteAt, SendAt

(* A thread under the write lock writes its own device.                    *)
Writes(t, label, box) ==
  /\ pc[t] \in CreateAt \cup DeleteAt
  /\ boxes' = [boxes EXCEPT ![arg[t].cfg.name] = box]
  /\ \/ /\ label \in CreateAt \cup DeleteAt /\ Goto(t, label, arg[t])
        /\ writer' = writer /\ readers' = readers
     \/ /\ label = "idle" /\ Return(t)
        /\ writer' = Free(writer, t) /\ readers' = readers \ {t}

(* It may write that: the device has its name and configuration, is listed *)
(* only if nothing else has them, is not taken from under a sender, and is *)
(* as the next label wants it.                                             *)
MayWrite(t, label, box) ==
  LET cfg == arg[t].cfg  old == boxes[arg[t].cfg.name] IN
  /\ box # NoBox =>
       /\ IsBox(box, cfg.name) /\ box.cfg = cfg
       /\ box.listed \/ label \in CreateMade
       /\ ~box.listed \/ box.mac \/ label = "d_map"
       /\ ~box.listed \/ ~IsTaken(cfg) \/ (old # NoBox /\ old.listed)
  /\ (old # NoBox /\ old.running) => box # NoBox /\ box.running
  /\ label \in CreateAt => ~IsTaken(cfg) /\ (box # NoBox => ~box.listed)
  /\ label = "c_map" => box = NoBox
  /\ label \in CreateMade => box # NoBox
  /\ label \in {"c_reg", "c_dls"} => ~box.devnet /\ ~box.running
  /\ label \in {"c_dls", "c_push"} => box.mac
  /\ label \in DeleteAt => box # NoBox /\ box.listed
  /\ label \in {"d_unreg", "d_map"} => ~box.devnet
  /\ label = "d_map" => ~box.running

LEMMA OwnDeviceStep ==
  ASSUME IInv, NEW t \in Threads, NEW label, NEW box,
         Writes(t, label, box), MayWrite(t, label, box)
  PROVE  IInv'
<1> USE DEF Writes, MayWrite
<1> DEFINE name == arg[t].cfg.name
           locals == IF label = "idle" THEN None ELSE arg[t]
<1>1. /\ arg[t] = [cfg |-> arg[t].cfg, todo |-> arg[t].todo]
      /\ arg[t].cfg \in Configs /\ name \in Names
  BY DEF IInv, Locals, Names
<1>2. writer = t /\ readers = {}
  BY ThreadsAssumption DEF IInv, Locks
<1>3. \A n \in Names \ {name} : boxes'[n] = boxes[n]
  BY <1>1 DEF IInv, Boxes
<1>4. boxes'[name] = box /\ boxes' = [n \in Names |-> boxes'[n]]
  BY <1>1 DEF IInv, Boxes
<1>5. Goto(t, label, locals)
  BY DEF Return, CreateAt, CreateMade, DeleteAt
<1>6. /\ pc'[t] = label /\ arg'[t] = locals
      /\ \A u \in Threads \ {t} : pc'[u] = pc[u] /\ arg'[u] = arg[u]
  BY <1>5, GotoEffect DEF IInv, Locals
<1>7. Boxes'
  BY <1>3, <1>4 DEF IInv, Boxes, Live
<1>8. \A n \in Live \ {name} : boxes[n].listed /\ boxes[n].mac
  BY <1>2, OthersAreListed
<1>9. Settled'
  <2> SUFFICES ASSUME NEW n \in Live'
               PROVE  /\ \/ boxes'[n].listed
                         \/ \E u \in Threads : pc'[u] \in CreateMade /\ arg'[u].cfg.name = n
                      /\ \/ ~boxes'[n].listed \/ boxes'[n].mac
                         \/ \E u \in Threads : pc'[u] = "d_map" /\ arg'[u].cfg.name = n
    BY DEF Settled
  <2>1. CASE n = name
    BY <1>4, <1>6, <2>1 DEF Live, CreateMade
  <2>2. CASE n # name
    BY <1>3, <1>8, <2>2 DEF Live
  <2> QED
    BY <2>1, <2>2
<1>10. DevicesDistinct'
  <2>1. \A n \in Devs' \ {name} : n \in Devs /\ boxes'[n].cfg = boxes[n].cfg
    BY <1>3 DEF Devs, Live
  <2>2. ASSUME name \in Devs', NEW n \in Devs', n # name
        PROVE  <<boxes'[n].cfg.vni, boxes'[n].cfg.mac>> # <<box.cfg.vni, box.cfg.mac>>
    <3>1. box # NoBox /\ box.listed /\ box.cfg = arg[t].cfg
      BY <1>4, <2>2 DEF Devs, Live
    <3>2. CASE ~IsTaken(arg[t].cfg)
      BY <2>1, <2>2, <3>1, <3>2 DEF IsTaken
    <3>3. CASE boxes[name] # NoBox /\ boxes[name].listed
      <4>1. name \in Devs
        BY <1>1, <3>3 DEF Devs, Live
      <4>2. boxes[name].cfg = arg[t].cfg
        BY <3>3 DEF IInv, Knows, CreateAt, CreateMade, DeleteAt
      <4> QED
        BY <2>1, <2>2, <3>1, <4>1, <4>2 DEF IInv, DevicesDistinct
    <3> QED
      BY <3>1, <3>2, <3>3
  <2> QED
    BY <1>4, <2>1, <2>2 DEF IInv, DevicesDistinct
<1>11. Knows(t)'
  <2>1. label # "idle" => arg'[t] = arg[t]
    BY <1>6
  <2>2. label \in CreateAt => ~IsTaken(arg[t].cfg)'
    BY <1>1, <1>3, <1>4, <2>1 DEF IsTaken, Devs, Live, CreateAt, CreateMade
  <2> QED
    BY <1>4, <1>6, <2>1, <2>2 DEF Knows, CreateAt, CreateMade, DeleteAt
<1>12. \A n \in Names : (boxes[n] # NoBox /\ boxes[n].running) =>
         /\ boxes'[n] # NoBox /\ boxes'[n].running
         /\ boxes'[n].cfg = boxes[n].cfg
  <2>1. boxes[name] # NoBox => boxes[name].cfg = arg[t].cfg
    BY DEF IInv, Knows, CreateAt, CreateMade, DeleteAt
  <2> QED
    BY <1>3, <1>4, <2>1
<1>13. /\ label \in CreateAt \cup DeleteAt \cup {"idle"} /\ pc[t] \notin SendAt
       /\ label # "idle" =>
            /\ writer' = t /\ readers' = readers
            /\ locals = [cfg |-> locals.cfg, todo |-> locals.todo]
            /\ locals.cfg \in Configs
       /\ label = "idle" => writer' = None /\ readers' = readers \ {t}
  BY <1>1, <1>2 DEF Free, CreateAt, CreateMade, DeleteAt, SendAt
<1> HIDE DEF locals, name
<1> QED
  BY <1>2, <1>5, <1>7, <1>9, <1>10, <1>11, <1>12, <1>13, InsideStep

-----------------------------------------------------------------------------
(* A record with the fields of a device is one, and writing a field of a   *)
(* device leaves the others.                                               *)
LEMMA RecordIsBox ==
  ASSUME NEW name, NEW cfg \in Configs, cfg.name = name, NEW v2p,
         NEW mac \in BOOLEAN, NEW devnet \in BOOLEAN, NEW listed \in BOOLEAN,
         NEW running \in BOOLEAN
  PROVE  IsBox([cfg |-> cfg, v2p |-> v2p, mac |-> mac, devnet |-> devnet,
                listed |-> listed, running |-> running], name)
<1> DEFINE b == [cfg |-> cfg, v2p |-> v2p, mac |-> mac, devnet |-> devnet,
                 listed |-> listed, running |-> running]
<1>1. "v2p" \in DOMAIN b /\ "v2p" \notin DOMAIN NoBox
  BY DEF NoBox
<1>2. b # NoBox
  BY <1>1
<1> QED
  BY <1>2 DEF IsBox

LEMMA WriteMac ==
  ASSUME NEW name, NEW b, IsBox(b, name), NEW v \in BOOLEAN
  PROVE  LET new == [b EXCEPT !.mac = v] IN
         /\ IsBox(new, name) /\ new.cfg = b.cfg /\ (new.mac <=> v)
         /\ (new.devnet <=> b.devnet) /\ (new.listed <=> b.listed) /\ (new.running <=> b.running)
<1> DEFINE new == [b EXCEPT !.mac = v]
           r == [cfg |-> b.cfg, v2p |-> b.v2p, mac |-> v, devnet |-> b.devnet,
                 listed |-> b.listed, running |-> b.running]
<1>1. new = r
  BY DEF IsBox
<1>2. IsBox(r, name)
  BY RecordIsBox DEF IsBox
<1> QED
  BY <1>1, <1>2

LEMMA WriteDevnet ==
  ASSUME NEW name, NEW b, IsBox(b, name), NEW v \in BOOLEAN
  PROVE  LET new == [b EXCEPT !.devnet = v] IN
         /\ IsBox(new, name) /\ new.cfg = b.cfg /\ (new.mac <=> b.mac)
         /\ (new.devnet <=> v) /\ (new.listed <=> b.listed) /\ (new.running <=> b.running)
<1> DEFINE new == [b EXCEPT !.devnet = v]
           r == [cfg |-> b.cfg, v2p |-> b.v2p, mac |-> b.mac, devnet |-> v,
                 listed |-> b.listed, running |-> b.running]
<1>1. new = r
  BY DEF IsBox
<1>2. IsBox(r, name)
  BY RecordIsBox DEF IsBox
<1> QED
  BY <1>1, <1>2

LEMMA WriteListed ==
  ASSUME NEW name, NEW b, IsBox(b, name), NEW v \in BOOLEAN
  PROVE  LET new == [b EXCEPT !.listed = v] IN
         /\ IsBox(new, name) /\ new.cfg = b.cfg /\ (new.mac <=> b.mac)
         /\ (new.devnet <=> b.devnet) /\ (new.listed <=> v) /\ (new.running <=> b.running)
<1> DEFINE new == [b EXCEPT !.listed = v]
           r == [cfg |-> b.cfg, v2p |-> b.v2p, mac |-> b.mac, devnet |-> b.devnet,
                 listed |-> v, running |-> b.running]
<1>1. new = r
  BY DEF IsBox
<1>2. IsBox(r, name)
  BY RecordIsBox DEF IsBox
<1> QED
  BY <1>1, <1>2

LEMMA WriteRunning ==
  ASSUME NEW name, NEW b, IsBox(b, name), NEW v \in BOOLEAN
  PROVE  LET new == [b EXCEPT !.running = v] IN
         /\ IsBox(new, name) /\ new.cfg = b.cfg /\ (new.mac <=> b.mac)
         /\ (new.devnet <=> b.devnet) /\ (new.listed <=> b.listed) /\ (new.running <=> v)
<1> DEFINE new == [b EXCEPT !.running = v]
           r == [cfg |-> b.cfg, v2p |-> b.v2p, mac |-> b.mac, devnet |-> b.devnet,
                 listed |-> b.listed, running |-> v]
<1>1. new = r
  BY DEF IsBox
<1>2. IsBox(r, name)
  BY RecordIsBox DEF IsBox
<1> QED
  BY <1>1, <1>2

-----------------------------------------------------------------------------
(* Making the device: it exists but is not listed, under the write lock.   *)
LEMMA CreateSteps ==
  ASSUME IInv, NEW t \in Threads,
         \/ CreatePort(t) \/ CreateRegister(t) \/ CreateDevnet(t)
         \/ CreateFails(t) \/ CreatePush(t)
  PROVE  IInv'
<1> DEFINE cfg == arg[t].cfg  old == boxes[cfg.name]
<1>1. pc[t] \in CreateAt
  BY DEF CreatePort, CreateRegister, CreateDevnet, CreateFails, CreatePush,
         CreateAt, CreateMade
<1>2. cfg \in Configs /\ cfg.name \in Names
  BY <1>1 DEF IInv, Locals, Names
<1>3. ~IsTaken(cfg) /\ (old # NoBox => ~old.listed)
  BY <1>1, <1>2 DEF IInv, Knows, IsTaken, Devs, Live
<1>4. pc[t] \in CreateMade => IsBox(old, cfg.name) /\ old.cfg = cfg
  BY <1>2 DEF IInv, Boxes, Knows, Live
<1>5. pc[t] \in CreateMade => ~old.listed
  BY <1>3, <1>4 DEF IsBox
<1>6. CASE CreatePort(t)
  <2> DEFINE box == [cfg |-> cfg, v2p |-> byVni[cfg.vni], mac |-> FALSE,
                     devnet |-> FALSE, listed |-> FALSE, running |-> FALSE]
  <2>1. IsBox(box, cfg.name) /\ box.cfg = cfg /\ old = NoBox
    BY <1>2, <1>6, RecordIsBox DEF IInv, Knows, CreatePort
  <2>2. ~box.listed /\ ~box.devnet /\ ~box.running
    OBVIOUS
  <2>3. Writes(t, "c_reg", box)
    BY <1>1, <1>6 DEF CreatePort, Writes, CreateAt, CreateMade
  <2> HIDE DEF box
  <2>4. MayWrite(t, "c_reg", box)
    BY <1>3, <2>1, <2>2 DEF MayWrite, CreateAt, CreateMade, DeleteAt, IsBox
  <2> QED
    BY <2>3, <2>4, OwnDeviceStep
<1>7. CASE CreateRegister(t)
  <2> DEFINE box == [old EXCEPT !.mac = TRUE]
  <2>1. Writes(t, "c_dls", box) /\ pc[t] = "c_reg"
    BY <1>1, <1>7 DEF CreateRegister, lockVars, Writes, CreateAt, CreateMade
  <2>2. /\ IsBox(box, cfg.name) /\ box.cfg = cfg /\ box.mac /\ ~box.listed
        /\ ~box.devnet /\ ~box.running /\ ~old.running
    <3>1. /\ IsBox(old, cfg.name) /\ old.cfg = cfg /\ ~old.listed
          /\ ~old.devnet /\ ~old.running
      BY <1>4, <1>5, <2>1 DEF IInv, Knows, CreateMade
    <3> HIDE DEF old, cfg
    <3> QED
      BY <3>1, WriteMac
  <2> HIDE DEF box
  <2>3. MayWrite(t, "c_dls", box)
    BY <1>3, <2>2 DEF MayWrite, CreateAt, CreateMade, DeleteAt, IsBox
  <2> QED
    BY <2>1, <2>3, OwnDeviceStep
<1>8. CASE CreateDevnet(t)
  <2> DEFINE box == [old EXCEPT !.devnet = TRUE]
  <2>1. Writes(t, "c_push", box) /\ pc[t] = "c_dls"
    BY <1>1, <1>8 DEF CreateDevnet, lockVars, Writes, CreateAt, CreateMade
  <2>2. /\ IsBox(box, cfg.name) /\ box.cfg = cfg /\ box.mac /\ ~box.listed
        /\ ~old.running
    <3>1. /\ IsBox(old, cfg.name) /\ old.cfg = cfg /\ ~old.listed
          /\ old.mac /\ ~old.running
      BY <1>4, <1>5, <2>1 DEF IInv, Knows, CreateMade
    <3> HIDE DEF old, cfg
    <3> QED
      BY <3>1, WriteDevnet
  <2> HIDE DEF box
  <2>3. MayWrite(t, "c_push", box)
    BY <1>3, <2>2 DEF MayWrite, CreateAt, CreateMade, DeleteAt, IsBox
  <2> QED
    BY <2>1, <2>3, OwnDeviceStep
<1>9. CASE CreateFails(t)
  <2>1. Writes(t, "idle", NoBox) /\ pc[t] \in {"c_map", "c_reg", "c_dls"}
    BY <1>1, <1>9 DEF CreateFails, Unlock, Writes
  <2>2. ~(old # NoBox /\ old.running)
    BY <2>1 DEF IInv, Knows
  <2>3. MayWrite(t, "idle", NoBox)
    BY <2>2 DEF MayWrite, CreateAt, CreateMade, DeleteAt
  <2> QED
    BY <2>1, <2>3, OwnDeviceStep
<1>10. CASE CreatePush(t)
  <2> DEFINE box == [old EXCEPT !.listed = TRUE]
  <2>1. Writes(t, "idle", box) /\ pc[t] = "c_push"
    BY <1>1, <1>10 DEF CreatePush, Unlock, Writes
  <2>2. /\ IsBox(box, cfg.name) /\ box.cfg = cfg /\ box.mac /\ box.listed
        /\ (box.running <=> old.running)
    <3>1. IsBox(old, cfg.name) /\ old.cfg = cfg /\ old.mac
      BY <1>4, <2>1 DEF IInv, Knows, CreateMade
    <3> HIDE DEF old, cfg
    <3> QED
      BY <3>1, WriteListed
  <2> HIDE DEF box
  <2>3. MayWrite(t, "idle", box)
    BY <1>3, <2>2 DEF MayWrite, CreateAt, CreateMade, DeleteAt, IsBox
  <2> QED
    BY <2>1, <2>3, OwnDeviceStep
<1> QED
  BY <1>6, <1>7, <1>8, <1>9, <1>10

(* Deleting a device begins under the write lock, with one that is listed. *)
LEMMA DeleteBegins ==
  ASSUME IInv, NEW t \in Threads, NEW name \in Names, DeleteXde(t, name)
  PROVE  IInv'
<1> DEFINE locals == [cfg |-> boxes[name].cfg, todo |-> boxes[name].cfg.ips]
<1>1. /\ Goto(t, "d_dls", locals) /\ pc[t] = "idle"
      /\ writer = None /\ readers = {} /\ writer' = t /\ readers' = readers
      /\ boxes' = boxes /\ name \in Devs
  BY DEF DeleteXde, WriteLock
<1>2. /\ locals = [cfg |-> locals.cfg, todo |-> locals.todo]
      /\ locals.cfg = boxes[name].cfg
  OBVIOUS
<1>3. boxes[name].cfg \in Configs /\ boxes[name].cfg.name = name
  BY <1>1 DEF IInv, Boxes, IsBox, Devs
<1> HIDE DEF locals
<1>4. pc'[t] = "d_dls" /\ arg'[t] = locals
      /\ \A u \in Threads \ {t} : pc'[u] = pc[u] /\ arg'[u] = arg[u]
  BY <1>1, GotoEffect DEF IInv, Locals
<1>5. Boxes' /\ DevicesDistinct' /\ Live' = Live /\ Devs' = Devs
  BY <1>1 DEF IInv, Boxes, DevicesDistinct, Live, Devs
<1>6. Settled'
  BY <1>1, <1>4, <1>5 DEF IInv, Settled, CreateMade
<1>7. Knows(t)'
  BY <1>1, <1>2, <1>3, <1>4 DEF Knows, Devs, Live, CreateAt, CreateMade, DeleteAt
<1> QED
  BY <1>1, <1>2, <1>3, <1>5, <1>6, <1>7, InsideStep DEF DeleteAt, SendAt

(* The steps that take it apart, under the same lock.                      *)
LEMMA DeleteSteps ==
  ASSUME IInv, NEW t \in Threads,
         DeleteDevnet(t) \/ DeleteUnregister(t) \/ DeleteFails(t) \/ DeleteRemove(t)
  PROVE  IInv'
<1> DEFINE cfg == arg[t].cfg  old == boxes[cfg.name]
<1>1. pc[t] \in DeleteAt
  BY DEF DeleteDevnet, DeleteUnregister, DeleteFails, DeleteRemove, DeleteAt
<1>2. cfg \in Configs /\ cfg.name \in Names
  BY <1>1 DEF IInv, Locals, Names
<1>3. /\ IsBox(old, cfg.name) /\ old # NoBox /\ old.cfg = cfg /\ old.listed
      /\ pc[t] \in {"d_unreg", "d_map"} => ~old.devnet
      /\ pc[t] = "d_map" => ~old.running
  BY <1>1, <1>2 DEF IInv, Boxes, Knows, Live
<1>4. pc[t] # "d_map" => old.mac
  BY <1>1, <1>2, <1>3, OthersAreListed
     DEF IInv, Locks, Live, CreateMade, DeleteAt
<1>5. CASE DeleteDevnet(t)
  <2> DEFINE box == [old EXCEPT !.devnet = FALSE]
  <2>1. Writes(t, "d_unreg", box) /\ pc[t] = "d_dls"
    BY <1>1, <1>5 DEF DeleteDevnet, lockVars, Writes, DeleteAt
  <2>2. /\ IsBox(box, cfg.name) /\ box.cfg = cfg /\ box.mac /\ box.listed
        /\ ~box.devnet /\ (box.running <=> old.running)
    <3>1. IsBox(old, cfg.name) /\ old.cfg = cfg /\ old.mac /\ old.listed
      BY <1>3, <1>4, <2>1
    <3> HIDE DEF old, cfg
    <3> QED
      BY <3>1, WriteDevnet
  <2> HIDE DEF box
  <2>3. MayWrite(t, "d_unreg", box)
    BY <1>3, <2>2 DEF MayWrite, CreateAt, CreateMade, DeleteAt, IsBox
  <2> QED
    BY <2>1, <2>3, OwnDeviceStep
<1>6. CASE DeleteUnregister(t)
  <2> DEFINE box == [old EXCEPT !.mac = FALSE]
  <2>1. Writes(t, "d_map", box) /\ pc[t] = "d_unreg" /\ ~old.running
    BY <1>1, <1>6 DEF DeleteUnregister, lockVars, Writes, DeleteAt
  <2>2. /\ IsBox(box, cfg.name) /\ box.cfg = cfg /\ box.listed
        /\ ~box.devnet /\ ~box.running
    <3>1. /\ IsBox(old, cfg.name) /\ old.cfg = cfg /\ old.listed
          /\ ~old.devnet /\ ~old.running
      BY <1>3, <2>1
    <3> HIDE DEF old, cfg
    <3> QED
      BY <3>1, WriteMac
  <2> HIDE DEF box
  <2>3. MayWrite(t, "d_map", box)
    BY <1>3, <2>1, <2>2 DEF MayWrite, CreateAt, CreateMade, DeleteAt, IsBox
  <2> QED
    BY <2>1, <2>3, OwnDeviceStep
<1>7. CASE DeleteFails(t)
  <2>1. pc[t] \in {"d_dls", "d_unreg"}
    BY <1>7 DEF DeleteFails
  <2>2. CASE boxes' = boxes
    <3>1. boxes' = [boxes EXCEPT ![cfg.name] = old]
      BY <2>2 DEF IInv, Boxes
    <3>2. Writes(t, "idle", old)
      BY <1>1, <1>7, <3>1 DEF DeleteFails, Unlock, Writes
    <3>3. MayWrite(t, "idle", old)
      BY <1>3, <1>4, <2>1 DEF MayWrite, CreateAt, CreateMade, DeleteAt
    <3> QED
      BY <3>2, <3>3, OwnDeviceStep
  <2>3. CASE boxes' = [boxes EXCEPT ![cfg.name].devnet = TRUE]
    <3> DEFINE box == [old EXCEPT !.devnet = TRUE]
    <3>1. Writes(t, "idle", box)
      BY <1>1, <1>7, <2>3 DEF DeleteFails, Unlock, Writes
    <3>2. /\ IsBox(box, cfg.name) /\ box.cfg = cfg /\ box.mac /\ box.listed
          /\ (box.running <=> old.running)
      <4>1. IsBox(old, cfg.name) /\ old.cfg = cfg /\ old.mac /\ old.listed
        BY <1>3, <1>4, <2>1
      <4> HIDE DEF old, cfg
      <4> QED
        BY <4>1, WriteDevnet
    <3> HIDE DEF box
    <3>3. MayWrite(t, "idle", box)
      BY <1>3, <3>2 DEF MayWrite, CreateAt, CreateMade, DeleteAt, IsBox
    <3> QED
      BY <3>1, <3>3, OwnDeviceStep
  <2> QED
    BY <1>7, <2>2, <2>3 DEF DeleteFails
<1>8. CASE DeleteRemove(t)
  <2>1. Writes(t, "idle", NoBox) /\ pc[t] = "d_map"
    BY <1>1, <1>8 DEF DeleteRemove, Unlock, Writes
  <2>2. MayWrite(t, "idle", NoBox)
    BY <1>3, <2>1 DEF MayWrite, CreateAt, CreateMade, DeleteAt
  <2> QED
    BY <2>1, <2>2, OwnDeviceStep
<1> QED
  BY <1>5, <1>6, <1>7, <1>8

-----------------------------------------------------------------------------
(* A device is opened, or closed when no packet of its guest is under way. *)
LEMMA ClientSteps ==
  ASSUME IInv, NEW name \in Names, McStart(name) \/ McStop(name)
  PROVE  IInv'
<1> DEFINE old == boxes[name]
<1>1. PICK v \in BOOLEAN : boxes' = [boxes EXCEPT ![name] = [old EXCEPT !.running = v]]
  BY DEF McStart, McStop
<1> DEFINE box == [old EXCEPT !.running = v]
<1>2. /\ name \in Live /\ UNCHANGED <<writer, readers, pc, arg>>
  BY DEF McStart, McStop, lockVars
<1>3. /\ IsBox(box, name) /\ box.cfg = old.cfg /\ (box.mac <=> old.mac)
      /\ (box.devnet <=> old.devnet) /\ (box.listed <=> old.listed)
      /\ (box.running <=> v) /\ IsBox(old, name)
  <2>1. IsBox(old, name)
    BY <1>2 DEF IInv, Boxes
  <2> HIDE DEF old
  <2> QED
    BY <2>1, WriteRunning
<1> HIDE DEF box
<1>4. boxes'[name] = box /\ boxes' = [n \in Names |-> boxes'[n]]
      /\ \A n \in Names \ {name} : boxes'[n] = boxes[n]
  BY <1>1 DEF IInv, Boxes, box
<1>5. Live' = Live /\ Devs' = Devs
  BY <1>2, <1>3, <1>4 DEF Live, Devs, IsBox
<1>6. \A n \in Live : boxes'[n].cfg = boxes[n].cfg
                      /\ (boxes'[n].mac <=> boxes[n].mac)
                      /\ (boxes'[n].devnet <=> boxes[n].devnet)
                      /\ (boxes'[n].listed <=> boxes[n].listed)
  BY <1>3, <1>4 DEF Live
<1>7. Boxes'
  BY <1>3, <1>4, <1>5 DEF IInv, Boxes, Live
<1>8. Locals' /\ Locks'
  BY <1>2 DEF IInv, Locals, Locks, IsPacket
<1>9. Settled' /\ DevicesDistinct'
  BY <1>2, <1>5, <1>6 DEF IInv, Settled, DevicesDistinct, Devs
<1>10. \A t \in Threads : Knows(t)'
  <2> SUFFICES ASSUME NEW t \in Threads PROVE Knows(t)'
    OBVIOUS
  <2>1. CASE pc[t] \in CreateAt \cup DeleteAt
    <3>1. arg[t].cfg.name \in Names
      BY <2>1 DEF IInv, Locals, Names
    <3>2. CASE arg[t].cfg.name # name
      BY <1>2, <1>4, <1>5, <1>6, <3>1, <3>2
         DEF IInv, Knows, IsTaken, Devs
    <3>3. CASE arg[t].cfg.name = name
      <4>1. v => pc[t] \notin {"c_reg", "c_dls", "d_unreg", "d_map"}
        BY <1>3, <1>4, <3>3 DEF IInv, Knows, McStart, McStop, IsBox
      <4> QED
        BY <1>2, <1>3, <1>4, <1>5, <1>6, <3>3, <4>1
           DEF IInv, Knows, IsTaken, Devs, Live
    <3> QED
      BY <3>2, <3>3
  <2>2. CASE pc[t] \notin CreateAt \cup DeleteAt
    BY <1>2, <2>2 DEF Knows, CreateAt, CreateMade, DeleteAt
  <2> QED
    BY <2>1, <2>2
<1>11. \A t \in Threads : Sent(t)' /\ Received(t)'
  <2> SUFFICES ASSUME NEW t \in Threads PROVE Sent(t)' /\ Received(t)'
    OBVIOUS
  <2>1. Received(t)'
    <3>1. Received(t) /\ pc'[t] = pc[t] /\ arg'[t] = arg[t]
      BY <1>2 DEF IInv
    <3>2. CASE arg[t].to = name
      BY <1>3, <1>4, <3>1, <3>2 DEF Received, IsBox
    <3>3. CASE arg[t].to # name
      BY <1>4, <3>1, <3>3 DEF Received
    <3> QED
      BY <3>2, <3>3
  <2>2. Sent(t)'
    <3>1. Sent(t) /\ pc'[t] = pc[t] /\ arg'[t] = arg[t]
      BY <1>2 DEF IInv
    <3>2. CASE arg[t].from = name
      <4>1. v \/ pc[t] \notin SendAt
        BY <1>3, <1>4, <3>2 DEF McStart, McStop, Sending, SendAt, IsBox
      <4> QED
        BY <1>3, <1>4, <3>1, <3>2, <4>1 DEF Sent, IsBox, SendAt
    <3>3. CASE arg[t].from # name
      <4>1. pc[t] \in SendAt /\ arg[t].from # Remote => arg[t].from \in Names
        BY DEF IInv, Locals, IsPacket
      <4> QED
        BY <1>4, <3>1, <3>3, <4>1 DEF Sent
    <3> QED
      BY <3>2, <3>3
  <2> QED
    BY <2>1, <2>2
<1> QED
  BY <1>7, <1>8, <1>9, <1>10, <1>11 DEF IInv

-----------------------------------------------------------------------------
(* A step on the way of a packet: devices and the writer stay, and a read  *)
(* lock is taken when nobody writes, or given back.                        *)
LEMMA PacketStep ==
  ASSUME IInv, NEW t \in Threads, NEW label, NEW locals, Goto(t, label, locals),
         boxes' = boxes, writer' = writer,
         pc[t] \in SendAt \cup {"idle"}, label \in SendAt \cup {"idle"},
         \/ readers' = readers /\ label # "deliver"
         \/ readers' = readers \cup {t} /\ writer = None
         \/ readers' = readers \ {t} /\ label # "deliver",
         label \in SendAt => IsPacket(locals),
         Sent(t)', Received(t)'
  PROVE  IInv'
<1>1. /\ pc' = [u \in Threads |-> pc'[u]] /\ arg' = [u \in Threads |-> arg'[u]]
      /\ pc'[t] = label /\ arg'[t] = locals
      /\ \A u \in Threads \ {t} : pc'[u] = pc[u] /\ arg'[u] = arg[u]
  BY GotoEffect DEF IInv, Locals
<1>2. Boxes' /\ DevicesDistinct' /\ Live' = Live /\ Devs' = Devs
  BY DEF IInv, Boxes, DevicesDistinct, Live, Devs
<1>3. Locals'
  BY <1>1 DEF IInv, Locals, IsPacket, CreateAt, CreateMade, DeleteAt, SendAt
<1>4. Locks'
  BY <1>1 DEF IInv, Locks, CreateAt, CreateMade, DeleteAt, SendAt
<1>5. Settled'
  BY <1>1, <1>2 DEF IInv, Settled, CreateMade, SendAt
<1>6. \A u \in Threads : Knows(u)'
  BY <1>1, <1>2 DEF IInv, Knows, IsTaken, CreateAt, CreateMade, DeleteAt, SendAt
<1>7. \A u \in Threads : Sent(u)' /\ Received(u)'
  BY <1>1, <1>2 DEF IInv, Sent, Received
<1> QED
  BY <1>2, <1>3, <1>4, <1>5, <1>6, <1>7 DEF IInv

(* The gateway layer lets only the guest's own addresses through.          *)
LEMMA GatewayStep ==
  ASSUME IInv, NEW t \in Threads, NEW name \in Names, NEW src, NEW dst,
         TxGateway(t, name, src, dst)
  PROVE  IInv'
<1> DEFINE meta == IF dst = Internet THEN Boundary.vni ELSE IpToVni(dst, Boundary.vni)
           pkt == [from |-> name, to |-> None, src |-> src, dst |-> dst, meta |-> meta,
                   vni |-> Boundary.vni, mac |-> Boundary.ether]
<1>1. /\ Goto(t, "t_encap", pkt) /\ pc[t] = "idle" /\ boxes' = boxes
      /\ writer' = writer /\ readers' = readers
      /\ name \in Live /\ boxes[name].running /\ src \in Ips(boxes[name].cfg)
  BY DEF TxGateway, lockVars
<1> HIDE DEF meta
<1>2. IsPacket(pkt) /\ pkt.from = name /\ pkt.src = src
  BY DEF IsPacket
<1> HIDE DEF pkt
<1>3. pc'[t] = "t_encap" /\ arg'[t] = pkt
  BY <1>1, GotoEffect DEF IInv, Locals
<1>4. Sent(t)' /\ Received(t)'
  BY <1>1, <1>2, <1>3 DEF Sent, Received, Live
<1> QED
  BY <1>1, <1>2, <1>4, PacketStep DEF SendAt

(* The overlay layer gives the packet the VNI of the port: its other       *)
(* target, Boundary Services, is another host.                             *)
LEMMA EncapStep ==
  ASSUME IInv, NEW t \in Threads, NEW hop, TxEncap(t, hop)
  PROVE  IInv'
<1> DEFINE box == boxes[arg[t].from]  target == EncapTarget(box, hop)
           pkt == [arg[t] EXCEPT !.vni = target.vni, !.mac = target.ether]
<1>1. /\ pc[t] = "t_encap" /\ boxes' = boxes /\ writer' = writer /\ readers' = readers
      /\ IF target.ip = Self THEN Goto(t, "t_loop", pkt) ELSE Goto(t, "idle", None)
  BY DEF TxEncap, lockVars, Return
<1>2. IsPacket(arg[t]) /\ Sent(t)
  BY <1>1 DEF IInv, Locals, SendAt
<1>3. CASE target.ip = Self
  <2>1. target.vni = box.cfg.vni
    BY <1>3, SelfAssumption DEF EncapTarget
  <2>2. /\ IsPacket(pkt) /\ pkt.from = arg[t].from /\ pkt.src = arg[t].src
        /\ pkt.vni = target.vni
    <3> DEFINE vni == target.vni  ether == target.ether
               half == [arg[t] EXCEPT !.vni = vni]
    <3>1. /\ IsPacket(half) /\ half.from = arg[t].from /\ half.src = arg[t].src
          /\ half.vni = vni
      <4> HIDE DEF vni
      <4> QED
        BY <1>2 DEF IsPacket
    <3>2. pkt = [half EXCEPT !.mac = ether]
      OBVIOUS
    <3> HIDE DEF half, ether, target, pkt
    <3> QED
      BY <3>1, <3>2 DEF IsPacket, vni
  <2> HIDE DEF pkt, target
  <2>3. pc'[t] = "t_loop" /\ arg'[t] = pkt
    BY <1>1, <1>3, GotoEffect DEF IInv, Locals
  <2>4. Sent(t)' /\ Received(t)'
    BY <1>1, <1>2, <2>1, <2>2, <2>3 DEF Sent, Received, SendAt
  <2> QED
    BY <1>1, <1>3, <2>2, <2>4, PacketStep DEF SendAt
<1>4. CASE target.ip # Self
  <2> HIDE DEF target
  <2>1. pc'[t] = "idle"
    BY <1>1, <1>4, GotoEffect DEF IInv, Locals
  <2>2. Sent(t)' /\ Received(t)'
    BY <2>1 DEF Sent, Received, SendAt
  <2> QED
    BY <1>1, <1>4, <2>2, PacketStep DEF SendAt
<1> QED
  BY <1>3, <1>4

(* The receiver of a packet has its VNI, and the packet's destination.     *)
LEMMA ReceiveStep ==
  ASSUME IInv, NEW t \in Threads, NEW pkt, Receive(t, pkt), IsPacket(pkt),
         \/ pc[t] = "idle" /\ pkt.from = Remote
         \/ pc[t] = "t_loop" /\ pkt = arg[t]
  PROVE  IInv'
<1>1. PICK name \in Receiver(pkt) :
        Accepts(name, pkt) /\ Goto(t, "deliver", [pkt EXCEPT !.to = name])
  BY DEF Receive
<1> DEFINE new == [pkt EXCEPT !.to = name]
<1>2. /\ IsPacket(new) /\ new.from = pkt.from /\ new.src = pkt.src
      /\ new.dst = pkt.dst /\ new.vni = pkt.vni /\ new.to = name
  BY DEF IsPacket
<1> HIDE DEF new
<1>3. pc'[t] = "deliver" /\ arg'[t] = new /\ Goto(t, "deliver", new)
  BY <1>1, GotoEffect DEF IInv, Locals, new
<1>4. /\ boxes' = boxes /\ writer' = writer /\ writer = None
      /\ readers' = readers \cup {t}
  BY DEF Receive
<1>5. Sent(t)'
  BY <1>2, <1>3, <1>4 DEF IInv, Sent, SendAt
<1>6. Received(t)'
  BY <1>1, <1>2, <1>3, <1>4 DEF Received, Receiver, Accepts, Devs, Live
<1> QED
  BY <1>2, <1>3, <1>4, <1>5, <1>6, PacketStep DEF SendAt

LEMMA DeliverySteps ==
  ASSUME IInv, NEW t \in Threads,
         \/ TxLoopback(t) \/ TxDrop(t) \/ Delivered(t)
         \/ \E dst \in Vips, vni \in Vnis, mac \in Macs : Rx(t, dst, vni, mac)
  PROVE  IInv'
<1>1. CASE TxLoopback(t)
  BY <1>1, ReceiveStep DEF TxLoopback, IInv, Locals, SendAt
<1>2. CASE \E dst \in Vips, vni \in Vnis, mac \in Macs : Rx(t, dst, vni, mac)
  <2>1. PICK dst \in Vips, vni \in Vnis, mac \in Macs : Rx(t, dst, vni, mac)
    BY <1>2
  <2> DEFINE pkt == [from |-> Remote, to |-> None, src |-> Internet, dst |-> dst,
                     meta |-> vni, vni |-> vni, mac |-> mac]
  <2>2. Receive(t, pkt) /\ pc[t] = "idle"
    BY <2>1 DEF Rx
  <2>3. IsPacket(pkt) /\ pkt.from = Remote
    BY DEF IsPacket
  <2> HIDE DEF pkt
  <2> QED
    BY <2>2, <2>3, ReceiveStep
<1>3. CASE TxDrop(t) \/ Delivered(t)
  <2>1. /\ Goto(t, "idle", None) /\ pc[t] \in SendAt /\ boxes' = boxes
        /\ readers' = readers \/ readers' = readers \ {t}
    BY <1>3 DEF TxDrop, Delivered, Return, Unlock, lockVars, SendAt
  <2>2. writer' = writer
    BY <1>3, ThreadsAssumption DEF TxDrop, Delivered, Unlock, Free, lockVars, IInv, Locks
  <2>3. pc'[t] = "idle"
    BY <2>1, GotoEffect DEF IInv, Locals
  <2>4. Sent(t)' /\ Received(t)'
    BY <2>3 DEF Sent, Received, SendAt
  <2> QED
    BY <2>1, <2>2, <2>4, PacketStep DEF SendAt
<1> QED
  BY <1>1, <1>2, <1>3

-----------------------------------------------------------------------------
(* What is left touches neither the devices, nor the locks of the list, nor *)
(* the threads.                                                            *)
LEMMA OtherSteps ==
  ASSUME IInv, UNCHANGED <<writer, readers, boxes, pc, arg>>
  PROVE  IInv'
  BY DEF IInv, Boxes, Locals, Locks, Settled, DevicesDistinct, Knows, Sent, Received,
         IsTaken, IsPacket, Devs, Live

LEMMA NextIInv == IInv /\ [Next]_vars => IInv'
<1> SUFFICES ASSUME IInv, [Next]_vars PROVE IInv'
  OBVIOUS
<1>1. ASSUME NEW t \in Threads,
             \/ SetUnderlay(t) \/ OpenNext(t) \/ CloseNext(t) \/ SetUnderlayEnd(t)
      PROVE  IInv'
  BY <1>1, UnderlaySteps
<1>2. ASSUME NEW t \in Threads,
             (\E cfg \in Configs : CreateXde(t, cfg)) \/ CreateRefused(t)
      PROVE  IInv'
  BY <1>2, CreateOutside
<1>3. ASSUME NEW t \in Threads, CreateCheck(t)
      PROVE  IInv'
  BY <1>3, CreateChecked
<1>4. ASSUME NEW t \in Threads, CreateMap(t) \/ DeleteMap(t)
      PROVE  IInv'
  BY <1>4, MappingSteps
<1>5. ASSUME NEW t \in Threads,
             \/ CreatePort(t) \/ CreateRegister(t) \/ CreateDevnet(t)
             \/ CreateFails(t) \/ CreatePush(t)
      PROVE  IInv'
  BY <1>5, CreateSteps
<1>6. ASSUME NEW t \in Threads, NEW name \in Names, DeleteXde(t, name)
      PROVE  IInv'
  BY <1>6, DeleteBegins
<1>7. ASSUME NEW t \in Threads,
             DeleteDevnet(t) \/ DeleteUnregister(t) \/ DeleteFails(t) \/ DeleteRemove(t)
      PROVE  IInv'
  BY <1>7, DeleteSteps
<1>8. ASSUME NEW t \in Threads, NEW name \in Names, NEW src, NEW dst,
             TxGateway(t, name, src, dst)
      PROVE  IInv'
  BY <1>8, GatewayStep
<1>9. ASSUME NEW t \in Threads, NEW hop, TxEncap(t, hop)
      PROVE  IInv'
  BY <1>9, EncapStep
<1>10. ASSUME NEW t \in Threads,
              \/ TxLoopback(t) \/ TxDrop(t) \/ Delivered(t)
              \/ \E dst \in Vips, vni \in Vnis, mac \in Macs : Rx(t, dst, vni, mac)
       PROVE  IInv'
  BY <1>10, DeliverySteps
<1>11. ASSUME NEW name \in Names, McStart(name) \/ McStop(name)
       PROVE  IInv'
  BY <1>11, ClientSteps
<1>12. CASE (\E push \in Pushes : SetV2p(push)) \/ Detach \/ Attach \/ UNCHANGED vars
  <2>1. UNCHANGED <<writer, readers, boxes, pc, arg>>
    BY <1>12 DEF SetV2p, Detach, Attach, vars, lockVars
  <2> QED
    BY <2>1, OtherSteps
<1> QED
  BY <1>1, <1>2, <1>3, <1>4, <1>5, <1>6, <1>7, <1>8, <1>9, <1>10, <1>11, <1>12 DEF Next

THEOREM Inductive == Spec => []IInv
  BY InitIInv, NextIInv, PTL DEF Spec

-----------------------------------------------------------------------------
(* When no thread holds the write lock, every device that exists is in the *)
(* list: create_xde() and delete_xde() let go of it only when the device   *)
(* is listed or gone, whichever of their steps fails.                      *)
THEOREM ListIsSettled == Spec => []LiveIsListed
<1>1. IInv => LiveIsListed
  <2> SUFFICES ASSUME IInv, writer = None, NEW name \in Live PROVE name \in Devs
    BY DEF LiveIsListed
  <2>1. \A t \in Threads : pc[t] \notin CreateAt
    BY ThreadsAssumption DEF IInv, Locks
  <2> QED
    BY <2>1 DEF IInv, Settled, CreateAt, Devs
<1> QED
  BY <1>1, Inductive, PTL

(* Two devices of the list never share a VNI and a MAC address.            *)
THEOREM ListIsDistinct == Spec => []DevicesDistinct
<1>1. IInv => DevicesDistinct
  BY DEF IInv
<1> QED
  BY <1>1, Inductive, PTL

(* What is handed to a guest is for that guest, in its VPC, and comes from *)
(* an address of a guest of the same VPC if it comes from this host.       *)
THEOREM PacketsComeHome == Spec => []DeliveredHome
<1>1. IInv => DeliveredHome
  <2> SUFFICES ASSUME IInv, NEW t \in Threads, pc[t] = "deliver"
               PROVE  LET pkt == arg[t] IN
                      /\ pkt.to \in Devs /\ boxes[pkt.to].mac
                      /\ boxes[pkt.to].cfg.vni = pkt.vni
                      /\ pkt.dst \in Ips(boxes[pkt.to].cfg)
                      /\ pkt.from # Remote =>
                           /\ pkt.from \in Live
                           /\ boxes[pkt.from].cfg.vni = boxes[pkt.to].cfg.vni
                           /\ pkt.src \in Ips(boxes[pkt.from].cfg)
    BY DEF DeliveredHome
  <2>1. /\ arg[t].to \in Devs /\ boxes[arg[t].to].cfg.vni = arg[t].vni
        /\ arg[t].dst \in Ips(boxes[arg[t].to].cfg)
    BY DEF IInv, Received, Devs, Live
  <2>2. boxes[arg[t].to].mac
    <3>1. \A u \in Threads : pc[u] # "d_map"
      BY ThreadsAssumption DEF IInv, Locks, DeleteAt
    <3> QED
      BY <2>1, <3>1 DEF IInv, Settled, Devs
  <2>3. arg[t].from # Remote =>
          /\ arg[t].from \in Live /\ boxes[arg[t].from].cfg.vni = arg[t].vni
          /\ arg[t].src \in Ips(boxes[arg[t].from].cfg)
    BY DEF IInv, Sent, Locals, IsPacket, Live, SendAt
  <2> QED
    BY <2>1, <2>2, <2>3
<1> QED
  BY <1>1, Inductive, PTL

-----------------------------------------------------------------------------
(* The underlay.  Its mutex is held by the thread that opens or closes its *)
(* resources, and by a creation until it has its port.  Of what must not   *)
(* be left behind, an attempt that goes on has opened no more than what it *)
(* has been through, and one that failed no more than it will close.       *)
Loud == {"u1mch", "u2mch", "u1mph", "u2mph"}
Resources == {"u1mh", "u2mh"} \cup Loud
Elems(q) == {q[i] : i \in DOMAIN q}

OpenLoud(t) ==
  /\ pc[t] = "setup" =>
       /\ arg[t] = [open |-> arg[t].open, todo |-> arg[t].todo]
       /\ arg[t].open \in 0..6
       /\ handles \cap Loud \subseteq {Underlay[i] : i \in 1..arg[t].open}
  /\ pc[t] = "unwind" =>
       /\ arg[t] = [open |-> arg[t].open, todo |-> arg[t].todo]
       /\ arg[t].todo \in Seq(Resources)
       /\ handles \cap Loud \subseteq Elems(arg[t].todo)

UInv ==
  /\ \A t \in Threads :
       /\ pc[t] \in {"setup", "unwind", "c_check", "c_map"} => mutex = t
       /\ pc[t] \in {"setup", "unwind"} => ~underlay
       /\ OpenLoud(t)
  /\ ~underlay => \/ handles \cap Loud = {}
                  \/ \E t \in Threads : pc[t] \in {"setup", "unwind"}

(* What is left of a sequence when its head is taken.                      *)
LEMMA ElemsOfTail ==
  ASSUME NEW S, NEW q \in Seq(S), q # <<>>
  PROVE  /\ Tail(q) \in Seq(S) /\ Head(q) \in Elems(q)
         /\ Elems(q) \subseteq {Head(q)} \cup Elems(Tail(q))
         /\ Elems(Tail(q)) \subseteq Elems(q)
<1>1. /\ Len(q) \in Nat /\ Len(q) # 0 /\ DOMAIN q = 1..Len(q)
      /\ Tail(q) \in Seq(S) /\ Len(Tail(q)) = Len(q) - 1
      /\ DOMAIN Tail(q) = 1..(Len(q) - 1)
      /\ \A i \in 1..(Len(q) - 1) : Tail(q)[i] = q[i + 1]
      /\ Head(q) = q[1]
  OBVIOUS
<1>2. ASSUME NEW i \in DOMAIN q
      PROVE  q[i] \in {Head(q)} \cup Elems(Tail(q))
  <2>1. CASE i = 1
    BY <1>1, <2>1
  <2>2. CASE i # 1
    <3>1. i - 1 \in 1..(Len(q) - 1) /\ (i - 1) + 1 = i
      BY <1>1, <2>2
    <3>2. i - 1 \in DOMAIN Tail(q) /\ Tail(q)[i - 1] = q[i]
      BY <1>1, <3>1
    <3> QED
      BY <3>2 DEF Elems
  <2> QED
    BY <2>1, <2>2
<1>3. ASSUME NEW i \in DOMAIN Tail(q)
      PROVE  Tail(q)[i] \in Elems(q)
  <2>1. i + 1 \in DOMAIN q /\ Tail(q)[i] = q[i + 1]
    BY <1>1
  <2> QED
    BY <2>1 DEF Elems
<1>4. Head(q) \in Elems(q)
  BY <1>1 DEF Elems
<1> QED
  BY <1>1, <1>2, <1>3, <1>4 DEF Elems

(* A thread's locals with another rest of its work.                        *)
LEMMA WriteTodo ==
  ASSUME NEW a, NEW b, NEW q, NEW r, r = [open |-> a, todo |-> b]
  PROVE  [r EXCEPT !.todo = q] = [open |-> a, todo |-> q]
  OBVIOUS

(* Steps that leave the underlay alone, and the mutex to its holder.       *)
LEMMA UnderlayKept ==
  ASSUME IInv, UInv, NEW t \in Threads, NEW label, NEW locals, Goto(t, label, locals),
         pc[t] \notin {"setup", "unwind"}, label \notin {"setup", "unwind"},
         UNCHANGED <<underlay, handles>>,
         \/ mutex' \in {mutex, Free(mutex, t)}
         \/ mutex' = None /\ mutex = t
         \/ mutex' = t /\ mutex = None,
         label \in {"c_check", "c_map"} => mutex' = t
  PROVE  UInv'
<1>1. /\ pc'[t] = label
      /\ \A u \in Threads \ {t} : pc'[u] = pc[u] /\ arg'[u] = arg[u]
  BY GotoEffect DEF IInv, Locals
<1>2. \A u \in Threads \ {t} : mutex = u => mutex' = u
  BY ThreadsAssumption DEF Free
<1>3. \A u \in Threads : OpenLoud(u)'
  BY <1>1 DEF UInv, OpenLoud
<1>4. \A u \in Threads : pc'[u] \in {"setup", "unwind"} <=> pc[u] \in {"setup", "unwind"}
  BY <1>1
<1>5. \A u \in Threads :
         pc'[u] \in {"setup", "unwind", "c_check", "c_map"} => mutex' = u
  BY <1>1, <1>2 DEF UInv
<1> QED
  BY <1>3, <1>4, <1>5 DEF UInv

(* Steps of no thread.                                                     *)
LEMMA UnderlayUnmoved ==
  ASSUME UInv, UNCHANGED <<pc, arg, mutex, underlay, handles>>
  PROVE  UInv'
  BY DEF UInv, OpenLoud

(* A thread that sets up the underlay does so alone.                       *)
LEMMA UnderlayAlone ==
  ASSUME IInv, UInv, NEW t \in Threads, NEW label, NEW locals, Goto(t, label, locals),
         mutex \in {None, t}, mutex' \in {None, t},
         label \in {"setup", "unwind"} => mutex' = t /\ ~underlay',
         label \in {"idle", "setup", "unwind"},
         label = "setup" =>
           /\ locals = [open |-> locals.open, todo |-> locals.todo]
           /\ locals.open \in 0..6
           /\ handles' \cap Loud \subseteq {Underlay[i] : i \in 1..locals.open},
         label = "unwind" =>
           /\ locals = [open |-> locals.open, todo |-> locals.todo]
           /\ locals.todo \in Seq(Resources)
           /\ handles' \cap Loud \subseteq Elems(locals.todo),
         label = "idle" => underlay' \/ handles' \cap Loud = {}
  PROVE  UInv'
<1>1. /\ pc'[t] = label /\ arg'[t] = locals
      /\ \A u \in Threads \ {t} : pc'[u] = pc[u] /\ arg'[u] = arg[u]
  BY GotoEffect DEF IInv, Locals
<1>2. \A u \in Threads \ {t} : pc'[u] \notin {"setup", "unwind", "c_check", "c_map"}
  BY <1>1, ThreadsAssumption DEF UInv
<1>3. \A u \in Threads \ {t} : OpenLoud(u)'
  BY <1>2 DEF OpenLoud
<1>4. OpenLoud(t)'
  BY <1>1 DEF OpenLoud
<1>5. \/ underlay' \/ handles' \cap Loud = {}
      \/ pc'[t] \in {"setup", "unwind"}
  BY <1>1
<1> QED
  BY <1>1, <1>2, <1>3, <1>4, <1>5 DEF UInv

(* The resources in the order of their acquisition, and what is closed.    *)
LEMMA UnwindingCovers ==
  ASSUME NEW n \in 1..6
  PROVE  /\ Unwinding[Underlay[n]] \in Seq(Resources)
         /\ {Underlay[i] : i \in 1..(n - 1)} \cap Loud \subseteq Elems(Unwinding[Underlay[n]])
<1>1. /\ Underlay[1] = "u1mh" /\ Underlay[2] = "u2mh" /\ Underlay[3] = "u1mch"
      /\ Underlay[4] = "u2mch" /\ Underlay[5] = "u1mph" /\ Underlay[6] = "u2mph"
  BY DEF Underlay
<1>2. n = 1 \/ n = 2 \/ n = 3 \/ n = 4 \/ n = 5 \/ n = 6
  OBVIOUS
<1>3. Unwinding[Underlay[n]] \in Seq(Resources)
  <2>1. /\ Unwinding["u1mh"] = <<>> /\ Unwinding["u2mh"] = <<>>
        /\ Unwinding["u1mch"] = <<"u2mh", "u1mh">>
        /\ Unwinding["u2mch"] = <<"u2mh", "u1mh", "u1mch">>
        /\ Unwinding["u1mph"] = <<"u2mch", "u1mch", "u2mh", "u1mh">>
        /\ Unwinding["u2mph"] = <<"u1mph", "u2mch", "u1mch", "u2mh", "u1mh">>
    BY DEF Unwinding
  <2>2. /\ <<>> \in Seq(Resources)
        /\ <<"u2mh", "u1mh">> \in Seq(Resources)
        /\ <<"u2mh", "u1mh", "u1mch">> \in Seq(Resources)
        /\ <<"u2mch", "u1mch", "u2mh", "u1mh">> \in Seq(Resources)
        /\ <<"u1mph", "u2mch", "u1mch", "u2mh", "u1mh">> \in Seq(Resources)
    BY DEF Resources, Loud
  <2> QED
    BY <1>1, <1>2, <2>1, <2>2
<1>4. CASE n \in {1, 2, 3}
  <2>1. ASSUME NEW i \in 1..(n - 1)
        PROVE  Underlay[i] \notin Loud
    <3>1. i = 1 \/ i = 2
      BY <1>4
    <3> QED
      BY <1>1, <3>1 DEF Loud
  <2> QED
    BY <1>3, <2>1
<1>5. CASE n \in {4, 5, 6}
  <2> DEFINE q == Unwinding[Underlay[n]]
  <2>1. ASSUME NEW i \in 1..(n - 1), Underlay[i] \in Loud
        PROVE  Underlay[i] \in Elems(q)
    <3>1. i = 3 \/ i = 4 \/ i = 5
      <4>1. i = 1 \/ i = 2 \/ i = 3 \/ i = 4 \/ i = 5
        BY <1>5
      <4> QED
        BY <1>1, <2>1, <4>1 DEF Loud
    <3>2. CASE n = 4
      <4>1. q = <<"u2mh", "u1mh", "u1mch">> /\ i = 3
        BY <1>1, <3>1, <3>2 DEF Unwinding
      <4> QED
        BY <1>1, <4>1 DEF Elems
    <3>3. CASE n = 5
      <4>1. q = <<"u2mch", "u1mch", "u2mh", "u1mh">> /\ (i = 3 \/ i = 4)
        BY <1>1, <3>1, <3>3 DEF Unwinding
      <4> QED
        BY <1>1, <4>1 DEF Elems
    <3>4. CASE n = 6
      <4>1. q = <<"u1mph", "u2mch", "u1mch", "u2mh", "u1mh">>
        BY <1>1, <3>4 DEF Unwinding
      <4>2. DOMAIN q = 1..5 /\ q[1] = "u1mph" /\ q[2] = "u2mch" /\ q[3] = "u1mch"
        BY <4>1
      <4> QED
        BY <1>1, <3>1, <4>2 DEF Elems
    <3> QED
      BY <1>5, <3>2, <3>3, <3>4
  <2> QED
    BY <1>3, <2>1
<1> QED
  BY <1>2, <1>3, <1>4, <1>5

(* Setting up the underlay.                                                *)
LEMMA UnderlaySetUp ==
  ASSUME IInv, UInv, NEW t \in Threads,
         \/ SetUnderlay(t) \/ OpenNext(t) \/ CloseNext(t) \/ SetUnderlayEnd(t)
  PROVE  UInv'
<1>1. CASE SetUnderlay(t)
  <2> DEFINE locals == [open |-> 0, todo |-> <<>>]
  <2>1. /\ Goto(t, "setup", locals) /\ mutex = None /\ mutex' = t
        /\ ~underlay /\ ~underlay' /\ handles' = handles
    BY <1>1 DEF SetUnderlay
  <2>2. handles \cap Loud = {}
    BY <2>1, ThreadsAssumption DEF UInv
  <2>3. /\ locals = [open |-> locals.open, todo |-> locals.todo]
        /\ locals.open \in 0..6
    OBVIOUS
  <2> HIDE DEF locals
  <2> QED
    BY <2>1, <2>2, <2>3, UnderlayAlone
<1>2. CASE OpenNext(t)
  <2> DEFINE n == arg[t].open + 1
  <2>1. /\ pc[t] = "setup" /\ n \in 1..6
        /\ UNCHANGED <<underlay, mutex>>
    <3>1. /\ pc[t] = "setup" /\ n <= Len(Underlay)
          /\ UNCHANGED <<underlay, mutex>>
      BY <1>2 DEF OpenNext, lockVars
    <3>2. Len(Underlay) = 6
      BY DEF Underlay
    <3>3. arg[t].open \in 0..6
      BY <3>1 DEF UInv, OpenLoud
    <3> QED
      BY <3>1, <3>2, <3>3
  <2>2. /\ mutex = t /\ ~underlay
        /\ arg[t] = [open |-> arg[t].open, todo |-> arg[t].todo]
        /\ arg[t].open \in 0..6
        /\ handles \cap Loud \subseteq {Underlay[i] : i \in 1..(n - 1)}
    BY <2>1 DEF UInv, OpenLoud
  <2>3. CASE /\ handles' = handles \cup {Underlay[n]}
             /\ Goto(t, "setup", [arg[t] EXCEPT !.open = n])
    <3> DEFINE locals == [arg[t] EXCEPT !.open = n]
    <3>1. /\ locals = [open |-> locals.open, todo |-> locals.todo]
          /\ locals.open = n
      BY <2>2
    <3> HIDE DEF locals
    <3>2. handles' \cap Loud \subseteq {Underlay[i] : i \in 1..n}
      BY <2>1, <2>2, <2>3
    <3> QED
      BY <2>1, <2>2, <2>3, <3>1, <3>2, UnderlayAlone DEF locals
  <2>4. CASE /\ Goto(t, "unwind", [arg[t] EXCEPT !.todo = Unwinding[Underlay[n]]])
             /\ UNCHANGED handles
    <3> DEFINE locals == [arg[t] EXCEPT !.todo = Unwinding[Underlay[n]]]
    <3>1. /\ locals = [open |-> locals.open, todo |-> locals.todo]
          /\ locals.todo = Unwinding[Underlay[n]]
      BY <2>2
    <3> HIDE DEF locals
    <3>2. /\ locals.todo \in Seq(Resources)
          /\ handles' \cap Loud \subseteq Elems(locals.todo)
      BY <2>1, <2>2, <2>4, <3>1, UnwindingCovers
    <3> QED
      BY <2>1, <2>2, <2>4, <3>1, <3>2, UnderlayAlone DEF locals
  <2> QED
    BY <1>2, <2>3, <2>4 DEF OpenNext
<1>3. CASE CloseNext(t)
  <2> DEFINE q == arg[t].todo
             locals == [arg[t] EXCEPT !.todo = Tail(@)]
  <2>1. /\ pc[t] = "unwind" /\ q # <<>>
        /\ Goto(t, "unwind", locals)
        /\ handles' = handles \ {Head(q)}
        /\ UNCHANGED <<underlay, mutex>>
    BY <1>3 DEF CloseNext, lockVars
  <2>2. /\ mutex = t /\ ~underlay
        /\ arg[t] = [open |-> arg[t].open, todo |-> q]
        /\ q \in Seq(Resources)
        /\ handles \cap Loud \subseteq Elems(q)
    BY <2>1 DEF UInv, OpenLoud
  <2>3. /\ locals = [open |-> locals.open, todo |-> locals.todo]
        /\ locals.todo = Tail(q)
    <3> DEFINE rest == Tail(q)
    <3>1. locals = [arg[t] EXCEPT !.todo = rest]
      OBVIOUS
    <3> HIDE DEF locals, rest, q
    <3>2. locals = [open |-> arg[t].open, todo |-> rest]
      BY <2>2, <3>1, WriteTodo
    <3> QED
      BY <3>2 DEF rest
  <2> HIDE DEF q, locals
  <2>4. Tail(q) \in Seq(Resources) /\ Elems(q) \subseteq {Head(q)} \cup Elems(Tail(q))
    BY <2>1, <2>2, ElemsOfTail
  <2> QED
    BY <2>1, <2>2, <2>3, <2>4, UnderlayAlone
<1>4. CASE SetUnderlayEnd(t)
  <2>1. /\ pc[t] \in {"setup", "unwind"} /\ Goto(t, "idle", None)
        /\ mutex' = Free(mutex, t) /\ handles' = handles
        /\ underlay' \/ (pc[t] = "unwind" /\ arg[t].todo = <<>>)
    BY <1>4 DEF SetUnderlayEnd, Return, Unlock
  <2>2. mutex = t /\ mutex' = None
    BY <2>1 DEF UInv, Free
  <2>3. pc[t] = "unwind" /\ arg[t].todo = <<>> => handles \cap Loud = {}
    <3>1. Elems(<<>>) = {}
      BY DEF Elems
    <3> QED
      BY <3>1 DEF UInv, OpenLoud
  <2> QED
    BY <2>1, <2>2, <2>3, UnderlayAlone
<1> QED
  BY <1>1, <1>2, <1>3, <1>4

(* Every other step of a thread.                                           *)
LEMMA UnderlayElsewhere ==
  ASSUME IInv, UInv, NEW t \in Threads,
         \/ \E cfg \in Configs : CreateXde(t, cfg)
         \/ CreateCheck(t) \/ CreateRefused(t) \/ CreateMap(t) \/ CreatePort(t)
         \/ CreateRegister(t) \/ CreateDevnet(t) \/ CreateFails(t) \/ CreatePush(t)
         \/ \E name \in Names : DeleteXde(t, name)
         \/ DeleteDevnet(t) \/ DeleteUnregister(t) \/ DeleteFails(t)
         \/ DeleteMap(t) \/ DeleteRemove(t)
         \/ \E name \in Names : \E src, dst : TxGateway(t, name, src, dst)
         \/ \E hop : TxEncap(t, hop)
         \/ TxLoopback(t) \/ TxDrop(t) \/ Delivered(t)
         \/ \E dst \in Vips, vni \in Vnis, mac \in Macs : Rx(t, dst, vni, mac)
  PROVE  UInv'
<1>1. pc[t] \in {"c_check", "c_map"} => mutex = t
  BY DEF UInv
<1>2. CASE \E cfg \in Configs : CreateXde(t, cfg)
  <2>1. PICK cfg \in Configs : CreateXde(t, cfg)
    BY <1>2
  <2> QED
    BY <2>1, UnderlayKept DEF CreateXde
<1>3. CASE CreateCheck(t)
  BY <1>1, <1>3, UnderlayKept DEF CreateCheck
<1>4. CASE CreateRefused(t)
  BY <1>1, <1>4, UnderlayKept DEF CreateRefused, Return, Unlock
<1>5. CASE CreateMap(t)
  BY <1>1, <1>5, UnderlayKept DEF CreateMap, lockVars
<1>6. CASE CreatePort(t)
  BY <1>1, <1>6, UnderlayKept DEF CreatePort
<1>7. CASE CreateRegister(t)
  BY <1>1, <1>7, UnderlayKept DEF CreateRegister, lockVars
<1>8. CASE CreateDevnet(t)
  BY <1>1, <1>8, UnderlayKept DEF CreateDevnet, lockVars
<1>9. CASE CreateFails(t)
  BY <1>1, <1>9, UnderlayKept DEF CreateFails, Return, Unlock
<1>10. CASE CreatePush(t)
  BY <1>1, <1>10, UnderlayKept DEF CreatePush, Return, Unlock
<1>11. CASE \E name \in Names : DeleteXde(t, name)
  <2>1. PICK name \in Names : DeleteXde(t, name)
    BY <1>11
  <2> QED
    BY <2>1, UnderlayKept DEF DeleteXde
<1>12. CASE DeleteDevnet(t)
  BY <1>1, <1>12, UnderlayKept DEF DeleteDevnet, lockVars
<1>13. CASE DeleteUnregister(t)
  BY <1>1, <1>13, UnderlayKept DEF DeleteUnregister, lockVars
<1>14. CASE DeleteFails(t)
  BY <1>1, <1>14, UnderlayKept DEF DeleteFails, Return, Unlock
<1>15. CASE DeleteMap(t)
  BY <1>1, <1>15, UnderlayKept DEF DeleteMap, lockVars
<1>16. CASE DeleteRemove(t)
  BY <1>1, <1>16, UnderlayKept DEF DeleteRemove, Return, Unlock
<1>17. CASE \E name \in Names : \E src, dst : TxGateway(t, name, src, dst)
  <2>1. PICK name \in Names : \E src, dst : TxGateway(t, name, src, dst)
    BY <1>17
  <2>2. PICK src, dst : TxGateway(t, name, src, dst)
    BY <2>1
  <2> QED
    BY <2>2, UnderlayKept DEF TxGateway, lockVars
<1>18. CASE \E hop : TxEncap(t, hop)
  <2>1. PICK hop : TxEncap(t, hop)
    BY <1>18
  <2>2. /\ pc[t] = "t_encap" /\ UNCHANGED <<underlay, handles, mutex>>
        /\ Goto(t, "idle", None) \/ \E locals : Goto(t, "t_loop", locals)
    BY <2>1 DEF TxEncap, Return, lockVars
  <2>3. CASE Goto(t, "idle", None)
    BY <2>2, <2>3, UnderlayKept
  <2>4. CASE \E locals : Goto(t, "t_loop", locals)
    <3>1. PICK locals : Goto(t, "t_loop", locals)
      BY <2>4
    <3> QED
      BY <2>2, <3>1, UnderlayKept
  <2> QED
    BY <2>2, <2>3, <2>4
<1>19. CASE \/ TxLoopback(t)
          \/ \E dst \in Vips, vni \in Vnis, mac \in Macs : Rx(t, dst, vni, mac)
  <2>1. PICK pkt : Receive(t, pkt) /\ pc[t] \in {"idle", "t_loop"}
    BY <1>19 DEF TxLoopback, Rx
  <2>2. PICK name : Goto(t, "deliver", [pkt EXCEPT !.to = name])
    BY <2>1 DEF Receive
  <2> QED
    BY <2>1, <2>2, UnderlayKept DEF Receive
<1>20. CASE TxDrop(t)
  BY <1>20, UnderlayKept DEF TxDrop, Return, lockVars
<1>21. CASE Delivered(t)
  BY <1>21, UnderlayKept DEF Delivered, Return, Unlock
<1> QED
  BY <1>2, <1>3, <1>4, <1>5, <1>6, <1>7, <1>8, <1>9, <1>10, <1>11, <1>12, <1>13, <1>14, <1>15, <1>16, <1>17, <1>18, <1>19, <1>20, <1>21

(* Every step keeps the underlay in order.                                 *)
LEMMA UnderlayNext == IInv /\ UInv /\ [Next]_vars => UInv'
<1> SUFFICES ASSUME IInv, UInv, [Next]_vars PROVE UInv'
  OBVIOUS
<1>1. ASSUME NEW t \in Threads,
             \/ SetUnderlay(t) \/ OpenNext(t) \/ CloseNext(t) \/ SetUnderlayEnd(t)
      PROVE  UInv'
  BY <1>1, UnderlaySetUp
<1>2. CASE \/ \E push \in Pushes : SetV2p(push)
           \/ \E name \in Names : McStart(name) \/ McStop(name)
           \/ Attach \/ UNCHANGED vars
  <2>1. UNCHANGED <<pc, arg, mutex, underlay, handles>>
    BY <1>2 DEF SetV2p, McStart, McStop, Attach, vars, lockVars
  <2> QED
    BY <2>1, UnderlayUnmoved
<1>3. CASE Detach
  <2>1. /\ \A t \in Threads : pc'[t] = "idle" /\ pc[t] = "idle"
        /\ handles' \in {{}, handles} /\ (handles' = handles \/ underlay)
        /\ underlay' = FALSE
    BY <1>3 DEF Detach
  <2>2. underlay \/ handles \cap Loud = {}
    BY <2>1 DEF UInv
  <2>3. handles' \cap Loud = {}
    BY <1>3, <2>2 DEF Detach
  <2> QED
    BY <2>1, <2>3 DEF UInv, OpenLoud
<1> QED
  BY <1>1, <1>2, <1>3, UnderlayElsewhere DEF Next

(* A set-up that fails leaves no callback and no mac client behind         *)
(* (set_xde_underlay(), init_underlay_ingress_handlers()).                 *)
THEOREM UnderlayUnwinds == Spec => []FailedUnderlayIsQuiet
<1>1. Init => UInv
  BY DEF Init, UInv, OpenLoud
<1>2. UInv => FailedUnderlayIsQuiet
  BY ThreadsAssumption DEF UInv, FailedUnderlayIsQuiet, Loud
<1> QED
  BY <1>1, <1>2, UnderlayNext, Inductive, PTL DEF Spec

-----------------------------------------------------------------------------
(* The mappings.  A VPC keeps the object it got first, no two VPCs have    *)
(* the same one, and the devices of a VPC refer to the object it has.      *)
Mapped(vni, vip) == byVni[vni] # 0 /\ Lookup(byVni[vni], vip) # NoPhys

(* No address of a VPC is given to two guests.                             *)
AddressesAreDistinct ==
  \A c, d \in Configs :
    c.name # d.name /\ c.vni = d.vni => Ips(c) \cap Ips(d) = {}

OwnObjects ==
  \A v, w \in Vnis : byVni[v] # 0 /\ byVni[v] = byVni[w] => v = w

Shared(box) == byVni[box.cfg.vni] # 0 /\ box.v2p = byVni[box.cfg.vni]

(* What is left to do of a request: a creation has mapped the rest of the  *)
(* guest's addresses.                                                      *)
Todo(t) ==
  LET cfg == arg[t].cfg  todo == arg[t].todo IN
  /\ pc[t] = "c_check" => todo = cfg.ips
  /\ pc[t] \in DeleteAt \cup {"c_map"} =>
       todo \in Seq(Vips) /\ Elems(todo) \subseteq Ips(cfg)
  /\ pc[t] = "c_map" =>
       \A vip \in Ips(cfg) \ Elems(todo) : Mapped(cfg.vni, vip)

(* A device's addresses are mapped until it is deleted.                    *)
Placed ==
  \A name \in Live :
    \/ \A vip \in Ips(boxes[name].cfg) : Mapped(boxes[name].cfg.vni, vip)
    \/ \E t \in Threads : pc[t] = "d_map" /\ arg[t].cfg.name = name

MInv ==
  /\ MappingsTypeOK
  /\ OwnObjects
  /\ \A name \in Live : Shared(boxes[name])
  /\ \A t \in Threads : Todo(t)
  /\ AddressesAreDistinct => Placed

(* add(): objects stay where they are, and mappings stay mappings.         *)
LEMMA AddEffect ==
  ASSUME MappingsTypeOK, OwnObjects, NEW vip \in Vips, NEW vni \in Vnis,
         NEW phys \in GuestPhysAddr, Add(vip, vni, phys)
  PROVE  /\ MappingsTypeOK' /\ OwnObjects'
         /\ \A w \in Vnis : byVni[w] # 0 => byVni'[w] = byVni[w]
         /\ Mapped(vni, vip)'
         /\ \A w \in Vnis, v \in Vips : Mapped(w, v) => Mapped(w, v)'
<1> DEFINE Object == [Vips -> GuestPhysAddr \cup {NoPhys}]
<1>1. /\ v2ps \in Seq(Object) /\ byVni \in [Vnis -> 0..Len(v2ps)]
      /\ phys # NoPhys /\ Len(v2ps) \in Nat
  BY NoPhysAssumption DEF MappingsTypeOK
<1>2. CASE byVni[vni] # 0
  <2> DEFINE obj == byVni[vni]
             m == [v2ps[obj] EXCEPT ![vip] = phys]
  <2>1. obj \in 1..Len(v2ps) /\ v2ps[obj] \in Object
    BY <1>1, <1>2
  <2>2. m \in Object /\ m[vip] = phys /\ \A v \in Vips \ {vip} : m[v] = v2ps[obj][v]
    BY <2>1
  <2>3. v2ps' = [v2ps EXCEPT ![obj] = m] /\ byVni' = byVni
    BY <1>2 DEF Add
  <2> HIDE DEF Object, m
  <2>4. /\ v2ps' \in Seq(Object) /\ Len(v2ps') = Len(v2ps)
        /\ v2ps'[obj] = m /\ \A i \in 1..Len(v2ps) : i # obj => v2ps'[i] = v2ps[i]
    BY <1>1, <2>1, <2>2, <2>3
  <2>5. MappingsTypeOK'
    BY <1>1, <2>3, <2>4 DEF MappingsTypeOK, Object
  <2>6. ASSUME NEW w \in Vnis, NEW v \in Vips, Mapped(w, v)
        PROVE  Mapped(w, v)'
    <3>1. byVni[w] # 0 /\ v2ps[byVni[w]][v] # NoPhys /\ byVni[w] \in 1..Len(v2ps)
      BY <1>1, <2>6 DEF Mapped, Lookup
    <3>2. v2ps'[byVni[w]][v] # NoPhys
      BY <1>1, <2>2, <2>4, <3>1
    <3> QED
      BY <2>3, <3>1, <3>2 DEF Mapped, Lookup
  <2>7. Mapped(vni, vip)'
    BY <1>1, <1>2, <2>2, <2>3, <2>4 DEF Mapped, Lookup
  <2> QED
    BY <2>3, <2>5, <2>6, <2>7 DEF OwnObjects
<1>3. CASE byVni[vni] = 0
  <2> DEFINE new == Len(v2ps) + 1
             m == [NoMappings EXCEPT ![vip] = phys]
  <2>1. m \in Object /\ m[vip] = phys
    BY DEF NoMappings
  <2>2. v2ps' = Append(v2ps, m) /\ byVni' = [byVni EXCEPT ![vni] = new]
    BY <1>3 DEF Add
  <2> HIDE DEF Object, m
  <2>3. /\ v2ps' \in Seq(Object) /\ Len(v2ps') = new
        /\ v2ps'[new] = m /\ \A i \in 1..Len(v2ps) : v2ps'[i] = v2ps[i]
    BY <1>1, <2>1, <2>2
  <2>4. /\ byVni' \in [Vnis -> 0..new] /\ byVni'[vni] = new
        /\ \A w \in Vnis \ {vni} : byVni'[w] = byVni[w] /\ byVni[w] # new
    BY <1>1, <2>2
  <2>5. MappingsTypeOK'
    BY <2>3, <2>4 DEF MappingsTypeOK, Object
  <2>6. ASSUME NEW w \in Vnis, NEW v \in Vips, Mapped(w, v)
        PROVE  Mapped(w, v)'
    <3>1. /\ byVni[w] # 0 /\ v2ps[byVni[w]][v] # NoPhys
          /\ byVni[w] \in 1..Len(v2ps) /\ w # vni
      BY <1>1, <1>3, <2>6 DEF Mapped, Lookup
    <3> QED
      BY <2>3, <2>4, <3>1 DEF Mapped, Lookup
  <2>7. Mapped(vni, vip)'
    BY <1>1, <2>1, <2>3, <2>4 DEF Mapped, Lookup
  <2>8. OwnObjects'
    BY <2>4 DEF OwnObjects
  <2> QED
    BY <1>3, <2>4, <2>5, <2>6, <2>7, <2>8
<1> QED
  BY <1>2, <1>3

(* del(): one mapping goes.                                                *)
LEMMA DelEffect ==
  ASSUME MappingsTypeOK, OwnObjects, NEW vip \in Vips, NEW vni \in Vnis, Del(vip, vni)
  PROVE  /\ MappingsTypeOK' /\ OwnObjects' /\ byVni' = byVni
         /\ \A w \in Vnis, v \in Vips :
              (w # vni \/ v # vip) /\ Mapped(w, v) => Mapped(w, v)'
<1> DEFINE Object == [Vips -> GuestPhysAddr \cup {NoPhys}]
<1>1. /\ v2ps \in Seq(Object) /\ byVni \in [Vnis -> 0..Len(v2ps)] /\ Len(v2ps) \in Nat
  BY DEF MappingsTypeOK
<1>2. byVni' = byVni
  BY DEF Del
<1>3. CASE byVni[vni] = 0
  <2>1. v2ps' = v2ps
    BY <1>3 DEF Del
  <2> QED
    BY <1>2, <2>1 DEF MappingsTypeOK, OwnObjects, Mapped, Lookup
<1>4. CASE byVni[vni] # 0
  <2> DEFINE obj == byVni[vni]
             m == [v2ps[obj] EXCEPT ![vip] = NoPhys]
  <2>1. obj \in 1..Len(v2ps) /\ v2ps[obj] \in Object
    BY <1>1, <1>4
  <2>2. m \in Object /\ \A v \in Vips \ {vip} : m[v] = v2ps[obj][v]
    BY <2>1
  <2>3. v2ps' = [v2ps EXCEPT ![obj] = m]
    BY <1>4 DEF Del
  <2> HIDE DEF Object, m
  <2>4. /\ v2ps' \in Seq(Object) /\ Len(v2ps') = Len(v2ps)
        /\ v2ps'[obj] = m /\ \A i \in 1..Len(v2ps) : i # obj => v2ps'[i] = v2ps[i]
    BY <1>1, <2>1, <2>2, <2>3
  <2>5. MappingsTypeOK'
    BY <1>1, <1>2, <2>4 DEF MappingsTypeOK, Object
  <2>6. ASSUME NEW w \in Vnis, NEW v \in Vips, w # vni \/ v # vip, Mapped(w, v)
        PROVE  Mapped(w, v)'
    <3>1. byVni[w] # 0 /\ v2ps[byVni[w]][v] # NoPhys /\ byVni[w] \in 1..Len(v2ps)
      BY <1>1, <2>6 DEF Mapped, Lookup
    <3>2. byVni[w] = obj => w = vni
      BY <1>4 DEF OwnObjects
    <3>3. v2ps'[byVni[w]][v] # NoPhys
      BY <2>2, <2>4, <2>6, <3>1, <3>2
    <3> QED
      BY <1>2, <3>1, <3>3 DEF Mapped, Lookup
  <2> QED
    BY <1>2, <2>5, <2>6 DEF OwnObjects
<1> QED
  BY <1>3, <1>4

(* A device after a step that leaves the mappings alone is one from before,*)
(* of the same VPC and with the same mappings, or one that is mapped.      *)
Kept(name) ==
  /\ name \in Live
  /\ boxes'[name].cfg = boxes[name].cfg /\ boxes'[name].v2p = boxes[name].v2p

Made(box) ==
  Shared(box) /\ \A vip \in Ips(box.cfg) : Mapped(box.cfg.vni, vip)

LEMMA MappingsKept ==
  ASSUME IInv, MInv, NEW t \in Threads, NEW label, NEW locals, Goto(t, label, locals),
         UNCHANGED mapVars,
         \A name \in Live' : Kept(name) \/ Made(boxes'[name]),
         pc[t] = "d_map" => arg[t].cfg.name \notin Live',
         label = "c_check" => locals.todo = locals.cfg.ips,
         label \in DeleteAt \cup {"c_map"} =>
           locals.todo \in Seq(Vips) /\ Elems(locals.todo) \subseteq Ips(locals.cfg),
         label = "c_map" => Ips(locals.cfg) \subseteq Elems(locals.todo)
  PROVE  MInv'
<1>1. /\ pc'[t] = label /\ arg'[t] = locals
      /\ \A u \in Threads \ {t} : pc'[u] = pc[u] /\ arg'[u] = arg[u]
  BY GotoEffect DEF IInv, Locals
<1>2. /\ byVni' = byVni /\ MappingsTypeOK' /\ OwnObjects'
      /\ \A vni, vip : Mapped(vni, vip)' <=> Mapped(vni, vip)
  BY DEF MInv, mapVars, MappingsTypeOK, OwnObjects, Mapped, Lookup
<1>3. \A name \in Live' : Shared(boxes[name])'
  BY <1>2 DEF MInv, Shared, Kept, Made
<1>4. \A u \in Threads : Todo(u)'
  <2>1. ASSUME NEW u \in Threads, u # t
        PROVE  Todo(u)'
    <3>1. Todo(u) /\ pc'[u] = pc[u] /\ arg'[u] = arg[u]
      BY <1>1, <2>1 DEF MInv
    <3> QED
      BY <1>2, <3>1 DEF Todo
  <2>2. Todo(t)'
    BY <1>1 DEF Todo
  <2> QED
    BY <2>1, <2>2
<1>5. ASSUME AddressesAreDistinct
      PROVE  Placed'
  <2> SUFFICES ASSUME NEW name \in Live'
               PROVE  \/ \A vip \in Ips(boxes'[name].cfg) : Mapped(boxes[name].cfg.vni, vip)'
                      \/ \E u \in Threads : pc'[u] = "d_map" /\ arg'[u].cfg.name = name
    BY DEF Placed, Ips
  <2>1. CASE Made(boxes'[name])
    BY <1>2, <2>1 DEF Made
  <2>2. CASE Kept(name)
    <3>1. \/ \A vip \in Ips(boxes[name].cfg) : Mapped(boxes[name].cfg.vni, vip)
          \/ \E u \in Threads : pc[u] = "d_map" /\ arg[u].cfg.name = name
      BY <1>5, <2>2 DEF MInv, Placed, Kept
    <3>2. CASE \A vip \in Ips(boxes[name].cfg) : Mapped(boxes[name].cfg.vni, vip)
      BY <1>2, <2>2, <3>2 DEF Kept
    <3>3. CASE \E u \in Threads : pc[u] = "d_map" /\ arg[u].cfg.name = name
      BY <1>1, <3>3
    <3> QED
      BY <3>1, <3>2, <3>3
  <2> QED
    BY <2>1, <2>2
<1> QED
  BY <1>2, <1>3, <1>4, <1>5 DEF MInv, AddressesAreDistinct

(* Steps of no thread that leave the mappings alone.                       *)
LEMMA MappingsUnmoved ==
  ASSUME MInv, UNCHANGED <<byVni, v2ps, pc, arg>>, \A name \in Live' : Kept(name)
  PROVE  MInv'
<1>1. /\ MappingsTypeOK' /\ OwnObjects'
      /\ \A vni, vip : Mapped(vni, vip)' <=> Mapped(vni, vip)
  BY DEF MInv, MappingsTypeOK, OwnObjects, Mapped, Lookup
<1>2. \A name \in Live' : Shared(boxes[name])'
  BY DEF MInv, Shared, Kept
<1>3. \A u \in Threads : Todo(u)'
  BY <1>1 DEF MInv, Todo
<1>4. Placed => Placed'
  BY <1>1 DEF Placed, Kept
<1> QED
  BY <1>1, <1>2, <1>3, <1>4 DEF MInv, AddressesAreDistinct

(* Writing one of a device's other fields.                                 *)
LEMMA FieldKept ==
  ASSUME IInv, NEW n \in Live, NEW v,
         \/ boxes' = [boxes EXCEPT ![n].mac = v]
         \/ boxes' = [boxes EXCEPT ![n].devnet = v]
         \/ boxes' = [boxes EXCEPT ![n].listed = v]
         \/ boxes' = [boxes EXCEPT ![n].running = v]
  PROVE  \A name \in Live' : Kept(name)
<1> DEFINE b == boxes[n]
<1>1. /\ b = [cfg |-> b.cfg, v2p |-> b.v2p, mac |-> b.mac, devnet |-> b.devnet,
              listed |-> b.listed, running |-> b.running]
      /\ n \in Names /\ boxes = [name \in Names |-> boxes[name]]
  BY DEF IInv, Boxes, IsBox, Live
<1>2. PICK new \in {[b EXCEPT !.mac = v], [b EXCEPT !.devnet = v],
                    [b EXCEPT !.listed = v], [b EXCEPT !.running = v]} :
        boxes' = [boxes EXCEPT ![n] = new]
  OBVIOUS
<1>3. new.cfg = b.cfg /\ new.v2p = b.v2p
  <2> HIDE DEF b
  <2> QED
    BY <1>1, <1>2
<1> HIDE DEF b
<1>4. boxes'[n] = new /\ \A name \in Names \ {n} : boxes'[name] = boxes[name]
  BY <1>1, <1>2
<1> QED
  BY <1>3, <1>4 DEF Kept, Live, b

(* Steps of a thread that leave devices and mappings alone and take it to  *)
(* no place where it has mappings to do.                                   *)
LEMMA MappingsAlone ==
  ASSUME IInv, MInv, NEW t \in Threads, NEW label, NEW locals, Goto(t, label, locals),
         UNCHANGED mapVars, UNCHANGED boxes,
         pc[t] # "d_map", label \notin DeleteAt \cup {"c_map", "c_check"}
  PROVE  MInv'
<1>1. \A name \in Live' : Kept(name)
  BY DEF Kept, Live
<1> QED
  BY <1>1, MappingsKept

-----------------------------------------------------------------------------
(* A guest's addresses are some of the network's, at least one.            *)
LEMMA GuestAddresses ==
  ASSUME NEW cfg \in Configs
  PROVE  /\ cfg.vni \in Vnis /\ Ips(cfg) \subseteq Vips /\ Ips(cfg) # {}
         /\ cfg.ips \in Seq(Vips) /\ Elems(cfg.ips) = Ips(cfg)
<1>1. cfg.vni \in Vnis /\ cfg.ips \in Seq(Vips) /\ cfg.ips # <<>>
  BY ConfigsAssumption
<1>2. DOMAIN cfg.ips = 1..Len(cfg.ips) /\ 1 \in DOMAIN cfg.ips
      /\ \A i \in DOMAIN cfg.ips : cfg.ips[i] \in Vips
  BY <1>1
<1> QED
  BY <1>1, <1>2 DEF Ips, Elems

(* A creation maps its guest's addresses one by one.                       *)
LEMMA MapOne ==
  ASSUME IInv, MInv, NEW t \in Threads, CreateMap(t)
  PROVE  MInv'
<1> DEFINE cfg == arg[t].cfg  q == arg[t].todo  rest == Tail(q)
           locals == [arg[t] EXCEPT !.todo = rest]
           phys == [ether |-> cfg.mac, ip |-> Self]
<1>1. /\ pc[t] = "c_map" /\ q # <<>> /\ Add(Head(q), cfg.vni, phys)
      /\ Goto(t, "c_map", locals) /\ boxes' = boxes
  BY DEF CreateMap
<1>2. /\ arg[t] = [cfg |-> cfg, todo |-> q] /\ cfg \in Configs
      /\ cfg.vni \in Vnis /\ phys \in GuestPhysAddr
  BY <1>1, ConfigsAssumption, SelfAssumption
     DEF IInv, Locals, CreateAt, GuestPhysAddr
<1>3. /\ q \in Seq(Vips) /\ Elems(q) \subseteq Ips(cfg)
      /\ \A vip \in Ips(cfg) \ Elems(q) : Mapped(cfg.vni, vip)
  BY <1>1 DEF MInv, Todo
<1> HIDE DEF q, rest
<1>4. locals = [cfg |-> cfg, todo |-> rest]
  BY <1>2
<1> HIDE DEF locals, cfg, phys
<1>5. /\ rest \in Seq(Vips) /\ Elems(rest) \subseteq Elems(q)
      /\ Elems(q) \subseteq {Head(q)} \cup Elems(rest) /\ Head(q) \in Vips
  <2>1. Head(q) \in Vips
    BY <1>1, <1>3
  <2> QED
    BY <1>1, <1>3, <2>1, ElemsOfTail DEF rest
<1> PICK vni \in Vnis, head \in Vips : vni = cfg.vni /\ head = Head(q)
  BY <1>2, <1>5
<1>6. /\ MappingsTypeOK' /\ OwnObjects' /\ Mapped(vni, head)'
      /\ \A w \in Vnis : byVni[w] # 0 => byVni'[w] = byVni[w]
      /\ \A w \in Vnis, v \in Vips : Mapped(w, v) => Mapped(w, v)'
  <2>1. Add(head, vni, phys) /\ MappingsTypeOK /\ OwnObjects
    BY <1>1 DEF MInv
  <2> QED
    BY <1>2, <2>1, AddEffect
<1>7. /\ pc'[t] = "c_map" /\ arg'[t] = locals
      /\ \A u \in Threads \ {t} : pc'[u] = pc[u] /\ arg'[u] = arg[u]
  BY <1>1, GotoEffect DEF IInv, Locals
<1>8. \A u \in Threads \ {t} : pc[u] \notin CreateAt \cup DeleteAt
  BY <1>1, ThreadsAssumption DEF IInv, Locks, CreateAt
<1>9. \A u \in Threads : Todo(u)'
  <2>1. \A u \in Threads \ {t} : Todo(u)'
    BY <1>7, <1>8 DEF MInv, Todo, CreateAt
  <2>2. ASSUME NEW vip \in Ips(cfg) \ Elems(rest)
        PROVE  Mapped(vni, vip)'
    <3>1. vip \in Vips
      BY <1>2, GuestAddresses
    <3>2. CASE vip = head
      BY <1>6, <3>2
    <3>3. CASE vip # head
      BY <1>3, <1>5, <1>6, <3>1, <3>3
    <3> QED
      BY <3>2, <3>3
  <2>3. /\ arg'[t].cfg = cfg /\ arg'[t].todo = rest /\ Ips(cfg) = Ips(arg'[t].cfg)
        /\ rest \in Seq(Vips) /\ Elems(rest) \subseteq Ips(cfg)
    BY <1>3, <1>4, <1>5, <1>7
  <2>4. Todo(t)'
    BY <1>7, <2>2, <2>3 DEF Todo, DeleteAt
  <2> QED
    BY <2>1, <2>4
<1>10. \A name \in Live : /\ boxes[name].cfg.vni \in Vnis
                          /\ Ips(boxes[name].cfg) \subseteq Vips
  BY GuestAddresses DEF IInv, Boxes, IsBox
<1>11. Live' = Live /\ \A name \in Live : Shared(boxes[name])'
  BY <1>1, <1>6, <1>10 DEF MInv, Shared, Live
<1>12. ASSUME AddressesAreDistinct
       PROVE  Placed'
  <2> SUFFICES ASSUME NEW name \in Live
               PROVE  \A vip \in Ips(boxes[name].cfg) : Mapped(boxes[name].cfg.vni, vip)'
    BY <1>1, <1>11 DEF Placed
  <2>1. \A vip \in Ips(boxes[name].cfg) : Mapped(boxes[name].cfg.vni, vip)
    BY <1>1, <1>8, <1>12 DEF MInv, Placed, DeleteAt
  <2> QED
    BY <1>1, <1>6, <1>10, <2>1
<1> QED
  BY <1>6, <1>9, <1>11, <1>12 DEF MInv, AddressesAreDistinct

(* A deletion takes them away, and nobody else's.                          *)
LEMMA UnmapOne ==
  ASSUME IInv, MInv, NEW t \in Threads, DeleteMap(t)
  PROVE  MInv'
<1> DEFINE cfg == arg[t].cfg  q == arg[t].todo  rest == Tail(q)
           locals == [arg[t] EXCEPT !.todo = rest]
<1>1. /\ pc[t] = "d_map" /\ q # <<>> /\ Del(Head(q), cfg.vni)
      /\ Goto(t, "d_map", locals) /\ boxes' = boxes
  BY DEF DeleteMap
<1>2. /\ arg[t] = [cfg |-> cfg, todo |-> q] /\ cfg \in Configs /\ cfg.vni \in Vnis
      /\ boxes[cfg.name].cfg = cfg
  BY <1>1, ConfigsAssumption DEF IInv, Locals, Knows, DeleteAt
<1>3. q \in Seq(Vips) /\ Elems(q) \subseteq Ips(cfg)
  BY <1>1 DEF MInv, Todo, DeleteAt
<1> HIDE DEF q, rest
<1>4. locals = [cfg |-> cfg, todo |-> rest]
  BY <1>2
<1> HIDE DEF locals, cfg
<1>5. /\ rest \in Seq(Vips) /\ Elems(rest) \subseteq Elems(q)
      /\ Head(q) \in Vips /\ Head(q) \in Ips(cfg)
  <2>1. Head(q) \in Vips
    BY <1>1, <1>3
  <2> QED
    BY <1>1, <1>3, <2>1, ElemsOfTail DEF rest
<1>6. /\ MappingsTypeOK' /\ OwnObjects' /\ byVni' = byVni
      /\ \A w \in Vnis, v \in Vips :
           (w # cfg.vni \/ v # Head(q)) /\ Mapped(w, v) => Mapped(w, v)'
  BY <1>1, <1>2, <1>5, DelEffect DEF MInv
<1>7. /\ pc'[t] = "d_map" /\ arg'[t] = locals
      /\ \A u \in Threads \ {t} : pc'[u] = pc[u] /\ arg'[u] = arg[u]
  BY <1>1, GotoEffect DEF IInv, Locals
<1>8. \A u \in Threads \ {t} : pc[u] \notin CreateAt \cup DeleteAt
  BY <1>1, ThreadsAssumption DEF IInv, Locks, DeleteAt
<1>9. \A u \in Threads : Todo(u)'
  <2>1. \A u \in Threads \ {t} : Todo(u)'
    BY <1>7, <1>8 DEF MInv, Todo, CreateAt
  <2>2. Todo(t)'
    BY <1>3, <1>4, <1>5, <1>7 DEF Todo, Ips
  <2> QED
    BY <2>1, <2>2
<1>10. \A name \in Live : /\ boxes[name].cfg \in Configs
                          /\ boxes[name].cfg.name = name
                          /\ boxes[name].cfg.vni \in Vnis
                          /\ Ips(boxes[name].cfg) \subseteq Vips
  BY GuestAddresses DEF IInv, Boxes, IsBox
<1>11. Live' = Live /\ \A name \in Live : Shared(boxes[name])'
  BY <1>1, <1>6 DEF MInv, Shared, Live
<1>12. ASSUME AddressesAreDistinct
       PROVE  Placed'
  <2> SUFFICES ASSUME NEW name \in Live, name # cfg.name
               PROVE  \A vip \in Ips(boxes[name].cfg) : Mapped(boxes[name].cfg.vni, vip)'
    BY <1>1, <1>4, <1>7, <1>11 DEF Placed
  <2>1. \A vip \in Ips(boxes[name].cfg) : Mapped(boxes[name].cfg.vni, vip)
    BY <1>1, <1>8, <1>12 DEF MInv, Placed, DeleteAt, cfg
  <2>2. boxes[name].cfg.vni = cfg.vni => Head(q) \notin Ips(boxes[name].cfg)
    BY <1>2, <1>5, <1>10, <1>12 DEF AddressesAreDistinct
  <2> QED
    BY <1>1, <1>6, <1>10, <2>1, <2>2
<1> QED
  BY <1>6, <1>9, <1>11, <1>12 DEF MInv, AddressesAreDistinct

(* The control plane may add mappings at any time, but not take them.      *)
LEMMA PushOne ==
  ASSUME IInv, MInv, NEW push \in Pushes, SetV2p(push)
  PROVE  MInv'
<1>1. /\ push.vip \in Vips /\ push.vni \in Vnis /\ push.phys \in GuestPhysAddr
      /\ Add(push.vip, push.vni, push.phys)
      /\ UNCHANGED <<boxes, pc, arg>>
  BY PushesAssumption DEF SetV2p
<1>2. /\ MappingsTypeOK' /\ OwnObjects'
      /\ \A w \in Vnis : byVni[w] # 0 => byVni'[w] = byVni[w]
      /\ \A w \in Vnis, v \in Vips : Mapped(w, v) => Mapped(w, v)'
  BY <1>1, AddEffect DEF MInv
<1>3. \A name \in Live : /\ boxes[name].cfg.vni \in Vnis
                         /\ Ips(boxes[name].cfg) \subseteq Vips
  BY GuestAddresses DEF IInv, Boxes, IsBox
<1>4. Live' = Live /\ \A name \in Live : Shared(boxes[name])'
  BY <1>1, <1>2, <1>3 DEF MInv, Shared, Live
<1>5. ASSUME NEW u \in Threads
      PROVE  Todo(u)'
  <2>1. Todo(u) /\ pc'[u] = pc[u] /\ arg'[u] = arg[u]
    BY <1>1 DEF MInv
  <2>2. pc[u] = "c_map" => arg[u].cfg.vni \in Vnis /\ Ips(arg[u].cfg) \subseteq Vips
    BY GuestAddresses DEF IInv, Locals, CreateAt
  <2> QED
    BY <1>2, <2>1, <2>2 DEF Todo
<1>6. Placed => Placed'
  BY <1>1, <1>2, <1>3, <1>4 DEF Placed
<1> QED
  BY <1>2, <1>4, <1>5, <1>6 DEF MInv, AddressesAreDistinct

-----------------------------------------------------------------------------
(* The steps of a creation and of a deletion, but for the mappings.        *)
LEMMA DeviceMappings ==
  ASSUME IInv, MInv, NEW t \in Threads,
         \/ \E cfg \in Configs : CreateXde(t, cfg)
         \/ CreateCheck(t) \/ CreateRefused(t) \/ CreatePort(t)
         \/ CreateRegister(t) \/ CreateDevnet(t) \/ CreateFails(t) \/ CreatePush(t)
         \/ \E name \in Names : DeleteXde(t, name)
         \/ DeleteDevnet(t) \/ DeleteUnregister(t) \/ DeleteFails(t)
         \/ DeleteRemove(t)
  PROVE  MInv'
<1> DEFINE cfg == arg[t].cfg
<1>1. boxes' = boxes => \A name \in Live' : Kept(name)
  BY DEF Kept, Live
<1>2. pc[t] \in CreateAt \cup DeleteAt \cup {"c_check"} => cfg \in Configs
  BY DEF IInv, Locals
<1>3. pc[t] \in CreateMade \cup DeleteAt => cfg.name \in Live
  BY <1>2 DEF IInv, Knows, Live, Names, CreateAt
<1>4. pc[t] \in DeleteAt =>
        arg[t].todo \in Seq(Vips) /\ Elems(arg[t].todo) \subseteq Ips(cfg)
  BY DEF MInv, Todo
<1>5. \A name \in Names : boxes' = [boxes EXCEPT ![name] = NoBox] =>
        /\ name \notin Live' /\ \A n \in Live' : Kept(n)
  BY DEF IInv, Boxes, Kept, Live
<1>6. ASSUME NEW c \in Configs, CreateXde(t, c)
      PROVE  MInv'
  <2> DEFINE locals == [cfg |-> c, todo |-> c.ips]
  <2>1. Goto(t, "c_check", locals) /\ pc[t] = "idle" /\ UNCHANGED <<mapVars, boxes>>
    BY <1>6 DEF CreateXde
  <2>2. locals.todo = locals.cfg.ips
    OBVIOUS
  <2> HIDE DEF locals
  <2> QED
    BY <1>1, <2>1, <2>2, MappingsKept DEF DeleteAt
<1>7. CASE CreateCheck(t)
  <2>1. Goto(t, "c_map", arg[t]) /\ pc[t] = "c_check" /\ UNCHANGED <<mapVars, boxes>>
    BY <1>7 DEF CreateCheck
  <2>2. arg[t].todo = cfg.ips
    BY <2>1 DEF MInv, Todo
  <2>3. arg[t].todo \in Seq(Vips) /\ Elems(arg[t].todo) = Ips(cfg)
    BY <1>2, <2>1, <2>2, GuestAddresses
  <2> QED
    BY <1>1, <2>1, <2>3, MappingsKept
<1>8. CASE CreateRefused(t)
  <2>1. Goto(t, "idle", None) /\ pc[t] = "c_check" /\ UNCHANGED <<mapVars, boxes>>
    BY <1>8 DEF CreateRefused, Return
  <2> QED
    BY <2>1, MappingsAlone DEF DeleteAt
<1>9. CASE CreatePort(t)
  <2> DEFINE box == [cfg |-> cfg, v2p |-> byVni[cfg.vni], mac |-> FALSE,
                     devnet |-> FALSE, listed |-> FALSE, running |-> FALSE]
  <2>1. /\ Goto(t, "c_reg", arg[t]) /\ pc[t] = "c_map" /\ arg[t].todo = <<>>
        /\ boxes' = [boxes EXCEPT ![cfg.name] = box] /\ UNCHANGED mapVars
    BY <1>9 DEF CreatePort
  <2>2. cfg \in Configs /\ cfg.name \in Names
    BY <1>2, <2>1 DEF CreateAt, Names
  <2>3. \A vip \in Ips(cfg) : Mapped(cfg.vni, vip)
    BY <2>1 DEF MInv, Todo, Elems
  <2>4. byVni[cfg.vni] # 0
    BY <2>2, <2>3, GuestAddresses DEF Mapped
  <2>5. box.cfg = cfg /\ box.v2p = byVni[cfg.vni]
    OBVIOUS
  <2> HIDE DEF box
  <2>6. Made(box)
    BY <2>3, <2>4, <2>5 DEF Made, Shared
  <2>7. boxes'[cfg.name] = box /\ \A name \in Names \ {cfg.name} : boxes'[name] = boxes[name]
    BY <2>1, <2>2 DEF IInv, Boxes
  <2>8. \A name \in Live' : Kept(name) \/ Made(boxes'[name])
    BY <2>6, <2>7 DEF Kept, Live
  <2> QED
    BY <2>1, <2>8, MappingsKept DEF DeleteAt
<1>10. CASE CreateRegister(t)
  <2>1. /\ Goto(t, "c_dls", arg[t]) /\ pc[t] = "c_reg" /\ UNCHANGED mapVars
        /\ boxes' = [boxes EXCEPT ![cfg.name].mac = TRUE]
    BY <1>10 DEF CreateRegister
  <2>2. \A name \in Live' : Kept(name)
    BY <1>3, <2>1, FieldKept DEF CreateMade
  <2> QED
    BY <2>1, <2>2, MappingsKept DEF DeleteAt
<1>11. CASE CreateDevnet(t)
  <2>1. /\ Goto(t, "c_push", arg[t]) /\ pc[t] = "c_dls" /\ UNCHANGED mapVars
        /\ boxes' = [boxes EXCEPT ![cfg.name].devnet = TRUE]
    BY <1>11 DEF CreateDevnet
  <2>2. \A name \in Live' : Kept(name)
    BY <1>3, <2>1, FieldKept DEF CreateMade
  <2> QED
    BY <2>1, <2>2, MappingsKept DEF DeleteAt
<1>12. CASE CreateFails(t)
  <2>1. /\ Goto(t, "idle", None) /\ pc[t] \in CreateAt /\ pc[t] # "d_map"
        /\ UNCHANGED mapVars /\ boxes' = [boxes EXCEPT ![cfg.name] = NoBox]
    BY <1>12 DEF CreateFails, Return, CreateAt, CreateMade
  <2>2. cfg.name \in Names
    BY <1>2, <2>1 DEF Names
  <2> QED
    BY <1>5, <2>1, <2>2, MappingsKept DEF DeleteAt
<1>13. CASE CreatePush(t)
  <2>1. /\ Goto(t, "idle", None) /\ pc[t] = "c_push" /\ UNCHANGED mapVars
        /\ boxes' = [boxes EXCEPT ![cfg.name].listed = TRUE]
    BY <1>13 DEF CreatePush, Return
  <2>2. \A name \in Live' : Kept(name)
    BY <1>3, <2>1, FieldKept DEF CreateMade
  <2> QED
    BY <2>1, <2>2, MappingsKept DEF DeleteAt
<1>14. ASSUME NEW name \in Names, DeleteXde(t, name)
       PROVE  MInv'
  <2> DEFINE locals == [cfg |-> boxes[name].cfg, todo |-> boxes[name].cfg.ips]
  <2>1. /\ Goto(t, "d_dls", locals) /\ pc[t] = "idle" /\ UNCHANGED <<mapVars, boxes>>
        /\ name \in Live
    BY <1>14 DEF DeleteXde, Devs
  <2>2. boxes[name].cfg \in Configs
    BY <2>1 DEF IInv, Boxes, IsBox
  <2>3. locals.todo = boxes[name].cfg.ips /\ locals.cfg = boxes[name].cfg
    OBVIOUS
  <2> HIDE DEF locals
  <2>4. locals.todo \in Seq(Vips) /\ Elems(locals.todo) = Ips(locals.cfg)
    BY <2>2, <2>3, GuestAddresses
  <2> QED
    BY <1>1, <2>1, <2>4, MappingsKept
<1>15. CASE DeleteDevnet(t)
  <2>1. /\ Goto(t, "d_unreg", arg[t]) /\ pc[t] = "d_dls" /\ UNCHANGED mapVars
        /\ boxes' = [boxes EXCEPT ![cfg.name].devnet = FALSE]
    BY <1>15 DEF DeleteDevnet
  <2>2. \A name \in Live' : Kept(name)
    BY <1>3, <2>1, FieldKept DEF DeleteAt
  <2> QED
    BY <1>4, <2>1, <2>2, MappingsKept DEF DeleteAt
<1>16. CASE DeleteUnregister(t)
  <2>1. /\ Goto(t, "d_map", arg[t]) /\ pc[t] = "d_unreg" /\ UNCHANGED mapVars
        /\ boxes' = [boxes EXCEPT ![cfg.name].mac = FALSE]
    BY <1>16 DEF DeleteUnregister
  <2>2. \A name \in Live' : Kept(name)
    BY <1>3, <2>1, FieldKept DEF DeleteAt
  <2> QED
    BY <1>4, <2>1, <2>2, MappingsKept DEF DeleteAt
<1>17. CASE DeleteFails(t)
  <2>1. /\ Goto(t, "idle", None) /\ pc[t] \in DeleteAt /\ pc[t] # "d_map"
        /\ UNCHANGED mapVars
        /\ boxes' = boxes \/ boxes' = [boxes EXCEPT ![cfg.name].devnet = TRUE]
    BY <1>17 DEF DeleteFails, Return, DeleteAt
  <2>2. \A name \in Live' : Kept(name)
    BY <1>1, <1>3, <2>1, FieldKept
  <2> QED
    BY <2>1, <2>2, MappingsKept DEF DeleteAt
<1>18. CASE DeleteRemove(t)
  <2>1. /\ Goto(t, "idle", None) /\ pc[t] = "d_map"
        /\ UNCHANGED mapVars /\ boxes' = [boxes EXCEPT ![cfg.name] = NoBox]
    BY <1>18 DEF DeleteRemove, Return
  <2>2. cfg.name \in Names
    BY <1>2, <2>1 DEF Names, DeleteAt
  <2> QED
    BY <1>5, <2>1, <2>2, MappingsKept DEF DeleteAt
<1> QED
  BY <1>6, <1>7, <1>8, <1>9, <1>10, <1>11, <1>12, <1>13, <1>14, <1>15, <1>16,
     <1>17, <1>18

(* The underlay and packets do not touch the mappings.                     *)
LEMMA OtherMappings ==
  ASSUME IInv, MInv, NEW t \in Threads,
         \/ SetUnderlay(t) \/ OpenNext(t) \/ CloseNext(t) \/ SetUnderlayEnd(t)
         \/ \E name \in Names : \E src, dst : TxGateway(t, name, src, dst)
         \/ \E hop : TxEncap(t, hop)
         \/ TxLoopback(t) \/ TxDrop(t) \/ Delivered(t)
         \/ \E dst \in Vips, vni \in Vnis, mac \in Macs : Rx(t, dst, vni, mac)
  PROVE  MInv'
<1> DEFINE Places == {"idle", "setup", "unwind"} \cup SendAt
<1>1. CASE \/ SetUnderlay(t) \/ OpenNext(t) \/ CloseNext(t) \/ SetUnderlayEnd(t)
  <2>1. /\ UNCHANGED <<mapVars, boxes>> /\ pc[t] # "d_map"
        /\ \E label \in Places : \E locals : Goto(t, label, locals)
    BY <1>1 DEF SetUnderlay, OpenNext, CloseNext, SetUnderlayEnd, Return
  <2>2. PICK label \in Places : \E locals : Goto(t, label, locals)
    BY <2>1
  <2>3. PICK locals : Goto(t, label, locals)
    BY <2>2
  <2> QED
    BY <2>1, <2>3, MappingsAlone DEF DeleteAt, SendAt
<1>2. ASSUME NEW name \in Names, NEW src, NEW dst, TxGateway(t, name, src, dst)
      PROVE  MInv'
  <2>1. /\ UNCHANGED <<mapVars, boxes>> /\ pc[t] = "idle"
        /\ \E locals : Goto(t, "t_encap", locals)
    BY <1>2 DEF TxGateway
  <2>2. PICK locals : Goto(t, "t_encap", locals)
    BY <2>1
  <2> QED
    BY <2>1, <2>2, MappingsAlone DEF DeleteAt
<1>3. ASSUME NEW hop, TxEncap(t, hop)
      PROVE  MInv'
  <2>1. /\ UNCHANGED <<mapVars, boxes>> /\ pc[t] = "t_encap"
        /\ \E label \in {"idle", "t_loop"} : \E locals : Goto(t, label, locals)
    BY <1>3 DEF TxEncap, Return
  <2>2. PICK label \in {"idle", "t_loop"} : \E locals : Goto(t, label, locals)
    BY <2>1
  <2>3. PICK locals : Goto(t, label, locals)
    BY <2>2
  <2> QED
    BY <2>1, <2>3, MappingsAlone DEF DeleteAt
<1>4. CASE \/ TxLoopback(t)
           \/ \E dst \in Vips, vni \in Vnis, mac \in Macs : Rx(t, dst, vni, mac)
  <2>1. PICK pkt : Receive(t, pkt) /\ pc[t] \in {"idle", "t_loop"}
    BY <1>4 DEF TxLoopback, Rx
  <2>2. PICK locals : Goto(t, "deliver", locals)
    BY <2>1 DEF Receive
  <2> QED
    BY <2>1, <2>2, MappingsAlone DEF Receive, DeleteAt
<1>5. CASE TxDrop(t) \/ Delivered(t)
  <2>1. /\ UNCHANGED <<mapVars, boxes>> /\ pc[t] \in SendAt /\ Goto(t, "idle", None)
    BY <1>5 DEF TxDrop, Delivered, Return, SendAt
  <2> QED
    BY <2>1, MappingsAlone DEF DeleteAt, SendAt
<1> QED
  BY <1>1, <1>2, <1>3, <1>4, <1>5

LEMMA MappingsNext == IInv /\ MInv /\ [Next]_vars => MInv'
<1> SUFFICES ASSUME IInv, MInv, [Next]_vars PROVE MInv'
  OBVIOUS
<1>1. ASSUME NEW t \in Threads, CreateMap(t)
      PROVE  MInv'
  BY <1>1, MapOne
<1>2. ASSUME NEW t \in Threads, DeleteMap(t)
      PROVE  MInv'
  BY <1>2, UnmapOne
<1>3. ASSUME NEW push \in Pushes, SetV2p(push)
      PROVE  MInv'
  BY <1>3, PushOne
<1>4. ASSUME NEW name \in Names, McStart(name) \/ McStop(name)
      PROVE  MInv'
  <2>1. /\ UNCHANGED <<byVni, v2ps, pc, arg>> /\ name \in Live
        /\ \E v : boxes' = [boxes EXCEPT ![name].running = v]
    BY <1>4 DEF McStart, McStop, mapVars
  <2>2. PICK v : boxes' = [boxes EXCEPT ![name].running = v]
    BY <2>1
  <2>3. \A n \in Live' : Kept(n)
    BY <2>1, <2>2, FieldKept
  <2> QED
    BY <2>1, <2>3, MappingsUnmoved
<1>5. CASE Attach \/ UNCHANGED vars
  <2>1. UNCHANGED <<byVni, v2ps, pc, arg, boxes>>
    BY <1>5 DEF Attach, vars, mapVars
  <2> QED
    BY <2>1, MappingsUnmoved DEF Kept, Live
<1>6. CASE Detach
  <2>1. /\ Devs = {} /\ \A t \in Threads : pc[t] = "idle"
        /\ byVni' = [vni \in Vnis |-> 0] /\ v2ps' = <<>>
        /\ UNCHANGED <<boxes, pc, arg>>
    BY <1>6 DEF Detach
  <2>2. Live' = {}
    BY <2>1 DEF IInv, Settled, Devs, Live, CreateMade
  <2>3. MappingsTypeOK' /\ OwnObjects'
    BY <2>1 DEF MappingsTypeOK, OwnObjects
  <2>4. \A t \in Threads : Todo(t)'
    BY <2>1 DEF Todo, DeleteAt
  <2> QED
    BY <2>2, <2>3, <2>4 DEF MInv, Placed
<1> QED
  BY <1>1, <1>2, <1>3, <1>4, <1>5, <1>6, DeviceMappings, OtherMappings DEF Next

LEMMA InitMInv == Init => MInv
<1> SUFFICES ASSUME Init PROVE MInv
  OBVIOUS
<1>1. Live = {} /\ \A t \in Threads : pc[t] = "idle"
  BY DEF Init, Live
<1>2. MappingsTypeOK /\ OwnObjects
  BY DEF Init, MappingsInit, MappingsTypeOK, OwnObjects
<1>3. \A t \in Threads : Todo(t)
  BY <1>1 DEF Todo, DeleteAt
<1> QED
  BY <1>1, <1>2, <1>3 DEF MInv, Placed

(* Whatever is created, deleted or set, in whatever interleaving, a port   *)
(* encapsulates with the mappings its VPC has now (VpcMappings::add() and  *)
(* del(), create_xde()).                                                   *)
THEOREM PortsShare == Spec => []PortsShareMappings
<1>1. MInv => PortsShareMappings
  BY DEF MInv, PortsShareMappings, Shared
<1> QED
  BY <1>1, InitMInv, MappingsNext, Inductive, PTL DEF Spec

(* If the control plane gives no address of a VPC to two guests, a listed  *)
(* device keeps its mappings until it is deleted, whatever creations fail  *)
(* and whatever is set meanwhile (create_xde(), delete_xde(),              *)
(* set_v2p_hdlr()).                                                        *)
THEOREM ListedStaysMapped ==
  ASSUME AddressesAreDistinct
  PROVE  Spec => []ListedIsMapped
<1>1. ASSUME IInv, MInv
      PROVE  ListedIsMapped
  <2> SUFFICES ASSUME writer = None, NEW name \in Devs, NEW vip \in Ips(boxes[name].cfg)
               PROVE  Lookup(boxes[name].v2p, vip) # NoPhys
    BY DEF ListedIsMapped
  <2>1. name \in Live /\ Shared(boxes[name])
    BY <1>1 DEF MInv, Devs
  <2>2. \A t \in Threads : pc[t] # "d_map"
    BY <1>1, ThreadsAssumption DEF IInv, Locks, DeleteAt
  <2>3. Mapped(boxes[name].cfg.vni, vip)
    BY <1>1, <2>1, <2>2, AddressesAreDistinct DEF MInv, Placed
  <2> QED
    BY <2>1, <2>3 DEF Shared, Mapped
<1> QED
  BY <1>1, InitMInv, MappingsNext, Inductive, PTL DEF Spec
=============================================================================

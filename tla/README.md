# OPTE in TLA+

This directory models the Oxide Packet Transformation Engine: the core engine
(`opte/`), the VPC network built from it (`oxide-vpc/`) and the way the kernel
driver (`xde/`) uses both. TLC checks small instances of the models, and TLAPS
proves the results that should hold for every size.

Paths below are relative to the repository's root; `engine/` stands for
`opte/src/engine/` and `vpc/` for `oxide-vpc/src/engine/`.

## The system

A guest's virtual NIC is an `xde` device. Each device owns a **port**. A port
has an ordered list of **layers**; a layer has an inbound and an outbound
**rule table** and a **layer flow table** (LFT). The first packet of a flow goes
through the layers (outbound: gateway, firewall, router, NAT, overlay; inbound
in reverse); the transformations they decide are compiled into an entry of the
port's **unified flow table** (UFT), which later packets use instead of the
layers. TCP flows are tracked besides. Rule changes bump the port's **epoch**,
and a UFT entry of another epoch is recomputed. The kernel calls in from many
threads; one lock covers a port's data, and the epoch is an atomic outside it.

### Inventory

| Component | State | Operations | Called by, calls | What is hard | What makes it correct |
|---|---|---|---|---|---|
| Rule table (`engine/layer.rs` 1473-1686, `engine/rule.rs`) | vector of rules with ids, next id | add, remove, set_rules, find_match, find_rule | layer; router, firewall | order kept by insertion position; ids held across lock acquisitions | the first match is the best match; an id never names another rule |
| Layer flow table (`engine/layer.rs` 161-350, `engine/flow_table.rs`) | two maps of paired entries, a counter, a statistic | add_pair, get_in, get_out, expire_flows, clear | layer | pairs with two keys, a counter beside the maps, expiry decided on one side | pairs stay pairs; the counter is the number of flows |
| NAT layer (`engine/snat.rs`, `engine/nat.rs`, `vpc/nat.rs`) | LFT, pool of ports | process packet, obtain, release by drop | port | resources freed by reference count; ICMP without ports; failure half-way | a port has one owner; replies return; no port is lost |
| Firewall layer (`vpc/firewall.rs`, `engine/layer.rs`) | rules, LFT | process packet, add/remove/set rules, expire, clear | port | rule changes against open flows; full table | it is a stateful filter |
| Router layer (`vpc/router.rs`) | outbound rules | add_entry, del_entry, replace | xde ioctl; port | priority computed from prefix length; delete under two locks | longest prefix wins; a delete removes what was asked |
| TCP tracking (`engine/tcp_state.rs`) | state, last seq/ack per direction | process(segment) | port | loss, retransmission, reordering, simultaneous close | legal traffic passes; no unwrap of an unknown number; closing states mean what they say |
| Port (`engine/port.rs`) | state, layers, UFTs, TCP flows, epoch | process, add/remove/set rules, pause, start, reset, clear_uft, expire_flows | xde; layers | packets race with rule changes; three tables name one flow; full tables | no packet evades the firewall; tables agree; states mean what they say |
| Overlay, VPC mappings (`vpc/overlay.rs`) | per-VNI map of virtual to physical addresses | add, del, ip_to_vni, get, encapsulate, decapsulate | xde; port | shared by all ports, changes under cached UFT entries | traffic reaches the host that has the address |
| Gateway layer (`vpc/gateway/`, `engine/{arp,dhcp,icmp,icmpv6}.rs`, `engine/dhcpv6/`, `engine/predicate.rs`) | rules, fixed | answer ARP, DHCP, DHCPv6, NDP, pings; check the guest's addresses | port | handlers written apart that one guest uses together; frames that hit the UFT never meet the layer | a guest gets configured, and what it was told works |
| Packets, headers, checksums (`engine/packet.rs`, `engine/headers.rs`, ...) | one packet | parse, transform, emit | port | offsets, segments, incremental checksums | headers and body stay whole and located; lengths are right, and checksums as right for the receiver as they came |
| DHCPv6 messages (`engine/dhcpv6/`) | one message | parse, find options, reply, write | gateway layer | nested options; a buffer allocated from lengths computed apart from the writing | taken as meant, written as meant; an offer is kept |
| Prefixes (`opte-api/src/ip.rs`) | none | mask, is_member, is_default | router, gateway layer, predicates | lengths that cut an octet, or at either end | an address is in a subnet if it starts with its bits |
| xde driver (`xde/src/xde.rs`) | devices, underlay, VPC map | create, delete, set underlay, attach, detach, receive, transmit, periodic | kernel; port | failures half-way through creation and removal | devices, mappings and handles agree |
| Administration (`opteadm/`, `opte-ioctl/`, `engine/ioctl.rs`, the rest of `opte-api/`, `oxide-vpc/src/api.rs`) | none | requests, parsing, printing | operator; xde | - | - |
| Bindings (`xde/src/ip.rs`, `illumos-sys-hdrs/`, `opte/src/ddi/`, `kstat-macro/`) | none | declarations, wrappers | all | - | - |

How they interact: `xde` calls `Port::process` for each packet, the rule
functions of `vpc/router.rs` and `vpc/firewall.rs` for control requests, and
`Port::expire_flows` once a second (`expire_periodic`, `xde/src/xde.rs`
452-457). The port calls the layers under its lock; a layer calls its rule
tables and its LFT; NAT actions call the pool, which every drop of a descriptor
calls back.

`PROJECT.json` lists the hazards found in this code, each at its line and with
the properties that would notice it going wrong.

## The modules

| Module | Models | Builds on |
|---|---|---|
| `RuleOrder` | order, search and insertion of a rule table, as operators | community modules |
| `RuleTable` | one rule table under any calls | `RuleOrder` |
| `Cidr` | arithmetic of prefixes, as operators | |
| `Router` | the routes of a port and callers that delete some; a refinement of `RuleTable` | `RuleTable`, `Cidr` |
| `LayerFlowTable` | the LFT and its operations | |
| `StatefulFilter` | what a stateful firewall promises (abstract specification) | |
| `FirewallLayer` | the firewall layer; implements `StatefulFilter` | `LayerFlowTable` |
| `NatLayer` | the NAT layer with its pool | `LayerFlowTable` |
| `TcpState` | the TCP state machine, as functions | |
| `TcpFlow` | one tracked flow under arbitrary segments | `TcpState` |
| `TcpConn` | a connection between guest and remote, seen by the tracking | `TcpFlow` |
| `Port` | packets of several threads, UFTs, TCP flows, epoch, rule changes | `TcpState` |
| `VpcMappings` | the virtual-to-physical mappings of a host | |
| `Xde` | the driver of a host: device list, underlay, life cycle, packets | `VpcMappings` |
| `Pipeline` | the layers of a port under its UFT: what they keep for a flow, and what is left when one of them drops it | `LayerFlowTable`, twice |
| `Gateway` | the gateway layer's rules and answers, and a guest that configures itself by them | `RuleOrder` |
| `Checksum` | one's-complement sums as the code computes them, as operators | |
| `Packet` | a packet's segments, offsets, lengths and checksums from wrapping to emission | `Checksum` |
| `Dhcpv6` | DHCPv6 messages as they are parsed, answered and written, and a client | community modules |
| `*_proofs` | theorems and their proofs | their module |
| `MC*` | values and symmetry for TLC | their module |

Correspondence of state and actions (definition by definition in
`PROJECT.json`, "map"):

- **RuleTable.** `rules` is the vector, `nextId` the id counter. `set_rules()`
  clears and adds one rule after another; `pending` holds the rest, and since
  the port's lock is held no other action runs meanwhile. A rule is its
  priority, whether it denies, and the set of its predicates; `find_match()` is
  told which predicates a packet satisfies.
- **Cidr.** `Shifted` is the arithmetic shift of a signed integer with the distance
  modulo the width, and `DecU8` the subtraction of a release build (the workspace
  sets no overflow checks). The IPv4 functions compute with the whole address, the
  IPv6 ones with one octet at a time; both are given addresses of one width, where
  the code has 32 and 128 bits: no rule of one family matches a packet of the other.
- **Router.** Its rules are the variables of `RuleTable`, whose actions it calls. A
  route is the rule `make_rule()` gives: priority from prefix length, one predicate.
  `del_entry()` is two actions, since it takes the lock twice, and `asked` is what
  its callers hold in between; the destination and the target in it are ghosts, the
  code keeps the id.
- **LayerFlowTable.** The maps are functions from flows to an entry or
  `NoEntry`; `last_hit` is an age that stops at the TTL. The inbound side's age
  is left out because `expire_flows()` never looks at it.
- **NatLayer.** Ports returned by `Drop` are those that no table entry holds
  any more after a step (`ReleaseDropped`). Which free port is handed out is
  left open, though the code takes the last of its list. `externalIp` is the
  configuration, fixed at the start. `idents` is a ghost.
- **FirewallLayer.** Rules amount to the flows they let through in each
  direction; the order of rules is `RuleTable`'s subject. Packets without IP
  are left out: they reach the firewall only with the proxy ARP of the
  external-address workaround.
- **TcpState, TcpFlow, TcpConn.** `FlowIn` and `FlowOut` are the transitions.
  `guest_ack` and `remote_seq` are written and never read, and left out.
  `TcpConn` adds two endpoints that keep to the protocol and lose, repeat and
  reorder segments, and stray segments after which nothing is assumed any more;
  its actions are no code of the repository.
- **Port.** `process()` is two steps, `Arrive` (the epoch is read) and the rest
  (the lock is held). The layers are reduced to the firewall and to the verdict
  of all the others; NAT shows in the key a flow has on the network side
  (`Translated`). A rule change holds the lock half-way in `lock`, since the
  epoch moves at another moment than the rules and can be read without the
  lock. A failed `unwrap()` sets `panicked`, and then nothing happens any more.
  `accepted` and `pkt[t].ok` are ghosts that remember what the firewall has
  accepted since the last rule change and whether a packet's flow was accepted
  while the packet was under way.
- **VpcMappings.** A `Virt2Phys` is named by its position among those ever made,
  because ports hold references to it. IPv4 and IPv6 addresses are members of
  one set: the two maps of a `Virt2Phys` are never used together.
- **Xde.** A thread runs a handler in steps, `pc` and `arg` being its program
  counter and locals; `mutex`, `writer` and `readers` say who holds the
  underlay's mutex and the lock of `xde_devs`. Every call into mac or DLS is a
  step with an action for its success and one for its failure (`OpenNext`,
  `CreateFails`, `DeleteFails`), and so is each address that is mapped, since
  the mappings have a lock of their own. A device is a `Box` from `new_port()`
  on and is in the list when `listed` is set. A port is reduced to what the
  driver sees of it: it processes packets while it runs, the gateway layer
  checks the guest's address, the router picks any target, the overlay looks it
  up, and any layer may drop the packet (`TxDrop`). These are packets that the
  layers process; one that hits the UFT uses a target looked up before.
  The tunable `ext_ip_hack` and passthrough are off.
- **Pipeline.** The firewall and the NAT layer each have an instance of
  `LayerFlowTable`, the NAT layer its pool (`free`); `route` and `allow` are what
  the router and the firewall's rules say of a flow. A UFT entry is `current`
  while no rule has changed since it was made. A packet is one step, since the
  port's lock is held: it hits the UFT and touches nothing else, or goes through
  the layers up to the one that drops it, and keeps what the earlier ones did. The
  overlay may drop any packet to another guest, as the mappings are not part of
  the model. `cut` is a ghost: flows whose firewall state was cleared while the
  NAT layer kept its entry; `quiet` is set when traffic and requests have stopped.
  Left out, and in `Port` or `NatLayer`: the epoch race, TCP tracking, full UFTs,
  one-to-one NAT and packets without a flow id.
- **Gateway.** A frame is the headers that predicates look at, a message type and
  what an answer depends on; a predicate is a field and the values it may have.
  `OutTable` is made by the insertion of `RuleOrder` from the rules in the order
  `setup_ipv4()` and `setup_ipv6()` add them, and the first match decides, as it
  does in the code. `Send` is the port around the layer: a frame that has a UFT
  entry goes past it, an answer is queued for the guest, and what the layer passes
  may get an entry. The guest is not code of the repository: it follows RFC 2131,
  4861 and 8415 as clients do, times out and starts again at any time, and sends
  whatever else it likes (`Stray`). The queue to it loses answers, hands them over
  in any order, and makes room for a new one. The layer is that of a guest with
  both address families, one of which it uses.
- **Checksum.** Sums of words of any width with end-around carry; the `u32` that
  rolls is a natural number. The odd last byte and the byte order are left out.
- **Packet.** A packet is a list of segments, each with free room in front and
  cells; a header and a word of the body are a cell each, and a header's cell says
  what is on the wire. `meta`, `offs`, `body` and `bodyCsum` are the fields of the
  same names. A guest sends any chain it may (`Init`); from parsing on each step is
  a function of the code (`Parse`, `Transform`, `EmitGrown`, `EmitPrepended`,
  `EmitShrunk`, `EmitSame`). After emission the packet reaches the other port by
  loopback as it is, or over a network that cuts it anew. Checksums of both kinds
  are right, absent or wrong from the start. Whether one of TCP or UDP is right is
  judged as a receiver does, by the length of what it was given
  (`ReceivedPseudo`), while the code goes by the length in the IP header
  (`Pseudo`).
  A failed `unwrap()` ends the packet (`WrapPanics`, `HdrSegPanics`). Left out:
  options and extension headers, ARP, allocation, and fields no property tells
  apart.
- **Dhcpv6.** A field is a cell, and an option its code, the cells it starts with
  and the options nested in it; types that are treated alike share a clause.
  `OptionsFrom` is the loop that `Message` and the three containers have, `CopyAll`
  the one that writes; both step by `BufferLen`, as the code does. What is recursive in
  the code is a function of the *rank* of a list of options (`Options`), which is more
  than that of its tail and of what is nested in its head; what is done to one option
  is an operator that gets the function for what is nested. A result that may fail is
  a set of at most one element. `Serve` is the whole hairpin action: parse,
  process, allocate, write, and the `unwrap()` of what the writing returns. The client
  encodes options as RFC 8415 has them, and goes on with what the server sent.

## What TLC checks

| Run | Question | Instance |
|---|---|---|
| `router` | Is the first match of a rule table the best one, do ids stay with their rule, do priorities make longest-prefix match, do concurrent deletes remove what they were asked to? | 4-bit addresses of 2 octets, prefixes of lengths 0, 1 and 3 in both families, 3 targets, 2 callers, batches of 2, 3 routes ever: ties and non-ties of priority and action, removal before, between and after |
| `firewall_layer` | Is the firewall a stateful filter (`FilterSpec`, refinement of `StatefulFilter`)? | 3 flows, room for 2, TTL 2 |
| `nat` | One owner per port, replies that return, consistent tables, idle flows that leave | 2 remotes, 2 private ports and ICMP, 2 public ports, room for 3, TTL 2, with and without an external address: the pool runs dry before the table is full, and the table gets full |
| `tcp_conn` | Is legal traffic let through; do state and sequence numbers agree whatever arrives? | 6 sequence numbers with the first at 4, so that they wrap; 2 segments of data |
| `port` | Does the firewall hold when packets race with rule changes; do UFT, TCP table and port state agree, up to the packet that finds a table full? | 2 threads, 1 TCP flow and 1 other, segments that open a flow, close it or carry no flag, every table holds 1, 1 epoch change |
| `xde` | Can the device list be trusted whenever its lock is free; do ports and mappings agree; do packets reach their guest; what does a failed set-up leave? | 2 threads, 2 VPCs with a common address and a common MAC address, a dual-stack guest, requests that clash by name or by VNI and MAC, a control plane that moves an address away |
| `pipeline` | Do the tables of the layers stay in step under the UFT, so that replies pass and no port is lost? | 2 flows to 1 remote, 1 public port, room for 2 in each layer, TTL 1: one flow waits for the port of the other |
| `pipeline_quiet` | Does the periodic empty everything once traffic and requests stop? | 1 flow, 2 public ports, room for 1 in the NAT layer, TTL 1 |
| `gateway` | Does a guest get configured, does what it was told work, and can its own traffic get in the way? | 4 guests (IPv4 with and without the broadcast flag, IPv6 with and without Rapid Commit and an EUI-64 address), 2 transaction ids, 2 answers on the way, 1 UFT entry |
| `packet` | Are headers, body, offsets, lengths and checksums right after emission (the TCP and UDP sums of IPv6 only if the length was as emission writes it), and is only a packet of an odd shape lost? | words of 3 bits, bodies of up to 2 cells, rooms 0, 2 and 3, up to 5 segments from a guest, one more than the list holds, and up to 3 from the network |
| `packet_ip6` | Is the payload length of IPv6 right? It is not: see below | the same |
| `dhcpv6` | Is every message taken for what it says, every reply written, every offer kept? | messages of up to 4 of 13 options: known, unknown, repeated, empty, nested in one and two levels, in any order; 2 leases, 2 DNS servers |

Two flows and two threads are what a race or a collision in this code takes:
every table operation touches one flow (or one and its pair), and what one
thread can disturb is what it read before the lock, the epoch. A rule change is
enough for an epoch to be out of date, and the theorems of
`Port_proofs` cover any number of all of these. `MaxEpoch`, `MaxId`,
`MaxStat` and `MaxData` bound counters that grow for ever in the code. In `dhcpv6`,
`Nesting` bounds the rank of what a client nests; `MaxRank`, where the recursion
starts, follows from the other bounds and is above the rank of any message
(`MessageRank` in `Wire_proofs`). In
`gateway`, a queue of two is what loss and a change of order take, and every frame
that is kept from the layer is so by one entry. In `packet`, the three rooms are
too little, just enough and more than enough for the headers that are pushed.
Deadlock is checked except in `port`, where the kernel may have panicked, and in
the runs of `Packet`, where a packet ends. An octet of two bits is cut in the only
way it can be; what differs for eight is how often. `MCRouter` also has TLC check,
for that width and every prefix and address of both families, that masks compute
prefixes (`Cidr!MembersShareBits`).

### Where the code does not do what it says

One run checks a statement of the repository's own comments and TLC shows a
behaviour that breaks it (PROJECT.json, "findings", has the quotes):

- `packet_ip6`: the payload length of an emitted IPv6 header counts the 40 bytes
  of the base header (`engine/packet.rs` 1437 and 1367 against `engine/ip6.rs`
  384-385 and 148-151). The wrong length goes into the TCP or UDP checksum as well
  (1050-1053, `engine/ip6.rs` 133-146), so that one that was right is wrong for the
  receiver of an IPv6 packet: `Packet!Ip6ChecksumsFollow`, which TLC refutes in four
  states.

Others are stated as definitions that no run checks, each of which TLC refutes:

- `Router!DeleteIsExact`: `del_entry()` deletes a route to another target
  (`vpc/router.rs` 302).
- `NatLayer!EchoIdentRestored`: two echo identifiers to one remote are mixed up
  (`engine/snat.rs` 603-604, 620).
- `Port!UftIsTracked` with `Translated = TRUE`: behind NAT the inbound UFT entry
  outlives its connection (`engine/port.rs` 1449, 2147-2148).
- `Xde!MetaIsOwnVni`: the firewall is given the VNI of another VPC on the host that
  uses the destination's address, although the two are not peered
  (`vpc/overlay.rs` 483-486).
- `Pipeline!ActiveFlowIsKept`: a busy flow whose packets all hit the UFT loses its
  entries in the layers (`engine/layer.rs` 408-409).
- `Packet!EchoIsSummed`: of an ICMP echo in several segments only the first is
  summed (`engine/packet.rs` 313-314, `engine/snat.rs` 623).
- `Gateway!EchoIsAnswered`: of a guest's link-local addresses only the EUI-64 one
  may ping (`vpc/gateway/icmpv6.rs` 34-36, "either any link-local address").
- `Gateway!SolicitIsAnswered`: neighbour solicitations from the guest's own VPC
  address, which RFC 4861 prefers, are sent on to the network (40-43).
- `Gateway!RenewIsAnswered`: a DHCPv4 lease of a day cannot be renewed
  (`engine/dhcp.rs` 244-249, 315-321).
- `Dhcpv6!ConfirmIsAnswered`: a DHCPv6 Confirm is dropped although its IA_NA has
  addresses, since they are looked for one level too deep
  (`engine/dhcpv6/protocol.rs` 504-526 against 479-481).
- `Cidr!NetmaskIsMask`: the netmask of a prefix of length 0 has all bits set, or the
  computation panics where overflow is checked (`opte-api/src/ip.rs` 839 and 926
  against 836). The only caller is given the length 32.
- `Gateway!EchoMeetsLayer`: an ICMP message to the gateway that is no ping leaves a
  UFT entry that takes later pings past the gateway layer.

Further disagreements are visible in the models without a run of their own. The
comment of `add_rule()` promises that packets processed after the call use the
new rules, and a packet that read the epoch before still uses the old entry
(`Arrive`, `AddRule`, `InHit`): `FirewallHolds` states the weaker promise that
is kept, that the rules in force at some time while the packet was under way
accept it. Full UFT and TCP tables panic the kernel where the documentation of
`ProcessResult` speaks of a drop (`UnwrapFailsIn`, `UnwrapFailsOut`). Nothing
ends a flow in TIME_WAIT whose peers are silent (`Expire` leaves `tcp` alone).
`set_rules()` leaves the flows statistic of a layer as it was
(`FirewallLayer!SetRules`). An ICMP message that is no echo costs the NAT pool a
port (`OutSNatNotEcho`). The sequence number the TCP tracking compares the final
ACK with is that of the last segment, so that after a retransmission of old data
the flow stays in LAST_ACK (`TcpFlow!Record`). A device whose creation fails
leaves its mappings (`CreateFails`); one whose deletion fails twice has no devnet
any more and cannot be deleted (`DeleteFails`); a deletion takes away the mapping
of its address even after the control plane has pointed it elsewhere
(`DeleteMap`). Setting up the underlay forgets the handle of the first port when
the second cannot be opened (`Unwinding`). A checksum that is computed to zero is
what the next hop reads as "none", and the sum of a body with an odd number of
bytes is subtracted as if it were even; `Checksum` leaves both out.

### What the driver's model takes from its environment

`Detach` waits for all threads, since the kernel detaches no driver that a request
is in and removing a callback waits for it. A device can be opened from
`dls_devnet_create()` on, through its devnet (`McStart`); mac refuses to
unregister a device that is open (`DeleteUnregister`) and stops one only after its
packets have returned (`McStop`). Two devices of a VPC have different addresses:
nothing in the driver checks that, and `ListedIsMapped` would not hold without.
No fairness is assumed: the properties of `Xde` are safety properties.

### Fairness

`nat` assumes weak fairness of expiry and of time (`NatLayer!FairSpec`): the
driver registers `expire_periodic` with the kernel for once a second, for as
long as the port exists. The periodic's call fails while a port is paused; the
layer of a paused port sees no packets either, so its flows just wait.
`pipeline_quiet` assumes the same of `Pipeline!Expire` and `Age`, and nothing of
packets or requests.

`gateway` assumes of the guest, not of the code, that it goes on asking for what
it lacks (weak fairness of `Discover`, `Solicit`, and of asking for the router
while it knows none or no MAC address for it, from its link-local address as well),
and of the link that it does not lose every answer: an answer that is there again
and again is taken at last (strong fairness of the `Take` actions). The code only
has to answer. Nothing is assumed about UFT entries, which may stay for ever.

## What TLAPS proves

The proofs hold for every value of the constants that the named assumptions of
the modules allow (limits that are not zero, special values that are no member
of the sets they mark, natural numbers).

- **`RuleTable_proofs`.** Of the table: `TypeCorrect`, `FirstMatchIsBest`,
  `IdsNeverReused`. `MatchIsBest` speaks of one packet and is not inductive; the
  invariant is `Ordered`, that every entry outranks those behind it. Inserting at
  `FindPos` keeps it because the entries ahead outrank the new one
  (`FindPosSplits`) and those behind follow by transitivity. Of the router:
  `RouterIsATable`, that `Router` implements `RuleTable`, so that all of this holds
  of routes. Of `Cidr`: `PrefixesAreShared`, which is `MembersShareBits` for any
  number of octets of any width. Both masks come to `Masked`, the address less its
  remainder: the shift of the signed minimum is all ones but for the lowest bits
  (`ShiftedIsMask`), and with those `BitAnd` takes the remainder away, by induction
  over the bits it adds up (`AndMask`); the octets are joined by induction over how
  far they reach, with the octet that is cut in two where the mask is applied
  (`Mask6Clears`). `LongestRouteWins` follows from this and `MatchIsBest`, as
  priorities fall with the length. The provers know nothing of powers; that
  `2^(n+1)` is twice `2^n` is taken from the library's theorem on the number of
  subsets (`FS_SUBSET`). `DeletesItsDest` needs that ids are unique (`Unique`) and
  an invariant about what callers hold (`HeldOK`): an id that was issued, and under
  which the table has a route for the destination or none.
- **`Layers_proofs`.** Of `NatLayer`: `TypeCorrect`, `PortsExclusive`,
  `TablesPaired`, `CounterExact`, `RepliesReturn`, from `IInv`: the conjuncts need
  one another and `WellFormed`, which says how each entry was made. That a new
  inbound key is free follows from the port being free, or from the flow having no
  entry. Of `FirewallLayer`: `LayerIsAFilter`, that the layer implements
  `StatefulFilter`, for any flows, limit and TTL. The open flows are those with an
  outbound entry. `FInv` is what the refinement needs: both sides have entries for
  the same flows, or a packet could be let through in one direction and judged by
  the rules in the other, and the counter is the number of outbound entries, or
  flows would be refused before the table is full. An entry is its own partner's
  flow, so that expiry takes both sides. `FilterIsTyped` gives the types, for which
  the flows statistic must not fall behind the counter.
- **`TcpConn_proofs`.** Of the tracking alone, whatever segments arrive:
  `TypeCorrect`, `UnwrapIsSafe`, `FinsAreSeen`, for any number of sequence numbers;
  no state that unwraps is reached before the guest has sent. Of a connection that
  keeps to the protocol: `ConnIsAFlow`, that it is one of the flows those theorems
  are about, and `LegalTrafficIsLetThrough`. The invariant `ConnInv` says which
  states of the tracking go with which progress of the endpoints: nothing before
  the SYN, and in `LastAck` the recorded sequence number is one the guest sent. A
  flow is forgotten only once the remote has acknowledged more than the guest's
  SYN, so no SYN is sent again to a flow that is gone. Numbers are compared modulo
  `W`, offsets are not: `SameResidue` and `CoveredIsNext` need that the data does
  not wrap around (`MaxData + 2 < W`).
- **`Port_proofs`.** `TypeCorrect` and `FirewallIsNotBypassed`, for any
  threads, flows and limits. The invariant ties what the tables hold to the
  ghost: the firewall's flows and every UFT entry of the current epoch were
  accepted in this epoch, and a packet with an entry of the epoch it read is one
  whose flow was accepted then or since.
  Of what the tables hold: `ReadyIsEmpty`, `PausedPortIsFrozen` and
  `UftEntriesAreTracked`. The first two need `StateInv`: every action that adds a
  flow has seen the port running with the lock held. The third is an invariant on
  its own (`Tracked`) but for the key on the network side: it assumes
  `~Translated`, since behind NAT it does not hold (see above).
- **`Xde_proofs`.** `ListIsSettled`, `ListIsDistinct` and `PacketsComeHome`, for
  any threads, requests, addresses and hosts. The invariant is about the write
  lock: a device is outside the list only while a thread that makes it holds the
  lock (`Settled`), and that thread knows that no device has its name, or its VNI
  and MAC address (`Knows`). A receiver stays because the read lock is held, a
  sender because it runs and a device that runs cannot be unregistered (`Sent`,
  `Received`). `InsideStep` says what a step under the lock has to show for all
  this. `UnderlayUnwinds` has an invariant of its own (`UInv`): the thread that
  sets the underlay up holds its mutex, and when it fails, what is open of what
  must not stay is among what it still has to close. `PortsShare` and
  `ListedStaysMapped` rest on a third (`MInv`): a VPC keeps the object it got
  first and shares it with no other; a creation has mapped what it no longer has
  to do, so that there is an object when the port takes its reference; a deletion
  takes only its own addresses, provided that no two guests of a VPC have one in
  common, which `ListedStaysMapped` assumes (`AddressesAreDistinct`). The named
  assumptions of `Xde` are used: Boundary Services are not on the host, requests
  name at least one address, and mappings that are set point to a host.
- **`Pipeline_proofs`.** `RepliesPassAlways` and `PortsAccountedAlways`, for any
  flows, ports, limits and TTL. The argument for replies is one about time: a
  packet that renews the NAT layer's entry has renewed the firewall's first, so
  that the firewall's is never the older of the two and does not expire before
  it (`FwOutlives`), but for flows that a change of the firewall's rules has cut
  off (`cut`). It needs both tables paired and each port with one owner
  (`FwInv`, `NatInv`), or an entry could go with that of another flow.
- **`Gateway_proofs`.** `BoundIsConnected` and `ConfigMeetsTheLayer`, for any
  guests, transaction ids, room in the queue and in the UFT. The table is made by
  recursion over the calls of `add_rule()`; that it holds the rules that were added
  (`TableHolds`) is shown by induction. Their order is not used: the rules that
  match one of the frames concerned have one action (`VerdictOfAction`, `MatchAsks`).
  The invariant `GInv` says that what is on its way to the guest is true
  (`MessageIsTrue`), so what it has configured is, and that an entry of the UFT has
  an address of the guest as its source, as nothing else passes the layer.
- **`Wire_proofs`**, of packets. `EmittedStaysWhole`, `OffsetsStay`, `ChecksumsAreKept`,
  `LengthsCount`, `WellShapedIsEmitted` and `TypeCorrect`, for bodies and rooms of
  any length, chains of any segmentation and words of any width. `Spec` lets a
  packet pass any number of ports, so each of these is an invariant of a cycle: what
  one port emits, the next one parses. Of the chain, `PInv` says that its cells are
  the headers `kind` and `meta` call for and then the body (`Packed`), that no
  segment but the first has room, and that `offs` and `body` locate what they name
  (`IsPlace`). Where a parsed place lies is computed by walking the segments, so it
  is shown by induction over the headers read that the reader stands at that many
  cells (`Readers`), and over the segments what their concatenation holds at a
  place. The three ways to make room, growing into the room, putting a segment in
  front and cutting the front, differ in the chain they hand to `EmitInto()`; each
  is shown to hand it stale cells for the headers and the body behind them, and one
  lemma (`Emitted`) does the rest. Of the sums, `SumsOK` says that what parsing kept
  of the body completes, with field, pseudo header and ports, to a multiple of all
  ones; that is what is invariant under incremental update, while the sum itself has
  two zeroes and is not. A receiver's sum differs from this by how much the length
  in the header is off (`Short`): nothing over IPv4, since the length counts the
  body (`Counts`, `AllBody`), and over IPv6 as much after emission as before if
  the length is the same. What the theorem does not say, that an IPv6 packet of a guest
  keeps its checksum, is not so. Assumed of the constants: what fields hold fits a word
  (`WordsAssumption`), and rooms and lengths are natural numbers.
- **`Wire_proofs`**, of DHCPv6. `MessageParsed`, `MessageWritten`,
  `MessagesAreParsed`, `RepliesAreEncoded` and `OffersAreKept`, for any options
  nested to any depth, any leases and any number of options in a message. Each
  recursive function is unfolded once (`OptionsUnfold` and the like: there is a
  function that obeys the recursion, by induction on the rank). Then, by induction on
  the rank, every list is as long on the wire as `option_len()` says and is parsed for
  what it is (`Parsable`): the two belong together, as the parser goes on after as
  many cells as it computes for the option it has just made. Writing needs two notions. A list that can
  be copied into the front of any buffer that is large enough (`Copies`) may be nested in
  an option; one that can only be copied into just its room (`CopiesExactly`) may end
  with an option that fills all of the rest. Lists of addresses are of the first
  kind, the messages of the server of the second, since in each of them a status comes
  last or not at all (`ReplyIs`). The invariant `DhcpInv` says what was taken and
  answered for the message at hand and, for `OffersAreKept`, that a request for an
  offer names this server and holds the association as it was offered (`AsksFor`), of
  which the server makes the same lease again (`LeaseIsGood`). Assumed of the
  constants: the server's addresses, lifetimes and names are cells and there may be
  any number of them (`ServerAssumption`); a client's options are such as the code has
  a variant for (`Holds`): an association has its fixed fields, an elapsed time is one
  cell, a status has a code, a rapid commit has no data (`ClientAssumption`).

Left to TLC: liveness (`IdleFlowsExpire`, `QuietPortDrains`, `GuestIsConfigured`),
which these provers do not reach. Every other property that a passing run checks is
proved.

## What is not modelled

- In `Packet` and `Checksum`: options and extension headers, ARP, the byte-level
  readers and writers, allocation, the odd last byte and the byte order.
- In `Gateway`: proxy ARP (a tunable that is off), bodies that do not parse, the
  formats of options (those of DHCPv6 are in `Dhcpv6`), the DNS servers and static
  routes of DHCP, negated predicates and port ranges. The layer's rules never change, so the epoch is not
  part of the model: an entry of an older epoch is one that `Expire` takes away.
- In `Dhcpv6`: fields that are cut in the middle, texts that are not UTF-8, lengths
  beyond 16 bits, and how a message is printed.
- In `Cidr`: MAC addresses, parsing, formatting and serialisation.
- In `Pipeline`: where a packet is sent; a UFT entry keeps the physical address it
  was made with.
- In `Xde`: passthrough, the `ext_ip_hack` tunable, hairpin answers, the lookup of
  the next hop for the outer frame, properties of the mac device, and requests
  that only look a port up and call it. `xde_mc_unicst()` writes to a copy and
  changes nothing.
- In `Port`: adding and removing layers before a port is made, hairpin answers,
  statistics, probes and dumps.
- Simultaneous open, which `tcp_state.rs` itself leaves out.
- Generated bindings, command line, ioctl marshalling, kernel wrappers.

## Plan

1. *Core* (done): `RuleOrder`, `RuleTable`, `LayerFlowTable`, `NatLayer`,
   `FirewallLayer` with `StatefulFilter`, `TcpState`, `TcpFlow`, `TcpConn`,
   `Port`, `Router`, `VpcMappings`, `Xde`, and the proofs above.
2. *Composition* (done but for mappings that change under a UFT entry): `Pipeline`.
3. *Packets* (done for headers without options): `Packet`, `Checksum`.
4. *Rules and answers* (done): `Gateway`, `Dhcpv6`, `Cidr`. Left: header
   transformations against reference definitions over bounded inputs.
5. *Proofs* (done): the refinements of `StatefulFilter` and `RuleTable` included.

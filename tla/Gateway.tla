------------------------------ MODULE Gateway ------------------------------
(***************************************************************************)
(* The gateway layer (oxide-vpc/src/engine/gateway/): the one neighbour a  *)
(* guest has.  It answers ARP, DHCP, DHCPv6, router and neighbour          *)
(* solicitations and pings for the gateway, lets through what has the      *)
(* guest's own addresses, and denies the rest.  Everything that gets       *)
(* through may leave an entry in the port's UFT, and later packets with    *)
(* the same flow id never meet the layer again.                            *)
(*                                                                         *)
(* A frame is a record of the headers the predicates look at, the type of  *)
(* its message, and what the answer depends on.  Bodies that do not parse, *)
(* DNS and route options, and lengths are left out.  The tunable proxy ARP *)
(* is off.  The layer's rules are those of a guest with both families.     *)
(*                                                                         *)
(* The guest is not code of the repository: it configures itself the way   *)
(* RFC 2131, 4861 and 8415 ask for, with timeouts and new transactions at  *)
(* any time, over a queue that loses and reorders the answers.             *)
(***************************************************************************)
EXTENDS RuleOrder, FiniteSets

CONSTANTS
  Guests,       \* how guests may be set up
  Xids,         \* transaction ids the guest uses
  MaxInbox,     \* answers on their way to the guest
  UftLimit      \* room in the outbound UFT

ASSUME GatewayAssumption == MaxInbox \in Nat \ {0} /\ UftLimit \in Nat

(* `broadcast`: it needs broadcast answers as long as it has no address;   *)
(* `rapid`: it asks for Rapid Commit; `ll`: its link-local address.        *)
ASSUME GuestsAssumption ==
  Guests \subseteq [family : {"ip4", "ip6"}, broadcast : BOOLEAN,
                    rapid : BOOLEAN, ll : {"llGuest", "llOther"}]

VARIABLES
  guest,        \* how the guest is set up: fixed
  st,           \* where it is in configuring itself
  xid,          \* its current transaction
  server,       \* server identifier of the offer it took up
  addr,         \* the address it has configured
  router,       \* the router it was told of
  neighbor,     \* the MAC address it has for the router
  inbox,        \* answers on their way to it
  uft           \* flow ids that have an outbound UFT entry

client == <<st, xid, server, addr, router, neighbor>>
vars == <<guest, client, inbox, uft>>

None == "none"
NoData == [none |-> TRUE]

-----------------------------------------------------------------------------
(* Addresses.  MacAddr "guest" and "gateway" are cfg.guest_mac and         *)
(* cfg.gateway_mac; "guest4", "guest6" are private_ip, "gw4" gateway_ip.   *)
Eui64 == [guest |-> "llGuest", gateway |-> "llGateway"]
LinkLocal == {"llGuest", "llGateway", "llOther"}
SolicitedNode ==
  [llGateway |-> "snGateway", llGuest |-> "snGuest", guest6 |-> "snGuest6"]
Multicast6 == {"allNodes", "allRouters", "allDhcp"}
              \cup {SolicitedNode[a] : a \in DOMAIN SolicitedNode}
MulticastMac(a) == a \o "Mac"

Gw6 == Eui64.gateway

(* UDP ports of client and server.                                         *)
Dhcp4 == [proto |-> "udp", client |-> 68, server |-> 67]
Dhcp6 == [proto |-> "udp", client |-> 546, server |-> 547]

Frame(smac, dmac, type, src, dst, proto, sport, dport, msg, data) ==
  [smac |-> smac, dmac |-> dmac, type |-> type, src |-> src, dst |-> dst,
   proto |-> proto, sport |-> sport, dport |-> dport, msg |-> msg,
   data |-> data]

Arp(smac, dmac, msg, data) ==
  Frame(smac, dmac, "arp", None, None, None, 0, 0, msg, data)
Icmp4(smac, dmac, src, dst, msg) ==
  Frame(smac, dmac, "ip4", src, dst, "icmp", 0, 0, msg, NoData)
Icmp6(smac, dmac, src, dst, msg, data) ==
  Frame(smac, dmac, "ip6", src, dst, "icmp6", 0, 0, msg, data)

-----------------------------------------------------------------------------
(* Predicates: a list of values that a field may have.                     *)
Pred(field, values) == [field |-> field, values |-> values]

(* The header predicates of a frame from the guest to the gateway's        *)
(* services, and its message type as the data predicate.                   *)
Preds(dmacs, srcs, dsts, proto) ==
  {Pred("smac", {"guest"}), Pred("dmac", dmacs), Pred("src", srcs),
   Pred("dst", dsts), Pred("proto", {proto})}

Rule(prio, action, preds) ==
  [prio |-> prio, deny |-> FALSE, action |-> action, preds |-> preds]

(* gateway/arp.rs.                                                         *)
ArpRule ==
  Rule(1, "arp", {Pred("type", {"arp"}), Pred("dmac", {"broadcast"}),
                  Pred("smac", {"guest"})})

(* gateway/dhcp.rs, DhcpAction::implicit_preds.                            *)
DhcpRule(action, msg) ==
  Rule(1, action,
       Preds({"broadcast"}, {"any4"}, {"broadcast4"}, "udp")
         \cup {Pred("sport", {Dhcp4.client}), Pred("dport", {Dhcp4.server}),
               Pred("msg", {msg})})

(* gateway/dhcp.rs, setup().                                               *)
DhcpRules == <<DhcpRule("offer", "discover"), DhcpRule("ack", "request")>>

(* gateway/icmp.rs, IcmpEchoReply::implicit_preds.                         *)
EchoRule ==
  Rule(1, "echo", Preds({"gateway"}, {"guest4"}, {"gw4"}, "icmp")
                    \cup {Pred("msg", {"echo"})})

(* Icmpv6EchoReply, RouterAdvertisement and NeighborAdvertisement,         *)
(* implicit_preds().                                                       *)
Echo6Rule(prio, src) ==
  Rule(prio, "echo6", Preds({"gateway"}, {src}, {Gw6}, "icmp6")
                        \cup {Pred("msg", {"echo6"})})
RouterRule ==
  Rule(3, "advertise router",
       Preds({MulticastMac("allRouters")}, LinkLocal, {"allRouters"}, "icmp6")
         \cup {Pred("msg", {"router solicit"})})
NeighborRule ==
  LET group == SolicitedNode[Gw6]
  IN Rule(4, "advertise neighbor",
          Preds({"gateway", MulticastMac(group)}, LinkLocal \cup {"any6"},
                {Gw6, group}, "icmp6")
            \cup {Pred("msg", {"neighbor solicit"})})

(* gateway/icmpv6.rs, setup(): a rule for each source of pings, and the    *)
(* two for NDP.                                                            *)
Icmp6Rules ==
  <<Echo6Rule(1, "guest6"), Echo6Rule(2, Eui64.guest), RouterRule, NeighborRule>>

(* gateway/dhcpv6.rs, dhcpv6_server_predicates(): whatever the message.    *)
Dhcp6Rule ==
  Rule(1, "dhcp6",
       {Pred("smac", {"guest"}), Pred("src", LinkLocal),
        Pred("dst", {"allDhcp"}), Pred("proto", {"udp"}),
        Pred("sport", {Dhcp6.client}), Pred("dport", {Dhcp6.server})})

(* Mutant: the no-spoof rule looks at the MAC address alone.               *)
NoSpoofByMac(ip) == Rule(1000, "pass", {Pred("smac", {"guest"})})

(* nospoof_out of setup_ipv4() and of setup_ipv6().                        *)
NoSpoof(ip) ==
  Rule(1000, "pass", {Pred("src", {ip}), Pred("smac", {"guest"})})

(* setup_ipv4() and setup_ipv6(): the rules in the order they are added.   *)
OutRules ==
  <<ArpRule>> \o DhcpRules \o <<EchoRule, NoSpoof("guest4")>>
    \o Icmp6Rules \o <<Dhcp6Rule, NoSpoof("guest6")>>

(* setup(): the table after the layer's calls of add_rule().               *)
TableOf(rules) ==
  LET t[i \in 0..Len(rules)] ==
        IF i = 0 THEN <<>> ELSE Added(t[i - 1], rules[i], i)
  IN t[Len(rules)]

OutTable == TableOf(OutRules)

PredsOf(table) == UNION {table[i].rule.preds : i \in DOMAIN table}
OutPreds == PredsOf(OutTable)
OutActions == {OutRules[i].action : i \in DOMAIN OutRules}

(* Predicate::is_match and DataPredicate::is_match: the predicates that a  *)
(* frame satisfies.  A header the frame lacks matches none.                *)
Satisfied(preds, f) == {p \in preds : f[p.field] \in p.values}

-----------------------------------------------------------------------------
(* What the layer makes of a frame.                                        *)
Denied == [kind |-> "denied"]
Failed == [kind |-> "failed"]
Passed == [kind |-> "passed"]
Hairpin(f) == [kind |-> "hairpin", frame |-> f]

(* VpcNetwork::handle_arp_out, gen_arp_reply.                              *)
AnswerArp(f) ==
  IF f.msg = "arp request" /\ f.data.tpa = "gw4"
  THEN Hairpin(Arp("gateway", f.data.sha, "arp reply",
                   [sha |-> "gateway", spa |-> "gw4"]))
  ELSE Denied

(* DhcpAction::gen_packet.  `broadcast` is the client's flag.              *)
AnswerDhcp(reply, f) ==
  Hairpin(Frame("gateway", IF f.data.broadcast THEN "broadcast" ELSE "guest",
                "ip4", "gw4",
                IF f.data.broadcast THEN "broadcast4" ELSE "guest4",
                "udp", Dhcp4.server, Dhcp4.client, reply,
                [xid |-> f.data.xid, addr |-> "guest4", router |-> "gw4",
                 server |-> "gw4"]))

(* IcmpEchoReply::gen_packet, Icmpv6EchoReply::gen_packet.                 *)
AnswerEcho(f) == Hairpin(Icmp4("gateway", "guest", "gw4", "guest4", "echo reply"))
AnswerEcho6(f) ==
  Hairpin(Icmp6("gateway", "guest", Gw6, f.src, "echo6 reply", NoData))

(* RouterAdvertisement::gen_packet.  `sound`: code 0, and the checksum is  *)
(* right.                                                                  *)
AnswerRouter(f) ==
  IF f.data.sound
  THEN Hairpin(Icmp6("gateway", "guest", Gw6, f.src, "router advert",
                     [managed |-> TRUE, lladdr |-> "gateway"]))
  ELSE Denied

(* validate_neighbor_solicitation().                                       *)
ValidSolicit(f) ==
  /\ f.data.target \notin Multicast6
  /\ f.src = "any6" =>
       /\ f.dst \in {SolicitedNode[a] : a \in DOMAIN SolicitedNode}
       /\ ~f.data.lladdr

(* NeighborAdvertisement::gen_packet, construct_neighbor_advert().         *)
AnswerNeighbor(f) ==
  LET dst == IF f.src = "any6" THEN "allNodes" ELSE f.src
  IN IF ~ValidSolicit(f) THEN Failed
     ELSE IF f.data.target # Gw6 THEN Denied
     ELSE Hairpin(Icmp6("gateway",
                        IF dst \in Multicast6 THEN MulticastMac(dst) ELSE "guest",
                        Gw6, dst, "neighbor advert",
                        [target |-> Gw6, lladdr |-> "gateway",
                         solicited |-> f.src # "any6"]))
(* DHCPv6 messages: which options they have (`cid`, `elapsed`, `ia`: the   *)
(* client's id, the elapsed time and an IA_NA), the server's id or None,   *)
(* whether Rapid Commit is there, as an option or as one asked for, and    *)
(* the addresses in the options of the IA_NA: `addrs` directly, `nested`   *)
(* in further IA_NAs inside it.                                            *)
Duid == [gateway |-> "duidGateway", guest |-> "duidGuest"]

(* Mutant: the server names itself by the wrong MAC address.               *)
ServerIdOfClient == Duid.guest

(* server_id().                                                            *)
ServerId == Duid.gateway

(* generate_reply_options(), for a message with a client id.               *)
Reply6(type, m, rapid) ==
  [type |-> type, xid |-> m.xid, sid |-> ServerId, rapid |-> rapid,
   addrs |-> IF m.ia THEN {"guest6"} ELSE {}, status |-> None]

(* process_solicit_message().                                              *)
SolicitReply(m) ==
  IF m.sid # None \/ ~m.elapsed \/ ~m.cid THEN {}
  ELSE {Reply6(IF m.rapid THEN "reply" ELSE "advertise", m, m.rapid)}

(* process_request_message(), is_duid_ll_mac().                            *)
RequestReply(m) ==
  IF m.sid # Duid.gateway \/ ~m.elapsed \/ ~m.cid THEN {}
  ELSE {Reply6("reply", m, FALSE)}

(* process_confirm_message(): it looks for addresses in the IA_NAs inside  *)
(* the IA_NA.                                                              *)
ConfirmReply(m) ==
  IF ~m.cid \/ m.sid # None \/ ~m.elapsed \/ ~m.ia \/ m.nested = {} THEN {}
  ELSE {[Reply6("reply", m, FALSE) EXCEPT !.addrs = {},
           !.status = IF m.nested \subseteq {"guest6"} THEN "success"
                      ELSE "not on link"]}

(* process_client_message(), generate_packet().                            *)
AnswerDhcp6(f) ==
  LET replies == CASE f.msg = "solicit6" -> SolicitReply(f.data)
                   [] f.msg = "request6" -> RequestReply(f.data)
                   [] f.msg = "confirm6" -> ConfirmReply(f.data)
                   [] OTHER -> {}
  IN IF replies = {} THEN Denied
     ELSE LET r == CHOOSE r \in replies : TRUE
          IN Hairpin(Frame("gateway", "guest", "ip6", Gw6, f.src, "udp",
                           Dhcp6.server, Dhcp6.client, r.type, r))

(* process_out_rules(): what the first rule that matches says, or the      *)
(* layer's default.                                                        *)
OutVerdict(f) ==
  LET first[sat \in SUBSET OutPreds] == FindMatch(OutTable, sat)
      action[i \in 0..Len(OutTable)] ==
        IF i = 0 THEN "deny" ELSE OutTable[i].rule.action
      answer[a \in {"deny"} \cup OutActions] ==
        CASE a = "deny" -> Denied
          [] a = "pass" -> Passed
          [] a = "arp" -> AnswerArp(f)
          [] a \in {"offer", "ack"} -> AnswerDhcp(a, f)
          [] a = "echo" -> AnswerEcho(f)
          [] a = "echo6" -> AnswerEcho6(f)
          [] a = "advertise router" -> AnswerRouter(f)
          [] a = "advertise neighbor" -> AnswerNeighbor(f)
          [] a = "dhcp6" -> AnswerDhcp6(f)
  IN answer[action[first[Satisfied(OutPreds, f)]]]

(* Mutant: the frame is made to come from the guest itself.                *)
RewriteDstMac(f) == [f EXCEPT !.smac = "guest"]

(* RewriteSrcMac::gen_ht.                                                  *)
RewriteSrcMac(f) == [f EXCEPT !.smac = "gateway"]

(* unicast_in of setup_ipv4() and of setup_ipv6().                         *)
UnicastIn(ip) ==
  Rule(1000, "unicast", {Pred("dst", {ip}), Pred("dmac", {"guest"})})

InTable == TableOf(<<UnicastIn("guest4"), UnicastIn("guest6")>>)

(* process_in_rules(): the frames the guest gets for one that comes in.    *)
InFrames(f) ==
  IF FindMatch(InTable, Satisfied(PredsOf(InTable), f)) = 0 THEN {} ELSE {RewriteSrcMac(f)}

-----------------------------------------------------------------------------
(* The port around the layer.                                              *)
Key(f) == <<f.proto, f.src, f.dst, f.sport, f.dport>>

(* Frames without a flow id are never looked up.                           *)
InUft(f) == f.src # None /\ Key(f) \in uft

(* process_out(): a frame with an entry goes to the network; an answer is  *)
(* handed to the guest; what passes may get an entry, if the other layers  *)
(* let it through and there is room.  A queue that is full loses answers.  *)
Send(f, box) ==
  LET v == IF InUft(f) THEN Denied ELSE OutVerdict(f)
  IN /\ UNCHANGED guest
     /\ inbox' \in IF v.kind # "hairpin" THEN {box}
                   ELSE {S \cup {v.frame} :
                           S \in {T \in SUBSET box : Cardinality(T) < MaxInbox}}
     /\ uft' \in IF v.kind # "passed" \/ f.src = None THEN {uft}
                 ELSE {uft} \cup {u \in {uft \cup {Key(f)}} : Cardinality(u) <= UftLimit}

(* An entry expires, or is of an older epoch.                              *)
Expire ==
  \E k \in uft : uft' = uft \ {k} /\ UNCHANGED <<guest, client, inbox>>

Lose == \E m \in inbox : inbox' = inbox \ {m} /\ UNCHANGED <<guest, client, uft>>

-----------------------------------------------------------------------------
(* The frames a guest sends to configure itself.                           *)
Discover4(msg, x) ==
  Frame("guest", "broadcast", "ip4", "any4", "broadcast4", "udp",
        Dhcp4.client, Dhcp4.server, msg,
        [xid |-> x, broadcast |-> guest.broadcast])
Renewal(dst) ==
  [Discover4("request", xid) EXCEPT
     !.src = addr, !.dst = dst,
     !.dmac = IF dst = "gw4" THEN neighbor ELSE "broadcast"]
ArpRequest == Arp("guest", "broadcast", "arp request",
                  [sha |-> "guest", tpa |-> router])
RouterSolicit ==
  Icmp6("guest", MulticastMac("allRouters"), guest.ll, "allRouters",
        "router solicit", [sound |-> TRUE])
NeighborSolicit(src, dst, dmac) ==
  Icmp6("guest", dmac, src, dst, "neighbor solicit",
        [target |-> Gw6, lladdr |-> src # "any6"])
MulticastSolicit(src) ==
  LET group == SolicitedNode[Gw6]
  IN NeighborSolicit(src, group, MulticastMac(group))
Dhcp6Frame(msg, x, sid) ==
  Frame("guest", MulticastMac("allDhcp"), "ip6", guest.ll, "allDhcp", "udp",
        Dhcp6.client, Dhcp6.server, msg,
        [xid |-> x, sid |-> sid, cid |-> TRUE, elapsed |-> TRUE, ia |-> TRUE,
         rapid |-> msg = "solicit6" /\ guest.rapid,
         addrs |-> IF addr = None THEN {} ELSE {addr}, nested |-> {}])

(* A guest that cannot yet take unicast says so in the broadcast flag.     *)
Receivable(m) ==
  /\ m.dmac # "broadcast" => m.dmac \in {"guest", MulticastMac("allNodes")}
  /\ m.type = "ip4" /\ addr = None /\ guest.broadcast => m.dst = "broadcast4"

Unconfigured == {"init", "selecting", "requesting"}

(* DHCP, from the start or after a timeout.                                *)
Discover ==
  \E x \in Xids :
    /\ guest.family = "ip4" /\ st \in Unconfigured
    /\ st' = "selecting" /\ xid' = x /\ server' = None
    /\ UNCHANGED <<addr, router, neighbor>>
    /\ Send(Discover4("discover", x), inbox)

TakeOffer ==
  \E m \in inbox :
    /\ m.msg = "offer" /\ Receivable(m)
    /\ st = "selecting" /\ m.data.xid = xid
    /\ st' = "requesting" /\ server' = m.data.server
    /\ Send(Discover4("request", xid), inbox \ {m})
    /\ UNCHANGED <<xid, addr, router, neighbor>>

TakeAck ==
  \E m \in inbox :
    /\ m.msg = "ack" /\ Receivable(m)
    /\ st = "requesting" /\ m.data.xid = xid /\ m.data.server = server
    /\ st' = "bound" /\ addr' = m.data.addr /\ router' = m.data.router
    /\ inbox' = inbox \ {m}
    /\ UNCHANGED <<guest, xid, server, neighbor, uft>>

(* Renewing and rebinding: from the address, to the server or to all.      *)
Renew ==
  \E dst \in {"gw4", "broadcast4"} :
    /\ guest.family = "ip4" /\ st = "bound"
    /\ dst = "gw4" => neighbor # None
    /\ Send(Renewal(dst), inbox)
    /\ UNCHANGED client

AskForRouter ==
  /\ guest.family = "ip4" /\ router # None
  /\ UNCHANGED client
  /\ Send(ArpRequest, inbox)

TakeArpReply ==
  \E m \in inbox :
    /\ m.msg = "arp reply" /\ Receivable(m) /\ m.data.spa = router
    /\ neighbor' = m.data.sha /\ inbox' = inbox \ {m}
    /\ UNCHANGED <<guest, st, xid, server, addr, router, uft>>

SolicitRouter ==
  /\ guest.family = "ip6"
  /\ UNCHANGED client
  /\ Send(RouterSolicit, inbox)

TakeRouterAdvert ==
  \E m \in inbox :
    /\ m.msg = "router advert" /\ Receivable(m)
    /\ router' = m.src /\ neighbor' = m.data.lladdr /\ inbox' = inbox \ {m}
    /\ UNCHANGED <<guest, st, xid, server, addr, uft>>

(* DHCPv6, once a router has said that addresses are managed.              *)
Solicit ==
  \E x \in Xids :
    /\ guest.family = "ip6" /\ router # None /\ st \in Unconfigured
    /\ st' = "selecting" /\ xid' = x /\ server' = None
    /\ UNCHANGED <<addr, router, neighbor>>
    /\ Send(Dhcp6Frame("solicit6", x, None), inbox)

TakeAdvertise ==
  \E m \in inbox, x \in Xids :
    /\ m.msg = "advertise" /\ Receivable(m)
    /\ st = "selecting" /\ m.data.xid = xid
    /\ st' = "requesting" /\ xid' = x /\ server' = m.data.sid
    /\ Send(Dhcp6Frame("request6", x, server'), inbox \ {m})
    /\ UNCHANGED <<addr, router, neighbor>>

TakeReply ==
  \E m \in inbox :
    /\ m.msg = "reply" /\ Receivable(m) /\ m.data.xid = xid
    /\ \/ st = "requesting" /\ m.data.sid = server
       \/ st = "selecting" /\ guest.rapid /\ m.data.rapid
    /\ m.data.addrs # {}
    /\ st' = "bound" /\ addr' \in m.data.addrs /\ server' = m.data.sid
    /\ inbox' = inbox \ {m}
    /\ UNCHANGED <<guest, xid, router, neighbor, uft>>

(* After the link was down: is the address still good?  Without an answer  *)
(* the guest keeps it.                                                     *)
Confirm ==
  \E x \in Xids :
    /\ guest.family = "ip6" /\ st = "bound"
    /\ Send(Dhcp6Frame("confirm6", x, None), inbox)
    /\ UNCHANGED client

SolicitNeighbor(src) ==
  /\ guest.family = "ip6" /\ router # None
  /\ UNCHANGED client
  /\ \/ Send(MulticastSolicit(src), inbox)
     \/ neighbor # None /\ Send(NeighborSolicit(src, router, neighbor), inbox)

SolicitFromLinkLocal == SolicitNeighbor(guest.ll)

(* RFC 4861 prefers the address of the packet that is to be sent.          *)
SolicitFromAddress == addr # None /\ SolicitNeighbor(addr)

TakeNeighborAdvert ==
  \E m \in inbox :
    /\ m.msg = "neighbor advert" /\ Receivable(m) /\ m.data.target = router
    /\ neighbor' = m.data.lladdr /\ inbox' = inbox \ {m}
    /\ UNCHANGED <<guest, st, xid, server, addr, router, uft>>

(* The guest restarts its network, or the lease ends.                      *)
Release ==
  /\ st = "bound"
  /\ st' = "init" /\ addr' = None /\ server' = None
  /\ router' = None /\ neighbor' = None
  /\ UNCHANGED <<guest, xid, inbox, uft>>

Forget ==
  /\ neighbor # None /\ neighbor' = None
  /\ UNCHANGED <<guest, st, xid, server, addr, router, inbox, uft>>

-----------------------------------------------------------------------------
(* Whatever else the guest sends.                                          *)
Data(type, src, dst) ==
  Frame("guest", "gateway", type, src, dst, "tcp", 1, 1, "data", NoData)

Strays4 ==
  LET ping == Icmp4("guest", "gateway", "guest4", "gw4", "echo")
  IN {ping, [ping EXCEPT !.msg = "echo reply"], [ping EXCEPT !.smac = "other"],
      Data("ip4", "guest4", "peer4"), Data("ip4", "other4", "peer4"),
      Discover4("decline", CHOOSE x \in Xids : TRUE),
      Arp("guest", "broadcast", "arp request", [sha |-> "guest", tpa |-> "peer4"])}

Strays6 ==
  LET ping(src) == Icmp6("guest", "gateway", src, Gw6, "echo6", NoData)
      dhcp == Dhcp6Frame("confirm6", CHOOSE x \in Xids : TRUE, None)
  IN {ping("guest6"), ping(guest.ll), [ping("guest6") EXCEPT !.msg = "echo6 reply"],
      Data("ip6", "guest6", "peer6"), Data("ip6", "other6", "peer6"),
      [RouterSolicit EXCEPT !.data = [sound |-> FALSE]],
      MulticastSolicit("any6"),
      [MulticastSolicit("any6") EXCEPT !.data.lladdr = TRUE],
      [MulticastSolicit(guest.ll) EXCEPT !.data.target = "allNodes"],
      [dhcp EXCEPT !.msg = "rebind6"],
      [dhcp EXCEPT !.msg = "solicit6", !.data.cid = FALSE],
      [dhcp EXCEPT !.msg = "solicit6", !.data.elapsed = FALSE],
      [dhcp EXCEPT !.data.nested = {"guest6"}],
      [dhcp EXCEPT !.data.nested = {"other6"}]}

Stray ==
  /\ \E f \in IF guest.family = "ip4" THEN Strays4 ELSE Strays6 : Send(f, inbox)
  /\ UNCHANGED client

Init ==
  /\ guest \in Guests
  /\ st = "init" /\ xid = None /\ server = None
  /\ addr = None /\ router = None /\ neighbor = None
  /\ inbox = {} /\ uft = {}

Next ==
  \/ Discover \/ TakeOffer \/ TakeAck \/ Renew \/ AskForRouter \/ TakeArpReply
  \/ SolicitRouter \/ TakeRouterAdvert \/ Solicit \/ TakeAdvertise \/ TakeReply
  \/ Confirm \/ SolicitFromLinkLocal \/ SolicitFromAddress \/ TakeNeighborAdvert
  \/ Release \/ Forget \/ Stray \/ Expire \/ Lose

Spec == Init /\ [][Next]_vars

(* The guest keeps asking for what it lacks, and takes an answer that is   *)
(* there again and again: the queue does not lose it for ever.             *)
Fairness ==
  /\ WF_vars(Discover) /\ SF_vars(TakeOffer) /\ SF_vars(TakeAck)
  /\ WF_vars(neighbor = None /\ AskForRouter) /\ SF_vars(TakeArpReply)
  /\ WF_vars(router = None /\ SolicitRouter) /\ SF_vars(TakeRouterAdvert)
  /\ WF_vars(Solicit) /\ SF_vars(TakeAdvertise) /\ SF_vars(TakeReply)
  /\ WF_vars(neighbor = None /\ SolicitFromLinkLocal)
  /\ SF_vars(TakeNeighborAdvert)

FairSpec == Spec /\ Fairness

-----------------------------------------------------------------------------
(* A guest that asks gets an address, whatever else it sends and whatever  *)
(* the port's UFT holds by then, and finds out where its router is unless  *)
(* it gives the address up again.  The handlers of the layer                *)
(* (gateway/mod.rs) have to agree with one another for that: each step     *)
(* takes what another one said.                                            *)
GuestIsConfigured ==
  /\ addr = None ~> addr # None
  /\ addr # None /\ neighbor = None ~> addr = None \/ neighbor # None

(* What the guest was told works: from the address it was given it gets    *)
(* out, to it frames get in, they come from where it sends its own, and    *)
(* the router it was given is the one that is answered for                 *)
(* (setup_ipv4(), setup_ipv6(), RewriteSrcMac).                            *)
BoundGuestIsConnected ==
  addr # None =>
    LET type == guest.family
    IN /\ OutVerdict(Data(type, addr, "peer")).kind = "passed"
       /\ \E m \in InFrames([Data(type, "peer", addr) EXCEPT !.dmac = "guest"]) :
            m.smac = IF neighbor = None THEN "gateway" ELSE neighbor
       /\ OutVerdict(IF type = "ip4" THEN ArpRequest
                     ELSE MulticastSolicit(guest.ll)).kind = "hairpin"

(* The frames that configuring depends on always meet the layer: nothing   *)
(* the guest sent before left an entry that takes them past it             *)
(* (port.rs, process_out(); no-spoof rules of gateway/mod.rs).             *)
ConfigIsNotShadowed ==
  \A x \in Xids :
    \A f \in IF guest.family = "ip4"
             THEN {Discover4(msg, x) : msg \in {"discover", "request"}}
             ELSE {RouterSolicit, MulticastSolicit(guest.ll),
                   Dhcp6Frame("solicit6", x, None),
                   Dhcp6Frame("request6", x, server)} : ~InUft(f)

-----------------------------------------------------------------------------
(* What comments say and the code does not do; no run checks these.        *)

(* icmpv6.rs, on ping6 from "either any link-local address": only the one  *)
(* made of the guest's MAC address is answered.                            *)
EchoIsAnswered ==
  guest.family = "ip6" =>
    OutVerdict(Icmp6("guest", "gateway", guest.ll, Gw6, "echo6", NoData)).kind
      = "hairpin"

(* icmpv6.rs, "Neighbor Solicitations from the guest to the gateway": not  *)
(* those from the guest's own address.                                     *)
SolicitIsAnswered ==
  guest.family = "ip6" /\ addr # None =>
    OutVerdict(MulticastSolicit(addr)).kind = "hairpin"

(* dhcp.rs, "we know this IP is theirs until the port is torn down": the   *)
(* lease is for a day, and a request to extend it goes unanswered.         *)
RenewIsAnswered ==
  guest.family = "ip4" /\ st = "bound" /\ neighbor # None =>
    \E dst \in {"gw4", "broadcast4"} : OutVerdict(Renewal(dst)).kind = "hairpin"

(* icmp.rs answers pings to the gateway: not when an ICMP message of       *)
(* another type left an entry with the same flow id.                       *)
EchoMeetsLayer ==
  guest.family = "ip4" =>
    ~InUft(Icmp4("guest", "gateway", "guest4", "gw4", "echo"))
=============================================================================

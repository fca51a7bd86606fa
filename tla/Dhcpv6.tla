------------------------------- MODULE Dhcpv6 -------------------------------
(***************************************************************************)
(* The DHCPv6 server of the gateway layer at the level of what is on the   *)
(* wire (opte/src/engine/dhcpv6/): a guest's message is parsed option by   *)
(* option, options nest, a reply is made of parts of the message, and is   *)
(* written into a buffer that was allocated from the lengths of its parts. *)
(* What the server does with which message is in Gateway as well; there a  *)
(* message is what it means.                                               *)
(*                                                                         *)
(* Every field is one cell, a number: code and length of an option, id,    *)
(* lifetime, address, word of a DUID, byte of anything else.  An option is *)
(* its code, the fields it starts with (`head`) and the options nested in  *)
(* it.  Fields cut in the middle, and texts that are not UTF-8, are left   *)
(* out, as are lengths beyond 16 bits.                                     *)
(*                                                                         *)
(* The client is not code of the repository: it writes options as RFC 8415 *)
(* has them (Encoding), in any order, and goes on with what the server     *)
(* told it.                                                                *)
(*                                                                         *)
(* Options nest to any depth.  What is recursive in the code is a function *)
(* of the rank of a list of options here, and what it does to one option   *)
(* an operator on the function for what is nested in it.                   *)
(***************************************************************************)
EXTENDS Naturals, SequencesExt

CONSTANTS
  TransactionIds,          \* transaction ids
  ServerMac,     \* Dhcpv6Action: server_mac,
  Leases,        \*   addrs.addrs, a sequence of [addr, preferred, valid],
  RenewTime,     \*   addrs.renew,
  Dns,           \*   and dns_servers
  ClientTypes,   \* types of the messages a client starts with
  ClientOptions, \* options it may put into them
  MaxOptions,    \* how many of them
  Nesting        \* the rank of what is nested in one

VARIABLES
  stage,   \* "asking", or what became of the message
  msg,     \* what the client means to say
  got,     \* what the server took it for: nothing, or one message
  reply,   \* what the server means to say: nothing, or one message
  buf,     \* the reply's buffer
  offer    \* the reply the client goes on with: none, or one message

dhcpVars == <<stage, msg, got, reply, buf, offer>>

-----------------------------------------------------------------------------
(* Code and MessageType: numbers the code has no name for stay what they   *)
(* are.                                                                    *)
Code ==
  [ClientId |-> 1, ServerId |-> 2, IaNa |-> 3, IaTa |-> 4, IaAddr |-> 5,
   OptionRequest |-> 6, ElapsedTime |-> 8, StatusCode |-> 13,
   RapidCommit |-> 14, DnsServers |-> 23, DomainList |-> 24,
   SntpServers |-> 31]
Known == {Code[c] : c \in DOMAIN Code}
MessageType ==
  [Solicit |-> 1, Advertise |-> 2, Request |-> 3, Confirm |-> 4, Renew |-> 5,
   Reply |-> 7]
StatusCode == [Success |-> 0, NotOnLink |-> 4]

Opt(code, head, opts) == [code |-> code, head |-> head, opts |-> opts]
Plain(code, head) == Opt(code, head, <<>>)
Message(typ, xid, options) == [typ |-> typ, xid |-> xid, options |-> options]

Containers == {Code.IaNa, Code.IaTa, Code.IaAddr}

(* Cells of code and length, and of a message's type and transaction id.   *)
DATA_START == 2
DATA == 2

(* OPTIONS of IaNa (id, t1, t2), IaTa (id) and IaAddr (addr, preferred,    *)
(* valid): where nested options start.                                     *)
OPTIONS(code) == IF code = Code.IaTa THEN 1 ELSE 3

After(s, n) == SubSeq(s, n + 1, Len(s))
UpTo(s, n) == SubSeq(s, 1, n)

(* What data of a type without nested options must be like.                *)
WellSized(code, data) ==
  /\ code = Code.ElapsedTime => Len(data) = 1
  /\ code = Code.StatusCode => Len(data) >= 1

(* What the variants of Option can hold: an association or an address its  *)
(* fields and options, RapidCommit nothing, the others data.               *)
Holds(o) ==
  IF o.code \in Containers THEN Len(o.head) = OPTIONS(o.code)
  ELSE /\ o.opts = <<>> /\ WellSized(o.code, o.head)
       /\ o.code = Code.RapidCommit => o.head = <<>>

OptionsOver(lists) ==
  {o \in [code : Nat, head : Seq(Nat), opts : lists] : Holds(o)}

(* The rank of a list is more than that of its tail and that of the        *)
(* options nested in its head.  MaxRank is above that of any message.      *)
MaxRank == Nesting + Len(Leases) + MaxOptions + 5

(* Lists of options, by rank.                                              *)
Options[n \in 0 .. MaxRank] ==
  IF n = 0 THEN {<<>>}
  ELSE {opts \in Seq(OptionsOver(Options[n - 1])) :
          opts # <<>> => Tail(opts) \in Options[n - 1]}

ASSUME ServerAssumption ==
  /\ ServerMac \in Nat /\ RenewTime \in Nat /\ Dns \in Seq(Nat)
  /\ Leases \in Seq([addr : Nat, preferred : Nat, valid : Nat])

ASSUME ClientAssumption ==
  /\ TransactionIds \subseteq Nat /\ ClientTypes \subseteq Nat
  /\ MaxOptions \in Nat /\ Nesting \in Nat
  /\ ClientOptions \subseteq OptionsOver(Options[Nesting])

-----------------------------------------------------------------------------
(* Lengths.                                                                *)

(* data_len(), and the buffer_len() of every type of option.               *)
DataLen(o, len) == Len(o.head) + len[o.opts]

(* Mutant: the length of an option leaves out its own header.              *)
DataLenOnly(o, len) == DataLen(o, len)

(* Option::buffer_len().                                                   *)
BufferLen(o, len) == DATA_START + DataLen(o, len)

(* option_len(): the sum of the lengths of a list.                         *)
OptionLen[n \in 0 .. MaxRank] ==
  [opts \in Options[n] |->
     IF opts = <<>> THEN 0
     ELSE BufferLen(Head(opts), OptionLen[n - 1]) + OptionLen[n - 1][Tail(opts)]]

-----------------------------------------------------------------------------
(* Parsing: what a buffer is taken for, or nothing.                        *)

(* Option::from_bytes(), on data that is as long as the option says.       *)
DataFrom(code, data, from) ==
  IF code = Code.RapidCommit THEN {Plain(code, <<>>)}
  ELSE IF code \notin Containers
       THEN {o \in {Plain(code, data)} : WellSized(code, data)}
  ELSE IF Len(data) < OPTIONS(code) THEN {}
  ELSE {Opt(code, UpTo(data, OPTIONS(code)), opts) :
          opts \in from[After(data, OPTIONS(code))]}

OptionFrom(b, from) ==
  IF Len(b) < DATA_START THEN {}
  ELSE IF Len(b) < DATA_START + b[2] THEN {}
  ELSE DataFrom(b[1], SubSeq(b, DATA_START + 1, DATA_START + b[2]), from)

(* The loops of IaAddr, IaNa, IaTa and Message: they go on after as many   *)
(* cells as the option would take that they have just made.                *)
OptionsFrom[n \in 0 .. MaxRank] ==
  [b \in Seq(Nat) |->
     IF b = <<>> THEN {<<>>}
     ELSE IF n = 0 THEN {}
     ELSE UNION {{<<o>> \o rest :
                    rest \in OptionsFrom[n - 1][
                               After(b, BufferLen(o, OptionLen[n - 1]))]} :
                   o \in OptionFrom(b, OptionsFrom[n - 1])}]

(* Message::from_bytes().                                                  *)
MessageFrom(b) ==
  IF Len(b) <= DATA THEN {}
  ELSE {Message(b[1], b[2], opts) : opts \in OptionsFrom[MaxRank][After(b, DATA)]}

-----------------------------------------------------------------------------
(* Writing: the buffer afterwards, or nothing if it fails or panics.       *)

(* RawOption, Status and a list of domains copy into all of the slice they *)
(* are given, which panics if it is not of their length.                   *)
CopiesWhole(code) ==
  code \in {Code.StatusCode, Code.DomainList} \/ code \notin Known

(* copy_into() of the types of options.                                    *)
CopyData(o, b, len, copy) ==
  IF o.code = Code.RapidCommit THEN {b}
  ELSE IF Len(b) < DataLen(o, len) THEN {}
  ELSE IF CopiesWhole(o.code) THEN {d \in {o.head} : Len(b) = Len(o.head)}
  ELSE {o.head \o rest :
          rest \in copy[<<o.code, o.opts, After(b, Len(o.head))>>]}

(* Option::copy_into().                                                    *)
CopyInto(o, b, len, copy) ==
  IF Len(b) < BufferLen(o, len) THEN {}
  ELSE {<<o.code, DataLen(o, len)>> \o d :
          d \in CopyData(o, After(b, DATA_START), len, copy)}

(* A list of options is written by what they are in, a type of option or a *)
(* message.  IaAddr gives each a slice of its length, the others what is   *)
(* left of the buffer.                                                     *)
InMessage == 0
CopyAll[n \in 0 .. MaxRank] ==
  [a \in Nat \X Options[n] \X Seq(Nat) |->
     LET opts == a[2]
         b == a[3]
         size == BufferLen(Head(opts), OptionLen[n - 1])
         slice == IF a[1] = Code.IaAddr THEN UpTo(b, size) ELSE b
     IN IF opts = <<>> THEN {b}
        ELSE UNION {{UpTo(d, size) \o rest :
                       rest \in CopyAll[n - 1][<<a[1], Tail(opts), After(b, size)>>]} :
                      d \in CopyInto(Head(opts), slice, OptionLen[n - 1], CopyAll[n - 1])}]

(* Message::copy_into() into a new buffer of Message::buffer_len() cells.  *)
Written(m) ==
  LET empty == [i \in 1 .. OptionLen[MaxRank][m.options] |-> 0]
  IN {<<m.typ, m.xid>> \o b :
        b \in CopyAll[MaxRank][<<InMessage, m.options, empty>>]}

-----------------------------------------------------------------------------
(* The server.                                                             *)

(* Message::find_option(): the first of a type, or nothing.                *)
FindOption(m, code) ==
  LET at == {i \in DOMAIN m.options : m.options[i].code = code}
  IN {m.options[i] : i \in {j \in at : \A k \in at : j <= k}}
HasOption(m, code) == FindOption(m, code) # {}

(* OptionRequest::contains(), on the Option Request of a message.          *)
Requests(m, code) ==
  \E o \in FindOption(m, Code.OptionRequest) : code \in ToSet(o.head)
HasRapidCommit(m) ==
  HasOption(m, Code.RapidCommit) \/ Requests(m, Code.RapidCommit)

(* Duid::from(), Duid::is_duid_ll_mac(): type LL, Ethernet, the address.   *)
DuidLl(mac) == <<3, 1, mac>>
IsDuidLlMac(duid, mac) == duid = DuidLl(mac)

SetAsSeq(S) == IF S = {} THEN <<>> ELSE <<CHOOSE x \in S : TRUE>>

(* server_id(), and the client's id as it came.                            *)
Identifiers(m) ==
  <<Plain(Code.ServerId, DuidLl(ServerMac))>>
    \o SetAsSeq(FindOption(m, Code.ClientId))

LeaseOptions ==
  [i \in DOMAIN Leases |->
     Plain(Code.IaAddr,
           <<Leases[i].addr, Leases[i].preferred, Leases[i].valid>>)]

(* Mutant: the association has an id of the server's choice (IANA_ID).     *)
LeaseWithOwnId(requested) ==
  Opt(Code.IaNa, <<1, RenewTime, RenewTime>>, LeaseOptions)

Lease(requested) ==
  Opt(Code.IaNa, <<requested.head[1], RenewTime, RenewTime>>, LeaseOptions)

(* generate_reply_options().                                               *)
ReplyOptions(m) ==
  Identifiers(m)
    \o (IF Requests(m, Code.DnsServers)
        THEN <<Plain(Code.DnsServers, Dns)>> ELSE <<>>)
    \o SetAsSeq({Lease(ia) : ia \in FindOption(m, Code.IaNa)})

(* process_solicit_message().                                              *)
ProcessSolicit(m) ==
  IF \/ HasOption(m, Code.ServerId) \/ ~HasOption(m, Code.ElapsedTime)
     \/ ~HasOption(m, Code.ClientId) THEN {}
  ELSE IF HasRapidCommit(m)
       THEN {Message(MessageType.Reply, m.xid,
                     ReplyOptions(m) \o <<Plain(Code.RapidCommit, <<>>)>>)}
       ELSE {Message(MessageType.Advertise, m.xid, ReplyOptions(m))}

(* process_request_message().                                              *)
ProcessRequest(m) ==
  IF /\ \E o \in FindOption(m, Code.ServerId) : IsDuidLlMac(o.head, ServerMac)
     /\ HasOption(m, Code.ElapsedTime) /\ HasOption(m, Code.ClientId)
  THEN {Message(MessageType.Reply, m.xid, ReplyOptions(m))}
  ELSE {}

Within(o, code) == {p \in ToSet(o.opts) : p.code = code}

(* The addresses process_confirm_message() looks at: those in IA_NAs that  *)
(* are in the IA_NA.                                                       *)
ConfirmedAddrs(m) ==
  {a.head[1] :
     a \in UNION {Within(inner, Code.IaAddr) :
                    inner \in UNION {Within(ia, Code.IaNa) :
                                       ia \in FindOption(m, Code.IaNa)}}}
LeasedAddrs == {Leases[i].addr : i \in DOMAIN Leases}

(* Mutant: the status comes before the identifiers.                        *)
StatusFirst(m, status) == <<status>> \o Identifiers(m)

ConfirmOptions(m, status) == Identifiers(m) \o <<status>>

(* process_confirm_message().  The text of NotOnLink is one cell.          *)
ProcessConfirm(m) ==
  IF \/ ~HasOption(m, Code.ClientId) \/ HasOption(m, Code.ServerId)
     \/ ~HasOption(m, Code.ElapsedTime) \/ ConfirmedAddrs(m) = {} THEN {}
  ELSE LET status == IF ConfirmedAddrs(m) \subseteq LeasedAddrs
                     THEN <<StatusCode.Success>> ELSE <<StatusCode.NotOnLink, 1>>
       IN {Message(MessageType.Reply, m.xid,
                   ConfirmOptions(m, Plain(Code.StatusCode, status)))}

(* process_client_message().                                               *)
Process(m) ==
  CASE m.typ = MessageType.Solicit -> ProcessSolicit(m)
    [] m.typ = MessageType.Request -> ProcessRequest(m)
    [] m.typ = MessageType.Confirm -> ProcessConfirm(m)
    [] OTHER -> {}

-----------------------------------------------------------------------------
(* RFC 8415, 21.1: an option is its code, the length of its data, and the  *)
(* data, in which further options may follow fixed fields.                 *)
EncodedOption(o, encoded) ==
  LET data == o.head \o encoded[o.opts]
  IN <<o.code, Len(data)>> \o data
EncodedOptions[n \in 0 .. MaxRank] ==
  [opts \in Options[n] |->
     IF opts = <<>> THEN <<>>
     ELSE EncodedOption(Head(opts), EncodedOptions[n - 1])
            \o EncodedOptions[n - 1][Tail(opts)]]
Encoding(m) == <<m.typ, m.xid>> \o EncodedOptions[MaxRank][m.options]

Fresh(typ, xid) ==
  /\ stage' = "asking" /\ msg' = Message(typ, xid, <<>>)
  /\ got' = {} /\ reply' = {} /\ buf' = <<>> /\ offer' = {}

DhcpInit ==
  /\ stage = "asking"
  /\ msg \in {Message(typ, xid, <<>>) : typ \in ClientTypes, xid \in TransactionIds}
  /\ got = {} /\ reply = {} /\ buf = <<>> /\ offer = {}

(* A client has several options of a type only if they are associations.   *)
AddOption ==
  \E o \in ClientOptions :
    /\ stage = "asking" /\ offer = {} /\ Len(msg.options) < MaxOptions
    /\ o.code = Code.IaNa \/ ~HasOption(msg, o.code)
    /\ msg' = [msg EXCEPT !.options = Append(@, o)]
    /\ UNCHANGED <<stage, got, reply, buf, offer>>

(* Dhcpv6Action::gen_packet(), generate_packet(), which unwraps what       *)
(* copy_into() returns.                                                    *)
Serve ==
  LET m == MessageFrom(Encoding(msg))
      r == UNION {Process(n) : n \in m}
      b == UNION {Written(n) : n \in r}
  IN /\ stage = "asking"
     /\ got' = m /\ reply' = r
     /\ stage' = IF r = {} THEN "ignored"
                 ELSE IF b = {} THEN "panicked" ELSE "answered"
     /\ buf' = IF b = {} THEN <<>> ELSE CHOOSE x \in b : TRUE
     /\ UNCHANGED <<msg, offer>>

(* The client asks for what was advertised; later, after its link was      *)
(* down, it asks whether what it has leased is still good.                 *)
GoOn ==
  \E r \in reply, xid \in TransactionIds,
     wait \in {o \in ClientOptions : o.code = Code.ElapsedTime} :
    LET asks == r.typ = MessageType.Advertise
        sid == IF asks THEN FindOption(r, Code.ServerId) ELSE {}
    IN /\ stage = "answered" /\ HasOption(r, Code.IaNa)
       /\ stage' = "asking" /\ offer' = {r}
       /\ msg' = Message(IF asks THEN MessageType.Request ELSE MessageType.Confirm,
                         xid, SetAsSeq(FindOption(msg, Code.ClientId))
                                \o SetAsSeq(sid) \o <<wait>>
                                \o SetAsSeq(FindOption(r, Code.IaNa)))
       /\ got' = {} /\ reply' = {} /\ buf' = <<>>

StartOver ==
  \E typ \in ClientTypes, xid \in TransactionIds :
    stage \in {"answered", "ignored"} /\ Fresh(typ, xid)

DhcpNext == AddOption \/ Serve \/ GoOn \/ StartOver

DhcpSpec == DhcpInit /\ [][DhcpNext]_dhcpVars

-----------------------------------------------------------------------------
(* Whatever options a client puts into a message, in whatever order and    *)
(* however deep, known to the code or not, the server takes it for just    *)
(* that (from_bytes() of Message, Option, IaNa, IaTa, IaAddr): the parser  *)
(* does not step by the length an option came with, but by the length of   *)
(* what it made of it.                                                     *)
ParsedAsMeant ==
  stage # "asking" /\ msg.options # <<>> => got = {msg}

(* Every reply is written, into just the buffer that was allocated for it, *)
(* and is the encoding of what was meant (copy_into(), generate_packet()). *)
(* Some options can only be written at the very end of a buffer, and where *)
(* they end up is decided elsewhere (process_confirm_message()).           *)
ReplyIsEncoded ==
  /\ stage # "panicked"
  /\ stage = "answered" => \E r \in reply : buf = Encoding(r)

(* A lease has the id of the association it was asked for, and a client    *)
(* that asks for what it was offered gets it: the server knows itself by   *)
(* the DUID it gave out, and leases again what it leased before            *)
(* (is_duid_ll_mac(), generate_reply_options()).                           *)
OfferIsKept ==
  /\ \A r \in reply :
       \A lease \in FindOption(r, Code.IaNa), ia \in FindOption(msg, Code.IaNa) :
         lease.head[1] = ia.head[1]
  /\ \A o \in offer :
       stage # "asking" /\ msg.typ = MessageType.Request =>
         \E r \in reply : /\ r.typ = MessageType.Reply /\ r.xid = msg.xid
                          /\ FindOption(r, Code.IaNa) = FindOption(o, Code.IaNa)

(* protocol.rs:479-481 says that a Confirm is dropped if it has no IA_NA,  *)
(* or one without addresses: one that has the leased addresses is not.     *)
ConfirmIsAnswered ==
  stage = "ignored" /\ msg.typ = MessageType.Confirm => offer = {}
=============================================================================

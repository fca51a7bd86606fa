------------------------------- MODULE Packet -------------------------------
(***************************************************************************)
(* The buffers of one packet while the engine parses, transforms and emits *)
(* it (opte/src/engine/packet.rs; headers in ether.rs, ip4.rs, ip6.rs,     *)
(* tcp.rs, udp.rs and geneve.rs; parser in oxide-vpc/src/engine/mod.rs).   *)
(*                                                                         *)
(* A packet is a chain of segments, each a window into a buffer with some  *)
(* room ahead of it.  Parsing locates headers and body.  Transformations   *)
(* change metadata only; emission then resizes the front of the chain,     *)
(* prepends a segment if there is no room, writes all headers into the     *)
(* first one, and updates lengths and checksums from what parsing kept.    *)
(* The packet then goes to a guest, or on to another port: on the same     *)
(* host as it is, with all that is known of it, and on another as a chain  *)
(* the network has cut as it likes, which is parsed anew.                  *)
(*                                                                         *)
(* Every header is one cell, as is the ICMP header of an echo, and every   *)
(* word of the body.  A header is always in one segment.  What it says is  *)
(* in `wire`.  Options and extension headers are left out.                 *)
(***************************************************************************)
EXTENDS Checksum, SequencesExt, TLC

CONSTANTS
  None,
  Addrs, Ports,  \* words: the address and port that NAT rewrites
  Data,          \* words of a body
  MaxBody,       \* cells of a body
  Rooms,         \* room ahead of the first segment of a guest's packet
  MaxWrapped,    \* segments of a guest's packet
  MaxArrived     \* segments of a packet from the network

(* What a field of a header holds is a word, the UDP length of the longest *)
(* body included.                                                          *)
ASSUME WordsAssumption ==
  /\ Addrs \subseteq Word /\ Ports \subseteq Word /\ Data \subseteq Word
  /\ MaxBody \in Nat /\ MaxBody + 1 \in Word

ASSUME SizesAssumption ==
  Rooms \subseteq Nat /\ MaxWrapped \in Nat /\ MaxArrived \in Nat

MaxSegs == 4     \* HVec<PacketSeg, 4>

VARIABLES
  phase,    \* where the packet is, or how it ended
  kind,     \* [ip, ulp]: IP version; TCP, UDP, or an ICMP echo
  segs,     \* the segments: room ahead, and cells from b_rptr to b_wptr
  wire,     \* what the headers in the buffers say, and the body
  meta,     \* PacketMeta
  offs,     \* header -> HdrOffset
  body,     \* BodyInfo
  bodyCsum, \* Parsed.body_csum
  was       \* ghost: what the packet was when it was parsed

vars == <<phase, kind, segs, wire, meta, offs, body, bodyCsum, was>>

Kinds == [ip : {4, 6}, ulp : {"tcp", "udp", "echo"}]

Stale == <<"stale", 0>>          \* what a buffer held before
H(header) == <<header, 0>>
BodyCells(n) == [i \in 1 .. n |-> <<"body", i>>]

Encap == <<"oether", "oip", "geneve">>
Inner(k) == <<"ether", "ip">> \o IF k.ulp = "echo" THEN <<>> ELSE <<k.ulp>>
Headers(k, outer) == (IF outer THEN Encap ELSE <<>>) \o Inner(k)
HeaderCells(k, outer) ==
  [i \in DOMAIN Headers(k, outer) |-> H(Headers(k, outer)[i])]

Flat(ss) == FlattenSeq([i \in DOMAIN ss |-> ss[i].cells])

-----------------------------------------------------------------------------
(* Checksums.  An IP length and a port are a word each, and so is the UDP  *)
(* length.  The pseudo header has the length of what follows the IPv4      *)
(* header, and for IPv6 the payload length.                                *)
Pseudo(k, w) == <<w.addr, IF k.ip = 4 THEN w.ipLen - 1 ELSE w.ipLen>>
UlpWords(k, w) == <<w.port>> \o IF k.ulp = "udp" THEN <<w.udpLen>> ELSE <<>>
IpWords(w) == <<w.addr, w.ipLen>>

(* What a receiver sums up: the pseudo header of a receiver has the length *)
(* of what it was given, ULP header and body, whatever a header says.      *)
ReceivedPseudo(w) == <<w.addr, 1 + Len(w.data)>>
UlpSumsUp(k, w) ==
  SumsUp(w.csum, ReceivedPseudo(w) \o UlpWords(k, w) \o w.data)
IpSumsUp(w) == SumsUp(w.ipCsum, IpWords(w))
EchoSumsUp(w) == SumsUp(w.csum, <<w.port>> \o w.data)

(* Mutant: the pseudo header is left in the body's sum.                    *)
BodySumWithPseudo(k, w) ==
  IF k.ulp = "echo" \/ w.csum = 0 THEN None
  ELSE SubWords(FromField(w.csum), UlpWords(k, w))

(* csum_minus_hdr() less the pseudo header: what the body contributed to   *)
(* the sum, or None if there is no sum.                                    *)
BodySum(k, w) ==
  IF k.ulp = "echo" \/ w.csum = 0 THEN None
  ELSE SubWords(SubWords(FromField(w.csum), UlpWords(k, w)),
                <<Finalize(Total(Pseudo(k, w)))>>)

-----------------------------------------------------------------------------
(* Chains of at most n segments, none empty, that hold these cells: `ends` *)
(* says how many cells there are up to the end of each segment.            *)
Ascending(ends) ==
  \A i \in DOMAIN ends : i + 1 \in DOMAIN ends => ends[i] < ends[i + 1]
Cut(cells, ends) ==
  [i \in DOMAIN ends |->
     SubSeq(cells, (IF i = 1 THEN 0 ELSE ends[i - 1]) + 1, ends[i])]
Cuts(cells, n) ==
  LET len == Len(cells)
      Every(m) == {ends \in [1 .. m -> 1 .. len] : Ascending(ends) /\ ends[m] = len}
  IN {Cut(cells, ends) : ends \in UNION {Every(m) : m \in 1 .. n}}
Chains(cells, n, rooms) ==
  {[i \in DOMAIN cut |-> [room |-> IF i = 1 THEN r ELSE 0, cells |-> cut[i]]] :
     cut \in Cuts(cells, n), r \in rooms}

(* What a guest may send: right lengths, and checksums of either kind that *)
(* are right, left to the hardware (zero), or wrong.  `port` is the        *)
(* identifier of an echo.                                                  *)
RightSum(k, w) ==
  ToField(Total(IF k.ulp = "echo" THEN <<w.port>> \o w.data
                ELSE Pseudo(k, w) \o UlpWords(k, w) \o w.data))

Sendable(k, n) ==
  LET after == n + IF k.ulp = "echo" THEN 0 ELSE 1
      fields == [addr : Addrs, port : Ports,
                 data : [1 .. IF k.ulp = "echo" THEN n - 1 ELSE n -> Data],
                 ipLen : {IF k.ip = 4 THEN after + 1 ELSE after},
                 udpLen : {IF k.ulp = "udp" THEN after ELSE 0},
                 csum : Word, ipCsum : Word, oipLen : {0}, geneveLen : {0}]
  IN {w \in fields :
        /\ w.csum \in {RightSum(k, w), 0, 1}
        /\ w.ipCsum \in IF k.ip = 4 THEN {ToField(Total(IpWords(w))), 0, 1} ELSE {0}}

Nowhere == [pkt |-> 0, seg |-> 0, off |-> 0, len |-> 0]

Init ==
  \E k \in Kinds : \E n \in (IF k.ulp = "echo" THEN 1 ELSE 0) .. MaxBody :
    /\ kind = k
    /\ segs \in Chains(HeaderCells(k, FALSE) \o BodyCells(n), MaxWrapped, Rooms)
    /\ wire \in Sendable(k, n)
    /\ phase = "sent"
    /\ meta = None /\ offs = <<>> /\ body = Nowhere /\ bodyCsum = None
    /\ was = None

Ends(how) ==
  /\ phase' = how
  /\ UNCHANGED <<kind, segs, wire, meta, offs, body, bodyCsum, was>>

-----------------------------------------------------------------------------
(* PacketReaderMut: position in the packet, segment, position in it.  To   *)
(* read a header is to move on to the next segment at the end of one.      *)
Failed == [pkt |-> 0, seg |-> Len(segs), pos |-> 0]
AtEnd(rdr) == rdr.pos = Len(segs[rdr.seg + 1].cells)

ReadOne(rdr) ==
  LET more == rdr.seg + 1 < Len(segs)
      from == IF AtEnd(rdr) /\ more
              THEN [rdr EXCEPT !.seg = @ + 1, !.pos = 0] ELSE rdr
  IN IF rdr = Failed \/ AtEnd(from) THEN Failed
     ELSE [from EXCEPT !.pkt = @ + 1, !.pos = @ + 1]

(* The readers before and after each header.                               *)
Readers(n) ==
  LET rdr[i \in 0 .. n] ==
        IF i = 0 THEN [pkt |-> 0, seg |-> 0, pos |-> 0] ELSE ReadOne(rdr[i - 1])
  IN rdr

(* HdrOffset::new() goes back from the reader after the header.            *)
OffsetBefore(rdr) == [pkt |-> rdr.pkt - 1, seg |-> rdr.seg, pos |-> rdr.pos - 1]
CellAt(off) == segs[off.seg + 1].cells[off.pos + 1]

(* The body is where the last header ends, or begins the next segment.     *)
BodyAfter(rdr) ==
  LET next == AtEnd(rdr) /\ rdr.seg + 1 < Len(segs)
  IN [pkt |-> rdr.pkt, seg |-> IF next THEN rdr.seg + 1 ELSE rdr.seg,
      off |-> IF next THEN 0 ELSE rdr.pos, len |-> Len(Flat(segs)) - rdr.pkt]

Spanned(rdr) == rdr.seg > 0

(* wrap_mblk() and parse(): parse_outbound() for what the guest sent,      *)
(* parse_inbound() for what arrived.                                       *)
Parse ==
  /\ phase \in {"sent", "arrived"}
  /\ Len(segs) <= MaxSegs
  /\ LET outer == phase = "arrived"
         hs == Headers(kind, outer)
         rdr == Readers(Len(hs))
         At(i) == OffsetBefore(rdr[i])
     IN IF \E i \in DOMAIN hs : rdr[i] = Failed \/ CellAt(At(i)) # H(hs[i])
        THEN Ends("dropped")
        ELSE /\ phase' = "parsed"
             /\ meta' = [outer |-> outer, addr |-> wire.addr, port |-> wire.port,
                         ipCsum |-> wire.ipCsum, csum |-> wire.csum]
             /\ offs' = [h \in Range(hs) |->
                           At(CHOOSE i \in DOMAIN hs : hs[i] = h)]
             /\ body' = BodyAfter(rdr[Len(hs)])
             /\ bodyCsum' = BodySum(kind, wire)
             /\ was' = [segs |-> Len(segs), wire |-> wire, outer |-> outer,
                        spanned |-> Spanned(rdr[Len(hs)]), body |-> body']
             /\ UNCHANGED <<kind, segs, wire>>

(* segs.push().unwrap() has no room.                                       *)
WrapPanics ==
  phase \in {"sent", "arrived"} /\ Len(segs) > MaxSegs /\ Ends("panicked")

(* HdrTransform::run(), for all layers: the overlay layer pushes or pops   *)
(* the encapsulation, if there is such a layer; NAT rewrites address and   *)
(* port.                                                                   *)
Transform ==
  /\ phase = "parsed"
  /\ \E a \in Addrs, p \in Ports, outer \in {meta.outer, ~meta.outer} :
       /\ kind.ulp = "echo" => p = meta.port
       /\ meta' = [meta EXCEPT !.outer = outer, !.addr = a, !.port = p]
  /\ phase' = "transformed"
  /\ UNCHANGED <<kind, segs, wire, offs, body, bodyCsum, was>>

(* A transformation of the ULP header finds none.                          *)
TransformFails == phase = "parsed" /\ kind.ulp = "echo" /\ Ends("refused")

(* body_transform() with the SNAT transformation of an ICMPv4 echo, which  *)
(* is given the segments of the body: identifier and checksum, the latter  *)
(* over the words of the first of them.                                    *)
FirstBodyCells ==
  LET cells == segs[body.seg + 1].cells IN SubSeq(cells, body.off + 1, Len(cells))

EchoTransform ==
  /\ phase = "transformed" /\ kind = [ip |-> 4, ulp |-> "echo"]
  /\ IF FirstBodyCells = <<>> THEN Ends("refused")
     ELSE /\ \E p \in Ports \ {wire.port} :
               wire' = [wire EXCEPT
                 !.port = p,
                 !.csum = ToField(Total(
                    <<p>> \o SubSeq(wire.data, 1, Len(FirstBodyCells) - 1)))]
          /\ phase' = "rewritten"
          /\ UNCHANGED <<kind, segs, meta, offs, body, bodyCsum, was>>

-----------------------------------------------------------------------------
(* Mutant: what shrinks the front of a segment leaves it as it is.         *)
ShrinkNothing(seg, n) == seg

(* PacketSeg::expand_start() and shrink_start(), within their bounds.      *)
ExpandStart(seg, n) ==
  [room |-> seg.room - n, cells |-> [i \in 1 .. n |-> Stale] \o seg.cells]
ShrinkStart(seg, n) ==
  [room |-> seg.room + n, cells |-> SubSeq(seg.cells, n + 1, Len(seg.cells))]

NewLen == Len(Headers(kind, meta.outer))
OldLen == body.pkt

(* What the headers say when the packet has `len` cells.  The IPv6 payload *)
(* length is counted from the start of the IPv6 header.                    *)
Fields(len) ==
  LET start == IF meta.outer THEN Len(Encap) ELSE 0
  IN [wire EXCEPT
        !.addr = meta.addr,
        !.port = IF kind.ulp = "echo" THEN @ ELSE meta.port,
        !.ipLen = len - (start + 1),
        !.udpLen = IF kind.ulp = "udp" THEN len - (start + 2) ELSE 0,
        !.oipLen = IF meta.outer THEN len - 1 ELSE 0,
        !.geneveLen = IF meta.outer THEN len - 2 ELSE 0]

(* Mutant: the length is that of the packet as it came.                    *)
OldPktLen == Len(Flat(segs))

(* new_pkt_len.                                                            *)
NewPktLen == NewLen + body.len

(* update_checksums(): those that were provided, with the body's share of  *)
(* the ULP's taken from what parsing kept.                                 *)
UpdateChecksums(w) ==
  [w EXCEPT
     !.csum = IF kind.ulp = "echo" \/ meta.csum = 0 THEN @
              ELSE ToField(AddWords(bodyCsum, Pseudo(kind, w) \o UlpWords(kind, w))),
     !.ipCsum = IF meta.ipCsum = 0 THEN @ ELSE ToField(Total(IpWords(w)))]

(* emit_new_headers() after hdr_seg(): `chain` and `b` are what hdr_seg()  *)
(* left.  The offset of the Geneve header replaces that of the outer IP    *)
(* header.                                                                 *)
EmitInto(chain, b) ==
  LET hs == Headers(kind, meta.outer)
      summed == UpdateChecksums(Fields(NewPktLen))
      Slot(i) == [pkt |-> i - 1, seg |-> 0, pos |-> i - 1]
  IN IF Len(chain[1].cells) < NewLen
     THEN Ends("unwritten")
     ELSE /\ segs' = [chain EXCEPT ![1].cells =
                        HeaderCells(kind, meta.outer)
                          \o SubSeq(@, NewLen + 1, Len(@))]
          /\ wire' = summed
          /\ meta' = [meta EXCEPT !.csum = summed.csum, !.ipCsum = summed.ipCsum]
          /\ offs' = [h \in Range(hs) \ {"geneve"} |->
                        Slot(CHOOSE i \in DOMAIN hs :
                               hs[i] = IF h = "oip" THEN "geneve" ELSE h)]
          /\ body' = [b EXCEPT !.pkt = NewLen]
          /\ phase' = "emitted"
          /\ UNCHANGED <<kind, bodyCsum, was>>

(* Mutant: the offset is not adjusted.                                     *)
NotInFirst(off) == body

(* The body starts in the first segment, and now there.                    *)
InFirst(off) == IF body.seg = 0 THEN [body EXCEPT !.off = off] ELSE body

(* Mutant: the body is thought to begin in the first segment.              *)
PrependPanicsAnywhere ==
  \/ Len(segs[1].cells) < OldLen
  \/ body.off # OldLen
  \/ Len(segs) = MaxSegs

(* hdr_seg(): the new headers fit into the first segment and its room.     *)
Fits == segs[1].room + OldLen >= NewLen

EmitGrown ==
  /\ OldLen < NewLen /\ Fits
  /\ EmitInto([segs EXCEPT ![1] = ExpandStart(@, NewLen - OldLen)], InFirst(NewLen))

(* They do not: a segment is put in front.  Panics if the old headers are  *)
(* not all in the first segment, or there is no room in the list.          *)
NoRoom == OldLen < NewLen /\ ~Fits
PrependPanics ==
  \/ Len(segs[1].cells) < OldLen
  \/ body.seg = 0 /\ body.off # OldLen
  \/ Len(segs) = MaxSegs

EmitPrepended ==
  /\ NoRoom /\ ~PrependPanics
  /\ LET new == [room |-> 0, cells |-> [i \in 1 .. NewLen |-> Stale]]
     IN EmitInto(<<new>> \o [segs EXCEPT ![1] = ShrinkStart(@, OldLen)],
                 [InFirst(0) EXCEPT !.seg = @ + 1])

(* There are fewer headers than before.                                    *)
EmitShrunk ==
  /\ NewLen < OldLen /\ OldLen - NewLen <= Len(segs[1].cells)
  /\ EmitInto([segs EXCEPT ![1] = ShrinkStart(@, OldLen - NewLen)], InFirst(NewLen))

EmitSame == NewLen = OldLen /\ EmitInto(segs, body)

HdrSegPanics ==
  \/ NoRoom /\ PrependPanics
  \/ NewLen < OldLen /\ OldLen - NewLen > Len(segs[1].cells)

(* Port::process() ends with emit_new_headers().                           *)
Emit ==
  /\ phase \in {"transformed", "rewritten"}
  /\ \/ EmitGrown \/ EmitPrepended \/ EmitShrunk \/ EmitSame
     \/ HdrSegPanics /\ Ends("panicked")

-----------------------------------------------------------------------------
(* An encapsulated packet whose destination is on this host:               *)
(* guest_loopback() has the other port process it as it is, with what      *)
(* emission left of the metadata, the offsets and the body's sum.          *)
Loopback ==
  /\ phase = "emitted" /\ meta.outer
  /\ phase' = "parsed"
  /\ was' = [segs |-> Len(segs), wire |-> wire, outer |-> TRUE,
             spanned |-> FALSE, body |-> body]
  /\ UNCHANGED <<kind, segs, wire, meta, offs, body, bodyCsum>>

(* Or on another: the network delivers it in buffers of its own.           *)
Travel ==
  /\ phase = "emitted" /\ meta.outer
  /\ phase' = "arrived"
  /\ segs' \in Chains(Flat(segs), MaxArrived, {0})
  /\ UNCHANGED <<kind, wire>>
  /\ meta' = None /\ offs' = <<>> /\ body' = Nowhere /\ bodyCsum' = None
  /\ was' = None

Next ==
  Parse \/ WrapPanics \/ Transform \/ TransformFails \/ EchoTransform \/ Emit
    \/ Loopback \/ Travel

Spec == Init /\ [][Next]_vars

-----------------------------------------------------------------------------
TypeOK ==
  /\ phase \in {"sent", "arrived", "parsed", "transformed", "rewritten",
                "emitted", "dropped", "refused", "unwritten", "panicked"}
  /\ kind \in Kinds
  /\ \A i \in DOMAIN segs : segs[i].room \in Nat
  /\ wire.addr \in Addrs /\ wire.port \in Ports
  /\ wire.csum \in Word /\ wire.ipCsum \in Word
  /\ bodyCsum \in Nat \cup {None}

(* However the chain was cut, whatever room it had and whichever way the   *)
(* front was resized, what emission leaves is the headers and then the     *)
(* very body, with no byte lost, repeated or stale, and the headers are    *)
(* where the driver writes into them: in the first segment.                *)
EmittedIsWhole ==
  phase = "emitted" =>
    /\ Flat(segs) = HeaderCells(kind, meta.outer) \o BodyCells(was.body.len)
    /\ Len(segs[1].cells) >= NewLen
    /\ body.len = was.body.len

(* BodyInfo and the inner offsets locate what they say, from parsing on    *)
(* and after every emission.                                               *)
OffsetsHold ==
  phase \in {"parsed", "transformed", "rewritten", "emitted"} =>
    /\ \A h \in Range(Inner(kind)) :
         CellAt(offs[h]) = H(h) /\ Flat(segs)[offs[h].pkt + 1] = H(h)
    /\ LET before == FlattenSeq([i \in 1 .. body.seg |-> segs[i].cells])
           cells == segs[body.seg + 1].cells
       IN /\ body.pkt = Len(before) + body.off
          /\ body.off <= Len(cells)
          /\ SubSeq(Flat(segs), body.pkt + 1, Len(Flat(segs))) = BodyCells(body.len)

(* An emitted packet's TCP or UDP checksum is right for its receiver if    *)
(* and only if the one it came with was: the update neither spoils one nor *)
(* hides damage, whatever was rewritten, and one that was left to the      *)
(* hardware stays so.  An IPv6 packet must have come with the length that  *)
(* emission writes, as from another port of OPTE; a guest's does not, see  *)
(* Ip6ChecksumsFollow.  The checksum of the IPv4 header, unless left to    *)
(* the hardware, is right for what the header now says.                    *)
ChecksumsFollow ==
  phase = "emitted" =>
    /\ kind.ulp # "echo" =>
         IF was.wire.csum = 0 THEN wire.csum = 0
         ELSE kind.ip = 4 \/ wire.ipLen = was.wire.ipLen =>
                (UlpSumsUp(kind, wire) <=> UlpSumsUp(kind, was.wire))
    /\ kind.ip = 4 =>
         IF was.wire.ipCsum = 0 THEN wire.ipCsum = 0 ELSE IpSumsUp(wire)

(* Lengths count what is there.                                            *)
LengthsAgree ==
  phase = "emitted" =>
    LET after == [h \in Range(Headers(kind, meta.outer)) |->
                    Len(Flat(segs)) - (CHOOSE i \in DOMAIN Flat(segs) :
                                         Flat(segs)[i] = H(h)) + 1]
    IN /\ kind.ip = 4 => wire.ipLen = after["ip"]
       /\ kind.ulp = "udp" => wire.udpLen = after["udp"]
       /\ meta.outer => wire.geneveLen = after["geneve"]

(* A packet with its headers in one segment and room in the list for one   *)
(* more is never lost to a panic or to an error of emission.               *)
WellShapedSurvives ==
  /\ phase = "unwritten" => was.spanned
  /\ phase = "panicked" /\ was # None => was.spanned \/ was.segs = MaxSegs

(* "This length includes any extension headers along with the body."       *)
Ip6LengthIsRight ==
  phase = "emitted" /\ kind.ip = 6 => wire.ipLen = Len(Flat(segs)) - NewLen
      + Len(SelectSeq(Headers(kind, FALSE), LAMBDA h : h \in {"tcp", "udp"}))

(* The same of every IPv6 packet.  The code does not keep it: the length   *)
(* that Ip6LengthIsRight speaks of is in the new pseudo header, while what *)
(* parsing took off was the length the guest wrote.                        *)
Ip6ChecksumsFollow ==
  phase = "emitted" /\ kind.ip = 6 /\ kind.ulp # "echo" /\ was.wire.csum # 0 =>
    (UlpSumsUp(kind, wire) <=> UlpSumsUp(kind, was.wire))

(* "The payload, however, *may* span multiple segments."                   *)
EchoIsSummed ==
  phase = "emitted" /\ kind.ulp = "echo" /\ EchoSumsUp(was.wire) => EchoSumsUp(wire)
=============================================================================

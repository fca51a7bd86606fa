-------------------------------- MODULE Cidr --------------------------------
(***************************************************************************)
(* Addresses and prefixes of both families (opte-api/src/ip.rs).           *)
(*                                                                         *)
(* An address has Octets octets of OctetBits bits (in the code 4 of 8 or   *)
(* 16 of 8).  The IPv4 functions compute with the whole address as one     *)
(* integer, the IPv6 ones octet by octet; here both are given addresses of *)
(* one width.  Integers wrap around as they do in a release build.         *)
(***************************************************************************)
EXTENDS Integers

CONSTANTS OctetBits, Octets

ASSUME CidrAssumption == OctetBits \in Nat \ {0} /\ Octets \in Nat \ {0}

Bits == OctetBits * Octets
Lengths == 0 .. Bits
Addrs == 0 .. 2^Bits - 1

-----------------------------------------------------------------------------
(* Integers of `bits` bits: the most negative one, its arithmetic shift    *)
(* (whose distance is taken modulo the width), and bitwise and.            *)
Bit(x, i) == (x \div 2^i) % 2
BitAnd(x, y) ==
  LET low[i \in 0 .. Bits] == IF i = 0 THEN 0
                        ELSE low[i - 1] + Bit(x, i - 1) * Bit(y, i - 1) * 2^(i - 1)
  IN low[Bits]
SignedMin(bits) == 2^(bits - 1)
Shifted(x, n, bits) ==
  LET signed == IF x >= SignedMin(bits) THEN x - 2^bits ELSE x
  IN (signed \div 2^(n % bits)) % 2^bits
DecU8(n) == (n - 1) % 256

(* An address as its octets, and back.                                     *)
OctetsOf(ip) ==
  [i \in 1 .. Octets |-> (ip \div 2^(OctetBits * (Octets - i))) % 2^OctetBits]
FromOctets(octets) ==
  LET ip[i \in 0 .. Octets] == IF i = 0 THEN 0 ELSE ip[i - 1] * 2^OctetBits + octets[i]
  IN ip[Octets]

(* Ipv4Addr::mask(), for a length that is valid.                           *)
Mask4(ip, len) ==
  IF len = 0 THEN 0 ELSE BitAnd(ip, Shifted(SignedMin(Bits), len - 1, Bits))

(* Ipv6Addr::mask(): octets before the last stay, that may be cut in two.  *)
Mask6(ip, len) ==
  LET idx == len \div OctetBits
      partial == len % OctetBits
  IN FromOctets([i \in 1 .. Octets |->
       IF i <= idx THEN OctetsOf(ip)[i]
       ELSE IF i = idx + 1 /\ partial > 0
            THEN BitAnd(OctetsOf(ip)[i],
                        Shifted(SignedMin(OctetBits), partial - 1, OctetBits))
       ELSE 0])

Mask(v6, ip, len) == IF v6 THEN Mask6(ip, len) ELSE Mask4(ip, len)

(* Ipv4Cidr::new(), Ipv6Cidr::new().                                       *)
NewCidr(v6, ip, len) == [v6 |-> v6, ip |-> Mask(v6, ip, len), len |-> len]

(* Ipv4Cidr::is_member(), Ipv6Cidr::is_member(); an address of the other   *)
(* family has another type, or fails the predicate.                        *)
IsMember(cidr, addr) ==
  cidr.v6 = addr.v6 /\ Mask(addr.v6, addr.ip, cidr.len) = cidr.ip

(* IpCidr::is_default()                                                    *)
IsDefault(cidr) == cidr.ip = 0 /\ cidr.len = 0

(* Ipv4PrefixLen::to_netmask(), Ipv4Cidr::to_mask().                       *)
ToNetmask(len) == Shifted(SignedMin(Bits), DecU8(len), Bits)

-----------------------------------------------------------------------------
(* What a prefix is: two addresses with the same `len` leading bits.       *)
ShareBits(ip, jp, len) == ip \div 2^(Bits - len) = jp \div 2^(Bits - len)

(* Both ways to compute with prefixes agree with what a prefix is, at      *)
(* every length, those that cut an octet in two and those at either end    *)
(* included (is_member() and mask() of both families).                     *)
MembersShareBits ==
  \A v6 \in BOOLEAN, base, ip \in Addrs, len \in Lengths :
    IsMember(NewCidr(v6, base, len), [v6 |-> v6, ip |-> ip])
      = ShareBits(base, ip, len)

(* ip.rs:836, "Convert the prefix length into a subnet mask.": it keeps of *)
(* an address what mask() keeps.  Not so for length 0.                     *)
NetmaskIsMask ==
  \A ip \in Addrs, len \in Lengths : BitAnd(ip, ToNetmask(len)) = Mask4(ip, len)
=============================================================================

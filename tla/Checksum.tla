------------------------------ MODULE Checksum ------------------------------
(***************************************************************************)
(* Internet checksums (opte/src/engine/checksum.rs), on words of any width.*)
(*                                                                         *)
(* A header field holds the complement of the ones' complement sum of the  *)
(* words.  A rolling sum keeps its carries until it is finalized; its u32  *)
(* has room for the carries of 2^16 words, more than a packet has, and so  *)
(* it is a natural number here.                                            *)
(***************************************************************************)
EXTENDS Naturals, Sequences

CONSTANT WordMax   \* 2^16 - 1, all ones

ASSUME WordMaxAssumption == WordMax \in Nat \ {0}

Word == 0 .. WordMax
Complement(w) == WordMax - w

Total(words) ==
  LET sum[n \in 0 .. Len(words)] ==
        IF n = 0 THEN 0 ELSE sum[n - 1] + words[n]
  IN sum[Len(words)]

(* Checksum::add_bytes() and sub_bytes(), for whole words.                 *)
AddWords(csum, words) == csum + Total(words)
SubWords(csum, words) ==
  csum + Total([i \in DOMAIN words |-> Complement(words[i])])

(* Checksum::finalize().                                                   *)
Finalize(csum) ==
  LET folded[n \in 0 .. csum] ==
        IF n <= WordMax THEN n
        ELSE folded[(n \div (WordMax + 1)) + (n % (WordMax + 1))]
  IN folded[csum]

(* Header field <-> rolling sum.                                           *)
ToField(csum) == Complement(Finalize(csum))
FromField(field) == Complement(field)

(* What a receiver checks of the words a sum is over and its field.        *)
SumsUp(field, words) == Finalize(field + Total(words)) = WordMax
=============================================================================

---------------------------- MODULE Wire_proofs ----------------------------
(***************************************************************************)
(* Proofs about what is on the wire, for data of any length: packets, with *)
(* bodies, rooms and chains of any length, and DHCPv6 messages, with any   *)
(* number of options nested to any depth.                                  *)
(*                                                                         *)
(* The cells of a chain are those of its segments one after the other, by  *)
(* recursion over the segments; what that means for a chain whose front is *)
(* replaced, and for a place inside a segment, is shown by induction.      *)
(*                                                                         *)
(* What is parsed, measured and written of a list of options is recursive  *)
(* over the ranks of lists; each of these functions is unfolded once, and  *)
(* what it gives is shown by induction on the rank.                        *)
(***************************************************************************)
EXTENDS Packet, Dhcpv6, Integers, SequenceTheorems, WellFoundedInduction, TLAPS

(* A set of natural numbers that is not empty has a least one.             *)
LEMMA NatLeast ==
  ASSUME NEW T \in SUBSET Nat, T # {}
  PROVE  \E n \in T : \A m \in T : n <= m
<1>1. IsWellFoundedOn(OpToRel(<, Nat), Nat)
  BY NatLessThanWellFounded
<1>2. PICK n \in T : \A m \in T : <<m, n>> \notin OpToRel(<, Nat)
  BY <1>1, WFMin
<1>3. \A m \in T : ~(m < n)
  BY <1>2 DEF OpToRel
<1>4. QED
  BY <1>3

(* Induction up to a bound: T is the set of the numbers for which what is  *)
(* to be shown holds.                                                      *)
LEMMA Induction ==
  ASSUME NEW n \in Nat, NEW T, 0 \in T,
         \A i \in 0..(n - 1) : i \in T => i + 1 \in T
  PROVE  \A i \in 0..n : i \in T
<1> DEFINE Bad == {i \in 0..n : i \notin T}
<1>1. CASE Bad = {}
  BY <1>1
<1>2. CASE Bad # {}
  <2>1. Bad \in SUBSET Nat
    OBVIOUS
  <2>2. PICK i \in Bad : \A j \in Bad : i <= j
    BY <1>2, <2>1, NatLeast
  <2>3. i \in 0..n /\ i \notin T /\ i # 0
    BY <2>2
  <2>4. i - 1 \in 0..(n - 1) /\ i - 1 \in 0..n /\ ~(i <= i - 1) /\ (i - 1) + 1 = i
    BY <2>3
  <2>5. i - 1 \in T
    BY <2>2, <2>4
  <2>6. QED
    BY <2>3, <2>4, <2>5
<1>3. QED
  BY <1>1, <1>2

-----------------------------------------------------------------------------
(* The cells of the first segments, for every number of them: what         *)
(* FlattenSeq computes.                                                    *)
Flattens(p, q, n) ==
  \A i \in 1..n : p[i] = IF i = 1 THEN q[i] ELSE p[i - 1] \o q[i]

IsFlatten(p, q, n) ==
  p = [i \in 1..n |-> IF i = 1 THEN q[i] ELSE p[i - 1] \o q[i]]

LEMMA FlattenExists ==
  ASSUME NEW q, NEW len \in Nat
  PROVE  \E p : IsFlatten(p, q, len)
<1> DEFINE T == {n \in 0..len : \E p : IsFlatten(p, q, n)}
<1>1. 0 \in T
  <2>1. IsFlatten([i \in 1..0 |-> 0], q, 0)
    BY DEF IsFlatten
  <2>2. QED
    BY <2>1
<1>2. ASSUME NEW n \in 0..(len - 1), n \in T
      PROVE  n + 1 \in T
  <2>1. PICK p : IsFlatten(p, q, n)
    BY <1>2
  <2> DEFINE u == [i \in 1..(n + 1) |->
                    IF i = n + 1 THEN IF i = 1 THEN q[i] ELSE p[n] \o q[i]
                    ELSE p[i]]
  <2>2. \A i \in 1..n : u[i] = p[i]
    OBVIOUS
  <2>3. ASSUME NEW i \in 1..(n + 1)
        PROVE  u[i] = IF i = 1 THEN q[i] ELSE u[i - 1] \o q[i]
    <3>1. CASE i = n + 1
      <4>1. i # 1 => u[i - 1] = p[n]
        BY <3>1, <2>2
      <4>2. QED
        BY <3>1, <4>1
    <3>2. CASE i # n + 1
      <4>1. i \in 1..n /\ (i # 1 => i - 1 \in 1..n)
        BY <3>2
      <4>2. p[i] = IF i = 1 THEN q[i] ELSE p[i - 1] \o q[i]
        BY <4>1, <2>1 DEF IsFlatten
      <4>3. QED
        BY <4>1, <4>2, <2>2
    <3>3. QED
      BY <3>1, <3>2
  <2>4. IsFlatten(u, q, n + 1)
    BY <2>3 DEF IsFlatten
  <2>5. n + 1 \in 0..len
    OBVIOUS
  <2>6. QED
    BY <2>4, <2>5
<1> HIDE DEF T
<1>3. \A n \in 0..len : n \in T
  BY <1>1, <1>2, Induction
<1>4. len \in T
  BY <1>3
<1>5. QED
  BY <1>4 DEF T

LEMMA FlattenUnfolds ==
  ASSUME NEW q, NEW n \in Nat \ {0}, Len(q) = n
  PROVE  \E p : Flattens(p, q, n) /\ FlattenSeq(q) = p[n]
<1> DEFINE p == CHOOSE r : IsFlatten(r, q, Len(q))
<1>1. IsFlatten(p, q, Len(q))
  BY FlattenExists
<1>2. FlattenSeq(q) = p[Len(q)]
  BY DEF FlattenSeq, IsFlatten
<1> HIDE DEF p
<1>3. Flattens(p, q, n)
  BY <1>1 DEF Flattens, IsFlatten
<1>4. QED
  BY <1>2, <1>3

LEMMA FlattenUnique ==
  ASSUME NEW n \in Nat, NEW p, NEW q, NEW r, NEW s, Flattens(p, q, n),
         Flattens(r, s, n), \A i \in 1..n : q[i] = s[i]
  PROVE  \A i \in 1..n : p[i] = r[i]
<1> DEFINE T == {i \in 0..n : i # 0 => p[i] = r[i]}
<1>1. 0 \in T
  OBVIOUS
<1>2. ASSUME NEW i \in 0..(n - 1), i \in T
      PROVE  i + 1 \in T
  <2>1. i + 1 \in 1..n /\ (i + 1) - 1 = i /\ (i + 1 = 1 <=> i = 0)
    OBVIOUS
  <2>2. /\ p[i + 1] = IF i = 0 THEN q[i + 1] ELSE p[i] \o q[i + 1]
        /\ r[i + 1] = IF i = 0 THEN s[i + 1] ELSE r[i] \o s[i + 1]
    BY <2>1 DEF Flattens
  <2>3. QED
    BY <1>2, <2>1, <2>2
<1> HIDE DEF T
<1>3. \A i \in 0..n : i \in T
  BY <1>1, <1>2, Induction
<1>4. QED
  BY <1>3 DEF T

(* The cells of the first n segments.                                      *)
Pre(q, n) == FlattenSeq([i \in 1..n |-> q[i]])

LEMMA PreNone == ASSUME NEW q PROVE Pre(q, 0) = <<>>
<1>1. [i \in 1..0 |-> q[i]] = <<>>
  OBVIOUS
<1>2. FlattenSeq(<<>>) = <<>>
  BY DEF FlattenSeq
<1>3. QED
  BY <1>1, <1>2 DEF Pre

LEMMA PreFirst == ASSUME NEW q PROVE Pre(q, 1) = q[1]
<1> DEFINE h == [i \in 1..1 |-> q[i]]
<1>1. Len(h) = 1 /\ h[1] = q[1]
  OBVIOUS
<1> HIDE DEF h
<1>2. PICK p : Flattens(p, h, 1) /\ FlattenSeq(h) = p[1]
  <2>1. 1 \in Nat \ {0}
    OBVIOUS
  <2>2. QED
    BY <1>1, <2>1, FlattenUnfolds, Zenon
<1>3. p[1] = h[1]
  BY <1>2 DEF Flattens
<1>4. QED
  BY <1>1, <1>2, <1>3 DEF Pre, h

LEMMA PreLater ==
  ASSUME NEW q, NEW n \in Nat \ {0}
  PROVE  Pre(q, n + 1) = Pre(q, n) \o q[n + 1]
<1> DEFINE h == [i \in 1..n |-> q[i]]
           k == [i \in 1..(n + 1) |-> q[i]]
<1>1. /\ Len(h) = n /\ Len(k) = n + 1
      /\ \A i \in 1..n : h[i] = q[i] /\ k[i] = q[i]
      /\ k[n + 1] = q[n + 1]
  OBVIOUS
<1> HIDE DEF h, k
<1>2. PICK p : Flattens(p, h, n) /\ FlattenSeq(h) = p[n]
  BY <1>1, FlattenUnfolds
<1>3. PICK r : Flattens(r, k, n + 1) /\ FlattenSeq(k) = r[n + 1]
  BY <1>1, FlattenUnfolds
<1>4. Flattens(r, k, n)
  BY <1>3 DEF Flattens
<1>5. r[n] = p[n]
  BY <1>1, <1>2, <1>4, FlattenUnique
<1>6. r[n + 1] = r[n] \o k[n + 1]
  <2>1. n + 1 \in 1..(n + 1) /\ n + 1 # 1 /\ (n + 1) - 1 = n
    OBVIOUS
  <2>2. QED
    BY <1>3, <2>1 DEF Flattens
<1>7. QED
  BY <1>1, <1>2, <1>3, <1>5, <1>6 DEF Pre, h, k

LEMMA FlattenIsPre ==
  ASSUME NEW S, NEW q \in Seq(S)
  PROVE  FlattenSeq(q) = Pre(q, Len(q))
<1>1. q = [i \in 1..Len(q) |-> q[i]]
  BY LenProperties
<1>2. QED
  BY <1>1 DEF Pre

(* The same for segments that are sequences of cells.                      *)
LEMMA PreGrows ==
  ASSUME NEW S, NEW q \in Seq(Seq(S))
  PROVE  \A n \in 0..Len(q) :
           /\ Pre(q, n) \in Seq(S)
           /\ n # 0 => Pre(q, n) = Pre(q, n - 1) \o q[n]
<1> DEFINE T == {n \in 0..Len(q) :
                   /\ Pre(q, n) \in Seq(S)
                   /\ n # 0 => Pre(q, n) = Pre(q, n - 1) \o q[n]}
<1>1. Len(q) \in Nat /\ \A i \in 1..Len(q) : q[i] \in Seq(S)
  BY LenProperties, ElementOfSeq
<1>2. 0 \in T
  <2>1. 0 \in 0..Len(q) /\ <<>> \in Seq(S)
    BY <1>1
  <2>2. QED
    BY <2>1, PreNone
<1>3. ASSUME NEW n \in 0..(Len(q) - 1), n \in T
      PROVE  n + 1 \in T
  <2>1. q[n + 1] \in Seq(S) /\ n + 1 \in 0..Len(q) /\ (n + 1) - 1 = n
    BY <1>1
  <2>2. Pre(q, n + 1) = Pre(q, n) \o q[n + 1]
    <3>1. CASE n = 0
      <4>1. <<>> \o q[n + 1] = q[n + 1]
        BY <2>1, ConcatEmptySeq
      <4>2. n + 1 = 1
        BY <3>1
      <4>3. QED
        BY <3>1, <4>1, <4>2, PreNone, PreFirst
    <3>2. CASE n # 0
      <4>1. n \in Nat \ {0}
        BY <3>2
      <4>2. QED
        BY <4>1, PreLater, Zenon
    <3>3. QED
      BY <3>1, <3>2
  <2>3. Pre(q, n + 1) \in Seq(S)
    BY <1>3, <2>1, <2>2, ConcatProperties
  <2>4. QED
    BY <2>1, <2>2, <2>3
<1> HIDE DEF T
<1>4. \A n \in 0..Len(q) : n \in T
  BY <1>1, <1>2, <1>3, Induction
<1>5. QED
  BY <1>4 DEF T

LEMMA FlattenType ==
  ASSUME NEW S, NEW q \in Seq(Seq(S))
  PROVE  FlattenSeq(q) \in Seq(S)
<1>1. Len(q) \in 0..Len(q)
  BY LenProperties
<1>2. QED
  BY <1>1, PreGrows, FlattenIsPre

(* What follows the first segment stays when that is replaced, up to the   *)
(* end of any other segment and up to the end of the chain.                *)
LEMMA PreFront ==
  ASSUME NEW S, NEW q \in Seq(Seq(S)), NEW m \in 1..Len(q)
  PROVE  \E rest \in Seq(S) :
           \A x \in Seq(S) : Pre([q EXCEPT ![1] = x], m) = x \o rest
<1>0. ASSUME NEW a \in Seq(S), NEW b \in Seq(S), NEW c \in Seq(S)
      PROVE  (a \o b) \o c = a \o (b \o c)
  BY ConcatAssociative
<1> DEFINE with(x) == [q EXCEPT ![1] = x]
           T == {n \in 0..(Len(q) - 1) :
                   \E rest \in Seq(S) :
                     \A x \in Seq(S) : Pre(with(x), n + 1) = x \o rest}
<1>1. /\ Len(q) \in Nat
      /\ \A i \in 1..Len(q) : q[i] \in Seq(S)
      /\ \A x \in Seq(S) : /\ with(x) \in Seq(Seq(S))
                           /\ Len(with(x)) = Len(q)
                           /\ with(x)[1] = x
                           /\ \A i \in 2..Len(q) : with(x)[i] = q[i]
  BY LenProperties, ElementOfSeq
<1> HIDE DEF with
<1>2. 0 \in T
  <2>1. ASSUME NEW x \in Seq(S)
        PROVE  Pre(with(x), 0 + 1) = x \o <<>>
    <3>1. Pre(with(x), 1) = x
      BY <1>1, PreFirst
    <3>2. QED
      BY <3>1, ConcatEmptySeq
  <2>2. <<>> \in Seq(S) /\ 0 \in 0..(Len(q) - 1)
    BY <1>1
  <2>3. QED
    BY <2>1, <2>2
<1>3. ASSUME NEW n \in 0..((Len(q) - 1) - 1), n \in T
      PROVE  n + 1 \in T
  <2>1. PICK rest \in Seq(S) : \A x \in Seq(S) : Pre(with(x), n + 1) = x \o rest
    BY <1>3
  <2> DEFINE more == rest \o q[n + 2]
  <2>2. /\ n + 2 \in 2..Len(q) /\ n + 2 \in 0..Len(q) /\ n + 2 # 0
        /\ (n + 2) - 1 = n + 1 /\ q[n + 2] \in Seq(S)
    BY <1>1
  <2>3. more \in Seq(S)
    BY <2>2, ConcatProperties
  <2>4. ASSUME NEW x \in Seq(S)
        PROVE  Pre(with(x), (n + 1) + 1) = x \o more
    <3>1. Pre(with(x), n + 2) = Pre(with(x), n + 1) \o with(x)[n + 2]
      <4>1. /\ with(x) \in Seq(Seq(S)) /\ n + 2 \in 0..Len(with(x))
        BY <1>1, <2>2
      <4>2. Pre(with(x), n + 2) = Pre(with(x), (n + 2) - 1) \o with(x)[n + 2]
        BY <2>2, <4>1, PreGrows, Zenon
      <4>3. QED
        BY <2>2, <4>2
    <3>2. Pre(with(x), n + 2) = (x \o rest) \o q[n + 2]
      BY <1>1, <2>1, <2>2, <3>1
    <3>3. (x \o rest) \o q[n + 2] = x \o more
      <4> DEFINE c == q[n + 2]
      <4>1. c \in Seq(S)
        BY <2>2
      <4> HIDE DEF c
      <4>2. (x \o rest) \o c = x \o (rest \o c)
        BY <1>0, <4>1
      <4>3. QED
        BY <4>2 DEF more, c
    <3>4. (n + 1) + 1 = n + 2
      OBVIOUS
    <3>5. QED
      BY <3>2, <3>3, <3>4
  <2>5. n + 1 \in 0..(Len(q) - 1)
    BY <1>1
  <2> HIDE DEF more
  <2>6. QED
    BY <2>3, <2>4, <2>5
<1> HIDE DEF T
<1>4. Len(q) - 1 \in Nat /\ m - 1 \in 0..(Len(q) - 1) /\ (m - 1) + 1 = m
  BY <1>1
<1>5. \A n \in 0..(Len(q) - 1) : n \in T
  BY <1>2, <1>3, <1>4, Induction
<1>6. m - 1 \in T
  BY <1>4, <1>5
<1>7. PICK rest \in Seq(S) :
        \A x \in Seq(S) : Pre(with(x), (m - 1) + 1) = x \o rest
  BY <1>6 DEF T
<1>8. \A x \in Seq(S) : Pre(with(x), m) = x \o rest
  BY <1>4, <1>7
<1>9. QED
  BY <1>8 DEF with

LEMMA FlattenFront ==
  ASSUME NEW S, NEW q \in Seq(Seq(S)), Len(q) # 0
  PROVE  \E rest \in Seq(S) :
           \A x \in Seq(S) : FlattenSeq([q EXCEPT ![1] = x]) = x \o rest
<1>1. Len(q) \in 1..Len(q) /\ 1 \in 1..Len(q)
  BY LenProperties
<1>2. \A m \in 1..Len(q) :
        \E rest \in Seq(S) :
          \A x \in Seq(S) : Pre([q EXCEPT ![1] = x], m) = x \o rest
  BY PreFront
<1> DEFINE n == Len(q)
<1> HIDE DEF n
<1>5. PICK rest \in Seq(S) :
        \A x \in Seq(S) : Pre([q EXCEPT ![1] = x], Len(q)) = x \o rest
  BY <1>1, <1>2, Zenon
<1>3. ASSUME NEW x \in Seq(S)
      PROVE  FlattenSeq([q EXCEPT ![1] = x]) = x \o rest
  <2> DEFINE r == [q EXCEPT ![1] = x]
  <2>1. r \in Seq(Seq(S)) /\ Len(r) = Len(q)
    BY <1>1, ExceptSeq
  <2>2. Pre(r, Len(q)) = x \o rest
    BY <1>5
  <2> HIDE DEF r
  <2>3. FlattenSeq(r) = Pre(r, Len(r))
    BY <2>1, FlattenIsPre
  <2>4. QED
    BY <2>1, <2>2, <2>3 DEF r
<1>4. QED
  BY <1>3

(* A segment that is put in front.                                         *)
LEMMA FlattenCons ==
  ASSUME NEW S, NEW q \in Seq(Seq(S)), NEW x \in Seq(S)
  PROVE  /\ Cons(x, q) \in Seq(Seq(S))
         /\ Len(Cons(x, q)) = Len(q) + 1
         /\ Cons(x, q)[1] = x
         /\ \A i \in 1..Len(q) : Cons(x, q)[i + 1] = q[i]
         /\ \A m \in 0..Len(q) : Pre(Cons(x, q), m + 1) = x \o Pre(q, m)
         /\ FlattenSeq(Cons(x, q)) = x \o FlattenSeq(q)
<1>0. ASSUME NEW a \in Seq(S), NEW b \in Seq(S), NEW c \in Seq(S)
      PROVE  (a \o b) \o c = a \o (b \o c)
  BY ConcatAssociative
<1> DEFINE r == Cons(x, q)
           T == {n \in 0..Len(q) : Pre(r, n + 1) = x \o Pre(q, n)}
<1>1. Len(q) \in Nat /\ \A i \in 1..Len(q) : q[i] \in Seq(S)
  BY LenProperties, ElementOfSeq
<1>2. /\ r \in Seq(Seq(S))
      /\ Len(r) = Len(q) + 1
      /\ r[1] = x
      /\ \A i \in 1..Len(q) : r[i + 1] = q[i]
  <2> DEFINE one == <<x>>
  <2>1. one \in Seq(Seq(S)) /\ Len(one) = 1 /\ one[1] = x
    OBVIOUS
  <2> HIDE DEF one
  <2>2. /\ one \o q \in Seq(Seq(S))
        /\ Len(one \o q) = Len(one) + Len(q)
        /\ \A i \in 1..(Len(one) + Len(q)) :
             (one \o q)[i] = IF i <= Len(one) THEN one[i] ELSE q[i - Len(one)]
    BY <2>1, ConcatProperties
  <2>3. (one \o q)[1] = x
    BY <1>1, <2>1, <2>2
  <2>4. ASSUME NEW i \in 1..Len(q)
        PROVE  (one \o q)[i + 1] = q[i]
    <3>1. i + 1 \in 1..(1 + Len(q)) /\ ~(i + 1 <= 1) /\ (i + 1) - 1 = i
      BY <1>1
    <3>2. QED
      BY <2>1, <2>2, <3>1
  <2>5. QED
    BY <1>1, <2>1, <2>2, <2>3, <2>4 DEF one, Cons
<1> HIDE DEF r
<1>3. 0 \in T
  BY <1>1, <1>2, PreFirst, PreNone, ConcatEmptySeq
<1>4. ASSUME NEW n \in 0..(Len(q) - 1), n \in T
      PROVE  n + 1 \in T
  <2>1. /\ n + 1 \in 1..Len(q) /\ n + 1 \in 0..Len(q) /\ n + 1 # 0
        /\ n \in 0..Len(q) /\ (n + 1) - 1 = n
        /\ n + 2 \in 0..Len(r) /\ n + 2 # 0 /\ (n + 2) - 1 = n + 1
        /\ (n + 1) + 1 = n + 2
    BY <1>1, <1>2
  <2>2. Pre(r, n + 2) = Pre(r, n + 1) \o r[n + 2]
    BY <1>2, <2>1, PreGrows
  <2>3. r[n + 2] = q[n + 1]
    BY <1>2, <2>1
  <2>4. Pre(q, n + 1) = Pre(q, n) \o q[n + 1] /\ Pre(q, n) \in Seq(S)
    BY <2>1, PreGrows
  <2>5. Pre(r, n + 1) = x \o Pre(q, n)
    BY <1>4
  <2>6. (x \o Pre(q, n)) \o q[n + 1] = x \o (Pre(q, n) \o q[n + 1])
    <3> DEFINE b == Pre(q, n)
               c == q[n + 1]
    <3>1. b \in Seq(S) /\ c \in Seq(S)
      BY <1>1, <2>1, <2>4
    <3> HIDE DEF b, c
    <3>2. (x \o b) \o c = x \o (b \o c)
      BY <1>0, <3>1
    <3>3. QED
      BY <3>2 DEF b, c
  <2>7. QED
    BY <2>1, <2>2, <2>3, <2>4, <2>5, <2>6
<1> HIDE DEF T
<1>5. \A n \in 0..Len(q) : n \in T
  BY <1>1, <1>3, <1>4, Induction
<1>6. \A n \in 0..Len(q) : Pre(r, n + 1) = x \o Pre(q, n)
  BY <1>5 DEF T
<1>7. FlattenSeq(r) = x \o FlattenSeq(q)
  <2>1. Len(q) \in 0..Len(q)
    BY <1>1
  <2>2. FlattenSeq(r) = Pre(r, Len(q) + 1) /\ FlattenSeq(q) = Pre(q, Len(q))
    BY <1>2, FlattenIsPre
  <2>3. QED
    BY <1>6, <2>1, <2>2
<1>8. QED
  BY <1>2, <1>6, <1>7 DEF r

(* The cells of the first segments come first.                             *)
LEMMA PreIsPrefix ==
  ASSUME NEW S, NEW q \in Seq(Seq(S)), NEW m \in 0..Len(q)
  PROVE  /\ Len(Pre(q, m)) <= Len(FlattenSeq(q))
         /\ \A k \in 1..Len(Pre(q, m)) : FlattenSeq(q)[k] = Pre(q, m)[k]
<1> DEFINE n == Len(q) - m
           T == {i \in 0..n :
                   /\ Len(Pre(q, m)) <= Len(Pre(q, m + i))
                   /\ \A k \in 1..Len(Pre(q, m)) : Pre(q, m + i)[k] = Pre(q, m)[k]}
<1>1. /\ Len(q) \in Nat /\ n \in Nat /\ m \in Nat /\ m + n = Len(q) /\ m + 0 = m
      /\ \A i \in 1..Len(q) : q[i] \in Seq(S)
  BY LenProperties, ElementOfSeq
<1>2. \A i \in 0..Len(q) : Pre(q, i) \in Seq(S) /\ Len(Pre(q, i)) \in Nat
  BY PreGrows, LenProperties
<1> HIDE DEF n
<1>3. 0 \in T
  BY <1>1, <1>2
<1>4. ASSUME NEW i \in 0..(n - 1), i \in T
      PROVE  i + 1 \in T
  <2>1. /\ m + i \in 0..Len(q) /\ m + (i + 1) \in 0..Len(q)
        /\ m + (i + 1) \in 1..Len(q) /\ m + (i + 1) # 0
        /\ (m + (i + 1)) - 1 = m + i /\ i + 1 \in 0..n
    BY <1>1
  <2> DEFINE a == Pre(q, m + i)
             b == q[m + (i + 1)]
  <2>2. /\ Pre(q, m + (i + 1)) = a \o b
        /\ a \in Seq(S) /\ Len(a) \in Nat /\ b \in Seq(S) /\ Len(b) \in Nat
    BY <1>1, <1>2, <2>1, PreGrows, LenProperties
  <2>3. /\ Len(Pre(q, m)) <= Len(a)
        /\ \A k \in 1..Len(Pre(q, m)) : a[k] = Pre(q, m)[k]
    BY <1>4
  <2> HIDE DEF a, b
  <2>4. /\ Len(a \o b) = Len(a) + Len(b)
        /\ \A k \in 1..(Len(a) + Len(b)) :
             (a \o b)[k] = IF k <= Len(a) THEN a[k] ELSE b[k - Len(a)]
    BY <2>2, ConcatProperties
  <2>5. Len(Pre(q, m)) \in Nat
    BY <1>2
  <2>6. \A k \in 1..Len(Pre(q, m)) : (a \o b)[k] = Pre(q, m)[k]
    BY <2>2, <2>3, <2>4, <2>5
  <2>7. Len(Pre(q, m)) <= Len(a \o b)
    BY <2>2, <2>3, <2>4, <2>5
  <2>8. QED
    BY <2>1, <2>2, <2>6, <2>7
<1> HIDE DEF T
<1>5. n \in T
  <2>1. \A i \in 0..n : i \in T
    BY <1>1, <1>3, <1>4, Induction
  <2>2. QED
    BY <1>1, <2>1
<1>6. QED
  BY <1>1, <1>5, FlattenIsPre DEF T

(* Where the cells of a segment are among those of the chain.              *)
LEMMA CellInFlatten ==
  ASSUME NEW S, NEW q \in Seq(Seq(S)), NEW s \in 0..(Len(q) - 1),
         NEW p \in 1..Len(q[s + 1])
  PROVE  /\ Len(Pre(q, s)) + p \in 1..Len(FlattenSeq(q))
         /\ FlattenSeq(q)[Len(Pre(q, s)) + p] = q[s + 1][p]
<1>1. /\ Len(q) \in Nat /\ s \in 0..Len(q) /\ s + 1 \in 0..Len(q) /\ s + 1 # 0
      /\ (s + 1) - 1 = s
      /\ q[s + 1] \in Seq(S) /\ Len(q[s + 1]) \in Nat
  BY LenProperties, ElementOfSeq
<1> DEFINE a == Pre(q, s)
           b == q[s + 1]
<1>2. /\ Pre(q, s + 1) = a \o b
      /\ a \in Seq(S) /\ Len(a) \in Nat /\ b \in Seq(S) /\ Len(b) \in Nat
  BY <1>1, PreGrows, LenProperties
<1>3. /\ Len(Pre(q, s + 1)) <= Len(FlattenSeq(q))
      /\ \A k \in 1..Len(Pre(q, s + 1)) : FlattenSeq(q)[k] = Pre(q, s + 1)[k]
  BY <1>1, PreIsPrefix
<1>4. p \in 1..Len(b)
  OBVIOUS
<1>5. Len(FlattenSeq(q)) \in Nat
  BY FlattenType, LenProperties
<1> HIDE DEF a, b
<1>6. /\ Len(a \o b) = Len(a) + Len(b)
      /\ \A k \in 1..(Len(a) + Len(b)) :
           (a \o b)[k] = IF k <= Len(a) THEN a[k] ELSE b[k - Len(a)]
  BY <1>2, ConcatProperties
<1>7. /\ Len(a) + p \in 1..(Len(a) + Len(b)) /\ ~(Len(a) + p <= Len(a))
      /\ (Len(a) + p) - Len(a) = p
  BY <1>2, <1>4
<1>8. (a \o b)[Len(a) + p] = b[p]
  BY <1>6, <1>7
<1>9. QED
  BY <1>2, <1>3, <1>5, <1>6, <1>7, <1>8 DEF a, b

-----------------------------------------------------------------------------
(* What is left of a sequence without its first k elements.                *)
Drop(s, k) == SubSeq(s, k + 1, Len(s))

LEMMA DropProperties ==
  ASSUME NEW S, NEW s \in Seq(S), NEW k \in 0..Len(s)
  PROVE  /\ Drop(s, k) \in Seq(S)
         /\ Len(Drop(s, k)) = Len(s) - k
         /\ \A i \in 1..(Len(s) - k) : Drop(s, k)[i] = s[k + i]
<1>1. Len(s) \in Nat /\ k \in Nat /\ k + 1 \in Int /\ Len(s) \in Int
  BY LenProperties
<1>2. \A i \in (k + 1)..Len(s) : s[i] \in S
  BY <1>1, ElementOfSeq
<1>3. /\ SubSeq(s, k + 1, Len(s)) \in Seq(S)
      /\ Len(SubSeq(s, k + 1, Len(s))) =
           IF k + 1 <= Len(s) THEN Len(s) - (k + 1) + 1 ELSE 0
      /\ \A i \in 1..(Len(s) - (k + 1) + 1) :
           SubSeq(s, k + 1, Len(s))[i] = s[(k + 1) + i - 1]
  BY <1>1, <1>2, SubSeqProperties
<1>4. Len(Drop(s, k)) = Len(s) - k
  BY <1>1, <1>3 DEF Drop
<1>5. ASSUME NEW i \in 1..(Len(s) - k)
      PROVE  Drop(s, k)[i] = s[k + i]
  <2>1. i \in 1..(Len(s) - (k + 1) + 1) /\ (k + 1) + i - 1 = k + i
    BY <1>1
  <2>2. QED
    BY <1>3, <2>1 DEF Drop
<1>6. QED
  BY <1>3, <1>4, <1>5 DEF Drop

(* Dropping from the first of two sequences, and all of it.                *)
LEMMA DropFromFirst ==
  ASSUME NEW S, NEW a \in Seq(S), NEW b \in Seq(S), NEW k \in 0..Len(a)
  PROVE  Drop(a \o b, k) = Drop(a, k) \o b
<1>1. /\ Len(a) \in Nat /\ Len(b) \in Nat
      /\ a \o b \in Seq(S) /\ Len(a \o b) = Len(a) + Len(b)
      /\ \A i \in 1..(Len(a) + Len(b)) :
           (a \o b)[i] = IF i <= Len(a) THEN a[i] ELSE b[i - Len(a)]
  BY LenProperties, ConcatProperties
<1> DEFINE ab == a \o b
           d == Drop(a, k)
<1>2. /\ d \in Seq(S) /\ Len(d) = Len(a) - k
      /\ \A i \in 1..(Len(a) - k) : d[i] = a[k + i]
  BY DropProperties
<1>3. /\ ab \in Seq(S) /\ Len(ab) = Len(a) + Len(b) /\ k \in 0..Len(ab)
      /\ \A i \in 1..(Len(a) + Len(b)) :
           ab[i] = IF i <= Len(a) THEN a[i] ELSE b[i - Len(a)]
  BY <1>1
<1> HIDE DEF ab, d
<1>4. /\ Drop(ab, k) \in Seq(S) /\ Len(Drop(ab, k)) = Len(ab) - k
      /\ \A i \in 1..(Len(ab) - k) : Drop(ab, k)[i] = ab[k + i]
  BY <1>3, DropProperties
<1>5. /\ d \o b \in Seq(S) /\ Len(d \o b) = Len(d) + Len(b)
      /\ \A i \in 1..(Len(d) + Len(b)) :
           (d \o b)[i] = IF i <= Len(d) THEN d[i] ELSE b[i - Len(d)]
  BY <1>2, ConcatProperties
<1>6. Len(Drop(ab, k)) = Len(d \o b)
  BY <1>1, <1>2, <1>3, <1>4, <1>5
<1>7. ASSUME NEW i \in 1..Len(Drop(ab, k))
      PROVE  Drop(ab, k)[i] = (d \o b)[i]
  <2>1. /\ i \in Nat /\ i \in 1..(Len(ab) - k) /\ k + i \in 1..(Len(a) + Len(b))
        /\ i \in 1..(Len(d) + Len(b))
        /\ k + i <= Len(a) <=> i <= Len(d)
        /\ (k + i) - Len(a) = i - Len(d)
    BY <1>1, <1>2, <1>3, <1>4
  <2>2. Drop(ab, k)[i] = IF k + i <= Len(a) THEN a[k + i] ELSE b[(k + i) - Len(a)]
    BY <1>3, <1>4, <2>1
  <2>3. i <= Len(d) => d[i] = a[k + i]
    BY <1>2, <2>1
  <2>4. QED
    BY <1>5, <2>1, <2>2, <2>3
<1>8. Drop(ab, k) = d \o b
  BY <1>4, <1>5, <1>6, <1>7, SeqEqual
<1>9. QED
  BY <1>8 DEF ab, d

LEMMA DropAll ==
  ASSUME NEW S, NEW a \in Seq(S)
  PROVE  Drop(a, Len(a)) = <<>> /\ Drop(a, 0) = a
<1>1. Len(a) \in Nat /\ Len(a) + 1 \in Int /\ Len(a) \in Int /\ Len(a) < Len(a) + 1
  BY LenProperties
<1>2. SubSeq(a, Len(a) + 1, Len(a)) = <<>>
  BY <1>1, SubSeqEmpty
<1>3. SubSeq(a, 1, Len(a)) = a
  BY SubSeqFull
<1>4. QED
  BY <1>2, <1>3 DEF Drop

LEMMA DropFirst ==
  ASSUME NEW S, NEW a \in Seq(S), NEW b \in Seq(S)
  PROVE  Drop(a \o b, Len(a)) = b
<1>1. Len(a) \in 0..Len(a)
  BY LenProperties
<1>2. Drop(a \o b, Len(a)) = Drop(a, Len(a)) \o b
  BY <1>1, DropFromFirst
<1>3. Drop(a, Len(a)) = <<>>
  BY DropAll
<1>4. QED
  BY <1>2, <1>3, ConcatEmptySeq

LEMMA DropTwice ==
  ASSUME NEW S, NEW a \in Seq(S), NEW k \in 0..Len(a), NEW m \in 0..(Len(a) - k)
  PROVE  Drop(Drop(a, k), m) = Drop(a, k + m)
<1>1. Len(a) \in Nat /\ k + m \in 0..Len(a)
  BY LenProperties
<1> DEFINE d == Drop(a, k)
           e == Drop(a, k + m)
<1>2. /\ d \in Seq(S) /\ Len(d) = Len(a) - k
      /\ \A i \in 1..(Len(a) - k) : d[i] = a[k + i]
  BY DropProperties
<1>3. /\ e \in Seq(S) /\ Len(e) = Len(a) - (k + m)
      /\ \A i \in 1..(Len(a) - (k + m)) : e[i] = a[(k + m) + i]
  BY <1>1, DropProperties
<1> HIDE DEF d, e
<1>4. m \in 0..Len(d)
  BY <1>1, <1>2
<1>5. /\ Drop(d, m) \in Seq(S) /\ Len(Drop(d, m)) = Len(d) - m
      /\ \A i \in 1..(Len(d) - m) : Drop(d, m)[i] = d[m + i]
  BY <1>2, <1>4, DropProperties
<1>6. Len(Drop(d, m)) = Len(e)
  BY <1>1, <1>2, <1>3, <1>5
<1>7. ASSUME NEW i \in 1..Len(Drop(d, m))
      PROVE  Drop(d, m)[i] = e[i]
  <2>1. /\ i \in 1..(Len(d) - m) /\ m + i \in 1..(Len(a) - k)
        /\ i \in 1..(Len(a) - (k + m)) /\ k + (m + i) = (k + m) + i
    BY <1>1, <1>2, <1>5
  <2>2. QED
    BY <1>2, <1>3, <1>5, <2>1
<1>8. Drop(d, m) = e
  BY <1>3, <1>5, <1>6, <1>7, SeqEqual
<1>9. QED
  BY <1>8 DEF d, e

(* The first segment holds all of the old front: without it, what follows  *)
(* that front is left.                                                     *)
LEMMA FrontDropped ==
  ASSUME NEW S, NEW c \in Seq(S), NEW rest \in Seq(S), NEW front \in Seq(S),
         NEW b \in Seq(S), Len(front) <= Len(c), c \o rest = front \o b
  PROVE  Drop(c, Len(front)) \o rest = b
<1>1. Len(front) \in 0..Len(c)
  BY LenProperties
<1>2. Drop(c \o rest, Len(front)) = Drop(c, Len(front)) \o rest
  BY <1>1, DropFromFirst
<1>3. Drop(front \o b, Len(front)) = b
  BY DropFirst
<1>4. QED
  BY <1>2, <1>3

-----------------------------------------------------------------------------
(* However cells are cut into segments, the segments hold those cells.     *)
LEMMA CutHolds ==
  ASSUME NEW S, NEW cells \in Seq(S), NEW n \in Nat, NEW cut \in Cuts(cells, n)
  PROVE  /\ cut \in Seq(Seq(S))
         /\ Len(cut) # 0
         /\ FlattenSeq(cut) = cells
<1>0. Len(cells) \in Nat
  BY LenProperties
<1>a. PICK m \in 1..n : \E ends \in [1..m -> 1..Len(cells)] :
        Ascending(ends) /\ ends[m] = Len(cells) /\ cut = Cut(cells, ends)
  BY DEF Cuts
<1>1. PICK ends \in [1..m -> 1..Len(cells)] :
        Ascending(ends) /\ ends[m] = Len(cells) /\ cut = Cut(cells, ends)
  BY <1>a
<1>2. /\ m \in Nat /\ m # 0
      /\ \A i \in 1..m : ends[i] \in 1..Len(cells)
      /\ \A i \in 1..m : i + 1 \in 1..m => ends[i] < ends[i + 1]
  BY <1>1 DEF Ascending
<1>3. cut = [i \in 1..m |->
               SubSeq(cells, (IF i = 1 THEN 0 ELSE ends[i - 1]) + 1, ends[i])]
  BY <1>1 DEF Cut
<1>4. ASSUME NEW i \in 1..m
      PROVE  SubSeq(cells, (IF i = 1 THEN 0 ELSE ends[i - 1]) + 1, ends[i]) \in Seq(S)
  <2> DEFINE from == (IF i = 1 THEN 0 ELSE ends[i - 1]) + 1
  <2>1. from \in 1..(Len(cells) + 1)
    BY <1>0, <1>2
  <2>2. from \in Int /\ ends[i] \in Int /\ \A j \in from..ends[i] : j \in 1..Len(cells)
    BY <1>0, <1>2, <2>1
  <2>3. \A j \in from..ends[i] : cells[j] \in S
    BY <2>2, ElementOfSeq
  <2> HIDE DEF from
  <2>4. SubSeq(cells, from, ends[i]) \in Seq(S)
    BY <2>2, <2>3, SubSeqProperties
  <2>5. QED
    BY <2>4 DEF from
<1>5. cut \in Seq(Seq(S)) /\ Len(cut) = m
  <2>1. cut \in [1..m -> Seq(S)]
    BY <1>3, <1>4
  <2>2. QED
    BY <1>2, <2>1
<1> DEFINE T == {i \in 0..(m - 1) : Pre(cut, i + 1) = SubSeq(cells, 1, ends[i + 1])}
<1>6. 0 \in T
  <2>1. 1 \in 1..m /\ 0 \in 0..(m - 1) /\ 0 + 1 = 1
    BY <1>2
  <2>2. cut[1] = SubSeq(cells, 1, ends[1])
    BY <1>3, <2>1
  <2>3. Pre(cut, 1) = cut[1]
    BY PreFirst
  <2>4. QED
    BY <2>1, <2>2, <2>3
<1>7. ASSUME NEW i \in 0..((m - 1) - 1), i \in T
      PROVE  i + 1 \in T
  <2>1. /\ i + 1 \in 1..m /\ i + 2 \in 1..m /\ i + 2 # 1 /\ (i + 2) - 1 = i + 1
        /\ i + 1 \in 0..(m - 1) /\ (i + 1) + 1 = i + 2
        /\ i + 2 \in 0..Len(cut) /\ i + 2 # 0
    BY <1>2, <1>5
  <2> DEFINE k == ends[i + 1]
             l == ends[i + 2]
  <2>2. k \in 1..Len(cells) /\ l \in 1..Len(cells) /\ k < l
    BY <1>2, <2>1
  <2>3. cut[i + 2] = SubSeq(cells, k + 1, l)
    BY <1>3, <2>1
  <2>4. Pre(cut, i + 2) = Pre(cut, i + 1) \o cut[i + 2]
    BY <1>5, <2>1, PreGrows
  <2>5. Pre(cut, i + 1) = SubSeq(cells, 1, k)
    BY <1>7
  <2> HIDE DEF k, l
  <2>6. /\ 1 \in 1..(Len(cells) + 1)
        /\ k \in (1 - 1)..Len(cells)
        /\ l \in k..Len(cells)
    BY <1>0, <2>2
  <2>7. SubSeq(cells, 1, k) \o SubSeq(cells, k + 1, l) = SubSeq(cells, 1, l)
    BY <2>6, ConcatAdjacentSubSeq
  <2>8. Pre(cut, i + 2) = SubSeq(cells, 1, l)
    BY <2>3, <2>4, <2>5, <2>7
  <2>9. QED
    BY <2>1, <2>8 DEF l
<1> HIDE DEF T
<1>8. m - 1 \in T
  <2>1. m - 1 \in Nat /\ m - 1 \in 0..(m - 1)
    BY <1>2
  <2>2. \A i \in 0..(m - 1) : i \in T
    BY <1>6, <1>7, <2>1, Induction
  <2>3. QED
    BY <2>1, <2>2
<1>9. Pre(cut, m) = SubSeq(cells, 1, Len(cells))
  <2>1. (m - 1) + 1 = m
    BY <1>2
  <2>2. QED
    BY <1>1, <1>8, <2>1 DEF T
<1>10. SubSeq(cells, 1, Len(cells)) = cells
  BY SubSeqFull
<1>11. FlattenSeq(cut) = cells
  BY <1>5, <1>9, <1>10, FlattenIsPre
<1>12. QED
  BY <1>2, <1>5, <1>11

Names == {"oether", "oip", "geneve", "ether", "ip", "tcp", "udp", "echo"}
Cell == (Names \cup {"body", "stale"}) \X Nat
Segment == [room : Nat, cells : Seq(Cell)]

(* What the segments of a chain hold.                                      *)
Held(ss) == [i \in DOMAIN ss |-> ss[i].cells]

LEMMA HeldType ==
  ASSUME NEW ss \in Seq(Segment)
  PROVE  /\ Held(ss) \in Seq(Seq(Cell))
         /\ Len(Held(ss)) = Len(ss)
         /\ \A i \in 1..Len(ss) : Held(ss)[i] = ss[i].cells
         /\ Flat(ss) = FlattenSeq(Held(ss))
         /\ Flat(ss) \in Seq(Cell)
<1>1. /\ Len(ss) \in Nat /\ DOMAIN ss = 1..Len(ss)
      /\ \A i \in 1..Len(ss) : ss[i] \in Segment
  BY LenProperties, ElementOfSeq
<1>2. Held(ss) \in [1..Len(ss) -> Seq(Cell)]
  BY <1>1 DEF Held, Segment
<1>3. Held(ss) \in Seq(Seq(Cell)) /\ Len(Held(ss)) = Len(ss)
  BY <1>1, <1>2
<1>4. Flat(ss) = FlattenSeq(Held(ss))
  BY DEF Flat, Held
<1>5. Flat(ss) \in Seq(Cell)
  BY <1>3, <1>4, FlattenType
<1>6. QED
  BY <1>1, <1>3, <1>4, <1>5 DEF Held

LEMMA ChainHolds ==
  ASSUME NEW cells \in Seq(Cell), NEW n \in Nat, NEW rooms \in SUBSET Nat,
         NEW ss \in Chains(cells, n, rooms)
  PROVE  ss \in Seq(Segment) /\ Len(ss) # 0 /\ Flat(ss) = cells
<1>1. PICK cut \in Cuts(cells, n), r \in rooms :
        ss = [i \in DOMAIN cut |->
                [room |-> IF i = 1 THEN r ELSE 0, cells |-> cut[i]]]
  BY DEF Chains
<1>2. cut \in Seq(Seq(Cell)) /\ Len(cut) # 0 /\ FlattenSeq(cut) = cells
  BY CutHolds
<1>3. /\ Len(cut) \in Nat /\ DOMAIN cut = 1..Len(cut)
      /\ \A i \in 1..Len(cut) : cut[i] \in Seq(Cell)
  BY <1>2, LenProperties, ElementOfSeq
<1>4. ss \in [1..Len(cut) -> Segment]
  BY <1>1, <1>3 DEF Segment
<1>5. ss \in Seq(Segment) /\ Len(ss) = Len(cut)
  BY <1>3, <1>4
<1>6. Held(ss) = cut
  <2>1. Held(ss) = [i \in 1..Len(cut) |-> cut[i]]
    BY <1>1, <1>3 DEF Held
  <2>2. cut = [i \in 1..Len(cut) |-> cut[i]]
    BY <1>2, LenProperties
  <2>3. QED
    BY <2>1, <2>2
<1>7. QED
  BY <1>2, <1>5, <1>6, HeldType

-----------------------------------------------------------------------------
(* Sums of words.  A running sum is what Total() computes.                 *)
RunningSum(p, words, n) ==
  p[0] = 0 /\ \A i \in 1..n : p[i] = p[i - 1] + words[i]

IsTotal(p, words, n) ==
  p = [i \in 0..n |-> IF i = 0 THEN 0 ELSE p[i - 1] + words[i]]

LEMMA TotalExists ==
  ASSUME NEW words, NEW len \in Nat
  PROVE  \E p : IsTotal(p, words, len)
<1> DEFINE T == {n \in 0..len : \E p : IsTotal(p, words, n)}
<1>1. 0 \in T
  <2>1. IsTotal([i \in 0..0 |-> 0], words, 0)
    BY DEF IsTotal
  <2>2. QED
    BY <2>1
<1>2. ASSUME NEW n \in 0..(len - 1), n \in T
      PROVE  n + 1 \in T
  <2>1. PICK p : IsTotal(p, words, n)
    BY <1>2
  <2> DEFINE u == [i \in 0..(n + 1) |->
                    IF i = n + 1 THEN p[n] + words[i] ELSE p[i]]
  <2>2. \A i \in 0..n : u[i] = p[i]
    OBVIOUS
  <2>3. ASSUME NEW i \in 0..(n + 1)
        PROVE  u[i] = IF i = 0 THEN 0 ELSE u[i - 1] + words[i]
    <3>1. CASE i = n + 1
      <4>1. u[i - 1] = p[n] /\ i # 0
        BY <3>1, <2>2
      <4>2. QED
        BY <3>1, <4>1
    <3>2. CASE i # n + 1
      <4>1. i \in 0..n /\ (i # 0 => i - 1 \in 0..n)
        BY <3>2
      <4>2. p[i] = IF i = 0 THEN 0 ELSE p[i - 1] + words[i]
        BY <4>1, <2>1 DEF IsTotal
      <4>3. QED
        BY <4>1, <4>2, <2>2
    <3>3. QED
      BY <3>1, <3>2
  <2>4. IsTotal(u, words, n + 1)
    BY <2>3 DEF IsTotal
  <2>5. n + 1 \in 0..len
    OBVIOUS
  <2>6. QED
    BY <2>4, <2>5
<1> HIDE DEF T
<1>3. \A n \in 0..len : n \in T
  BY <1>1, <1>2, Induction
<1>4. len \in T
  BY <1>3
<1>5. QED
  BY <1>4 DEF T

LEMMA TotalUnfolds ==
  ASSUME NEW words, NEW n \in Nat, Len(words) = n
  PROVE  \E p : RunningSum(p, words, n) /\ Total(words) = p[n]
<1> DEFINE p == CHOOSE r : IsTotal(r, words, Len(words))
<1>1. IsTotal(p, words, Len(words))
  BY TotalExists
<1>2. Total(words) = p[Len(words)]
  BY DEF Total, IsTotal
<1> HIDE DEF p
<1>3. RunningSum(p, words, n)
  BY <1>1 DEF RunningSum, IsTotal
<1>4. QED
  BY <1>2, <1>3

LEMMA RunningSumType ==
  ASSUME NEW n \in Nat, NEW words, NEW p, RunningSum(p, words, n),
         \A i \in 1..n : words[i] \in Nat
  PROVE  \A i \in 0..n : p[i] \in Nat
<1> DEFINE T == {i \in 0..n : p[i] \in Nat}
<1>1. 0 \in T
  BY DEF RunningSum
<1>2. ASSUME NEW i \in 0..(n - 1), i \in T
      PROVE  i + 1 \in T
  <2>1. i + 1 \in 1..n /\ i + 1 \in 0..n /\ (i + 1) - 1 = i
    OBVIOUS
  <2>2. p[i + 1] = p[i] + words[i + 1]
    BY <2>1 DEF RunningSum
  <2>3. QED
    BY <1>2, <2>1, <2>2
<1> HIDE DEF T
<1>3. \A i \in 0..n : i \in T
  BY <1>1, <1>2, Induction
<1>4. QED
  BY <1>3 DEF T

LEMMA TotalType ==
  ASSUME NEW words \in Seq(Nat)
  PROVE  Total(words) \in Nat
<1>1. Len(words) \in Nat /\ \A i \in 1..Len(words) : words[i] \in Nat
  BY LenProperties, ElementOfSeq
<1>2. PICK p : RunningSum(p, words, Len(words)) /\ Total(words) = p[Len(words)]
  BY <1>1, TotalUnfolds
<1>3. \A i \in 0..Len(words) : p[i] \in Nat
  BY <1>1, <1>2, RunningSumType
<1>4. QED
  BY <1>1, <1>2, <1>3

LEMMA TotalConcat ==
  ASSUME NEW a \in Seq(Nat), NEW b \in Seq(Nat)
  PROVE  Total(a \o b) = Total(a) + Total(b)
<1> DEFINE ab == a \o b
           m == Len(a)
           n == Len(b)
<1>1. /\ m \in Nat /\ n \in Nat
      /\ Len(ab) = m + n /\ m + n \in Nat
      /\ \A i \in 1..m : ab[i] = a[i] /\ a[i] \in Nat
      /\ \A i \in 1..n : ab[m + i] = b[i] /\ b[i] \in Nat
  <2>1. m \in Nat /\ n \in Nat
    BY LenProperties
  <2>2. /\ Len(ab) = m + n
        /\ \A i \in 1..(m + n) : ab[i] = IF i <= m THEN a[i] ELSE b[i - m]
    BY ConcatProperties
  <2>3. \A i \in 1..m : ab[i] = a[i] /\ a[i] \in Nat
    BY <2>1, <2>2, ElementOfSeq
  <2>4. ASSUME NEW i \in 1..n
        PROVE  ab[m + i] = b[i] /\ b[i] \in Nat
    <3>1. m + i \in 1..(m + n) /\ ~(m + i <= m) /\ (m + i) - m = i
      BY <2>1
    <3>2. b[i] \in Nat
      BY ElementOfSeq
    <3>3. QED
      BY <2>2, <3>1, <3>2
  <2>5. QED
    BY <2>1, <2>2, <2>3, <2>4
<1> HIDE DEF ab, m, n
<1>2. PICK p : RunningSum(p, a, m) /\ Total(a) = p[m]
  BY <1>1, TotalUnfolds DEF m
<1>3. PICK q : RunningSum(q, b, n) /\ Total(b) = q[n]
  BY <1>1, TotalUnfolds DEF n
<1>4. PICK r : RunningSum(r, ab, m + n) /\ Total(ab) = r[m + n]
  BY <1>1, TotalUnfolds
<1>5. (\A i \in 0..m : p[i] \in Nat) /\ (\A i \in 0..n : q[i] \in Nat)
  BY <1>1, <1>2, <1>3, RunningSumType
<1> DEFINE T == {i \in 0..m : r[i] = p[i]}
           U == {i \in 0..n : r[m + i] = p[m] + q[i]}
<1>6. m \in T
  <2>1. 0 \in T
    BY <1>1, <1>2, <1>4 DEF RunningSum
  <2>2. ASSUME NEW i \in 0..(m - 1), i \in T
        PROVE  i + 1 \in T
    <3>1. i + 1 \in 1..m /\ i + 1 \in 0..m /\ i + 1 \in 1..(m + n) /\ (i + 1) - 1 = i
      BY <1>1
    <3>2. p[i + 1] = p[i] + a[i + 1] /\ r[i + 1] = r[i] + ab[i + 1]
      BY <1>2, <1>4, <3>1 DEF RunningSum
    <3>3. QED
      BY <1>1, <2>2, <3>1, <3>2
  <2> HIDE DEF T
  <2>3. \A i \in 0..m : i \in T
    BY <1>1, <2>1, <2>2, Induction
  <2>4. QED
    BY <1>1, <2>3
<1>7. n \in U
  <2>1. 0 \in U
    BY <1>1, <1>3, <1>5, <1>6 DEF RunningSum
  <2>2. ASSUME NEW i \in 0..(n - 1), i \in U
        PROVE  i + 1 \in U
    <3>1. /\ i + 1 \in 1..n /\ i + 1 \in 0..n /\ m + (i + 1) \in 1..(m + n)
          /\ (i + 1) - 1 = i /\ (m + (i + 1)) - 1 = m + i /\ i \in 0..n /\ m \in 0..m
      BY <1>1
    <3>2. /\ q[i + 1] = q[i] + b[i + 1]
          /\ r[m + (i + 1)] = r[m + i] + ab[m + (i + 1)]
      BY <1>3, <1>4, <3>1 DEF RunningSum
    <3>3. /\ ab[m + (i + 1)] = b[i + 1] /\ b[i + 1] \in Nat
          /\ p[m] \in Nat /\ q[i] \in Nat /\ r[m + i] = p[m] + q[i]
      BY <1>1, <1>5, <2>2, <3>1
    <3>4. r[m + (i + 1)] = p[m] + q[i + 1]
      BY <3>2, <3>3
    <3>5. QED
      BY <3>1, <3>4
  <2> HIDE DEF U
  <2>3. \A i \in 0..n : i \in U
    BY <1>1, <2>1, <2>2, Induction
  <2>4. QED
    BY <1>1, <2>3
<1>8. QED
  BY <1>2, <1>3, <1>4, <1>7 DEF ab

(* A word and its complement add up to all ones.                           *)
LEMMA TotalComplement ==
  ASSUME NEW words \in Seq(Word)
  PROVE  LET flipped == [i \in DOMAIN words |-> Complement(words[i])]
         IN /\ flipped \in Seq(Word)
            /\ Total(flipped) = Len(words) * WordMax - Total(words)
<1> DEFINE flipped == [i \in DOMAIN words |-> Complement(words[i])]
           n == Len(words)
<1>1. n \in Nat /\ DOMAIN words = 1..n /\ \A i \in 1..n : words[i] \in Word
  BY LenProperties, ElementOfSeq
<1>2. \A i \in 1..n : flipped[i] = WordMax - words[i] /\ flipped[i] \in Word
  BY <1>1, WordMaxAssumption DEF Complement, Word
<1>3. flipped \in Seq(Word) /\ Len(flipped) = n
  <2>1. flipped \in [1..n -> Word]
    BY <1>1, <1>2
  <2>2. QED
    BY <1>1, <2>1
<1> HIDE DEF flipped, n
<1>4. PICK p : RunningSum(p, words, n) /\ Total(words) = p[n]
  BY <1>1, TotalUnfolds DEF n
<1>5. PICK q : RunningSum(q, flipped, n) /\ Total(flipped) = q[n]
  BY <1>1, <1>3, TotalUnfolds
<1>6. \A i \in 0..n : p[i] \in Nat
  BY <1>1, <1>4, RunningSumType, WordMaxAssumption DEF Word
<1> DEFINE T == {i \in 0..n : q[i] = i * WordMax - p[i]}
<1>7. 0 \in T
  BY <1>1, <1>4, <1>5, WordMaxAssumption DEF RunningSum
<1>8. ASSUME NEW i \in 0..(n - 1), i \in T
      PROVE  i + 1 \in T
  <2>1. i + 1 \in 1..n /\ i + 1 \in 0..n /\ (i + 1) - 1 = i /\ i \in 0..n
    BY <1>1
  <2>2. p[i + 1] = p[i] + words[i + 1] /\ q[i + 1] = q[i] + flipped[i + 1]
    BY <1>4, <1>5, <2>1 DEF RunningSum
  <2>3. /\ flipped[i + 1] = WordMax - words[i + 1] /\ words[i + 1] \in Nat
        /\ p[i] \in Nat /\ q[i] = i * WordMax - p[i]
    BY <1>1, <1>2, <1>6, <1>8, <2>1, WordMaxAssumption DEF Word
  <2>4. (i + 1) * WordMax = i * WordMax + WordMax /\ i * WordMax \in Nat
    BY WordMaxAssumption
  <2>5. q[i + 1] = (i + 1) * WordMax - p[i + 1]
    BY <2>2, <2>3, <2>4, WordMaxAssumption
  <2>6. QED
    BY <2>1, <2>5
<1> HIDE DEF T
<1>9. n \in T
  <2>1. \A i \in 0..n : i \in T
    BY <1>1, <1>7, <1>8, Induction
  <2>2. QED
    BY <1>1, <2>1
<1>10. QED
  BY <1>3, <1>4, <1>5, <1>9 DEF T, flipped, n

-----------------------------------------------------------------------------
(* Finalizing folds the carries in: what is left is a word that differs    *)
(* from the sum by a multiple of all ones.                                 *)
Fold(n) == (n \div (WordMax + 1)) + (n % (WordMax + 1))

IsFolded(f, n) ==
  f = [m \in 0..n |-> IF m <= WordMax THEN m ELSE f[Fold(m)]]

LEMMA FoldShrinks ==
  ASSUME NEW n \in Nat, n > WordMax
  PROVE  /\ Fold(n) \in 0..(n - 1)
         /\ Fold(n) # 0
         /\ \E k \in Int : n = Fold(n) + k * WordMax
<1> DEFINE q == n \div (WordMax + 1)
           r == n % (WordMax + 1)
<1>0. WordMax \in Nat \ {0} /\ WordMax + 1 \in Nat \ {0}
  BY WordMaxAssumption
<1>1. n = (WordMax + 1) * q + r /\ q \in Nat /\ r \in 0..WordMax
  BY <1>0
<1>2. Fold(n) = q + r
  BY DEF Fold
<1> HIDE DEF q, r
<1>3. (WordMax + 1) * q = WordMax * q + q
  BY <1>0, <1>1
<1>4. q # 0
  BY <1>0, <1>1, <1>3
<1>5. WordMax * q >= WordMax /\ WordMax * q = q * WordMax
  BY <1>0, <1>1, <1>4
<1>6. n = (q + r) + q * WordMax
  BY <1>0, <1>1, <1>3, <1>5
<1>7. q + r \in 0..(n - 1) /\ q + r # 0 /\ q \in Int
  BY <1>0, <1>1, <1>4, <1>5, <1>6
<1>8. QED
  BY <1>2, <1>6, <1>7

LEMMA FoldedExists ==
  ASSUME NEW len \in Nat
  PROVE  \E f : IsFolded(f, len)
<1> DEFINE T == {n \in 0..len : \E f : IsFolded(f, n)}
<1>0. WordMax \in Nat
  BY WordMaxAssumption
<1>1. 0 \in T
  <2>1. IsFolded([m \in 0..0 |-> m], 0)
    BY <1>0 DEF IsFolded
  <2>2. QED
    BY <2>1
<1>2. ASSUME NEW n \in 0..(len - 1), n \in T
      PROVE  n + 1 \in T
  <2>1. PICK f : IsFolded(f, n)
    BY <1>2
  <2> DEFINE u == [m \in 0..(n + 1) |->
                    IF m = n + 1
                    THEN IF m <= WordMax THEN m ELSE f[Fold(m)]
                    ELSE f[m]]
  <2>2. \A m \in 0..n : u[m] = f[m]
    OBVIOUS
  <2>3. ASSUME NEW m \in 0..(n + 1)
        PROVE  u[m] = IF m <= WordMax THEN m ELSE u[Fold(m)]
    <3>1. m > WordMax => Fold(m) \in 0..n /\ Fold(m) \in 0..(m - 1)
      BY <1>0, FoldShrinks
    <3>2. CASE m = n + 1
      <4>1. u[m] = IF m <= WordMax THEN m ELSE f[Fold(m)]
        BY <3>2
      <4> HIDE DEF u
      <4>2. QED
        BY <1>0, <2>2, <3>1, <4>1
    <3>3. CASE m # n + 1
      <4>1. m \in 0..n
        BY <3>3
      <4>2. f[m] = IF m <= WordMax THEN m ELSE f[Fold(m)]
        BY <4>1, <2>1 DEF IsFolded
      <4> HIDE DEF u
      <4>3. QED
        BY <1>0, <2>2, <3>1, <4>1, <4>2
    <3>4. QED
      BY <3>2, <3>3
  <2>4. IsFolded(u, n + 1)
    BY <2>3 DEF IsFolded
  <2>5. n + 1 \in 0..len
    OBVIOUS
  <2>6. QED
    BY <2>4, <2>5
<1> HIDE DEF T
<1>3. \A n \in 0..len : n \in T
  BY <1>1, <1>2, Induction
<1>4. len \in T
  BY <1>3
<1>5. QED
  BY <1>4 DEF T

LEMMA FinalizeUnfolds ==
  ASSUME NEW n \in Nat
  PROVE  \E f : IsFolded(f, n) /\ Finalize(n) = f[n]
<1> DEFINE f == CHOOSE g : IsFolded(g, n)
<1>1. IsFolded(f, n)
  BY FoldedExists
<1>2. Finalize(n) = f[n]
  BY DEF Finalize, IsFolded, Fold
<1> HIDE DEF f
<1>3. QED
  BY <1>1, <1>2

(* Equal up to multiples of all ones.                                      *)
Same(a, b) == \E k \in Int : a = b + k * WordMax

LEMMA SameIsCongruence ==
  /\ \A a \in Int : Same(a, a)
  /\ \A a, b \in Int : Same(a, b) => Same(b, a)
  /\ \A a, b, c \in Int : Same(a, b) /\ Same(b, c) => Same(a, c)
  /\ \A a, b, c, d \in Int : Same(a, b) /\ Same(c, d) => Same(a + c, b + d)
  /\ \A a, b \in Int : Same(a, b) => Same(-a, -b)
<1>0. WordMax \in Int
  BY WordMaxAssumption
<1>1. ASSUME NEW a \in Int
      PROVE  Same(a, a)
  <2>1. a = a + 0 * WordMax
    BY <1>0
  <2>2. QED
    BY <2>1 DEF Same
<1>2. ASSUME NEW a \in Int, NEW b \in Int, Same(a, b)
      PROVE  Same(b, a) /\ Same(-a, -b)
  <2>1. PICK k \in Int : a = b + k * WordMax
    BY <1>2 DEF Same
  <2>2. (-k) * WordMax = -(k * WordMax) /\ k * WordMax \in Int /\ -k \in Int
    BY <1>0
  <2>3. b = a + (-k) * WordMax /\ -a = -b + (-k) * WordMax
    BY <2>1, <2>2
  <2>4. QED
    BY <2>2, <2>3 DEF Same
<1>3. ASSUME NEW a \in Int, NEW b \in Int, NEW c \in Int, Same(a, b), Same(b, c)
      PROVE  Same(a, c)
  <2>1. PICK k \in Int : a = b + k * WordMax
    BY <1>3 DEF Same
  <2>2. PICK l \in Int : b = c + l * WordMax
    BY <1>3 DEF Same
  <2>3. (k + l) * WordMax = k * WordMax + l * WordMax
    BY <1>0
  <2>4. k * WordMax \in Int /\ l * WordMax \in Int /\ k + l \in Int
    BY <1>0
  <2>5. a = c + (k + l) * WordMax
    BY <2>1, <2>2, <2>3, <2>4
  <2>6. QED
    BY <2>4, <2>5 DEF Same
<1>4. ASSUME NEW a \in Int, NEW b \in Int, NEW c \in Int, NEW d \in Int,
             Same(a, b), Same(c, d)
      PROVE  Same(a + c, b + d)
  <2>1. PICK k \in Int : a = b + k * WordMax
    BY <1>4 DEF Same
  <2>2. PICK l \in Int : c = d + l * WordMax
    BY <1>4 DEF Same
  <2>3. (k + l) * WordMax = k * WordMax + l * WordMax
    BY <1>0
  <2>4. k * WordMax \in Int /\ l * WordMax \in Int /\ k + l \in Int
    BY <1>0
  <2>5. a + c = (b + d) + (k + l) * WordMax
    BY <2>1, <2>2, <2>3, <2>4
  <2>6. QED
    BY <2>4, <2>5 DEF Same
<1>5. QED
  BY <1>1, <1>2, <1>3, <1>4

LEMMA FinalizeValue ==
  ASSUME NEW n \in Nat
  PROVE  /\ Finalize(n) \in Word
         /\ Finalize(n) = 0 <=> n = 0
         /\ Same(n, Finalize(n))
<1> DEFINE OK(m, f) == /\ f \in Word
                       /\ f = 0 <=> m = 0
                       /\ Same(m, f)
<1>0. WordMax \in Nat
  BY WordMaxAssumption
<1>1. PICK f : IsFolded(f, n) /\ Finalize(n) = f[n]
  BY FinalizeUnfolds
<1> DEFINE T == {m \in 0..n : \A i \in 0..m : OK(i, f[i])}
<1>2. \A m \in 0..n : f[m] = IF m <= WordMax THEN m ELSE f[Fold(m)]
  BY <1>1 DEF IsFolded
<1>3. ASSUME NEW m \in 0..n, m <= WordMax
      PROVE  OK(m, f[m])
  <2>1. f[m] = m
    BY <1>2, <1>3
  <2>2. Same(m, m)
    BY SameIsCongruence
  <2>3. QED
    BY <1>0, <1>3, <2>1, <2>2 DEF Word
<1>4. ASSUME NEW m \in 0..n, m > WordMax, OK(Fold(m), f[Fold(m)])
      PROVE  OK(m, f[m])
  <2>1. f[m] = f[Fold(m)]
    BY <1>0, <1>2, <1>4
  <2>2. Fold(m) \in 0..(m - 1) /\ Fold(m) # 0 /\ Same(m, Fold(m))
    BY <1>4, FoldShrinks DEF Same
  <2>3. Same(m, f[m])
    <3>1. Fold(m) \in Int /\ f[m] \in Int /\ m \in Int
      BY <1>0, <1>4, <2>1, <2>2 DEF Word
    <3>2. QED
      BY <1>4, <2>1, <2>2, <3>1, SameIsCongruence
  <2>4. m # 0
    BY <1>0, <1>4
  <2>5. QED
    BY <1>4, <2>1, <2>2, <2>3, <2>4
<1> HIDE DEF OK
<1>5. 0 \in T
  BY <1>0, <1>3
<1>6. ASSUME NEW m \in 0..(n - 1), m \in T
      PROVE  m + 1 \in T
  <2>1. m + 1 \in 0..n
    OBVIOUS
  <2>2. OK(m + 1, f[m + 1])
    <3>1. CASE m + 1 <= WordMax
      BY <1>3, <2>1, <3>1
    <3>2. CASE m + 1 > WordMax
      <4>1. Fold(m + 1) \in 0..m
        BY <2>1, <3>2, FoldShrinks
      <4>2. OK(Fold(m + 1), f[Fold(m + 1)])
        BY <1>6, <4>1
      <4>3. QED
        BY <1>4, <2>1, <3>2, <4>2
    <3>3. QED
      BY <1>0, <3>1, <3>2
  <2>3. \A i \in 0..m : OK(i, f[i])
    BY <1>6
  <2>4. \A i \in 0..(m + 1) : OK(i, f[i])
    BY <2>2, <2>3
  <2>5. QED
    BY <2>1, <2>4
<1> HIDE DEF T
<1>7. \A m \in 0..n : m \in T
  BY <1>5, <1>6, Induction
<1>8. n \in T /\ n \in 0..n
  BY <1>7
<1>9. OK(n, f[n])
  BY <1>8 DEF T
<1>10. QED
  BY <1>1, <1>9 DEF OK

(* The words add up if and only if they are all ones' multiple and not all *)
(* of them are zero.                                                       *)
LEMMA AllOnes ==
  ASSUME NEW n \in Nat
  PROVE  Finalize(n) = WordMax <=> n # 0 /\ Same(n, 0)
<1>0. WordMax \in Nat \ {0}
  BY WordMaxAssumption
<1> DEFINE f == Finalize(n)
<1>1. f \in Word /\ (f = 0 <=> n = 0) /\ Same(n, f)
  BY FinalizeValue
<1> HIDE DEF f
<1>2. ASSUME f = WordMax
      PROVE  n # 0 /\ Same(n, 0)
  <2>1. f = 0 + 1 * WordMax
    BY <1>0, <1>2
  <2>2. Same(f, 0)
    BY <2>1 DEF Same
  <2>3. f \in Int
    BY <1>0, <1>2
  <2>4. Same(n, 0)
    BY <1>1, <2>2, <2>3, SameIsCongruence
  <2>5. QED
    BY <1>0, <1>1, <1>2, <2>4
<1>3. ASSUME n # 0, Same(n, 0)
      PROVE  f = WordMax
  <2>1. f \in Int /\ f > 0 /\ f <= WordMax
    BY <1>0, <1>1, <1>3 DEF Word
  <2>2. Same(f, 0)
    BY <1>1, <1>3, <2>1, SameIsCongruence
  <2>3. PICK k \in Int : f = k * WordMax
    BY <1>0, <2>2 DEF Same
  <2>4. k >= 1
    BY <1>0, <2>1, <2>3
  <2>5. k >= 2 => k * WordMax >= 2 * WordMax
    BY <1>0
  <2>6. k = 1
    BY <1>0, <2>1, <2>3, <2>4, <2>5
  <2>7. QED
    BY <1>0, <2>3, <2>6
<1>4. QED
  BY <1>2, <1>3 DEF f

-----------------------------------------------------------------------------
(* The headers, one by one: the inner ones follow the encapsulation.       *)
Depth(outer) == IF outer THEN 3 ELSE 0
Count(k) == IF k.ulp = "echo" THEN 2 ELSE 3

LEMMA TwoAndOne ==
  ASSUME NEW x, NEW y, NEW z
  PROVE  <<x, y>> \o <<z>> = <<x, y, z>>
<1> DEFINE S == {x, y, z}
           a == <<x, y>>
           b == <<z>>
           c == <<x, y, z>>
<1>1. a \in Seq(S) /\ Len(a) = 2 /\ a[1] = x /\ a[2] = y
  OBVIOUS
<1>2. b \in Seq(S) /\ Len(b) = 1 /\ b[1] = z
  OBVIOUS
<1>3. c \in Seq(S) /\ Len(c) = 3 /\ c[1] = x /\ c[2] = y /\ c[3] = z
  OBVIOUS
<1> HIDE DEF S, a, b, c
<1>4. /\ a \o b \in Seq(S) /\ Len(a \o b) = Len(a) + Len(b)
      /\ \A i \in 1..(Len(a) + Len(b)) :
           (a \o b)[i] = IF i <= Len(a) THEN a[i] ELSE b[i - Len(a)]
  BY <1>1, <1>2, ConcatProperties
<1>5. Len(a \o b) = 3 /\ (a \o b)[1] = x /\ (a \o b)[2] = y /\ (a \o b)[3] = z
  BY <1>1, <1>2, <1>4
<1>6. \A i \in 1..Len(a \o b) : (a \o b)[i] = c[i]
  BY <1>3, <1>5
<1>7. a \o b = c
  BY <1>3, <1>4, <1>5, <1>6, SeqEqual
<1>8. QED
  BY <1>7 DEF a, b, c

LEMMA InnerHeaders ==
  ASSUME NEW k \in Kinds
  PROVE  /\ k.ulp = "echo" => Inner(k) = <<"ether", "ip">>
         /\ k.ulp # "echo" => Inner(k) = <<"ether", "ip", k.ulp>>
<1>1. k.ulp \in {"tcp", "udp", "echo"}
  BY DEF Kinds
<1>2. <<"ether", "ip">> \o <<>> = <<"ether", "ip">>
  OBVIOUS
<1>3. <<"ether", "ip">> \o <<k.ulp>> = <<"ether", "ip", k.ulp>>
  BY TwoAndOne
<1>4. QED
  BY <1>1, <1>2, <1>3 DEF Inner

LEMMA HeaderFacts ==
  ASSUME NEW k \in Kinds, NEW outer \in BOOLEAN
  PROVE  LET hs == Headers(k, outer)
             s == Depth(outer)
             n == Depth(outer) + Count(k)
         IN /\ hs \in Seq(Names)
            /\ Len(hs) = n
            /\ DOMAIN hs = 1..n
            /\ n \in 2..6
            /\ \A i \in 1..s : hs[i] = Encap[i]
            /\ \A i \in 1..Count(k) : hs[s + i] = Inner(k)[i]
            /\ outer => hs[1] = "oether" /\ hs[2] = "oip" /\ hs[3] = "geneve"
            /\ hs[s + 1] = "ether" /\ hs[s + 2] = "ip"
            /\ k.ulp # "echo" => hs[s + 3] = k.ulp
<1> DEFINE e == IF outer THEN Encap ELSE <<>>
           in == Inner(k)
<1>0. k.ulp \in {"tcp", "udp", "echo"}
  BY DEF Kinds
<1>1. /\ e \in Seq(Names) /\ Len(e) = Depth(outer)
      /\ outer => e[1] = "oether" /\ e[2] = "oip" /\ e[3] = "geneve"
      /\ \A i \in 1..Depth(outer) : e[i] = Encap[i]
  <2>1. CASE outer
    <3>1. e = <<"oether", "oip", "geneve">> /\ Encap = e /\ Depth(outer) = 3
      BY <2>1 DEF Encap, Depth
    <3> HIDE DEF e
    <3>a. /\ <<"oether", "oip", "geneve">> \in Seq(Names)
          /\ Len(<<"oether", "oip", "geneve">>) = 3
      BY DEF Names
    <3>2. e \in Seq(Names) /\ Len(e) = 3
      BY <3>1, <3>a, Zenon
    <3>3. e[1] = "oether" /\ e[2] = "oip" /\ e[3] = "geneve"
      BY <3>1
    <3>4. QED
      BY <3>1, <3>2, <3>3
  <2>2. CASE ~outer
    <3>1. e = <<>> /\ Depth(outer) = 0
      BY <2>2 DEF Depth
    <3>2. QED
      BY <2>2, <3>1
  <2>3. QED
    BY <2>1, <2>2
<1>2. /\ in \in Seq(Names) /\ Len(in) = Count(k)
      /\ in[1] = "ether" /\ in[2] = "ip"
      /\ k.ulp # "echo" => in[3] = k.ulp
  <2>1. CASE k.ulp = "echo"
    <3>1. in = <<"ether", "ip">> /\ Count(k) = 2
      BY <2>1, InnerHeaders DEF Count
    <3> HIDE DEF in
    <3>a. <<"ether", "ip">> \in Seq(Names) /\ Len(<<"ether", "ip">>) = 2
      BY DEF Names
    <3>2. in \in Seq(Names) /\ Len(in) = 2
      BY <3>1, <3>a, Zenon
    <3>3. in[1] = "ether" /\ in[2] = "ip"
      BY <3>1
    <3>4. QED
      BY <2>1, <3>1, <3>2, <3>3
  <2>2. CASE k.ulp # "echo"
    <3>1. in = <<"ether", "ip", k.ulp>> /\ Count(k) = 3
      BY <2>2, InnerHeaders DEF Count
    <3> HIDE DEF in
    <3>a. k.ulp \in Names /\ "ether" \in Names /\ "ip" \in Names
      BY <1>0 DEF Names
    <3>b. /\ <<"ether", "ip", k.ulp>> \in Seq(Names)
          /\ Len(<<"ether", "ip", k.ulp>>) = 3
      BY <3>a
    <3>2. in \in Seq(Names) /\ Len(in) = 3
      BY <3>1, <3>b, Zenon
    <3>3. in[1] = "ether" /\ in[2] = "ip" /\ in[3] = k.ulp
      BY <3>1
    <3>4. QED
      BY <3>1, <3>2, <3>3
  <2>3. QED
    BY <2>1, <2>2
<1>3. Depth(outer) \in {0, 3} /\ Count(k) \in {2, 3} /\ (k.ulp # "echo" => Count(k) = 3)
      /\ (outer => Depth(outer) = 3)
  BY DEF Depth, Count
<1>4. Headers(k, outer) = e \o in
  BY DEF Headers
<1> HIDE DEF e, in
<1>5. /\ e \o in \in Seq(Names) /\ Len(e \o in) = Depth(outer) + Count(k)
      /\ \A i \in 1..(Depth(outer) + Count(k)) :
           (e \o in)[i] = IF i <= Depth(outer) THEN e[i] ELSE in[i - Depth(outer)]
  <2>1. e \in Seq(Names) /\ in \in Seq(Names)
    BY <1>1, <1>2
  <2>2. /\ e \o in \in Seq(Names) /\ Len(e \o in) = Len(e) + Len(in)
        /\ \A i \in 1..(Len(e) + Len(in)) :
             (e \o in)[i] = IF i <= Len(e) THEN e[i] ELSE in[i - Len(e)]
    BY <2>1, ConcatProperties
  <2>3. Len(e) = Depth(outer) /\ Len(in) = Count(k)
    BY <1>1, <1>2
  <2>4. QED
    BY <2>2, <2>3, Zenon
<1>6. \A i \in 1..Depth(outer) : (e \o in)[i] = e[i]
  BY <1>3, <1>5
<1>7. \A i \in 1..Count(k) : (e \o in)[Depth(outer) + i] = in[i]
  <2>1. TAKE i \in 1..Count(k)
  <2>2. /\ Depth(outer) + i \in 1..(Depth(outer) + Count(k))
        /\ ~(Depth(outer) + i <= Depth(outer))
        /\ (Depth(outer) + i) - Depth(outer) = i
    BY <1>3
  <2>3. QED
    BY <1>5, <2>2
<1>8. DOMAIN (e \o in) = 1..(Depth(outer) + Count(k))
  BY <1>5, LenProperties
<1>9. Depth(outer) + Count(k) \in 2..6
  BY <1>3
<1>10. ASSUME outer
       PROVE  /\ (e \o in)[1] = "oether" /\ (e \o in)[2] = "oip"
              /\ (e \o in)[3] = "geneve"
  <2>0. Depth(outer) = 3
    BY <1>10 DEF Depth
  <2>1. 1 \in 1..Depth(outer) /\ 2 \in 1..Depth(outer) /\ 3 \in 1..Depth(outer)
    BY <2>0
  <2>2. QED
    BY <1>1, <1>6, <1>10, <2>1
<1>11. /\ (e \o in)[Depth(outer) + 1] = "ether" /\ (e \o in)[Depth(outer) + 2] = "ip"
       /\ k.ulp # "echo" => (e \o in)[Depth(outer) + 3] = k.ulp
  BY <1>2, <1>3, <1>7
<1>12. QED
  BY <1>1, <1>4, <1>5, <1>6, <1>7, <1>8, <1>9, <1>10, <1>11 DEF in

(* No header comes twice.                                                  *)
LEMMA HeadersDiffer ==
  ASSUME NEW k \in Kinds, NEW outer \in BOOLEAN,
         NEW i \in DOMAIN Headers(k, outer), NEW j \in DOMAIN Headers(k, outer),
         Headers(k, outer)[i] = Headers(k, outer)[j]
  PROVE  i = j
<1> DEFINE hs == Headers(k, outer)
           s == Depth(outer)
<1>1. /\ DOMAIN hs = 1..(s + Count(k))
      /\ outer => hs[1] = "oether" /\ hs[2] = "oip" /\ hs[3] = "geneve"
      /\ hs[s + 1] = "ether" /\ hs[s + 2] = "ip"
      /\ k.ulp # "echo" => hs[s + 3] = k.ulp
  BY HeaderFacts
<1>2. k.ulp \in {"tcp", "udp", "echo"}
  BY DEF Kinds
<1>3. i \in DOMAIN hs /\ j \in DOMAIN hs /\ hs[i] = hs[j]
  OBVIOUS
<1> HIDE DEF hs
<1>4. CASE outer
  <2>1. s = 3
    BY <1>4 DEF Depth
  <2>2. /\ hs[1] = "oether" /\ hs[2] = "oip" /\ hs[3] = "geneve"
        /\ hs[4] = "ether" /\ hs[5] = "ip"
        /\ k.ulp # "echo" => hs[6] = k.ulp
    <3>1. hs[1] = "oether" /\ hs[2] = "oip" /\ hs[3] = "geneve"
      BY <1>1, <1>4, Zenon
    <3>2. hs[s + 1] = hs[4] /\ hs[s + 2] = hs[5] /\ hs[s + 3] = hs[6]
      BY <2>1
    <3>3. QED
      BY <1>1, <3>1, <3>2, Zenon
  <2>3. CASE k.ulp = "echo"
    <3>1. i \in 1..5 /\ j \in 1..5
      BY <1>1, <1>3, <2>1, <2>3 DEF Count
    <3>2. QED
      BY <1>3, <2>2, <3>1
  <2>4. CASE k.ulp # "echo"
    <3>1. i \in 1..6 /\ j \in 1..6
      BY <1>1, <1>3, <2>1, <2>4 DEF Count
    <3>2. hs[6] \in {"tcp", "udp"}
      BY <1>2, <2>2, <2>4
    <3>3. QED
      BY <1>3, <2>2, <3>1, <3>2
  <2>5. QED
    BY <2>3, <2>4
<1>5. CASE ~outer
  <2>1. s = 0
    BY <1>5 DEF Depth
  <2>2. /\ hs[1] = "ether" /\ hs[2] = "ip"
        /\ k.ulp # "echo" => hs[3] = k.ulp
    BY <1>1, <2>1
  <2>3. CASE k.ulp = "echo"
    <3>1. i \in 1..2 /\ j \in 1..2
      BY <1>1, <1>3, <2>1, <2>3 DEF Count
    <3>2. QED
      BY <1>3, <2>2, <3>1
  <2>4. CASE k.ulp # "echo"
    <3>1. i \in 1..3 /\ j \in 1..3
      BY <1>1, <1>3, <2>1, <2>4 DEF Count
    <3>2. hs[3] \in {"tcp", "udp"}
      BY <1>2, <2>2, <2>4
    <3>3. QED
      BY <1>3, <2>2, <3>1, <3>2
  <2>5. QED
    BY <2>3, <2>4
<1>6. QED
  BY <1>4, <1>5

LEMMA HeaderCellsType ==
  ASSUME NEW k \in Kinds, NEW outer \in BOOLEAN
  PROVE  /\ HeaderCells(k, outer) \in Seq(Cell)
         /\ Len(HeaderCells(k, outer)) = Len(Headers(k, outer))
         /\ Len(Headers(k, outer)) \in 2..6
         /\ \A i \in DOMAIN Headers(k, outer) :
              HeaderCells(k, outer)[i] = H(Headers(k, outer)[i])
<1> DEFINE hs == Headers(k, outer)
           n == Len(hs)
<1>1. hs \in Seq(Names) /\ n \in 2..6 /\ DOMAIN hs = 1..n
  BY HeaderFacts
<1>2. \A i \in 1..n : hs[i] \in Names
  BY <1>1, ElementOfSeq
<1>3. HeaderCells(k, outer) = [i \in 1..n |-> H(hs[i])]
  BY <1>1 DEF HeaderCells
<1> HIDE DEF hs
<1>4. HeaderCells(k, outer) \in [1..n -> Cell]
  BY <1>2, <1>3 DEF H, Cell
<1>5. n \in Nat
  BY <1>1
<1>6. HeaderCells(k, outer) \in Seq(Cell) /\ Len(HeaderCells(k, outer)) = n
  BY <1>4, <1>5
<1>7. QED
  BY <1>1, <1>3, <1>6 DEF hs

LEMMA BodyCellsType ==
  ASSUME NEW n \in Nat
  PROVE  /\ BodyCells(n) \in Seq(Cell)
         /\ Len(BodyCells(n)) = n
         /\ \A i \in 1..n : BodyCells(n)[i] = <<"body", i>>
<1>0. ASSUME NEW i \in 1..n
      PROVE  <<"body", i>> \in Cell
  <2>1. "body" \in Names \cup {"body", "stale"} /\ i \in Nat
    OBVIOUS
  <2>2. QED
    BY <2>1 DEF Cell
<1>1. BodyCells(n) \in [1..n -> Cell]
  BY <1>0 DEF BodyCells
<1>2. QED
  BY <1>1 DEF BodyCells

(* A whole packet, cell by cell.                                           *)
LEMMA WholeCells ==
  ASSUME NEW k \in Kinds, NEW outer \in BOOLEAN, NEW n \in Nat
  PROVE  LET cells == HeaderCells(k, outer) \o BodyCells(n)
             m == Len(Headers(k, outer))
         IN /\ cells \in Seq(Cell)
            /\ Len(cells) = m + n
            /\ \A i \in 1..m : cells[i] = H(Headers(k, outer)[i])
            /\ \A i \in 1..n : cells[m + i] = <<"body", i>>
            /\ Drop(cells, m) = BodyCells(n)
<1> DEFINE h == HeaderCells(k, outer)
           b == BodyCells(n)
           m == Len(Headers(k, outer))
<1>1. /\ h \in Seq(Cell) /\ Len(h) = m /\ m \in Nat
      /\ \A i \in 1..m : h[i] = H(Headers(k, outer)[i])
  BY HeaderCellsType, HeaderFacts
<1>2. b \in Seq(Cell) /\ Len(b) = n /\ \A i \in 1..n : b[i] = <<"body", i>>
  BY BodyCellsType
<1> HIDE DEF h, b, m
<1>3. /\ h \o b \in Seq(Cell) /\ Len(h \o b) = m + n
      /\ \A i \in 1..(m + n) : (h \o b)[i] = IF i <= m THEN h[i] ELSE b[i - m]
  BY <1>1, <1>2, ConcatProperties
<1>4. Drop(h \o b, m) = b
  BY <1>1, <1>2, DropFirst
<1>5. \A i \in 1..m : (h \o b)[i] = H(Headers(k, outer)[i])
  BY <1>1, <1>3
<1>6. ASSUME NEW i \in 1..n
      PROVE  (h \o b)[m + i] = <<"body", i>>
  <2>1. m + i \in 1..(m + n) /\ ~(m + i <= m) /\ (m + i) - m = i
    BY <1>1
  <2>2. QED
    BY <1>2, <1>3, <2>1
<1>7. QED
  BY <1>3, <1>4, <1>5, <1>6 DEF h, b, m

-----------------------------------------------------------------------------
(* Reading headers.                                                        *)
Start == [pkt |-> 0, seg |-> 0, pos |-> 0]

IsReaders(r, n) ==
  r = [i \in 0..n |-> IF i = 0 THEN Start ELSE ReadOne(r[i - 1])]

LEMMA ReadersExist ==
  ASSUME NEW len \in Nat
  PROVE  \E r : IsReaders(r, len)
<1> DEFINE T == {n \in 0..len : \E r : IsReaders(r, n)}
<1>1. 0 \in T
  <2>1. IsReaders([i \in 0..0 |-> Start], 0)
    BY DEF IsReaders
  <2>2. QED
    BY <2>1
<1>2. ASSUME NEW n \in 0..(len - 1), n \in T
      PROVE  n + 1 \in T
  <2>1. PICK r : IsReaders(r, n)
    BY <1>2
  <2> DEFINE u == [i \in 0..(n + 1) |-> IF i = n + 1 THEN ReadOne(r[n]) ELSE r[i]]
  <2>2. \A i \in 0..n : u[i] = r[i]
    OBVIOUS
  <2>3. ASSUME NEW i \in 0..(n + 1)
        PROVE  u[i] = IF i = 0 THEN Start ELSE ReadOne(u[i - 1])
    <3>1. CASE i = n + 1
      <4>1. u[i - 1] = r[n] /\ i # 0 /\ u[i] = ReadOne(r[n])
        BY <3>1, <2>2
      <4> HIDE DEF u
      <4>2. QED
        BY <4>1
    <3>2. CASE i # n + 1
      <4>1. i \in 0..n /\ (i # 0 => i - 1 \in 0..n)
        BY <3>2
      <4>2. r[i] = IF i = 0 THEN Start ELSE ReadOne(r[i - 1])
        BY <4>1, <2>1 DEF IsReaders
      <4> HIDE DEF u
      <4>3. QED
        BY <4>1, <4>2, <2>2
    <3>3. QED
      BY <3>1, <3>2
  <2>4. IsReaders(u, n + 1)
    BY <2>3 DEF IsReaders
  <2>5. n + 1 \in 0..len
    OBVIOUS
  <2>6. QED
    BY <2>4, <2>5
<1> HIDE DEF T
<1>3. \A n \in 0..len : n \in T
  BY <1>1, <1>2, Induction
<1>4. len \in T
  BY <1>3
<1>5. QED
  BY <1>4 DEF T

LEMMA ReadersUnfold ==
  ASSUME NEW n \in Nat
  PROVE  /\ Readers(n)[0] = Start
         /\ \A i \in 1..n : Readers(n)[i] = ReadOne(Readers(n)[i - 1])
<1> DEFINE r == CHOOSE q : IsReaders(q, n)
<1>1. IsReaders(r, n)
  BY ReadersExist
<1>2. Readers(n) = r
  BY DEF Readers, IsReaders, Start
<1> HIDE DEF r
<1>3. QED
  BY <1>1, <1>2 DEF IsReaders

(* A place in the packet: so far from its beginning, and in which segment. *)
IsPlace(pkt, seg, pos) ==
  /\ seg \in 0..(Len(segs) - 1)
  /\ pos \in 0..Len(segs[seg + 1].cells)
  /\ pkt = Len(Pre(Held(segs), seg)) + pos

IsReader(rdr, i) ==
  /\ DOMAIN rdr = {"pkt", "seg", "pos"}
  /\ rdr.pkt = i
  /\ IsPlace(i, rdr.seg, rdr.pos)
  /\ i # 0 => rdr.pos # 0

IsChain == segs \in Seq(Segment) /\ Len(segs) # 0

(* The end of a segment is the beginning of the next.                      *)
LEMMA NextSegment ==
  ASSUME IsChain, NEW pkt, NEW seg, IsPlace(pkt, seg, Len(segs[seg + 1].cells)),
         seg + 1 < Len(segs)
  PROVE  IsPlace(pkt, seg + 1, 0)
<1>1. /\ Held(segs) \in Seq(Seq(Cell)) /\ Len(Held(segs)) = Len(segs)
      /\ \A i \in 1..Len(segs) : Held(segs)[i] = segs[i].cells
      /\ Len(segs) \in Nat
  BY HeldType, LenProperties DEF IsChain
<1>2. /\ seg \in Nat /\ seg + 1 \in 0..(Len(segs) - 1)
      /\ seg + 1 \in 0..Len(segs) /\ seg + 1 # 0 /\ (seg + 1) - 1 = seg
      /\ seg + 1 \in 1..Len(segs) /\ seg + 2 \in 1..Len(segs)
      /\ seg \in 0..Len(segs) /\ (seg + 1) + 1 = seg + 2
  BY <1>1 DEF IsPlace
<1>3. \A i \in 1..Len(segs) : segs[i].cells \in Seq(Cell)
  BY <1>1, ElementOfSeq
<1> DEFINE a == Pre(Held(segs), seg)
           b == segs[seg + 1].cells
<1>4. a \in Seq(Cell) /\ b \in Seq(Cell) /\ Pre(Held(segs), seg + 1) = a \o b
  <2>1. a \in Seq(Cell) /\ b \in Seq(Cell)
    BY <1>1, <1>2, <1>3, PreGrows
  <2>2. Pre(Held(segs), seg + 1) = Pre(Held(segs), (seg + 1) - 1) \o Held(segs)[seg + 1]
    BY <1>1, <1>2, PreGrows
  <2>3. Pre(Held(segs), seg + 1) = a \o b
    BY <1>1, <1>2, <2>2
  <2>4. QED
    BY <2>1, <2>3
<1>5. 0 \in 0..Len(segs[seg + 2].cells)
  BY <1>2, <1>3, LenProperties
<1>6. pkt = Len(a) + Len(b)
  BY DEF IsPlace
<1> HIDE DEF a, b
<1>7. Len(a \o b) = Len(a) + Len(b) /\ Len(a) \in Nat /\ Len(b) \in Nat
  BY <1>4, ConcatProperties, LenProperties
<1>8. pkt = Len(Pre(Held(segs), seg + 1)) + 0
  BY <1>4, <1>6, <1>7
<1>9. QED
  BY <1>2, <1>5, <1>8 DEF IsPlace

LEMMA PlaceType ==
  ASSUME IsChain, NEW pkt, NEW seg, NEW pos, IsPlace(pkt, seg, pos)
  PROVE  /\ pkt \in Nat /\ seg \in Nat /\ pos \in Nat
         /\ pkt = pos + Len(Pre(Held(segs), seg))
         /\ Len(Pre(Held(segs), seg)) \in Nat
         /\ segs[seg + 1].cells \in Seq(Cell)
         /\ Len(segs[seg + 1].cells) \in Nat
<1>1. /\ Held(segs) \in Seq(Seq(Cell)) /\ Len(Held(segs)) = Len(segs)
      /\ \A i \in 1..Len(segs) : Held(segs)[i] = segs[i].cells
      /\ Len(segs) \in Nat
  BY HeldType, LenProperties DEF IsChain
<1>2. \A i \in 1..Len(segs) : segs[i].cells \in Seq(Cell)
  BY <1>1, ElementOfSeq
<1>3. seg \in 0..Len(segs) /\ seg + 1 \in 1..Len(segs) /\ seg \in Nat
  BY <1>1 DEF IsPlace
<1>4. Len(Pre(Held(segs), seg)) \in Nat
  BY <1>1, <1>3, PreGrows, LenProperties
<1>5. Len(segs[seg + 1].cells) \in Nat /\ segs[seg + 1].cells \in Seq(Cell)
  BY <1>2, <1>3, LenProperties
<1>6. QED
  BY <1>3, <1>4, <1>5 DEF IsPlace

(* The reader after i headers is where they end, unless it failed.         *)
LEMMA ReadersAdvance ==
  ASSUME IsChain, NEW n \in Nat
  PROVE  \A i \in 0..n : Readers(n)[i] = Failed \/ IsReader(Readers(n)[i], i)
<1> DEFINE T == {i \in 0..n : Readers(n)[i] = Failed \/ IsReader(Readers(n)[i], i)}
<1>0. /\ Held(segs) \in Seq(Seq(Cell)) /\ Len(Held(segs)) = Len(segs)
      /\ \A i \in 1..Len(segs) : /\ Held(segs)[i] = segs[i].cells
                                 /\ segs[i].cells \in Seq(Cell)
                                 /\ Len(segs[i].cells) \in Nat
      /\ Len(segs) \in Nat \ {0}
  BY HeldType, LenProperties, ElementOfSeq DEF IsChain
<1>1. 0 \in T
  <2>1. Pre(Held(segs), 0) = <<>> /\ Len(<<>>) = 0
    BY PreNone
  <2>2. IsPlace(0, 0, 0)
    BY <1>0, <2>1 DEF IsPlace
  <2>3. IsReader(Start, 0)
    BY <2>2 DEF IsReader, Start
  <2>4. Readers(n)[0] = Start
    BY ReadersUnfold
  <2>5. QED
    BY <2>3, <2>4
<1>2. ASSUME NEW i \in 0..(n - 1), i \in T
      PROVE  i + 1 \in T
  <2> DEFINE rdr == Readers(n)[i]
  <2>1. i + 1 \in 1..n /\ (i + 1) - 1 = i /\ i + 1 \in 0..n /\ i + 1 # 0 /\ i \in Nat
    OBVIOUS
  <2>2. Readers(n)[i + 1] = ReadOne(rdr)
    BY <2>1, ReadersUnfold
  <2>3. rdr = Failed \/ IsReader(rdr, i)
    BY <1>2
  <2> HIDE DEF rdr
  <2>4. CASE ReadOne(rdr) = Failed
    BY <2>1, <2>2, <2>4
  <2>5. CASE ReadOne(rdr) # Failed
    <3> DEFINE more == rdr.seg + 1 < Len(segs)
               from == IF AtEnd(rdr) /\ more
                       THEN [rdr EXCEPT !.seg = @ + 1, !.pos = 0] ELSE rdr
    <3>1. /\ rdr # Failed /\ ~AtEnd(from)
          /\ ReadOne(rdr) = [from EXCEPT !.pkt = @ + 1, !.pos = @ + 1]
      BY <2>5 DEF ReadOne
    <3>2. IsReader(rdr, i)
      BY <2>3, <3>1
    <3>3. /\ DOMAIN from = {"pkt", "seg", "pos"}
          /\ from.pkt = i
          /\ IsPlace(i, from.seg, from.pos)
      <4>1. CASE AtEnd(rdr) /\ more
        <5>1. from = [rdr EXCEPT !.seg = @ + 1, !.pos = 0]
          BY <4>1
        <5> HIDE DEF from
        <5>2. /\ DOMAIN from = {"pkt", "seg", "pos"}
              /\ from.pkt = i /\ from.seg = rdr.seg + 1 /\ from.pos = 0
          BY <3>2, <5>1 DEF IsReader
        <5>3. IsPlace(i, rdr.seg, Len(segs[rdr.seg + 1].cells))
          BY <3>2, <4>1 DEF IsReader, AtEnd
        <5>4. IsPlace(i, rdr.seg + 1, 0)
          BY <4>1, <5>3, NextSegment
        <5>5. QED
          BY <5>2, <5>4
      <4>2. CASE ~(AtEnd(rdr) /\ more)
        <5>1. from = rdr
          BY <4>2
        <5>2. QED
          BY <3>2, <5>1 DEF IsReader
      <4>3. QED
        BY <4>1, <4>2
    <3>4. from.pos # Len(segs[from.seg + 1].cells)
      BY <3>1 DEF AtEnd
    <3> HIDE DEF from
    <3>5. /\ DOMAIN ReadOne(rdr) = {"pkt", "seg", "pos"}
          /\ ReadOne(rdr).pkt = i + 1
          /\ ReadOne(rdr).seg = from.seg
          /\ ReadOne(rdr).pos = from.pos + 1
      BY <3>1, <3>3
    <3>6. IsPlace(i + 1, from.seg, from.pos + 1) /\ from.pos + 1 # 0
      <4>1. /\ i = from.pos + Len(Pre(Held(segs), from.seg)) /\ from.pos \in Nat
            /\ Len(Pre(Held(segs), from.seg)) \in Nat
            /\ Len(segs[from.seg + 1].cells) \in Nat
        BY <3>3, PlaceType
      <4>2. /\ from.seg \in 0..(Len(segs) - 1)
            /\ from.pos \in 0..Len(segs[from.seg + 1].cells)
        BY <3>3 DEF IsPlace
      <4>3. from.pos + 1 \in 0..Len(segs[from.seg + 1].cells)
        BY <3>4, <4>1, <4>2
      <4>4. i + 1 = Len(Pre(Held(segs), from.seg)) + (from.pos + 1)
        BY <4>1
      <4>5. from.pos + 1 # 0
        BY <4>1
      <4>6. QED
        BY <4>2, <4>3, <4>4, <4>5 DEF IsPlace
    <3>7. IsReader(ReadOne(rdr), i + 1)
      BY <3>5, <3>6 DEF IsReader
    <3>8. QED
      BY <2>1, <2>2, <3>7
  <2>6. QED
    BY <2>4, <2>5
<1> HIDE DEF T
<1>3. \A i \in 0..n : i \in T
  BY <1>1, <1>2, Induction
<1>4. QED
  BY <1>3 DEF T

-----------------------------------------------------------------------------
(* What headers say: fields are words, and lengths count something.        *)
IsWire(w) ==
  /\ DOMAIN w = {"addr", "port", "data", "ipLen", "udpLen", "csum", "ipCsum",
                 "oipLen", "geneveLen"}
  /\ w.addr \in Addrs /\ w.port \in Ports /\ w.data \in Seq(Data)
  /\ w.ipLen \in Nat /\ w.udpLen \in Word
  /\ w.csum \in Word /\ w.ipCsum \in Word

(* The IPv4 length counts the header and what follows: ULP and data.       *)
Counts(k, w) ==
  /\ w.ipLen > 0
  /\ k.ip = 4 /\ k.ulp # "echo" => w.ipLen = 2 + Len(w.data)

LEMMA TotalOfFew ==
  /\ Total(<<>>) = 0
  /\ \A x \in Nat : Total(<<x>>) = x
  /\ \A x, y \in Nat : Total(<<x, y>>) = x + y
<1>1. Total(<<>>) = 0
  <2>1. PICK p : RunningSum(p, <<>>, 0) /\ Total(<<>>) = p[0]
    BY TotalUnfolds
  <2>2. QED
    BY <2>1 DEF RunningSum
<1>2. ASSUME NEW x \in Nat
      PROVE  Total(<<x>>) = x
  <2> DEFINE s == <<x>>
  <2>1. Len(s) = 1 /\ s[1] = x
    OBVIOUS
  <2> HIDE DEF s
  <2>2. PICK p : RunningSum(p, s, 1) /\ Total(s) = p[1]
    BY <2>1, TotalUnfolds
  <2>3. p[0] = 0 /\ p[1] = p[0] + s[1]
    BY <2>2 DEF RunningSum
  <2>4. QED
    BY <2>1, <2>2, <2>3 DEF s
<1>3. ASSUME NEW x \in Nat, NEW y \in Nat
      PROVE  Total(<<x, y>>) = x + y
  <2> DEFINE s == <<x, y>>
  <2>1. Len(s) = 2 /\ s[1] = x /\ s[2] = y
    OBVIOUS
  <2> HIDE DEF s
  <2>2. PICK p : RunningSum(p, s, 2) /\ Total(s) = p[2]
    BY <2>1, TotalUnfolds
  <2>3. p[0] = 0 /\ p[1] = p[0] + s[1] /\ p[2] = p[1] + s[2]
    BY <2>2 DEF RunningSum
  <2>4. QED
    BY <2>1, <2>2, <2>3 DEF s
<1>4. QED
  BY <1>1, <1>2, <1>3

LEMMA DataAreWords ==
  ASSUME NEW d \in Seq(Data)
  PROVE  d \in Seq(Word) /\ d \in Seq(Nat) /\ Total(d) \in Nat
<1>1. Data \subseteq Word /\ Data \subseteq Nat
  BY WordsAssumption, WordMaxAssumption DEF Word
<1>2. d \in Seq(Word) /\ d \in Seq(Nat)
  BY <1>1, SeqMonotonic
<1>3. QED
  BY <1>2, TotalType

(* The words that a checksum is over, and their sum.                       *)
UlpSum(k, w) == w.port + IF k.ulp = "udp" THEN w.udpLen ELSE 0
PseudoSum(k, w) == w.addr + IF k.ip = 4 THEN w.ipLen - 1 ELSE w.ipLen

LEMMA SumsOfWire ==
  ASSUME NEW k \in Kinds, NEW w, IsWire(w), Counts(k, w)
  PROVE  /\ UlpWords(k, w) \in Seq(Word)
         /\ UlpWords(k, w) \in Seq(Nat) /\ Total(UlpWords(k, w)) = UlpSum(k, w)
         /\ Pseudo(k, w) \in Seq(Nat) /\ Total(Pseudo(k, w)) = PseudoSum(k, w)
         /\ UlpSum(k, w) \in Nat /\ PseudoSum(k, w) \in Nat
         /\ Total(Pseudo(k, w) \o UlpWords(k, w)) = PseudoSum(k, w) + UlpSum(k, w)
         /\ Total(Pseudo(k, w) \o UlpWords(k, w) \o w.data) =
              PseudoSum(k, w) + UlpSum(k, w) + Total(w.data)
         /\ Total(<<w.port>> \o w.data) = w.port + Total(w.data)
         /\ Total(IpWords(w)) = w.addr + w.ipLen
         /\ Total(w.data) \in Nat /\ w.port \in Nat /\ w.addr \in Nat
         /\ w.ipLen \in Nat
<1>1. /\ w.port \in Word /\ w.udpLen \in Word /\ w.addr \in Nat /\ w.port \in Nat
      /\ w.udpLen \in Nat /\ w.ipLen \in Nat /\ w.ipLen - 1 \in Nat
  <2>1. /\ w.port \in Ports /\ w.addr \in Addrs /\ w.udpLen \in Word
        /\ w.ipLen \in Nat /\ w.ipLen > 0
    BY DEF IsWire, Counts
  <2>2. w.port \in Word /\ w.addr \in Word
    BY <2>1, WordsAssumption
  <2>3. QED
    BY <2>1, <2>2, WordMaxAssumption DEF Word
<1>2. w.data \in Seq(Nat) /\ Total(w.data) \in Nat
  BY DataAreWords DEF IsWire
<1>3. /\ UlpWords(k, w) \in Seq(Word)
      /\ UlpWords(k, w) \in Seq(Nat) /\ Total(UlpWords(k, w)) = UlpSum(k, w)
      /\ UlpSum(k, w) \in Nat
  <2>1. CASE k.ulp = "udp"
    <3>1. UlpWords(k, w) = <<w.port>> \o <<w.udpLen>>
      BY <2>1 DEF UlpWords
    <3>2. <<w.port>> \in Seq(Nat) /\ <<w.udpLen>> \in Seq(Nat)
      BY <1>1
    <3>3. <<w.port>> \in Seq(Word) /\ <<w.udpLen>> \in Seq(Word)
      BY <1>1
    <3>4. Total(<<w.port>> \o <<w.udpLen>>) = Total(<<w.port>>) + Total(<<w.udpLen>>)
      BY <3>2, TotalConcat
    <3>5. Total(<<w.port>>) = w.port /\ Total(<<w.udpLen>>) = w.udpLen
      BY <1>1, TotalOfFew
    <3>6. UlpSum(k, w) = w.port + w.udpLen
      BY <2>1 DEF UlpSum
    <3>7. UlpWords(k, w) \in Seq(Word)
      BY <3>1, <3>3, ConcatProperties
    <3>8. UlpWords(k, w) \in Seq(Nat)
      BY <3>1, <3>2, ConcatProperties
    <3>9. Total(UlpWords(k, w)) = UlpSum(k, w)
      BY <3>1, <3>4, <3>5, <3>6
    <3>10. UlpSum(k, w) \in Nat
      BY <1>1, <3>6
    <3>11. QED
      BY <3>7, <3>8, <3>9, <3>10
  <2>2. CASE k.ulp # "udp"
    <3> DEFINE one == <<w.port>>
    <3>1. UlpWords(k, w) = one \o <<>>
      BY <2>2 DEF UlpWords
    <3>2. one \in Seq(Nat)
      BY <1>1
    <3>3. one \in Seq(Word)
      BY <1>1
    <3>4. Total(one) = w.port
      BY <1>1, TotalOfFew
    <3> HIDE DEF one
    <3>5. UlpWords(k, w) = one
      BY <3>1, <3>2, ConcatEmptySeq
    <3>6. UlpSum(k, w) = w.port
      BY <1>1, <2>2 DEF UlpSum
    <3>7. QED
      BY <1>1, <3>2, <3>3, <3>4, <3>5, <3>6
  <2>3. QED
    BY <2>1, <2>2
<1>4. /\ Pseudo(k, w) \in Seq(Nat) /\ Total(Pseudo(k, w)) = PseudoSum(k, w)
      /\ PseudoSum(k, w) \in Nat
  <2> DEFINE l == IF k.ip = 4 THEN w.ipLen - 1 ELSE w.ipLen
  <2>1. l \in Nat
    BY <1>1
  <2>2. Pseudo(k, w) = <<w.addr, l>> /\ PseudoSum(k, w) = w.addr + l
    BY DEF Pseudo, PseudoSum
  <2> HIDE DEF l
  <2>3. <<w.addr, l>> \in Seq(Nat) /\ Total(<<w.addr, l>>) = w.addr + l
    BY <1>1, <2>1, TotalOfFew
  <2>4. QED
    BY <1>1, <2>1, <2>2, <2>3
<1>5. /\ Pseudo(k, w) \o UlpWords(k, w) \in Seq(Nat)
      /\ Total(Pseudo(k, w) \o UlpWords(k, w)) = PseudoSum(k, w) + UlpSum(k, w)
  BY <1>3, <1>4, TotalConcat, ConcatProperties
<1>6. Total(Pseudo(k, w) \o UlpWords(k, w) \o w.data) =
        Total(Pseudo(k, w) \o UlpWords(k, w)) + Total(w.data)
  BY <1>2, <1>5, TotalConcat
<1>7. Total(<<w.port>> \o w.data) = w.port + Total(w.data)
  <2>1. <<w.port>> \in Seq(Nat) /\ Total(<<w.port>>) = w.port
    BY <1>1, TotalOfFew
  <2>2. Total(<<w.port>> \o w.data) = Total(<<w.port>>) + Total(w.data)
    BY <1>2, <2>1, TotalConcat
  <2>3. QED
    BY <2>1, <2>2
<1>8. Total(IpWords(w)) = w.addr + w.ipLen
  BY <1>1, TotalOfFew DEF IpWords
<1>9. QED
  BY <1>1, <1>2, <1>3, <1>4, <1>5, <1>6, <1>7, <1>8

LEMMA ToFieldType ==
  ASSUME NEW n \in Nat
  PROVE  /\ ToField(n) \in Word
         /\ ToField(n) = WordMax - Finalize(n)
         /\ Finalize(n) \in Nat
<1>1. Finalize(n) \in Word /\ WordMax \in Nat
  BY FinalizeValue, WordMaxAssumption
<1>2. QED
  BY <1>1 DEF ToField, Complement, Word

-----------------------------------------------------------------------------
(* The invariant.  Outside the engine a packet is a chain of just its      *)
(* headers and its body.                                                   *)
InEngine == phase \in {"parsed", "transformed", "rewritten", "emitted"}

(* The headers that are in the buffers: those that were parsed, until the  *)
(* packet is emitted.                                                      *)
Outer == IF phase = "emitted" THEN meta.outer ELSE was.outer

Packed(outer, n) ==
  /\ n \in 0..MaxBody
  /\ Flat(segs) = HeaderCells(kind, outer) \o BodyCells(n)
  /\ Len(wire.data) = IF kind.ulp = "echo" THEN n - 1 ELSE n

Shaped == kind \in Kinds /\ IsChain /\ IsWire(wire) /\ Counts(kind, wire)

OutsideOK ==
  phase \in {"sent", "arrived"} =>
    was = None /\ \E n \in Nat : Packed(phase = "arrived", n)

(* Inside, what parsing or emission keeps of it is where it says.          *)
Noted ==
  /\ DOMAIN meta = {"outer", "addr", "port", "ipCsum", "csum"}
  /\ meta.outer \in BOOLEAN /\ meta.addr \in Addrs /\ meta.port \in Ports
  /\ DOMAIN body = {"pkt", "seg", "off", "len"}
  /\ Outer \in BOOLEAN

Located ==
  \A h \in Range(Inner(kind)) :
    CellAt(offs[h]) = H(h) /\ Flat(segs)[offs[h].pkt + 1] = H(h)

InsideOK ==
  InEngine =>
    /\ Noted
    /\ Packed(Outer, body.len)
    /\ body.pkt = Len(Headers(kind, Outer))
    /\ IsPlace(body.pkt, body.seg, body.off)
    /\ Located
    /\ body.len = was.body.len

(* The headers are in the first segment, unless they came in several.      *)
FrontOK ==
  /\ phase \in {"parsed", "transformed", "rewritten"} =>
       /\ was.segs = Len(segs)
       /\ Len(segs[1].cells) >= body.pkt \/ was.spanned
  /\ phase = "emitted" => Len(segs[1].cells) >= body.pkt
  /\ WellShapedSurvives

PInv == Shaped /\ OutsideOK /\ InsideOK /\ FrontOK

-----------------------------------------------------------------------------
LEMMA SendableIsWire ==
  ASSUME NEW k \in Kinds, NEW n \in 0..MaxBody, k.ulp = "echo" => n >= 1,
         NEW w \in Sendable(k, n)
  PROVE  /\ IsWire(w) /\ Counts(k, w)
         /\ Len(w.data) = IF k.ulp = "echo" THEN n - 1 ELSE n
<1> DEFINE after == n + IF k.ulp = "echo" THEN 0 ELSE 1
           m == IF k.ulp = "echo" THEN n - 1 ELSE n
<1> DEFINE fields == [addr : Addrs, port : Ports, data : [1..m -> Data],
                      ipLen : {IF k.ip = 4 THEN after + 1 ELSE after},
                      udpLen : {IF k.ulp = "udp" THEN after ELSE 0},
                      csum : Word, ipCsum : Word, oipLen : {0}, geneveLen : {0}]
<1>1. w \in fields
  BY Zenon DEF Sendable
<1>2. MaxBody \in Nat /\ MaxBody + 1 <= WordMax /\ WordMax \in Nat \ {0}
  BY WordsAssumption, WordMaxAssumption DEF Word
<1>3. m \in Nat /\ after \in Nat /\ after >= 1 /\ n + 1 <= WordMax
  BY <1>2
<1>4. w.data \in Seq(Data) /\ Len(w.data) = m
  <2>1. w.data \in [1..m -> Data]
    BY <1>1
  <2> HIDE DEF m, fields
  <2>2. QED
    BY <1>3, <2>1
<1>5. /\ DOMAIN w = {"addr", "port", "data", "ipLen", "udpLen", "csum", "ipCsum",
                     "oipLen", "geneveLen"}
      /\ w.addr \in Addrs /\ w.port \in Ports
      /\ w.csum \in Word /\ w.ipCsum \in Word
      /\ w.ipLen = IF k.ip = 4 THEN after + 1 ELSE after
      /\ w.udpLen = IF k.ulp = "udp" THEN after ELSE 0
  BY <1>1
<1>6. k.ulp # "echo" => after = n + 1
  OBVIOUS
<1>7. m = IF k.ulp = "echo" THEN n - 1 ELSE n
  OBVIOUS
<1> HIDE DEF after, m, fields
<1>8. w.ipLen \in Nat /\ w.udpLen \in Word
  <2>1. CASE k.ulp = "udp"
    BY <1>2, <1>3, <1>5, <1>6, <2>1 DEF Word
  <2>2. CASE k.ulp # "udp"
    BY <1>2, <1>3, <1>5, <2>2 DEF Word
  <2>3. QED
    BY <2>1, <2>2
<1>9. IsWire(w)
  BY <1>4, <1>5, <1>8 DEF IsWire
<1>10. Counts(k, w)
  <2>1. w.ipLen > 0
    BY <1>3, <1>5
  <2>2. ASSUME k.ip = 4, k.ulp # "echo"
        PROVE  w.ipLen = 2 + Len(w.data)
    <3>1. w.ipLen = n + 1 + 1 /\ Len(w.data) = n
      BY <1>4, <1>5, <1>6, <1>7, <2>2
    <3>2. QED
      BY <3>1
  <2>3. QED
    BY <2>1, <2>2 DEF Counts
<1>11. QED
  BY <1>4, <1>7, <1>9, <1>10

LEMMA InitPInv == Init => PInv
<1> SUFFICES ASSUME Init
             PROVE  PInv
  OBVIOUS
<1>1. PICK k \in Kinds, n \in 0..MaxBody :
        /\ k.ulp = "echo" => n >= 1
        /\ kind = k
        /\ segs \in Chains(HeaderCells(k, FALSE) \o BodyCells(n), MaxWrapped, Rooms)
        /\ wire \in Sendable(k, n)
        /\ phase = "sent" /\ was = None
  <2>1. PICK k \in Kinds :
          \E n \in (IF k.ulp = "echo" THEN 1 ELSE 0)..MaxBody :
            /\ kind = k
            /\ segs \in Chains(HeaderCells(k, FALSE) \o BodyCells(n), MaxWrapped, Rooms)
            /\ wire \in Sendable(k, n)
            /\ phase = "sent" /\ was = None
    BY DEF Init
  <2>2. PICK n \in (IF k.ulp = "echo" THEN 1 ELSE 0)..MaxBody :
            /\ kind = k
            /\ segs \in Chains(HeaderCells(k, FALSE) \o BodyCells(n), MaxWrapped, Rooms)
            /\ wire \in Sendable(k, n)
            /\ phase = "sent" /\ was = None
    BY <2>1
  <2>3. n \in 0..MaxBody /\ (k.ulp = "echo" => n >= 1)
    BY WordsAssumption
  <2>4. QED
    BY <2>2, <2>3
<1>2. n \in Nat /\ HeaderCells(k, FALSE) \o BodyCells(n) \in Seq(Cell)
  <2>1. n \in Nat
    BY WordsAssumption
  <2>2. QED
    BY <2>1, WholeCells
<1>3. IsChain /\ Flat(segs) = HeaderCells(k, FALSE) \o BodyCells(n)
  BY <1>1, <1>2, ChainHolds, SizesAssumption DEF IsChain
<1>4. /\ IsWire(wire) /\ Counts(k, wire)
      /\ Len(wire.data) = IF k.ulp = "echo" THEN n - 1 ELSE n
  BY <1>1, SendableIsWire
<1>5. Packed(phase = "arrived", n)
  BY <1>1, <1>3, <1>4 DEF Packed
<1>6. QED
  BY <1>1, <1>2, <1>3, <1>4, <1>5
     DEF PInv, Shaped, OutsideOK, InsideOK, InEngine, FrontOK, WellShapedSurvives

(* A packet that ends stays as it is.                                      *)
LEMMA EndsKeeps ==
  ASSUME PInv, NEW how \in {"dropped", "refused"}, Ends(how)
  PROVE  PInv'
BY DEF PInv, Shaped, IsChain, OutsideOK, InsideOK, InEngine, FrontOK,
       WellShapedSurvives, Ends, IsWire, Counts

LEMMA WrapPanicsPInv ==
  ASSUME PInv, WrapPanics
  PROVE  PInv'
BY DEF PInv, Shaped, IsChain, OutsideOK, InsideOK, InEngine, FrontOK,
       WellShapedSurvives, WrapPanics, Ends, IsWire, Counts

(* The inner headers are among those that are parsed or emitted.           *)
LEMMA InnerIsThere ==
  ASSUME NEW k \in Kinds, NEW outer \in BOOLEAN, NEW h \in Range(Inner(k))
  PROVE  /\ \E i \in DOMAIN Headers(k, outer) : Headers(k, outer)[i] = h
         /\ h \in {"ether", "ip", "tcp", "udp"}
<1> DEFINE hs == Headers(k, outer)
           s == Depth(outer)
<1>1. /\ DOMAIN hs = 1..(s + Count(k))
      /\ \A i \in 1..Count(k) : hs[s + i] = Inner(k)[i]
      /\ s \in Nat /\ Count(k) \in Nat
  BY HeaderFacts DEF Depth, Count
<1>2. k.ulp \in {"tcp", "udp", "echo"}
  BY DEF Kinds
<1>3. PICK i \in 1..Count(k) : Inner(k)[i] = h /\ h \in {"ether", "ip", "tcp", "udp"}
  <2>1. CASE k.ulp = "echo"
    <3>1. Inner(k) = <<"ether", "ip">> /\ Count(k) = 2
      BY <2>1, InnerHeaders DEF Count
    <3>2. QED
      BY <3>1 DEF Range
  <2>2. CASE k.ulp # "echo"
    <3>1. Inner(k) = <<"ether", "ip", k.ulp>> /\ Count(k) = 3
      BY <2>2, InnerHeaders DEF Count
    <3>2. QED
      BY <1>2, <2>2, <3>1 DEF Range
  <2>3. QED
    BY <2>1, <2>2
<1> HIDE DEF hs
<1>4. s + i \in DOMAIN hs /\ hs[s + i] = h
  BY <1>1, <1>3
<1>5. QED
  BY <1>3, <1>4 DEF hs

(* Parsing notes where the headers and the body are.                       *)
LEMMA ParsePInv ==
  ASSUME PInv, Parse
  PROVE  PInv'
<1>0. PICK outer \in BOOLEAN : outer = (phase = "arrived")
  OBVIOUS
<1> DEFINE hs == Headers(kind, outer)
           m == Len(hs)
           rdr == Readers(m)
           At(i) == OffsetBefore(rdr[i])
<1>1. phase \in {"sent", "arrived"} /\ kind \in Kinds /\ IsChain
  BY DEF Parse, PInv, Shaped
<1>2. PICK n \in Nat : Packed(outer, n)
  BY <1>0, <1>1 DEF PInv, OutsideOK
<1>3. /\ DOMAIN hs = 1..m /\ m \in 2..6
  BY <1>1, HeaderFacts
<1>4. CASE \E i \in DOMAIN hs : rdr[i] = Failed \/ CellAt(At(i)) # H(hs[i])
  <2>1. Ends("dropped")
    BY <1>0, <1>4 DEF Parse
  <2>2. QED
    BY <2>1, EndsKeeps
<1>5. CASE ~\E i \in DOMAIN hs : rdr[i] = Failed \/ CellAt(At(i)) # H(hs[i])
  <2>1. /\ phase' = "parsed"
        /\ meta' = [outer |-> outer, addr |-> wire.addr, port |-> wire.port,
                    ipCsum |-> wire.ipCsum, csum |-> wire.csum]
        /\ offs' = [h \in Range(hs) |-> At(CHOOSE i \in DOMAIN hs : hs[i] = h)]
        /\ body' = BodyAfter(rdr[m])
        /\ was' = [segs |-> Len(segs), wire |-> wire, outer |-> outer,
                   spanned |-> Spanned(rdr[m]), body |-> body']
        /\ UNCHANGED <<kind, segs, wire>>
    BY <1>0, <1>5 DEF Parse
  <2>2. \A i \in 1..m : IsReader(rdr[i], i) /\ CellAt(At(i)) = H(hs[i])
    <3>1. \A i \in 0..m : rdr[i] = Failed \/ IsReader(rdr[i], i)
      BY <1>1, <1>3, ReadersAdvance
    <3>2. QED
      BY <1>3, <1>5, <3>1
  <2>3. /\ \A i \in 1..m : Flat(segs)[i] = H(hs[i])
        /\ Len(Flat(segs)) = m + n
    <3>1. Flat(segs) = HeaderCells(kind, outer) \o BodyCells(n)
      BY <1>2 DEF Packed
    <3>2. /\ Len(HeaderCells(kind, outer) \o BodyCells(n)) = m + n
          /\ \A i \in 1..m : (HeaderCells(kind, outer) \o BodyCells(n))[i] = H(hs[i])
      BY <1>1, WholeCells
    <3>3. QED
      BY <3>1, <3>2
  <2>4. \A i \in 1..m : At(i).pkt = i - 1
    BY <2>2 DEF OffsetBefore, IsReader
  <2> HIDE DEF rdr
  <2>5. Located'
    <3>1. SUFFICES ASSUME NEW h \in Range(Inner(kind))
                   PROVE  CellAt(offs'[h]) = H(h) /\ Flat(segs)[offs'[h].pkt + 1] = H(h)
      BY <2>1 DEF Located, CellAt
    <3> DEFINE i == CHOOSE j \in DOMAIN hs : hs[j] = h
    <3>2. i \in DOMAIN hs /\ hs[i] = h
      BY <1>1, InnerIsThere
    <3>3. h \in Range(hs)
      BY <3>2 DEF Range
    <3>4. offs'[h] = At(i)
      BY <2>1, <3>3
    <3> HIDE DEF i, hs
    <3>5. i \in 1..m /\ (i - 1) + 1 = i
      BY <1>3, <3>2
    <3>6. QED
      BY <2>2, <2>3, <2>4, <3>2, <3>4, <3>5
  <2> DEFINE last == rdr[m]
             next == AtEnd(last) /\ last.seg + 1 < Len(segs)
  <2>6. /\ body'.pkt = m /\ body'.len = n
        /\ DOMAIN body' = {"pkt", "seg", "off", "len"}
        /\ IsPlace(m, body'.seg, body'.off)
    <3>1. IsReader(last, m) /\ m \in Nat
      BY <1>3, <2>2
    <3> HIDE DEF last
    <3>2. body' = [pkt |-> last.pkt, seg |-> IF next THEN last.seg + 1 ELSE last.seg,
                   off |-> IF next THEN 0 ELSE last.pos,
                   len |-> Len(Flat(segs)) - last.pkt]
      BY <2>1 DEF BodyAfter, last
    <3>3. last.pkt = m /\ IsPlace(m, last.seg, last.pos)
      BY <3>1 DEF IsReader
    <3>4. (m + n) - m = n
      BY <3>1
    <3>5. CASE next
      <4>1. body'.seg = last.seg + 1 /\ body'.off = 0
        BY <3>2, <3>5
      <4>2. IsPlace(m, last.seg, Len(segs[last.seg + 1].cells))
        BY <3>3, <3>5 DEF AtEnd
      <4>3. IsPlace(m, last.seg + 1, 0)
        BY <1>1, <3>5, <4>2, NextSegment
      <4>4. QED
        BY <2>3, <3>2, <3>3, <3>4, <4>1, <4>3
    <3>6. CASE ~next
      <4>1. body'.seg = last.seg /\ body'.off = last.pos
        BY <3>2, <3>6
      <4>2. QED
        BY <2>3, <3>2, <3>3, <3>4, <4>1
    <3>7. QED
      BY <3>5, <3>6
  <2>7. Len(segs[1].cells) >= m \/ last.seg > 0
    <3>1. IsPlace(m, last.seg, last.pos)
      <4>1. IsReader(last, m)
        BY <1>3, <2>2
      <4>2. QED
        BY <4>1 DEF IsReader
    <3>2. CASE last.seg = 0
      <4>1. Pre(Held(segs), 0) = <<>>
        BY PreNone
      <4>2. m = last.pos /\ last.pos <= Len(segs[1].cells)
        BY <1>1, <3>1, <3>2, <4>1, PlaceType DEF IsPlace
      <4>3. m \in Nat /\ Len(segs[1].cells) \in Nat
        BY <1>1, <1>3, <3>1, <3>2, PlaceType
      <4>4. QED
        BY <4>2, <4>3
    <3>3. CASE last.seg # 0
      BY <1>1, <3>1, <3>3, PlaceType
    <3>4. QED
      BY <3>2, <3>3
  <2>8. Noted' /\ Outer' = outer
    <3>1. Outer' = outer /\ meta'.outer = outer
      BY <2>1 DEF Outer
    <3>2. wire.addr \in Addrs /\ wire.port \in Ports
      BY DEF PInv, Shaped, IsWire
    <3>3. QED
      BY <2>1, <2>6, <3>1, <3>2 DEF Noted
  <2>9. InsideOK'
    <3>1. Packed(outer, n)'
      BY <1>2, <2>1 DEF Packed, Flat
    <3>2. was'.body.len = body'.len
      BY <2>1
    <3>3. IsPlace(body.pkt, body.seg, body.off)'
      BY <2>1, <2>6 DEF IsPlace
    <3>4. body'.pkt = Len(Headers(kind, Outer))'
      BY <2>1, <2>6, <2>8
    <3>5. Packed(Outer, body.len)'
      BY <2>6, <2>8, <3>1 DEF Packed
    <3>6. QED
      BY <2>5, <2>8, <3>2, <3>3, <3>4, <3>5 DEF InsideOK
  <2>10. FrontOK'
    <3>1. was'.segs = Len(segs) /\ was'.spanned = (last.seg > 0)
      BY <2>1 DEF Spanned
    <3>2. Len(segs'[1].cells) >= body'.pkt \/ was'.spanned
      BY <2>1, <2>6, <2>7, <3>1
    <3>3. QED
      BY <2>1, <3>1, <3>2 DEF FrontOK, WellShapedSurvives
  <2>11. Shaped' /\ OutsideOK'
    BY <2>1 DEF PInv, Shaped, IsChain, OutsideOK, IsWire, Counts
  <2>12. QED
    BY <2>9, <2>10, <2>11 DEF PInv
<1>6. QED
  BY <1>4, <1>5

(* Layers change what is known of a packet, not the packet.                *)
LEMMA TransformPInv ==
  ASSUME PInv, Transform
  PROVE  PInv'
<1>1. PICK a \in Addrs, p \in Ports, outer \in {meta.outer, ~meta.outer} :
        /\ kind.ulp = "echo" => p = meta.port
        /\ meta' = [meta EXCEPT !.outer = outer, !.addr = a, !.port = p]
  BY DEF Transform
<1>2. /\ phase = "parsed" /\ phase' = "transformed"
      /\ UNCHANGED <<kind, segs, wire, offs, body, bodyCsum, was>>
  BY DEF Transform
<1>3. InsideOK
  BY DEF PInv
<1>4. Noted /\ Outer = was.outer
  BY <1>2, <1>3 DEF InsideOK, InEngine, Outer
<1>5. Noted' /\ Outer' = Outer
  <2>1. meta.outer \in BOOLEAN /\ outer \in BOOLEAN
    BY <1>4 DEF Noted
  <2>2. /\ DOMAIN meta' = DOMAIN meta
        /\ meta'.outer = outer /\ meta'.addr = a /\ meta'.port = p
    BY <1>1, <1>4 DEF Noted
  <2>3. Outer' = Outer
    BY <1>2, <1>4 DEF Outer
  <2>4. QED
    BY <1>1, <1>2, <1>4, <2>1, <2>2, <2>3 DEF Noted
<1>6. InsideOK'
  <2>1. /\ Packed(Outer, body.len) /\ body.pkt = Len(Headers(kind, Outer))
        /\ IsPlace(body.pkt, body.seg, body.off) /\ Located
        /\ body.len = was.body.len
    BY <1>2, <1>3 DEF InsideOK, InEngine
  <2>2. Packed(Outer, body.len)' /\ (body.pkt = Len(Headers(kind, Outer)))'
    BY <1>2, <1>5, <2>1 DEF Packed, Flat
  <2>3. IsPlace(body.pkt, body.seg, body.off)'
    BY <1>2, <2>1 DEF IsPlace
  <2>4. Located'
    BY <1>2, <2>1 DEF Located, CellAt, Flat
  <2>5. QED
    BY <1>2, <1>5, <2>1, <2>2, <2>3, <2>4 DEF InsideOK
<1>7. FrontOK'
  BY <1>2 DEF PInv, FrontOK, WellShapedSurvives
<1>8. Shaped' /\ OutsideOK'
  BY <1>2 DEF PInv, Shaped, IsChain, OutsideOK, IsWire, Counts
<1>9. QED
  BY <1>6, <1>7, <1>8 DEF PInv

LEMMA TransformFailsPInv ==
  ASSUME PInv, TransformFails
  PROVE  PInv'
BY EndsKeeps DEF TransformFails

(* The first segment of the body has no more than the body.                *)
LEMMA FirstOfBody ==
  ASSUME IsChain, IsPlace(body.pkt, body.seg, body.off)
  PROVE  /\ Len(FirstBodyCells) \in Nat
         /\ body.pkt + Len(FirstBodyCells) <= Len(Flat(segs))
<1> DEFINE cells == segs[body.seg + 1].cells
           before == Pre(Held(segs), body.seg)
           k == body.off
<1>1. /\ body.pkt = k + Len(before) /\ k \in Nat /\ Len(before) \in Nat
      /\ cells \in Seq(Cell) /\ Len(cells) \in Nat /\ body.seg \in 0..(Len(segs) - 1)
      /\ k \in 0..Len(cells)
  BY PlaceType DEF IsPlace
<1>2. /\ Held(segs) \in Seq(Seq(Cell)) /\ Len(Held(segs)) = Len(segs)
      /\ Held(segs)[body.seg + 1] = cells /\ Flat(segs) = FlattenSeq(Held(segs))
      /\ Len(Flat(segs)) \in Nat
  <2>1. segs \in Seq(Segment) /\ Len(segs) \in Nat
    BY DEF IsChain
  <2>2. body.seg + 1 \in 1..Len(segs)
    BY <1>1, <2>1
  <2>3. QED
    BY <2>1, <2>2, HeldType
<1>3. FirstBodyCells = Drop(cells, k)
  BY DEF FirstBodyCells, Drop
<1>4. Len(Drop(cells, k)) = Len(cells) - k
  <2> HIDE DEF cells, k
  <2>1. QED
    BY <1>1, DropProperties
<1>5. Len(before) + Len(cells) <= Len(Flat(segs))
  <2>1. CASE Len(cells) = 0
    <3>1. Len(before) <= Len(FlattenSeq(Held(segs)))
      BY <1>1, <1>2, PreIsPrefix
    <3>2. QED
      BY <1>1, <1>2, <2>1, <3>1
  <2>2. CASE Len(cells) # 0
    <3>1. Len(cells) \in 1..Len(Held(segs)[body.seg + 1])
      BY <1>1, <1>2, <2>2
    <3>2. Len(before) + Len(cells) \in 1..Len(FlattenSeq(Held(segs)))
      BY <1>1, <1>2, <3>1, CellInFlatten
    <3> HIDE DEF cells, before
    <3>3. Len(before) + Len(cells) \in 1..Len(Flat(segs))
      BY <1>2, <3>2
    <3>4. QED
      BY <1>1, <1>2, <3>3
  <2>3. QED
    BY <2>1, <2>2
<1> HIDE DEF cells, before, k
<1>6. QED
  BY <1>1, <1>2, <1>3, <1>4, <1>5

LEMMA EchoTransformPInv ==
  ASSUME PInv, EchoTransform
  PROVE  PInv'
<1>1. CASE FirstBodyCells = <<>>
  BY <1>1, EndsKeeps DEF EchoTransform
<1>2. CASE FirstBodyCells # <<>>
  <2> DEFINE k == Len(FirstBodyCells) - 1
  <2>1. PICK p \in Ports :
          wire' = [wire EXCEPT !.port = p,
                               !.csum = ToField(Total(<<p>> \o SubSeq(wire.data, 1, k)))]
    BY <1>2 DEF EchoTransform
  <2>2. /\ phase = "transformed" /\ phase' = "rewritten"
        /\ kind = [ip |-> 4, ulp |-> "echo"]
        /\ UNCHANGED <<kind, segs, meta, offs, body, bodyCsum, was>>
    BY <1>2 DEF EchoTransform
  <2>3. /\ Noted /\ Packed(Outer, body.len) /\ body.pkt = Len(Headers(kind, Outer))
        /\ IsPlace(body.pkt, body.seg, body.off) /\ Located
        /\ body.len = was.body.len
    BY <2>2 DEF PInv, InsideOK, InEngine
  <2>4. IsChain /\ IsWire(wire) /\ Counts(kind, wire) /\ kind \in Kinds
    BY DEF PInv, Shaped
  <2>5. k <= Len(wire.data) /\ wire.data \in Seq(Nat)
        /\ SubSeq(wire.data, 1, k) \in Seq(Nat)
    <3>1. Len(FirstBodyCells) \in Nat /\ body.pkt + Len(FirstBodyCells) <= Len(Flat(segs))
      BY <2>3, <2>4, FirstOfBody
    <3>2. Outer \in BOOLEAN /\ body.len \in Nat
      BY <2>3, WordsAssumption DEF Noted, Packed
    <3>3. Len(Flat(segs)) = body.pkt + body.len /\ body.pkt \in Nat
      <4>1. Flat(segs) = HeaderCells(kind, Outer) \o BodyCells(body.len)
        BY <2>3 DEF Packed
      <4>2. Len(HeaderCells(kind, Outer) \o BodyCells(body.len)) =
              Len(Headers(kind, Outer)) + body.len
        BY <2>4, <3>2, WholeCells
      <4>3. Len(Headers(kind, Outer)) \in 2..6
        BY <2>4, <3>2, HeaderCellsType
      <4>4. QED
        BY <2>3, <4>1, <4>2, <4>3
    <3>4. Len(wire.data) = body.len - 1
      BY <2>2, <2>3 DEF Packed
    <3>5. wire.data \in Seq(Nat)
      BY <2>4, DataAreWords DEF IsWire
    <3>6. k <= Len(wire.data) /\ k \in Int
      BY <3>1, <3>2, <3>3, <3>4
    <3> HIDE DEF k
    <3>7. SubSeq(wire.data, 1, k) \in Seq(Nat)
      BY <3>5, <3>6
    <3>8. QED
      BY <3>5, <3>6, <3>7
  <2>6. p \in Nat /\ <<p>> \in Seq(Nat)
    BY WordsAssumption, WordMaxAssumption DEF Word
  <2>7. ToField(Total(<<p>> \o SubSeq(wire.data, 1, k))) \in Word
    <3> DEFINE rest == SubSeq(wire.data, 1, k)
    <3>1. rest \in Seq(Nat)
      BY <2>5
    <3> HIDE DEF rest
    <3>2. Total(<<p>> \o rest) \in Nat
      BY <2>6, <3>1, TotalType, ConcatProperties
    <3>3. ToField(Total(<<p>> \o rest)) \in Word
      BY <3>2, ToFieldType
    <3>4. QED
      BY <3>3 DEF rest
  <2>8. /\ DOMAIN wire' = DOMAIN wire /\ wire'.port = p /\ wire'.csum \in Word
        /\ wire'.addr = wire.addr /\ wire'.data = wire.data /\ wire'.ipLen = wire.ipLen
        /\ wire'.udpLen = wire.udpLen /\ wire'.ipCsum = wire.ipCsum
    <3>1. DOMAIN wire = {"addr", "port", "data", "ipLen", "udpLen", "csum", "ipCsum",
                         "oipLen", "geneveLen"}
      BY <2>4 DEF IsWire
    <3> HIDE DEF k
    <3>2. QED
      BY <2>1, <2>7, <3>1
  <2>9. Shaped'
    BY <2>2, <2>4, <2>8 DEF Shaped, IsChain, IsWire, Counts
  <2>10. InsideOK'
    <3>1. Outer' = Outer
      BY <2>2 DEF Outer
    <3>2. Noted'
      BY <2>2, <2>3, <3>1 DEF Noted
    <3>3. Packed(Outer, body.len)' /\ (body.pkt = Len(Headers(kind, Outer)))'
      BY <2>2, <2>3, <2>8, <3>1 DEF Packed, Flat
    <3>4. IsPlace(body.pkt, body.seg, body.off)'
      BY <2>2, <2>3 DEF IsPlace
    <3>5. Located'
      BY <2>2, <2>3 DEF Located, CellAt, Flat
    <3>6. QED
      BY <2>2, <2>3, <3>2, <3>3, <3>4, <3>5 DEF InsideOK
  <2>11. FrontOK' /\ OutsideOK'
    BY <2>2 DEF PInv, FrontOK, WellShapedSurvives, OutsideOK
  <2>12. QED
    BY <2>9, <2>10, <2>11 DEF PInv
<1>3. QED
  BY <1>1, <1>2

(* To another port of the host a packet goes as it is.                     *)
LEMMA LoopbackPInv ==
  ASSUME PInv, Loopback
  PROVE  PInv'
<1>1. /\ phase = "emitted" /\ meta.outer /\ phase' = "parsed"
      /\ was' = [segs |-> Len(segs), wire |-> wire, outer |-> TRUE,
                 spanned |-> FALSE, body |-> body]
      /\ UNCHANGED <<kind, segs, wire, meta, offs, body, bodyCsum>>
  BY DEF Loopback
<1>2. /\ Noted /\ Packed(Outer, body.len) /\ body.pkt = Len(Headers(kind, Outer))
      /\ IsPlace(body.pkt, body.seg, body.off) /\ Located
  BY <1>1 DEF PInv, InsideOK, InEngine
<1>3. Outer' = Outer /\ Outer' \in BOOLEAN
  <2>1. Outer' = TRUE
    BY <1>1 DEF Outer
  <2>2. Outer = meta.outer /\ meta.outer \in BOOLEAN
    BY <1>1, <1>2 DEF Outer, Noted
  <2>3. QED
    BY <1>1, <2>1, <2>2
<1>4. InsideOK'
  <2>1. Noted'
    BY <1>1, <1>2, <1>3 DEF Noted
  <2>2. Packed(Outer, body.len)' /\ (body.pkt = Len(Headers(kind, Outer)))'
    BY <1>1, <1>2, <1>3 DEF Packed, Flat
  <2>3. IsPlace(body.pkt, body.seg, body.off)'
    BY <1>1, <1>2 DEF IsPlace
  <2>4. Located'
    BY <1>1, <1>2 DEF Located, CellAt, Flat
  <2>5. was'.body.len = body'.len
    BY <1>1
  <2>6. QED
    BY <2>1, <2>2, <2>3, <2>4, <2>5 DEF InsideOK
<1>5. FrontOK'
  <2>1. Len(segs[1].cells) >= body.pkt
    BY <1>1 DEF PInv, FrontOK
  <2>2. QED
    BY <1>1, <2>1 DEF FrontOK, WellShapedSurvives
<1>6. Shaped' /\ OutsideOK'
  BY <1>1 DEF PInv, Shaped, IsChain, OutsideOK, IsWire, Counts
<1>7. QED
  BY <1>4, <1>5, <1>6 DEF PInv

(* To another host it goes in segments of the network's choice.            *)
LEMMA TravelPInv ==
  ASSUME PInv, Travel
  PROVE  PInv'
<1>1. /\ phase = "emitted" /\ meta.outer /\ phase' = "arrived"
      /\ segs' \in Chains(Flat(segs), MaxArrived, {0})
      /\ UNCHANGED <<kind, wire>> /\ was' = None
  BY DEF Travel
<1>2. IsChain /\ Noted /\ Packed(Outer, body.len)
  BY <1>1 DEF PInv, Shaped, InsideOK, InEngine
<1>3. Packed(TRUE, body.len)
  <2>1. Outer = TRUE
    BY <1>1, <1>2 DEF Outer, Noted
  <2>2. QED
    BY <1>2, <2>1
<1>4. segs' \in Seq(Segment) /\ Len(segs') # 0 /\ Flat(segs') = Flat(segs)
  <2>1. Flat(segs) \in Seq(Cell)
    BY <1>2, HeldType DEF IsChain
  <2>2. {0} \in SUBSET Nat
    OBVIOUS
  <2>3. QED
    BY <1>1, <2>1, <2>2, ChainHolds, SizesAssumption
<1>5. PICK n \in Nat : n = body.len
  BY <1>3, WordsAssumption DEF Packed
<1>6. Packed(TRUE, n)'
  BY <1>1, <1>3, <1>4, <1>5 DEF Packed
<1>7. OutsideOK'
  BY <1>1, <1>6 DEF OutsideOK
<1>8. Shaped'
  BY <1>1, <1>4 DEF PInv, Shaped, IsChain, IsWire, Counts
<1>9. QED
  BY <1>1, <1>7, <1>8
     DEF PInv, InsideOK, InEngine, FrontOK, WellShapedSurvives

-----------------------------------------------------------------------------
(* Checksums.  What parsing keeps of the body completes, with the field    *)
(* and the words of the headers, a multiple of all ones.                   *)
Completes(b, k, w) == Same(b + w.csum + PseudoSum(k, w) + UlpSum(k, w), 0)

LEMMA BodySumCompletes ==
  ASSUME NEW k \in Kinds, NEW w, IsWire(w), Counts(k, w), k.ulp # "echo", w.csum # 0
  PROVE  BodySum(k, w) \in Nat /\ Completes(BodySum(k, w), k, w)
<1> DEFINE u == UlpWords(k, w)
           f == Finalize(Total(Pseudo(k, w)))
           last == <<f>>
           uu == [i \in DOMAIN u |-> Complement(u[i])]
           ff == [i \in DOMAIN last |-> Complement(last[i])]
<1>0. WordMax \in Nat
  BY WordMaxAssumption
<1>1. /\ u \in Seq(Word) /\ Total(u) = UlpSum(k, w) /\ UlpSum(k, w) \in Nat
      /\ Total(Pseudo(k, w)) = PseudoSum(k, w) /\ PseudoSum(k, w) \in Nat
      /\ u \in Seq(Nat)
  BY SumsOfWire
<1>2. f \in Word /\ Same(PseudoSum(k, w), f)
  BY <1>1, FinalizeValue
<1>3. w.csum \in 0..WordMax
  BY DEF IsWire, Word
<1>4. BodySum(k, w) = (WordMax - w.csum + Total(uu)) + Total(ff)
  BY DEF BodySum, SubWords, FromField, Complement
<1>5. f \in 0..WordMax /\ f \in Nat
  BY <1>0, <1>2 DEF Word
<1> HIDE DEF f
<1>6. last \in Seq(Word) /\ last \in Seq(Nat) /\ Len(last) = 1 /\ Total(last) = f
  BY <1>2, <1>5, TotalOfFew
<1> HIDE DEF u, last
<1>7. uu \in Seq(Word) /\ Total(uu) = Len(u) * WordMax - Total(u)
  BY <1>1, TotalComplement
<1>8. ff \in Seq(Word) /\ Total(ff) = Len(last) * WordMax - Total(last)
  BY <1>6, TotalComplement
<1>9. Total(uu) \in Nat /\ Total(ff) \in Nat
  <2>1. Word \subseteq Nat
    BY <1>0 DEF Word
  <2> HIDE DEF uu, ff
  <2>2. uu \in Seq(Nat) /\ ff \in Seq(Nat)
    BY <1>7, <1>8, <2>1, SeqMonotonic
  <2>3. QED
    BY <2>2, TotalType
<1> HIDE DEF uu, ff
<1>10. BodySum(k, w) \in Nat
  BY <1>0, <1>3, <1>4, <1>9
<1>11. Completes(BodySum(k, w), k, w)
  <2>1. PICK c \in Int : PseudoSum(k, w) = f + c * WordMax
    BY <1>2 DEF Same
  <2>2. Len(u) \in Nat /\ Total(ff) = WordMax - f /\ c * WordMax \in Int
        /\ Len(u) * WordMax \in Int
    BY <1>0, <1>1, <1>6, <1>8
  <2>3. BodySum(k, w) + w.csum + PseudoSum(k, w) + UlpSum(k, w) =
          WordMax + Len(u) * WordMax + WordMax + c * WordMax
    BY <1>0, <1>1, <1>3, <1>4, <1>5, <1>7, <2>1, <2>2
  <2>4. WordMax + Len(u) * WordMax + WordMax + c * WordMax =
          0 + (2 + Len(u) + c) * WordMax
    BY <1>0, <2>2
  <2>5. 2 + Len(u) + c \in Int
    BY <2>2
  <2>6. QED
    BY <2>3, <2>4, <2>5 DEF Completes, Same
<1>12. QED
  BY <1>10, <1>11

(* By how much the length that a receiver has exceeds the one that the     *)
(* code takes.                                                             *)
Short(k, w) == (1 + Len(w.data)) - IF k.ip = 4 THEN w.ipLen - 1 ELSE w.ipLen

LEMMA ReceivedSum ==
  ASSUME NEW k \in Kinds, NEW w, IsWire(w), Counts(k, w)
  PROVE  /\ Short(k, w) \in Int
         /\ PseudoSum(k, w) + Short(k, w) \in Nat /\ PseudoSum(k, w) + Short(k, w) > 0
         /\ Total(ReceivedPseudo(w) \o UlpWords(k, w) \o w.data) =
              (PseudoSum(k, w) + Short(k, w)) + UlpSum(k, w) + Total(w.data)
<1> DEFINE l == 1 + Len(w.data)
           r == <<w.addr, l>>
           u == UlpWords(k, w)
<1>1. /\ u \in Seq(Nat) /\ Total(u) = UlpSum(k, w) /\ UlpSum(k, w) \in Nat
      /\ w.addr \in Nat /\ w.ipLen \in Nat /\ Total(w.data) \in Nat
  BY SumsOfWire
<1>2. w.data \in Seq(Nat) /\ w.data \in Seq(Data)
  BY DataAreWords DEF IsWire
<1>3. Len(w.data) \in Nat /\ l \in Nat /\ l > 0
  <2>1. Len(w.data) \in Nat
    BY <1>2, LenProperties
  <2>2. QED
    BY <2>1
<1>4. PseudoSum(k, w) + Short(k, w) = w.addr + l /\ Short(k, w) \in Int
  <2> DEFINE t == IF k.ip = 4 THEN w.ipLen - 1 ELSE w.ipLen
  <2>1. t \in Int
    BY <1>1
  <2>2. PseudoSum(k, w) = w.addr + t /\ Short(k, w) = l - t
    BY DEF PseudoSum, Short
  <2> HIDE DEF t, l
  <2>3. QED
    BY <1>1, <1>3, <2>1, <2>2
<1> HIDE DEF l
<1>5. r \in Seq(Nat) /\ Total(r) = w.addr + l
  BY <1>1, <1>3, TotalOfFew
<1>6. ReceivedPseudo(w) = r
  BY DEF ReceivedPseudo, l
<1> HIDE DEF r, u
<1>7. r \o u \in Seq(Nat) /\ Total(r \o u) = Total(r) + Total(u)
  BY <1>1, <1>5, TotalConcat, ConcatProperties
<1>8. Total(r \o u \o w.data) = Total(r \o u) + Total(w.data)
  BY <1>2, <1>7, TotalConcat
<1>9. Total(ReceivedPseudo(w) \o UlpWords(k, w) \o w.data) =
        (w.addr + l) + UlpSum(k, w) + Total(w.data)
  BY <1>1, <1>5, <1>6, <1>7, <1>8 DEF u
<1>10. QED
  BY <1>1, <1>3, <1>4, <1>9

(* Whether a checksum is right for a receiver depends on the body, what    *)
(* was kept of it, and how wrong the length is, only.                      *)
LEMMA RightIfBodyIs ==
  ASSUME NEW k \in Kinds, NEW w, IsWire(w), Counts(k, w), k.ulp # "echo",
         NEW b \in Nat, Completes(b, k, w)
  PROVE  UlpSumsUp(k, w) <=> Same((Total(w.data) - b) + Short(k, w), 0)
<1> DEFINE p == PseudoSum(k, w)
           u == UlpSum(k, w)
           d == Total(w.data)
           g == Short(k, w)
           e == (d - b) + g
           n == w.csum + ((p + g) + u + d)
           x == b + w.csum + p + u
<1>1. /\ p \in Nat /\ u \in Nat /\ d \in Nat /\ w.csum \in Nat
      /\ g \in Int /\ p + g \in Nat /\ p + g > 0
      /\ Total(ReceivedPseudo(w) \o UlpWords(k, w) \o w.data) = (p + g) + u + d
  <2>1. w.csum \in Nat
    BY WordMaxAssumption DEF IsWire, Word
  <2>2. p \in Nat /\ u \in Nat /\ d \in Nat
    BY SumsOfWire
  <2>3. /\ g \in Int /\ p + g \in Nat /\ p + g > 0
        /\ Total(ReceivedPseudo(w) \o UlpWords(k, w) \o w.data) = (p + g) + u + d
    BY ReceivedSum
  <2>4. QED
    BY <2>1, <2>2, <2>3
<1>2. UlpSumsUp(k, w) <=> Finalize(n) = WordMax
  BY <1>1 DEF UlpSumsUp, SumsUp
<1>3. Same(x, 0)
  BY DEF Completes
<1> HIDE DEF p, u, d, g
<1>4. x \in Int /\ e \in Int /\ n \in Nat /\ n # 0 /\ n = x + e /\ e = n + -x
  BY <1>1
<1> HIDE DEF n, x, e
<1>5. Finalize(n) = WordMax <=> Same(n, 0)
  BY <1>4, AllOnes
<1>6. ASSUME Same(n, 0) PROVE Same(e, 0)
  <2>1. Same(-x, -0)
    BY <1>3, <1>4, SameIsCongruence
  <2>2. Same(n + -x, 0 + -0)
    BY <1>4, <1>6, <2>1, SameIsCongruence
  <2>3. QED
    BY <1>4, <2>2
<1>7. ASSUME Same(e, 0) PROVE Same(n, 0)
  <2>1. Same(x + e, 0 + 0)
    BY <1>3, <1>4, <1>7, SameIsCongruence
  <2>2. QED
    BY <1>4, <2>1
<1>8. QED
  BY <1>2, <1>5, <1>6, <1>7 DEF e, d, g

(* A field that is computed anew completes the sum it was computed from.   *)
LEMMA NewField ==
  ASSUME NEW n \in Nat
  PROVE  /\ ToField(n) \in Word
         /\ Same(n + ToField(n), 0)
         /\ n # 0 => Finalize(ToField(n) + n) = WordMax
<1>1. /\ ToField(n) \in Word /\ ToField(n) = WordMax - Finalize(n)
      /\ Finalize(n) \in Nat /\ WordMax \in Nat
  BY ToFieldType, WordMaxAssumption
<1>2. Same(n + ToField(n), 0)
  <2>1. PICK c \in Int : n = Finalize(n) + c * WordMax
    BY FinalizeValue DEF Same
  <2>2. c * WordMax \in Int
    BY <1>1, <2>1
  <2>3. n + ToField(n) = c * WordMax + WordMax
    BY <1>1, <2>1, <2>2
  <2>4. c * WordMax + WordMax = 0 + (c + 1) * WordMax
    BY <1>1, <2>1, <2>2
  <2>5. QED
    BY <2>1, <2>3, <2>4 DEF Same
<1>3. ASSUME n # 0 PROVE Finalize(ToField(n) + n) = WordMax
  <2>1. ToField(n) \in Nat
    BY <1>1 DEF Word
  <2>2. ToField(n) + n \in Nat /\ ToField(n) + n # 0 /\ ToField(n) + n = n + ToField(n)
    BY <1>3, <2>1
  <2>3. QED
    BY <1>2, <2>2, AllOnes
<1>4. QED
  BY <1>1, <1>2, <1>3

(* All that follows the ULP header is data.                                *)
AllBody == kind.ulp # "echo" => Len(wire.data) = body.len

(* What emission writes into the headers.                                  *)
Updated == UpdateChecksums(Fields(NewPktLen))

LEMMA UpdatedIsWire ==
  ASSUME kind \in Kinds, IsWire(wire), Counts(kind, wire),
         meta.outer \in BOOLEAN, meta.addr \in Addrs, meta.port \in Ports,
         body.len \in 0..MaxBody, AllBody,
         kind.ulp # "echo" /\ meta.csum # 0 => bodyCsum \in Nat
  PROVE  /\ IsWire(Updated) /\ Counts(kind, Updated)
         /\ Updated.data = wire.data
         /\ Updated.ipLen = Count(kind) + body.len - 1
         /\ kind.ulp = "udp" => Updated.udpLen = body.len + 1
         /\ meta.outer => Updated.geneveLen = NewPktLen - 2
         /\ meta.ipCsum = 0 => Updated.ipCsum = wire.ipCsum
         /\ meta.ipCsum # 0 => IpSumsUp(Updated)
         /\ kind.ulp = "echo" \/ meta.csum = 0 => Updated.csum = wire.csum
         /\ kind.ulp # "echo" /\ meta.csum # 0 =>
              Completes(bodyCsum, kind, Updated)
<1> DEFINE start == IF meta.outer THEN Len(Encap) ELSE 0
           len == NewPktLen
           f == Fields(len)
           w == Updated
           csum == IF kind.ulp = "echo" \/ meta.csum = 0 THEN wire.csum
                   ELSE ToField(AddWords(bodyCsum, Pseudo(kind, f) \o UlpWords(kind, f)))
           ipCsum == IF meta.ipCsum = 0 THEN wire.ipCsum ELSE ToField(Total(IpWords(f)))
<1>1. /\ DOMAIN wire = {"addr", "port", "data", "ipLen", "udpLen", "csum", "ipCsum",
                        "oipLen", "geneveLen"}
      /\ wire.addr \in Addrs /\ wire.port \in Ports /\ wire.data \in Seq(Data)
      /\ wire.csum \in Word /\ wire.ipCsum \in Word
  BY DEF IsWire
<1>2. /\ start = Depth(meta.outer) /\ start \in Nat
      /\ NewLen = start + Count(kind) /\ Count(kind) \in 2..3
      /\ kind.ulp # "echo" => Count(kind) = 3
  <2>1. Len(Headers(kind, meta.outer)) = Depth(meta.outer) + Count(kind)
    BY HeaderFacts
  <2>2. start = Depth(meta.outer) /\ start \in Nat
    BY DEF Encap, Depth
  <2>3. Count(kind) \in 2..3 /\ (kind.ulp # "echo" => Count(kind) = 3)
    BY DEF Count
  <2> HIDE DEF start
  <2>4. NewLen = start + Count(kind)
    BY <2>1, <2>2 DEF NewLen
  <2>5. QED
    BY <2>2, <2>3, <2>4
<1>3. body.len \in Nat /\ len = start + Count(kind) + body.len
  BY <1>2, WordsAssumption DEF NewPktLen
<1> HIDE DEF len, start
<1>4. /\ DOMAIN f = DOMAIN wire
      /\ f.addr = meta.addr
      /\ f.port = IF kind.ulp = "echo" THEN wire.port ELSE meta.port
      /\ f.ipLen = len - (start + 1)
      /\ f.udpLen = IF kind.ulp = "udp" THEN len - (start + 2) ELSE 0
      /\ f.data = wire.data /\ f.csum = wire.csum /\ f.ipCsum = wire.ipCsum
      /\ f.geneveLen = IF meta.outer THEN len - 2 ELSE 0
  BY <1>1 DEF Fields, start
<1>5. /\ f.ipLen = Count(kind) + body.len - 1 /\ f.ipLen \in Nat /\ f.ipLen > 0
      /\ kind.ulp # "echo" => f.ipLen = 2 + body.len
  <2>1. f.ipLen = Count(kind) + body.len - 1
    BY <1>2, <1>3, <1>4
  <2> HIDE DEF f
  <2>2. f.ipLen \in Nat /\ f.ipLen > 0
    BY <1>2, <1>3, <2>1
  <2>3. ASSUME kind.ulp # "echo" PROVE f.ipLen = 2 + body.len
    <3>1. Count(kind) = 3
      BY <1>2, <2>3
    <3>2. QED
      BY <1>3, <2>1, <3>1
  <2>4. QED
    BY <2>1, <2>2, <2>3
<1>6. f.udpLen \in Word /\ (kind.ulp = "udp" => f.udpLen = body.len + 1)
  <2>1. MaxBody \in Nat /\ MaxBody + 1 <= WordMax /\ WordMax \in Nat
    BY WordsAssumption, WordMaxAssumption DEF Word
  <2>2. CASE kind.ulp = "udp"
    <3>1. f.udpLen = body.len + 1
      BY <1>2, <1>3, <1>4, <2>2
    <3>2. body.len + 1 \in Word
      BY <1>3, <2>1 DEF Word
    <3>3. QED
      BY <3>1, <3>2
  <2>3. CASE kind.ulp # "udp"
    BY <1>4, <2>1, <2>3 DEF Word
  <2>4. QED
    BY <2>2, <2>3
<1>7. IsWire(f) /\ Counts(kind, f)
  BY <1>1, <1>4, <1>5, <1>6 DEF IsWire, Counts, AllBody
<1>8. w = [f EXCEPT !.csum = csum, !.ipCsum = ipCsum]
  BY <1>4 DEF Updated, UpdateChecksums, len
<1>9. /\ DOMAIN w = DOMAIN wire /\ w.csum = csum /\ w.ipCsum = ipCsum
      /\ w.addr = f.addr /\ w.port = f.port /\ w.data = f.data /\ w.ipLen = f.ipLen
      /\ w.udpLen = f.udpLen /\ w.geneveLen = f.geneveLen
  <2> HIDE DEF w, f, csum, ipCsum
  <2>1. QED
    BY <1>1, <1>4, <1>8
<1> HIDE DEF w, f
<1>10. /\ UlpSum(kind, f) \in Nat /\ PseudoSum(kind, f) \in Nat
       /\ UlpSum(kind, w) = UlpSum(kind, f) /\ PseudoSum(kind, w) = PseudoSum(kind, f)
       /\ Total(Pseudo(kind, f) \o UlpWords(kind, f)) = PseudoSum(kind, f) + UlpSum(kind, f)
       /\ Total(IpWords(f)) = f.addr + f.ipLen /\ f.addr \in Nat
  BY <1>7, <1>9, SumsOfWire DEF UlpSum, PseudoSum
<1>11. /\ csum \in Word
       /\ kind.ulp # "echo" /\ meta.csum # 0 => Completes(bodyCsum, kind, w)
  <2>1. CASE kind.ulp = "echo" \/ meta.csum = 0
    BY <1>1, <2>1
  <2>2. CASE kind.ulp # "echo" /\ meta.csum # 0
    <3> DEFINE s == PseudoSum(kind, f) + UlpSum(kind, f)
    <3>1. csum = ToField(bodyCsum + s) /\ bodyCsum + s \in Nat /\ bodyCsum \in Nat
          /\ s \in Nat
      BY <1>10, <2>2 DEF AddWords
    <3>2. csum \in Word /\ Same((bodyCsum + s) + csum, 0)
      BY <3>1, NewField
    <3>3. csum \in Nat
      BY <3>2, WordMaxAssumption DEF Word
    <3>4. bodyCsum + w.csum + PseudoSum(kind, w) + UlpSum(kind, w) = (bodyCsum + s) + csum
      <4> HIDE DEF csum
      <4>1. QED
        BY <1>9, <1>10, <3>1, <3>3
    <3>5. QED
      BY <3>2, <3>4 DEF Completes
  <2>3. QED
    BY <2>1, <2>2
<1>12. /\ ipCsum \in Word
       /\ meta.ipCsum = 0 => w.ipCsum = wire.ipCsum
       /\ meta.ipCsum # 0 => IpSumsUp(w)
  <2>1. CASE meta.ipCsum = 0
    BY <1>1, <1>9, <2>1
  <2>2. CASE meta.ipCsum # 0
    <3>1. Total(IpWords(w)) = Total(IpWords(f))
      BY <1>9 DEF IpWords
    <3>2. Total(IpWords(f)) \in Nat /\ Total(IpWords(f)) # 0
      BY <1>5, <1>10
    <3>3. ipCsum = ToField(Total(IpWords(f)))
      BY <2>2
    <3>4. ipCsum \in Word /\ Finalize(ipCsum + Total(IpWords(f))) = WordMax
      BY <3>2, <3>3, NewField
    <3>5. QED
      BY <1>9, <2>2, <3>1, <3>4 DEF IpSumsUp, SumsUp
  <2>3. QED
    BY <2>1, <2>2
<1> HIDE DEF csum, ipCsum
<1>13. IsWire(w) /\ Counts(kind, w)
  BY <1>7, <1>9, <1>11, <1>12, <1>4 DEF IsWire, Counts
<1>14. kind.ulp = "echo" \/ meta.csum = 0 => w.csum = wire.csum
  BY <1>9 DEF csum
<1>15. QED
  BY <1>4, <1>5, <1>6, <1>9, <1>11, <1>12, <1>13, <1>14 DEF w, len

-----------------------------------------------------------------------------
(* Emission.  The old headers are in the first segment, and something else *)
(* takes their place: what follows them stays, where it was but as much    *)
(* further on as the packet has grown.                                     *)
Placed(q, pkt, seg, pos) ==
  /\ seg \in 0..(Len(q) - 1)
  /\ pos \in 0..Len(q[seg + 1])
  /\ pkt = Len(Pre(q, seg)) + pos

Replaced(q, n, x) == [q EXCEPT ![1] = x \o Drop(q[1], n)]

LEMMA FrontReplaced ==
  ASSUME NEW S, NEW q \in Seq(Seq(S)), NEW old \in Seq(S), NEW b \in Seq(S),
         NEW x \in Seq(S), NEW seg, NEW pos
  PROVE  /\ Len(q) # 0 /\ FlattenSeq(q) = old \o b /\ Len(old) <= Len(q[1])
         /\ Placed(q, Len(old), seg, pos)
         => /\ Replaced(q, Len(old), x) \in Seq(Seq(S))
            /\ Len(Replaced(q, Len(old), x)) = Len(q)
            /\ FlattenSeq(Replaced(q, Len(old), x)) = x \o b
            /\ Placed(Replaced(q, Len(old), x), Len(x), seg,
                      IF seg = 0 THEN Len(x) ELSE pos)
<1>0. ASSUME NEW u \in Seq(S), NEW v \in Seq(S), NEW w \in Seq(S)
      PROVE  (u \o v) \o w = u \o (v \o w)
  BY ConcatAssociative
<1>a. \A u \in Seq(S), v \in Seq(S) : Len(u \o v) = Len(u) + Len(v)
  BY ConcatProperties
<1>b. \A m \in 1..Len(q) :
        \E rest \in Seq(S) :
          \A y \in Seq(S) : Pre([q EXCEPT ![1] = y], m) = y \o rest
  BY PreFront
<1> SUFFICES ASSUME Len(q) # 0, FlattenSeq(q) = old \o b, Len(old) <= Len(q[1]),
                    Placed(q, Len(old), seg, pos)
             PROVE  /\ Replaced(q, Len(old), x) \in Seq(Seq(S))
                    /\ Len(Replaced(q, Len(old), x)) = Len(q)
                    /\ FlattenSeq(Replaced(q, Len(old), x)) = x \o b
                    /\ Placed(Replaced(q, Len(old), x), Len(x), seg,
                              IF seg = 0 THEN Len(x) ELSE pos)
  OBVIOUS
<1> DEFINE c == q[1]
           n == Len(old)
           d == Drop(c, n)
           e == x \o d
           r == [q EXCEPT ![1] = e]
<1>1. Len(q) \in Nat /\ 1 \in 1..Len(q) /\ c \in Seq(S) /\ Len(c) \in Nat
      /\ n \in Nat /\ n \in 0..Len(c) /\ Len(x) \in Nat
  BY LenProperties, ElementOfSeq
<1>2. d \in Seq(S) /\ Len(d) = Len(c) - n
  <2> HIDE DEF c, n
  <2>1. QED
    BY <1>1, DropProperties
<1> HIDE DEF d
<1>3. e \in Seq(S) /\ Len(e) = Len(x) + Len(d)
  BY <1>2, ConcatProperties
<1>4. q = [q EXCEPT ![1] = c]
  BY <1>1
<1> HIDE DEF e, c, n
<1>5. /\ r \in Seq(Seq(S)) /\ Len(r) = Len(q) /\ r[1] = e
      /\ \A i \in 1..Len(q) : i # 1 => r[i] = q[i]
  BY <1>1, <1>3, ExceptSeq
<1>6. FlattenSeq(r) = x \o b
  <2>1. PICK rest \in Seq(S) :
          \A y \in Seq(S) : FlattenSeq([q EXCEPT ![1] = y]) = y \o rest
    BY <1>1, FlattenFront
  <2>2. FlattenSeq(q) = c \o rest
    <3>1. FlattenSeq([q EXCEPT ![1] = c]) = c \o rest
      BY <1>1, <2>1
    <3>2. QED
      BY <1>4, <3>1, Zenon
  <2>3. d \o rest = b
    <3>1. c \o rest = old \o b
      BY <2>2
    <3>2. Len(old) <= Len(c)
      BY DEF c
    <3>3. Drop(c, Len(old)) \o rest = b
      BY <1>1, <2>1, <3>1, <3>2, FrontDropped
    <3>4. QED
      BY <3>3 DEF d, n
  <2>4. FlattenSeq(r) = e \o rest
    BY <1>3, <2>1
  <2>5. (x \o d) \o rest = x \o (d \o rest)
    BY <1>0, <1>2, <2>1
  <2>6. QED
    BY <2>3, <2>4, <2>5 DEF e
<1>7. /\ seg \in 0..(Len(q) - 1) /\ pos \in 0..Len(q[seg + 1])
      /\ n = Len(Pre(q, seg)) + pos
  BY DEF Placed, n
<1>8. CASE seg = 0
  <2>1. Pre(r, seg) = <<>> /\ Len(<<>>) = 0
    BY <1>8, PreNone
  <2>2. Len(x) \in 0..Len(r[seg + 1])
    <3>1. Len(r[seg + 1]) = Len(x) + (Len(c) - n)
      BY <1>2, <1>3, <1>5, <1>8
    <3>2. QED
      BY <1>1, <3>1
  <2>3. Placed(r, Len(x), seg, Len(x))
    BY <1>1, <1>5, <1>7, <2>1, <2>2 DEF Placed
  <2>4. QED
    BY <1>5, <1>6, <1>8, <2>3 DEF Replaced, r, e, d, c, n
<1>9. CASE seg # 0
  <2>1. seg \in 1..Len(q) /\ seg + 1 \in 1..Len(q) /\ seg + 1 # 1
    BY <1>1, <1>7, <1>9
  <2>2. PICK rest \in Seq(S) :
          \A y \in Seq(S) : Pre([q EXCEPT ![1] = y], seg) = y \o rest
    BY <1>b, <2>1
  <2>3. Pre(q, seg) = c \o rest
    <3>1. Pre([q EXCEPT ![1] = c], seg) = c \o rest
      BY <1>1, <2>2
    <3>2. QED
      BY <1>4, <3>1, Zenon
  <2>4. Pre(r, seg) = e \o rest
    BY <1>3, <2>2
  <2>5. /\ Len(Pre(q, seg)) = Len(c) + Len(rest) /\ Len(rest) \in Nat
        /\ Len(Pre(r, seg)) = Len(e) + Len(rest)
    <3>1. /\ Len(c \o rest) = Len(c) + Len(rest) /\ Len(rest) \in Nat
          /\ Len(e \o rest) = Len(e) + Len(rest)
      BY <1>a, <1>1, <1>3, <2>2, LenProperties
    <3>2. QED
      BY <2>3, <2>4, <3>1
  <2>6. r[seg + 1] = q[seg + 1]
    BY <1>5, <2>1
  <2>7. Len(q[seg + 1]) \in Nat
    <3>1. q[seg + 1] \in Seq(S)
      BY <2>1, ElementOfSeq
    <3>2. QED
      BY <3>1, LenProperties
  <2>8. Len(x) = Len(Pre(r, seg)) + pos
    BY <1>1, <1>2, <1>3, <1>7, <2>5, <2>7
  <2>9. Placed(r, Len(x), seg, pos)
    BY <1>5, <1>7, <2>6, <2>8 DEF Placed
  <2>10. QED
    BY <1>5, <1>6, <1>9, <2>9 DEF Replaced, r, e, d, c, n
<1>10. QED
  BY <1>8, <1>9

LEMMA PlacedIsPlace ==
  ASSUME IsChain, NEW pkt, NEW seg, NEW pos
  PROVE  IsPlace(pkt, seg, pos) <=> Placed(Held(segs), pkt, seg, pos)
<1>1. /\ Len(segs) \in Nat /\ Len(Held(segs)) = Len(segs)
      /\ \A i \in 1..Len(segs) : Held(segs)[i] = segs[i].cells
  BY HeldType, LenProperties DEF IsChain
<1>2. \A s \in 0..(Len(segs) - 1) : Held(segs)[s + 1] = segs[s + 1].cells
  <2>1. SUFFICES ASSUME NEW s \in 0..(Len(segs) - 1)
                 PROVE  Held(segs)[s + 1] = segs[s + 1].cells
    OBVIOUS
  <2>2. s + 1 \in 1..Len(segs)
    BY <1>1
  <2>3. QED
    BY <1>1, <2>2
<1>3. QED
  BY <1>1, <1>2 DEF IsPlace, Placed

(* What was stale goes with the headers' old bytes.                        *)
LEMMA StaleDropped ==
  ASSUME NEW s \in Seq(Cell), NEW c \in Seq(Cell), NEW k \in 0..Len(c)
  PROVE  Drop(s \o c, Len(s) + k) = Drop(c, k)
<1>1. /\ s \o c \in Seq(Cell) /\ Len(s \o c) = Len(s) + Len(c)
      /\ Len(s) \in Nat /\ Len(c) \in Nat
  BY ConcatProperties, LenProperties
<1> DEFINE t == s \o c
           n == Len(s)
<1>2. n \in 0..Len(t) /\ k \in 0..(Len(t) - n)
  BY <1>1
<1>3. Drop(t, n) = c
  BY DropFirst
<1> HIDE DEF t, n
<1>4. Drop(Drop(t, n), k) = Drop(t, n + k)
  BY <1>1, <1>2, DropTwice DEF t
<1>5. QED
  BY <1>3, <1>4 DEF t, n

-----------------------------------------------------------------------------
(* The sums that go with the headers.  Until the packet is emitted they    *)
(* are those it came with, and the metadata has the same; what was kept of *)
(* the body completes the field of the ULP, if there is one.               *)
SumsOK ==
  InEngine =>
    /\ phase # "emitted" =>
         /\ wire.ipCsum = was.wire.ipCsum
         /\ kind.ulp # "echo" => wire = was.wire
    /\ meta.ipCsum = wire.ipCsum
    /\ kind.ulp # "echo" => meta.csum = wire.csum
    /\ kind.ulp # "echo" /\ wire.csum # 0 =>
         bodyCsum \in Nat /\ Completes(bodyCsum, kind, wire)

(* What emission comes to, whichever way there is room for the headers.    *)
Emitted ==
  /\ phase \in {"transformed", "rewritten"} /\ phase' = "emitted"
  /\ UNCHANGED <<kind, bodyCsum, was>>
  /\ wire' = Updated
  /\ meta' = [meta EXCEPT !.csum = Updated.csum, !.ipCsum = Updated.ipCsum]
  /\ \A i \in 1..NewLen :
       LET h == Headers(kind, meta.outer)[i]
       IN /\ segs'[1].cells[i] = H(h)
          /\ h \notin {"oip", "geneve"} =>
               offs'[h] = [pkt |-> i - 1, seg |-> 0, pos |-> i - 1]
  /\ segs' \in Seq(Segment) /\ Len(segs') # 0
  /\ Flat(segs') = HeaderCells(kind, meta.outer) \o BodyCells(body.len)
  /\ Len(segs'[1].cells) >= NewLen
  /\ DOMAIN body' = {"pkt", "seg", "off", "len"}
  /\ body'.pkt = NewLen /\ body'.len = body.len
  /\ Placed(Held(segs'), NewLen, body'.seg, body'.off)

(* What the invariant says of a packet that is about to be emitted.        *)
LEMMA BeforeEmission ==
  ASSUME PInv, SumsOK, phase \in {"transformed", "rewritten"}
  PROVE  /\ kind \in Kinds /\ IsChain /\ IsWire(wire) /\ Counts(kind, wire)
         /\ DOMAIN meta = {"outer", "addr", "port", "ipCsum", "csum"}
         /\ meta.outer \in BOOLEAN /\ meta.addr \in Addrs /\ meta.port \in Ports
         /\ DOMAIN body = {"pkt", "seg", "off", "len"}
         /\ was.outer \in BOOLEAN /\ Packed(was.outer, body.len)
         /\ body.len \in 0..MaxBody /\ body.len \in Nat /\ body.len = was.body.len
         /\ AllBody
         /\ OldLen = Len(Headers(kind, was.outer)) /\ OldLen \in 2..6
         /\ NewLen \in 2..6
         /\ NewLen = Depth(meta.outer) + Count(kind)
         /\ IsPlace(OldLen, body.seg, body.off)
         /\ Len(segs[1].cells) >= OldLen \/ was.spanned
         /\ was.segs = Len(segs)
         /\ kind.ulp # "echo" /\ meta.csum # 0 => bodyCsum \in Nat
<1>1. /\ Noted /\ Packed(Outer, body.len) /\ body.pkt = Len(Headers(kind, Outer))
      /\ IsPlace(body.pkt, body.seg, body.off) /\ body.len = was.body.len
  BY DEF PInv, InsideOK, InEngine
<1>2. Outer = was.outer /\ meta.outer \in BOOLEAN /\ was.outer \in BOOLEAN
  BY <1>1 DEF Outer, Noted
<1>3. kind \in Kinds /\ IsChain /\ IsWire(wire) /\ Counts(kind, wire)
  BY DEF PInv, Shaped
<1>4. /\ Len(Headers(kind, was.outer)) \in 2..6
      /\ NewLen \in 2..6 /\ NewLen = Depth(meta.outer) + Count(kind)
  BY <1>2, <1>3, HeaderFacts, HeaderCellsType DEF NewLen
<1>5. /\ body.len \in 0..MaxBody /\ body.len \in Nat
      /\ AllBody
  BY <1>1, WordsAssumption DEF Packed, AllBody
<1>6. OldLen = body.pkt
  BY DEF OldLen
<1>7. Len(segs[1].cells) >= OldLen \/ was.spanned
  BY <1>6 DEF PInv, FrontOK
<1>8. was.segs = Len(segs)
  BY DEF PInv, FrontOK
<1>9. kind.ulp # "echo" /\ meta.csum # 0 => bodyCsum \in Nat
  BY DEF SumsOK, InEngine
<1>10. OldLen = Len(Headers(kind, was.outer)) /\ IsPlace(OldLen, body.seg, body.off)
       /\ Packed(was.outer, body.len)
  BY <1>1, <1>2, <1>6
<1>11. QED
  BY <1>1, <1>2, <1>3, <1>4, <1>5, <1>7, <1>8, <1>9, <1>10 DEF Noted

(* A header is in one place of a packet only.                              *)
LEMMA OneOfEach ==
  ASSUME NEW k \in Kinds, NEW outer \in BOOLEAN, NEW n \in Nat,
         NEW i \in 1..Len(Headers(k, outer))
  PROVE  LET cells == HeaderCells(k, outer) \o BodyCells(n)
         IN (CHOOSE j \in DOMAIN cells : cells[j] = H(Headers(k, outer)[i])) = i
<1> DEFINE hs == Headers(k, outer)
           m == Len(hs)
           cells == HeaderCells(k, outer) \o BodyCells(n)
<1>1. /\ DOMAIN hs = 1..m /\ m \in 2..6 /\ hs \in Seq(Names)
  BY HeaderFacts
<1>2. /\ cells \in Seq(Cell) /\ Len(cells) = m + n
      /\ \A j \in 1..m : cells[j] = H(hs[j])
      /\ \A j \in 1..n : cells[m + j] = <<"body", j>>
  BY WholeCells
<1>3. \A j \in 1..m : hs[j] = hs[i] => j = i
  BY <1>1, HeadersDiffer
<1>4. hs[i] \in Names /\ hs[i] # "body"
  <2>1. hs[i] \in Names
    BY <1>1, ElementOfSeq
  <2>2. QED
    BY <2>1 DEF Names
<1> HIDE DEF hs, cells, m
<1>5. i \in 1..m
  BY DEF m, hs
<1>6. DOMAIN cells = 1..(m + n)
  BY <1>2
<1>7. ASSUME NEW j \in DOMAIN cells, cells[j] = H(hs[i])
      PROVE  j = i
  <2>1. CASE j <= m
    <3>1. j \in 1..m
      BY <1>1, <1>6, <2>1
    <3>2. H(hs[j]) = H(hs[i])
      BY <1>2, <1>7, <3>1
    <3>3. hs[j] = hs[i]
      BY <3>2 DEF H
    <3>4. QED
      BY <1>3, <3>1, <3>3
  <2>2. CASE j > m
    <3>1. j - m \in 1..n /\ m + (j - m) = j
      BY <1>1, <1>6, <2>2
    <3>2. cells[j] = <<"body", j - m>>
      BY <1>2, <3>1
    <3>3. hs[i] = "body"
      BY <1>7, <3>2 DEF H
    <3>4. QED
      BY <1>4, <3>3
  <2>3. QED
    BY <1>1, <1>6, <2>1, <2>2
<1>8. i \in DOMAIN cells /\ cells[i] = H(hs[i])
  BY <1>1, <1>2, <1>5, <1>6
<1>9. (CHOOSE j \in DOMAIN cells : cells[j] = H(hs[i])) = i
  BY <1>7, <1>8
<1>10. QED
  BY <1>9 DEF cells, hs

LEMMA EmittedPInv ==
  ASSUME PInv, SumsOK, Emitted
  PROVE  PInv'
<1>1. /\ kind \in Kinds /\ IsWire(wire) /\ Counts(kind, wire)
      /\ DOMAIN meta = {"outer", "addr", "port", "ipCsum", "csum"}
      /\ meta.outer \in BOOLEAN /\ meta.addr \in Addrs /\ meta.port \in Ports
      /\ body.len \in 0..MaxBody /\ body.len \in Nat /\ body.len = was.body.len
      /\ kind.ulp # "echo" /\ meta.csum # 0 => bodyCsum \in Nat
      /\ AllBody
      /\ Packed(was.outer, body.len)
  BY BeforeEmission DEF Emitted
<1>2. /\ IsWire(Updated) /\ Counts(kind, Updated) /\ Updated.data = wire.data
  BY <1>1, UpdatedIsWire
<1>3. /\ phase' = "emitted" /\ kind' = kind /\ was' = was /\ wire' = Updated
      /\ segs' \in Seq(Segment) /\ Len(segs') # 0
      /\ Flat(segs') = HeaderCells(kind, meta.outer) \o BodyCells(body.len)
      /\ Len(segs'[1].cells) >= NewLen
      /\ DOMAIN body' = {"pkt", "seg", "off", "len"}
      /\ body'.pkt = NewLen /\ body'.len = body.len
      /\ Placed(Held(segs'), NewLen, body'.seg, body'.off)
  BY DEF Emitted
<1>4. /\ DOMAIN meta' = DOMAIN meta /\ meta'.outer = meta.outer
      /\ meta'.addr = meta.addr /\ meta'.port = meta.port
  BY <1>1 DEF Emitted
<1>5. Shaped'
  <2>1. IsWire(wire') /\ Counts(kind', wire')
    BY <1>2, <1>3
  <2>2. QED
    BY <1>1, <1>3, <2>1 DEF Shaped, IsChain
<1>6. Outer' = meta.outer
  BY <1>3, <1>4 DEF Outer
<1>7. Noted'
  BY <1>1, <1>3, <1>4, <1>6 DEF Noted
<1>8. Packed(Outer, body.len)'
  <2>1. Len(wire'.data) = IF kind.ulp = "echo" THEN body.len - 1 ELSE body.len
    BY <1>1, <1>2, <1>3 DEF Packed
  <2>2. QED
    BY <1>1, <1>3, <1>6, <2>1 DEF Packed
<1>9. (body.pkt = Len(Headers(kind, Outer)))'
  BY <1>3, <1>6 DEF NewLen
<1>10. IsPlace(body.pkt, body.seg, body.off)'
  <2>1. IsChain'
    BY <1>5 DEF Shaped
  <2>2. Placed(Held(segs'), body'.pkt, body'.seg, body'.off)
    BY <1>3
  <2>3. /\ Len(segs') \in Nat /\ Len(Held(segs')) = Len(segs')
        /\ \A i \in 1..Len(segs') : Held(segs')[i] = segs'[i].cells
    BY <1>3, HeldType, LenProperties
  <2>4. body'.seg \in 0..(Len(segs') - 1)
    BY <2>2, <2>3 DEF Placed
  <2>5. body'.seg + 1 \in 1..Len(segs')
    BY <2>3, <2>4
  <2>6. Held(segs')[body'.seg + 1] = segs'[body'.seg + 1].cells
    BY <2>3, <2>5
  <2>7. QED
    BY <2>2, <2>4, <2>6 DEF Placed, IsPlace
<1>11. Located'
  <2>1. SUFFICES ASSUME NEW h \in Range(Inner(kind))
                 PROVE  CellAt(offs[h])' = H(h) /\ Flat(segs')[offs'[h].pkt + 1] = H(h)
    BY <1>3 DEF Located
  <2> DEFINE hs == Headers(kind, meta.outer)
  <2>2. PICK i \in DOMAIN hs : hs[i] = h
    BY <1>1, InnerIsThere
  <2>3. h \notin {"oip", "geneve"}
    <3>1. h \in {"ether", "ip", "tcp", "udp"}
      BY <1>1, InnerIsThere
    <3>2. QED
      BY <3>1
  <2>4. i \in 1..NewLen /\ NewLen \in Nat
    BY <1>1, HeaderFacts DEF NewLen
  <2>5. /\ segs'[1].cells[i] = H(h)
        /\ offs'[h] = [pkt |-> i - 1, seg |-> 0, pos |-> i - 1]
    BY <2>2, <2>3, <2>4 DEF Emitted
  <2>6. Flat(segs')[i] = H(h)
    <3>1. (HeaderCells(kind, meta.outer) \o BodyCells(body.len))[i] = H(hs[i])
      BY <1>1, <2>4, WholeCells DEF NewLen
    <3>2. QED
      BY <1>3, <2>2, <3>1
  <2>7. (i - 1) + 1 = i /\ 0 + 1 = 1
    BY <2>4
  <2>8. CellAt(offs[h])' = segs'[1].cells[i]
    BY <2>5, <2>7 DEF CellAt
  <2>9. QED
    BY <2>5, <2>6, <2>7, <2>8
<1>12. InsideOK'
  BY <1>1, <1>3, <1>7, <1>8, <1>9, <1>10, <1>11 DEF InsideOK
<1>13. FrontOK' /\ OutsideOK'
  BY <1>3 DEF FrontOK, WellShapedSurvives, OutsideOK
<1>14. QED
  BY <1>5, <1>12, <1>13 DEF PInv

LEMMA EmittedSums ==
  ASSUME PInv, SumsOK, Emitted
  PROVE  SumsOK' /\ ChecksumsFollow'
<1>1. /\ kind \in Kinds /\ IsWire(wire) /\ Counts(kind, wire)
      /\ DOMAIN meta = {"outer", "addr", "port", "ipCsum", "csum"}
      /\ meta.outer \in BOOLEAN /\ meta.addr \in Addrs /\ meta.port \in Ports
      /\ body.len \in 0..MaxBody
      /\ AllBody
      /\ kind.ulp # "echo" /\ meta.csum # 0 => bodyCsum \in Nat
  BY BeforeEmission DEF Emitted
<1>2. /\ IsWire(Updated) /\ Counts(kind, Updated) /\ Updated.data = wire.data
      /\ meta.ipCsum = 0 => Updated.ipCsum = wire.ipCsum
      /\ meta.ipCsum # 0 => IpSumsUp(Updated)
      /\ kind.ulp = "echo" \/ meta.csum = 0 => Updated.csum = wire.csum
      /\ kind.ulp # "echo" /\ meta.csum # 0 => Completes(bodyCsum, kind, Updated)
  BY <1>1, UpdatedIsWire
<1>3. /\ phase \in {"transformed", "rewritten"}
      /\ phase' = "emitted" /\ kind' = kind /\ was' = was /\ bodyCsum' = bodyCsum
      /\ wire' = Updated
  BY DEF Emitted
<1>4. meta'.csum = Updated.csum /\ meta'.ipCsum = Updated.ipCsum
  <2>1. meta' = [meta EXCEPT !.csum = Updated.csum, !.ipCsum = Updated.ipCsum]
    BY DEF Emitted
  <2>2. QED
    BY <1>1, <2>1
<1>5. /\ wire.ipCsum = was.wire.ipCsum /\ meta.ipCsum = wire.ipCsum
      /\ kind.ulp # "echo" => wire = was.wire /\ meta.csum = wire.csum
      /\ kind.ulp # "echo" /\ wire.csum # 0 =>
           bodyCsum \in Nat /\ Completes(bodyCsum, kind, wire)
  BY <1>3 DEF SumsOK, InEngine
<1>6. SumsOK'
  <2>1. ASSUME kind.ulp # "echo", Updated.csum # 0
        PROVE  bodyCsum \in Nat /\ Completes(bodyCsum, kind, Updated)
    <3>1. meta.csum # 0
      BY <1>2, <1>5, <2>1
    <3>2. QED
      BY <1>1, <1>2, <2>1, <3>1
  <2>2. QED
    BY <1>3, <1>4, <2>1 DEF SumsOK, Completes, PseudoSum, UlpSum
<1>7. ASSUME kind.ulp # "echo"
      PROVE  IF was.wire.csum = 0 THEN Updated.csum = 0
             ELSE kind.ip = 4 \/ Updated.ipLen = was.wire.ipLen =>
                    (UlpSumsUp(kind, Updated) <=> UlpSumsUp(kind, was.wire))
  <2>1. CASE was.wire.csum = 0
    <3>1. meta.csum = 0 /\ wire.csum = 0
      BY <1>5, <1>7, <2>1
    <3>2. QED
      BY <1>2, <2>1, <3>1
  <2>2. CASE was.wire.csum # 0
    <3>1. wire = was.wire /\ wire.csum # 0 /\ meta.csum # 0
      BY <1>5, <1>7, <2>2
    <3>2. bodyCsum \in Nat /\ Completes(bodyCsum, kind, wire)
      BY <1>5, <1>7, <3>1
    <3>3. Completes(bodyCsum, kind, Updated)
      BY <1>2, <1>7, <3>1
    <3>4. UlpSumsUp(kind, Updated) <=>
            Same((Total(Updated.data) - bodyCsum) + Short(kind, Updated), 0)
      BY <1>1, <1>2, <1>7, <3>2, <3>3, RightIfBodyIs
    <3>5. UlpSumsUp(kind, wire) <=>
            Same((Total(wire.data) - bodyCsum) + Short(kind, wire), 0)
      BY <1>1, <1>7, <3>2, RightIfBodyIs
    <3>6. ASSUME kind.ip = 4 \/ Updated.ipLen = wire.ipLen
          PROVE  Short(kind, Updated) = Short(kind, wire)
      <4>1. CASE Updated.ipLen = wire.ipLen
        BY <1>2, <4>1 DEF Short
      <4>2. CASE kind.ip = 4
        <5>1. Updated.ipLen = 2 + Len(wire.data) /\ wire.ipLen = 2 + Len(wire.data)
          BY <1>1, <1>2, <1>7, <4>2 DEF Counts
        <5>2. QED
          BY <1>2, <5>1 DEF Short
      <4>3. QED
        BY <3>6, <4>1, <4>2
    <3>7. ASSUME kind.ip = 4 \/ Updated.ipLen = wire.ipLen
          PROVE  UlpSumsUp(kind, Updated) <=> UlpSumsUp(kind, wire)
      BY <1>2, <3>4, <3>5, <3>6, <3>7
    <3>8. QED
      BY <2>2, <3>1, <3>7
  <2>3. QED
    BY <2>1, <2>2
<1>8. IF was.wire.ipCsum = 0 THEN Updated.ipCsum = 0 ELSE IpSumsUp(Updated)
  BY <1>2, <1>5
<1>9. ChecksumsFollow'
  <2> DEFINE u == Updated
  <2>1. /\ phase' = "emitted" /\ kind' = kind /\ was' = was /\ wire' = u
        /\ kind.ulp # "echo" =>
             IF was.wire.csum = 0 THEN u.csum = 0
             ELSE kind.ip = 4 \/ u.ipLen = was.wire.ipLen =>
                    (UlpSumsUp(kind, u) <=> UlpSumsUp(kind, was.wire))
        /\ IF was.wire.ipCsum = 0 THEN u.ipCsum = 0 ELSE IpSumsUp(u)
    BY <1>3, <1>7, <1>8
  <2> HIDE DEF u
  <2>2. QED
    BY <2>1
       DEF ChecksumsFollow, UlpSumsUp, ReceivedPseudo, UlpWords, SumsUp, IpSumsUp, IpWords
<1>10. QED
  BY <1>6, <1>9

LEMMA EmittedLengths ==
  ASSUME PInv, SumsOK, Emitted
  PROVE  LengthsAgree'
<1>1. /\ kind \in Kinds /\ IsWire(wire) /\ Counts(kind, wire)
      /\ meta.outer \in BOOLEAN /\ meta.addr \in Addrs /\ meta.port \in Ports
      /\ DOMAIN meta = {"outer", "addr", "port", "ipCsum", "csum"}
      /\ body.len \in 0..MaxBody /\ body.len \in Nat
      /\ AllBody
      /\ kind.ulp # "echo" /\ meta.csum # 0 => bodyCsum \in Nat
      /\ NewLen = Depth(meta.outer) + Count(kind)
  BY BeforeEmission DEF Emitted
<1>2. /\ Updated.ipLen = Count(kind) + body.len - 1
      /\ kind.ulp = "udp" => Updated.udpLen = body.len + 1
      /\ meta.outer => Updated.geneveLen = NewPktLen - 2
  BY <1>1, UpdatedIsWire
<1> DEFINE hs == Headers(kind, meta.outer)
           cells == HeaderCells(kind, meta.outer) \o BodyCells(body.len)
           s == Depth(meta.outer)
           after == [h \in Range(hs) |->
                       Len(cells) - (CHOOSE i \in DOMAIN cells : cells[i] = H(h)) + 1]
<1>3. /\ DOMAIN hs = 1..Len(hs) /\ Len(hs) = s + Count(kind) /\ s \in Nat
      /\ Count(kind) \in 2..3 /\ hs[s + 2] = "ip"
      /\ kind.ulp # "echo" => hs[s + 3] = kind.ulp /\ Count(kind) = 3
      /\ meta.outer => hs[3] = "geneve" /\ s = 3
  <2>1. Count(kind) \in 2..3 /\ (kind.ulp # "echo" => Count(kind) = 3)
    BY DEF Count
  <2>2. s \in Nat /\ (meta.outer => s = 3)
    BY <1>1 DEF Depth
  <2>3. /\ DOMAIN hs = 1..Len(hs) /\ Len(hs) = s + Count(kind)
        /\ hs[s + 2] = "ip"
        /\ kind.ulp # "echo" => hs[s + 3] = kind.ulp
        /\ meta.outer => hs[3] = "geneve"
    BY <1>1, HeaderFacts
  <2>4. QED
    BY <2>1, <2>2, <2>3
<1>4. Len(cells) = Len(hs) + body.len
  <2>1. kind \in Kinds /\ meta.outer \in BOOLEAN /\ body.len \in Nat
    BY <1>1
  <2>2. \A n \in Nat : Len(HeaderCells(kind, meta.outer) \o BodyCells(n)) =
                         Len(Headers(kind, meta.outer)) + n
    BY <2>1, WholeCells
  <2>3. QED
    BY <2>1, <2>2
<1>5. \A i \in 1..Len(hs) :
        hs[i] \in Range(hs) /\ after[hs[i]] = Len(cells) - i + 1
  <2>1. SUFFICES ASSUME NEW i \in 1..Len(hs)
                 PROVE  hs[i] \in Range(hs) /\ after[hs[i]] = Len(cells) - i + 1
    OBVIOUS
  <2>2. (CHOOSE j \in DOMAIN cells : cells[j] = H(hs[i])) = i
    BY <1>1, OneOfEach
  <2>3. hs[i] \in Range(hs)
    BY <1>3 DEF Range
  <2> HIDE DEF cells, hs
  <2>4. QED
    BY <2>2, <2>3
<1> HIDE DEF hs, cells, s, after
<1>6. after["ip"] = Updated.ipLen
  <2>1. s + 2 \in 1..Len(hs)
    BY <1>3
  <2>2. after["ip"] = Len(cells) - (s + 2) + 1
    BY <1>3, <1>5, <2>1
  <2>3. QED
    BY <1>1, <1>2, <1>3, <1>4, <2>2
<1>7. ASSUME kind.ulp = "udp" PROVE after["udp"] = Updated.udpLen
  <2>1. s + 3 \in 1..Len(hs) /\ hs[s + 3] = "udp" /\ Count(kind) = 3
    BY <1>3, <1>7
  <2>2. after["udp"] = Len(cells) - (s + 3) + 1
    BY <1>5, <2>1
  <2>3. QED
    BY <1>1, <1>2, <1>3, <1>4, <1>7, <2>1, <2>2
<1>8. ASSUME meta.outer PROVE after["geneve"] = Updated.geneveLen
  <2>1. 3 \in 1..Len(hs) /\ hs[3] = "geneve"
    BY <1>3, <1>8
  <2>2. after["geneve"] = Len(cells) - 3 + 1
    BY <1>5, <2>1
  <2>3. NewPktLen = Len(hs) + body.len
    BY DEF NewPktLen, NewLen, hs
  <2>4. QED
    BY <1>1, <1>2, <1>3, <1>4, <1>8, <2>2, <2>3
<1>9. /\ kind' = kind /\ wire' = Updated /\ meta'.outer = meta.outer /\ Flat(segs') = cells
  BY <1>1 DEF Emitted, cells
<1>10. QED
  BY <1>6, <1>7, <1>8, <1>9 DEF LengthsAgree, after, hs

(* hdr_seg() has left a chain and a place of the body: the headers go over *)
(* its front.                                                              *)
Covered(chain) ==
  [Held(chain) EXCEPT
     ![1] = HeaderCells(kind, meta.outer) \o Drop(chain[1].cells, NewLen)]

LEMMA EmitIntoEmits ==
  ASSUME PInv, SumsOK, phase \in {"transformed", "rewritten"},
         NEW chain \in Seq(Segment), Len(chain) # 0, NEW b, EmitInto(chain, b),
         Len(chain[1].cells) >= NewLen,
         FlattenSeq(Covered(chain)) =
           HeaderCells(kind, meta.outer) \o BodyCells(body.len),
         DOMAIN b = {"pkt", "seg", "off", "len"}, b.len = body.len,
         Placed(Covered(chain), NewLen, b.seg, b.off)
  PROVE  Emitted
<1> DEFINE hs == Headers(kind, meta.outer)
           front == HeaderCells(kind, meta.outer)
           c == chain[1].cells
           d == Drop(c, NewLen)
           e == front \o d
           new == [chain[1] EXCEPT !.cells = e]
<1>1. /\ kind \in Kinds /\ meta.outer \in BOOLEAN /\ NewLen \in 2..6
      /\ DOMAIN hs = 1..NewLen
  <2>1. kind \in Kinds /\ meta.outer \in BOOLEAN /\ NewLen \in 2..6
    BY BeforeEmission
  <2>2. DOMAIN hs = 1..NewLen
    BY <2>1, HeaderFacts DEF NewLen
  <2>3. QED
    BY <2>1, <2>2
<1>2. /\ Len(chain) \in Nat /\ 1 \in 1..Len(chain) /\ chain[1] \in Segment
      /\ c \in Seq(Cell) /\ Len(c) \in Nat /\ NewLen \in 0..Len(c)
  <2>1. Len(chain) \in Nat /\ 1 \in 1..Len(chain)
    BY LenProperties
  <2>2. chain[1] \in Segment
    BY <2>1, ElementOfSeq
  <2>3. c \in Seq(Cell)
    BY <2>2 DEF Segment
  <2>4. Len(c) \in Nat
    BY <2>3, LenProperties
  <2>5. QED
    BY <1>1, <2>1, <2>2, <2>3, <2>4
<1>3. /\ front \in Seq(Cell) /\ Len(front) = NewLen
      /\ \A i \in 1..NewLen : front[i] = H(hs[i])
  BY <1>1, HeaderCellsType DEF NewLen
<1>4. d \in Seq(Cell)
  <2> HIDE DEF c
  <2>1. QED
    BY <1>2, DropProperties
<1>5. ~(Len(chain[1].cells) < NewLen)
  <2>1. Len(chain[1].cells) \in Nat
    BY <1>2
  <2>2. QED
    BY <1>1, <2>1
<1>6. /\ segs' = [chain EXCEPT ![1].cells =
                    front \o SubSeq(@, NewLen + 1, Len(@))]
      /\ wire' = Updated
      /\ meta' = [meta EXCEPT !.csum = Updated.csum, !.ipCsum = Updated.ipCsum]
      /\ offs' = [h \in Range(hs) \ {"geneve"} |->
                    LET i == CHOOSE i \in DOMAIN hs :
                               hs[i] = IF h = "oip" THEN "geneve" ELSE h
                    IN [pkt |-> i - 1, seg |-> 0, pos |-> i - 1]]
      /\ body' = [b EXCEPT !.pkt = NewLen]
      /\ phase' = "emitted"
      /\ UNCHANGED <<kind, bodyCsum, was>>
  BY <1>5, Zenon DEF EmitInto, Updated
<1>7. segs' = [chain EXCEPT ![1] = new]
  BY <1>2, <1>6 DEF Drop
<1> HIDE DEF d, c, front, hs
<1>8. e \in Seq(Cell) /\ Len(e) = NewLen + Len(d)
      /\ \A i \in 1..NewLen : e[i] = front[i]
  BY <1>1, <1>3, <1>4, ConcatProperties
<1> HIDE DEF e
<1>9. new \in Segment /\ new.cells = e
  BY <1>2, <1>8 DEF Segment
<1> HIDE DEF new
<1>10. /\ segs' \in Seq(Segment) /\ Len(segs') = Len(chain) /\ segs'[1] = new
       /\ \A i \in 1..Len(chain) : segs'[i] = IF i = 1 THEN new ELSE chain[i]
  BY <1>2, <1>7, <1>9, ExceptSeq
<1>11. Held(segs') = Covered(chain)
  <2>1. DOMAIN segs' = 1..Len(chain) /\ DOMAIN chain = 1..Len(chain)
    BY <1>2, <1>10
  <2>2. Covered(chain) = [Held(chain) EXCEPT ![1] = e]
    BY DEF Covered, e, front, d, c
  <2>3. QED
    BY <1>9, <1>10, <2>1, <2>2 DEF Held
<1>12. Flat(segs') = HeaderCells(kind, meta.outer) \o BodyCells(body.len)
  BY <1>10, <1>11, HeldType
<1>13. Len(segs'[1].cells) >= NewLen
  <2>1. Len(d) \in Nat
    BY <1>4, LenProperties
  <2>2. QED
    BY <1>1, <1>8, <1>9, <1>10, <2>1
<1>14. \A i \in 1..NewLen :
         /\ segs'[1].cells[i] = H(hs[i])
         /\ hs[i] \notin {"oip", "geneve"} =>
              offs'[hs[i]] = [pkt |-> i - 1, seg |-> 0, pos |-> i - 1]
  <2>1. SUFFICES ASSUME NEW i \in 1..NewLen
                 PROVE  /\ segs'[1].cells[i] = H(hs[i])
                        /\ hs[i] \notin {"oip", "geneve"} =>
                             offs'[hs[i]] = [pkt |-> i - 1, seg |-> 0, pos |-> i - 1]
    OBVIOUS
  <2>2. segs'[1].cells[i] = H(hs[i])
    BY <1>3, <1>8, <1>9, <1>10
  <2>3. ASSUME hs[i] \notin {"oip", "geneve"}
        PROVE  offs'[hs[i]] = [pkt |-> i - 1, seg |-> 0, pos |-> i - 1]
    <3> DEFINE h == hs[i]
    <3>1. h \in Range(hs) \ {"geneve"}
      BY <1>1, <2>3 DEF Range
    <3>2. \A j \in DOMAIN hs : hs[j] = hs[i] => j = i
      BY <1>1, HeadersDiffer DEF hs
    <3>3. (CHOOSE j \in DOMAIN hs : hs[j] = IF h = "oip" THEN "geneve" ELSE h) = i
      BY <1>1, <2>3, <3>2
    <3> HIDE DEF h
    <3>4. offs'[h] = [pkt |-> i - 1, seg |-> 0, pos |-> i - 1]
      BY <1>6, <3>1, <3>3
    <3>5. QED
      BY <3>4 DEF h
  <2>4. QED
    BY <2>2, <2>3
<1>15. /\ DOMAIN body' = {"pkt", "seg", "off", "len"} /\ body'.pkt = NewLen
       /\ body'.len = body.len /\ body'.seg = b.seg /\ body'.off = b.off
  BY <1>6
<1>16. Placed(Held(segs'), NewLen, body'.seg, body'.off)
  BY <1>11, <1>15
<1>17. Len(segs') # 0
  BY <1>10
<1>18. QED
  BY <1>6, <1>10, <1>12, <1>13, <1>14, <1>15, <1>16, <1>17 DEF Emitted, hs

IInv == PInv /\ SumsOK /\ ChecksumsFollow /\ LengthsAgree

(* A packet that is not emitted has nothing to show yet.                   *)
LEMMA EndsSums ==
  ASSUME NEW how \in {"dropped", "refused", "unwritten", "panicked"}, Ends(how)
  PROVE  SumsOK' /\ ChecksumsFollow' /\ LengthsAgree'
BY DEF Ends, SumsOK, InEngine, ChecksumsFollow, LengthsAgree

LEMMA EmissionEnds ==
  ASSUME IInv, phase \in {"transformed", "rewritten"},
         NEW how \in {"unwritten", "panicked"}, Ends(how),
         was.spanned \/ (how = "panicked" /\ was.segs = MaxSegs)
  PROVE  IInv'
<1>1. PInv'
  BY DEF IInv, PInv, Shaped, IsChain, OutsideOK, InsideOK, InEngine, FrontOK,
         WellShapedSurvives, Ends, IsWire, Counts
<1>2. QED
  BY <1>1, EndsSums DEF IInv

LEMMA EmittedIInv ==
  ASSUME IInv, Emitted
  PROVE  IInv'
BY EmittedPInv, EmittedSums, EmittedLengths DEF IInv

(* The chain as hdr_seg() finds it.                                        *)
LEMMA ChainBefore ==
  ASSUME IInv, phase \in {"transformed", "rewritten"}
  PROVE  /\ Held(segs) \in Seq(Seq(Cell)) /\ Len(Held(segs)) = Len(segs)
         /\ Len(segs) \in Nat /\ Len(segs) # 0 /\ segs \in Seq(Segment)
         /\ 1 \in 1..Len(segs) /\ segs[1] \in Segment
         /\ Held(segs)[1] = segs[1].cells /\ segs[1].cells \in Seq(Cell)
         /\ Len(segs[1].cells) \in Nat /\ segs[1].room \in Nat
         /\ OldLen \in Nat /\ NewLen \in Nat
         /\ Len(segs[1].cells) < OldLen => was.spanned
         /\ body.seg = 0 => body.off = OldLen
         /\ HeaderCells(kind, was.outer) \in Seq(Cell)
         /\ Len(HeaderCells(kind, was.outer)) = OldLen
         /\ HeaderCells(kind, meta.outer) \in Seq(Cell)
         /\ Len(HeaderCells(kind, meta.outer)) = NewLen
         /\ BodyCells(body.len) \in Seq(Cell)
         /\ FlattenSeq(Held(segs)) =
              HeaderCells(kind, was.outer) \o BodyCells(body.len)
         /\ Placed(Held(segs), OldLen, body.seg, body.off)
         /\ body.seg \in Nat
<1>1. /\ kind \in Kinds /\ IsChain
      /\ meta.outer \in BOOLEAN /\ was.outer \in BOOLEAN
      /\ Packed(was.outer, body.len) /\ body.len \in Nat
      /\ OldLen = Len(Headers(kind, was.outer)) /\ OldLen \in 2..6 /\ NewLen \in 2..6
      /\ IsPlace(OldLen, body.seg, body.off)
      /\ Len(segs[1].cells) >= OldLen \/ was.spanned
  BY BeforeEmission DEF IInv
<1>2. /\ segs \in Seq(Segment) /\ Len(segs) \in Nat /\ Len(segs) # 0
      /\ 1 \in 1..Len(segs)
  BY <1>1, LenProperties DEF IsChain
<1>3. segs[1] \in Segment
  BY <1>2, ElementOfSeq
<1>4. segs[1].cells \in Seq(Cell) /\ segs[1].room \in Nat
  BY <1>3 DEF Segment
<1>5. Len(segs[1].cells) \in Nat
  BY <1>4, LenProperties
<1>6. /\ Held(segs) \in Seq(Seq(Cell)) /\ Len(Held(segs)) = Len(segs)
      /\ Held(segs)[1] = segs[1].cells
      /\ FlattenSeq(Held(segs)) = HeaderCells(kind, was.outer) \o BodyCells(body.len)
  <2>1. Flat(segs) = HeaderCells(kind, was.outer) \o BodyCells(body.len)
    BY <1>1 DEF Packed
  <2>2. QED
    BY <1>2, <2>1, HeldType
<1>7. body.seg = 0 => body.off = OldLen
  <2>1. Pre(Held(segs), 0) = <<>>
    BY PreNone
  <2>2. OldLen = body.off + Len(Pre(Held(segs), body.seg)) /\ body.off \in Nat
    BY <1>1, PlaceType
  <2>3. QED
    BY <2>1, <2>2
<1>8. /\ HeaderCells(kind, was.outer) \in Seq(Cell)
      /\ Len(HeaderCells(kind, was.outer)) = OldLen
      /\ HeaderCells(kind, meta.outer) \in Seq(Cell)
      /\ Len(HeaderCells(kind, meta.outer)) = NewLen
  BY <1>1, HeaderCellsType DEF NewLen
<1>9. BodyCells(body.len) \in Seq(Cell)
  BY <1>1, BodyCellsType
<1>10. Placed(Held(segs), OldLen, body.seg, body.off) /\ body.seg \in Nat
  BY <1>1, PlacedIsPlace, PlaceType
<1>11. OldLen \in Nat /\ NewLen \in Nat
  BY <1>1
<1>12. Len(segs[1].cells) < OldLen => was.spanned
  BY <1>1, <1>5, <1>11
<1>13. QED
  BY <1>2, <1>3, <1>4, <1>5, <1>6, <1>7, <1>8, <1>9, <1>10, <1>11, <1>12

(* Other cells take the place of the old headers.                          *)
LEMMA FrontOfChain ==
  ASSUME IInv, phase \in {"transformed", "rewritten"}, Len(segs[1].cells) >= OldLen,
         NEW x \in Seq(Cell)
  PROVE  /\ Replaced(Held(segs), OldLen, x) \in Seq(Seq(Cell))
         /\ Len(Replaced(Held(segs), OldLen, x)) = Len(segs)
         /\ FlattenSeq(Replaced(Held(segs), OldLen, x)) = x \o BodyCells(body.len)
         /\ Placed(Replaced(Held(segs), OldLen, x), Len(x), body.seg,
                   IF body.seg = 0 THEN Len(x) ELSE body.off)
<1>0. \A v \in Seq(Seq(Cell)), o \in Seq(Cell), d \in Seq(Cell), y \in Seq(Cell) :
        \A seg, off :
          /\ Len(v) # 0 /\ FlattenSeq(v) = o \o d /\ Len(o) <= Len(v[1])
          /\ Placed(v, Len(o), seg, off)
          => /\ Replaced(v, Len(o), y) \in Seq(Seq(Cell))
             /\ Len(Replaced(v, Len(o), y)) = Len(v)
             /\ FlattenSeq(Replaced(v, Len(o), y)) = y \o d
             /\ Placed(Replaced(v, Len(o), y), Len(y), seg,
                       IF seg = 0 THEN Len(y) ELSE off)
  BY FrontReplaced
<1> DEFINE q == Held(segs)
           old == HeaderCells(kind, was.outer)
           bc == BodyCells(body.len)
           seg == body.seg
           off == body.off
<1>1. /\ q \in Seq(Seq(Cell)) /\ Len(q) = Len(segs) /\ Len(q) # 0
      /\ Len(q[1]) \in Nat /\ OldLen \in Nat /\ q[1] = segs[1].cells
      /\ old \in Seq(Cell) /\ Len(old) = OldLen
      /\ bc \in Seq(Cell) /\ FlattenSeq(q) = old \o bc
      /\ Placed(q, OldLen, seg, off)
  BY ChainBefore
<1>2. Len(old) <= Len(q[1])
  BY <1>1
<1>3. /\ q \in Seq(Seq(Cell)) /\ old \in Seq(Cell) /\ bc \in Seq(Cell) /\ Len(q) # 0
      /\ FlattenSeq(q) = old \o bc /\ Placed(q, Len(old), seg, off)
  BY <1>1
<1> HIDE DEF q, old, bc, seg, off
<1>4. /\ Replaced(q, Len(old), x) \in Seq(Seq(Cell))
      /\ Len(Replaced(q, Len(old), x)) = Len(q)
      /\ FlattenSeq(Replaced(q, Len(old), x)) = x \o bc
      /\ Placed(Replaced(q, Len(old), x), Len(x), seg, IF seg = 0 THEN Len(x) ELSE off)
  BY <1>0, <1>2, <1>3
<1>5. QED
  BY <1>1, <1>4 DEF q, bc, seg, off

(* The first segment has grown or shrunk.                                  *)
LEMMA FrontResized ==
  ASSUME IInv, phase \in {"transformed", "rewritten"},
         NEW first \in Segment, NEW chain, chain = [segs EXCEPT ![1] = first],
         Len(first.cells) = Len(segs[1].cells) + NewLen - OldLen,
         Len(segs[1].cells) >= OldLen =>
           Drop(first.cells, NewLen) = Drop(segs[1].cells, OldLen),
         NEW b, EmitInto(chain, b),
         DOMAIN b = {"pkt", "seg", "off", "len"}, b.len = body.len, b.seg = body.seg,
         b.off = IF body.seg = 0 THEN NewLen ELSE body.off
  PROVE  IInv'
<1> DEFINE q == Held(segs)
           c == segs[1].cells
           old == HeaderCells(kind, was.outer)
           new == HeaderCells(kind, meta.outer)
           bc == BodyCells(body.len)
<1>1. /\ q \in Seq(Seq(Cell)) /\ Len(q) = Len(segs) /\ Len(q) # 0
      /\ segs \in Seq(Segment) /\ 1 \in 1..Len(segs)
      /\ q[1] = c /\ Len(c) \in Nat /\ OldLen \in Nat /\ NewLen \in Nat
      /\ Len(c) < OldLen => was.spanned
      /\ old \in Seq(Cell) /\ Len(old) = OldLen /\ new \in Seq(Cell) /\ Len(new) = NewLen
      /\ bc \in Seq(Cell) /\ FlattenSeq(q) = old \o bc
      /\ Placed(q, OldLen, body.seg, body.off) /\ body.seg \in Nat
  BY ChainBefore
<1>2. /\ chain \in Seq(Segment) /\ Len(chain) = Len(segs) /\ chain[1] = first
      /\ \A i \in 1..Len(segs) : chain[i] = IF i = 1 THEN first ELSE segs[i]
  BY <1>1, ExceptSeq
<1>3. CASE Len(chain[1].cells) < NewLen
  <2>1. Ends("unwritten")
    BY <1>3, Zenon DEF EmitInto
  <2>2. was.spanned
    BY <1>1, <1>2, <1>3
  <2>3. QED
    BY <2>1, <2>2, EmissionEnds
<1>4. CASE Len(chain[1].cells) >= NewLen
  <2>1. Len(c) >= OldLen
    BY <1>1, <1>2, <1>4
  <2>2. Drop(first.cells, NewLen) = Drop(c, OldLen)
    BY <2>1
  <2>3. Covered(chain) = Replaced(q, Len(old), new)
    <3>1. DOMAIN chain = 1..Len(segs) /\ DOMAIN segs = 1..Len(segs)
      BY <1>1, <1>2
    <3>2. new \o Drop(chain[1].cells, NewLen) = new \o Drop(q[1], Len(old))
      BY <1>1, <1>2, <2>2
    <3> DEFINE e == new \o Drop(q[1], Len(old))
    <3>3. Covered(chain) = [Held(chain) EXCEPT ![1] = e]
      BY <3>2 DEF Covered
    <3> HIDE DEF e, new, old, c
    <3>4. [Held(chain) EXCEPT ![1] = e] = [q EXCEPT ![1] = e]
      BY <1>2, <3>1 DEF Held
    <3>5. QED
      BY <3>3, <3>4 DEF e, Replaced
  <2> DEFINE pos == IF body.seg = 0 THEN NewLen ELSE body.off
  <2>4. /\ FlattenSeq(Covered(chain)) = new \o bc
        /\ Placed(Covered(chain), NewLen, body.seg, pos)
    <3>1. new \in Seq(Cell) /\ Len(new) = NewLen /\ Len(old) = OldLen
      BY <1>1
    <3> HIDE DEF new, old
    <3>2. /\ FlattenSeq(Replaced(q, OldLen, new)) = new \o bc
          /\ Placed(Replaced(q, OldLen, new), Len(new), body.seg,
                    IF body.seg = 0 THEN Len(new) ELSE body.off)
      BY <2>1, <3>1, FrontOfChain
    <3>3. QED
      BY <2>3, <3>1, <3>2
  <2>5. Placed(Covered(chain), NewLen, b.seg, b.off)
    BY <2>4
  <2>6. Emitted
    BY <1>1, <1>2, <1>4, <2>4, <2>5, EmitIntoEmits DEF IInv
  <2>7. QED
    BY <2>6, EmittedIInv
<1>5. Len(chain[1].cells) < NewLen \/ Len(chain[1].cells) >= NewLen
  BY <1>1, <1>2
<1>6. QED
  BY <1>3, <1>4, <1>5

LEMMA InFirstPlace ==
  ASSUME IInv, phase \in {"transformed", "rewritten"}, NEW off
  PROVE  LET b == InFirst(off)
         IN /\ DOMAIN b = {"pkt", "seg", "off", "len"} /\ b.len = body.len
            /\ b.seg = body.seg /\ b.off = IF body.seg = 0 THEN off ELSE body.off
<1>1. DOMAIN body = {"pkt", "seg", "off", "len"}
  BY BeforeEmission DEF IInv
<1>2. QED
  BY <1>1 DEF InFirst

LEMMA StaleCells ==
  ASSUME NEW n \in Nat
  PROVE  /\ [i \in 1..n |-> Stale] \in Seq(Cell)
         /\ Len([i \in 1..n |-> Stale]) = n
<1>1. Stale \in Cell
  BY DEF Stale, Cell
<1> HIDE DEF Stale, Cell
<1>2. QED
  BY <1>1

LEMMA EmitGrownIInv ==
  ASSUME IInv, phase \in {"transformed", "rewritten"}, EmitGrown
  PROVE  IInv'
<1> DEFINE c == segs[1].cells
           k == NewLen - OldLen
           st == [i \in 1..k |-> Stale]
           first == ExpandStart(segs[1], k)
           chain == [segs EXCEPT ![1] = first]
<1>1. /\ OldLen < NewLen /\ Fits
      /\ EmitInto([segs EXCEPT ![1] = ExpandStart(@, NewLen - OldLen)], InFirst(NewLen))
  BY DEF EmitGrown
<1>2. /\ segs \in Seq(Segment) /\ 1 \in 1..Len(segs) /\ segs[1].room \in Nat
      /\ c \in Seq(Cell) /\ Len(c) \in Nat /\ OldLen \in Nat /\ NewLen \in Nat
  BY ChainBefore
<1>3. EmitInto(chain, InFirst(NewLen))
  BY <1>1, <1>2
<1>4. k \in Nat /\ k + OldLen = NewLen /\ segs[1].room - k \in Nat
  BY <1>1, <1>2 DEF Fits
<1>5. st \in Seq(Cell) /\ Len(st) = k
  <2> HIDE DEF k
  <2>1. QED
    BY <1>4, StaleCells
<1>6. first = [room |-> segs[1].room - k, cells |-> st \o c]
  BY DEF ExpandStart
<1> HIDE DEF st, c, k
<1>7. st \o c \in Seq(Cell) /\ Len(st \o c) = k + Len(c)
  BY <1>2, <1>5, ConcatProperties
<1> HIDE DEF first
<1>8. first \in Segment /\ first.cells = st \o c
  BY <1>4, <1>6, <1>7 DEF Segment
<1>9. Len(first.cells) = Len(c) + NewLen - OldLen
  <2>1. Len(first.cells) = k + Len(c)
    BY <1>7, <1>8
  <2>2. Len(c) \in Nat /\ OldLen \in Nat /\ k \in Nat /\ NewLen = k + OldLen
    BY <1>2, <1>4
  <2>3. QED
    BY <2>1, <2>2
<1>10. ASSUME Len(c) >= OldLen
       PROVE  Drop(first.cells, NewLen) = Drop(c, OldLen)
  <2>1. OldLen \in 0..Len(c)
    BY <1>2, <1>10
  <2>2. Drop(st \o c, Len(st) + OldLen) = Drop(c, OldLen)
    BY <1>2, <1>5, <2>1, StaleDropped
  <2>3. QED
    BY <1>4, <1>5, <1>8, <2>2
<1>11. LET b == InFirst(NewLen)
       IN /\ DOMAIN b = {"pkt", "seg", "off", "len"} /\ b.len = body.len
          /\ b.seg = body.seg /\ b.off = IF body.seg = 0 THEN NewLen ELSE body.off
  BY InFirstPlace
<1> DEFINE b == InFirst(NewLen)
<1> HIDE DEF b, chain
<1>12. chain = [segs EXCEPT ![1] = first]
  BY DEF chain
<1>13. QED
  BY <1>3, <1>8, <1>9, <1>10, <1>11, <1>12, FrontResized DEF b, c

LEMMA EmitShrunkIInv ==
  ASSUME IInv, phase \in {"transformed", "rewritten"}, EmitShrunk
  PROVE  IInv'
<1> DEFINE c == segs[1].cells
           k == OldLen - NewLen
           first == ShrinkStart(segs[1], k)
           chain == [segs EXCEPT ![1] = first]
<1>1. /\ NewLen < OldLen /\ OldLen - NewLen <= Len(segs[1].cells)
      /\ EmitInto([segs EXCEPT ![1] = ShrinkStart(@, OldLen - NewLen)], InFirst(NewLen))
  BY DEF EmitShrunk
<1>2. /\ segs \in Seq(Segment) /\ 1 \in 1..Len(segs) /\ segs[1].room \in Nat
      /\ c \in Seq(Cell) /\ Len(c) \in Nat /\ OldLen \in Nat /\ NewLen \in Nat
  BY ChainBefore
<1>3. EmitInto(chain, InFirst(NewLen))
  BY <1>1, <1>2
<1>4. k \in 0..Len(c) /\ k + NewLen = OldLen /\ segs[1].room + k \in Nat
  BY <1>1, <1>2
<1>5. first = [room |-> segs[1].room + k, cells |-> Drop(c, k)]
  BY DEF ShrinkStart, Drop
<1> HIDE DEF c, k
<1>6. Drop(c, k) \in Seq(Cell) /\ Len(Drop(c, k)) = Len(c) - k
  BY <1>2, <1>4, DropProperties
<1> HIDE DEF first
<1>7. first \in Segment /\ first.cells = Drop(c, k)
  BY <1>4, <1>5, <1>6 DEF Segment
<1>8. Len(first.cells) = Len(c) + NewLen - OldLen
  <2>1. Len(first.cells) = Len(c) - k
    BY <1>6, <1>7
  <2>2. Len(c) \in Nat /\ NewLen \in Nat /\ k \in Int /\ OldLen = k + NewLen
    BY <1>2, <1>4
  <2>3. QED
    BY <2>1, <2>2
<1>9. ASSUME Len(c) >= OldLen
      PROVE  Drop(first.cells, NewLen) = Drop(c, OldLen)
  <2>1. NewLen \in 0..(Len(c) - k)
    BY <1>2, <1>4, <1>9
  <2>2. Drop(Drop(c, k), NewLen) = Drop(c, k + NewLen)
    BY <1>2, <1>4, <2>1, DropTwice
  <2>3. QED
    BY <1>4, <1>7, <2>2
<1>10. LET b == InFirst(NewLen)
       IN /\ DOMAIN b = {"pkt", "seg", "off", "len"} /\ b.len = body.len
          /\ b.seg = body.seg /\ b.off = IF body.seg = 0 THEN NewLen ELSE body.off
  BY InFirstPlace
<1> DEFINE b == InFirst(NewLen)
<1> HIDE DEF b, chain
<1>11. chain = [segs EXCEPT ![1] = first]
  BY DEF chain
<1>12. QED
  BY <1>3, <1>7, <1>8, <1>9, <1>10, <1>11, FrontResized DEF b, c

LEMMA EmitSameIInv ==
  ASSUME IInv, phase \in {"transformed", "rewritten"}, EmitSame
  PROVE  IInv'
<1>1. NewLen = OldLen /\ EmitInto(segs, body)
  BY DEF EmitSame
<1>2. /\ segs \in Seq(Segment) /\ 1 \in 1..Len(segs) /\ segs[1] \in Segment
      /\ segs[1].cells \in Seq(Cell) /\ Len(segs[1].cells) \in Nat
      /\ OldLen \in Nat /\ NewLen \in Nat /\ (body.seg = 0 => body.off = OldLen)
  BY ChainBefore
<1>3. DOMAIN body = {"pkt", "seg", "off", "len"}
  BY BeforeEmission DEF IInv
<1> DEFINE first == segs[1]
<1>4. segs = [segs EXCEPT ![1] = first]
  BY <1>2
<1>5. /\ Len(first.cells) = Len(segs[1].cells) + NewLen - OldLen
      /\ Drop(first.cells, NewLen) = Drop(segs[1].cells, OldLen)
  BY <1>1, <1>2
<1>6. body.off = IF body.seg = 0 THEN NewLen ELSE body.off
  BY <1>1, <1>2
<1> HIDE DEF first
<1>7. first \in Segment
  BY <1>2 DEF first
<1>8. QED
  BY <1>1, <1>3, <1>4, <1>5, <1>6, <1>7, FrontResized

LEMMA EmitPrependedIInv ==
  ASSUME IInv, phase \in {"transformed", "rewritten"}, EmitPrepended
  PROVE  IInv'
<1>0. \A v \in Seq(Seq(Cell)), x \in Seq(Cell) :
        /\ Cons(x, v) \in Seq(Seq(Cell))
        /\ Len(Cons(x, v)) = Len(v) + 1
        /\ Cons(x, v)[1] = x
        /\ \A i \in 1..Len(v) : Cons(x, v)[i + 1] = v[i]
        /\ \A m \in 0..Len(v) : Pre(Cons(x, v), m + 1) = x \o Pre(v, m)
        /\ FlattenSeq(Cons(x, v)) = x \o FlattenSeq(v)
  BY FlattenCons
<1> DEFINE c == segs[1].cells
           q == Held(segs)
           hc == HeaderCells(kind, meta.outer)
           bc == BodyCells(body.len)
           st == [i \in 1..NewLen |-> Stale]
           new == [room |-> 0, cells |-> st]
           first == ShrinkStart(segs[1], OldLen)
           rest == [segs EXCEPT ![1] = first]
           chain == <<new>> \o rest
           r == Replaced(q, OldLen, <<>>)
           b == [InFirst(0) EXCEPT !.seg = @ + 1]
           seg == body.seg
           pos == IF seg = 0 THEN 0 ELSE body.off
<1>1. ~PrependPanics /\ EmitInto(<<new>> \o [segs EXCEPT ![1] = ShrinkStart(@, OldLen)], b)
  BY DEF EmitPrepended
<1>2. /\ segs \in Seq(Segment) /\ 1 \in 1..Len(segs) /\ segs[1].room \in Nat
      /\ Len(segs) \in Nat
      /\ c \in Seq(Cell) /\ Len(c) \in Nat /\ OldLen \in Nat /\ NewLen \in Nat
      /\ hc \in Seq(Cell) /\ Len(hc) = NewLen /\ bc \in Seq(Cell) /\ seg \in Nat
      /\ q \in Seq(Seq(Cell)) /\ Len(q) = Len(segs) /\ q[1] = c
  BY ChainBefore
<1>3. Len(c) >= OldLen /\ OldLen \in 0..Len(c)
  BY <1>1, <1>2 DEF PrependPanics
<1>4. EmitInto(chain, b)
  BY <1>1, <1>2
<1>5. <<>> \in Seq(Cell) /\ Len(<<>>) = 0
  OBVIOUS
<1>6. /\ r \in Seq(Seq(Cell)) /\ Len(r) = Len(segs)
      /\ FlattenSeq(r) = <<>> \o bc /\ Placed(r, 0, seg, pos)
  <2>1. \A x \in Seq(Cell) :
          /\ Replaced(Held(segs), OldLen, x) \in Seq(Seq(Cell))
          /\ Len(Replaced(Held(segs), OldLen, x)) = Len(segs)
          /\ FlattenSeq(Replaced(Held(segs), OldLen, x)) = x \o BodyCells(body.len)
          /\ Placed(Replaced(Held(segs), OldLen, x), Len(x), body.seg,
                    IF body.seg = 0 THEN Len(x) ELSE body.off)
    BY <1>3, FrontOfChain
  <2>2. QED
    BY <1>5, <2>1
<1>7. /\ DOMAIN b = {"pkt", "seg", "off", "len"} /\ b.len = body.len
      /\ b.seg = seg + 1 /\ b.off = pos
  <2>1. LET f == InFirst(0)
        IN /\ DOMAIN f = {"pkt", "seg", "off", "len"} /\ f.len = body.len
           /\ f.seg = body.seg /\ f.off = IF body.seg = 0 THEN 0 ELSE body.off
    BY InFirstPlace
  <2>2. QED
    BY <2>1
<1>8. st \in Seq(Cell) /\ Len(st) = NewLen
  BY <1>2, StaleCells
<1>9. first = [room |-> segs[1].room + OldLen, cells |-> Drop(c, OldLen)]
  BY DEF ShrinkStart, Drop
<1> HIDE DEF c, st, b, seg, pos, hc, bc, first
<1>10. Drop(c, OldLen) \in Seq(Cell)
  BY <1>2, <1>3, DropProperties
<1>11. first \in Segment /\ new \in Segment
  BY <1>2, <1>8, <1>9, <1>10 DEF Segment
<1>12. /\ rest \in Seq(Segment) /\ Len(rest) = Len(segs)
       /\ \A i \in 1..Len(segs) : rest[i] = IF i = 1 THEN first ELSE segs[i]
  BY <1>2, <1>11, ExceptSeq
<1>13. \A i \in 1..Len(segs) : rest[i].cells = r[i]
  <2>1. <<>> \o Drop(c, OldLen) = Drop(c, OldLen)
    BY <1>10, ConcatEmptySeq
  <2>2. r = [q EXCEPT ![1] = Drop(c, OldLen)]
    BY <1>2, <2>1 DEF Replaced
  <2>3. \A i \in 1..Len(segs) : q[i] = segs[i].cells
    BY <1>2, HeldType
  <2>4. \A i \in 1..Len(segs) : r[i] = IF i = 1 THEN Drop(c, OldLen) ELSE q[i]
    <3> HIDE DEF q, r
    <3>1. QED
      BY <1>2, <1>10, <2>2, ExceptSeq
  <2> HIDE DEF q, r, rest
  <2>5. QED
    BY <1>9, <1>12, <2>3, <2>4
<1> HIDE DEF q, r, rest, new
<1>14. /\ chain \in Seq(Segment) /\ Len(chain) = Len(segs) + 1 /\ chain[1] = new
       /\ \A i \in 1..Len(segs) : chain[i + 1] = rest[i]
  <2>1. <<new>> \in Seq(Segment) /\ Len(<<new>>) = 1
    BY <1>11
  <2>2. QED
    BY <1>2, <1>11, <1>12, <2>1, ConcatProperties
<1> HIDE DEF chain
<1>15. chain[1].cells = st
  BY <1>14 DEF new
<1>16. hc \o Drop(chain[1].cells, NewLen) = hc
  BY <1>2, <1>8, <1>15, DropAll, ConcatEmptySeq
<1>17. /\ Cons(hc, r) \in Seq(Seq(Cell)) /\ Len(Cons(hc, r)) = Len(r) + 1
       /\ Cons(hc, r)[1] = hc
       /\ \A i \in 1..Len(r) : Cons(hc, r)[i + 1] = r[i]
       /\ \A m \in 0..Len(r) : Pre(Cons(hc, r), m + 1) = hc \o Pre(r, m)
       /\ FlattenSeq(Cons(hc, r)) = hc \o FlattenSeq(r)
  <2>1. hc \in Seq(Cell) /\ r \in Seq(Seq(Cell))
    BY <1>2, <1>6
  <2>2. QED
    BY <1>0, <2>1
<1> DEFINE s == Cons(hc, r)
<1> HIDE DEF s
<1>18. Covered(chain) = s
  <2>1. Covered(chain) = [Held(chain) EXCEPT ![1] = hc]
    BY <1>16 DEF Covered, hc
  <2>2. /\ Held(chain) \in Seq(Seq(Cell)) /\ Len(Held(chain)) = Len(segs) + 1
        /\ \A i \in 1..(Len(segs) + 1) : Held(chain)[i] = chain[i].cells
    BY <1>14, HeldType
  <2>3. /\ [Held(chain) EXCEPT ![1] = hc] \in Seq(Seq(Cell))
        /\ Len([Held(chain) EXCEPT ![1] = hc]) = Len(segs) + 1
        /\ \A i \in 1..(Len(segs) + 1) :
             [Held(chain) EXCEPT ![1] = hc][i] = IF i = 1 THEN hc ELSE Held(chain)[i]
    BY <1>2, <2>2, ExceptSeq
  <2> DEFINE t == [Held(chain) EXCEPT ![1] = hc]
  <2>4. /\ t \in Seq(Seq(Cell)) /\ Len(t) = Len(segs) + 1
        /\ \A i \in 1..(Len(segs) + 1) : t[i] = IF i = 1 THEN hc ELSE Held(chain)[i]
    BY <2>3
  <2> HIDE DEF t
  <2>5. /\ s \in Seq(Seq(Cell)) /\ Len(s) = Len(segs) + 1 /\ s[1] = hc
        /\ \A i \in 1..Len(segs) : s[i + 1] = r[i]
    BY <1>6, <1>17 DEF s
  <2>6. \A i \in 1..Len(t) : t[i] = s[i]
    <3>1. SUFFICES ASSUME NEW i \in 1..Len(t) PROVE t[i] = s[i]
      OBVIOUS
    <3>2. CASE i = 1
      BY <1>2, <2>4, <2>5, <3>2
    <3>3. CASE i # 1
      <4>1. i - 1 \in 1..Len(segs) /\ (i - 1) + 1 = i /\ i \in 1..(Len(segs) + 1)
        BY <1>2, <2>4, <3>3
      <4>2. t[i] = Held(chain)[i] /\ Held(chain)[i] = chain[i].cells
        BY <2>2, <2>4, <3>3, <4>1
      <4>3. chain[i] = rest[i - 1] /\ s[i] = r[i - 1]
        BY <1>14, <2>5, <4>1
      <4>4. QED
        BY <1>13, <4>1, <4>2, <4>3
    <3>4. QED
      BY <3>2, <3>3
  <2>7. t = s
    BY <2>4, <2>5, <2>6, SeqEqual
  <2>8. QED
    BY <2>1, <2>7 DEF t
<1>19. FlattenSeq(Covered(chain)) = hc \o bc
  <2>1. <<>> \o bc = bc
    BY <1>2, ConcatEmptySeq
  <2>2. QED
    BY <1>6, <1>17, <1>18, <2>1 DEF s
<1>20. Placed(Covered(chain), NewLen, b.seg, b.off)
  <2>1. /\ seg \in 0..(Len(r) - 1) /\ pos \in 0..Len(r[seg + 1])
        /\ 0 = Len(Pre(r, seg)) + pos
    BY <1>6 DEF Placed
  <2>2. Len(r) \in Nat /\ seg \in 0..Len(r) /\ seg + 1 \in 1..Len(r)
    BY <1>2, <1>6, <2>1
  <2>3. s[(seg + 1) + 1] = r[seg + 1] /\ Pre(s, seg + 1) = hc \o Pre(r, seg)
    BY <1>17, <2>2 DEF s
  <2>4. Pre(r, seg) \in Seq(Cell)
    BY <1>6, <2>2, PreGrows
  <2>5. Len(hc \o Pre(r, seg)) = Len(hc) + Len(Pre(r, seg)) /\ Len(Pre(r, seg)) \in Nat
    BY <1>2, <2>4, ConcatProperties, LenProperties
  <2>6. Len(r[seg + 1]) \in Nat
    <3>1. r[seg + 1] \in Seq(Cell)
      BY <1>6, <2>2, ElementOfSeq
    <3>2. QED
      BY <3>1, LenProperties
  <2>7. NewLen = Len(Pre(s, seg + 1)) + pos
    BY <1>2, <2>1, <2>3, <2>5, <2>6
  <2>8. seg + 1 \in 0..(Len(s) - 1)
    BY <1>17, <2>2 DEF s
  <2>9. Placed(s, NewLen, seg + 1, pos)
    BY <2>1, <2>3, <2>7, <2>8 DEF Placed
  <2>10. QED
    BY <1>7, <1>18, <2>9
<1>21. Len(chain) # 0 /\ Len(chain[1].cells) >= NewLen
  BY <1>2, <1>8, <1>14, <1>15
<1>22. Emitted
  BY <1>4, <1>7, <1>14, <1>19, <1>20, <1>21, EmitIntoEmits DEF IInv, hc, bc
<1>23. QED
  BY <1>22, EmittedIInv

LEMMA HdrSegPanicsIInv ==
  ASSUME IInv, phase \in {"transformed", "rewritten"}, HdrSegPanics, Ends("panicked")
  PROVE  IInv'
<1>1. /\ Len(segs[1].cells) \in Nat /\ OldLen \in Nat /\ NewLen \in Nat
      /\ Len(segs[1].cells) < OldLen => was.spanned
      /\ body.seg = 0 => body.off = OldLen
  BY ChainBefore
<1>2. was.segs = Len(segs)
  BY BeforeEmission DEF IInv
<1>3. Len(segs[1].cells) < OldLen \/ was.segs = MaxSegs
  BY <1>1, <1>2 DEF HdrSegPanics, PrependPanics
<1>4. QED
  BY <1>1, <1>3, EmissionEnds

LEMMA EmitIInv ==
  ASSUME IInv, Emit
  PROVE  IInv'
<1>1. phase \in {"transformed", "rewritten"}
  BY DEF Emit
<1>2. QED
  BY <1>1, EmitGrownIInv, EmitPrependedIInv, EmitShrunkIInv, EmitSameIInv,
     HdrSegPanicsIInv DEF Emit

-----------------------------------------------------------------------------
(* The other steps leave the sums as they are, or take those of a packet   *)
(* that has not been changed.                                              *)
LEMMA ParseSums ==
  ASSUME PInv, Parse
  PROVE  /\ SumsOK' /\ ChecksumsFollow' /\ LengthsAgree'
         /\ bodyCsum' = bodyCsum \/ bodyCsum' \in Nat \cup {None}
<1>1. CASE Ends("dropped")
  BY <1>1, EndsSums DEF Ends
<1>2. CASE ~Ends("dropped")
  <2>1. PICK o : meta' = [outer |-> o, addr |-> wire.addr, port |-> wire.port,
                          ipCsum |-> wire.ipCsum, csum |-> wire.csum]
    BY <1>2 DEF Parse
  <2>2. PICK s, n : was' = [segs |-> n, wire |-> wire, outer |-> phase = "arrived",
                            spanned |-> s, body |-> body']
    BY <1>2 DEF Parse
  <2>3. /\ phase' = "parsed" /\ bodyCsum' = BodySum(kind, wire)
        /\ UNCHANGED <<kind, segs, wire>>
    BY <1>2 DEF Parse
  <2>4. kind \in Kinds /\ IsWire(wire) /\ Counts(kind, wire)
    BY DEF PInv, Shaped
  <2>5. ASSUME kind.ulp # "echo", wire.csum # 0
        PROVE  BodySum(kind, wire) \in Nat /\ Completes(BodySum(kind, wire), kind, wire)
    BY <2>4, <2>5, BodySumCompletes
  <2>6. meta'.csum = wire.csum /\ meta'.ipCsum = wire.ipCsum /\ was'.wire = wire
    BY <2>1, <2>2
  <2>7. SumsOK'
    BY <2>3, <2>5, <2>6 DEF SumsOK, Completes, PseudoSum, UlpSum
  <2>8. ChecksumsFollow' /\ LengthsAgree'
    BY <2>3 DEF ChecksumsFollow, LengthsAgree
  <2>9. BodySum(kind, wire) \in Nat \cup {None}
    <3>1. CASE kind.ulp = "echo" \/ wire.csum = 0
      BY <3>1 DEF BodySum
    <3>2. CASE ~(kind.ulp = "echo" \/ wire.csum = 0)
      BY <2>5, <3>2
    <3>3. QED
      BY <3>1, <3>2
  <2>10. QED
    BY <2>3, <2>7, <2>8, <2>9
<1>3. QED
  BY <1>1, <1>2

LEMMA TransformSums ==
  ASSUME PInv, SumsOK, Transform
  PROVE  SumsOK' /\ ChecksumsFollow' /\ LengthsAgree'
<1>1. PICK a \in Addrs, p \in Ports, outer \in {meta.outer, ~meta.outer} :
        /\ kind.ulp = "echo" => p = meta.port
        /\ meta' = [meta EXCEPT !.outer = outer, !.addr = a, !.port = p]
  BY DEF Transform
<1>2. /\ phase = "parsed" /\ phase' = "transformed"
      /\ UNCHANGED <<kind, segs, wire, offs, body, bodyCsum, was>>
  BY DEF Transform
<1>3. DOMAIN meta = {"outer", "addr", "port", "ipCsum", "csum"}
  BY <1>2 DEF PInv, InsideOK, InEngine, Noted
<1>4. meta'.csum = meta.csum /\ meta'.ipCsum = meta.ipCsum
  BY <1>1, <1>3
<1>5. QED
  BY <1>2, <1>4
     DEF SumsOK, InEngine, Completes, PseudoSum, UlpSum, ChecksumsFollow, LengthsAgree

LEMMA EchoTransformSums ==
  ASSUME PInv, SumsOK, EchoTransform
  PROVE  SumsOK' /\ ChecksumsFollow' /\ LengthsAgree'
<1>1. CASE FirstBodyCells = <<>>
  BY <1>1, EndsSums DEF EchoTransform
<1>2. CASE FirstBodyCells # <<>>
  <2>1. PICK p, c : wire' = [wire EXCEPT !.port = p, !.csum = c]
    BY <1>2 DEF EchoTransform
  <2>2. /\ phase = "transformed" /\ phase' = "rewritten"
        /\ kind = [ip |-> 4, ulp |-> "echo"]
        /\ kind' = kind /\ was' = was /\ meta' = meta
    BY <1>2 DEF EchoTransform
  <2>3. DOMAIN wire = {"addr", "port", "data", "ipLen", "udpLen", "csum", "ipCsum",
                       "oipLen", "geneveLen"}
    BY DEF PInv, Shaped, IsWire
  <2>4. wire'.ipCsum = wire.ipCsum
    BY <2>1, <2>3
  <2>5. QED
    BY <2>2, <2>4 DEF SumsOK, InEngine, ChecksumsFollow, LengthsAgree
<1>3. QED
  BY <1>1, <1>2

LEMMA LoopbackSums ==
  ASSUME SumsOK, Loopback
  PROVE  SumsOK' /\ ChecksumsFollow' /\ LengthsAgree'
<1>1. /\ phase = "emitted" /\ phase' = "parsed" /\ was'.wire = wire
      /\ UNCHANGED <<kind, wire, meta, bodyCsum>>
  BY DEF Loopback
<1>2. QED
  BY <1>1
     DEF SumsOK, InEngine, Completes, PseudoSum, UlpSum, ChecksumsFollow, LengthsAgree

LEMMA TravelSums ==
  ASSUME Travel
  PROVE  SumsOK' /\ ChecksumsFollow' /\ LengthsAgree'
BY DEF Travel, SumsOK, InEngine, ChecksumsFollow, LengthsAgree

LEMMA InitIInv == Init => IInv
<1>1. ASSUME Init PROVE SumsOK /\ ChecksumsFollow /\ LengthsAgree
  BY <1>1 DEF Init, SumsOK, InEngine, ChecksumsFollow, LengthsAgree
<1>2. QED
  BY <1>1, InitPInv DEF IInv

LEMMA NextIInv == IInv /\ [Next]_vars => IInv'
<1> SUFFICES ASSUME IInv, [Next]_vars
             PROVE  IInv'
  OBVIOUS
<1>0. PInv /\ SumsOK
  BY DEF IInv
<1>1. CASE Parse
  BY <1>0, <1>1, ParsePInv, ParseSums DEF IInv
<1>2. CASE WrapPanics
  BY <1>0, <1>2, WrapPanicsPInv, EndsSums DEF IInv, WrapPanics
<1>3. CASE Transform
  BY <1>0, <1>3, TransformPInv, TransformSums DEF IInv
<1>4. CASE TransformFails
  BY <1>0, <1>4, TransformFailsPInv, EndsSums DEF IInv, TransformFails
<1>5. CASE EchoTransform
  BY <1>0, <1>5, EchoTransformPInv, EchoTransformSums DEF IInv
<1>6. CASE Emit
  BY <1>6, EmitIInv
<1>7. CASE Loopback
  BY <1>0, <1>7, LoopbackPInv, LoopbackSums DEF IInv
<1>8. CASE Travel
  BY <1>0, <1>8, TravelPInv, TravelSums DEF IInv
<1>9. CASE UNCHANGED vars
  <2>1. PInv'
    BY <1>0, <1>9
       DEF vars, PInv, Shaped, IsChain, OutsideOK, Packed, InsideOK, InEngine, Noted,
           Outer, IsPlace, Located, CellAt, FrontOK, WellShapedSurvives
  <2>2. SumsOK' /\ ChecksumsFollow' /\ LengthsAgree'
    BY <1>9 DEF vars, IInv, SumsOK, InEngine, ChecksumsFollow, LengthsAgree
  <2>3. QED
    BY <2>1, <2>2 DEF IInv
<1>10. QED
  BY <1>1, <1>2, <1>3, <1>4, <1>5, <1>6, <1>7, <1>8, <1>9 DEF Next

LEMMA IInvHolds == Spec => []IInv
BY InitIInv, NextIInv, PTL DEF Spec

-----------------------------------------------------------------------------
LEMMA WholeFollows == IInv => EmittedIsWhole
<1> SUFFICES ASSUME IInv, phase = "emitted"
             PROVE  /\ Flat(segs) =
                         HeaderCells(kind, meta.outer) \o BodyCells(was.body.len)
                    /\ Len(segs[1].cells) >= NewLen
                    /\ body.len = was.body.len
  BY DEF EmittedIsWhole
<1>1. /\ Packed(Outer, body.len) /\ body.pkt = Len(Headers(kind, Outer))
      /\ body.len = was.body.len
  BY DEF IInv, PInv, InsideOK, InEngine
<1>2. Outer = meta.outer
  BY DEF Outer
<1>3. Len(segs[1].cells) >= body.pkt
  BY DEF IInv, PInv, FrontOK
<1>4. QED
  BY <1>1, <1>2, <1>3 DEF Packed, NewLen

LEMMA OffsetsFollow == IInv => OffsetsHold
<1> SUFFICES ASSUME IInv, InEngine
             PROVE  OffsetsHold
  BY DEF OffsetsHold, InEngine
<1>1. /\ IsChain /\ kind \in Kinds /\ Noted
      /\ Packed(Outer, body.len) /\ body.pkt = Len(Headers(kind, Outer))
      /\ IsPlace(body.pkt, body.seg, body.off) /\ Located
  BY DEF IInv, PInv, Shaped, InsideOK
<1> DEFINE before == FlattenSeq([i \in 1..body.seg |-> segs[i].cells])
           cells == segs[body.seg + 1].cells
<1>2. before = Pre(Held(segs), body.seg)
  <2>1. /\ Len(segs) \in Nat /\ body.seg \in 0..(Len(segs) - 1)
        /\ \A i \in 1..Len(segs) : Held(segs)[i] = segs[i].cells
    BY <1>1, HeldType, LenProperties DEF IsChain, IsPlace
  <2>2. \A i \in 1..body.seg : i \in 1..Len(segs)
    BY <2>1
  <2>3. [i \in 1..body.seg |-> segs[i].cells] = [i \in 1..body.seg |-> Held(segs)[i]]
    BY <2>1, <2>2
  <2>4. QED
    BY <2>3 DEF Pre
<1>3. /\ body.pkt = body.off + Len(Pre(Held(segs), body.seg)) /\ body.off \in Nat
      /\ Len(Pre(Held(segs), body.seg)) \in Nat
      /\ Len(cells) \in Nat /\ body.off \in 0..Len(cells)
  BY <1>1, PlaceType DEF IsPlace
<1> HIDE DEF before, cells
<1>4. body.pkt = Len(before) + body.off /\ body.off <= Len(cells)
  BY <1>2, <1>3
<1>5. SubSeq(Flat(segs), body.pkt + 1, Len(Flat(segs))) = BodyCells(body.len)
  <2>1. Outer \in BOOLEAN /\ body.len \in Nat
    BY <1>1, WordsAssumption DEF Noted, Packed
  <2>2. Drop(HeaderCells(kind, Outer) \o BodyCells(body.len), Len(Headers(kind, Outer)))
          = BodyCells(body.len)
    BY <1>1, <2>1, WholeCells
  <2>3. Drop(Flat(segs), body.pkt) = BodyCells(body.len)
    BY <1>1, <2>2 DEF Packed
  <2>4. QED
    BY <2>3 DEF Drop
<1>6. QED
  BY <1>1, <1>4, <1>5 DEF OffsetsHold, Located, before, cells

(* EmittedIsWhole: whatever chain a packet comes in and however much room  *)
(* there is ahead of it, hdr_seg() and what follows lose no byte and leave *)
(* none that is stale, and the driver finds all headers in one segment.    *)
THEOREM EmittedStaysWhole == Spec => []EmittedIsWhole
BY IInvHolds, WholeFollows, PTL

(* OffsetsHold: what is located in a packet stays located while its front  *)
(* is resized, when a segment is put ahead of it, and in the port that has *)
(* it next.                                                                *)
THEOREM OffsetsStay == Spec => []OffsetsHold
BY IInvHolds, OffsetsFollow, PTL

(* ChecksumsFollow: incremental update is right, for words of any width    *)
(* and through any number of ports.  A TCP or UDP checksum over IPv4 is    *)
(* right for the receiver after it if and only if it was before, and so is *)
(* one over IPv6 if the packet came with the length that emission writes.  *)
(* The checksum of the IPv4 header is right whatever it was before.  One   *)
(* that was absent stays so.                                               *)
THEOREM ChecksumsAreKept == Spec => []ChecksumsFollow
<1>1. IInv => ChecksumsFollow
  BY DEF IInv
<1>2. QED
  BY <1>1, IInvHolds, PTL

(* LengthsAgree: the length fields emission writes count the bytes that    *)
(* follow in the chain.                                                    *)
THEOREM LengthsCount == Spec => []LengthsAgree
<1>1. IInv => LengthsAgree
  BY DEF IInv
<1>2. QED
  BY <1>1, IInvHolds, PTL

(* WellShapedSurvives: emission fails and panics only for chains whose     *)
(* headers were not all in the first segment, or that filled the list.     *)
THEOREM WellShapedIsEmitted == Spec => []WellShapedSurvives
<1>1. IInv => WellShapedSurvives
  BY DEF IInv, PInv, FrontOK
<1>2. QED
  BY <1>1, IInvHolds, PTL

-----------------------------------------------------------------------------
Phases == {"sent", "arrived", "parsed", "transformed", "rewritten", "emitted",
           "dropped", "refused", "unwritten", "panicked"}

Labelled == phase \in Phases /\ bodyCsum \in Nat \cup {None}

LEMMA NextLabelled == Labelled /\ IInv /\ [Next]_vars => Labelled'
<1> SUFFICES ASSUME Labelled, IInv, [Next]_vars
             PROVE  Labelled'
  OBVIOUS
<1>1. CASE Parse
  <2>1. phase' \in {"dropped", "parsed"}
    BY <1>1 DEF Parse, Ends
  <2>2. bodyCsum' = bodyCsum \/ bodyCsum' \in Nat \cup {None}
    BY <1>1, ParseSums DEF IInv
  <2>3. QED
    BY <2>1, <2>2 DEF Labelled, Phases
<1>2. CASE WrapPanics \/ TransformFails
  BY <1>2 DEF WrapPanics, TransformFails, Ends, Labelled, Phases
<1>3. CASE Transform \/ EchoTransform
  BY <1>3 DEF Transform, EchoTransform, Ends, Labelled, Phases
<1>4. CASE Emit
  <2>1. ASSUME NEW chain, NEW b, EmitInto(chain, b)
        PROVE  phase' \in {"unwritten", "emitted"} /\ bodyCsum' = bodyCsum
    BY <2>1 DEF EmitInto, Ends
  <2>2. phase' \in {"unwritten", "emitted", "panicked"} /\ bodyCsum' = bodyCsum
    BY <1>4, <2>1
       DEF Emit, EmitGrown, EmitPrepended, EmitShrunk, EmitSame, Ends
  <2>3. QED
    BY <2>2 DEF Labelled, Phases
<1>5. CASE Loopback \/ Travel
  BY <1>5 DEF Loopback, Travel, Labelled, Phases
<1>6. CASE UNCHANGED vars
  BY <1>6 DEF vars, Labelled
<1>7. QED
  BY <1>1, <1>2, <1>3, <1>4, <1>5, <1>6 DEF Next

(* TypeOK: emission writes words, so that the next port can parse them.    *)
THEOREM TypeCorrect == Spec => []TypeOK
<1>1. Init => Labelled
  BY DEF Init, Labelled, Phases
<1>2. Labelled /\ IInv => TypeOK
  <2> SUFFICES ASSUME Labelled, IInv
               PROVE  TypeOK
    OBVIOUS
  <2>1. kind \in Kinds /\ segs \in Seq(Segment) /\ IsWire(wire)
    BY DEF IInv, PInv, Shaped, IsChain
  <2>2. \A i \in DOMAIN segs : segs[i].room \in Nat
    <3>1. DOMAIN segs = 1..Len(segs)
      BY <2>1
    <3>2. \A i \in 1..Len(segs) : segs[i] \in Segment
      BY <2>1, ElementOfSeq
    <3>3. QED
      BY <3>1, <3>2 DEF Segment
  <2>3. QED
    BY <2>1, <2>2 DEF TypeOK, Labelled, Phases, IsWire
<1>3. QED
  BY <1>1, <1>2, NextLabelled, IInvHolds, PTL DEF Spec

-----------------------------------------------------------------------------
(* DHCPv6.  Ranks, and lists of options by rank.                           *)
LEMMA RankType == MaxRank \in Nat
<1>1. Len(Leases) \in Nat
  BY ServerAssumption, LenProperties
<1>2. QED
  BY <1>1, ClientAssumption DEF MaxRank

(* The lists of the next rank.                                             *)
OptionsAt(n, lists) ==
  IF n = 0 THEN {<<>>}
  ELSE {opts \in Seq(OptionsOver(lists)) : opts # <<>> => Tail(opts) \in lists}

IsOptions(f, m) == f = [n \in 0..m |-> OptionsAt(n, f[n - 1])]

(* At rank 0 nothing below is looked at.                                   *)
LEMMA OptionsAtZero == \A x, y : OptionsAt(0, x) = OptionsAt(0, y)
BY DEF OptionsAt

(* There is a function that obeys the recursion of Options.                *)
LEMMA OptionsExist ==
  ASSUME NEW k \in Nat
  PROVE  \E f : IsOptions(f, k)
<1> DEFINE T == {m \in 0..k : \E f : IsOptions(f, m)}
<1>1. 0 \in T
  <2> DEFINE f == [n \in 0..0 |-> OptionsAt(n, <<>>)]
  <2>1. \A n \in 0..0 : f[n] = OptionsAt(n, f[n - 1])
    <3>1. f[0] = OptionsAt(0, <<>>) /\ OptionsAt(0, <<>>) = OptionsAt(0, f[0 - 1])
      BY OptionsAtZero
    <3>2. QED
      BY <3>1
  <2>2. IsOptions(f, 0)
    BY <2>1 DEF IsOptions
  <2>3. QED
    BY <2>2
<1>2. ASSUME NEW m \in 0..(k - 1), m \in T
      PROVE  m + 1 \in T
  <2>1. PICK f : IsOptions(f, m)
    BY <1>2
  <2> DEFINE g == [n \in 0..(m + 1) |-> OptionsAt(n, f[n - 1])]
  <2>2. \A n \in 0..m : g[n] = f[n]
    BY <2>1 DEF IsOptions
  <2>3. ASSUME NEW n \in 0..(m + 1)
        PROVE  g[n] = OptionsAt(n, g[n - 1])
    <3>1. CASE n = 0
      <4>1. g[0] = OptionsAt(0, f[0 - 1])
        OBVIOUS
      <4>2. QED
        BY <3>1, <4>1, OptionsAtZero
    <3>2. CASE n # 0
      <4>1. n - 1 \in 0..m
        BY <3>2
      <4>2. g[n - 1] = f[n - 1] /\ g[n] = OptionsAt(n, f[n - 1])
        BY <2>2, <4>1
      <4>3. QED
        BY <4>2
    <3>3. QED
      BY <3>1, <3>2
  <2> HIDE DEF g
  <2>4. g = [n \in 0..(m + 1) |-> g[n]]
    BY DEF g
  <2>5. IsOptions(g, m + 1)
    BY <2>3, <2>4 DEF IsOptions
  <2>6. m + 1 \in 0..k
    OBVIOUS
  <2>7. QED
    BY <2>5, <2>6
<1> HIDE DEF T
<1>3. \A i \in 0..k : i \in T
  BY <1>1, <1>2, Induction
<1>4. k \in T
  BY <1>3
<1>5. QED
  BY <1>4 DEF T

(* So Options obeys it.                                                    *)
LEMMA OptionsUnfold == \A n \in 0..MaxRank : Options[n] = OptionsAt(n, Options[n - 1])
<1>1. Options = CHOOSE f : IsOptions(f, MaxRank)
  BY DEF Options, IsOptions, OptionsAt
<1>2. IsOptions(Options, MaxRank)
  BY <1>1, OptionsExist, RankType
<1>3. QED
  BY <1>2 DEF IsOptions


(* The only list of rank 0 is the empty one.                               *)
LEMMA NoOptions == Options[0] = {<<>>}
<1>1. 0 \in 0..MaxRank
  BY RankType
<1>2. QED
  BY <1>1, OptionsUnfold DEF OptionsAt

-----------------------------------------------------------------------------
(* What the other functions are by the function for what is nested.        *)
OptionLenAt(n, len) ==
  [opts \in Options[n] |->
     IF opts = <<>> THEN 0 ELSE BufferLen(Head(opts), len) + len[Tail(opts)]]

IsOptionLen(f, m) == f = [n \in 0..m |-> OptionLenAt(n, f[n - 1])]

(* At rank 0 nothing below is looked at.                                   *)
LEMMA OptionLenAtZero == \A x, y : OptionLenAt(0, x) = OptionLenAt(0, y)
<1> TAKE x, y
<1>1. \A opts \in Options[0] : opts = <<>>
  BY NoOptions
<1>2. OptionLenAt(0, x) = [opts \in Options[0] |-> 0]
  BY <1>1 DEF OptionLenAt
<1>3. OptionLenAt(0, y) = [opts \in Options[0] |-> 0]
  BY <1>1 DEF OptionLenAt
<1>4. QED
  BY <1>2, <1>3

(* There is a function that obeys the recursion of OptionLen.              *)
LEMMA OptionLenExist ==
  ASSUME NEW k \in Nat
  PROVE  \E f : IsOptionLen(f, k)
<1> DEFINE T == {m \in 0..k : \E f : IsOptionLen(f, m)}
<1>1. 0 \in T
  <2> DEFINE f == [n \in 0..0 |-> OptionLenAt(n, <<>>)]
  <2>1. \A n \in 0..0 : f[n] = OptionLenAt(n, f[n - 1])
    <3>1. f[0] = OptionLenAt(0, <<>>) /\ OptionLenAt(0, <<>>) = OptionLenAt(0, f[0 - 1])
      BY OptionLenAtZero
    <3>2. QED
      BY <3>1
  <2>2. IsOptionLen(f, 0)
    BY <2>1 DEF IsOptionLen
  <2>3. QED
    BY <2>2
<1>2. ASSUME NEW m \in 0..(k - 1), m \in T
      PROVE  m + 1 \in T
  <2>1. PICK f : IsOptionLen(f, m)
    BY <1>2
  <2> DEFINE g == [n \in 0..(m + 1) |-> OptionLenAt(n, f[n - 1])]
  <2>2. \A n \in 0..m : g[n] = f[n]
    BY <2>1 DEF IsOptionLen
  <2>3. ASSUME NEW n \in 0..(m + 1)
        PROVE  g[n] = OptionLenAt(n, g[n - 1])
    <3>1. CASE n = 0
      <4>1. g[0] = OptionLenAt(0, f[0 - 1])
        OBVIOUS
      <4>2. QED
        BY <3>1, <4>1, OptionLenAtZero
    <3>2. CASE n # 0
      <4>1. n - 1 \in 0..m
        BY <3>2
      <4>2. g[n - 1] = f[n - 1] /\ g[n] = OptionLenAt(n, f[n - 1])
        BY <2>2, <4>1
      <4>3. QED
        BY <4>2
    <3>3. QED
      BY <3>1, <3>2
  <2> HIDE DEF g
  <2>4. g = [n \in 0..(m + 1) |-> g[n]]
    BY DEF g
  <2>5. IsOptionLen(g, m + 1)
    BY <2>3, <2>4 DEF IsOptionLen
  <2>6. m + 1 \in 0..k
    OBVIOUS
  <2>7. QED
    BY <2>5, <2>6
<1> HIDE DEF T
<1>3. \A i \in 0..k : i \in T
  BY <1>1, <1>2, Induction
<1>4. k \in T
  BY <1>3
<1>5. QED
  BY <1>4 DEF T

(* So option_len() obeys it.                                               *)
LEMMA OptionLenUnfold == \A n \in 0..MaxRank : OptionLen[n] = OptionLenAt(n, OptionLen[n - 1])
<1>1. OptionLen = CHOOSE f : IsOptionLen(f, MaxRank)
  BY DEF OptionLen, IsOptionLen, OptionLenAt
<1>2. IsOptionLen(OptionLen, MaxRank)
  BY <1>1, OptionLenExist, RankType
<1>3. QED
  BY <1>2 DEF IsOptionLen

EncodedOptionsAt(n, encoded) ==
  [opts \in Options[n] |->
     IF opts = <<>> THEN <<>>
     ELSE EncodedOption(Head(opts), encoded) \o encoded[Tail(opts)]]

IsEncodedOptions(f, m) == f = [n \in 0..m |-> EncodedOptionsAt(n, f[n - 1])]

(* At rank 0 nothing below is looked at.                                   *)
LEMMA EncodedOptionsAtZero == \A x, y : EncodedOptionsAt(0, x) = EncodedOptionsAt(0, y)
<1> TAKE x, y
<1>1. \A opts \in Options[0] : opts = <<>>
  BY NoOptions
<1>2. EncodedOptionsAt(0, x) = [opts \in Options[0] |-> <<>>]
  BY <1>1 DEF EncodedOptionsAt
<1>3. EncodedOptionsAt(0, y) = [opts \in Options[0] |-> <<>>]
  BY <1>1 DEF EncodedOptionsAt
<1>4. QED
  BY <1>2, <1>3

(* There is a function that obeys the recursion of EncodedOptions.         *)
LEMMA EncodedOptionsExist ==
  ASSUME NEW k \in Nat
  PROVE  \E f : IsEncodedOptions(f, k)
<1> DEFINE T == {m \in 0..k : \E f : IsEncodedOptions(f, m)}
<1>1. 0 \in T
  <2> DEFINE f == [n \in 0..0 |-> EncodedOptionsAt(n, <<>>)]
  <2>1. \A n \in 0..0 : f[n] = EncodedOptionsAt(n, f[n - 1])
    <3>1. f[0] = EncodedOptionsAt(0, <<>>) /\ EncodedOptionsAt(0, <<>>) = EncodedOptionsAt(0, f[0 - 1])
      BY EncodedOptionsAtZero
    <3>2. QED
      BY <3>1
  <2>2. IsEncodedOptions(f, 0)
    BY <2>1 DEF IsEncodedOptions
  <2>3. QED
    BY <2>2
<1>2. ASSUME NEW m \in 0..(k - 1), m \in T
      PROVE  m + 1 \in T
  <2>1. PICK f : IsEncodedOptions(f, m)
    BY <1>2
  <2> DEFINE g == [n \in 0..(m + 1) |-> EncodedOptionsAt(n, f[n - 1])]
  <2>2. \A n \in 0..m : g[n] = f[n]
    BY <2>1 DEF IsEncodedOptions
  <2>3. ASSUME NEW n \in 0..(m + 1)
        PROVE  g[n] = EncodedOptionsAt(n, g[n - 1])
    <3>1. CASE n = 0
      <4>1. g[0] = EncodedOptionsAt(0, f[0 - 1])
        OBVIOUS
      <4>2. QED
        BY <3>1, <4>1, EncodedOptionsAtZero
    <3>2. CASE n # 0
      <4>1. n - 1 \in 0..m
        BY <3>2
      <4>2. g[n - 1] = f[n - 1] /\ g[n] = EncodedOptionsAt(n, f[n - 1])
        BY <2>2, <4>1
      <4>3. QED
        BY <4>2
    <3>3. QED
      BY <3>1, <3>2
  <2> HIDE DEF g
  <2>4. g = [n \in 0..(m + 1) |-> g[n]]
    BY DEF g
  <2>5. IsEncodedOptions(g, m + 1)
    BY <2>3, <2>4 DEF IsEncodedOptions
  <2>6. m + 1 \in 0..k
    OBVIOUS
  <2>7. QED
    BY <2>5, <2>6
<1> HIDE DEF T
<1>3. \A i \in 0..k : i \in T
  BY <1>1, <1>2, Induction
<1>4. k \in T
  BY <1>3
<1>5. QED
  BY <1>4 DEF T

(* So EncodedOptions obeys it.                                             *)
LEMMA EncodedOptionsUnfold == \A n \in 0..MaxRank : EncodedOptions[n] = EncodedOptionsAt(n, EncodedOptions[n - 1])
<1>1. EncodedOptions = CHOOSE f : IsEncodedOptions(f, MaxRank)
  BY DEF EncodedOptions, IsEncodedOptions, EncodedOptionsAt
<1>2. IsEncodedOptions(EncodedOptions, MaxRank)
  BY <1>1, EncodedOptionsExist, RankType
<1>3. QED
  BY <1>2 DEF IsEncodedOptions

OptionsFromAt(n, from) ==
  [b \in Seq(Nat) |->
     IF b = <<>> THEN {<<>>}
     ELSE IF n = 0 THEN {}
     ELSE UNION {{<<o>> \o rest :
                    rest \in from[After(b, BufferLen(o, OptionLen[n - 1]))]} :
                   o \in OptionFrom(b, from)}]

IsOptionsFrom(f, m) == f = [n \in 0..m |-> OptionsFromAt(n, f[n - 1])]

(* At rank 0 nothing below is looked at.                                   *)
LEMMA OptionsFromAtZero == \A x, y : OptionsFromAt(0, x) = OptionsFromAt(0, y)
BY DEF OptionsFromAt

(* There is a function that obeys the recursion of OptionsFrom.            *)
LEMMA OptionsFromExist ==
  ASSUME NEW k \in Nat
  PROVE  \E f : IsOptionsFrom(f, k)
<1> DEFINE T == {m \in 0..k : \E f : IsOptionsFrom(f, m)}
<1>1. 0 \in T
  <2> DEFINE f == [n \in 0..0 |-> OptionsFromAt(n, <<>>)]
  <2>1. \A n \in 0..0 : f[n] = OptionsFromAt(n, f[n - 1])
    <3>1. f[0] = OptionsFromAt(0, <<>>) /\ OptionsFromAt(0, <<>>) = OptionsFromAt(0, f[0 - 1])
      BY OptionsFromAtZero
    <3>2. QED
      BY <3>1
  <2>2. IsOptionsFrom(f, 0)
    BY <2>1 DEF IsOptionsFrom
  <2>3. QED
    BY <2>2
<1>2. ASSUME NEW m \in 0..(k - 1), m \in T
      PROVE  m + 1 \in T
  <2>1. PICK f : IsOptionsFrom(f, m)
    BY <1>2
  <2> DEFINE g == [n \in 0..(m + 1) |-> OptionsFromAt(n, f[n - 1])]
  <2>2. \A n \in 0..m : g[n] = f[n]
    BY <2>1 DEF IsOptionsFrom
  <2>3. ASSUME NEW n \in 0..(m + 1)
        PROVE  g[n] = OptionsFromAt(n, g[n - 1])
    <3>1. CASE n = 0
      <4>1. g[0] = OptionsFromAt(0, f[0 - 1])
        OBVIOUS
      <4>2. QED
        BY <3>1, <4>1, OptionsFromAtZero
    <3>2. CASE n # 0
      <4>1. n - 1 \in 0..m
        BY <3>2
      <4>2. g[n - 1] = f[n - 1] /\ g[n] = OptionsFromAt(n, f[n - 1])
        BY <2>2, <4>1
      <4>3. QED
        BY <4>2
    <3>3. QED
      BY <3>1, <3>2
  <2> HIDE DEF g
  <2>4. g = [n \in 0..(m + 1) |-> g[n]]
    BY DEF g
  <2>5. IsOptionsFrom(g, m + 1)
    BY <2>3, <2>4 DEF IsOptionsFrom
  <2>6. m + 1 \in 0..k
    OBVIOUS
  <2>7. QED
    BY <2>5, <2>6
<1> HIDE DEF T
<1>3. \A i \in 0..k : i \in T
  BY <1>1, <1>2, Induction
<1>4. k \in T
  BY <1>3
<1>5. QED
  BY <1>4 DEF T

(* So the loop of from_bytes() obeys it.                                   *)
LEMMA OptionsFromUnfold == \A n \in 0..MaxRank : OptionsFrom[n] = OptionsFromAt(n, OptionsFrom[n - 1])
<1>1. OptionsFrom = CHOOSE f : IsOptionsFrom(f, MaxRank)
  BY DEF OptionsFrom, IsOptionsFrom, OptionsFromAt
<1>2. IsOptionsFrom(OptionsFrom, MaxRank)
  BY <1>1, OptionsFromExist, RankType
<1>3. QED
  BY <1>2 DEF IsOptionsFrom

CopyAllAt(n, copy) ==
  [a \in Nat \X Options[n] \X Seq(Nat) |->
     LET opts == a[2]
         b == a[3]
         size == BufferLen(Head(opts), OptionLen[n - 1])
         slice == IF a[1] = Code.IaAddr THEN UpTo(b, size) ELSE b
     IN IF opts = <<>> THEN {b}
        ELSE UNION {{UpTo(d, size) \o rest :
                       rest \in copy[<<a[1], Tail(opts), After(b, size)>>]} :
                      d \in CopyInto(Head(opts), slice, OptionLen[n - 1], copy)}]

IsCopyAll(f, m) == f = [n \in 0..m |-> CopyAllAt(n, f[n - 1])]

(* At rank 0 nothing below is looked at.                                   *)
LEMMA CopyAllAtZero == \A x, y : CopyAllAt(0, x) = CopyAllAt(0, y)
<1> TAKE x, y
<1>1. \A a \in Nat \X Options[0] \X Seq(Nat) : a[2] = <<>>
  BY NoOptions
<1>2. CopyAllAt(0, x) = [a \in Nat \X Options[0] \X Seq(Nat) |-> {a[3]}]
  BY <1>1 DEF CopyAllAt
<1>3. CopyAllAt(0, y) = [a \in Nat \X Options[0] \X Seq(Nat) |-> {a[3]}]
  BY <1>1 DEF CopyAllAt
<1>4. QED
  BY <1>2, <1>3

(* There is a function that obeys the recursion of CopyAll.                *)
LEMMA CopyAllExist ==
  ASSUME NEW k \in Nat
  PROVE  \E f : IsCopyAll(f, k)
<1> DEFINE T == {m \in 0..k : \E f : IsCopyAll(f, m)}
<1>1. 0 \in T
  <2> DEFINE f == [n \in 0..0 |-> CopyAllAt(n, <<>>)]
  <2>1. \A n \in 0..0 : f[n] = CopyAllAt(n, f[n - 1])
    <3>1. f[0] = CopyAllAt(0, <<>>) /\ CopyAllAt(0, <<>>) = CopyAllAt(0, f[0 - 1])
      BY CopyAllAtZero
    <3>2. QED
      BY <3>1
  <2>2. IsCopyAll(f, 0)
    BY <2>1 DEF IsCopyAll
  <2>3. QED
    BY <2>2
<1>2. ASSUME NEW m \in 0..(k - 1), m \in T
      PROVE  m + 1 \in T
  <2>1. PICK f : IsCopyAll(f, m)
    BY <1>2
  <2> DEFINE g == [n \in 0..(m + 1) |-> CopyAllAt(n, f[n - 1])]
  <2>2. \A n \in 0..m : g[n] = f[n]
    BY <2>1 DEF IsCopyAll
  <2>3. ASSUME NEW n \in 0..(m + 1)
        PROVE  g[n] = CopyAllAt(n, g[n - 1])
    <3>1. CASE n = 0
      <4>1. g[0] = CopyAllAt(0, f[0 - 1])
        OBVIOUS
      <4>2. QED
        BY <3>1, <4>1, CopyAllAtZero
    <3>2. CASE n # 0
      <4>1. n - 1 \in 0..m
        BY <3>2
      <4>2. g[n - 1] = f[n - 1] /\ g[n] = CopyAllAt(n, f[n - 1])
        BY <2>2, <4>1
      <4>3. QED
        BY <4>2
    <3>3. QED
      BY <3>1, <3>2
  <2> HIDE DEF g
  <2>4. g = [n \in 0..(m + 1) |-> g[n]]
    BY DEF g
  <2>5. IsCopyAll(g, m + 1)
    BY <2>3, <2>4 DEF IsCopyAll
  <2>6. m + 1 \in 0..k
    OBVIOUS
  <2>7. QED
    BY <2>5, <2>6
<1> HIDE DEF T
<1>3. \A i \in 0..k : i \in T
  BY <1>1, <1>2, Induction
<1>4. k \in T
  BY <1>3
<1>5. QED
  BY <1>4 DEF T

(* So the loop of copy_into() obeys it.                                    *)
LEMMA CopyAllUnfold == \A n \in 0..MaxRank : CopyAll[n] = CopyAllAt(n, CopyAll[n - 1])
<1>1. CopyAll = CHOOSE f : IsCopyAll(f, MaxRank)
  BY DEF CopyAll, IsCopyAll, CopyAllAt
<1>2. IsCopyAll(CopyAll, MaxRank)
  BY <1>1, CopyAllExist, RankType
<1>3. QED
  BY <1>2 DEF IsCopyAll

-----------------------------------------------------------------------------
(* Sequences: the two parts of a concatenation.                            *)
LEMMA AfterFirst ==
  ASSUME NEW S, NEW a \in Seq(S), NEW b \in Seq(S)
  PROVE  After(a \o b, Len(a)) = b
BY DropFirst DEF Drop, After

(* What is before the second part of a concatenation is the first.         *)
LEMMA UpToFirst ==
  ASSUME NEW S, NEW a \in Seq(S), NEW b \in Seq(S)
  PROVE  UpTo(a \o b, Len(a)) = a
<1> DEFINE ab == a \o b
           u == SubSeq(ab, 1, Len(a))
<1>1. /\ Len(a) \in Nat /\ Len(b) \in Nat
      /\ \A i \in 1..(Len(a) + Len(b)) :
           ab[i] = IF i <= Len(a) THEN a[i] ELSE b[i - Len(a)]
  BY LenProperties, ConcatProperties
<1> HIDE DEF ab
<1>2. \A i \in 1..Len(a) : ab[i] = a[i] /\ a[i] \in S
  BY <1>1, ElementOfSeq
<1>3. /\ u \in Seq(S) /\ Len(u) = Len(a)
      /\ \A i \in 1..Len(a) : u[i] = ab[i]
  <2>1. \A i \in 1..Len(a) : ab[i] \in S
    BY <1>2
  <2>2. /\ u \in Seq(S) /\ Len(u) = IF 1 <= Len(a) THEN Len(a) - 1 + 1 ELSE 0
        /\ \A i \in 1..(Len(a) - 1 + 1) : u[i] = ab[1 + i - 1]
    BY <1>1, <2>1, SubSeqProperties
  <2> HIDE DEF u
  <2>3. QED
    BY <1>1, <2>2
<1> HIDE DEF u
<1>4. u = a
  BY <1>2, <1>3, SeqEqual
<1>5. QED
  BY <1>4 DEF u, ab, UpTo

(* After all of a sequence there is nothing.                               *)
LEMMA AfterNone ==
  ASSUME NEW S, NEW a \in Seq(S)
  PROVE  After(a, Len(a)) = <<>>
BY DropAll DEF Drop, After

(* Concatenation is associative.                                           *)
LEMMA Joined == \A a, b, c \in Seq(Nat) : (a \o b) \o c = a \o (b \o c)
<1>1. ASSUME NEW S, NEW a \in Seq(S), NEW b \in Seq(S), NEW c \in Seq(S)
      PROVE  (a \o b) \o c = a \o (b \o c)
  BY ConcatAssociative
<1>2. \A S : \A a, b, c \in Seq(S) : (a \o b) \o c = a \o (b \o c)
  BY <1>1
<1>3. QED
  BY <1>2

(* What is after k cells of a buffer is k cells shorter.                   *)
LEMMA AfterProperties ==
  \A b \in Seq(Nat) : \A k \in 0..Len(b) :
    After(b, k) \in Seq(Nat) /\ Len(After(b, k)) = Len(b) - k
<1> TAKE b \in Seq(Nat)
<1> TAKE k \in 0..Len(b)
<1>1. Drop(b, k) \in Seq(Nat)
  BY DropProperties
<1>2. Len(Drop(b, k)) = Len(b) - k
  BY DropProperties
<1>3. QED
  BY <1>1, <1>2 DEF Drop, After

(* After k cells and then m is after k + m.                                *)
LEMMA AfterTwice ==
  \A b \in Seq(Nat) : \A k \in 0..Len(b) : \A m \in 0..(Len(b) - k) :
    After(After(b, k), m) = After(b, k + m)
<1> TAKE b \in Seq(Nat)
<1> TAKE k \in 0..Len(b)
<1> TAKE m \in 0..(Len(b) - k)
<1>1. Drop(Drop(b, k), m) = Drop(b, k + m)
  BY DropTwice
<1>2. QED
  BY <1>1 DEF Drop, After

(* The header of an option is two cells.                                   *)
LEMMA PairProperties ==
  ASSUME NEW x \in Nat, NEW y \in Nat
  PROVE  <<x, y>> \in Seq(Nat) /\ Len(<<x, y>>) = 2
OBVIOUS

(* A list is its head and its tail.                                        *)
LEMMA HeadAndTail ==
  ASSUME NEW S, NEW s \in Seq(S), s # <<>>
  PROVE  s = <<Head(s)>> \o Tail(s)
<1>1. Head(s) = s[1] /\ Tail(s) = SubSeq(s, 2, Len(s)) /\ Len(s) \in Nat \ {0}
  BY TailIsSubSeq, EmptySeq
<1>2. SubSeq(s, 1, Len(s)) = <<s[1]>> \o SubSeq(s, 1 + 1, Len(s))
  <2>1. 1 \in 1..Len(s) /\ Len(s) \in 1..Len(s)
    BY <1>1
  <2>2. QED
    BY <2>1, SubSeqRecursiveFirst
<1>3. SubSeq(s, 1, Len(s)) = s
  BY SubSeqFull
<1>4. QED
  BY <1>1, <1>2, <1>3

(* An option on the wire: its code, its length, its data, and what follows *)
(* it.                                                                     *)
Framed(code, data) == <<code, Len(data)>> \o data

Wire(code, data, rest) == Framed(code, data) \o rest

(* Code, length and data are found where they were put.                    *)
LEMMA WireProperties ==
  ASSUME NEW code \in Nat, NEW data \in Seq(Nat), NEW rest \in Seq(Nat)
  PROVE  /\ Wire(code, data, rest) \in Seq(Nat) /\ Wire(code, data, rest) # <<>>
         /\ Len(Wire(code, data, rest)) = (2 + Len(data)) + Len(rest)
         /\ Wire(code, data, rest)[1] = code
         /\ Wire(code, data, rest)[2] = Len(data)
         /\ SubSeq(Wire(code, data, rest), 3, 2 + Len(data)) = data
         /\ After(Wire(code, data, rest), 2 + Len(data)) = rest
         /\ UpTo(Wire(code, data, rest), 2 + Len(data)) = Framed(code, data)
         /\ After(Wire(code, data, rest), 2) = data \o rest
         /\ After(Framed(code, data), 2) = data
<1> DEFINE p == <<code, Len(data)>>
           q == p \o data
           b == Wire(code, data, rest)
<1>1. Len(data) \in Nat /\ Len(rest) \in Nat
  BY LenProperties
<1>2. p \in Seq(Nat) /\ Len(p) = 2 /\ p[1] = code /\ p[2] = Len(data)
  BY <1>1, PairProperties
<1> HIDE DEF p
<1>3. /\ q \in Seq(Nat) /\ Len(q) = 2 + Len(data)
      /\ \A i \in 1..(2 + Len(data)) : q[i] = IF i <= 2 THEN p[i] ELSE data[i - 2]
  <2>1. /\ p \o data \in Seq(Nat) /\ Len(p \o data) = Len(p) + Len(data)
        /\ \A i \in 1..(Len(p) + Len(data)) :
             (p \o data)[i] = IF i <= Len(p) THEN p[i] ELSE data[i - Len(p)]
    BY <1>2, ConcatProperties
  <2>2. QED
    BY <1>2, <2>1
<1>4. After(q, 2) = data
  BY <1>2, AfterFirst
<1>5. b = q \o rest
  BY DEF p, Framed, Wire
<1>6. b = p \o (data \o rest) /\ data \o rest \in Seq(Nat)
  <2>1. (p \o data) \o rest = p \o (data \o rest)
    BY <1>2, Joined
  <2>2. data \o rest \in Seq(Nat)
    BY ConcatProperties
  <2>3. QED
    BY <1>5, <2>1, <2>2
<1>7. q[1] = code /\ q[2] = Len(data)
  BY <1>1, <1>2, <1>3
<1> HIDE DEF q, b
<1>8. /\ b \in Seq(Nat) /\ Len(b) = (2 + Len(data)) + Len(rest)
      /\ \A i \in 1..(2 + Len(data)) : b[i] = q[i]
  <2>1. /\ q \o rest \in Seq(Nat) /\ Len(q \o rest) = Len(q) + Len(rest)
        /\ \A i \in 1..(Len(q) + Len(rest)) :
             (q \o rest)[i] = IF i <= Len(q) THEN q[i] ELSE rest[i - Len(q)]
    BY <1>3, ConcatProperties
  <2>2. /\ b \in Seq(Nat) /\ Len(b) = Len(q) + Len(rest)
        /\ \A i \in 1..(Len(q) + Len(rest)) :
             b[i] = IF i <= Len(q) THEN q[i] ELSE rest[i - Len(q)]
    BY <1>5, <2>1
  <2>3. \A i \in 1..(2 + Len(data)) :
          i \in 1..(Len(q) + Len(rest)) /\ i <= Len(q)
    BY <1>1, <1>3
  <2>4. Len(b) = (2 + Len(data)) + Len(rest)
    BY <1>3, <2>2
  <2>5. QED
    BY <2>2, <2>3, <2>4
<1>9. After(b, 2) = data \o rest
  BY <1>2, <1>6, AfterFirst
<1>10. After(b, 2 + Len(data)) = rest /\ UpTo(b, 2 + Len(data)) = q
  BY <1>3, <1>5, AfterFirst, UpToFirst
<1>11. SubSeq(b, 3, 2 + Len(data)) = data
  <2> DEFINE n == 2 + Len(data)
             d == SubSeq(b, 3, n)
  <2>1. \A i \in 3..(2 + Len(data)) : b[i] = data[i - 2] /\ b[i] \in Nat
    <3>1. \A i \in 3..(2 + Len(data)) : i - 2 \in 1..Len(data) /\ i \in 1..(2 + Len(data)) /\ ~(i <= 2)
      BY <1>1
    <3>2. QED
      BY <3>1, <1>3, <1>8, ElementOfSeq
  <2>2. /\ d \in Seq(Nat) /\ Len(d) = IF 3 <= 2 + Len(data) THEN (2 + Len(data)) - 3 + 1 ELSE 0
        /\ \A i \in 1..((2 + Len(data)) - 3 + 1) : d[i] = b[3 + i - 1]
    <3>1. 3 \in Int /\ n \in Int
      BY <1>1
    <3>2. \A i \in 3..n : b[i] \in Nat
      BY <2>1
    <3> HIDE DEF n
    <3>3. /\ d \in Seq(Nat) /\ Len(d) = IF 3 <= n THEN n - 3 + 1 ELSE 0
          /\ \A i \in 1..(n - 3 + 1) : d[i] = b[3 + i - 1]
      BY <3>1, <3>2, SubSeqProperties
    <3>4. QED
      BY <3>3 DEF n
  <2> HIDE DEF d
  <2>3. Len(d) = Len(data)
    BY <1>1, <2>2
  <2>4. ASSUME NEW i \in 1..Len(d)
        PROVE  d[i] = data[i]
    <3>1. /\ i \in 1..((2 + Len(data)) - 3 + 1) /\ 3 + i - 1 \in 3..(2 + Len(data))
          /\ (3 + i - 1) - 2 = i
      BY <1>1, <2>3
    <3>2. d[i] = b[3 + i - 1] /\ b[3 + i - 1] = data[(3 + i - 1) - 2]
      BY <3>1, <2>1, <2>2
    <3>3. QED
      BY <3>1, <3>2
  <2>5. d = data
    BY <2>2, <2>3, <2>4, SeqEqual
  <2>6. QED
    BY <2>5 DEF d
<1>12. b # <<>>
  <2>1. Len(b) # 0
    BY <1>1, <1>8
  <2>2. QED
    BY <2>1
<1>13. b[1] = code /\ b[2] = Len(data)
  <2>1. 1 \in 1..(2 + Len(data)) /\ 2 \in 1..(2 + Len(data))
    BY <1>1
  <2>2. QED
    BY <1>7, <1>8, <2>1
<1>14. QED
  BY <1>4, <1>8, <1>9, <1>10, <1>11, <1>12, <1>13 DEF p, q, b, Framed

(* What follows an option is after its header and its data.                *)
LEMMA WireRest ==
  \A code \in Nat, data \in Seq(Nat), rest \in Seq(Nat) :
    After(Wire(code, data, rest), 2 + Len(data)) = rest
BY WireProperties

(* An option takes its header, its data, and what follows.                 *)
LEMMA WireLength ==
  \A code \in Nat, data \in Seq(Nat), rest \in Seq(Nat) :
    Len(Wire(code, data, rest)) = (2 + Len(data)) + Len(rest)
BY WireProperties
-----------------------------------------------------------------------------
(* Options, and lists of them.                                             *)
LEMMA OptionIs ==
  ASSUME NEW lists, NEW o \in OptionsOver(lists)
  PROVE  /\ o.code \in Nat /\ o.head \in Seq(Nat) /\ o.opts \in lists
         /\ Holds(o) /\ o = Opt(o.code, o.head, o.opts)
<1>1. o \in [code : Nat, head : Seq(Nat), opts : lists] /\ Holds(o)
  BY DEF OptionsOver
<1>2. o = [code |-> o.code, head |-> o.head, opts |-> o.opts]
  BY <1>1
<1>3. QED
  BY <1>1, <1>2 DEF Opt

(* The empty list has every rank.                                          *)
LEMMA EmptyIsOptions == \A n \in 0..MaxRank : <<>> \in Options[n]
<1> TAKE n \in 0..MaxRank
<1>1. Options[n] = OptionsAt(n, Options[n - 1])
  BY OptionsUnfold
<1>2. QED
  BY <1>1 DEF OptionsAt

(* Of a list that is not empty, the tail and what is nested in the head    *)
(* are of the rank below.                                                  *)
LEMMA RankStep ==
  ASSUME NEW n \in 0..MaxRank, NEW opts \in Options[n], opts # <<>>
  PROVE  /\ n - 1 \in 0..MaxRank
         /\ opts \in Seq(OptionsOver(Options[n - 1]))
         /\ Head(opts) \in OptionsOver(Options[n - 1])
         /\ Tail(opts) \in Options[n - 1]
         /\ opts = <<Head(opts)>> \o Tail(opts)
<1>1. Options[n] = OptionsAt(n, Options[n - 1])
  BY OptionsUnfold
<1>2. n # 0
  BY <1>1 DEF OptionsAt
<1> DEFINE S == OptionsOver(Options[n - 1])
<1>3. opts \in Seq(S) /\ Tail(opts) \in Options[n - 1]
  BY <1>1, <1>2 DEF OptionsAt
<1> HIDE DEF S
<1>4. Head(opts) \in S
  BY <1>3, HeadTailProperties
<1>5. opts = <<Head(opts)>> \o Tail(opts)
  BY <1>3, HeadAndTail
<1>6. QED
  BY <1>2, <1>3, <1>4, <1>5, RankType DEF S

(* What is parsed: an option written as it should be is taken for itself,  *)
(* if that is so for the options nested in it.                             *)
LEMMA OptionParsed ==
  ASSUME NEW code \in Nat, NEW data \in Seq(Nat), NEW rest \in Seq(Nat), NEW from
  PROVE  OptionFrom(Wire(code, data, rest), from) = DataFrom(code, data, from)
<1> DEFINE b == Wire(code, data, rest)
<1>1. /\ Len(b) = (2 + Len(data)) + Len(rest)
      /\ b[1] = code /\ b[2] = Len(data)
      /\ SubSeq(b, 3, 2 + Len(data)) = data
  <2>1. Len(b) = (2 + Len(data)) + Len(rest)
    BY WireProperties
  <2>2. b[1] = code
    BY WireProperties
  <2>3. b[2] = Len(data)
    BY WireProperties
  <2>4. SubSeq(b, 3, 2 + Len(data)) = data
    BY WireProperties
  <2>5. QED
    BY <2>1, <2>2, <2>3, <2>4
<1> HIDE DEF b
<1>2. Len(data) \in Nat /\ Len(rest) \in Nat
  BY LenProperties
<1>3. ~(Len(b) < 2) /\ ~(Len(b) < 2 + b[2])
  BY <1>1, <1>2
<1>4. OptionFrom(b, from) = DataFrom(b[1], SubSeq(b, 2 + 1, 2 + b[2]), from)
  BY <1>3 DEF OptionFrom, DATA_START
<1>5. SubSeq(b, 2 + 1, 2 + b[2]) = data
  BY <1>1
<1>6. QED
  BY <1>1, <1>4, <1>5 DEF b

(* The codes the proofs tell apart.                                        *)
LEMMA CodeIsNat ==
  /\ \A c \in DOMAIN Code : Code[c] \in Nat
  /\ Code.RapidCommit = 14 /\ Code.ElapsedTime = 8 /\ Code.StatusCode = 13
  /\ Code.IaNa = 3 /\ Code.IaTa = 4 /\ Code.IaAddr = 5 /\ Code.ClientId = 1
  /\ Code.ServerId = 2 /\ Code.OptionRequest = 6 /\ Code.DnsServers = 23
  /\ Code.DomainList = 24 /\ Code.SntpServers = 31
BY DEF Code

(* Data made of the fields of an option and the encoding of what is nested *)
(* in it is taken for that option, if what is nested is parsed right.      *)
LEMMA DataParsed ==
  ASSUME NEW lists, NEW o \in OptionsOver(lists), NEW from, NEW e \in Seq(Nat),
         from[e] = {o.opts}, o.opts = <<>> => e = <<>>
  PROVE  DataFrom(o.code, o.head \o e, from) = {o}
<1>1. /\ o.code \in Nat /\ o.head \in Seq(Nat)
      /\ Holds(o) /\ o = Opt(o.code, o.head, o.opts)
  BY OptionIs
<1> DEFINE data == o.head \o e
<1>2. CASE o.code = Code.RapidCommit
  <2>1. o.code \notin Containers
    BY <1>2, CodeIsNat DEF Containers
  <2>2. o.opts = <<>> /\ o.head = <<>>
    BY <1>1, <1>2, <2>1 DEF Holds
  <2>3. DataFrom(o.code, data, from) = {Plain(o.code, <<>>)}
    BY <1>2 DEF DataFrom
  <2>4. QED
    BY <1>1, <2>2, <2>3 DEF Plain
<1>3. CASE o.code # Code.RapidCommit /\ o.code \notin Containers
  <2>1. o.opts = <<>> /\ WellSized(o.code, o.head)
    BY <1>1, <1>3 DEF Holds
  <2>2. data = o.head
    BY <1>1, <2>1, ConcatEmptySeq
  <2> HIDE DEF data
  <2>3. DataFrom(o.code, data, from) = {x \in {Plain(o.code, data)} : WellSized(o.code, data)}
    BY <1>3 DEF DataFrom
  <2>4. DataFrom(o.code, data, from) = {Plain(o.code, o.head)}
    BY <2>1, <2>2, <2>3
  <2>5. QED
    BY <1>1, <2>1, <2>4 DEF Plain, data
<1>4. CASE o.code # Code.RapidCommit /\ o.code \in Containers
  <2>1. Len(o.head) = OPTIONS(o.code)
    BY <1>1, <1>4 DEF Holds
  <2>2. /\ UpTo(data, Len(o.head)) = o.head /\ After(data, Len(o.head)) = e
    BY <1>1, UpToFirst, AfterFirst
  <2>3. Len(data) = Len(o.head) + Len(e) /\ Len(o.head) \in Nat /\ Len(e) \in Nat
    BY <1>1, ConcatProperties, LenProperties
  <2> HIDE DEF data
  <2>4. ~(Len(data) < OPTIONS(o.code))
    BY <2>1, <2>3
  <2>5. DataFrom(o.code, data, from) =
          {Opt(o.code, UpTo(data, OPTIONS(o.code)), opts) :
             opts \in from[After(data, OPTIONS(o.code))]}
    BY <1>4, <2>4 DEF DataFrom
  <2>6. DataFrom(o.code, data, from) = {Opt(o.code, o.head, opts) : opts \in {o.opts}}
    BY <2>1, <2>2, <2>5
  <2>7. QED
    BY <1>1, <2>6 DEF data
<1>5. QED
  BY <1>2, <1>3, <1>4

(* Every list of options is written in as many cells as option_len() says, *)
(* and parsed for what it is: by induction over the rank.                  *)
Parsable(n, opts) ==
  /\ EncodedOptions[n][opts] \in Seq(Nat)
  /\ OptionLen[n][opts] = Len(EncodedOptions[n][opts])
  /\ opts = <<>> => EncodedOptions[n][opts] = <<>>
  /\ OptionsFrom[n][EncodedOptions[n][opts]] = {opts}

(* The empty list is parsed right.                                         *)
LEMMA EmptyParsable == \A n \in 0..MaxRank : Parsable(n, <<>>)
<1> TAKE n \in 0..MaxRank
<1>1. <<>> \in Options[n]
  BY EmptyIsOptions
<1>2. EncodedOptions[n][<<>>] = <<>>
  <2>1. EncodedOptions[n] = EncodedOptionsAt(n, EncodedOptions[n - 1])
    BY EncodedOptionsUnfold
  <2>2. QED
    BY <1>1, <2>1 DEF EncodedOptionsAt
<1>3. OptionLen[n][<<>>] = 0
  <2>1. OptionLen[n] = OptionLenAt(n, OptionLen[n - 1])
    BY OptionLenUnfold
  <2>2. QED
    BY <1>1, <2>1 DEF OptionLenAt
<1>4. OptionsFrom[n][<<>>] = {<<>>}
  <2>1. OptionsFrom[n] = OptionsFromAt(n, OptionsFrom[n - 1])
    BY OptionsFromUnfold
  <2>2. <<>> \in Seq(Nat)
    OBVIOUS
  <2>3. QED
    BY <2>1, <2>2 DEF OptionsFromAt
<1>5. <<>> \in Seq(Nat) /\ Len(<<>>) = 0
  OBVIOUS
<1>6. QED
  BY <1>2, <1>3, <1>4, <1>5 DEF Parsable

(* A list by its first option and the others.                              *)
LEMMA EncodingUnfolds ==
  ASSUME NEW n \in 0..MaxRank, NEW opts \in Options[n], opts # <<>>
  PROVE  EncodedOptions[n][opts] =
           Wire(Head(opts).code, Head(opts).head \o EncodedOptions[n - 1][Head(opts).opts],
                EncodedOptions[n - 1][Tail(opts)])
<1>1. EncodedOptions[n] = EncodedOptionsAt(n, EncodedOptions[n - 1])
  BY EncodedOptionsUnfold
<1>2. EncodedOptions[n][opts] =
        EncodedOption(Head(opts), EncodedOptions[n - 1]) \o EncodedOptions[n - 1][Tail(opts)]
  BY <1>1 DEF EncodedOptionsAt
<1>3. QED
  BY <1>2 DEF EncodedOption, Framed, Wire

(* option_len() of a list that is not empty.                               *)
LEMMA LengthUnfolds ==
  ASSUME NEW n \in 0..MaxRank, NEW opts \in Options[n], opts # <<>>
  PROVE  OptionLen[n][opts] =
           BufferLen(Head(opts), OptionLen[n - 1]) + OptionLen[n - 1][Tail(opts)]
<1>1. OptionLen[n] = OptionLenAt(n, OptionLen[n - 1])
  BY OptionLenUnfold
<1>2. QED
  BY <1>1 DEF OptionLenAt

(* A list is parsed right if its tail and what is nested in its head are.  *)
LEMMA ParsableStep ==
  ASSUME NEW n \in 0..MaxRank, NEW opts \in Options[n], opts # <<>>,
         Parsable(n - 1, Head(opts).opts), Parsable(n - 1, Tail(opts))
  PROVE  Parsable(n, opts)
<1> DEFINE o == Head(opts)
           len == OptionLen[n - 1]
           from == OptionsFrom[n - 1]
           e == EncodedOptions[n - 1][o.opts]
           data == o.head \o e
           rest == EncodedOptions[n - 1][Tail(opts)]
           b == EncodedOptions[n][opts]
           code == o.code
<1>a. /\ o = Head(opts) /\ e = EncodedOptions[n - 1][o.opts]
      /\ data = o.head \o e /\ rest = EncodedOptions[n - 1][Tail(opts)]
      /\ b = EncodedOptions[n][opts] /\ code = o.code
  OBVIOUS
<1>1. /\ n - 1 \in 0..MaxRank /\ o \in OptionsOver(Options[n - 1])
      /\ Tail(opts) \in Options[n - 1] /\ opts = <<o>> \o Tail(opts)
  BY RankStep
<1>2. code \in Nat /\ o.head \in Seq(Nat)
  BY <1>1, OptionIs
<1>3. /\ e \in Seq(Nat) /\ len[o.opts] = Len(e) /\ from[e] = {o.opts}
      /\ o.opts = <<>> => e = <<>>
      /\ rest \in Seq(Nat) /\ len[Tail(opts)] = Len(rest) /\ from[rest] = {Tail(opts)}
  BY DEF Parsable
<1>4. b = Wire(code, data, rest)
  BY EncodingUnfolds
<1>5. OptionLen[n][opts] = BufferLen(o, len) + len[Tail(opts)]
  BY LengthUnfolds
<1>6. n # 0 /\ from = OptionsFrom[n - 1]
  BY <1>1
<1>7. \A c \in Seq(Nat) :
        c # <<>> =>
          OptionsFrom[n][c] =
            UNION {{<<x>> \o r : r \in from[After(c, BufferLen(x, len))]} :
                     x \in OptionFrom(c, from)}
  <2>1. OptionsFrom[n] = OptionsFromAt(n, OptionsFrom[n - 1])
    BY OptionsFromUnfold
  <2>2. QED
    BY <1>6, <2>1 DEF OptionsFromAt
<1> HIDE DEF e, o, rest, b, len, from
<1>8. data \in Seq(Nat) /\ Len(data) = Len(o.head) + Len(e)
  BY <1>2, <1>3, ConcatProperties
<1>9. DataFrom(o.code, data, from) = {o}
  BY <1>1, <1>3, DataParsed
<1>10. BufferLen(o, len) = 2 + Len(data)
  BY <1>3, <1>8 DEF BufferLen, DataLen, DATA_START
<1> HIDE DEF data, code
<1>11. /\ b \in Seq(Nat) /\ b # <<>>
       /\ Len(b) = (2 + Len(data)) + Len(rest)
       /\ After(b, 2 + Len(data)) = rest
  <2> DEFINE w == Wire(code, data, rest)
  <2>1. w \in Seq(Nat)
    BY <1>2, <1>3, <1>8, WireProperties
  <2>2. w # <<>>
    BY <1>2, <1>3, <1>8, WireProperties
  <2>3. Len(w) = (2 + Len(data)) + Len(rest)
    BY <1>2, <1>3, <1>8, WireProperties
  <2>4. After(w, 2 + Len(data)) = rest
    <3>1. code \in Nat /\ data \in Seq(Nat) /\ rest \in Seq(Nat)
      BY <1>2, <1>3, <1>8
    <3>2. QED
      BY <3>1, WireRest
  <2> HIDE DEF w
  <2>5. QED
    BY <1>4, <2>1, <2>2, <2>3, <2>4 DEF w
<1>12. OptionFrom(b, from) = {o}
  <2>1. OptionFrom(b, from) = DataFrom(code, data, from)
    BY <1>2, <1>3, <1>4, <1>8, OptionParsed
  <2>2. QED
    BY <1>a, <1>9, <2>1
<1>13. OptionsFrom[n][b] = {opts}
  <2>1. OptionsFrom[n][b] =
          UNION {{<<x>> \o r : r \in from[After(b, BufferLen(x, len))]} : x \in {o}}
    BY <1>7, <1>11, <1>12
  <2>2. OptionsFrom[n][b] = {<<o>> \o r : r \in from[After(b, BufferLen(o, len))]}
    BY <2>1
  <2>3. from[After(b, BufferLen(o, len))] = {Tail(opts)}
    BY <1>3, <1>10, <1>11
  <2>4. QED
    BY <1>1, <2>2, <2>3
<1>14. OptionLen[n][opts] = Len(b)
  BY <1>3, <1>5, <1>10, <1>11
<1>15. QED
  BY <1>11, <1>13, <1>14 DEF Parsable, b

(* Every list of options is parsed right, and is as long as was computed.  *)
LEMMA AllParsable == \A n \in 0..MaxRank : \A opts \in Options[n] : Parsable(n, opts)
<1> DEFINE T == {n \in 0..MaxRank : \A opts \in Options[n] : Parsable(n, opts)}
<1>1. 0 \in T
  <2>1. 0 \in 0..MaxRank
    BY RankType
  <2>2. QED
    BY <2>1, NoOptions, EmptyParsable
<1>2. ASSUME NEW m \in 0..(MaxRank - 1), m \in T
      PROVE  m + 1 \in T
  <2>1. m + 1 \in 0..MaxRank /\ (m + 1) - 1 = m
    BY RankType
  <2>2. ASSUME NEW opts \in Options[m + 1]
        PROVE  Parsable(m + 1, opts)
    <3>1. CASE opts = <<>>
      BY <2>1, <3>1, EmptyParsable
    <3>2. CASE opts # <<>>
      <4> DEFINE n == m + 1
      <4>1. n \in 0..MaxRank /\ n - 1 = m /\ opts \in Options[n]
        BY <2>1
      <4> HIDE DEF n
      <4>2. /\ Head(opts) \in OptionsOver(Options[n - 1])
            /\ Tail(opts) \in Options[n - 1]
        BY <3>2, <4>1, RankStep
      <4>3. Head(opts).opts \in Options[n - 1]
        BY <4>2, OptionIs
      <4>4. Parsable(n - 1, Head(opts).opts) /\ Parsable(n - 1, Tail(opts))
        BY <1>2, <4>1, <4>2, <4>3
      <4>5. Parsable(n, opts)
        BY <3>2, <4>1, <4>4, ParsableStep
      <4>6. QED
        BY <4>5 DEF n
    <3>3. QED
      BY <3>1, <3>2
  <2>3. QED
    BY <2>1, <2>2
<1> HIDE DEF T
<1>3. \A i \in 0..MaxRank : i \in T
  BY <1>1, <1>2, RankType, Induction
<1>4. QED
  BY <1>3 DEF T

-----------------------------------------------------------------------------
(* What is written: e is the encoding of the options nested in o, b the    *)
(* buffer o is written into.                                               *)
LEMMA ContainersDoNot == \A code \in Containers : ~CopiesWhole(code)
<1> TAKE code \in Containers
<1>1. code \in {3, 4, 5}
  BY CodeIsNat DEF Containers
<1>2. Code["IaNa"] \in Known /\ Code["IaTa"] \in Known /\ Code["IaAddr"] \in Known
  BY DEF Known, Code
<1>3. code \in Known
  BY <1>2 DEF Containers
<1>4. code # 13 /\ code # 24
  BY <1>1
<1>5. QED
  BY <1>3, <1>4, CodeIsNat DEF CopiesWhole

NestedCopied(copy, o, e) ==
  \A c \in Seq(Nat) : Len(c) >= Len(e) =>
    copy[<<o.code, o.opts, c>>] = {e \o After(c, Len(e))}

CanCopyOption(lists, o, e, len, copy, b) ==
  /\ o \in OptionsOver(lists) /\ e \in Seq(Nat)
  /\ len[o.opts] = Len(e)
  /\ o.opts = <<>> => e = <<>>
  /\ NestedCopied(copy, o, e)
  /\ b \in Seq(Nat) /\ Len(b) >= 2 + Len(o.head \o e)
  /\ CopiesWhole(o.code) => Len(b) = 2 + Len(o.head \o e)

(* An option is written into the front of a buffer that is large enough,   *)
(* and of just its size if it copies into all of it.                       *)
LEMMA CopyOption ==
  \A lists, o, e, len, copy, b :
    CanCopyOption(lists, o, e, len, copy, b) =>
      /\ BufferLen(o, len) = 2 + Len(o.head \o e)
      /\ CopyInto(o, b, len, copy) =
           {Framed(o.code, o.head \o e) \o After(b, 2 + Len(o.head \o e))}
<1> TAKE lists, o, e, len, copy, b
<1> DEFINE data == o.head \o e
<1> SUFFICES ASSUME CanCopyOption(lists, o, e, len, copy, b)
             PROVE  /\ BufferLen(o, len) = 2 + Len(data)
                    /\ CopyInto(o, b, len, copy) =
                         {Framed(o.code, data) \o After(b, 2 + Len(data))}
  OBVIOUS
<1>a. /\ o \in OptionsOver(lists) /\ e \in Seq(Nat)
      /\ len[o.opts] = Len(e) /\ (o.opts = <<>> => e = <<>>)
      /\ \A c \in Seq(Nat) : Len(c) >= Len(e) =>
            copy[<<o.code, o.opts, c>>] = {e \o After(c, Len(e))}
      /\ b \in Seq(Nat) /\ Len(b) >= 2 + Len(data)
      /\ (CopiesWhole(o.code) => Len(b) = 2 + Len(data))
      /\ data = o.head \o e
  BY DEF CanCopyOption, NestedCopied
<1> HIDE DEF data
<1> DEFINE size == Len(data)
           c == After(b, 2)
           r == After(b, 2 + size)
           k == Len(o.head)
<1>1. /\ o.code \in Nat /\ o.head \in Seq(Nat)
      /\ Holds(o) /\ o = Opt(o.code, o.head, o.opts)
  BY <1>a, OptionIs
<1>2. data \in Seq(Nat) /\ size = k + Len(e) /\ size \in Nat /\ k \in Nat
      /\ Len(e) \in Nat /\ Len(b) \in Nat
  BY <1>a, <1>1, ConcatProperties, LenProperties
<1>3. DataLen(o, len) = size /\ BufferLen(o, len) = 2 + size
  BY <1>a, <1>2 DEF DataLen, BufferLen, DATA_START
<1>4. /\ c \in Seq(Nat) /\ Len(c) = Len(b) - 2
      /\ r \in Seq(Nat)
  <2>1. 2 \in 0..Len(b) /\ 2 + size \in 0..Len(b)
    BY <1>a, <1>2
  <2>2. QED
    BY <1>a, <2>1, AfterProperties
<1>5. After(c, size) = r /\ size \in 0..Len(c)
  <2>1. 2 \in 0..Len(b) /\ size \in 0..(Len(b) - 2)
    BY <1>a, <1>2
  <2> HIDE DEF size
  <2>2. After(After(b, 2), size) = After(b, 2 + size)
    BY <1>a, <2>1, AfterTwice
  <2>3. QED
    BY <1>4, <2>1, <2>2
<1>6. CopyInto(o, b, len, copy) =
        {<<o.code, size>> \o d : d \in CopyData(o, c, len, copy)}
  <2>1. ~(Len(b) < BufferLen(o, len))
    BY <1>a, <1>2, <1>3
  <2>2. QED
    BY <1>3, <2>1 DEF CopyInto, DATA_START
<1> HIDE DEF c, r, k
<1>7. CopyData(o, c, len, copy) = {data \o r}
  <2>1. ~(Len(c) < DataLen(o, len))
    BY <1>2, <1>3, <1>4, <1>5
  <2>2. CASE o.code = Code.RapidCommit
    <3>1. o.code \notin Containers
      BY <2>2, CodeIsNat DEF Containers
    <3>2. o.opts = <<>> /\ o.head = <<>>
      BY <1>1, <2>2, <3>1 DEF Holds
    <3>3. data = <<>> /\ size = 0
      BY <1>a, <3>2, EmptySeq
    <3>4. r = c
      BY <1>4, <1>5, <3>3, DropAll DEF Drop, After
    <3>5. data \o r = c
      BY <1>4, <3>3, <3>4, ConcatEmptySeq
    <3>6. QED
      BY <2>2, <3>5 DEF CopyData
  <2>3. CASE o.code # Code.RapidCommit /\ CopiesWhole(o.code)
    <3>1. o.code \notin Containers
      BY <2>3, ContainersDoNot
    <3>2. o.opts = <<>>
      BY <1>1, <2>3, <3>1 DEF Holds
    <3>3. data = o.head
      BY <1>a, <1>1, <3>2, ConcatEmptySeq
    <3>4. Len(c) = Len(o.head)
      <4>1. Len(b) = 2 + size
        BY <1>a, <2>3
      <4>2. Len(c) = size
        BY <1>2, <1>4, <4>1
      <4>3. QED
        BY <3>3, <4>2
    <3>5. r = <<>>
      BY <1>4, <1>5, <3>3, <3>4, AfterNone
    <3>6. data \o r = o.head
      BY <1>1, <3>3, <3>5, ConcatEmptySeq
    <3>7. CopyData(o, c, len, copy) = {d \in {o.head} : Len(c) = Len(o.head)}
      BY <2>1, <2>3 DEF CopyData
    <3>8. QED
      BY <3>4, <3>6, <3>7
  <2>4. CASE o.code # Code.RapidCommit /\ ~CopiesWhole(o.code)
    <3> DEFINE x == After(c, k)
    <3>1. CopyData(o, c, len, copy) =
            {o.head \o rest : rest \in copy[<<o.code, o.opts, x>>]}
      BY <2>1, <2>4 DEF CopyData, k
    <3>2. x \in Seq(Nat) /\ Len(x) = Len(c) - k /\ After(x, Len(e)) = r
      <4>1. k \in 0..Len(c) /\ Len(e) \in 0..(Len(c) - k) /\ k + Len(e) = size
        BY <1>2, <1>5
      <4>2. x \in Seq(Nat) /\ Len(x) = Len(c) - k
        BY <1>4, <4>1, AfterProperties
      <4>3. After(x, Len(e)) = After(c, k + Len(e))
        BY <1>4, <4>1, AfterTwice
      <4>4. QED
        BY <1>5, <4>1, <4>2, <4>3
    <3> HIDE DEF x
    <3>3. Len(x) >= Len(e)
      BY <1>2, <1>5, <3>2
    <3>4. copy[<<o.code, o.opts, x>>] = {e \o r}
      BY <1>a, <3>2, <3>3
    <3>5. o.head \o (e \o r) = data \o r
      BY <1>a, <1>1, <1>4, Joined
    <3>6. QED
      BY <3>1, <3>4, <3>5
  <2>5. QED
    BY <2>2, <2>3, <2>4
<1>8. <<o.code, size>> \o (data \o r) = Framed(o.code, data) \o r
  <2> DEFINE p == <<o.code, size>>
  <2>1. p \in Seq(Nat)
    BY <1>1, <1>2, PairProperties
  <2> HIDE DEF p
  <2>2. (p \o data) \o r = p \o (data \o r)
    BY <1>2, <1>4, <2>1, Joined
  <2>3. Framed(o.code, data) = p \o data
    BY DEF Framed, p
  <2>4. QED
    BY <2>2, <2>3 DEF p
<1>9. CopyInto(o, b, len, copy) = {Framed(o.code, data) \o r}
  BY <1>6, <1>7, <1>8
<1>10. QED
  BY <1>3, <1>9 DEF r


-----------------------------------------------------------------------------
(* A list of options is written: by the first of it and what is done with  *)
(* the others in the rest of the buffer.                                   *)
Copies(n, w, opts) ==
  LET e == EncodedOptions[n][opts]
  IN \A b \in Seq(Nat) : Len(b) >= Len(e) =>
       CopyAll[n][<<w, opts, b>>] = {e \o After(b, Len(e))}

CopiesExactly(n, w, opts) ==
  LET e == EncodedOptions[n][opts]
  IN \A b \in Seq(Nat) : Len(b) = Len(e) => CopyAll[n][<<w, opts, b>>] = {e}

(* The data of the first option of a list, and the encoding of the others. *)
FirstData(n, opts) == Head(opts).head \o EncodedOptions[n - 1][Head(opts).opts]
Others(n, opts) == EncodedOptions[n - 1][Tail(opts)]

(* The first k cells of a buffer are k cells.                              *)
LEMMA UpToProperties ==
  \A b \in Seq(Nat) : \A k \in 0..Len(b) :
    UpTo(b, k) \in Seq(Nat) /\ Len(UpTo(b, k)) = k
<1> TAKE b \in Seq(Nat)
<1> TAKE k \in 0..Len(b)
<1>1. k \in Int /\ 1 \in Int /\ Len(b) \in Nat /\ k \in Nat
  BY LenProperties
<1>2. \A i \in 1..k : b[i] \in Nat
  BY <1>1, ElementOfSeq
<1>3. /\ SubSeq(b, 1, k) \in Seq(Nat)
      /\ Len(SubSeq(b, 1, k)) = IF 1 <= k THEN k - 1 + 1 ELSE 0
  BY <1>1, <1>2, SubSeqProperties
<1>4. QED
  BY <1>1, <1>3 DEF UpTo

(* An option takes its header and its data.                                *)
LEMMA FramedProperties ==
  \A code \in Nat, data \in Seq(Nat) :
    Framed(code, data) \in Seq(Nat) /\ Len(Framed(code, data)) = 2 + Len(data)
<1> TAKE code \in Nat, data \in Seq(Nat)
<1> DEFINE p == <<code, Len(data)>>
<1>1. Len(data) \in Nat
  BY LenProperties
<1>2. p \in Seq(Nat) /\ Len(p) = 2
  BY <1>1, PairProperties
<1> HIDE DEF p
<1>3. p \o data \in Seq(Nat) /\ Len(p \o data) = Len(p) + Len(data)
  BY <1>2, ConcatProperties
<1>4. p \o data \in Seq(Nat) /\ Len(p \o data) = 2 + Len(data)
  BY <1>2, <1>3
<1>5. QED
  BY <1>4 DEF p, Framed

CopyList(n, w, opts, b) ==
  LET size == BufferLen(Head(opts), OptionLen[n - 1])
      slice == IF w = Code.IaAddr THEN UpTo(b, size) ELSE b
  IN UNION {{UpTo(d, size) \o rest :
               rest \in CopyAll[n - 1][<<w, Tail(opts), After(b, size)>>]} :
              d \in CopyInto(Head(opts), slice, OptionLen[n - 1], CopyAll[n - 1])}

(* What the loop of copy_into() does to a list.                            *)
LEMMA CopyUnfolds ==
  \A n \in 0..MaxRank : \A opts \in Options[n] : \A w \in Nat, b \in Seq(Nat) :
    CopyAll[n][<<w, opts, b>>] = IF opts = <<>> THEN {b} ELSE CopyList(n, w, opts, b)
<1> TAKE n \in 0..MaxRank
<1> TAKE opts \in Options[n]
<1> TAKE w \in Nat, b \in Seq(Nat)
<1> DEFINE a == <<w, opts, b>>
<1>1. CopyAll[n] = CopyAllAt(n, CopyAll[n - 1])
  BY CopyAllUnfold
<1>2. a \in Nat \X Options[n] \X Seq(Nat) /\ a[1] = w /\ a[2] = opts /\ a[3] = b
  OBVIOUS
<1> HIDE DEF a
<1>3. CopyAll[n][a] =
        IF a[2] = <<>> THEN {a[3]}
        ELSE LET size == BufferLen(Head(a[2]), OptionLen[n - 1])
                 slice == IF a[1] = Code.IaAddr THEN UpTo(a[3], size) ELSE a[3]
             IN UNION {{UpTo(d, size) \o rest :
                         rest \in CopyAll[n - 1][<<a[1], Tail(a[2]), After(a[3], size)>>]} :
                        d \in CopyInto(Head(a[2]), slice, OptionLen[n - 1],
                                       CopyAll[n - 1])}
  BY <1>1, <1>2 DEF CopyAllAt
<1>4. QED
  BY <1>2, <1>3 DEF a, CopyList

(* The encoding of a list, and the room its first option leaves.           *)
LEMMA EncodingOf ==
  ASSUME NEW n \in 0..MaxRank, NEW opts \in Options[n], opts # <<>>
  PROVE  /\ Head(opts).code \in Nat /\ FirstData(n, opts) \in Seq(Nat)
         /\ Others(n, opts) \in Seq(Nat)
         /\ EncodedOptions[n][opts] =
              Framed(Head(opts).code, FirstData(n, opts)) \o Others(n, opts)
         /\ Len(EncodedOptions[n][opts]) =
              (2 + Len(FirstData(n, opts))) + Len(Others(n, opts))
<1> DEFINE rest == EncodedOptions[n - 1][Tail(opts)]
           e == EncodedOptions[n - 1][Head(opts).opts]
           code == Head(opts).code
           data == Head(opts).head \o e
<1>1. /\ n - 1 \in 0..MaxRank /\ Head(opts) \in OptionsOver(Options[n - 1])
      /\ Tail(opts) \in Options[n - 1]
  BY RankStep
<1>2. code \in Nat /\ Head(opts).head \in Seq(Nat) /\ Head(opts).opts \in Options[n - 1]
  BY <1>1, OptionIs
<1>3. Parsable(n - 1, Head(opts).opts) /\ Parsable(n - 1, Tail(opts))
  BY <1>1, <1>2, AllParsable
<1>4. e \in Seq(Nat) /\ rest \in Seq(Nat)
  BY <1>3 DEF Parsable
<1>5. data \in Seq(Nat)
  BY <1>2, <1>4, ConcatProperties
<1>6. EncodedOptions[n][opts] = Wire(code, data, rest)
  BY EncodingUnfolds
<1> HIDE DEF rest, code, data
<1>7. Len(Wire(code, data, rest)) = (2 + Len(data)) + Len(rest)
  BY <1>2, <1>4, <1>5, WireLength
<1>8. QED
  BY <1>2, <1>4, <1>5, <1>6, <1>7 DEF Wire, FirstData, Others, rest, code, data

(* What it takes to write a list: t is what becomes of the others.         *)
CanCopy(n, w, opts, b, t) ==
  LET size == 2 + Len(FirstData(n, opts))
  IN /\ n \in 0..MaxRank /\ opts \in Options[n] /\ w \in Nat /\ b \in Seq(Nat)
     /\ opts # <<>> /\ Copies(n - 1, Head(opts).code, Head(opts).opts)
     /\ Len(b) >= size
     /\ CopiesWhole(Head(opts).code) => Len(b) = size
     /\ CopyAll[n - 1][<<w, Tail(opts), After(b, size)>>] = {t}

CopyIs(n, w, opts, b, t) ==
  CopyAll[n][<<w, opts, b>>] = {Framed(Head(opts).code, FirstData(n, opts)) \o t}

(* The first option of a list is written, and the others after it.         *)
LEMMA CopyFirst ==
  \A n, w, opts, b, t : CanCopy(n, w, opts, b, t) => CopyIs(n, w, opts, b, t)
<1> TAKE n, w, opts, b, t
<1> SUFFICES ASSUME CanCopy(n, w, opts, b, t)
             PROVE  CopyAll[n][<<w, opts, b>>] =
                      {Framed(Head(opts).code, FirstData(n, opts)) \o t}
  BY DEF CopyIs
<1> DEFINE o == Head(opts)
           code == o.code
           len == OptionLen[n - 1]
           copy == CopyAll[n - 1]
           e == EncodedOptions[n - 1][o.opts]
           data == FirstData(n, opts)
           size == 2 + Len(data)
           slice == IF w = Code.IaAddr THEN UpTo(b, size) ELSE b
           f == Framed(code, data)
<1>0. /\ n \in 0..MaxRank /\ opts \in Options[n] /\ opts # <<>>
      /\ w \in Nat /\ b \in Seq(Nat)
  BY DEF CanCopy
<1>1. /\ n - 1 \in 0..MaxRank /\ o \in OptionsOver(Options[n - 1])
      /\ Tail(opts) \in Options[n - 1]
  BY <1>0, RankStep
<1>2. code \in Nat /\ o.head \in Seq(Nat) /\ o.opts \in Options[n - 1]
  BY <1>0, <1>1, OptionIs
<1>3. Parsable(n - 1, o.opts)
  BY <1>0, <1>1, <1>2, AllParsable
<1>4. e \in Seq(Nat) /\ len[o.opts] = Len(e) /\ (o.opts = <<>> => e = <<>>)
  BY <1>3 DEF Parsable
<1>a. data = o.head \o e /\ code = o.code
  BY DEF FirstData
<1>5. data \in Seq(Nat) /\ Len(data) \in Nat /\ Len(b) \in Nat
  BY <1>0, EncodingOf, LenProperties
<1>b. /\ Len(b) >= 2 + Len(data)
      /\ CopiesWhole(code) => Len(b) = 2 + Len(data)
      /\ copy[<<w, Tail(opts), After(b, size)>>] = {t}
  BY DEF CanCopy
<1>7. NestedCopied(copy, o, e)
  BY DEF CanCopy, Copies, NestedCopied
<1>8. CopyAll[n][<<w, opts, b>>] = CopyList(n, w, opts, b)
  BY <1>0, CopyUnfolds
<1>d. CopyList(n, w, opts, b) =
        LET sz == BufferLen(o, len)
            sl == IF w = Code.IaAddr THEN UpTo(b, sz) ELSE b
        IN UNION {{UpTo(d, sz) \o rest : rest \in copy[<<w, Tail(opts), After(b, sz)>>]} :
                   d \in CopyInto(o, sl, len, copy)}
  BY DEF CopyList
<1>c. f = Framed(code, data)
  OBVIOUS
<1> HIDE DEF o, len, copy, e, data, f, code
<1>6. /\ slice \in Seq(Nat) /\ Len(slice) \in Nat /\ Len(slice) >= size
      /\ CopiesWhole(code) => Len(slice) = size
      /\ size \in 0..Len(b) /\ size \in 0..Len(slice)
  <2>1. size \in 0..Len(b)
    BY <1>0, <1>5, <1>b
  <2>2. UpTo(b, size) \in Seq(Nat) /\ Len(UpTo(b, size)) = size
    BY <1>0, <2>1, UpToProperties
  <2> HIDE DEF size
  <2>3. CASE w = Code.IaAddr
    BY <1>0, <2>1, <2>2, <2>3
  <2>4. CASE w # Code.IaAddr
    BY <1>0, <1>5, <1>b, <2>1, <2>4 DEF size
  <2>5. QED
    BY <2>3, <2>4
<1> HIDE DEF slice
<1>9. BufferLen(o, len) = size /\
      CopyInto(o, slice, len, copy) = {Framed(o.code, data) \o After(slice, 2 + Len(data))}
  <2>1. Len(o.head \o e) = Len(data)
    BY <1>a
  <2>2. CanCopyOption(Options[n - 1], o, e, len, copy, slice)
    BY <1>1, <1>4, <1>6, <1>7, <1>a, <2>1 DEF CanCopyOption
  <2> HIDE DEF size
  <2> DEFINE lists == Options[n - 1]
  <2>a. CanCopyOption(lists, o, e, len, copy, slice)
    BY <2>2
  <2> HIDE DEF lists
  <2>3. /\ BufferLen(o, len) = 2 + Len(o.head \o e)
        /\ CopyInto(o, slice, len, copy) =
             {Framed(o.code, o.head \o e) \o After(slice, 2 + Len(o.head \o e))}
    BY <2>a, CopyOption
  <2>4. QED
    BY <1>a, <2>3 DEF size
<1> DEFINE rem == After(slice, size)
           d1 == f \o rem
<1>10. CopyInto(o, slice, len, copy) = {d1}
  BY <1>9, <1>a, <1>c
<1>11. UpTo(d1, size) = f
  <2>1. f \in Seq(Nat) /\ Len(f) = size
    BY <1>2, <1>5, <1>c, FramedProperties
  <2>2. rem \in Seq(Nat)
    BY <1>6, AfterProperties
  <2> HIDE DEF rem, size
  <2>3. UpTo(f \o rem, Len(f)) = f
    BY <2>1, <2>2, UpToFirst
  <2>4. QED
    BY <2>1, <2>3
<1> HIDE DEF d1
<1>12. CopyAll[n][<<w, opts, b>>] =
         UNION {{UpTo(d, size) \o rest : rest \in copy[<<w, Tail(opts), After(b, size)>>]} :
                 d \in CopyInto(o, slice, len, copy)}
  BY <1>8, <1>9, <1>d DEF slice
<1>14. CopyAll[n][<<w, opts, b>>] = {UpTo(d1, size) \o t}
  BY <1>10, <1>12, <1>b
<1>15. QED
  BY <1>11, <1>14, <1>c DEF code, data, o

(* A list is copied whatever the room, if its tail and what is nested in   *)
(* its head are, and its head does not copy into all of a buffer.          *)
LEMMA CopiesStep ==
  ASSUME NEW n \in 0..MaxRank, NEW opts \in Options[n], opts # <<>>, NEW w \in Nat,
         ~CopiesWhole(Head(opts).code),
         Copies(n - 1, Head(opts).code, Head(opts).opts),
         Copies(n - 1, w, Tail(opts))
  PROVE  Copies(n, w, opts)
<1> DEFINE data == FirstData(n, opts)
           f == Framed(Head(opts).code, data)
           rest == Others(n, opts)
           e == EncodedOptions[n][opts]
<1>1. /\ Head(opts).code \in Nat /\ data \in Seq(Nat) /\ rest \in Seq(Nat)
      /\ e = f \o rest /\ Len(e) = (2 + Len(data)) + Len(rest)
  BY EncodingOf
<1>2. f \in Seq(Nat) /\ Len(data) \in Nat /\ Len(rest) \in Nat
  BY <1>1, FramedProperties, LenProperties
<1>3. \A c \in Seq(Nat) : Len(c) >= Len(rest) =>
        CopyAll[n - 1][<<w, Tail(opts), c>>] = {rest \o After(c, Len(rest))}
  BY DEF Copies, Others
<1> HIDE DEF data, f, rest, e
<1>4. ASSUME NEW b \in Seq(Nat), Len(b) >= Len(e)
      PROVE  CopyAll[n][<<w, opts, b>>] = {e \o After(b, Len(e))}
  <2> DEFINE size == 2 + Len(data)
             c == After(b, size)
             r == After(b, Len(e))
  <2>1. size \in 0..Len(b) /\ Len(rest) \in 0..(Len(b) - size) /\ Len(b) \in Nat
        /\ size + Len(rest) = Len(e)
    BY <1>1, <1>2, <1>4, LenProperties
  <2>2. c \in Seq(Nat) /\ Len(c) = Len(b) - size
    BY <2>1, AfterProperties
  <2>3. After(c, Len(rest)) = r
    <3> HIDE DEF size
    <3>1. After(After(b, size), Len(rest)) = After(b, size + Len(rest))
      BY <2>1, AfterTwice
    <3>2. QED
      BY <2>1, <3>1
  <2>4. r \in Seq(Nat)
    <3>1. Len(e) \in 0..Len(b)
      BY <1>1, <1>2, <2>1
    <3>2. QED
      BY <3>1, AfterProperties
  <2> HIDE DEF c, r
  <2> DEFINE t == rest \o r
  <2>5. CopyAll[n - 1][<<w, Tail(opts), c>>] = {t}
    <3>1. Len(c) >= Len(rest)
      BY <1>2, <2>1, <2>2
    <3>2. QED
      BY <1>3, <2>2, <2>3, <3>1
  <2> HIDE DEF t
  <2>6. CopyAll[n][<<w, opts, b>>] = {f \o t}
    <3>1. Len(b) >= 2 + Len(data)
      BY <1>2, <2>1
    <3>2. CopyAll[n - 1][<<w, Tail(opts), After(b, 2 + Len(data))>>] = {t}
      BY <2>5 DEF c
    <3>0. CanCopy(n, w, opts, b, t)
      BY <3>1, <3>2 DEF CanCopy, data
    <3>3. CopyIs(n, w, opts, b, t)
      BY <3>0, CopyFirst
    <3>4. QED
      BY <3>3 DEF CopyIs, f, data
  <2>7. f \o t = (f \o rest) \o r
    BY <1>1, <1>2, <2>4, Joined DEF t
  <2>8. QED
    BY <1>1, <2>6, <2>7 DEF r
<1>5. QED
  BY <1>4 DEF Copies, e

(* What has to be copied into all of a buffer is at the end of it.         *)
WholeIsLast(opts) == CopiesWhole(Head(opts).code) => Tail(opts) = <<>>

(* A list is copied into just its room if its tail is, and its head may    *)
(* copy into all of a buffer if it is the last.                            *)
LEMMA CopiesExactlyStep ==
  ASSUME NEW n \in 0..MaxRank, NEW opts \in Options[n], opts # <<>>, NEW w \in Nat,
         WholeIsLast(opts),
         Copies(n - 1, Head(opts).code, Head(opts).opts),
         CopiesExactly(n - 1, w, Tail(opts))
  PROVE  CopiesExactly(n, w, opts)
<1> DEFINE data == FirstData(n, opts)
           f == Framed(Head(opts).code, data)
           rest == Others(n, opts)
           e == EncodedOptions[n][opts]
<1>1. /\ Head(opts).code \in Nat /\ data \in Seq(Nat) /\ rest \in Seq(Nat)
      /\ e = f \o rest /\ Len(e) = (2 + Len(data)) + Len(rest)
  BY EncodingOf
<1>2. f \in Seq(Nat) /\ Len(data) \in Nat /\ Len(rest) \in Nat
  BY <1>1, FramedProperties, LenProperties
<1>3. \A c \in Seq(Nat) : Len(c) = Len(rest) =>
        CopyAll[n - 1][<<w, Tail(opts), c>>] = {rest}
  BY DEF CopiesExactly, Others
<1>4. CopiesWhole(Head(opts).code) => Len(rest) = 0
  <2>1. ASSUME CopiesWhole(Head(opts).code)
        PROVE  Len(rest) = 0
    <3>1. n - 1 \in 0..MaxRank /\ Tail(opts) = <<>>
      BY <2>1, RankStep DEF WholeIsLast
    <3>2. Parsable(n - 1, <<>>)
      BY <3>1, EmptyParsable
    <3>3. rest = <<>>
      BY <3>1, <3>2 DEF Parsable, Others
    <3>4. QED
      BY <3>3
  <2>2. QED
    BY <2>1
<1> HIDE DEF data, f, rest, e
<1>5. ASSUME NEW b \in Seq(Nat), Len(b) = Len(e)
      PROVE  CopyAll[n][<<w, opts, b>>] = {e}
  <2> DEFINE size == 2 + Len(data)
             c == After(b, size)
  <2>1. size \in 0..Len(b) /\ Len(b) - size = Len(rest)
    BY <1>1, <1>2, <1>5
  <2>2. c \in Seq(Nat) /\ Len(c) = Len(rest)
    BY <2>1, AfterProperties
  <2> HIDE DEF c
  <2>3. CopyAll[n - 1][<<w, Tail(opts), c>>] = {rest}
    BY <1>3, <2>2
  <2>4. CopyAll[n][<<w, opts, b>>] = {f \o rest}
    <3>1. /\ Len(b) >= 2 + Len(data)
          /\ Len(rest) = 0 => Len(b) = 2 + Len(data)
      BY <1>1, <1>2, <1>5
    <3>2. CopiesWhole(Head(opts).code) => Len(b) = 2 + Len(data)
      BY <1>4, <3>1
    <3>3. CopyAll[n - 1][<<w, Tail(opts), After(b, 2 + Len(data))>>] = {rest}
      BY <2>3 DEF c
    <3>0. CanCopy(n, w, opts, b, rest)
      BY <3>1, <3>2, <3>3 DEF CanCopy, data
    <3>4. CopyIs(n, w, opts, b, rest)
      BY <3>0, CopyFirst
    <3>5. QED
      BY <3>4 DEF CopyIs, f, data
  <2>5. QED
    BY <1>1, <2>4
<1>6. QED
  BY <1>5 DEF CopiesExactly, e

(* The empty list leaves a buffer as it was.                               *)
LEMMA EmptyCopies ==
  \A n \in 0..MaxRank : \A w \in Nat :
    Copies(n, w, <<>>) /\ CopiesExactly(n, w, <<>>)
<1> TAKE n \in 0..MaxRank
<1> TAKE w \in Nat
<1> DEFINE e == EncodedOptions[n][<<>>]
<1>1. e = <<>> /\ Len(e) = 0
  BY EmptyParsable DEF Parsable
<1>2. ASSUME NEW b \in Seq(Nat)
      PROVE  CopyAll[n][<<w, <<>>, b>>] = {b}
  BY EmptyIsOptions, CopyUnfolds
<1>3. ASSUME NEW b \in Seq(Nat)
      PROVE  e \o After(b, Len(e)) = b
  <2>1. After(b, 0) = b
    BY DropAll DEF Drop, After
  <2>2. QED
    BY <1>1, <2>1, ConcatEmptySeq
<1>4. ASSUME NEW b \in Seq(Nat), Len(b) = Len(e)
      PROVE  b = e
  BY <1>1, <1>4, EmptySeq
<1> HIDE DEF e
<1>5. QED
  BY <1>2, <1>3, <1>4 DEF Copies, CopiesExactly, e

-----------------------------------------------------------------------------
(* A list of a rank is one of every higher rank, and a list of options is  *)
(* of a rank that is higher by its length than what is nested in them.     *)
LEMMA OptionsOverGrows ==
  \A A, B : A \subseteq B => Seq(OptionsOver(A)) \subseteq Seq(OptionsOver(B))
<1> TAKE A, B
<1> SUFFICES ASSUME A \subseteq B
             PROVE  Seq(OptionsOver(A)) \subseteq Seq(OptionsOver(B))
  OBVIOUS
<1> DEFINE S == OptionsOver(A)
           T == OptionsOver(B)
<1>1. S \subseteq T
  BY DEF OptionsOver
<1> HIDE DEF S, T
<1>2. Seq(S) \subseteq Seq(T)
  BY <1>1, SeqMonotonic
<1>3. QED
  BY <1>2 DEF S, T

(* The lists of a rank that is not the first.                              *)
LEMMA OptionsAbove ==
  \A n \in 0..MaxRank : \A m : m = n - 1 /\ n # 0 =>
    Options[n] = {opts \in Seq(OptionsOver(Options[m])) :
                    opts # <<>> => Tail(opts) \in Options[m]}
<1> TAKE n \in 0..MaxRank
<1>1. Options[n] = OptionsAt(n, Options[n - 1])
  BY OptionsUnfold
<1>2. QED
  BY <1>1 DEF OptionsAt

(* A list has every rank above its own, too.                               *)
LEMMA NextRank ==
  \A n \in 0..(MaxRank - 1) : Options[n] \subseteq Options[n + 1]
<1> DEFINE T == {n \in 0..(MaxRank - 1) : Options[n] \subseteq Options[n + 1]}
<1>0. MaxRank \in Nat
  BY RankType
<1>1. CASE MaxRank = 0
  BY <1>1
<1>2. CASE MaxRank # 0
  <2>1. 0 \in T
    <3>1. 0 \in 0..(MaxRank - 1) /\ 1 \in 0..MaxRank /\ 0 + 1 = 1
      BY <1>0, <1>2
    <3>2. <<>> \in Options[1] /\ Options[0] = {<<>>}
      BY <3>1, EmptyIsOptions, NoOptions
    <3>3. QED
      BY <3>1, <3>2
  <2>2. ASSUME NEW m \in 0..((MaxRank - 1) - 1), m \in T
        PROVE  m + 1 \in T
    <3> DEFINE k == m + 1
               l == k + 1
    <3>1. /\ k \in 0..MaxRank /\ k # 0 /\ m = k - 1 /\ k \in 0..(MaxRank - 1)
          /\ l \in 0..MaxRank /\ l # 0 /\ k = l - 1
      BY <1>0
    <3>2. Options[m] \subseteq Options[k]
      BY <2>2
    <3> HIDE DEF k, l
    <3>3. Options[k] = {opts \in Seq(OptionsOver(Options[m])) :
                          opts # <<>> => Tail(opts) \in Options[m]}
      BY <3>1, OptionsAbove
    <3>4. Options[l] = {opts \in Seq(OptionsOver(Options[k])) :
                          opts # <<>> => Tail(opts) \in Options[k]}
      BY <3>1, OptionsAbove
    <3>5. Seq(OptionsOver(Options[m])) \subseteq Seq(OptionsOver(Options[k]))
      BY <3>2, OptionsOverGrows
    <3>6. Options[k] \subseteq Options[l]
      BY <3>2, <3>3, <3>4, <3>5
    <3>7. QED
      BY <3>1, <3>6 DEF k, l
  <2> HIDE DEF T
  <2>3. \A i \in 0..(MaxRank - 1) : i \in T
    <3>1. MaxRank - 1 \in Nat
      BY <1>0, <1>2
    <3>2. QED
      BY <2>1, <2>2, <3>1, Induction
  <2>4. QED
    BY <2>3 DEF T
<1>3. QED
  BY <1>1, <1>2

(* The same for any number of ranks.                                       *)
LEMMA RanksGrow ==
  \A d \in 0..MaxRank : \A k \in 0..(MaxRank - d) : Options[d] \subseteq Options[d + k]
<1> TAKE d \in 0..MaxRank
<1> DEFINE T == {k \in 0..(MaxRank - d) : Options[d] \subseteq Options[d + k]}
<1>0. MaxRank \in Nat /\ MaxRank - d \in Nat
  BY RankType
<1>1. 0 \in T
  BY <1>0
<1>2. ASSUME NEW k \in 0..((MaxRank - d) - 1), k \in T
      PROVE  k + 1 \in T
  <2> DEFINE n == d + k
  <2>1. n \in 0..(MaxRank - 1) /\ n + 1 = d + (k + 1) /\ k + 1 \in 0..(MaxRank - d)
    BY <1>0
  <2>2. Options[d] \subseteq Options[n]
    BY <1>2
  <2> HIDE DEF n
  <2>3. Options[n] \subseteq Options[n + 1]
    BY <2>1, NextRank
  <2>4. Options[d] \subseteq Options[d + (k + 1)]
    BY <2>1, <2>2, <2>3
  <2>5. QED
    BY <2>1, <2>4
<1> HIDE DEF T
<1>3. \A k \in 0..(MaxRank - d) : k \in T
  BY <1>0, <1>1, <1>2, Induction
<1>4. QED
  BY <1>3 DEF T

(* A list of k options over lists of rank d has rank d + k.                *)
LEMMA ListRank ==
  \A d \in 0..MaxRank : \A k \in 0..(MaxRank - d) :
    \A s \in Seq(OptionsOver(Options[d])) : Len(s) = k => s \in Options[d + k]
<1> TAKE d \in 0..MaxRank
<1> DEFINE S == OptionsOver(Options[d])
           T == {k \in 0..(MaxRank - d) :
                   \A s \in Seq(S) : Len(s) = k => s \in Options[d + k]}
<1>0. MaxRank \in Nat /\ MaxRank - d \in Nat
  BY RankType
<1> HIDE DEF S
<1>1. 0 \in T
  <2>1. \A s \in Seq(S) : Len(s) = 0 => s = <<>>
    BY EmptySeq
  <2>2. <<>> \in Options[d]
    BY EmptyIsOptions
  <2>3. d + 0 = d /\ 0 \in 0..(MaxRank - d)
    BY <1>0
  <2>4. QED
    BY <2>1, <2>2, <2>3
<1>2. ASSUME NEW k \in 0..((MaxRank - d) - 1), k \in T
      PROVE  k + 1 \in T
  <2> DEFINE m == d + k
             n == d + (k + 1)
  <2>1. /\ n \in 0..MaxRank /\ n # 0 /\ m = n - 1
        /\ k \in 0..(MaxRank - d) /\ k + 1 \in 0..(MaxRank - d) /\ k + 1 # 0
    BY <1>0
  <2>2. \A s \in Seq(S) : Len(s) = k => s \in Options[m]
    BY <1>2
  <2>3. Options[d] \subseteq Options[m]
    BY <2>1, RanksGrow
  <2> HIDE DEF m, n
  <2>4. Seq(S) \subseteq Seq(OptionsOver(Options[m]))
    BY <2>3, OptionsOverGrows DEF S
  <2>5. ASSUME NEW s \in Seq(S), Len(s) = k + 1
        PROVE  s \in Options[n]
    <3>1. s # <<>>
      BY <2>1, <2>5, EmptySeq
    <3>2. Tail(s) \in Seq(S) /\ Len(Tail(s)) = Len(s) - 1
      BY <3>1, HeadTailProperties
    <3>3. Len(Tail(s)) = k
      BY <2>1, <2>5, <3>2
    <3>4. Tail(s) \in Options[m]
      BY <2>2, <3>2, <3>3
    <3>5. Options[n] = {opts \in Seq(OptionsOver(Options[m])) :
                          opts # <<>> => Tail(opts) \in Options[m]}
      BY <2>1, OptionsAbove
    <3>6. QED
      BY <2>4, <3>4, <3>5
  <2>6. QED
    BY <2>1, <2>5 DEF n
<1> HIDE DEF T
<1>3. \A k \in 0..(MaxRank - d) : k \in T
  BY <1>0, <1>1, <1>2, Induction
<1>4. QED
  BY <1>3 DEF S, T

(* Options of a message: what is nested in them is of the client's, or a   *)
(* list of leases.                                                         *)
ReplyRank == Nesting + Len(Leases)
Items == OptionsOver(Options[ReplyRank])

(* Where the rank of the lists nested in an option of a message is.        *)
LEMMA ReplyRankType ==
  /\ ReplyRank \in 0..MaxRank /\ MaxRank - ReplyRank = MaxOptions + 5
  /\ Nesting \in 0..MaxRank /\ Len(Leases) \in 0..MaxRank
  /\ ReplyRank - Nesting = Len(Leases) /\ ReplyRank - Len(Leases) = Nesting
  /\ Nesting \in Nat /\ Len(Leases) \in Nat
<1>1. Len(Leases) \in Nat
  BY ServerAssumption, LenProperties
<1>2. Nesting \in Nat /\ MaxOptions \in Nat
  BY ClientAssumption
<1>3. QED
  BY <1>1, <1>2 DEF ReplyRank, MaxRank

(* Messages of the client and of the server are below the highest rank.    *)
LEMMA MessageRank ==
  \A s \in Seq(Items) : Len(s) <= MaxOptions + 5 => s \in Options[MaxRank]
<1> TAKE s \in Seq(Items)
<1> SUFFICES ASSUME Len(s) <= MaxOptions + 5 PROVE s \in Options[MaxRank]
  OBVIOUS
<1> DEFINE k == Len(s)
           n == ReplyRank + k
           j == MaxRank - n
<1>0. MaxRank \in Nat /\ ReplyRank \in 0..MaxRank /\ MaxRank - ReplyRank = MaxOptions + 5
  BY RankType, ReplyRankType
<1>1. k \in Nat
  BY LenProperties
<1>2. /\ k \in 0..(MaxRank - ReplyRank) /\ n \in 0..MaxRank
      /\ j \in 0..(MaxRank - n) /\ n + j = MaxRank
  BY <1>0, <1>1
<1>3. s \in Options[n]
  BY <1>0, <1>2, ListRank DEF Items
<1>4. Options[n] \subseteq Options[n + j]
  <2> HIDE DEF n, j
  <2>1. QED
    BY <1>2, RanksGrow
<1> HIDE DEF n, j
<1>5. QED
  BY <1>2, <1>3, <1>4

(* The options of a client are options of a message.                       *)
LEMMA ClientItems == ClientOptions \subseteq Items
<1>1. Options[Nesting] \subseteq Options[ReplyRank]
  <2> DEFINE k == Len(Leases)
  <2>1. Nesting \in 0..MaxRank /\ k \in 0..(MaxRank - Nesting) /\ Nesting + k = ReplyRank
    BY ReplyRankType, RankType
  <2> HIDE DEF k
  <2>2. Options[Nesting] \subseteq Options[Nesting + k]
    BY <2>1, RanksGrow
  <2>3. QED
    BY <2>1, <2>2
<1>2. OptionsOver(Options[Nesting]) \subseteq OptionsOver(Options[ReplyRank])
  BY <1>1 DEF OptionsOver
<1>3. QED
  BY <1>2, ClientAssumption DEF Items

-----------------------------------------------------------------------------
(* Lists of addresses, and lists of options that hold nothing else and of  *)
(* which only the last is copied into all of what is left.                 *)
AddressList(opts) ==
  \A i \in 1..Len(opts) : opts[i].code = Code.IaAddr /\ opts[i].opts = <<>>

ReplyList(opts) ==
  \A i \in 1..Len(opts) :
    /\ AddressList(opts[i].opts)
    /\ CopiesWhole(opts[i].code) => i = Len(opts)

(* The empty list has no option that copies into all of a buffer.          *)
LEMMA EmptyIsAddressList == AddressList(<<>>)
BY DEF AddressList

(* The places of the options of a list in its tail.                        *)
LEMMA FirstAndOthers ==
  \A n \in 0..MaxRank : \A opts \in Options[n] : opts # <<>> =>
    /\ Head(opts) = opts[1] /\ 1 \in 1..Len(opts)
    /\ \A i \in 1..Len(Tail(opts)) :
         /\ Tail(opts)[i] = opts[i + 1] /\ i + 1 \in 1..Len(opts)
         /\ i + 1 = Len(opts) => i = Len(Tail(opts))
    /\ 1 = Len(opts) => Tail(opts) = <<>>
<1> TAKE n \in 0..MaxRank
<1> TAKE opts \in Options[n]
<1> SUFFICES ASSUME opts # <<>>
             PROVE  /\ Head(opts) = opts[1] /\ 1 \in 1..Len(opts)
                    /\ \A i \in 1..Len(Tail(opts)) :
                         /\ Tail(opts)[i] = opts[i + 1] /\ i + 1 \in 1..Len(opts)
                         /\ i + 1 = Len(opts) => i = Len(Tail(opts))
                    /\ 1 = Len(opts) => Tail(opts) = <<>>
  OBVIOUS
<1> DEFINE S == OptionsOver(Options[n - 1])
<1>1. opts \in Seq(S)
  BY RankStep
<1> HIDE DEF S
<1> DEFINE t == Tail(opts)
           k == Len(opts)
           l == Len(t)
<1>2. k \in Nat /\ k # 0 /\ l = k - 1
  BY <1>1, EmptySeq, LenProperties, HeadTailProperties
<1>3. t \in Seq(S) /\ (l = 0 => t = <<>>)
  <2>1. t \in Seq(S)
    BY <1>1, HeadTailProperties
  <2> HIDE DEF t
  <2>2. QED
    BY <2>1, EmptySeq
<1>4. \A i \in 1..l : t[i] = opts[i + 1]
  BY <1>1, HeadTailProperties
<1>5. Head(opts) = opts[1]
  OBVIOUS
<1> HIDE DEF k, l, t
<1>6. 1 \in 1..k /\ (1 = k => l = 0)
  BY <1>2
<1>7. \A i \in 1..l : i + 1 \in 1..k /\ (i + 1 = k => i = l)
  BY <1>2
<1>8. QED
  BY <1>3, <1>4, <1>5, <1>6, <1>7 DEF k, l, t

(* Lists of addresses are copied whatever the room.                        *)
LEMMA AddressesCopied ==
  \A n \in 0..MaxRank : \A opts \in Options[n] :
    AddressList(opts) => \A w \in Nat : Copies(n, w, opts)
<1> DEFINE T == {n \in 0..MaxRank : \A opts \in Options[n] :
                   AddressList(opts) => \A w \in Nat : Copies(n, w, opts)}
<1>1. 0 \in T
  <2>1. 0 \in 0..MaxRank
    BY RankType
  <2>2. QED
    BY <2>1, NoOptions, EmptyCopies
<1>2. ASSUME NEW m \in 0..(MaxRank - 1), m \in T
      PROVE  m + 1 \in T
  <2> DEFINE n == m + 1
  <2>1. n \in 0..MaxRank /\ n - 1 = m /\ m \in 0..MaxRank
    BY RankType
  <2> HIDE DEF n
  <2>2. ASSUME NEW opts \in Options[n], AddressList(opts), NEW w \in Nat
        PROVE  Copies(n, w, opts)
    <3>1. CASE opts = <<>>
      BY <2>1, <3>1, EmptyCopies
    <3>2. CASE opts # <<>>
      <4>1. Tail(opts) \in Options[m]
        BY <2>1, <3>2, RankStep
      <4>2. Head(opts).code = Code.IaAddr /\ Head(opts).opts = <<>>
        BY <2>1, <2>2, <3>2, FirstAndOthers DEF AddressList
      <4>3. AddressList(Tail(opts))
        BY <2>1, <2>2, <3>2, FirstAndOthers DEF AddressList
      <4>4. Copies(m, w, Tail(opts))
        BY <1>2, <4>1, <4>3
      <4>5. Head(opts).code \in Nat /\ ~CopiesWhole(Head(opts).code)
        BY <4>2, CodeIsNat, ContainersDoNot DEF Containers
      <4>6. Copies(m, Head(opts).code, Head(opts).opts)
        BY <2>1, <4>2, <4>5, EmptyCopies
      <4>7. Copies(n - 1, Head(opts).code, Head(opts).opts) /\ Copies(n - 1, w, Tail(opts))
        BY <2>1, <4>4, <4>6
      <4>8. QED
        BY <2>1, <3>2, <4>5, <4>7, CopiesStep
    <3>3. QED
      BY <3>1, <3>2
  <2>3. QED
    BY <2>1, <2>2 DEF n
<1> HIDE DEF T
<1>3. \A i \in 0..MaxRank : i \in T
  BY <1>1, <1>2, RankType, Induction
<1>4. QED
  BY <1>3 DEF T

(* Lists as they are in replies are copied into just their room.           *)
LEMMA RepliesCopied ==
  \A n \in 0..MaxRank : \A opts \in Options[n] :
    ReplyList(opts) => \A w \in Nat : CopiesExactly(n, w, opts)
<1> DEFINE T == {n \in 0..MaxRank : \A opts \in Options[n] :
                   ReplyList(opts) => \A w \in Nat : CopiesExactly(n, w, opts)}
<1>1. 0 \in T
  <2>1. 0 \in 0..MaxRank
    BY RankType
  <2>2. QED
    BY <2>1, NoOptions, EmptyCopies
<1>2. ASSUME NEW m \in 0..(MaxRank - 1), m \in T
      PROVE  m + 1 \in T
  <2> DEFINE n == m + 1
  <2>1. n \in 0..MaxRank /\ n - 1 = m /\ m \in 0..MaxRank
    BY RankType
  <2> HIDE DEF n
  <2>2. ASSUME NEW opts \in Options[n], ReplyList(opts), NEW w \in Nat
        PROVE  CopiesExactly(n, w, opts)
    <3>1. CASE opts = <<>>
      BY <2>1, <3>1, EmptyCopies
    <3>2. CASE opts # <<>>
      <4>1. Tail(opts) \in Options[m] /\ Head(opts) \in OptionsOver(Options[m])
        BY <2>1, <3>2, RankStep
      <4>2. AddressList(Head(opts).opts) /\ WholeIsLast(opts)
        BY <2>1, <2>2, <3>2, FirstAndOthers DEF ReplyList, WholeIsLast
      <4>3. ReplyList(Tail(opts))
        BY <2>1, <2>2, <3>2, FirstAndOthers DEF ReplyList
      <4>4. CopiesExactly(m, w, Tail(opts))
        BY <1>2, <4>1, <4>3
      <4>5. Head(opts).code \in Nat /\ Head(opts).opts \in Options[m]
        BY <4>1, OptionIs
      <4>6. Copies(m, Head(opts).code, Head(opts).opts)
        BY <2>1, <4>2, <4>5, AddressesCopied
      <4>7. /\ Copies(n - 1, Head(opts).code, Head(opts).opts)
            /\ CopiesExactly(n - 1, w, Tail(opts))
        BY <2>1, <4>4, <4>6
      <4>8. QED
        BY <2>1, <3>2, <4>2, <4>7, CopiesExactlyStep
    <3>3. QED
      BY <3>1, <3>2
  <2>3. QED
    BY <2>1, <2>2 DEF n
<1> HIDE DEF T
<1>3. \A i \in 0..MaxRank : i \in T
  BY <1>1, <1>2, RankType, Induction
<1>4. QED
  BY <1>3 DEF T

-----------------------------------------------------------------------------
(* Messages: what a client wrote is parsed for what it meant, and what the *)
(* server means to say is written.                                         *)
LEMMA PairFirst ==
  \A x, y \in Nat : \A e \in Seq(Nat) :
    /\ (<<x, y>> \o e)[1] = x /\ (<<x, y>> \o e)[2] = y
    /\ Len(<<x, y>> \o e) = 2 + Len(e) /\ After(<<x, y>> \o e, 2) = e
<1> TAKE x, y \in Nat
<1> TAKE e \in Seq(Nat)
<1> DEFINE p == <<x, y>>
           b == p \o e
<1>1. p \in Seq(Nat) /\ Len(p) = 2 /\ p[1] = x /\ p[2] = y
  BY PairProperties
<1> HIDE DEF p
<1>2. /\ Len(b) = Len(p) + Len(e)
      /\ \A i \in 1..(Len(p) + Len(e)) :
           b[i] = IF i <= Len(p) THEN p[i] ELSE e[i - Len(p)]
  BY <1>1, ConcatProperties
<1>3. Len(e) \in Nat
  BY LenProperties
<1>4. After(b, Len(p)) = e
  BY <1>1, AfterFirst
<1> HIDE DEF b
<1>5. 1 \in 1..(Len(p) + Len(e)) /\ 2 \in 1..(Len(p) + Len(e))
  BY <1>1, <1>3
<1>6. b[1] = x /\ b[2] = y
  BY <1>1, <1>2, <1>5
<1>7. Len(b) = 2 + Len(e) /\ After(b, 2) = e
  BY <1>1, <1>2, <1>4
<1>8. QED
  BY <1>6, <1>7 DEF b, p

Messages == [typ : Nat, xid : Nat, options : Options[MaxRank]]

(* Message::from_bytes(): a message of any options, nested to any depth,   *)
(* in any order, whether the code knows them or not, is taken for just     *)
(* that, unless it has no options.  What is nested counts, although no     *)
(* length of an option is used but to cut out its data.                    *)
THEOREM MessageParsed ==
  \A m \in Messages :
    MessageFrom(Encoding(m)) = IF m.options = <<>> THEN {} ELSE {m}
<1> TAKE m \in Messages
<1> DEFINE opts == m.options
           e == EncodedOptions[MaxRank][opts]
           b == Encoding(m)
<1>0. MaxRank \in Nat /\ MaxRank \in 0..MaxRank
  BY RankType
<1>1. /\ m.typ \in Nat /\ m.xid \in Nat /\ opts \in Options[MaxRank]
      /\ m = Message(m.typ, m.xid, opts)
  BY DEF Messages, Message
<1>2. /\ e \in Seq(Nat) /\ (opts = <<>> => e = <<>>)
      /\ OptionsFrom[MaxRank][e] = {opts}
  BY <1>0, <1>1, AllParsable DEF Parsable
<1>3. opts # <<>> => e # <<>>
  <2>1. ASSUME opts # <<>>
        PROVE  e # <<>>
    <3>1. Len(e) = (2 + Len(FirstData(MaxRank, opts))) + Len(Others(MaxRank, opts))
      BY <1>0, <1>1, <2>1, EncodingOf
    <3>2. FirstData(MaxRank, opts) \in Seq(Nat) /\ Others(MaxRank, opts) \in Seq(Nat)
      BY <1>0, <1>1, <2>1, EncodingOf
    <3>3. Len(FirstData(MaxRank, opts)) \in Nat /\ Len(Others(MaxRank, opts)) \in Nat
      BY <3>2, LenProperties
    <3>4. Len(e) # 0
      BY <3>1, <3>3
    <3>5. QED
      BY <3>4
  <2>2. QED
    BY <2>1
<1>4. b = <<m.typ, m.xid>> \o e
  BY DEF Encoding
<1> HIDE DEF e, opts, b
<1>5. b[1] = m.typ /\ b[2] = m.xid /\ Len(b) = 2 + Len(e) /\ After(b, 2) = e
  BY <1>1, <1>2, <1>4, PairFirst
<1>6. Len(e) \in Nat /\ (e # <<>> => Len(e) # 0) /\ (e = <<>> => Len(e) = 0)
  BY <1>2, LenProperties, EmptySeq
<1>7. CASE opts = <<>>
  <2>1. Len(b) <= 2
    BY <1>2, <1>5, <1>6, <1>7
  <2>2. MessageFrom(b) = {}
    BY <2>1 DEF MessageFrom, DATA
  <2>3. QED
    BY <1>7, <2>2 DEF opts, b
<1>8. CASE opts # <<>>
  <2>1. ~(Len(b) <= 2)
    BY <1>3, <1>5, <1>6, <1>8
  <2>2. MessageFrom(b) = {Message(b[1], b[2], x) : x \in OptionsFrom[MaxRank][After(b, 2)]}
    BY <2>1 DEF MessageFrom, DATA
  <2>3. MessageFrom(b) = {Message(m.typ, m.xid, x) : x \in {opts}}
    BY <1>2, <1>5, <2>2
  <2>4. MessageFrom(b) = {m}
    BY <1>1, <2>3
  <2>5. QED
    BY <1>8, <2>4 DEF opts, b
<1>9. QED
  BY <1>7, <1>8

(* Message::copy_into(): a message in which what copies into all of a      *)
(* buffer comes last, and nothing but addresses is nested, is written,     *)
(* into a buffer of just Message::buffer_len() cells and as RFC 8415 has   *)
(* it.                                                                     *)
THEOREM MessageWritten ==
  \A m \in Messages : ReplyList(m.options) => Written(m) = {Encoding(m)}
<1> TAKE m \in Messages
<1> SUFFICES ASSUME ReplyList(m.options) PROVE Written(m) = {Encoding(m)}
  OBVIOUS
<1> DEFINE opts == m.options
           e == EncodedOptions[MaxRank][opts]
           k == OptionLen[MaxRank][opts]
           empty == [i \in 1 .. k |-> 0]
<1>0. MaxRank \in Nat /\ MaxRank \in 0..MaxRank
  BY RankType
<1>1. opts \in Options[MaxRank]
  BY DEF Messages
<1>2. e \in Seq(Nat) /\ k = Len(e)
  BY <1>0, <1>1, AllParsable DEF Parsable
<1>3. k \in Nat
  BY <1>2, LenProperties
<1>4. empty \in Seq(Nat) /\ Len(empty) = k
  BY <1>3
<1>5. CopiesExactly(MaxRank, InMessage, opts)
  BY <1>0, <1>1, RepliesCopied DEF InMessage
<1>6. \A b \in Seq(Nat) : Len(b) = Len(e) => CopyAll[MaxRank][<<InMessage, opts, b>>] = {e}
  BY <1>5 DEF CopiesExactly
<1>7. Written(m) = {<<m.typ, m.xid>> \o b : b \in CopyAll[MaxRank][<<InMessage, opts, empty>>]}
  BY DEF Written
<1> HIDE DEF e, k, empty, opts
<1>8. CopyAll[MaxRank][<<InMessage, opts, empty>>] = {e}
  BY <1>2, <1>4, <1>6
<1>9. Written(m) = {<<m.typ, m.xid>> \o e}
  BY <1>7, <1>8
<1>10. QED
  BY <1>9 DEF Encoding, e, opts

-----------------------------------------------------------------------------
(* The first option of a type: there is none, or it is one of the list.    *)
First(s, code) ==
  LET at == {i \in DOMAIN s : s[i].code = code}
  IN {s[i] : i \in {j \in at : \A k \in at : j <= k}}

(* find_option() is the first of a list.                                   *)
LEMMA FindIsFirst == \A m, code : FindOption(m, code) = First(m.options, code)
BY DEF FindOption, First

(* A set of numbers has one least element.                                 *)
LEMMA LeastIsOne ==
  \A T \in SUBSET Nat :
    T # {} => \E n \in T : {j \in T : \A k \in T : j <= k} = {n}
<1> TAKE T \in SUBSET Nat
<1> SUFFICES ASSUME T # {}
             PROVE  \E n \in T : {j \in T : \A k \in T : j <= k} = {n}
  OBVIOUS
<1>1. PICK n \in T : \A k \in T : n <= k
  BY NatLeast
<1>2. \A j \in T : (\A k \in T : j <= k) => j = n
  <2>1. \A j \in T : j <= n /\ n <= j => j = n
    OBVIOUS
  <2>2. QED
    BY <1>1, <2>1
<1>3. {j \in T : \A k \in T : j <= k} = {n}
  BY <1>1, <1>2
<1>4. QED
  BY <1>3

(* Where the first is.                                                     *)
LEMMA FirstAt ==
  \A S : \A s \in Seq(S) : \A code :
    \/ First(s, code) = {} /\ \A i \in 1..Len(s) : s[i].code # code
    \/ \E n \in 1..Len(s) : /\ First(s, code) = {s[n]} /\ s[n].code = code
                            /\ \A i \in 1..Len(s) : s[i].code = code => n <= i
<1> TAKE S
<1> TAKE s \in Seq(S)
<1> TAKE code
<1> DEFINE at == {i \in DOMAIN s : s[i].code = code}
           best == {j \in at : \A k \in at : j <= k}
<1>1. DOMAIN s = 1..Len(s) /\ Len(s) \in Nat
  BY LenProperties
<1>2. at \in SUBSET Nat /\ at \subseteq 1..Len(s)
      /\ \A i \in 1..Len(s) : i \in at <=> s[i].code = code
  BY <1>1
<1>3. First(s, code) = {s[i] : i \in best}
  BY DEF First
<1> HIDE DEF at
<1>4. CASE at = {}
  <2>1. best = {}
    BY <1>4
  <2> HIDE DEF best
  <2>2. First(s, code) = {}
    BY <1>3, <2>1
  <2>3. QED
    BY <1>2, <1>4, <2>2
<1>5. CASE at # {}
  <2>1. PICK n \in at : best = {n}
    BY <1>2, <1>5, LeastIsOne
  <2>2. \A k \in at : n <= k
    BY <2>1
  <2> HIDE DEF best
  <2>3. First(s, code) = {s[n]}
    BY <1>3, <2>1
  <2>4. n \in 1..Len(s) /\ s[n].code = code
    BY <1>2
  <2>5. \A i \in 1..Len(s) : s[i].code = code => n <= i
    BY <1>2, <2>2
  <2>6. QED
    BY <2>3, <2>4, <2>5
<1>6. QED
  BY <1>4, <1>5

(* Nothing is found of a type no option has.                               *)
LEMMA NoneFound ==
  \A S : \A s \in Seq(S) : \A code :
    First(s, code) = {} <=> \A i \in 1..Len(s) : s[i].code # code
<1> TAKE S
<1> TAKE s \in Seq(S)
<1> TAKE code
<1>1. CASE First(s, code) = {} /\ \A i \in 1..Len(s) : s[i].code # code
  BY <1>1
<1>2. CASE \E n \in 1..Len(s) : First(s, code) = {s[n]} /\ s[n].code = code
  <2>1. PICK n \in 1..Len(s) : First(s, code) = {s[n]} /\ s[n].code = code
    BY <1>2
  <2>2. First(s, code) # {}
    BY <2>1
  <2>3. QED
    BY <2>1, <2>2
<1>3. QED
  BY <1>1, <1>2, FirstAt

(* What is found is one option of the list, of that type.                  *)
LEMMA FoundIs ==
  \A S : \A s \in Seq(S) : \A code :
    First(s, code) = {} \/ \E x \in S : x.code = code /\ First(s, code) = {x}
<1> TAKE S
<1> TAKE s \in Seq(S)
<1> TAKE code
<1>1. CASE First(s, code) = {}
  BY <1>1
<1>2. CASE First(s, code) # {}
  <2>1. PICK n \in 1..Len(s) : First(s, code) = {s[n]} /\ s[n].code = code
    BY <1>2, FirstAt
  <2>2. s[n] \in S
    BY ElementOfSeq
  <2>3. QED
    BY <2>1, <2>2
<1>3. QED
  BY <1>1, <1>2

(* What is found in a list of one option.                                  *)
LEMMA FirstOfOne ==
  \A x, code : First(<<x>>, code) = IF x.code = code THEN {x} ELSE {}
<1> TAKE x, code
<1> DEFINE s == <<x>>
<1>1. DOMAIN s = {1} /\ s[1] = x
  OBVIOUS
<1> HIDE DEF s
<1>2. First(s, code) = {s[i] : i \in {j \in {i \in {1} : s[i].code = code} :
                                      \A k \in {i \in {1} : s[i].code = code} : j <= k}}
  BY <1>1 DEF First
<1>3. CASE x.code = code
  <2>1. {i \in {1} : s[i].code = code} = {1}
    BY <1>1, <1>3
  <2>2. {j \in {1} : \A k \in {1} : j <= k} = {1}
    OBVIOUS
  <2>3. First(s, code) = {s[1]}
    BY <1>2, <2>1, <2>2
  <2>4. QED
    BY <1>1, <1>3, <2>3 DEF s
<1>4. CASE x.code # code
  <2>1. {i \in {1} : s[i].code = code} = {}
    BY <1>1, <1>4
  <2>2. First(s, code) = {}
    BY <1>2, <2>1
  <2>3. QED
    BY <1>4, <2>2 DEF s
<1>5. QED
  BY <1>3, <1>4

(* Nothing is found in the empty list.                                     *)
LEMMA FirstOfNone == \A code : First(<<>>, code) = {}
<1> TAKE code
<1>1. DOMAIN <<>> = {}
  OBVIOUS
<1>2. QED
  BY <1>1 DEF First

(* In two lists, one after the other, it is the first of the first list    *)
(* that has any.                                                           *)
LEMMA FirstOfBoth ==
  \A S : \A a, b \in Seq(S) : \A code :
    First(a \o b, code) =
      IF First(a, code) # {} THEN First(a, code) ELSE First(b, code)
<1> TAKE S
<1> TAKE a, b \in Seq(S)
<1> TAKE code
<1> DEFINE ab == a \o b
           k == Len(a)
           l == Len(b)
<1>1. ab \in Seq(S) /\ Len(ab) = k + l
  BY ConcatProperties
<1>2. k \in Nat /\ l \in Nat
  BY LenProperties
<1>3. \A i \in 1..(k + l) : ab[i] = IF i <= k THEN a[i] ELSE b[i - k]
  BY ConcatProperties
<1> HIDE DEF ab
<1>4. \A i \in 1..k : i \in 1..(k + l) /\ ab[i] = a[i]
  BY <1>2, <1>3
<1>5. \A i \in 1..l : k + i \in 1..(k + l) /\ ab[k + i] = b[i]
  <2>1. ASSUME NEW i \in 1..l
        PROVE  k + i \in 1..(k + l) /\ ~(k + i <= k) /\ (k + i) - k = i
    BY <1>2
  <2>2. ASSUME NEW i \in 1..l
        PROVE  k + i \in 1..(k + l) /\ ab[k + i] = b[(k + i) - k]
    BY <1>3, <2>1
  <2>3. QED
    BY <2>1, <2>2
<1>6. CASE First(a, code) # {}
  <2>1. PICK n \in 1..k : /\ First(a, code) = {a[n]} /\ a[n].code = code
                          /\ \A i \in 1..k : a[i].code = code => n <= i
    BY <1>6, FirstAt
  <2>2. First(ab, code) # {}
    <3>1. n \in 1..Len(ab) /\ ab[n].code = code
      BY <1>1, <1>4, <2>1
    <3>2. QED
      BY <1>1, <3>1, NoneFound
  <2>3. PICK m \in 1..(k + l) : /\ First(ab, code) = {ab[m]} /\ ab[m].code = code
                                /\ \A i \in 1..(k + l) : ab[i].code = code => m <= i
    BY <1>1, <2>2, FirstAt
  <2>4. m <= n
    BY <1>4, <2>1, <2>3
  <2>5. m \in 1..k
    BY <1>2, <2>4
  <2>6. ab[m] = a[m] /\ n <= m
    BY <1>4, <2>1, <2>3, <2>5
  <2>7. m = n
    BY <2>4, <2>6
  <2>8. QED
    BY <1>6, <2>1, <2>3, <2>6, <2>7 DEF ab
<1>7. CASE First(a, code) = {} /\ First(b, code) # {}
  <2>1. PICK n \in 1..l : /\ First(b, code) = {b[n]} /\ b[n].code = code
                          /\ \A i \in 1..l : b[i].code = code => n <= i
    BY <1>7, FirstAt
  <2>2. \A i \in 1..k : a[i].code # code
    BY <1>7, NoneFound
  <2>3. First(ab, code) # {}
    <3>1. k + n \in 1..Len(ab) /\ ab[k + n].code = code
      BY <1>1, <1>5, <2>1
    <3>2. QED
      BY <1>1, <3>1, NoneFound
  <2>4. PICK m \in 1..(k + l) : /\ First(ab, code) = {ab[m]} /\ ab[m].code = code
                                /\ \A i \in 1..(k + l) : ab[i].code = code => m <= i
    BY <1>1, <2>3, FirstAt
  <2>5. m \notin 1..k
    BY <1>4, <2>2, <2>4
  <2> DEFINE j == m - k
  <2>6. j \in 1..l /\ k + j = m
    BY <1>2, <2>5
  <2> HIDE DEF j
  <2>7. ab[m] = b[j]
    BY <1>5, <2>6
  <2>8. n <= j
    BY <2>1, <2>4, <2>6, <2>7
  <2>9. m <= k + n
    BY <1>5, <2>1, <2>4
  <2>10. j = n
    BY <1>2, <2>6, <2>8, <2>9
  <2>11. QED
    BY <1>7, <2>1, <2>4, <2>7, <2>10 DEF ab
<1>8. CASE First(a, code) = {} /\ First(b, code) = {}
  <2>1. \A i \in 1..k : a[i].code # code
    BY <1>8, NoneFound
  <2>2. \A i \in 1..l : b[i].code # code
    BY <1>8, NoneFound
  <2>3. ASSUME First(ab, code) # {}
        PROVE  FALSE
    <3>1. PICK m \in 1..(k + l) : ab[m].code = code
      BY <1>1, <2>3, FirstAt
    <3>2. m \notin 1..k
      BY <1>4, <2>1, <3>1
    <3>3. m - k \in 1..l /\ k + (m - k) = m
      BY <1>2, <3>2
    <3>4. ab[k + (m - k)] = b[m - k]
      BY <1>5, <3>3
    <3>5. QED
      BY <2>2, <3>1, <3>3, <3>4
  <2>4. QED
    BY <1>8, <2>3 DEF ab
<1>9. QED
  BY <1>6, <1>7, <1>8

(* A list of at most one option, of a set of at most one.                  *)
LEMMA SetAsSeqOf ==
  /\ SetAsSeq({}) = <<>>
  /\ \A x : SetAsSeq({x}) = <<x>>
<1>1. \A x : (CHOOSE y \in {x} : TRUE) = x
  OBVIOUS
<1>2. QED
  BY <1>1 DEF SetAsSeq

-----------------------------------------------------------------------------
(* What replies are made of: options that hold nothing but addresses and   *)
(* do not have to come last.                                               *)
GoodItems == {o \in Items : AddressList(o.opts) /\ ~CopiesWhole(o.code)}

(* An option of a message may have nothing nested in it.                   *)
LEMMA NothingNested == <<>> \in Options[ReplyRank]
BY ReplyRankType, EmptyIsOptions

(* What is not an association is an option of a message.                   *)
LEMMA PlainIsItem ==
  \A code \in Nat : \A head \in Seq(Nat) :
    /\ code \notin Containers /\ WellSized(code, head)
    /\ code = Code.RapidCommit => head = <<>>
    => Plain(code, head) \in Items
<1> TAKE code \in Nat
<1> TAKE head \in Seq(Nat)
<1> SUFFICES ASSUME code \notin Containers, WellSized(code, head),
                    code = Code.RapidCommit => head = <<>>
             PROVE  Plain(code, head) \in Items
  OBVIOUS
<1> DEFINE o == Plain(code, head)
<1>1. /\ o \in [code : Nat, head : Seq(Nat), opts : Options[ReplyRank]]
      /\ o.code = code /\ o.head = head /\ o.opts = <<>>
  BY NothingNested DEF Plain, Opt
<1> HIDE DEF o
<1>2. Holds(o)
  BY <1>1 DEF Holds
<1>3. QED
  BY <1>1, <1>2 DEF Items, OptionsOver, o

(* Identifiers and the servers of names may be anywhere in a reply.        *)
LEMMA PlainIsGood ==
  \A code \in {Code.ClientId, Code.ServerId, Code.DnsServers} : \A head \in Seq(Nat) :
    Plain(code, head) \in GoodItems
<1> TAKE code \in {Code.ClientId, Code.ServerId, Code.DnsServers}
<1> TAKE head \in Seq(Nat)
<1>1. code \in Nat /\ code \in {1, 2, 23}
  BY CodeIsNat
<1>2. code \notin Containers /\ WellSized(code, head) /\ code # Code.RapidCommit
  BY <1>1, CodeIsNat DEF Containers, WellSized
<1>3. Plain(code, head) \in Items
  BY <1>1, <1>2, PlainIsItem
<1>4. ~CopiesWhole(code)
  <2>1. code \in Known
    BY DEF Known, Code
  <2>2. QED
    BY <1>1, <2>1, CodeIsNat DEF CopiesWhole
<1>5. Plain(code, head).opts = <<>> /\ Plain(code, head).code = code
  BY DEF Plain, Opt
<1>6. QED
  BY <1>3, <1>4, <1>5, EmptyIsAddressList DEF GoodItems

(* So may RapidCommit.                                                     *)
LEMMA RapidCommitIsGood == Plain(Code.RapidCommit, <<>>) \in GoodItems
<1> DEFINE code == Code.RapidCommit
           head == <<>>
<1>0. head \in Seq(Nat) /\ head = <<>>
  OBVIOUS
<1>1. code \in Nat /\ code = 14
  BY CodeIsNat
<1>2. code \notin Containers /\ code # Code.ElapsedTime /\ code # Code.StatusCode
  BY <1>1, CodeIsNat DEF Containers
<1> HIDE DEF head
<1>3. Plain(code, head) \in Items
  BY <1>0, <1>1, <1>2, PlainIsItem DEF WellSized
<1>4. ~CopiesWhole(code)
  <2>1. code \in Known
    BY DEF Known, Code
  <2>2. QED
    BY <1>1, <2>1, CodeIsNat DEF CopiesWhole
<1>5. Plain(code, head).opts = <<>> /\ Plain(code, head).code = code
  BY DEF Plain, Opt
<1>6. QED
  BY <1>3, <1>4, <1>5, EmptyIsAddressList DEF GoodItems, head

(* What an option of a message is made of.                                 *)
LEMMA ItemIs ==
  \A x \in Items :
    /\ x.code \in Nat /\ x.head \in Seq(Nat) /\ x.opts \in Options[ReplyRank]
    /\ Holds(x) /\ x = Opt(x.code, x.head, x.opts)
<1> TAKE x \in Items
<1> DEFINE lists == Options[ReplyRank]
<1>1. x \in OptionsOver(lists)
  BY DEF Items
<1> HIDE DEF lists
<1>2. /\ x.code \in Nat /\ x.head \in Seq(Nat) /\ x.opts \in lists
      /\ Holds(x) /\ x = Opt(x.code, x.head, x.opts)
  BY <1>1, OptionIs
<1>3. QED
  BY <1>2 DEF lists

(* The client's id, as it came.                                            *)
LEMMA ClientIdIsGood == \A x \in Items : x.code = Code.ClientId => x \in GoodItems
<1> TAKE x \in Items
<1> SUFFICES ASSUME x.code = Code.ClientId PROVE x \in GoodItems
  OBVIOUS
<1>1. x.head \in Seq(Nat) /\ Holds(x) /\ x = Opt(x.code, x.head, x.opts)
  BY ItemIs
<1>2. x.code \notin Containers
  BY CodeIsNat DEF Containers
<1>3. x.opts = <<>>
  BY <1>1, <1>2 DEF Holds
<1>4. x = Plain(Code.ClientId, x.head)
  BY <1>1, <1>3 DEF Plain
<1>5. QED
  BY <1>1, <1>4, PlainIsGood

(* The leases: a list of addresses, in an association.                     *)
LEMMA LeaseOptionsAre == LeaseOptions \in Options[ReplyRank] /\ AddressList(LeaseOptions)
<1> DEFINE k == Len(Leases)
           S == OptionsOver(Options[0])
           e(i) == Plain(Code.IaAddr,
                         <<Leases[i].addr, Leases[i].preferred, Leases[i].valid>>)
<1>1. k \in Nat /\ DOMAIN Leases = 1..k
  BY ServerAssumption, LenProperties
<1>2. ASSUME NEW i \in 1..k
      PROVE  /\ e(i) \in S /\ e(i).code = Code.IaAddr /\ e(i).opts = <<>>
  <2>1. Leases[i] \in [addr : Nat, preferred : Nat, valid : Nat]
    BY ServerAssumption, ElementOfSeq
  <2> DEFINE h == <<Leases[i].addr, Leases[i].preferred, Leases[i].valid>>
  <2>2. h \in Seq(Nat) /\ Len(h) = 3
    BY <2>1
  <2> HIDE DEF h
  <2> DEFINE o == Plain(Code.IaAddr, h)
  <2>3. o.code = Code.IaAddr /\ o.head = h /\ o.opts = <<>>
    BY DEF Plain, Opt
  <2>4. o \in [code : Nat, head : Seq(Nat), opts : Options[0]]
    BY <2>2, NoOptions, CodeIsNat DEF Plain, Opt
  <2> HIDE DEF o
  <2>5. OPTIONS(Code.IaAddr) = 3 /\ Code.IaAddr \in Containers
    BY CodeIsNat DEF OPTIONS, Containers
  <2>6. Holds(o)
    BY <2>2, <2>3, <2>5 DEF Holds
  <2>7. o \in S
    BY <2>4, <2>6 DEF OptionsOver
  <2>8. QED
    BY <2>3, <2>7 DEF o, h
<1> HIDE DEF e, S
<1>3. LeaseOptions = [i \in 1..k |-> e(i)]
  BY <1>1 DEF LeaseOptions, e
<1>4. LeaseOptions \in Seq(S)
  <2>1. [i \in 1..k |-> e(i)] \in Seq(S)
    BY <1>1, <1>2, IsASeq
  <2>2. QED
    BY <1>3, <2>1
<1>5. Len(LeaseOptions) = k /\ \A i \in 1..k : LeaseOptions[i] = e(i)
  <2>1. DOMAIN LeaseOptions = 1..k
    BY <1>3
  <2>2. Len(LeaseOptions) \in Nat /\ DOMAIN LeaseOptions = 1..Len(LeaseOptions)
    BY <1>4, LenProperties
  <2>3. Len(LeaseOptions) = k
    BY <1>1, <2>1, <2>2
  <2>4. QED
    BY <1>3, <2>3
<1>6. AddressList(LeaseOptions)
  BY <1>2, <1>5 DEF AddressList
<1>7. LeaseOptions \in Options[k]
  <2>1. 0 \in 0..MaxRank /\ k \in 0..(MaxRank - 0) /\ 0 + k = k
    BY ReplyRankType, RankType
  <2> HIDE DEF k
  <2>2. LeaseOptions \in Options[0 + k]
    BY <1>4, <1>5, <2>1, ListRank DEF S
  <2>3. QED
    BY <2>1, <2>2
<1>8. Options[k] \subseteq Options[ReplyRank]
  <2>1. k \in 0..MaxRank /\ Nesting \in 0..(MaxRank - k) /\ k + Nesting = ReplyRank
    BY ReplyRankType, RankType
  <2> HIDE DEF k
  <2>2. Options[k] \subseteq Options[k + Nesting]
    BY <2>1, RanksGrow
  <2>3. QED
    BY <2>1, <2>2
<1>9. QED
  BY <1>6, <1>7, <1>8

(* A lease may be anywhere in a reply, is for the association it was asked *)
(* for, and is leased again as it is.                                      *)
LEMMA LeaseIsGood ==
  \A x \in Items : x.code = Code.IaNa =>
    /\ x.head[1] \in Nat /\ Lease(x) \in GoodItems /\ Lease(x).code = Code.IaNa
    /\ Lease(x).head[1] = x.head[1] /\ Lease(Lease(x)) = Lease(x)
<1> TAKE x \in Items
<1> SUFFICES ASSUME x.code = Code.IaNa
             PROVE  /\ x.head[1] \in Nat /\ Lease(x) \in GoodItems
                    /\ Lease(x).code = Code.IaNa
                    /\ Lease(x).head[1] = x.head[1] /\ Lease(Lease(x)) = Lease(x)
  OBVIOUS
<1>1. x.head \in Seq(Nat) /\ Holds(x)
  BY ItemIs
<1>2. Code.IaNa \in Containers /\ OPTIONS(Code.IaNa) = 3
  BY CodeIsNat DEF Containers, OPTIONS
<1>3. Len(x.head) = 3
  BY <1>1, <1>2 DEF Holds
<1>4. x.head[1] \in Nat
  BY <1>1, <1>3, ElementOfSeq
<1> DEFINE id == x.head[1]
           h == <<id, RenewTime, RenewTime>>
           o == Opt(Code.IaNa, h, LeaseOptions)
<1>5. Lease(x) = o
  BY DEF Lease
<1>6. h \in Seq(Nat) /\ Len(h) = 3 /\ h[1] = id
  BY <1>4, ServerAssumption
<1>7. o.code = Code.IaNa /\ o.head = h /\ o.opts = LeaseOptions
  BY DEF Opt
<1>8. o \in [code : Nat, head : Seq(Nat), opts : Options[ReplyRank]]
  BY <1>6, LeaseOptionsAre, CodeIsNat DEF Opt
<1>9. Lease(o) = Opt(Code.IaNa, <<h[1], RenewTime, RenewTime>>, LeaseOptions)
  BY <1>7 DEF Lease
<1>10. Lease(o) = o
  BY <1>6, <1>9
<1> HIDE DEF o
<1>11. Holds(o)
  BY <1>2, <1>6, <1>7 DEF Holds
<1>12. o \in Items
  BY <1>8, <1>11 DEF Items, OptionsOver
<1>13. o \in GoodItems
  BY <1>2, <1>7, <1>12, LeaseOptionsAre, ContainersDoNot DEF GoodItems
<1>14. QED
  BY <1>4, <1>5, <1>6, <1>7, <1>10, <1>13

ServerIs == Plain(Code.ServerId, DuidLl(ServerMac))

(* The server's own identifier.                                            *)
LEMMA ServerIsGood == ServerIs \in GoodItems /\ ServerIs.code = Code.ServerId
<1>1. DuidLl(ServerMac) \in Seq(Nat)
  BY ServerAssumption DEF DuidLl
<1>2. QED
  BY <1>1, PlainIsGood DEF ServerIs, Plain, Opt

(* The servers of names.                                                   *)
LEMMA DnsIsGood ==
  /\ Plain(Code.DnsServers, Dns) \in GoodItems
  /\ Plain(Code.DnsServers, Dns).code = Code.DnsServers
BY ServerAssumption, PlainIsGood DEF Plain, Opt

(* A list of one option.                                                   *)
LEMMA OneIsSeq == \A S : \A x \in S : <<x>> \in Seq(S) /\ Len(<<x>>) = 1
OBVIOUS

-----------------------------------------------------------------------------
(* What the server says to a message of a client.                          *)
ClientMessages == [typ : Nat, xid : Nat, options : Seq(Items)]

(* What is found in a message of a client.                                 *)
LEMMA FoundInMessage ==
  \A m \in ClientMessages : \A code :
    \/ FindOption(m, code) = {}
    \/ \E x \in Items : x.code = code /\ FindOption(m, code) = {x}
<1> TAKE m \in ClientMessages
<1> TAKE code
<1> DEFINE s == m.options
<1>1. s \in Seq(Items)
  BY DEF ClientMessages
<1>2. FindOption(m, code) = First(s, code)
  BY FindIsFirst
<1> HIDE DEF s
<1>3. QED
  BY <1>1, <1>2, FoundIs

(* The identifiers of a reply: the server, then the client.                *)
LEMMA IdentifiersAre ==
  \A m \in ClientMessages : HasOption(m, Code.ClientId) =>
    /\ Identifiers(m) \in Seq(GoodItems) /\ Len(Identifiers(m)) = 2
    /\ First(Identifiers(m), Code.ServerId) = {ServerIs}
    /\ First(Identifiers(m), Code.IaNa) = {}
    /\ \A x : FindOption(m, Code.ClientId) = {x} => Identifiers(m) = <<ServerIs>> \o <<x>>
<1> TAKE m \in ClientMessages
<1> DEFINE ids == Identifiers(m)
<1> SUFFICES ASSUME HasOption(m, Code.ClientId)
             PROVE  /\ ids \in Seq(GoodItems) /\ Len(ids) = 2
                    /\ First(ids, Code.ServerId) = {ServerIs}
                    /\ First(ids, Code.IaNa) = {}
                    /\ \A x : FindOption(m, Code.ClientId) = {x} => ids = <<ServerIs>> \o <<x>>
  OBVIOUS
<1>1. PICK c \in Items : c.code = Code.ClientId /\ FindOption(m, Code.ClientId) = {c}
  BY FoundInMessage DEF HasOption
<1>2. c \in GoodItems
  BY <1>1, ClientIdIsGood
<1> DEFINE a == <<ServerIs>>
           b == <<c>>
<1>3. ids = a \o b
  BY <1>1, SetAsSeqOf DEF Identifiers, ServerIs
<1>4. a \in Seq(GoodItems) /\ b \in Seq(GoodItems) /\ Len(a) = 1 /\ Len(b) = 1
  BY <1>2, ServerIsGood, OneIsSeq
<1>5. First(a, Code.ServerId) = {ServerIs} /\ First(a, Code.IaNa) = {}
  <2>1. ServerIs.code = Code.ServerId /\ ServerIs.code # Code.IaNa
    BY ServerIsGood, CodeIsNat
  <2>2. First(<<ServerIs>>, Code.ServerId) = {ServerIs}
    BY <2>1, FirstOfOne
  <2>3. First(<<ServerIs>>, Code.IaNa) = {}
    BY <2>1, FirstOfOne
  <2>4. QED
    BY <2>2, <2>3
<1>6. First(b, Code.IaNa) = {}
  BY <1>1, FirstOfOne, CodeIsNat
<1>a. \A x : FindOption(m, Code.ClientId) = {x} => ids = a \o <<x>>
  BY <1>1, <1>3
<1> HIDE DEF a, b, ids
<1>7. ids \in Seq(GoodItems) /\ Len(ids) = Len(a) + Len(b)
  BY <1>3, <1>4, ConcatProperties
<1>8. Len(ids) = 2
  BY <1>4, <1>7
<1>9. First(ids, Code.ServerId) = {ServerIs}
  <2>1. First(a \o b, Code.ServerId) = First(a, Code.ServerId)
    BY <1>4, <1>5, FirstOfBoth
  <2>2. QED
    BY <1>3, <1>5, <2>1
<1>10. First(ids, Code.IaNa) = {}
  <2>1. First(a \o b, Code.IaNa) = First(b, Code.IaNa)
    BY <1>4, <1>5, FirstOfBoth
  <2>2. QED
    BY <1>3, <1>6, <2>1
<1>11. QED
  BY <1>7, <1>8, <1>9, <1>10, <1>a DEF a

Leased(m) == {Lease(ia) : ia \in FindOption(m, Code.IaNa)}

(* The leases of a reply, of which there is at most one.                   *)
LEMMA LeasedIs ==
  \A m \in ClientMessages :
    /\ SetAsSeq(Leased(m)) \in Seq(GoodItems) /\ Len(SetAsSeq(Leased(m))) \in 0..1
    /\ First(SetAsSeq(Leased(m)), Code.IaNa) = Leased(m)
<1> TAKE m \in ClientMessages
<1>1. CASE FindOption(m, Code.IaNa) = {}
  <2>1. Leased(m) = {}
    BY <1>1 DEF Leased
  <2> DEFINE z == <<>>
  <2>2. z \in Seq(GoodItems) /\ Len(z) = 0 /\ First(z, Code.IaNa) = {}
    BY FirstOfNone
  <2>3. SetAsSeq(Leased(m)) = z
    BY <2>1, SetAsSeqOf
  <2> HIDE DEF z
  <2>4. Len(z) \in 0..1 /\ First(z, Code.IaNa) = Leased(m)
    BY <2>1, <2>2
  <2>5. QED
    BY <2>2, <2>3, <2>4
<1>2. CASE FindOption(m, Code.IaNa) # {}
  <2>1. PICK x \in Items : x.code = Code.IaNa /\ FindOption(m, Code.IaNa) = {x}
    BY <1>2, FoundInMessage
  <2> DEFINE l == Lease(x)
             z == <<l>>
  <2>2. Leased(m) = {l}
    BY <2>1 DEF Leased
  <2>3. l \in GoodItems /\ l.code = Code.IaNa
    BY <2>1, LeaseIsGood
  <2> HIDE DEF l
  <2>4. z \in Seq(GoodItems) /\ Len(z) = 1 /\ First(z, Code.IaNa) = {l}
    BY <2>3, OneIsSeq, FirstOfOne
  <2>5. SetAsSeq(Leased(m)) = z
    BY <2>2, SetAsSeqOf
  <2> HIDE DEF z
  <2>6. Len(z) \in 0..1 /\ First(z, Code.IaNa) = Leased(m)
    BY <2>2, <2>4
  <2>7. QED
    BY <2>4, <2>5, <2>6
<1>3. QED
  BY <1>1, <1>2

(* What generate_reply_options() makes: who the server is, and the leases. *)
LEMMA ReplyOptionsAre ==
  \A m \in ClientMessages : HasOption(m, Code.ClientId) =>
    /\ ReplyOptions(m) \in Seq(GoodItems) /\ Len(ReplyOptions(m)) \in 0..4
    /\ First(ReplyOptions(m), Code.ServerId) = {ServerIs}
    /\ First(ReplyOptions(m), Code.IaNa) = Leased(m)
<1> TAKE m \in ClientMessages
<1> DEFINE opts == ReplyOptions(m)
<1> SUFFICES ASSUME HasOption(m, Code.ClientId)
             PROVE  /\ opts \in Seq(GoodItems) /\ Len(opts) \in 0..4
                    /\ First(opts, Code.ServerId) = {ServerIs}
                    /\ First(opts, Code.IaNa) = Leased(m)
  OBVIOUS
<1> DEFINE a == Identifiers(m)
           b == IF Requests(m, Code.DnsServers)
                THEN <<Plain(Code.DnsServers, Dns)>> ELSE <<>>
           c == SetAsSeq(Leased(m))
           ab == a \o b
<1>1. opts = ab \o c
  BY DEF ReplyOptions, Leased
<1>2. /\ a \in Seq(GoodItems) /\ Len(a) = 2
      /\ First(a, Code.ServerId) = {ServerIs} /\ First(a, Code.IaNa) = {}
  BY IdentifiersAre
<1>3. /\ b \in Seq(GoodItems) /\ Len(b) \in 0..1 /\ First(b, Code.IaNa) = {}
  <2>1. CASE Requests(m, Code.DnsServers)
    <3> DEFINE d == Plain(Code.DnsServers, Dns)
    <3>1. b = <<d>>
      BY <2>1
    <3>2. d \in GoodItems /\ d.code # Code.IaNa
      BY DnsIsGood, CodeIsNat
    <3> HIDE DEF d, b
    <3>3. <<d>> \in Seq(GoodItems) /\ Len(<<d>>) = 1 /\ First(<<d>>, Code.IaNa) = {}
      BY <3>2, OneIsSeq, FirstOfOne
    <3>4. QED
      BY <3>1, <3>3
  <2>2. CASE ~Requests(m, Code.DnsServers)
    <3>1. b = <<>>
      BY <2>2
    <3> HIDE DEF b
    <3>2. First(b, Code.IaNa) = {}
      BY <3>1, FirstOfNone
    <3>3. b \in Seq(GoodItems) /\ Len(b) = 0
      BY <3>1
    <3>4. QED
      BY <3>2, <3>3
  <2>3. QED
    BY <2>1, <2>2
<1>4. /\ c \in Seq(GoodItems) /\ Len(c) \in 0..1 /\ First(c, Code.IaNa) = Leased(m)
  BY LeasedIs
<1> HIDE DEF a, b, c, ab, opts
<1>5. ab \in Seq(GoodItems) /\ Len(ab) = Len(a) + Len(b)
  BY <1>2, <1>3, ConcatProperties DEF ab
<1>6. First(ab, Code.ServerId) = {ServerIs} /\ First(ab, Code.IaNa) = {}
  <2>1. First(a \o b, Code.ServerId) = First(a, Code.ServerId)
    BY <1>2, <1>3, FirstOfBoth
  <2>2. First(a \o b, Code.IaNa) = First(b, Code.IaNa)
    BY <1>2, <1>3, FirstOfBoth
  <2>3. QED
    BY <1>2, <1>3, <2>1, <2>2 DEF ab
<1>7. opts \in Seq(GoodItems) /\ Len(opts) = Len(ab) + Len(c)
  BY <1>1, <1>4, <1>5, ConcatProperties
<1>8. Len(opts) \in 0..4
  <2>1. Len(opts) = (2 + Len(b)) + Len(c)
    BY <1>2, <1>5, <1>7
  <2>2. Len(b) \in 0..1 /\ Len(c) \in 0..1
    BY <1>3, <1>4
  <2>3. \A x, y \in 0..1 : (2 + x) + y \in 0..4
    OBVIOUS
  <2>4. (2 + Len(b)) + Len(c) \in 0..4
    BY <2>2, <2>3
  <2>5. QED
    BY <2>1, <2>4
<1>9. First(opts, Code.ServerId) = {ServerIs} /\ First(opts, Code.IaNa) = Leased(m)
  <2>1. First(ab \o c, Code.ServerId) = First(ab, Code.ServerId)
    BY <1>4, <1>5, <1>6, FirstOfBoth
  <2>2. First(ab \o c, Code.IaNa) = First(c, Code.IaNa)
    BY <1>4, <1>5, <1>6, FirstOfBoth
  <2>3. QED
    BY <1>1, <1>4, <1>6, <2>1, <2>2
<1>10. QED
  BY <1>7, <1>8, <1>9

(* A list of such options can be written, and with one more that has to    *)
(* come last.                                                              *)
LEMMA GoodIsItems == Seq(GoodItems) \subseteq Seq(Items)
<1>1. GoodItems \subseteq Items
  BY DEF GoodItems
<1> HIDE DEF GoodItems, Items
<1>2. QED
  BY <1>1, SeqMonotonic

(* A list of options that may be anywhere is one that can be written.      *)
LEMMA GoodIsReplyList == \A s \in Seq(GoodItems) : ReplyList(s)
<1> TAKE s \in Seq(GoodItems)
<1>1. \A i \in 1..Len(s) : s[i] \in GoodItems
  BY ElementOfSeq
<1>2. QED
  BY <1>1 DEF ReplyList, GoodItems

(* One more option may be any, for it is the last.                         *)
LEMMA OneMore ==
  \A s \in Seq(GoodItems) : \A x \in Items :
    AddressList(x.opts) => s \o <<x>> \in Seq(Items) /\ ReplyList(s \o <<x>>)
<1> TAKE s \in Seq(GoodItems)
<1> TAKE x \in Items
<1> SUFFICES ASSUME AddressList(x.opts)
             PROVE  s \o <<x>> \in Seq(Items) /\ ReplyList(s \o <<x>>)
  OBVIOUS
<1> DEFINE t == <<x>>
           st == s \o t
           k == Len(s)
<1>1. s \in Seq(Items) /\ t \in Seq(Items) /\ Len(t) = 1 /\ t[1] = x
  BY GoodIsItems, OneIsSeq
<1> HIDE DEF t
<1>2. k \in Nat
  BY LenProperties
<1>3. st \in Seq(Items) /\ Len(st) = k + Len(t)
  BY <1>1, ConcatProperties
<1>4. \A i \in 1..(k + Len(t)) : st[i] = IF i <= k THEN s[i] ELSE t[i - k]
  BY <1>1, ConcatProperties
<1> HIDE DEF st
<1>5. Len(st) = k + 1
  BY <1>1, <1>3
<1>6. ASSUME NEW i \in 1..k
      PROVE  st[i] = s[i] /\ AddressList(s[i].opts) /\ ~CopiesWhole(s[i].code)
  <2>1. i \in 1..(k + Len(t)) /\ i <= k
    BY <1>1, <1>2
  <2>2. s[i] \in GoodItems
    BY ElementOfSeq
  <2>3. QED
    BY <1>4, <2>1, <2>2 DEF GoodItems
<1>7. st[k + 1] = x
  <2>1. k + 1 \in 1..(k + Len(t)) /\ ~(k + 1 <= k) /\ (k + 1) - k = 1
    BY <1>1, <1>2
  <2>2. st[k + 1] = t[(k + 1) - k]
    BY <1>4, <2>1
  <2>3. QED
    BY <1>1, <2>1, <2>2
<1>8. \A i \in 1..Len(st) : i \in 1..k \/ i = k + 1
  BY <1>2, <1>5
<1>9. ASSUME NEW i \in 1..Len(st)
      PROVE  AddressList(st[i].opts) /\ (CopiesWhole(st[i].code) => i = Len(st))
  <2>1. CASE i \in 1..k
    BY <1>6, <2>1
  <2>2. CASE i = k + 1
    BY <1>5, <1>7, <2>2
  <2>3. QED
    BY <1>8, <2>1, <2>2
<1>10. ReplyList(st)
  BY <1>9 DEF ReplyList
<1>11. QED
  BY <1>3, <1>10 DEF st, t

(* Every reply can be written, says who the server is, and leases for the  *)
(* association it was asked for.                                           *)
IsReplyTo(r, m) ==
  /\ r \in [typ : Nat, xid : {m.xid}, options : Seq(Items)]
  /\ Len(r.options) \in 0..5 /\ ReplyList(r.options)
  /\ First(r.options, Code.ServerId) = {ServerIs}
  /\ First(r.options, Code.IaNa) \in {{}, Leased(m)}
  /\ HasOption(m, Code.ClientId)

(* The parts of a message.                                                 *)
LEMMA MessageIs ==
  \A typ, xid, options : /\ Message(typ, xid, options).typ = typ
                         /\ Message(typ, xid, options).xid = xid
                         /\ Message(typ, xid, options).options = options
BY DEF Message

(* The reply to a Solicit that asks for a rapid one.                       *)
LEMMA RapidReply ==
  \A m \in ClientMessages : HasOption(m, Code.ClientId) =>
    LET opts == ReplyOptions(m) \o <<Plain(Code.RapidCommit, <<>>)>>
    IN /\ opts \in Seq(GoodItems) /\ Len(opts) \in 0..5
       /\ First(opts, Code.ServerId) = {ServerIs}
       /\ First(opts, Code.IaNa) = Leased(m)
<1> TAKE m \in ClientMessages
<1> DEFINE x == Plain(Code.RapidCommit, <<>>)
           a == ReplyOptions(m)
           b == <<x>>
           opts == a \o b
<1> SUFFICES ASSUME HasOption(m, Code.ClientId)
             PROVE  /\ opts \in Seq(GoodItems) /\ Len(opts) \in 0..5
                    /\ First(opts, Code.ServerId) = {ServerIs}
                    /\ First(opts, Code.IaNa) = Leased(m)
  OBVIOUS
<1>1. /\ a \in Seq(GoodItems) /\ Len(a) \in 0..4
      /\ First(a, Code.ServerId) = {ServerIs} /\ First(a, Code.IaNa) = Leased(m)
  BY ReplyOptionsAre
<1>2. x \in GoodItems /\ x.code # Code.IaNa
  BY RapidCommitIsGood, CodeIsNat DEF Plain, Opt
<1> HIDE DEF x, a
<1>3. b \in Seq(GoodItems) /\ Len(b) = 1 /\ First(b, Code.IaNa) = {}
  BY <1>2, OneIsSeq, FirstOfOne
<1> HIDE DEF b
<1>4. opts \in Seq(GoodItems) /\ Len(opts) = Len(a) + Len(b)
  BY <1>1, <1>3, ConcatProperties
<1>5. Len(opts) \in 0..5
  <2>1. \A k \in 0..4 : k + 1 \in 0..5
    OBVIOUS
  <2>2. QED
    BY <1>1, <1>3, <1>4, <2>1
<1>6. First(opts, Code.ServerId) = First(a, Code.ServerId)
  BY <1>1, <1>3, FirstOfBoth
<1>7. First(opts, Code.IaNa) = Leased(m)
  <2>1. CASE First(a, Code.IaNa) # {}
    <3>1. First(opts, Code.IaNa) = First(a, Code.IaNa)
      BY <1>1, <1>3, <2>1, FirstOfBoth
    <3>2. QED
      BY <1>1, <3>1
  <2>2. CASE First(a, Code.IaNa) = {}
    <3>1. First(opts, Code.IaNa) = First(b, Code.IaNa)
      BY <1>1, <1>3, <2>2, FirstOfBoth
    <3>2. QED
      BY <1>1, <1>3, <2>2, <3>1
  <2>3. QED
    BY <2>1, <2>2
<1>8. QED
  BY <1>1, <1>4, <1>5, <1>6, <1>7

(* The reply to a Confirm: the status comes last.                          *)
LEMMA StatusReply ==
  \A m \in ClientMessages : \A head \in Seq(Nat) :
    HasOption(m, Code.ClientId) /\ Len(head) >= 1 =>
      LET opts == ConfirmOptions(m, Plain(Code.StatusCode, head))
      IN /\ opts \in Seq(Items) /\ Len(opts) = 3 /\ ReplyList(opts)
         /\ First(opts, Code.ServerId) = {ServerIs}
         /\ First(opts, Code.IaNa) = {}
<1> TAKE m \in ClientMessages
<1> TAKE head \in Seq(Nat)
<1> DEFINE x == Plain(Code.StatusCode, head)
           a == Identifiers(m)
           b == <<x>>
           opts == a \o b
<1> SUFFICES ASSUME HasOption(m, Code.ClientId), Len(head) >= 1
             PROVE  /\ opts \in Seq(Items) /\ Len(opts) = 3 /\ ReplyList(opts)
                    /\ First(opts, Code.ServerId) = {ServerIs}
                    /\ First(opts, Code.IaNa) = {}
  BY DEF ConfirmOptions
<1>1. /\ a \in Seq(GoodItems) /\ Len(a) = 2
      /\ First(a, Code.ServerId) = {ServerIs} /\ First(a, Code.IaNa) = {}
  BY IdentifiersAre
<1>2. x \in Items
  <2> DEFINE code == Code.StatusCode
  <2>1. code \in Nat /\ code = 13
    BY CodeIsNat
  <2>2. code \notin Containers /\ code # Code.RapidCommit /\ code # Code.ElapsedTime
    BY <2>1, CodeIsNat DEF Containers
  <2>3. WellSized(code, head)
    BY <2>2 DEF WellSized
  <2> HIDE DEF code
  <2>4. Plain(code, head) \in Items
    BY <2>1, <2>2, <2>3, PlainIsItem
  <2>5. QED
    BY <2>4 DEF code
<1>3. x.opts = <<>> /\ x.code # Code.IaNa
  BY CodeIsNat DEF Plain, Opt
<1>4. AddressList(x.opts)
  BY <1>3, EmptyIsAddressList
<1> HIDE DEF x, a
<1>5. opts \in Seq(Items) /\ ReplyList(opts)
  BY <1>1, <1>2, <1>4, OneMore
<1>6. b \in Seq(Items) /\ Len(b) = 1 /\ First(b, Code.IaNa) = {}
  BY <1>2, <1>3, OneIsSeq, FirstOfOne
<1> HIDE DEF b
<1>7. a \in Seq(Items)
  BY <1>1, GoodIsItems
<1>8. Len(opts) = Len(a) + Len(b)
  BY <1>6, <1>7, ConcatProperties
<1>9. First(opts, Code.ServerId) = First(a, Code.ServerId)
  <2>1. First(a, Code.ServerId) # {}
    BY <1>1
  <2>2. QED
    BY <1>6, <1>7, <2>1, FirstOfBoth
<1>10. First(opts, Code.IaNa) = First(b, Code.IaNa)
  BY <1>1, <1>6, <1>7, FirstOfBoth
<1>11. Len(opts) = 3
  BY <1>1, <1>6, <1>8
<1>12. QED
  BY <1>1, <1>5, <1>6, <1>9, <1>10, <1>11

(* A message of options that may be anywhere is a reply.                   *)
LEMMA GoodReply ==
  \A m \in ClientMessages : \A typ \in Nat : \A opts \in Seq(GoodItems) :
    /\ HasOption(m, Code.ClientId) /\ Len(opts) \in 0..5
    /\ First(opts, Code.ServerId) = {ServerIs} /\ First(opts, Code.IaNa) = Leased(m)
    => IsReplyTo(Message(typ, m.xid, opts), m)
<1> TAKE m \in ClientMessages
<1> TAKE typ \in Nat
<1> TAKE opts \in Seq(GoodItems)
<1>1. opts \in Seq(Items) /\ ReplyList(opts)
  BY GoodIsItems, GoodIsReplyList
<1>2. Message(typ, m.xid, opts) \in [typ : Nat, xid : {m.xid}, options : Seq(Items)]
  BY <1>1 DEF Message
<1>3. QED
  BY <1>1, <1>2, MessageIs DEF IsReplyTo

(* The types of messages the proofs tell apart.                            *)
LEMMA MessageTypeIsNat ==
  /\ MessageType.Reply \in Nat /\ MessageType.Advertise \in Nat
  /\ MessageType.Request \in Nat /\ MessageType.Confirm \in Nat
  /\ MessageType.Confirm # MessageType.Request
  /\ MessageType.Request # MessageType.Solicit
BY DEF MessageType

(* Whatever the server says to a message of a client is a reply to it.     *)
LEMMA ReplyIs ==
  \A m \in ClientMessages : \A r \in Process(m) : IsReplyTo(r, m)
<1> TAKE m \in ClientMessages
<1> TAKE r \in Process(m)
<1>1. CASE r \in ProcessSolicit(m)
  <2>1. HasOption(m, Code.ClientId)
    BY <1>1 DEF ProcessSolicit
  <2>2. CASE HasRapidCommit(m)
    <3> DEFINE opts == ReplyOptions(m) \o <<Plain(Code.RapidCommit, <<>>)>>
    <3>1. r = Message(MessageType.Reply, m.xid, opts)
      BY <1>1, <2>2 DEF ProcessSolicit
    <3>2. /\ opts \in Seq(GoodItems) /\ Len(opts) \in 0..5
          /\ First(opts, Code.ServerId) = {ServerIs}
          /\ First(opts, Code.IaNa) = Leased(m)
      BY <2>1, RapidReply
    <3> HIDE DEF opts
    <3>3. QED
      BY <2>1, <3>1, <3>2, GoodReply, MessageTypeIsNat
  <2>3. CASE ~HasRapidCommit(m)
    <3> DEFINE opts == ReplyOptions(m)
    <3>1. r = Message(MessageType.Advertise, m.xid, opts)
      BY <1>1, <2>3 DEF ProcessSolicit
    <3>2. /\ opts \in Seq(GoodItems) /\ Len(opts) \in 0..4
          /\ First(opts, Code.ServerId) = {ServerIs}
          /\ First(opts, Code.IaNa) = Leased(m)
      BY <2>1, ReplyOptionsAre
    <3> HIDE DEF opts
    <3>3. Len(opts) \in 0..5
      BY <3>2
    <3>4. QED
      BY <2>1, <3>1, <3>2, <3>3, GoodReply, MessageTypeIsNat
  <2>4. QED
    BY <2>2, <2>3
<1>2. CASE r \in ProcessRequest(m)
  <2> DEFINE opts == ReplyOptions(m)
  <2>1. HasOption(m, Code.ClientId) /\ r = Message(MessageType.Reply, m.xid, opts)
    BY <1>2 DEF ProcessRequest
  <2>2. /\ opts \in Seq(GoodItems) /\ Len(opts) \in 0..4
        /\ First(opts, Code.ServerId) = {ServerIs}
        /\ First(opts, Code.IaNa) = Leased(m)
    BY <2>1, ReplyOptionsAre
  <2> HIDE DEF opts
  <2>3. Len(opts) \in 0..5
    BY <2>2
  <2>4. QED
    BY <2>1, <2>2, <2>3, GoodReply, MessageTypeIsNat
<1>3. CASE r \in ProcessConfirm(m)
  <2> DEFINE status == IF ConfirmedAddrs(m) \subseteq LeasedAddrs
                       THEN <<StatusCode.Success>> ELSE <<StatusCode.NotOnLink, 1>>
             opts == ConfirmOptions(m, Plain(Code.StatusCode, status))
  <2>1. HasOption(m, Code.ClientId) /\ r = Message(MessageType.Reply, m.xid, opts)
    BY <1>3 DEF ProcessConfirm
  <2>2. status \in Seq(Nat) /\ Len(status) >= 1
    BY DEF StatusCode
  <2> HIDE DEF status
  <2>3. /\ opts \in Seq(Items) /\ Len(opts) = 3 /\ ReplyList(opts)
        /\ First(opts, Code.ServerId) = {ServerIs}
        /\ First(opts, Code.IaNa) = {}
    BY <2>1, <2>2, StatusReply
  <2> HIDE DEF opts
  <2>4. r \in [typ : Nat, xid : {m.xid}, options : Seq(Items)]
    BY <2>1, <2>3, MessageTypeIsNat DEF Message
  <2>5. Len(r.options) \in 0..5
    BY <2>1, <2>3, MessageIs
  <2>6. QED
    BY <2>1, <2>3, <2>4, <2>5, MessageIs DEF IsReplyTo
<1>4. r \in ProcessSolicit(m) \cup ProcessRequest(m) \cup ProcessConfirm(m)
  BY DEF Process
<1>5. QED
  BY <1>1, <1>2, <1>3, <1>4

-----------------------------------------------------------------------------
(* A client that asks for what it was offered names itself, the server and *)
(* the association it was offered.                                         *)
AsksFor(m, o) ==
  LET s == m.options
  IN /\ Len(s) = 4
     /\ s[1].code = Code.ClientId /\ s[2] = ServerIs /\ s[3].code = Code.ElapsedTime
     /\ s[4].code = Code.IaNa /\ Lease(s[4]) = s[4]
     /\ FindOption(o, Code.IaNa) = {s[4]}

(* It is answered, and with what it was offered.                           *)
LEMMA RequestIsAnswered ==
  \A m \in ClientMessages : \A o :
    m.typ = MessageType.Request /\ AsksFor(m, o) =>
      \E r \in Process(m) : /\ r.typ = MessageType.Reply /\ r.xid = m.xid
                            /\ FindOption(r, Code.IaNa) = FindOption(o, Code.IaNa)
<1> TAKE m \in ClientMessages
<1> TAKE o
<1> DEFINE s == m.options
<1> SUFFICES ASSUME m.typ = MessageType.Request, AsksFor(m, o)
             PROVE  \E r \in Process(m) :
                      /\ r.typ = MessageType.Reply /\ r.xid = m.xid
                      /\ FindOption(r, Code.IaNa) = FindOption(o, Code.IaNa)
  OBVIOUS
<1>1. s \in Seq(Items)
  BY DEF ClientMessages
<1>2. /\ Len(s) = 4
      /\ s[1].code = Code.ClientId /\ s[2] = ServerIs /\ s[3].code = Code.ElapsedTime
      /\ s[4].code = Code.IaNa /\ Lease(s[4]) = s[4]
      /\ FindOption(o, Code.IaNa) = {s[4]}
  BY DEF AsksFor
<1>3. /\ s[1].code = 1 /\ s[2].code = 2 /\ s[3].code = 8 /\ s[4].code = 3
  BY <1>2, CodeIsNat, ServerIsGood
<1>4. \A code : FindOption(m, code) = First(s, code)
  BY FindIsFirst
<1> HIDE DEF s
<1>5. \A i \in 1..4 : i \in 1..Len(s)
  BY <1>2
<1>6. \A i, n \in 1..4 : s[n].code = s[i].code => n = i
  <2>1. \A i \in 1..4 : i = 1 \/ i = 2 \/ i = 3 \/ i = 4
    OBVIOUS
  <2>2. QED
    BY <1>3, <2>1
<1>7. ASSUME NEW i \in 1..4
      PROVE  First(s, s[i].code) = {s[i]}
  <2> DEFINE c == s[i].code
  <2>1. First(s, c) # {}
    BY <1>1, <1>5, NoneFound
  <2> HIDE DEF c
  <2>2. PICK n \in 1..Len(s) : First(s, c) = {s[n]} /\ s[n].code = c
    BY <1>1, <2>1, FirstAt
  <2>3. n \in 1..4
    BY <1>2
  <2>4. n = i
    BY <1>6, <2>2, <2>3 DEF c
  <2>5. QED
    BY <2>2, <2>4 DEF c
<1>8. /\ First(s, Code.ClientId) = {s[1]} /\ First(s, Code.ServerId) = {ServerIs}
      /\ First(s, Code.ElapsedTime) = {s[3]} /\ First(s, Code.IaNa) = {s[4]}
  <2>1. 1 \in 1..4 /\ 2 \in 1..4 /\ 3 \in 1..4 /\ 4 \in 1..4
    OBVIOUS
  <2>2. s[2].code = Code.ServerId
    BY <1>3, CodeIsNat
  <2>3. QED
    BY <1>2, <1>7, <2>1, <2>2
<1>9. HasOption(m, Code.ElapsedTime) /\ HasOption(m, Code.ClientId)
  BY <1>4, <1>8 DEF HasOption
<1>10. \E x \in FindOption(m, Code.ServerId) : IsDuidLlMac(x.head, ServerMac)
  <2>1. ServerIs.head = DuidLl(ServerMac)
    BY DEF ServerIs, Plain, Opt
  <2>2. QED
    BY <1>4, <1>8, <2>1 DEF IsDuidLlMac
<1> DEFINE opts == ReplyOptions(m)
           r == Message(MessageType.Reply, m.xid, opts)
<1>11. ProcessRequest(m) = {r}
  BY <1>9, <1>10 DEF ProcessRequest
<1>12. Process(m) = ProcessRequest(m)
  BY MessageTypeIsNat DEF Process
<1>13. First(opts, Code.IaNa) = Leased(m)
  BY <1>9, ReplyOptionsAre
<1>14. Leased(m) = {s[4]}
  BY <1>2, <1>4, <1>8 DEF Leased
<1>15. /\ r.typ = MessageType.Reply /\ r.xid = m.xid /\ r.options = opts
  BY MessageIs
<1> HIDE DEF r, opts
<1>16. FindOption(r, Code.IaNa) = FindOption(o, Code.IaNa)
  BY <1>2, <1>13, <1>14, <1>15, FindIsFirst
<1>17. QED
  BY <1>11, <1>12, <1>15, <1>16

-----------------------------------------------------------------------------
(* The invariant: the client's message is one of the options above, what   *)
(* the server took it for and said is what the message has it say, and a   *)
(* request is for what was offered.                                        *)
ClientInv ==
  /\ msg \in ClientMessages /\ Len(msg.options) <= MaxOptions + 4
  /\ \A o \in offer : msg.typ = MessageType.Request => AsksFor(msg, o)

ServerInv ==
  /\ stage \in {"asking", "ignored", "answered"}
  /\ stage = "asking" => got = {} /\ reply = {}
  /\ stage # "asking" =>
       /\ got = IF msg.options = <<>> THEN {} ELSE {msg}
       /\ reply = UNION {Process(m) : m \in got}
  /\ stage = "answered" => \E r \in reply : buf = Encoding(r)

DhcpInv == ClientInv /\ ServerInv

(* At first nothing was said.                                              *)
LEMMA InitDhcpInv == DhcpInit => DhcpInv
<1> SUFFICES ASSUME DhcpInit PROVE DhcpInv
  OBVIOUS
<1>1. PICK typ \in ClientTypes, xid \in TransactionIds : msg = Message(typ, xid, <<>>)
  BY DEF DhcpInit
<1> DEFINE z == <<>>
<1>2. z \in Seq(Items) /\ Len(z) = 0
  OBVIOUS
<1>3. msg = Message(typ, xid, z)
  BY <1>1
<1> HIDE DEF z
<1>4. msg \in ClientMessages /\ Len(msg.options) = 0
  BY <1>2, <1>3, ClientAssumption DEF ClientMessages, Message
<1>5. ClientInv
  BY <1>4, ClientAssumption DEF ClientInv, DhcpInit
<1>6. ServerInv
  BY DEF ServerInv, DhcpInit
<1>7. QED
  BY <1>5, <1>6 DEF DhcpInv

(* A client that starts over.                                              *)
LEMMA StartOverDhcpInv == DhcpInv /\ StartOver => DhcpInv'
<1> SUFFICES ASSUME StartOver PROVE DhcpInv'
  OBVIOUS
<1>1. PICK typ \in ClientTypes, xid \in TransactionIds : Fresh(typ, xid)
  BY DEF StartOver
<1> DEFINE z == <<>>
<1>2. z \in Seq(Items) /\ Len(z) = 0
  OBVIOUS
<1>3. msg' = Message(typ, xid, z)
  BY <1>1 DEF Fresh
<1> HIDE DEF z
<1>4. msg' \in ClientMessages /\ Len(msg'.options) = 0
  BY <1>2, <1>3, ClientAssumption DEF ClientMessages, Message
<1>5. ClientInv'
  BY <1>1, <1>4, ClientAssumption DEF ClientInv, Fresh
<1>6. ServerInv'
  BY <1>1 DEF ServerInv, Fresh
<1>7. QED
  BY <1>5, <1>6 DEF DhcpInv

(* The client adds an option of its own.                                   *)
LEMMA AddOptionDhcpInv == DhcpInv /\ AddOption => DhcpInv'
<1> SUFFICES ASSUME DhcpInv, AddOption PROVE DhcpInv'
  OBVIOUS
<1>1. PICK o \in ClientOptions :
        /\ stage = "asking" /\ offer = {} /\ Len(msg.options) < MaxOptions
        /\ msg' = [msg EXCEPT !.options = Append(@, o)]
        /\ UNCHANGED <<stage, got, reply, buf, offer>>
  BY DEF AddOption
<1> DEFINE s == msg.options
           t == Append(s, o)
<1>2. msg \in ClientMessages /\ s \in Seq(Items) /\ o \in Items
  BY <1>1, ClientItems DEF DhcpInv, ClientInv, ClientMessages
<1>3. t \in Seq(Items) /\ Len(t) = Len(s) + 1
  BY <1>2, AppendProperties
<1>4. Len(s) \in Nat /\ MaxOptions \in Nat /\ Len(s) < MaxOptions
  BY <1>1, <1>2, LenProperties, ClientAssumption
<1>5. msg' = [msg EXCEPT !.options = t]
  BY <1>1
<1> HIDE DEF t
<1>6. msg' \in ClientMessages /\ msg'.options = t
  BY <1>2, <1>3, <1>5 DEF ClientMessages
<1>7. Len(msg'.options) <= MaxOptions + 4
  <2>1. Len(t) <= MaxOptions + 4
    BY <1>3, <1>4
  <2>2. QED
    BY <1>6, <2>1
<1>8. ClientInv'
  BY <1>1, <1>6, <1>7 DEF ClientInv
<1>9. ServerInv'
  BY <1>1 DEF DhcpInv, ServerInv
<1>10. QED
  BY <1>8, <1>9 DEF DhcpInv

(* The server: whatever the message is, it is taken for what it is, and    *)
(* what is said to it can be written.                                      *)
LEMMA WrittenReply ==
  \A m \in ClientMessages : \A r :
    IsReplyTo(r, m) => r \in ClientMessages /\ Written(r) = {Encoding(r)}
<1> TAKE m \in ClientMessages
<1> TAKE r
<1> SUFFICES ASSUME IsReplyTo(r, m)
             PROVE  r \in ClientMessages /\ Written(r) = {Encoding(r)}
  OBVIOUS
<1>1. r \in [typ : Nat, xid : {m.xid}, options : Seq(Items)] /\ m.xid \in Nat
  BY DEF IsReplyTo, ClientMessages
<1>2. r \in ClientMessages
  BY <1>1 DEF ClientMessages
<1>3. r.options \in Seq(Items) /\ Len(r.options) \in 0..5 /\ MaxOptions \in Nat
  BY <1>1, ClientAssumption DEF IsReplyTo
<1>4. r.options \in Options[MaxRank]
  <2>1. \A k \in 0..5 : k <= MaxOptions + 5
    BY <1>3
  <2>2. Len(r.options) <= MaxOptions + 5
    BY <1>3, <2>1
  <2>3. QED
    BY <1>3, <2>2, MessageRank
<1>5. r \in Messages
  BY <1>2, <1>4 DEF ClientMessages, Messages
<1>6. QED
  BY <1>2, <1>5, MessageWritten DEF IsReplyTo

(* The server takes the message for what it is, and writes what it says to *)
(* it.                                                                     *)
LEMMA ServeDhcpInv == DhcpInv /\ Serve => DhcpInv'
<1> SUFFICES ASSUME DhcpInv, Serve PROVE DhcpInv'
  OBVIOUS
<1> DEFINE m == MessageFrom(Encoding(msg))
           r == UNION {Process(n) : n \in m}
           b == UNION {Written(n) : n \in r}
<1>1. /\ stage = "asking" /\ got' = m /\ reply' = r
      /\ stage' = IF r = {} THEN "ignored" ELSE IF b = {} THEN "panicked" ELSE "answered"
      /\ buf' = IF b = {} THEN <<>> ELSE CHOOSE x \in b : TRUE
      /\ msg' = msg /\ offer' = offer
  BY DEF Serve
<1>2. msg \in ClientMessages /\ Len(msg.options) <= MaxOptions + 4 /\ ClientInv
  BY DEF DhcpInv, ClientInv
<1>3. m = IF msg.options = <<>> THEN {} ELSE {msg}
  <2>1. msg.options \in Seq(Items) /\ MaxOptions \in Nat /\ Len(msg.options) \in Nat
    BY <1>2, ClientAssumption, LenProperties DEF ClientMessages
  <2>2. Len(msg.options) <= MaxOptions + 5
    BY <1>2, <2>1
  <2>3. msg.options \in Options[MaxRank]
    BY <2>1, <2>2, MessageRank
  <2>4. msg \in Messages
    BY <1>2, <2>3 DEF ClientMessages, Messages
  <2>5. QED
    BY <2>4, MessageParsed
<1> HIDE DEF m
<1>4. \A x \in r : IsReplyTo(x, msg)
  <2>1. \A x \in r : x \in Process(msg)
    BY <1>3
  <2>2. QED
    BY <1>2, <2>1, ReplyIs
<1>5. \A x \in r : Written(x) = {Encoding(x)}
  BY <1>2, <1>4, WrittenReply
<1>6. \A x \in b : \E y \in r : x = Encoding(y)
  BY <1>5
<1>7. r # {} => b # {}
  BY <1>5
<1>8. /\ stage' \in {"ignored", "answered"}
      /\ stage' = "answered" => buf' \in b
  <2> HIDE DEF r, b
  <2>1. b # {} => (CHOOSE x \in b : TRUE) \in b
    OBVIOUS
  <2>2. CASE r = {}
    BY <1>1, <2>2
  <2>3. CASE r # {}
    BY <1>1, <1>7, <2>1, <2>3
  <2>4. QED
    BY <2>2, <2>3
<1>9. ServerInv'
  <2>1. reply' = UNION {Process(n) : n \in got'}
    BY <1>1
  <2> HIDE DEF r, b
  <2>2. stage' = "answered" => \E y \in reply' : buf' = Encoding(y)
    BY <1>1, <1>6, <1>8
  <2>3. got' = IF msg'.options = <<>> THEN {} ELSE {msg'}
    BY <1>1, <1>3
  <2>4. stage' # "asking"
    BY <1>8
  <2>5. QED
    BY <1>8, <2>1, <2>2, <2>3, <2>4 DEF ServerInv
<1>10. ClientInv'
  BY <1>1, <1>2 DEF ClientInv
<1>11. QED
  BY <1>9, <1>10 DEF DhcpInv

(* What is found in a message, as a list.                                  *)
LEMMA FoundSeq ==
  \A m \in ClientMessages : \A code :
    /\ SetAsSeq(FindOption(m, code)) \in Seq(Items)
    /\ Len(SetAsSeq(FindOption(m, code))) \in 0..1
<1> TAKE m \in ClientMessages
<1> TAKE code
<1> DEFINE F == FindOption(m, code)
<1>1. CASE F = {}
  <2> DEFINE z == <<>>
  <2>1. z \in Seq(Items) /\ Len(z) = 0
    OBVIOUS
  <2>2. SetAsSeq(F) = z
    BY <1>1, SetAsSeqOf
  <2> HIDE DEF z, F
  <2>3. Len(z) \in 0..1
    BY <2>1
  <2>4. QED
    BY <2>1, <2>2, <2>3 DEF F
<1>2. CASE F # {}
  <2>1. PICK x \in Items : F = {x}
    BY <1>2, FoundInMessage
  <2> DEFINE z == <<x>>
  <2>2. z \in Seq(Items) /\ Len(z) = 1
    BY OneIsSeq
  <2>3. SetAsSeq(F) = z
    BY <2>1, SetAsSeqOf
  <2> HIDE DEF z, F
  <2>4. Len(z) \in 0..1
    BY <2>2
  <2>5. QED
    BY <2>2, <2>3, <2>4 DEF F
<1>3. QED
  BY <1>1, <1>2

(* Four lists of at most one option each.                                  *)
LEMMA FourLists ==
  \A S : \A a, b, c, d \in Seq(S) :
    /\ Len(a) \in 0..1 /\ Len(b) \in 0..1 /\ Len(c) = 1 /\ Len(d) \in 0..1
    => a \o b \o c \o d \in Seq(S) /\ Len(a \o b \o c \o d) \in 0..4
<1> TAKE S
<1> TAKE a, b, c, d \in Seq(S)
<1> SUFFICES ASSUME Len(a) \in 0..1, Len(b) \in 0..1, Len(c) = 1, Len(d) \in 0..1
             PROVE  a \o b \o c \o d \in Seq(S) /\ Len(a \o b \o c \o d) \in 0..4
  OBVIOUS
<1> DEFINE ab == a \o b
           abc == ab \o c
           abcd == abc \o d
<1>1. ab \in Seq(S) /\ Len(ab) = Len(a) + Len(b)
  BY ConcatProperties
<1> HIDE DEF ab
<1>2. abc \in Seq(S) /\ Len(abc) = Len(ab) + Len(c)
  BY <1>1, ConcatProperties
<1> HIDE DEF abc
<1>3. abcd \in Seq(S) /\ Len(abcd) = Len(abc) + Len(d)
  BY <1>2, ConcatProperties
<1> HIDE DEF abcd
<1>4. \A x, y, z \in 0..1 : ((x + y) + 1) + z \in 0..4
  OBVIOUS
<1>5. Len(abcd) = ((Len(a) + Len(b)) + 1) + Len(d)
  BY <1>1, <1>2, <1>3
<1>6. Len(abcd) \in 0..4
  BY <1>4, <1>5
<1>7. QED
  BY <1>3, <1>6 DEF abcd, abc, ab

(* The sequence t is s and one item more, x.                               *)
Grown(S, s, t, x) ==
  /\ s \in Seq(S) /\ t \in Seq(S) /\ x \in S
  /\ Len(t) = Len(s) + 1
  /\ \A i \in 1..Len(s) : t[i] = s[i]
  /\ t[Len(s) + 1] = x

(* It is the concatenation.                                                *)
LEMMA GrownIs == \A S, s, t, x : Grown(S, s, t, x) => s \o <<x>> = t
<1> SUFFICES ASSUME NEW S, NEW s, NEW t, NEW x, Grown(S, s, t, x)
             PROVE  s \o <<x>> = t
  OBVIOUS
<1> USE DEF Grown
<1>1. /\ Append(s, x) \in Seq(S) /\ Len(Append(s, x)) = Len(s) + 1
      /\ \A i \in 1..Len(s) : Append(s, x)[i] = s[i]
      /\ Append(s, x)[Len(s) + 1] = x
  BY AppendProperties
<1>2. Len(s) \in Nat
  BY LenProperties
<1>3. \A i \in 1..(Len(s) + 1) : i \in 1..Len(s) \/ i = Len(s) + 1
  BY <1>2
<1>4. Append(s, x) = t
  BY <1>1, <1>3, SeqEqual
<1>5. QED
  BY <1>4, AppendIsConcat

(* Four lists of one option each.                                          *)
LEMMA FourIs ==
  \A a, b, c, d : <<a>> \o <<b>> \o <<c>> \o <<d>> = <<a, b, c, d>>
<1> TAKE a, b, c, d
<1> DEFINE S == {a, b, c, d}
           A1 == <<a>>
           A2 == <<a, b>>
           A3 == <<a, b, c>>
           A4 == <<a, b, c, d>>
<1>1. Grown(S, A1, A2, b)
  BY DEF Grown
<1>2. Grown(S, A2, A3, c)
  BY DEF Grown
<1>3. Grown(S, A3, A4, d)
  BY DEF Grown
<1> HIDE DEF S, A1, A2, A3, A4
<1>4. A1 \o <<b>> = A2 /\ A2 \o <<c>> = A3 /\ A3 \o <<d>> = A4
  BY <1>1, <1>2, <1>3, GrownIs
<1>5. A1 \o <<b>> \o <<c>> \o <<d>> = A4
  BY <1>4
<1>6. QED
  BY <1>5 DEF A1, A4

(* The client goes on with what it was told.                               *)
LEMMA GoOnDhcpInv == DhcpInv /\ GoOn => DhcpInv'
<1> SUFFICES ASSUME DhcpInv, GoOn PROVE DhcpInv'
  OBVIOUS
<1>1. PICK r \in reply, xid \in TransactionIds,
           wait \in {o \in ClientOptions : o.code = Code.ElapsedTime} :
        LET asks == r.typ = MessageType.Advertise
            sid == IF asks THEN FindOption(r, Code.ServerId) ELSE {}
        IN /\ stage = "answered" /\ HasOption(r, Code.IaNa)
           /\ stage' = "asking" /\ offer' = {r}
           /\ msg' = Message(IF asks THEN MessageType.Request ELSE MessageType.Confirm,
                             xid, SetAsSeq(FindOption(msg, Code.ClientId))
                                    \o SetAsSeq(sid) \o <<wait>>
                                    \o SetAsSeq(FindOption(r, Code.IaNa)))
           /\ got' = {} /\ reply' = {} /\ buf' = <<>>
  BY DEF GoOn
<1> DEFINE asks == r.typ = MessageType.Advertise
           sid == IF asks THEN FindOption(r, Code.ServerId) ELSE {}
           typ == IF asks THEN MessageType.Request ELSE MessageType.Confirm
           a == SetAsSeq(FindOption(msg, Code.ClientId))
           b == SetAsSeq(sid)
           c == <<wait>>
           d == SetAsSeq(FindOption(r, Code.IaNa))
           s == a \o b \o c \o d
<1>2. /\ stage = "answered" /\ HasOption(r, Code.IaNa)
      /\ stage' = "asking" /\ offer' = {r} /\ msg' = Message(typ, xid, s)
      /\ got' = {} /\ reply' = {}
  BY <1>1
<1>3. msg \in ClientMessages
  BY DEF DhcpInv, ClientInv
<1>4. r \in Process(msg)
  BY <1>2 DEF DhcpInv, ServerInv
<1>5. IsReplyTo(r, msg) /\ r \in ClientMessages
  BY <1>3, <1>4, ReplyIs, WrittenReply
<1>6. wait \in Items /\ wait.code = Code.ElapsedTime
  BY <1>1, ClientItems
<1>7. typ \in Nat /\ xid \in Nat /\ (asks <=> typ = MessageType.Request)
  BY MessageTypeIsNat, ClientAssumption
<1>8. s \in Seq(Items) /\ Len(s) \in 0..4
  <2>1. a \in Seq(Items) /\ Len(a) \in 0..1
    BY <1>3, FoundSeq
  <2>2. d \in Seq(Items) /\ Len(d) \in 0..1
    BY <1>5, FoundSeq
  <2>3. c \in Seq(Items) /\ Len(c) = 1
    BY <1>6, OneIsSeq
  <2>4. b \in Seq(Items) /\ Len(b) \in 0..1
    <3>1. CASE asks
      BY <1>5, <3>1, FoundSeq
    <3>2. CASE ~asks
      <4> DEFINE z == <<>>
      <4>1. z \in Seq(Items) /\ Len(z) = 0
        OBVIOUS
      <4>2. b = z
        BY <3>2, SetAsSeqOf
      <4> HIDE DEF z, b
      <4>3. Len(z) \in 0..1
        BY <4>1
      <4>4. QED
        BY <4>1, <4>2, <4>3
    <3>3. QED
      BY <3>1, <3>2
  <2> HIDE DEF a, b, c, d
  <2>5. QED
    BY <2>1, <2>2, <2>3, <2>4, FourLists
<1>9. ASSUME asks
      PROVE  AsksFor(msg', r)
  <2>1. PICK x \in Items : /\ x.code = Code.ClientId
                           /\ FindOption(msg, Code.ClientId) = {x}
    BY <1>3, <1>5, FoundInMessage DEF IsReplyTo, HasOption
  <2>2. FindOption(r, Code.ServerId) = {ServerIs}
    BY <1>5, FindIsFirst DEF IsReplyTo
  <2>3. First(r.options, Code.IaNa) = FindOption(r, Code.IaNa)
    BY FindIsFirst
  <2>4. FindOption(r, Code.IaNa) = Leased(msg) /\ Leased(msg) # {}
    BY <1>2, <1>5, <2>3 DEF IsReplyTo, HasOption
  <2>5. PICK y \in Items : y.code = Code.IaNa /\ FindOption(msg, Code.IaNa) = {y}
    <3>1. FindOption(msg, Code.IaNa) # {}
      BY <2>4 DEF Leased
    <3>2. QED
      BY <1>3, <3>1, FoundInMessage
  <2> DEFINE l == Lease(y)
  <2>6. FindOption(r, Code.IaNa) = {l}
    BY <2>4, <2>5 DEF Leased
  <2>7. l.code = Code.IaNa /\ Lease(l) = l
    BY <2>5, LeaseIsGood
  <2> HIDE DEF l
  <2>8. a = <<x>>
    BY <2>1, SetAsSeqOf
  <2>9. b = <<ServerIs>>
    BY <1>9, <2>2, SetAsSeqOf
  <2>10. d = <<l>>
    BY <2>6, SetAsSeqOf
  <2> DEFINE q == <<x, ServerIs, wait, l>>
  <2>11. s = q
    BY <2>8, <2>9, <2>10, FourIs
  <2>12. Len(q) = 4 /\ q[1] = x /\ q[2] = ServerIs /\ q[3] = wait /\ q[4] = l
    OBVIOUS
  <2>13. msg'.options = q
    <3> HIDE DEF s, q
    <3>1. Message(typ, xid, s).options = s
      BY MessageIs
    <3>2. QED
      BY <1>2, <2>11, <3>1
  <2> HIDE DEF q
  <2>14. QED
    BY <1>6, <2>1, <2>6, <2>7, <2>12, <2>13 DEF AsksFor
<1> HIDE DEF s, typ
<1>10. msg' \in ClientMessages /\ msg'.typ = typ /\ msg'.options = s
  BY <1>2, <1>7, <1>8, MessageIs DEF ClientMessages, Message
<1>11. Len(msg'.options) <= MaxOptions + 4
  <2>1. \A k \in 0..4 : k <= MaxOptions + 4
    BY ClientAssumption
  <2>2. QED
    BY <1>8, <1>10, <2>1
<1>12. ClientInv'
  <2>1. \A o \in offer' : msg'.typ = MessageType.Request => AsksFor(msg', o)
    BY <1>2, <1>7, <1>9, <1>10
  <2>2. QED
    BY <1>10, <1>11, <2>1 DEF ClientInv
<1>13. ServerInv'
  BY <1>2 DEF ServerInv
<1>14. QED
  BY <1>12, <1>13 DEF DhcpInv

(* Every step keeps the invariant.                                         *)
LEMMA NextDhcpInv == DhcpInv /\ [DhcpNext]_dhcpVars => DhcpInv'
<1>1. DhcpInv /\ UNCHANGED dhcpVars => DhcpInv'
  BY DEF DhcpInv, ClientInv, ServerInv, dhcpVars
<1>2. QED
  BY <1>1, AddOptionDhcpInv, ServeDhcpInv, GoOnDhcpInv, StartOverDhcpInv DEF DhcpNext

(* So it always holds.                                                     *)
LEMMA DhcpInvHolds == DhcpSpec => []DhcpInv
BY InitDhcpInv, NextDhcpInv, PTL DEF DhcpSpec

-----------------------------------------------------------------------------
(* Whatever options a client writes, in whatever order and however deep,   *)
(* the server takes the message for just that (Message::from_bytes(),      *)
(* Option::from_bytes()): the parser steps by the length of what it made   *)
(* of an option, and that is the length the option came with.              *)
THEOREM MessagesAreParsed == DhcpSpec => []ParsedAsMeant
<1>1. DhcpInv => ParsedAsMeant
  BY DEF DhcpInv, ServerInv, ParsedAsMeant
<1>2. QED
  BY <1>1, DhcpInvHolds, PTL

(* Every reply is written into just the buffer that was allocated for it,  *)
(* and never panics (Message::copy_into(), generate_packet()): what has to *)
(* be copied into all that is left of a buffer comes last in every reply.  *)
THEOREM RepliesAreEncoded == DhcpSpec => []ReplyIsEncoded
<1>1. DhcpInv => ReplyIsEncoded
  BY DEF DhcpInv, ServerInv, ReplyIsEncoded
<1>2. QED
  BY <1>1, DhcpInvHolds, PTL

(* A lease is for the association it was asked for, and a client that asks *)
(* for what it was offered gets it (process_request_message()): the server *)
(* finds its own DUID in the request, and leases what it leased before.    *)
THEOREM OffersAreKept == DhcpSpec => []OfferIsKept
<1>1. DhcpInv => OfferIsKept
  <2> SUFFICES ASSUME DhcpInv PROVE OfferIsKept
    OBVIOUS
  <2>1. msg \in ClientMessages
    BY DEF DhcpInv, ClientInv
  <2>2. \A r \in reply : r \in Process(msg)
    BY DEF DhcpInv, ServerInv
  <2>3. ASSUME NEW r \in reply, NEW lease \in FindOption(r, Code.IaNa),
               NEW ia \in FindOption(msg, Code.IaNa)
        PROVE  lease.head[1] = ia.head[1]
    <3>1. IsReplyTo(r, msg)
      BY <2>1, <2>2, ReplyIs
    <3>2. lease \in Leased(msg)
      BY <3>1, FindIsFirst DEF IsReplyTo
    <3>3. PICK x \in Items : x.code = Code.IaNa /\ FindOption(msg, Code.IaNa) = {x}
      BY <2>1, FoundInMessage
    <3>4. lease = Lease(x) /\ ia = x
      BY <3>2, <3>3 DEF Leased
    <3>5. QED
      BY <3>3, <3>4, LeaseIsGood
  <2>4. ASSUME NEW o \in offer, stage # "asking", msg.typ = MessageType.Request
        PROVE  \E r \in reply : /\ r.typ = MessageType.Reply /\ r.xid = msg.xid
                                /\ FindOption(r, Code.IaNa) = FindOption(o, Code.IaNa)
    <3>1. AsksFor(msg, o)
      BY <2>4 DEF DhcpInv, ClientInv
    <3>2. msg.options # <<>>
      BY <3>1 DEF AsksFor
    <3>3. reply = Process(msg)
      BY <2>4, <3>2 DEF DhcpInv, ServerInv
    <3>4. QED
      BY <2>1, <2>4, <3>1, <3>3, RequestIsAnswered
  <2>5. QED
    BY <2>3, <2>4 DEF OfferIsKept
<1>2. QED
  BY <1>1, DhcpInvHolds, PTL
=============================================================================

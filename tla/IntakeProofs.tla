----------------------------- MODULE IntakeProofs -----------------------------
(***************************************************************************)
(* Theorems of Intake, and their proofs: which addresses the blocked       *)
(* networks hold, what becomes of a body, and where its link is found.     *)
(* Proved for every IPv4 and IPv6 address, for all bodies, names, answers  *)
(* of the name service, clock bounds and any number of requests.           *)
(***************************************************************************)
EXTENDS Intake, WellFoundedInduction, TLAPS

-------------------------------------------------------------------------------
(* Addresses *)

(* A set of numbers has a least one. *)
LEMMA LeastExists ==
  ASSUME NEW S \in SUBSET Nat, S # {}
  PROVE  \E x \in S : \A y \in S : x <= y
<1> DEFINE R == OpToRel(<, Nat)
<1>1. PICK x \in S : \A y \in S : <<y, x>> \notin R
  <2>1. IsWellFoundedOn(R, Nat)
    BY NatLessThanWellFounded
  <2> HIDE DEF R
  <2> QED
    BY <2>1, WFMin
<1>2. \A y \in S : ~(y < x)
  BY <1>1 DEF OpToRel
<1> QED
  BY <1>2

(* A byte is a number of 0 to 255. *)
LEMMA ByteRange == \A x \in Byte : x \in Int /\ 0 <= x /\ x <= 255
BY DEF Byte

(* The addresses from lo to hi, byte by byte from the first. *)
Between(lo, a, hi) == UpTo(lo, a) /\ UpTo(a, hi)

(* The first p - 1 bytes are those of lo, byte p lies between those of lo and hi. *)
Within(lo, a, hi, p) ==
  (\A i \in 1 .. p - 1 : a[i] = lo[i]) /\ lo[p] <= a[p] /\ a[p] <= hi[p]

(* lo and hi agree before byte p; behind it are all zeros in lo, all ones in hi. *)
Spans(n, lo, hi, p) ==
  /\ lo \in [1 .. n -> Byte] /\ hi \in [1 .. n -> Byte] /\ p \in 1 .. n
  /\ \A i \in 1 .. p - 1 : lo[i] = hi[i]
  /\ \A i \in p + 1 .. n : lo[i] = 0 /\ hi[i] = 255
  /\ lo[p] <= hi[p]

(* From all zeros to all ones behind a common prefix and a byte of its own range *)
(* lie exactly the addresses with that prefix and a byte within the range.       *)
LEMMA PrefixRange ==
  ASSUME NEW n \in Nat, NEW lo, NEW hi, NEW p, Spans(n, lo, hi, p), NEW a \in [1 .. n -> Byte]
  PROVE  Between(lo, a, hi) <=> Within(lo, a, hi, p)
<1> USE DEF Within, Spans
<1>1. /\ Len(lo) = n /\ Len(a) = n /\ Len(hi) = n
      /\ DOMAIN lo = 1 .. n /\ DOMAIN a = 1 .. n /\ DOMAIN hi = 1 .. n
  OBVIOUS
<1>2. \A i \in 1 .. n : /\ lo[i] \in Int /\ hi[i] \in Int /\ a[i] \in Int
                        /\ 0 <= a[i] /\ a[i] <= 255
  <2> TAKE i \in 1 .. n
  <2>1. lo[i] \in Byte /\ hi[i] \in Byte /\ a[i] \in Byte
    OBVIOUS
  <2> QED
    BY <2>1, ByteRange
<1> p \in 1 .. n /\ p \in Int /\ n \in Int
  OBVIOUS
<1>3. ASSUME Between(lo, a, hi)
      PROVE  (\A i \in 1 .. p - 1 : a[i] = lo[i]) /\ lo[p] <= a[p] /\ a[p] <= hi[p]
  <2>1. \/ a = lo
        \/ \E i \in 1 .. n : lo[i] < a[i] /\ \A j \in 1 .. i - 1 : lo[j] = a[j]
    BY <1>1, <1>3 DEF Between, UpTo
  <2>2. \/ a = hi
        \/ \E i \in 1 .. n : a[i] < hi[i] /\ \A j \in 1 .. i - 1 : a[j] = hi[j]
    BY <1>1, <1>3 DEF Between, UpTo
  <2>3. CASE a = lo \/ a = hi
    BY <1>2, <2>3
  <2>4. ASSUME NEW i \in 1 .. n, lo[i] < a[i], \A j \in 1 .. i - 1 : lo[j] = a[j],
               NEW k \in 1 .. n, a[k] < hi[k], \A j \in 1 .. k - 1 : a[j] = hi[j]
        PROVE  (\A m \in 1 .. p - 1 : a[m] = lo[m]) /\ lo[p] <= a[p] /\ a[p] <= hi[p]
    <3>1. i >= p /\ k >= p
      <4>1. i < k => a[i] = hi[i]
        BY <2>4
      <4>2. k < i => lo[k] = a[k]
        BY <2>4
      <4>3. i < p => lo[i] = hi[i]
        OBVIOUS
      <4>4. k < p => lo[k] = hi[k]
        OBVIOUS
      <4>5. i < k \/ k < i \/ i = k
        OBVIOUS
      <4>6. ~(i < p /\ i <= k)
        BY <1>2, <2>4, <4>1, <4>3
      <4>7. ~(k < p /\ k <= i)
        BY <1>2, <2>4, <4>2, <4>4
      <4> QED
        BY <4>5, <4>6, <4>7
    <3>2. lo[p] <= a[p]
      <4>1. p < i => lo[p] = a[p]
        BY <2>4
      <4>2. p = i => lo[p] < a[p]
        BY <2>4
      <4> QED
        BY <1>2, <3>1, <4>1, <4>2
    <3>3. a[p] <= hi[p]
      <4>1. p < k => a[p] = hi[p]
        BY <2>4
      <4>2. p = k => a[p] < hi[p]
        BY <2>4
      <4> QED
        BY <1>2, <3>1, <4>1, <4>2
    <3> QED
      BY <2>4, <3>1, <3>2, <3>3
  <2> QED
    BY <2>1, <2>2, <2>3, <2>4
<1>4. ASSUME \A i \in 1 .. p - 1 : a[i] = lo[i], lo[p] <= a[p], a[p] <= hi[p]
      PROVE  Between(lo, a, hi)
  <2>1. UpTo(lo, a)
    <3>1. CASE a = lo
      BY <1>1, <3>1 DEF UpTo
    <3>2. CASE a # lo
      <4> DEFINE S == {i \in 1 .. n : lo[i] # a[i]}
      <4>1. S # {} /\ S \in SUBSET Nat
        BY <1>1, <3>2
      <4>2. PICK i \in S : \A y \in S : i <= y
        <5> HIDE DEF S
        <5> QED
          BY <4>1, LeastExists
      <4>3. i \in 1 .. n /\ \A j \in 1 .. i - 1 : lo[j] = a[j]
        BY <4>2
      <4>4. lo[i] < a[i]
        BY <1>2, <1>4, <4>2, <4>3
      <4> QED
        BY <1>1, <4>3, <4>4 DEF UpTo
    <3> QED
      BY <3>1, <3>2
  <2>2. UpTo(a, hi)
    <3>1. CASE a = hi
      BY <1>1, <3>1 DEF UpTo
    <3>2. CASE a # hi
      <4> DEFINE S == {i \in 1 .. n : a[i] # hi[i]}
      <4>1. S # {} /\ S \in SUBSET Nat
        BY <1>1, <3>2
      <4>2. PICK i \in S : \A y \in S : i <= y
        <5> HIDE DEF S
        <5> QED
          BY <4>1, LeastExists
      <4>3. i \in 1 .. n /\ \A j \in 1 .. i - 1 : a[j] = hi[j]
        BY <4>2
      <4>4. a[i] < hi[i]
        <5>1. i < p => a[i] = hi[i]
          BY <1>4, <4>3
        <5>2. i > p => hi[i] = 255
          BY <4>3
        <5>3. a[i] # hi[i]
          BY <4>2
        <5> QED
          BY <1>2, <1>4, <4>3, <5>1, <5>2, <5>3
      <4> QED
        BY <1>1, <4>3, <4>4 DEF UpTo
    <3> QED
      BY <3>1, <3>2
  <2> QED
    BY <2>1, <2>2 DEF Between
<1> QED
  BY <1>3, <1>4

(* The bits of a byte that a prefix leaves free, and what dividing by them means. *)
LEMMA FreeBits ==
  ASSUME NEW c \in 1 .. 8, NEW x \in Byte, NEW y \in Byte, y % Free(c) = 0
  PROVE  /\ Free(c) \in Int /\ Free(c) >= 1
         /\ x \div Free(c) = y \div Free(c) <=> y <= x /\ x <= y + Free(c) - 1
<1> USE DEF Byte, Free
<1>1. c = 1 \/ c = 2 \/ c = 3 \/ c = 4 \/ c = 5 \/ c = 6 \/ c = 7 \/ c = 8
  OBVIOUS
<1>2. CASE c = 1
  BY <1>2
<1>3. CASE c = 2
  BY <1>3
<1>4. CASE c = 3
  BY <1>4
<1>5. CASE c = 4
  BY <1>5
<1>6. CASE c = 5
  BY <1>6
<1>7. CASE c = 6
  BY <1>7
<1>8. CASE c = 7
  BY <1>8
<1>9. CASE c = 8
  BY <1>9
<1> QED
  BY <1>1, <1>2, <1>3, <1>4, <1>5, <1>6, <1>7, <1>8, <1>9

(* lo and hi are the first and last address of a network of 8 * (p - 1) + c bits. *)
IsRange(n, lo, hi, p, c) ==
  /\ lo \in [1 .. n -> Byte] /\ hi \in [1 .. n -> Byte] /\ p \in 1 .. n /\ c \in 1 .. 8
  /\ \A i \in 1 .. p - 1 : lo[i] = hi[i]
  /\ \A i \in p + 1 .. n : lo[i] = 0 /\ hi[i] = 255
  /\ lo[p] % Free(c) = 0 /\ hi[p] = lo[p] + Free(c) - 1

(* A network is the range from its first address to its last. *)
LEMMA NetworkIsRange ==
  ASSUME NEW n \in Nat, NEW lo, NEW hi, NEW p, NEW c, IsRange(n, lo, hi, p, c),
         NEW a \in [1 .. n -> Byte]
  PROVE  InNetwork(a, Network(lo, 8 * (p - 1) + c)) <=> Between(lo, a, hi)
<1> DEFINE len == 8 * (p - 1) + c
           free(i) == Free(Covered(len, i))
           agrees(i) == a[i] \div free(i) = lo[i] \div free(i)
<1> USE DEF IsRange
<1>1. \A i \in 1 .. p - 1 : free(i) = 1
  BY DEF Covered, Free
<1>2. Covered(len, p) = c
  BY DEF Covered
<1>3. \A i \in p + 1 .. n : free(i) = 256
  <2>1. \A i \in p + 1 .. n : Covered(len, i) = 0
    BY DEF Covered
  <2>2. Free(0) = 256
    BY DEF Free
  <2> QED
    BY <2>1, <2>2
<1>4. Len(a) = n /\ Len(lo) = n /\ DOMAIN a = 1 .. n
  OBVIOUS
<1>5. InNetwork(a, Network(lo, len)) <=> \A i \in 1 .. n : agrees(i)
  BY <1>4 DEF InNetwork, Network
<1>6. ASSUME NEW i \in 1 .. p - 1 PROVE agrees(i) <=> a[i] = lo[i]
  <2>1. a[i] \in Int /\ lo[i] \in Int
    BY <1>6, ByteRange
  <2> QED
    BY <1>1, <2>1
<1>7. ASSUME NEW i \in p + 1 .. n PROVE agrees(i)
  <2>1. a[i] \in Byte /\ lo[i] \in Byte
    BY <1>7
  <2>2. \A x \in Byte : x \div 256 = 0
    BY DEF Byte
  <2> QED
    BY <1>3, <2>1, <2>2
<1>8. /\ lo[p] <= hi[p]
      /\ agrees(p) <=> lo[p] <= a[p] /\ a[p] <= hi[p]
  <2>1. a[p] \in Byte /\ lo[p] \in Byte
    OBVIOUS
  <2>2. /\ Free(c) \in Int /\ Free(c) >= 1
        /\ a[p] \div Free(c) = lo[p] \div Free(c) <=> lo[p] <= a[p] /\ a[p] <= lo[p] + Free(c) - 1
    BY <2>1, FreeBits
  <2>3. lo[p] \in Int
    BY <2>1, ByteRange
  <2> QED
    BY <1>2, <2>2, <2>3
<1> HIDE DEF agrees, free
<1>9. InNetwork(a, Network(lo, len)) <=> Within(lo, a, hi, p)
  BY <1>5, <1>6, <1>7, <1>8 DEF Within
<1>10. Spans(n, lo, hi, p)
  BY <1>8 DEF Spans
<1> QED
  BY <1>9, <1>10, PrefixRange

(* net holds the addresses from lo to hi and no others. *)
SameAddresses(net, lo, hi) == \A a \in Address : InNetwork(a, net) <=> Between(lo, a, hi)

(* A network has no address of the other version, and neither has a range. *)
LEMMA RangeOfNetwork ==
  ASSUME NEW n \in {4, 16}, NEW lo, NEW hi, NEW p, NEW c, IsRange(n, lo, hi, p, c)
  PROVE  SameAddresses(Network(lo, 8 * (p - 1) + c), lo, hi)
<1> SUFFICES ASSUME NEW a \in Address
             PROVE  InNetwork(a, Network(lo, 8 * (p - 1) + c)) <=> Between(lo, a, hi)
  BY DEF SameAddresses
<1>1. CASE a \in [1 .. n -> Byte]
  BY <1>1, NetworkIsRange
<1>2. CASE a \notin [1 .. n -> Byte]
  <2>1. (a \in [1 .. 4 -> Byte] /\ n = 16) \/ (a \in [1 .. 16 -> Byte] /\ n = 4)
    BY <1>2 DEF Address
  <2>2. Len(lo) = n
    BY DEF IsRange
  <2>3. a \in [1 .. 4 -> Byte] => Len(a) = 4
    OBVIOUS
  <2>4. a \in [1 .. 16 -> Byte] => Len(a) = 16
    OBVIOUS
  <2>5. Len(a) # Len(lo)
    <3>1. CASE a \in [1 .. 4 -> Byte] /\ n = 16
      BY <2>2, <2>3, <3>1
    <3>2. CASE a \in [1 .. 16 -> Byte] /\ n = 4
      BY <2>2, <2>4, <3>2
    <3> QED
      BY <2>1, <3>1, <3>2
  <2> QED
    BY <2>5 DEF InNetwork, Network, Between, UpTo
<1> QED
  BY <1>1, <1>2

(* The ten IPv4 networks of _BLOCKED_NETWORKS, by their first and last addresses. *)
LEMMA V4Networks ==
  /\ SameAddresses(Network(<<10, 0, 0, 0>>, 8), <<10, 0, 0, 0>>, <<10, 255, 255, 255>>)
  /\ SameAddresses(Network(<<172, 16, 0, 0>>, 12), <<172, 16, 0, 0>>, <<172, 31, 255, 255>>)
  /\ SameAddresses(Network(<<192, 168, 0, 0>>, 16), <<192, 168, 0, 0>>, <<192, 168, 255, 255>>)
  /\ SameAddresses(Network(<<127, 0, 0, 0>>, 8), <<127, 0, 0, 0>>, <<127, 255, 255, 255>>)
  /\ SameAddresses(Network(<<169, 254, 0, 0>>, 16), <<169, 254, 0, 0>>, <<169, 254, 255, 255>>)
  /\ SameAddresses(Network(<<100, 64, 0, 0>>, 10), <<100, 64, 0, 0>>, <<100, 127, 255, 255>>)
  /\ SameAddresses(Network(<<192, 0, 2, 0>>, 24), <<192, 0, 2, 0>>, <<192, 0, 2, 255>>)
  /\ SameAddresses(Network(<<198, 51, 100, 0>>, 24), <<198, 51, 100, 0>>, <<198, 51, 100, 255>>)
  /\ SameAddresses(Network(<<203, 0, 113, 0>>, 24), <<203, 0, 113, 0>>, <<203, 0, 113, 255>>)
  /\ SameAddresses(Network(<<0, 0, 0, 0>>, 8), <<0, 0, 0, 0>>, <<0, 255, 255, 255>>)
<1>1. IsRange(4, <<10, 0, 0, 0>>, <<10, 255, 255, 255>>, 1, 8)
  BY DEF IsRange, Byte, Free
<1>2. IsRange(4, <<172, 16, 0, 0>>, <<172, 31, 255, 255>>, 2, 4)
  BY DEF IsRange, Byte, Free
<1>3. IsRange(4, <<192, 168, 0, 0>>, <<192, 168, 255, 255>>, 2, 8)
  BY DEF IsRange, Byte, Free
<1>4. IsRange(4, <<127, 0, 0, 0>>, <<127, 255, 255, 255>>, 1, 8)
  BY DEF IsRange, Byte, Free
<1>5. IsRange(4, <<169, 254, 0, 0>>, <<169, 254, 255, 255>>, 2, 8)
  BY DEF IsRange, Byte, Free
<1>6. IsRange(4, <<100, 64, 0, 0>>, <<100, 127, 255, 255>>, 2, 2)
  BY DEF IsRange, Byte, Free
<1>7. IsRange(4, <<192, 0, 2, 0>>, <<192, 0, 2, 255>>, 3, 8)
  BY DEF IsRange, Byte, Free
<1>8. IsRange(4, <<198, 51, 100, 0>>, <<198, 51, 100, 255>>, 3, 8)
  BY DEF IsRange, Byte, Free
<1>9. IsRange(4, <<203, 0, 113, 0>>, <<203, 0, 113, 255>>, 3, 8)
  BY DEF IsRange, Byte, Free
<1>10. IsRange(4, <<0, 0, 0, 0>>, <<0, 255, 255, 255>>, 1, 8)
  BY DEF IsRange, Byte, Free
<1> QED
  BY <1>1, <1>2, <1>3, <1>4, <1>5, <1>6, <1>7, <1>8, <1>9, <1>10, RangeOfNetwork

(* The four IPv6 networks of _BLOCKED_NETWORKS, likewise. *)
LEMMA V6Networks ==
  /\ SameAddresses(Network(Zeros(15) \o <<1>>, 128), Zeros(15) \o <<1>>, V6Last(<<>>, 0, 1))
  /\ SameAddresses(Network(V6(<<252>>), 7), V6(<<252>>), V6Last(<<253>>, 255, 255))
  /\ SameAddresses(Network(V6(<<254, 128>>), 10), V6(<<254, 128>>), V6Last(<<254, 191>>, 255, 255))
  /\ SameAddresses(Network(V6(Zeros(10) \o <<255, 255>>), 96),
                   V6(Zeros(10) \o <<255, 255>>), V6Last(Zeros(10) \o <<255, 255>>, 255, 255))
<1>1. IsRange(16, Zeros(15) \o <<1>>, V6Last(<<>>, 0, 1), 16, 8)
  <2>1. Zeros(15) \o <<1>> = [i \in 1 .. 16 |-> IF i = 16 THEN 1 ELSE 0]
    BY DEF V6, Zeros
  <2>2. V6Last(<<>>, 0, 1) = [i \in 1 .. 16 |-> IF i = 16 THEN 1 ELSE 0]
    BY DEF V6Last, Zeros
  <2>3. Zeros(15) \o <<1>> = V6Last(<<>>, 0, 1)
    BY <2>1, <2>2
  <2> DEFINE one == V6Last(<<>>, 0, 1)
  <2>4. one \in [1 .. 16 -> Byte] /\ one[16] = 1 /\ Free(8) = 1
    BY <2>2 DEF Byte, Free
  <2> HIDE DEF one
  <2>5. IsRange(16, one, one, 16, 8)
    BY <2>4 DEF IsRange
  <2> QED
    BY <2>3, <2>5 DEF one
<1>2. IsRange(16, V6(<<252>>), V6Last(<<253>>, 255, 255), 1, 7)
  <2>1. V6(<<252>>) = [i \in 1 .. 16 |-> IF i = 1 THEN 252 ELSE 0]
    BY DEF V6, Zeros
  <2>2. V6Last(<<253>>, 255, 255) = [i \in 1 .. 16 |-> IF i = 1 THEN 253 ELSE 255]
    BY DEF V6Last, Zeros
  <2> QED
    BY <2>1, <2>2 DEF IsRange, Byte, Free
<1>3. IsRange(16, V6(<<254, 128>>), V6Last(<<254, 191>>, 255, 255), 2, 2)
  <2>1. V6(<<254, 128>>) =
          [i \in 1 .. 16 |-> CASE i = 1 -> 254 [] i = 2 -> 128 [] OTHER -> 0]
    BY DEF V6, Zeros
  <2>2. V6Last(<<254, 191>>, 255, 255) =
          [i \in 1 .. 16 |-> CASE i = 1 -> 254 [] i = 2 -> 191 [] OTHER -> 255]
    BY DEF V6Last, Zeros
  <2> QED
    BY <2>1, <2>2 DEF IsRange, Byte, Free
<1>4. IsRange(16, V6(Zeros(10) \o <<255, 255>>),
                  V6Last(Zeros(10) \o <<255, 255>>, 255, 255), 12, 8)
  <2>1. V6(Zeros(10) \o <<255, 255>>) = [i \in 1 .. 16 |-> IF i > 10 /\ i <= 12 THEN 255 ELSE 0]
    BY DEF V6, Zeros
  <2>2. V6Last(Zeros(10) \o <<255, 255>>, 255, 255) =
          [i \in 1 .. 16 |-> IF i <= 10 THEN 0 ELSE 255]
    BY DEF V6Last, Zeros
  <2> QED
    BY <2>1, <2>2 DEF IsRange, Byte, Free
<1> QED
  BY <1>1, <1>2, <1>3, <1>4, RangeOfNetwork

(* The networks that are blocked are the reserved ranges, first to last address: *)
(* no address more and none less.                                               *)
THEOREM BlockedIsReserved == \A a \in Address : Blocked(a) <=> IsReserved(a)
<1> SUFFICES ASSUME NEW a \in Address PROVE Blocked(a) <=> IsReserved(a)
  OBVIOUS
<1> DEFINE from(lo, hi) == Between(lo, a, hi)
           in(addr, len) == InNetwork(a, Network(addr, len))
<1>1. IsReserved(a) <=>
        \/ from(<<10, 0, 0, 0>>, <<10, 255, 255, 255>>)
        \/ from(<<172, 16, 0, 0>>, <<172, 31, 255, 255>>)
        \/ from(<<192, 168, 0, 0>>, <<192, 168, 255, 255>>)
        \/ from(<<127, 0, 0, 0>>, <<127, 255, 255, 255>>)
        \/ from(<<169, 254, 0, 0>>, <<169, 254, 255, 255>>)
        \/ from(<<100, 64, 0, 0>>, <<100, 127, 255, 255>>)
        \/ from(<<192, 0, 2, 0>>, <<192, 0, 2, 255>>)
        \/ from(<<198, 51, 100, 0>>, <<198, 51, 100, 255>>)
        \/ from(<<203, 0, 113, 0>>, <<203, 0, 113, 255>>)
        \/ from(<<0, 0, 0, 0>>, <<0, 255, 255, 255>>)
        \/ from(V6Last(<<>>, 0, 1), V6Last(<<>>, 0, 1))
        \/ from(V6(<<252>>), V6Last(<<253>>, 255, 255))
        \/ from(V6(<<254, 128>>), V6Last(<<254, 191>>, 255, 255))
        \/ from(V6(Zeros(10) \o <<255, 255>>), V6Last(Zeros(10) \o <<255, 255>>, 255, 255))
  BY SMTT(60) DEF IsReserved, Reserved, Between
<1>2. Blocked(a) <=>
        \/ in(<<10, 0, 0, 0>>, 8) \/ in(<<172, 16, 0, 0>>, 12) \/ in(<<192, 168, 0, 0>>, 16)
        \/ in(<<127, 0, 0, 0>>, 8) \/ in(<<169, 254, 0, 0>>, 16) \/ in(<<100, 64, 0, 0>>, 10)
        \/ in(<<192, 0, 2, 0>>, 24) \/ in(<<198, 51, 100, 0>>, 24) \/ in(<<203, 0, 113, 0>>, 24)
        \/ in(<<0, 0, 0, 0>>, 8) \/ in(Zeros(15) \o <<1>>, 128) \/ in(V6(<<252>>), 7)
        \/ in(V6(<<254, 128>>), 10) \/ in(V6(Zeros(10) \o <<255, 255>>), 96)
  BY SMTT(60) DEF Blocked, BlockedNetworks, Network
<1>3. Zeros(15) \o <<1>> = V6Last(<<>>, 0, 1)
  BY DEF Zeros, V6Last
<1>4. ASSUME NEW net, NEW lo, NEW hi, SameAddresses(net, lo, hi)
      PROVE  InNetwork(a, net) <=> Between(lo, a, hi)
  BY <1>4 DEF SameAddresses
<1>5. /\ in(<<10, 0, 0, 0>>, 8) <=> from(<<10, 0, 0, 0>>, <<10, 255, 255, 255>>)
      /\ in(<<172, 16, 0, 0>>, 12) <=> from(<<172, 16, 0, 0>>, <<172, 31, 255, 255>>)
      /\ in(<<192, 168, 0, 0>>, 16) <=> from(<<192, 168, 0, 0>>, <<192, 168, 255, 255>>)
      /\ in(<<127, 0, 0, 0>>, 8) <=> from(<<127, 0, 0, 0>>, <<127, 255, 255, 255>>)
      /\ in(<<169, 254, 0, 0>>, 16) <=> from(<<169, 254, 0, 0>>, <<169, 254, 255, 255>>)
      /\ in(<<100, 64, 0, 0>>, 10) <=> from(<<100, 64, 0, 0>>, <<100, 127, 255, 255>>)
      /\ in(<<192, 0, 2, 0>>, 24) <=> from(<<192, 0, 2, 0>>, <<192, 0, 2, 255>>)
      /\ in(<<198, 51, 100, 0>>, 24) <=> from(<<198, 51, 100, 0>>, <<198, 51, 100, 255>>)
      /\ in(<<203, 0, 113, 0>>, 24) <=> from(<<203, 0, 113, 0>>, <<203, 0, 113, 255>>)
      /\ in(<<0, 0, 0, 0>>, 8) <=> from(<<0, 0, 0, 0>>, <<0, 255, 255, 255>>)
  BY <1>4, V4Networks
<1>6. in(Zeros(15) \o <<1>>, 128) <=> from(V6Last(<<>>, 0, 1), V6Last(<<>>, 0, 1))
  <2>1. in(Zeros(15) \o <<1>>, 128) <=> from(Zeros(15) \o <<1>>, V6Last(<<>>, 0, 1))
    BY <1>4, V6Networks
  <2> QED
    BY <1>3, <2>1
<1>7. /\ in(V6(<<252>>), 7) <=> from(V6(<<252>>), V6Last(<<253>>, 255, 255))
      /\ in(V6(<<254, 128>>), 10) <=> from(V6(<<254, 128>>), V6Last(<<254, 191>>, 255, 255))
      /\ in(V6(Zeros(10) \o <<255, 255>>), 96) <=>
           from(V6(Zeros(10) \o <<255, 255>>), V6Last(Zeros(10) \o <<255, 255>>, 255, 255))
  BY <1>4, V6Networks
<1> HIDE DEF in, from
<1> QED
  BY <1>1, <1>2, <1>5, <1>6, <1>7, SMTT(60)

-------------------------------------------------------------------------------
(* Bodies *)

(* A body in use is one of the bodies; its parts are those of the schema. *)
LEMMA BodyParts ==
  ASSUME NEW b \in Bodies
  PROVE  /\ b.typed \in BOOLEAN /\ b.url \in LongUrl
         /\ b.alias \in Names \cup {None}
         /\ b.expires_at \in Timestamp \cup {None}
         /\ HasTtl(b) => b.ttl \in Ttl
BY IntakeAssumption DEF HasTtl, Body

(* A lifetime is a number of ticks. *)
LEMMA TimedeltaIsNat == \A t \in Ttl : Timedelta(t) \in Nat
<1> SUFFICES ASSUME NEW t \in Ttl PROVE Timedelta(t) \in Nat
  OBVIOUS
<1>1. t.n \in Nat /\ Minute \in Nat
  BY IntakeAssumption DEF Ttl
<1>2. \A k \in Nat : t.n * k * Minute \in Nat
  BY <1>1
<1>3. t.n * Minute \in Nat
  BY <1>1
<1> HIDE DEF Ttl
<1> QED
  BY <1>1, <1>2, <1>3 DEF Timedelta

(* A lifetime of n units is n times its unit, for each of the four forms. *)
LEMMA TimedeltaInUnits ==
  ASSUME NEW t \in Ttl, t.form \notin {"empty", "other"}
  PROVE  Timedelta(t) = t.n * Units[t.form] * Minute
<1>1. t.n \in Nat /\ Minute \in Nat /\ t.form \in {"PnW", "PnD", "PTnH", "PTnM"}
  BY IntakeAssumption DEF Ttl
<1>2. CASE t.form = "PnW"
  BY <1>1, <1>2 DEF Timedelta, Units
<1>3. CASE t.form = "PnD"
  BY <1>1, <1>3 DEF Timedelta, Units
<1>4. CASE t.form = "PTnH"
  BY <1>1, <1>4 DEF Timedelta, Units
<1>5. CASE t.form = "PTnM"
  BY <1>1, <1>5 DEF Timedelta, Units
<1> QED
  BY <1>1, <1>2, <1>3, <1>4, <1>5

(* What create_url does not refuse has passed each check of validate_url. *)
LEMMA NotRefused ==
  ASSUME NEW b \in Bodies, NEW addrs, ~Refused(b, addrs)
  PROVE  /\ AsksForAddresses(b.url) /\ ~HasUnknownTtl(b)
         /\ addrs # {} /\ \A a \in addrs : ~Blocked(a)
<1>1. b.url.parses \in BOOLEAN /\ b.url.host \in Host
  BY BodyParts DEF LongUrl
<1>2. Verdict(b.url, addrs) = "OK" /\ ~HasUnknownTtl(b)
  BY DEF Refused
<1> QED
  BY <1>1, <1>2 DEF Verdict, AsksForAddresses, IsPrivate, Host

(* What it refuses failed one of them, or has a ttl of no form it knows. *)
LEMMA RefusedBy ==
  ASSUME NEW b \in Bodies, NEW addrs, Refused(b, addrs)
  PROVE  \/ HasUnknownTtl(b) \/ ~AsksForAddresses(b.url)
         \/ addrs = {} \/ \E a \in addrs : Blocked(a)
<1>1. b.url.parses \in BOOLEAN /\ b.url.host \in Host
  BY BodyParts DEF LongUrl
<1> QED
  BY <1>1 DEF Refused, Verdict, AsksForAddresses, IsPrivate, Host

-------------------------------------------------------------------------------
(* The inductive invariant *)

(* The types, without the width of the code column and the range of an expiry. *)
Typed ==
  /\ now \in Nat
  /\ pc \in [Reqs -> {"idle", "create_url", "persist", "end"}]
  /\ body \in [Reqs -> Bodies \cup {None}]
  /\ expires \in [Reqs -> Int \cup {None}]
  /\ code \in [Reqs -> Names \cup {None}]
  /\ answer \in [Reqs -> {0, 201, 422, 500}]
  /\ checked \in [Reqs -> Nat] /\ resolved \in [Reqs -> DnsAnswers \cup {None}]

(* An answer ends a request; until it arrives, a request has nothing. *)
Stage(r) ==
  /\ pc[r] # "end" => answer[r] = 0
  /\ pc[r] # "idle" => body[r] \in Bodies
  /\ pc[r] \in {"idle", "create_url"} => resolved[r] = None
  /\ answer[r] # 201 => code[r] = None

(* Once create_url accepts it, whatever the response, a body has passed each check. *)
Checked(r) ==
  LET b == body[r] IN
  /\ Conforms(b) /\ AsksForAddresses(b.url)
  /\ resolved[r] \in DnsAnswers /\ ~Refused(b, resolved[r])
  /\ HasTtl(b) => /\ expires[r] \in 0 .. LastInstant
                  /\ checked[r] <= expires[r] - Timedelta(b.ttl)
                  /\ expires[r] - Timedelta(b.ttl) <= now
  /\ ~HasTtl(b) => expires[r] = IF b.expires_at # None THEN b.expires_at.instant ELSE None

(* The code of a link is its alias, or one that was generated. *)
Named(r) ==
  LET b == body[r] IN
  code[r] \in IF b.alias = None THEN Generated ELSE {b.alias}

(* A refusal is the schema's, or the URL's and the lifetime's. *)
Blamed(r) ==
  LET b == body[r] IN
  \/ ~Conforms(b)
  \/ /\ Refused(b, resolved[r])
     /\ IF AsksForAddresses(b.url) THEN resolved[r] \in DnsAnswers ELSE resolved[r] = None

(* Only these bodies break the handler. *)
Broken(r) ==
  LET b == body[r] IN
  \/ ~Storable(b) \/ Naive(b)
  \/ HasTtl(b) /\ now + Timedelta(b.ttl) > LastInstant

Accounted(r) ==
  /\ Stage(r)
  /\ pc[r] = "create_url" => Conforms(body[r])
  /\ pc[r] = "persist" => Checked(r)
  /\ answer[r] = 201 => Checked(r) /\ Named(r) /\ Storable(body[r])
  /\ answer[r] = 422 => Blamed(r)
  /\ answer[r] = 500 => Broken(r)

IndInv == Typed /\ \A r \in Reqs : Accounted(r)

(* Nothing that is owed to a request is lost while the clock moves on. *)
LEMMA ClockMovesOn ==
  ASSUME Typed, NEW r \in Reqs, Accounted(r), now' \in Nat, now <= now',
         pc'[r] = pc[r], body'[r] = body[r], expires'[r] = expires[r], code'[r] = code[r],
         answer'[r] = answer[r], checked'[r] = checked[r], resolved'[r] = resolved[r]
  PROVE  Accounted(r)'
<1>1. now \in Nat /\ checked[r] \in Nat /\ LastInstant \in Nat
  BY IntakeAssumption DEF Typed
<1>2. pc[r] # "idle" => body[r] \in Bodies
  BY DEF Accounted, Stage
<1>3. Stage(r)'
  BY <1>1 DEF Accounted, Stage
<1>4. ASSUME Checked(r), body[r] \in Bodies PROVE Checked(r)'
  <2>1. HasTtl(body[r]) => Timedelta(body[r].ttl) \in Nat
    BY <1>4, BodyParts, TimedeltaIsNat
  <2> QED
    BY <1>1, <1>4, <2>1 DEF Checked
<1>5. ASSUME Broken(r), body[r] \in Bodies PROVE Broken(r)'
  <2>1. HasTtl(body[r]) => Timedelta(body[r].ttl) \in Nat
    BY <1>5, BodyParts, TimedeltaIsNat
  <2> QED
    BY <1>1, <1>5, <2>1 DEF Broken
<1>6. answer[r] # 0 => body[r] \in Bodies
  BY <1>2 DEF Accounted, Stage
<1> QED
  BY <1>2, <1>3, <1>4, <1>5, <1>6 DEF Accounted, Named, Blamed

(* Nothing is owed to a request that has not arrived. *)
LEMMA InitAccounted == Init => IndInv
BY IntakeAssumption DEF Init, IndInv, Typed, Accounted, Stage

(* One step of one request: the others are as they were, at a later time. *)
LEMMA OthersAccounted ==
  ASSUME IndInv, NEW r \in Reqs, now' \in Nat, now <= now', Accounted(r)',
         \A s \in Reqs \ {r} :
           /\ pc'[s] = pc[s] /\ body'[s] = body[s] /\ expires'[s] = expires[s] /\ code'[s] = code[s]
           /\ answer'[s] = answer[s] /\ checked'[s] = checked[s] /\ resolved'[s] = resolved[s]
  PROVE  \A s \in Reqs : Accounted(s)'
<1> SUFFICES ASSUME NEW s \in Reqs \ {r} PROVE Accounted(s)'
  OBVIOUS
<1>1. Typed /\ Accounted(s)
  BY DEF IndInv
<1> QED
  BY <1>1, ClockMovesOn

(* A body arrives, and is refused by the schema or handed to create_url. *)
LEMMA ArriveAccounted ==
  ASSUME IndInv, NEW r \in Reqs, Arrive(r)
  PROVE  IndInv'
<1> USE DEF Arrive
<1>1. Typed /\ Accounted(r) /\ now \in Nat /\ pc[r] = "idle"
  BY DEF IndInv, Typed
<1>2. PICK b \in Bodies :
        /\ body' = [body EXCEPT ![r] = b]
        /\ \/ ~Conforms(b) /\ Respond(r, 422)
           \/ Conforms(b) /\ pc' = [pc EXCEPT ![r] = "create_url"] /\ UNCHANGED answer
  OBVIOUS
<1>3. /\ answer[r] = 0 /\ resolved[r] = None /\ code[r] = None
      /\ body'[r] = b /\ now' = now
      /\ resolved'[r] = None /\ code'[r] = None
  BY <1>1, <1>2 DEF Accounted, Stage, Typed
<1>4. Typed'
  BY <1>1, <1>2 DEF Typed, Respond
<1>5. Accounted(r)'
  <2>1. CASE ~Conforms(b) /\ Respond(r, 422)
    <3>1. pc'[r] = "end" /\ answer'[r] = 422
      BY <1>1, <2>1 DEF Respond, Typed
    <3> QED
      BY <1>1, <1>3, <2>1, <3>1 DEF Accounted, Stage, Blamed
  <2>2. CASE Conforms(b) /\ pc' = [pc EXCEPT ![r] = "create_url"] /\ UNCHANGED answer
    <3>1. pc'[r] = "create_url" /\ answer'[r] = 0
      BY <1>1, <1>3, <2>2 DEF Typed
    <3> QED
      BY <1>1, <1>3, <2>2, <3>1 DEF Accounted, Stage
  <2> QED
    BY <1>2, <2>1, <2>2
<1>6. \A s \in Reqs \ {r} :
        /\ pc'[s] = pc[s] /\ body'[s] = body[s] /\ expires'[s] = expires[s] /\ code'[s] = code[s]
        /\ answer'[s] = answer[s] /\ checked'[s] = checked[s] /\ resolved'[s] = resolved[s]
  BY <1>1, <1>2 DEF Typed, Respond
<1>7. \A s \in Reqs : Accounted(s)'
  BY <1>1, <1>3, <1>5, <1>6, OthersAccounted
<1> QED
  BY <1>4, <1>7 DEF IndInv

(* The checks of create_url, while the clock moves on. *)
LEMMA ResolveAccounted ==
  ASSUME IndInv, NEW r \in Reqs, Resolve(r)
  PROVE  IndInv'
<1> DEFINE b == body[r]
           asks == AsksForAddresses(b.url)
<1>1. /\ Typed /\ Accounted(r) /\ pc[r] = "create_url"
      /\ now \in Nat /\ LastInstant \in Nat /\ MaxDelay \in Nat
  BY IntakeAssumption DEF IndInv, Typed, Resolve
<1>2. /\ b \in Bodies /\ answer[r] = 0 /\ code[r] = None /\ Conforms(b)
      /\ resolved[r] = None
  BY <1>1 DEF Accounted, Stage
<1>3. now' \in Nat /\ now <= now'
  <2>1. PICK delay \in IF asks THEN 0 .. MaxDelay ELSE {0} : now' = now + delay
    BY DEF Resolve
  <2> QED
    BY <1>1, <2>1
<1>4. PICK addrs \in IF asks THEN DnsAnswers ELSE {None} :
        resolved' = [resolved EXCEPT ![r] = addrs]
  BY DEF Resolve
<1>5. /\ resolved'[r] = addrs /\ body' = body /\ code' = code
      /\ checked' = [checked EXCEPT ![r] = now']
  BY <1>1, <1>4 DEF Typed, Resolve
<1>6. \/ Refused(b, addrs) /\ Respond(r, CallerError) /\ UNCHANGED expires
      \/ /\ ~Refused(b, addrs) /\ Overflows(b, now')
         /\ Respond(r, InternalError) /\ UNCHANGED expires
      \/ /\ ~Refused(b, addrs) /\ ~Overflows(b, now')
         /\ expires' = [expires EXCEPT ![r] = ExpiresAt(b, now')]
         /\ pc' = [pc EXCEPT ![r] = "persist"]
         /\ UNCHANGED answer
  BY <1>5 DEF Resolve
<1>7. HasTtl(b) => b.ttl \in Ttl /\ Timedelta(b.ttl) \in Nat
  BY <1>2, BodyParts, TimedeltaIsNat
<1>8. /\ ExpiresAt(b, now') \in Int \cup {None}
      /\ HasTtl(b) /\ ~Overflows(b, now') => ExpiresAt(b, now') \in 0 .. LastInstant
  <2>1. b.expires_at # None => b.expires_at.instant \in Int
    BY <1>2, BodyParts DEF Timestamp
  <2>2. CASE HasTtl(b)
    <3>1. ExpiresAt(b, now') = now' + Timedelta(b.ttl)
      BY <1>2, <2>2 DEF ExpiresAt, Conforms
    <3>2. now' + Timedelta(b.ttl) \in Nat
      BY <1>3, <1>7, <2>2
    <3> QED
      BY <1>1, <2>2, <3>1, <3>2 DEF Overflows
  <2>3. CASE ~HasTtl(b)
    BY <2>1, <2>3 DEF ExpiresAt
  <2> QED
    BY <2>2, <2>3
<1> HIDE DEF b, asks
<1>9. Typed'
  <2>1. resolved' \in [Reqs -> DnsAnswers \cup {None}]
    BY <1>1, <1>4 DEF Typed
  <2>2. expires' \in [Reqs -> Int \cup {None}]
    BY <1>1, <1>6, <1>8 DEF Typed
  <2>3. /\ pc' \in [Reqs -> {"idle", "create_url", "persist", "end"}]
        /\ answer' \in [Reqs -> {0, 201, 422, 500}]
    BY <1>1, <1>6 DEF Typed, Respond, CallerError, InternalError
  <2> QED
    BY <1>1, <1>3, <1>5, <2>1, <2>2, <2>3 DEF Typed
<1>10. Accounted(r)'
  <2>1. body'[r] = b /\ checked'[r] = now' /\ code'[r] = None
    BY <1>1, <1>2, <1>3, <1>5 DEF b, Typed
  <2>2. IF asks THEN addrs \in DnsAnswers ELSE addrs = None
    BY <1>4
  <2>3. CASE Refused(b, addrs) /\ Respond(r, CallerError)
    <3>1. pc'[r] = "end" /\ answer'[r] = 422
      BY <1>1, <2>3 DEF Respond, Typed, CallerError
    <3>2. Blamed(r)'
      BY <1>5, <2>1, <2>2, <2>3 DEF Blamed, asks
    <3> QED
      BY <1>2, <2>1, <3>1, <3>2 DEF Accounted, Stage
  <2>4. CASE ~Refused(b, addrs) /\ Overflows(b, now') /\ Respond(r, InternalError)
    <3>1. pc'[r] = "end" /\ answer'[r] = 500
      BY <1>1, <2>4 DEF Respond, Typed, InternalError
    <3>2. Broken(r)'
      BY <1>2, <2>1, <2>4 DEF Broken, Overflows, ExpiresAt, Conforms
    <3> QED
      BY <1>2, <2>1, <3>1, <3>2 DEF Accounted, Stage
  <2>5. CASE /\ ~Refused(b, addrs) /\ ~Overflows(b, now')
             /\ expires' = [expires EXCEPT ![r] = ExpiresAt(b, now')]
             /\ pc' = [pc EXCEPT ![r] = "persist"]
             /\ UNCHANGED answer
    <3>1. pc'[r] = "persist" /\ answer'[r] = 0 /\ expires'[r] = ExpiresAt(b, now')
      BY <1>1, <1>2, <2>5 DEF Typed
    <3>2. asks
      BY <1>2, <2>5, NotRefused DEF b, asks
    <3>3. /\ HasTtl(b) => /\ expires'[r] = now' + Timedelta(b.ttl)
                          /\ expires'[r] \in 0 .. LastInstant
          /\ ~HasTtl(b) =>
               expires'[r] = IF b.expires_at # None THEN b.expires_at.instant ELSE None
      BY <1>2, <1>8, <2>5, <3>1 DEF ExpiresAt, Conforms
    <3>4. Checked(r)'
      BY <1>1, <1>2, <1>3, <1>5, <1>7, <2>1, <2>2, <2>5, <3>2, <3>3 DEF Checked, asks
    <3> QED
      BY <1>2, <2>1, <3>1, <3>4 DEF Accounted, Stage
  <2> QED
    BY <1>6, <2>3, <2>4, <2>5
<1>11. \A s \in Reqs \ {r} :
         /\ pc'[s] = pc[s] /\ body'[s] = body[s] /\ expires'[s] = expires[s] /\ code'[s] = code[s]
         /\ answer'[s] = answer[s] /\ checked'[s] = checked[s] /\ resolved'[s] = resolved[s]
  BY <1>1, <1>4, <1>5, <1>6 DEF Typed, Respond
<1>12. \A s \in Reqs : Accounted(s)'
  BY <1>3, <1>10, <1>11, OthersAccounted
<1> QED
  BY <1>9, <1>12 DEF IndInv

(* The row is made, or undone when it cannot be stored or its lifetime computed. *)
LEMMA PersistAccounted ==
  ASSUME IndInv, NEW r \in Reqs, Persist(r)
  PROVE  IndInv'
<1> DEFINE b == body[r]
<1>1. /\ Typed /\ Accounted(r) /\ now \in Nat /\ pc[r] = "persist"
      /\ now' = now /\ body' = body /\ expires' = expires
      /\ checked' = checked /\ resolved' = resolved
  BY DEF IndInv, Typed, Persist
<1>2. b \in Bodies /\ Checked(r) /\ code[r] = None
  BY <1>1 DEF Accounted, Stage
<1>3. \/ (~Storable(b) \/ Naive(b)) /\ Respond(r, InternalError) /\ code' = code
      \/ /\ Storable(b)
         /\ \E n \in IF b.alias = None THEN Generated ELSE {b.alias} :
              code' = [code EXCEPT ![r] = n]
         /\ Respond(r, 201)
  BY DEF Persist
<1>4. (IF b.alias = None THEN Generated ELSE {b.alias}) \subseteq Names
  BY <1>2, BodyParts DEF Generated
<1>5. Checked(r)'
  BY <1>1, <1>2 DEF Checked
<1>6. CASE (~Storable(b) \/ Naive(b)) /\ Respond(r, InternalError) /\ code' = code
  <2>1. Typed'
    BY <1>1, <1>6 DEF Typed, Respond, InternalError
  <2>2. pc'[r] = "end" /\ answer'[r] = 500
    BY <1>1, <1>6 DEF Respond, Typed, InternalError
  <2>3. Accounted(r)'
    BY <1>1, <1>2, <1>6, <2>2 DEF Accounted, Stage, Broken
  <2>4. \A s \in Reqs \ {r} : pc'[s] = pc[s] /\ answer'[s] = answer[s]
    BY <1>1, <1>6 DEF Typed, Respond
  <2>5. \A s \in Reqs : Accounted(s)'
    BY <1>1, <1>6, <2>3, <2>4, OthersAccounted
  <2> QED
    BY <2>1, <2>5 DEF IndInv
<1>7. ASSUME NEW n \in IF b.alias = None THEN Generated ELSE {b.alias},
             code' = [code EXCEPT ![r] = n], Respond(r, 201), Storable(b)
      PROVE  IndInv'
  <2>1. Typed'
    BY <1>1, <1>4, <1>7 DEF Typed, Respond
  <2>2. pc'[r] = "end" /\ answer'[r] = 201 /\ code'[r] = n
    BY <1>1, <1>7 DEF Respond, Typed
  <2>3. Accounted(r)'
    BY <1>1, <1>2, <1>5, <1>7, <2>2 DEF Accounted, Stage, Named
  <2>4. \A s \in Reqs \ {r} : pc'[s] = pc[s] /\ answer'[s] = answer[s] /\ code'[s] = code[s]
    BY <1>1, <1>7 DEF Typed, Respond
  <2>5. \A s \in Reqs : Accounted(s)'
    BY <1>1, <2>3, <2>4, OthersAccounted
  <2> QED
    BY <2>1, <2>5 DEF IndInv
<1> QED
  BY <1>3, <1>6, <1>7

(* Time passes. *)
LEMMA TickAccounted ==
  ASSUME IndInv, Tick
  PROVE  IndInv'
<1>1. Typed /\ now \in Nat /\ now' = now + 1
  BY DEF IndInv, Typed, Tick
<1>2. Typed'
  BY <1>1 DEF Typed, Tick
<1>3. ASSUME NEW s \in Reqs PROVE Accounted(s)'
  BY <1>1, <1>3, ClockMovesOn DEF IndInv, Tick
<1> QED
  BY <1>2, <1>3 DEF IndInv

(* Every reachable state accounts for every request. *)
THEOREM IntakeAccounted == Spec => []IndInv
<1>1. Init => IndInv
  BY InitAccounted
<1>2. IndInv /\ [Next]_vars => IndInv'
  <2> SUFFICES ASSUME IndInv, [Next]_vars PROVE IndInv'
    OBVIOUS
  <2>1. ASSUME NEW r \in Reqs, Arrive(r) PROVE IndInv'
    BY <2>1, ArriveAccounted
  <2>2. ASSUME NEW r \in Reqs, Resolve(r) PROVE IndInv'
    BY <2>2, ResolveAccounted
  <2>3. ASSUME NEW r \in Reqs, Persist(r) PROVE IndInv'
    BY <2>3, PersistAccounted
  <2>4. CASE Tick
    BY <2>4, TickAccounted
  <2>5. CASE UNCHANGED vars
    <3>1. IndInv
      OBVIOUS
    <3> QED
      BY <2>5, <3>1 DEF vars, IndInv, Typed, Accounted, Stage, Checked, Named, Blamed, Broken
  <2> QED
    BY <2>1, <2>2, <2>3, <2>4, <2>5 DEF Next, AllOver
<1> QED
  BY <1>1, <1>2, PTL DEF Spec

-------------------------------------------------------------------------------
(* Routes *)

(* create_app registers ten routes, in this order. *)
LEMMA TenRoutes ==
  /\ DOMAIN Routes = 1 .. 10
  /\ Routes[1] = Route({"GET", "HEAD"}, <<"openapi.json">>, "openapi")
  /\ Routes[2] = Route({"GET", "HEAD"}, <<"docs">>, "docs")
  /\ Routes[3] = Route({"GET", "HEAD"}, <<"docs", "oauth2-redirect">>, "docs")
  /\ Routes[4] = Route({"GET", "HEAD"}, <<"redoc">>, "redoc")
  /\ Routes[5] = Route({"GET"}, <<"health">>, "health_check")
  /\ Routes[6] = Route({"POST"}, Api, "create_short_url")
  /\ Routes[7] = Route({"GET"}, Api \o <<Param>>, "get_url_metadata")
  /\ Routes[8] = Route({"DELETE"}, Api \o <<Param>>, "delete_url")
  /\ Routes[9] = Route({"GET"}, Api \o <<Param, "stats">>, "get_url_stats")
  /\ Routes[10] = Route({"GET"}, <<Param>>, "redirect_to_long_url")
BY DEF Routes, Documentation, HealthRoutes, UrlRoutes, StatsRoutes, RedirectRoutes

(* A path below the API has its three parts in front. *)
LEMMA BelowApi ==
  ASSUME NEW c, NEW d
  PROVE  /\ Api \o <<c>> = <<"api", "v1", "urls", c>>
         /\ Api \o <<c, d>> = <<"api", "v1", "urls", c, d>>
<1> DEFINE four == [i \in 1 .. 4 |-> CASE i = 1 -> "api" [] i = 2 -> "v1" [] i = 3 -> "urls"
                                       [] OTHER -> c]
           five == [i \in 1 .. 5 |-> CASE i = 1 -> "api" [] i = 2 -> "v1" [] i = 3 -> "urls"
                                       [] i = 4 -> c [] OTHER -> d]
<1>1. Api \o <<c>> = four /\ Api \o <<c, d>> = five
  BY DEF Api
<1>2. <<"api", "v1", "urls", c>> = four /\ <<"api", "v1", "urls", c, d>> = five
  OBVIOUS
<1> HIDE DEF four, five
<1> QED
  BY <1>1, <1>2

(* The first route that matches gives the handler. *)
LEMMA FirstMatch ==
  ASSUME NEW method, NEW path, NEW k \in 1 .. 10, Matches(Routes[k], method, path),
         \A j \in 1 .. k - 1 : ~Matches(Routes[j], method, path)
  PROVE  Dispatch(method, path) = Routes[k].handler
<1> DEFINE hits == {i \in DOMAIN Routes : Matches(Routes[i], method, path)}
<1>1. DOMAIN Routes = 1 .. 10
  BY TenRoutes
<1>2. k \in hits /\ hits \subseteq 1 .. 10 /\ \A i \in hits : k <= i
  BY <1>1
<1>3. \A x \in hits : (\A y \in hits : x <= y) => x = k
  BY <1>2
<1> HIDE DEF hits
<1>4. Min(hits) = k
  BY <1>2, <1>3 DEF Min
<1>5. Dispatch(method, path) = IF hits = {} THEN "none" ELSE Routes[Min(hits)].handler
  BY DEF Dispatch, hits
<1> QED
  BY <1>2, <1>4, <1>5

(* A route of one part matches a path of one part that is the same, or any if it *)
(* is a parameter.                                                                *)
LEMMA OnePart ==
  ASSUME NEW route, NEW method, NEW c, Len(route.path) = 1
  PROVE  Matches(route, method, <<c>>)
           <=> method \in route.methods /\ route.path[1] \in {c, Param}
<1> DEFINE path == <<c>>
<1>1. DOMAIN path = {1} /\ Len(path) = 1 /\ path[1] = c
  OBVIOUS
<1> HIDE DEF path
<1>2. Matches(route, method, path) <=> method \in route.methods /\ route.path[1] \in {c, Param}
  BY <1>1 DEF Matches
<1> QED
  BY <1>2 DEF path

(* What a path of one part reaches: the documentation and the health check by *)
(* their names, and the redirect by every other name.                         *)
LEMMA OnePartReaches ==
  /\ Dispatch("GET", <<"health">>) = "health_check"
  /\ Dispatch("GET", <<"docs">>) = "docs"
  /\ Dispatch("GET", <<"redoc">>) = "redoc"
  /\ \A c : c \notin FixedPaths \cup {"openapi.json"} =>
       Dispatch("GET", <<c>>) = "redirect_to_long_url"
<1>1. ASSUME NEW c
      PROVE  /\ \A i \in {3, 6, 7, 8, 9} : ~Matches(Routes[i], "GET", <<c>>)
             /\ Matches(Routes[1], "GET", <<c>>) <=> c = "openapi.json"
             /\ Matches(Routes[2], "GET", <<c>>) <=> c = "docs"
             /\ Matches(Routes[4], "GET", <<c>>) <=> c = "redoc"
             /\ Matches(Routes[5], "GET", <<c>>) <=> c = "health"
             /\ Matches(Routes[10], "GET", <<c>>)
  <2>1. \A i \in {3, 6, 7, 8, 9} : Len(Routes[i].path) # 1
    BY TenRoutes, BelowApi DEF Route, Api
  <2>2. \A i \in {3, 6, 7, 8, 9} : ~Matches(Routes[i], "GET", <<c>>)
    BY <2>1 DEF Matches
  <2>3. \A i \in {1, 2, 4, 5, 10} : Len(Routes[i].path) = 1 /\ "GET" \in Routes[i].methods
    BY TenRoutes DEF Route
  <2>4. /\ Routes[1].path[1] = "openapi.json" /\ Routes[2].path[1] = "docs"
        /\ Routes[4].path[1] = "redoc" /\ Routes[5].path[1] = "health"
        /\ Routes[10].path[1] = Param
    BY TenRoutes DEF Route
  <2>5. \A i \in {1, 2, 4, 5, 10} :
          Matches(Routes[i], "GET", <<c>>) <=> Routes[i].path[1] \in {c, Param}
    BY <2>3, OnePart
  <2> QED
    BY <2>2, <2>4, <2>5 DEF Param
<1>2. ASSUME NEW c, c = "health"
      PROVE  Dispatch("GET", <<c>>) = "health_check"
  <2>1. Matches(Routes[5], "GET", <<c>>)
    BY <1>1, <1>2
  <2>2. \A j \in 1 .. 5 - 1 : ~Matches(Routes[j], "GET", <<c>>)
    BY <1>1, <1>2
  <2>3. Routes[5].handler = "health_check"
    BY TenRoutes DEF Route
  <2> QED
    BY <2>1, <2>2, <2>3, FirstMatch
<1>3. ASSUME NEW c, c = "docs"
      PROVE  Dispatch("GET", <<c>>) = "docs"
  <2>1. Matches(Routes[2], "GET", <<c>>)
    BY <1>1, <1>3
  <2>2. \A j \in 1 .. 2 - 1 : ~Matches(Routes[j], "GET", <<c>>)
    BY <1>1, <1>3
  <2>3. Routes[2].handler = "docs"
    BY TenRoutes DEF Route
  <2> QED
    BY <2>1, <2>2, <2>3, FirstMatch
<1>4. ASSUME NEW c, c = "redoc"
      PROVE  Dispatch("GET", <<c>>) = "redoc"
  <2>1. Matches(Routes[4], "GET", <<c>>)
    BY <1>1, <1>4
  <2>2. \A j \in 1 .. 4 - 1 : ~Matches(Routes[j], "GET", <<c>>)
    BY <1>1, <1>4
  <2>3. Routes[4].handler = "redoc"
    BY TenRoutes DEF Route
  <2> QED
    BY <2>1, <2>2, <2>3, FirstMatch
<1>5. ASSUME NEW c, c \notin FixedPaths \cup {"openapi.json"}
      PROVE  Dispatch("GET", <<c>>) = "redirect_to_long_url"
  <2>1. Matches(Routes[10], "GET", <<c>>)
    BY <1>1
  <2>2. \A j \in 1 .. 10 - 1 : ~Matches(Routes[j], "GET", <<c>>)
    BY <1>1, <1>5 DEF FixedPaths
  <2>3. Routes[10].handler = "redirect_to_long_url"
    BY TenRoutes DEF Route
  <2> QED
    BY <2>1, <2>2, <2>3, FirstMatch
<1>6. Dispatch("GET", <<"health">>) = "health_check"
  BY <1>2, Zenon
<1>7. Dispatch("GET", <<"docs">>) = "docs"
  BY <1>3, Zenon
<1>8. Dispatch("GET", <<"redoc">>) = "redoc"
  BY <1>4, Zenon
<1> QED
  BY <1>5, <1>6, <1>7, <1>8, Zenon

(* Below the API a code reaches its metadata, its deletion and its statistics. *)
LEMMA CodeReaches ==
  ASSUME NEW c
  PROVE  /\ Dispatch("GET", Api \o <<c>>) = "get_url_metadata"
         /\ Dispatch("DELETE", Api \o <<c>>) = "delete_url"
         /\ Dispatch("GET", Api \o <<c, "stats">>) = "get_url_stats"
<1> DEFINE one == Api \o <<c>>
           two == Api \o <<c, "stats">>
<1>1. /\ one = <<"api", "v1", "urls", c>> /\ two = <<"api", "v1", "urls", c, "stats">>
      /\ Api \o <<Param>> = <<"api", "v1", "urls", Param>>
      /\ Api \o <<Param, "stats">> = <<"api", "v1", "urls", Param, "stats">>
  BY BelowApi
<1>2. \A i \in 1 .. 6 : \A method : ~Matches(Routes[i], method, one)
  <2>1. \A i \in 1 .. 6 : Len(Routes[i].path) # 4
    BY TenRoutes DEF Route, Api
  <2> QED
    BY <1>1, <2>1 DEF Matches
<1>3. \A i \in 1 .. 8 : ~Matches(Routes[i], "GET", two)
  <2>1. \A i \in 1 .. 8 : Len(Routes[i].path) # 5
    BY <1>1, TenRoutes DEF Route, Api
  <2> QED
    BY <1>1, <2>1 DEF Matches
<1>4. Matches(Routes[7], "GET", one) /\ ~Matches(Routes[7], "DELETE", one)
  BY <1>1, TenRoutes DEF Matches, Route
<1>5. Matches(Routes[8], "DELETE", one)
  BY <1>1, TenRoutes DEF Matches, Route
<1>6. Matches(Routes[9], "GET", two)
  BY <1>1, TenRoutes DEF Matches, Route
<1> HIDE DEF one, two
<1>7. Dispatch("GET", one) = Routes[7].handler
  BY <1>2, <1>4, FirstMatch
<1>8. Dispatch("DELETE", one) = Routes[8].handler
  <2>1. \A j \in 1 .. 7 : ~Matches(Routes[j], "DELETE", one)
    BY <1>2, <1>4
  <2> QED
    BY <1>5, <2>1, FirstMatch
<1>9. Dispatch("GET", two) = Routes[9].handler
  BY <1>3, <1>6, FirstMatch
<1> QED
  BY <1>7, <1>8, <1>9, TenRoutes DEF Route, one, two

-------------------------------------------------------------------------------
(* Theorems *)

(* A request that is over and was accepted passed each check of its body. *)
LEMMA AcceptedIsChecked ==
  ASSUME IndInv, NEW r \in Reqs, answer[r] = 201
  PROVE  body[r] \in Bodies /\ Checked(r) /\ Named(r) /\ Storable(body[r])
BY DEF IndInv, Accounted, Stage

(* The code of a link is one of the names, and of the letters of an alias. *)
LEMMA AcceptedName ==
  ASSUME IndInv, NEW r \in Reqs, answer[r] = 201
  PROVE  code[r] \in Names /\ code[r].chars # "other"
<1> DEFINE b == body[r]
<1>1. b \in Bodies /\ Conforms(b) /\ code[r] \in IF b.alias = None THEN Generated ELSE {b.alias}
  BY AcceptedIsChecked DEF Checked, Named
<1>2. CASE b.alias = None
  BY <1>1, <1>2 DEF Generated
<1>3. CASE b.alias # None
  BY <1>1, <1>3, BodyParts DEF Conforms, AliasFits
<1> QED
  BY <1>2, <1>3

(* AcceptedIsPublic, for every IPv4 and IPv6 address: whatever set of addresses *)
(* the name service answers, a link is only made when there is one and each is   *)
(* outside of every reserved range.                                              *)
THEOREM OnlyPublicHosts == Spec => []AcceptedIsPublic
<1>1. IndInv => AcceptedIsPublic
  <2> SUFFICES ASSUME IndInv, NEW r \in Reqs, answer[r] = 201
               PROVE  /\ body[r].url.scheme \in {"http", "https"}
                      /\ resolved[r] \notin {None, {}}
                      /\ \A a \in resolved[r] : ~IsReserved(a)
    BY DEF AcceptedIsPublic
  <2>1. body[r] \in Bodies /\ Checked(r)
    BY AcceptedIsChecked
  <2>2. AsksForAddresses(body[r].url) /\ resolved[r] # {} /\ \A a \in resolved[r] : ~Blocked(a)
    BY <2>1, NotRefused DEF Checked
  <2>3. resolved[r] \in SUBSET Address /\ resolved[r] # None
    BY <2>1, IntakeAssumption DEF Checked
  <2> QED
    BY <2>2, <2>3, BlockedIsReserved DEF AsksForAddresses, AllowedSchemes
<1> QED
  BY <1>1, IntakeAccounted, PTL

(* RefusedForCause, for every address too: a 422 has a cause in the body or in *)
(* the addresses of its host.                                                  *)
THEOREM RefusalsHaveCauses == Spec => []RefusedForCause
<1>1. IndInv => RefusedForCause
  <2> SUFFICES ASSUME IndInv, NEW r \in Reqs, answer[r] = 422
               PROVE  LET b == body[r] IN
                      \/ ~b.typed \/ b.url.length > 2048
                      \/ /\ b.alias # None
                         /\ b.alias.length \notin 3 .. 32 \/ b.alias.chars = "other"
                      \/ HasTtl(b) /\ (b.expires_at # None \/ b.ttl.form = "other")
                      \/ ~b.url.parses \/ b.url.host # "named" \/ b.url.scheme \notin {"http", "https"}
                      \/ /\ resolved[r] # None
                         /\ resolved[r] = {} \/ \E a \in resolved[r] : IsReserved(a)
    BY DEF RefusedForCause
  <2> DEFINE b == body[r]
  <2>1. b \in Bodies /\ Blamed(r)
    BY DEF IndInv, Accounted, Stage
  <2>2. CASE ~Conforms(b)
    <3>1. b.url.length \in Nat
      BY <2>1, BodyParts DEF LongUrl
    <3> QED
      BY <2>2, <3>1 DEF Conforms, AliasFits
  <2>3. CASE Refused(b, resolved[r]) /\ ~AsksForAddresses(b.url)
    BY <2>3 DEF AsksForAddresses, AllowedSchemes
  <2>4. CASE Refused(b, resolved[r]) /\ AsksForAddresses(b.url) /\ resolved[r] \in DnsAnswers
    <3>1. resolved[r] \in SUBSET Address /\ resolved[r] # None
      BY <2>4, IntakeAssumption
    <3>2. HasUnknownTtl(b) \/ resolved[r] = {} \/ \E a \in resolved[r] : Blocked(a)
      BY <2>1, <2>4, RefusedBy
    <3> QED
      BY <3>1, <3>2, BlockedIsReserved DEF HasUnknownTtl
  <2> QED
    BY <2>1, <2>2, <2>3, <2>4 DEF Blamed
<1> QED
  BY <1>1, IntakeAccounted, PTL

(* LivesItsTtl, for every number of units, and however long the name service takes. *)
THEOREM LinksLiveTheirTtl == Spec => []LivesItsTtl
<1>1. IndInv => LivesItsTtl
  <2> SUFFICES ASSUME IndInv, NEW r \in Reqs, answer[r] = 201, HasTtl(body[r])
               PROVE  expires[r] - body[r].ttl.n * Units[body[r].ttl.form] * Minute
                        \in checked[r] .. now
    BY DEF LivesItsTtl
  <2> DEFINE t == body[r].ttl
  <2>1. body[r] \in Bodies /\ Checked(r)
    BY AcceptedIsChecked
  <2>2. t \in Ttl /\ t.form \notin {"empty", "other"}
    BY <2>1, BodyParts, NotRefused DEF Checked, HasTtl, HasUnknownTtl
  <2>3. Timedelta(t) = t.n * Units[t.form] * Minute /\ Timedelta(t) \in Nat
    BY <2>2, TimedeltaInUnits, TimedeltaIsNat
  <2>4. /\ expires[r] \in Nat /\ checked[r] \in Nat /\ now \in Nat
        /\ checked[r] <= expires[r] - Timedelta(t) /\ expires[r] - Timedelta(t) <= now
    BY <2>1 DEF Checked, IndInv, Typed
  <2> HIDE DEF t
  <2>5. expires[r] - Timedelta(t) \in checked[r] .. now
    BY <2>3, <2>4
  <2> QED
    BY <2>3, <2>5 DEF t
<1> QED
  BY <1>1, IntakeAccounted, PTL

(* ServerErrorsExplained, for every body: nothing but those four edges is a 500. *)
THEOREM ServerErrorsAreExplained == Spec => []ServerErrorsExplained
<1>1. IndInv => ServerErrorsExplained
  BY DEF IndInv, Accounted, Broken, Storable, Naive, ServerErrorsExplained
<1> QED
  BY <1>1, IntakeAccounted, PTL

(* TypeOK; a generated code fits the column when the configured length does, and   *)
(* whatever the expiry that is asked for, a link has one that UTC can express.     *)
THEOREM IntakeTyped ==
  ASSUME CodeLength <= 32
  PROVE  Spec => []TypeOK
<1>1. IndInv => TypeOK
  <2> SUFFICES ASSUME IndInv PROVE TypeOK
    OBVIOUS
  <2>1. ASSUME NEW r \in Reqs, code[r] # None PROVE code[r].length <= 32
    <3> DEFINE b == body[r]
    <3>1. b \in Bodies /\ Conforms(b)
          /\ code[r] \in IF b.alias = None THEN Generated ELSE {b.alias}
      <4>1. answer[r] = 201
        BY <2>1 DEF IndInv, Accounted, Stage
      <4> QED
        BY <4>1, AcceptedIsChecked DEF Checked, Named
    <3>2. CASE b.alias = None
      <4>1. code[r].length = CodeLength
        BY <3>1, <3>2 DEF Generated
      <4> QED
        BY <4>1
    <3>3. CASE b.alias # None
      BY <3>1, <3>3 DEF Conforms, AliasFits
    <3> QED
      BY <3>2, <3>3
  <2>2. ASSUME NEW r \in Reqs, answer[r] = 201
        PROVE  expires[r] \in (FirstInstant .. LastInstant) \cup {None}
    <3>1. Checked(r) /\ Storable(body[r])
      BY <2>2, AcceptedIsChecked
    <3>2. FirstInstant \in Int /\ FirstInstant <= 0 /\ LastInstant \in Nat
      BY IntakeAssumption
    <3> QED
      BY <3>1, <3>2 DEF Checked, Storable
  <2> QED
    BY <2>1, <2>2 DEF IndInv, Typed, TypeOK
<1> QED
  BY <1>1, IntakeAccounted, PTL

(* PathsKeepTheirHandlers, whatever the alias: an alias has no full stop, so only *)
(* the three fixed paths of a link's own shape can stand before its redirect.      *)
THEOREM PathsKeepHandlers == Spec => []PathsKeepTheirHandlers
<1>1. IndInv => PathsKeepTheirHandlers
  <2> SUFFICES ASSUME IndInv, NEW r \in Reqs, answer[r] = 201
               PROVE  LET c == code[r].text IN
                      /\ Dispatch("GET", <<"health">>) = "health_check"
                      /\ Dispatch("GET", <<"docs">>) = "docs"
                      /\ Dispatch("GET", <<"redoc">>) = "redoc"
                      /\ c \notin FixedPaths => Dispatch("GET", <<c>>) = "redirect_to_long_url"
                      /\ Dispatch("GET", Api \o <<c>>) = "get_url_metadata"
                      /\ Dispatch("DELETE", Api \o <<c>>) = "delete_url"
                      /\ Dispatch("GET", Api \o <<c, "stats">>) = "get_url_stats"
    BY DEF PathsKeepTheirHandlers
  <2>1. code[r] \in Names /\ code[r].chars # "other"
    BY AcceptedName
  <2>2. code[r].text # "openapi.json"
    BY <2>1, IntakeAssumption DEF Name, Spelled
  <2> QED
    BY <2>2, OnePartReaches, CodeReaches
<1> QED
  BY <1>1, IntakeAccounted, PTL
====

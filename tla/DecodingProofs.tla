--------------------------- MODULE DecodingProofs ---------------------------
(***************************************************************************)
(* Proofs about UPDATE and /routes/search for every sender.                *)
(*                                                                         *)
(* The search: what is decoded are prefixes of 4 or of 16 octets with a    *)
(* length that fits (Typed), the mask of an octet keeps its leading bits   *)
(* and clears the others (MaskBits), and so the search finds a longest     *)
(* prefix around the address, bit by bit.                                  *)
(*                                                                         *)
(* The message: each piece of an encoded UPDATE says its own size, so the  *)
(* loops of the decoder return the pieces (SplitOf), and each piece reads  *)
(* back as what it was encoded from, from the prefix, the value and the    *)
(* segment (PrefixRead, OperatorRead, SegmentRead) to the attribute        *)
(* (PartIsRead) and the message (UpdateRead).  That the attributes of a    *)
(* code are one, but for MP_REACH and MP_UNREACH, is the invariant         *)
(* OnceEach.                                                               *)
(***************************************************************************)
EXTENDS OpenProofs

-----------------------------------------------------------------------------
(* Bits.                                                                   *)

LEMMA Powers ==
    /\ 2^0 = 1 /\ 2^1 = 2 /\ 2^2 = 4 /\ 2^3 = 8 /\ 2^4 = 16 /\ 2^5 = 32 /\ 2^6 = 64 /\ 2^7 = 128
OBVIOUS

(* The leading bits of an octet as a number, and one of its bits.          *)
Lead(x, j) == x \div 2^(8 - j)
BitOf(x, j) == Lead(x, j) % 2

LEMMA LeadIs ==
    ASSUME NEW x
    PROVE  /\ Lead(x, 1) = x \div 128 /\ Lead(x, 2) = x \div 64 /\ Lead(x, 3) = x \div 32
           /\ Lead(x, 4) = x \div 16 /\ Lead(x, 5) = x \div 8 /\ Lead(x, 6) = x \div 4
           /\ Lead(x, 7) = x \div 2 /\ Lead(x, 8) = x \div 1
<1>1. /\ 8 - 1 = 7 /\ 8 - 2 = 6 /\ 8 - 3 = 5 /\ 8 - 4 = 4 /\ 8 - 5 = 3 /\ 8 - 6 = 2
      /\ 8 - 7 = 1 /\ 8 - 8 = 0
  OBVIOUS
<1>2. QED
  BY <1>1, Powers DEF Lead

LEMMA LeadStep ==
    ASSUME NEW x \in Octet
    PROVE  /\ Lead(x, 1) = BitOf(x, 1)
           /\ \A j \in 2..8 : Lead(x, j) = 2 * Lead(x, j - 1) + BitOf(x, j)
           /\ \A j \in 1..8 : Lead(x, j) \in Nat /\ BitOf(x, j) \in {0, 1}
           /\ Lead(x, 8) = x
<1>1. x \in 0..255
  BY DEF Octet
<1>2. Lead(x, 1) = BitOf(x, 1)
  BY <1>1, LeadIs DEF BitOf
<1>3. /\ Lead(x, 2) = 2 * Lead(x, 1) + BitOf(x, 2)
      /\ Lead(x, 3) = 2 * Lead(x, 2) + BitOf(x, 3)
      /\ Lead(x, 4) = 2 * Lead(x, 3) + BitOf(x, 4)
      /\ Lead(x, 5) = 2 * Lead(x, 4) + BitOf(x, 5)
      /\ Lead(x, 6) = 2 * Lead(x, 5) + BitOf(x, 6)
      /\ Lead(x, 7) = 2 * Lead(x, 6) + BitOf(x, 7)
      /\ Lead(x, 8) = 2 * Lead(x, 7) + BitOf(x, 8)
  <2>1. Lead(x, 2) = 2 * Lead(x, 1) + BitOf(x, 2)
    <3>1. x \div 64 = 2 * (x \div 128) + ((x \div 64) % 2)
      BY <1>1
    <3>2. QED
      BY <3>1, LeadIs DEF BitOf
  <2>2. Lead(x, 3) = 2 * Lead(x, 2) + BitOf(x, 3)
    <3>1. x \div 32 = 2 * (x \div 64) + ((x \div 32) % 2)
      BY <1>1
    <3>2. QED
      BY <3>1, LeadIs DEF BitOf
  <2>3. Lead(x, 4) = 2 * Lead(x, 3) + BitOf(x, 4)
    <3>1. x \div 16 = 2 * (x \div 32) + ((x \div 16) % 2)
      BY <1>1
    <3>2. QED
      BY <3>1, LeadIs DEF BitOf
  <2>4. Lead(x, 5) = 2 * Lead(x, 4) + BitOf(x, 5)
    <3>1. x \div 8 = 2 * (x \div 16) + ((x \div 8) % 2)
      BY <1>1
    <3>2. QED
      BY <3>1, LeadIs DEF BitOf
  <2>5. Lead(x, 6) = 2 * Lead(x, 5) + BitOf(x, 6)
    <3>1. x \div 4 = 2 * (x \div 8) + ((x \div 4) % 2)
      BY <1>1
    <3>2. QED
      BY <3>1, LeadIs DEF BitOf
  <2>6. Lead(x, 7) = 2 * Lead(x, 6) + BitOf(x, 7)
    <3>1. x \div 2 = 2 * (x \div 4) + ((x \div 2) % 2)
      BY <1>1
    <3>2. QED
      BY <3>1, LeadIs DEF BitOf
  <2>7. Lead(x, 8) = 2 * Lead(x, 7) + BitOf(x, 8)
    <3>1. x \div 1 = 2 * (x \div 2) + ((x \div 1) % 2)
      BY <1>1
    <3>2. QED
      BY <3>1, LeadIs DEF BitOf
  <2>8. QED
    BY <2>1, <2>2, <2>3, <2>4, <2>5, <2>6, <2>7
<1>4. \A j \in 2..8 : Lead(x, j) = 2 * Lead(x, j - 1) + BitOf(x, j)
  <2>1. \A j \in 2..8 : j \in {2, 3, 4, 5, 6, 7, 8}
    OBVIOUS
  <2>2. QED
    BY <1>3, <2>1
<1>5. \A j \in 1..8 : Lead(x, j) \in Nat /\ BitOf(x, j) \in {0, 1}
  <2>1. \A j \in 1..8 : j \in {1, 2, 3, 4, 5, 6, 7, 8}
    OBVIOUS
  <2>2. \A j \in 1..8 : Lead(x, j) \in Nat
    BY <1>1, <2>1, LeadIs
  <2>3. QED
    BY <2>2 DEF BitOf
<1>6. Lead(x, 8) = x
  BY <1>1, LeadIs
<1>7. QED
  BY <1>2, <1>4, <1>5, <1>6

LEMMA LeadSame ==
    ASSUME NEW x \in Octet, NEW y \in Octet, NEW j \in 1..8
    PROVE  Lead(x, j) = Lead(y, j) <=> \A i \in 1..j : BitOf(x, i) = BitOf(y, i)
<1> DEFINE T == {n \in 1..8 : Lead(x, n) = Lead(y, n) <=> \A i \in 1..n : BitOf(x, i) = BitOf(y, i)}
<1>1. 1 \in T
  BY LeadStep
<1>2. ASSUME NEW n \in 2..8, n - 1 \in T PROVE n \in T
  <2>1. /\ Lead(x, n) = 2 * Lead(x, n - 1) + BitOf(x, n)
        /\ Lead(y, n) = 2 * Lead(y, n - 1) + BitOf(y, n)
    BY LeadStep
  <2>2. n \in 1..8 /\ n - 1 \in 1..8
    OBVIOUS
  <2>3. /\ Lead(x, n - 1) \in Nat /\ BitOf(x, n) \in {0, 1}
        /\ Lead(y, n - 1) \in Nat /\ BitOf(y, n) \in {0, 1}
    BY <2>2, LeadStep
  <2>4. Lead(x, n) = Lead(y, n) <=> Lead(x, n - 1) = Lead(y, n - 1) /\ BitOf(x, n) = BitOf(y, n)
    BY <2>1, <2>3
  <2>5. Lead(x, n - 1) = Lead(y, n - 1) <=> \A i \in 1..(n - 1) : BitOf(x, i) = BitOf(y, i)
    BY <1>2
  <2>6. \A i \in 1..n : i \in 1..(n - 1) \/ i = n
    OBVIOUS
  <2>7. n \in 1..n /\ \A i \in 1..(n - 1) : i \in 1..n
    OBVIOUS
  <2>8. QED
    BY <2>2, <2>4, <2>5, <2>6, <2>7, Zenon
<1>3. \A n \in 1..8 : n \in T
  <2> HIDE DEF T
  <2>1. 1 \in T /\ 2 \in T /\ 3 \in T /\ 4 \in T /\ 5 \in T /\ 6 \in T /\ 7 \in T /\ 8 \in T
    BY <1>1, <1>2
  <2>2. \A n \in 1..8 : n \in {1, 2, 3, 4, 5, 6, 7, 8}
    OBVIOUS
  <2>3. QED
    BY <2>1, <2>2
<1>4. QED
  BY <1>3

LEMMA MaskIs ==
    ASSUME NEW x \in Octet, NEW b \in Int
    PROVE  /\ b >= 8 => Mask(x, b) = x
           /\ b <= 0 => Mask(x, b) = 0
           /\ b \in 1..7 => Mask(x, b) = 2^(8 - b) * Lead(x, b)
           /\ Mask(x, b) \in Octet
<1>1. x \in 0..255
  BY DEF Octet
<1>2. b >= 8 => Mask(x, b) = x
  BY DEF Mask
<1>3. b <= 0 => Mask(x, b) = 0
  BY DEF Mask
<1>4. ASSUME b \in 1..7
      PROVE  Mask(x, b) = 2^(8 - b) * Lead(x, b) /\ Mask(x, b) \in 0..255
  <2>1. Mask(x, b) = x - (x % 2^(8 - b))
    BY <1>4 DEF Mask
  <2>2. b \in {1, 2, 3, 4, 5, 6, 7}
    BY <1>4
  <2>3. CASE b = 1
    <3>1. 2^(8 - b) = 128 /\ Lead(x, b) = x \div 128
      BY <2>3, Powers, LeadIs
    <3>2. QED
      BY <1>1, <2>1, <3>1
  <2>4. CASE b = 2
    <3>1. 2^(8 - b) = 64 /\ Lead(x, b) = x \div 64
      BY <2>4, Powers, LeadIs
    <3>2. QED
      BY <1>1, <2>1, <3>1
  <2>5. CASE b = 3
    <3>1. 2^(8 - b) = 32 /\ Lead(x, b) = x \div 32
      BY <2>5, Powers, LeadIs
    <3>2. QED
      BY <1>1, <2>1, <3>1
  <2>6. CASE b = 4
    <3>1. 2^(8 - b) = 16 /\ Lead(x, b) = x \div 16
      BY <2>6, Powers, LeadIs
    <3>2. QED
      BY <1>1, <2>1, <3>1
  <2>7. CASE b = 5
    <3>1. 2^(8 - b) = 8 /\ Lead(x, b) = x \div 8
      BY <2>7, Powers, LeadIs
    <3>2. QED
      BY <1>1, <2>1, <3>1
  <2>8. CASE b = 6
    <3>1. 2^(8 - b) = 4 /\ Lead(x, b) = x \div 4
      BY <2>8, Powers, LeadIs
    <3>2. QED
      BY <1>1, <2>1, <3>1
  <2>9. CASE b = 7
    <3>1. 2^(8 - b) = 2 /\ Lead(x, b) = x \div 2
      BY <2>9, Powers, LeadIs
    <3>2. QED
      BY <1>1, <2>1, <3>1
  <2>10. QED
    BY <2>2, <2>3, <2>4, <2>5, <2>6, <2>7, <2>8, <2>9
<1>5. b >= 8 \/ b <= 0 \/ b \in 1..7
  OBVIOUS
<1>6. 0 \in Octet
  BY DEF Octet
<1>7. QED
  BY <1>2, <1>3, <1>4, <1>5, <1>6 DEF Octet

LEMMA MaskSame ==
    ASSUME NEW x \in Octet, NEW y \in Octet, NEW b \in Int
    PROVE  Mask(x, b) = Mask(y, b) <=> \A i \in 1..8 : i <= b => BitOf(x, i) = BitOf(y, i)
<1>1. CASE b >= 8
  <2>1. Mask(x, b) = x /\ Mask(y, b) = y
    BY <1>1, MaskIs
  <2>2. Lead(x, 8) = x /\ Lead(y, 8) = y
    BY LeadStep
  <2>3. 8 \in 1..8 /\ \A i \in 1..8 : i <= b
    BY <1>1
  <2>4. Lead(x, 8) = Lead(y, 8) <=> \A i \in 1..8 : BitOf(x, i) = BitOf(y, i)
    BY <2>3, LeadSame, Zenon
  <2>5. QED
    BY <2>1, <2>2, <2>3, <2>4, Zenon
<1>2. CASE b <= 0
  <2>1. Mask(x, b) = 0 /\ Mask(y, b) = 0
    BY <1>2, MaskIs
  <2>2. \A i \in 1..8 : ~(i <= b)
    BY <1>2
  <2>3. QED
    BY <2>1, <2>2, Zenon
<1>3. CASE b \in 1..7
  <2>1. Mask(x, b) = 2^(8 - b) * Lead(x, b) /\ Mask(y, b) = 2^(8 - b) * Lead(y, b)
    BY <1>3, MaskIs
  <2>2. b \in 1..8 /\ Lead(x, b) \in Nat /\ Lead(y, b) \in Nat
    BY <1>3, LeadStep
  <2>3. Mask(x, b) = Mask(y, b) <=> Lead(x, b) = Lead(y, b)
    <3>1. 2^(8 - b) \in {128, 64, 32, 16, 8, 4, 2}
      <4>1. b \in {1, 2, 3, 4, 5, 6, 7}
        BY <1>3
      <4>2. /\ 8 - 1 = 7 /\ 8 - 2 = 6 /\ 8 - 3 = 5 /\ 8 - 4 = 4 /\ 8 - 5 = 3 /\ 8 - 6 = 2
            /\ 8 - 7 = 1
        OBVIOUS
      <4> DEFINE e == 8 - b
      <4>3. e \in {7, 6, 5, 4, 3, 2, 1}
        BY <4>1, <4>2
      <4> HIDE DEF e
      <4> DEFINE P(i) == 2^i
      <4>4. /\ P(7) = 128 /\ P(6) = 64 /\ P(5) = 32 /\ P(4) = 16 /\ P(3) = 8 /\ P(2) = 4
            /\ P(1) = 2
        BY Powers, Zenon
      <4> HIDE DEF P
      <4>5. P(e) \in {128, 64, 32, 16, 8, 4, 2}
        BY <4>3, <4>4
      <4>6. QED
        BY <4>5, Zenon DEF P, e
    <3> DEFINE d == 2^(8 - b)
    <3> HIDE DEF d
    <3>2. Mask(x, b) = d * Lead(x, b) /\ Mask(y, b) = d * Lead(y, b)
          /\ d \in {128, 64, 32, 16, 8, 4, 2}
      BY <2>1, <3>1 DEF d
    <3>3. QED
      BY <2>2, <3>2
  <2>4. Lead(x, b) = Lead(y, b) <=> \A i \in 1..b : BitOf(x, i) = BitOf(y, i)
    BY <2>2, LeadSame, Zenon
  <2>5. \A i : i \in 1..b <=> i \in 1..8 /\ i <= b
    BY <1>3
  <2>6. QED
    BY <2>3, <2>4, <2>5, Zenon
<1>4. QED
  BY <1>1, <1>2, <1>3

(* The k-th bit of a sequence of octets is a bit of one of them.           *)
LEMMA BitAt ==
    ASSUME NEW octets, NEW i \in Nat \ {0}, NEW j \in 1..8
    PROVE  Bit(octets, 8 * (i - 1) + j) = BitOf(octets[i], j)
<1> DEFINE k == 8 * (i - 1) + j
           q == (k + 7) \div 8
           e == 7 - ((k - 1) % 8)
<1>1. q = i
  OBVIOUS
<1>2. e = 8 - j
  OBVIOUS
<1>3. Bit(octets, k) = (octets[q] \div 2^e) % 2
  BY DEF Bit
<1> HIDE DEF k, q, e
<1>4. Bit(octets, k) = BitOf(octets[i], j)
  BY <1>1, <1>2, <1>3, Zenon DEF BitOf, Lead
<1>5. QED
  BY <1>4 DEF k

LEMMA BitPlace ==
    ASSUME NEW k \in Nat \ {0}
    PROVE  \E i \in Nat \ {0}, j \in 1..8 : k = 8 * (i - 1) + j
<1> DEFINE i == (k + 7) \div 8
           j == ((k - 1) % 8) + 1
<1>1. i \in Nat \ {0} /\ j \in 1..8 /\ k = 8 * (i - 1) + j
  OBVIOUS
<1> HIDE DEF i, j
<1>2. QED
  BY <1>1

(* Two addresses are the same under a mask if their leading bits are.      *)
LEMMA MaskedSame ==
    ASSUME NEW net \in Seq(Octet), NEW ip \in Seq(Octet), Len(net) = Len(ip),
           NEW length \in 0..(8 * Len(net))
    PROVE  Masked(net, length) = Masked(ip, length)
             <=> \A k \in 1..length : Bit(net, k) = Bit(ip, k)
<1> DEFINE n == Len(net)
           b(i) == length - 8 * (i - 1)
<1>1. /\ n \in Nat /\ DOMAIN net = 1..n /\ DOMAIN ip = 1..n
      /\ \A i \in 1..n : net[i] \in Octet /\ ip[i] \in Octet
  OBVIOUS
<1>2. length \in 0..(8 * n)
  OBVIOUS
<1> HIDE DEF n
<1>3. \A i \in 1..n : b(i) \in Int
  BY <1>1, <1>2
<1>4. Masked(net, length) = Masked(ip, length)
        <=> \A i \in 1..n : Mask(net[i], b(i)) = Mask(ip[i], b(i))
  <2>1. /\ Masked(net, length) = [i \in 1..n |-> Mask(net[i], b(i))]
        /\ Masked(ip, length) = [i \in 1..n |-> Mask(ip[i], b(i))]
    BY <1>1, Zenon DEF Masked
  <2> HIDE DEF b
  <2>2. QED
    BY <2>1
<1>5. ASSUME \A i \in 1..n : Mask(net[i], b(i)) = Mask(ip[i], b(i)), NEW k \in 1..length
      PROVE  Bit(net, k) = Bit(ip, k)
  <2>1. k \in Nat \ {0}
    OBVIOUS
  <2>2. PICK i \in Nat \ {0}, j \in 1..8 : k = 8 * (i - 1) + j
    BY <2>1, BitPlace, Zenon
  <2>3. i \in 1..n /\ j <= b(i)
    BY <1>1, <1>2, <2>2
  <2>4. BitOf(net[i], j) = BitOf(ip[i], j)
    <3>1. net[i] \in Octet /\ ip[i] \in Octet /\ b(i) \in Int
          /\ Mask(net[i], b(i)) = Mask(ip[i], b(i))
      BY <1>1, <1>3, <1>5, <2>3, Zenon
    <3> HIDE DEF b
    <3>2. QED
      BY <2>3, <3>1, MaskSame, Zenon
  <2>5. QED
    BY <2>2, <2>4, BitAt, ZenonT(60)
<1>6. ASSUME \A k \in 1..length : Bit(net, k) = Bit(ip, k), NEW i \in 1..n
      PROVE  Mask(net[i], b(i)) = Mask(ip[i], b(i))
  <2>1. ASSUME NEW j \in 1..8, j <= b(i) PROVE BitOf(net[i], j) = BitOf(ip[i], j)
    <3> DEFINE k == 8 * (i - 1) + j
    <3>1. k \in 1..length /\ i \in Nat \ {0}
      BY <1>1, <1>2, <2>1
    <3>2. Bit(net, k) = BitOf(net[i], j) /\ Bit(ip, k) = BitOf(ip[i], j)
      BY <3>1, BitAt, Zenon
    <3> HIDE DEF k
    <3>3. QED
      BY <1>6, <3>1, <3>2, Zenon
  <2>2. net[i] \in Octet /\ ip[i] \in Octet /\ b(i) \in Int
    BY <1>1, <1>3, Zenon
  <2> HIDE DEF b
  <2>3. QED
    BY <2>1, <2>2, MaskSame, Zenon
<1>7. QED
  BY <1>4, <1>5, <1>6, Zenon

-----------------------------------------------------------------------------
(* /routes/search.                                                         *)

Fits(p) ==
    /\ p.net \in Seq(Octet)
    /\ Len(p.net) \in {4, 16}
    /\ p.length \in 0..(8 * Len(p.net))

Within(p, ip) == Len(p.net) = Len(ip) /\ \A k \in 1..p.length : Bit(p.net, k) = Bit(ip, k)

LEMMA MatchesWithin ==
    ASSUME NEW p, Fits(p), NEW ip \in Seq(Octet)
    PROVE  Matches(p, ip) <=> Within(p, ip)
<1>1. p.net \in Seq(Octet) /\ p.length \in 0..(8 * Len(p.net))
  BY Zenon DEF Fits
<1>2. CASE Len(p.net) = Len(ip)
  BY <1>1, <1>2, MaskedSame, Zenon DEF Matches, Within
<1>3. CASE Len(p.net) # Len(ip)
  BY <1>3, Zenon DEF Matches, Within
<1>4. QED
  BY <1>2, <1>3, Zenon

(* Of some numbers below a bound one is the greatest.                      *)
LEMMA GreatestOne ==
    ASSUME NEW S \in SUBSET Nat, S # {}, NEW n \in Nat, \A i \in S : i <= n
    PROVE  \E i \in S : \A j \in S : j <= i
<1> DEFINE T == {n - i : i \in S}
<1>1. T \in SUBSET Nat /\ T # {}
  <2>1. \A i \in S : n - i \in Nat
    OBVIOUS
  <2>2. PICK i \in S : TRUE
    OBVIOUS
  <2>3. n - i \in T
    OBVIOUS
  <2>4. QED
    BY <2>1, <2>3
<1>2. PICK t \in T : \A u \in T : t <= u
  BY <1>1, LeastOne
<1>3. PICK i \in S : t = n - i
  BY <1>2
<1>4. \A j \in S : j <= i
  <2> TAKE j \in S
  <2>1. n - j \in T
    OBVIOUS
  <2>2. n - i <= n - j
    BY <1>2, <1>3, <2>1
  <2>3. QED
    BY <2>2
<1>5. QED
  BY <1>4

Longest(prefixes, inside, i) ==
    \A j \in inside : \/ prefixes[j].length < prefixes[i].length
                      \/ prefixes[j].length = prefixes[i].length /\ j <= i

Chosen(prefixes, inside) == prefixes[CHOOSE i \in inside : Longest(prefixes, inside, i)]

LEMMA LongestExists ==
    ASSUME NEW prefixes, NEW N \in Nat, NEW inside \in SUBSET (1..N), inside # {},
           \A i \in inside : prefixes[i].length \in 0..128
    PROVE  \E i \in inside : Longest(prefixes, inside, i)
<1> DEFINE L == {prefixes[i].length : i \in inside}
<1>1. L \in SUBSET Nat /\ L # {} /\ \A l \in L : l <= 128
  <2>1. \A i \in inside : prefixes[i].length \in Nat /\ prefixes[i].length <= 128
    <3> SUFFICES ASSUME NEW i \in inside
                 PROVE  prefixes[i].length \in Nat /\ prefixes[i].length <= 128
      OBVIOUS
    <3> DEFINE n == prefixes[i].length
    <3>1. n \in 0..128
      BY Zenon
    <3> HIDE DEF n
    <3>2. n \in Nat /\ n <= 128
      BY <3>1
    <3>3. QED
      BY <3>2 DEF n
  <2>2. \A l \in L : l \in Nat /\ l <= 128
    BY <2>1
  <2>3. PICK i \in inside : TRUE
    OBVIOUS
  <2>4. prefixes[i].length \in L
    BY <2>3
  <2>5. QED
    BY <2>2, <2>4
<1>2. PICK l \in L : \A m \in L : m <= l
  <2> HIDE DEF L
  <2>1. 128 \in Nat
    OBVIOUS
  <2>2. QED
    BY <1>1, <2>1, GreatestOne
<1> DEFINE S == {i \in inside : prefixes[i].length = l}
<1>3. S \in SUBSET Nat /\ S # {} /\ \A i \in S : i <= N
  <2>1. PICK i \in inside : prefixes[i].length = l
    BY <1>2
  <2>2. i \in S
    BY <2>1
  <2>3. \A j \in S : j \in 1..N
    OBVIOUS
  <2> HIDE DEF S
  <2>4. \A j \in 1..N : j \in Nat /\ j <= N
    OBVIOUS
  <2>5. QED
    BY <2>2, <2>3, <2>4
<1>4. PICK i \in S : \A j \in S : j <= i
  <2> HIDE DEF S
  <2>1. QED
    BY <1>3, GreatestOne
<1>5. \A j \in inside : prefixes[j].length \in 0..128 /\ prefixes[j].length <= l
  BY <1>2
<1>6. i \in inside /\ prefixes[i].length = l
  BY <1>4
<1>7. ASSUME NEW j \in inside
      PROVE  \/ prefixes[j].length < prefixes[i].length
             \/ prefixes[j].length = prefixes[i].length /\ j <= i
  <2>1. CASE prefixes[j].length = l
    BY <1>4, <1>6, <2>1
  <2>2. CASE prefixes[j].length # l
    <3> DEFINE a == prefixes[j].length
    <3>1. a \in 0..128 /\ a <= l /\ l \in 0..128
      BY <1>2, <1>5
    <3> HIDE DEF a
    <3>2. a # l
      BY <2>2 DEF a
    <3>3. a < l
      BY <3>1, <3>2
    <3>4. QED
      BY <1>6, <3>3, Zenon DEF a
  <2>3. QED
    BY <2>1, <2>2
<1>8. QED
  BY <1>6, <1>7, Zenon DEF Longest

ArePrefixes(prefixes) ==
    \E N \in Nat : DOMAIN prefixes = 1..N /\ \A i \in 1..N : Fits(prefixes[i])

LEMMA SearchLongest ==
    ASSUME NEW prefixes, ArePrefixes(prefixes), NEW ip \in Seq(Octet)
    PROVE  LET inside == {prefixes[i] : i \in {k \in DOMAIN prefixes : Within(prefixes[k], ip)}}
               found == Search(prefixes, ip)
           IN  IF inside = {} THEN found = Malformed
               ELSE found \in inside /\ \A p \in inside : p.length <= found.length
<1>1. PICK N \in Nat : DOMAIN prefixes = 1..N /\ \A i \in 1..N : Fits(prefixes[i])
  BY Zenon DEF ArePrefixes
<1> DEFINE at == {k \in DOMAIN prefixes : Within(prefixes[k], ip)}
           inside == {prefixes[i] : i \in at}
           found == Search(prefixes, ip)
<1>2. {i \in DOMAIN prefixes : Matches(prefixes[i], ip)} = at
  BY <1>1, MatchesWithin
<1>3. found = IF at = {} THEN Malformed
              ELSE Chosen(prefixes, at)
  <2> DEFINE hits == {i \in DOMAIN prefixes : Matches(prefixes[i], ip)}
  <2>1. found = IF hits = {} THEN Malformed
                ELSE Chosen(prefixes, hits)
    BY Zenon DEF Search, Longest, Chosen
  <2> HIDE DEF hits, at, found
  <2>2. hits = at
    BY <1>2 DEF hits, at
  <2>3. QED
    BY <2>1, <2>2, Zenon
<1>4. at \in SUBSET (1..N)
  BY <1>1
<1>5. ASSUME NEW i \in at PROVE prefixes[i].length \in 0..128
  <2>1. Fits(prefixes[i])
    BY <1>1, <1>4, Zenon
  <2> DEFINE n == Len(prefixes[i].net)
             l == prefixes[i].length
  <2>2. n \in {4, 16} /\ l \in 0..(8 * n)
    BY <2>1, Zenon DEF Fits
  <2> HIDE DEF n, l
  <2>3. l \in 0..128
    BY <2>2
  <2>4. QED
    BY <2>3 DEF l
<1> HIDE DEF at, found
<1>6. CASE at = {}
  <2>1. inside = {}
    BY <1>6
  <2>2. QED
    BY <1>3, <1>6, <2>1, Zenon DEF at, found
<1>7. CASE at # {}
  <2>1. \E i \in at : Longest(prefixes, at, i)
    BY <1>4, <1>5, <1>7, LongestExists, Zenon
  <2>2. PICK i \in at : found = prefixes[i] /\ Longest(prefixes, at, i)
    BY <1>3, <1>7, <2>1 DEF Chosen
  <2>3. inside # {} /\ found \in inside
    BY <2>2
  <2>4. ASSUME NEW j \in at PROVE prefixes[j].length <= found.length
    <3> DEFINE a == prefixes[j].length
               b == found.length
    <3>1. a < b \/ a = b
      BY <2>2, Zenon DEF Longest
    <3>2. a \in 0..128 /\ b \in 0..128
      BY <1>5, <2>2
    <3> HIDE DEF a, b
    <3>3. a <= b
      BY <3>1, <3>2
    <3>4. QED
      BY <3>3 DEF a, b
  <2>5. \A p \in inside : p.length <= found.length
    BY <2>4
  <2> HIDE DEF inside
  <2>6. QED
    BY <2>3, <2>5, Zenon DEF at, found, inside
<1>8. QED
  BY <1>6, <1>7, Zenon

-----------------------------------------------------------------------------
(* What is decoded has its type, whoever sent it.                          *)

LEMMA ItemsIn ==
    ASSUME NEW data \in Seq(Octet), NEW size \in [Data -> Nat \ {0}], NEW last, NEW I,
           \A rest \in Data : size[rest] <= Len(rest) => First(rest, size[rest]) \in I
    PROVE  Items(data, size, last) \in Seq(I)
<1> DEFINE N == Len(data)
<1>1. PICK items : /\ Items(data, size, last) = items[0]
                   /\ \A p \in 0..N : ItemsAt(items, data, size, last, p)
  BY ItemsGo
<1> DEFINE T == {n \in 0..N : \A p \in (N - n)..N : items[p] \in Seq(I)}
<1>2. N \in Nat
  OBVIOUS
<1>3. ASSUME NEW p \in 0..N, \A q \in (p + 1)..N : items[q] \in Seq(I)
      PROVE  items[p] \in Seq(I)
  <2> DEFINE rest == After(data, p)
             k == size[rest]
             item == First(rest, k)
             more == IF item \in last THEN << >> ELSE items[p + k]
  <2>1. items[p] = IF rest = << >> \/ Short(rest, k) THEN << >> ELSE <<item>> \o more
    BY <1>1, <1>3, Zenon DEF ItemsAt
  <2>2. << >> \in Seq(I)
    OBVIOUS
  <2>3. CASE rest = << >> \/ Short(rest, k)
    BY <2>1, <2>2, <2>3, Zenon
  <2>4. CASE ~(rest = << >> \/ Short(rest, k))
    <3>1. p \in Nat /\ p <= N
      BY <1>2
    <3>2. rest \in Seq(Octet) /\ Len(rest) = N - p
      BY <1>2, <3>1, AfterIn
    <3> HIDE DEF rest
    <3>3. rest \in Data
      BY <2>4, <3>2 DEF Data
    <3>4. k \in Nat \ {0}
      BY <3>3
    <3> HIDE DEF k
    <3>5. k <= Len(rest)
      BY <2>4, <3>2, <3>4, <1>2, <3>1 DEF Short
    <3>6. item \in I
      BY <3>3, <3>5 DEF k
    <3>7. p + k \in (p + 1)..N
      BY <1>2, <3>1, <3>2, <3>4, <3>5
    <3>8. more \in Seq(I)
      BY <1>3, <2>2, <3>7, Zenon
    <3>9. items[p] = <<item>> \o more
      BY <2>1, <2>4, Zenon
    <3> HIDE DEF item, more
    <3>10. <<item>> \o more \in Seq(I)
      BY <3>6, <3>8
    <3>11. QED
      BY <3>9, <3>10, Zenon
  <2>5. QED
    BY <2>3, <2>4, Zenon
<1>4. 0 \in T
  <2>1. N \in 0..N /\ \A q : ~(q \in (N + 1)..N)
    BY <1>2
  <2>2. items[N] \in Seq(I)
    BY <1>3, <2>1, Zenon
  <2> HIDE DEF N
  <2>3. \A p \in (N - 0)..N : p = N
    BY <1>2
  <2>4. 0 \in 0..N
    BY <1>2
  <2>5. QED
    BY <2>2, <2>3, <2>4, Zenon
<1>5. \A n \in 1..N : n - 1 \in T => n \in T
  <2> SUFFICES ASSUME NEW n \in 1..N, n - 1 \in T
               PROVE  n \in T
    OBVIOUS
  <2> DEFINE p == N - n
  <2> HIDE DEF N
  <2>1. p \in 0..N /\ n \in 0..N /\ p + 1 = N - (n - 1)
    BY <1>2
  <2>2. \A q \in (p + 1)..N : items[q] \in Seq(I)
    BY <2>1, Zenon
  <2>3. items[p] \in Seq(I)
    BY <1>3, <2>1, <2>2, Zenon
  <2>4. \A q \in p..N : q = p \/ q \in (p + 1)..N
    BY <1>2, <2>1
  <2> HIDE DEF p
  <2>5. \A q \in p..N : items[q] \in Seq(I)
    BY <2>2, <2>3, <2>4, Zenon
  <2>6. QED
    BY <2>1, <2>5, Zenon DEF p
<1>6. N \in T
  <2> HIDE DEF T, N
  <2>1. \A n \in 0..N : n \in T
    BY <1>2, <1>4, <1>5, UpTo, Zenon
  <2>2. N \in 0..N
    BY <1>2
  <2>3. QED
    BY <2>1, <2>2, Zenon
<1>7. 0 \in (N - N)..N
  BY <1>2
<1>8. QED
  BY <1>1, <1>6, <1>7, Zenon

LEMMA DataIs ==
    ASSUME NEW data \in Data
    PROVE  /\ data \in Seq(Octet) /\ data # << >> /\ Len(data) \in Nat \ {0}
           /\ data[1] \in Octet /\ data[1] \in Nat /\ Tail(data) \in Seq(Octet)
           /\ Len(Tail(data)) = Len(data) - 1
<1>1. data \in Seq(Octet) /\ data # << >>
  BY DEF Data
<1>2. Len(data) \in Nat \ {0} /\ 1 \in 1..Len(data)
  BY <1>1
<1>3. data[1] \in Octet
  BY <1>1, <1>2, ElementOfSeq, Zenon
<1>4. data[1] \in Nat
  BY <1>3 DEF Octet
<1>5. Tail(data) \in Seq(Octet) /\ Len(Tail(data)) = Len(data) - 1
  BY <1>1
<1>6. QED
  BY <1>1, <1>2, <1>3, <1>4, <1>5

LEMMA OctetsForIs ==
    ASSUME NEW bits \in Nat
    PROVE  OctetsFor(bits) \in Nat
BY DEF OctetsFor

LEMMA PrefixSizeType ==
    ASSUME NEW afi
    PROVE  PrefixSize(afi) \in [Data -> Nat \ {0}]
<1>1. ASSUME NEW data \in Data
      PROVE  (IF data[1] > Width(afi) THEN Len(data) + 1 ELSE 1 + OctetsFor(data[1]))
               \in Nat \ {0}
  <2>1. OctetsFor(data[1]) \in Nat /\ Len(data) \in Nat
    BY DataIs, OctetsForIs
  <2>2. Len(data) + 1 \in Nat \ {0} /\ 1 + OctetsFor(data[1]) \in Nat \ {0}
    BY <2>1
  <2>3. QED
    BY <2>2, Zenon
<1>2. QED
  BY <1>1 DEF PrefixSize

(* One prefix as it stands in the data.                                    *)
RawPrefix(afi) == {item \in Data : item[1] \in 0..Width(afi)}

LEMMA PrefixItem ==
    ASSUME NEW afi, NEW rest \in Data, PrefixSize(afi)[rest] <= Len(rest)
    PROVE  First(rest, PrefixSize(afi)[rest]) \in RawPrefix(afi)
<1> DEFINE k == PrefixSize(afi)[rest]
<1>1. k = IF rest[1] > Width(afi) THEN Len(rest) + 1 ELSE 1 + OctetsFor(rest[1])
  BY DEF PrefixSize
<1>2. k \in Nat \ {0}
  BY PrefixSizeType
<1>3. rest \in Seq(Octet) /\ rest[1] \in Nat /\ Len(rest) \in Nat
  BY DataIs
<1> HIDE DEF k
<1>4. ~(rest[1] > Width(afi))
  BY <1>1, <1>3 DEF k
<1>5. k \in 0..Len(rest) /\ 1 \in 1..k
  BY <1>2, <1>3 DEF k
<1>6. First(rest, k) \in Seq(Octet) /\ Len(First(rest, k)) = k /\ First(rest, k)[1] = rest[1]
  BY <1>3, <1>5, Cut, ZenonT(60)
<1>7. First(rest, k) \in Data
  BY <1>2, <1>6 DEF Data
<1>8. rest[1] \in 0..Width(afi)
  BY <1>3, <1>4 DEF Width
<1>9. QED
  BY <1>6, <1>7, <1>8, Zenon DEF RawPrefix, k

LEMMA PrefixTyped ==
    ASSUME NEW afi, NEW raw \in Seq(Octet), NEW bits \in 0..Width(afi)
    PROVE  Fits(Prefix(raw, bits, afi, TRUE))
<1> DEFINE n == OctetsFor(Width(afi))
           net == [k \in 1..n |-> IF k > Len(raw) THEN 0 ELSE Mask(raw[k], bits - 8 * (k - 1))]
<1>1. n \in {4, 16} /\ n \in Nat /\ bits \in 0..(8 * n)
  BY DEF OctetsFor, Width
<1>2. Prefix(raw, bits, afi, TRUE) = [length |-> bits, net |-> net]
  BY Zenon DEF Prefix
<1> HIDE DEF n
<1>3. ASSUME NEW k \in 1..n
      PROVE  (IF k > Len(raw) THEN 0 ELSE Mask(raw[k], bits - 8 * (k - 1))) \in Octet
  <2>1. CASE k > Len(raw)
    BY <2>1 DEF Octet
  <2>2. CASE ~(k > Len(raw))
    <3> DEFINE b == bits - 8 * (k - 1)
    <3>1. k \in 1..Len(raw)
      BY <1>1, <2>2
    <3>2. raw[k] \in Octet
      BY <3>1, ElementOfSeq, Zenon
    <3>3. b \in Int
      BY <1>1
    <3> HIDE DEF b
    <3>4. Mask(raw[k], b) \in Octet
      BY <3>2, <3>3, MaskIs, Zenon
    <3>5. QED
      BY <2>2, <3>4, Zenon DEF b
  <2>3. QED
    BY <2>1, <2>2, Zenon
<1>4. net \in [1..n -> Octet]
  BY <1>3
<1> HIDE DEF net
<1>5. net \in Seq(Octet) /\ Len(net) = n
  BY <1>1, <1>4, SeqOfFunction, Zenon
<1> DEFINE p == Prefix(raw, bits, afi, TRUE)
<1>6. p = [length |-> bits, net |-> net]
  BY <1>2, Zenon
<1> HIDE DEF p
<1>7. Fits(p)
  <2>1. p.net = net /\ p.length = bits
    BY <1>6
  <2>2. QED
    BY <1>1, <1>5, <2>1, Zenon DEF Fits
<1>8. QED
  BY <1>7, Zenon DEF p

(* The prefixes of a list of routes.                                       *)
OfRoutes(routes) == [i \in DOMAIN routes |-> routes[i].prefix]

LEMMA UnicastTyped ==
    ASSUME NEW data \in Seq(Octet), NEW afi, NEW hop
    PROVE  ArePrefixes(OfRoutes(Unicast(data, afi, hop).routes))
<1> DEFINE items == Split(data, PrefixSize(afi)).items
           Route(item) == [prefix |-> Prefix(Tail(item), item[1], afi, TRUE), next_hop |-> hop]
           routes == [i \in DOMAIN items |-> Route(items[i])]
<1>1. Unicast(data, afi, hop).routes = routes
  BY DEF Unicast
<1>2. items = Items(data, PrefixSize(afi), {})
  BY DEF Split
<1>3. items \in Seq(RawPrefix(afi))
  <2>1. PrefixSize(afi) \in [Data -> Nat \ {0}]
    BY PrefixSizeType, Zenon
  <2>2. \A rest \in Data : PrefixSize(afi)[rest] <= Len(rest)
                             => First(rest, PrefixSize(afi)[rest]) \in RawPrefix(afi)
    BY PrefixItem, Zenon
  <2>3. QED
    BY <1>2, <2>1, <2>2, ItemsIn, Zenon
<1> HIDE DEF items
<1>4. Len(items) \in Nat /\ DOMAIN items = 1..Len(items)
  BY <1>3
<1>5. ASSUME NEW i \in 1..Len(items) PROVE Fits(Prefix(Tail(items[i]), items[i][1], afi, TRUE))
  <2>1. items[i] \in RawPrefix(afi)
    BY <1>3, ElementOfSeq, Zenon
  <2>2. items[i] \in Data /\ items[i][1] \in 0..Width(afi)
    BY <2>1, Zenon DEF RawPrefix
  <2>3. QED
    BY <2>2, DataIs, PrefixTyped, Zenon
<1>6. OfRoutes(routes) = [i \in DOMAIN items |-> Prefix(Tail(items[i]), items[i][1], afi, TRUE)]
  BY DEF OfRoutes
<1> HIDE DEF routes
<1> DEFINE n == Len(items)
           f == OfRoutes(routes)
<1>7. n \in Nat /\ DOMAIN f = 1..n /\ \A i \in 1..n : Fits(f[i])
  <2>1. DOMAIN f = 1..n
    BY <1>4, <1>6
  <2>2. \A i \in 1..n : f[i] = Prefix(Tail(items[i]), items[i][1], afi, TRUE)
    BY <1>4, <1>6
  <2>3. QED
    BY <1>4, <1>5, <2>1, <2>2, Zenon
<1> HIDE DEF n, f
<1>8. QED
  BY <1>1, <1>7, Zenon DEF ArePrefixes, f

LEMMA MaxIn ==
    ASSUME NEW N \in Nat, NEW S \in SUBSET (1..N), S # {}
    PROVE  Max(S) \in S /\ \A i \in S : i <= Max(S)
<1>1. S \in SUBSET Nat /\ \A i \in S : i <= N
  OBVIOUS
<1>2. PICK m \in S : \A i \in S : i <= m
  BY <1>1, GreatestOne
<1>3. \A i \in S : m >= i
  BY <1>1, <1>2
<1>4. \E k \in S : \A i \in S : k >= i
  BY <1>3
<1>5. Max(S) \in S /\ \A i \in S : Max(S) >= i
  BY <1>4 DEF Max
<1>6. QED
  BY <1>1, <1>5

LEMMA OctetIn ==
    ASSUME NEW s \in Seq(Octet), NEW i \in 1..Len(s)
    PROVE  s[i] \in Octet /\ s[i] \in Nat
<1>1. s[i] \in Octet
  BY ElementOfSeq, Zenon
<1> DEFINE x == s[i]
<1>2. x \in Octet
  BY <1>1
<1> HIDE DEF x
<1>3. x \in Nat
  BY <1>2 DEF Octet
<1>4. QED
  BY <1>2, <1>3 DEF x

LEMMA MpTyped ==
    ASSUME NEW code \in {14, 15}, NEW data \in Seq(Octet), MpList(code, data).ok = TRUE,
           NEW afi, MpList(code, data).family = <<afi, 1>>
    PROVE  ArePrefixes(OfRoutes(MpList(code, data).routes))
<1> DEFINE fixed == IF code = 14 THEN 4 ELSE 3
           start == IF code = 14 THEN 5 + data[4] ELSE 3
           family == <<U16(data), data[3]>>
           hop == IF code = 14 THEN First(After(data, 4), data[4]) ELSE << >>
           list == IF family[2] = 133 THEN FlowSpec(After(data, start), family[1])
                   ELSE Unicast(After(data, start), family[1], hop)
           good == family \in Families => list.ok
           mp == MpList(code, data)
<1>1. mp = IF Short(data, fixed) \/ Short(data, start) THEN Malformed
           ELSE [ok |-> good, family |-> family, next_hop |-> hop, routes |-> list.routes]
  BY DEF MpList
<1>2. ~(Short(data, fixed) \/ Short(data, start))
  <2>1. Malformed.ok = FALSE
    BY DEF Malformed
  <2>2. QED
    BY <1>1, <2>1
<1>3. mp.family = family /\ mp.routes = list.routes
  <2> HIDE DEF mp, good, list, hop
  <2>1. mp = [ok |-> good, family |-> family, next_hop |-> hop, routes |-> list.routes]
    BY <1>1, <1>2, Zenon
  <2> HIDE DEF family
  <2>2. QED
    BY <2>1
<1>4. family[2] = 1
  <2> HIDE DEF family
  <2>1. family = <<afi, 1>>
    BY <1>3, Zenon
  <2>2. QED
    BY <2>1
<1>5. list = Unicast(After(data, start), family[1], hop)
  <2> HIDE DEF family, hop
  <2>1. family[2] # 133
    BY <1>4
  <2>2. QED
    BY <2>1
<1>6. After(data, start) \in Seq(Octet)
  <2>1. start \in Nat
    <3>1. CASE code = 14
      <4>1. ~(Len(data) < 4)
        BY <1>2, <3>1 DEF Short
      <4>2. 4 \in 1..Len(data)
        BY <4>1
      <4>4. data[4] \in Nat
        BY <4>2, OctetIn, Zenon
      <4> DEFINE d == data[4]
      <4>5. start = 5 + d
        BY <3>1
      <4>6. d \in Nat
        BY <4>4
      <4> HIDE DEF d, start
      <4>7. QED
        BY <4>5, <4>6
    <3>2. CASE code # 14
      BY <3>2
    <3>3. QED
      BY <3>1, <3>2
  <2> HIDE DEF start
  <2>2. QED
    BY <2>1, AfterIn
<1> HIDE DEF list, hop, family, start
<1>7. ArePrefixes(OfRoutes(list.routes))
  BY <1>5, <1>6, UnicastTyped, Zenon
<1>8. QED
  BY <1>3, <1>7, Zenon DEF mp

Plain == {<<1, 1>>, <<2, 1>>}

LEMMA CollectedTyped ==
    ASSUME NEW attrs, NEW N \in Nat, DOMAIN attrs = 1..N,
           \A i \in 1..N : attrs[i].data \in Seq(Octet),
           NEW asnLen, NEW withdrawn, NEW nlri \in Seq(Octet),
           Collected(attrs, asnLen, withdrawn, nlri).ok = TRUE,
           NEW f \in Plain, f \in DOMAIN Collected(attrs, asnLen, withdrawn, nlri).announce
    PROVE  ArePrefixes(OfRoutes(Collected(attrs, asnLen, withdrawn, nlri).announce[f]))
<1> DEFINE mps == {k \in DOMAIN attrs : attrs[k].code \in {14, 15}}
           lists == [i \in mps |-> MpList(attrs[i].code, attrs[i].data)]
           gone == Unicast(withdrawn, 1, << >>)
           new == Unicast(nlri, 1, NextHopOf(attrs))
           announce == RoutesOf(attrs, lists, 14)
           bad == (\E i \in DOMAIN lists : ~lists[i].ok) \/ ~gone.ok \/ ~new.ok
           all == IF nlri = << >> THEN announce ELSE Put(announce, <<1, 1>>, new.routes)
           c == Collected(attrs, asnLen, withdrawn, nlri)
<1>1. ~bad /\ c.announce = all
  <2>1. PICK w, a, p : c = IF bad THEN Malformed
                           ELSE [ok |-> TRUE, announce |-> all, withdraw |-> w, actions |-> a,
                                 path |-> p]
    BY Zenon DEF Collected
  <2> HIDE DEF bad, all, c
  <2>2. c.ok = TRUE
    BY DEF c
  <2>3. ~bad
    <3>1. Malformed.ok = FALSE
      BY DEF Malformed
    <3>2. QED
      BY <2>1, <2>2, <3>1
  <2>4. QED
    BY <2>1, <2>3
<1>2. ASSUME f \in DOMAIN announce PROVE ArePrefixes(OfRoutes(announce[f]))
  <2> DEFINE Given(family) == {i \in DOMAIN lists : attrs[i].code = 14 /\ lists[i].family = family}
             m == Max(Given(f))
  <2>1. announce = [family \in {g \in Families : Given(g) # {}} |->
                       lists[Max(Given(family))].routes]
    BY Zenon DEF RoutesOf
  <2> HIDE DEF lists
  <2>2. Given(f) # {} /\ announce[f] = lists[m].routes
    BY <1>2, <2>1
  <2>3. DOMAIN lists = mps /\ mps \in SUBSET (1..N)
    BY DEF lists
  <2>4. Given(f) \in SUBSET (1..N)
    BY <2>3
  <2> DEFINE G == Given(f)
  <2>5. m \in G
    <3> HIDE DEF G
    <3>1. G \in SUBSET (1..N) /\ G # {} /\ m = Max(G)
      BY <2>2, <2>4, Zenon DEF G
    <3>2. QED
      BY <3>1, MaxIn, Zenon
  <2> HIDE DEF m
  <2>6. m \in mps /\ m \in 1..N /\ lists[m].family = f
    BY <2>3, <2>5
  <2>7. attrs[m].code \in {14, 15} /\ attrs[m].data \in Seq(Octet)
    BY <2>6
  <2>8. lists[m] = MpList(attrs[m].code, attrs[m].data)
    BY <2>6 DEF lists
  <2>9. lists[m].ok
    BY <1>1, <2>3, <2>6
  <2>10. MpList(attrs[m].code, attrs[m].data).ok = TRUE
    <3>1. \A code, data : MpList(code, data).ok \in BOOLEAN
      BY ZenonT(60) DEF MpList, Malformed
    <3>2. QED
      BY <2>8, <2>9, <3>1
  <2>11. \E afi : f = <<afi, 1>>
    BY DEF Plain
  <2>12. QED
    BY <2>2, <2>6, <2>7, <2>8, <2>10, <2>11, MpTyped, ZenonT(60)
<1>3. ArePrefixes(OfRoutes(new.routes))
  BY UnicastTyped, Zenon
<1>4. CASE nlri = << >>
  BY <1>1, <1>2, <1>4, Zenon DEF c
<1>5. CASE nlri # << >>
  <2>1. all = Put(announce, <<1, 1>>, new.routes)
    BY <1>5
  <2> HIDE DEF new, announce
  <2>2. f \in DOMAIN announce \/ f = <<1, 1>>
    BY <1>1, <2>1 DEF Put, c
  <2>3. all[f] = IF f = <<1, 1>> THEN new.routes ELSE announce[f]
    BY <2>1, <2>2 DEF Put
  <2> HIDE DEF all
  <2>4. ArePrefixes(OfRoutes(all[f]))
    BY <1>2, <1>3, <2>2, <2>3, Zenon
  <2>5. QED
    BY <1>1, <2>4, Zenon DEF c
<1>6. QED
  BY <1>4, <1>5

LEMMA AttributeSizeType == AttributeSize \in [Data -> Nat \ {0}]
<1>1. ASSUME NEW data \in Data
      PROVE  (LET size == AttributeHeader(data)
              IN  IF Short(data, size) THEN size
                  ELSE size + IF size = 4 THEN U16(After(data, 2)) ELSE data[3]) \in Nat \ {0}
  <2> DEFINE size == AttributeHeader(data)
             rest == After(data, 2)
  <2>1. size \in {3, 4}
    BY DEF AttributeHeader
  <2>2. CASE Short(data, size)
    BY <2>1, <2>2
  <2>3. CASE ~Short(data, size)
    <3>1. data \in Seq(Octet) /\ Len(data) \in Nat /\ Len(data) >= size
      BY <2>1, <2>3, DataIs DEF Short
    <3>2. 3 \in 1..Len(data)
      BY <2>1, <3>1
    <3>3. data[3] \in Nat
      <4>1. data[3] \in Octet
        BY <3>1, <3>2, ElementOfSeq, Zenon
      <4>2. QED
        BY <4>1 DEF Octet
    <3>4. CASE size = 4
      <4>0. 2 \in Nat /\ 2 <= Len(data)
        BY <3>1, <3>4
      <4>1. rest \in Seq(Octet) /\ Len(rest) = Len(data) - 2
        BY <3>1, <4>0, AfterIn, Zenon
      <4> HIDE DEF rest
      <4>2. 1 \in 1..Len(rest) /\ 2 \in 1..Len(rest)
        BY <3>1, <3>4, <4>1
      <4>3. rest[1] \in Octet /\ rest[2] \in Octet
        BY <4>1, <4>2, ElementOfSeq, Zenon
      <4>4. rest[1] \in Nat /\ rest[2] \in Nat
        BY <4>3 DEF Octet
      <4>5. U16(rest) \in Nat
        BY <4>4 DEF U16
      <4>6. QED
        BY <2>3, <3>4, <4>5 DEF rest
    <3>5. CASE size = 3
      BY <2>3, <3>3, <3>5
    <3>6. QED
      BY <2>1, <3>4, <3>5
  <2>4. QED
    BY <2>2, <2>3
<1>2. QED
  BY <1>1 DEF AttributeSize

LEMMA ItemsInData ==
    ASSUME NEW data \in Seq(Octet), NEW size \in [Data -> Nat \ {0}], NEW last
    PROVE  Items(data, size, last) \in Seq(Data)
<1>1. ASSUME NEW rest \in Data, size[rest] <= Len(rest) PROVE First(rest, size[rest]) \in Data
  <2> DEFINE k == size[rest]
  <2>1. rest \in Seq(Octet) /\ Len(rest) \in Nat /\ k \in Nat \ {0}
    BY DataIs
  <2>2. k <= Len(rest)
    BY <1>1
  <2> HIDE DEF k
  <2>3. k \in 0..Len(rest)
    BY <2>1, <2>2
  <2>4. First(rest, k) \in Seq(Octet) /\ Len(First(rest, k)) = k
    BY <2>1, <2>3, Cut, SMT
  <2>5. First(rest, k) \in Data
    BY <2>1, <2>4 DEF Data
  <2>6. QED
    BY <2>5 DEF k
<1>2. QED
  BY <1>1, ItemsIn, Zenon

(* Whatever the octets of an UPDATE, its unicast prefixes fit.             *)
LEMMA UpdateTyped ==
    ASSUME NEW body \in Seq(Octet), NEW asnLen, Update(body, asnLen).ok = TRUE,
           NEW f \in Plain, f \in DOMAIN Update(body, asnLen).announce
    PROVE  ArePrefixes(OfRoutes(Update(body, asnLen).announce[f]))
<1> DEFINE rest == After(body, 2 + U16(body))
           split == Split(First(After(rest, 2), U16(rest)), AttributeSize)
           items == split.items
           attrs == [i \in DOMAIN items |-> Attribute(items[i])]
           withdrawn == First(After(body, 2), U16(body))
           nlri == After(rest, 2 + U16(rest))
           bad == Short(body, 2) \/ Short(body, 4 + U16(body)) \/ Short(rest, 2 + U16(rest))
                    \/ ~split.ok
           u == Update(body, asnLen)
           c == Collected(attrs, asnLen, withdrawn, nlri)
<1>1. u = IF bad THEN Malformed ELSE c
  BY DEF Update
<1>2. ~bad /\ u = c
  <2> HIDE DEF bad, c
  <2>1. Malformed.ok = FALSE
    BY DEF Malformed
  <2>2. QED
    BY <1>1, <2>1
<1>3. ASSUME NEW s \in Seq(Octet), ~(Len(s) < 2) PROVE U16(s) \in Nat
  <2>1. 1 \in 1..Len(s) /\ 2 \in 1..Len(s)
    BY <1>3
  <2>3. s[1] \in Nat /\ s[2] \in Nat
    BY <2>1, OctetIn, Zenon
  <2>4. QED
    BY <2>3 DEF U16
<1>4. U16(body) \in Nat
  BY <1>2, <1>3, Zenon DEF Short
<1>5. rest \in Seq(Octet) /\ ~(Len(rest) < 2)
  <2> DEFINE n == U16(body)
  <2>1. n \in Nat /\ ~(Len(body) < 4 + n)
    BY <1>2, <1>4, Zenon DEF Short
  <2> HIDE DEF n
  <2> DEFINE k == 2 + n
             l == Len(body)
  <2>4. k \in Nat /\ l \in Nat /\ k <= l /\ l - k >= 2
    BY <2>1
  <2>5. After(body, k) \in Seq(Octet) /\ Len(After(body, k)) = l - k
    <3> HIDE DEF k
    <3>1. QED
      BY <2>4, AfterIn, Zenon
  <2> DEFINE m == Len(After(body, k))
  <2>6. m = l - k
    BY <2>5, Zenon
  <2> HIDE DEF k, l, m
  <2>7. ~(m < 2)
    BY <2>4, <2>6
  <2>2. After(body, 2 + n) \in Seq(Octet) /\ ~(Len(After(body, 2 + n)) < 2)
    BY <2>5, <2>7, Zenon DEF k, m
  <2>3. QED
    BY <2>2 DEF n
<1>6. U16(rest) \in Nat
  BY <1>3, <1>5, Zenon
<1> DEFINE m == U16(rest)
           data == First(After(rest, 2), m)
<1> HIDE DEF rest, m
<1>7. nlri \in Seq(Octet) /\ data \in Seq(Octet)
  <2>1. After(rest, 2) \in Seq(Octet) /\ After(rest, 2 + m) \in Seq(Octet)
    BY <1>5, <1>6, AfterIn DEF m
  <2> DEFINE t == After(rest, 2)
  <2>2. First(t, m) \in Seq(Octet)
    <3> HIDE DEF t
    <3>1. ~(Len(rest) < 2 + m)
      BY <1>2, Zenon DEF Short, m
    <3>2. m \in 0..Len(t)
      BY <1>5, <1>6, <3>1, AfterIn, SMTT(60) DEF t, m
    <3>3. QED
      BY <2>1, <3>2, Cut, Zenon DEF t
  <2>3. QED
    BY <2>1, <2>2, Zenon DEF m
<1>8. items \in Seq(Data)
  <2>1. items = Items(data, AttributeSize, {})
    BY DEF Split, m
  <2> HIDE DEF data
  <2>2. QED
    BY <1>7, <2>1, AttributeSizeType, ItemsInData, Zenon
<1> HIDE DEF items, split, nlri, withdrawn
<1> DEFINE N == Len(items)
<1>9. N \in Nat /\ DOMAIN attrs = 1..N
  BY <1>8
<1>10. ASSUME NEW i \in 1..N PROVE attrs[i].data \in Seq(Octet)
  <2>1. items[i] \in Data
    BY <1>8, ElementOfSeq, Zenon
  <2>2. attrs[i] = Attribute(items[i])
    BY <1>9
  <2>3. attrs[i].data = After(items[i], AttributeHeader(items[i]))
    BY <2>2 DEF Attribute
  <2>4. AttributeHeader(items[i]) \in Nat
    BY DEF AttributeHeader
  <2>5. items[i] \in Seq(Octet)
    BY <2>1, DataIs
  <2>6. QED
    BY <2>3, <2>4, <2>5, AfterIn
<1> HIDE DEF attrs, N
<1>11. QED
  BY <1>2, <1>7, <1>9, <1>10, CollectedTyped, Zenon

-----------------------------------------------------------------------------
(* Prefixes, read back.                                                    *)

(* An octet with these bits.                                               *)
OfBits(b) == 128 * b[1] + 64 * b[2] + 32 * b[3] + 16 * b[4] + 8 * b[5] + 4 * b[6] + 2 * b[7] + b[8]

LEMMA EightBits ==
    ASSUME NEW b \in [1..8 -> {0, 1}]
    PROVE  OfBits(b) \in Octet /\ \A j \in 1..8 : BitOf(OfBits(b), j) = b[j]
<1> DEFINE x == OfBits(b)
           b1 == b[1]
           b2 == b[2]
           b3 == b[3]
           b4 == b[4]
           b5 == b[5]
           b6 == b[6]
           b7 == b[7]
           b8 == b[8]
<1>1. b1 \in {0, 1} /\ b2 \in {0, 1} /\ b3 \in {0, 1} /\ b4 \in {0, 1}
      /\ b5 \in {0, 1} /\ b6 \in {0, 1} /\ b7 \in {0, 1} /\ b8 \in {0, 1}
  OBVIOUS
<1>2. x = 128 * b1 + 64 * b2 + 32 * b3 + 16 * b4 + 8 * b5 + 4 * b6 + 2 * b7 + b8
  BY DEF OfBits
<1> HIDE DEF x, b1, b2, b3, b4, b5, b6, b7, b8
<1>3. x \in Octet
  BY <1>1, <1>2 DEF Octet
<1>4. BitOf(x, 1) = b1
  <2>1. x \div 128 = b1
    BY <1>1, <1>2
  <2>2. QED
    BY <1>1, <2>1, LeadIs DEF BitOf
<1>5. BitOf(x, 2) = b2
  <2>1. x \div 64 = 2 * b1 + b2
    BY <1>1, <1>2
  <2>2. QED
    BY <1>1, <2>1, LeadIs DEF BitOf
<1>6. BitOf(x, 3) = b3
  <2>1. x \div 32 = 4 * b1 + 2 * b2 + b3
    BY <1>1, <1>2
  <2>2. QED
    BY <1>1, <2>1, LeadIs DEF BitOf
<1>7. BitOf(x, 4) = b4
  <2>1. x \div 16 = 8 * b1 + 4 * b2 + 2 * b3 + b4
    BY <1>1, <1>2
  <2>2. QED
    BY <1>1, <2>1, LeadIs DEF BitOf
<1>8. BitOf(x, 5) = b5
  <2>1. x \div 8 = 16 * b1 + 8 * b2 + 4 * b3 + 2 * b4 + b5
    BY <1>1, <1>2
  <2>2. QED
    BY <1>1, <2>1, LeadIs DEF BitOf
<1>9. BitOf(x, 6) = b6
  <2>1. x \div 4 = 32 * b1 + 16 * b2 + 8 * b3 + 4 * b4 + 2 * b5 + b6
    BY <1>1, <1>2
  <2>2. QED
    BY <1>1, <2>1, LeadIs DEF BitOf
<1>10. BitOf(x, 7) = b7
  <2>1. x \div 2 = 64 * b1 + 32 * b2 + 16 * b3 + 8 * b4 + 4 * b5 + 2 * b6 + b7
    BY <1>1, <1>2
  <2>2. QED
    BY <1>1, <2>1, LeadIs DEF BitOf
<1>11. BitOf(x, 8) = b8
  <2>1. x \div 1 = 128 * b1 + 64 * b2 + 32 * b3 + 16 * b4 + 8 * b5 + 4 * b6 + 2 * b7 + b8
    BY <1>1, <1>2
  <2>2. QED
    BY <1>1, <2>1, LeadIs DEF BitOf
<1>12. \A j \in 1..8 : j \in {1, 2, 3, 4, 5, 6, 7, 8}
  OBVIOUS
<1>13. QED
  BY <1>3, <1>4, <1>5, <1>6, <1>7, <1>8, <1>9, <1>10, <1>11, <1>12
     DEF x, b1, b2, b3, b4, b5, b6, b7, b8

LEMMA BitsOf ==
    ASSUME NEW x \in Octet
    PROVE  /\ [j \in 1..8 |-> BitOf(x, j)] \in [1..8 -> {0, 1}]
           /\ x = OfBits([j \in 1..8 |-> BitOf(x, j)])
<1>1. \A j \in 1..8 : BitOf(x, j) \in {0, 1} /\ Lead(x, j) \in Nat
  BY LeadStep
<1>2. x = 128 * BitOf(x, 1) + 64 * BitOf(x, 2) + 32 * BitOf(x, 3) + 16 * BitOf(x, 4)
            + 8 * BitOf(x, 5) + 4 * BitOf(x, 6) + 2 * BitOf(x, 7) + BitOf(x, 8)
  <2>1. /\ Lead(x, 1) = BitOf(x, 1)
        /\ Lead(x, 2) = 2 * Lead(x, 1) + BitOf(x, 2)
        /\ Lead(x, 3) = 2 * Lead(x, 2) + BitOf(x, 3)
        /\ Lead(x, 4) = 2 * Lead(x, 3) + BitOf(x, 4)
        /\ Lead(x, 5) = 2 * Lead(x, 4) + BitOf(x, 5)
        /\ Lead(x, 6) = 2 * Lead(x, 5) + BitOf(x, 6)
        /\ Lead(x, 7) = 2 * Lead(x, 6) + BitOf(x, 7)
        /\ Lead(x, 8) = 2 * Lead(x, 7) + BitOf(x, 8)
        /\ Lead(x, 8) = x
    BY LeadStep
  <2>2. /\ 1 \in 1..8 /\ 2 \in 1..8 /\ 3 \in 1..8 /\ 4 \in 1..8
        /\ 5 \in 1..8 /\ 6 \in 1..8 /\ 7 \in 1..8 /\ 8 \in 1..8
    OBVIOUS
  <2>3. /\ BitOf(x, 1) \in Int /\ BitOf(x, 2) \in Int /\ BitOf(x, 3) \in Int /\ BitOf(x, 4) \in Int
        /\ BitOf(x, 5) \in Int /\ BitOf(x, 6) \in Int /\ BitOf(x, 7) \in Int /\ BitOf(x, 8) \in Int
    BY <1>1, <2>2
  <2>4. QED
    BY <2>1, <2>3
<1>3. QED
  BY <1>1, <1>2 DEF OfBits

LEMMA MaskBits ==
    ASSUME NEW x \in Octet, NEW b \in Int, NEW j \in 1..8
    PROVE  BitOf(Mask(x, b), j) = IF j <= b THEN BitOf(x, j) ELSE 0
<1> DEFINE bits == [i \in 1..8 |-> BitOf(x, i)]
           kept == [i \in 1..8 |-> IF i <= b THEN BitOf(x, i) ELSE 0]
<1>1. bits \in [1..8 -> {0, 1}] /\ x = OfBits(bits)
  BY BitsOf, Zenon
<1>2. \A i \in 1..8 : kept[i] = IF i <= b THEN bits[i] ELSE 0
  OBVIOUS
<1>3. kept \in [1..8 -> {0, 1}] /\ kept[j] = IF j <= b THEN BitOf(x, j) ELSE 0
  <2>1. \A i \in 1..8 : (IF i <= b THEN BitOf(x, i) ELSE 0) \in {0, 1}
    BY LeadStep
  <2>2. QED
    BY <2>1
<1> HIDE DEF bits, kept
<1> DEFINE b1 == bits[1]
<1> DEFINE b2 == bits[2]
<1> DEFINE b3 == bits[3]
<1> DEFINE b4 == bits[4]
<1> DEFINE b5 == bits[5]
<1> DEFINE b6 == bits[6]
<1> DEFINE b7 == bits[7]
<1> DEFINE b8 == bits[8]
<1>4. b1 \in {0, 1} /\ b2 \in {0, 1} /\ b3 \in {0, 1} /\ b4 \in {0, 1}
      /\ b5 \in {0, 1} /\ b6 \in {0, 1} /\ b7 \in {0, 1} /\ b8 \in {0, 1}
  BY <1>1
<1>5. x = 128 * b1 + 64 * b2 + 32 * b3 + 16 * b4 + 8 * b5 + 4 * b6 + 2 * b7 + b8
  BY <1>1 DEF OfBits
<1>6. Mask(x, b) = OfBits(kept)
  <2>1. CASE b >= 8
    <3>1. \A i \in 1..8 : kept[i] = bits[i]
      BY <1>2, <2>1
    <3>2. OfBits(kept) = OfBits(bits)
      BY <3>1 DEF OfBits
    <3>3. QED
      BY <1>1, <2>1, <3>2, MaskIs
  <2>2. CASE b <= 0
    <3>1. \A i \in 1..8 : kept[i] = 0
      BY <1>2, <2>2
    <3>2. OfBits(kept) = 0
      BY <3>1 DEF OfBits
    <3>3. QED
      BY <2>2, <3>2, MaskIs
  <2>3. CASE b = 1
    <3>1. kept[1] = b1 /\ kept[2] = 0 /\ kept[3] = 0 /\ kept[4] = 0
          /\ kept[5] = 0 /\ kept[6] = 0 /\ kept[7] = 0 /\ kept[8] = 0
      BY <1>2, <2>3
    <3>2. Mask(x, b) = x - (x % 128)
      BY <2>3, Powers DEF Mask
    <3>3. OfBits(kept) = 128 * b1
      BY <3>1, <1>4 DEF OfBits
    <3> HIDE DEF b1, b2, b3, b4, b5, b6, b7, b8
    <3>4. x - (x % 128) = 128 * b1
      BY <1>4, <1>5
    <3>5. QED
      BY <3>2, <3>3, <3>4
  <2>4. CASE b = 2
    <3>1. kept[1] = b1 /\ kept[2] = b2 /\ kept[3] = 0 /\ kept[4] = 0
          /\ kept[5] = 0 /\ kept[6] = 0 /\ kept[7] = 0 /\ kept[8] = 0
      BY <1>2, <2>4
    <3>2. Mask(x, b) = x - (x % 64)
      BY <2>4, Powers DEF Mask
    <3>3. OfBits(kept) = 128 * b1 + 64 * b2
      BY <3>1, <1>4 DEF OfBits
    <3> HIDE DEF b1, b2, b3, b4, b5, b6, b7, b8
    <3>4. x - (x % 64) = 128 * b1 + 64 * b2
      BY <1>4, <1>5
    <3>5. QED
      BY <3>2, <3>3, <3>4
  <2>5. CASE b = 3
    <3>1. kept[1] = b1 /\ kept[2] = b2 /\ kept[3] = b3 /\ kept[4] = 0
          /\ kept[5] = 0 /\ kept[6] = 0 /\ kept[7] = 0 /\ kept[8] = 0
      BY <1>2, <2>5
    <3>2. Mask(x, b) = x - (x % 32)
      BY <2>5, Powers DEF Mask
    <3>3. OfBits(kept) = 128 * b1 + 64 * b2 + 32 * b3
      BY <3>1, <1>4 DEF OfBits
    <3> HIDE DEF b1, b2, b3, b4, b5, b6, b7, b8
    <3>4. x - (x % 32) = 128 * b1 + 64 * b2 + 32 * b3
      BY <1>4, <1>5
    <3>5. QED
      BY <3>2, <3>3, <3>4
  <2>6. CASE b = 4
    <3>1. kept[1] = b1 /\ kept[2] = b2 /\ kept[3] = b3 /\ kept[4] = b4
          /\ kept[5] = 0 /\ kept[6] = 0 /\ kept[7] = 0 /\ kept[8] = 0
      BY <1>2, <2>6
    <3>2. Mask(x, b) = x - (x % 16)
      BY <2>6, Powers DEF Mask
    <3>3. OfBits(kept) = 128 * b1 + 64 * b2 + 32 * b3 + 16 * b4
      BY <3>1, <1>4 DEF OfBits
    <3> HIDE DEF b1, b2, b3, b4, b5, b6, b7, b8
    <3>4. x - (x % 16) = 128 * b1 + 64 * b2 + 32 * b3 + 16 * b4
      BY <1>4, <1>5
    <3>5. QED
      BY <3>2, <3>3, <3>4
  <2>7. CASE b = 5
    <3>1. kept[1] = b1 /\ kept[2] = b2 /\ kept[3] = b3 /\ kept[4] = b4
          /\ kept[5] = b5 /\ kept[6] = 0 /\ kept[7] = 0 /\ kept[8] = 0
      BY <1>2, <2>7
    <3>2. Mask(x, b) = x - (x % 8)
      BY <2>7, Powers DEF Mask
    <3>3. OfBits(kept) = 128 * b1 + 64 * b2 + 32 * b3 + 16 * b4 + 8 * b5
      BY <3>1, <1>4 DEF OfBits
    <3> HIDE DEF b1, b2, b3, b4, b5, b6, b7, b8
    <3>4. x - (x % 8) = 128 * b1 + 64 * b2 + 32 * b3 + 16 * b4 + 8 * b5
      BY <1>4, <1>5
    <3>5. QED
      BY <3>2, <3>3, <3>4
  <2>8. CASE b = 6
    <3>1. kept[1] = b1 /\ kept[2] = b2 /\ kept[3] = b3 /\ kept[4] = b4
          /\ kept[5] = b5 /\ kept[6] = b6 /\ kept[7] = 0 /\ kept[8] = 0
      BY <1>2, <2>8
    <3>2. Mask(x, b) = x - (x % 4)
      BY <2>8, Powers DEF Mask
    <3>3. OfBits(kept) = 128 * b1 + 64 * b2 + 32 * b3 + 16 * b4 + 8 * b5 + 4 * b6
      BY <3>1, <1>4 DEF OfBits
    <3> HIDE DEF b1, b2, b3, b4, b5, b6, b7, b8
    <3>4. x - (x % 4) = 128 * b1 + 64 * b2 + 32 * b3 + 16 * b4 + 8 * b5 + 4 * b6
      BY <1>4, <1>5
    <3>5. QED
      BY <3>2, <3>3, <3>4
  <2>9. CASE b = 7
    <3>1. kept[1] = b1 /\ kept[2] = b2 /\ kept[3] = b3 /\ kept[4] = b4
          /\ kept[5] = b5 /\ kept[6] = b6 /\ kept[7] = b7 /\ kept[8] = 0
      BY <1>2, <2>9
    <3>2. Mask(x, b) = x - (x % 2)
      BY <2>9, Powers DEF Mask
    <3>3. OfBits(kept) = 128 * b1 + 64 * b2 + 32 * b3 + 16 * b4 + 8 * b5 + 4 * b6 + 2 * b7
      BY <3>1, <1>4 DEF OfBits
    <3> HIDE DEF b1, b2, b3, b4, b5, b6, b7, b8
    <3>4. x - (x % 2) = 128 * b1 + 64 * b2 + 32 * b3 + 16 * b4 + 8 * b5 + 4 * b6 + 2 * b7
      BY <1>4, <1>5
    <3>5. QED
      BY <3>2, <3>3, <3>4
  <2>10. b >= 8 \/ b <= 0 \/ b \in {1, 2, 3, 4, 5, 6, 7}
    OBVIOUS
  <2>11. QED
    BY <2>1, <2>2, <2>3, <2>4, <2>5, <2>6, <2>7, <2>8, <2>9, <2>10
<1>7. QED
  BY <1>3, <1>6, EightBits, Zenon

-----------------------------------------------------------------------------
(* What a sender encodes: octets, and of what length.                      *)

PaddedBit(bits, pad, i) == IF i <= Len(bits) THEN bits[i] ELSE pad
PaddedBits(bits, pad, k) == [j \in 1..8 |-> PaddedBit(bits, pad, 8 * (k - 1) + j)]

LEMMA ToOctetsAt ==
    ASSUME NEW bits, NEW pad
    PROVE  ToOctets(bits, pad) =
             [k \in 1..OctetsFor(Len(bits)) |-> OfBits(PaddedBits(bits, pad, k))]
<1> DEFINE at(k) == 128 * PaddedBit(bits, pad, 8 * k - 7) + 64 * PaddedBit(bits, pad, 8 * k - 6)
                      + 32 * PaddedBit(bits, pad, 8 * k - 5) + 16 * PaddedBit(bits, pad, 8 * k - 4)
                      + 8 * PaddedBit(bits, pad, 8 * k - 3) + 4 * PaddedBit(bits, pad, 8 * k - 2)
                      + 2 * PaddedBit(bits, pad, 8 * k - 1) + PaddedBit(bits, pad, 8 * k)
<1>1. ToOctets(bits, pad) = [k \in 1..OctetsFor(Len(bits)) |-> at(k)]
  BY DEF ToOctets, PaddedBit, OctetsFor
<1>2. ASSUME NEW k \in 1..OctetsFor(Len(bits))
      PROVE  at(k) = OfBits(PaddedBits(bits, pad, k))
  <2>1. /\ PaddedBits(bits, pad, k)[1] = PaddedBit(bits, pad, 8 * (k - 1) + 1)
        /\ PaddedBits(bits, pad, k)[2] = PaddedBit(bits, pad, 8 * (k - 1) + 2)
        /\ PaddedBits(bits, pad, k)[3] = PaddedBit(bits, pad, 8 * (k - 1) + 3)
        /\ PaddedBits(bits, pad, k)[4] = PaddedBit(bits, pad, 8 * (k - 1) + 4)
        /\ PaddedBits(bits, pad, k)[5] = PaddedBit(bits, pad, 8 * (k - 1) + 5)
        /\ PaddedBits(bits, pad, k)[6] = PaddedBit(bits, pad, 8 * (k - 1) + 6)
        /\ PaddedBits(bits, pad, k)[7] = PaddedBit(bits, pad, 8 * (k - 1) + 7)
        /\ PaddedBits(bits, pad, k)[8] = PaddedBit(bits, pad, 8 * (k - 1) + 8)
    BY DEF PaddedBits
  <2>2. /\ 8 * (k - 1) + 1 = 8 * k - 7 /\ 8 * (k - 1) + 2 = 8 * k - 6
        /\ 8 * (k - 1) + 3 = 8 * k - 5 /\ 8 * (k - 1) + 4 = 8 * k - 4
        /\ 8 * (k - 1) + 5 = 8 * k - 3 /\ 8 * (k - 1) + 6 = 8 * k - 2
        /\ 8 * (k - 1) + 7 = 8 * k - 1 /\ 8 * (k - 1) + 8 = 8 * k
    OBVIOUS
  <2>3. QED
    BY <2>1, <2>2 DEF OfBits
<1>3. QED
  BY <1>1, <1>2

LEMMA ToOctetsIs ==
    ASSUME NEW bits \in Seq({0, 1}), NEW pad \in {0, 1}
    PROVE  /\ ToOctets(bits, pad) \in Seq(Octet)
           /\ Len(ToOctets(bits, pad)) = OctetsFor(Len(bits))
           /\ \A k \in 1..OctetsFor(Len(bits)), j \in 1..8 :
                 BitOf(ToOctets(bits, pad)[k], j) = PaddedBit(bits, pad, 8 * (k - 1) + j)
<1> DEFINE n == OctetsFor(Len(bits))  octets == ToOctets(bits, pad)
<1>1. n \in Nat
  BY OctetsForIs
<1>2. ASSUME NEW i \in Nat \ {0}
      PROVE  PaddedBit(bits, pad, i) \in {0, 1}
  BY DEF PaddedBit
<1>3. ASSUME NEW k \in 1..n
      PROVE  PaddedBits(bits, pad, k) \in [1..8 -> {0, 1}]
  <2>1. \A j \in 1..8 : 8 * (k - 1) + j \in Nat \ {0}
    BY <1>1
  <2>2. QED
    BY <2>1, <1>2, Zenon DEF PaddedBits
<1>4. octets = [k \in 1..n |-> OfBits(PaddedBits(bits, pad, k))]
  BY ToOctetsAt, Zenon
<1>5. octets \in [1..n -> Octet]
  BY <1>3, <1>4, EightBits, Zenon
<1>6. octets \in Seq(Octet) /\ Len(octets) = n
  BY <1>1, <1>5, SeqOfFunction, Zenon
<1>7. ASSUME NEW k \in 1..n, NEW j \in 1..8
      PROVE  BitOf(octets[k], j) = PaddedBit(bits, pad, 8 * (k - 1) + j)
  <2>1. octets[k] = OfBits(PaddedBits(bits, pad, k))
    BY <1>4, Zenon
  <2>2. BitOf(octets[k], j) = PaddedBits(bits, pad, k)[j]
    BY <2>1, <1>3, EightBits, Zenon
  <2>3. QED
    BY <2>2, Zenon DEF PaddedBits
<1>8. QED
  BY <1>6, <1>7, Zenon

LEMMA HeadAndTail ==
    ASSUME NEW x \in Octet, NEW s \in Seq(Octet)
    PROVE  /\ <<x>> \o s \in Seq(Octet)
           /\ <<x>> \o s \in Data
           /\ (<<x>> \o s)[1] = x
           /\ Tail(<<x>> \o s) = s
           /\ After(<<x>> \o s, 1) = s
           /\ Len(<<x>> \o s) = 1 + Len(s)
           /\ <<x>> \o s # << >>
<1>1. <<x>> \in Seq(Octet) /\ Len(<<x>>) = 1 /\ <<x>>[1] = x
  OBVIOUS
<1>2. <<x>> \o s \in Seq(Octet) /\ Len(<<x>> \o s) = 1 + Len(s) /\ (<<x>> \o s)[1] = x
  BY <1>1, Concat
<1>3. <<x>> \o s # << >>
  BY <1>2
<1>4. After(<<x>> \o s, 1) = s
  BY <1>1, AfterOf
<1>5. Tail(<<x>> \o s) = s
  BY <1>2
<1>6. QED
  BY <1>2, <1>3, <1>4, <1>5 DEF Data

(* What begins some data, and lists of data.                               *)
LEMMA DataMore ==
    ASSUME NEW x \in Data, NEW t \in Seq(Octet)
    PROVE  x \o t \in Data /\ (x \o t)[1] = x[1] /\ Len(x \o t) = Len(x) + Len(t)
<1>1. x \in Seq(Octet) /\ Len(x) \in Nat \ {0}
  BY DataIs
<1>2. x \o t \in Seq(Octet) /\ Len(x \o t) = Len(x) + Len(t) /\ (x \o t)[1] = x[1]
  BY <1>1, Concat
<1>3. Len(t) \in Nat
  OBVIOUS
<1>4. x \o t # << >>
  BY <1>1, <1>2, <1>3
<1>5. QED
  BY <1>2, <1>4 DEF Data

LEMMA DataSeqs ==
    ASSUME NEW pieces \in Seq(Data)
    PROVE  pieces \in Seq(Seq(Octet))
<1> DEFINE R == Seq(Octet)
<1>1. Data \subseteq R
  BY DEF Data
<1>2. DOMAIN pieces = 1..Len(pieces) /\ Len(pieces) \in Nat /\ \A i \in 1..Len(pieces) : pieces[i] \in Data
  <2> HIDE DEF R
  <2> QED
    OBVIOUS
<1>3. pieces \in [1..Len(pieces) -> R]
  <2> HIDE DEF R
  <2>1. pieces = [i \in DOMAIN pieces |-> pieces[i]]
    OBVIOUS
  <2>2. QED
    BY <1>1, <1>2, <2>1, Zenon
<1>4. QED
  BY <1>2, <1>3, SeqOfFunction, Zenon

LEMMA FlattenData ==
    ASSUME NEW pieces \in Seq(Data), pieces # << >>
    PROVE  FlattenSeq(pieces) \in Data /\ FlattenSeq(pieces) \in Seq(Octet)
<1> DEFINE x == pieces[1]  others == FlattenSeq(After(pieces, 1))  R == Seq(Octet)
<1>1. pieces \in Seq(R)
  BY DataSeqs
<1>2. 1 \in 1..Len(pieces) /\ x \in Data
  <2> HIDE DEF R
  <2> QED
    OBVIOUS
<1>3. FlattenSeq(pieces) = FlattenSeq(First(pieces, 0)) \o (x \o others)
  <2>1. 1 - 1 = 0
    OBVIOUS
  <2>2. QED
    BY <1>1, <1>2, <2>1, FlattenAround, Zenon
<1>4. First(pieces, 0) = << >>
  BY DEF First
<1>5. After(pieces, 1) \in Seq(R)
  <2> HIDE DEF R
  <2>1. 1 \in Nat
    OBVIOUS
  <2>2. QED
    BY <1>1, <2>1, AfterIn, Zenon
<1>6. others \in Seq(Octet)
  BY <1>5, FlattenIn, Zenon
<1>7. x \o others \in Data
  BY <1>2, <1>6, DataMore, Zenon
<1> HIDE DEF x, others
<1>8. << >> \o (x \o others) = x \o others /\ x \o others \in Seq(Octet)
  BY <1>7 DEF Data
<1>9. FlattenSeq(pieces) = x \o others
  BY <1>3, <1>4, <1>8, FlattenNone, Zenon
<1>10. QED
  BY <1>7, <1>8, <1>9, Zenon

LEMMA EncodedPrefixIs ==
    ASSUME NEW afi, NEW p \in SentPrefixes(afi)
    PROVE  /\ EncodedPrefix(p) \in Data
           /\ EncodedPrefix(p) \in Seq(Octet)
           /\ EncodedPrefix(p)[1] = Len(p.bits)
           /\ Tail(EncodedPrefix(p)) = ToOctets(p.bits, p.pad)
           /\ Len(EncodedPrefix(p)) = 1 + OctetsFor(Len(p.bits))
           /\ Len(p.bits) \in 0..Width(afi)
           /\ p.bits \in Seq({0, 1}) /\ p.pad \in {0, 1}
<1> DEFINE n == Len(p.bits)  octets == ToOctets(p.bits, p.pad)
<1>1. p.bits \in Seq({0, 1}) /\ p.pad \in {0, 1} /\ n <= (IF afi = 2 THEN 128 ELSE 32)
  BY DEF SentPrefixes
<1>0. n \in Nat
  BY <1>1
<1>2. n \in 0..Width(afi) /\ n \in Octet
  <2> HIDE DEF n
  <2> QED
    BY <1>0, <1>1 DEF Width, Octet
<1>3. octets \in Seq(Octet) /\ Len(octets) = OctetsFor(n)
  BY <1>1, ToOctetsIs, Zenon
<1>4. OctetsFor(n) \in Nat
  BY <1>0, OctetsForIs, Zenon
<1>5. EncodedPrefix(p) = <<n>> \o octets
  BY DEF EncodedPrefix
<1> HIDE DEF n, octets
<1>6. /\ <<n>> \o octets \in Seq(Octet)
      /\ (<<n>> \o octets)[1] = n
      /\ Tail(<<n>> \o octets) = octets
      /\ Len(<<n>> \o octets) = 1 + OctetsFor(n)
      /\ <<n>> \o octets # << >>
  BY <1>2, <1>3, <1>4, HeadAndTail, Zenon
<1>7. <<n>> \o octets \in Data
  BY <1>6, Zenon DEF Data
<1>8. QED
  BY <1>1, <1>2, <1>5, <1>6, <1>7 DEF n, octets

LEMMA EncodedPrefixesIs ==
    ASSUME NEW afi, NEW list \in Seq(SentPrefixes(afi))
    PROVE  /\ [i \in DOMAIN list |-> EncodedPrefix(list[i])] \in Seq(Data)
           /\ EncodedPrefixes(list) \in Seq(Octet)
<1> DEFINE n == Len(list)  pieces == [i \in DOMAIN list |-> EncodedPrefix(list[i])]  P == SentPrefixes(afi)
           R == Seq(Octet)
<1>0. list \in Seq(P)
  OBVIOUS
<1>1. n \in Nat /\ DOMAIN list = 1..n /\ \A i \in 1..n : list[i] \in P
  <2> HIDE DEF P
  <2> QED
    BY <1>0
<1>2. pieces \in [1..n -> Data] /\ pieces \in [1..n -> R]
  BY <1>1, EncodedPrefixIs, Zenon
<1>3. pieces \in Seq(Data) /\ pieces \in Seq(R)
  BY <1>1, <1>2, SeqOfFunction, Zenon
<1>4. FlattenSeq(pieces) \in Seq(Octet)
  BY <1>3, FlattenIn, ZenonT(60)
<1>5. QED
  BY <1>3, <1>4, Zenon DEF EncodedPrefixes


-----------------------------------------------------------------------------
(* Values of a component.                                                  *)

Op(values, i) == values[i].symbol + (IF i = Len(values) THEN 128 ELSE 0)
EncodedValue(values, i) ==
    IF values[i].number < 256 THEN <<Op(values, i), values[i].number>>
    ELSE <<Op(values, i) + 16>> \o AsU16(values[i].number)

(* The piece that stands for a value, and what is read from it.            *)
ValueRead(kind, value, final, piece) ==
    /\ piece \in Data
    /\ Len(piece) = 1 + Size(piece[1])
    /\ piece \in Ending <=> final
    /\ Symbol(kind, piece[1]) = value.symbol
    /\ Shown(kind, BigEndian(Tail(piece))) = value.number

LEMMA NumberHalf ==
    ASSUME NEW n, n \in 0..511 \/ n \in 0..63 \/ n \in 0..15
    PROVE  n \in Half
BY SMTT(60) DEF Half

LEMMA HalfNat ==
    ASSUME NEW n \in Half
    PROVE  n \in Nat
BY SMTT(60) DEF Half

LEMMA SmallOctet ==
    ASSUME NEW n \in Half, n < 256
    PROVE  n \in Octet /\ n \in Nat
<1>1. n \in Nat
  BY SMTT(60) DEF Half
<1>2. QED
  BY <1>1 DEF Octet

SymbolFits(kind, s) == s \in 0..7 /\ (kind \in {9, 12} => s \in 0..3)
InFullShown(kind, n) ==
    /\ n \in Half
    /\ kind = 9 => n \in 0..511
    /\ kind = 11 => n \in 0..63
    /\ kind = 12 => n \in 0..15

LEMMA ValueTyped ==
    ASSUME NEW kind, NEW value \in SentValues(kind)
    PROVE  /\ SymbolFits(kind, value.symbol)
           /\ InFullShown(kind, value.number)
<1> DEFINE numbers == CASE kind = 9 -> 0..511
                        [] kind = 11 -> 0..63
                        [] kind = 12 -> 0..15
                        [] OTHER -> Half
<1>1. value.symbol \in 0..(IF kind \in {9, 12} THEN 3 ELSE 7) /\ value.number \in numbers
  BY DEF SentValues
<1>2. value.symbol \in 0..7 /\ (kind \in {9, 12} => value.symbol \in 0..3)
  BY <1>1
<1>3. /\ kind = 9 => numbers = 0..511
      /\ kind = 11 => numbers = 0..63
      /\ kind = 12 => numbers = 0..15
      /\ kind \notin {9, 11, 12} => numbers = Half
  OBVIOUS
<1>4. QED
  <2> HIDE DEF numbers
  <2>0. value.number \in numbers
    BY <1>1
  <2>1. value.number \in Half
    <3>1. CASE kind \notin {9, 11, 12}
      BY <1>1, <1>3, <3>1
    <3>2. CASE kind \in {9, 11, 12}
      <4>1. \/ numbers = 0..511
            \/ numbers = 0..63
            \/ numbers = 0..15
        BY <1>3, <3>2
      <4>2. QED
        BY <2>0, <4>1, NumberHalf
    <3>3. QED
      BY <3>1, <3>2
  <2>2. InFullShown(kind, value.number)
    BY <1>1, <1>3, <2>1 DEF InFullShown
  <2>3. QED
    BY <1>2, <2>2 DEF SymbolFits

EndBit == {0, 128}
SizeBit == {0, 16}
OperatorIs(kind, s, e, w) ==
    /\ s + e + w \in Octet
    /\ Size(s + e + w) = IF w = 0 THEN 1 ELSE 2
    /\ s + e + w >= 128 <=> e = 128
    /\ Symbol(kind, s + e + w) = s

LEMMA OperatorRead ==
    ASSUME NEW kind, NEW s, SymbolFits(kind, s), NEW e \in EndBit, NEW w \in SizeBit
    PROVE  OperatorIs(kind, s, e, w)
<1>0. USE DEF SymbolFits, EndBit, SizeBit
<1> DEFINE op == s + e + w
<1>1. op \in Octet /\ (op >= 128 <=> e = 128)
  BY DEF Octet
<1>2. (op \div 16) % 4 = IF w = 0 THEN 0 ELSE 1
  <2>1. CASE e = 0 /\ w = 0
    BY <2>1
  <2>2. CASE e = 0 /\ w = 16
    BY <2>2
  <2>3. CASE e = 128 /\ w = 0
    BY <2>3
  <2>4. CASE e = 128 /\ w = 16
    BY <2>4
  <2>5. QED
    BY <2>1, <2>2, <2>3, <2>4
<1>3. Size(op) = IF w = 0 THEN 1 ELSE 2
  BY <1>2, Powers DEF Size
<1>4. /\ op % 8 = s
      /\ kind \in {9, 12} => op % 4 = s
  OBVIOUS
<1>5. Symbol(kind, op) = s
  BY <1>4 DEF Symbol, Bitmask
<1>6. QED
  BY <1>1, <1>3, <1>5 DEF OperatorIs

LEMMA NumberShown ==
    ASSUME NEW kind, NEW n, InFullShown(kind, n)
    PROVE  Shown(kind, n) = n
<1>0. USE DEF InFullShown, Half
<1>1. CASE kind = 9
  BY <1>1, SMTT(60) DEF Shown, Bitmask
<1>2. CASE kind = 12
  BY <1>2, SMTT(60) DEF Shown, Bitmask
<1>3. CASE kind = 11
  BY <1>3, SMTT(60) DEF Shown, Bitmask
<1>4. CASE kind \notin {9, 11, 12}
  BY <1>4 DEF Shown, Bitmask
<1>5. QED
  BY <1>1, <1>2, <1>3, <1>4, SMTT(60)

LEMMA PairIs ==
    ASSUME NEW S, NEW a \in S, NEW b \in S
    PROVE  <<a>> \o <<b>> = <<a, b>> /\ <<a, b>> \in Seq(S) /\ Len(<<a, b>>) = 2
<1>1. <<a>> \in Seq(S) /\ <<b>> \in Seq(S) /\ <<a, b>> \in Seq(S)
  OBVIOUS
<1>2. /\ <<a>> \o <<b>> \in Seq(S) /\ Len(<<a>> \o <<b>>) = 2
      /\ (<<a>> \o <<b>>)[1] = a /\ (<<a>> \o <<b>>)[2] = b
  OBVIOUS
<1>3. \A i \in 1..2 : (<<a>> \o <<b>>)[i] = <<a, b>>[i]
  BY <1>2
<1>4. QED
  BY <1>1, <1>2, <1>3, SeqEqual

LEMMA EncodedValueIs ==
    ASSUME NEW kind, NEW values \in Seq(SentValues(kind)), NEW i \in 1..Len(values)
    PROVE  ValueRead(kind, values[i], i = Len(values), EncodedValue(values, i))
<1> DEFINE s == values[i].symbol  n == values[i].number  final == (i = Len(values))
           e == IF final THEN 128 ELSE 0
           piece == EncodedValue(values, i)
           P == SentValues(kind)
<1>0. values[i] \in P
  <2>1. values \in Seq(P) /\ i \in 1..Len(values)
    OBVIOUS
  <2> HIDE DEF P
  <2> QED
    BY <2>1
<1>1. SymbolFits(kind, s) /\ InFullShown(kind, n)
  <2> HIDE DEF s, n
  <2>1. SymbolFits(kind, values[i].symbol) /\ InFullShown(kind, values[i].number)
    BY <1>0, ValueTyped, Zenon
  <2>2. QED
    BY <2>1, Zenon DEF s, n
<1>11. n \in Half
  BY <1>1, Zenon DEF InFullShown
<1>2. e \in EndBit /\ (e = 128 <=> final) /\ final \in BOOLEAN /\ e \in Nat
  BY DEF EndBit
<1>12. e \in EndBit
  BY <1>2, Zenon
<1>3. Shown(kind, n) = n
  BY <1>1, NumberShown, Zenon
<1>4. piece = IF n < 256 THEN <<s + e + 0>> \o <<n>> ELSE <<s + e + 16>> \o AsU16(n)
  <2>1. Op(values, i) = s + e
    BY DEF Op
  <2>2. s + e \in Nat
    <3>1. s \in 0..7
      BY <1>1, Zenon DEF SymbolFits
    <3> HIDE DEF s, e
    <3>2. QED
      BY <1>2, <3>1
  <2>5. n \in Nat
    BY <1>11, HalfNat, Zenon
  <2>3. s + e + 0 = s + e /\ (<<s + e>> \o <<n>>) = <<s + e, n>>
    <3> HIDE DEF s, e, n
    <3>1. s + e + 0 = s + e
      BY <2>2
    <3>2. QED
      BY <3>1, <2>2, <2>5, PairIs, Zenon
  <2>4. QED
    BY <2>1, <2>3, ZenonT(60) DEF EncodedValue
<1> HIDE DEF s, n, e, final, piece
<1>5. ASSUME NEW op \in Octet, NEW rest \in Seq(Octet), Len(rest) = Size(op),
             (op >= 128 <=> final), Symbol(kind, op) = s, piece = <<op>> \o rest, BigEndian(rest) = n
      PROVE  ValueRead(kind, [symbol |-> s, number |-> n], final, piece)
  <2>1. /\ <<op>> \o rest \in Data /\ (<<op>> \o rest)[1] = op /\ Tail(<<op>> \o rest) = rest
        /\ Len(<<op>> \o rest) = 1 + Len(rest)
    BY HeadAndTail, Zenon
  <2>2. piece \in Data /\ piece[1] = op /\ Tail(piece) = rest /\ Len(piece) = 1 + Len(rest)
    BY <1>5, <2>1, Zenon
  <2>3. Len(piece) = 1 + Size(piece[1])
    BY <1>5, <2>2, Zenon
  <2>4. piece \in Ending <=> final
    BY <1>5, <2>2 DEF Ending
  <2>5. QED
    BY <1>3, <1>5, <2>2, <2>3, <2>4 DEF ValueRead
<1>8. OperatorIs(kind, s, e, 0) /\ OperatorIs(kind, s, e, 16)
  <2>1. 0 \in SizeBit /\ 16 \in SizeBit
    BY DEF SizeBit
  <2>2. QED
    BY <1>1, <1>12, <2>1, OperatorRead, Zenon
<1>9. SUFFICES ValueRead(kind, [symbol |-> s, number |-> n], final, piece)
  <2>1. [symbol |-> s, number |-> n].symbol = s /\ [symbol |-> s, number |-> n].number = n
    OBVIOUS
  <2>2. QED
    BY <2>1 DEF ValueRead, s, n, final, piece
<1>6. CASE n < 256
  <2> DEFINE op == s + e + 0
  <2>1. n \in Octet /\ n \in Nat
    BY <1>11, <1>6, SmallOctet, Zenon
  <2>2. <<n>> \in Seq(Octet) /\ Len(<<n>>) = 1 /\ BigEndian(<<n>>) = n
    BY <2>1 DEF BigEndian
  <2>3. piece = <<op>> \o <<n>>
    BY <1>4, <1>6, Zenon
  <2>4. OperatorIs(kind, s, e, 0)
    BY <1>8
  <2>5. /\ op \in Octet /\ Size(op) = 1 /\ Symbol(kind, op) = s
        /\ (op >= 128 <=> final)
    BY <1>2, <2>4 DEF OperatorIs
  <2> HIDE DEF op
  <2>6. Len(<<n>>) = Size(op)
    BY <2>2, <2>5, Zenon
  <2>7. QED
    BY <1>5, <2>2, <2>3, <2>5, <2>6, Zenon
<1>7. CASE ~(n < 256)
  <2> DEFINE op == s + e + 16
  <2>1. AsU16(n) \in Seq(Octet) /\ Len(AsU16(n)) = 2 /\ U16(AsU16(n)) = n
    BY <1>11, HalfOf, SMT
  <2>2. BigEndian(AsU16(n)) = n
    BY <2>1 DEF BigEndian
  <2>3. piece = <<op>> \o AsU16(n)
    BY <1>4, <1>7, Zenon
  <2>4. OperatorIs(kind, s, e, 16)
    BY <1>8
  <2>5. /\ op \in Octet /\ Size(op) = 2 /\ Symbol(kind, op) = s
        /\ (op >= 128 <=> final)
    BY <1>2, <2>4 DEF OperatorIs
  <2> HIDE DEF op
  <2>6. Len(AsU16(n)) = Size(op)
    BY <2>1, <2>5, Zenon
  <2>7. QED
    BY <1>5, <2>1, <2>2, <2>3, <2>5, <2>6, Zenon
<1>10. QED
  BY <1>6, <1>7, Zenon

LEMMA ValueSizeType == ValueSize \in [Data -> Nat \ {0}]
<1>1. ASSUME NEW data \in Data
      PROVE  1 + Size(data[1]) \in Nat \ {0}
  <2>1. data[1] \in Nat
    BY DataIs
  <2>2. (data[1] \div 16) % 4 \in {0, 1, 2, 3}
    BY <2>1
  <2>3. Size(data[1]) \in Nat
    <3> DEFINE w == (data[1] \div 16) % 4
    <3>1. w \in {0, 1, 2, 3}
      BY <2>2
    <3> HIDE DEF w
    <3>2. 2^w = 2^0 \/ 2^w = 2^1 \/ 2^w = 2^2 \/ 2^w = 2^3
      BY <3>1, Zenon
    <3>4. 2^w = 1 \/ 2^w = 2 \/ 2^w = 4 \/ 2^w = 8
      BY <3>2, Powers, ZenonT(60)
    <3> DEFINE v == 2^w
    <3>6. v = 1 \/ v = 2 \/ v = 4 \/ v = 8
      BY <3>4
    <3> HIDE DEF v
    <3>7. v \in Nat
      BY <3>6
    <3>5. 2^w \in Nat
      BY <3>7 DEF v
    <3>3. QED
      BY <3>5 DEF Size, w
  <2>4. QED
    BY <2>3
<1>2. QED
  BY <1>1, Zenon DEF ValueSize

(* Of what follows a list of values nothing is read.                       *)
ValuesOf(kind, values) == [k \in DOMAIN values |-> <<values[k].symbol, values[k].number>>]
ValuesRead(kind, values) ==
    LET data == EncodedValues(values)
        pieces == [i \in DOMAIN values |-> EncodedValue(values, i)]
    IN  /\ data \in Data
        /\ pieces # << >> /\ Last(pieces) \in Ending
        /\ data = FlattenSeq(pieces)
        /\ \A t \in Seq(Octet) : Values(data \o t) = pieces
        /\ Values(data) = pieces
        /\ [i \in DOMAIN pieces |->
               <<Symbol(kind, pieces[i][1]), Shown(kind, BigEndian(Tail(pieces[i])))>>]
             = ValuesOf(kind, values)

LEMMA EncodedValuesRead ==
    ASSUME NEW kind, NEW values \in Seq(SentValues(kind)), values # << >>
    PROVE  ValuesRead(kind, values)
<1> DEFINE n == Len(values)
           pieces == [i \in DOMAIN values |-> EncodedValue(values, i)]
           data == FlattenSeq(pieces)
           P == SentValues(kind)
<1>0. values \in Seq(P)
  OBVIOUS
<1>1. n \in Nat \ {0} /\ DOMAIN values = 1..n
  <2> HIDE DEF P
  <2> QED
    BY <1>0
<1>2. ASSUME NEW i \in 1..n
      PROVE  ValueRead(kind, values[i], i = n, EncodedValue(values, i))
  BY EncodedValueIs, Zenon
<1>3. pieces \in [1..n -> Data]
  BY <1>1, <1>2, Zenon DEF ValueRead
<1>4. pieces \in Seq(Data) /\ Len(pieces) = n
  <2>1. n \in Nat
    BY <1>1
  <2>2. QED
    BY <1>3, <2>1, SeqOfFunction, Zenon
<1>5. ASSUME NEW i \in 1..n
      PROVE  ValueRead(kind, values[i], i = n, pieces[i])
  BY <1>1, <1>2, Zenon
<1>6. data = EncodedValues(values)
  BY DEF EncodedValues, EncodedValue, Op
<1> HIDE DEF pieces
<1>7. Sized(pieces, ValueSize)
  <2>1. SUFFICES ASSUME NEW i \in 1..n, NEW t \in Seq(Octet)
                 PROVE  ValueSize[pieces[i] \o t] = Len(pieces[i])
    BY <1>4 DEF Sized
  <2>2. pieces[i] \in Data /\ Len(pieces[i]) = 1 + Size(pieces[i][1])
    BY <1>5 DEF ValueRead
  <2>3. pieces[i] \o t \in Data /\ (pieces[i] \o t)[1] = pieces[i][1]
    BY <2>2, DataMore, Zenon
  <2>4. ValueSize[pieces[i] \o t] = 1 + Size((pieces[i] \o t)[1])
    BY <2>3, Zenon DEF ValueSize
  <2>5. QED
    BY <2>2, <2>3, <2>4, Zenon
<1>8. \A i \in 1..(Len(pieces) - 1) : pieces[i] \notin Ending
  <2>1. ASSUME NEW i \in 1..(n - 1)
        PROVE  i \in 1..n /\ i # n
    <3>1. n \in Nat \ {0}
      BY <1>1
    <3> HIDE DEF n
    <3>2. QED
      BY <3>1
  <2>2. QED
    BY <1>4, <1>5, <2>1, Zenon DEF ValueRead
<1>9. pieces # << >> /\ pieces[Len(pieces)] \in Ending /\ Last(pieces) \in Ending
  <2>1. n \in 1..n
    BY <1>1
  <2>2. pieces[n] \in Ending
    BY <1>5, <2>1, Zenon DEF ValueRead
  <2>3. pieces # << >>
    BY <1>1, <1>4
  <2>4. QED
    BY <1>4, <2>2, <2>3 DEF Last
<1>10. ASSUME NEW t \in Seq(Octet)
       PROVE  Values(data \o t) = pieces
  BY <1>4, <1>7, <1>8, <1>9, ValueSizeType, ItemsOf, Zenon DEF Values
<1>11. data \in Data /\ data \in Seq(Octet)
  <2>1. pieces \in Seq(Seq(Octet)) /\ pieces # << >>
    BY <1>4, <1>9, DataSeqs, Zenon
  <2>2. pieces[1] \in Data
    BY <1>1, <1>3 DEF pieces
  <2>3. QED
    BY <1>4, <1>9, FlattenData, Zenon
<1>12. Values(data) = pieces
  <2>1. << >> \in Seq(Octet) /\ data \o << >> = data
    BY <1>11
  <2>2. QED
    BY <1>10, <2>1, Zenon
<1>13. [i \in DOMAIN pieces |->
               <<Symbol(kind, pieces[i][1]), Shown(kind, BigEndian(Tail(pieces[i])))>>]
             = ValuesOf(kind, values)
  <2>1. DOMAIN pieces = 1..n
    BY <1>3, Zenon DEF pieces
  <2>2. ASSUME NEW i \in 1..n
        PROVE  /\ Symbol(kind, pieces[i][1]) = values[i].symbol
               /\ Shown(kind, BigEndian(Tail(pieces[i]))) = values[i].number
    BY <1>5, Zenon DEF ValueRead
  <2>3. QED
    BY <1>1, <2>1, <2>2, Zenon DEF ValuesOf
<1>14. QED
  BY <1>6, <1>9, <1>10, <1>11, <1>12, <1>13, Zenon DEF ValuesRead, pieces


-----------------------------------------------------------------------------
(* A message has at most 4096 octets, and so has every part of it: the     *)
(* lengths in front of its parts are octets too.                           *)
Largest == 4096 - 19
Sendable(x) == x \in Seq(Nat) /\ (Len(x) <= Largest => x \in Seq(Octet))

LEMMA OctetsSendable ==
    ASSUME NEW x \in Seq(Octet)
    PROVE  Sendable(x)
<1>1. Octet \subseteq Nat
  BY DEF Octet
<1>2. x \in Seq(Nat)
  <2>1. Len(x) \in Nat /\ x = [i \in 1..Len(x) |-> x[i]]
    OBVIOUS
  <2>2. \A i \in 1..Len(x) : x[i] \in Nat
    BY OctetIn, Zenon
  <2>3. x \in [1..Len(x) -> Nat]
    BY <2>1, <2>2, Zenon
  <2>4. QED
    BY <2>1, <2>3, SeqOfFunction, Zenon
<1>3. QED
  BY <1>2 DEF Sendable

LEMMA ConcatNat ==
    ASSUME NEW x \in Seq(Nat), NEW y \in Seq(Nat)
    PROVE  x \o y \in Seq(Nat) /\ Len(x \o y) = Len(x) + Len(y) /\ Len(x) \in Nat /\ Len(y) \in Nat
OBVIOUS

LEMMA ConcatSendable ==
    ASSUME NEW x, NEW y, Sendable(x), Sendable(y)
    PROVE  Sendable(x \o y)
<1>1. x \in Seq(Nat) /\ y \in Seq(Nat)
  BY Zenon DEF Sendable
<1>2. x \o y \in Seq(Nat) /\ Len(x \o y) = Len(x) + Len(y) /\ Len(x) \in Nat /\ Len(y) \in Nat
  BY <1>1, ConcatNat, Zenon
<1>3. ASSUME Len(x \o y) <= Largest
      PROVE  x \o y \in Seq(Octet)
  <2> DEFINE l == Len(x)  m == Len(y)  k == Len(x \o y)
  <2>1. l \in Nat /\ m \in Nat /\ k = l + m /\ k <= Largest /\ Largest \in Nat
    BY <1>2, <1>3 DEF Largest
  <2> HIDE DEF l, m, k
  <2>2. l <= Largest /\ m <= Largest
    BY <2>1
  <2>3. x \in Seq(Octet) /\ y \in Seq(Octet)
    BY <2>2, Zenon DEF Sendable, l, m
  <2>4. QED
    BY <2>3, Concat, Zenon
<1>4. QED
  BY <1>2, <1>3, Zenon DEF Sendable

(* A piece of a list is not longer than the list.                          *)
LEMMA PieceShorter ==
    ASSUME NEW pieces \in Seq(Seq(Nat)), NEW i \in 1..Len(pieces)
    PROVE  /\ FlattenSeq(pieces) \in Seq(Nat)
           /\ Len(pieces[i]) \in Nat /\ Len(FlattenSeq(pieces)) \in Nat
           /\ Len(pieces[i]) <= Len(FlattenSeq(pieces))
<1> DEFINE R == Seq(Nat)
           before == FlattenSeq(First(pieces, i - 1))
           after == FlattenSeq(After(pieces, i))
           x == pieces[i]
<1>1. pieces \in Seq(R) /\ i \in 1..Len(pieces)
  OBVIOUS
<1>2. First(pieces, i - 1) \in Seq(R) /\ After(pieces, i) \in Seq(R) /\ x \in R
  <2> HIDE DEF R
  <2>1. i - 1 \in 0..Len(pieces) /\ i \in 0..Len(pieces)
    BY <1>1
  <2>2. First(pieces, i - 1) \in Seq(R) /\ After(pieces, i) \in Seq(R)
    BY <1>1, <2>1, Cut, Zenon
  <2>3. QED
    BY <1>1, <2>2
<1>3. before \in Seq(Nat) /\ after \in Seq(Nat) /\ x \in Seq(Nat)
  BY <1>2, FlattenIn, Zenon
<1>4. FlattenSeq(pieces) = before \o (x \o after)
  BY <1>1, FlattenAround, Zenon
<1> HIDE DEF before, after, x
<1>5. x \o after \in Seq(Nat) /\ Len(x \o after) = Len(x) + Len(after) /\ Len(x) \in Nat /\ Len(after) \in Nat
  BY <1>3, ConcatNat, Zenon
<1>6. before \o (x \o after) \in Seq(Nat)
      /\ Len(before \o (x \o after)) = Len(before) + Len(x \o after) /\ Len(before) \in Nat
  BY <1>3, <1>5, ConcatNat, Zenon
<1> DEFINE l == Len(x)  m == Len(after)  b == Len(before)  k == Len(FlattenSeq(pieces))
<1>7. l \in Nat /\ m \in Nat /\ b \in Nat /\ k = b + (l + m)
  BY <1>4, <1>5, <1>6, Zenon
<1> HIDE DEF l, m, b, k
<1>8. l <= k /\ k \in Nat
  BY <1>7
<1>9. FlattenSeq(pieces) \in Seq(Nat)
  BY <1>4, <1>6, Zenon
<1>10. QED
  BY <1>7, <1>8, <1>9, Zenon DEF l, k, x

LEMMA FlattenSendable ==
    ASSUME NEW N \in Nat, NEW f, DOMAIN f = 1..N, \A i \in 1..N : Sendable(f[i]), f = [i \in 1..N |-> f[i]]
    PROVE  Sendable(FlattenSeq(f))
<1> DEFINE R == Seq(Nat)  Q == Seq(Octet)
<1>1. f \in [1..N -> R]
  BY Zenon DEF Sendable
<1>2. f \in Seq(R) /\ Len(f) = N
  BY <1>1, SeqOfFunction, Zenon
<1>3. FlattenSeq(f) \in Seq(Nat)
  BY <1>2, FlattenIn, Zenon
<1>4. ASSUME Len(FlattenSeq(f)) <= Largest
      PROVE  FlattenSeq(f) \in Seq(Octet)
  <2>1. ASSUME NEW i \in 1..N
        PROVE  f[i] \in Q
    <3> DEFINE l == Len(f[i])  k == Len(FlattenSeq(f))
    <3>1. l \in Nat /\ k \in Nat /\ l <= k
      BY <1>2, PieceShorter, Zenon
    <3>2. k <= Largest /\ Largest \in Nat
      BY <1>4 DEF Largest
    <3> HIDE DEF l, k
    <3>3. l <= Largest
      BY <3>1, <3>2
    <3>4. QED
      BY <3>3, Zenon DEF Sendable, l
  <2>2. f \in [1..N -> Q]
    BY <2>1, Zenon
  <2>3. f \in Seq(Q)
    BY <2>2, SeqOfFunction, Zenon
  <2>4. QED
    BY <2>3, FlattenIn, Zenon
<1>5. QED
  BY <1>3, <1>4, Zenon DEF Sendable

LEMMA EncodedComponentIs ==
    ASSUME NEW afi, NEW c, IsComponent(c, afi)
    PROVE  EncodedComponent(c) \in Data /\ EncodedComponent(c) \in Seq(Octet) /\ c.kind \in Octet
<1>1. CASE c.kind \in {1, 2}
  <2>1. c.kind \in Octet
    BY <1>1 DEF Octet
  <2>2. EncodedPrefix(c.prefix) \in Seq(Octet)
    BY <1>1, EncodedPrefixIs, Zenon DEF IsComponent
  <2>3. EncodedComponent(c) = <<c.kind>> \o EncodedPrefix(c.prefix)
    BY <1>1, Zenon DEF EncodedComponent
  <2>4. QED
    BY <2>1, <2>2, <2>3, HeadAndTail, Zenon
<1>2. CASE c.kind \notin {1, 2}
  <2>1. c.kind \in 3..255 /\ c.values \in Seq(SentValues(c.kind)) /\ c.values # << >>
    BY <1>2, Zenon DEF IsComponent
  <2>2. c.kind \in Octet
    BY <2>1 DEF Octet
  <2>3. EncodedValues(c.values) \in Seq(Octet)
    BY <2>1, EncodedValuesRead, DataIs, Zenon DEF ValuesRead
  <2>4. EncodedComponent(c) = <<c.kind>> \o EncodedValues(c.values)
    BY <1>2, Zenon DEF EncodedComponent
  <2>5. QED
    BY <2>2, <2>3, <2>4, HeadAndTail, Zenon
<1>3. QED
  BY <1>1, <1>2, Zenon


(* A length in front, in two octets.                                       *)
LEMMA U16In ==
    ASSUME NEW n \in Nat
    PROVE  AsU16(n) \in Seq(Nat) /\ Len(AsU16(n)) = 2
<1>1. n \div 256 \in Nat /\ n % 256 \in Nat
  OBVIOUS
<1>2. QED
  BY <1>1 DEF AsU16

LEMMA LengthHalf ==
    ASSUME NEW n \in Nat, n <= Largest
    PROVE  n \in Half
<1> DEFINE top == 65535
<1>1. n <= top /\ top \in Int
  BY DEF Largest
<1>2. Half = 0..top
  BY DEF Half
<1> HIDE DEF top
<1>3. n \in 0..top
  BY <1>1
<1>4. QED
  BY <1>2, <1>3, Zenon

LEMMA LengthSendable ==
    ASSUME NEW x, Sendable(x)
    PROVE  Sendable(AsU16(Len(x)) \o x)
<1> DEFINE n == Len(x)  a == AsU16(n)
<1>1. x \in Seq(Nat)
  BY Zenon DEF Sendable
<1>2. n \in Nat
  BY <1>1
<1>3. a \in Seq(Nat) /\ Len(a) = 2
  BY <1>2, U16In, Zenon
<1>4. a \o x \in Seq(Nat) /\ Len(a \o x) = Len(a) + Len(x)
  BY <1>1, <1>3, ConcatNat, Zenon
<1>5. ASSUME Len(a \o x) <= Largest
      PROVE  a \o x \in Seq(Octet)
  <2>1. n <= Largest
    <3> DEFINE k == Len(a \o x)
    <3>1. k = 2 + n /\ k <= Largest /\ Largest \in Nat
      BY <1>3, <1>4, <1>5 DEF Largest
    <3> HIDE DEF k, n
    <3>2. QED
      BY <1>2, <3>1
  <2>2. x \in Seq(Octet)
    BY <2>1, Zenon DEF Sendable
  <2>3. n \in Half
    BY <1>2, <2>1, LengthHalf, Zenon
  <2>4. a \in Seq(Octet)
    BY <2>3, HalfOf, ZenonT(60)
  <2>5. QED
    BY <2>2, <2>4, Concat, Zenon
<1>6. QED
  BY <1>4, <1>5, Zenon DEF Sendable

(* The length of a rule is below 4096, so its first octet is one.          *)
RuleHead(n) == IF n < 240 THEN <<n>> ELSE <<240 + n \div 256, n % 256>>

LEMMA RuleHeadIs ==
    ASSUME NEW n \in Nat
    PROVE  /\ RuleHead(n) \in Seq(Nat)
           /\ Len(RuleHead(n)) \in {1, 2}
           /\ n <= Largest => RuleHead(n) \in Seq(Octet)
<1>1. CASE n < 240
  <2>1. n \in Octet
    BY <1>1 DEF Octet
  <2>2. RuleHead(n) = <<n>>
    BY <1>1 DEF RuleHead
  <2>3. QED
    BY <2>1, <2>2
<1>2. CASE ~(n < 240)
  <2> DEFINE a == 240 + n \div 256  b == n % 256
  <2>1. a \in Nat /\ b \in Nat
    OBVIOUS
  <2>2. n <= Largest => a \in Octet /\ b \in Octet
    BY DEF Octet, Largest
  <2>3. RuleHead(n) = <<a, b>>
    BY <1>2 DEF RuleHead
  <2> HIDE DEF a, b
  <2>4. <<a, b>> \in Seq(Nat) /\ Len(<<a, b>>) = 2
    BY <2>1
  <2>5. n <= Largest => <<a, b>> \in Seq(Octet)
    BY <2>2
  <2>6. QED
    BY <2>3, <2>4, <2>5
<1>3. QED
  BY <1>1, <1>2

RuleBody(rule) == FlattenSeq([i \in DOMAIN rule |-> EncodedComponent(rule[i])])

LEMMA EncodedRuleIs ==
    ASSUME NEW rule
    PROVE  EncodedRule(rule) = RuleHead(Len(RuleBody(rule))) \o RuleBody(rule)
BY Zenon DEF EncodedRule, RuleHead, RuleBody

LEMMA RulePieces ==
    ASSUME NEW afi, NEW rule, IsRule(rule, afi)
    PROVE  /\ Len(rule) \in Nat /\ DOMAIN rule = 1..Len(rule)
           /\ \A i \in 1..Len(rule) : IsComponent(rule[i], afi)
           /\ [i \in DOMAIN rule |-> EncodedComponent(rule[i])] \in Seq(Data)
           /\ RuleBody(rule) \in Seq(Octet)
<1> DEFINE n == Len(rule)  pieces == [i \in DOMAIN rule |-> EncodedComponent(rule[i])]  S == Range(rule)
           R == Seq(Octet)
<1>1. rule \in Seq(S)
  BY DEF IsRule
<1>2. n \in Nat /\ DOMAIN rule = 1..n
  <2> HIDE DEF S
  <2> QED
    BY <1>1
<1>3. \A i \in 1..n : IsComponent(rule[i], afi)
  BY <1>2, Zenon DEF IsRule
<1>4. pieces \in [1..n -> Data] /\ pieces \in [1..n -> R]
  BY <1>2, <1>3, EncodedComponentIs, Zenon
<1>5. pieces \in Seq(Data) /\ pieces \in Seq(R)
  BY <1>2, <1>4, SeqOfFunction, Zenon
<1>6. RuleBody(rule) \in Seq(Octet)
  BY <1>5, FlattenIn, Zenon DEF RuleBody
<1>7. QED
  BY <1>2, <1>3, <1>5, <1>6, Zenon

LEMMA EncodedRuleSendable ==
    ASSUME NEW afi, NEW rule, IsRule(rule, afi)
    PROVE  Sendable(EncodedRule(rule))
<1> DEFINE body == RuleBody(rule)  n == Len(body)  head == RuleHead(n)
<1>1. body \in Seq(Octet)
  BY RulePieces, Zenon
<1>2. n \in Nat
  BY <1>1
<1>3. head \in Seq(Nat) /\ (n <= Largest => head \in Seq(Octet)) /\ Len(head) \in Nat
  <2> HIDE DEF n
  <2>1. head \in Seq(Nat) /\ (n <= Largest => head \in Seq(Octet))
    BY <1>2, RuleHeadIs, Zenon
  <2> HIDE DEF head
  <2>2. QED
    BY <2>1
<1>4. body \in Seq(Nat)
  BY <1>1, OctetsSendable, Zenon DEF Sendable
<1>5. head \o body \in Seq(Nat) /\ Len(head \o body) = Len(head) + n
  BY <1>3, <1>4, ConcatNat, Zenon
<1>6. ASSUME Len(head \o body) <= Largest
      PROVE  head \o body \in Seq(Octet)
  <2> DEFINE k == Len(head \o body)  h == Len(head)
  <2>1. k = h + n /\ k <= Largest /\ Largest \in Nat /\ h \in Nat
    BY <1>3, <1>5, <1>6 DEF Largest
  <2> HIDE DEF k, h, n
  <2>2. n <= Largest
    BY <1>2, <2>1
  <2>3. head \in Seq(Octet)
    BY <1>3, <2>2, Zenon
  <2>4. QED
    BY <1>1, <2>3, Concat, Zenon DEF n
<1>7. QED
  BY <1>5, <1>6, EncodedRuleIs, Zenon DEF Sendable

LEMMA EncodedRoutesSendable ==
    ASSUME NEW family, NEW routes, AreRoutes(routes, family)
    PROVE  Sendable(EncodedRoutes(family, routes))
<1>1. CASE family[2] = 133
  <2> DEFINE S == Range(routes)  n == Len(routes)
             f == [i \in DOMAIN routes |-> EncodedRule(routes[i])]
  <2>1. routes \in Seq(S) /\ \A i \in DOMAIN routes : IsRule(routes[i], family[1])
    BY <1>1, Zenon DEF AreRoutes
  <2>2. n \in Nat /\ DOMAIN routes = 1..n
    <3> HIDE DEF S
    <3> QED
      BY <2>1
  <2>3. \A i \in 1..n : Sendable(f[i])
    BY <2>1, <2>2, EncodedRuleSendable, Zenon
  <2>4. DOMAIN f = 1..n /\ f = [i \in 1..n |-> f[i]]
    BY <2>2, Zenon
  <2> HIDE DEF n
  <2>5. Sendable(FlattenSeq(f))
    BY <2>2, <2>3, <2>4, FlattenSendable, Zenon
  <2>6. QED
    BY <1>1, <2>5, Zenon DEF EncodedRoutes
<1>2. CASE family[2] # 133
  <2>1. routes \in Seq(SentPrefixes(family[1]))
    BY <1>2, Zenon DEF AreRoutes
  <2>2. EncodedPrefixes(routes) \in Seq(Octet)
    BY <2>1, EncodedPrefixesIs, Zenon
  <2>3. QED
    BY <1>2, <2>2, OctetsSendable, Zenon DEF EncodedRoutes
<1>3. QED
  BY <1>1, <1>2, Zenon


-----------------------------------------------------------------------------
(* Paths.                                                                  *)

AsnOctets(asn, w) == IF w = 4 THEN AsU16(asn[1]) \o AsU16(asn[2]) ELSE AsU16(Two(asn))
AsnRead(octets, w) == IF w = 2 THEN <<0, U16(octets)>> ELSE <<U16(octets), U16(After(octets, 2))>>
AsRead(asn, w) == IF w = 2 THEN <<0, Two(asn)>> ELSE asn

LEMMA TwoIs ==
    ASSUME NEW asn \in Asn
    PROVE  Two(asn) \in Half /\ asn[1] \in Half /\ asn[2] \in Half /\ asn = <<asn[1], asn[2]>>
<1>1. asn[1] \in Half /\ asn[2] \in Half /\ asn = <<asn[1], asn[2]>>
  BY DEF Asn
<1>2. 23456 \in Half
  BY DEF Half
<1>3. Two(asn) = 23456 \/ Two(asn) = asn[2]
  BY DEF Two
<1>4. QED
  BY <1>1, <1>2, <1>3

LEMMA AsnIs ==
    ASSUME NEW asn \in Asn, NEW w \in {2, 4}
    PROVE  /\ AsnOctets(asn, w) \in Seq(Octet)
           /\ Len(AsnOctets(asn, w)) = w
           /\ AsRead(asn, w) \in Asn
           /\ \A t \in Seq(Octet) : AsnRead(AsnOctets(asn, w) \o t, w) = AsRead(asn, w)
<1> DEFINE a == AsU16(asn[1])  b == AsU16(asn[2])  c == AsU16(Two(asn))
<1>1. Two(asn) \in Half /\ asn[1] \in Half /\ asn[2] \in Half /\ asn = <<asn[1], asn[2]>>
  BY TwoIs, Zenon
<1>2. /\ a \in Seq(Octet) /\ Len(a) = 2
      /\ b \in Seq(Octet) /\ Len(b) = 2
      /\ c \in Seq(Octet) /\ Len(c) = 2
  <2>1. \A n \in Half : AsU16(n) \in Seq(Octet) /\ Len(AsU16(n)) = 2
    BY HalfOf, ZenonT(60)
  <2>2. QED
    BY <1>1, <2>1, Zenon
<1>3. CASE w = 2
  <2>1. AsnOctets(asn, w) = c
    BY <1>3 DEF AsnOctets
  <2>2. AsRead(asn, w) = <<0, Two(asn)>>
    BY <1>3 DEF AsRead
  <2>3. AsRead(asn, w) \in Asn
    <3>1. 0 \in Half
      BY DEF Half
    <3>2. QED
      BY <1>1, <2>2, <3>1 DEF Asn
  <2>4. ASSUME NEW t \in Seq(Octet)
        PROVE  AsnRead(c \o t, w) = <<0, Two(asn)>>
    <3>1. U16(c \o t) = Two(asn)
      BY <1>1, HalfRead, Zenon
    <3>2. QED
      BY <1>3, <3>1, Zenon DEF AsnRead
  <2>5. QED
    BY <1>2, <1>3, <2>1, <2>2, <2>3, <2>4, Zenon
<1>4. CASE w = 4
  <2>0. w # 2
    BY <1>4
  <2>1. AsnOctets(asn, w) = a \o b
    BY <1>4 DEF AsnOctets
  <2>2. AsRead(asn, w) = asn
    BY <2>0, Zenon DEF AsRead
  <2>3. a \o b \in Seq(Octet) /\ Len(a \o b) = w
    <3>1. a \o b \in Seq(Octet) /\ Len(a \o b) = Len(a) + Len(b)
      BY <1>2, Concat, Zenon
    <3> HIDE DEF a, b
    <3>2. QED
      BY <1>2, <1>4, <3>1
  <2>4. ASSUME NEW t \in Seq(Octet)
        PROVE  AsnRead((a \o b) \o t, w) = asn
    <3>1. (a \o b) \o t = a \o (b \o t)
      BY <1>2, Joined, ZenonT(60)
    <3>2. b \o t \in Seq(Octet)
      BY <1>2, Concat, Zenon
    <3>3. U16(a \o (b \o t)) = asn[1]
      BY <1>1, <3>2, HalfRead, Zenon
    <3>4. After(a \o (b \o t), 2) = b \o t
      <4>1. After(a \o (b \o t), Len(a)) = b \o t
        BY <1>2, <3>2, AfterOf, Zenon
      <4>2. QED
        BY <1>2, <4>1, Zenon
    <3>5. U16(b \o t) = asn[2]
      BY <1>1, HalfRead, Zenon
    <3>6. AsnRead(a \o (b \o t), w) = <<asn[1], asn[2]>>
      BY <2>0, <3>3, <3>4, <3>5, Zenon DEF AsnRead
    <3>7. QED
      BY <1>1, <3>1, <3>6, Zenon
  <2>5. QED
    BY <2>1, <2>2, <2>3, <2>4, Zenon
<1>5. QED
  BY <1>3, <1>4

(* A segment of one AS number or two.                                      *)
Segment(s, w) == <<2, Len(s)>> \o FlattenSeq([i \in DOMAIN s |-> AsnOctets(s[i], w)])
Asns(item, w) == [i \in 1..item[2] |-> AsnRead(After(item, 2 + w * (i - 1)), w)]
AsnsRead(s, w) == [i \in DOMAIN s |-> AsRead(s[i], w)]

SegmentRead(s, w) ==
    /\ Segment(s, w) \in Data
    /\ \A t \in Seq(Octet) : SegmentSize(w)[Segment(s, w) \o t] = Len(Segment(s, w))
    /\ Asns(Segment(s, w), w) = AsnsRead(s, w)
    /\ AsnsRead(s, w) \in Seq(Asn)

LEMMA ShortList ==
    ASSUME NEW f, NEW a, NEW b
    PROVE  /\ DOMAIN f = {1} /\ f = [i \in {1} |-> f[i]] => f = <<f[1]>>
           /\ [i \in 1..1 |-> a] = <<a>>
           /\ [i \in 1..2 |-> IF i = 1 THEN a ELSE b] = <<a, b>>
OBVIOUS

LEMMA HeadTwo ==
    ASSUME NEW x \in Octet, NEW y \in Octet, NEW s \in Seq(Octet)
    PROVE  /\ <<x, y>> \o s \in Seq(Octet)
           /\ <<x, y>> \o s \in Data
           /\ (<<x, y>> \o s)[1] = x /\ (<<x, y>> \o s)[2] = y
           /\ After(<<x, y>> \o s, 2) = s
           /\ Len(<<x, y>> \o s) = 2 + Len(s)
<1> DEFINE h == <<x, y>>
<1>1. h \in Seq(Octet) /\ Len(h) = 2 /\ h[1] = x /\ h[2] = y
  OBVIOUS
<1> HIDE DEF h
<1>2. h \o s \in Seq(Octet) /\ Len(h \o s) = 2 + Len(s) /\ (h \o s)[1] = x /\ (h \o s)[2] = y
  <2>1. h \o s \in Seq(Octet) /\ Len(h \o s) = Len(h) + Len(s)
    BY <1>1, Concat, Zenon
  <2>2. 1 \in 1..Len(h) /\ 2 \in 1..Len(h)
    BY <1>1
  <2>3. (h \o s)[1] = h[1] /\ (h \o s)[2] = h[2]
    BY <1>1, <2>2, Concat, ZenonT(60)
  <2>4. QED
    BY <1>1, <2>1, <2>3
<1>3. h \o s # << >>
  BY <1>2
<1>4. After(h \o s, 2) = s
  <2>1. After(h \o s, Len(h)) = s
    BY <1>1, AfterOf, Zenon
  <2>2. QED
    BY <1>1, <2>1, Zenon
<1>5. QED
  BY <1>2, <1>3, <1>4 DEF Data, h


LEMMA AfterAt ==
    ASSUME NEW S, NEW s \in Seq(S), NEW a \in Nat, NEW i \in 1..Len(After(s, a))
    PROVE  After(s, a)[i] = s[a + i]
<1>1. Len(After(s, a)) = IF a <= Len(s) THEN Len(s) - a ELSE 0
  BY AfterIn, Zenon
<1>2. a <= Len(s)
  <2>1. 1 <= Len(After(s, a))
    BY <1>1
  <2>2. QED
    BY <1>1, <2>1
<1>3. a \in 0..Len(s)
  BY <1>2
<1>4. i \in 1..(Len(s) - a)
  BY <1>1, <1>2
<1>5. QED
  BY <1>3, <1>4, Cut, Zenon

LEMMA AfterAfter ==
    ASSUME NEW S, NEW s \in Seq(S), NEW a \in Nat, NEW b \in Nat
    PROVE  After(After(s, a), b) = After(s, a + b)
<1> DEFINE u == After(s, a)  v == After(u, b)  z == After(s, a + b)  n == Len(s)
<1>1. n \in Nat
  OBVIOUS
<1>2. u \in Seq(S) /\ Len(u) = (IF a <= n THEN n - a ELSE 0)
  BY AfterIn, Zenon
<1>3. v \in Seq(S) /\ Len(v) = (IF b <= Len(u) THEN Len(u) - b ELSE 0)
  BY <1>2, AfterIn, Zenon
<1>4. a + b \in Nat
  OBVIOUS
<1>5. z \in Seq(S) /\ Len(z) = (IF a + b <= n THEN n - (a + b) ELSE 0)
  BY <1>4, AfterIn, Zenon
<1>6. \A i \in 1..Len(u) : u[i] = s[a + i]
  BY AfterAt, Zenon
<1>7. \A i \in 1..Len(v) : v[i] = u[b + i]
  BY <1>2, AfterAt, Zenon
<1>8. \A i \in 1..Len(z) : z[i] = s[a + b + i]
  BY <1>4, AfterAt, Zenon
<1> HIDE DEF u, v, z, n
<1>9. Len(v) = Len(z)
  BY <1>1, <1>2, <1>3, <1>5
<1>10. ASSUME NEW i \in 1..Len(v)
       PROVE  v[i] = z[i]
  <2>1. b + i \in 1..Len(u) /\ a + (b + i) = a + b + i
    BY <1>1, <1>2, <1>3
  <2>2. v[i] = u[b + i] /\ u[b + i] = s[a + (b + i)]
    BY <1>6, <1>7, <2>1, Zenon
  <2>3. z[i] = s[a + b + i]
    BY <1>8, <1>9, Zenon
  <2>4. QED
    BY <2>1, <2>2, <2>3, Zenon
<1>11. v = z
  BY <1>3, <1>5, <1>9, <1>10, SeqEqual
<1>12. QED
  BY <1>11 DEF u, v, z

LEMMA SegmentIs ==
    ASSUME NEW w \in {2, 4}, NEW n \in {1, 2}, NEW s \in [1..n -> Asn],
           NEW x \in Seq(Octet), Len(x) = w * n,
           x = FlattenSeq([i \in DOMAIN s |-> AsnOctets(s[i], w)]),
           \A i \in 1..n : AsnRead(After(x, w * (i - 1)), w) = AsRead(s[i], w)
    PROVE  SegmentRead(s, w)
<1> DEFINE data == <<2, n>> \o x
<1>1. n \in Nat /\ n \in Octet /\ 2 \in Octet
  BY DEF Octet
<1>2. s \in Seq(Asn) /\ Len(s) = n /\ DOMAIN s = 1..n
  BY <1>1, SeqOfFunction, Zenon
<1>3. Segment(s, w) = data
  BY <1>2, Zenon DEF Segment
<1>4. /\ data \in Seq(Octet) /\ data \in Data /\ data[2] = n /\ After(data, 2) = x
      /\ Len(data) = 2 + Len(x)
  BY <1>1, HeadTwo, SMT
<1>5. ASSUME NEW t \in Seq(Octet)
      PROVE  SegmentSize(w)[data \o t] = Len(data)
  <2>1. data \o t \in Data
    BY <1>4, DataMore, Zenon
  <2>2. Len(data \o t) = Len(data) + Len(t) /\ (data \o t)[2] = n
    <3>1. 2 \in 1..Len(data)
      <4> HIDE DEF data
      <4> QED
        BY <1>4
    <3>2. Len(data \o t) = Len(data) + Len(t) /\ (data \o t)[2] = data[2]
      <4>1. data \in Seq(Octet)
        BY <1>4
      <4> HIDE DEF data
      <4>2. QED
        BY <4>1, <3>1, Concat, ZenonT(60)
    <3>3. QED
      BY <1>4, <3>2, Zenon
  <2>3. ~Short(data \o t, 2)
    <3> HIDE DEF data
    <3>1. Len(t) \in Nat /\ Len(x) \in Nat
      OBVIOUS
    <3>2. QED
      BY <1>4, <2>2, <3>1 DEF Short
  <2>4. SegmentSize(w)[data \o t] = 2 + w * n
    BY <2>1, <2>2, <2>3, Zenon DEF SegmentSize
  <2>5. QED
    BY <1>4, <2>4, Zenon
<1>6. Asns(data, w) = AsnsRead(s, w)
  <2>1. ASSUME NEW i \in 1..n
        PROVE  AsnRead(After(data, 2 + w * (i - 1)), w) = AsRead(s[i], w)
    <3>1. w * (i - 1) \in Nat /\ 2 \in Nat
      <4>1. i = 1 \/ i = 2
        OBVIOUS
      <4>2. QED
        BY <4>1
    <3>2. After(data, 2 + w * (i - 1)) = After(x, w * (i - 1))
      <4> DEFINE p == w * (i - 1)
      <4>1. data \in Seq(Octet) /\ p \in Nat /\ 2 \in Nat
        BY <1>4, <3>1, Zenon
      <4> HIDE DEF data, p
      <4>2. After(After(data, 2), p) = After(data, 2 + p)
        BY <4>1, AfterAfter, Zenon
      <4>3. QED
        BY <1>4, <4>2, Zenon DEF p
    <3>3. QED
      BY <3>2, Zenon
  <2>2. QED
    BY <1>2, <1>4, <2>1, Zenon DEF Asns, AsnsRead
<1>7. AsnsRead(s, w) \in Seq(Asn)
  <2>1. AsnsRead(s, w) \in [1..n -> Asn]
    BY <1>2, AsnIs, Zenon DEF AsnsRead
  <2>2. QED
    BY <1>1, <2>1, SeqOfFunction, Zenon
<1>8. QED
  BY <1>3, <1>4, <1>5, <1>6, <1>7, Zenon DEF SegmentRead

LEMMA AfterNone ==
    ASSUME NEW x \in Seq(Octet)
    PROVE  After(x, 0) = x /\ x \o << >> = x /\ << >> \in Seq(Octet)
<1>1. << >> \in Seq(Octet) /\ Len(<< >>) = 0
  OBVIOUS
<1>2. << >> \o x = x /\ x \o << >> = x
  OBVIOUS
<1>3. After(<< >> \o x, Len(<< >>)) = x
  BY <1>1, AfterOf, Zenon
<1>4. QED
  BY <1>1, <1>2, <1>3, Zenon

LEMMA SegmentOne ==
    ASSUME NEW w \in {2, 4}, NEW s \in [1..1 -> Asn]
    PROVE  SegmentRead(s, w)
<1> DEFINE a == s[1]  x == AsnOctets(a, w)
<1>1. a \in Asn /\ DOMAIN s = 1..1
  OBVIOUS
<1>2. x \in Seq(Octet) /\ Len(x) = w /\ \A t \in Seq(Octet) : AsnRead(x \o t, w) = AsRead(a, w)
  BY <1>1, AsnIs, Zenon
<1>3. FlattenSeq([i \in DOMAIN s |-> AsnOctets(s[i], w)]) = x
  <2>1. [i \in DOMAIN s |-> AsnOctets(s[i], w)] = [i \in 1..1 |-> x]
    BY <1>1
  <2>2. [i \in 1..1 |-> x] = <<x>>
    BY ShortList, Zenon
  <2>3. QED
    BY <1>2, <2>1, <2>2, FlattenOne, Zenon
<1> HIDE DEF x
<1>4. x \o << >> = x /\ << >> \in Seq(Octet) /\ After(x, 0) = x
  BY <1>2, AfterNone, Zenon
<1>5. ASSUME NEW i \in 1..1
      PROVE  AsnRead(After(x, w * (i - 1)), w) = AsRead(s[i], w)
  <2>1. i = 1 /\ w * (i - 1) = 0
    OBVIOUS
  <2>2. AsnRead(x, w) = AsRead(a, w)
    BY <1>2, <1>4, Zenon
  <2>3. QED
    BY <1>4, <2>1, <2>2, Zenon
<1>6. Len(x) = w * 1 /\ 1 \in {1, 2}
  BY <1>2
<1>7. QED
  BY <1>2, <1>3, <1>5, <1>6, SegmentIs, Zenon

LEMMA SegmentTwo ==
    ASSUME NEW w \in {2, 4}, NEW s \in [1..2 -> Asn]
    PROVE  SegmentRead(s, w)
<1> DEFINE a == s[1]  b == s[2]  x == AsnOctets(a, w)  y == AsnOctets(b, w)
<1>1. a \in Asn /\ b \in Asn /\ DOMAIN s = 1..2
  OBVIOUS
<1>2. /\ x \in Seq(Octet) /\ Len(x) = w /\ \A t \in Seq(Octet) : AsnRead(x \o t, w) = AsRead(a, w)
      /\ y \in Seq(Octet) /\ Len(y) = w /\ \A t \in Seq(Octet) : AsnRead(y \o t, w) = AsRead(b, w)
  BY <1>1, AsnIs, Zenon
<1>3. FlattenSeq([i \in DOMAIN s |-> AsnOctets(s[i], w)]) = x \o y
  <2>1. [i \in DOMAIN s |-> AsnOctets(s[i], w)] = [i \in 1..2 |-> IF i = 1 THEN x ELSE y]
    BY <1>1
  <2>2. [i \in 1..2 |-> IF i = 1 THEN x ELSE y] = <<x, y>>
    BY ShortList, Zenon
  <2>3. QED
    BY <1>2, <2>1, <2>2, FlattenTwo, Zenon
<1> HIDE DEF x, y
<1>4. x \o y \in Seq(Octet) /\ Len(x \o y) = Len(x) + Len(y)
  BY <1>2, Concat, Zenon
<1>5. After(x \o y, 0) = x \o y /\ After(x \o y, w) = y /\ y \o << >> = y /\ << >> \in Seq(Octet)
  <2>1. After(x \o y, Len(x)) = y
    BY <1>2, AfterOf, Zenon
  <2>2. QED
    BY <1>2, <1>4, <2>1, AfterNone, Zenon
<1>6. ASSUME NEW i \in 1..2
      PROVE  AsnRead(After(x \o y, w * (i - 1)), w) = AsRead(s[i], w)
  <2>1. CASE i = 1
    <3>1. w * (i - 1) = 0
      BY <2>1
    <3>2. QED
      BY <1>2, <1>5, <2>1, <3>1, Zenon
  <2>2. CASE i = 2
    <3>1. w * (i - 1) = w
      BY <2>2
    <3>2. AsnRead(y, w) = AsRead(b, w)
      BY <1>2, <1>5, Zenon
    <3>3. QED
      BY <1>5, <2>2, <3>1, <3>2, Zenon
  <2>3. QED
    BY <2>1, <2>2
<1>7. Len(x \o y) = w * 2 /\ 2 \in {1, 2}
  BY <1>2, <1>4
<1>8. QED
  BY <1>3, <1>4, <1>6, <1>7, SegmentIs, Zenon


SegmentEnd(s, k) == IF 2 * k <= Len(s) THEN 2 * k ELSE Len(s)
SegmentOf(s, k) == SubSeq(s, 2 * k - 1, SegmentEnd(s, k))
SegmentCount(s) == (Len(s) + 1) \div 2
Segments(s) == [k \in 1..SegmentCount(s) |-> SegmentOf(s, k)]

LEMMA CountIs ==
    ASSUME NEW S, NEW s \in Seq(S)
    PROVE  /\ SegmentCount(s) \in Nat /\ Len(s) \in Nat
           /\ 2 * SegmentCount(s) = Len(s) \/ 2 * SegmentCount(s) = Len(s) + 1
<1> DEFINE n == Len(s)
<1>1. n \in Nat
  OBVIOUS
<1> HIDE DEF n
<1>2. (n + 1) \div 2 \in Nat /\ (2 * ((n + 1) \div 2) = n \/ 2 * ((n + 1) \div 2) = n + 1)
  BY <1>1
<1>3. QED
  BY <1>1, <1>2 DEF SegmentCount, n

LEMMA SubSeqIs ==
    ASSUME NEW S, NEW s \in Seq(S), NEW a \in Nat, NEW b \in Nat, a <= b, b <= Len(s)
    PROVE  /\ SubSeq(s, a + 1, b) \in Seq(S)
           /\ Len(SubSeq(s, a + 1, b)) = b - a
           /\ \A i \in 1..(b - a) : SubSeq(s, a + 1, b)[i] = s[a + i]
<1>1. SubSeq(s, a + 1, b) = [i \in 1..(b - a) |-> s[a + i]]
  <2>1. b - (a + 1) + 1 = b - a /\ \A i \in 1..(b - a) : (a + 1) + i - 1 = a + i
    OBVIOUS
  <2>2. \A m \in 1..(b - a + 1) : SubSeq(s, a + 1, b) = [i \in 1..(b - (a + 1) + 1) |-> s[i + (a + 1) - 1]]
    OBVIOUS
  <2>3. QED
    BY <2>1, <2>2
<1>2. b - a \in Nat /\ \A i \in 1..(b - a) : a + i \in 1..Len(s)
  OBVIOUS
<1>3. \A i \in 1..(b - a) : s[a + i] \in S
  BY <1>2, ElementOfSeq, Zenon
<1>4. SubSeq(s, a + 1, b) \in [1..(b - a) -> S]
  BY <1>1, <1>3, Zenon
<1>5. SubSeq(s, a + 1, b) \in Seq(S) /\ Len(SubSeq(s, a + 1, b)) = b - a
  BY <1>2, <1>4, SeqOfFunction, Zenon
<1>6. \A i \in 1..(b - a) : SubSeq(s, a + 1, b)[i] = s[a + i]
  BY <1>1, Zenon
<1>7. QED
  BY <1>5, <1>6, Zenon

LEMMA ConcatAny ==
    ASSUME NEW S, NEW s \in Seq(S), NEW t \in Seq(S)
    PROVE  /\ s \o t \in Seq(S)
           /\ Len(s \o t) = Len(s) + Len(t)
           /\ \A i \in 1..Len(s) : (s \o t)[i] = s[i]
           /\ \A i \in 1..Len(t) : (s \o t)[Len(s) + i] = t[i]
<1>1. s \o t \in Seq(S) /\ Len(s \o t) = Len(s) + Len(t)
  BY ConcatProperties
<1>2. \A i \in 1..Len(s) : (s \o t)[i] = s[i]
  BY ConcatProperties
<1>3. \A i \in 1..Len(t) : (s \o t)[Len(s) + i] = t[i]
  BY ConcatProperties
<1>4. QED
  BY <1>1, <1>2, <1>3

LEMMA FirstGrows ==
    ASSUME NEW S, NEW s \in Seq(S), NEW a \in Nat, NEW b \in Nat, a <= b, b <= Len(s)
    PROVE  First(s, a) \o SubSeq(s, a + 1, b) = First(s, b)
<1> DEFINE u == First(s, a)  v == SubSeq(s, a + 1, b)  z == First(s, b)
<1>1. a \in 0..Len(s) /\ b \in 0..Len(s)
  OBVIOUS
<1>2. u \in Seq(S) /\ Len(u) = a /\ \A i \in 1..a : u[i] = s[i]
  BY <1>1, Cut, Zenon
<1>3. z \in Seq(S) /\ Len(z) = b /\ \A i \in 1..b : z[i] = s[i]
  BY <1>1, Cut, Zenon
<1>4. v \in Seq(S) /\ Len(v) = b - a /\ \A i \in 1..(b - a) : v[i] = s[a + i]
  BY SubSeqIs, Zenon
<1> HIDE DEF u, v, z
<1>5. u \o v \in Seq(S) /\ Len(u \o v) = b
  <2>1. u \o v \in Seq(S) /\ Len(u \o v) = Len(u) + Len(v)
    BY <1>2, <1>4, ConcatAny, Zenon
  <2>2. QED
    BY <1>2, <1>4, <2>1
<1>6. ASSUME NEW i \in 1..b
      PROVE  (u \o v)[i] = z[i]
  <2>1. CASE i <= a
    <3>3. i \in 1..a
      BY <2>1
    <3>1. (u \o v)[i] = u[i] /\ i \in 1..a
      BY <1>2, <1>4, <3>3, ConcatAny, SMT
    <3>2. QED
      BY <1>2, <1>3, <3>1, Zenon
  <2>2. CASE ~(i <= a)
    <3>4. i - a \in 1..(b - a) /\ a + (i - a) = i
      BY <2>2
    <3>6. i - a \in 1..Len(v)
      BY <1>4, <3>4, Zenon
    <3>5. (u \o v)[Len(u) + (i - a)] = v[i - a]
      <4> DEFINE j == i - a
      <4>1. u \in Seq(S) /\ v \in Seq(S) /\ j \in 1..Len(v)
        BY <1>2, <1>4, <3>6
      <4> HIDE DEF j
      <4>2. \A k \in 1..Len(v) : (u \o v)[Len(u) + k] = v[k]
        <5>1. u \in Seq(S)
          BY <1>2
        <5>2. v \in Seq(S)
          BY <1>4
        <5>3. QED
          BY <5>1, <5>2, ConcatAny
      <4>3. (u \o v)[Len(u) + j] = v[j]
        BY <4>1, <4>2
      <4>4. QED
        BY <4>3 DEF j
    <3>1. (u \o v)[i] = v[i - a] /\ i - a \in 1..(b - a) /\ a + (i - a) = i
      BY <1>2, <3>4, <3>5, Zenon
    <3>2. v[i - a] = s[a + (i - a)]
      BY <1>4, <3>1, Zenon
    <3>3. QED
      BY <1>3, <3>1, <3>2, Zenon
  <2>3. QED
    BY <2>1, <2>2
<1>7. u \o v = z
  BY <1>3, <1>5, <1>6, SeqEqual
<1>8. QED
  BY <1>7 DEF u, v, z

LEMMA SegmentOfIs ==
    ASSUME NEW S, NEW s \in Seq(S), NEW k \in 1..SegmentCount(s)
    PROVE  /\ SegmentOf(s, k) \in Seq(S)
           /\ Len(SegmentOf(s, k)) = IF 2 * k <= Len(s) THEN 2 ELSE 1
           /\ \A i \in 1..Len(SegmentOf(s, k)) :
                 /\ 2 * (k - 1) + i \in 1..Len(s)
                 /\ SegmentOf(s, k)[i] = s[2 * (k - 1) + i]
           /\ First(s, 2 * (k - 1)) \o SegmentOf(s, k) = First(s, SegmentEnd(s, k))
<1> DEFINE a == 2 * (k - 1)  b == SegmentEnd(s, k)  n == Len(s)  v == SegmentOf(s, k)
<1>1. n \in Nat /\ SegmentCount(s) \in Nat /\ (2 * SegmentCount(s) = n \/ 2 * SegmentCount(s) = n + 1)
  BY CountIs, Zenon
<1>2. b = IF 2 * k <= n THEN 2 * k ELSE n
  BY DEF SegmentEnd
<1> HIDE DEF n
<1>3. a \in Nat /\ b \in Nat /\ a <= b /\ b <= n /\ a + 1 = 2 * k - 1
      /\ b - a = (IF 2 * k <= n THEN 2 ELSE 1)
  <2> HIDE DEF b
  <2> QED
    BY <1>1, <1>2
<1>4. v = SubSeq(s, a + 1, b)
  BY <1>3, Zenon DEF SegmentOf
<1> HIDE DEF a, b, v
<1>5. b <= Len(s)
  BY <1>3 DEF n
<1>6. v \in Seq(S) /\ Len(v) = b - a /\ \A i \in 1..(b - a) : v[i] = s[a + i]
  <2>1. a \in Nat /\ b \in Nat /\ a <= b
    BY <1>3
  <2>2. QED
    BY <1>4, <1>5, <2>1, SubSeqIs, Zenon
<1>7. First(s, a) \o v = First(s, b)
  BY <1>3, <1>4, <1>5, FirstGrows, Zenon
<1>8. ASSUME NEW i \in 1..(b - a)
      PROVE  a + i \in 1..n
  BY <1>1, <1>3
<1>9. QED
  BY <1>3, <1>6, <1>7, <1>8, Zenon DEF a, b, v, n

LEMMA SegmentsFlatten ==
    ASSUME NEW S, NEW s \in Seq(S)
    PROVE  Segments(s) \in Seq(Seq(S)) /\ FlattenSeq(Segments(s)) = s
<1> DEFINE segs == Segments(s)  m == SegmentCount(s)  n == Len(s)  R == Seq(S)
           upto(k) == IF 2 * k <= n THEN 2 * k ELSE n
           T == {k \in 0..m : FlattenSeq(First(segs, k)) = First(s, upto(k))}
<1>1. n \in Nat /\ m \in Nat /\ (2 * m = n \/ 2 * m = n + 1)
  BY CountIs, Zenon
<1>2. segs \in [1..m -> R]
  BY SegmentOfIs, Zenon DEF Segments
<1>3. segs \in Seq(R) /\ Len(segs) = m
  <2> HIDE DEF m, R, segs
  <2> QED
    BY <1>1, <1>2, SeqOfFunction, Zenon
<1>4. 0 \in T
  <2>1. First(segs, 0) = << >> /\ First(s, 0) = << >> /\ upto(0) = 0
    <3>1. First(segs, 0) = << >> /\ First(s, 0) = << >>
      BY DEF First
    <3> HIDE DEF n
    <3>2. upto(0) = 0
      BY <1>1
    <3>3. QED
      BY <3>1, <3>2
  <2>2. 0 \in 0..m
    BY <1>1
  <2>3. QED
    BY <2>1, <2>2, FlattenNone, Zenon
<1>5. ASSUME NEW k \in 1..m, k - 1 \in T
      PROVE  k \in T
  <2>1. k \in 1..SegmentCount(s)
    OBVIOUS
  <2> HIDE DEF m, n
  <2>2. k \in 0..m /\ k - 1 \in 0..m /\ k \in 1..m
    BY <1>1
  <2>3. upto(k - 1) = 2 * (k - 1)
    BY <1>1
  <2>4. First(segs, k) = Append(First(segs, k - 1), segs[k])
    <3> HIDE DEF segs, R
    <3>1. k \in 1..Len(segs)
      BY <1>3, <2>2
    <3>2. QED
      BY <1>3, <3>1, FirstStep, Zenon
  <2>5. segs[k] = SegmentOf(s, k)
    BY <2>1, Zenon DEF Segments
  <2>6. First(segs, k - 1) \in Seq(R) /\ segs[k] \in R
    <3> HIDE DEF segs, R
    <3>1. k - 1 \in 0..Len(segs)
      BY <1>3, <2>2
    <3>2. First(segs, k - 1) \in Seq(R)
      BY <1>3, <3>1, Cut, Zenon
    <3>3. QED
      BY <1>2, <2>2, <3>2, Zenon
  <2>7. FlattenSeq(First(segs, k)) = FlattenSeq(First(segs, k - 1)) \o segs[k]
    BY <2>4, <2>6, FlattenAppend, Zenon
  <2>8. FlattenSeq(First(segs, k - 1)) = First(s, 2 * (k - 1))
    BY <1>5, <2>3, Zenon
  <2>9. First(s, 2 * (k - 1)) \o SegmentOf(s, k) = First(s, SegmentEnd(s, k))
    BY <2>1, SegmentOfIs, Zenon
  <2>10. SegmentEnd(s, k) = upto(k)
    BY DEF SegmentEnd, n
  <2>11. QED
    BY <2>2, <2>5, <2>7, <2>8, <2>9, <2>10, Zenon
<1>6. m \in T
  <2>1. \A k \in 0..m : k \in T
    <3> HIDE DEF T, m
    <3> QED
      BY <1>1, <1>4, <1>5, UpTo, Zenon
  <2>2. m \in 0..m
    BY <1>1
  <2>3. QED
    BY <2>1, <2>2, Zenon
<1>7. upto(m) = n /\ First(s, n) = s
  <2>1. First(s, n) = s
    BY DEF First
  <2> HIDE DEF n, m
  <2>2. upto(m) = n
    BY <1>1
  <2>3. QED
    BY <2>1, <2>2
<1>8. First(segs, m) = segs
  <2> HIDE DEF segs, R
  <2>1. First(segs, Len(segs)) = segs
    BY <1>3 DEF First
  <2>2. QED
    BY <1>3, <2>1, Zenon
<1>9. QED
  BY <1>3, <1>6, <1>7, <1>8, Zenon


(* A path comes back as it was put into segments.                          *)
LEMMA SegmentsRead ==
    ASSUME NEW trail \in Seq(Asn), NEW w \in {2, 4}, NEW k \in 1..SegmentCount(trail)
    PROVE  SegmentRead(SegmentOf(trail, k), w)
<1> DEFINE s == SegmentOf(trail, k)
<1>1. s \in Seq(Asn) /\ (Len(s) = 2 \/ Len(s) = 1)
  BY SegmentOfIs, Zenon
<1> HIDE DEF s
<1>2. s \in [1..1 -> Asn] \/ s \in [1..2 -> Asn]
  <2>1. s \in [1..Len(s) -> Asn]
    BY <1>1
  <2>2. QED
    BY <1>1, <2>1, Zenon
<1>3. SegmentRead(s, w)
  BY <1>2, SegmentOne, SegmentTwo, Zenon
<1>4. QED
  BY <1>3 DEF s

TrailPieces(trail, w) == [k \in 1..SegmentCount(trail) |-> Segment(SegmentOf(trail, k), w)]

LEMMA EncodedTrailIs ==
    ASSUME NEW trail, NEW w \in {2, 4}
    PROVE  EncodedTrail(trail, w) = FlattenSeq(TrailPieces(trail, w))
BY DEF EncodedTrail, TrailPieces, SegmentCount, SegmentOf, SegmentEnd, Segment, AsnOctets, Two

LEMMA TrailPiecesAre ==
    ASSUME NEW trail \in Seq(Asn), NEW w \in {2, 4}
    PROVE  /\ TrailPieces(trail, w) \in Seq(Data)
           /\ Len(TrailPieces(trail, w)) = SegmentCount(trail)
           /\ Sized(TrailPieces(trail, w), SegmentSize(w))
           /\ EncodedTrail(trail, w) \in Seq(Octet)
<1> DEFINE m == SegmentCount(trail)  pieces == TrailPieces(trail, w)  R == Seq(Octet)
<1>1. m \in Nat
  BY CountIs, Zenon
<1>2. pieces \in [1..m -> Data]
  BY SegmentsRead, Zenon DEF TrailPieces, SegmentRead
<1> HIDE DEF m
<1>3. pieces \in Seq(Data) /\ Len(pieces) = m /\ DOMAIN pieces = 1..m
  <2> HIDE DEF pieces
  <2>1. pieces \in Seq(Data) /\ Len(pieces) = m
    BY <1>1, <1>2, SeqOfFunction, Zenon
  <2>2. QED
    BY <1>2, <2>1
<1>4. Sized(pieces, SegmentSize(w))
  <2>1. ASSUME NEW k \in 1..m, NEW t \in Seq(Octet)
        PROVE  SegmentSize(w)[pieces[k] \o t] = Len(pieces[k])
    <3>1. pieces[k] = Segment(SegmentOf(trail, k), w)
      BY Zenon DEF TrailPieces, m
    <3>2. SegmentRead(SegmentOf(trail, k), w)
      BY SegmentsRead, Zenon DEF m
    <3>3. QED
      BY <3>1, <3>2, Zenon DEF SegmentRead
  <2>2. QED
    BY <1>3, <2>1, Zenon DEF Sized
<1>5. pieces \in Seq(R)
  BY <1>3, DataSeqs, Zenon
<1>6. FlattenSeq(pieces) \in Seq(Octet)
  BY <1>5, FlattenIn, Zenon
<1>7. EncodedTrail(trail, w) = FlattenSeq(pieces)
  BY EncodedTrailIs, Zenon
<1>8. QED
  BY <1>3, <1>4, <1>6, <1>7, Zenon DEF m

LEMMA PathIs ==
    ASSUME NEW data, NEW w \in {2, 4}
    PROVE  Path(data, w) = LET list == Split(data, SegmentSize(w))
                           IN  [ok |-> list.ok,
                                path |-> FlattenSeq([i \in DOMAIN list.items |-> Asns(list.items[i], w)])]
<1>1. CASE w = 2
  BY <1>1 DEF Path, Asns, AsnRead
<1>2. CASE w = 4
  BY <1>2 DEF Path, Asns, AsnRead
<1>3. QED
  BY <1>1, <1>2

LEMMA TrailRead ==
    ASSUME NEW trail \in Seq(Asn), NEW w \in {2, 4}
    PROVE  Path(EncodedTrail(trail, w), w) =
             [ok |-> TRUE, path |-> [i \in 1..Len(trail) |-> AsRead(trail[i], w)]]
<1> DEFINE m == SegmentCount(trail)  n == Len(trail)  pieces == TrailPieces(trail, w)
           back == [i \in 1..n |-> AsRead(trail[i], w)]
           read == [k \in DOMAIN pieces |-> Asns(pieces[k], w)]
<1>1. m \in Nat /\ n \in Nat
  BY CountIs, Zenon
<1>2. /\ pieces \in Seq(Data) /\ Len(pieces) = m /\ Sized(pieces, SegmentSize(w))
      /\ EncodedTrail(trail, w) = FlattenSeq(pieces)
  BY TrailPiecesAre, EncodedTrailIs, Zenon
<1>3. Split(FlattenSeq(pieces), SegmentSize(w)) = [ok |-> TRUE, items |-> pieces]
  <2>1. w \in {1, 2, 4}
    OBVIOUS
  <2>2. SegmentSize(w) \in [Data -> Nat \ {0}]
    BY <2>1, SegmentSizeType, Zenon
  <2>3. QED
    BY <1>2, <2>2, SplitOf, Zenon
<1>4. \A i \in 1..n : trail[i] \in Asn /\ AsRead(trail[i], w) \in Asn
  BY ElementOfSeq, AsnIs, Zenon
<1>5. back \in Seq(Asn) /\ Len(back) = n
  <2>1. back \in [1..n -> Asn]
    BY <1>4, Zenon
  <2>2. QED
    <3> HIDE DEF back, n
    <3>1. n \in Nat
      BY <1>1
    <3>2. QED
      BY <2>1, <3>1, SeqOfFunction, Zenon
<1>6. SegmentCount(back) = m
  BY <1>5, Zenon DEF SegmentCount
<1>7. read = Segments(back)
  <2>1. DOMAIN pieces = 1..m
    BY Zenon DEF TrailPieces
  <2>2. ASSUME NEW k \in 1..m
        PROVE  Asns(pieces[k], w) = SegmentOf(back, k)
    <3> DEFINE s == SegmentOf(trail, k)  r == SegmentOf(back, k)
    <3>1. pieces[k] = Segment(s, w)
      BY Zenon DEF TrailPieces
    <3>2. Asns(pieces[k], w) = AsnsRead(s, w) /\ AsnsRead(s, w) \in Seq(Asn)
      BY <3>1, SegmentsRead, Zenon DEF SegmentRead
    <3>3. /\ s \in Seq(Asn) /\ Len(s) = (IF 2 * k <= n THEN 2 ELSE 1)
          /\ \A i \in 1..Len(s) : 2 * (k - 1) + i \in 1..n /\ s[i] = trail[2 * (k - 1) + i]
      BY SegmentOfIs, Zenon
    <3>4. k \in 1..SegmentCount(back)
      BY <1>6, Zenon
    <3>5. /\ r \in Seq(Asn) /\ Len(r) = (IF 2 * k <= Len(back) THEN 2 ELSE 1)
          /\ \A i \in 1..Len(r) : r[i] = back[2 * (k - 1) + i]
      BY <1>5, <3>4, SegmentOfIs, ZenonT(60)
    <3>6. Len(r) = Len(s)
      <4>1. Len(back) = n
        BY <1>5, Zenon
      <4>2. Len(s) = (IF 2 * k <= n THEN 2 ELSE 1)
        BY <3>3, Zenon
      <4>3. Len(r) = (IF 2 * k <= Len(back) THEN 2 ELSE 1)
        BY <3>5, Zenon
      <4> HIDE DEF back, r, s, n
      <4>4. QED
        BY <4>1, <4>2, <4>3
    <3>7. DOMAIN s = 1..Len(s) /\ DOMAIN r = 1..Len(r) /\ r = [i \in 1..Len(r) |-> r[i]]
      <4>1. s \in Seq(Asn) /\ r \in Seq(Asn)
        BY <3>3, <3>5, Zenon
      <4> HIDE DEF s, r
      <4> QED
        BY <4>1
    <3>8. ASSUME NEW i \in 1..Len(s)
          PROVE  AsRead(s[i], w) = r[i]
      <4>1. 2 * (k - 1) + i \in 1..n /\ s[i] = trail[2 * (k - 1) + i]
        BY <3>3, Zenon
      <4>2. back[2 * (k - 1) + i] = AsRead(trail[2 * (k - 1) + i], w)
        BY <4>1, Zenon
      <4>3. r[i] = back[2 * (k - 1) + i]
        BY <3>5, <3>6, Zenon
      <4>4. QED
        BY <4>1, <4>2, <4>3, Zenon
    <3>9. AsnsRead(s, w) = r
      BY <3>6, <3>7, <3>8, Zenon DEF AsnsRead
    <3>10. QED
      BY <3>2, <3>9, Zenon
  <2>3. QED
    BY <1>6, <2>1, <2>2, Zenon DEF Segments
<1>8. FlattenSeq(read) = back
  BY <1>5, <1>7, SegmentsFlatten, Zenon
<1> HIDE DEF back, read, pieces
<1>9. Path(FlattenSeq(pieces), w) = [ok |-> TRUE, path |-> FlattenSeq(read)]
  <2> DEFINE list == Split(FlattenSeq(pieces), SegmentSize(w))
  <2>1. list.ok = TRUE /\ list.items = pieces
    BY <1>3
  <2>2. Path(FlattenSeq(pieces), w) =
          [ok |-> list.ok, path |-> FlattenSeq([i \in DOMAIN list.items |-> Asns(list.items[i], w)])]
    BY PathIs, Zenon
  <2> HIDE DEF list
  <2>3. QED
    BY <2>1, <2>2, Zenon DEF read
<1>10. QED
  BY <1>2, <1>8, <1>9, Zenon DEF back


-----------------------------------------------------------------------------
(* Attributes and the message.                                             *)

LEMMA HeadSendable ==
    ASSUME NEW h \in Seq(Nat), NEW x, Sendable(x), Len(x) <= Largest => h \in Seq(Octet)
    PROVE  Sendable(h \o x)
<1>1. x \in Seq(Nat)
  BY Zenon DEF Sendable
<1>2. h \o x \in Seq(Nat) /\ Len(h \o x) = Len(h) + Len(x) /\ Len(h) \in Nat /\ Len(x) \in Nat
  BY <1>1, ConcatNat, Zenon
<1>3. ASSUME Len(h \o x) <= Largest
      PROVE  h \o x \in Seq(Octet)
  <2> DEFINE k == Len(h \o x)  l == Len(h)  n == Len(x)
  <2>1. k = l + n /\ k <= Largest /\ Largest \in Nat /\ l \in Nat /\ n \in Nat
    BY <1>2, <1>3 DEF Largest
  <2> HIDE DEF k, l, n
  <2>2. n <= Largest
    BY <2>1
  <2>3. h \in Seq(Octet) /\ x \in Seq(Octet)
    BY <2>2, Zenon DEF n, Sendable
  <2>4. QED
    BY <2>3, Concat, Zenon
<1>4. QED
  BY <1>2, <1>3, Zenon DEF Sendable

(* The value of an attribute, and what stands in front of it.              *)
PartData(part) ==
    CASE part.kind = "next_hop" -> part.hop
      [] part.kind = "reach" ->
             AsU16(part.family[1]) \o <<part.family[2], Len(part.hop)>> \o part.hop
               \o <<0>> \o EncodedRoutes(part.family, part.routes)
      [] part.kind = "unreach" ->
             AsU16(part.family[1]) \o <<part.family[2]>>
               \o EncodedRoutes(part.family, part.routes)
      [] part.kind = "actions" -> FlattenSeq([i \in DOMAIN part.communities |-> part.communities[i].octets])
      [] part.kind = "path" -> EncodedTrail(sent.trail, IF wide THEN 4 ELSE 2)
      [] part.kind = "as4" -> EncodedTrail(Tail4(sent.trail, part.covers), 4)
      [] OTHER -> part.data
PartHead(code, n) == IF n > 255 THEN <<144, code>> \o AsU16(n) ELSE <<128, code, n>>

LEMMA EncodedPartIs ==
    ASSUME NEW part
    PROVE  Encoded(part) = PartHead(part.code, Len(PartData(part))) \o PartData(part)
BY Zenon DEF Encoded, PartHead, PartData

LEMMA PartHeadIs ==
    ASSUME NEW code \in Octet, NEW n \in Nat
    PROVE  PartHead(code, n) \in Seq(Nat) /\ (n <= Largest => PartHead(code, n) \in Seq(Octet))
<1>1. code \in Nat /\ 128 \in Octet /\ 144 \in Octet
  BY DEF Octet
<1>2. CASE n > 255
  <2> DEFINE a == AsU16(n)
  <2>1. a \in Seq(Nat)
    BY U16In, Zenon
  <2>2. n <= Largest => a \in Seq(Octet)
    BY LengthHalf, HalfOf, ZenonT(60)
  <2>3. <<144, code>> \in Seq(Nat) /\ <<144, code>> \in Seq(Octet)
    BY <1>1
  <2>4. <<144, code>> \o a \in Seq(Nat)
    BY <2>1, <2>3, ConcatNat, Zenon
  <2>5. n <= Largest => <<144, code>> \o a \in Seq(Octet)
    BY <2>2, <2>3, Concat, Zenon
  <2>6. PartHead(code, n) = <<144, code>> \o a
    BY <1>2 DEF PartHead
  <2>7. QED
    BY <2>4, <2>5, <2>6, Zenon
<1>3. CASE ~(n > 255)
  <2>1. n \in Octet
    BY <1>3 DEF Octet
  <2>2. <<128, code, n>> \in Seq(Nat) /\ <<128, code, n>> \in Seq(Octet)
    BY <1>1, <2>1
  <2>3. PartHead(code, n) = <<128, code, n>>
    BY <1>3 DEF PartHead
  <2>4. QED
    BY <2>2, <2>3
<1>4. QED
  BY <1>2, <1>3

(* The parts of a message, by kind.                                        *)
LEMMA PartCases ==
    ASSUME NEW part, IsPart(part)
    PROVE  \/ part.kind = "next_hop" /\ part.code = 3 /\ part.hop \in [1..4 -> Octet]
           \/ /\ part.kind = "reach" /\ part.code = 14
              /\ part.family \in Families /\ AreRoutes(part.routes, part.family)
              /\ part.hop \in Seq(Octet) /\ Len(part.hop) < 256
           \/ /\ part.kind = "unreach" /\ part.code = 15
              /\ part.family \in Families /\ AreRoutes(part.routes, part.family)
           \/ part.kind = "actions" /\ part.code = 16 /\ AreCommunities(part.communities, 8)
           \/ part.kind = "actions" /\ part.code = 25 /\ AreCommunities(part.communities, 20)
           \/ part.kind = "path" /\ part.code = 2
           \/ part.kind = "as4" /\ part.code = 17 /\ part.covers \in Nat
           \/ part.kind = "junk" /\ IsJunk(part.code, part.data)
BY DEF IsPart

LEMMA FamilyOctets ==
    ASSUME NEW family \in Families
    PROVE  family[1] \in Half /\ family[2] \in Octet /\ family[1] \in {1, 2} /\ family[2] \in {1, 133}
           /\ family = <<family[1], family[2]>>
<1>1. 1 \in Half /\ 2 \in Half /\ 1 \in Octet /\ 133 \in Octet
  BY DEF Half, Octet
<1>2. QED
  BY <1>1 DEF Families

LEMMA CommunitiesIn ==
    ASSUME NEW list, NEW size \in {8, 20}, AreCommunities(list, size)
    PROVE  /\ Len(list) \in Nat /\ DOMAIN list = 1..Len(list)
           /\ [i \in DOMAIN list |-> list[i].octets] \in Seq([1..size -> Octet])
           /\ [i \in DOMAIN list |-> list[i].octets] \in Seq(Seq(Octet))
           /\ \A i \in 1..Len(list) : list[i].octets \in [1..size -> Octet]
                                      /\ (list[i].open <=> AsksNextHop(list[i].octets))
<1> DEFINE n == Len(list)  S == [octets : [1..size -> Octet], open : BOOLEAN]
           f == [i \in DOMAIN list |-> list[i].octets]  R == Seq(Octet)  C == [1..size -> Octet]
<1>1. list \in Seq(S)
  BY DEF AreCommunities
<1>2. n \in Nat /\ DOMAIN list = 1..n /\ \A i \in 1..n : list[i] \in S
  <2> HIDE DEF S
  <2> QED
    BY <1>1
<1>3. \A i \in 1..n : list[i].octets \in C
  <2>1. \A c \in S : c.octets \in C
    <3>1. S = [octets : C, open : BOOLEAN]
      OBVIOUS
    <3> HIDE DEF C, S
    <3>2. QED
      BY <3>1
  <2> HIDE DEF S, C
  <2>2. QED
    BY <1>2, <2>1, Zenon
<1>4. \A c \in C : c \in R
  <2>1. size \in Nat
    OBVIOUS
  <2>2. QED
    BY <2>1, SeqOfFunction, Zenon
<1>5. f \in [1..n -> C] /\ f \in [1..n -> R]
  <2> HIDE DEF C, R
  <2> QED
    BY <1>2, <1>3, <1>4, Zenon
<1>6. f \in Seq(C) /\ f \in Seq(R)
  <2> HIDE DEF C, R, f
  <2> QED
    BY <1>2, <1>5, SeqOfFunction, Zenon
<1>7. QED
  BY <1>2, <1>3, <1>6, Zenon DEF AreCommunities

LEMMA StaleIs == Stale \in Seq(Asn) /\ Len(Stale) = 3
<1>1. 1 \in Half /\ 2 \in Half /\ 3 \in Half
  BY DEF Half
<1>2. <<1, 1>> \in Asn /\ <<1, 2>> \in Asn /\ <<1, 3>> \in Asn
  BY <1>1 DEF Asn
<1> DEFINE A == Asn  x == <<1, 1>>  y == <<1, 2>>  z == <<1, 3>>
<1>3. x \in A /\ y \in A /\ z \in A
  BY <1>2
<1> HIDE DEF A, x, y, z
<1>4. <<x, y, z>> \in Seq(A) /\ Len(<<x, y, z>>) = 3
  BY <1>3
<1>5. QED
  BY <1>4 DEF Stale, A, x, y, z

LEMMA TailIs ==
    ASSUME NEW trail \in Seq(Asn), NEW n \in Nat, n <= Len(trail) + Len(Stale)
    PROVE  /\ Tail4(trail, n) \in Seq(Asn) /\ Len(Tail4(trail, n)) = n
           /\ \A i \in 1..n : n <= Len(trail) =>
                 /\ Len(trail) - n + i \in 1..Len(trail)
                 /\ Tail4(trail, n)[i] = trail[Len(trail) - n + i]
<1> DEFINE all == Stale \o trail  l == Len(trail)  a == Len(all) - n
<1>1. all \in Seq(Asn) /\ Len(all) = 3 + l /\ l \in Nat
  <2>1. all \in Seq(Asn) /\ Len(all) = Len(Stale) + Len(trail)
    BY StaleIs, ConcatAny, ZenonT(60)
  <2>2. l \in Nat
    OBVIOUS
  <2>3. QED
    BY <2>1, <2>2, StaleIs
<1>2. n <= l + 3
  BY StaleIs
<1>3. Tail4(trail, n) = SubSeq(all, a + 1, Len(all))
  BY DEF Tail4
<1>7. \A i \in 1..l : all[3 + i] = trail[i]
  <2>1. \A i \in 1..Len(trail) : (Stale \o trail)[Len(Stale) + i] = trail[i]
    <3>1. Stale \in Seq(Asn) /\ trail \in Seq(Asn)
      BY StaleIs
    <3>2. QED
      BY <3>1, ConcatAny
  <2>2. QED
    BY <2>1, StaleIs, Zenon
<1> HIDE DEF all, l
<1>4. a \in Nat /\ Len(all) \in Nat /\ a <= Len(all) /\ Len(all) - a = n
  BY <1>1, <1>2
<1>5. /\ SubSeq(all, a + 1, Len(all)) \in Seq(Asn)
      /\ Len(SubSeq(all, a + 1, Len(all))) = Len(all) - a
      /\ \A i \in 1..(Len(all) - a) : SubSeq(all, a + 1, Len(all))[i] = all[a + i]
  <2> HIDE DEF a
  <2>1. Len(all) <= Len(all)
    BY <1>4
  <2>2. QED
    <3> DEFINE b == Len(all)
    <3>1. all \in Seq(Asn) /\ a \in Nat /\ b \in Nat /\ a <= b /\ b <= Len(all)
      BY <1>1, <1>4, <2>1, Zenon
    <3> HIDE DEF b
    <3>2. /\ SubSeq(all, a + 1, b) \in Seq(Asn)
          /\ Len(SubSeq(all, a + 1, b)) = b - a
          /\ \A i \in 1..(b - a) : SubSeq(all, a + 1, b)[i] = all[a + i]
      BY <3>1, SubSeqIs, Zenon
    <3>3. QED
      BY <3>2, Zenon DEF b
<1>6. ASSUME NEW i \in 1..n, n <= l
      PROVE  l - n + i \in 1..l /\ Tail4(trail, n)[i] = trail[l - n + i]
  <2>1. l - n + i \in 1..l /\ a + i = 3 + (l - n + i)
    BY <1>1, <1>6
  <2>2. Tail4(trail, n)[i] = all[a + i]
    BY <1>3, <1>4, <1>5, Zenon
  <2>3. all[3 + (l - n + i)] = trail[l - n + i]
    BY <1>7, <2>1, Zenon
  <2>4. QED
    BY <2>1, <2>2, <2>3, Zenon
<1>8. QED
  BY <1>3, <1>4, <1>5, <1>6, Zenon DEF l


LEMMA ReachIs ==
    ASSUME NEW part, part.family \in Families, part.hop \in Seq(Octet), Len(part.hop) < 256
    PROVE  LET head == AsU16(part.family[1]) \o <<part.family[2], Len(part.hop)>>
           IN  /\ head \in Seq(Octet) /\ Len(head) = 4
               /\ U16(head) = part.family[1] /\ head[3] = part.family[2] /\ head[4] = Len(part.hop)
               /\ <<0>> \in Seq(Octet) /\ Len(<<0>>) = 1
<1> DEFINE a == AsU16(part.family[1])  y == part.family[2]  n == Len(part.hop)  b == <<y, n>>
<1>1. part.family[1] \in Half /\ y \in Octet
  BY FamilyOctets, Zenon
<1>2. n \in Octet
  <2>1. n \in Nat
    OBVIOUS
  <2> HIDE DEF n
  <2>2. n < 256
    BY DEF n
  <2>3. QED
    BY <2>1, <2>2 DEF Octet
<1>3. a \in Seq(Octet) /\ Len(a) = 2
  BY <1>1, HalfOf, SMT
<1> HIDE DEF a, y, n
<1>4. b \in Seq(Octet) /\ Len(b) = 2 /\ b[1] = y /\ b[2] = n
  BY <1>1, <1>2
<1>5. U16(a \o b) = part.family[1]
  BY <1>1, <1>4, HalfRead, Zenon DEF a
<1> HIDE DEF b
<1>6. a \o b \in Seq(Octet) /\ Len(a \o b) = 4
  <2>1. a \o b \in Seq(Octet) /\ Len(a \o b) = Len(a) + Len(b)
    BY <1>3, <1>4, Concat, Zenon
  <2>2. QED
    BY <1>3, <1>4, <2>1
<1>7. (a \o b)[3] = y /\ (a \o b)[4] = n
  <2>1. 1 \in 1..Len(b) /\ 2 \in 1..Len(b)
    BY <1>4
  <2>2. (a \o b)[Len(a) + 1] = b[1] /\ (a \o b)[Len(a) + 2] = b[2]
    BY <1>3, <1>4, <2>1, Concat, ZenonT(60)
  <2>3. Len(a) + 1 = 3 /\ Len(a) + 2 = 4
    BY <1>3
  <2>4. QED
    BY <1>4, <2>2, <2>3, Zenon
<1>8. <<0>> \in Seq(Octet) /\ Len(<<0>>) = 1
  BY DEF Octet
<1>9. QED
  BY <1>5, <1>6, <1>7, <1>8, Zenon DEF a, b, y, n

LEMMA UnreachIs ==
    ASSUME NEW part, part.family \in Families
    PROVE  LET head == AsU16(part.family[1]) \o <<part.family[2]>>
           IN  /\ head \in Seq(Octet) /\ Len(head) = 3
               /\ U16(head) = part.family[1] /\ head[3] = part.family[2]
<1> DEFINE a == AsU16(part.family[1])  y == part.family[2]  b == <<y>>
<1>1. part.family[1] \in Half /\ y \in Octet
  BY FamilyOctets, Zenon
<1>2. a \in Seq(Octet) /\ Len(a) = 2
  BY <1>1, HalfOf, SMT
<1> HIDE DEF a, y
<1>3. b \in Seq(Octet) /\ Len(b) = 1 /\ b[1] = y
  BY <1>1
<1>4. U16(a \o b) = part.family[1]
  BY <1>1, <1>3, HalfRead, Zenon DEF a
<1> HIDE DEF b
<1>5. a \o b \in Seq(Octet) /\ Len(a \o b) = 3
  <2>1. a \o b \in Seq(Octet) /\ Len(a \o b) = Len(a) + Len(b)
    BY <1>2, <1>3, Concat, Zenon
  <2>2. QED
    BY <1>2, <1>3, <2>1
<1>6. (a \o b)[3] = y
  <2>1. 1 \in 1..Len(b)
    BY <1>3
  <2>2. (a \o b)[Len(a) + 1] = b[1]
    BY <1>2, <1>3, <2>1, Concat, Zenon
  <2>3. Len(a) + 1 = 3
    BY <1>2
  <2>4. QED
    BY <1>3, <2>2, <2>3, Zenon
<1>7. QED
  BY <1>4, <1>5, <1>6, Zenon DEF a, b, y

(* What the state is while a message is composed, sent and looked at.      *)
Composed ==
    /\ wide \in BOOLEAN
    /\ sent.trail \in Trails
    /\ sent.parts \in Seq(Parts)
    /\ sent.nlri \in BodyLists
    /\ sent.withdrawn \in BodyLists

LEMMA PartDataSendable ==
    ASSUME Composed, NEW part \in Parts
    PROVE  Sendable(PartData(part)) /\ part.code \in Octet
<1>1. IsPart(part)
  BY PartsAssumption
<1>2. sent.trail \in Seq(Asn)
  BY TrailsAssumption, Zenon DEF Composed
<1>3. 2 \in Octet /\ 3 \in Octet /\ 14 \in Octet /\ 15 \in Octet /\ 16 \in Octet /\ 17 \in Octet /\ 25 \in Octet
  BY DEF Octet
<1>4. CASE part.kind = "next_hop"
  <2>1. part.code = 3 /\ part.hop \in [1..4 -> Octet]
    BY <1>1, <1>4, PartCases
  <2>2. part.hop \in Seq(Octet)
    <3>1. 4 \in Nat
      OBVIOUS
    <3>2. QED
      BY <2>1, <3>1, SeqOfFunction, Zenon
  <2>3. PartData(part) = part.hop
    BY <1>4 DEF PartData
  <2>4. QED
    BY <1>3, <2>1, <2>2, <2>3, OctetsSendable, Zenon
<1>5. CASE part.kind = "reach"
  <2> DEFINE head == AsU16(part.family[1]) \o <<part.family[2], Len(part.hop)>>
             routes == EncodedRoutes(part.family, part.routes)
  <2>1. /\ part.code = 14 /\ part.family \in Families /\ AreRoutes(part.routes, part.family)
        /\ part.hop \in Seq(Octet) /\ Len(part.hop) < 256
    BY <1>1, <1>5, PartCases
  <2>2. head \in Seq(Octet) /\ <<0>> \in Seq(Octet)
    BY <2>1, ReachIs, Zenon
  <2>3. Sendable(routes)
    BY <2>1, EncodedRoutesSendable, Zenon
  <2>4. PartData(part) = head \o part.hop \o <<0>> \o routes
    BY <1>5 DEF PartData
  <2> HIDE DEF head, routes
  <2>5. head \o part.hop \in Seq(Octet)
    BY <2>1, <2>2, Concat, Zenon
  <2>6. head \o part.hop \o <<0>> \in Seq(Octet)
    BY <2>2, <2>5, Concat, Zenon
  <2>7. Sendable(head \o part.hop \o <<0>> \o routes)
    BY <2>3, <2>6, OctetsSendable, ConcatSendable, Zenon
  <2>8. QED
    BY <1>3, <2>1, <2>4, <2>7, Zenon
<1>6. CASE part.kind = "unreach"
  <2> DEFINE head == AsU16(part.family[1]) \o <<part.family[2]>>
             routes == EncodedRoutes(part.family, part.routes)
  <2>1. part.code = 15 /\ part.family \in Families /\ AreRoutes(part.routes, part.family)
    BY <1>1, <1>6, PartCases
  <2>2. head \in Seq(Octet)
    BY <2>1, UnreachIs, Zenon
  <2>3. Sendable(routes)
    BY <2>1, EncodedRoutesSendable, Zenon
  <2>4. PartData(part) = head \o routes
    BY <1>6 DEF PartData
  <2> HIDE DEF head, routes
  <2>5. Sendable(head \o routes)
    BY <2>2, <2>3, OctetsSendable, ConcatSendable, Zenon
  <2>6. QED
    BY <1>3, <2>1, <2>4, <2>5, Zenon
<1>7. CASE part.kind = "actions"
  <2> DEFINE f == [i \in DOMAIN part.communities |-> part.communities[i].octets]
  <2>1. \/ part.code = 16 /\ AreCommunities(part.communities, 8)
        \/ part.code = 25 /\ AreCommunities(part.communities, 20)
    BY <1>1, <1>7, PartCases
  <2>2. part.code \in Octet
    BY <1>3, <2>1
  <2>3. f \in Seq(Seq(Octet))
    <3>1. 8 \in {8, 20} /\ 20 \in {8, 20}
      OBVIOUS
    <3>2. QED
      BY <2>1, <3>1, CommunitiesIn, Zenon
  <2>4. FlattenSeq(f) \in Seq(Octet)
    BY <2>3, FlattenIn, Zenon
  <2>5. PartData(part) = FlattenSeq(f)
    BY <1>7 DEF PartData
  <2>6. QED
    BY <2>2, <2>4, <2>5, OctetsSendable, Zenon
<1>8. CASE part.kind = "path"
  <2>1. part.code = 2
    BY <1>1, <1>8, PartCases
  <2>2. (IF wide THEN 4 ELSE 2) \in {2, 4}
    OBVIOUS
  <2>3. EncodedTrail(sent.trail, IF wide THEN 4 ELSE 2) \in Seq(Octet)
    BY <1>2, <2>2, TrailPiecesAre, Zenon
  <2>4. PartData(part) = EncodedTrail(sent.trail, IF wide THEN 4 ELSE 2)
    BY <1>8 DEF PartData
  <2>5. QED
    BY <1>3, <2>1, <2>3, <2>4, OctetsSendable, Zenon
<1>9. CASE part.kind = "as4"
  <2>1. part.code = 17 /\ part.covers \in Nat
    BY <1>1, <1>9, PartCases
  <2>2. part.covers <= Len(sent.trail) + Len(Stale)
    BY <1>9, TrailsAssumption, Zenon DEF Composed
  <2>3. Tail4(sent.trail, part.covers) \in Seq(Asn)
    BY <1>2, <2>1, <2>2, TailIs, Zenon
  <2>4. 4 \in {2, 4}
    OBVIOUS
  <2>5. EncodedTrail(Tail4(sent.trail, part.covers), 4) \in Seq(Octet)
    BY <2>3, <2>4, TrailPiecesAre, Zenon
  <2>6. PartData(part) = EncodedTrail(Tail4(sent.trail, part.covers), 4)
    BY <1>9 DEF PartData
  <2>7. QED
    BY <1>3, <2>1, <2>5, <2>6, OctetsSendable, Zenon
<1>10. CASE part.kind = "junk"
  <2>1. IsJunk(part.code, part.data)
    BY <1>1, <1>10, PartCases
  <2>2. part.code \in Octet /\ part.data \in Seq(Octet)
    BY <2>1, Zenon DEF IsJunk
  <2>3. PartData(part) = part.data
    BY <1>10 DEF PartData
  <2>4. QED
    BY <2>2, <2>3, OctetsSendable, Zenon
<1>11. part.kind \in {"next_hop", "reach", "unreach", "actions", "path", "as4", "junk"}
  BY <1>1, PartCases
<1>12. QED
  BY <1>4, <1>5, <1>6, <1>7, <1>8, <1>9, <1>10, <1>11

LEMMA EncodedSendable ==
    ASSUME Composed, NEW part \in Parts
    PROVE  Sendable(Encoded(part))
<1> DEFINE data == PartData(part)  n == Len(data)
<1>1. Sendable(data) /\ part.code \in Octet
  BY PartDataSendable, Zenon
<1>2. data \in Seq(Nat)
  BY <1>1, Zenon DEF Sendable
<1>3. n \in Nat
  <2> HIDE DEF data
  <2> QED
    BY <1>2
<1>4. PartHead(part.code, n) \in Seq(Nat) /\ (n <= Largest => PartHead(part.code, n) \in Seq(Octet))
  BY <1>1, <1>3, PartHeadIs, Zenon
<1>5. Sendable(PartHead(part.code, n) \o data)
  BY <1>1, <1>4, HeadSendable, Zenon
<1>6. QED
  BY <1>5, EncodedPartIs, Zenon

LEMMA UpdateSendable ==
    ASSUME Composed
    PROVE  Sendable(EncodedUpdate)
<1> DEFINE withdrawn == EncodedPrefixes(sent.withdrawn)
           nlri == EncodedPrefixes(sent.nlri)
           f == [i \in DOMAIN sent.parts |-> Encoded(sent.parts[i])]
           attributes == FlattenSeq(f)
           N == Len(sent.parts)
<1>1. withdrawn \in Seq(Octet) /\ nlri \in Seq(Octet)
  BY BodyListsAssumption, EncodedPrefixesIs, Zenon DEF Composed
<1>2. sent.parts \in Seq(Parts)
  BY Zenon DEF Composed
<1>3. N \in Nat /\ DOMAIN sent.parts = 1..N /\ \A i \in 1..N : sent.parts[i] \in Parts
  BY <1>2
<1>4. \A i \in 1..N : Sendable(f[i])
  BY <1>3, EncodedSendable, Zenon
<1>5. DOMAIN f = 1..N /\ f = [i \in 1..N |-> f[i]]
  BY <1>3, Zenon
<1> HIDE DEF f
<1>6. Sendable(attributes)
  <2> HIDE DEF N
  <2> QED
    BY <1>3, <1>4, <1>5, FlattenSendable, Zenon
<1>7. Sendable(withdrawn) /\ Sendable(nlri)
  BY <1>1, OctetsSendable, Zenon
<1>8. EncodedUpdate = AsU16(Len(withdrawn)) \o withdrawn \o AsU16(Len(attributes)) \o attributes \o nlri
  BY DEF EncodedUpdate, f
<1> HIDE DEF withdrawn, nlri, attributes
<1>9. Sendable(AsU16(Len(withdrawn)) \o withdrawn) /\ Sendable(AsU16(Len(attributes)) \o attributes)
  BY <1>6, <1>7, LengthSendable, Zenon
<1> DEFINE w == AsU16(Len(withdrawn)) \o withdrawn  a == AsU16(Len(attributes))
<1>10. w \o a \o attributes = w \o (a \o attributes)
  <2>1. w \in Seq(Nat) /\ attributes \in Seq(Nat)
    BY <1>6, <1>9, Zenon DEF Sendable
  <2>2. a \in Seq(Nat)
    <3>1. Len(attributes) \in Nat
      BY <2>1
    <3>2. QED
      BY <3>1, U16In, Zenon
  <2> HIDE DEF w, a
  <2> DEFINE R == Nat
  <2>3. w \in Seq(R) /\ a \in Seq(R) /\ attributes \in Seq(R)
    BY <2>1, <2>2
  <2> HIDE DEF R
  <2>4. QED
    BY <2>3, ConcatAssociative, SMTT(60)
<1>11. Sendable(w \o (a \o attributes) \o nlri)
  BY <1>7, <1>9, ConcatSendable, Zenon
<1>12. QED
  BY <1>8, <1>10, <1>11, Zenon


LEMMA UpdateOk ==
    ASSUME NEW body, NEW asnLen, Update(body, asnLen).ok
    PROVE  Update(body, asnLen).ok = TRUE
<1>1. ASSUME NEW attrs, NEW withdrawn, NEW nlri, Collected(attrs, asnLen, withdrawn, nlri).ok
      PROVE  Collected(attrs, asnLen, withdrawn, nlri).ok = TRUE
  <2> DEFINE c == Collected(attrs, asnLen, withdrawn, nlri)
  <2>1. PICK bad, announce, withdraw, actions, path :
            c = IF bad THEN Malformed
                ELSE [ok |-> TRUE, announce |-> announce, withdraw |-> withdraw,
                      actions |-> actions, path |-> path]
    BY ZenonT(60) DEF Collected
  <2> HIDE DEF c
  <2>2. c.ok
    BY <1>1 DEF c
  <2>3. c.ok = FALSE \/ c.ok = TRUE
    BY <2>1 DEF Malformed
  <2>4. QED
    BY <2>2, <2>3 DEF c
<1>2. PICK bad, attrs, withdrawn, nlri :
          Update(body, asnLen) = IF bad THEN Malformed ELSE Collected(attrs, asnLen, withdrawn, nlri)
  BY Zenon DEF Update
<1> DEFINE u == Update(body, asnLen)  c == Collected(attrs, asnLen, withdrawn, nlri)
<1> HIDE DEF u
<1>3. u = Malformed \/ u = c
  BY <1>2 DEF u
<1>4. Malformed.ok = FALSE /\ u.ok
  BY DEF Malformed, u
<1>5. u = c
  BY <1>3, <1>4
<1>6. c.ok = TRUE
  BY <1>1, <1>4, <1>5, Zenon
<1>7. QED
  BY <1>5, <1>6 DEF u

-----------------------------------------------------------------------------
(* The states.                                                             *)

Attended == stage \in {"composing", "decoded", "searched"}
Arrived == stage \in {"decoded", "searched"}

(* What a sender is at, and what was made of it.                           *)
Typed ==
    /\ wide \in BOOLEAN
    /\ Attended => Composed
    /\ Arrived => /\ EncodedUpdate \in Seq(Octet)
                  /\ Len(EncodedUpdate) <= Largest
                  /\ received = Update(EncodedUpdate, IF wide THEN 4 ELSE 2)
    /\ stage = "searched" =>
           /\ received.ok = TRUE
           /\ lookup.ip \in Addresses
           /\ lookup.prefix = Search(Announced(<<1, 1>>) \o Announced(<<2, 1>>), lookup.ip)

LEMMA TypedInit == Init => Typed
BY DEF Init, Typed, Attended, Arrived

LEMMA OkBoolean ==
    ASSUME NEW body
    PROVE  Open(body).ok \in BOOLEAN
BY DEF Open, Malformed

LEMMA TypedNext == Typed /\ [Next]_vars => Typed'
<1> SUFFICES ASSUME Typed, [Next]_vars
             PROVE  Typed'
  OBVIOUS
<1>1. CASE SendOpen
  <2>1. stage' = "open"
    BY <1>1 DEF SendOpen
  <2>2. wide' \in BOOLEAN
    BY <1>1 DEF SendOpen
  <2>3. QED
    BY <2>1, <2>2 DEF Typed, Attended, Arrived
<1>2. CASE BeginUpdate
  <2>1. stage' = "composing" /\ wide' = wide
    BY <1>2 DEF BeginUpdate
  <2>2. PICK trail \in Trails, nlri \in BodyLists, withdrawn \in BodyLists :
            sent' = [trail |-> trail, parts |-> << >>, nlri |-> nlri, withdrawn |-> withdrawn]
    BY <1>2 DEF BeginUpdate
  <2>3. /\ sent'.trail = trail /\ sent'.parts = << >>
        /\ sent'.nlri = nlri /\ sent'.withdrawn = withdrawn
    BY <2>2
  <2>4. << >> \in Seq(Parts)
    OBVIOUS
  <2>5. Composed'
    BY <2>1, <2>3, <2>4 DEF Composed, Typed
  <2>6. QED
    BY <2>1, <2>5 DEF Typed, Attended, Arrived
<1>3. CASE PutPart
  <2>1. stage = "composing" /\ stage' = "composing" /\ wide' = wide
    BY <1>3 DEF PutPart
  <2>2. PICK part \in Parts : sent' = [sent EXCEPT !.parts = Append(@, part)]
    BY <1>3 DEF PutPart
  <2>3. Composed
    BY <2>1 DEF Typed, Attended
  <2>4. Append(sent.parts, part) \in Seq(Parts)
    BY <2>3 DEF Composed
  <2>5. /\ sent'.trail = sent.trail /\ sent'.nlri = sent.nlri /\ sent'.withdrawn = sent.withdrawn
        /\ sent'.parts = Append(sent.parts, part)
    BY <2>2
  <2>6. Composed'
    BY <2>1, <2>3, <2>4, <2>5 DEF Composed
  <2>7. QED
    BY <2>1, <2>6 DEF Typed, Attended, Arrived
<1>4. CASE SendUpdate
  <2>1. /\ stage = "composing" /\ stage' = "decoded" /\ wide' = wide /\ sent' = sent
        /\ Len(EncodedUpdate) <= Largest
        /\ received' = Update(EncodedUpdate, IF wide THEN 4 ELSE 2)
    BY <1>4 DEF SendUpdate, Largest
  <2>2. Composed
    BY <2>1 DEF Typed, Attended
  <2>3. EncodedUpdate \in Seq(Octet)
    BY <2>1, <2>2, UpdateSendable, Zenon DEF Sendable
  <2>7. wide' = wide /\ sent' = sent
    BY <2>1
  <2>4. EncodedUpdate' = EncodedUpdate
    BY <2>7 DEF EncodedUpdate, Encoded
  <2>5. Composed'
    BY <2>1, <2>2 DEF Composed
  <2>6. QED
    BY <2>1, <2>3, <2>4, <2>5 DEF Typed, Attended, Arrived
<1>5. CASE Lookup
  <2>1. /\ stage = "decoded" /\ stage' = "searched" /\ wide' = wide /\ sent' = sent /\ received' = received
        /\ received.ok
    BY <1>5 DEF Lookup
  <2>2. PICK ip \in Addresses :
            lookup' = [ip |-> ip,
                       prefix |-> Search(Announced(<<1, 1>>) \o Announced(<<2, 1>>), ip)]
    BY <1>5 DEF Lookup
  <2>3. Composed /\ EncodedUpdate \in Seq(Octet) /\ Len(EncodedUpdate) <= Largest
        /\ received = Update(EncodedUpdate, IF wide THEN 4 ELSE 2)
    BY <2>1 DEF Typed, Attended, Arrived
  <2>4. EncodedUpdate' = EncodedUpdate
    BY <2>1 DEF EncodedUpdate, Encoded
  <2>5. Composed'
    BY <2>1, <2>3 DEF Composed
  <2>6. received.ok = TRUE
    BY <2>1, <2>3, UpdateOk, Zenon
  <2>7. Announced(<<1, 1>>)' = Announced(<<1, 1>>) /\ Announced(<<2, 1>>)' = Announced(<<2, 1>>)
    BY <2>1 DEF Announced
  <2>8. lookup'.ip = ip /\ lookup'.prefix = Search(Announced(<<1, 1>>) \o Announced(<<2, 1>>), ip)
    BY <2>2
  <2>9. QED
    BY <2>1, <2>3, <2>4, <2>5, <2>6, <2>7, <2>8 DEF Typed, Attended, Arrived
<1>6. CASE UNCHANGED vars
  <2>1. EncodedUpdate' = EncodedUpdate
    BY <1>6 DEF vars, EncodedUpdate, Encoded
  <2>2. Announced(<<1, 1>>)' = Announced(<<1, 1>>) /\ Announced(<<2, 1>>)' = Announced(<<2, 1>>)
    BY <1>6 DEF vars, Announced
  <2>3. QED
    BY <1>6, <2>1, <2>2 DEF vars, Typed, Attended, Arrived, Composed
<1>7. QED
  BY <1>1, <1>2, <1>3, <1>4, <1>5, <1>6 DEF Next

(* A message under way is one the sender may compose, in at most 4096      *)
(* octets; what was received is its decoding with the width the OPEN gave, *)
(* and the answer of a search that of its own address (`update`,           *)
(* wire.rs:268; search, app.rs:718-754).                                   *)
THEOREM TypedAlways == Spec => []Typed
<1>1. QED
  BY TypedInit, TypedNext, PTL DEF Spec


(* Of the routes announced the prefixes, of one family and of both.        *)
LEMMA BothPrefixes ==
    ASSUME NEW a, NEW b, ArePrefixes(a), ArePrefixes(b), a = [i \in DOMAIN a |-> a[i]], b = [i \in DOMAIN b |-> b[i]]
    PROVE  ArePrefixes(a \o b)
<1>1. PICK M \in Nat : DOMAIN a = 1..M /\ \A i \in 1..M : Fits(a[i])
  BY Zenon DEF ArePrefixes
<1>2. PICK N \in Nat : DOMAIN b = 1..N /\ \A i \in 1..N : Fits(b[i])
  BY Zenon DEF ArePrefixes
<1> DEFINE F == {a[i] : i \in 1..M} \cup {b[i] : i \in 1..N}
<1>3. a \in [1..M -> F] /\ b \in [1..N -> F]
  BY <1>1, <1>2, Zenon
<1>4. \A p \in F : Fits(p)
  BY <1>1, <1>2, Zenon
<1> HIDE DEF F
<1>5. a \in Seq(F) /\ b \in Seq(F)
  BY <1>3, SeqOfFunction, Zenon
<1>6. a \o b \in Seq(F)
  BY <1>5, ConcatAny, Zenon
<1>7. Len(a \o b) \in Nat /\ DOMAIN (a \o b) = 1..Len(a \o b)
  BY <1>6
<1>8. \A i \in 1..Len(a \o b) : Fits((a \o b)[i])
  BY <1>4, <1>6, ElementOfSeq, Zenon
<1>9. QED
  BY <1>7, <1>8, Zenon DEF ArePrefixes

LEMMA AnnouncedTyped ==
    ASSUME Typed, stage = "searched", NEW f \in Plain
    PROVE  ArePrefixes(Announced(f)) /\ Announced(f) = [i \in DOMAIN Announced(f) |-> Announced(f)[i]]
<1> DEFINE w == IF wide THEN 4 ELSE 2
<1>1. EncodedUpdate \in Seq(Octet) /\ received = Update(EncodedUpdate, w) /\ received.ok = TRUE
  BY DEF Typed, Arrived
<1>2. CASE f \in DOMAIN received.announce
  <2>1. Announced(f) = OfRoutes(received.announce[f])
    BY <1>2, Zenon DEF Announced, OfRoutes
  <2>2. ArePrefixes(OfRoutes(received.announce[f]))
    BY <1>1, <1>2, UpdateTyped, Zenon
  <2>3. OfRoutes(received.announce[f])
          = [i \in DOMAIN OfRoutes(received.announce[f]) |-> OfRoutes(received.announce[f])[i]]
    BY DEF OfRoutes
  <2>4. QED
    BY <2>1, <2>2, <2>3, Zenon
<1>3. CASE f \notin DOMAIN received.announce
  <2>1. Announced(f) = << >>
    BY <1>3, Zenon DEF Announced
  <2>2. DOMAIN << >> = 1..0 /\ 0 \in Nat /\ << >> = [i \in DOMAIN << >> |-> << >>[i]]
    OBVIOUS
  <2>3. \A i \in 1..0 : Fits(<< >>[i])
    OBVIOUS
  <2>4. ArePrefixes(<< >>)
    BY <2>2, <2>3, Zenon DEF ArePrefixes
  <2>5. QED
    BY <2>1, <2>2, <2>4, Zenon
<1>4. QED
  BY <1>2, <1>3

LEMMA TypedLongest == Typed => LongestMatch
<1> SUFFICES ASSUME Typed, stage = "searched"
             PROVE  LongestMatch
  BY DEF LongestMatch
<1> DEFINE all == Announced(<<1, 1>>) \o Announced(<<2, 1>>)
           ip == lookup.ip
           inside == {all[i] : i \in {k \in DOMAIN all : Within(all[k], ip)}}
<1>1. <<1, 1>> \in Plain /\ <<2, 1>> \in Plain
  BY DEF Plain
<1>2. ArePrefixes(all)
  BY <1>1, AnnouncedTyped, BothPrefixes, Zenon
<1>3. ip \in Seq(Octet)
  <2>1. ip \in [1..4 -> Octet] \/ ip \in [1..16 -> Octet]
    BY AddressesAssumption DEF Typed
  <2>2. 4 \in Nat /\ 16 \in Nat
    OBVIOUS
  <2>3. QED
    BY <2>1, <2>2, SeqOfFunction, Zenon
<1>4. lookup.prefix = Search(all, ip)
  BY DEF Typed
<1> HIDE DEF all, ip
<1>5. IF inside = {} THEN lookup.prefix = Malformed
      ELSE lookup.prefix \in inside /\ \A p \in inside : p.length <= lookup.prefix.length
  BY <1>2, <1>3, <1>4, SearchLongest, Zenon
<1>6. QED
  BY <1>5, Zenon DEF LongestMatch, Within, all, ip

(* /routes/search answers with the longest of the announced prefixes that  *)
(* hold the address, bit by bit, whatever UPDATE they came in, and with    *)
(* nothing only if none holds it (prefix_match_len and max_by_key,         *)
(* app.rs:718-754).                                                        *)
THEOREM SearchesLongest == Spec => []LongestMatch
<1>1. QED
  BY TypedAlways, TypedLongest, PTL

-----------------------------------------------------------------------------
(* Prefixes, read back.                                                    *)

LEMMA OctetsForBounds ==
    ASSUME NEW bits \in Nat
    PROVE  /\ OctetsFor(bits) \in Nat
           /\ bits <= 8 * OctetsFor(bits)
           /\ 8 * OctetsFor(bits) <= bits + 7
BY DEF OctetsFor

LEMMA WidthIs ==
    ASSUME NEW afi
    PROVE  /\ Width(afi) \in {32, 128} /\ Width(afi) \in Nat
           /\ OctetsFor(Width(afi)) \in {4, 16} /\ 8 * OctetsFor(Width(afi)) = Width(afi)
BY DEF Width, OctetsFor

LEMMA ZeroBits ==
    ASSUME NEW j \in 1..8
    PROVE  BitOf(0, j) = 0
<1>1. 0 \in Octet
  BY DEF Octet
<1>2. 0 \div 128 = 0 /\ 0 \div 64 = 0 /\ 0 \div 32 = 0 /\ 0 \div 16 = 0 /\ 0 \div 8 = 0
      /\ 0 \div 4 = 0 /\ 0 \div 2 = 0 /\ 0 \div 1 = 0
  OBVIOUS
<1>3. Lead(0, j) = 0
  BY <1>2, LeadIs
<1>4. QED
  BY <1>3 DEF BitOf

(* The octets of an address, from those of a prefix.                       *)
Filled(raw, bits, n, masked) ==
    [k \in 1..n |-> IF k > Len(raw) THEN 0
                    ELSE IF masked THEN Mask(raw[k], bits - 8 * (k - 1))
                    ELSE raw[k]]

BitFilled(bits, pad, masked, n, i, j) ==
    BitOf(Filled(ToOctets(bits, pad), Len(bits), n, masked)[i], j)
      = IF 8 * (i - 1) + j <= Len(bits) THEN bits[8 * (i - 1) + j] ELSE 0

(* Bit j of octet i is bit 8 (i - 1) + j of the prefix, or zero beyond it. *)
LEMMA FilledBit ==
    ASSUME NEW bits \in Seq({0, 1}), NEW pad \in {0, 1}, NEW masked \in BOOLEAN,
           masked = TRUE \/ pad = 0,
           NEW n \in Nat, NEW i \in 1..n, NEW j \in 1..8
    PROVE  BitFilled(bits, pad, masked, n, i, j)
<1> DEFINE raw == ToOctets(bits, pad)
           q == OctetsFor(Len(bits))
           k == 8 * (i - 1) + j
           octet == Filled(raw, Len(bits), n, masked)[i]
<1>1. /\ raw \in Seq(Octet) /\ Len(raw) = q /\ Len(bits) \in Nat
      /\ i \in 1..q => BitOf(raw[i], j) = PaddedBit(bits, pad, k)
  <2>1. /\ raw \in Seq(Octet) /\ Len(raw) = q
        /\ \A a \in 1..q, b \in 1..8 : BitOf(raw[a], b) = PaddedBit(bits, pad, 8 * (a - 1) + b)
    BY ToOctetsIs, Zenon
  <2>2. i \in 1..q => BitOf(raw[i], j) = PaddedBit(bits, pad, k)
    <3> HIDE DEF raw, q
    <3>1. QED
      BY <2>1, Zenon
  <2>3. QED
    BY <2>1, <2>2
<1>2. q \in Nat /\ Len(bits) <= 8 * q /\ 8 * q <= Len(bits) + 7
  BY <1>1, OctetsForBounds
<1>3. octet = IF i > q THEN 0 ELSE IF masked THEN Mask(raw[i], Len(bits) - 8 * (i - 1)) ELSE raw[i]
  BY <1>1 DEF Filled
<1>4. k \in Nat \ {0}
  OBVIOUS
<1> HIDE DEF raw, q, octet
<1>5. CASE i > q
  <2>1. k > Len(bits)
    BY <1>1, <1>2, <1>5
  <2>2. BitOf(octet, j) = 0
    BY <1>3, <1>5, ZeroBits
  <2>3. QED
    BY <2>1, <2>2, <1>1, <1>4 DEF raw, octet, BitFilled
<1>6. CASE i <= q
  <2>1. i \in 1..q
    BY <1>6, <1>2
  <2>2. BitOf(raw[i], j) = PaddedBit(bits, pad, k) /\ raw[i] \in Octet
    BY <1>1, <2>1, OctetIn
  <2>3. k <= Len(bits) => PaddedBit(bits, pad, k) = bits[k]
    BY DEF PaddedBit
  <2>4. CASE masked = TRUE
    <3>1. octet = Mask(raw[i], Len(bits) - 8 * (i - 1))
      BY <1>3, <2>1, <1>2, <2>4
    <3>2. Len(bits) - 8 * (i - 1) \in Int
      BY <1>1
    <3>3. BitOf(octet, j) = IF j <= Len(bits) - 8 * (i - 1) THEN BitOf(raw[i], j) ELSE 0
      BY <2>2, <3>1, <3>2, MaskBits
    <3>4. j <= Len(bits) - 8 * (i - 1) <=> k <= Len(bits)
      BY <1>1
    <3>5. QED
      BY <3>3, <3>4, <2>2, <2>3 DEF raw, octet, BitFilled
  <2>5. CASE masked = FALSE
    <3>1. octet = raw[i]
      BY <1>3, <2>1, <1>2, <2>5
    <3>2. ~(k <= Len(bits)) => PaddedBit(bits, pad, k) = 0
      BY <2>5 DEF PaddedBit
    <3>3. QED
      BY <3>1, <3>2, <2>2, <2>3 DEF raw, octet, BitFilled
  <2>6. QED
    BY <2>4, <2>5
<1>7. QED
  BY <1>2, <1>5, <1>6

LEMMA PrefixRead ==
    ASSUME NEW afi, NEW p \in SentPrefixes(afi), NEW masked \in BOOLEAN, masked = TRUE \/ p.pad = 0
    PROVE  SamePrefix(Prefix(ToOctets(p.bits, p.pad), Len(p.bits), afi, masked), p, Width(afi))
<1> DEFINE n == OctetsFor(Width(afi))
           raw == ToOctets(p.bits, p.pad)
           net == Filled(raw, Len(p.bits), n, masked)
           prefix == Prefix(raw, Len(p.bits), afi, masked)
<1>1. p.bits \in Seq({0, 1}) /\ p.pad \in {0, 1} /\ Len(p.bits) \in Nat
  BY EncodedPrefixIs
<1>2. prefix.length = Len(p.bits) /\ prefix.net = net
  BY DEF Prefix, Filled
<1>3. n \in Nat /\ 8 * n = Width(afi) /\ Width(afi) \in Nat
  BY WidthIs
<1>4. Len(net) = n
  <2> HIDE DEF n
  <2>1. QED
    BY <1>3 DEF Filled
<1>5. ASSUME NEW k \in 1..Width(afi)
      PROVE  Bit(net, k) = IF k <= Len(p.bits) THEN p.bits[k] ELSE 0
  <2>1. PICK i \in Nat \ {0}, j \in 1..8 : k = 8 * (i - 1) + j
    BY BitPlace
  <2>2. i \in 1..n
    <3> HIDE DEF n
    <3>1. QED
      BY <2>1, <1>3
  <2>3. Bit(net, k) = BitOf(net[i], j)
    BY <2>1, BitAt
  <2>4. BitOf(net[i], j) = IF 8 * (i - 1) + j <= Len(p.bits) THEN p.bits[8 * (i - 1) + j] ELSE 0
    <3> HIDE DEF n
    <3>1. masked = TRUE \/ p.pad = 0
      OBVIOUS
    <3>2. BitFilled(p.bits, p.pad, masked, n, i, j)
      BY <1>1, <1>3, <2>2, <3>1, FilledBit, Zenon
    <3>3. QED
      BY <3>2 DEF BitFilled
  <2>5. QED
    BY <2>1, <2>3, <2>4
<1>6. 8 * Len(prefix.net) = Width(afi)
  BY <1>2, <1>3, <1>4
<1>7. QED
  <2> HIDE DEF prefix, net
  <2>1. QED
    BY <1>2, <1>5, <1>6 DEF SamePrefix, prefix

LEMMA PrefixSized ==
    ASSUME NEW afi, NEW p \in SentPrefixes(afi), NEW t \in Seq(Octet)
    PROVE  PrefixSize(afi)[EncodedPrefix(p) \o t] = Len(EncodedPrefix(p))
<1> DEFINE x == EncodedPrefix(p)
<1>1. x \in Data /\ x[1] = Len(p.bits) /\ Len(x) = 1 + OctetsFor(Len(p.bits))
      /\ Len(p.bits) \in 0..Width(afi)
  BY EncodedPrefixIs
<1>2. Width(afi) \in Nat
  BY WidthIs
<1> HIDE DEF x
<1>3. x \o t \in Data /\ (x \o t)[1] = Len(p.bits)
  BY <1>1, DataMore
<1>4. ~((x \o t)[1] > Width(afi))
  BY <1>1, <1>2, <1>3
<1>5. QED
  BY <1>1, <1>3, <1>4 DEF PrefixSize, x

LEMMA SixteenWide ==
    ASSUME NEW afi
    PROVE  (IF afi = 2 THEN 128 ELSE 32) = Width(afi)
BY DEF Width

LEMMA UnicastRead ==
    ASSUME NEW afi, NEW list \in Seq(SentPrefixes(afi)), NEW hop, NEW safi, safi # 133
    PROVE  /\ Unicast(EncodedPrefixes(list), afi, hop).ok = TRUE
           /\ SameRoutes(Unicast(EncodedPrefixes(list), afi, hop).routes, list, <<afi, safi>>, hop)
<1> DEFINE S == SentPrefixes(afi)
           pieces == [i \in DOMAIN list |-> EncodedPrefix(list[i])]
           split == Split(EncodedPrefixes(list), PrefixSize(afi))
           Route(item) == [prefix |-> Prefix(Tail(item), item[1], afi, TRUE), next_hop |-> hop]
           routes == [i \in DOMAIN pieces |-> Route(pieces[i])]
<1>0. list \in Seq(S)
  OBVIOUS
<1>1. pieces \in Seq(Data) /\ DOMAIN pieces = DOMAIN list /\ DOMAIN list = 1..Len(list)
      /\ Len(list) \in Nat /\ \A i \in DOMAIN list : list[i] \in S
  <2>1. pieces \in Seq(Data)
    BY EncodedPrefixesIs
  <2> HIDE DEF S
  <2>2. QED
    BY <1>0, <2>1
<1>2. Sized(pieces, PrefixSize(afi))
  <2> SUFFICES ASSUME NEW i \in DOMAIN pieces, NEW t \in Seq(Octet)
               PROVE  PrefixSize(afi)[pieces[i] \o t] = Len(pieces[i])
    BY DEF Sized
  <2>1. list[i] \in SentPrefixes(afi) /\ pieces[i] = EncodedPrefix(list[i])
    BY <1>1
  <2> HIDE DEF pieces
  <2>2. QED
    BY <2>1, PrefixSized
<1>3. EncodedPrefixes(list) = FlattenSeq(pieces)
  BY DEF EncodedPrefixes
<1>4. split = [ok |-> TRUE, items |-> pieces]
  <2>1. PrefixSize(afi) \in [Data -> Nat \ {0}]
    BY PrefixSizeType
  <2> HIDE DEF pieces
  <2>2. QED
    BY <1>1, <1>2, <1>3, <2>1, SplitOf, Zenon
<1>5. split.ok = TRUE /\ split.items = pieces
  <2> HIDE DEF split, pieces
  <2>1. QED
    BY <1>4
<1>6. Unicast(EncodedPrefixes(list), afi, hop) = [ok |-> split.ok, routes |-> [i \in DOMAIN split.items |-> Route(split.items[i])]]
  BY DEF Unicast
<1>7. Unicast(EncodedPrefixes(list), afi, hop) = [ok |-> TRUE, routes |-> routes]
  <2> HIDE DEF split, pieces
  <2>1. QED
    BY <1>5, <1>6
<1>8. Len(routes) = Len(list)
  <2> HIDE DEF pieces
  <2>1. QED
    BY <1>1
<1>9. ASSUME NEW i \in DOMAIN list
      PROVE  SamePrefix(routes[i].prefix, list[i], Width(afi)) /\ routes[i].next_hop = hop
  <2>1. list[i] \in SentPrefixes(afi) /\ i \in DOMAIN pieces /\ pieces[i] = EncodedPrefix(list[i])
    BY <1>1
  <2>2. pieces[i][1] = Len(list[i].bits) /\ Tail(pieces[i]) = ToOctets(list[i].bits, list[i].pad)
    <3> HIDE DEF pieces
    <3>1. QED
      BY <2>1, EncodedPrefixIs, SMTT(60)
  <2>3. routes[i] = Route(pieces[i])
    BY <2>1
  <2>4. routes[i].prefix = Prefix(ToOctets(list[i].bits, list[i].pad), Len(list[i].bits), afi, TRUE)
        /\ routes[i].next_hop = hop
    <3>1. routes[i].prefix = Prefix(Tail(pieces[i]), pieces[i][1], afi, TRUE)
          /\ routes[i].next_hop = hop
      BY <2>3
    <3> HIDE DEF pieces, routes, Route
    <3>2. QED
      BY <2>2, <3>1
  <2>5. SamePrefix(Prefix(ToOctets(list[i].bits, list[i].pad), Len(list[i].bits), afi, TRUE), list[i], Width(afi))
    BY <2>1, PrefixRead
  <2>6. QED
    <3> HIDE DEF pieces, routes
    <3>1. QED
      BY <2>4, <2>5
<1>10. Unicast(EncodedPrefixes(list), afi, hop).ok = TRUE
       /\ Unicast(EncodedPrefixes(list), afi, hop).routes = routes
  <2> HIDE DEF routes
  <2>1. QED
    BY <1>7
<1>11. SameRoutes(routes, list, <<afi, safi>>, hop)
  <2>1. <<afi, safi>>[1] = afi /\ <<afi, safi>>[2] = safi
    OBVIOUS
  <2> HIDE DEF routes
  <2>2. QED
    BY <1>8, <1>9, <2>1, SixteenWide DEF SameRoutes
<1>12. QED
  <2> HIDE DEF routes
  <2>1. QED
    BY <1>10, <1>11

-----------------------------------------------------------------------------
(* Components and rules, read back.                                        *)

ComponentRead(c, afi, piece) ==
    /\ piece \in Data
    /\ piece[1] = c.kind
    /\ \A t \in Seq(Octet) : ComponentSize(afi)[piece \o t] = Len(piece)
    /\ IF c.kind \in {1, 2} THEN SamePrefix(Component(piece, afi), c.prefix, Width(afi))
       ELSE Component(piece, afi) = ValuesOf(c.kind, c.values)

InFront(kind, s, x, t) ==
    /\ x \in Data /\ x[1] = kind /\ Tail(x) = s /\ Len(x) = 1 + Len(s)
    /\ x \o t \in Data /\ (x \o t)[1] = kind /\ Tail(x \o t) = s \o t
    /\ x[2] = s[1] /\ After(x, 2) = After(s, 1)

LEMMA KindInFront ==
    ASSUME NEW kind \in Octet, NEW s \in Data, NEW t \in Seq(Octet)
    PROVE  InFront(kind, s, <<kind>> \o s, t)
<1> DEFINE x == <<kind>> \o s
<1>1. s \in Seq(Octet) /\ Len(s) \in Nat \ {0} /\ <<kind>> \in Seq(Octet)
  BY DataIs
<1>2. x \in Seq(Octet) /\ x \in Data /\ x[1] = kind /\ Tail(x) = s /\ After(x, 1) = s /\ Len(x) = 1 + Len(s)
  BY <1>1, HeadAndTail
<1>3. s \o t \in Seq(Octet)
  BY <1>1, Concat
<1>4. x \o t = <<kind>> \o (s \o t)
  BY <1>1, Joined
<1>5. x \o t \in Data /\ (x \o t)[1] = kind /\ Tail(x \o t) = s \o t
  BY <1>3, <1>4, HeadAndTail
<1>6. x[2] = s[1]
  BY <1>1
<1>7. After(x, 2) = After(s, 1)
  <2> HIDE DEF x
  <2>1. After(After(x, 1), 1) = After(x, 1 + 1)
    BY <1>2, AfterAfter
  <2>2. QED
    BY <1>2, <2>1
<1>8. QED
  BY <1>2, <1>5, <1>6, <1>7 DEF InFront

IsPrefixed(c, afi) == c.kind \in {1, 2} /\ c.prefix \in SentPrefixes(afi) /\ c.prefix.pad = 0

LEMMA PrefixComponent ==
    ASSUME NEW afi, NEW c, IsPrefixed(c, afi)
    PROVE  ComponentRead(c, afi, EncodedComponent(c))
<1> DEFINE s == EncodedPrefix(c.prefix)
           x == <<c.kind>> \o s
<1>0. c.kind \in {1, 2} /\ c.prefix \in SentPrefixes(afi) /\ c.prefix.pad = 0
  BY DEF IsPrefixed
<1>1. c.kind \in Octet
  BY <1>0 DEF Octet
<1>2. /\ s \in Data /\ s \in Seq(Octet) /\ s[1] = Len(c.prefix.bits)
      /\ ToOctets(c.prefix.bits, c.prefix.pad) \in Seq(Octet)
      /\ Len(c.prefix.bits) \in Octet
  <2>1. s \in Data /\ s \in Seq(Octet) /\ s[1] = Len(c.prefix.bits)
    BY <1>0, EncodedPrefixIs
  <2>2. c.prefix.bits \in Seq({0, 1}) /\ c.prefix.pad \in {0, 1}
    BY <1>0, EncodedPrefixIs
  <2>3. s[1] \in Octet
    BY <2>1, DataIs
  <2>4. QED
    BY <2>1, <2>2, <2>3, ToOctetsIs
<1>3. s = <<Len(c.prefix.bits)>> \o ToOctets(c.prefix.bits, c.prefix.pad)
  BY DEF EncodedPrefix
<1>4. After(s, 1) = ToOctets(c.prefix.bits, c.prefix.pad)
  <2> HIDE DEF s
  <2>1. QED
    BY <1>2, <1>3, HeadAndTail
<1>5. EncodedComponent(c) = x
  BY <1>0 DEF EncodedComponent
<1> HIDE DEF s
<1>6. x \in Data /\ x[1] = c.kind /\ x[2] = s[1] /\ After(x, 2) = After(s, 1) /\ Len(x) = 1 + Len(s)
  <2>1. s \in Data /\ << >> \in Seq(Octet)
    BY <1>2
  <2>2. InFront(c.kind, s, x, << >>)
    BY <2>1, <1>1, KindInFront, Zenon
  <2>3. QED
    BY <2>2, Zenon DEF InFront
<1>7. ASSUME NEW t \in Seq(Octet)
      PROVE  ComponentSize(afi)[x \o t] = Len(x)
  <2>1. x \o t \in Data /\ (x \o t)[1] = c.kind /\ Tail(x \o t) = s \o t
    <3>1. s \in Data
      BY <1>2
    <3>2. InFront(c.kind, s, x, t)
      BY <3>1, <1>1, KindInFront, Zenon
    <3>3. QED
      BY <3>2, Zenon DEF InFront
  <2>2. s \o t \in Data /\ s \o t # << >>
    BY <1>2, DataMore, DataIs
  <2>3. PrefixSize(afi)[s \o t] = Len(s)
    BY <1>0, PrefixSized DEF s
  <2>4. ComponentSize(afi)[x \o t] = 1 + PrefixSize(afi)[Tail(x \o t)]
    <3> HIDE DEF x
    <3>1. QED
      BY <1>0, <2>1, <2>2 DEF ComponentSize
  <2>5. QED
    BY <2>1, <2>3, <2>4, <1>6
<1>8. Component(x, afi) = Prefix(After(x, 2), x[2], afi, FALSE)
  BY <1>0, <1>6 DEF Component
<1>9. SamePrefix(Component(x, afi), c.prefix, Width(afi))
  <2>1. SamePrefix(Prefix(ToOctets(c.prefix.bits, c.prefix.pad), Len(c.prefix.bits), afi, FALSE), c.prefix, Width(afi))
    BY <1>0, PrefixRead
  <2> HIDE DEF x
  <2>2. QED
    BY <1>2, <1>4, <1>6, <1>8, <2>1
<1>10. QED
  <2> HIDE DEF x
  <2>1. QED
    BY <1>5, <1>6, <1>7, <1>9 DEF ComponentRead, IsPrefixed

LEMMA ValuesComponent ==
    ASSUME NEW afi, NEW c, c.kind \in Octet, c.kind \notin {1, 2},
           c.values \in Seq(SentValues(c.kind)), c.values # << >>
    PROVE  ComponentRead(c, afi, EncodedComponent(c))
<1> DEFINE s == EncodedValues(c.values)
           pieces == [i \in DOMAIN c.values |-> EncodedValue(c.values, i)]
           x == <<c.kind>> \o s
<1>1. c.kind \in Octet /\ c.kind \notin {1, 2}
  OBVIOUS
<1>2. ValuesRead(c.kind, c.values)
  BY EncodedValuesRead
<1>3. /\ s \in Data /\ pieces # << >> /\ Last(pieces) \in Ending /\ s = FlattenSeq(pieces)
      /\ Values(s) = pieces
  BY <1>2, Zenon DEF ValuesRead
<1>4. \A t \in Seq(Octet) : Values(s \o t) = pieces
  BY <1>2, Zenon DEF ValuesRead
<1>5. [i \in DOMAIN pieces |-> <<Symbol(c.kind, pieces[i][1]), Shown(c.kind, BigEndian(Tail(pieces[i])))>>]
        = ValuesOf(c.kind, c.values)
  BY <1>2, Zenon DEF ValuesRead
<1>6. EncodedComponent(c) = x
  BY <1>1 DEF EncodedComponent
<1> HIDE DEF s, pieces
<1>0. s \in Data /\ << >> \in Seq(Octet)
  BY <1>3
<1>7. x \in Data /\ x[1] = c.kind /\ Tail(x) = s /\ Len(x) = 1 + Len(s)
  <2>1. InFront(c.kind, s, x, << >>)
    BY <1>0, <1>1, KindInFront, Zenon
  <2>2. QED
    BY <2>1, Zenon DEF InFront
<1>8. ASSUME NEW t \in Seq(Octet)
      PROVE  ComponentSize(afi)[x \o t] = Len(x)
  <2>1. x \o t \in Data /\ (x \o t)[1] = c.kind /\ Tail(x \o t) = s \o t
    <3>1. InFront(c.kind, s, x, t)
      BY <1>0, <1>1, KindInFront, Zenon
    <3>2. QED
      BY <3>1, Zenon DEF InFront
  <2>2. Values(Tail(x \o t)) = pieces
    BY <1>4, <2>1
  <2> HIDE DEF x
  <2>3. ComponentSize(afi)[x \o t] = 1 + Len(FlattenSeq(pieces))
    BY <1>1, <1>3, <2>1, <2>2 DEF ComponentSize
  <2>4. QED
    BY <1>3, <1>7, <2>3
<1>9. Component(x, afi) = ValuesOf(c.kind, c.values)
  <2>1. Values(Tail(x)) = pieces
    BY <1>3, <1>7
  <2> HIDE DEF x
  <2>2. Component(x, afi) = [i \in DOMAIN pieces |-> <<Symbol(c.kind, pieces[i][1]), Shown(c.kind, BigEndian(Tail(pieces[i])))>>]
    BY <1>1, <1>7, <2>1, Zenon DEF Component
  <2>3. QED
    BY <1>5, <2>2
<1>10. QED
  <2> HIDE DEF x
  <2>1. QED
    BY <1>1, <1>6, <1>7, <1>8, <1>9 DEF ComponentRead

LEMMA EncodedComponentRead ==
    ASSUME NEW afi, NEW c, IsComponent(c, afi)
    PROVE  ComponentRead(c, afi, EncodedComponent(c))
<1>1. CASE c.kind \in {1, 2}
  <2>1. c.prefix \in SentPrefixes(afi) /\ c.prefix.pad = 0
    BY <1>1, Zenon DEF IsComponent
  <2>2. QED
    BY <1>1, <2>1, PrefixComponent, Zenon DEF IsPrefixed
<1>2. CASE c.kind \notin {1, 2}
  <2>1. c.values \in Seq(SentValues(c.kind)) /\ c.values # << >>
    BY <1>2, Zenon DEF IsComponent
  <2>2. c.kind \in Octet
    BY EncodedComponentIs, Zenon
  <2>3. QED
    BY <1>2, <2>1, <2>2, ValuesComponent, Zenon
<1>3. QED
  BY <1>1, <1>2, Zenon

LEMMA ComponentSizeType ==
    ASSUME NEW afi
    PROVE  ComponentSize(afi) \in [Data -> Nat \ {0}]
<1> DEFINE values(data) == Values(Tail(data))
           size(data) == IF data[1] \in {1, 2}
                         THEN IF Tail(data) = << >> THEN 2 ELSE 1 + PrefixSize(afi)[Tail(data)]
                         ELSE IF values(data) # << >> /\ Last(values(data)) \in Ending
                              THEN 1 + Len(FlattenSeq(values(data)))
                              ELSE Len(data) + 1
<1>1. ASSUME NEW data \in Data
      PROVE  size(data) \in Nat \ {0}
  <2>1. Tail(data) \in Seq(Octet) /\ Len(data) \in Nat
    BY DataIs
  <2>2. 2 \in Nat \ {0} /\ Len(data) + 1 \in Nat \ {0}
    BY <2>1
  <2>3. Tail(data) # << >> => 1 + PrefixSize(afi)[Tail(data)] \in Nat \ {0}
    <3>1. SUFFICES ASSUME Tail(data) # << >>
                   PROVE  1 + PrefixSize(afi)[Tail(data)] \in Nat \ {0}
      OBVIOUS
    <3>2. Tail(data) \in Data
      BY <2>1, <3>1 DEF Data
    <3>3. PrefixSize(afi)[Tail(data)] \in Nat
      BY <3>2, PrefixSizeType
    <3>4. QED
      BY <3>3
  <2>4. values(data) \in Seq(Data)
    BY <2>1, ValueSizeType, ItemsInData, Zenon DEF Values
  <2>5. FlattenSeq(values(data)) \in Seq(Octet)
    <3> DEFINE R == Seq(Octet)
    <3> HIDE DEF values
    <3>1. values(data) \in Seq(R)
      BY <2>4, DataSeqs, Zenon
    <3>2. QED
      BY <3>1, FlattenIn, Zenon
  <2>6. 1 + Len(FlattenSeq(values(data))) \in Nat \ {0}
    <3> HIDE DEF values
    <3>1. QED
      BY <2>5
  <2> HIDE DEF values
  <2>7. QED
    BY <2>2, <2>3, <2>6, Zenon
<1>2. ComponentSize(afi) = [data \in Data |-> size(data)]
  BY DEF ComponentSize
<1> HIDE DEF size
<1>3. QED
  BY <1>1, <1>2

RulePiecesOf(rule) == [i \in DOMAIN rule |-> EncodedComponent(rule[i])]

LEMMA RuleSplit ==
    ASSUME NEW afi, NEW rule, IsRule(rule, afi)
    PROVE  Split(RuleBody(rule), ComponentSize(afi)) = [ok |-> TRUE, items |-> RulePiecesOf(rule)]
<1> DEFINE pieces == RulePiecesOf(rule)
<1>1. Len(rule) \in Nat /\ DOMAIN rule = 1..Len(rule) /\ pieces \in Seq(Data)
  BY RulePieces, Zenon DEF RulePiecesOf
<1>2. \A i \in DOMAIN rule : IsComponent(rule[i], afi)
  BY Zenon DEF IsRule
<1>3. Sized(pieces, ComponentSize(afi))
  <2> SUFFICES ASSUME NEW i \in DOMAIN pieces, NEW t \in Seq(Octet)
               PROVE  ComponentSize(afi)[pieces[i] \o t] = Len(pieces[i])
    BY DEF Sized
  <2>1. i \in DOMAIN rule /\ pieces[i] = EncodedComponent(rule[i])
    BY DEF RulePiecesOf
  <2>2. ComponentRead(rule[i], afi, EncodedComponent(rule[i]))
    BY <1>2, <2>1, EncodedComponentRead, Zenon
  <2> HIDE DEF pieces
  <2>3. QED
    BY <2>1, <2>2, Zenon DEF ComponentRead
<1>4. RuleBody(rule) = FlattenSeq(pieces)
  BY DEF RuleBody, RulePiecesOf
<1>5. ComponentSize(afi) \in [Data -> Nat \ {0}]
  BY ComponentSizeType
<1> HIDE DEF pieces
<1>6. Split(RuleBody(rule), ComponentSize(afi)) = [ok |-> TRUE, items |-> pieces]
  BY <1>1, <1>3, <1>4, <1>5, SplitOf, Zenon
<1>7. QED
  BY <1>6 DEF pieces

(* A rule comes back component by component.                               *)
LEMMA RuleRead ==
    ASSUME NEW afi, NEW rule, IsRule(rule, afi)
    PROVE  /\ Components(RuleBody(rule), afi).ok = TRUE
           /\ SameRule(Components(RuleBody(rule), afi).rule, rule, Width(afi))
<1> DEFINE pieces == RulePiecesOf(rule)
           list == [ok |-> TRUE, items |-> pieces]
           Given(kind) == {i \in DOMAIN pieces : pieces[i][1] = kind}
           kinds == {pieces[i][1] : i \in DOMAIN pieces}
           decoded == [kind \in kinds |-> Component(pieces[Max(Given(kind))], afi)]
<1>1. Len(rule) \in Nat /\ DOMAIN rule = 1..Len(rule)
  BY RulePieces, Zenon
<1>2. \A i \in DOMAIN rule : IsComponent(rule[i], afi)
  BY Zenon DEF IsRule
<1>3. \A i, j \in DOMAIN rule : rule[i].kind = rule[j].kind => i = j
  BY Zenon DEF IsRule
<1>4. DOMAIN pieces = DOMAIN rule
  BY DEF RulePiecesOf
<1>5. \A i \in DOMAIN rule : ComponentRead(rule[i], afi, pieces[i])
  <2> SUFFICES ASSUME NEW i \in DOMAIN rule
               PROVE  ComponentRead(rule[i], afi, pieces[i])
    OBVIOUS
  <2>1. pieces[i] = EncodedComponent(rule[i])
    BY DEF RulePiecesOf
  <2>2. QED
    BY <1>2, <2>1, EncodedComponentRead, Zenon
<1>6. \A i \in DOMAIN rule : pieces[i][1] = rule[i].kind
  BY <1>5, Zenon DEF ComponentRead
<1>7. Components(RuleBody(rule), afi) = [ok |-> TRUE, rule |-> decoded]
  <2>1. Components(RuleBody(rule), afi) = Gathered(list, afi)
    BY RuleSplit, Zenon DEF Components
  <2>2. list.ok = TRUE /\ list.items = pieces
    OBVIOUS
  <2> HIDE DEF list, pieces
  <2>3. Gathered(list, afi) = [ok |-> TRUE, rule |-> decoded]
    BY <2>2 DEF Gathered
  <2>4. QED
    BY <2>1, <2>3
<1> HIDE DEF pieces
<1>8. kinds = {rule[i].kind : i \in DOMAIN rule}
  BY <1>4, <1>6
<1>9. ASSUME NEW i \in DOMAIN rule
      PROVE  /\ rule[i].kind \in kinds
             /\ decoded[rule[i].kind] = Component(pieces[i], afi)
  <2>1. rule[i].kind \in kinds
    BY <1>8
  <2>2. Given(rule[i].kind) = {i}
    BY <1>3, <1>4, <1>6
  <2>3. Max({i}) = i
    <3>1. {i} \in SUBSET (1..Len(rule)) /\ {i} # {}
      BY <1>1
    <3>2. QED
      BY <1>1, <3>1, MaxIn
  <2>4. decoded[rule[i].kind] = Component(pieces[Max(Given(rule[i].kind))], afi)
    <3> HIDE DEF kinds, Given
    <3>1. QED
      BY <2>1
  <2>5. QED
    BY <2>1, <2>2, <2>3, <2>4
<1>10. DOMAIN decoded = kinds
  <2> HIDE DEF kinds, Given
  <2>1. QED
    OBVIOUS
<1>11. SameRule(decoded, rule, Width(afi))
  <2> HIDE DEF kinds, decoded
  <2>1. ASSUME NEW i \in DOMAIN rule
        PROVE  IF rule[i].kind \in {1, 2} THEN SamePrefix(decoded[rule[i].kind], rule[i].prefix, Width(afi))
               ELSE decoded[rule[i].kind] = ValuesOf(rule[i].kind, rule[i].values)
    <3>1. decoded[rule[i].kind] = Component(pieces[i], afi)
      BY <1>9
    <3>2. IF rule[i].kind \in {1, 2} THEN SamePrefix(Component(pieces[i], afi), rule[i].prefix, Width(afi))
          ELSE Component(pieces[i], afi) = ValuesOf(rule[i].kind, rule[i].values)
      BY <1>5, Zenon DEF ComponentRead
    <3>3. QED
      BY <3>1, <3>2
  <2>2. QED
    BY <1>8, <1>10, <2>1 DEF SameRule, ValuesOf
<1>12. QED
  <2> HIDE DEF decoded
  <2>1. QED
    BY <1>7, <1>11

(* What stands in front of a rule says how long it is.                     *)
LEMMA RuleLengthRead ==
    ASSUME NEW n \in Nat, n <= Largest, NEW s \in Seq(Octet)
    PROVE  /\ RuleHead(n) \in Data /\ Len(RuleHead(n)) \in {1, 2}
           /\ RuleLength(RuleHead(n) \o s) = [length |-> n, size |-> Len(RuleHead(n))]
           /\ After(RuleHead(n) \o s, Len(RuleHead(n))) = s
<1>1. RuleHead(n) \in Seq(Octet) /\ Len(RuleHead(n)) \in {1, 2}
  BY RuleHeadIs
<1>2. After(RuleHead(n) \o s, Len(RuleHead(n))) = s
  BY <1>1, AfterOf, Zenon
<1>3. RuleHead(n) \in Data
  <2>1. RuleHead(n) # << >>
    <3> DEFINE k == Len(RuleHead(n))
    <3>0. k \in {1, 2}
      BY <1>1, Zenon
    <3> HIDE DEF k
    <3>1. k # 0
      BY <3>0
    <3>2. Len(<< >>) = 0
      OBVIOUS
    <3>3. QED
      BY <3>1, <3>2, Zenon DEF k
  <2>2. QED
    BY <1>1, <2>1, Zenon DEF Data
<1>4. RuleLength(RuleHead(n) \o s) = [length |-> n, size |-> Len(RuleHead(n))]
  <2>1. CASE n < 240
    <3>1. RuleHead(n) = <<n>> /\ n \in Octet
      BY <2>1 DEF RuleHead, Octet
    <3>2. (<<n>> \o s)[1] = n
      BY <3>1, HeadAndTail
    <3>3. QED
      BY <2>1, <3>1, <3>2 DEF RuleLength
  <2>2. CASE ~(n < 240)
    <3> DEFINE a == 240 + n \div 256  b == n % 256
    <3>1. RuleHead(n) = <<a, b>>
      BY <2>2 DEF RuleHead
    <3>2. n \div 256 \in 0..15 /\ b \in 0..255 /\ n = 256 * (n \div 256) + b
      <4>1. n <= 4077
        BY DEF Largest
      <4>2. QED
        BY <4>1
    <3>3. a \in Octet /\ b \in Octet /\ a \in Nat /\ ~(a < 240) /\ a % 16 = n \div 256
      <4> DEFINE q == n \div 256
      <4>1. q \in Nat /\ q <= 15
        BY <3>2
      <4>2. b \in Octet
        BY <3>2 DEF Octet
      <4> HIDE DEF q, b
      <4>3. 240 + q \in 0..255 /\ 240 + q \in Nat /\ ~(240 + q < 240)
        BY <4>1
      <4>4. (240 + q) % 16 = q
        BY <4>1
      <4>5. a = 240 + q
        BY DEF q
      <4> HIDE DEF a
      <4>6. QED
        BY <4>2, <4>3, <4>4, <4>5 DEF Octet, q
    <3> HIDE DEF a, b
    <3>4. /\ <<a, b>> \o s \in Seq(Octet) /\ (<<a, b>> \o s)[1] = a /\ (<<a, b>> \o s)[2] = b
          /\ Len(<<a, b>> \o s) = 2 + Len(s) /\ Len(s) \in Nat
      BY <3>3, HeadTwo
    <3>5. ~Short(<<a, b>> \o s, 2)
      BY <3>4 DEF Short
    <3>6. RuleLength(<<a, b>> \o s) = [length |-> 256 * (a % 16) + b, size |-> 2]
      BY <3>3, <3>4, <3>5, ZenonT(60) DEF RuleLength
    <3>7. 256 * (a % 16) + b = n
      BY <3>2, <3>3
    <3>8. Len(<<a, b>>) = 2
      OBVIOUS
    <3>9. QED
      BY <3>1, <3>6, <3>7, <3>8
  <2>3. QED
    BY <2>1, <2>2
<1>5. QED
  BY <1>1, <1>2, <1>3, <1>4

RuleEncoded(rule, piece) ==
    /\ piece \in Data
    /\ \A t \in Seq(Octet) : RuleSize[piece \o t] = Len(piece)
    /\ After(piece, RuleLength(piece).size) = RuleBody(rule)

LEMMA EncodedRuleRead ==
    ASSUME NEW afi, NEW rule, IsRule(rule, afi), Len(RuleBody(rule)) <= Largest
    PROVE  RuleEncoded(rule, EncodedRule(rule))
<1> DEFINE body == RuleBody(rule)
           n == Len(body)
           head == RuleHead(n)
           piece == head \o body
<1>1. body \in Seq(Octet) /\ n \in Nat
  <2>1. body \in Seq(Octet)
    BY RulePieces, Zenon
  <2>2. QED
    BY <2>1
<1>2. n <= Largest
  OBVIOUS
<1>3. EncodedRule(rule) = piece
  BY EncodedRuleIs, Zenon
<1> HIDE DEF body
<1>4. /\ head \in Data /\ head \in Seq(Octet) /\ Len(head) \in {1, 2}
      /\ \A s \in Seq(Octet) : /\ RuleLength(head \o s) = [length |-> n, size |-> Len(head)]
                               /\ After(head \o s, Len(head)) = s
  <2> HIDE DEF n
  <2>1. << >> \in Seq(Octet)
    OBVIOUS
  <2>2. head \in Data /\ Len(head) \in {1, 2}
    BY <1>1, <1>2, <2>1, RuleLengthRead, Zenon
  <2>3. \A s \in Seq(Octet) : /\ RuleLength(head \o s) = [length |-> n, size |-> Len(head)]
                              /\ After(head \o s, Len(head)) = s
    BY <1>1, <1>2, RuleLengthRead, Zenon
  <2>4. QED
    BY <2>2, <2>3, DataIs
<1> HIDE DEF head
<1>5. piece \in Data /\ Len(piece) = Len(head) + n
  BY <1>1, <1>4, DataMore
<1>6. ASSUME NEW t \in Seq(Octet)
      PROVE  RuleSize[piece \o t] = Len(piece)
  <2>1. piece \o t \in Data
    BY <1>5, DataMore
  <2>2. piece \o t = head \o (body \o t) /\ body \o t \in Seq(Octet)
    BY <1>1, <1>4, Joined, Concat, SMTT(60)
  <2>3. RuleLength(piece \o t) = [length |-> n, size |-> Len(head)]
    BY <1>4, <2>2
  <2>4. RuleSize[piece \o t] = RuleLength(piece \o t).size + RuleLength(piece \o t).length
    BY <2>1, Zenon DEF RuleSize
  <2>5. QED
    BY <1>1, <1>4, <1>5, <2>3, <2>4
<1>7. After(piece, RuleLength(piece).size) = body
  <2>1. RuleLength(piece).size = Len(head)
    BY <1>1, <1>4
  <2>2. QED
    BY <1>1, <1>4, <2>1
<1>8. QED
  <2> HIDE DEF piece
  <2>1. QED
    BY <1>3, <1>5, <1>6, <1>7, Zenon DEF RuleEncoded, body

LEMMA RuleSizeType == RuleSize \in [Data -> Nat \ {0}]
<1>1. ASSUME NEW data \in Data
      PROVE  RuleLength(data).size + RuleLength(data).length \in Nat \ {0}
  <2>1. data[1] \in Nat /\ data \in Seq(Octet) /\ Len(data) \in Nat
    BY DataIs
  <2>2. CASE data[1] < 240
    BY <2>1, <2>2 DEF RuleLength
  <2>3. CASE ~(data[1] < 240) /\ Short(data, 2)
    BY <2>3 DEF RuleLength
  <2>4. CASE ~(data[1] < 240) /\ ~Short(data, 2)
    <3>1. data[2] \in Nat
      <4>1. 2 \in 1..Len(data)
        BY <2>1, <2>4 DEF Short
      <4>2. QED
        BY <2>1, <4>1, OctetIn
    <3>2. RuleLength(data) = [length |-> 256 * (data[1] % 16) + data[2], size |-> 2]
      BY <2>4 DEF RuleLength
    <3>3. 256 * (data[1] % 16) + data[2] \in Nat
      BY <2>1, <3>1, SMTT(60)
    <3>4. QED
      BY <3>2, <3>3
  <2>5. QED
    BY <2>2, <2>3, <2>4
<1>2. QED
  BY <1>1 DEF RuleSize

AreRules(routes, afi) ==
    /\ routes \in Seq(Range(routes))
    /\ \A i \in DOMAIN routes : IsRule(routes[i], afi) /\ Len(RuleBody(routes[i])) <= Largest

LEMMA FlowSpecRead ==
    ASSUME NEW afi, NEW routes, AreRules(routes, afi), NEW hop, NEW data,
           data = FlattenSeq([i \in DOMAIN routes |-> EncodedRule(routes[i])])
    PROVE  /\ FlowSpec(data, afi).ok = TRUE
           /\ SameRoutes(FlowSpec(data, afi).routes, routes, <<afi, 133>>, hop)
<1> DEFINE pieces == [i \in DOMAIN routes |-> EncodedRule(routes[i])]
           N == Len(routes)
           list == Split(data, RuleSize)
           Rule(item) == Components(After(item, RuleLength(item).size), afi)
           rules == [i \in DOMAIN pieces |-> Rule(pieces[i])]
<1>1. N \in Nat /\ DOMAIN routes = 1..N
  <2> DEFINE S == Range(routes)
  <2>1. routes \in Seq(S)
    BY DEF AreRules
  <2> HIDE DEF S
  <2>2. QED
    BY <2>1
<1>2. \A i \in 1..N : IsRule(routes[i], afi) /\ Len(RuleBody(routes[i])) <= Largest
  BY <1>1, Zenon DEF AreRules
<1>3. \A i \in 1..N : RuleEncoded(routes[i], EncodedRule(routes[i]))
  BY <1>2, EncodedRuleRead, Zenon
<1>4. DOMAIN pieces = 1..N /\ \A i \in 1..N : pieces[i] = EncodedRule(routes[i])
  BY <1>1
<1> HIDE DEF N
<1>5. pieces \in Seq(Data)
  <2>1. pieces \in [1..N -> Data]
    BY <1>1, <1>3, Zenon DEF RuleEncoded
  <2> HIDE DEF pieces
  <2>2. QED
    BY <1>1, <2>1, SeqOfFunction, Zenon
<1>6. \A i \in 1..N : RuleEncoded(routes[i], pieces[i])
  BY <1>3, <1>4
<1>7. data = FlattenSeq(pieces)
  OBVIOUS
<1> HIDE DEF pieces
<1>8. Sized(pieces, RuleSize)
  BY <1>4, <1>6, Zenon DEF Sized, RuleEncoded
<1>9. list = [ok |-> TRUE, items |-> pieces]
  BY <1>5, <1>7, <1>8, RuleSizeType, SplitOf, Zenon
<1>10. FlowSpec(data, afi) = Rules(list, [i \in DOMAIN list.items |-> Rule(list.items[i])])
  BY Zenon DEF FlowSpec
<1>11. list.ok = TRUE /\ list.items = pieces
  <2> HIDE DEF list
  <2>1. QED
    BY <1>9
<1>12. FlowSpec(data, afi) = Rules(list, rules)
  <2> HIDE DEF list
  <2>1. QED
    BY <1>10, <1>11
<1>13. \A i \in 1..N : rules[i] = Components(RuleBody(routes[i]), afi)
  <2> SUFFICES ASSUME NEW i \in 1..N
               PROVE  rules[i] = Components(RuleBody(routes[i]), afi)
    OBVIOUS
  <2>1. rules[i] = Rule(pieces[i])
    BY <1>4
  <2>2. After(pieces[i], RuleLength(pieces[i]).size) = RuleBody(routes[i])
    BY <1>6, Zenon DEF RuleEncoded
  <2> HIDE DEF rules
  <2>3. QED
    BY <2>1, <2>2
<1>14. DOMAIN rules = 1..N
  BY <1>4
<1> HIDE DEF rules, list
<1>15. \A i \in 1..N : rules[i].ok = TRUE /\ SameRule(rules[i].rule, routes[i], Width(afi))
  BY <1>2, <1>13, RuleRead
<1>16. /\ FlowSpec(data, afi).ok = TRUE
       /\ FlowSpec(data, afi).routes = [i \in 1..N |-> rules[i].rule]
  <2>1. (list.ok /\ \A i \in DOMAIN rules : rules[i].ok) = TRUE
    BY <1>11, <1>14, <1>15
  <2>2. [i \in DOMAIN rules |-> rules[i].rule] = [i \in 1..N |-> rules[i].rule]
    BY <1>14
  <2>3. Rules(list, rules) = [ok |-> TRUE, routes |-> [i \in 1..N |-> rules[i].rule]]
    BY <2>1, <2>2, Zenon DEF Rules
  <2> DEFINE decoded == [i \in 1..N |-> rules[i].rule]
  <2>4. FlowSpec(data, afi) = [ok |-> TRUE, routes |-> decoded]
    BY <1>12, <2>3
  <2> HIDE DEF decoded
  <2>5. FlowSpec(data, afi).ok = TRUE /\ FlowSpec(data, afi).routes = decoded
    BY <2>4
  <2>6. QED
    BY <2>5 DEF decoded
<1>17. SameRoutes([i \in 1..N |-> rules[i].rule], routes, <<afi, 133>>, hop)
  <2> DEFINE decoded == [i \in 1..N |-> rules[i].rule]
  <2>1. <<afi, 133>>[1] = afi /\ <<afi, 133>>[2] = 133
    OBVIOUS
  <2>2. Len(decoded) = N /\ Len(routes) = N
    BY <1>1 DEF N
  <2>3. \A i \in 1..N : SameRule(decoded[i], routes[i], Width(afi))
    BY <1>15
  <2> HIDE DEF decoded
  <2>4. SameRoutes(decoded, routes, <<afi, 133>>, hop)
    BY <1>1, <2>1, <2>2, <2>3, SixteenWide DEF SameRoutes
  <2>5. QED
    BY <2>4 DEF decoded
<1>18. QED
  BY <1>16, <1>17

-----------------------------------------------------------------------------
(* Attributes, read back.                                                  *)

HeadRead(code, n, s, y) ==
    /\ y \in Data /\ y[2] = code
    /\ AttributeHeader(y) = Len(PartHead(code, n))
    /\ (IF AttributeHeader(y) = 4 THEN U16(After(y, 2)) ELSE y[3]) = n
    /\ After(y, AttributeHeader(y)) = s
    /\ Len(y) = AttributeHeader(y) + Len(s)

LEMMA HeadIsRead ==
    ASSUME NEW code \in Octet, NEW n \in Nat, n <= Largest, NEW s \in Seq(Octet)
    PROVE  HeadRead(code, n, s, PartHead(code, n) \o s) /\ PartHead(code, n) \in Seq(Octet)
           /\ Len(PartHead(code, n)) \in {3, 4}
<1> DEFINE head == PartHead(code, n)  y == head \o s
<1>1. head \in Seq(Octet)
  BY PartHeadIs, Zenon
<1>2. y \in Seq(Octet) /\ Len(y) = Len(head) + Len(s) /\ Len(s) \in Nat
      /\ (\A i \in 1..Len(head) : y[i] = head[i]) /\ After(y, Len(head)) = s
  <2> HIDE DEF head
  <2>1. y \in Seq(Octet) /\ Len(y) = Len(head) + Len(s) /\ \A i \in 1..Len(head) : y[i] = head[i]
    BY <1>1, Concat, Zenon
  <2>2. After(y, Len(head)) = s
    BY <1>1, AfterOf, Zenon
  <2>3. Len(s) \in Nat
    OBVIOUS
  <2>4. QED
    BY <2>1, <2>2, <2>3
<1>3. CASE n > 255
  <2> DEFINE a == AsU16(n)  b == <<144, code>>
  <2>1. n \in Half
    BY LengthHalf, Zenon
  <2>2. a \in Seq(Octet) /\ Len(a) = 2
    BY <2>1, HalfOf, SMT
  <2>3. head = b \o a
    BY <1>3 DEF PartHead
  <2>4. 144 \in Octet
    BY DEF Octet
  <2>5. U16(a \o s) = n
    BY <2>1, HalfRead, Zenon
  <2>6. a \o s \in Seq(Octet)
    BY <2>2, Concat, Zenon
  <2> HIDE DEF a
  <2>7. b \in Seq(Octet) /\ Len(b) = 2
    BY <2>4
  <2>8. Len(head) = 4
    <3>1. Len(b \o a) = Len(b) + Len(a)
      BY <2>2, <2>7, Concat, ZenonT(60)
    <3>2. QED
      BY <2>2, <2>3, <2>7, <3>1
  <2> DEFINE z == b \o (a \o s)
  <2>9. z \in Data /\ z[1] = 144 /\ z[2] = code /\ After(z, 2) = a \o s
    <3> DEFINE u == a \o s
    <3>1. u \in Seq(Octet)
      BY <2>6
    <3> HIDE DEF u
    <3>2. <<144, code>> \o u \in Data /\ (<<144, code>> \o u)[1] = 144 /\ (<<144, code>> \o u)[2] = code
          /\ After(<<144, code>> \o u, 2) = u
      BY <2>4, <3>1, HeadTwo
    <3>3. QED
      BY <3>2 DEF u
  <2> HIDE DEF z, b
  <2>10. y = z
    <3>1. (b \o a) \o s = b \o (a \o s)
      BY <2>2, <2>7, Joined, Zenon
    <3> HIDE DEF head
    <3> QED
      BY <2>3, <3>1 DEF z
  <2> HIDE DEF head, y
  <2>11. AttributeHeader(y) = 4
    BY <2>9, <2>10 DEF AttributeHeader
  <2>12. QED
    BY <1>1, <1>2, <2>5, <2>8, <2>9, <2>10, <2>11 DEF HeadRead, head, y
<1>4. CASE ~(n > 255)
  <2>1. n \in Octet /\ 128 \in Octet
    BY <1>4 DEF Octet
  <2>2. head = <<128, code, n>>
    BY <1>4 DEF PartHead
  <2>3. Len(head) = 3 /\ head[1] = 128 /\ head[2] = code /\ head[3] = n
    BY <2>2
  <2>4. y[1] = 128 /\ y[2] = code /\ y[3] = n
    BY <1>2, <2>3
  <2> HIDE DEF head, y
  <2>5. y # << >>
    BY <1>2, <2>3
  <2>6. y \in Data
    BY <1>2, <2>5, Zenon DEF Data
  <2>7. AttributeHeader(y) = 3
    BY <2>4 DEF AttributeHeader
  <2>8. QED
    BY <1>1, <1>2, <2>3, <2>4, <2>6, <2>7 DEF HeadRead, head, y
<1>5. QED
  BY <1>3, <1>4

PartRead(code, d, x) ==
    /\ x \in Data
    /\ \A t \in Seq(Octet) : AttributeSize[x \o t] = Len(x)
    /\ Attribute(x) = [code |-> code, data |-> d]

LEMMA PartIsRead ==
    ASSUME NEW code \in Octet, NEW d \in Seq(Octet), Len(d) <= Largest
    PROVE  PartRead(code, d, PartHead(code, Len(d)) \o d)
<1> DEFINE n == Len(d)  head == PartHead(code, n)  x == head \o d
<1>1. n \in Nat /\ n <= Largest
  OBVIOUS
<1>2. \A s \in Seq(Octet) : HeadRead(code, n, s, head \o s)
  <2> HIDE DEF n
  <2> QED
    BY <1>1, HeadIsRead, Zenon
<1>3. head \in Seq(Octet) /\ Len(head) \in {3, 4}
  <2> HIDE DEF n
  <2>1. << >> \in Seq(Octet)
    OBVIOUS
  <2> QED
    BY <1>1, <2>1, HeadIsRead, Zenon
<1> HIDE DEF head
<1>4. HeadRead(code, n, d, x)
  BY <1>2, Zenon
<1>5. x \in Data /\ Attribute(x) = [code |-> code, data |-> d] /\ Len(x) = Len(head) + n
  <2> HIDE DEF x
  <2>1. x \in Data /\ x[2] = code /\ After(x, AttributeHeader(x)) = d
        /\ Len(x) = AttributeHeader(x) + Len(d) /\ AttributeHeader(x) = Len(head)
    BY <1>4, Zenon DEF HeadRead, head
  <2>2. QED
    BY <2>1, Zenon DEF Attribute
<1>6. ASSUME NEW t \in Seq(Octet)
      PROVE  AttributeSize[x \o t] = Len(x)
  <2> DEFINE y == head \o (d \o t)  h == AttributeHeader(y)
             m == IF h = 4 THEN U16(After(y, 2)) ELSE y[3]
  <2>1. x \o t = y /\ d \o t \in Seq(Octet)
    <3>1. head \in Seq(Octet) /\ d \in Seq(Octet) /\ t \in Seq(Octet)
      BY <1>3
    <3>2. (head \o d) \o t = head \o (d \o t)
      BY <3>1, Joined, Zenon
    <3>3. d \o t \in Seq(Octet)
      BY <3>1, Concat, Zenon
    <3>4. QED
      BY <3>2, <3>3, Zenon
  <2>2. Len(d \o t) = n + Len(t) /\ Len(t) \in Nat
    BY Concat
  <2>3. HeadRead(code, n, d \o t, y)
    BY <1>2, <2>1, Zenon
  <2> HIDE DEF y
  <2>4. /\ y \in Data /\ h = Len(head) /\ m = n
        /\ Len(y) = h + Len(d \o t)
    BY <2>3, Zenon DEF HeadRead, head
  <2>5. AttributeSize[y] = IF Short(y, h) THEN h ELSE h + m
    BY <2>4, Zenon DEF AttributeSize
  <2> HIDE DEF h, m
  <2>6. ~Short(y, h)
    BY <1>1, <1>3, <2>2, <2>4 DEF Short
  <2>7. QED
    BY <1>5, <2>1, <2>4, <2>5, <2>6
<1>7. QED
  <2> HIDE DEF x
  <2> QED
    BY <1>5, <1>6, Zenon DEF PartRead, x, head

(* The pieces of a message.                                                *)
GoneOctets == EncodedPrefixes(sent.withdrawn)
NewOctets == EncodedPrefixes(sent.nlri)
PartPieces == [i \in DOMAIN sent.parts |-> Encoded(sent.parts[i])]
PartOctets == FlattenSeq(PartPieces)

LEMMA LengthsOf ==
    ASSUME NEW w \in Seq(Nat), NEW a \in Seq(Nat), NEW x \in Seq(Nat), NEW b \in Seq(Nat), NEW y \in Seq(Nat)
    PROVE  /\ Len(w \o a \o x \o b \o y) \in Nat
           /\ Len(a) \in Nat /\ Len(b) \in Nat
           /\ Len(a) <= Len(w \o a \o x \o b \o y)
           /\ Len(b) <= Len(w \o a \o x \o b \o y)
<1> DEFINE p == w \o a  q == p \o x  r == q \o b  s == r \o y
<1>1. p \in Seq(Nat) /\ Len(p) = Len(w) + Len(a) /\ Len(w) \in Nat /\ Len(a) \in Nat
  BY ConcatNat, Zenon
<1> HIDE DEF p
<1>2. q \in Seq(Nat) /\ Len(q) = Len(p) + Len(x) /\ Len(x) \in Nat
  BY <1>1, ConcatNat, Zenon
<1> HIDE DEF q
<1>3. r \in Seq(Nat) /\ Len(r) = Len(q) + Len(b) /\ Len(b) \in Nat
  BY <1>2, ConcatNat, Zenon
<1> HIDE DEF r
<1>4. s \in Seq(Nat) /\ Len(s) = Len(r) + Len(y) /\ Len(y) \in Nat
  BY <1>3, ConcatNat, Zenon
<1> HIDE DEF s
<1>5. Len(s) \in Nat /\ Len(a) <= Len(s) /\ Len(b) <= Len(s)
  <2> DEFINE lw == Len(w)  la == Len(a)  lx == Len(x)  lb == Len(b)  ly == Len(y)
             lp == Len(p)  lq == Len(q)  lr == Len(r)  ls == Len(s)
  <2>1. /\ lw \in Nat /\ la \in Nat /\ lx \in Nat /\ lb \in Nat /\ ly \in Nat
        /\ lp = lw + la /\ lq = lp + lx /\ lr = lq + lb /\ ls = lr + ly
    BY <1>1, <1>2, <1>3, <1>4
  <2> HIDE DEF lw, la, lx, lb, ly, lp, lq, lr, ls
  <2>2. ls \in Nat /\ la <= ls /\ lb <= ls
    BY <2>1
  <2>3. QED
    BY <2>2 DEF la, lb, ls
<1>6. QED
  BY <1>1, <1>3, <1>5 DEF s, r, q, p

LEMMA PartsFit ==
    ASSUME Composed, Len(EncodedUpdate) <= Largest
    PROVE  /\ GoneOctets \in Seq(Octet) /\ Len(GoneOctets) <= Largest
           /\ NewOctets \in Seq(Octet)
           /\ PartOctets \in Seq(Octet) /\ Len(PartOctets) <= Largest
           /\ \A i \in 1..Len(sent.parts) :
                 PartData(sent.parts[i]) \in Seq(Octet) /\ Len(PartData(sent.parts[i])) <= Largest
<1> DEFINE N == Len(sent.parts)  R == Seq(Nat)
<1>1. GoneOctets \in Seq(Octet) /\ NewOctets \in Seq(Octet)
  BY BodyListsAssumption, EncodedPrefixesIs, Zenon DEF Composed, GoneOctets, NewOctets
<1>2. GoneOctets \in R /\ NewOctets \in R
  BY <1>1, OctetsSendable, Zenon DEF Sendable
<1>3. N \in Nat /\ DOMAIN sent.parts = 1..N /\ \A i \in 1..N : sent.parts[i] \in Parts
  <2>1. sent.parts \in Seq(Parts)
    BY Zenon DEF Composed
  <2>2. QED
    BY <2>1
<1>4. \A i \in 1..N : Sendable(PartPieces[i]) /\ PartPieces[i] = Encoded(sent.parts[i])
  BY <1>3, EncodedSendable, Zenon DEF PartPieces
<1>5. DOMAIN PartPieces = 1..N /\ PartPieces = [i \in 1..N |-> PartPieces[i]]
  BY <1>3, Zenon DEF PartPieces
<1>6. Sendable(PartOctets)
  <2> HIDE DEF N
  <2> QED
    BY <1>3, <1>4, <1>5, FlattenSendable, Zenon DEF PartOctets
<1>7. PartOctets \in R /\ Len(PartOctets) \in Nat
  <2>1. PartOctets \in R
    BY <1>6, Zenon DEF Sendable
  <2>2. QED
    BY <2>1
<1>8. EncodedUpdate = AsU16(Len(GoneOctets)) \o GoneOctets \o AsU16(Len(PartOctets)) \o PartOctets \o NewOctets
  BY Zenon DEF EncodedUpdate, GoneOctets, NewOctets, PartOctets, PartPieces
<1>9. AsU16(Len(GoneOctets)) \in R /\ AsU16(Len(PartOctets)) \in R
  <2>1. Len(GoneOctets) \in Nat
    BY <1>2
  <2>2. QED
    BY <1>7, <2>1, U16In, Zenon
<1>10. /\ Len(EncodedUpdate) \in Nat /\ Len(GoneOctets) \in Nat
       /\ Len(GoneOctets) <= Len(EncodedUpdate)
       /\ Len(PartOctets) <= Len(EncodedUpdate)
  BY <1>2, <1>7, <1>8, <1>9, LengthsOf, Zenon
<1>11. Len(GoneOctets) <= Largest /\ Len(PartOctets) <= Largest
  BY <1>7, <1>10 DEF Largest
<1>12. PartOctets \in Seq(Octet)
  BY <1>6, <1>11, Zenon DEF Sendable
<1>13. PartPieces \in Seq(R) /\ Len(PartPieces) = N
  <2>1. PartPieces \in [1..N -> R]
    BY <1>4, <1>5, Zenon DEF Sendable
  <2>2. QED
    BY <1>3, <2>1, SeqOfFunction, Zenon
<1>14. ASSUME NEW i \in 1..N
       PROVE  PartData(sent.parts[i]) \in Seq(Octet) /\ Len(PartData(sent.parts[i])) <= Largest
  <2> DEFINE part == sent.parts[i]  d == PartData(part)  h == PartHead(part.code, Len(d))
  <2>1. part \in Parts
    BY <1>3
  <2>2. Sendable(d) /\ part.code \in Octet
    BY <2>1, PartDataSendable, Zenon
  <2>3. d \in R
    BY <2>2, Zenon DEF Sendable
  <2>4. Len(d) \in Nat
    <3> HIDE DEF d
    <3> QED
      BY <2>3
  <2>5. h \in R
    BY <2>2, <2>4, PartHeadIs, Zenon
  <2>6. PartPieces[i] = h \o d
    BY <1>4, EncodedPartIs, Zenon
  <2>7. Len(h \o d) = Len(h) + Len(d) /\ Len(h) \in Nat
    BY <2>3, <2>5, ConcatNat, Zenon
  <2>8. Len(PartPieces[i]) \in Nat /\ Len(PartPieces[i]) <= Len(PartOctets)
    BY <1>13, PieceShorter, Zenon DEF PartOctets
  <2> HIDE DEF d, h
  <2>9. Len(d) <= Largest
    <3> DEFINE k == Len(h \o d)  l == Len(d)  m == Len(h)  n == Len(PartOctets)
    <3>1. k = m + l /\ k <= n /\ n <= Largest /\ k \in Nat /\ l \in Nat /\ m \in Nat /\ n \in Nat
      BY <1>7, <1>11, <2>4, <2>6, <2>7, <2>8, Zenon
    <3>2. Largest \in Nat
      BY DEF Largest
    <3> HIDE DEF k, l, m, n
    <3>3. l <= Largest
      BY <3>1, <3>2
    <3>4. QED
      BY <3>3 DEF l
  <2>10. d \in Seq(Octet)
    BY <2>2, <2>9, Zenon DEF Sendable, d
  <2>11. QED
    BY <2>9, <2>10, Zenon DEF d
<1>15. QED
  BY <1>1, <1>11, <1>12, <1>14, Zenon

FrameRead(y, w, z) ==
    /\ y \in Seq(Octet) /\ U16(y) = Len(w)
    /\ First(After(y, 2), U16(y)) = w
    /\ After(y, 2 + U16(y)) = z
    /\ Len(y) = 2 + Len(w) + Len(z)

(* A list with its length in front, and what follows.                      *)
LEMMA FrameIsRead ==
    ASSUME NEW w \in Seq(Octet), Len(w) <= Largest, NEW z \in Seq(Octet)
    PROVE  FrameRead(AsU16(Len(w)) \o (w \o z), w, z)
<1> DEFINE n == Len(w)  a == AsU16(n)  y == a \o (w \o z)
<1>1. n \in Nat /\ n <= Largest
  OBVIOUS
<1>2. n \in Half
  <2> HIDE DEF n
  <2> QED
    BY <1>1, LengthHalf, Zenon
<1>3. w \o z \in Seq(Octet) /\ Len(w \o z) = Len(w) + Len(z)
  BY Concat, Zenon
<1>4. a \in Seq(Octet) /\ Len(a) = 2
  BY <1>2, HalfOf, ZenonT(60)
<1>5. U16(y) = n
  BY <1>2, <1>3, HalfRead, Zenon
<1> HIDE DEF a
<1>6. y \in Seq(Octet) /\ Len(y) = Len(a) + Len(w \o z)
  BY <1>3, <1>4, Concat, Zenon
<1>7. After(y, Len(a)) = w \o z
  BY <1>3, <1>4, AfterOf, Zenon
<1>8. First(w \o z, Len(w)) = w /\ After(w \o z, Len(w)) = z
  BY FirstOf, AfterOf, Zenon
<1> HIDE DEF y
<1>9. After(After(y, 2), n) = After(y, 2 + n)
  <2>1. 2 \in Nat
    OBVIOUS
  <2>2. QED
    BY <1>1, <1>6, <2>1, AfterAfter, Zenon
<1>10. Len(y) = 2 + Len(w) + Len(z)
  BY <1>3, <1>4, <1>6
<1>11. After(y, 2) = w \o z
  BY <1>4, <1>7, Zenon
<1>12. First(After(y, 2), U16(y)) = w
  BY <1>5, <1>8, <1>11, Zenon
<1>13. After(y, 2 + U16(y)) = z
  BY <1>5, <1>8, <1>9, <1>11, Zenon
<1>14. QED
  BY <1>5, <1>6, <1>10, <1>12, <1>13, Zenon DEF FrameRead, y, a

(* The attributes of a message as they come back.                          *)
SentAttrs == [i \in DOMAIN sent.parts |-> [code |-> sent.parts[i].code, data |-> PartData(sent.parts[i])]]

LEMMA PartsSplit ==
    ASSUME Composed, Len(EncodedUpdate) <= Largest
    PROVE  /\ Split(PartOctets, AttributeSize) = [ok |-> TRUE, items |-> PartPieces]
           /\ [i \in DOMAIN PartPieces |-> Attribute(PartPieces[i])] = SentAttrs
<1> DEFINE N == Len(sent.parts)
<1>1. N \in Nat /\ DOMAIN sent.parts = 1..N /\ \A i \in 1..N : sent.parts[i] \in Parts
  <2>1. sent.parts \in Seq(Parts)
    BY Zenon DEF Composed
  <2>2. QED
    BY <2>1
<1>2. ASSUME NEW i \in 1..N
      PROVE  PartRead(sent.parts[i].code, PartData(sent.parts[i]), PartPieces[i])
  <2> DEFINE part == sent.parts[i]  d == PartData(part)
  <2>1. part.code \in Octet
    BY <1>1, PartDataSendable, Zenon
  <2>2. d \in Seq(Octet) /\ Len(d) <= Largest
    BY PartsFit, Zenon
  <2>3. PartPieces[i] = PartHead(part.code, Len(d)) \o d
    BY <1>1, EncodedPartIs, Zenon DEF PartPieces
  <2>4. QED
    BY <2>1, <2>2, <2>3, PartIsRead, Zenon
<1>3. DOMAIN PartPieces = 1..N
  BY <1>1, Zenon DEF PartPieces
<1>4. \A i \in 1..N : PartPieces[i] \in Data
  BY <1>2, Zenon DEF PartRead
<1>5. PartPieces \in Seq(Data)
  <2>1. PartPieces = [i \in 1..N |-> PartPieces[i]]
    BY <1>1, Zenon DEF PartPieces
  <2>2. PartPieces \in [1..N -> Data]
    BY <1>4, <2>1, Zenon
  <2>3. QED
    BY <1>1, <2>2, SeqOfFunction, Zenon
<1>6. Sized(PartPieces, AttributeSize)
  BY <1>2, <1>3, Zenon DEF Sized, PartRead
<1>7. Split(PartOctets, AttributeSize) = [ok |-> TRUE, items |-> PartPieces]
  BY <1>5, <1>6, AttributeSizeType, SplitOf, Zenon DEF PartOctets
<1>8. \A i \in 1..N : Attribute(PartPieces[i]) = [code |-> sent.parts[i].code, data |-> PartData(sent.parts[i])]
  BY <1>2, Zenon DEF PartRead
<1>9. [i \in DOMAIN PartPieces |-> Attribute(PartPieces[i])] = SentAttrs
  BY <1>1, <1>3, <1>8, Zenon DEF SentAttrs
<1>10. QED
  BY <1>7, <1>9

LEMMA UpdateRead ==
    ASSUME Composed, Len(EncodedUpdate) <= Largest, NEW asnLen
    PROVE  Update(EncodedUpdate, asnLen) = Collected(SentAttrs, asnLen, GoneOctets, NewOctets)
<1> DEFINE w == GoneOctets  a == PartOctets  n == NewOctets
           rest == AsU16(Len(a)) \o (a \o n)
           body == AsU16(Len(w)) \o (w \o rest)
<1>1. /\ w \in Seq(Octet) /\ Len(w) <= Largest
      /\ a \in Seq(Octet) /\ Len(a) <= Largest
      /\ n \in Seq(Octet)
  BY PartsFit, Zenon
<1>2. EncodedUpdate = AsU16(Len(w)) \o w \o AsU16(Len(a)) \o a \o n
  BY Zenon DEF EncodedUpdate, GoneOctets, NewOctets, PartOctets, PartPieces
<1> HIDE DEF w, a, n
<1>3. FrameRead(rest, a, n) /\ rest \in Seq(Octet)
  <2>1. FrameRead(rest, a, n)
    BY <1>1, FrameIsRead, Zenon
  <2>2. QED
    BY <2>1, Zenon DEF FrameRead
<1>4. FrameRead(body, w, rest)
  BY <1>1, <1>3, FrameIsRead, Zenon
<1>5. EncodedUpdate = body
  <2> DEFINE u == AsU16(Len(w))  v == AsU16(Len(a))
  <2>1. u \in Seq(Octet) /\ v \in Seq(Octet)
    <3> DEFINE lw == Len(w)  la == Len(a)
    <3>1. lw \in Nat /\ la \in Nat /\ lw <= Largest /\ la <= Largest
      BY <1>1
    <3> HIDE DEF lw, la
    <3>2. lw \in Half /\ la \in Half
      BY <3>1, LengthHalf, Zenon
    <3>3. QED
      BY <3>2, HalfOf, SMT DEF lw, la
  <2> HIDE DEF u, v
  <2>2. u \o w \in Seq(Octet) /\ v \o (a \o n) \in Seq(Octet) /\ a \o n \in Seq(Octet) /\ u \o w \o v \in Seq(Octet)
    BY <1>1, <2>1, Concat, Zenon
  <2>3. ((u \o w \o v) \o a) \o n = (u \o w \o v) \o (a \o n)
    <3> DEFINE x == u \o w \o v
    <3>1. x \in Seq(Octet) /\ a \in Seq(Octet) /\ n \in Seq(Octet)
      BY <1>1, <2>2, Zenon
    <3> HIDE DEF x
    <3>2. (x \o a) \o n = x \o (a \o n)
      BY <3>1, Joined, Zenon
    <3>3. QED
      BY <3>2, Zenon DEF x
  <2>4. ((u \o w) \o v) \o (a \o n) = (u \o w) \o (v \o (a \o n))
    <3> DEFINE x == u \o w  y == a \o n
    <3>1. x \in Seq(Octet) /\ v \in Seq(Octet) /\ y \in Seq(Octet)
      <4>1. u \in Seq(Octet) /\ w \in Seq(Octet)
        BY <1>1, <2>1, Zenon
      <4>2. u \o w \in Seq(Octet)
        BY <4>1, Concat, Zenon
      <4>3. QED
        BY <2>1, <2>2, <4>2, Zenon
    <3> HIDE DEF x, y
    <3>2. (x \o v) \o y = x \o (v \o y)
      BY <3>1, Joined, Zenon
    <3>3. QED
      BY <3>2, Zenon DEF x, y
  <2>5. (u \o w) \o (v \o (a \o n)) = u \o (w \o (v \o (a \o n)))
    <3> DEFINE z == v \o (a \o n)
    <3>1. z \in Seq(Octet)
      BY <2>2
    <3> HIDE DEF z
    <3>2. (u \o w) \o z = u \o (w \o z)
      <4>1. u \in Seq(Octet) /\ w \in Seq(Octet) /\ z \in Seq(Octet)
        BY <1>1, <2>1, <3>1, Zenon
      <4>2. QED
        BY <4>1, Joined, Zenon
    <3>3. QED
      BY <3>2, Zenon DEF z
  <2>6. QED
    BY <1>2, <2>3, <2>4, <2>5, Zenon DEF u, v
<1>6. Split(a, AttributeSize) = [ok |-> TRUE, items |-> PartPieces]
      /\ [i \in DOMAIN PartPieces |-> Attribute(PartPieces[i])] = SentAttrs
  BY PartsSplit, Zenon DEF a
<1> HIDE DEF rest, body
<1> DEFINE r == After(body, 2 + U16(body))
           attrs == Split(First(After(r, 2), U16(r)), AttributeSize)
           bad == Short(body, 2) \/ Short(body, 4 + U16(body)) \/ Short(r, 2 + U16(r)) \/ ~attrs.ok
<1>7. Update(body, asnLen) =
        IF bad THEN Malformed
        ELSE Collected([i \in DOMAIN attrs.items |-> Attribute(attrs.items[i])], asnLen,
                       First(After(body, 2), U16(body)), After(r, 2 + U16(r)))
  BY Zenon DEF Update
<1>8. r = rest
  BY <1>4, Zenon DEF FrameRead
<1>9. attrs.ok = TRUE /\ attrs.items = PartPieces
  <2>1. First(After(r, 2), U16(r)) = a
    BY <1>3, <1>8, Zenon DEF FrameRead
  <2>2. attrs = [ok |-> TRUE, items |-> PartPieces]
    BY <1>6, <2>1, Zenon
  <2> HIDE DEF attrs
  <2>3. QED
    BY <2>2
<1>10. ~bad
  <2>1. ~Short(body, 2) /\ ~Short(body, 4 + U16(body)) /\ ~Short(rest, 2 + U16(rest))
    <3> DEFINE lb == Len(body)  lw == Len(w)  lr == Len(rest)  la == Len(a)  ln == Len(n)
    <3>1. /\ lb = 2 + lw + lr /\ lr = 2 + la + ln /\ U16(body) = lw /\ U16(rest) = la
      BY <1>3, <1>4, Zenon DEF FrameRead
    <3>2. lw \in Nat /\ la \in Nat /\ ln \in Nat
      BY <1>1
    <3> HIDE DEF lb, lw, lr, la, ln
    <3>3. ~(lb < 2) /\ ~(lb < 4 + lw) /\ ~(lr < 2 + la)
      BY <3>1, <3>2
    <3>4. QED
      BY <3>1, <3>3, Zenon DEF Short, lb, lr
  <2> HIDE DEF attrs, r
  <2>2. QED
    BY <1>8, <1>9, <2>1, Zenon
<1>11. First(After(body, 2), U16(body)) = w /\ After(r, 2 + U16(r)) = n
  BY <1>3, <1>4, <1>8, Zenon DEF FrameRead
<1>12. [i \in DOMAIN attrs.items |-> Attribute(attrs.items[i])] = SentAttrs
  <2> HIDE DEF attrs
  <2> QED
    BY <1>6, <1>9, Zenon
<1> HIDE DEF bad, attrs, r
<1>13. QED
  BY <1>5, <1>7, <1>10, <1>11, <1>12, Zenon DEF w, n

-----------------------------------------------------------------------------
(* Lists, read back.                                                       *)

ListOf(family, data, hop) ==
    IF family[2] = 133 THEN FlowSpec(data, family[1]) ELSE Unicast(data, family[1], hop)

LEMMA RoutesRead ==
    ASSUME NEW family \in Families, NEW routes, AreRoutes(routes, family), NEW hop,
           Len(EncodedRoutes(family, routes)) <= Largest
    PROVE  /\ ListOf(family, EncodedRoutes(family, routes), hop).ok = TRUE
           /\ SameRoutes(ListOf(family, EncodedRoutes(family, routes), hop).routes, routes, family, hop)
<1> DEFINE data == EncodedRoutes(family, routes)
<1>1. family = <<family[1], family[2]>>
  BY FamilyOctets, Zenon
<1>2. CASE family[2] = 133
  <2> DEFINE S == Range(routes)  R == Seq(Nat)  N == Len(routes)  afi == family[1]
             pieces == [i \in DOMAIN routes |-> EncodedRule(routes[i])]
  <2>1. routes \in Seq(S) /\ \A i \in DOMAIN routes : IsRule(routes[i], afi)
    BY <1>2, Zenon DEF AreRoutes
  <2>2. N \in Nat /\ DOMAIN routes = 1..N
    <3> HIDE DEF S
    <3> QED
      BY <2>1
  <2>3. data = FlattenSeq(pieces)
    BY <1>2, Zenon DEF EncodedRoutes
  <2>4. \A i \in 1..N : EncodedRule(routes[i]) \in R
    BY <2>1, <2>2, EncodedRuleSendable, Zenon DEF Sendable
  <2>5. pieces \in Seq(R) /\ Len(pieces) = N
    <3>1. pieces \in [1..N -> R]
      BY <2>2, <2>4, Zenon
    <3> HIDE DEF pieces, N
    <3>2. QED
      BY <2>2, <3>1, SeqOfFunction, Zenon
  <2>6. ASSUME NEW i \in 1..N
        PROVE  Len(RuleBody(routes[i])) <= Largest
    <3> DEFINE body == RuleBody(routes[i])  head == RuleHead(Len(body))
    <3>1. IsRule(routes[i], afi)
      BY <2>1, <2>2
    <3>2. body \in Seq(Octet)
      BY <3>1, RulePieces, Zenon
    <3>3. body \in R /\ Len(body) \in Nat
      <4>1. body \in R
        BY <3>2, OctetsSendable, Zenon DEF Sendable
      <4> HIDE DEF body
      <4>2. QED
        BY <4>1
    <3>4. head \in R
      BY <3>3, RuleHeadIs, Zenon
    <3>5. Len(head \o body) = Len(head) + Len(body) /\ Len(head) \in Nat
      BY <3>3, <3>4, ConcatNat, Zenon
    <3>6. pieces[i] = head \o body
      BY <2>2, EncodedRuleIs, Zenon
    <3>7. Len(pieces[i]) \in Nat /\ Len(FlattenSeq(pieces)) \in Nat /\ Len(pieces[i]) <= Len(FlattenSeq(pieces))
      <4> HIDE DEF pieces
      <4> QED
        BY <2>5, PieceShorter, Zenon
    <3> DEFINE l == Len(body)  h == Len(head)  k == Len(head \o body)  m == Len(data)
    <3>8. l \in Nat /\ h \in Nat /\ k = h + l /\ k <= m /\ m <= Largest /\ m \in Nat
      BY <2>3, <3>3, <3>5, <3>6, <3>7, Zenon
    <3>9. Largest \in Nat
      BY DEF Largest
    <3> HIDE DEF l, h, k, m
    <3>10. l <= Largest
      BY <3>8, <3>9
    <3>11. QED
      BY <3>10 DEF l
  <2>7. AreRules(routes, afi)
    BY <2>1, <2>2, <2>6, Zenon DEF AreRules
  <2> HIDE DEF data, afi
  <2>8. FlowSpec(data, afi).ok = TRUE /\ SameRoutes(FlowSpec(data, afi).routes, routes, <<afi, 133>>, hop)
    BY <2>3, <2>7, FlowSpecRead, Zenon
  <2>9. ListOf(family, data, hop) = FlowSpec(data, afi)
    BY <1>2, Zenon DEF ListOf, afi
  <2>10. family = <<afi, 133>>
    BY <1>1, <1>2, Zenon DEF afi
  <2>11. QED
    BY <2>8, <2>9, <2>10, SMT DEF data
<1>3. CASE family[2] # 133
  <2> DEFINE afi == family[1]  safi == family[2]
  <2>1. routes \in Seq(SentPrefixes(afi)) /\ data = EncodedPrefixes(routes)
    BY <1>3, Zenon DEF AreRoutes, EncodedRoutes
  <2>2. /\ Unicast(EncodedPrefixes(routes), afi, hop).ok = TRUE
        /\ SameRoutes(Unicast(EncodedPrefixes(routes), afi, hop).routes, routes, <<afi, safi>>, hop)
    BY <1>3, <2>1, UnicastRead, ZenonT(60)
  <2>3. ListOf(family, data, hop) = Unicast(EncodedPrefixes(routes), afi, hop)
    BY <1>3, <2>1, Zenon DEF ListOf
  <2>4. QED
    BY <1>1, <2>2, <2>3, Zenon
<1>4. QED
  BY <1>2, <1>3

MpRead(mp, family, hop, list) ==
    /\ mp.ok = (family \in Families => list.ok)
    /\ mp.family = family /\ mp.next_hop = hop /\ mp.routes = list.routes

LEMMA MpIsRead ==
    ASSUME NEW code \in {14, 15}, NEW data \in Seq(Octet),
           Len(data) >= (IF code = 14 THEN 5 ELSE 3),
           code = 14 => data[4] \in Nat /\ Len(data) >= 5 + data[4]
    PROVE  LET family == <<U16(data), data[3]>>
               start == IF code = 14 THEN 5 + data[4] ELSE 3
               hop == IF code = 14 THEN First(After(data, 4), data[4]) ELSE << >>
           IN  MpRead(MpList(code, data), family, hop, ListOf(family, After(data, start), hop))
<1> DEFINE fixed == IF code = 14 THEN 4 ELSE 3
           start == IF code = 14 THEN 5 + data[4] ELSE 3
           family == <<U16(data), data[3]>>
           hop == IF code = 14 THEN First(After(data, 4), data[4]) ELSE << >>
           list == IF family[2] = 133 THEN FlowSpec(After(data, start), family[1])
                   ELSE Unicast(After(data, start), family[1], hop)
           good == family \in Families => list.ok
           mp == MpList(code, data)
<1>1. mp = IF Short(data, fixed) \/ Short(data, start) THEN Malformed
           ELSE [ok |-> good, family |-> family, next_hop |-> hop, routes |-> list.routes]
  BY DEF MpList
<1>2. ~(Short(data, fixed) \/ Short(data, start))
  <2>1. Len(data) \in Nat
    OBVIOUS
  <2>2. CASE code = 14
    BY <2>1, <2>2 DEF Short
  <2>3. CASE code # 14
    BY <2>1, <2>3 DEF Short
  <2>4. QED
    BY <2>2, <2>3
<1>3. list = ListOf(family, After(data, start), hop)
  BY Zenon DEF ListOf
<1> HIDE DEF mp, list, hop, start, fixed
<1>4. mp = [ok |-> good, family |-> family, next_hop |-> hop, routes |-> list.routes]
  BY <1>1, <1>2, Zenon
<1>5. mp.ok = good /\ mp.family = family /\ mp.next_hop = hop /\ mp.routes = list.routes
  <2> HIDE DEF good, family
  <2> QED
    BY <1>4
<1>6. MpRead(mp, family, hop, list)
  <2> HIDE DEF family
  <2> QED
    BY <1>5, Zenon DEF MpRead, good
<1>7. QED
  BY <1>3, <1>6, Zenon DEF mp, hop, start

HopOf(part) == IF part.kind = "reach" THEN part.hop ELSE << >>
Listed(part) == part.kind \in {"reach", "unreach"}

(* A list comes back with its family and its next hop; what is not well    *)
(* formed is of no family.                                                 *)
ListRead(part, mp) ==
    /\ mp.ok = TRUE
    /\ Listed(part) => /\ mp.family = part.family
                       /\ mp.next_hop = HopOf(part)
                       /\ SameRoutes(mp.routes, part.routes, part.family, HopOf(part))
    /\ ~Listed(part) => mp.family \notin Families

(* The head of an attribute, read in front of anything.                    *)
LEMMA HeadFields ==
    ASSUME NEW head \in Seq(Octet), NEW t \in Seq(Octet), Len(head) \in {3, 4}
    PROVE  /\ head \o t \in Seq(Octet) /\ Len(head \o t) = Len(head) + Len(t) /\ Len(t) \in Nat
           /\ U16(head \o t) = U16(head) /\ (head \o t)[3] = head[3]
           /\ Len(head) = 4 => (head \o t)[4] = head[4]
           /\ After(head \o t, Len(head)) = t
<1>1. /\ head \o t \in Seq(Octet) /\ Len(head \o t) = Len(head) + Len(t)
      /\ \A i \in 1..Len(head) : (head \o t)[i] = head[i]
  BY Concat, Zenon
<1>2. 1 \in 1..Len(head) /\ 2 \in 1..Len(head) /\ 3 \in 1..Len(head)
      /\ (Len(head) = 4 => 4 \in 1..Len(head))
  <2> DEFINE n == Len(head)
  <2>1. n \in {3, 4}
    OBVIOUS
  <2> HIDE DEF n
  <2>2. 1 \in 1..n /\ 2 \in 1..n /\ 3 \in 1..n /\ (n = 4 => 4 \in 1..n)
    BY <2>1
  <2>3. QED
    BY <2>2 DEF n
<1>3. After(head \o t, Len(head)) = t
  BY AfterOf, Zenon
<1>4. Len(t) \in Nat
  OBVIOUS
<1> DEFINE x == head \o t
<1>5. x[1] = head[1] /\ x[2] = head[2] /\ x[3] = head[3] /\ (Len(head) = 4 => x[4] = head[4])
  BY <1>1, <1>2, Zenon
<1> HIDE DEF x
<1>6. U16(x) = U16(head)
  BY <1>5 DEF U16
<1>7. QED
  BY <1>1, <1>3, <1>4, <1>5, <1>6, Zenon DEF x

LEMMA ReachRead ==
    ASSUME NEW part, part.kind = "reach", part.code = 14, part.family \in Families,
           AreRoutes(part.routes, part.family), part.hop \in Seq(Octet), Len(part.hop) < 256,
           PartData(part) \in Seq(Octet), Len(PartData(part)) <= Largest
    PROVE  ListRead(part, MpList(part.code, PartData(part)))
<1> DEFINE head == AsU16(part.family[1]) \o <<part.family[2], Len(part.hop)>>
           hop == part.hop  routes == EncodedRoutes(part.family, part.routes)
           z == <<0>> \o routes  rest == hop \o z
           data == PartData(part)
           family == part.family
<1>1. /\ head \in Seq(Octet) /\ Len(head) = 4
      /\ U16(head) = part.family[1] /\ head[3] = part.family[2] /\ head[4] = Len(part.hop)
      /\ <<0>> \in Seq(Octet) /\ Len(<<0>>) = 1
  BY ReachIs, Zenon
<1>2. data = head \o hop \o <<0>> \o routes
  BY Zenon DEF PartData
<1>3. Sendable(routes)
  BY EncodedRoutesSendable, Zenon
<1>4. routes \in Seq(Nat)
  BY <1>3, Zenon DEF Sendable
<1>5. hop \in Seq(Octet) /\ Len(hop) \in Nat
  OBVIOUS
<1> HIDE DEF head, routes, data
<1> DEFINE f == head \o hop \o <<0>>
<1>6. f \in Seq(Octet) /\ Len(f) = 5 + Len(hop)
  <2>1. head \o hop \in Seq(Octet) /\ Len(head \o hop) = Len(head) + Len(hop)
    BY <1>1, <1>5, Concat, ZenonT(60)
  <2>2. f \in Seq(Octet) /\ Len(f) = Len(head \o hop) + Len(<<0>>)
    BY <1>1, <2>1, Concat, Zenon
  <2> HIDE DEF f
  <2>3. QED
    BY <1>1, <1>5, <2>1, <2>2
<1>7. data = f \o routes
  BY <1>2
<1>8. f \in Seq(Nat)
  BY <1>6, OctetsSendable, Zenon DEF Sendable
<1> HIDE DEF f
<1>9. Len(data) = Len(f) + Len(routes) /\ Len(routes) \in Nat /\ Len(f) \in Nat
  BY <1>4, <1>7, <1>8, ConcatNat, Zenon
<1>10. Len(routes) <= Largest
  <2> DEFINE l == Len(data)  m == Len(f)  n == Len(routes)
  <2>1. l = m + n /\ m \in Nat /\ n \in Nat /\ l <= Largest /\ Largest \in Nat
    BY <1>9 DEF Largest, data
  <2> HIDE DEF l, m, n
  <2>2. n <= Largest
    BY <2>1
  <2>3. QED
    BY <2>2 DEF n
<1>11. routes \in Seq(Octet)
  BY <1>3, <1>10, Zenon DEF Sendable
<1>12. 0 \in Octet
  BY DEF Octet
<1>13. z \in Seq(Octet) /\ After(z, 1) = routes /\ Len(z) = 1 + Len(routes)
  BY <1>11, <1>12, HeadAndTail, Zenon
<1>14. rest \in Seq(Octet) /\ Len(rest) = Len(hop) + Len(z) /\ First(rest, Len(hop)) = hop /\ After(rest, Len(hop)) = z
  <2>1. hop \in Seq(Octet) /\ z \in Seq(Octet)
    BY <1>5, <1>13, Zenon
  <2> HIDE DEF z
  <2>2. hop \o z \in Seq(Octet) /\ Len(hop \o z) = Len(hop) + Len(z)
    BY <2>1, Concat, Zenon
  <2>3. First(hop \o z, Len(hop)) = hop
    BY <2>1, FirstOf, Zenon
  <2>4. After(hop \o z, Len(hop)) = z
    BY <2>1, AfterOf, Zenon
  <2>5. QED
    BY <2>2, <2>3, <2>4, Zenon
<1>15. data = head \o rest
  <2> DEFINE o == <<0>>  hh == head \o hop
  <2>1. hh \in Seq(Octet)
    BY <1>1, <1>5, Concat, Zenon
  <2>2. o \in Seq(Octet)
    BY <1>1
  <2> HIDE DEF o, hh
  <2>3. (hh \o o) \o routes = hh \o (o \o routes) /\ o \o routes \in Seq(Octet)
    <3>1. (hh \o o) \o routes = hh \o (o \o routes)
      BY <1>11, <2>1, <2>2, Joined, ZenonT(60)
    <3>2. o \o routes \in Seq(Octet)
      BY <1>11, <2>2, Concat, Zenon
    <3>3. QED
      BY <3>1, <3>2
  <2>4. (head \o hop) \o (o \o routes) = head \o (hop \o (o \o routes))
    BY <1>1, <1>5, <2>3, Joined, ZenonT(60)
  <2>5. QED
    BY <1>2, <2>3, <2>4, Zenon DEF o, hh
<1> HIDE DEF rest, z
<1>16. /\ data \in Seq(Octet) /\ Len(data) = 4 + Len(rest) /\ Len(rest) \in Nat
       /\ U16(data) = family[1] /\ data[3] = family[2] /\ data[4] = Len(hop) /\ After(data, 4) = rest
  <2>1. Len(head) \in {3, 4}
    BY <1>1
  <2>2. /\ head \o rest \in Seq(Octet) /\ Len(head \o rest) = Len(head) + Len(rest) /\ Len(rest) \in Nat
        /\ U16(head \o rest) = U16(head) /\ (head \o rest)[3] = head[3]
        /\ Len(head) = 4 => (head \o rest)[4] = head[4]
        /\ After(head \o rest, Len(head)) = rest
    BY <1>1, <1>14, <2>1, HeadFields, Zenon
  <2>3. QED
    BY <1>1, <1>15, <2>2, Zenon
<1>17. Len(data) >= 5 + Len(hop) /\ Len(data) >= 5
  <2> DEFINE l == Len(data)  m == Len(rest)  n == Len(z)  h == Len(hop)  r == Len(routes)
  <2>1. l = 4 + m /\ m = h + n /\ n = 1 + r /\ h \in Nat /\ r \in Nat
    BY <1>5, <1>9, <1>13, <1>14, <1>16, Zenon
  <2> HIDE DEF l, m, n, h, r
  <2>2. l >= 5 + h /\ l >= 5
    BY <2>1
  <2>3. QED
    BY <2>2 DEF l, h
<1>18. After(data, 5 + Len(hop)) = routes
  <2>1. After(After(data, 4), Len(hop)) = After(data, 4 + Len(hop))
    <3>1. 4 \in Nat
      OBVIOUS
    <3>2. QED
      BY <1>5, <1>16, <3>1, AfterAfter, ZenonT(60)
  <2>2. After(After(rest, Len(hop)), 1) = After(data, 4 + Len(hop) + 1)
    <3>1. After(After(data, 4 + Len(hop)), 1) = After(data, (4 + Len(hop)) + 1)
      <4>1. 4 + Len(hop) \in Nat /\ 1 \in Nat
        BY <1>5
      <4>2. QED
        BY <1>16, <4>1, AfterAfter, ZenonT(60)
    <3>2. QED
      BY <1>16, <2>1, <3>1, Zenon
  <2>3. 4 + Len(hop) + 1 = 5 + Len(hop)
    BY <1>5
  <2>4. QED
    BY <1>13, <1>14, <2>2, <2>3, Zenon
<1>19. First(After(data, 4), data[4]) = hop
  BY <1>14, <1>16, Zenon
<1>20. <<U16(data), data[3]>> = family
  <2>1. family = <<family[1], family[2]>>
    BY FamilyOctets, Zenon
  <2>2. QED
    BY <1>16, <2>1, Zenon
<1> DEFINE list == ListOf(family, routes, hop)
<1>21. MpRead(MpList(14, data), family, hop, list)
  <2>1. /\ 14 \in {14, 15} /\ data[4] \in Nat /\ Len(data) >= 5 + data[4]
        /\ Len(data) >= (IF 14 = 14 THEN 5 ELSE 3)
    BY <1>5, <1>16, <1>17
  <2> HIDE DEF family, hop
  <2>2. MpRead(MpList(14, data), <<U16(data), data[3]>>, First(After(data, 4), data[4]),
               ListOf(<<U16(data), data[3]>>, After(data, 5 + data[4]), First(After(data, 4), data[4])))
    BY <1>16, <2>1, MpIsRead
  <2>3. After(data, 5 + data[4]) = routes
    BY <1>16, <1>18, Zenon
  <2>4. QED
    BY <1>19, <1>20, <2>2, <2>3, Zenon
<1>22. list.ok = TRUE /\ SameRoutes(list.routes, part.routes, family, hop)
  BY <1>10, RoutesRead, Zenon DEF routes
<1> HIDE DEF list
<1>23. family \in Families /\ HopOf(part) = hop /\ Listed(part)
  BY DEF HopOf, Listed
<1>24. QED
  BY <1>21, <1>22, <1>23, Zenon DEF ListRead, MpRead, data

LEMMA UnreachRead ==
    ASSUME NEW part, part.kind = "unreach", part.code = 15, part.family \in Families,
           AreRoutes(part.routes, part.family),
           PartData(part) \in Seq(Octet), Len(PartData(part)) <= Largest
    PROVE  ListRead(part, MpList(part.code, PartData(part)))
<1> DEFINE head == AsU16(part.family[1]) \o <<part.family[2]>>
           routes == EncodedRoutes(part.family, part.routes)
           data == PartData(part)
           family == part.family
<1>1. /\ head \in Seq(Octet) /\ Len(head) = 3
      /\ U16(head) = part.family[1] /\ head[3] = part.family[2]
  BY UnreachIs, Zenon
<1>2. data = head \o routes
  BY Zenon DEF PartData
<1>3. Sendable(routes)
  BY EncodedRoutesSendable, Zenon
<1>4. routes \in Seq(Nat) /\ head \in Seq(Nat)
  BY <1>1, <1>3, OctetsSendable, Zenon DEF Sendable
<1> HIDE DEF head, routes, data
<1>5. Len(data) = Len(head) + Len(routes) /\ Len(routes) \in Nat
  BY <1>2, <1>4, ConcatNat, Zenon
<1>6. Len(routes) <= Largest /\ Len(data) >= 3
  <2> DEFINE l == Len(data)  n == Len(routes)
  <2>1. l = 3 + n /\ n \in Nat /\ l <= Largest /\ Largest \in Nat
    BY <1>1, <1>5 DEF Largest, data
  <2> HIDE DEF l, n
  <2>2. n <= Largest /\ l >= 3
    BY <2>1
  <2>3. QED
    BY <2>2 DEF n, l
<1>7. routes \in Seq(Octet)
  BY <1>3, <1>6, Zenon DEF Sendable
<1>8. /\ data \in Seq(Octet)
      /\ U16(data) = family[1] /\ data[3] = family[2] /\ After(data, 3) = routes
  <2>1. Len(head) \in {3, 4}
    BY <1>1
  <2>2. /\ head \o routes \in Seq(Octet)
        /\ U16(head \o routes) = U16(head) /\ (head \o routes)[3] = head[3]
        /\ After(head \o routes, Len(head)) = routes
    BY <1>1, <1>7, <2>1, HeadFields, Zenon
  <2>3. QED
    BY <1>1, <1>2, <2>2, Zenon
<1>9. <<U16(data), data[3]>> = family
  <2>1. family = <<family[1], family[2]>>
    BY FamilyOctets, Zenon
  <2>2. QED
    BY <1>8, <2>1, Zenon
<1> DEFINE list == ListOf(family, routes, << >>)
<1>10. MpRead(MpList(15, data), family, << >>, list)
  <2>1. 15 \in {14, 15} /\ 15 # 14
    OBVIOUS
  <2> HIDE DEF family
  <2>2. MpRead(MpList(15, data), <<U16(data), data[3]>>, << >>,
               ListOf(<<U16(data), data[3]>>, After(data, 3), << >>))
    BY <1>6, <1>8, <2>1, MpIsRead
  <2>3. QED
    BY <1>8, <1>9, <2>2, Zenon
<1>11. list.ok = TRUE /\ SameRoutes(list.routes, part.routes, family, << >>)
  BY <1>6, RoutesRead, Zenon DEF routes
<1> HIDE DEF list
<1>12. family \in Families /\ HopOf(part) = << >> /\ Listed(part)
  BY DEF HopOf, Listed
<1>13. QED
  BY <1>10, <1>11, <1>12, Zenon DEF ListRead, MpRead, data

LEMMA JunkRead ==
    ASSUME NEW part, part.kind = "junk", part.code \in {14, 15}, IsJunk(part.code, part.data)
    PROVE  ListRead(part, MpList(part.code, PartData(part)))
<1> DEFINE data == part.data  code == part.code
<1>1. PartData(part) = data
  BY DEF PartData
<1>2. /\ data \in Seq(Octet) /\ Len(data) >= (IF code = 14 THEN 5 ELSE 3)
      /\ code = 14 => Len(data) >= 5 + data[4]
      /\ <<U16(data), data[3]>> \notin Families
  BY Zenon DEF IsJunk
<1>3. code = 14 => data[4] \in Nat
  <2> SUFFICES ASSUME code = 14 PROVE data[4] \in Nat
    OBVIOUS
  <2>1. 4 \in 1..Len(data)
    BY <1>2
  <2>2. QED
    BY <1>2, <2>1, OctetIn, Zenon
<1>4. \E hop, list : MpRead(MpList(code, data), <<U16(data), data[3]>>, hop, list)
  <2> DEFINE start == IF code = 14 THEN 5 + data[4] ELSE 3
             hop == IF code = 14 THEN First(After(data, 4), data[4]) ELSE << >>
             family == <<U16(data), data[3]>>
             list == ListOf(family, After(data, start), hop)
  <2>1. code = 14 => data[4] \in Nat /\ Len(data) >= 5 + data[4]
    BY <1>2, <1>3
  <2>2. MpRead(MpList(code, data), family, hop, list)
    BY <1>2, <2>1, MpIsRead, Zenon
  <2>3. QED
    BY <2>2, Zenon
<1>5. ~Listed(part)
  BY DEF Listed
<1> HIDE DEF data, code
<1> DEFINE mp == MpList(code, data)
<1>6. mp.ok = TRUE /\ mp.family \notin Families
  <2>1. PICK hop, list : MpRead(mp, <<U16(data), data[3]>>, hop, list)
    BY <1>4, Zenon
  <2> DEFINE family == <<U16(data), data[3]>>
  <2>2. mp.ok = (family \in Families => list.ok) /\ mp.family = family /\ family \notin Families
    BY <1>2, <2>1, Zenon DEF MpRead
  <2> HIDE DEF family, mp
  <2>3. QED
    BY <2>2
<1>7. QED
  BY <1>1, <1>5, <1>6, Zenon DEF ListRead, code, mp

LEMMA PartListRead ==
    ASSUME NEW part, IsPart(part), part.code \in {14, 15},
           PartData(part) \in Seq(Octet), Len(PartData(part)) <= Largest
    PROVE  ListRead(part, MpList(part.code, PartData(part)))
<1>1. \/ /\ part.kind = "reach" /\ part.code = 14
         /\ part.family \in Families /\ AreRoutes(part.routes, part.family)
         /\ part.hop \in Seq(Octet) /\ Len(part.hop) < 256
      \/ /\ part.kind = "unreach" /\ part.code = 15
         /\ part.family \in Families /\ AreRoutes(part.routes, part.family)
      \/ part.kind = "junk" /\ IsJunk(part.code, part.data)
  <2> HIDE DEF IsPart
  <2>1. part.code \notin {2, 3, 16, 17, 25}
    OBVIOUS
  <2>2. QED
    BY <2>1, PartCases
<1>2. QED
  BY <1>1, ReachRead, UnreachRead, JunkRead

-----------------------------------------------------------------------------
(* The lists of a message, read back.                                      *)

(* An attribute appears once, but for the lists; AS4_PATH is for two octets*)
PartsOnce ==
    /\ \A i, j \in DOMAIN sent.parts :
          sent.parts[i].code = sent.parts[j].code => i = j \/ sent.parts[i].code \in {14, 15}
    /\ wide => \A i \in DOMAIN sent.parts : sent.parts[i].kind # "as4"

(* The state when a message has been sent.                                 *)
SentWell == Composed /\ PartsOnce /\ Len(EncodedUpdate) <= Largest

SentLists == [i \in {k \in DOMAIN SentAttrs : SentAttrs[k].code \in {14, 15}} |->
                 MpList(SentAttrs[i].code, SentAttrs[i].data)]
SentListed == {k \in DOMAIN sent.parts : sent.parts[k].code \in {14, 15}}

LEMMA PartsAre ==
    ASSUME SentWell
    PROVE  /\ Len(sent.parts) \in Nat /\ DOMAIN sent.parts = 1..Len(sent.parts)
           /\ DOMAIN SentAttrs = 1..Len(sent.parts)
           /\ \A i \in 1..Len(sent.parts) :
                 /\ IsPart(sent.parts[i]) /\ sent.parts[i].code \in Octet
                 /\ PartData(sent.parts[i]) \in Seq(Octet) /\ Len(PartData(sent.parts[i])) <= Largest
                 /\ SentAttrs[i] = [code |-> sent.parts[i].code, data |-> PartData(sent.parts[i])]
                 /\ SentAttrs[i].code = sent.parts[i].code
                 /\ SentAttrs[i].data = PartData(sent.parts[i])
<1> DEFINE N == Len(sent.parts)
<1>1. Composed /\ Len(EncodedUpdate) <= Largest
  BY Zenon DEF SentWell
<1>2. N \in Nat /\ DOMAIN sent.parts = 1..N /\ \A i \in 1..N : sent.parts[i] \in Parts
  <2>1. sent.parts \in Seq(Parts)
    BY <1>1, Zenon DEF Composed
  <2>2. QED
    BY <2>1
<1>3. DOMAIN SentAttrs = 1..N
  BY <1>2, Zenon DEF SentAttrs
<1>4. ASSUME NEW i \in 1..N
      PROVE  /\ IsPart(sent.parts[i]) /\ sent.parts[i].code \in Octet
             /\ PartData(sent.parts[i]) \in Seq(Octet) /\ Len(PartData(sent.parts[i])) <= Largest
             /\ SentAttrs[i] = [code |-> sent.parts[i].code, data |-> PartData(sent.parts[i])]
             /\ SentAttrs[i].code = sent.parts[i].code
             /\ SentAttrs[i].data = PartData(sent.parts[i])
  <2>1. IsPart(sent.parts[i])
    BY <1>2, PartsAssumption, Zenon
  <2>2. sent.parts[i].code \in Octet
    BY <1>1, <1>2, PartDataSendable, Zenon
  <2>3. PartData(sent.parts[i]) \in Seq(Octet) /\ Len(PartData(sent.parts[i])) <= Largest
    BY <1>1, PartsFit, Zenon
  <2>4. SentAttrs[i] = [code |-> sent.parts[i].code, data |-> PartData(sent.parts[i])]
    BY <1>2, Zenon DEF SentAttrs
  <2> DEFINE d == PartData(sent.parts[i])  a == SentAttrs[i]
  <2>5. a.code = sent.parts[i].code /\ a.data = d
    <3> HIDE DEF a, d
    <3> QED
      BY <2>4 DEF a, d
  <2>6. QED
    BY <2>1, <2>2, <2>3, <2>4, <2>5, Zenon
<1>5. QED
  BY <1>2, <1>3, <1>4, Zenon

LEMMA ListsAre ==
    ASSUME SentWell
    PROVE  /\ DOMAIN SentLists = SentListed
           /\ SentListed \in SUBSET (1..Len(sent.parts))
           /\ \A i \in SentListed : ListRead(sent.parts[i], SentLists[i])
<1> DEFINE N == Len(sent.parts)
<1>1. DOMAIN sent.parts = 1..N /\ DOMAIN SentAttrs = 1..N
  BY PartsAre, Zenon
<1>2. {k \in DOMAIN SentAttrs : SentAttrs[k].code \in {14, 15}} = SentListed
  <2>1. \A k \in 1..N : SentAttrs[k].code = sent.parts[k].code
    BY PartsAre, Zenon
  <2>2. QED
    BY <1>1, <2>1, Zenon DEF SentListed
<1>3. DOMAIN SentLists = SentListed
  BY <1>2, Zenon DEF SentLists
<1>4. ASSUME NEW i \in SentListed
      PROVE  ListRead(sent.parts[i], SentLists[i])
  <2>1. i \in 1..N /\ sent.parts[i].code \in {14, 15}
    BY <1>1, Zenon DEF SentListed
  <2>2. SentLists[i] = MpList(SentAttrs[i].code, SentAttrs[i].data)
    BY <1>2, Zenon DEF SentLists
  <2>3. SentAttrs[i].code = sent.parts[i].code /\ SentAttrs[i].data = PartData(sent.parts[i])
    BY <2>1, PartsAre, Zenon
  <2>4. IsPart(sent.parts[i])
        /\ PartData(sent.parts[i]) \in Seq(Octet) /\ Len(PartData(sent.parts[i])) <= Largest
    BY <2>1, PartsAre, Zenon
  <2>5. ListRead(sent.parts[i], MpList(sent.parts[i].code, PartData(sent.parts[i])))
    BY <2>1, <2>4, PartListRead, Zenon
  <2>6. QED
    BY <2>2, <2>3, <2>5, Zenon
<1>5. SentListed \in SUBSET (1..N)
  BY <1>1, Zenon DEF SentListed
<1>6. QED
  BY <1>3, <1>4, <1>5, Zenon

(* The next hop of the body.                                               *)
LEMMA HopRead ==
    ASSUME SentWell
    PROVE  NextHopOf(SentAttrs) = Hop
<1> DEFINE N == Len(sent.parts)
           hops == {i \in DOMAIN SentAttrs : SentAttrs[i].code = 3}
           data == SentAttrs[Max(hops)].data
<1>1. N \in Nat /\ DOMAIN sent.parts = 1..N /\ DOMAIN SentAttrs = 1..N
  BY PartsAre, Zenon
<1>2. \A i \in 1..N : /\ SentAttrs[i].code = sent.parts[i].code
                      /\ SentAttrs[i].data = PartData(sent.parts[i])
                      /\ IsPart(sent.parts[i])
  BY PartsAre, Zenon
<1>3. NextHopOf(SentAttrs) = IF hops = {} \/ Len(data) # 4 THEN << >> ELSE data
  BY Zenon DEF NextHopOf
<1>4. hops \in SUBSET (1..N) /\ \A i \in hops : i \in 1..N /\ sent.parts[i].code = 3
  BY <1>1, <1>2, Zenon
<1>5. \A i, j \in hops : i = j
  <2>1. 3 \notin {14, 15}
    OBVIOUS
  <2>2. QED
    BY <1>1, <1>4, <2>1, Zenon DEF SentWell, PartsOnce
<1>6. \A i \in 1..N : sent.parts[i].kind = "next_hop" => sent.parts[i].code = 3 /\ sent.parts[i].hop \in [1..4 -> Octet]
  BY <1>2, PartCases, SMTT(60)
<1>7. Placed("next_hop") \subseteq hops
  BY <1>1, <1>2, <1>6, Zenon DEF Placed
<1>8. CASE hops = {}
  <2>1. Placed("next_hop") = {}
    BY <1>7, <1>8, Zenon
  <2>2. NextHopOf(SentAttrs) = << >>
    <3> HIDE DEF hops, data
    <3> QED
      BY <1>3, <1>8
  <2>3. QED
    BY <2>1, <2>2, Zenon DEF Hop
<1>9. CASE hops # {}
  <2> DEFINE m == Max(hops)
  <2>1. m \in hops
    <3> HIDE DEF hops
    <3> QED
      BY <1>1, <1>4, <1>9, MaxIn, Zenon
  <2> HIDE DEF hops
  <2> DEFINE part == sent.parts[m]
  <2>2. m \in 1..N /\ part.code = 3
    BY <1>4, <2>1, Zenon
  <2> HIDE DEF m
  <2>3. data = PartData(part) /\ IsPart(part)
    BY <1>2, <2>2, Zenon DEF m
  <2>4. CASE part.kind = "next_hop"
    <3>1. part.hop \in [1..4 -> Octet]
      BY <1>6, <2>2, <2>4, Zenon
    <3>2. data = part.hop
      BY <2>3, <2>4 DEF PartData
    <3>3. Len(data) = 4
      <4>1. 4 \in Nat
        OBVIOUS
      <4> HIDE DEF data
      <4>2. QED
        <5> DEFINE y == part.hop
        <5>1. y \in [1..4 -> Octet]
          BY <3>1, Zenon
        <5> HIDE DEF y
        <5>2. Len(y) = 4
          BY <4>1, <5>1, SeqOfFunction, ZenonT(60)
        <5>3. QED
          BY <3>2, <5>2, Zenon DEF y
    <3>4. NextHopOf(SentAttrs) = part.hop
      <4> HIDE DEF data
      <4> QED
        BY <1>3, <1>9, <3>2, <3>3
    <3>5. m \in Placed("next_hop")
      BY <1>1, <2>2, <2>4, Zenon DEF Placed
    <3>6. (CHOOSE i \in Placed("next_hop") : TRUE) = m
      <4>1. (CHOOSE i \in Placed("next_hop") : TRUE) \in Placed("next_hop")
        BY <3>5, Zenon
      <4>2. QED
        BY <1>5, <1>7, <2>1, <4>1, Zenon DEF m
    <3>7. Hop = part.hop
      <4>1. Placed("next_hop") # {}
        BY <3>5, Zenon
      <4>2. QED
        BY <3>6, <4>1, Zenon DEF Hop, The
    <3>8. QED
      BY <3>4, <3>7, Zenon
  <2>5. CASE part.kind # "next_hop"
    <3>1. part.kind = "junk" /\ IsJunk(part.code, part.data)
      BY <2>2, <2>3, <2>5, PartCases
    <3>2. data = part.data
      BY <2>3, <3>1 DEF PartData
    <3>3. Len(data) # 4
      BY <2>2, <3>1, <3>2, Zenon DEF IsJunk
    <3>4. NextHopOf(SentAttrs) = << >>
      <4> HIDE DEF data
      <4> QED
        BY <1>3, <3>3
    <3>5. Placed("next_hop") = {}
      <4>1. \A i \in Placed("next_hop") : i = m /\ sent.parts[i].kind = "next_hop"
        BY <1>5, <1>7, <2>1, Zenon DEF m, Placed
      <4>2. QED
        BY <2>5, <4>1, Zenon
    <3>6. QED
      BY <3>4, <3>5, Zenon DEF Hop
  <2>6. QED
    BY <2>4, <2>5
<1>10. QED
  BY <1>8, <1>9

(* Of each family the last list of a kind.                                 *)
KindCode(kind) == IF kind = "reach" THEN 14 ELSE 15

LEMMA ListsPlaced ==
    ASSUME SentWell, NEW kind \in {"reach", "unreach"}
    PROVE  /\ Placed(kind) \in SUBSET (1..Len(sent.parts))
           /\ \A i \in Placed(kind) :
                 /\ sent.parts[i].kind = kind /\ sent.parts[i].family \in Families
                 /\ sent.parts[i].code = KindCode(kind) /\ i \in SentListed
                 /\ Listed(sent.parts[i])
           /\ \A i \in SentListed : SentAttrs[i].code = sent.parts[i].code
           /\ \A i \in SentListed : sent.parts[i].code = KindCode(kind) /\ Listed(sent.parts[i]) => i \in Placed(kind)
<1> DEFINE N == Len(sent.parts)
<1>1. DOMAIN sent.parts = 1..N
  BY PartsAre, Zenon
<1>2. \A i \in 1..N : IsPart(sent.parts[i]) /\ SentAttrs[i].code = sent.parts[i].code
  BY PartsAre, Zenon
<1>3. \A part : IsPart(part) /\ part.kind = kind =>
         part.code = KindCode(kind) /\ part.family \in Families /\ part.code \in {14, 15}
  <2> SUFFICES ASSUME NEW part, IsPart(part), part.kind = kind
               PROVE  part.code = KindCode(kind) /\ part.family \in Families /\ part.code \in {14, 15}
    OBVIOUS
  <2> HIDE DEF IsPart
  <2>1. CASE kind = "reach"
    BY <2>1, PartCases DEF KindCode
  <2>2. CASE kind = "unreach"
    BY <2>2, PartCases DEF KindCode
  <2>3. QED
    BY <2>1, <2>2
<1>4. ASSUME NEW i \in Placed(kind)
      PROVE  /\ sent.parts[i].kind = kind /\ sent.parts[i].family \in Families
             /\ sent.parts[i].code = KindCode(kind) /\ i \in SentListed
             /\ Listed(sent.parts[i]) /\ i \in 1..N
  <2>1. i \in 1..N /\ sent.parts[i].kind = kind
    BY <1>1, Zenon DEF Placed
  <2>2. Listed(sent.parts[i])
    BY <2>1, Zenon DEF Listed
  <2>3. QED
    BY <1>1, <1>2, <1>3, <2>1, <2>2, Zenon DEF SentListed
<1>5. \A i \in SentListed : i \in 1..N
  BY <1>1, Zenon DEF SentListed
<1>6. ASSUME NEW i \in SentListed, sent.parts[i].code = KindCode(kind), Listed(sent.parts[i])
      PROVE  i \in Placed(kind)
  <2>1. i \in 1..N /\ IsPart(sent.parts[i])
    BY <1>2, <1>5, Zenon
  <2> DEFINE part == sent.parts[i]
  <2>2. \/ part.kind = "reach" /\ part.code = 14
        \/ part.kind = "unreach" /\ part.code = 15
    <3> HIDE DEF IsPart
    <3>1. part.kind \in {"reach", "unreach"}
      BY <1>6, Zenon DEF Listed
    <3>2. QED
      BY <2>1, <3>1, PartCases
  <2>3. part.code = (IF kind = "reach" THEN 14 ELSE 15)
    BY <1>6, Zenon DEF KindCode
  <2> HIDE DEF part
  <2>4. part.kind = kind
    BY <2>2, <2>3
  <2>5. QED
    BY <1>1, <2>1, <2>4, Zenon DEF Placed, part
<1>7. QED
  BY <1>2, <1>4, <1>5, <1>6, Zenon

LEMMA RoutesPlaced ==
    ASSUME SentWell, NEW kind \in {"reach", "unreach"}
    PROVE  LET decoded == RoutesOf(SentAttrs, SentLists, KindCode(kind))
           IN  /\ DOMAIN decoded = {sent.parts[i].family : i \in Placed(kind)}
               /\ \A i \in Placed(kind) :
                     (\A j \in Placed(kind) : sent.parts[j].family = sent.parts[i].family => j = i)
                       => SameRoutes(decoded[sent.parts[i].family], sent.parts[i].routes,
                                     sent.parts[i].family, HopOf(sent.parts[i]))
<1> DEFINE code == KindCode(kind)
           decoded == RoutesOf(SentAttrs, SentLists, code)
           Given(family) == {i \in DOMAIN SentLists : SentAttrs[i].code = code /\ SentLists[i].family = family}
           Of(family) == {i \in Placed(kind) : sent.parts[i].family = family}
<1>1. DOMAIN SentLists = SentListed /\ SentListed \in SUBSET (1..Len(sent.parts))
      /\ \A i \in SentListed : ListRead(sent.parts[i], SentLists[i])
  BY ListsAre, Zenon
<1>2. /\ \A i \in Placed(kind) :
            /\ sent.parts[i].family \in Families
            /\ sent.parts[i].code = code /\ i \in SentListed
            /\ Listed(sent.parts[i])
      /\ \A i \in SentListed : SentAttrs[i].code = sent.parts[i].code
      /\ \A i \in SentListed : sent.parts[i].code = code /\ Listed(sent.parts[i]) => i \in Placed(kind)
  BY ListsPlaced, Zenon
<1> HIDE DEF code
<1>3. ASSUME NEW family \in Families
      PROVE  Given(family) = Of(family)
  <2>1. ASSUME NEW i \in Given(family)
        PROVE  i \in Of(family)
    <3>1. i \in SentListed /\ SentAttrs[i].code = code /\ SentLists[i].family = family
      BY <1>1, Zenon
    <3>2. ListRead(sent.parts[i], SentLists[i])
      BY <1>1, <3>1, Zenon
    <3>3. Listed(sent.parts[i])
      BY <3>1, <3>2, Zenon DEF ListRead
    <3>4. sent.parts[i].family = family
      BY <3>1, <3>2, <3>3, Zenon DEF ListRead
    <3>5. QED
      BY <1>2, <3>1, <3>3, <3>4, Zenon
  <2>2. ASSUME NEW i \in Of(family)
        PROVE  i \in Given(family)
    <3>1. i \in Placed(kind) /\ sent.parts[i].family = family
      OBVIOUS
    <3>2. i \in SentListed /\ Listed(sent.parts[i]) /\ SentAttrs[i].code = code
      BY <1>2, <3>1, Zenon
    <3>3. SentLists[i].family = family
      BY <1>1, <3>1, <3>2, Zenon DEF ListRead
    <3>4. QED
      BY <1>1, <3>2, <3>3, Zenon
  <2>3. QED
    BY <2>1, <2>2, Zenon
<1>4. decoded = [family \in {f \in Families : Given(f) # {}} |-> SentLists[Max(Given(family))].routes]
  BY Zenon DEF RoutesOf
<1>5. decoded = [family \in {f \in Families : Of(f) # {}} |-> SentLists[Max(Of(family))].routes]
  <2>1. {f \in Families : Given(f) # {}} = {f \in Families : Of(f) # {}}
    BY <1>3, Zenon
  <2>2. \A f \in Families : SentLists[Max(Given(f))].routes = SentLists[Max(Of(f))].routes
    BY <1>3, Zenon
  <2> HIDE DEF Given, Of, decoded
  <2>3. QED
    BY <1>4, <2>1, <2>2, Zenon
<1> HIDE DEF decoded
<1>6. DOMAIN decoded = {sent.parts[i].family : i \in Placed(kind)}
  <2>1. {f \in Families : Of(f) # {}} = {sent.parts[i].family : i \in Placed(kind)}
    BY <1>2, Zenon
  <2> HIDE DEF Of
  <2>2. QED
    BY <1>5, <2>1, Zenon
<1>7. ASSUME NEW i \in Placed(kind),
             \A j \in Placed(kind) : sent.parts[j].family = sent.parts[i].family => j = i
      PROVE  SameRoutes(decoded[sent.parts[i].family], sent.parts[i].routes,
                        sent.parts[i].family, HopOf(sent.parts[i]))
  <2> DEFINE family == sent.parts[i].family
  <2>1. family \in Families /\ i \in SentListed /\ Listed(sent.parts[i])
    BY <1>2, Zenon
  <2>2. Of(family) = {i}
    BY <1>7, Zenon
  <2>3. Max({i}) = i
    <3>1. i \in 1..Len(sent.parts) /\ Len(sent.parts) \in Nat
      BY <1>1, <2>1, PartsAre, Zenon
    <3>2. {i} \in SUBSET (1..Len(sent.parts)) /\ {i} # {}
      BY <3>1, Zenon
    <3>3. Max({i}) \in {i}
      BY <3>1, <3>2, MaxIn, Zenon
    <3>4. QED
      BY <3>3, Zenon
  <2>4. decoded[family] = SentLists[Max(Of(family))].routes
    <3>1. Of(family) # {}
      BY <2>2, Zenon
    <3> HIDE DEF Of, family
    <3>2. QED
      BY <1>5, <2>1, <3>1, Zenon
  <2>5. decoded[family] = SentLists[i].routes
    BY <2>2, <2>3, <2>4, Zenon
  <2>6. QED
    BY <1>1, <2>1, <2>5, Zenon DEF ListRead
<1>8. QED
  BY <1>6, <1>7, Zenon DEF decoded, code

BodyPut(decoded, octets, list) == IF octets = << >> THEN decoded ELSE Put(decoded, <<1, 1>>, list)

LEMMA ListsRead ==
    ASSUME SentWell, NEW kind \in {"reach", "unreach"}, NEW body \in BodyLists, NEW hop
    PROVE  /\ Unicast(EncodedPrefixes(body), 1, hop).ok = TRUE
           /\ SameLists(BodyPut(RoutesOf(SentAttrs, SentLists, KindCode(kind)), EncodedPrefixes(body),
                                Unicast(EncodedPrefixes(body), 1, hop).routes),
                        Lists(kind, body, hop))
<1> DEFINE decoded == RoutesOf(SentAttrs, SentLists, KindCode(kind))
           octets == EncodedPrefixes(body)
           new == Unicast(octets, 1, hop).routes
           all == BodyPut(decoded, octets, new)
           At(i) == [at |-> i, family |-> sent.parts[i].family, routes |-> sent.parts[i].routes,
                     hop |-> IF kind = "reach" THEN sent.parts[i].hop ELSE << >>]
           own == [at |-> 0, family |-> <<1, 1>>, routes |-> body, hop |-> hop]
           placed == {At(i) : i \in Placed(kind)}
           lists == Lists(kind, body, hop)
<1>1. body \in Seq(SentPrefixes(1))
  BY BodyListsAssumption, Zenon
<1>2. Unicast(octets, 1, hop).ok = TRUE /\ SameRoutes(new, body, <<1, 1>>, hop)
  <2>1. 1 # 133
    OBVIOUS
  <2>2. QED
    BY <1>1, <2>1, UnicastRead, Zenon
<1>3. octets = << >> <=> body = << >>
  <2> DEFINE pieces == [i \in DOMAIN body |-> EncodedPrefix(body[i])]
  <2>1. pieces \in Seq(Data) /\ octets = FlattenSeq(pieces)
    BY <1>1, EncodedPrefixesIs, Zenon DEF EncodedPrefixes
  <2>2. pieces = << >> <=> body = << >>
    BY <1>1
  <2> HIDE DEF pieces, octets
  <2>3. pieces # << >> => octets # << >>
    BY <2>1, FlattenData, Zenon DEF Data
  <2>4. pieces = << >> => octets = << >>
    BY <2>1, FlattenNone, Zenon
  <2>5. QED
    BY <2>2, <2>3, <2>4, Zenon
<1>4. lists = placed \cup (IF body = << >> THEN {} ELSE {own})
  BY Zenon DEF Lists
<1>5. /\ DOMAIN decoded = {sent.parts[i].family : i \in Placed(kind)}
      /\ \A i \in Placed(kind) :
            (\A j \in Placed(kind) : sent.parts[j].family = sent.parts[i].family => j = i)
              => SameRoutes(decoded[sent.parts[i].family], sent.parts[i].routes,
                            sent.parts[i].family, HopOf(sent.parts[i]))
  BY RoutesPlaced, Zenon
<1>6. \A i \in Placed(kind) : i \in 1..Len(sent.parts) /\ sent.parts[i].kind = kind
  BY ListsPlaced, Zenon
<1>7. \A i \in Placed(kind) : i # 0
  <2>1. \A i \in 1..Len(sent.parts) : i # 0
    OBVIOUS
  <2>2. QED
    BY <1>6, <2>1, Zenon
<1>8. ASSUME NEW i
      PROVE  /\ At(i).at = i /\ At(i).family = sent.parts[i].family /\ At(i).routes = sent.parts[i].routes
             /\ At(i).hop = (IF kind = "reach" THEN sent.parts[i].hop ELSE << >>)
  OBVIOUS
<1>9. own.at = 0 /\ own.family = <<1, 1>> /\ own.routes = body /\ own.hop = hop
  OBVIOUS
<1>10. \A i \in Placed(kind) : At(i).hop = HopOf(sent.parts[i])
  BY <1>6, <1>8, Zenon DEF HopOf
<1> HIDE DEF At, own, new, decoded, octets, lists
<1>11. DOMAIN all = {list.family : list \in lists}
  <2>1. {list.family : list \in placed} = DOMAIN decoded
    <3>1. \A i \in Placed(kind) : At(i).family = sent.parts[i].family
      BY <1>8, Zenon
    <3>2. \A x : x \in {list.family : list \in placed} <=> \E i \in Placed(kind) : x = At(i).family
      BY Zenon
    <3>3. \A x : x \in DOMAIN decoded <=> \E i \in Placed(kind) : x = sent.parts[i].family
      BY <1>5, Zenon
    <3>4. \A x : x \in {list.family : list \in placed} <=> x \in DOMAIN decoded
      BY <3>1, <3>2, <3>3, ZenonT(60)
    <3> HIDE DEF placed
    <3>5. QED
      BY <3>4, Zenon
  <2> HIDE DEF placed
  <2>2. CASE body = << >>
    <3>1. all = decoded
      BY <1>3, <2>2, Zenon DEF BodyPut
    <3>2. lists = placed
      BY <1>4, <2>2, Zenon
    <3>3. QED
      BY <2>1, <3>1, <3>2, Zenon
  <2>3. CASE body # << >>
    <3>1. all = Put(decoded, <<1, 1>>, new)
      BY <1>3, <2>3, Zenon DEF BodyPut
    <3>2. DOMAIN all = DOMAIN decoded \cup {<<1, 1>>}
      BY <3>1, Zenon DEF Put
    <3>3. lists = placed \cup {own}
      BY <1>4, <2>3, Zenon
    <3>4. {list.family : list \in lists} = {list.family : list \in placed} \cup {<<1, 1>>}
      BY <1>9, <3>3, Zenon
    <3>5. QED
      BY <2>1, <3>2, <3>4, Zenon
  <2>4. QED
    BY <2>2, <2>3
<1>12. ASSUME NEW list \in lists,
              \A other \in lists : other.family = list.family => other.at = list.at
       PROVE  SameRoutes(all[list.family], list.routes, list.family, list.hop)
  <2>1. CASE list \in placed
    <3>1. PICK i \in Placed(kind) : list = At(i)
      BY <2>1, Zenon
    <3>2. ASSUME NEW j \in Placed(kind), sent.parts[j].family = sent.parts[i].family
          PROVE  j = i
      <4>1. At(j) \in lists
        BY <1>4, Zenon
      <4>2. At(j).family = list.family
        BY <1>8, <3>1, <3>2, Zenon
      <4>3. At(j).at = list.at
        BY <1>12, <4>1, <4>2, Zenon
      <4>4. At(j).at = j /\ At(i).at = i
        BY <1>8, Zenon
      <4>5. At(j).at = At(i).at
        BY <3>1, <4>3, Zenon
      <4>6. QED
        BY <4>4, <4>5
    <3>3. SameRoutes(decoded[list.family], list.routes, list.family, list.hop)
      BY <1>5, <1>8, <1>10, <3>1, <3>2, Zenon
    <3>4. all[list.family] = decoded[list.family]
      <4>1. CASE body = << >>
        BY <1>3, <4>1, Zenon DEF BodyPut
      <4>2. CASE body # << >>
        <5>1. own \in lists
          BY <1>4, <4>2, Zenon
        <5>2. list.at # own.at
          BY <1>7, <1>8, <1>9, <3>1, Zenon
        <5>3. list.family # <<1, 1>>
          BY <1>9, <1>12, <5>1, <5>2, Zenon
        <5>4. all = Put(decoded, <<1, 1>>, new)
          BY <1>3, <4>2, Zenon DEF BodyPut
        <5>5. list.family \in DOMAIN decoded
          BY <1>5, <1>8, <3>1, Zenon
        <5>6. QED
          BY <5>3, <5>4, <5>5, Zenon DEF Put
      <4>3. QED
        BY <4>1, <4>2
    <3>5. QED
      BY <3>3, <3>4, Zenon
  <2>2. CASE list \notin placed
    <3>1. body # << >> /\ list = own
      BY <1>4, <2>2, Zenon
    <3>2. all = Put(decoded, <<1, 1>>, new)
      BY <1>3, <3>1, Zenon DEF BodyPut
    <3>3. all[<<1, 1>>] = new
      <4> DEFINE key == <<1, 1>>
      <4>1. all = [k \in DOMAIN decoded \cup {key} |-> IF k = key THEN new ELSE decoded[k]]
        BY <3>2, Zenon DEF Put
      <4> HIDE DEF key, all
      <4>2. all[key] = new
        BY <4>1, Zenon
      <4>3. QED
        BY <4>2, Zenon DEF key
    <3>4. QED
      BY <1>2, <1>9, <3>1, <3>3, Zenon
  <2>3. QED
    BY <2>1, <2>2
<1> HIDE DEF all
<1>13. SameLists(all, lists)
  BY <1>11, <1>12, Zenon DEF SameLists
<1>14. QED
  BY <1>2, <1>13, Zenon DEF all, lists, decoded, octets, new

-----------------------------------------------------------------------------
(* Communities, read back.                                                 *)

(* A redirect or copy to the address zero, of n octets and two more.       *)
ZeroHop(n, flag) == (IF n = 4 THEN <<1, 12>> ELSE <<0, 12>>) \o Zeros(n) \o <<0, flag>>

LEMMA ConcatOfNat ==
    ASSUME NEW s \in Seq(Nat), NEW t \in Seq(Nat)
    PROVE  /\ s \o t \in Seq(Nat) /\ Len(s \o t) = Len(s) + Len(t)
           /\ \A i \in 1..Len(s) : (s \o t)[i] = s[i]
           /\ \A i \in 1..Len(t) : (s \o t)[Len(s) + i] = t[i]
<1> DEFINE R == Nat
<1>1. s \in Seq(R) /\ t \in Seq(R)
  OBVIOUS
<1> HIDE DEF R
<1>2. /\ s \o t \in Seq(R)
      /\ Len(s \o t) = Len(s) + Len(t)
      /\ \A i \in 1..Len(s) : (s \o t)[i] = s[i]
      /\ \A i \in 1..Len(t) : (s \o t)[Len(s) + i] = t[i]
  BY <1>1, ConcatAny
<1>3. QED
  BY <1>2, Zenon DEF R

LEMMA ZeroHopIs ==
    ASSUME NEW n \in {4, 16}, NEW flag \in {0, 1}
    PROVE  /\ DOMAIN ZeroHop(n, flag) = 1..(n + 4)
           /\ ZeroHop(n, flag) = [i \in 1..(n + 4) |-> ZeroHop(n, flag)[i]]
           /\ ZeroHop(n, flag)[1] = (IF n = 4 THEN 1 ELSE 0) /\ ZeroHop(n, flag)[2] = 12
           /\ \A i \in 3..(n + 3) : ZeroHop(n, flag)[i] = 0
           /\ ZeroHop(n, flag)[n + 4] = flag
<1> DEFINE a == IF n = 4 THEN 1 ELSE 0  h == <<a, 12>>  z == Zeros(n)  t == <<0, flag>>  x == (h \o z) \o t
<1>1. ZeroHop(n, flag) = x
  <2>1. (IF n = 4 THEN <<1, 12>> ELSE <<0, 12>>) = h
    OBVIOUS
  <2>2. QED
    BY <2>1, Zenon DEF ZeroHop
<1>2. h \in Seq(Nat) /\ Len(h) = 2 /\ h[1] = a /\ h[2] = 12
  OBVIOUS
<1>3. t \in Seq(Nat) /\ Len(t) = 2 /\ t[1] = 0 /\ t[2] = flag
  OBVIOUS
<1>4. z \in Seq(Nat) /\ Len(z) = n /\ \A i \in 1..n : z[i] = 0
  <2>1. z = [i \in 1..n |-> 0] /\ n \in Nat
    BY DEF Zeros
  <2>2. z \in [1..n -> Nat]
    BY <2>1
  <2> HIDE DEF z
  <2>3. z \in Seq(Nat) /\ Len(z) = n
    BY <2>1, <2>2, SeqOfFunction, SMT
  <2>4. QED
    BY <2>1, <2>3, Zenon
<1> HIDE DEF a, h, z, t
<1>5. /\ h \o z \in Seq(Nat) /\ Len(h \o z) = Len(h) + Len(z)
      /\ \A i \in 1..Len(h) : (h \o z)[i] = h[i]
      /\ \A i \in 1..Len(z) : (h \o z)[Len(h) + i] = z[i]
  BY <1>2, <1>4, ConcatOfNat, Zenon
<1> DEFINE y == h \o z
<1> HIDE DEF y
<1>6. /\ y \in Seq(Nat) /\ Len(y) = 2 + n /\ y[1] = a /\ y[2] = 12
      /\ \A i \in 1..n : y[2 + i] = 0
  <2>1. 1 \in 1..Len(h) /\ 2 \in 1..Len(h)
    BY <1>2
  <2>2. QED
    BY <1>2, <1>4, <1>5, <2>1, SMTT(60) DEF y
<1>7. x = y \o t
  BY DEF y
<1> HIDE DEF x
<1>8. /\ x \in Seq(Nat) /\ Len(x) = Len(y) + Len(t)
      /\ \A i \in 1..Len(y) : x[i] = y[i]
      /\ \A i \in 1..Len(t) : x[Len(y) + i] = t[i]
  BY <1>3, <1>6, <1>7, ConcatOfNat, ZenonT(60)
<1>9. n \in Nat
  OBVIOUS
<1>10. Len(x) = n + 4
  BY <1>3, <1>6, <1>8, <1>9
<1>11. x[1] = a /\ x[2] = 12
  <2>1. 1 \in 1..Len(y) /\ 2 \in 1..Len(y)
    BY <1>6, <1>9
  <2>2. QED
    BY <1>6, <1>8, <2>1, Zenon
<1>12. x[n + 3] = 0 /\ x[n + 4] = flag
  <2>1. Len(y) + 1 = n + 3 /\ Len(y) + 2 = n + 4 /\ 1 \in 1..Len(t) /\ 2 \in 1..Len(t)
    BY <1>3, <1>6, <1>9
  <2>2. QED
    BY <1>3, <1>8, <2>1
<1>13. ASSUME NEW i \in 3..(n + 3)
       PROVE  x[i] = 0
  <2>1. CASE i = n + 3
    BY <1>12, <2>1
  <2>2. CASE i # n + 3
    <3> DEFINE j == i - 2
    <3>1. j \in 1..n /\ i = 2 + j /\ i \in 1..Len(y)
      BY <1>6, <1>9, <2>2
    <3> HIDE DEF j
    <3>2. QED
      BY <1>6, <1>8, <3>1
  <2>3. QED
    BY <2>1, <2>2
<1>14. DOMAIN x = 1..(n + 4) /\ x = [i \in 1..(n + 4) |-> x[i]]
  BY <1>8, <1>10
<1>15. QED
  BY <1>1, <1>11, <1>12, <1>13, <1>14, Zenon DEF a

(* What the receiver takes for a next hop to come is what asks for it.     *)
LEMMA WantsAsked ==
    ASSUME NEW size \in {8, 20}, NEW c \in [1..size -> Octet]
    PROVE  WantsNextHop(c) <=> AsksNextHop(c)
<1> DEFINE n == size - 4
           zero == (\A i \in 3..(size - 1) : c[i] = 0) /\ c[size] \in {0, 1}
           front == c[1] = (IF n = 4 THEN 1 ELSE 0) /\ c[2] = 12
           Hops == \E m \in {4, 16}, flag \in {0, 1} : c = ZeroHop(m, flag)
<1>1. n \in {4, 16} /\ size = n + 4 /\ n \in Nat /\ size - 1 = n + 3 /\ (n = 4 <=> size = 8)
  OBVIOUS
<1>2. c \in Seq(Octet) /\ Len(c) = size /\ DOMAIN c = 1..size /\ c = [i \in 1..size |-> c[i]]
  <2>1. size \in Nat
    OBVIOUS
  <2>2. c \in Seq(Octet) /\ Len(c) = size
    BY <2>1, SeqOfFunction, Zenon
  <2>3. QED
    BY <2>2
<1>3. ASSUME Hops PROVE front /\ zero
  <2>1. PICK m \in {4, 16}, flag \in {0, 1} : c = ZeroHop(m, flag)
    BY <1>3
  <2> DEFINE x == ZeroHop(m, flag)
  <2>2. /\ DOMAIN x = 1..(m + 4)
        /\ x[1] = (IF m = 4 THEN 1 ELSE 0) /\ x[2] = 12
        /\ \A i \in 3..(m + 3) : x[i] = 0
        /\ x[m + 4] = flag
    BY ZeroHopIs, ZenonT(60)
  <2> HIDE DEF x
  <2>3. c = x
    BY <2>1 DEF x
  <2>4. m = n
    <3>1. 1..(m + 4) = 1..size
      BY <1>2, <2>2, <2>3
    <3>2. QED
      BY <1>1, <3>1
  <2> HIDE DEF n
  <2>5. front
    BY <2>2, <2>3, <2>4
  <2>6. \A i \in 3..(size - 1) : c[i] = 0
    BY <1>1, <2>2, <2>3, <2>4
  <2>7. c[size] \in {0, 1}
    BY <1>1, <2>2, <2>3, <2>4
  <2>8. QED
    BY <2>5, <2>6, <2>7
<1>4. ASSUME front, zero PROVE Hops
  <2> DEFINE flag == c[size]  x == ZeroHop(n, flag)
  <2>1. flag \in {0, 1}
    BY <1>4
  <2> HIDE DEF flag, n
  <2>2. /\ DOMAIN x = 1..(n + 4) /\ x = [i \in 1..(n + 4) |-> x[i]]
        /\ x[1] = (IF n = 4 THEN 1 ELSE 0) /\ x[2] = 12
        /\ \A i \in 3..(n + 3) : x[i] = 0
        /\ x[n + 4] = flag
    BY <1>1, <2>1, ZeroHopIs, ZenonT(60)
  <2> HIDE DEF x
  <2>3. ASSUME NEW i \in 1..size
        PROVE  c[i] = x[i]
    <3>1. i = 1 \/ i = 2 \/ i \in 3..(n + 3) \/ i = n + 4
      BY <1>1
    <3>2. CASE i = 1 \/ i = 2
      BY <1>4, <2>2, <3>2
    <3>3. CASE i \in 3..(n + 3)
      BY <1>1, <1>4, <2>2, <3>3
    <3>4. CASE i = n + 4
      BY <1>1, <2>2, <3>4 DEF flag
    <3>5. QED
      BY <3>1, <3>2, <3>3, <3>4
  <2>4. x = [i \in 1..size |-> x[i]]
    BY <1>1, <2>2
  <2>5. c = x
    BY <1>2, <2>3, <2>4, Zenon
  <2>6. QED
    BY <1>1, <2>1, <2>5, Zenon DEF x
<1>5. WantsNextHop(c) <=> Hops \/ (Len(c) = 8 /\ (c[1] = 8 \/ First(c, 2) = <<128, 11>>))
  BY Zenon DEF WantsNextHop, ZeroHop
<1>6. First(c, 2) = <<128, 11>> <=> c[1] = 128 /\ c[2] = 11
  <2> DEFINE f == First(c, 2)
  <2>1. 2 \in 0..Len(c)
    BY <1>2
  <2>2. /\ f \in Seq(Octet) /\ Len(f) = 2
        /\ \A i \in 1..2 : f[i] = c[i]
    BY <1>2, <2>1, Cut, ZenonT(60)
  <2> HIDE DEF f
  <2>3. f = <<f[1], f[2]>> /\ f[1] = c[1] /\ f[2] = c[2]
    BY <2>2
  <2>4. QED
    BY <2>3 DEF f
<1>7. AsksNextHop(c) <=> IF size = 8 THEN c[1] = 8 \/ (c[1] = 128 /\ c[2] = 11) \/ (c[1] = 1 /\ c[2] = 12 /\ zero)
                         ELSE c[1] = 0 /\ c[2] = 12 /\ zero
  <2> DEFINE Z(from, to) == (\A i \in from..(to - 1) : c[i] = 0) /\ c[to] \in {0, 1}
  <2>1. AsksNextHop(c) <=> IF Len(c) = 8 THEN \/ c[1] = 8
                                              \/ c[1] = 128 /\ c[2] = 11
                                              \/ c[1] = 1 /\ c[2] = 12 /\ Z(3, 8)
                           ELSE c[1] = 0 /\ c[2] = 12 /\ Z(3, 20)
    BY Zenon DEF AsksNextHop
  <2>2. (size = 8 => (Z(3, 8) <=> zero)) /\ (size # 8 => size = 20 /\ (Z(3, 20) <=> zero))
    OBVIOUS
  <2> HIDE DEF Z, zero
  <2>3. QED
    BY <1>2, <2>1, <2>2, Zenon
<1>8. Hops <=> front /\ zero
  BY <1>3, <1>4
<1> HIDE DEF Hops, zero
<1>9. front <=> IF size = 8 THEN c[1] = 1 /\ c[2] = 12 ELSE c[1] = 0 /\ c[2] = 12
  BY <1>1
<1> HIDE DEF front, n
<1>10. QED
  BY <1>2, <1>5, <1>6, <1>7, <1>8, <1>9, Zenon

(* FlattenSeq up to the k-th piece.                                        *)
LEMMA FlattenStep ==
    ASSUME NEW S, NEW segs \in Seq(Seq(S)), NEW k \in 1..Len(segs)
    PROVE  /\ First(segs, k - 1) \in Seq(Seq(S)) /\ segs[k] \in Seq(S)
           /\ FlattenSeq(First(segs, k - 1)) \in Seq(S)
           /\ FlattenSeq(First(segs, k)) = FlattenSeq(First(segs, k - 1)) \o segs[k]
<1> DEFINE R == Seq(S)
<1>1. segs \in Seq(R) /\ k - 1 \in 0..Len(segs)
  OBVIOUS
<1> HIDE DEF R
<1>2. First(segs, k - 1) \in Seq(R)
  BY <1>1, Cut, Zenon
<1>3. segs[k] \in R
  BY <1>1, ElementOfSeq, Zenon
<1>4. First(segs, k) = Append(First(segs, k - 1), segs[k])
  BY <1>1, FirstStep, Zenon
<1>5. /\ FlattenSeq(First(segs, k - 1)) \in Seq(S)
      /\ FlattenSeq(First(segs, k)) = FlattenSeq(First(segs, k - 1)) \o segs[k]
  BY <1>2, <1>3, <1>4, FlattenAppend, Zenon DEF R
<1>6. QED
  BY <1>2, <1>3, <1>5, Zenon DEF R

LEMMA FlattenEnds ==
    ASSUME NEW S, NEW segs \in Seq(Seq(S))
    PROVE  /\ Len(segs) \in Nat
           /\ FlattenSeq(First(segs, 0)) = << >>
           /\ First(segs, Len(segs)) = segs
<1> DEFINE R == Seq(S)
<1>1. segs \in Seq(R)
  OBVIOUS
<1> HIDE DEF R
<1>2. Len(segs) \in Nat /\ First(segs, Len(segs)) = segs
  BY <1>1 DEF First
<1>3. First(segs, 0) = << >>
  BY <1>1 DEF First
<1>4. QED
  BY <1>2, <1>3, FlattenNone, Zenon

(* Pieces of one length stand at the multiples of it.                      *)
LEMMA FlattenEven ==
    ASSUME NEW S, NEW segs \in Seq(Seq(S)), NEW w \in {8, 20}, \A i \in 1..Len(segs) : Len(segs[i]) = w
    PROVE  /\ FlattenSeq(segs) \in Seq(S)
           /\ Len(FlattenSeq(segs)) = w * Len(segs)
           /\ \A i \in 1..Len(segs) : SubSeq(FlattenSeq(segs), w * (i - 1) + 1, w * i) = segs[i]
<1> DEFINE R == Seq(S)  m == Len(segs)
           T == {k \in 0..m : Len(FlattenSeq(First(segs, k))) = w * k}
           all == FlattenSeq(segs)
<1>1. m \in Nat /\ FlattenSeq(First(segs, 0)) = << >> /\ First(segs, m) = segs
  BY FlattenEnds, Zenon
<1>2. 0 \in T
  <2>1. Len(<< >>) = 0 /\ 0 \in 0..m /\ w * 0 = 0
    BY <1>1
  <2>2. QED
    BY <1>1, <2>1
<1>3. \A k \in 1..m : /\ segs[k] \in Seq(S) /\ FlattenSeq(First(segs, k - 1)) \in Seq(S)
                      /\ FlattenSeq(First(segs, k)) = FlattenSeq(First(segs, k - 1)) \o segs[k]
  BY FlattenStep, Zenon
<1>4. ASSUME NEW k \in 1..m, k - 1 \in T
      PROVE  k \in T
  <2> DEFINE u == FlattenSeq(First(segs, k - 1))  v == segs[k]
  <2>1. u \in Seq(S) /\ v \in Seq(S) /\ FlattenSeq(First(segs, k)) = u \o v
    BY <1>3
  <2>2. Len(u) = w * (k - 1) /\ Len(v) = w
    BY <1>4
  <2> HIDE DEF u, v
  <2>3. Len(u \o v) = Len(u) + Len(v)
    BY <2>1, ConcatAny
  <2>4. Len(u \o v) = w * k
    <3> HIDE DEF m
    <3>1. k \in Nat
      BY <1>1
    <3>2. w * (k - 1) + w = w * k
      BY <3>1
    <3>3. QED
      BY <2>2, <2>3, <3>2
  <2>5. k \in 0..m
    BY <1>1
  <2>6. QED
    BY <2>1, <2>4, <2>5
<1>5. \A k \in 0..m : Len(FlattenSeq(First(segs, k))) = w * k
  <2>1. \A k \in 0..m : k \in T
    <3> HIDE DEF T, m
    <3> QED
      BY <1>1, <1>2, <1>4, UpTo, Zenon
  <2>2. QED
    BY <2>1, Zenon
<1>6. all \in Seq(S)
  BY FlattenIn, Zenon
<1>7. Len(all) = w * m
  <2>1. m \in 0..m
    BY <1>1
  <2>2. QED
    BY <1>1, <1>5, <2>1, Zenon
<1>8. ASSUME NEW i \in 1..m
      PROVE  SubSeq(all, w * (i - 1) + 1, w * i) = segs[i]
  <2> DEFINE u == FlattenSeq(First(segs, i - 1))  x == segs[i]  v == FlattenSeq(After(segs, i))
  <2>1. all = u \o (x \o v)
    BY FlattenAround, Zenon
  <2>2. u \in Seq(S) /\ x \in Seq(S)
    BY <1>3
  <2>3. v \in Seq(S)
    <3>1. After(segs, i) \in Seq(R)
      <4>1. segs \in Seq(R) /\ i \in 0..Len(segs)
        OBVIOUS
      <4> HIDE DEF R
      <4>2. QED
        BY <4>1, Cut, Zenon
    <3>2. QED
      BY <3>1, FlattenIn, Zenon
  <2>4. Len(u) = w * (i - 1) /\ Len(x) = w
    <3>1. i - 1 \in 0..m
      BY <1>1
    <3>2. QED
      BY <1>5, <3>1, Zenon
  <2> HIDE DEF u, x, v, all, m
  <2>5. /\ Len(x \o v) = Len(x) + Len(v) /\ x \o v \in Seq(S) /\ Len(v) \in Nat
    BY <2>2, <2>3, ConcatAny
  <2>6. \A k \in 1..Len(x) : (x \o v)[k] = x[k]
    BY <2>2, <2>3, ConcatAny
  <2>7. Len(all) = Len(u) + Len(x \o v)
    BY <2>1, <2>2, <2>5, ConcatAny
  <2>8. \A k \in 1..Len(x \o v) : all[Len(u) + k] = (x \o v)[k]
    BY <2>1, <2>2, <2>5, ConcatAny, SMTT(60)
  <2> DEFINE a == w * (i - 1)  b == w * i
  <2>9. a \in Nat /\ b \in Nat /\ a <= b /\ b - a = w /\ w \in Nat /\ b = a + w
    BY <1>1
  <2> HIDE DEF a, b
  <2>10. b <= Len(all)
    <3> DEFINE l == Len(all)  n == Len(v)  k == Len(x \o v)
    <3>1. l = a + k /\ k = w + n /\ n \in Nat
      BY <2>4, <2>5, <2>7 DEF a
    <3> HIDE DEF l, n, k
    <3>2. b <= l
      BY <2>9, <3>1
    <3>3. QED
      BY <3>2 DEF l
  <2>11. /\ SubSeq(all, a + 1, b) \in Seq(S) /\ Len(SubSeq(all, a + 1, b)) = w
         /\ \A k \in 1..w : SubSeq(all, a + 1, b)[k] = all[a + k]
    BY <1>6, <2>9, <2>10, SubSeqIs
  <2>12. \A k \in 1..w : all[a + k] = x[k]
    <3> SUFFICES ASSUME NEW k \in 1..w PROVE all[a + k] = x[k]
      OBVIOUS
    <3>1. k \in 1..Len(x) /\ k \in 1..Len(x \o v)
      BY <2>4, <2>5, <2>9
    <3>2. QED
      BY <2>4, <2>6, <2>8, <3>1 DEF a
  <2>13. SubSeq(all, a + 1, b) = x
    <3> DEFINE y == SubSeq(all, a + 1, b)
    <3>1. y \in Seq(S) /\ Len(y) = w /\ \A k \in 1..w : y[k] = x[k]
      BY <2>11, <2>12
    <3> HIDE DEF y
    <3>2. y = [k \in 1..w |-> y[k]] /\ x = [k \in 1..w |-> x[k]]
      BY <2>2, <2>4, <3>1
    <3>3. y = x
      BY <3>1, <3>2, Zenon
    <3>4. QED
      BY <3>3 DEF y
  <2>14. QED
    BY <2>13 DEF a, b, x
<1>9. QED
  BY <1>6, <1>7, <1>8, Zenon

(* Element by element, of the pieces and of the whole.                     *)
Mapped(m, s) == [k \in DOMAIN s |-> m[s[k]]]

MapsOver(m, s, t) == Mapped(m, s \o t) = Mapped(m, s) \o Mapped(m, t)

LEMMA MappedIs ==
    ASSUME NEW S, NEW V, NEW m \in [S -> V], NEW s \in Seq(S), NEW t \in Seq(S)
    PROVE  /\ Mapped(m, s) \in Seq(V) /\ Len(Mapped(m, s)) = Len(s)
           /\ MapsOver(m, s, t)
<1>1. ASSUME NEW x \in Seq(S)
      PROVE  /\ Mapped(m, x) \in Seq(V) /\ Len(Mapped(m, x)) = Len(x)
             /\ Len(x) \in Nat /\ DOMAIN x = 1..Len(x)
             /\ \A k \in 1..Len(x) : Mapped(m, x)[k] = m[x[k]]
  <2>1. Len(x) \in Nat /\ DOMAIN x = 1..Len(x) /\ \A k \in 1..Len(x) : x[k] \in S
    OBVIOUS
  <2>2. Mapped(m, x) = [k \in 1..Len(x) |-> m[x[k]]]
    BY <2>1, Zenon DEF Mapped
  <2>3. Mapped(m, x) \in [1..Len(x) -> V]
    BY <2>1, <2>2, Zenon
  <2>4. Mapped(m, x) \in Seq(V) /\ Len(Mapped(m, x)) = Len(x)
    BY <2>1, <2>3, SeqOfFunction, Zenon
  <2>5. QED
    BY <2>1, <2>2, <2>4, Zenon
<1> DEFINE a == Mapped(m, s)  b == Mapped(m, t)  c == s \o t  l == Len(s)  n == Len(t)
<1>2. /\ c \in Seq(S)
      /\ Len(c) = l + n
      /\ \A k \in 1..l : c[k] = s[k]
      /\ \A k \in 1..n : c[l + k] = t[k]
  BY ConcatAny
<1>3. /\ a \o b \in Seq(V)
      /\ Len(a \o b) = Len(a) + Len(b)
      /\ \A k \in 1..Len(a) : (a \o b)[k] = a[k]
      /\ \A k \in 1..Len(b) : (a \o b)[Len(a) + k] = b[k]
  <2>1. a \in Seq(V) /\ b \in Seq(V)
    BY <1>1, Zenon
  <2> HIDE DEF a, b
  <2>2. QED
    BY <2>1, ConcatAny
<1>4. Len(a) = l /\ Len(b) = n /\ l \in Nat /\ n \in Nat
  BY <1>1, Zenon
<1>5. /\ \A k \in 1..l : a[k] = m[s[k]]
      /\ \A k \in 1..n : b[k] = m[t[k]]
      /\ \A k \in 1..Len(c) : Mapped(m, c)[k] = m[c[k]]
  BY <1>1, <1>2, Zenon
<1>6. Mapped(m, c) \in Seq(V) /\ Len(Mapped(m, c)) = Len(c)
  BY <1>1, <1>2, Zenon
<1> DEFINE x == Mapped(m, c)  y == a \o b  N == l + n
<1>7. x \in Seq(V) /\ y \in Seq(V) /\ Len(x) = N /\ Len(y) = N
  BY <1>2, <1>3, <1>4, <1>6, Zenon
<1>8. ASSUME NEW k \in 1..N
      PROVE  x[k] = y[k]
  <2>1. x[k] = m[c[k]]
    BY <1>2, <1>5, Zenon
  <2>2. CASE k \in 1..l
    <3>1. c[k] = s[k] /\ y[k] = a[k] /\ a[k] = m[s[k]]
      BY <1>2, <1>3, <1>4, <1>5, <2>2, Zenon
    <3>2. QED
      BY <2>1, <3>1, Zenon
  <2>3. CASE k \notin 1..l
    <3>1. PICK j \in 1..n : k = l + j
      <4> HIDE DEF l, n
      <4>1. k - l \in 1..n /\ k = l + (k - l)
        BY <1>4, <2>3
      <4>2. QED
        BY <4>1, Zenon
    <3>2. c[l + j] = t[j] /\ y[l + j] = b[j] /\ b[j] = m[t[j]]
      BY <1>2, <1>3, <1>4, <1>5, <3>1, Zenon
    <3>3. QED
      BY <2>1, <3>1, <3>2, Zenon
  <2>4. QED
    BY <2>2, <2>3
<1> HIDE DEF x, y, N
<1>9. x = [k \in 1..N |-> x[k]] /\ y = [k \in 1..N |-> y[k]]
  BY <1>7
<1>10. x = y
  BY <1>8, <1>9, Zenon
<1>11. QED
  BY <1>1, <1>10, Zenon DEF x, y, MapsOver

LEMMA FlattenMapped ==
    ASSUME NEW S, NEW V, NEW m \in [S -> V], NEW segs \in Seq(Seq(S))
    PROVE  /\ FlattenSeq(segs) \in Seq(S)
           /\ FlattenSeq([i \in 1..Len(segs) |-> Mapped(m, segs[i])]) = Mapped(m, FlattenSeq(segs))
<1> DEFINE R == Seq(S)  W == Seq(V)  N == Len(segs)
           f == [i \in 1..N |-> Mapped(m, segs[i])]
           T == {k \in 0..N : FlattenSeq(First(f, k)) = Mapped(m, FlattenSeq(First(segs, k)))}
<1>1. N \in Nat /\ FlattenSeq(First(segs, 0)) = << >> /\ First(segs, N) = segs
  BY FlattenEnds, Zenon
<1>2. \A k \in 1..N : /\ segs[k] \in Seq(S) /\ FlattenSeq(First(segs, k - 1)) \in Seq(S)
                      /\ FlattenSeq(First(segs, k)) = FlattenSeq(First(segs, k - 1)) \o segs[k]
  BY FlattenStep, Zenon
<1>3. f \in Seq(W) /\ Len(f) = N
  <2>1. \A k \in 1..N : Mapped(m, segs[k]) \in W
    BY <1>2, MappedIs, Zenon
  <2>2. f \in [1..N -> W]
    BY <2>1, Zenon
  <2> HIDE DEF f
  <2>3. QED
    BY <1>1, <2>2, SeqOfFunction, Zenon
<1>4. \A k \in 1..N : f[k] = Mapped(m, segs[k])
  BY Zenon
<1> HIDE DEF f
<1>5. FlattenSeq(First(f, 0)) = << >> /\ First(f, N) = f
  BY <1>3, FlattenEnds, Zenon
<1>6. \A k \in 1..N : FlattenSeq(First(f, k)) = FlattenSeq(First(f, k - 1)) \o f[k]
  BY <1>3, FlattenStep, Zenon
<1>7. 0 \in T
  <2>1. Mapped(m, << >>) = << >> /\ 0 \in 0..N
    BY <1>1 DEF Mapped
  <2>2. QED
    BY <1>1, <1>5, <2>1, Zenon
<1>8. ASSUME NEW k \in 1..N, k - 1 \in T
      PROVE  k \in T
  <2> DEFINE u == FlattenSeq(First(segs, k - 1))  v == segs[k]
  <2>1. u \in Seq(S) /\ v \in Seq(S) /\ FlattenSeq(First(segs, k)) = u \o v
    BY <1>2, Zenon
  <2>2. FlattenSeq(First(f, k)) = Mapped(m, u) \o Mapped(m, v)
    <3>1. FlattenSeq(First(f, k - 1)) = Mapped(m, u)
      BY <1>8, Zenon
    <3>2. QED
      BY <1>4, <1>6, <3>1, Zenon
  <2> HIDE DEF u, v
  <2>3. Mapped(m, u \o v) = Mapped(m, u) \o Mapped(m, v)
    <3>1. u \in Seq(S) /\ v \in Seq(S)
      BY <2>1
    <3>2. QED
      <4>1. MapsOver(m, u, v)
        BY <3>1, MappedIs, Zenon
      <4>2. QED
        BY <4>1, Zenon DEF MapsOver
  <2>4. k \in 0..N
    BY <1>1
  <2>5. QED
    BY <2>1, <2>2, <2>3, <2>4, Zenon
<1>9. N \in T
  <2>1. \A k \in 0..N : k \in T
    <3> HIDE DEF T, N
    <3> QED
      BY <1>1, <1>7, <1>8, UpTo, Zenon
  <2>2. N \in 0..N
    BY <1>1
  <2>3. QED
    BY <2>1, <2>2, Zenon
<1>10. FlattenSeq(segs) \in Seq(S)
  BY FlattenIn, Zenon
<1>11. FlattenSeq(First(f, N)) = Mapped(m, FlattenSeq(First(segs, N)))
  BY <1>9, Zenon
<1>12. FlattenSeq(f) = Mapped(m, FlattenSeq(segs))
  BY <1>1, <1>5, <1>11, Zenon
<1>13. QED
  BY <1>10, <1>12, Zenon DEF f

CommunitySet == [octets : [1..8 -> Octet] \cup [1..20 -> Octet], open : BOOLEAN]
ActionOf == [c \in CommunitySet |-> [community |-> c.octets, to |-> IF c.open THEN "next hop" ELSE "given"]]
ActionSet == {ActionOf[c] : c \in CommunitySet}
Asking(part) == IF part.kind = "actions" THEN part.communities ELSE << >>

LEMMA CommunitiesRead ==
    ASSUME NEW list, NEW size \in {8, 20}, AreCommunities(list, size), NEW data,
           data = FlattenSeq([i \in DOMAIN list |-> list[i].octets])
    PROVE  /\ list \in Seq(CommunitySet)
           /\ Len(data) % size = 0
           /\ Actions(data, size) = Mapped(ActionOf, list)
<1> DEFINE n == Len(list)  f == [i \in DOMAIN list |-> list[i].octets]  C == [1..size -> Octet]
<1>1. /\ n \in Nat /\ DOMAIN list = 1..n
      /\ f \in Seq(Seq(Octet))
      /\ \A i \in 1..n : list[i].octets \in C
                         /\ (list[i].open <=> AsksNextHop(list[i].octets))
  BY CommunitiesIn, Zenon
<1>2. list \in Seq([octets : C, open : BOOLEAN])
  BY Zenon DEF AreCommunities
<1>3. \A i \in 1..n : list[i] \in CommunitySet
  <2> DEFINE S == [octets : C, open : BOOLEAN]
  <2>1. \A i \in 1..n : list[i] \in S
    <3>1. list \in Seq(S)
      BY <1>2
    <3> HIDE DEF S
    <3>2. QED
      BY <3>1, ElementOfSeq, Zenon
  <2>2. C \subseteq [1..8 -> Octet] \cup [1..20 -> Octet]
    OBVIOUS
  <2> DEFINE E == [1..8 -> Octet] \cup [1..20 -> Octet]
  <2>3. \A c \in S : c \in [octets : E, open : BOOLEAN]
    <3> HIDE DEF C, E
    <3> QED
      BY <2>2 DEF E
  <2> HIDE DEF S, C
  <2>4. QED
    BY <2>1, <2>3, Zenon DEF CommunitySet
<1>4. list = [i \in 1..n |-> list[i]]
  <2> DEFINE S == [octets : C, open : BOOLEAN]
  <2> HIDE DEF S
  <2> QED
    BY <1>1, <1>2
<1>5. list \in Seq(CommunitySet)
  <2>1. list \in [1..n -> CommunitySet]
    BY <1>3, <1>4, Zenon
  <2> HIDE DEF n
  <2>2. QED
    BY <1>1, <2>1, SeqOfFunction, Zenon
<1>6. Len(f) = n /\ \A i \in 1..n : f[i] = list[i].octets /\ Len(f[i]) = size
  <2>1. \A i \in 1..n : f[i] = list[i].octets
    BY <1>1, Zenon
  <2>2. Len(f) = n
    <3>1. DOMAIN f = 1..n
      BY <1>1, Zenon
    <3> HIDE DEF f, n
    <3>2. QED
      BY <1>1, <3>1
  <2>3. \A c \in C : Len(c) = size
    <3>1. size \in Nat
      OBVIOUS
    <3>2. QED
      BY <3>1, SeqOfFunction, Zenon
  <2>4. QED
    BY <1>1, <2>1, <2>2, <2>3, Zenon
<1> HIDE DEF f
<1>7. /\ Len(data) = size * n
      /\ \A i \in 1..n : SubSeq(data, size * (i - 1) + 1, size * i) = f[i]
  <2>1. data = FlattenSeq(f)
    BY DEF f
  <2> HIDE DEF n
  <2>2. \A i \in 1..Len(f) : Len(f[i]) = size
    BY <1>6
  <2>3. /\ Len(FlattenSeq(f)) = size * Len(f)
        /\ \A i \in 1..Len(f) : SubSeq(FlattenSeq(f), size * (i - 1) + 1, size * i) = f[i]
    BY <1>1, <2>2, FlattenEven, ZenonT(60)
  <2>4. QED
    BY <1>6, <2>1, <2>3
<1>8. Len(data) % size = 0 /\ Len(data) \div size = n
  <2> HIDE DEF n
  <2> DEFINE l == Len(data)
  <2>1. l = size * n
    BY <1>7
  <2> HIDE DEF l
  <2>2. CASE size = 8
    <3>1. l = 8 * n /\ n \in Nat
      BY <1>1, <2>1, <2>2
    <3>2. l % 8 = 0 /\ l \div 8 = n
      BY <3>1
    <3>3. QED
      BY <2>2, <3>2 DEF l
  <2>3. CASE size = 20
    <3>1. l = 20 * n /\ n \in Nat
      BY <1>1, <2>1, <2>3
    <3>2. l % 20 = 0 /\ l \div 20 = n
      BY <3>1
    <3>3. QED
      BY <2>3, <3>2 DEF l
  <2>4. QED
    BY <2>2, <2>3
<1> DEFINE act(i) == LET c == SubSeq(data, size * (i - 1) + 1, size * i)
                     IN  [community |-> c, to |-> IF WantsNextHop(c) THEN "next hop" ELSE "given"]
<1>9. Actions(data, size) = [i \in 1..n |-> act(i)]
  BY <1>8 DEF Actions
<1>10. ASSUME NEW i \in 1..n
       PROVE  act(i) = ActionOf[list[i]]
  <2> DEFINE c == list[i].octets
  <2>1. SubSeq(data, size * (i - 1) + 1, size * i) = c
    BY <1>6, <1>7, Zenon
  <2>2. act(i) = [community |-> c, to |-> IF WantsNextHop(c) THEN "next hop" ELSE "given"]
    BY <2>1, Zenon
  <2>3. WantsNextHop(c) <=> list[i].open
    BY <1>1, WantsAsked, Zenon
  <2>4. ActionOf[list[i]] = [community |-> c, to |-> IF list[i].open THEN "next hop" ELSE "given"]
    BY <1>3, Zenon DEF ActionOf
  <2>5. (IF WantsNextHop(c) THEN "next hop" ELSE "given") = (IF list[i].open THEN "next hop" ELSE "given")
    BY <2>3, Zenon
  <2> HIDE DEF act
  <2>6. QED
    BY <2>2, <2>4, <2>5, Zenon
<1>11. Actions(data, size) = Mapped(ActionOf, list)
  <2> HIDE DEF act, n
  <2> QED
    BY <1>1, <1>9, <1>10, ZenonT(60) DEF Mapped
<1>12. QED
  BY <1>5, <1>8, <1>11

LEMMA ActionsRead ==
    ASSUME NEW part, IsPart(part), part.code \in Octet, NEW attr,
           attr.code = part.code, attr.data = PartData(part)
    PROVE  /\ Asking(part) \in Seq(CommunitySet)
           /\ ActionsOf(attr) = Mapped(ActionOf, Asking(part))
<1> DEFINE size == IF attr.code = 16 THEN 8 ELSE 20
<1>1. ActionsOf(attr) = IF attr.code \in {16, 25} /\ Len(attr.data) % size = 0
                        THEN Actions(attr.data, size) ELSE << >>
  BY Zenon DEF ActionsOf
<1>2. CASE part.kind = "actions"
  <2>1. \/ part.code = 16 /\ AreCommunities(part.communities, 8)
        \/ part.code = 25 /\ AreCommunities(part.communities, 20)
    BY <1>2, PartCases
  <2>2. AreCommunities(part.communities, size) /\ size \in {8, 20} /\ attr.code \in {16, 25}
    BY <2>1
  <2>3. attr.data = FlattenSeq([i \in DOMAIN part.communities |-> part.communities[i].octets])
    BY <1>2 DEF PartData
  <2> HIDE DEF size
  <2>4. /\ part.communities \in Seq(CommunitySet)
        /\ Len(attr.data) % size = 0
        /\ Actions(attr.data, size) = Mapped(ActionOf, part.communities)
    BY <2>2, <2>3, CommunitiesRead, ZenonT(60)
  <2>5. Asking(part) = part.communities
    BY <1>2 DEF Asking
  <2>6. QED
    BY <1>1, <2>2, <2>4, <2>5, Zenon
<1>3. CASE part.kind # "actions"
  <2>1. Asking(part) = << >> /\ Mapped(ActionOf, << >>) = << >> /\ << >> \in Seq(CommunitySet)
    BY <1>3 DEF Asking, Mapped
  <2>2. ~(attr.code \in {16, 25} /\ Len(attr.data) % size = 0)
    <3>1. CASE part.kind = "junk"
      <4>1. IsJunk(part.code, part.data)
        BY <3>1, PartCases
      <4>2. attr.data = part.data
        BY <3>1 DEF PartData
      <4>3. (part.code = 16 => Len(part.data) % 8 # 0) /\ (part.code = 25 => Len(part.data) % 20 # 0)
        BY <4>1, Zenon DEF IsJunk
      <4> DEFINE d == attr.data
      <4> HIDE DEF d
      <4>4. QED
        BY <4>2, <4>3 DEF d
    <3>2. CASE part.kind # "junk"
      <4>1. part.code \notin {16, 25}
        BY <1>3, <3>2, PartCases
      <4>2. QED
        BY <4>1
    <3>3. QED
      BY <3>1, <3>2
  <2> HIDE DEF size
  <2>3. QED
    BY <1>1, <2>1, <2>2, Zenon
<1>4. QED
  BY <1>2, <1>3

(* All of them, and completed by the next hop of the rules.                *)
LEMMA AskedRead ==
    ASSUME SentWell
    PROVE  /\ Asked \in Seq(CommunitySet)
           /\ FlattenSeq([i \in DOMAIN SentAttrs |-> ActionsOf(SentAttrs[i])]) = Mapped(ActionOf, Asked)
<1> DEFINE N == Len(sent.parts)  R == Seq(CommunitySet)
           segs == [i \in DOMAIN sent.parts |-> Asking(sent.parts[i])]
           f == [i \in 1..N |-> Mapped(ActionOf, segs[i])]
<1>1. N \in Nat /\ DOMAIN sent.parts = 1..N /\ DOMAIN SentAttrs = 1..N
  BY PartsAre, Zenon
<1>2. ASSUME NEW i \in 1..N
      PROVE  Asking(sent.parts[i]) \in R /\ ActionsOf(SentAttrs[i]) = Mapped(ActionOf, Asking(sent.parts[i]))
  <2>1. /\ IsPart(sent.parts[i]) /\ sent.parts[i].code \in Octet
        /\ SentAttrs[i].code = sent.parts[i].code
        /\ SentAttrs[i].data = PartData(sent.parts[i])
    BY PartsAre, Zenon
  <2>2. QED
    BY <2>1, ActionsRead, Zenon
<1>3. segs \in Seq(R) /\ Len(segs) = N
  <2>1. segs \in [1..N -> R]
    BY <1>1, <1>2, Zenon
  <2> HIDE DEF segs, N, R
  <2>2. QED
    BY <1>1, <2>1, SeqOfFunction, Zenon
<1>4. Asked = FlattenSeq(segs)
  BY Zenon DEF Asked, Asking
<1>5. [i \in DOMAIN SentAttrs |-> ActionsOf(SentAttrs[i])] = f
  <2>1. \A i \in 1..N : segs[i] = Asking(sent.parts[i])
    BY <1>1, Zenon
  <2> HIDE DEF segs
  <2>2. QED
    BY <1>1, <1>2, <2>1, Zenon
<1>6. ActionOf \in [CommunitySet -> ActionSet]
  BY Zenon DEF ActionOf, ActionSet
<1> HIDE DEF segs
<1>7. FlattenSeq(segs) \in Seq(CommunitySet) /\ FlattenSeq(f) = Mapped(ActionOf, FlattenSeq(segs))
  <2>1. FlattenSeq([i \in 1..Len(segs) |-> Mapped(ActionOf, segs[i])]) = Mapped(ActionOf, FlattenSeq(segs))
    BY <1>3, <1>6, FlattenMapped, ZenonT(60)
  <2>2. FlattenSeq(segs) \in Seq(CommunitySet)
    BY <1>3, FlattenIn, Zenon
  <2>3. QED
    BY <1>3, <2>1, <2>2, Zenon
<1>8. QED
  BY <1>4, <1>5, <1>7, Zenon

HopLists == {i \in DOMAIN SentLists : /\ SentLists[i].family \in {<<1, 133>>, <<2, 133>>}
                                      /\ SentLists[i].next_hop # << >>}

LEMMA RuleHops ==
    ASSUME SentWell
    PROVE  /\ \A i \in HopLists : SentLists[i].next_hop \in FlowHops
           /\ HopLists = {} <=> FlowHops = {}
           /\ HopLists # {} => Max(HopLists) \in HopLists
<1> DEFINE N == Len(sent.parts)
<1>1. DOMAIN SentLists = SentListed /\ SentListed \in SUBSET (1..N)
      /\ \A i \in SentListed : ListRead(sent.parts[i], SentLists[i])
  BY ListsAre, Zenon
<1>2. N \in Nat /\ DOMAIN sent.parts = 1..N /\ \A i \in 1..N : IsPart(sent.parts[i])
  BY PartsAre, Zenon
<1>3. \A family \in {<<1, 133>>, <<2, 133>>} : family \in Families /\ family[2] = 133
  BY DEF Families
<1>4. \A family \in Families : family[2] = 133 => family \in {<<1, 133>>, <<2, 133>>}
  BY DEF Families
<1>5. ASSUME NEW i \in HopLists
      PROVE  SentLists[i].next_hop \in FlowHops
  <2>1. i \in SentListed /\ SentLists[i].family \in {<<1, 133>>, <<2, 133>>} /\ SentLists[i].next_hop # << >>
    BY <1>1, Zenon DEF HopLists
  <2> DEFINE part == sent.parts[i]
  <2>2. ListRead(part, SentLists[i]) /\ i \in DOMAIN sent.parts
    BY <1>1, <1>2, <2>1, Zenon
  <2>3. SentLists[i].family \in Families /\ SentLists[i].family[2] = 133
    BY <1>3, <2>1, ZenonT(60)
  <2>4. Listed(part)
    BY <2>2, <2>3, Zenon DEF ListRead
  <2>5. SentLists[i].family = part.family /\ SentLists[i].next_hop = HopOf(part)
    BY <2>2, <2>4, Zenon DEF ListRead
  <2>6. part.kind = "reach" /\ HopOf(part) = part.hop
    BY <2>1, <2>5, Zenon DEF HopOf
  <2>7. part.family[2] = 133 /\ part.hop # << >>
    BY <2>1, <2>3, <2>5, <2>6, ZenonT(60)
  <2>8. part.hop \in FlowHops
    BY <2>2, <2>6, <2>7, ZenonT(60) DEF FlowHops
  <2>9. QED
    BY <2>5, <2>6, <2>8, Zenon
<1>6. ASSUME NEW hop \in FlowHops
      PROVE  HopLists # {}
  <2>1. PICK i \in DOMAIN sent.parts : sent.parts[i].kind = "reach" /\ sent.parts[i].family[2] = 133
                                       /\ hop = sent.parts[i].hop /\ hop # << >>
    BY Zenon DEF FlowHops
  <2> DEFINE part == sent.parts[i]
  <2>2. i \in Placed("reach")
    BY <2>1, Zenon DEF Placed
  <2>3. part.family \in Families /\ i \in SentListed /\ Listed(part)
    <3>1. "reach" \in {"reach", "unreach"}
      OBVIOUS
    <3>2. QED
      BY <2>2, <3>1, ListsPlaced, Zenon
  <2>4. SentLists[i].family = part.family /\ SentLists[i].next_hop = HopOf(part)
    BY <1>1, <2>3, Zenon DEF ListRead
  <2>5. HopOf(part) = hop
    BY <2>1, Zenon DEF HopOf
  <2>6. part.family \in {<<1, 133>>, <<2, 133>>}
    BY <1>4, <2>1, <2>3, Zenon
  <2>7. i \in HopLists
    BY <1>1, <2>1, <2>3, <2>4, <2>5, <2>6, Zenon DEF HopLists
  <2>8. QED
    BY <2>7, Zenon
<1>7. HopLists # {} => Max(HopLists) \in HopLists
  <2>1. HopLists \in SUBSET (1..N)
    BY <1>1, Zenon DEF HopLists
  <2> HIDE DEF N
  <2>2. QED
    BY <1>2, <2>1, MaxIn, Zenon
<1>8. QED
  BY <1>5, <1>6, <1>7, Zenon

Directed(a, h) == [a EXCEPT !.to = h]

LEMMA CompletedRead ==
    ASSUME SentWell
    PROVE  SameActions(Completed(Mapped(ActionOf, Asked), SentLists))
<1> DEFINE actions == Mapped(ActionOf, Asked)  n == Len(Asked)
           hop == SentLists[Max(HopLists)].next_hop
           done(i) == IF actions[i].to = "next hop" /\ HopLists # {}
                      THEN Directed(actions[i], hop) ELSE actions[i]
           all == Completed(actions, SentLists)
<1>1. Asked \in Seq(CommunitySet)
  BY AskedRead, Zenon
<1>2. n \in Nat /\ DOMAIN Asked = 1..n /\ \A i \in 1..n : Asked[i] \in CommunitySet
  BY <1>1
<1>3. DOMAIN actions = 1..n /\ \A i \in 1..n : actions[i] = ActionOf[Asked[i]]
  BY <1>2, Zenon DEF Mapped
<1>4. ASSUME NEW i \in 1..n
      PROVE  /\ actions[i].community = Asked[i].octets
             /\ actions[i].to = (IF Asked[i].open THEN "next hop" ELSE "given")
             /\ \A h : /\ Directed(actions[i], h).community = Asked[i].octets
                       /\ Directed(actions[i], h).to = h
  <2> DEFINE o == Asked[i].octets  t == IF Asked[i].open THEN "next hop" ELSE "given"  a == actions[i]
  <2>1. a = [community |-> o, to |-> t]
    BY <1>2, <1>3, Zenon DEF ActionOf
  <2> HIDE DEF a, o, t
  <2>2. a.community = o /\ a.to = t
    BY <2>1
  <2>3. \A h : Directed(a, h).community = o /\ Directed(a, h).to = h
    BY <2>1 DEF Directed
  <2>4. QED
    BY <2>2, <2>3, Zenon DEF a, o, t
<1> HIDE DEF actions
<1>5. all = [i \in 1..n |-> done(i)]
  <2>1. all = [i \in DOMAIN actions |-> done(i)]
    BY Zenon DEF Completed, HopLists, Directed
  <2>2. QED
    BY <1>3, <2>1, Zenon
<1>6. /\ \A i \in HopLists : SentLists[i].next_hop \in FlowHops
      /\ HopLists = {} <=> FlowHops = {}
      /\ HopLists # {} => Max(HopLists) \in HopLists
  BY RuleHops, Zenon
<1>7. ASSUME NEW i \in 1..n
      PROVE  /\ all[i].community = Asked[i].octets
             /\ IF ~Asked[i].open THEN all[i].to = "given"
                ELSE IF FlowHops = {} THEN all[i].to = "next hop"
                ELSE all[i].to \in FlowHops
  <2>1. all[i] = done(i)
    BY <1>5, Zenon
  <2> HIDE DEF all
  <2>2. CASE ~Asked[i].open
    <3>1. actions[i].to = "given"
      BY <1>4, <2>2, Zenon
    <3>2. actions[i].to # "next hop"
      BY <3>1
    <3>3. all[i] = actions[i]
      BY <2>1, <3>2, Zenon
    <3>4. QED
      BY <1>4, <2>2, <3>1, <3>3, Zenon
  <2>3. CASE Asked[i].open /\ FlowHops = {}
    <3>1. actions[i].to = "next hop"
      BY <1>4, <2>3, Zenon
    <3>2. all[i] = actions[i]
      BY <1>6, <2>1, <2>3, Zenon
    <3>3. QED
      BY <1>4, <2>3, <3>1, <3>2, Zenon
  <2>4. CASE Asked[i].open /\ FlowHops # {}
    <3>1. actions[i].to = "next hop" /\ HopLists # {}
      BY <1>4, <1>6, <2>4, Zenon
    <3>2. all[i] = Directed(actions[i], hop)
      BY <2>1, <3>1, Zenon
    <3>3. hop \in FlowHops
      BY <1>6, <3>1, Zenon
    <3> HIDE DEF hop
    <3>4. all[i].community = Asked[i].octets /\ all[i].to = hop
      <4>1. \A h : Directed(actions[i], h).community = Asked[i].octets /\ Directed(actions[i], h).to = h
        BY <1>4, Zenon
      <4> DEFINE d == Directed(actions[i], hop)
      <4>2. d.community = Asked[i].octets /\ d.to = hop
        BY <4>1, Zenon
      <4> HIDE DEF d
      <4>3. all[i] = d
        BY <3>2, Zenon DEF d
      <4>4. QED
        BY <4>2, <4>3
    <3>5. QED
      BY <2>4, <3>3, <3>4, Zenon
  <2>5. QED
    BY <2>2, <2>3, <2>4, Zenon
<1>8. Len(all) = Len(Asked)
  <2> HIDE DEF done, n
  <2>1. Len([i \in 1..n |-> done(i)]) = n
    BY <1>2
  <2> HIDE DEF all
  <2>2. QED
    BY <1>5, <2>1 DEF n
<1> HIDE DEF all
<1>9. QED
  BY <1>2, <1>7, <1>8, Zenon DEF SameActions, all, actions

-----------------------------------------------------------------------------
(* The path, read back.                                                    *)

(* One octet is no segment.                                                *)
LEMMA PathBad ==
    ASSUME NEW data \in Seq(Octet), Len(data) = 1, NEW w \in {2, 4}
    PROVE  Path(data, w).ok = FALSE
<1> DEFINE size == SegmentSize(w)  none == {}
<1>1. size \in [Data -> Nat \ {0}]
  <2>1. w \in {1, 2, 4}
    OBVIOUS
  <2>2. QED
    BY <2>1, SegmentSizeType, Zenon
<1>2. data # << >> /\ data \in Data /\ Short(data, 2)
  <2>1. data # << >>
    <3>1. Len(<< >>) = 0 /\ 0 # 1
      OBVIOUS
    <3>2. QED
      BY <3>1, Zenon
  <2>2. Short(data, 2)
    BY SMT DEF Short
  <2>3. QED
    BY <2>1, <2>2, Zenon DEF Data
<1>3. size[data] = 2
  BY <1>2, Zenon DEF SegmentSize
<1> HIDE DEF size, none
<1>4. PICK items : /\ Items(data, size, none) = items[0]
                   /\ \A p \in 0..Len(data) : ItemsAt(items, data, size, none, p)
  BY <1>1, ItemsGo, Zenon
<1>5. After(data, 0) = data
  BY DEF After
<1>6. 0 \in 0..Len(data)
  OBVIOUS
<1>7. items[0] = << >>
  BY <1>2, <1>3, <1>4, <1>5, <1>6, Zenon DEF ItemsAt
<1>8. FlattenSeq(Items(data, size, none)) # data
  BY <1>2, <1>4, <1>7, FlattenNone, Zenon
<1>9. Split(data, size).ok = FALSE
  <2> DEFINE items2 == Items(data, size, none)
  <2>1. Split(data, size) = [ok |-> FlattenSeq(items2) = data, items |-> items2]
    BY Zenon DEF Split, none
  <2>2. (FlattenSeq(items2) = data) = FALSE
    BY <1>8, Zenon
  <2>3. Split(data, size) = [ok |-> FALSE, items |-> items2]
    BY <2>1, <2>2, Zenon
  <2> HIDE DEF items2
  <2> DEFINE list == Split(data, size)
  <2>4. list = [ok |-> FALSE, items |-> items2]
    BY <2>3, Zenon
  <2> HIDE DEF list
  <2>5. list.ok = FALSE
    BY <2>4
  <2>6. QED
    BY <2>5, Zenon DEF list
<1>10. PICK p : Path(data, w) = [ok |-> Split(data, size).ok, path |-> p]
  BY PathIs, Zenon DEF size
<1>11. Path(data, w) = [ok |-> FALSE, path |-> p]
  BY <1>9, <1>10, Zenon
<1> DEFINE all == Path(data, w)
<1>12. all = [ok |-> FALSE, path |-> p]
  BY <1>11, Zenon
<1> HIDE DEF all
<1>13. all.ok = FALSE
  BY <1>12
<1>14. QED
  BY <1>13, Zenon DEF all

(* The one attribute of a code whose path is well formed is the path.      *)
LEMMA PathFound ==
    ASSUME SentWell, NEW w, NEW p \in 1..Len(sent.parts), sent.parts[p].code \notin {14, 15},
           Path(PartData(sent.parts[p]), w).ok = TRUE
    PROVE  PathOf(SentAttrs, sent.parts[p].code, w) = Path(PartData(sent.parts[p]), w).path
<1> DEFINE N == Len(sent.parts)  code == sent.parts[p].code
           paths == {i \in DOMAIN SentAttrs : SentAttrs[i].code = code /\ Path(SentAttrs[i].data, w).ok}
<1>1. N \in Nat /\ DOMAIN sent.parts = 1..N /\ DOMAIN SentAttrs = 1..N
  BY PartsAre, Zenon
<1>2. \A i \in 1..N : SentAttrs[i].code = sent.parts[i].code /\ SentAttrs[i].data = PartData(sent.parts[i])
  BY PartsAre, Zenon
<1>3. PathOf(SentAttrs, code, w) = IF paths = {} THEN << >> ELSE Path(SentAttrs[Max(paths)].data, w).path
  BY Zenon DEF PathOf
<1>4. paths \in SUBSET (1..N) /\ p \in paths
  <2>1. SentAttrs[p].code = code /\ SentAttrs[p].data = PartData(sent.parts[p])
    BY <1>2, Zenon
  <2>2. Path(SentAttrs[p].data, w).ok
    BY <2>1, Zenon
  <2>3. QED
    BY <1>1, <2>1, <2>2, Zenon
<1>5. \A i \in paths : i = p
  <2>1. \A i \in paths : i \in 1..N /\ sent.parts[i].code = code
    BY <1>1, <1>2, Zenon
  <2>2. QED
    BY <1>1, <2>1, Zenon DEF SentWell, PartsOnce
<1> HIDE DEF paths
<1>6. Max(paths) \in paths
  BY <1>1, <1>4, MaxIn, Zenon
<1>7. Max(paths) = p
  BY <1>5, <1>6, Zenon
<1>8. PathOf(SentAttrs, code, w) = Path(SentAttrs[p].data, w).path
  BY <1>3, <1>4, <1>7, Zenon
<1>9. QED
  BY <1>2, <1>8, Zenon

LEMMA PathNone ==
    ASSUME SentWell, NEW w \in {2, 4}, NEW code \in {2, 17},
           \A i \in 1..Len(sent.parts) : sent.parts[i].code = code => sent.parts[i].kind = "junk"
    PROVE  PathOf(SentAttrs, code, w) = << >>
<1> DEFINE N == Len(sent.parts)
           paths == {i \in DOMAIN SentAttrs : SentAttrs[i].code = code /\ Path(SentAttrs[i].data, w).ok}
<1>1. DOMAIN SentAttrs = 1..N
  BY PartsAre, Zenon
<1>2. \A i \in 1..N : /\ IsPart(sent.parts[i]) /\ PartData(sent.parts[i]) \in Seq(Octet)
                      /\ SentAttrs[i].code = sent.parts[i].code /\ SentAttrs[i].data = PartData(sent.parts[i])
  BY PartsAre, Zenon
<1>3. PathOf(SentAttrs, code, w) = IF paths = {} THEN << >> ELSE Path(SentAttrs[Max(paths)].data, w).path
  BY Zenon DEF PathOf
<1>4. ASSUME NEW i \in 1..N, SentAttrs[i].code = code
      PROVE  ~Path(SentAttrs[i].data, w).ok
  <2> DEFINE part == sent.parts[i]
  <2>1. IsPart(part) /\ part.code = code /\ part.kind = "junk"
    BY <1>2, <1>4, Zenon
  <2>2. IsJunk(part.code, part.data)
    BY <2>1, PartCases
  <2>3. part.data \in Seq(Octet) /\ Len(part.data) = 1
    BY <2>1, <2>2, Zenon DEF IsJunk
  <2>4. PartData(part) = part.data
    BY <2>1 DEF PartData
  <2>5. Path(part.data, w).ok = FALSE
    BY <2>3, PathBad, Zenon
  <2>6. QED
    BY <1>2, <2>4, <2>5, Zenon
<1>5. paths = {}
  BY <1>1, <1>4, Zenon
<1> HIDE DEF paths
<1>6. QED
  BY <1>3, <1>5, Zenon

SentWidth == IF wide THEN 4 ELSE 2

LEMMA TrailIsRead ==
    ASSUME SentWell, Placed("path") # {}
    PROVE  PathOf(SentAttrs, 2, SentWidth) =
               [i \in 1..Len(sent.trail) |-> AsRead(sent.trail[i], SentWidth)]
<1>1. SentWidth \in {2, 4}
  BY DEF SentWidth
<1>2. sent.trail \in Seq(Asn)
  BY TrailsAssumption, Zenon DEF SentWell, Composed
<1>3. PICK p \in DOMAIN sent.parts : sent.parts[p].kind = "path"
  BY Zenon DEF Placed
<1>4. p \in 1..Len(sent.parts) /\ IsPart(sent.parts[p])
  BY PartsAre, Zenon
<1>5. sent.parts[p].code = 2
  BY <1>3, <1>4, PartCases
<1>6. 2 \notin {14, 15}
  OBVIOUS
<1> DEFINE r == Path(EncodedTrail(sent.trail, SentWidth), SentWidth)
           back == [i \in 1..Len(sent.trail) |-> AsRead(sent.trail[i], SentWidth)]
<1>7. r = [ok |-> TRUE, path |-> back]
  BY <1>1, <1>2, TrailRead, Zenon
<1>8. PartData(sent.parts[p]) = EncodedTrail(sent.trail, SentWidth)
  BY <1>3 DEF PartData, SentWidth
<1> HIDE DEF r, back
<1>9. r.ok = TRUE /\ r.path = back
  BY <1>7
<1>10. Path(PartData(sent.parts[p]), SentWidth) = r
  BY <1>8, Zenon DEF r
<1>11. PathOf(SentAttrs, 2, SentWidth) = Path(PartData(sent.parts[p]), SentWidth).path
  BY <1>4, <1>5, <1>6, <1>9, <1>10, PathFound, Zenon
<1>12. QED
  BY <1>9, <1>10, <1>11, Zenon DEF back

LEMMA TailIsRead ==
    ASSUME SentWell
    PROVE  /\ Placed("as4") = {} => PathOf(SentAttrs, 17, 4) = << >>
           /\ Placed("as4") # {} =>
                 /\ ~wide
                 /\ The("as4").covers \in Nat
                 /\ The("as4").covers <= Len(sent.trail) + Len(Stale)
                 /\ PathOf(SentAttrs, 17, 4) = Tail4(sent.trail, The("as4").covers)
<1>1. sent.trail \in Seq(Asn) /\ sent.trail \in Trails
  BY TrailsAssumption, Zenon DEF SentWell, Composed
<1>2. \A i \in 1..Len(sent.parts) : IsPart(sent.parts[i])
  BY PartsAre, Zenon
<1>3. DOMAIN sent.parts = 1..Len(sent.parts)
  BY PartsAre, Zenon
<1>4. 4 \in {2, 4} /\ 17 \in {2, 17} /\ 17 \notin {14, 15}
  OBVIOUS
<1>5. CASE Placed("as4") = {}
  <2>1. ASSUME NEW i \in 1..Len(sent.parts), sent.parts[i].code = 17
        PROVE  sent.parts[i].kind = "junk"
    <3>1. sent.parts[i].kind # "as4"
      BY <1>3, <1>5, Zenon DEF Placed
    <3>2. IsPart(sent.parts[i])
      BY <1>2, Zenon
    <3>3. QED
      BY <2>1, <3>1, <3>2, PartCases
  <2>2. QED
    BY <1>4, <1>5, <2>1, PathNone, Zenon
<1>6. CASE Placed("as4") # {}
  <2> DEFINE p == CHOOSE i \in Placed("as4") : TRUE
             part == sent.parts[p]  n == part.covers  tail == Tail4(sent.trail, n)
             back == [i \in 1..Len(tail) |-> AsRead(tail[i], 4)]
             r == Path(EncodedTrail(tail, 4), 4)
  <2>1. p \in Placed("as4")
    BY <1>6, Zenon
  <2>2. The("as4") = part
    BY Zenon DEF The
  <2> HIDE DEF p
  <2>3. p \in 1..Len(sent.parts) /\ part.kind = "as4"
    BY <1>3, <2>1, Zenon DEF Placed
  <2>4. part.code = 17 /\ n \in Nat
    <3>1. IsPart(part)
      BY <1>2, <2>3, Zenon
    <3>2. QED
      BY <2>3, <3>1, PartCases
  <2>5. ~wide
    BY <1>3, <2>3, Zenon DEF SentWell, PartsOnce
  <2>6. n <= Len(sent.trail) + Len(Stale)
    <3>1. sent.parts \in Seq(Parts)
      BY Zenon DEF SentWell, Composed
    <3>2. part \in Parts
      BY <2>3, <3>1
    <3>3. QED
      BY <1>1, <2>3, <3>2, TrailsAssumption, Zenon
  <2>7. tail \in Seq(Asn)
    BY <1>1, <2>4, <2>6, TailIs, ZenonT(60)
  <2>8. PartData(part) = EncodedTrail(tail, 4)
    BY <2>3 DEF PartData
  <2> HIDE DEF part, n, tail
  <2>9. r = [ok |-> TRUE, path |-> back]
    BY <1>4, <2>7, TrailRead, ZenonT(60)
  <2>10. back = tail
    <3>1. \A i \in 1..Len(tail) : AsRead(tail[i], 4) = tail[i]
      BY DEF AsRead
    <3>2. tail = [i \in 1..Len(tail) |-> tail[i]]
      BY <2>7
    <3>3. QED
      BY <3>1, <3>2, Zenon
  <2> HIDE DEF back, r
  <2>11. r.ok = TRUE /\ r.path = tail
    BY <2>9, <2>10
  <2>12. Path(PartData(sent.parts[p]), 4).ok = TRUE /\ sent.parts[p].code = 17
    BY <2>4, <2>8, <2>11, Zenon DEF part, r
  <2>13. PathOf(SentAttrs, 17, 4) = Path(PartData(sent.parts[p]), 4).path
    BY <1>4, <2>3, <2>12, PathFound, Zenon
  <2>14. PathOf(SentAttrs, 17, 4) = tail
    BY <2>8, <2>11, <2>13, Zenon DEF part, r
  <2>15. QED
    BY <1>6, <2>2, <2>4, <2>5, <2>6, <2>14, Zenon DEF n, tail
<1>7. QED
  BY <1>5, <1>6

(* The path as it comes back, number by number.                            *)
Trans == <<0, 23456>>
MeantAt(i) == IF sent.trail[i][1] = 0 \/ i > Len(sent.trail) - Covered THEN sent.trail[i] ELSE Trans

LEMMA MergedRead ==
    ASSUME SentWell, Placed("path") # {}, Covered <= Len(sent.trail)
    PROVE  SamePath(MergedPath(PathOf(SentAttrs, 2, SentWidth), PathOf(SentAttrs, 17, 4)))
<1> DEFINE trail == sent.trail  L == Len(trail)
           path == [i \in 1..L |-> AsRead(trail[i], SentWidth)]
           as4 == PathOf(SentAttrs, 17, 4)
           merged == MergedPath(path, as4)
           meant == [i \in 1..L |-> MeantAt(i)]
<1>1. trail \in Seq(Asn) /\ L \in Nat /\ DOMAIN trail = 1..L
  <2>1. trail \in Seq(Asn)
    BY TrailsAssumption, Zenon DEF SentWell, Composed
  <2>2. QED
    BY <2>1
<1>2. PathOf(SentAttrs, 2, SentWidth) = path
  BY TrailIsRead, Zenon
<1>3. /\ Placed("as4") = {} => as4 = << >>
      /\ Placed("as4") # {} =>
            /\ ~wide
            /\ The("as4").covers \in Nat
            /\ The("as4").covers <= Len(sent.trail) + Len(Stale)
            /\ as4 = Tail4(sent.trail, The("as4").covers)
  BY TailIsRead, Zenon
<1>4. SamePath(merged) <=> merged = meant
  <2>1. SamePath(merged) <=> merged = [i \in DOMAIN trail |-> MeantAt(i)]
    <3> HIDE DEF merged
    <3> QED
      BY DEF SamePath, MeantAt, Trans
  <2>2. QED
    BY <1>1, <2>1, Zenon
<1> HIDE DEF as4
<1>5. ASSUME NEW i \in 1..L
      PROVE  /\ trail[i] \in Asn
             /\ trail[i] = <<trail[i][1], trail[i][2]>>
             /\ path[i] = AsRead(trail[i], SentWidth)
             /\ ~wide /\ trail[i][1] = 0 => path[i] = trail[i]
             /\ ~wide /\ trail[i][1] # 0 => path[i] = Trans
  <2>1. trail[i] \in Asn
    BY <1>1
  <2>2. trail[i] = <<trail[i][1], trail[i][2]>>
    BY <2>1, TwoIs, Zenon
  <2>3. path[i] = AsRead(trail[i], SentWidth)
    OBVIOUS
  <2> HIDE DEF path
  <2> DEFINE a == trail[i]
  <2>4. ASSUME ~wide
        PROVE  /\ a[1] = 0 => path[i] = a
               /\ a[1] # 0 => path[i] = Trans
    <3>1. SentWidth = 2
      BY <2>4 DEF SentWidth
    <3>2. path[i] = <<0, Two(a)>>
      BY <2>3, <3>1 DEF AsRead
    <3> HIDE DEF a
    <3>3. CASE a[1] = 0
      <4>1. Two(a) = a[2]
        BY <3>3 DEF Two
      <4>2. a = <<a[1], a[2]>>
        BY <2>2, Zenon DEF a
      <4>3. QED
        BY <3>2, <3>3, <4>1, <4>2
    <3>4. CASE a[1] # 0
      <4>1. Two(a) = 23456
        BY <3>4 DEF Two
      <4>2. QED
        BY <3>2, <3>4, <4>1 DEF Trans
    <3>5. QED
      BY <3>3, <3>4
  <2>5. QED
    BY <2>1, <2>2, <2>3, <2>4, Zenon
<1>6. path = [i \in 1..L |-> path[i]] /\ DOMAIN path = 1..L /\ path \in Seq(Asn) /\ Len(path) = L
  <2>1. \A i \in 1..L : path[i] \in Asn
    <3>1. SentWidth \in {2, 4}
      BY DEF SentWidth
    <3>2. \A i \in 1..L : trail[i] \in Asn /\ path[i] = AsRead(trail[i], SentWidth)
      BY <1>5, Zenon
    <3> HIDE DEF path
    <3>3. ASSUME NEW i \in 1..L PROVE path[i] \in Asn
      <4>1. trail[i] \in Asn
        BY <3>2, Zenon
      <4> DEFINE a == trail[i]  v == SentWidth
      <4> HIDE DEF a, v
      <4>2. a \in Asn /\ v \in {2, 4}
        BY <3>1, <4>1, Zenon DEF a, v
      <4>3. AsRead(a, v) \in Asn
        BY <4>2, AsnIs, Zenon
      <4>4. QED
        BY <3>2, <4>3, Zenon DEF a, v
    <3>4. QED
      BY <3>3, Zenon
  <2>2. path \in [1..L -> Asn]
    BY <2>1, Zenon
  <2> HIDE DEF path
  <2>3. path \in Seq(Asn) /\ Len(path) = L
    BY <1>1, <2>2, SeqOfFunction, Zenon
  <2>4. QED
    BY <2>2, <2>3
<1>7. meant = [i \in 1..L |-> meant[i]]
  OBVIOUS
<1>8. ASSUME NEW i \in 1..L
      PROVE  /\ trail[i][1] = 0 => meant[i] = trail[i]
             /\ i > L - Covered => meant[i] = trail[i]
             /\ trail[i][1] # 0 /\ ~(i > L - Covered) => meant[i] = Trans
  <2>1. meant[i] = MeantAt(i)
    BY Zenon
  <2>2. QED
    BY <2>1, Zenon DEF MeantAt
<1>9. CASE Placed("as4") = {}
  <2>1. merged = path
    BY <1>3, <1>9 DEF MergedPath
  <2>2. ASSUME NEW i \in 1..L PROVE path[i] = meant[i]
    <3>1. CASE wide
      <4>1. SentWidth = 4 /\ Covered = L
        BY <3>1 DEF SentWidth, Covered
      <4>2. path[i] = trail[i]
        BY <1>5, <4>1 DEF AsRead
      <4> HIDE DEF meant, path
      <4>3. i > L - Covered
        BY <1>1, <4>1
      <4>4. QED
        BY <1>8, <4>2, <4>3, Zenon
    <3>2. CASE ~wide
      <4>1. Covered = 0
        BY <1>9, <3>2 DEF Covered
      <4> HIDE DEF meant, path
      <4>2. ~(i > L - Covered)
        BY <1>1, <4>1
      <4>3. QED
        BY <1>5, <1>8, <3>2, <4>2, Zenon
    <3>3. QED
      BY <3>1, <3>2
  <2> HIDE DEF meant, path
  <2>3. path = meant
    BY <1>6, <1>7, <2>2, Zenon
  <2>4. QED
    BY <1>2, <1>4, <2>1, <2>3, Zenon DEF as4
<1>10. CASE Placed("as4") # {}
  <2> DEFINE c == Covered
  <2>1. ~wide /\ c = The("as4").covers
    BY <1>3, <1>10, Zenon DEF Covered
  <2>2. c \in Nat /\ c <= Len(sent.trail) + Len(Stale) /\ as4 = Tail4(sent.trail, c)
    BY <1>3, <1>10, <2>1, Zenon
  <2>3. c <= L
    OBVIOUS
  <2>4. /\ as4 \in Seq(Asn) /\ Len(as4) = c
        /\ \A i \in 1..c : as4[i] = trail[L - c + i]
    BY <1>1, <2>2, <2>3, TailIs, Zenon
  <2> HIDE DEF c
  <2>5. merged = SubSeq(path, 1, L - c) \o as4
    <3> HIDE DEF path, L
    <3>1. CASE as4 = << >>
      <4>1. c = 0
        BY <2>4, <3>1
      <4>2. merged = path
        BY <3>1 DEF MergedPath
      <4>3. SubSeq(path, 1, L - c) = path
        BY <1>1, <1>6, <4>1
      <4>4. path \o << >> = path
        BY <1>6
      <4>5. QED
        BY <3>1, <4>2, <4>3, <4>4
    <3>2. CASE as4 # << >>
      <4>1. ~(Len(as4) > Len(path)) /\ Len(path) - Len(as4) = L - c
        BY <1>1, <1>6, <2>2, <2>3, <2>4
      <4>2. QED
        BY <3>2, <4>1 DEF MergedPath
    <3>3. QED
      BY <3>1, <3>2
  <2> DEFINE front == SubSeq(path, 1, L - c)
  <2>6. front \in Seq(Asn) /\ Len(front) = L - c /\ \A i \in 1..(L - c) : front[i] = path[i]
    <3> HIDE DEF path, L
    <3> QED
      BY <1>1, <1>6, <2>2, <2>3, SMTT(60)
  <2> HIDE DEF front
  <2>7. /\ merged \in Seq(Asn) /\ Len(merged) = L
        /\ \A i \in 1..(L - c) : merged[i] = path[i]
        /\ \A i \in 1..c : merged[L - c + i] = as4[i]
    <3> HIDE DEF path, L, merged
    <3> DEFINE A == Asn
    <3>1. front \in Seq(A) /\ as4 \in Seq(A) /\ merged = front \o as4
      BY <2>4, <2>5, <2>6, Zenon DEF front
    <3> HIDE DEF A
    <3>2. /\ front \o as4 \in Seq(A) /\ Len(front \o as4) = Len(front) + Len(as4)
          /\ \A i \in 1..Len(front) : (front \o as4)[i] = front[i]
          /\ \A i \in 1..Len(as4) : (front \o as4)[Len(front) + i] = as4[i]
      BY <3>1, ConcatAny, SMT
    <3>3. Len(front) + Len(as4) = L
      BY <1>1, <2>2, <2>4, <2>6
    <3>4. QED
      BY <2>4, <2>6, <3>1, <3>2, <3>3, ZenonT(60) DEF A
  <2>8. ASSUME NEW i \in 1..L PROVE merged[i] = meant[i]
    <3> HIDE DEF path, merged, meant
    <3>1. CASE i > L - c
      <4> DEFINE j == i - (L - c)
      <4>1. j \in 1..c /\ L - c + j = i
        <5> HIDE DEF L
        <5>1. j \in Int /\ 1 <= j /\ j <= c
          BY <1>1, <2>2, <2>3, <3>1
        <5>2. L - c + j = i
          BY <1>1, <2>2
        <5>3. QED
          BY <2>2, <5>1, <5>2
      <4> HIDE DEF j
      <4>2. merged[i] = trail[i]
        BY <2>4, <2>7, <4>1, Zenon
      <4>3. QED
        BY <1>8, <3>1, <4>2, Zenon DEF c
    <3>2. CASE ~(i > L - c)
      <4>1. i \in 1..(L - c)
        BY <1>1, <2>2, <2>3, <3>2
      <4>2. merged[i] = path[i]
        BY <2>7, <4>1, Zenon
      <4>3. QED
        BY <1>5, <1>8, <2>1, <3>2, <4>2, Zenon DEF c
    <3>3. QED
      BY <3>1, <3>2
  <2>9. merged = meant
    <3> HIDE DEF merged, meant
    <3>1. merged = [i \in 1..L |-> merged[i]]
      BY <2>7
    <3>2. QED
      BY <1>7, <2>8, <3>1, Zenon
  <2>10. QED
    BY <1>2, <1>4, <2>9, Zenon DEF as4
<1>11. QED
  BY <1>9, <1>10

-----------------------------------------------------------------------------
(* The whole message.                                                      *)

Meant(decoded) ==
    /\ decoded.ok
    /\ SameLists(decoded.announce, Lists("reach", sent.nlri, Hop))
    /\ SameLists(decoded.withdraw, Lists("unreach", sent.withdrawn, << >>))
    /\ SameActions(decoded.actions)
    /\ Placed("path") # {} /\ Covered <= Len(sent.trail) => SamePath(decoded.path)

LEMMA SentIsRead ==
    ASSUME SentWell
    PROVE  Meant(Update(EncodedUpdate, SentWidth))
<1> DEFINE gone == Unicast(GoneOctets, 1, << >>)
           new == Unicast(NewOctets, 1, NextHopOf(SentAttrs))
           announce == BodyPut(RoutesOf(SentAttrs, SentLists, 14), NewOctets, new.routes)
           withdraw == BodyPut(RoutesOf(SentAttrs, SentLists, 15), GoneOctets, gone.routes)
           asked == FlattenSeq([i \in DOMAIN SentAttrs |-> ActionsOf(SentAttrs[i])])
           actions == Completed(asked, SentLists)
           path == MergedPath(PathOf(SentAttrs, 2, SentWidth), PathOf(SentAttrs, 17, 4))
           bad == (\E i \in DOMAIN SentLists : ~SentLists[i].ok) \/ ~gone.ok \/ ~new.ok
           read == [ok |-> TRUE, announce |-> announce, withdraw |-> withdraw,
                    actions |-> actions, path |-> path]
           decoded == Update(EncodedUpdate, SentWidth)
<1>1. decoded = IF bad THEN Malformed ELSE read
  <2>1. decoded = Collected(SentAttrs, SentWidth, GoneOctets, NewOctets)
    BY UpdateRead, Zenon DEF SentWell
  <2>2. Collected(SentAttrs, SentWidth, GoneOctets, NewOctets) = IF bad THEN Malformed ELSE read
    BY Zenon DEF Collected, SentLists, BodyPut
  <2>3. QED
    BY <2>1, <2>2, Zenon
<1>2. sent.nlri \in BodyLists /\ sent.withdrawn \in BodyLists
  BY Zenon DEF SentWell, Composed
<1>3. NextHopOf(SentAttrs) = Hop
  BY HopRead, Zenon
<1>4. new.ok = TRUE /\ SameLists(announce, Lists("reach", sent.nlri, Hop))
  <2>1. "reach" \in {"reach", "unreach"} /\ KindCode("reach") = 14
    BY DEF KindCode
  <2>2. NewOctets = EncodedPrefixes(sent.nlri)
    BY Zenon DEF NewOctets
  <2>3. QED
    BY <1>2, <1>3, <2>1, <2>2, ListsRead, Zenon
<1>5. gone.ok = TRUE /\ SameLists(withdraw, Lists("unreach", sent.withdrawn, << >>))
  <2>1. "unreach" \in {"reach", "unreach"} /\ KindCode("unreach") = 15
    BY DEF KindCode
  <2>2. GoneOctets = EncodedPrefixes(sent.withdrawn)
    BY Zenon DEF GoneOctets
  <2>3. QED
    BY <1>2, <2>1, <2>2, ListsRead, Zenon
<1>6. \A i \in DOMAIN SentLists : SentLists[i].ok = TRUE
  BY ListsAre, Zenon DEF ListRead
<1>7. SameActions(actions)
  BY AskedRead, CompletedRead, Zenon
<1>8. Placed("path") # {} /\ Covered <= Len(sent.trail) => SamePath(path)
  BY MergedRead, Zenon
<1>9. ~bad
  BY <1>4, <1>5, <1>6, Zenon
<1>10. decoded = read
  BY <1>1, <1>9, Zenon
<1> HIDE DEF announce, withdraw, actions, path, decoded
<1>11. /\ decoded.ok = TRUE /\ decoded.announce = announce /\ decoded.withdraw = withdraw
       /\ decoded.actions = actions /\ decoded.path = path
  BY <1>10
<1>12. Meant(decoded)
  BY <1>4, <1>5, <1>7, <1>8, <1>11, Zenon DEF Meant
<1>13. QED
  BY <1>12, Zenon DEF decoded

-----------------------------------------------------------------------------
(* The sender keeps to what it may put.                                    *)

OnceEach == Attended => PartsOnce

LEMMA OnceNext == Typed /\ OnceEach /\ [Next]_vars => OnceEach'
<1> SUFFICES ASSUME Typed, OnceEach, [Next]_vars
             PROVE  OnceEach'
  OBVIOUS
<1>1. CASE SendOpen
  <2>1. stage' = "open"
    BY <1>1 DEF SendOpen
  <2>2. QED
    BY <2>1 DEF OnceEach, Attended
<1>2. CASE BeginUpdate
  <2>1. PICK trail \in Trails, nlri \in BodyLists, withdrawn \in BodyLists :
            sent' = [trail |-> trail, parts |-> << >>, nlri |-> nlri, withdrawn |-> withdrawn]
    BY <1>2 DEF BeginUpdate
  <2>2. sent'.parts = << >>
    BY <2>1
  <2>3. DOMAIN sent'.parts = {}
    BY <2>2
  <2>4. PartsOnce'
    BY <2>3 DEF PartsOnce
  <2>5. QED
    BY <2>4 DEF OnceEach
<1>3. CASE PutPart
  <2> DEFINE parts == sent.parts  n == Len(sent.parts)
  <2>1. stage = "composing" /\ wide' = wide
    BY <1>3 DEF PutPart
  <2>2. PICK part \in Parts :
            /\ \A i \in DOMAIN sent.parts : sent.parts[i].code = part.code => part.code \in {14, 15}
            /\ part.kind = "as4" => ~wide
            /\ sent' = [sent EXCEPT !.parts = Append(@, part)]
    BY <1>3 DEF PutPart
  <2>3. PartsOnce /\ Composed
    BY <2>1 DEF Typed, OnceEach, Attended
  <2>4. parts \in Seq(Parts) /\ sent'.parts = Append(parts, part)
    <3>1. parts \in Seq(Parts)
      BY <2>3 DEF Composed
    <3>2. sent'.parts = Append(parts, part)
      BY <2>2, <2>3 DEF Composed
    <3>3. QED
      BY <3>1, <3>2
  <2> DEFINE after == sent'.parts
  <2>5. /\ n \in Nat /\ DOMAIN parts = 1..n /\ DOMAIN after = 1..(n + 1)
        /\ after[n + 1] = part /\ \A i \in 1..n : after[i] = parts[i]
    <3> HIDE DEF parts, after
    <3>1. Len(parts) \in Nat /\ DOMAIN parts = 1..Len(parts)
      BY <2>4
    <3>2. DOMAIN after = 1..(Len(parts) + 1) /\ after[Len(parts) + 1] = part
          /\ \A i \in 1..Len(parts) : after[i] = parts[i]
      BY <2>4 DEF after
    <3>3. QED
      BY <3>1, <3>2, Zenon DEF parts
  <2>6. \A i \in DOMAIN after : i \in 1..n \/ i = n + 1
    <3> HIDE DEF n, after
    <3> QED
      BY <2>5
  <2>7. ASSUME NEW i \in DOMAIN after, NEW j \in DOMAIN after, after[i].code = after[j].code
        PROVE  i = j \/ after[i].code \in {14, 15}
    <3>0. /\ \A k \in 1..n : parts[k].code = part.code => part.code \in {14, 15}
          /\ \A k, l \in 1..n : parts[k].code = parts[l].code => k = l \/ parts[k].code \in {14, 15}
      BY <2>2, <2>3, <2>5, Zenon DEF PartsOnce
    <3> HIDE DEF after, parts, n
    <3>1. CASE i \in 1..n /\ j \in 1..n
      BY <2>5, <2>7, <3>0, <3>1, Zenon
    <3>2. CASE i \in 1..n /\ j = n + 1
      BY <2>5, <2>7, <3>0, <3>2, Zenon
    <3>3. CASE i = n + 1 /\ j \in 1..n
      BY <2>5, <2>7, <3>0, <3>3, Zenon
    <3>4. CASE i = n + 1 /\ j = n + 1
      BY <3>4
    <3>5. QED
      BY <2>6, <3>1, <3>2, <3>3, <3>4, Zenon
  <2>8. ASSUME wide', NEW i \in DOMAIN after PROVE after[i].kind # "as4"
    <3>0. wide /\ part.kind # "as4" /\ \A k \in 1..n : parts[k].kind # "as4"
      BY <2>1, <2>2, <2>3, <2>5, <2>8, Zenon DEF PartsOnce
    <3> HIDE DEF after, parts, n
    <3>1. QED
      BY <2>5, <2>6, <2>8, <3>0, Zenon
  <2>9. PartsOnce'
    BY <2>7, <2>8, Zenon DEF PartsOnce
  <2>10. QED
    BY <2>9 DEF OnceEach
<1>4. CASE SendUpdate
  <2>1. stage = "composing" /\ wide' = wide /\ sent' = sent
    BY <1>4 DEF SendUpdate
  <2>2. PartsOnce
    BY <2>1 DEF OnceEach, Attended
  <2>3. QED
    BY <2>1, <2>2 DEF OnceEach, PartsOnce
<1>5. CASE Lookup
  <2>1. stage = "decoded" /\ wide' = wide /\ sent' = sent
    BY <1>5 DEF Lookup
  <2>2. PartsOnce
    BY <2>1 DEF OnceEach, Attended
  <2>3. QED
    BY <2>1, <2>2 DEF OnceEach, PartsOnce
<1>6. CASE UNCHANGED vars
  BY <1>6 DEF vars, OnceEach, Attended, PartsOnce
<1>7. QED
  BY <1>1, <1>2, <1>3, <1>4, <1>5, <1>6 DEF Next

LEMMA TypedDecoded == Typed /\ OnceEach => DecodedAsSent
<1> SUFFICES ASSUME Typed, OnceEach, Arrived
             PROVE  Meant(received)
  BY Zenon DEF DecodedAsSent, Meant, Arrived
<1>1. Attended
  BY DEF Arrived, Attended
<1>2. SentWell /\ received = Update(EncodedUpdate, SentWidth)
  BY <1>1, Zenon DEF Typed, OnceEach, SentWell, SentWidth
<1>3. QED
  BY <1>2, SentIsRead, Zenon

(* Whatever the routes, paths and attributes, in whatever order and        *)
(* however many that are not well formed among them, the receiver decodes  *)
(* every UPDATE as its sender meant it, with the two exceptions            *)
(* DecodedAsSent names (`update` and what it calls, wire.rs:268,           *)
(* wire_helpers.rs).                                                       *)
THEOREM DecodesAsSent == Spec => []DecodedAsSent
<1>1. Init => Typed /\ OnceEach
  BY TypedInit DEF Init, OnceEach, Attended
<1>2. Typed /\ OnceEach /\ [Next]_vars => Typed' /\ OnceEach'
  BY TypedNext, OnceNext
<1>3. Typed /\ OnceEach => DecodedAsSent
  BY TypedDecoded
<1>4. QED
  BY <1>1, <1>2, <1>3, PTL DEF Spec

=============================================================================

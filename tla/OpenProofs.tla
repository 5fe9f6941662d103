----------------------------- MODULE OpenProofs -----------------------------
(***************************************************************************)
(* Proofs about OPEN for every configuration and every peer: what a sender *)
(* of module Decoding encodes, the decoder of module Wire reads back.      *)
(*                                                                         *)
(* The decoder takes one item after the other off the front of its data    *)
(* (Items), the encoder puts pieces together (FlattenSeq): where every     *)
(* piece is as long as the decoder finds it to be when more data follows,  *)
(* Split returns the pieces (SplitOf).  This is proved by induction over   *)
(* the pieces, in the form of a least element of a set of numbers, and     *)
(* used again in module DecodingProofs.                                    *)
(***************************************************************************)
EXTENDS Decoding, SequenceTheorems, WellFoundedInduction, TLAPS

-----------------------------------------------------------------------------
(* Induction: a set of numbers that is not empty has a least element.      *)

LEMMA LeastOne ==
    ASSUME NEW S \in SUBSET Nat, S # {}
    PROVE  \E m \in S : \A k \in S : m <= k
<1>1. PICK m \in S : \A k \in S : <<k, m>> \notin OpToRel(<, Nat)
  BY WFMin, NatLessThanWellFounded, Zenon
<1>2. \A k \in S : ~(k < m)
  BY <1>1, Zenon DEF OpToRel
<1>3. QED
  BY <1>2

(* What holds of 0, and of a number when it holds of the one before, holds *)
(* of all: a property is the set of the numbers that have it.              *)
LEMMA UpTo ==
    ASSUME NEW N \in Nat, NEW S, 0 \in S, \A n \in 1..N : n - 1 \in S => n \in S
    PROVE  \A n \in 0..N : n \in S
<1>1. SUFFICES ASSUME NEW n \in 0..N, n \notin S PROVE FALSE
  OBVIOUS
<1> DEFINE Bad == {k \in 0..N : k \notin S}
<1>2. Bad \in SUBSET Nat /\ Bad # {}
  BY <1>1
<1>3. PICK m \in Bad : \A k \in Bad : m <= k
  <2> HIDE DEF Bad
  <2> QED
    BY <1>2, LeastOne
<1>4. m # 0 /\ m \in 1..N /\ m - 1 \in 0..N /\ ~(m <= m - 1)
  BY <1>3
<1>5. QED
  BY <1>3, <1>4

-----------------------------------------------------------------------------
(* FlattenSeq.                                                             *)

Flattens(f, seqs, n) ==
    \A i \in 1..n : f[i] = IF i = 1 THEN seqs[1] ELSE f[i - 1] \o seqs[i]

LEMMA FlattensAt ==
    ASSUME NEW f, NEW seqs, NEW n \in Nat, Flattens(f, seqs, n), NEW i \in 1..n
    PROVE  /\ i = 1 => f[i] = seqs[1]
           /\ i # 1 => f[i] = f[i - 1] \o seqs[i]
BY Zenon DEF Flattens

LEMMA FlattenExists ==
    ASSUME NEW S, NEW seqs \in Seq(Seq(S))
    PROVE  \A n \in 0..Len(seqs) : \E f \in [1..n -> Seq(S)] : Flattens(f, seqs, n)
<1> DEFINE T == {n \in 0..Len(seqs) : \E f \in [1..n -> Seq(S)] : Flattens(f, seqs, n)}
<1>1. 0 \in T
  <2> DEFINE f == [i \in 1..0 |-> << >>]
  <2>1. f \in [1..0 -> Seq(S)] /\ Flattens(f, seqs, 0)
    BY DEF Flattens
  <2>2. \E g \in [1..0 -> Seq(S)] : Flattens(g, seqs, 0)
    BY <2>1, Zenon
  <2>3. 0 \in 0..Len(seqs)
    OBVIOUS
  <2>4. QED
    BY <2>2, <2>3
<1>2. ASSUME NEW n \in 1..Len(seqs), n - 1 \in T PROVE n \in T
  <2>1. PICK f \in [1..(n - 1) -> Seq(S)] : Flattens(f, seqs, n - 1)
    BY <1>2
  <2> DEFINE last == IF n = 1 THEN seqs[1] ELSE f[n - 1] \o seqs[n]
             g == [i \in 1..n |-> IF i < n THEN f[i] ELSE last]
  <2>2. n \in Nat /\ n - 1 \in Nat /\ 1 <= n /\ seqs[n] \in Seq(S) /\ seqs[1] \in Seq(S)
    OBVIOUS
  <2>3. last \in Seq(S)
    BY <2>2
  <2>4. g \in [1..n -> Seq(S)] /\ g[n] = last /\ \A i \in 1..(n - 1) : g[i] = f[i]
    <3> HIDE DEF last
    <3> QED
      BY <2>2, <2>3
  <2> HIDE DEF g
  <2>5. ASSUME NEW i \in 1..n
        PROVE  g[i] = IF i = 1 THEN seqs[1] ELSE g[i - 1] \o seqs[i]
    <3>1. CASE i < n
      <4>1. /\ i \in 1..(n - 1)
            /\ i # 1 => i - 1 \in 1..(n - 1)
        BY <2>2, <3>1
      <4>2. /\ i = 1 => f[i] = seqs[1]
            /\ i # 1 => f[i] = f[i - 1] \o seqs[i]
        <5> DEFINE m == n - 1
        <5>1. m \in Nat /\ i \in 1..m /\ Flattens(f, seqs, m)
          BY <2>1, <2>2, <4>1
        <5> HIDE DEF m
        <5>2. QED
          BY <5>1, FlattensAt, Zenon
      <4>3. g[i] = f[i]
        BY <2>4, <4>1
      <4>4. i # 1 => g[i - 1] = f[i - 1]
        BY <2>4, <4>1
      <4>5. CASE i = 1
        BY <4>2, <4>3, <4>5, Zenon
      <4>6. CASE i # 1
        <5>1. g[i] = f[i - 1] \o seqs[i]
          BY <4>2, <4>3, <4>6, Zenon
        <5>2. g[i - 1] = f[i - 1]
          BY <4>4, <4>6, Zenon
        <5>3. QED
          BY <5>1, <5>2, <4>6, Zenon
      <4>7. QED
        BY <4>5, <4>6, Zenon
    <3>2. CASE i = n
      <4>1. i # 1 => i - 1 \in 1..(n - 1)
        BY <2>2, <3>2
      <4>2. QED
        BY <2>4, <3>2, <4>1
    <3>3. QED
      BY <2>2, <3>1, <3>2
  <2>6. \E h \in [1..n -> Seq(S)] : Flattens(h, seqs, n)
    BY <2>4, <2>5, Zenon DEF Flattens
  <2>7. QED
    BY <2>6
<1>3. \A n \in 0..Len(seqs) : n \in T
  <2>1. Len(seqs) \in Nat
    OBVIOUS
  <2> HIDE DEF T
  <2>2. QED
    BY <1>1, <1>2, <2>1, UpTo, Zenon
<1>4. QED
  BY <1>3

LEMMA FlattenUnique ==
    ASSUME NEW N \in Nat, NEW s, NEW t, NEW f, NEW g, Flattens(f, s, N), Flattens(g, t, N),
           \A i \in 1..N : s[i] = t[i]
    PROVE  \A i \in 1..N : f[i] = g[i]
<1> DEFINE T == {n \in Nat : n \in 1..N => f[n] = g[n]}
<1>1. 0 \in T
  OBVIOUS
<1>2. ASSUME NEW n \in 1..N, n - 1 \in T PROVE n \in T
  <2>1. CASE n = 1
    <3>1. f[1] = s[1] /\ g[1] = t[1] /\ s[1] = t[1]
      <4>1. 1 \in 1..N
        BY <2>1
      <4>2. QED
        BY <4>1, FlattensAt, ZenonT(60)
    <3>2. QED
      BY <2>1, <3>1
  <2>2. CASE n # 1
    <3>1. f[n - 1] = g[n - 1] /\ s[n] = t[n]
      BY <1>2, <2>2
    <3>2. f[n] = f[n - 1] \o s[n]
      BY <2>2, Zenon DEF Flattens
    <3>3. g[n] = g[n - 1] \o t[n]
      BY <2>2, Zenon DEF Flattens
    <3>4. f[n] = g[n]
      BY <3>1, <3>2, <3>3, Zenon
    <3>5. QED
      BY <3>4
  <2>3. QED
    BY <2>1, <2>2
<1>3. \A n \in 0..N : n \in T
  <2> HIDE DEF T
  <2> QED
    BY <1>1, <1>2, UpTo
<1>4. QED
  BY <1>3

(* FlattenSeq is what Flattens says, for the sequence and for any that     *)
(* continues it.                                                           *)
LEMMA FlattenIs ==
    ASSUME NEW S, NEW seqs \in Seq(Seq(S)), NEW t, NEW g, seqs # << >>,
           Flattens(g, t, Len(seqs)), \A i \in DOMAIN seqs : seqs[i] = t[i]
    PROVE  FlattenSeq(seqs) = g[Len(seqs)]
<1> DEFINE N == Len(seqs)
           Body(f) == [i \in 1..N |-> IF i = 1 THEN seqs[i] ELSE f[i - 1] \o seqs[i]]
           F == CHOOSE f : f = Body(f)
<1>1. N \in Nat /\ N \in 1..N
  OBVIOUS
<1>2. FlattenSeq(seqs) = F[N]
  BY <1>1 DEF FlattenSeq
<1>3. PICK f \in [1..N -> Seq(S)] : Flattens(f, seqs, N)
  BY FlattenExists, SMTT(60)
<1>4. f = Body(f)
  BY <1>1, <1>3, ZenonT(60) DEF Flattens
<1>5. F = Body(F)
  BY <1>4
<1>6. Flattens(F, seqs, N)
  <2>1. ASSUME NEW i \in 1..N PROVE F[i] = IF i = 1 THEN seqs[1] ELSE F[i - 1] \o seqs[i]
    <3>1. F[i] = Body(F)[i]
      BY <1>5
    <3>2. QED
      BY <3>1
  <2>2. QED
    BY <2>1 DEF Flattens
<1>7. QED
  <2>1. \A i \in 1..N : seqs[i] = t[i]
    OBVIOUS
  <2> HIDE DEF F
  <2>2. F[N] = g[N]
    BY <1>1, <1>6, <2>1, FlattenUnique
  <2>3. QED
    BY <1>2, <2>2

LEMMA FlattenNone == FlattenSeq(<< >>) = << >>
BY DEF FlattenSeq

(* FlattenSeq of a sequence, by its last element.                          *)
LEMMA FlattenAppend ==
    ASSUME NEW S, NEW seqs \in Seq(Seq(S)), NEW x \in Seq(S)
    PROVE  /\ FlattenSeq(seqs) \in Seq(S)
           /\ FlattenSeq(Append(seqs, x)) = FlattenSeq(seqs) \o x
<1> DEFINE more == Append(seqs, x)  N == Len(seqs)
<1> DEFINE R == Seq(S)
<1>1. /\ more \in Seq(R) /\ Len(more) = N + 1 /\ N \in Nat /\ more # << >>
      /\ N + 1 \in 0..Len(more)
      /\ more[N + 1] = x /\ \A i \in 1..N : more[i] = seqs[i]
  <2>1. seqs \in Seq(R) /\ x \in R
    OBVIOUS
  <2> HIDE DEF R
  <2>2. QED
    BY <2>1
<1>2. PICK g \in [1..(N + 1) -> Seq(S)] : Flattens(g, more, N + 1)
  <2> HIDE DEF more
  <2> QED
    BY <1>1, FlattenExists
<1>3. FlattenSeq(more) = g[N + 1]
  BY <1>1, <1>2, FlattenIs
<1>4. CASE seqs = << >>
  <2>1. N = 0 /\ 1 \in 1..1
    BY <1>4
  <2>2. g[1] = more[1]
    BY <1>2, <2>1 DEF Flattens
  <2>3. FlattenSeq(more) = x
    BY <1>1, <1>3, <2>1, <2>2
  <2>4. FlattenSeq(seqs) = << >>
    BY <1>4, FlattenNone
  <2>5. << >> \in Seq(S) /\ << >> \o x = x
    OBVIOUS
  <2>6. QED
    BY <2>3, <2>4, <2>5
<1>5. CASE seqs # << >>
  <2>1. FlattenSeq(seqs) = g[N]
    <3>1. Flattens(g, more, N)
      <4> HIDE DEF more
      <4> QED
        <5>1. ASSUME NEW i \in 1..N PROVE i \in 1..(N + 1)
          BY <1>1
        <5>2. QED
          BY <5>1, <1>2, Zenon DEF Flattens
    <3> \A i \in DOMAIN seqs : seqs[i] = more[i]
      BY <1>1
    <3>2. QED
      BY <1>5, <3>1, FlattenIs
  <2>2. N + 1 \in 1..(N + 1) /\ N + 1 # 1 /\ N + 1 \in Nat /\ (N + 1) - 1 = N
    BY <1>1, <1>5
  <2>3. g[N + 1] = g[(N + 1) - 1] \o more[N + 1]
    BY <1>2, <2>2, FlattensAt, ZenonT(60)
  <2>4. g[N] \in Seq(S)
    BY <1>1, <1>5
  <2>5. QED
    BY <1>1, <1>3, <2>1, <2>2, <2>3, <2>4, Zenon
<1>6. QED
  BY <1>4, <1>5

LEMMA FlattenIn ==
    ASSUME NEW S, NEW seqs \in Seq(Seq(S))
    PROVE  FlattenSeq(seqs) \in Seq(S)
<1>1. << >> \in Seq(S)
  OBVIOUS
<1>2. QED
  BY <1>1, FlattenAppend, Zenon

LEMMA FlattenOne ==
    ASSUME NEW S, NEW x \in Seq(S)
    PROVE  FlattenSeq(<<x>>) = x
<1> DEFINE R == Seq(S)
<1>1. << >> \in Seq(R) /\ Append(<< >>, x) = <<x>> /\ << >> \o x = x
  OBVIOUS
<1>2. FlattenSeq(Append(<< >>, x)) = FlattenSeq(<< >>) \o x
  BY <1>1, FlattenAppend, Zenon
<1>3. QED
  BY <1>1, <1>2, FlattenNone, Zenon

LEMMA FlattenConcat ==
    ASSUME NEW S, NEW s \in Seq(Seq(S)), NEW t \in Seq(Seq(S))
    PROVE  FlattenSeq(s \o t) = FlattenSeq(s) \o FlattenSeq(t)
<1> DEFINE R == Seq(S)
           N == Len(t)
           T == {n \in 0..N : FlattenSeq(s \o SubSeq(t, 1, n))
                                = FlattenSeq(s) \o FlattenSeq(SubSeq(t, 1, n))}
<1>0. s \in Seq(R) /\ t \in Seq(R) /\ N \in Nat
  OBVIOUS
<1>1. 0 \in T
  <2>1. SubSeq(t, 1, 0) = << >> /\ s \o << >> = s
    OBVIOUS
  <2>2. FlattenSeq(s) \o << >> = FlattenSeq(s)
    BY FlattenIn
  <2>3. FlattenSeq(s \o SubSeq(t, 1, 0)) = FlattenSeq(s) \o FlattenSeq(SubSeq(t, 1, 0))
    BY <2>1, <2>2, FlattenNone, Zenon
  <2>4. QED
    BY <1>0, <2>3
<1>2. ASSUME NEW n \in 1..N, n - 1 \in T PROVE n \in T
  <2> DEFINE u == SubSeq(t, 1, n - 1)
             v == SubSeq(t, 1, n)
             x == t[n]
  <2>1. u \in Seq(R) /\ x \in R /\ v = Append(u, x) /\ s \o v = Append(s \o u, x)
        /\ s \o u \in Seq(R)
    <3> HIDE DEF R
    <3> QED
      BY <1>0, SMTT(60)
  <2>2. FlattenSeq(s \o u) = FlattenSeq(s) \o FlattenSeq(u)
    BY <1>2
  <2> HIDE DEF u, v, x
  <2>3. FlattenSeq(v) = FlattenSeq(u) \o x
    BY <2>1, FlattenAppend, Zenon
  <2>4. FlattenSeq(s \o v) = FlattenSeq(s \o u) \o x
    BY <2>1, FlattenAppend, Zenon
  <2>5. (FlattenSeq(s) \o FlattenSeq(u)) \o x = FlattenSeq(s) \o (FlattenSeq(u) \o x)
    <3>1. FlattenSeq(s) \in Seq(S) /\ FlattenSeq(u) \in Seq(S) /\ x \in Seq(S)
      BY <2>1, FlattenIn, Zenon
    <3> DEFINE a == FlattenSeq(s)  b == FlattenSeq(u)
    <3>2. a \in Seq(S) /\ b \in Seq(S)
      BY <3>1
    <3> HIDE DEF a, b
    <3>3. (a \o b) \o x = a \o (b \o x)
      <4>1. a \in Seq(S) /\ b \in Seq(S) /\ x \in Seq(S)
        BY <3>1, <3>2
      <4>2. QED
        BY <4>1, SMTT(60)
    <3>4. QED
      BY <3>3 DEF a, b
  <2>6. FlattenSeq(s \o v) = FlattenSeq(s) \o FlattenSeq(v)
    BY <2>2, <2>3, <2>4, <2>5, Zenon
  <2>7. QED
    BY <2>6 DEF v
<1>3. \A n \in 0..N : n \in T
  <2> HIDE DEF T, N
  <2> QED
    BY <1>0, <1>1, <1>2, UpTo
<1>4. SubSeq(t, 1, N) = t /\ N \in 0..N
  BY <1>0
<1>5. QED
  BY <1>3, <1>4

-----------------------------------------------------------------------------
(* First and After.                                                        *)

LEMMA FirstOf ==
    ASSUME NEW S, NEW s \in Seq(S), NEW t \in Seq(S)
    PROVE  First(s \o t, Len(s)) = s
BY DEF First

LEMMA AfterOf ==
    ASSUME NEW S, NEW s \in Seq(S), NEW t \in Seq(S)
    PROVE  After(s \o t, Len(s)) = t
BY DEF After

LEMMA Cut ==
    ASSUME NEW S, NEW s \in Seq(S), NEW n \in 0..Len(s)
    PROVE  /\ First(s, n) \in Seq(S)
           /\ After(s, n) \in Seq(S)
           /\ Len(First(s, n)) = n
           /\ Len(After(s, n)) = Len(s) - n
           /\ \A i \in 1..n : First(s, n)[i] = s[i]
           /\ \A i \in 1..(Len(s) - n) : After(s, n)[i] = s[n + i]
           /\ s = First(s, n) \o After(s, n)
<1>1. n \in Nat /\ n <= Len(s) /\ Len(s) \in Nat
  OBVIOUS
<1>2. First(s, n) \in Seq(S) /\ Len(First(s, n)) = n /\ \A i \in 1..n : First(s, n)[i] = s[i]
  BY <1>1 DEF First
<1>3. /\ After(s, n) \in Seq(S)
      /\ Len(After(s, n)) = Len(s) - n
      /\ \A i \in 1..(Len(s) - n) : After(s, n)[i] = s[n + i]
  BY <1>1 DEF After
<1>4. s = First(s, n) \o After(s, n)
  <2>1. 1 \in 1..(Len(s) + 1) /\ n \in (1 - 1)..Len(s) /\ Len(s) \in n..Len(s)
    BY <1>1
  <2>2. SubSeq(s, 1, n) \o SubSeq(s, n + 1, Len(s)) = SubSeq(s, 1, Len(s))
    BY <2>1, ConcatAdjacentSubSeq, Zenon
  <2>3. SubSeq(s, 1, Len(s)) = s
    BY SubSeqFull
  <2>4. QED
    BY <2>2, <2>3 DEF First, After
<1>5. QED
  BY <1>2, <1>3, <1>4, Zenon

LEMMA CutJoins ==
    ASSUME NEW S, NEW s \in Seq(S), NEW n \in 0..Len(s)
    PROVE  s = First(s, n) \o After(s, n)
BY Cut, ZenonT(60)

LEMMA AfterIn ==
    ASSUME NEW S, NEW s \in Seq(S), NEW n \in Nat
    PROVE  After(s, n) \in Seq(S) /\ Len(After(s, n)) = (IF n <= Len(s) THEN Len(s) - n ELSE 0)
BY DEF After

(* The pieces before the k-th, the k-th and the others.                    *)
LEMMA FlattenAround ==
    ASSUME NEW S, NEW seqs \in Seq(Seq(S)), NEW k \in 1..Len(seqs)
    PROVE  FlattenSeq(seqs) = FlattenSeq(First(seqs, k - 1))
                                \o (seqs[k] \o FlattenSeq(After(seqs, k)))
<1> DEFINE R == Seq(S)
           u == First(seqs, k - 1)
           v == After(seqs, k)
<1>1. /\ seqs[k] \in R /\ u \in Seq(R) /\ v \in Seq(R) /\ <<seqs[k]>> \in Seq(R)
      /\ <<seqs[k]>> \o v \in Seq(R)
      /\ seqs = u \o (<<seqs[k]>> \o v)
  <2>1. seqs \in Seq(R)
    OBVIOUS
  <2> HIDE DEF R
  <2>2. k \in Nat /\ k - 1 \in 0..Len(seqs) /\ k \in 0..Len(seqs) /\ Len(seqs) \in Nat
    BY <2>1
  <2>3. u \in Seq(R) /\ v \in Seq(R) /\ seqs = u \o After(seqs, k - 1)
    <3>1. k - 1 \in 0..Len(seqs)
      BY <2>2
    <3> HIDE DEF u
    <3>2. First(seqs, k - 1) \in Seq(R) /\ seqs = First(seqs, k - 1) \o After(seqs, k - 1)
      <4> DEFINE m == k - 1
      <4>1. m \in 0..Len(seqs)
        BY <3>1
      <4> HIDE DEF m
      <4>2. First(seqs, m) \in Seq(R)
        BY <2>1, <4>1, Cut, Zenon
      <4>3. seqs = First(seqs, m) \o After(seqs, m)
        BY <2>1, <4>1, CutJoins, Zenon
      <4>4. QED
        BY <4>2, <4>3, Zenon DEF m
    <3>3. v \in Seq(R)
      BY <2>1, <2>2, AfterIn, Zenon
    <3>4. QED
      BY <3>2, <3>3, Zenon DEF u
  <2>4. seqs[k] \in R
    BY <2>1, ElementOfSeq, Zenon
  <2>5. After(seqs, k - 1) = <<seqs[k]>> \o v
    <3>1. k \in 1..Len(seqs) /\ Len(seqs) \in k..Len(seqs)
      BY <2>2
    <3>2. SubSeq(seqs, k, Len(seqs)) = <<seqs[k]>> \o SubSeq(seqs, k + 1, Len(seqs))
      BY <2>1, <3>1, SubSeqRecursiveFirst, Zenon
    <3>3. (k - 1) + 1 = k
      BY <2>2
    <3>4. QED
      BY <3>2, <3>3 DEF After
  <2>6. <<seqs[k]>> \in Seq(R) /\ <<seqs[k]>> \o v \in Seq(R)
    BY <2>3, <2>4
  <2>7. QED
    BY <2>3, <2>4, <2>5, <2>6, Zenon
<1> HIDE DEF u, v
<1>2. FlattenSeq(seqs) = FlattenSeq(u) \o FlattenSeq(<<seqs[k]>> \o v)
  BY <1>1, FlattenConcat, Zenon
<1>3. FlattenSeq(<<seqs[k]>> \o v) = FlattenSeq(<<seqs[k]>>) \o FlattenSeq(v)
  BY <1>1, FlattenConcat, Zenon
<1>4. FlattenSeq(<<seqs[k]>>) = seqs[k]
  BY <1>1, FlattenOne, Zenon
<1>5. QED
  BY <1>2, <1>3, <1>4, Zenon DEF u, v

-----------------------------------------------------------------------------
(* Items: a function defined by its values at greater arguments exists.    *)

Found(others, p, stop, head, halt) ==
    IF stop[p] THEN << >>
    ELSE <<head[p]>> \o (IF halt[p] THEN << >> ELSE others)

CanBeFound(N, stop, head, halt, next) ==
    \E f : f = [p \in 0..N |-> Found(f[next[p]], p, stop, head, halt)]

LEMMA FoundExists ==
    ASSUME NEW N \in Nat, NEW stop, NEW head, NEW halt, NEW next,
           \A p \in 0..N : ~stop[p] => next[p] \in (p + 1)..N
    PROVE  CanBeFound(N, stop, head, halt, next)
<1> DEFINE F(f, p) == Found(f[next[p]], p, stop, head, halt)
           Upper(f, k) == \A p \in (N - k)..N : f[p] = F(f, p)
           T == {k \in 0..N : \E f : Upper(f, k)}
<1>1. 0 \in T
  <2> DEFINE f == [p \in {N} |-> << >>]
  <2>1. stop[N]
    OBVIOUS
  <2>2. F(f, N) = << >>
    BY <2>1 DEF Found
  <2>3. Upper(f, 0)
    <3> HIDE DEF F
    <3> QED
      BY <2>2
  <2> HIDE DEF Upper, f
  <2>4. QED
    BY <2>3
<1>2. ASSUME NEW k \in 1..N, k - 1 \in T PROVE k \in T
  <2>1. PICK f : Upper(f, k - 1)
    BY <1>2
  <2> DEFINE q == N - k
             g == [p \in q..N |-> IF p = q THEN F(f, p) ELSE f[p]]
  <2>2. q \in 0..N /\ q \in Nat /\ q \in q..N /\ \A p \in q..N : p # q => p \in (N - (k - 1))..N
    OBVIOUS
  <2>3. ASSUME NEW p \in q..N PROVE F(g, p) = F(f, p)
    <3>1. CASE stop[p]
      BY <3>1 DEF Found
    <3>2. CASE ~stop[p]
      <4>1. p \in 0..N
        BY <2>2
      <4>2. next[p] \in (p + 1)..N
        BY <3>2, <4>1
      <4>3. next[p] \in q..N /\ next[p] # q
        BY <4>2, <2>2
      <4>4. g[next[p]] = f[next[p]]
        <5> HIDE DEF F
        <5> QED
          BY <4>3
      <4> HIDE DEF g
      <4>5. QED
        BY <4>4, Zenon
    <3>3. QED
      BY <3>1, <3>2, Zenon
  <2>4. ASSUME NEW p \in q..N PROVE g[p] = F(g, p)
    <3> HIDE DEF F
    <3>1. CASE p = q
      <4>1. g[p] = F(f, p)
        BY <3>1, <2>2
      <4> QED
        BY <4>1, <2>3
    <3>2. CASE p # q
      <4>1. g[p] = f[p]
        BY <3>2
      <4>2. f[p] = F(f, p)
        BY <2>1, <2>2, <3>2
      <4> QED
        BY <4>1, <4>2, <2>3
    <3>3. QED
      BY <3>1, <3>2
  <2>5. Upper(g, k)
    <3> HIDE DEF F, g
    <3> QED
      BY <2>4
  <2> HIDE DEF Upper, g
  <2>6. QED
    BY <2>5
<1>3. \A k \in 0..N : k \in T
  <2> HIDE DEF T
  <2> QED
    BY <1>1, <1>2, UpTo
<1>4. PICK f : Upper(f, N)
  BY <1>3
<1> DEFINE h == [p \in 0..N |-> f[p]]
<1>5. ASSUME NEW p \in 0..N PROVE F(h, p) = f[p]
  <2>1. f[p] = F(f, p)
    <3> HIDE DEF F
    <3> QED
      BY <1>4
  <2>2. CASE stop[p]
    BY <2>1, <2>2 DEF Found
  <2>3. CASE ~stop[p]
    <3>1. next[p] \in (p + 1)..N
      BY <2>3
    <3>2. next[p] \in 0..N
      BY <3>1
    <3>3. h[next[p]] = f[next[p]]
      BY <3>2
    <3>4. F(h, p) = F(f, p)
      <4> HIDE DEF h
      <4> QED
        BY <3>3, Zenon
    <3>5. QED
      BY <2>1, <3>4, Zenon
  <2>4. QED
    BY <2>2, <2>3, Zenon
<1>6. h = [p \in 0..N |-> F(h, p)]
  <2> HIDE DEF F
  <2> QED
    BY <1>5
<1>7. QED
  <2> HIDE DEF h
  <2> QED
    BY <1>6, Zenon DEF CanBeFound

(* How Items goes through its data.                                        *)
ItemsAt(items, data, size, last, p) ==
    LET rest == After(data, p)
        item == First(rest, size[rest])
    IN  items[p] = IF rest = << >> \/ Short(rest, size[rest]) THEN << >>
                   ELSE <<item>> \o IF item \in last THEN << >> ELSE items[p + size[rest]]

LEMMA ItemsGo ==
    ASSUME NEW data \in Seq(Octet), NEW size \in [Data -> Nat \ {0}], NEW last
    PROVE  \E items : /\ Items(data, size, last) = items[0]
                      /\ \A p \in 0..Len(data) : ItemsAt(items, data, size, last, p)
<1> DEFINE N == Len(data)
           rest(p) == After(data, p)
           item(p) == First(rest(p), size[rest(p)])
           Body(f) == [p \in 0..N |->
                          IF rest(p) = << >> \/ Short(rest(p), size[rest(p)]) THEN << >>
                          ELSE <<item(p)>> \o IF item(p) \in last THEN << >>
                                              ELSE f[p + size[rest(p)]]]
           F == CHOOSE f : f = Body(f)
           stop == [p \in 0..N |-> rest(p) = << >> \/ Short(rest(p), size[rest(p)])]
           head == [p \in 0..N |-> item(p)]
           halt == [p \in 0..N |-> item(p) \in last]
           next == [p \in 0..N |-> p + size[rest(p)]]
<1>1. Items(data, size, last) = F[0]
  BY Zenon DEF Items
<1>2. N \in Nat
  OBVIOUS
<1>3. ASSUME NEW p \in 0..N, ~stop[p] PROVE next[p] \in (p + 1)..N
  <2>1. rest(p) \in Seq(Octet) /\ Len(rest(p)) = N - p
    BY <1>2, AfterIn
  <2> HIDE DEF rest
  <2>2. rest(p) # << >> /\ ~Short(rest(p), size[rest(p)])
    BY <1>3
  <2>3. rest(p) # << >>
    BY <2>2
  <2>4. rest(p) \in Data
    BY <2>1, <2>3 DEF Data
  <2>5. size[rest(p)] \in Nat \ {0}
    BY <2>4
  <2>6. next[p] = p + size[rest(p)]
    OBVIOUS
  <2> HIDE DEF next
  <2>7. QED
    BY <1>2, <2>1, <2>2, <2>5, <2>6 DEF Short
<1>4. PICK f : f = [p \in 0..N |-> Found(f[next[p]], p, stop, head, halt)]
  <2> HIDE DEF N, stop, head, halt, next
  <2>1. \A p \in 0..N : ~stop[p] => next[p] \in (p + 1)..N
    BY <1>3, Zenon
  <2> QED
    <3>1. CanBeFound(N, stop, head, halt, next)
      BY <1>2, <2>1, FoundExists, Zenon
    <3>2. QED
      BY <3>1, Zenon DEF CanBeFound
<1>5. ASSUME NEW p \in 0..N PROVE f[p] = Body(f)[p]
  <2>1. f[p] = Found(f[next[p]], p, stop, head, halt)
    <3> HIDE DEF stop, head, halt, next, N
    <3> QED
      BY <1>4
  <2> HIDE DEF rest, item
  <2>2. /\ stop[p] <=> rest(p) = << >> \/ Short(rest(p), size[rest(p)])
        /\ head[p] = item(p)
        /\ halt[p] <=> item(p) \in last
        /\ next[p] = p + size[rest(p)]
    OBVIOUS
  <2>3. Body(f)[p] = IF rest(p) = << >> \/ Short(rest(p), size[rest(p)]) THEN << >>
                     ELSE <<item(p)>> \o IF item(p) \in last THEN << >>
                                         ELSE f[p + size[rest(p)]]
    OBVIOUS
  <2> HIDE DEF Body, stop, head, halt, next, N
  <2>4. QED
    BY <2>1, <2>2, <2>3, Zenon DEF Found
<1>6. f = Body(f)
  <2>1. DOMAIN f = 0..N
    <3> HIDE DEF stop, head, halt, next, N
    <3> QED
      BY <1>4
  <2>2. f = [p \in 0..N |-> f[p]]
    <3> HIDE DEF stop, head, halt, next, N
    <3> QED
      BY <1>4
  <2>3. Body(f) = [p \in 0..N |-> Body(f)[p]]
    <3> HIDE DEF rest, item, N
    <3> QED
      OBVIOUS
  <2> HIDE DEF Body, N
  <2>4. QED
    BY <1>5, <2>2, <2>3
<1>7. F = Body(F)
  <2> HIDE DEF Body
  <2> QED
    BY <1>6, Zenon
<1>8. \A p \in 0..N : ItemsAt(F, data, size, last, p)
  <2>1. ASSUME NEW p \in 0..N PROVE ItemsAt(F, data, size, last, p)
    <3>1. F[p] = Body(F)[p]
      <4> HIDE DEF F, Body
      <4> QED
        BY <1>7, Zenon
    <3> HIDE DEF F
    <3>2. Body(F)[p] = IF rest(p) = << >> \/ Short(rest(p), size[rest(p)]) THEN << >>
                       ELSE <<item(p)>> \o IF item(p) \in last THEN << >>
                                           ELSE F[p + size[rest(p)]]
      <4> HIDE DEF rest, item, N
      <4> QED
        OBVIOUS
    <3>3. QED
      BY <3>1, <3>2, Zenon DEF ItemsAt
  <2>2. QED
    BY <2>1
<1>9. QED
  <2> HIDE DEF F
  <2> QED
    BY <1>1, <1>8

LEMMA AfterStep ==
    ASSUME NEW S, NEW s \in Seq(S), NEW k \in 1..Len(s)
    PROVE  After(s, k - 1) = <<s[k]>> \o After(s, k)
<1>1. Len(s) \in k..Len(s) /\ (k - 1) + 1 = k
  OBVIOUS
<1>2. SubSeq(s, k, Len(s)) = <<s[k]>> \o SubSeq(s, k + 1, Len(s))
  BY <1>1, SubSeqRecursiveFirst, Zenon
<1>3. QED
  BY <1>1, <1>2 DEF After

LEMMA FirstStep ==
    ASSUME NEW S, NEW s \in Seq(S), NEW k \in 1..Len(s)
    PROVE  First(s, k) = Append(First(s, k - 1), s[k])
BY DEF First

LEMMA Joined ==
    ASSUME NEW s \in Seq(Octet), NEW t \in Seq(Octet), NEW u \in Seq(Octet)
    PROVE  (s \o t) \o u = s \o (t \o u)
<1> DEFINE R == Octet
<1>1. s \in Seq(R) /\ t \in Seq(R) /\ u \in Seq(R)
  OBVIOUS
<1> HIDE DEF R
<1>2. QED
  BY <1>1, ConcatAssociative, SMTT(60)

(* Where the k-th piece begins and what stands there.                      *)
BeginsAt(from, k, pieces, tail) ==
    LET others == FlattenSeq(After(pieces, k)) \o tail
    IN  /\ from \in 0..Len(FlattenSeq(pieces) \o tail)
        /\ After(FlattenSeq(pieces) \o tail, from) = pieces[k] \o others
        /\ others \in Seq(Octet)
        /\ Len(FlattenSeq(First(pieces, k))) = from + Len(pieces[k])

LEMMA PieceAt ==
    ASSUME NEW pieces \in Seq(Seq(Octet)), NEW tail \in Seq(Octet), NEW k \in 1..Len(pieces)
    PROVE  BeginsAt(Len(FlattenSeq(First(pieces, k - 1))), k, pieces, tail)
<1> DEFINE R == Seq(Octet)
           u == FlattenSeq(First(pieces, k - 1))
           x == pieces[k]
           v == FlattenSeq(After(pieces, k))
<1>1. First(pieces, k - 1) \in Seq(R) /\ After(pieces, k) \in Seq(R) /\ x \in R
  <2>1. pieces \in Seq(R) /\ k - 1 \in 0..Len(pieces) /\ k \in Nat
    OBVIOUS
  <2> HIDE DEF R
  <2>2. x \in R
    BY <2>1
  <2>3. QED
    BY <2>1, <2>2, Cut, AfterIn
<1>2. u \in Seq(Octet) /\ x \in Seq(Octet) /\ v \in Seq(Octet)
  BY <1>1, FlattenIn
<1>3. FlattenSeq(pieces) = u \o (x \o v)
  BY FlattenAround, Zenon
<1>4. FlattenSeq(First(pieces, k)) = u \o x
  <2>1. First(pieces, k) = Append(First(pieces, k - 1), x)
    BY FirstStep, Zenon
  <2>2. QED
    BY <2>1, <1>1, FlattenAppend, Zenon
<1> HIDE DEF u, x, v
<1>5. (u \o (x \o v)) \o tail = u \o (x \o (v \o tail))
  <2>1. (u \o (x \o v)) \o tail = u \o ((x \o v) \o tail)
    <3>1. x \o v \in Seq(Octet)
      BY <1>2
    <3>2. QED
      <4> DEFINE y == x \o v
      <4>1. u \in Seq(Octet) /\ y \in Seq(Octet) /\ tail \in Seq(Octet)
        BY <1>2, <3>1
      <4> HIDE DEF y
      <4>2. (u \o y) \o tail = u \o (y \o tail)
        BY <4>1, Joined, Zenon
      <4>3. QED
        BY <4>2, Zenon DEF y
  <2>2. (x \o v) \o tail = x \o (v \o tail)
    BY <1>2, Joined, ZenonT(60)
  <2>3. QED
    BY <2>1, <2>2, Zenon
<1>6. v \o tail \in Seq(Octet) /\ x \o (v \o tail) \in Seq(Octet)
  BY <1>2
<1>7. After(u \o (x \o (v \o tail)), Len(u)) = x \o (v \o tail)
  BY <1>2, <1>6, AfterOf, Zenon
<1>8. Len(u) \in 0..Len(u \o (x \o (v \o tail))) /\ Len(u \o x) = Len(u) + Len(x)
  BY <1>2, <1>6
<1>9. QED
  BY <1>3, <1>4, <1>5, <1>6, <1>7, <1>8, Zenon DEF BeginsAt, u, x, v

(* Each piece says its own length, whatever follows it.                    *)
Sized(pieces, size) ==
    \A i \in DOMAIN pieces : \A t \in Seq(Octet) : size[pieces[i] \o t] = Len(pieces[i])

LEMMA ItemsOf ==
    ASSUME NEW pieces \in Seq(Data), NEW tail \in Seq(Octet),
           NEW size \in [Data -> Nat \ {0}], NEW last,
           Sized(pieces, size),
           \A i \in 1..(Len(pieces) - 1) : pieces[i] \notin last,
           tail = << >> \/ (pieces # << >> /\ pieces[Len(pieces)] \in last)
    PROVE  Items(FlattenSeq(pieces) \o tail, size, last) = pieces
<1> DEFINE data == FlattenSeq(pieces) \o tail
           n == Len(pieces)
           at(k) == Len(FlattenSeq(First(pieces, k)))
<1>1. /\ pieces \in Seq(Seq(Octet))
      /\ n \in Nat
      /\ \A i \in 1..n : pieces[i] \in Seq(Octet) /\ pieces[i] # << >> /\ pieces[i] \in Data
  <2>1. Data \subseteq Seq(Octet) /\ << >> \notin Data
    BY DEF Data
  <2>2. QED
    BY <2>1, SeqMonotonic, SMTT(60)
<1>2. data \in Seq(Octet)
  BY <1>1, FlattenIn
<1> HIDE DEF data
<1>3. PICK items : /\ Items(data, size, last) = items[0]
                   /\ \A p \in 0..Len(data) : ItemsAt(items, data, size, last, p)
  BY <1>2, ItemsGo
<1> DEFINE T == {j \in 0..n : \/ j = 0 /\ tail # << >>
                              \/ items[at(n - j)] = After(pieces, n - j)}
<1>4. 0 \in T
  <2>1. CASE tail = << >>
    <3>1. First(pieces, n) = pieces /\ After(pieces, n) = << >>
      BY DEF First, After
    <3>2. data = FlattenSeq(pieces) /\ FlattenSeq(pieces) \in Seq(Octet)
      BY <1>1, <2>1, FlattenIn DEF data
    <3>3. at(n) = Len(data)
      BY <3>1, <3>2
    <3>4. After(data, Len(data)) = << >> /\ Len(data) \in 0..Len(data)
      BY <1>2 DEF After
    <3>5. items[Len(data)] = << >>
      BY <1>3, <3>4 DEF ItemsAt
    <3>6. n - 0 = n /\ 0 \in 0..n
      BY <1>1
    <3> HIDE DEF n, at
    <3>7. QED
      BY <3>1, <3>3, <3>5, <3>6
  <2>2. QED
    BY <1>1, <2>1
<1>5. ASSUME NEW j \in 1..n, j - 1 \in T PROVE j \in T
  <2> DEFINE k == (n - j) + 1
             x == pieces[k]
             from == at(k - 1)
             u == FlattenSeq(After(pieces, k)) \o tail
  <2>1. /\ k \in 1..n /\ k - 1 = n - j /\ n - (j - 1) = k /\ j \in 0..n /\ k \in 1..Len(pieces)
        /\ k = n <=> j - 1 = 0
        /\ k # n => k \in 1..(n - 1)
    BY <1>1, SMTT(60)
  <2> HIDE DEF k
  <2>2. /\ from \in 0..Len(data)
        /\ After(data, from) = x \o u
        /\ u \in Seq(Octet)
        /\ at(k) = from + Len(x)
    <3>1. BeginsAt(from, k, pieces, tail)
      BY <1>1, <2>1, PieceAt, Zenon
    <3> HIDE DEF from
    <3>2. QED
      BY <3>1, Zenon DEF data, BeginsAt
  <2>3. x \in Seq(Octet) /\ x # << >> /\ Len(x) \in Nat
    <3>1. x \in Data
      BY <2>1, ElementOfSeq, Zenon
    <3> HIDE DEF x
    <3>2. QED
      BY <3>1 DEF Data
  <2>4. size[x \o u] = Len(x)
    <3>1. k \in DOMAIN pieces
      BY <2>1
    <3> HIDE DEF u
    <3>2. QED
      BY <2>2, <3>1, Zenon DEF Sized
  <2> HIDE DEF u, x, from
  <2>5. x \o u # << >> /\ ~Short(x \o u, Len(x)) /\ First(x \o u, Len(x)) = x
    <3>1. x \o u # << >> /\ ~Short(x \o u, Len(x))
      BY <2>2, <2>3 DEF Short
    <3>2. QED
      BY <2>2, <2>3, <3>1, FirstOf
  <2>6. items[from] = <<x>> \o IF x \in last THEN << >> ELSE items[from + Len(x)]
    BY <1>3, <2>2, <2>4, <2>5, Zenon DEF ItemsAt
  <2>7. After(pieces, k - 1) = <<x>> \o After(pieces, k)
    BY <2>1, AfterStep DEF x
  <2>8. items[from] = After(pieces, k - 1)
    <3>1. CASE x \in last
      <4>1. k = n
        BY <2>1, <3>1 DEF x
      <4>2. After(pieces, n) = << >>
        BY <1>1 DEF After
      <4> QED
        BY <2>6, <2>7, <3>1, <4>1, <4>2, Zenon
    <3>2. CASE x \notin last
      <4>1. ~(j - 1 = 0 /\ tail # << >>)
        BY <2>1, <3>2 DEF x
      <4>2. items[at(k)] = After(pieces, k)
        <5>1. items[at(n - (j - 1))] = After(pieces, n - (j - 1))
          <6> HIDE DEF at, n
          <6> QED
            BY <1>5, <4>1, Zenon
        <5> HIDE DEF at, n
        <5> QED
          BY <2>1, <5>1
      <4>3. items[from + Len(x)] = After(pieces, k)
        BY <2>2, <4>2, Zenon
      <4> QED
        BY <2>6, <2>7, <3>2, <4>3, Zenon
    <3>3. QED
      BY <3>1, <3>2
  <2>9. items[at(n - j)] = After(pieces, n - j)
    <3> HIDE DEF at, n
    <3> QED
      BY <2>1, <2>8 DEF from
  <2> HIDE DEF at, n
  <2>10. QED
    BY <2>1, <2>9
<1>6. \A j \in 0..n : j \in T
  <2> HIDE DEF T, n
  <2> QED
    BY <1>1, <1>4, <1>5, UpTo
<1>7. n \in T /\ n - n = 0
  <2> HIDE DEF T, n
  <2> QED
    BY <1>1, <1>6
<1>8. at(0) = 0 /\ After(pieces, 0) = pieces
  <2>1. First(pieces, 0) = << >> /\ After(pieces, 0) = pieces
    BY DEF First, After
  <2>2. QED
    BY <2>1, FlattenNone
<1>9. QED
  <2>1. CASE n = 0 /\ tail # << >>
    BY <2>1
  <2>2. CASE items[at(n - n)] = After(pieces, n - n)
    <3> HIDE DEF at, n
    <3>1. items[0] = pieces
      BY <2>2, <1>7, <1>8
    <3> QED
      BY <1>3, <3>1, Zenon DEF data
  <2>3. QED
    <3> HIDE DEF at, n
    <3> QED
      BY <1>7, <2>1, <2>2

(* Data that is whole items is split into them.                            *)
LEMMA SplitOf ==
    ASSUME NEW pieces \in Seq(Data), NEW size \in [Data -> Nat \ {0}], Sized(pieces, size)
    PROVE  Split(FlattenSeq(pieces), size) = [ok |-> TRUE, items |-> pieces]
<1>1. FlattenSeq(pieces) \in Seq(Octet)
  <2>1. Data \subseteq Seq(Octet)
    BY DEF Data
  <2>2. pieces \in Seq(Seq(Octet))
    BY <2>1, SeqMonotonic
  <2>3. QED
    BY <2>2, FlattenIn
<1>2. FlattenSeq(pieces) \o << >> = FlattenSeq(pieces)
  BY <1>1
<1>3. Items(FlattenSeq(pieces) \o << >>, size, {}) = pieces
  <2>1. << >> \in Seq(Octet) /\ \A i \in 1..(Len(pieces) - 1) : pieces[i] \notin {}
    OBVIOUS
  <2>2. QED
    BY <2>1, ItemsOf, Zenon
<1>4. Items(FlattenSeq(pieces), size, {}) = pieces
  BY <1>2, <1>3
<1>5. QED
  BY <1>4, Zenon DEF Split

-----------------------------------------------------------------------------
(* Octets.                                                                 *)

LEMMA HalfOf ==
    ASSUME NEW n \in Half
    PROVE  /\ AsU16(n) = <<n \div 256, n % 256>>
           /\ n \div 256 \in Octet
           /\ n % 256 \in Octet
           /\ AsU16(n) \in Seq(Octet)
           /\ Len(AsU16(n)) = 2
           /\ U16(AsU16(n)) = n
           /\ 256 * (n \div 256) + (n % 256) = n
<1> DEFINE h == n \div 256  l == n % 256
<1>1. h \in Octet /\ l \in Octet /\ 256 * h + l = n
  BY SMTT(60) DEF Half, Octet
<1>2. AsU16(n) = <<h, l>>
  BY DEF AsU16
<1> HIDE DEF h, l
<1>3. <<h, l>> \in Seq(Octet) /\ Len(<<h, l>>) = 2 /\ <<h, l>>[1] = h /\ <<h, l>>[2] = l
  BY <1>1
<1>4. U16(AsU16(n)) = n
  BY <1>1, <1>2, <1>3 DEF U16
<1>5. QED
  BY <1>1, <1>2, <1>3, <1>4, ZenonT(60) DEF h, l

LEMMA HalfRead ==
    ASSUME NEW n \in Half, NEW t \in Seq(Octet)
    PROVE  U16(AsU16(n) \o t) = n
<1>1. AsU16(n) \o t = <<n \div 256, n % 256>> \o t
  BY HalfOf, ZenonT(60)
<1>2. (<<n \div 256, n % 256>> \o t)[1] = n \div 256 /\ (<<n \div 256, n % 256>> \o t)[2] = n % 256
  OBVIOUS
<1>3. QED
  BY <1>1, <1>2, HalfOf DEF U16

LEMMA FlattenTwo ==
    ASSUME NEW S, NEW a \in Seq(S), NEW b \in Seq(S)
    PROVE  FlattenSeq(<<a, b>>) = a \o b
<1> DEFINE R == Seq(S)
<1>1. a \in R /\ b \in R
  OBVIOUS
<1>2. <<a>> \in Seq(R) /\ <<a, b>> = Append(<<a>>, b)
  <2> HIDE DEF R
  <2> QED
    BY <1>1
<1>3. FlattenSeq(Append(<<a>>, b)) = FlattenSeq(<<a>>) \o b
  BY <1>2, FlattenAppend, Zenon
<1>4. FlattenSeq(<<a>>) = a
  BY FlattenOne, Zenon
<1>5. QED
  BY <1>2, <1>3, <1>4, Zenon

(* Something with its length in front.                                     *)
Tlv(kind, value) == <<kind, Len(value)>> \o value

LEMMA TlvSized ==
    ASSUME NEW kind \in Octet, NEW value \in Seq(Octet), Len(value) < 256
    PROVE  /\ Tlv(kind, value) \in Data
           /\ Len(Tlv(kind, value)) = 2 + Len(value)
           /\ Tlv(kind, value)[1] = kind
           /\ After(Tlv(kind, value), 2) = value
           /\ \A t \in Seq(Octet) :
                 SegmentSize(1)[Tlv(kind, value) \o t] = Len(Tlv(kind, value))
<1>1. Len(value) \in Nat /\ Len(value) \in Octet /\ <<kind, Len(value)>> \in Seq(Octet)
      /\ Len(<<kind, Len(value)>>) = 2
  <2> DEFINE l == Len(value)
  <2>1. l \in Nat /\ l < 256
    OBVIOUS
  <2> HIDE DEF l
  <2>2. l \in Octet
    BY <2>1 DEF Octet
  <2>3. <<kind, l>> \in Seq(Octet) /\ Len(<<kind, l>>) = 2
    BY <2>2
  <2>4. QED
    BY <2>1, <2>2, <2>3 DEF l
<1>2. /\ Tlv(kind, value) \in Seq(Octet)
      /\ Len(Tlv(kind, value)) = 2 + Len(value)
      /\ Tlv(kind, value)[1] = kind
      /\ Tlv(kind, value)[2] = Len(value)
  BY <1>1 DEF Tlv
<1>3. Tlv(kind, value) \in Data
  BY <1>1, <1>2 DEF Data
<1>4. After(Tlv(kind, value), 2) = value
  BY <1>1, AfterOf DEF Tlv
<1>5. ASSUME NEW t \in Seq(Octet)
      PROVE  SegmentSize(1)[Tlv(kind, value) \o t] = Len(Tlv(kind, value))
  <2> DEFINE d == Tlv(kind, value) \o t
  <2>1. d \in Seq(Octet) /\ d # << >> /\ Len(d) >= 2 /\ d[2] = Len(value)
    BY <1>1, <1>2
  <2> HIDE DEF d
  <2>2. d \in Data /\ ~Short(d, 2)
    BY <2>1 DEF Data, Short
  <2>3. SegmentSize(1)[d] = 2 + 1 * d[2]
    BY <2>2 DEF SegmentSize
  <2>4. QED
    BY <2>1, <2>3, <1>1, <1>2 DEF d
<1>6. QED
  BY <1>2, <1>3, <1>4, <1>5

LEMMA SegmentSizeType ==
    ASSUME NEW width \in {1, 2, 4}
    PROVE  SegmentSize(width) \in [Data -> Nat \ {0}]
<1>1. ASSUME NEW data \in Data
      PROVE  (IF Short(data, 2) THEN 2 ELSE 2 + width * data[2]) \in Nat \ {0}
  <2>1. CASE Short(data, 2)
    BY <2>1
  <2>2. CASE ~Short(data, 2)
    <3>1. data \in Seq(Octet) /\ Len(data) \in Nat /\ 2 \in 1..Len(data)
      BY <2>2 DEF Short, Data
    <3>2. data[2] \in Octet
      BY <3>1, ElementOfSeq
    <3>3. data[2] \in Nat
      BY <3>2 DEF Octet
    <3>4. QED
      BY <2>2, <3>3
  <2>3. QED
    BY <2>1, <2>2
<1>2. QED
  BY <1>1 DEF SegmentSize

LEMMA SeqOfFunction ==
    ASSUME NEW S, NEW n \in Nat, NEW f \in [1..n -> S]
    PROVE  f \in Seq(S) /\ Len(f) = n
<1>1. f \in Seq(S)
  BY SeqDef
<1>2. Len(f) \in Nat /\ DOMAIN f = 1..Len(f) /\ DOMAIN f = 1..n
  BY <1>1, LenProperties
<1>3. QED
  BY <1>1, <1>2

-----------------------------------------------------------------------------
(* OPEN.                                                                   *)


LEMMA Concat ==
    ASSUME NEW s \in Seq(Octet), NEW t \in Seq(Octet)
    PROVE  /\ s \o t \in Seq(Octet)
           /\ Len(s \o t) = Len(s) + Len(t)
           /\ \A i \in 1..Len(s) : (s \o t)[i] = s[i]
           /\ \A i \in 1..Len(t) : (s \o t)[Len(s) + i] = t[i]
<1>1. s \o t \in Seq(Octet) /\ Len(s \o t) = Len(s) + Len(t)
  BY ConcatProperties
<1>2. \A i \in 1..Len(s) : (s \o t)[i] = s[i]
  BY ConcatProperties
<1>3. \A i \in 1..Len(t) : (s \o t)[Len(s) + i] = t[i]
  BY ConcatProperties
<1>4. QED
  BY <1>1, <1>2, <1>3

(* What stands in front of the parameters.                                 *)
OpenHead(two, hold, router, n) == <<4>> \o AsU16(two) \o AsU16(hold) \o router \o <<n>>

LEMMA OpenHeadRead ==
    ASSUME NEW two \in Half, NEW hold \in Half, NEW router \in [1..4 -> Octet],
           NEW params \in Seq(Octet), Len(params) < 256
    PROVE  LET body == OpenHead(two, hold, router, Len(params)) \o params
           IN  /\ body \in Seq(Octet)
               /\ Len(body) = 10 + Len(params)
               /\ body[1] = 4
               /\ body[10] = Len(params)
               /\ U16(After(body, 1)) = two
               /\ U16(After(body, 3)) = hold
               /\ First(After(body, 5), 4) = router
               /\ First(After(body, 10), Len(params)) = params
<1> DEFINE n == Len(params)
           h1 == <<4>>
           h3 == h1 \o AsU16(two)
           h5 == h3 \o AsU16(hold)
           h9 == h5 \o router
           h10 == h9 \o <<n>>
           t9 == <<n>> \o params
           t5 == router \o t9
           t3 == AsU16(hold) \o t5
           t1 == AsU16(two) \o t3
           body == h10 \o params
<1>1. n \in Octet /\ 4 \in Octet
  <2>1. n \in Nat /\ n < 256
    OBVIOUS
  <2> HIDE DEF n
  <2>2. QED
    BY <2>1 DEF Octet
<1>2. /\ AsU16(two) \in Seq(Octet) /\ Len(AsU16(two)) = 2
      /\ AsU16(hold) \in Seq(Octet) /\ Len(AsU16(hold)) = 2
  BY HalfOf
<1>3. router \in Seq(Octet) /\ Len(router) = 4
  BY SeqOfFunction, ZenonT(60)
<1>4. h1 \in Seq(Octet) /\ Len(h1) = 1 /\ <<n>> \in Seq(Octet) /\ Len(<<n>>) = 1
  <2> HIDE DEF n
  <2> QED
    BY <1>1
<1> HIDE DEF n
<1>5. h3 \in Seq(Octet) /\ Len(h3) = 3
  <2>1. h3 \in Seq(Octet) /\ Len(h3) = Len(h1) + Len(AsU16(two))
    BY <1>2, <1>4, Concat, Zenon
  <2>2. QED
    BY <1>2, <1>4, <2>1
<1>6. h5 \in Seq(Octet) /\ Len(h5) = 5
  <2>1. h5 \in Seq(Octet) /\ Len(h5) = Len(h3) + Len(AsU16(hold))
    BY <1>2, <1>5, Concat, Zenon
  <2> HIDE DEF h5
  <2>2. QED
    BY <1>2, <1>5, <2>1
<1>7. h9 \in Seq(Octet) /\ Len(h9) = 9
  <2>1. h9 \in Seq(Octet) /\ Len(h9) = Len(h5) + Len(router)
    BY <1>3, <1>6, Concat, Zenon
  <2> HIDE DEF h9
  <2>2. QED
    BY <1>3, <1>6, <2>1
<1>8. h10 \in Seq(Octet) /\ Len(h10) = 10
  <2>1. h10 \in Seq(Octet) /\ Len(h10) = Len(h9) + Len(<<n>>)
    BY <1>4, <1>7, Concat, Zenon
  <2> HIDE DEF h10
  <2>2. QED
    BY <1>4, <1>7, <2>1
<1>9. t9 \in Seq(Octet) /\ t9[1] = n
  BY <1>4
<1>10. t5 \in Seq(Octet)
  <2> HIDE DEF t9
  <2> QED
    BY <1>3, <1>9
<1>11. t3 \in Seq(Octet)
  <2> HIDE DEF t5
  <2> QED
    BY <1>2, <1>10
<1>12. t1 \in Seq(Octet)
  <2> HIDE DEF t3
  <2> QED
    BY <1>2, <1>11
<1>13. body = h9 \o t9
  <2> HIDE DEF h9
  <2> QED
    BY <1>4, <1>7, Joined, Zenon
<1>14. body = h5 \o t5
  <2> HIDE DEF h5, t9
  <2>1. h9 \o t9 = h5 \o (router \o t9)
    BY <1>3, <1>6, <1>9, Joined, ZenonT(60)
  <2> QED
    BY <1>13, <2>1, Zenon
<1>15. body = h3 \o t3
  <2> HIDE DEF h3, t5
  <2>1. h5 \o t5 = h3 \o (AsU16(hold) \o t5)
    <3> DEFINE x == AsU16(hold)
    <3>1. h3 \in Seq(Octet) /\ x \in Seq(Octet) /\ t5 \in Seq(Octet)
      BY <1>2, <1>5, <1>10, Zenon
    <3> HIDE DEF h3, t5, x
    <3>2. (h3 \o x) \o t5 = h3 \o (x \o t5)
      BY <3>1, Joined, ZenonT(60)
    <3>3. QED
      BY <3>2, Zenon DEF x
  <2> QED
    BY <1>14, <2>1, Zenon
<1>16. body = h1 \o t1
  <2> HIDE DEF h1, t3
  <2>1. h3 \o t3 = h1 \o (AsU16(two) \o t3)
    <3> DEFINE x == AsU16(two)
    <3>1. h1 \in Seq(Octet) /\ x \in Seq(Octet) /\ t3 \in Seq(Octet)
      BY <1>2, <1>4, <1>11, Zenon
    <3> HIDE DEF h1, t3, x
    <3>2. (h1 \o x) \o t3 = h1 \o (x \o t3)
      BY <3>1, Joined, ZenonT(60)
    <3>3. QED
      BY <3>2, Zenon DEF x
  <2> QED
    BY <1>15, <2>1, Zenon
<1>17. body \in Seq(Octet) /\ Len(body) = 10 + Len(params)
  <2>1. body \in Seq(Octet) /\ Len(body) = Len(h10) + Len(params)
    BY <1>8, Concat, ZenonT(60)
  <2> HIDE DEF body
  <2>2. QED
    BY <1>8, <2>1
<1>18. body[1] = 4
  <2> HIDE DEF body, t1
  <2> QED
    BY <1>16, <1>12
<1>19. body[10] = n
  <2> HIDE DEF t9, h9
  <2>1. \A i \in 1..Len(t9) : (h9 \o t9)[Len(h9) + i] = t9[i]
    BY <1>7, <1>9, Concat, Zenon
  <2>2. 1 \in 1..Len(t9)
    BY <1>4, <1>9 DEF t9
  <2>3. body[Len(h9) + 1] = n
    BY <1>9, <1>13, <2>1, <2>2, Zenon
  <2> HIDE DEF body
  <2>4. QED
    BY <1>7, <2>3
<1>20. After(body, 1) = t1 /\ After(body, 3) = t3 /\ After(body, 5) = t5 /\ After(body, 10) = params
  <2> HIDE DEF h1, h3, h5, h10, t1, t3, t5
  <2>1. After(h1 \o t1, 1) = t1
    BY <1>4, <1>12, AfterOf
  <2>2. After(h3 \o t3, 3) = t3
    BY <1>5, <1>11, AfterOf
  <2>3. After(h5 \o t5, 5) = t5
    BY <1>6, <1>10, AfterOf
  <2>4. After(h10 \o params, 10) = params
    BY <1>8, AfterOf
  <2>5. QED
    BY <1>14, <1>15, <1>16, <2>1, <2>2, <2>3, <2>4, Zenon
<1>21. U16(t1) = two /\ U16(t3) = hold
  <2> HIDE DEF t5
  <2>1. U16(t3) = hold
    BY <1>10, HalfRead, Zenon
  <2> HIDE DEF t3
  <2>2. U16(t1) = two
    BY <1>11, HalfRead, Zenon
  <2>3. QED
    BY <2>1, <2>2
<1>22. First(t5, 4) = router
  <2> HIDE DEF t9
  <2> QED
    BY <1>3, <1>9, FirstOf
<1>23. First(params, n) = params
  <2>1. SubSeq(params, 1, Len(params)) = params
    BY SubSeqFull
  <2>2. QED
    BY <2>1 DEF First, n
<1>24. OpenHead(two, hold, router, n) \o params = body
  BY DEF OpenHead
<1> HIDE DEF body, t1, t3, t5
<1>25. QED
  BY <1>17, <1>18, <1>19, <1>20, <1>21, <1>22, <1>23, <1>24, ZenonT(60) DEF n

(* The AS number in full among capabilities, else the two octets.          *)
Told(two, all) ==
    LET full == {i \in DOMAIN all : First(all[i], 2) = <<65, 4>>}
        asn == After(all[Max(full)], 2)
    IN  [as4 |-> full # {},
         asn |-> IF full = {} THEN <<0, two>> ELSE <<U16(asn), U16(After(asn, 2))>>]

ReadAs(two, hold, router, data, all) ==
    Open(OpenHead(two, hold, router, Len(data)) \o data)
      = IF hold \in {1, 2} THEN Malformed
        ELSE [ok |-> TRUE, hold |-> hold, router |-> router,
              as4 |-> Told(two, all).as4, asn |-> Told(two, all).asn]

LEMMA TenAndMore == \A n \in Nat : ~(10 + n < 10) /\ ~(10 + n < 10 + n)
OBVIOUS

LEMMA OpenRead ==
    ASSUME NEW two \in Half, NEW hold \in Half, NEW router \in [1..4 -> Octet],
           NEW params \in Seq(Data), Sized(params, SegmentSize(1)),
           Len(FlattenSeq(params)) < 256,
           NEW caps \in Seq(Seq(Data)), Len(caps) = Len(params),
           \A i \in DOMAIN params : Capabilities(params[i]) = [ok |-> TRUE, items |-> caps[i]],
           NEW all, all = FlattenSeq(caps)
    PROVE  ReadAs(two, hold, router, FlattenSeq(params), all)
<1> DEFINE data == FlattenSeq(params)
           body == OpenHead(two, hold, router, Len(data)) \o data
<1>1. data \in Seq(Octet)
  <2>1. params \in Seq(Seq(Octet))
    <3>1. Data \subseteq Seq(Octet)
      BY DEF Data
    <3>2. QED
      BY <3>1, SeqMonotonic
  <2>2. QED
    BY <2>1, FlattenIn
<1>2. /\ body \in Seq(Octet)
      /\ Len(body) = 10 + Len(data)
      /\ body[1] = 4
      /\ body[10] = Len(data)
      /\ U16(After(body, 1)) = two
      /\ U16(After(body, 3)) = hold
      /\ First(After(body, 5), 4) = router
      /\ First(After(body, 10), Len(data)) = data
  <2> HIDE DEF data
  <2>1. Len(data) < 256
    BY DEF data
  <2>2. QED
    BY <1>1, <2>1, OpenHeadRead, SMTT(60)
<1>3. Split(data, SegmentSize(1)) = [ok |-> TRUE, items |-> params]
  BY SplitOf, SegmentSizeType
<1> HIDE DEF body, data
<1> DEFINE P == Split(First(After(body, 10), body[10]), SegmentSize(1))
           lists == [i \in DOMAIN P.items |-> Capabilities(P.items[i])]
           C == FlattenSeq([i \in DOMAIN lists |-> lists[i].items])
<1>4. P = [ok |-> TRUE, items |-> params]
  BY <1>2, <1>3, Zenon
<1>5. lists = [i \in DOMAIN params |-> [ok |-> TRUE, items |-> caps[i]]]
  <2> HIDE DEF P
  <2>1. P.items = params
    BY <1>4
  <2>2. QED
    BY <2>1
<1>6. C = all
  <2> HIDE DEF P
  <2>1. [i \in DOMAIN lists |-> lists[i].items] = [i \in DOMAIN params |-> caps[i]]
    <3> HIDE DEF lists
    <3> QED
      BY <1>5
  <2>2. DOMAIN caps = DOMAIN params
    OBVIOUS
  <2>3. [i \in DOMAIN caps |-> caps[i]] = caps
    OBVIOUS
  <2>4. [i \in DOMAIN lists |-> lists[i].items] = caps
    BY <2>1, <2>2, <2>3, Zenon
  <2> HIDE DEF lists
  <2>5. QED
    BY <2>4, Zenon
<1>7. P.ok = TRUE /\ \A i \in DOMAIN lists : lists[i].ok = TRUE
  <2>1. P.ok = TRUE
    <3> HIDE DEF P
    <3> QED
      BY <1>4
  <2>2. \A i \in DOMAIN lists : lists[i].ok = TRUE
    <3> HIDE DEF lists
    <3> QED
      BY <1>5
  <2>3. QED
    BY <2>1, <2>2
<1>8. ~Short(body, 10) /\ ~Short(body, 10 + body[10])
  <2> DEFINE l == Len(body)  m == body[10]  n == Len(data)
  <2>1. l = 10 + n /\ m = n
    BY <1>2, Zenon
  <2>2. n \in Nat
    BY <1>1
  <2> HIDE DEF l, m, n
  <2>3. ~(l < 10) /\ ~(l < 10 + m)
    BY <2>1, <2>2, TenAndMore, Zenon
  <2>4. QED
    BY <2>3, Zenon DEF Short, l, m
<1>9. Open(body) = IF Short(body, 10) \/ body[1] # 4 \/ U16(After(body, 3)) \in {1, 2}
                        \/ Short(body, 10 + body[10])
                   THEN Malformed
                   ELSE IF ~P.ok \/ \E i \in DOMAIN lists : ~lists[i].ok THEN Malformed
                   ELSE [ok |-> TRUE, hold |-> U16(After(body, 3)),
                         router |-> First(After(body, 5), 4),
                         as4 |-> Told(U16(After(body, 1)), C).as4,
                         asn |-> Told(U16(After(body, 1)), C).asn]
  BY DEF Open, Told
<1> HIDE DEF P, lists, C
<1>10. ~(~P.ok \/ \E i \in DOMAIN lists : ~lists[i].ok)
  BY <1>7
<1>11. Open(body) = IF hold \in {1, 2} THEN Malformed
                    ELSE [ok |-> TRUE, hold |-> hold, router |-> router,
                          as4 |-> Told(two, all).as4, asn |-> Told(two, all).asn]
  BY <1>2, <1>6, <1>8, <1>9, <1>10, Zenon
<1>12. QED
  BY <1>11, Zenon DEF ReadAs, body, data

(* A list of things with their lengths in front is split into them.        *)
IsTlv(x) ==
    \E kind \in Octet, value \in Seq(Octet) : Len(value) < 256 /\ x = Tlv(kind, value)
AreTlvs(pieces) == \A i \in DOMAIN pieces : IsTlv(pieces[i])

LEMMA TlvsSplit ==
    ASSUME NEW S, NEW pieces \in Seq(S), AreTlvs(pieces)
    PROVE  /\ pieces \in Seq(Data)
           /\ Sized(pieces, SegmentSize(1))
           /\ FlattenSeq(pieces) \in Seq(Octet)
           /\ Split(FlattenSeq(pieces), SegmentSize(1)) = [ok |-> TRUE, items |-> pieces]
<1>1. ASSUME NEW i \in DOMAIN pieces
      PROVE  /\ pieces[i] \in Data
             /\ \A t \in Seq(Octet) : SegmentSize(1)[pieces[i] \o t] = Len(pieces[i])
  <2>1. PICK kind \in Octet, value \in Seq(Octet) :
           Len(value) < 256 /\ pieces[i] = Tlv(kind, value)
    BY Zenon DEF AreTlvs, IsTlv
  <2>2. /\ Tlv(kind, value) \in Data
        /\ \A t \in Seq(Octet) :
              SegmentSize(1)[Tlv(kind, value) \o t] = Len(Tlv(kind, value))
    BY <2>1, TlvSized
  <2>3. QED
    BY <2>1, <2>2, Zenon
<1>2. pieces \in Seq(Data)
  <2>1. pieces \in [1..Len(pieces) -> Data] /\ Len(pieces) \in Nat
    BY <1>1
  <2>2. QED
    BY <2>1, SeqDef
<1>3. Sized(pieces, SegmentSize(1))
  BY <1>1, Zenon DEF Sized
<1>4. FlattenSeq(pieces) \in Seq(Octet)
  <2>1. Data \subseteq Seq(Octet)
    BY DEF Data
  <2>2. pieces \in Seq(Seq(Octet))
    BY <1>2, <2>1, SeqMonotonic
  <2>3. QED
    BY <2>2, FlattenIn
<1>5. QED
  BY <1>2, <1>3, <1>4, SplitOf, SegmentSizeType

LEMMA MultiprotocolIs ==
    ASSUME NEW a \in Octet, NEW b \in Octet
    PROVE  /\ <<0, a, 0, b>> \in Seq(Octet)
           /\ Len(<<0, a, 0, b>>) = 4
           /\ <<1, 4, 0, a, 0, b>> = Tlv(1, <<0, a, 0, b>>)
           /\ First(<<1, 4, 0, a, 0, b>>, 2) # <<65, 4>>
<1> DEFINE v == <<0, a, 0, b>>
           s == <<1, 4>> \o v
<1>1. v \in Seq(Octet) /\ Len(v) = 4 /\ v[1] = 0 /\ v[2] = a /\ v[3] = 0 /\ v[4] = b
  BY DEF Octet
<1>2. <<1, 4>> \in Seq(Octet) /\ Len(<<1, 4>>) = 2 /\ <<1, 4>>[1] = 1 /\ <<1, 4>>[2] = 4
  BY DEF Octet
<1>3. /\ s \in Seq(Octet) /\ Len(s) = 6
      /\ s[1] = 1 /\ s[2] = 4 /\ s[3] = 0 /\ s[4] = a /\ s[5] = 0 /\ s[6] = b
  <2> HIDE DEF v
  <2>1. /\ s \in Seq(Octet) /\ Len(s) = Len(<<1, 4>>) + Len(v)
        /\ \A i \in 1..Len(<<1, 4>>) : s[i] = <<1, 4>>[i]
        /\ \A i \in 1..Len(v) : s[Len(<<1, 4>>) + i] = v[i]
    BY <1>1, <1>2, Concat, Zenon
  <2> HIDE DEF s
  <2>2. QED
    BY <1>1, <1>2, <2>1
<1>4. Tlv(1, v) = s
  BY <1>1, Zenon DEF Tlv
<1>5. s = <<1, 4, 0, a, 0, b>>
  <2> HIDE DEF s
  <2>1. s = <<s[1], s[2], s[3], s[4], s[5], s[6]>>
    BY <1>3
  <2>2. QED
    BY <1>3, <2>1
<1>6. First(s, 2) # <<65, 4>>
  <2> HIDE DEF s
  <2>1. First(s, 2)[1] = 1
    BY <1>3 DEF First
  <2>2. QED
    BY <2>1
<1>7. QED
  <2> HIDE DEF s, v
  <2> QED
    BY <1>1, <1>4, <1>5, <1>6, Zenon DEF v

(* Capability 65.                                                          *)
Four(asn) == <<65, 4>> \o AsU16(asn[1]) \o AsU16(asn[2])

LEMMA FourIs ==
    ASSUME NEW asn \in Asn
    PROVE  LET value == AsU16(asn[1]) \o AsU16(asn[2])
           IN  /\ value \in Seq(Octet)
               /\ Len(value) = 4
               /\ Four(asn) = Tlv(65, value)
               /\ First(Four(asn), 2) = <<65, 4>>
               /\ asn = <<U16(After(Four(asn), 2)), U16(After(After(Four(asn), 2), 2))>>
<1> DEFINE a == AsU16(asn[1])
           b == AsU16(asn[2])
           value == a \o b
<1>1. asn[1] \in Half /\ asn[2] \in Half /\ asn = <<asn[1], asn[2]>>
  BY DEF Asn
<1>2. /\ a \in Seq(Octet) /\ Len(a) = 2 /\ U16(a) = asn[1]
      /\ b \in Seq(Octet) /\ Len(b) = 2 /\ U16(b) = asn[2]
  BY <1>1, HalfOf
<1>3. U16(value) = asn[1]
  BY <1>1, <1>2, HalfRead, Zenon
<1> HIDE DEF a, b
<1>4. value \in Seq(Octet) /\ Len(value) = 4
  <2>1. value \in Seq(Octet) /\ Len(value) = Len(a) + Len(b)
    BY <1>2, Concat, Zenon
  <2> HIDE DEF value
  <2>2. QED
    BY <1>2, <2>1
<1>5. After(value, 2) = b
  BY <1>2, AfterOf
<1>6. <<65, 4>> \in Seq(Octet) /\ Len(<<65, 4>>) = 2
  BY DEF Octet
<1>7. Four(asn) = Tlv(65, value)
  <2>1. (<<65, 4>> \o a) \o b = <<65, 4>> \o value
    BY <1>2, <1>6, Joined, ZenonT(60)
  <2> HIDE DEF value
  <2>2. QED
    BY <1>4, <2>1, Zenon DEF Four, Tlv, a, b
<1> HIDE DEF value
<1>8. After(Tlv(65, value), 2) = value /\ First(Tlv(65, value), 2) = <<65, 4>>
  <2>1. Tlv(65, value) = <<65, 4>> \o value
    BY <1>4, Zenon DEF Tlv
  <2>2. QED
    BY <1>4, <1>6, <2>1, AfterOf, FirstOf, ZenonT(60)
<1>9. QED
  BY <1>1, <1>2, <1>3, <1>4, <1>5, <1>7, <1>8, Zenon DEF value, a, b

LEMMA ToldOnce ==
    ASSUME NEW two, NEW all, NEW k \in DOMAIN all, k \in Nat, NEW asn \in Asn,
           all[k] = Four(asn),
           \A i \in DOMAIN all : i # k => First(all[i], 2) # <<65, 4>>
    PROVE  Told(two, all) = [as4 |-> TRUE, asn |-> asn]
<1> DEFINE full == {i \in DOMAIN all : First(all[i], 2) = <<65, 4>>}
<1>1. full = {k}
  <2>1. First(all[k], 2) = <<65, 4>>
    BY FourIs, Zenon
  <2>2. QED
    BY <2>1
<1>2. Max({k}) = k
  BY DEF Max
<1>3. full # {} /\ Max(full) = k
  BY <1>1, <1>2
<1> HIDE DEF full
<1>4. <<U16(After(all[k], 2)), U16(After(After(all[k], 2), 2))>> = asn
  BY FourIs, Zenon
<1>5. Told(two, all) =
        LET last == After(all[Max(full)], 2)
        IN  [as4 |-> full # {},
             asn |-> IF full = {} THEN <<0, two>> ELSE <<U16(last), U16(After(last, 2))>>]
  BY Zenon DEF Told, full
<1>6. QED
  BY <1>3, <1>4, <1>5, Zenon

LEMMA ToldNever ==
    ASSUME NEW two, NEW all, \A i \in DOMAIN all : First(all[i], 2) # <<65, 4>>
    PROVE  Told(two, all) = [as4 |-> FALSE, asn |-> <<0, two>>]
BY DEF Told

LEMMA CapabilitiesOf ==
    ASSUME NEW S, NEW pieces \in Seq(S), AreTlvs(pieces), Len(FlattenSeq(pieces)) < 256
    PROVE  Capabilities(Tlv(2, FlattenSeq(pieces))) = [ok |-> TRUE, items |-> pieces]
<1>1. FlattenSeq(pieces) \in Seq(Octet) /\ 2 \in Octet
  BY TlvsSplit DEF Octet
<1>2. /\ Tlv(2, FlattenSeq(pieces))[1] = 2
      /\ After(Tlv(2, FlattenSeq(pieces)), 2) = FlattenSeq(pieces)
  BY <1>1, TlvSized
<1>3. Split(FlattenSeq(pieces), SegmentSize(1)) = [ok |-> TRUE, items |-> pieces]
  BY TlvsSplit, Zenon
<1>4. QED
  BY <1>2, <1>3, Zenon DEF Capabilities

(* One more entry makes a list longer by its length.                       *)
LEMMA FlattenMore ==
    ASSUME NEW pieces \in Seq(Seq(Octet)), NEW x \in Seq(Octet)
    PROVE  /\ FlattenSeq(Append(pieces, x)) \in Seq(Octet)
           /\ Len(FlattenSeq(Append(pieces, x))) = Len(FlattenSeq(pieces)) + Len(x)
<1>1. FlattenSeq(pieces) \in Seq(Octet)
  BY FlattenIn, Zenon
<1>2. FlattenSeq(Append(pieces, x)) = FlattenSeq(pieces) \o x
  BY FlattenAppend, Zenon
<1>3. QED
  BY <1>1, <1>2, Concat, Zenon

(* What the receiver announces is read back as its number.                 *)
LEMMA OwnRead ==
    ASSUME NEW asn \in Asn, NEW hold \in Half, hold \notin {1, 2}, NEW router \in [1..4 -> Octet]
    PROVE  /\ U16(After(BuildOpen(asn, hold, router), 1)) = Folded(asn)
           /\ Open(BuildOpen(asn, hold, router)) =
                [ok |-> TRUE, asn |-> asn, hold |-> hold, router |-> router, as4 |-> TRUE]
<1> DEFINE m1 == <<1, 4, 0, 1, 0, 1>>    m2 == <<1, 4, 0, 1, 0, 133>>
           m3 == <<1, 4, 0, 2, 0, 1>>    m4 == <<1, 4, 0, 2, 0, 133>>
           four == Four(asn)
           list == <<m1, m2, m3, m4, four>>
           own == FlattenSeq(list)
           params == <<Tlv(2, own)>>
           two == Folded(asn)
<1>1. two \in Half
  <2>1. asn[2] \in Half
    BY DEF Asn
  <2>2. two = 23456 \/ two = asn[2]
    BY SMTT(60) DEF Folded
  <2>3. 23456 \in Half
    BY DEF Half
  <2> HIDE DEF two
  <2>4. QED
    BY <2>1, <2>2, <2>3
<1>2. {0, 1, 2, 4, 65, 133} \subseteq Octet
  BY DEF Octet
<1>3. /\ m1 \in Seq(Octet) /\ Len(m1) = 6 /\ m2 \in Seq(Octet) /\ Len(m2) = 6
      /\ m3 \in Seq(Octet) /\ Len(m3) = 6 /\ m4 \in Seq(Octet) /\ Len(m4) = 6
  BY <1>2
<1>4. PICK v \in Seq(Octet) : Len(v) = 4 /\ four = Tlv(65, v)
  BY FourIs
<1>5. four \in Seq(Octet) /\ Len(four) = 6
  <2>1. 65 \in Octet /\ Len(v) < 256
    BY <1>2, <1>4
  <2>2. Tlv(65, v) \in Data /\ Len(Tlv(65, v)) = 2 + Len(v)
    BY <2>1, TlvSized, SMT
  <2>3. four \in Data /\ Len(four) = 2 + Len(v)
    BY <1>4, <2>2, Zenon
  <2> HIDE DEF four
  <2>4. QED
    BY <1>4, <2>3 DEF Data
<1> HIDE DEF four
<1>6. /\ m1 = Tlv(1, <<0, 1, 0, 1>>) /\ m2 = Tlv(1, <<0, 1, 0, 133>>)
      /\ m3 = Tlv(1, <<0, 2, 0, 1>>) /\ m4 = Tlv(1, <<0, 2, 0, 133>>)
      /\ \A m \in {m1, m2, m3, m4} : First(m, 2) # <<65, 4>>
  <2> HIDE DEF m1, m2, m3, m4
  <2>1. m1 = Tlv(1, <<0, 1, 0, 1>>) /\ First(m1, 2) # <<65, 4>>
    BY <1>2, MultiprotocolIs DEF m1
  <2>2. m2 = Tlv(1, <<0, 1, 0, 133>>) /\ First(m2, 2) # <<65, 4>>
    BY <1>2, MultiprotocolIs DEF m2
  <2>3. m3 = Tlv(1, <<0, 2, 0, 1>>) /\ First(m3, 2) # <<65, 4>>
    BY <1>2, MultiprotocolIs DEF m3
  <2>4. m4 = Tlv(1, <<0, 2, 0, 133>>) /\ First(m4, 2) # <<65, 4>>
    BY <1>2, MultiprotocolIs DEF m4
  <2>5. QED
    BY <2>1, <2>2, <2>3, <2>4
<1> HIDE DEF m1, m2, m3, m4
<1> DEFINE R == Seq(Octet)
<1>7. /\ <<m1>> \in Seq(R) /\ <<m1, m2>> \in Seq(R) /\ <<m1, m2, m3>> \in Seq(R)
      /\ <<m1, m2, m3, m4>> \in Seq(R) /\ list \in Seq(R)
      /\ <<m1, m2>> = Append(<<m1>>, m2) /\ <<m1, m2, m3>> = Append(<<m1, m2>>, m3)
      /\ <<m1, m2, m3, m4>> = Append(<<m1, m2, m3>>, m4)
      /\ list = Append(<<m1, m2, m3, m4>>, four)
  <2>1. m1 \in R /\ m2 \in R /\ m3 \in R /\ m4 \in R /\ four \in R
    BY <1>3, <1>5
  <2> HIDE DEF R
  <2>2. QED
    BY <2>1
<1>8. own \in Seq(Octet) /\ Len(own) = 30
  <2> DEFINE l1 == Len(FlattenSeq(<<m1>>))          l2 == Len(FlattenSeq(<<m1, m2>>))
             l3 == Len(FlattenSeq(<<m1, m2, m3>>))  l4 == Len(FlattenSeq(<<m1, m2, m3, m4>>))
  <2>1. l1 = 6
    BY <1>3, FlattenOne, Zenon
  <2>2. l2 = l1 + Len(m2)
    <3>1. <<m1>> \in Seq(Seq(Octet)) /\ m2 \in Seq(Octet)
      BY <1>3, <1>7, Zenon
    <3>2. Len(FlattenSeq(Append(<<m1>>, m2))) = Len(FlattenSeq(<<m1>>)) + Len(m2)
      BY <3>1, FlattenMore, Zenon
    <3>3. <<m1, m2>> = Append(<<m1>>, m2)
      BY <1>7, Zenon
    <3>4. QED
      BY <3>2, <3>3, Zenon
  <2>3. l3 = l2 + Len(m3)
    <3>1. <<m1, m2>> \in Seq(Seq(Octet)) /\ m3 \in Seq(Octet)
      BY <1>3, <1>7, Zenon
    <3>2. Len(FlattenSeq(Append(<<m1, m2>>, m3))) = Len(FlattenSeq(<<m1, m2>>)) + Len(m3)
      BY <3>1, FlattenMore, Zenon
    <3>3. <<m1, m2, m3>> = Append(<<m1, m2>>, m3)
      BY <1>7, Zenon
    <3>4. QED
      BY <3>2, <3>3, Zenon
  <2>4. l4 = l3 + Len(m4)
    <3>1. <<m1, m2, m3>> \in Seq(Seq(Octet)) /\ m4 \in Seq(Octet)
      BY <1>3, <1>7, Zenon
    <3>2. Len(FlattenSeq(Append(<<m1, m2, m3>>, m4))) = Len(FlattenSeq(<<m1, m2, m3>>)) + Len(m4)
      BY <3>1, FlattenMore, Zenon
    <3>3. <<m1, m2, m3, m4>> = Append(<<m1, m2, m3>>, m4)
      BY <1>7, Zenon
    <3>4. QED
      BY <3>2, <3>3, Zenon
  <2>5. /\ FlattenSeq(list) \in Seq(Octet)
        /\ Len(FlattenSeq(list)) = l4 + Len(four)
    BY <1>5, <1>7, FlattenMore, Zenon
  <2> HIDE DEF l1, l2, l3, l4, own
  <2>6. l4 = 24
    BY <1>3, <2>1, <2>2, <2>3, <2>4
  <2>7. own \in Seq(Octet) /\ Len(own) = l4 + Len(four)
    BY <2>5, Zenon DEF own
  <2>8. QED
    BY <1>5, <2>6, <2>7
<1>9. OwnCapabilities(asn) = own
  BY Zenon DEF OwnCapabilities, Multiprotocol, Four, m1, m2, m3, m4, four
<1>10. AreTlvs(list)
  <2>1. /\ DOMAIN list = 1..5 /\ list[1] = m1 /\ list[2] = m2 /\ list[3] = m3 /\ list[4] = m4
        /\ list[5] = four
    OBVIOUS
  <2> HIDE DEF list
  <2>2. /\ <<0, 1, 0, 1>> \in Seq(Octet) /\ Len(<<0, 1, 0, 1>>) < 256
        /\ <<0, 1, 0, 133>> \in Seq(Octet) /\ Len(<<0, 1, 0, 133>>) < 256
        /\ <<0, 2, 0, 1>> \in Seq(Octet) /\ Len(<<0, 2, 0, 1>>) < 256
        /\ <<0, 2, 0, 133>> \in Seq(Octet) /\ Len(<<0, 2, 0, 133>>) < 256
    BY <1>2
  <2>3. Len(v) < 256
    BY <1>4
  <2>4. ASSUME NEW i \in DOMAIN list
        PROVE  IsTlv(list[i])
    <3>1. i \in {1, 2, 3, 4, 5}
      BY <2>1
    <3>2. 1 \in Octet /\ 65 \in Octet
      BY <1>2
    <3>3. CASE i = 1
      BY <3>2, <3>3, <2>1, <2>2, <1>6, ZenonT(60) DEF IsTlv
    <3>4. CASE i = 2
      BY <3>2, <3>4, <2>1, <2>2, <1>6, ZenonT(60) DEF IsTlv
    <3>5. CASE i = 3
      BY <3>2, <3>5, <2>1, <2>2, <1>6, ZenonT(60) DEF IsTlv
    <3>6. CASE i = 4
      BY <3>2, <3>6, <2>1, <2>2, <1>6, ZenonT(60) DEF IsTlv
    <3>7. CASE i = 5
      BY <3>2, <3>7, <2>1, <2>3, <1>4, Zenon DEF IsTlv
    <3>8. QED
      BY <3>1, <3>3, <3>4, <3>5, <3>6, <3>7, Zenon
  <2>5. QED
    BY <2>4, Zenon DEF AreTlvs
<1>11. Capabilities(Tlv(2, own)) = [ok |-> TRUE, items |-> list]
  <2> HIDE DEF list
  <2>1. Len(own) < 256
    BY <1>8
  <2>2. QED
    BY <1>7, <1>10, <2>1, CapabilitiesOf, Zenon
<1>12. list \in Seq(Data)
  <2> HIDE DEF list
  <2> QED
    BY <1>7, <1>10, TlvsSplit, Zenon
<1>13. /\ params \in Seq(Data) /\ Sized(params, SegmentSize(1))
       /\ FlattenSeq(params) = Tlv(2, own)
       /\ Len(Tlv(2, own)) = 32
       /\ Tlv(2, own) \in Seq(Octet)
  <2> HIDE DEF list, own
  <2>1. Tlv(2, own) \in Data /\ Len(Tlv(2, own)) = 32
    <3>1. 2 \in Octet /\ Len(own) < 256 /\ own \in Seq(Octet)
      BY <1>2, <1>8
    <3>2. Tlv(2, own) \in Data /\ Len(Tlv(2, own)) = 2 + Len(own)
      BY <3>1, TlvSized, Zenon
    <3>3. QED
      BY <3>2, <1>8
  <2>2. Tlv(2, own) \in Seq(Octet)
    BY <2>1 DEF Data
  <2>3. AreTlvs(params)
    <3>1. Len(own) < 256 /\ DOMAIN params = {1} /\ params[1] = Tlv(2, own)
      BY <1>8
    <3> HIDE DEF params
    <3>2. 2 \in Octet
      BY <1>2
    <3>3. QED
      BY <1>8, <3>1, <3>2, ZenonT(60) DEF AreTlvs, IsTlv
  <2>4. params \in Seq(R)
    BY <2>2
  <2>5. FlattenSeq(params) = Tlv(2, own)
    BY <2>2, FlattenOne
  <2> HIDE DEF params
  <2>6. params \in Seq(Data) /\ Sized(params, SegmentSize(1))
    BY <2>3, <2>4, TlvsSplit, Zenon
  <2>7. QED
    BY <2>1, <2>2, <2>5, <2>6
<1>14. BuildOpen(asn, hold, router) = OpenHead(two, hold, router, 32) \o Tlv(2, own)
  <2> DEFINE h9 == <<4>> \o AsU16(two) \o AsU16(hold) \o router
  <2>1. /\ AsU16(two) \in Seq(Octet) /\ AsU16(hold) \in Seq(Octet)
        /\ router \in Seq(Octet) /\ <<4>> \in Seq(Octet)
    <3> HIDE DEF two
    <3>1. AsU16(two) \in Seq(Octet) /\ AsU16(hold) \in Seq(Octet)
      BY <1>1, HalfOf, SMT
    <3>2. router \in Seq(Octet)
      BY SeqOfFunction
    <3>3. <<4>> \in Seq(Octet)
      BY <1>2
    <3>4. QED
      BY <3>1, <3>2, <3>3, Zenon
  <2>2. h9 \in Seq(Octet)
    <3>1. <<4>> \o AsU16(two) \in Seq(Octet)
      BY <2>1, Concat, Zenon
    <3>2. <<4>> \o AsU16(two) \o AsU16(hold) \in Seq(Octet)
      BY <2>1, <3>1, Concat, Zenon
    <3>3. QED
      BY <2>1, <3>2, Concat, Zenon
  <2> HIDE DEF h9, own
  <2>3. /\ BuildOpen(asn, hold, router) = (h9 \o <<Len(own) + 2, 2, Len(own)>>) \o own
        /\ Len(own) = 30 /\ Len(own) + 2 = 32
    <3>1. BuildOpen(asn, hold, router) = (h9 \o <<Len(own) + 2, 2, Len(own)>>) \o own
      BY <1>9, Zenon DEF BuildOpen, h9
    <3>2. Len(own) = 30 /\ Len(own) + 2 = 32
      BY <1>8
    <3>3. QED
      BY <3>1, <3>2, Zenon
  <2>4. BuildOpen(asn, hold, router) = (h9 \o <<32, 2, 30>>) \o own
    BY <2>3, Zenon
  <2>5. <<32>> \o <<2, 30>> = <<32, 2, 30>> /\ <<32>> \in Seq(Octet) /\ <<2, 30>> \in Seq(Octet)
    <3> DEFINE s == <<32>> \o <<2, 30>>
    <3>1. <<32>> \in Seq(Octet) /\ <<2, 30>> \in Seq(Octet) /\ Len(<<32>>) = 1
          /\ Len(<<2, 30>>) = 2
      BY DEF Octet
    <3>2. /\ s \in Seq(Octet) /\ Len(s) = Len(<<32>>) + Len(<<2, 30>>)
          /\ \A i \in 1..Len(<<32>>) : s[i] = <<32>>[i]
          /\ \A i \in 1..Len(<<2, 30>>) : s[Len(<<32>>) + i] = <<2, 30>>[i]
      BY <3>1, Concat, SMT
    <3> HIDE DEF s
    <3>3. s \in Seq(Octet) /\ Len(s) = 3 /\ s[1] = 32 /\ s[2] = 2 /\ s[3] = 30
      BY <3>1, <3>2
    <3>4. s = <<s[1], s[2], s[3]>>
      BY <3>3
    <3>5. QED
      BY <3>1, <3>3, <3>4 DEF s
  <2>6. (h9 \o <<32, 2, 30>>) \o own = (h9 \o <<32>>) \o (<<2, 30>> \o own)
    <3>1. h9 \o (<<32>> \o <<2, 30>>) = (h9 \o <<32>>) \o <<2, 30>>
      BY <2>2, <2>5, Joined, ZenonT(60)
    <3>2. h9 \o <<32>> \in Seq(Octet)
      BY <2>2, <2>5, Concat, Zenon
    <3>3. ((h9 \o <<32>>) \o <<2, 30>>) \o own = (h9 \o <<32>>) \o (<<2, 30>> \o own)
      BY <1>8, <2>5, <3>2, Joined, ZenonT(60)
    <3>4. QED
      BY <2>5, <3>1, <3>3, Zenon
  <2>7. QED
    BY <2>3, <2>4, <2>6, Zenon DEF h9, Tlv, OpenHead
<1> HIDE DEF own, list, two
<1>15. U16(After(BuildOpen(asn, hold, router), 1)) = two
  <2> DEFINE l == Len(Tlv(2, own))
  <2>0. l = 32
    BY <1>13, Zenon
  <2> HIDE DEF l
  <2>1. l < 256
    BY <2>0
  <2> USE DEF l
  <2>2. U16(After(OpenHead(two, hold, router, Len(Tlv(2, own))) \o Tlv(2, own), 1)) = two
    BY <1>1, <1>13, <2>1, OpenHeadRead
  <2>3. QED
    BY <1>13, <1>14, <2>2, Zenon
<1>16. Told(two, list) = [as4 |-> TRUE, asn |-> asn]
  <2>1. /\ DOMAIN list = 1..5 /\ list[1] = m1 /\ list[2] = m2 /\ list[3] = m3 /\ list[4] = m4
        /\ list[5] = four
    BY DEF list
  <2>2. \A i \in DOMAIN list : i # 5 => First(list[i], 2) # <<65, 4>>
    <3>1. ASSUME NEW i \in DOMAIN list, i # 5 PROVE list[i] \in {m1, m2, m3, m4}
      <4>1. i \in {1, 2, 3, 4}
        BY <2>1, <3>1
      <4>2. QED
        BY <2>1, <4>1, Zenon
    <3>2. QED
      BY <1>6, <3>1, ZenonT(60)
  <2>3. 5 \in DOMAIN list /\ 5 \in Nat /\ list[5] = Four(asn)
    BY <2>1 DEF four
  <2>4. QED
    BY <2>2, <2>3, ToldOnce, ZenonT(60)
<1>17. Open(BuildOpen(asn, hold, router)) =
         [ok |-> TRUE, hold |-> hold, router |-> router, as4 |-> TRUE, asn |-> asn]
  <2> DEFINE caps == <<list>>
  <2>1. /\ caps \in Seq(Seq(Data)) /\ Len(caps) = Len(params) /\ FlattenSeq(caps) = list
        /\ DOMAIN params = {1} /\ params[1] = Tlv(2, own) /\ caps[1] = list
    <3> DEFINE Q == Seq(Data)
    <3>1. list \in Q
      BY <1>12
    <3>2. FlattenSeq(caps) = list
      BY <1>12, FlattenOne
    <3> HIDE DEF Q
    <3>3. caps \in Seq(Q)
      BY <3>1
    <3>4. Len(caps) = Len(params) /\ caps[1] = list /\ DOMAIN params = {1} /\ params[1] = Tlv(2, own)
      OBVIOUS
    <3>5. QED
      BY <3>2, <3>3, <3>4 DEF Q
  <2> HIDE DEF params, caps
  <2>2. \A i \in DOMAIN params : Capabilities(params[i]) = [ok |-> TRUE, items |-> caps[i]]
    BY <1>11, <2>1
  <2>3. Len(FlattenSeq(params)) < 256 /\ Len(FlattenSeq(params)) = 32
    <3> DEFINE l == Len(FlattenSeq(params))
    <3>1. l = 32
      BY <1>13, Zenon
    <3> HIDE DEF l
    <3>2. l < 256
      BY <3>1
    <3>3. QED
      BY <3>1, <3>2 DEF l
  <2> DEFINE data == FlattenSeq(params)
  <2>4. ReadAs(two, hold, router, data, list)
    BY <1>1, <1>13, <2>1, <2>2, <2>3, OpenRead
  <2>5. data = Tlv(2, own) /\ Len(data) = 32
    BY <1>13, <2>3
  <2> HIDE DEF data
  <2>6. Open(OpenHead(two, hold, router, 32) \o Tlv(2, own)) =
          [ok |-> TRUE, hold |-> hold, router |-> router,
           as4 |-> Told(two, list).as4, asn |-> Told(two, list).asn]
    BY <2>4, <2>5, Zenon DEF ReadAs
  <2>7. Told(two, list).as4 = TRUE /\ Told(two, list).asn = asn
    BY <1>16
  <2>8. QED
    BY <1>14, <2>6, <2>7, Zenon
<1>18. QED
  BY <1>15, <1>17 DEF two

LEMMA TlvIn ==
    ASSUME NEW x, IsTlv(x)
    PROVE  x \in Data /\ x \in Seq(Octet)
<1>1. PICK kind \in Octet, value \in Seq(Octet) : Len(value) < 256 /\ x = Tlv(kind, value)
  BY DEF IsTlv
<1>2. Tlv(kind, value) \in Data
  BY <1>1, TlvSized, Zenon
<1>3. QED
  BY <1>1, <1>2 DEF Data

LEMMA TlvsNone == AreTlvs(<< >>)
BY DEF AreTlvs

LEMMA TlvsOne ==
    ASSUME NEW a, IsTlv(a)
    PROVE  AreTlvs(<<a>>) /\ FlattenSeq(<<a>>) = a
<1>1. AreTlvs(<<a>>)
  <2>1. DOMAIN <<a>> = {1} /\ <<a>>[1] = a
    OBVIOUS
  <2>2. QED
    BY <2>1 DEF AreTlvs
<1>2. QED
  BY <1>1, TlvIn, FlattenOne

LEMMA TlvsTwo ==
    ASSUME NEW a, NEW b, IsTlv(a), IsTlv(b)
    PROVE  AreTlvs(<<a, b>>) /\ FlattenSeq(<<a, b>>) = a \o b
<1>1. AreTlvs(<<a, b>>)
  <2>1. DOMAIN <<a, b>> = {1, 2} /\ <<a, b>>[1] = a /\ <<a, b>>[2] = b
    OBVIOUS
  <2>2. QED
    BY <2>1 DEF AreTlvs
<1>2. a \in Seq(Octet) /\ b \in Seq(Octet)
  BY TlvIn
<1>3. FlattenSeq(<<a, b>>) = a \o b
  BY <1>2, FlattenTwo, Zenon
<1>4. QED
  BY <1>1, <1>3

LEMMA TlvsThree ==
    ASSUME NEW s \in Seq(Data), Len(s) = 3, IsTlv(s[1]), IsTlv(s[2]), IsTlv(s[3])
    PROVE  AreTlvs(s) /\ FlattenSeq(s) = (s[1] \o s[2]) \o s[3]
<1> DEFINE R == Seq(Octet)
           a == s[1]  b == s[2]  c == s[3]
<1>1. DOMAIN s = {1, 2, 3} /\ s = <<a, b, c>>
  OBVIOUS
<1>2. AreTlvs(s)
  BY <1>1 DEF AreTlvs
<1>3. a \in Seq(Octet) /\ b \in Seq(Octet) /\ c \in Seq(Octet)
  BY TlvIn
<1> HIDE DEF a, b, c
<1>4. <<a, b>> \in Seq(R) /\ <<a, b, c>> = Append(<<a, b>>, c)
  <2>1. a \in R /\ b \in R
    BY <1>3
  <2> HIDE DEF R
  <2>2. QED
    BY <2>1
<1>5. FlattenSeq(Append(<<a, b>>, c)) = FlattenSeq(<<a, b>>) \o c
  BY <1>3, <1>4, FlattenAppend, Zenon
<1>6. FlattenSeq(<<a, b>>) = a \o b
  BY <1>3, FlattenTwo, Zenon
<1>7. QED
  BY <1>1, <1>2, <1>4, <1>5, <1>6, Zenon DEF a, b, c

(* What a peer announces besides its number.                               *)
Family == <<1, 4, 0, 1, 0, 1>>
Refresh == <<2, 0>>

LEMMA FamilyIs == IsTlv(Family) /\ Len(Family) = 6 /\ First(Family, 2) # <<65, 4>>
<1>1. 1 \in Octet
  BY DEF Octet
<1>2. /\ <<0, 1, 0, 1>> \in Seq(Octet)
      /\ Len(<<0, 1, 0, 1>>) = 4
      /\ Family = Tlv(1, <<0, 1, 0, 1>>)
      /\ First(Family, 2) # <<65, 4>>
  BY <1>1, MultiprotocolIs DEF Family
<1>3. Len(<<0, 1, 0, 1>>) < 256
  OBVIOUS
<1>4. IsTlv(Family)
  BY <1>1, <1>2, <1>3, Zenon DEF IsTlv
<1>5. QED
  BY <1>2, <1>4 DEF Family

LEMMA RefreshIs == IsTlv(Refresh) /\ Len(Refresh) = 2 /\ First(Refresh, 2) # <<65, 4>>
<1>1. 2 \in Octet /\ << >> \in Seq(Octet) /\ Len(<< >>) = 0 /\ Len(<< >>) < 256
  BY DEF Octet
<1>2. Refresh \in Seq(Octet) /\ Len(Refresh) = 2 /\ Refresh[1] = 2
  BY DEF Refresh, Octet
<1>3. Tlv(2, << >>) = Refresh
  <2>1. Tlv(2, << >>) = <<2, 0>> \o << >>
    BY <1>1, Zenon DEF Tlv
  <2>2. QED
    BY <1>2, <2>1, ConcatEmptySeq, Zenon DEF Refresh
<1>4. First(Refresh, 2)[1] = 2
  BY <1>2 DEF First
<1>5. First(Refresh, 2) # <<65, 4>>
  BY <1>4
<1>6. IsTlv(Refresh)
  BY <1>1, <1>3, Zenon DEF IsTlv
<1>7. QED
  BY <1>2, <1>5, <1>6

LEMMA FourTlv ==
    ASSUME NEW asn \in Asn
    PROVE  IsTlv(Four(asn)) /\ Len(Four(asn)) = 6 /\ Four(asn) \in Data
<1> DEFINE value == AsU16(asn[1]) \o AsU16(asn[2])
<1>1. value \in Seq(Octet) /\ Len(value) = 4 /\ Four(asn) = Tlv(65, value)
  BY FourIs
<1> HIDE DEF value
<1>2. 65 \in Octet /\ Len(value) < 256
  BY <1>1 DEF Octet
<1>3. Tlv(65, value) \in Data /\ Len(Tlv(65, value)) = 2 + Len(value)
  BY <1>1, <1>2, TlvSized, ZenonT(60)
<1>4. Len(Four(asn)) = 2 + Len(value) /\ Four(asn) \in Data
  BY <1>1, <1>3, Zenon
<1>5. IsTlv(Four(asn))
  BY <1>1, <1>2, Zenon DEF IsTlv
<1>6. QED
  BY <1>1, <1>4, <1>5

(* A parameter with a list of capabilities, and one of another type.       *)
IsParameter(p, n, pieces) ==
    /\ IsTlv(p)
    /\ Len(p) = n + 2
    /\ pieces \in Seq(Data)
    /\ Capabilities(p) = [ok |-> TRUE, items |-> pieces]

LEMMA ParameterOf ==
    ASSUME NEW S, NEW pieces \in Seq(S), AreTlvs(pieces),
           NEW n \in 0..200, Len(FlattenSeq(pieces)) = n
    PROVE  IsParameter(Tlv(2, FlattenSeq(pieces)), n, pieces)
<1> DEFINE v == FlattenSeq(pieces)
<1>1. v \in Seq(Octet) /\ pieces \in Seq(Data)
  BY TlvsSplit, Zenon
<1>2. Len(v) < 256 /\ 2 \in Octet
  <2> DEFINE l == Len(v)
  <2>1. l = n
    OBVIOUS
  <2> HIDE DEF l
  <2>2. l < 256
    BY <2>1
  <2>3. QED
    BY <2>2 DEF l, Octet
<1>3. Capabilities(Tlv(2, v)) = [ok |-> TRUE, items |-> pieces]
  BY <1>2, CapabilitiesOf, Zenon
<1>4. Len(Tlv(2, v)) = 2 + Len(v)
  BY <1>1, <1>2, TlvSized, Zenon
<1>5. Len(Tlv(2, v)) = n + 2
  <2>1. Len(Tlv(2, v)) = 2 + n
    BY <1>4, Zenon
  <2> HIDE DEF v
  <2>2. QED
    BY <2>1
<1>6. IsTlv(Tlv(2, v))
  BY <1>1, <1>2, Zenon DEF IsTlv
<1>7. QED
  BY <1>1, <1>3, <1>5, <1>6, Zenon DEF IsParameter

Unknown == Tlv(1, <<65, 4, 9, 9, 9, 9>>)

LEMMA UnknownIs ==
    IsTlv(Unknown) /\ Len(Unknown) = 8 /\ Capabilities(Unknown) = [ok |-> TRUE, items |-> << >>]
<1> DEFINE v == <<65, 4, 9, 9, 9, 9>>
<1>1. v \in Seq(Octet) /\ Len(v) = 6 /\ Len(v) < 256 /\ 1 \in Octet
  BY DEF Octet
<1> HIDE DEF v
<1>2. Len(Tlv(1, v)) = 2 + Len(v) /\ Tlv(1, v)[1] = 1
  BY <1>1, TlvSized, Zenon
<1>3. Capabilities(Tlv(1, v)) = [ok |-> TRUE, items |-> << >>]
  BY <1>2 DEF Capabilities
<1>4. IsTlv(Tlv(1, v))
  BY <1>1, Zenon DEF IsTlv
<1>5. Len(Tlv(1, v)) = 8
  BY <1>1, <1>2
<1>6. QED
  BY <1>3, <1>4, <1>5 DEF Unknown, v

(* An OPEN as a peer arranges it: its parameters, their capabilities.      *)
Arranged(data, params, caps) ==
    /\ AreTlvs(params)
    /\ FlattenSeq(params) = data
    /\ Len(caps) = Len(params)
    /\ \A i \in DOMAIN params : Capabilities(params[i]) = [ok |-> TRUE, items |-> caps[i]]

LEMMA ArrangedRead ==
    ASSUME NEW two \in Half, NEW hold \in Half, NEW router \in [1..4 -> Octet],
           NEW S, NEW params \in Seq(S), NEW caps \in Seq(Seq(Data)), NEW data,
           Arranged(data, params, caps), NEW n \in 0..200, Len(data) = n,
           NEW all, all = FlattenSeq(caps)
    PROVE  ReadAs(two, hold, router, data, all)
<1>1. /\ AreTlvs(params) /\ FlattenSeq(params) = data /\ Len(caps) = Len(params)
      /\ \A i \in DOMAIN params : Capabilities(params[i]) = [ok |-> TRUE, items |-> caps[i]]
  BY Zenon DEF Arranged
<1>2. params \in Seq(Data) /\ Sized(params, SegmentSize(1))
  BY <1>1, TlvsSplit, Zenon
<1>3. Len(FlattenSeq(params)) < 256
  <2> DEFINE l == Len(FlattenSeq(params))
  <2>1. l = n
    BY <1>1, Zenon
  <2> HIDE DEF l
  <2>2. l < 256
    BY <2>1
  <2>3. QED
    BY <2>2 DEF l
<1>4. ReadAs(two, hold, router, FlattenSeq(params), all)
  BY <1>1, <1>2, <1>3, OpenRead, Zenon
<1>5. QED
  BY <1>1, <1>4, Zenon

(* The parameters `data` say `told`, whatever the AS number of two octets. *)
Says(data, two, told) ==
    \E params \in Seq(Data), caps \in Seq(Seq(Data)), n \in 0..200 :
        Arranged(data, params, caps) /\ Len(data) = n /\ Told(two, FlattenSeq(caps)) = told

(* One parameter with some capabilities, two parameters.                   *)
LEMMA OneParameter ==
    ASSUME NEW two, NEW S, NEW pieces \in Seq(S), AreTlvs(pieces),
           NEW n \in 0..100, Len(FlattenSeq(pieces)) = n
    PROVE  Says(Tlv(2, FlattenSeq(pieces)), two, Told(two, pieces))
<1> DEFINE p == Tlv(2, FlattenSeq(pieces))
           params == <<p>>
           caps == <<pieces>>
           Q == Seq(Data)
<1>1. n \in 0..200 /\ n + 2 \in 0..200
  OBVIOUS
<1>2. IsTlv(p) /\ Len(p) = n + 2 /\ pieces \in Seq(Data)
      /\ Capabilities(p) = [ok |-> TRUE, items |-> pieces]
  <2>1. IsTlv(p) /\ Len(p) = n + 2 /\ Capabilities(p) = [ok |-> TRUE, items |-> pieces]
    <3>1. IsParameter(p, n, pieces)
      BY <1>1, ParameterOf, Zenon
    <3>2. QED
      BY <3>1, Zenon DEF IsParameter
  <2>2. pieces \in Seq(Data)
    BY TlvsSplit, Zenon
  <2>3. QED
    BY <2>1, <2>2, Zenon
<1> HIDE DEF p
<1>3. AreTlvs(params) /\ FlattenSeq(params) = p
  BY <1>2, TlvsOne, Zenon
<1>4. params \in Seq(Data)
  BY <1>2, TlvIn
<1>5. FlattenSeq(caps) = pieces
  BY <1>2, FlattenOne
<1>6. caps \in Seq(Q)
  <2>1. pieces \in Q
    BY <1>2
  <2> HIDE DEF Q
  <2>2. QED
    BY <2>1
<1>7. Len(caps) = Len(params) /\ DOMAIN params = {1} /\ params[1] = p /\ caps[1] = pieces
  OBVIOUS
<1> HIDE DEF params, caps
<1>8. \A i \in DOMAIN params : Capabilities(params[i]) = [ok |-> TRUE, items |-> caps[i]]
  BY <1>2, <1>7
<1>9. Arranged(p, params, caps)
  BY <1>3, <1>7, <1>8, Zenon DEF Arranged
<1>10. QED
  BY <1>1, <1>2, <1>4, <1>5, <1>6, <1>9, ZenonT(60) DEF Says, p

LEMMA TwoParameters ==
    ASSUME NEW two, NEW p, NEW q, NEW a \in Seq(Data), NEW b \in Seq(Data), IsTlv(p), IsTlv(q),
           NEW m \in 0..100, NEW n \in 0..100, Len(p) = m, Len(q) = n,
           Capabilities(p) = [ok |-> TRUE, items |-> a],
           Capabilities(q) = [ok |-> TRUE, items |-> b]
    PROVE  Says(p \o q, two, Told(two, a \o b))
<1> DEFINE params == <<p, q>>
           caps == <<a, b>>
           Q == Seq(Data)
<1>1. AreTlvs(params) /\ FlattenSeq(params) = p \o q
  BY TlvsTwo, Zenon
<1>2. p \in Data /\ q \in Data /\ p \in Seq(Octet) /\ q \in Seq(Octet)
  BY TlvIn
<1>3. params \in Seq(Data)
  BY <1>2
<1>4. FlattenSeq(caps) = a \o b
  BY FlattenTwo, Zenon
<1>5. caps \in Seq(Q)
  <2>1. a \in Q /\ b \in Q
    OBVIOUS
  <2> HIDE DEF Q
  <2>2. QED
    BY <2>1
<1>6. Len(p \o q) = m + n /\ m + n \in 0..200
  BY <1>2, Concat
<1>7. /\ Len(caps) = Len(params) /\ DOMAIN params = {1, 2}
      /\ params[1] = p /\ caps[1] = a /\ params[2] = q /\ caps[2] = b
  OBVIOUS
<1> HIDE DEF params, caps
<1>8. \A i \in DOMAIN params : Capabilities(params[i]) = [ok |-> TRUE, items |-> caps[i]]
  BY <1>7
<1>9. Arranged(p \o q, params, caps)
  BY <1>1, <1>7, <1>8, Zenon DEF Arranged
<1>10. QED
  BY <1>3, <1>4, <1>5, <1>6, <1>9, ZenonT(60) DEF Says

LEMMA NoParameters ==
    ASSUME NEW two
    PROVE  Says(<< >>, two, [as4 |-> FALSE, asn |-> <<0, two>>])
<1>1. /\ << >> \in Seq(Data) /\ << >> \in Seq(Seq(Data)) /\ DOMAIN << >> = {}
      /\ Len(<< >>) = 0 /\ 0 \in 0..200
  OBVIOUS
<1>2. Arranged(<< >>, << >>, << >>)
  BY <1>1, TlvsNone, FlattenNone DEF Arranged
<1>3. Told(two, << >>) = [as4 |-> FALSE, asn |-> <<0, two>>]
  BY <1>1, ToldNever, Zenon
<1>4. QED
  BY <1>1, <1>2, <1>3, FlattenNone, Zenon DEF Says

(* The parameters of a peer, in terms of the above.                        *)
PeerParameters(peer) ==
    LET four == IF peer.wide THEN Four(peer.asn) ELSE << >>
    IN  CASE peer.layout = "bare" -> << >>
          [] peer.layout = "one" -> Tlv(2, Family \o four \o Refresh)
          [] peer.layout = "each" -> Tlv(2, four) \o Tlv(2, Family)
          [] OTHER -> Unknown \o Tlv(2, Family \o four)

Two(asn) == IF asn[1] = 0 THEN asn[2] ELSE 23456
InFull(peer) == peer.wide /\ peer.layout # "bare"

LEMMA EncodedOpenIs ==
    ASSUME NEW peer
    PROVE  EncodedOpen(peer) =
             OpenHead(Two(peer.asn), peer.hold, peer.router, Len(PeerParameters(peer)))
               \o PeerParameters(peer)
BY DEF EncodedOpen, OpenHead, PeerParameters, Two, Tlv, Four, Family, Refresh, Unknown

LEMMA PeerSays ==
    ASSUME NEW peer \in Peers, NEW two
    PROVE  Says(PeerParameters(peer), two,
                [as4 |-> InFull(peer), asn |-> IF InFull(peer) THEN peer.asn ELSE <<0, two>>])
<1> DEFINE four == Four(peer.asn)
           never == [as4 |-> FALSE, asn |-> <<0, two>>]
           once == [as4 |-> TRUE, asn |-> peer.asn]
           answer == [as4 |-> InFull(peer),
                      asn |-> IF InFull(peer) THEN peer.asn ELSE <<0, two>>]
<1>1. /\ peer.asn \in Asn /\ peer.wide \in BOOLEAN
      /\ peer.layout \in {"bare", "one", "each", "behind another"}
  BY PeersAssumption
<1>2. IsTlv(four) /\ Len(four) = 6 /\ four \in Data /\ First(four, 2) = <<65, 4>>
  BY <1>1, FourTlv, FourIs
<1>3. /\ IsTlv(Family) /\ Len(Family) = 6 /\ First(Family, 2) # <<65, 4>>
      /\ IsTlv(Refresh) /\ Len(Refresh) = 2 /\ First(Refresh, 2) # <<65, 4>>
  BY FamilyIs, RefreshIs
<1>4. Family \in Data /\ Refresh \in Data /\ Family \in Seq(Octet) /\ Refresh \in Seq(Octet)
      /\ four \in Seq(Octet)
  BY <1>2, <1>3, TlvIn
<1>5. Family \o << >> = Family
  BY <1>4
<1>14. (InFull(peer) => answer = once) /\ (~InFull(peer) => answer = never)
  <2>1. CASE InFull(peer)
    <3>1. InFull(peer) = TRUE
      BY <1>1, <2>1 DEF InFull
    <3>2. QED
      BY <2>1, <3>1, Zenon
  <2>2. CASE ~InFull(peer)
    <3>1. InFull(peer) = FALSE
      BY <1>1, <2>2 DEF InFull
    <3>2. QED
      BY <2>2, <3>1, Zenon
  <2>3. QED
    BY <2>1, <2>2, Zenon
<1> HIDE DEF four
<1>6. PICK q : q = Tlv(2, Family) /\ IsTlv(q) /\ Len(q) = 8
               /\ Capabilities(q) = [ok |-> TRUE, items |-> <<Family>>]
               /\ <<Family>> \in Seq(Data)
  <2>1. AreTlvs(<<Family>>) /\ FlattenSeq(<<Family>>) = Family
    BY <1>3, TlvsOne, Zenon
  <2>2. <<Family>> \in Seq(Data) /\ Len(FlattenSeq(<<Family>>)) = 6 /\ 6 \in 0..200
    BY <1>3, <1>4, <2>1, SMTT(60)
  <2>3. LET p == Tlv(2, FlattenSeq(<<Family>>))
        IN  /\ IsTlv(p)
            /\ Len(p) = 6 + 2
            /\ Capabilities(p) = [ok |-> TRUE, items |-> <<Family>>]
    <3>1. IsParameter(Tlv(2, FlattenSeq(<<Family>>)), 6, <<Family>>)
      BY <2>1, <2>2, ParameterOf, Zenon
    <3>2. QED
      BY <3>1, Zenon DEF IsParameter
  <2>4. 6 + 2 = 8
    OBVIOUS
  <2>5. QED
    BY <2>1, <2>2, <2>3, <2>4, Zenon
<1>7. CASE peer.layout = "bare"
  <2>1. PeerParameters(peer) = << >> /\ ~InFull(peer)
    BY <1>7 DEF PeerParameters, InFull
  <2>2. QED
    BY <1>14, <2>1, NoParameters, Zenon
<1>8. CASE peer.layout = "one" /\ peer.wide
  <2> DEFINE pieces == <<Family, four, Refresh>>
  <2> HIDE DEF four
  <2>1. AreTlvs(pieces) /\ FlattenSeq(pieces) = (Family \o four) \o Refresh
    <3>1. /\ pieces \in Seq(Data) /\ Len(pieces) = 3
          /\ pieces[1] = Family /\ pieces[2] = four /\ pieces[3] = Refresh
      BY <1>2, <1>4
    <3>2. IsTlv(Family) /\ IsTlv(four) /\ IsTlv(Refresh)
      BY <1>2, <1>3, Zenon
    <3> HIDE DEF pieces
    <3>3. IsTlv(pieces[1]) /\ IsTlv(pieces[2]) /\ IsTlv(pieces[3])
      BY <3>1, <3>2, Zenon
    <3>4. AreTlvs(pieces) /\ FlattenSeq(pieces) = (pieces[1] \o pieces[2]) \o pieces[3]
      BY <3>1, <3>3, TlvsThree, Zenon
    <3>5. QED
      BY <3>1, <3>4, Zenon
  <2>2. pieces \in Seq(Data)
    BY <1>2, <1>4
  <2>3. Len((Family \o four) \o Refresh) = 14
    <3>1. Family \o four \in Seq(Octet) /\ Len(Family \o four) = Len(Family) + Len(four)
      BY <1>4, Concat, Zenon
    <3>2. Len((Family \o four) \o Refresh) = Len(Family \o four) + Len(Refresh)
      BY <1>4, <3>1, Concat, Zenon
    <3> DEFINE l == Len(Family \o four)
               k == Len((Family \o four) \o Refresh)
    <3>3. l = Len(Family) + Len(four) /\ k = l + Len(Refresh)
      BY <3>1, <3>2, Zenon
    <3> HIDE DEF k, l
    <3>4. k = 14
      BY <1>2, <1>3, <3>3
    <3>5. QED
      BY <3>4 DEF k
  <2>4. Told(two, pieces) = once
    <3>1. /\ DOMAIN pieces = {1, 2, 3} /\ pieces[1] = Family /\ pieces[2] = four
          /\ pieces[3] = Refresh
      OBVIOUS
    <3> HIDE DEF pieces
    <3>2. 2 \in DOMAIN pieces /\ 2 \in Nat
          /\ \A i \in DOMAIN pieces : i # 2 => First(pieces[i], 2) # <<65, 4>>
      BY <1>3, <3>1
    <3>3. pieces[2] = Four(peer.asn)
      BY <3>1 DEF four
    <3>4. QED
      BY <1>1, <3>2, <3>3, ToldOnce, Zenon
  <2>5. Len(FlattenSeq(pieces)) = 14 /\ 14 \in 0..100
    <3>1. Len(FlattenSeq(pieces)) = 14
      BY <2>1, <2>3, Zenon
    <3>2. 14 \in 0..100
      OBVIOUS
    <3>3. QED
      BY <3>1, <3>2, Zenon
  <2>6. Says(Tlv(2, FlattenSeq(pieces)), two, Told(two, pieces))
    <3> HIDE DEF pieces
    <3> QED
      BY <2>1, <2>2, <2>5, OneParameter, Zenon
  <2>7. PeerParameters(peer) = Tlv(2, (Family \o four) \o Refresh) /\ InFull(peer)
    BY <1>8 DEF PeerParameters, InFull, four
  <2>8. QED
    BY <1>14, <2>1, <2>4, <2>6, <2>7, Zenon
<1>9. CASE peer.layout = "one" /\ ~peer.wide
  <2> DEFINE pieces == <<Family, Refresh>>
  <2>1. AreTlvs(pieces) /\ FlattenSeq(pieces) = Family \o Refresh
    BY <1>3, TlvsTwo, Zenon
  <2>2. pieces \in Seq(Data)
    BY <1>4
  <2>3. Len(Family \o Refresh) = 8
    <3>1. Len(Family \o Refresh) = Len(Family) + Len(Refresh)
      BY <1>4, Concat, Zenon
    <3> DEFINE l == Len(Family \o Refresh)
    <3>2. l = Len(Family) + Len(Refresh)
      BY <3>1, Zenon
    <3> HIDE DEF l
    <3>3. l = 8
      BY <1>3, <3>2
    <3>4. QED
      BY <3>3 DEF l
  <2>4. Told(two, pieces) = never
    <3>1. DOMAIN pieces = {1, 2} /\ pieces[1] = Family /\ pieces[2] = Refresh
      OBVIOUS
    <3> HIDE DEF pieces
    <3>2. \A i \in DOMAIN pieces : First(pieces[i], 2) # <<65, 4>>
      BY <1>3, <3>1
    <3>3. QED
      BY <3>2, ToldNever, Zenon
  <2>5. Len(FlattenSeq(pieces)) = 8 /\ 8 \in 0..100
    <3>1. Len(FlattenSeq(pieces)) = 8
      BY <2>1, <2>3, Zenon
    <3>2. 8 \in 0..100
      OBVIOUS
    <3>3. QED
      BY <3>1, <3>2, Zenon
  <2>6. Says(Tlv(2, FlattenSeq(pieces)), two, Told(two, pieces))
    <3> HIDE DEF pieces
    <3> QED
      BY <2>1, <2>2, <2>5, OneParameter, Zenon
  <2>7. PeerParameters(peer) = Tlv(2, (Family \o << >>) \o Refresh) /\ ~InFull(peer)
    BY <1>9 DEF PeerParameters, InFull
  <2>8. QED
    BY <1>5, <1>14, <2>1, <2>4, <2>6, <2>7, Zenon
<1>10. CASE peer.layout = "each" /\ peer.wide
  <2> HIDE DEF four
  <2>1. AreTlvs(<<four>>) /\ FlattenSeq(<<four>>) = four
    BY <1>2, TlvsOne, Zenon
  <2>2. <<four>> \in Seq(Data) /\ Len(FlattenSeq(<<four>>)) = 6 /\ 6 \in 0..200
    BY <1>2, <2>1
  <2>3. PICK p : p = Tlv(2, four) /\ IsTlv(p) /\ Len(p) = 8
                 /\ Capabilities(p) = [ok |-> TRUE, items |-> <<four>>]
    <3>1. LET p == Tlv(2, FlattenSeq(<<four>>))
          IN  /\ IsTlv(p)
              /\ Len(p) = 6 + 2
              /\ Capabilities(p) = [ok |-> TRUE, items |-> <<four>>]
      <4>1. IsParameter(Tlv(2, FlattenSeq(<<four>>)), 6, <<four>>)
        BY <2>1, <2>2, ParameterOf, Zenon
      <4>2. QED
        BY <4>1, Zenon DEF IsParameter
    <3>2. 6 + 2 = 8
      OBVIOUS
    <3>3. QED
      BY <2>1, <3>1, <3>2, SMT
  <2> DEFINE all == <<four>> \o <<Family>>
  <2>4. Says(p \o q, two, Told(two, all))
    <3>1. 8 \in 0..100 /\ <<four>> \in Seq(Data)
      BY <2>2
    <3> DEFINE a == <<four>>
               b == <<Family>>
    <3>2. IsTlv(p) /\ Len(p) = 8 /\ Capabilities(p) = [ok |-> TRUE, items |-> a]
      BY <2>3, Zenon
    <3>3. IsTlv(q) /\ Len(q) = 8 /\ Capabilities(q) = [ok |-> TRUE, items |-> b]
      BY <1>6, Zenon
    <3>4. a \in Seq(Data) /\ b \in Seq(Data)
      BY <1>6, <3>1, Zenon
    <3> HIDE DEF a, b
    <3>5. Says(p \o q, two, Told(two, a \o b))
      BY <3>1, <3>2, <3>3, <3>4, TwoParameters, ZenonT(60)
    <3>6. QED
      BY <3>5 DEF a, b
  <2>5. DOMAIN all = {1, 2} /\ all[1] = four /\ all[2] = Family
    OBVIOUS
  <2>6. Told(two, all) = once
    <3> HIDE DEF all
    <3>1. 1 \in DOMAIN all /\ 1 \in Nat
          /\ \A i \in DOMAIN all : i # 1 => First(all[i], 2) # <<65, 4>>
      BY <1>3, <2>5
    <3>2. all[1] = Four(peer.asn)
      BY <2>5 DEF four
    <3>3. QED
      BY <1>1, <3>1, <3>2, ToldOnce, Zenon
  <2>7. PeerParameters(peer) = p \o q /\ InFull(peer)
    BY <1>6, <1>10, <2>3 DEF PeerParameters, InFull, four
  <2> HIDE DEF all
  <2>8. QED
    BY <1>14, <2>4, <2>6, <2>7, Zenon
<1>11. CASE peer.layout = "each" /\ ~peer.wide
  <2>1. PICK p : p = Tlv(2, << >>) /\ IsTlv(p) /\ Len(p) = 2
                 /\ Capabilities(p) = [ok |-> TRUE, items |-> << >>]
    <3>1. LET p == Tlv(2, FlattenSeq(<< >>))
          IN  /\ IsTlv(p)
              /\ Len(p) = 0 + 2
              /\ Capabilities(p) = [ok |-> TRUE, items |-> << >>]
      <4>1. << >> \in Seq(Data) /\ Len(FlattenSeq(<< >>)) = 0 /\ 0 \in 0..200
        BY FlattenNone
      <4>2. QED
        <5>1. IsParameter(Tlv(2, FlattenSeq(<< >>)), 0, << >>)
          BY <4>1, TlvsNone, ParameterOf, Zenon
        <5>2. QED
          BY <5>1, Zenon DEF IsParameter
    <3>2. 0 + 2 = 2
      OBVIOUS
    <3>3. QED
      BY <3>1, <3>2, FlattenNone, SMT
  <2>2. Says(p \o q, two, Told(two, << >> \o <<Family>>))
    <3>1. 8 \in 0..100 /\ 2 \in 0..100 /\ << >> \in Seq(Data)
      OBVIOUS
    <3>2. QED
      BY <1>6, <2>1, <3>1, TwoParameters, ZenonT(60)
  <2>3. << >> \o <<Family>> = <<Family>>
    BY <1>6
  <2>4. Told(two, <<Family>>) = never
    <3>1. DOMAIN <<Family>> = {1} /\ <<Family>>[1] = Family
      OBVIOUS
    <3>2. \A i \in DOMAIN <<Family>> : First(<<Family>>[i], 2) # <<65, 4>>
      BY <1>3, <3>1
    <3>3. QED
      BY <3>2, ToldNever, Zenon
  <2>5. PeerParameters(peer) = p \o q /\ ~InFull(peer)
    BY <1>6, <1>11, <2>1 DEF PeerParameters, InFull
  <2>6. QED
    BY <1>14, <2>2, <2>3, <2>4, <2>5, Zenon
<1>12. CASE peer.layout = "behind another"
  <2> DEFINE pieces == IF peer.wide THEN <<Family, four>> ELSE <<Family>>
             value == IF peer.wide THEN Family \o four ELSE Family
             n == IF peer.wide THEN 12 ELSE 6
  <2>1. AreTlvs(pieces) /\ FlattenSeq(pieces) = value
    <3>1. AreTlvs(<<Family, four>>) /\ FlattenSeq(<<Family, four>>) = Family \o four
      BY <1>2, <1>3, TlvsTwo, Zenon
    <3>2. AreTlvs(<<Family>>) /\ FlattenSeq(<<Family>>) = Family
      BY <1>3, TlvsOne, Zenon
    <3>3. QED
      BY <3>1, <3>2, Zenon
  <2>2. pieces \in Seq(Data)
    <3> HIDE DEF four
    <3> QED
      BY <1>2, <1>4
  <2>3. Len(value) = n
    <3> HIDE DEF four
    <3>1. Len(Family \o four) = Len(Family) + Len(four)
      BY <1>4, Concat, Zenon
    <3> DEFINE l == Len(Family \o four)
    <3>2. l = Len(Family) + Len(four)
      BY <3>1, Zenon
    <3> HIDE DEF l
    <3>3. l = 12
      BY <1>2, <1>3, <3>2
    <3>4. QED
      BY <1>3, <3>3 DEF l
  <2>4. Told(two, pieces) = IF peer.wide THEN once ELSE never
    <3>1. CASE peer.wide
      <4> HIDE DEF four
      <4>1. /\ DOMAIN <<Family, four>> = {1, 2} /\ <<Family, four>>[1] = Family
            /\ <<Family, four>>[2] = four /\ pieces = <<Family, four>>
        BY <3>1
      <4> HIDE DEF pieces
      <4>2. 2 \in DOMAIN pieces /\ 2 \in Nat
            /\ \A i \in DOMAIN pieces : i # 2 => First(pieces[i], 2) # <<65, 4>>
        BY <1>3, <4>1
      <4>3. pieces[2] = Four(peer.asn)
        BY <4>1 DEF four
      <4>4. Told(two, pieces) = once
        BY <1>1, <4>2, <4>3, ToldOnce, Zenon
      <4>5. QED
        BY <3>1, <4>4, Zenon
    <3>2. CASE ~peer.wide
      <4>1. DOMAIN <<Family>> = {1} /\ <<Family>>[1] = Family /\ pieces = <<Family>>
        BY <3>2
      <4> HIDE DEF pieces
      <4>2. \A i \in DOMAIN pieces : First(pieces[i], 2) # <<65, 4>>
        BY <1>3, <4>1
      <4>3. Told(two, pieces) = never
        BY <4>2, ToldNever, Zenon
      <4>4. QED
        BY <3>2, <4>3, Zenon
    <3>3. QED
      BY <3>1, <3>2, Zenon
  <2>5. n \in 0..200 /\ n + 2 \in 0..100
    OBVIOUS
  <2> HIDE DEF pieces, n
  <2>6. LET p == Tlv(2, FlattenSeq(pieces))
        IN  /\ IsTlv(p)
            /\ Len(p) = n + 2
            /\ Capabilities(p) = [ok |-> TRUE, items |-> pieces]
    <3>1. Len(FlattenSeq(pieces)) = n
      BY <2>1, <2>3, Zenon
    <3>2. QED
      <4>1. n \in 0..200 /\ pieces \in Seq(Data) /\ AreTlvs(pieces)
        BY <2>1, <2>2, <2>5, Zenon
      <4>2. IsParameter(Tlv(2, FlattenSeq(pieces)), n, pieces)
        BY <3>1, <4>1, ParameterOf, Zenon
      <4>3. QED
        BY <4>2, Zenon DEF IsParameter
  <2>7. Says(Unknown \o Tlv(2, value), two, Told(two, << >> \o pieces))
    <3>1. 8 \in 0..100 /\ << >> \in Seq(Data)
      OBVIOUS
    <3> HIDE DEF value
    <3>2. QED
      <4> DEFINE p == Tlv(2, value)
      <4>1. IsTlv(p) /\ Len(p) = n + 2 /\ Capabilities(p) = [ok |-> TRUE, items |-> pieces]
        BY <2>1, <2>6, Zenon
      <4> DEFINE l == n + 2
                 none == << >>
      <4>2. l \in 0..100 /\ Len(p) = l /\ none \in Seq(Data)
        BY <2>5, <3>1, <4>1, Zenon
      <4>3. IsTlv(Unknown) /\ Len(Unknown) = 8
            /\ Capabilities(Unknown) = [ok |-> TRUE, items |-> none]
        BY UnknownIs, Zenon
      <4> HIDE DEF p, l, none
      <4>4. Says(Unknown \o p, two, Told(two, none \o pieces))
        BY <2>2, <3>1, <4>1, <4>2, <4>3, TwoParameters, ZenonT(60)
      <4>5. QED
        BY <4>4, Zenon DEF p, none
  <2>8. << >> \o pieces = pieces
    BY <2>2
  <2>9. PeerParameters(peer) = Unknown \o Tlv(2, value)
    <3>1. CASE peer.wide
      BY <1>12, <3>1 DEF PeerParameters, four
    <3>2. CASE ~peer.wide
      BY <1>5, <1>12, <3>2 DEF PeerParameters
    <3>3. QED
      BY <3>1, <3>2, Zenon
  <2>10. InFull(peer) <=> peer.wide
    BY <1>12 DEF InFull
  <2> HIDE DEF value
  <2>11. Says(PeerParameters(peer), two, IF peer.wide THEN once ELSE never)
    BY <2>4, <2>7, <2>8, <2>9, Zenon
  <2>12. QED
    <3>1. CASE peer.wide
      BY <1>14, <2>10, <2>11, <3>1, Zenon
    <3>2. CASE ~peer.wide
      BY <1>14, <2>10, <2>11, <3>2, Zenon
    <3>3. QED
      BY <3>1, <3>2, Zenon
<1>13. QED
  BY <1>1, <1>7, <1>8, <1>9, <1>10, <1>11, <1>12, Zenon

LEMMA PeerRead ==
    ASSUME NEW peer \in Peers
    PROVE  LET body == EncodedOpen(peer)
               told == IF InFull(peer) THEN peer.asn ELSE <<0, Two(peer.asn)>>
           IN  /\ body \in Seq(Octet) /\ Len(body) < 256
               /\ Open(body) = IF peer.hold \in {1, 2} THEN Malformed
                               ELSE [ok |-> TRUE, hold |-> peer.hold, router |-> peer.router,
                                     as4 |-> InFull(peer), asn |-> told]
<1> DEFINE data == PeerParameters(peer)
           two == Two(peer.asn)
           told == IF InFull(peer) THEN peer.asn ELSE <<0, two>>
           both == [as4 |-> InFull(peer), asn |-> told]
           body == OpenHead(two, peer.hold, peer.router, Len(data)) \o data
<1>1. peer.asn \in Asn /\ peer.hold \in Half /\ peer.router \in [1..4 -> Octet]
  BY PeersAssumption
<1>2. two \in Half
  <2>1. peer.asn[2] \in Half
    BY <1>1 DEF Asn
  <2>2. 23456 \in Half
    BY DEF Half
  <2>3. two = 23456 \/ two = peer.asn[2]
    BY DEF Two
  <2> HIDE DEF two
  <2>4. QED
    BY <2>1, <2>2, <2>3
<1>3. Says(data, two, both)
  BY PeerSays, Zenon
<1> HIDE DEF data, two, told, body
<1>4. PICK params \in Seq(Data), caps \in Seq(Seq(Data)), n \in 0..200 :
          Arranged(data, params, caps) /\ Len(data) = n /\ Told(two, FlattenSeq(caps)) = both
  BY <1>3, Zenon DEF Says
<1>5. ReadAs(two, peer.hold, peer.router, data, FlattenSeq(caps))
  BY <1>1, <1>2, <1>4, ArrangedRead, ZenonT(60)
<1>6. Open(body) = IF peer.hold \in {1, 2} THEN Malformed
                   ELSE [ok |-> TRUE, hold |-> peer.hold, router |-> peer.router,
                         as4 |-> both.as4, asn |-> both.asn]
  BY <1>4, <1>5, Zenon DEF ReadAs, body
<1>7. both.as4 = InFull(peer) /\ both.asn = told
  OBVIOUS
<1>8. data \in Seq(Octet)
  <2>1. params \in Seq(Seq(Octet))
    <3>1. Data \subseteq Seq(Octet)
      BY DEF Data
    <3>2. QED
      BY <3>1, <1>4, SeqMonotonic
  <2>2. QED
    BY <1>4, <2>1, FlattenIn DEF Arranged
<1>9. body \in Seq(Octet) /\ Len(body) = 10 + Len(data)
  <2>1. Len(data) < 256
    BY <1>4
  <2>2. QED
    BY <1>1, <1>2, <1>8, <2>1, OpenHeadRead, ZenonT(60) DEF body
<1>10. Len(body) < 256
  BY <1>4, <1>9
<1>11. EncodedOpen(peer) = body
  BY EncodedOpenIs, Zenon DEF body, two, data
<1>12. QED
  BY <1>6, <1>7, <1>9, <1>10, <1>11, Zenon DEF told, two

LEMMA OpenMessage ==
    ASSUME NEW body \in Seq(Octet), Len(body) < 256
    PROVE  Header(First(Message(1, body), 19)) = [ok |-> TRUE, kind |-> 1, length |-> Len(body)]
<1> DEFINE n == Len(body) + 19
           l == Len(body)
           m == Marker \o AsU16(n)
           one == <<1>>
           t == AsU16(n) \o one
           head == m \o one
<1>1. n \in Half /\ n \in 19..4096 /\ n - 19 = l
  <2>1. l \in Nat
    BY LenProperties, Zenon
  <2>2. l < 256 /\ n = l + 19
    BY Zenon
  <2> HIDE DEF l, n
  <2>3. n \in 19..4096 /\ n - 19 = l
    BY <2>1, <2>2
  <2>4. QED
    BY <2>3, SMTT(60) DEF Half
<1> HIDE DEF l, n
<1>2. AsU16(n) \in Seq(Octet) /\ Len(AsU16(n)) = 2
  BY <1>1, HalfOf
<1>3. Marker \in Seq(Octet) /\ Len(Marker) = 16
  <2>1. 255 \in Octet /\ 16 \in Nat
    BY DEF Octet
  <2>2. Marker \in [1..16 -> Octet]
    BY <2>1 DEF Marker
  <2>3. QED
    BY <2>1, <2>2, SeqOfFunction, ZenonT(60)
<1>4. one \in Seq(Octet) /\ Len(one) = 1 /\ one[1] = 1
  BY DEF Octet
<1> HIDE DEF one
<1>5. m \in Seq(Octet) /\ Len(m) = 18
  <2>1. m \in Seq(Octet) /\ Len(m) = Len(Marker) + Len(AsU16(n))
    BY <1>2, <1>3, Concat, Zenon
  <2> HIDE DEF m
  <2>2. QED
    BY <1>2, <1>3, <2>1
<1>6. head = Marker \o t
  BY <1>2, <1>3, <1>4, Joined, ZenonT(60)
<1>7. t \in Seq(Octet)
  BY <1>2, <1>4, Concat, Zenon
<1>8. U16(t) = n
  <2>1. n \in Half
    BY <1>1
  <2>2. QED
    BY <2>1, <1>4, HalfRead, Zenon
<1> HIDE DEF m, t
<1>9. head \in Seq(Octet) /\ Len(head) = 19 /\ head[19] = 1
  <2>1. head \in Seq(Octet) /\ Len(head) = Len(m) + Len(one)
        /\ \A i \in 1..Len(one) : head[Len(m) + i] = one[i]
    BY <1>4, <1>5, Concat, Zenon
  <2> HIDE DEF head
  <2>2. head[Len(m) + 1] = 1
    BY <1>4, <2>1
  <2>3. QED
    BY <1>4, <1>5, <2>1, <2>2
<1> HIDE DEF head
<1>10. First(head, 16) = Marker /\ After(head, 16) = t
  <2>1. First(Marker \o t, Len(Marker)) = Marker /\ After(Marker \o t, Len(Marker)) = t
    BY <1>3, <1>7, FirstOf, AfterOf, Zenon
  <2>2. QED
    BY <1>3, <1>6, <2>1, Zenon
<1>11. First(Message(1, body), 19) = head
  <2>1. Message(1, body) = head \o body
    BY Zenon DEF Message, head, m, n, one
  <2>2. First(head \o body, Len(head)) = head
    BY <1>9, FirstOf, Zenon
  <2>3. QED
    BY <1>9, <2>1, <2>2, Zenon
<1>12. Header(head) = [ok |-> TRUE, kind |-> 1, length |-> l]
  <2> DEFINE f == First(head, 16)
             u == U16(After(head, 16))
  <2>1. u = n /\ f = Marker /\ head[19] = 1 /\ Len(head) = 19
    BY <1>8, <1>9, <1>10, Zenon
  <2> DEFINE bad == Len(head) # 19 \/ f # Marker \/ u \notin 19..4096
             k == u - 19
  <2>2. Header(head) = IF bad THEN Malformed
                       ELSE [ok |-> TRUE, kind |-> head[19], length |-> k]
    BY DEF Header
  <2> HIDE DEF f, u
  <2>3. ~bad /\ k = l
    BY <1>1, <2>1
  <2> HIDE DEF bad, k
  <2>4. QED
    BY <2>1, <2>2, <2>3, Zenon
<1>13. QED
  BY <1>11, <1>12, Zenon DEF l

(* The two sides agree after the exchange of OPENs, for every AS number,   *)
(* hold time, router and arrangement of the parameters.                    *)
THEOREM OpensAgree == Spec => []OpenAgreed
<1>1. Init => OpenAgreed
  BY DEF Init, OpenAgreed
<1>2. OpenAgreed /\ [Next]_vars => OpenAgreed'
  <2> SUFFICES ASSUME OpenAgreed, [Next]_vars
               PROVE  OpenAgreed'
    OBVIOUS
  <2>1. CASE SendOpen
    <3>1. PICK peer \in Peers, config \in Configs :
            LET body == EncodedOpen(peer)
                own == BuildOpen(config.asn, config.hold, config.router)
            IN  /\ sent' = [peer |-> peer, config |-> config]
                /\ received' = [header |-> Header(First(Message(1, body), 19)),
                                size |-> Len(body), peer |-> Open(body),
                                own |-> Open(own), two |-> U16(After(own, 1))]
      BY <2>1, Zenon DEF SendOpen
    <3> DEFINE body == EncodedOpen(peer)
               own == BuildOpen(config.asn, config.hold, config.router)
    <3>2. sent'.peer = peer /\ sent'.config = config
      BY <3>1
    <3>3. /\ received'.header = Header(First(Message(1, body), 19))
          /\ received'.size = Len(body) /\ received'.peer = Open(body)
          /\ received'.own = Open(own) /\ received'.two = U16(After(own, 1))
      BY <3>1
    <3>4. received'.header = [ok |-> TRUE, kind |-> 1, length |-> received'.size]
      BY <3>3, PeerRead, OpenMessage, Zenon
    <3>5. /\ config.asn \in Asn /\ config.hold \in Half /\ config.hold \notin {1, 2}
          /\ config.router \in [1..4 -> Octet]
      BY ConfigsAssumption
    <3>6. /\ received'.two = Folded(config.asn)
          /\ received'.own = [ok |-> TRUE, asn |-> config.asn, hold |-> config.hold,
                              router |-> config.router, as4 |-> TRUE]
      BY <3>3, <3>5, OwnRead, Zenon
    <3>7. Folded(config.asn) = Two(config.asn)
      <4>1. config.asn[1] \in Half
        BY <3>5, ZenonT(60) DEF Asn
      <4> DEFINE x == config.asn[1]
                 trans == 23456
      <4>2. x > 0 <=> x # 0
        <5>1. x \in Half
          BY <4>1
        <5> HIDE DEF x
        <5>2. QED
          BY <5>1, SMTT(60) DEF Half
      <4>3. /\ Folded(config.asn) = IF x > 0 THEN trans ELSE config.asn[2]
            /\ Two(config.asn) = IF x = 0 THEN config.asn[2] ELSE trans
        BY DEF Folded, Two
      <4> HIDE DEF x, trans
      <4>4. CASE x = 0
        BY <4>2, <4>3, <4>4
      <4>5. CASE x # 0
        BY <4>2, <4>3, <4>5
      <4>6. QED
        BY <4>4, <4>5, Zenon
    <3>8. received'.peer = IF peer.hold \in {1, 2} THEN Malformed
                           ELSE [ok |-> TRUE, hold |-> peer.hold, router |-> peer.router,
                                 as4 |-> InFull(peer),
                                 asn |-> IF InFull(peer) THEN peer.asn ELSE <<0, Two(peer.asn)>>]
      BY <3>3, PeerRead, Zenon
    <3> HIDE DEF body, own
    <3>9. QED
      BY <3>2, <3>4, <3>6, <3>7, <3>8 DEF OpenAgreed, Two, InFull
  <2>2. CASE BeginUpdate \/ PutPart \/ SendUpdate \/ Lookup
    <3>1. stage' # "open"
      BY <2>2 DEF BeginUpdate, PutPart, SendUpdate, Lookup
    <3>2. QED
      BY <3>1 DEF OpenAgreed
  <2>3. CASE UNCHANGED vars
    BY <2>3 DEF OpenAgreed, vars
  <2>4. QED
    BY <2>1, <2>2, <2>3 DEF Next
<1>3. QED
  BY <1>1, <1>2, PTL DEF Spec

=============================================================================

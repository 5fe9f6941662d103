----------------------------- MODULE PageProofs -----------------------------
(***************************************************************************)
(* Theorems about EventStream and about the pages that read it, Page, for  *)
(* any limits, any sizes of the events, any number of streams and pages.   *)
(*                                                                         *)
(* The account of the history is a sum that is kept across evictions; its  *)
(* recount, Bytes, folds + over a sequence.  A sum of natural numbers is   *)
(* the cardinality of an area, and cardinalities add up: that is how the   *)
(* recount is reasoned about here.                                         *)
(***************************************************************************)
EXTENDS Page, FiniteSetTheorems, SequenceTheorems, FunctionTheorems, TLAPS

-----------------------------------------------------------------------------
(* Least elements.                                                         *)

LEMMA LeastSubset ==
    ASSUME NEW S, IsFiniteSet(S), NEW T \in SUBSET SUBSET S, T # {}
    PROVE  \E A \in T : \A B \in T : B \subseteq A => B = A
<1>1. /\ IsWellFoundedOn(StrictSubsetOrdering(S), FiniteSubsetsOf(S))
      /\ FiniteSubsetsOf(S) = SUBSET S
  BY FS_StrictSubsetOrderingWellFounded, FS_FiniteSubsetsOfFinite
<1>2. \E A \in T : \A B \in T : ~(<<B, A>> \in StrictSubsetOrdering(S))
  BY <1>1, WFMin
<1> QED BY <1>2 DEF StrictSubsetOrdering

LEMMA LeastNumber ==
    ASSUME NEW S \in SUBSET Nat, S # {}
    PROVE  Min(S) \in S /\ \A y \in S : Min(S) <= y
<1>1. PICK top \in S : TRUE
  OBVIOUS
<1> DEFINE Below == {y \in S : y <= top}
           All == 0..top
           T == {0..y : y \in Below}
<1>2. T \in SUBSET SUBSET All /\ T # {} /\ IsFiniteSet(All)
  <2>1. \A y \in Below : 0..y \in SUBSET All
    BY <1>1
  <2>2. top \in Below /\ IsFiniteSet(All)
    BY <1>1, FS_Interval
  <2> QED BY <2>1, <2>2
<1>3. PICK x \in S : /\ x <= top
                    /\ \A y \in S : y <= top /\ 0..y \subseteq 0..x => 0..y = 0..x
  <2>1. PICK A \in T : \A B \in T : B \subseteq A => B = A
    <3> HIDE DEF T, All
    <3> QED BY <1>2, LeastSubset
  <2>2. PICK x \in Below : A = 0..x
    OBVIOUS
  <2>3. \A y \in Below : 0..y \subseteq 0..x => 0..y = 0..x
    BY <2>1, <2>2
  <2> QED BY <2>3
<1>4. \A y \in S : x <= y
  <2> SUFFICES ASSUME NEW y \in S, y < x PROVE FALSE
    OBVIOUS
  <2>1. 0..y = 0..x
    BY <1>1, <1>3
  <2>2. x \in 0..x /\ ~(x \in 0..y)
    OBVIOUS
  <2> QED BY <2>1, <2>2
<1> QED BY <1>4 DEF Min

-----------------------------------------------------------------------------
(* The sum as the cardinality of an area.                                  *)

Area(f, s) == UNION {{i} \X (1..f[i]) : i \in s}

LEMMA AreaOfOne ==
    ASSUME NEW i, NEW n \in Nat
    PROVE  /\ IsFiniteSet({i} \X (1..n))
           /\ Cardinality({i} \X (1..n)) = n
<1>1. IsFiniteSet(1..n) /\ Cardinality(1..n) = n
  <2>1. /\ IsFiniteSet(1..n)
        /\ Cardinality(1..n) = IF 1 > n THEN 0 ELSE n - 1 + 1
    BY FS_Interval
  <2> QED BY <2>1
<1>3. IsFiniteSet({i}) /\ Cardinality({i}) = 1
  BY FS_Singleton
<1>2. /\ IsFiniteSet({i} \X (1..n))
      /\ Cardinality({i} \X (1..n)) = Cardinality({i}) * Cardinality(1..n)
  BY <1>1, <1>3, FS_Product
<1> QED BY <1>1, <1>3, <1>2

(* Taking an index away takes its size away.                               *)
LEMMA AreaWithout ==
    ASSUME NEW S, IsFiniteSet(S), NEW f \in [S -> Nat]
    PROVE  \A s \in SUBSET S :
              /\ IsFiniteSet(Area(f, s)) /\ Cardinality(Area(f, s)) \in Nat
              /\ \A i \in s : Cardinality(Area(f, s)) = f[i] + Cardinality(Area(f, s \ {i}))
<1>1. ASSUME NEW s \in SUBSET S, NEW i \in s, IsFiniteSet(Area(f, s \ {i}))
      PROVE  /\ IsFiniteSet(Area(f, s))
             /\ Cardinality(Area(f, s)) = f[i] + Cardinality(Area(f, s \ {i}))
  <2> DEFINE own == {i} \X (1..f[i])
             rest == Area(f, s \ {i})
  <2>1. Area(f, s) = rest \cup own
    BY DEF Area
  <2>2. rest \cap own = {}
    BY DEF Area
  <2>3. f[i] \in Nat /\ IsFiniteSet(own) /\ Cardinality(own) = f[i]
    BY AreaOfOne
  <2> HIDE DEF own, rest
  <2>4. /\ IsFiniteSet(rest \cup own)
        /\ Cardinality(rest \cup own) =
             Cardinality(rest) + Cardinality(own) - Cardinality(rest \cap own)
    BY <1>1, <2>3, FS_Union DEF rest
  <2>5. Cardinality(rest \cap own) = 0 /\ Cardinality(rest) \in Nat
    BY <1>1, <2>2, FS_EmptySet, FS_CardinalityType DEF rest
  <2> QED BY <2>1, <2>3, <2>4, <2>5 DEF rest
<1>2. \A s \in SUBSET S : IsFiniteSet(Area(f, s))
  <2> DEFINE T == {s \in SUBSET S : ~IsFiniteSet(Area(f, s))}
  <2>1. SUFFICES ASSUME T # {} PROVE FALSE
    OBVIOUS
  <2>2. PICK s \in T : \A r \in T : r \subseteq s => r = s
    <3>1. T \in SUBSET SUBSET S
      OBVIOUS
    <3> HIDE DEF T
    <3> QED BY <2>1, <3>1, LeastSubset
  <2>3. CASE s = {}
    <3>1. Area(f, s) = {}
      BY <2>3 DEF Area
    <3> QED BY <3>1, FS_EmptySet
  <2>4. CASE s # {}
    <3>1. PICK i \in s : TRUE
      BY <2>4
    <3>2. IsFiniteSet(Area(f, s \ {i}))
      BY <2>2
    <3> QED BY <1>1, <3>2
  <2> QED BY <2>3, <2>4
<1>3. \A s \in SUBSET S : Cardinality(Area(f, s)) \in Nat
  BY <1>2, FS_CardinalityType
<1> QED BY <1>1, <1>2, <1>3

(* What FoldFunction computes for a sum.                                   *)
LEMMA SumIsArea ==
    ASSUME NEW S, IsFiniteSet(S), NEW f \in [S -> Nat]
    PROVE  Bytes(f) = Cardinality(Area(f, S))
<1> DEFINE pick(s) == CHOOSE x \in s : TRUE
           body(g, s) == IF s = {} THEN 0 ELSE f[pick(s)] + g[s \ {pick(s)}]
           iter == CHOOSE g : g = [s \in SUBSET S |-> body(g, s)]
           size == [s \in SUBSET S |-> Cardinality(Area(f, s))]
<1>1. Bytes(f) = iter[S]
  BY DEF Bytes, FoldFunction, FoldFunctionOnSet, MapThenFoldSet
<1>2. \A s \in SUBSET S : s # {} => pick(s) \in s /\ s \ {pick(s)} \in SUBSET S
  OBVIOUS
<1> HIDE DEF pick
<1>3. size = [s \in SUBSET S |-> body(size, s)]
  <2>1. \A s \in SUBSET S : size[s] = body(size, s)
    <3> TAKE s \in SUBSET S
    <3>1. CASE s = {}
      <4>1. Area(f, s) = {}
        BY <3>1 DEF Area
      <4> QED BY <3>1, <4>1, FS_EmptySet
    <3>2. CASE s # {}
      BY <1>2, <3>2, AreaWithout
    <3> QED BY <3>1, <3>2
  <2> QED BY <2>1
<1> HIDE DEF size
<1>4. iter = [s \in SUBSET S |-> body(iter, s)]
  BY <1>3
<1> HIDE DEF iter
<1>5. \A s \in SUBSET S : iter[s] = size[s]
  <2> DEFINE T == {s \in SUBSET S : iter[s] # size[s]}
  <2>1. SUFFICES ASSUME T # {} PROVE FALSE
    OBVIOUS
  <2>2. PICK s \in T : \A r \in T : r \subseteq s => r = s
    <3>1. T \in SUBSET SUBSET S
      OBVIOUS
    <3> HIDE DEF T
    <3> QED BY <2>1, <3>1, LeastSubset
  <2>3. iter[s] = body(iter, s) /\ size[s] = body(size, s)
    BY <1>3, <1>4
  <2>4. CASE s = {}
    BY <2>3, <2>4
  <2>5. CASE s # {}
    <3>1. pick(s) \in s /\ s \ {pick(s)} \in SUBSET S
      BY <1>2, <2>5
    <3>2. iter[s \ {pick(s)}] = size[s \ {pick(s)}]
      BY <2>2, <3>1
    <3> QED BY <2>3, <2>5, <3>2
  <2> QED BY <2>4, <2>5
<1> QED BY <1>1, <1>5 DEF size

-----------------------------------------------------------------------------
(* Sums of sequences.                                                      *)

LEMMA SumOfNone == Bytes(<< >>) = 0
<1>1. << >> \in [{} -> Nat] /\ IsFiniteSet({}) /\ Cardinality({}) = 0
  BY FS_EmptySet
<1>2. Bytes(<< >>) = Cardinality(Area(<< >>, {}))
  BY <1>1, SumIsArea
<1>3. Area(<< >>, {}) = {}
  BY DEF Area
<1> QED BY <1>1, <1>2, <1>3

LEMMA SumType ==
    ASSUME NEW f \in Seq(Nat)
    PROVE  Bytes(f) \in Nat /\ IsFiniteSet(Area(f, 1..Len(f)))
                            /\ Bytes(f) = Cardinality(Area(f, 1..Len(f)))
<1> DEFINE S == 1..Len(f)
<1>1. IsFiniteSet(S) /\ f \in [S -> Nat] /\ S \in SUBSET S
  BY FS_Interval
<1> HIDE DEF S
<1>2. Bytes(f) = Cardinality(Area(f, S))
  BY <1>1, SumIsArea
<1>3. IsFiniteSet(Area(f, S)) /\ Cardinality(Area(f, S)) \in Nat
  BY <1>1, AreaWithout
<1> QED BY <1>2, <1>3 DEF S

(* A sequence cut in two: the area of the second part, moved by k, is what *)
(* the first leaves of the whole.                                          *)
LEMMA SumOfParts ==
    ASSUME NEW f \in Seq(Nat), NEW k \in 0..Len(f)
    PROVE  Bytes(f) = Bytes(SubSeq(f, 1, k)) + Bytes(Rest(f, k))
<1> DEFINE g == SubSeq(f, 1, k)
           h == Rest(f, k)
           A == Area(g, 1..k)
           B == Area(h, 1..Len(f) - k)
           C == Area(f, k + 1..Len(f))
           move == [p \in B |-> <<p[1] + k, p[2]>>]
<1>1. /\ g \in Seq(Nat) /\ Len(g) = k /\ \A i \in 1..k : g[i] = f[i]
      /\ h \in Seq(Nat) /\ Len(h) = Len(f) - k
      /\ \A i \in 1..Len(f) - k : h[i] = f[i + k]
  BY DEF Rest
<1>2. /\ IsFiniteSet(A) /\ Bytes(g) = Cardinality(A)
      /\ IsFiniteSet(B) /\ Bytes(h) = Cardinality(B) /\ Bytes(f) = Cardinality(Area(f, 1..Len(f)))
  BY <1>1, SumType
<1>3. A = Area(f, 1..k)
  BY <1>1 DEF Area
<1>4. Area(f, 1..Len(f)) = A \cup C /\ A \cap C = {}
  <2>1. 1..Len(f) = (1..k) \cup (k + 1..Len(f)) /\ (1..k) \cap (k + 1..Len(f)) = {}
    OBVIOUS
  <2> QED BY <1>3, <2>1 DEF Area
<1>5. IsFiniteSet(C) /\ Cardinality(C) = Cardinality(B)
  <2>1. move \in Bijection(B, C)
    <3>1. \A p \in B : p[1] \in 1..Len(f) - k /\ p[2] \in 1..f[p[1] + k] /\ p = <<p[1], p[2]>>
      <4> TAKE p \in B
      <4>1. PICK i \in 1..Len(f) - k : p \in {i} \X (1..h[i])
        BY DEF Area
      <4>2. p[1] = i /\ p[2] \in 1..h[i] /\ p = <<p[1], p[2]>>
        BY <4>1
      <4> QED BY <1>1, <4>2
    <3>2. \A i \in k + 1..Len(f) : \A j \in 1..f[i] :
             i - k \in 1..Len(f) - k /\ <<i - k, j>> \in B
      <4> TAKE i \in k + 1..Len(f)
      <4>1. i - k \in 1..Len(f) - k
        OBVIOUS
      <4>2. h[i - k] = f[(i - k) + k] /\ (i - k) + k = i
        BY <1>1, <4>1, SMTT(60)
      <4> QED BY <4>1, <4>2, SMTT(60) DEF Area
    <3>3. move \in [B -> C]
      <4>1. \A p \in B : p[1] + k \in k + 1..Len(f)
        BY <3>1, SMTT(60)
      <4> QED BY <3>1, <4>1, SMTT(60) DEF Area
    <3>4. \A p, q \in B : move[p] = move[q] => p = q
      <4> SUFFICES ASSUME NEW p \in B, NEW q \in B, move[p] = move[q] PROVE p = q
        OBVIOUS
      <4>1. p[1] + k = q[1] + k /\ p[2] = q[2]
        OBVIOUS
      <4>2. p[1] = q[1]
        BY <3>1, <4>1
      <4> QED BY <3>1, <4>1, <4>2
    <3>5. \A c \in C : \E p \in B : move[p] = c
      <4> TAKE c \in C
      <4>1. PICK i \in k + 1..Len(f) : c \in {i} \X (1..f[i])
        BY DEF Area
      <4> PICK j \in 1..f[i] : c = <<i, j>>
        BY <4>1
      <4>2. <<i - k, j>> \in B /\ (i - k) + k = i
        BY <3>2
      <4> QED BY <4>1, <4>2
    <3> HIDE DEF move, B, C
    <3> QED BY <3>3, <3>4, <3>5, Fun_IsBij
  <2> HIDE DEF move, B, C
  <2> QED BY <1>2, <2>1, FS_Bijection DEF ExistsBijection
<1> HIDE DEF A, B, C
<1>6. Cardinality(A \cup C) = Cardinality(A) + Cardinality(C) - Cardinality(A \cap C)
  BY <1>2, <1>5, FS_Union
<1>7. Cardinality(A \cap C) = 0 /\ Cardinality(A) \in Nat /\ Cardinality(C) \in Nat
  BY <1>2, <1>4, <1>5, FS_EmptySet, FS_CardinalityType
<1>8. Bytes(f) = Cardinality(A \cup C) /\ Cardinality(B) = Bytes(h)
  BY <1>2, <1>4
<1> HIDE DEF g, h
<1>9. Bytes(f) = Bytes(g) + Bytes(h)
  BY <1>2, <1>5, <1>6, <1>7, <1>8
<1> QED BY <1>9 DEF g, h

LEMMA SumOfMore ==
    ASSUME NEW f \in Seq(Nat), NEW size \in Nat
    PROVE  Bytes(Append(f, size)) = Bytes(f) + size
<1> DEFINE g == Append(f, size)
           n == Len(f) + 1
           S == 1..n
<1>1. /\ g \in [S -> Nat] /\ IsFiniteSet(S) /\ n \in S /\ S \in SUBSET S
      /\ g[n] = size /\ S \ {n} = 1..Len(f) /\ g \in Seq(Nat) /\ Len(g) = n
      /\ \A i \in 1..Len(f) : g[i] = f[i]
  <2>1. IsFiniteSet(S) /\ n \in S /\ S \in SUBSET S /\ S \ {n} = 1..Len(f)
    BY FS_Interval
  <2>2. /\ g \in Seq(Nat) /\ Len(g) = n /\ g[n] = size
        /\ \A i \in 1..Len(f) : g[i] = f[i]
    OBVIOUS
  <2>3. g \in [S -> Nat]
    <3> HIDE DEF g, n
    <3> QED BY <2>2
  <2> QED BY <2>1, <2>2, <2>3
<1>2. Area(g, 1..Len(f)) = Area(f, 1..Len(f))
  BY <1>1 DEF Area
<1>3. Bytes(f) = Cardinality(Area(f, 1..Len(f))) /\ Bytes(f) \in Nat
  BY SumType
<1>4. Bytes(g) = Cardinality(Area(g, S))
  BY <1>1, SumType
<1> HIDE DEF S, g, n
<1>5. \A s \in SUBSET S :
         /\ IsFiniteSet(Area(g, s)) /\ Cardinality(Area(g, s)) \in Nat
         /\ \A i \in s : Cardinality(Area(g, s)) = g[i] + Cardinality(Area(g, s \ {i}))
  <2>1. g \in [S -> Nat] /\ IsFiniteSet(S)
    BY <1>1
  <2> QED BY <2>1, AreaWithout
<1>6. Cardinality(Area(g, S)) = g[n] + Cardinality(Area(g, S \ {n}))
  BY <1>1, <1>5
<1>7. Bytes(g) = Bytes(f) + size
  <2>1. Cardinality(Area(g, S \ {n})) = Cardinality(Area(f, 1..Len(f)))
    BY <1>1, <1>2
  <2> QED BY <1>1, <1>3, <1>4, <1>6, <2>1
<1> QED BY <1>7 DEF g

-----------------------------------------------------------------------------
(* The inductive invariant.  The types and the account of the history:     *)

Stored ==
    /\ data \in [running : BOOLEAN, state : {"IDLE", "ESTABLISHED"},
                 rows : Nat, capturing : BOOLEAN]
    /\ phase \in {"off", "on", "up", "cleared", "ended"}
    /\ main \in {"serving", "stopping", "draining", "exited"}
    /\ unsent \in [Writers -> Told \cup {None}]

Account ==
    /\ history \in Seq(Nat)
    /\ Len(history) <= HistoryEvents
    /\ bytes = Bytes(history)
    /\ bytes <= HistoryBytes

Channel ==
    /\ sent \in Nat
    /\ ring \in Seq(Told)
    /\ Len(ring) <= RingSize
    /\ Len(ring) <= sent

(* What a stream has in hand: at most one snapshot, at its head, then      *)
(* replays.  The client is told, or the snapshot in hand will tell it, of  *)
(* everything before the event its receiver stands at, unless it has       *)
(* lagged behind and the snapshot is still to be taken.                    *)
Taken == [kind : {"snapshot"}, asof : Nat, running : BOOLEAN,
          state : {"IDLE", "ESTABLISHED"}, capturing : BOOLEAN]
Replay == [kind : {"replay"}]
Connection == [at : {"closed", "open", "lagged"}, pending : Seq(Taken \cup Replay),
               next : Nat, watches : BOOLEAN, knows : Nat]

WillSnapshot(s) == s.pending # << >> /\ Head(s.pending).kind = "snapshot"

Covered(s) ==
    /\ s.next <= sent + 1
    /\ \A i \in 2..Len(s.pending) : s.pending[i] \in Replay
    /\ s.at = "lagged" => s.pending = << >>
    /\ WillSnapshot(s) => s.next <= Head(s.pending).asof + 1
    /\ s.at # "lagged" /\ ~WillSnapshot(s) => s.next <= s.knows + 1

Followed ==
    /\ stream \in [Streams -> Connection]
    /\ \A c \in Streams : Covered(stream[c])

Inv == Stored /\ Account /\ Channel /\ Followed

-----------------------------------------------------------------------------
(* The history.                                                            *)

(* Dropping everything makes room for whatever fits at all, so that there  *)
(* is a least number to drop, and it makes room.                           *)
LEMMA EvictedFits ==
    ASSUME Account, NEW size \in Nat, size <= HistoryBytes
    PROVE  /\ Evicted(size) \in 0..Len(history)
           /\ Len(history) - Evicted(size) < HistoryEvents
           /\ Bytes(Rest(history, Evicted(size))) + size <= HistoryBytes
<1> DEFINE fits == {k \in 0..Len(history) :
                      /\ Len(history) - k < HistoryEvents
                      /\ Bytes(Rest(history, k)) + size <= HistoryBytes}
<1>1. Len(history) \in Nat /\ HistoryEvents \in Nat \ {0}
  BY LimitsAssumption DEF Account
<1>2. Rest(history, Len(history)) = << >>
  BY DEF Account, Rest
<1>3. Len(history) \in fits
  BY <1>1, <1>2, SumOfNone
<1>4. fits \in SUBSET Nat /\ fits # {}
  BY <1>1, <1>3
<1>5. Evicted(size) = Min(fits)
  BY DEF Evicted
<1>6. Min(fits) \in fits
  <2> HIDE DEF fits
  <2> QED BY <1>4, LeastNumber
<1> QED BY <1>5, <1>6

LEMMA RememberAccount ==
    ASSUME Account, NEW size \in Nat, Remember(size)
    PROVE  Account'
<1>1. CASE size > HistoryBytes
  BY <1>1 DEF Remember, Account
<1>2. CASE ~(size > HistoryBytes)
  <2> DEFINE k == Evicted(size)
             rest == Rest(history, k)
             first == SubSeq(history, 1, k)
  <2>0. size <= HistoryBytes /\ history \in Seq(Nat) /\ HistoryEvents \in Nat
    BY <1>2, LimitsAssumption DEF Account
  <2>1. /\ k \in 0..Len(history)
        /\ Len(history) - k < HistoryEvents
        /\ Bytes(rest) + size <= HistoryBytes
    BY <2>0, EvictedFits
  <2>2. history' = Append(rest, size) /\ bytes' = bytes - Bytes(first) + size
    BY <1>2 DEF Remember
  <2> HIDE DEF k
  <2>3. rest \in Seq(Nat) /\ Len(rest) = Len(history) - k /\ first \in Seq(Nat)
    BY <2>0, <2>1, SMTT(60) DEF Rest
  <2>4. Bytes(history) = Bytes(first) + Bytes(rest) /\ Bytes(first) \in Nat /\ Bytes(rest) \in Nat
    BY <2>0, <2>1, <2>3, SumOfParts, SumType
  <2>5. Bytes(Append(rest, size)) = Bytes(rest) + size
    BY <2>3, SumOfMore
  <2> HIDE DEF rest, first
  <2>6. history' \in Seq(Nat) /\ Len(history') <= HistoryEvents
    BY <2>0, <2>1, <2>2, <2>3
  <2>7. bytes' = Bytes(history') /\ bytes' <= HistoryBytes
    BY <2>1, <2>2, <2>4, <2>5 DEF Account
  <2> QED BY <2>6, <2>7 DEF Account
<1> QED BY <1>1, <1>2

-----------------------------------------------------------------------------
(* The writers.                                                            *)

(* The streams do not notice that more is sent.                            *)
LEMMA FollowedOn ==
    ASSUME Followed, sent \in Nat, sent' \in Nat, sent <= sent', UNCHANGED stream
    PROVE  Followed'
<1> SUFFICES ASSUME NEW c \in Streams PROVE Covered(stream[c])'
  BY DEF Followed
<1>1. Covered(stream[c]) /\ stream[c].next \in Nat
  BY DEF Followed, Connection
<1>2. stream[c].next <= sent' + 1
  BY <1>1 DEF Covered
<1> QED BY <1>1, <1>2 DEF Covered, WillSnapshot

LEMMA StoreInv ==
    ASSUME Inv, NEW writer \in Writers,
           NEW change \in [running : BOOLEAN, state : {"IDLE", "ESTABLISHED"},
                           rows : Nat, capturing : BOOLEAN],
           NEW event \in Told \cup {None}, Store(writer, change, event),
           phase' \in {"off", "on", "up", "cleared", "ended"},
           main' \in {"serving", "stopping", "draining", "exited"}
    PROVE  Inv'
<1>1. UNCHANGED <<history, bytes, sent, ring, stream>>
  BY DEF Store, emitVars
<1>2. unsent' \in [Writers -> Told \cup {None}]
  <2>1. unsent \in [Writers -> Told \cup {None}] /\ unsent' = [unsent EXCEPT ![writer] = event]
    BY DEF Inv, Stored, Store
  <2> QED BY <2>1
<1>3. Stored'
  BY <1>2 DEF Stored, Store
<1>4. Account' /\ Channel'
  BY <1>1 DEF Inv, Account, Channel
<1>5. Followed'
  BY <1>1, FollowedOn DEF Inv, Channel
<1> QED BY <1>3, <1>4, <1>5 DEF Inv

LEMMA EventType ==
    ASSUME NEW kind \in Kinds, NEW state \in {"unsaid", "IDLE", "ESTABLISHED"},
           NEW running \in BOOLEAN
    PROVE  Event(kind, state, running) \in Told
BY DEF Event, Told

LEMMA HaltInv ==
    ASSUME Inv, NEW place \in {"serving", "stopping", "draining", "exited"}, Halt(place)
    PROVE  Inv'
<1>1. /\ phase' = "off" /\ main' = place
      /\ data' = [data EXCEPT !.running = FALSE, !.state = "IDLE", !.rows = 0]
      /\ unsent' = [unsent EXCEPT !["session"] = Event("session", "IDLE", FALSE)]
      /\ history' = << >> /\ bytes' = 0 /\ UNCHANGED <<sent, ring, stream>>
  BY DEF Halt
<1>2. Event("session", "IDLE", FALSE) \in Told
  BY EventType DEF Kinds
<1>3. Stored'
  <2>1. unsent' \in [Writers -> Told \cup {None}]
    BY <1>1, <1>2 DEF Inv, Stored, Writers
  <2>2. data' \in [running : BOOLEAN, state : {"IDLE", "ESTABLISHED"},
                   rows : Nat, capturing : BOOLEAN]
    BY <1>1 DEF Inv, Stored
  <2> QED BY <1>1, <2>1, <2>2 DEF Stored
<1>4. Account'
  BY <1>1, SumOfNone, LimitsAssumption DEF Account
<1>5. Channel'
  BY <1>1 DEF Inv, Channel
<1>6. Followed'
  BY <1>1, FollowedOn DEF Inv, Channel
<1> QED BY <1>3, <1>4, <1>5, <1>6 DEF Inv

(* What the session, the capture and the shutdown store.                   *)
LEMMA ChangeInv ==
    ASSUME Inv, Start \/ Establish \/ Learn \/ Clear \/ Idle \/ End \/ Stop \/ LastStop
             \/ CaptureBegins \/ CaptureEnds
    PROVE  Inv'
<1> DEFINE Data == [running : BOOLEAN, state : {"IDLE", "ESTABLISHED"},
                    rows : Nat, capturing : BOOLEAN]
<1>1. /\ data \in Data /\ data.running \in BOOLEAN
      /\ main \in {"serving", "stopping", "draining", "exited"}
      /\ phase \in {"off", "on", "up", "cleared", "ended"} /\ sent + 1 \in Nat
      /\ "session" \in Writers /\ "capture" \in Writers
  BY DEF Inv, Stored, Channel, Writers
<1>2. \A kind \in Kinds : \A state \in {"unsaid", "IDLE", "ESTABLISHED"} :
         \A running \in BOOLEAN : Event(kind, state, running) \in Told \cup {None}
  BY EventType
<1>3. CASE Start
  <2>1. [data EXCEPT !.running = TRUE, !.rows = 0] \in Data
    BY <1>1
  <2> QED BY <1>1, <1>2, <1>3, <2>1, StoreInv DEF Start, Kinds
<1>4. CASE Establish
  <2>1. [data EXCEPT !.state = "ESTABLISHED"] \in Data
    BY <1>1
  <2> QED BY <1>1, <1>2, <1>4, <2>1, StoreInv DEF Establish, Move, Kinds
<1>5. CASE Learn
  <2>1. [data EXCEPT !.rows = sent + 1] \in Data
    BY <1>1
  <2> QED BY <1>1, <1>2, <1>5, <2>1, StoreInv DEF Learn, Move, Kinds
<1>6. CASE Clear
  <2>1. [data EXCEPT !.rows = 0] \in Data
    BY <1>1
  <2> QED BY <1>1, <1>6, <2>1, StoreInv DEF Clear, Move
<1>7. CASE Idle
  <2>1. [data EXCEPT !.state = "IDLE"] \in Data
    BY <1>1
  <2> QED BY <1>1, <1>2, <1>7, <2>1, StoreInv DEF Idle, Move, Kinds
<1>8. CASE End
  <2>1. [data EXCEPT !.running = FALSE, !.state = "IDLE", !.rows = 0] \in Data
    BY <1>1
  <2> QED BY <1>1, <1>8, <2>1, StoreInv DEF End, Move
<1>9. CASE Stop \/ LastStop
  BY <1>1, <1>9, HaltInv DEF Stop, LastStop
<1>10. CASE CaptureBegins \/ CaptureEnds
  <2>1. PICK running \in BOOLEAN : CaptureTold(running)
    BY <1>10 DEF CaptureBegins, CaptureEnds
  <2>2. [data EXCEPT !.capturing = running] \in Data
    BY <1>1
  <2> QED BY <1>1, <1>2, <2>1, <2>2, StoreInv DEF CaptureTold, Kinds
<1> QED BY <1>3, <1>4, <1>5, <1>6, <1>7, <1>8, <1>9, <1>10

LEMMA EmitInv ==
    ASSUME Inv, NEW writer \in Writers, Emit(writer)
    PROVE  Inv'
<1>1. unsent[writer] \in Told
  BY DEF Emit, Inv, Stored
<1>2. PICK size \in Sizes[unsent[writer].kind] : Remember(size)
  BY DEF Emit
<1>3. size \in Nat
  BY <1>1, <1>2, LimitsAssumption DEF Told
<1>4. Account'
  BY <1>2, <1>3, RememberAccount DEF Inv
<1>5. Stored'
  BY DEF Emit, Inv, Stored
<1>6. Channel'
  <2> DEFINE all == Append(ring, unsent[writer])
  <2>1. /\ all \in Seq(Told) /\ Len(all) = Len(ring) + 1 /\ Len(ring) \in Nat
        /\ sent \in Nat /\ Len(ring) <= sent /\ Len(ring) <= RingSize /\ RingSize \in Nat
    BY <1>1, LimitsAssumption DEF Inv, Channel
  <2>2. ring' = (IF Len(all) > RingSize THEN Tail(all) ELSE all) /\ sent' = sent + 1
    BY DEF Emit
  <2> HIDE DEF all
  <2>3. CASE Len(all) > RingSize
    <3>1. ring' = Tail(all) /\ Tail(all) \in Seq(Told) /\ Len(Tail(all)) = Len(ring)
      BY <2>1, <2>2, <2>3
    <3> QED BY <2>1, <2>2, <3>1 DEF Channel
  <2>4. CASE ~(Len(all) > RingSize)
    BY <2>1, <2>2, <2>4 DEF Channel
  <2> QED BY <2>3, <2>4
<1>7. Followed'
  BY FollowedOn DEF Inv, Channel, Emit
<1> QED BY <1>4, <1>5, <1>6, <1>7 DEF Inv

LEMMA QuietInv ==
    ASSUME Inv, ClearLog \/ Shutdown \/ Exit \/ UNCHANGED streamVars
    PROVE  Inv'
<1>1. UNCHANGED <<data, phase, unsent, sent, ring, stream>>
  BY DEF ClearLog, Shutdown, Exit, streamVars, serverVars, emitVars
<1>2. Stored'
  BY <1>1 DEF ClearLog, Shutdown, Exit, streamVars, serverVars, Inv, Stored
<1>3. Account'
  <2>1. CASE ClearLog
    BY <2>1, SumOfNone, LimitsAssumption DEF ClearLog, Account
  <2>2. CASE Shutdown \/ Exit \/ UNCHANGED streamVars
    BY <2>2 DEF Shutdown, Exit, streamVars, serverVars, emitVars, Inv, Account
  <2> QED BY <2>1, <2>2
<1>4. Channel' /\ Followed'
  BY <1>1, FollowedOn DEF Inv, Channel
<1> QED BY <1>2, <1>3, <1>4 DEF Inv

-----------------------------------------------------------------------------
(* The streams.                                                            *)

LEMMA GreaterOfTwo ==
    ASSUME NEW a \in Nat, NEW b \in Nat
    PROVE  Max({a, b}) \in Nat /\ Max({a, b}) >= a /\ Max({a, b}) >= b
<1>1. \E x \in {a, b} : \A y \in {a, b} : x >= y
  <2>1. CASE a >= b
    BY <2>1
  <2>2. CASE b >= a
    BY <2>2
  <2> QED BY <2>1, <2>2
<1>2. Max({a, b}) \in {a, b} /\ \A y \in {a, b} : Max({a, b}) >= y
  BY <1>1 DEF Max
<1> QED BY <1>2

(* One stream changes, and the server does not.                            *)
LEMMA StreamInv ==
    ASSUME Inv, UNCHANGED serverVars, NEW c \in Streams, NEW s \in Connection, Covered(s),
           stream' = [stream EXCEPT ![c] = s]
    PROVE  Inv'
<1>1. Stored' /\ Account' /\ Channel'
  BY DEF serverVars, emitVars, Inv, Stored, Account, Channel
<1>2. stream' \in [Streams -> Connection]
  BY DEF Inv, Followed
<1>3. \A d \in Streams : Covered(stream'[d])
  BY DEF Inv, Followed
<1>4. \A d \in Streams : Covered(stream[d])'
  BY <1>3 DEF Covered, WillSnapshot, serverVars, emitVars
<1> QED BY <1>1, <1>2, <1>4 DEF Inv, Followed

LEMMA SnapshotType ==
    ASSUME Inv
    PROVE  Snapshot \in Taken /\ Snapshot.kind = "snapshot" /\ Snapshot.asof = sent
BY DEF Inv, Stored, Channel, Snapshot, Taken

LEMMA ClosedCovered ==
    ASSUME Inv
    PROVE  Closed \in Connection /\ Covered(Closed)
BY DEF Inv, Channel, Closed, Connection, Covered, WillSnapshot

LEMMA HistoryReplayed ==
    ASSUME Inv
    PROVE  Replays \in Seq(Replay) /\ \A i \in 1..Len(Replays) : Replays[i] \in Replay
<1> DEFINE n == Len(history)
           r == [kind |-> "replay"]
           rs == [i \in 1..n |-> r]
<1>1. r \in Replay /\ n \in Nat /\ Replays = rs
  BY DEF Inv, Account, Replay, Replays
<1> HIDE DEF n, r
<1>2. rs \in Seq(Replay) /\ Len(rs) = n /\ \A i \in 1..n : rs[i] = r
  BY <1>1
<1> HIDE DEF rs
<1> QED BY <1>1, <1>2

LEMMA SubscribeInv ==
    ASSUME Inv, NEW c \in Streams, Subscribe(c)
    PROVE  Inv'
<1> DEFINE pending == <<Snapshot>> \o Replays
           watching == (main = "serving")
           next == sent + 1
           s == [Closed EXCEPT !.at = "open", !.pending = pending,
                               !.next = next, !.watches = watching]
<1>1. stream' = [stream EXCEPT ![c] = s] /\ UNCHANGED serverVars
  BY DEF Subscribe
<1>2. history \in Seq(Nat) /\ sent \in Nat
  BY DEF Inv, Account, Channel
<1>3. Replays \in Seq(Replay) /\ \A i \in 1..Len(Replays) : Replays[i] \in Replay
  BY HistoryReplayed
<1>4. Snapshot \in Taken /\ Snapshot.kind = "snapshot" /\ Snapshot.asof = sent
  BY SnapshotType
<1>5. /\ pending \in Seq(Taken \cup Replay) /\ pending # << >> /\ Head(pending) = Snapshot
      /\ \A i \in 2..Len(pending) : pending[i] \in Replay
  <2> DEFINE Items == Taken \cup Replay
  <2>1. <<Snapshot>> \in Seq(Items) /\ Replays \in Seq(Items)
    BY <1>3, <1>4
  <2> HIDE DEF Items
  <2>2. /\ pending \in Seq(Items) /\ Len(pending) = Len(Replays) + 1
        /\ pending[1] = Snapshot
        /\ \A i \in 2..Len(pending) : pending[i] = Replays[i - 1] /\ i - 1 \in 1..Len(Replays)
    BY <2>1
  <2> HIDE DEF pending
  <2>3. pending # << >> /\ Head(pending) = Snapshot
    BY <2>1, <2>2
  <2> QED BY <1>3, <2>2, <2>3 DEF Items
<1>7. watching \in BOOLEAN /\ next \in Nat /\ next = sent + 1
  BY <1>2
<1> HIDE DEF pending, watching, next
<1>6. s.at = "open" /\ s.pending = pending /\ s.next = next
  BY DEF Closed
<1>8. Covered(s)
  BY <1>2, <1>4, <1>5, <1>6, <1>7 DEF Covered, WillSnapshot
<1>9. s \in Connection
  BY <1>5, <1>7, ClosedCovered DEF Connection
<1> HIDE DEF s
<1> QED BY <1>1, <1>8, <1>9, StreamInv

(* What is delivered: the head of what is held, or the next event.         *)
LEMMA DeliverHeld ==
    ASSUME Inv, NEW c \in Streams, NEW item \in Item(c), Deliver(c, item),
           stream[c].pending # << >>
    PROVE  /\ stream[c].at = "open" /\ item = Head(stream[c].pending)
           /\ item \in Taken \cup Replay
           /\ Tail(stream[c].pending) \in Seq(Taken \cup Replay)
           /\ \A i \in 1..Len(Tail(stream[c].pending)) : Tail(stream[c].pending)[i] \in Replay
           /\ stream' = [stream EXCEPT ![c] = AfterHeld(stream[c], item)]
           /\ ~WillSnapshot(AfterHeld(stream[c], item))
<1> DEFINE s == stream[c]
           Items == Taken \cup Replay
           q == Tail(s.pending)
<1>1. s \in Connection /\ Covered(s)
  BY DEF Inv, Followed
<1>2. s.pending \in Seq(Items) /\ \A i \in 2..Len(s.pending) : s.pending[i] \in Replay
  BY <1>1 DEF Connection, Covered
<1>3. item = Head(s.pending) /\ s.at = "open"
  BY DEF Item
<1>4. q \in Seq(Items) /\ (\A i \in 1..Len(q) : q[i] \in Replay) /\ Head(s.pending) \in Items
  <2> HIDE DEF Items, s
  <2>1. /\ q \in Seq(Items)
        /\ \A i \in 1..Len(q) : q[i] = s.pending[i + 1] /\ i + 1 \in 2..Len(s.pending)
    BY <1>2 DEF s
  <2>2. Head(s.pending) \in Items
    BY <1>2 DEF s
  <2> QED BY <1>2, <2>1, <2>2
<1>5. stream' = [stream EXCEPT ![c] = AfterHeld(s, item)]
  <2>1. item.kind # "live"
    BY <1>3, <1>4 DEF Taken, Replay
  <2> QED BY <2>1 DEF Deliver
<1>6. ~WillSnapshot(AfterHeld(s, item))
  <2>1. q # << >> => Head(q) \in Replay
    <3> HIDE DEF q, Items
    <3>1. q # << >> => 1 \in 1..Len(q) /\ Head(q) = q[1]
      BY <1>4
    <3> QED BY <1>4, <3>1
  <2> QED BY <1>1, <2>1 DEF WillSnapshot, Connection, Replay, AfterHeld
<1> QED BY <1>3, <1>4, <1>5, <1>6

LEMMA DeliverNext ==
    ASSUME Inv, NEW c \in Streams, NEW item \in Item(c), Deliver(c, item),
           stream[c].pending = << >>
    PROVE  /\ stream[c].at = "open" /\ item.kind = "live" /\ item.n = stream[c].next
           /\ item.n <= sent /\ Kept(item.n) /\ item.what = Broadcast(item.n)
           /\ stream' = [stream EXCEPT ![c] = AfterLive(stream[c], item)]
<1>1. /\ stream[c].at = "open" /\ item.kind = "live" /\ item.n = stream[c].next
      /\ item.n <= sent /\ Kept(item.n) /\ item.what = Broadcast(item.n)
  BY DEF Item
<1> QED BY <1>1 DEF Deliver

LEMMA DeliverInv ==
    ASSUME Inv, NEW c \in Streams, NEW item \in Item(c), Deliver(c, item)
    PROVE  Inv'
<1> DEFINE s == stream[c]
<1>1. s \in Connection /\ Covered(s) /\ sent \in Nat /\ UNCHANGED serverVars
  BY DEF Inv, Followed, Channel, Deliver
<1>2. CASE s.pending # << >>
  <2> DEFINE t == AfterHeld(s, item)
  <2>1. /\ item = Head(s.pending) /\ s.at = "open" /\ item \in Taken \cup Replay
        /\ Tail(s.pending) \in Seq(Taken \cup Replay)
        /\ \A i \in 1..Len(Tail(s.pending)) : Tail(s.pending)[i] \in Replay
        /\ stream' = [stream EXCEPT ![c] = t] /\ ~WillSnapshot(t)
    BY <1>2, DeliverHeld
  <2>2. item.kind \in {"snapshot", "replay"} /\ (item.kind = "snapshot" => item.asof \in Nat)
    BY <2>1 DEF Taken, Replay
  <2>3. t \in Connection
    BY <1>1, <2>1, <2>2 DEF Connection, AfterHeld
  <2>4. t.next <= t.knows + 1
    <3>1. CASE item.kind = "snapshot"
      BY <1>1, <1>2, <2>1, <3>1 DEF Covered, WillSnapshot, Connection, AfterHeld
    <3>2. CASE item.kind # "snapshot"
      BY <1>1, <1>2, <2>1, <3>2 DEF Covered, WillSnapshot, Connection, AfterHeld
    <3> QED BY <3>1, <3>2
  <2>5. Covered(t)
    BY <1>1, <2>1, <2>4 DEF Covered, Connection, AfterHeld
  <2> HIDE DEF t
  <2> QED BY <1>1, <2>1, <2>3, <2>5, StreamInv
<1>3. CASE s.pending = << >>
  <2> DEFINE known == Max({s.knows, item.n})
             t == [s EXCEPT !.next = s.next + 1, !.knows = known]
  <2>1. s.at = "open" /\ item.n = s.next /\ s.next <= sent
    BY <1>3, DeliverNext
  <2>2. s.next \in Nat /\ s.knows \in Nat
    BY <1>1 DEF Connection
  <2>3. known \in Nat /\ known >= s.next
    BY <2>1, <2>2, GreaterOfTwo
  <2>4. stream' = [stream EXCEPT ![c] = t]
    BY <1>3, DeliverNext DEF AfterLive
  <2> HIDE DEF known
  <2>5. t \in Connection
    <3> DEFINE next == s.next + 1
    <3>1. next \in Nat
      BY <2>2
    <3>2. t = [s EXCEPT !.next = next, !.knows = known]
      OBVIOUS
    <3> HIDE DEF next, t
    <3> QED BY <1>1, <2>3, <3>1, <3>2 DEF Connection
  <2>6. Covered(t)
    BY <1>1, <1>3, <2>1, <2>2, <2>3 DEF Covered, WillSnapshot, Connection
  <2> HIDE DEF t
  <2> QED BY <1>1, <2>4, <2>5, <2>6, StreamInv
<1> QED BY <1>2, <1>3

LEMMA LagInv ==
    ASSUME Inv, NEW c \in Streams, Lag(c) \/ Recover(c)
    PROVE  Inv'
<1>1. /\ stream[c] \in Connection /\ Covered(stream[c])
      /\ sent \in Nat /\ ring \in Seq(Told) /\ Len(ring) <= sent
  BY DEF Inv, Followed, Channel
<1>2. CASE Lag(c)
  <2> DEFINE oldest == sent - Len(ring) + 1
             s == [stream[c] EXCEPT !.next = oldest, !.at = "lagged"]
  <2>1. oldest \in Nat /\ oldest <= sent + 1
    BY <1>1
  <2>2. /\ stream' = [stream EXCEPT ![c] = s] /\ UNCHANGED serverVars
        /\ stream[c].pending = << >>
    <3>1. stream \in [Streams -> Connection]
      BY DEF Inv, Followed
    <3> QED BY <1>2, <3>1 DEF Lag, Live
  <2> HIDE DEF oldest
  <2>3. s \in Connection /\ Covered(s)
    BY <1>1, <2>1, <2>2 DEF Connection, Covered, WillSnapshot
  <2> HIDE DEF s
  <2> QED BY <2>2, <2>3, StreamInv
<1>3. CASE Recover(c)
  <2> DEFINE pending == <<Snapshot>>
             s == [stream[c] EXCEPT !.at = "open", !.pending = pending]
  <2>1. stream' = [stream EXCEPT ![c] = s] /\ UNCHANGED serverVars
    <3>1. stream \in [Streams -> Connection]
      BY DEF Inv, Followed
    <3> QED BY <1>3, <3>1 DEF Recover
  <2>2. /\ pending \in Seq(Taken \cup Replay) /\ Len(pending) = 1 /\ pending # << >>
        /\ Head(pending).kind = "snapshot" /\ Head(pending).asof = sent
    BY SnapshotType
  <2> HIDE DEF pending
  <2>3. s \in Connection
    BY <1>1, <2>2 DEF Connection
  <2>4. Covered(s)
    <3>1. /\ s.pending = pending /\ s.at = "open"
          /\ s.next = stream[c].next /\ s.next <= sent + 1
          /\ \A i \in 2..Len(pending) : pending[i] \in Replay
      BY <1>1, <2>2 DEF Connection, Covered
    <3> HIDE DEF s
    <3> QED BY <2>2, <3>1 DEF Covered, WillSnapshot
  <2> HIDE DEF s
  <2> QED BY <2>1, <2>3, <2>4, StreamInv
<1> QED BY <1>2, <1>3

LEMMA GoneInv ==
    ASSUME Inv, NEW c \in Streams, Finish(c) \/ Leave(c)
    PROVE  Inv'
<1>1. stream' = [stream EXCEPT ![c] = Closed] /\ UNCHANGED serverVars
  BY DEF Finish, Leave
<1> QED BY <1>1, ClosedCovered, StreamInv

-----------------------------------------------------------------------------
(* The theorems.                                                           *)

LEMMA InitInv == Init => Inv
<1> SUFFICES ASSUME Init PROVE Inv
  OBVIOUS
<1>1. Stored
  BY DEF Init, Stored, Writers
<1>2. Account
  BY SumOfNone, LimitsAssumption DEF Init, Account
<1>3. Channel
  BY LimitsAssumption DEF Init, Channel
<1>4. Followed
  BY DEF Init, Followed, Closed, Connection, Covered, WillSnapshot
<1> QED BY <1>1, <1>2, <1>3, <1>4 DEF Inv

LEMMA NextInv == Inv /\ [Next]_streamVars => Inv'
<1> SUFFICES ASSUME Inv, [Next]_streamVars PROVE Inv'
  OBVIOUS
<1>1. CASE Change
  <2>1. CASE \E writer \in Writers : Emit(writer)
    BY <2>1, EmitInv
  <2>2. CASE ~ \E writer \in Writers : Emit(writer)
    BY <1>1, <2>2, ChangeInv, QuietInv DEF Change
  <2> QED BY <2>1, <2>2
<1>2. CASE Close
  BY <1>2, ChangeInv, QuietInv DEF Close
<1>3. ASSUME NEW c \in Streams, Subscribe(c) \/ Progress(c) \/ Leave(c)
      PROVE  Inv'
  <2>1. CASE \E item \in Item(c) : Deliver(c, item)
    BY <2>1, DeliverInv
  <2>2. CASE Lag(c) \/ Recover(c)
    BY <2>2, LagInv
  <2>3. CASE Finish(c) \/ Leave(c)
    BY <2>3, GoneInv
  <2>4. CASE Subscribe(c)
    BY <2>4, SubscribeInv
  <2> QED BY <1>3, <2>1, <2>2, <2>3, <2>4 DEF Progress
<1>4. CASE Exited \/ UNCHANGED streamVars
  BY <1>4, QuietInv DEF Exited
<1> QED BY <1>1, <1>2, <1>3, <1>4 DEF Next

LEMMA InvAlways == Spec => []Inv
<1> QED BY InitInv, NextInv, PTL DEF Spec

(* What is remembered for the streams to come is within both limits, and   *)
(* history_bytes is its exact size, whatever is evicted, cleared and sent  *)
(* in between (App::emit).                                                 *)
THEOREM Typing == Spec => []TypeOK
<1>1. Inv => TypeOK
  BY DEF Inv, Stored, Account, Channel, TypeOK
<1> QED BY <1>1, InvAlways, PTL

(* No client of /events misses an event that nothing makes up for, however *)
(* slow it is and whatever is cleared or sent meanwhile (app.rs:763-783).  *)
THEOREM NoGap == Spec => []NothingMissed
<1>1. Inv => NothingMissed
  BY DEF Inv, Followed, Covered, WillSnapshot, NothingMissed, Live
<1> QED BY <1>1, InvAlways, PTL

-----------------------------------------------------------------------------
(* Pages.  What a page shows of a field (the state, `running`, the         *)
(* capture, the rows) is right unless an event about the field is still to *)
(* come; and the last event about a field says what the server has, unless *)
(* the server changed it silently and has yet to tell.                     *)

Fields == {"state", "running", "capturing", "rows"}

(* What an event is about, and whether it says what the server has.  That  *)
(* there is no session says that there is no capture.                      *)
Clears(e) == e.kind = "session" /\ Ends(e)

Tells(f, e) ==
    \/ f = "state" /\ e.kind = "session" /\ e.state # "unsaid"
    \/ f = "running" /\ e.kind = "session"
    \/ f = "capturing" /\ (e.kind = "capture" \/ (e.kind = "session" /\ ~e.running))
    \/ f = "rows" /\ (e.kind = "routes" \/ Clears(e))

Agrees(d, f, e) ==
    \/ f = "state" /\ e.state = d.state
    \/ f = "running" /\ e.running = d.running
    \/ f = "capturing" /\ e.running = d.capturing
    \/ f = "rows" /\ (e.kind = "session" => d.rows = 0)

(* Changed without an event; the step that leaves this phase makes one.    *)
Silent(p, f) ==
    \/ f = "running" /\ p = "ended"
    \/ f = "rows" /\ p = "cleared"

(* An event about the field is unsent, or has the number n or a later one. *)
Coming(f, n) ==
    \E e \in Told :
        /\ Tells(f, e)
        /\ \/ \E m \in n..sent : Kept(m) /\ Broadcast(m) = e
           \/ \E w \in Writers : unsent[w] # None /\ unsent[w] = e

(* The phases of the session, and who speaks of what: of a capture, the    *)
(* session only when it is off.                                            *)
Speaks(w, e) ==
    e.kind \in (IF w = "session" THEN {"session", "routes"} ELSE {"capture"})

Phases ==
    /\ data.running <=> phase \in {"on", "up", "cleared"}
    /\ phase \notin {"up", "cleared"} => data.state = "IDLE"
    /\ phase # "up" => data.rows = 0
    /\ phase = "off" => ~data.capturing
    /\ \A w \in Writers : unsent[w] # None => Speaks(w, unsent[w])
    /\ unsent["session"] # None /\ ~unsent["session"].running => phase = "off"

LastWord ==
    \A f \in Fields : \A e \in Told : ~Silent(phase, f) /\ Tells(f, e) =>
        /\ \A w \in Writers :
              unsent[w] # None /\ unsent[w] = e => Agrees(data, f, e)
        /\ \A n \in 1..sent :
              Kept(n) /\ Broadcast(n) = e /\ ~Coming(f, n + 1) => Agrees(data, f, e)

(* The client's own variables.                                             *)
Reasons == {"running", "rows", "capturing", "forgotten"}
View == [running : BOOLEAN, state : {"IDLE", "ESTABLISHED"}, rows : Nat, capturing : BOOLEAN]
Loads == [at : {"none", "asked", "answered"}, rows : Nat]

PageTypes ==
    /\ view \in [Streams -> View]
    /\ timer \in [Streams -> BOOLEAN]
    /\ load \in [Streams -> Loads]
    /\ asked \in [Streams -> {"no", "start", "stop"}]
    /\ excuses \in [Streams -> SUBSET Reasons]
    /\ \A c \in Streams : load[c].at # "answered" => load[c].rows = 0

(* What is shown, or will be when the snapshot and the answers in hand are *)
(* handled.                                                                *)
ShowsRows(c) ==
    \/ timer[c]
    \/ "rows" \in excuses[c]
    \/ load[c].at = "asked"
    \/ load[c].at = "answered" /\ load[c].rows = data.rows
    \/ load[c].at = "none" /\ view[c].rows = data.rows

Excused(c) == excuses[c] \cap {"capturing", "forgotten"} # {}

(* That there is none is shown early when the session has ended, and is    *)
(* what is left when an excuse is in force.                                *)
CaptureRight(shown, excused) ==
    /\ shown => data.capturing
    /\ data.capturing => shown \/ excused \/ phase = "ended"

ShowsCapture(c) ==
    IF WillSnapshot(stream[c])
    THEN CaptureRight(Head(stream[c].pending).capturing /\ Head(stream[c].pending).running, FALSE)
    ELSE CaptureRight(view[c].capturing, Excused(c))

Shows(c, f) ==
    IF f = "rows" THEN WillSnapshot(stream[c]) \/ ShowsRows(c)
    ELSE IF f = "capturing" THEN ShowsCapture(c)
    ELSE IF WillSnapshot(stream[c]) THEN Head(stream[c].pending)[f] = data[f]
    ELSE view[c][f] = data[f] \/ f \in excuses[c]

UpToDate ==
    \A c \in Streams : \A f \in Fields : \A n \in Nat :
        /\ stream[c].at = "open" /\ stream[c].next = n /\ Kept(n)
        /\ ~Silent(phase, f) /\ ~Coming(f, n)
        => Shows(c, f)

PInv == Inv /\ Phases /\ LastWord /\ PageTypes /\ UpToDate

-----------------------------------------------------------------------------
(* The channel, and what agrees.                                           *)

LEMMA ChannelFacts ==
    ASSUME Inv
    PROVE  /\ sent \in Nat /\ ring \in Seq(Told) /\ Len(ring) \in Nat
           /\ Len(ring) <= sent /\ RingSize \in Nat \ {0}
           /\ \A m \in 1..sent : Kept(m) => Broadcast(m) \in Told
<1>1. /\ sent \in Nat /\ ring \in Seq(Told) /\ Len(ring) \in Nat
      /\ Len(ring) <= sent /\ RingSize \in Nat \ {0}
  BY LimitsAssumption DEF Inv, Channel
<1>2. \A m \in 1..sent : Kept(m) => Broadcast(m) \in Told
  BY <1>1 DEF Kept, Broadcast
<1> QED BY <1>1, <1>2

(* Whether an event agrees depends on the field it is about only.          *)
LEMMA AgreesStill ==
    ASSUME NEW f \in Fields, NEW d, NEW d2, NEW e, d2[f] = d[f], Agrees(d, f, e)
    PROVE  Agrees(d2, f, e)
BY DEF Agrees, Fields

(* The two writers speak of different fields, but for the capture.         *)
LEMMA OneSpeaker ==
    ASSUME NEW f \in Fields, f # "capturing", NEW v \in Writers, NEW w \in Writers, v # w,
           NEW e, Speaks(v, e), Tells(f, e), NEW e2, Speaks(w, e2)
    PROVE  ~Tells(f, e2)
BY DEF Fields, Writers, Speaks, Tells, Clears

-----------------------------------------------------------------------------
(* The server stores a change.  Each field is told of, unless it stays as  *)
(* it is or is changed silently.                                           *)

Accounted(d2, p2, f, event) ==
    ~Silent(p2, f) =>
        IF event # None /\ Tells(f, event)
        THEN Agrees(d2, f, event)
        ELSE d2[f] = data[f] /\ ~Silent(phase, f)

LEMMA StoreSettles ==
    ASSUME Inv, Phases, LastWord, UpToDate, NEW writer \in Writers, NEW event \in Told \cup {None},
           event # None => Speaks(writer, event),
           unsent[writer] = None, unsent' = [unsent EXCEPT ![writer] = event],
           UNCHANGED <<sent, ring, stream, view, timer, load, excuses>>,
           \A f \in Fields : Accounted(data', phase', f, event),
           phase = "ended" => ~data.capturing \/ phase' = "ended",
           \A w \in Writers : w # writer /\ unsent[w] # None /\ Tells("capturing", unsent[w])
              => ~(event # None /\ Tells("capturing", event))
    PROVE  LastWord' /\ UpToDate'
<1>1. \A w \in Writers : unsent'[w] = IF w = writer THEN event ELSE unsent[w]
  BY DEF Inv, Stored
<1>2. ASSUME NEW n, Kept(n)' PROVE Kept(n)
  BY <1>2 DEF Kept
<1>3. ASSUME NEW n PROVE Broadcast(n)' = Broadcast(n)
  BY DEF Broadcast
<1>4. ASSUME NEW f \in Fields, NEW n, ~Coming(f, n)'
      PROVE  ~Coming(f, n) /\ ~(event # None /\ Tells(f, event))
  <2>1. ~Coming(f, n)
    <3> SUFFICES ASSUME Coming(f, n) PROVE FALSE
      OBVIOUS
    <3>1. PICK e \in Told :
             /\ Tells(f, e)
             /\ \/ \E m \in n..sent : Kept(m) /\ Broadcast(m) = e
                \/ \E w \in Writers : unsent[w] # None /\ unsent[w] = e
      BY DEF Coming
    <3>2. \/ \E m \in n..sent' : Kept(m)' /\ Broadcast(m)' = e
          \/ \E w \in Writers : unsent'[w] # None /\ unsent'[w] = e
      BY <1>1, <3>1 DEF Kept, Broadcast
    <3> QED BY <1>4, <3>1, <3>2 DEF Coming
  <2>2. ~(event # None /\ Tells(f, event))
    <3> SUFFICES ASSUME event # None, Tells(f, event) PROVE FALSE
      OBVIOUS
    <3>1. event \in Told /\ unsent'[writer] # None /\ unsent'[writer] = event
      BY <1>1
    <3> QED BY <1>4, <3>1 DEF Coming
  <2> QED BY <2>1, <2>2
<1>5. LastWord'
  <2> SUFFICES ASSUME NEW f \in Fields, NEW e \in Told, ~Silent(phase', f), Tells(f, e)
               PROVE  /\ \A w \in Writers :
                            unsent'[w] # None /\ unsent'[w] = e => Agrees(data', f, e)
                      /\ \A n \in 1..sent' :
                            Kept(n)' /\ Broadcast(n)' = e /\ ~Coming(f, n + 1)' => Agrees(data', f, e)
    BY DEF LastWord
  <2>0. Accounted(data', phase', f, event)
    OBVIOUS
  <2>1. ASSUME NEW w \in Writers, unsent'[w] # None, unsent'[w] = e
        PROVE  Agrees(data', f, e)
    <3>1. CASE w = writer
      BY <1>1, <2>0, <2>1, <3>1 DEF Accounted
    <3>2. CASE w # writer
      <4>1. unsent[w] = e /\ unsent[w] # None
        BY <1>1, <2>1, <3>2
      <4>2. Speaks(w, e)
        BY <4>1 DEF Phases
      <4>3. ~(event # None /\ Tells(f, event))
        <5>1. CASE f = "capturing"
          BY <3>2, <4>1, <5>1
        <5>2. CASE f # "capturing"
          BY <3>2, <4>2, <5>2, OneSpeaker
        <5> QED BY <5>1, <5>2
      <4>4. data'[f] = data[f] /\ ~Silent(phase, f)
        BY <2>0, <4>3 DEF Accounted
      <4>5. Agrees(data, f, e)
        BY <4>1, <4>4 DEF LastWord
      <4> QED BY <4>4, <4>5, AgreesStill
    <3> QED BY <3>1, <3>2
  <2>2. ASSUME NEW n \in 1..sent', Kept(n)', Broadcast(n)' = e, ~Coming(f, n + 1)'
        PROVE  Agrees(data', f, e)
    <3>1. ~Coming(f, n + 1) /\ ~(event # None /\ Tells(f, event))
      BY <1>4, <2>2
    <3>2. data'[f] = data[f] /\ ~Silent(phase, f)
      BY <2>0, <3>1 DEF Accounted
    <3>3. n \in 1..sent /\ Kept(n) /\ Broadcast(n) = e
      BY <1>2, <1>3, <2>2
    <3>4. Agrees(data, f, e)
      BY <3>1, <3>2, <3>3 DEF LastWord
    <3> QED BY <3>2, <3>4, AgreesStill
  <2> QED BY <2>1, <2>2
<1>6. UpToDate'
  <2> SUFFICES ASSUME NEW c \in Streams, NEW f \in Fields, NEW n \in Nat,
                      stream'[c].at = "open", stream'[c].next = n, Kept(n)',
                      ~Silent(phase', f), ~Coming(f, n)'
               PROVE  Shows(c, f)'
    BY DEF UpToDate
  <2>1. ~Coming(f, n) /\ ~(event # None /\ Tells(f, event))
    BY <1>4
  <2>2. data'[f] = data[f] /\ ~Silent(phase, f)
    BY <2>1 DEF Accounted
  <2>3. Shows(c, f)
    BY <1>2, <2>1, <2>2 DEF UpToDate
  <2>4. CASE f = "capturing"
    <3>1. \A shown, excused : CaptureRight(shown, excused) => CaptureRight(shown, excused)'
      BY <2>2, <2>4 DEF CaptureRight
    <3> QED BY <2>3, <2>4, <3>1 DEF Shows, ShowsCapture, Excused, WillSnapshot
  <2>5. CASE f # "capturing"
    BY <2>2, <2>3, <2>5 DEF Shows, ShowsRows, WillSnapshot
  <2> QED BY <2>4, <2>5
<1> QED BY <1>5, <1>6

-----------------------------------------------------------------------------
(* Emitting moves an event from `unsent` to the end of the ring.           *)

LEMMA EmitChannel ==
    ASSUME Inv, NEW writer \in Writers, Emit(writer)
    PROVE  /\ sent' = sent + 1
           /\ \A n \in Nat : n = sent + 1 => Kept(n)' /\ Broadcast(n)' = unsent[writer]
           /\ \A m \in 1..sent : Kept(m)' => Kept(m) /\ Broadcast(m)' = Broadcast(m)
<1> DEFINE all == Append(ring, unsent[writer])
           len == Len(ring)
<1>1. /\ sent \in Nat /\ ring \in Seq(Told) /\ len \in Nat /\ len <= sent
      /\ RingSize \in Nat \ {0} /\ sent' = sent + 1
      /\ ring' = IF Len(all) > RingSize THEN Tail(all) ELSE all
  BY ChannelFacts DEF Emit
<1>2. unsent[writer] \in Told
  BY DEF Emit, Inv, Stored
<1>3. /\ all \in Seq(Told) /\ Len(all) = len + 1 /\ all[len + 1] = unsent[writer]
      /\ \A i \in 1..len : all[i] = ring[i]
  BY <1>1, <1>2
<1> HIDE DEF all
<1>4. CASE Len(all) > RingSize
  <2>1. /\ Len(ring') = len /\ len > 0
        /\ \A i \in 1..len : ring'[i] = all[i + 1]
    BY <1>1, <1>3, <1>4
  <2>2. ASSUME NEW n \in Nat, n = sent + 1
        PROVE  Kept(n)' /\ Broadcast(n)' = unsent[writer]
    <3>1. len - (sent' - n) = len /\ len \in 1..len
      BY <1>1, <2>1, <2>2
    <3>2. n > sent' - len
      BY <1>1, <2>1, <2>2
    <3> QED BY <1>3, <2>1, <3>1, <3>2 DEF Kept, Broadcast
  <2>3. ASSUME NEW m \in 1..sent, Kept(m)'
        PROVE  Kept(m) /\ Broadcast(m)' = Broadcast(m)
    <3>1. m > sent' - len
      BY <2>1, <2>3 DEF Kept
    <3>2. Kept(m)
      BY <1>1, <3>1 DEF Kept
    <3> DEFINE i == len - (sent' - m)
    <3>3. i \in 1..len /\ i + 1 \in 1..len /\ i + 1 = len - (sent - m)
      BY <1>1, <3>1
    <3>4. ring'[i] = ring[i + 1]
      BY <1>3, <2>1, <3>3
    <3>5. Broadcast(m)' = ring'[i]
      BY <2>1 DEF Broadcast
    <3>6. Broadcast(m) = ring[i + 1]
      BY <3>3 DEF Broadcast
    <3> QED BY <3>2, <3>4, <3>5, <3>6
  <2> QED BY <1>1, <2>2, <2>3
<1>5. CASE ~(Len(all) > RingSize)
  <2>1. ring' = all /\ Len(ring') = len + 1
    BY <1>1, <1>3, <1>5
  <2>2. ASSUME NEW n \in Nat, n = sent + 1
        PROVE  Kept(n)' /\ Broadcast(n)' = unsent[writer]
    <3>1. (len + 1) - (sent' - n) = len + 1
      BY <1>1, <2>1, <2>2
    <3>2. n > sent' - (len + 1)
      BY <1>1, <2>2
    <3> QED BY <1>3, <2>1, <3>1, <3>2 DEF Kept, Broadcast
  <2>3. ASSUME NEW m \in 1..sent, Kept(m)'
        PROVE  Kept(m) /\ Broadcast(m)' = Broadcast(m)
    <3>1. m > sent' - (len + 1)
      BY <2>1, <2>3 DEF Kept
    <3>2. Kept(m)
      BY <1>1, <3>1 DEF Kept
    <3> DEFINE i == (len + 1) - (sent' - m)
    <3>3. i \in 1..len /\ i = len - (sent - m)
      BY <1>1, <3>1
    <3>4. ring'[i] = ring[i]
      BY <1>3, <2>1, <3>3
    <3>5. Broadcast(m)' = ring'[i]
      BY <2>1 DEF Broadcast
    <3>6. Broadcast(m) = ring[i]
      BY <3>3 DEF Broadcast
    <3> QED BY <3>2, <3>4, <3>5, <3>6
  <2> QED BY <1>1, <2>2, <2>3
<1> QED BY <1>4, <1>5

LEMMA EmitSettles ==
    ASSUME Inv, LastWord, UpToDate, NEW writer \in Writers, Emit(writer),
           UNCHANGED <<view, timer, load, excuses>>
    PROVE  LastWord' /\ UpToDate'
<1>1. /\ sent' = sent + 1
      /\ \A n \in Nat : n = sent + 1 => Kept(n)' /\ Broadcast(n)' = unsent[writer]
      /\ \A m \in 1..sent : Kept(m)' => Kept(m) /\ Broadcast(m)' = Broadcast(m)
  BY EmitChannel
<1>2. /\ unsent[writer] # None /\ unsent[writer] \in Told
      /\ \A w \in Writers : unsent'[w] = IF w = writer THEN None ELSE unsent[w]
      /\ UNCHANGED <<data, phase, stream>> /\ sent \in Nat
      /\ ring \in Seq(Told) /\ ring' \in Seq(Told) /\ Len(ring) \in Nat
  BY EmitInv DEF Emit, Inv, Stored, Channel
<1>3. ASSUME NEW n \in 1..sent + 1, Kept(n)', NEW m \in n..sent + 1
      PROVE  Kept(m)'
  <2>1. Len(ring') \in Nat
    BY <1>2
  <2> QED BY <1>1, <1>2, <1>3, <2>1 DEF Kept
<1>4. ASSUME NEW f \in Fields, NEW n \in 1..sent + 1, Kept(n)', Coming(f, n)
      PROVE  Coming(f, n)'
  <2>1. PICK e \in Told :
           /\ Tells(f, e)
           /\ \/ \E m \in n..sent : Kept(m) /\ Broadcast(m) = e
              \/ \E w \in Writers : unsent[w] # None /\ unsent[w] = e
    BY <1>4 DEF Coming
  <2>2. CASE \E m \in n..sent : Kept(m) /\ Broadcast(m) = e
    <3>1. PICK m \in n..sent : Kept(m) /\ Broadcast(m) = e
      BY <2>2
    <3>2. m \in n..sent + 1 /\ m \in 1..sent
      BY <1>2, <1>4
    <3>3. Kept(m)'
      BY <1>3, <1>4, <3>2
    <3>5. Broadcast(m)' = e
      BY <1>1, <3>1, <3>2, <3>3
    <3>4. m \in n..sent'
      BY <1>1, <3>2
    <3> QED BY <2>1, <3>3, <3>4, <3>5 DEF Coming
  <2>3. CASE \E w \in Writers : w # writer /\ unsent[w] # None /\ unsent[w] = e
    <3>1. \E w \in Writers : unsent'[w] # None /\ unsent'[w] = e
      BY <1>2, <2>3
    <3> QED BY <2>1, <3>1 DEF Coming
  <2>4. CASE unsent[writer] = e
    <3>1. PICK m \in Nat : m = sent + 1
      BY <1>2
    <3>2. m \in n..sent' /\ Kept(m)' /\ Broadcast(m)' = e
      BY <1>1, <1>2, <2>4, <3>1
    <3> QED BY <2>1, <3>2 DEF Coming
  <2> QED BY <2>1, <2>2, <2>3, <2>4
<1>5. LastWord'
  <2> SUFFICES ASSUME NEW f \in Fields, NEW e \in Told, ~Silent(phase', f), Tells(f, e)
               PROVE  /\ \A w \in Writers :
                            unsent'[w] # None /\ unsent'[w] = e => Agrees(data', f, e)
                      /\ \A n \in 1..sent' :
                            Kept(n)' /\ Broadcast(n)' = e /\ ~Coming(f, n + 1)' => Agrees(data', f, e)
    BY DEF LastWord
  <2>1. data' = data /\ ~Silent(phase, f)
    BY <1>2
  <2>2. \A w \in Writers : unsent[w] # None /\ unsent[w] = e => Agrees(data', f, e)
    BY <2>1 DEF LastWord
  <2>3. ASSUME NEW n \in 1..sent', Kept(n)', Broadcast(n)' = e, ~Coming(f, n + 1)'
        PROVE  Agrees(data', f, e)
    <3>1. CASE n = sent + 1
      BY <1>1, <1>2, <2>2, <2>3, <3>1
    <3>2. CASE n # sent + 1
      <4>1. n \in 1..sent /\ n \in 1..sent + 1 /\ n + 1 \in 1..sent + 1 /\ n + 1 \in n..sent + 1
        BY <1>1, <1>2, <3>2
      <4>2. Kept(n) /\ Broadcast(n) = e /\ Kept(n + 1)'
        BY <1>1, <1>3, <2>3, <4>1
      <4>3. ~Coming(f, n + 1)
        BY <1>4, <2>3, <4>1, <4>2
      <4> QED BY <2>1, <4>1, <4>2, <4>3 DEF LastWord
    <3> QED BY <3>1, <3>2
  <2> QED BY <1>2, <2>2, <2>3
<1>6. UpToDate'
  <2> SUFFICES ASSUME NEW c \in Streams, NEW f \in Fields, NEW n \in Nat,
                      stream'[c].at = "open", stream'[c].next = n, Kept(n)',
                      ~Silent(phase', f), ~Coming(f, n)'
               PROVE  Shows(c, f)'
    BY DEF UpToDate
  <2>1. n \in 1..sent + 1
    <3>1. n <= sent + 1
      BY <1>2 DEF Inv, Followed, Covered
    <3>2. n > sent + 1 - Len(ring') /\ Len(ring') <= sent + 1
      BY <1>1, EmitInv DEF Kept, Inv, Channel
    <3>3. n >= 1
      BY <1>2, <3>2
    <3> QED BY <1>2, <3>1, <3>3
  <2>2. Kept(n)
    <3>1. CASE n = sent + 1
      BY <3>1, <1>1, <1>2, ChannelFacts DEF Kept
    <3>2. CASE n # sent + 1
      BY <1>1, <1>2, <2>1, <3>2
    <3> QED BY <3>1, <3>2
  <2>3. ~Coming(f, n)
    BY <1>4, <2>1
  <2>4. Shows(c, f)
    BY <1>2, <2>2, <2>3 DEF UpToDate
  <2> QED BY <1>2, <2>4 DEF Shows, ShowsRows, ShowsCapture, CaptureRight, Excused, WillSnapshot
<1> QED BY <1>5, <1>6

-----------------------------------------------------------------------------
(* The server stands still, or does what no page is about.                 *)

LEMMA QuietSettles ==
    ASSUME LastWord, UpToDate,
           UNCHANGED <<data, phase, unsent, sent, ring, stream, view, timer, load, excuses>>
    PROVE  LastWord' /\ UpToDate'
<1>1. \A f, n : Coming(f, n)' <=> Coming(f, n)
  BY DEF Coming, Kept, Broadcast
<1>2. \A n : (Kept(n)' <=> Kept(n)) /\ Broadcast(n)' = Broadcast(n)
  BY DEF Kept, Broadcast
<1>3. LastWord'
  BY <1>1, <1>2 DEF LastWord
<1>4. \A c \in Streams, f \in Fields : Shows(c, f) => Shows(c, f)'
  BY DEF Shows, ShowsRows, ShowsCapture, CaptureRight, Excused, WillSnapshot
<1>5. UpToDate'
  BY <1>1, <1>2, <1>4 DEF UpToDate
<1> QED BY <1>3, <1>5

(* One page does something, and the server does not.                       *)
LEMMA PageSettlesStep ==
    ASSUME LastWord, UpToDate, UNCHANGED <<data, phase, unsent, sent, ring>>,
           NEW c \in Streams,
           \A d \in Streams \ {c} :
              /\ stream'[d] = stream[d] /\ view'[d] = view[d] /\ timer'[d] = timer[d]
              /\ load'[d] = load[d] /\ excuses'[d] = excuses[d],
           \A f \in Fields, n \in Nat :
              /\ stream'[c].at = "open" /\ stream'[c].next = n /\ Kept(n)
              /\ ~Silent(phase, f) /\ ~Coming(f, n)
              => Shows(c, f)'
    PROVE  LastWord' /\ UpToDate'
<1>1. \A f, n : Coming(f, n)' <=> Coming(f, n)
  BY DEF Coming, Kept, Broadcast
<1>2. \A n : (Kept(n)' <=> Kept(n)) /\ Broadcast(n)' = Broadcast(n)
  BY DEF Kept, Broadcast
<1>3. LastWord'
  BY <1>1, <1>2 DEF LastWord
<1>4. \A d \in Streams \ {c}, f \in Fields : Shows(d, f) => Shows(d, f)'
  BY DEF Shows, ShowsRows, ShowsCapture, CaptureRight, Excused, WillSnapshot
<1>5. UpToDate'
  <2> SUFFICES ASSUME NEW d \in Streams, NEW f \in Fields, NEW n \in Nat,
                      stream'[d].at = "open", stream'[d].next = n, Kept(n),
                      ~Silent(phase, f), ~Coming(f, n)
               PROVE  Shows(d, f)'
    BY <1>1, <1>2 DEF UpToDate
  <2>1. CASE d = c
    BY <2>1
  <2>2. CASE d # c
    BY <1>4, <2>2 DEF UpToDate
  <2> QED BY <2>1, <2>2
<1> QED BY <1>3, <1>5

(* The page's own steps, which leave its stream alone.                     *)
LEMMA OwnSettles ==
    ASSUME Inv, PageTypes, LastWord, UpToDate, NEW c \in Streams,
           ReloadTimer(c) \/ Browse(c) \/ ServeRoutes(c) \/ ShowRoutes(c)
             \/ LoadFails(c) \/ Started(c) \/ Stopped(c)
    PROVE  LastWord' /\ UpToDate'
<1>1. UNCHANGED <<data, phase, unsent, sent, ring, stream>>
  BY DEF ReloadTimer, Browse, ServeRoutes, ShowRoutes, LoadFails, Started, Stopped,
         streamVars, serverVars, emitVars
<1>2. /\ view \in [Streams -> View] /\ timer \in [Streams -> BOOLEAN]
      /\ load \in [Streams -> Loads] /\ excuses \in [Streams -> SUBSET Reasons]
      /\ load[c].at # "answered" => load[c].rows = 0
  BY DEF PageTypes
<1>3. \A d \in Streams \ {c} :
         /\ stream'[d] = stream[d] /\ view'[d] = view[d] /\ timer'[d] = timer[d]
         /\ load'[d] = load[d] /\ excuses'[d] = excuses[d]
  BY <1>1, <1>2 DEF ReloadTimer, Browse, ServeRoutes, ShowRoutes, LoadFails, Started, Stopped,
                    LoadRoutes
<1>4. ASSUME NEW f \in Fields, Shows(c, f)
      PROVE  Shows(c, f)'
  <2>0. CASE f = "capturing"
    <3>1. \/ Stopped(c) /\ view'[c].capturing = FALSE
          \/ view'[c].capturing = view[c].capturing
      <4>1. ReloadTimer(c) \/ Browse(c) \/ ServeRoutes(c) \/ LoadFails(c)
              => view'[c].capturing = view[c].capturing
        BY DEF ReloadTimer, Browse, ServeRoutes, LoadFails
      <4>2. ShowRoutes(c) \/ Started(c) => view'[c].capturing = view[c].capturing
        BY <1>2 DEF ShowRoutes, Started, View
      <4>3. Stopped(c) => view'[c].capturing = FALSE
        BY <1>2 DEF Stopped, View
      <4> QED BY <4>1, <4>2, <4>3
    <3>2. excuses[c] \ {"rows"} \subseteq excuses'[c]
      BY <1>2 DEF ReloadTimer, Browse, ServeRoutes, ShowRoutes, LoadFails, Started, Stopped
    <3>3. Stopped(c) /\ data.capturing => "capturing" \in excuses'[c]
      BY <1>2 DEF Stopped
    <3>4. Excused(c) => Excused(c)'
      BY <3>2 DEF Excused
    <3>5. Stopped(c) /\ data.capturing => Excused(c)'
      BY <3>3 DEF Excused
    <3>6. ShowsCapture(c)
      BY <1>4, <2>0 DEF Shows
    <3>7. ShowsCapture(c)'
      BY <1>1, <3>1, <3>4, <3>5, <3>6 DEF ShowsCapture, CaptureRight, WillSnapshot
    <3> QED BY <2>0, <3>7 DEF Shows
  <2>1. CASE f # "capturing" /\ ReloadTimer(c)
    BY <1>1, <1>2, <1>4, <2>1
       DEF ReloadTimer, LoadRoutes, Shows, ShowsRows, WillSnapshot, Fields
  <2>2. CASE f # "capturing" /\ Browse(c)
    BY <1>1, <1>2, <1>4, <2>2
       DEF Browse, LoadRoutes, Shows, ShowsRows, WillSnapshot, Fields
  <2>3. CASE f # "capturing" /\ ServeRoutes(c)
    BY <1>1, <1>2, <1>4, <2>3
       DEF ServeRoutes, Shows, ShowsRows, WillSnapshot, Fields
  <2>4. CASE f # "capturing" /\ ShowRoutes(c)
    BY <1>1, <1>2, <1>4, <2>4
       DEF ShowRoutes, NoLoad, Shows, ShowsRows, WillSnapshot, Fields, View
  <2>5. CASE f # "capturing" /\ LoadFails(c)
    BY <1>1, <1>2, <1>4, <2>5
       DEF LoadFails, NoLoad, Shows, ShowsRows, WillSnapshot, Fields
  <2>6. CASE f # "capturing" /\ Started(c)
    BY <1>1, <1>2, <1>4, <2>6, ZenonT(60)
       DEF Started, Shows, ShowsRows, WillSnapshot, Fields, View
  <2>7. CASE f # "capturing" /\ Stopped(c)
    <3>1. /\ view'[c].running = FALSE /\ view'[c].rows = 0 /\ view'[c].state = view[c].state
          /\ timer' = timer /\ load' = load
      BY <1>2, <2>7 DEF Stopped, View
    <3>2. excuses'[c] = excuses[c] \cup LeftBehind(c)
                          \cup (IF data.running THEN {"running"} ELSE {})
                          \cup (IF data.rows # 0 THEN {"rows"} ELSE {})
                          \cup (IF data.capturing THEN {"capturing"} ELSE {})
      BY <1>2, <2>7 DEF Stopped
    <3>3. CASE f = "rows"
      <4>1. CASE load[c].rows # 0 \/ data.rows # 0
        <5>1. "rows" \in excuses'[c]
          BY <3>2, <4>1 DEF LeftBehind
        <5> QED BY <3>3, <5>1 DEF Shows, ShowsRows
      <4>2. CASE load[c].rows = 0 /\ data.rows = 0
        <5>1. load[c].at \in {"none", "asked", "answered"}
          BY <1>2 DEF Loads
        <5> QED BY <1>1, <3>1, <3>3, <4>2, <5>1 DEF Shows, ShowsRows
      <4> QED BY <4>1, <4>2
    <3>4. CASE f = "running"
      <4>1. data.running \in BOOLEAN
        BY DEF Inv, Stored
      <4>2. view'[c].running = data.running \/ "running" \in excuses'[c]
        BY <3>1, <3>2, <4>1
      <4> QED BY <1>1, <1>4, <3>4, <4>2 DEF Shows, WillSnapshot
    <3>5. CASE f = "state"
      BY <1>1, <1>4, <3>1, <3>2, <3>5 DEF Shows, WillSnapshot
    <3> QED BY <2>7, <3>3, <3>4, <3>5 DEF Fields
  <2> QED BY <2>0, <2>1, <2>2, <2>3, <2>4, <2>5, <2>6, <2>7
<1>5. \A f \in Fields, n \in Nat :
         /\ stream'[c].at = "open" /\ stream'[c].next = n /\ Kept(n)
         /\ ~Silent(phase, f) /\ ~Coming(f, n)
         => Shows(c, f)'
  BY <1>1, <1>4 DEF UpToDate
<1> QED BY <1>1, <1>3, <1>5, PageSettlesStep

-----------------------------------------------------------------------------
(* The stream of a page.                                                   *)

(* A snapshot shows every field but the rows, which are asked for; that    *)
(* there is no session comes with no capture, or before it.                *)
LEMMA SnapshotShows ==
    ASSUME Inv, Phases
    PROVE  /\ \A f \in Fields \ {"rows"} : Snapshot[f] = data[f]
           /\ CaptureRight(Snapshot.capturing /\ Snapshot.running, FALSE)
<1>1. \A f \in Fields \ {"rows"} : Snapshot[f] = data[f]
  BY DEF Snapshot, Fields
<1>2. /\ Snapshot.running = data.running /\ Snapshot.capturing = data.capturing
      /\ data.capturing => data.running \/ phase = "ended"
  BY DEF Snapshot, Phases, Inv, Stored
<1> QED BY <1>1, <1>2 DEF CaptureRight

LEMMA ConnectSettles ==
    ASSUME Inv, Phases, LastWord, UpToDate, NEW c \in Streams,
           Subscribe(c) \/ Lag(c) \/ Recover(c) \/ Leave(c), UNCHANGED pageVars
    PROVE  LastWord' /\ UpToDate'
<1>1. /\ UNCHANGED <<data, phase, unsent, sent, ring, view, timer, load, excuses>>
      /\ stream \in [Streams -> Connection]
  BY DEF Subscribe, Lag, Recover, Leave, serverVars, emitVars, pageVars, Inv, Followed
<1>2. \A d \in Streams \ {c} : stream'[d] = stream[d]
  BY <1>1 DEF Subscribe, Lag, Recover, Leave
<1>3. ASSUME NEW f \in Fields, stream'[c].at = "open"
      PROVE  Shows(c, f)'
  <2>1. stream'[c].pending # << >> /\ Head(stream'[c].pending) = Snapshot
    <3>1. CASE Subscribe(c)
      <4> DEFINE pending == <<Snapshot>> \o Replays
      <4>1. stream'[c].pending = pending
        BY <1>1, <3>1 DEF Subscribe, Closed
      <4>3. Replays \in Seq(Replay)
        BY HistoryReplayed
      <4>4. pending # << >> /\ Head(pending) = Snapshot
        BY <4>3
      <4> QED BY <4>1, <4>4
    <3>2. CASE Recover(c)
      BY <1>1, <3>2 DEF Recover, Connection
    <3>3. CASE Lag(c) \/ Leave(c)
      BY <1>1, <1>3, <3>3 DEF Lag, Leave, Closed, Connection
    <3> QED BY <3>1, <3>2, <3>3
  <2>2. /\ Snapshot.kind = "snapshot" /\ (f # "rows" => Snapshot[f] = data[f])
        /\ CaptureRight(Snapshot.capturing /\ Snapshot.running, FALSE)
    BY SnapshotType, SnapshotShows
  <2>3. WillSnapshot(stream[c])'
    BY <2>1, <2>2 DEF WillSnapshot
  <2>4. f = "capturing" => ShowsCapture(c)'
    BY <1>1, <2>1, <2>2, <2>3 DEF ShowsCapture, CaptureRight
  <2> QED BY <1>1, <2>1, <2>2, <2>3, <2>4 DEF Shows
<1> QED BY <1>1, <1>2, <1>3, PageSettlesStep

LEMMA OthersAlone ==
    ASSUME Inv, PageTypes, NEW c \in Streams, NEW item \in Item(c), Message(c, item)
    PROVE  \A d \in Streams \ {c} :
              /\ stream'[d] = stream[d] /\ view'[d] = view[d] /\ timer'[d] = timer[d]
              /\ load'[d] = load[d] /\ excuses'[d] = excuses[d]
<1>1. /\ stream \in [Streams -> Connection] /\ view \in [Streams -> View]
      /\ timer \in [Streams -> BOOLEAN] /\ load \in [Streams -> Loads]
      /\ excuses \in [Streams -> SUBSET Reasons]
  BY DEF Inv, Followed, PageTypes
<1>2. \A d \in Streams \ {c} : stream'[d] = stream[d]
  BY <1>1 DEF Message, Deliver
<1>3. \/ HandleSnapshot(c, item) \/ UNCHANGED <<view, timer, load, excuses>>
      \/ HandleRoutes(c) \/ HandleSession(c, item.what) \/ HandleCapture(c, item.what)
  BY DEF Message
<1>4. \A d \in Streams \ {c} :
         /\ view'[d] = view[d] /\ timer'[d] = timer[d]
         /\ load'[d] = load[d] /\ excuses'[d] = excuses[d]
  BY <1>1, <1>3 DEF HandleSnapshot, LoadRoutes, HandleRoutes, HandleSession, HandleCapture
<1> QED BY <1>2, <1>4

(* What the page held ready is handled: a snapshot, or a replayed event.   *)
LEMMA HeldSettles ==
    ASSUME Inv, PageTypes, UpToDate, NEW c \in Streams, NEW item \in Item(c), Message(c, item),
           stream[c].pending # << >>, NEW f \in Fields, NEW n \in Nat,
           stream'[c].next = n, Kept(n), ~Silent(phase, f), ~Coming(f, n)
    PROVE  Shows(c, f)'
<1>1. /\ stream[c].at = "open" /\ item = Head(stream[c].pending) /\ item \in Taken \cup Replay
      /\ stream' = [stream EXCEPT ![c] = AfterHeld(stream[c], item)]
      /\ ~WillSnapshot(AfterHeld(stream[c], item)) /\ data' = data
  BY DeliverHeld DEF Message, Deliver, serverVars
<1>2. /\ stream \in [Streams -> Connection] /\ view \in [Streams -> View]
      /\ load \in [Streams -> Loads]
  BY DEF Inv, Followed, PageTypes
<1>3. stream'[c] = AfterHeld(stream[c], item)
  BY <1>1, <1>2
<1>4. stream[c].next = n
  BY <1>2, <1>3 DEF AfterHeld, Connection
<1>5. Shows(c, f)
  BY <1>1, <1>4 DEF UpToDate
<1>6. ~WillSnapshot(stream[c])'
  BY <1>1, <1>3 DEF WillSnapshot
<1>7. CASE item.kind = "snapshot"
  <2>1. HandleSnapshot(c, item)
    BY <1>7 DEF Message
  <2>2. WillSnapshot(stream[c])
    BY <1>1, <1>7 DEF WillSnapshot
  <2>3. /\ f \notin {"rows", "capturing"} => item[f] = data[f]
        /\ f = "capturing" => CaptureRight(item.capturing /\ item.running, FALSE)
    BY <1>1, <1>5, <2>2 DEF Shows, ShowsCapture
  <2>4. CASE f = "rows"
    <3>1. load'[c].at = "asked"
      BY <1>2, <2>1 DEF HandleSnapshot, LoadRoutes
    <3> QED BY <2>4, <3>1 DEF Shows, ShowsRows
  <2>5. CASE f = "capturing"
    <3>1. view'[c].capturing = (item.capturing /\ item.running)
      BY <1>2, <2>1 DEF HandleSnapshot, View
    <3>2. CaptureRight(view'[c].capturing, FALSE)
      BY <2>3, <2>5, <3>1
    <3>3. UNCHANGED <<data, phase>>
      BY DEF Message, Deliver, serverVars
    <3> QED BY <1>6, <2>5, <3>2, <3>3 DEF Shows, ShowsCapture, CaptureRight
  <2>6. CASE f \notin {"rows", "capturing"}
    <3>1. view'[c][f] = item[f]
      BY <1>2, <2>1, <2>6 DEF HandleSnapshot, View, Fields
    <3> QED BY <1>1, <1>6, <2>3, <2>6, <3>1 DEF Shows
  <2> QED BY <2>4, <2>5, <2>6
<1>8. CASE item.kind = "replay"
  <2>1. UNCHANGED <<view, timer, load, excuses>>
    BY <1>8 DEF Message
  <2>2. ~WillSnapshot(stream[c])
    BY <1>1, <1>8 DEF WillSnapshot
  <2>3. f = "capturing" => ShowsCapture(c)'
    <3>1. UNCHANGED <<data, phase, view, excuses>>
      BY <2>1 DEF Message, Deliver, serverVars
    <3> QED BY <1>5, <1>6, <2>2, <3>1 DEF Shows, ShowsCapture, CaptureRight, Excused
  <2> QED BY <1>1, <1>5, <1>6, <2>1, <2>2, <2>3 DEF Shows, ShowsRows
<1> QED BY <1>1, <1>7, <1>8 DEF Taken, Replay

(* A live event is handled.  If it is about the field and none is to come, *)
(* it is the last word on it.                                              *)
LEMMA LiveSettles ==
    ASSUME Inv, PageTypes, LastWord, UpToDate, NEW c \in Streams, NEW item \in Item(c),
           Message(c, item), stream[c].pending = << >>, NEW f \in Fields, NEW n \in Nat,
           stream'[c].next = n, Kept(n), ~Silent(phase, f), ~Coming(f, n)
    PROVE  Shows(c, f)'
<1>1. /\ stream[c].at = "open" /\ item.kind = "live" /\ item.n = stream[c].next
      /\ item.n <= sent /\ Kept(item.n) /\ item.what = Broadcast(item.n)
      /\ stream' = [stream EXCEPT ![c] = AfterLive(stream[c], item)]
      /\ data' = data /\ phase' = phase
  BY DeliverNext DEF Message, Deliver, serverVars
<1>2. /\ stream \in [Streams -> Connection] /\ stream[c].next \in Nat
      /\ view \in [Streams -> View] /\ timer \in [Streams -> BOOLEAN]
      /\ load \in [Streams -> Loads] /\ excuses \in [Streams -> SUBSET Reasons]
      /\ load[c].at # "answered" => load[c].rows = 0
  BY DEF Inv, Followed, PageTypes, Connection
<1>3. stream'[c].pending = << >> /\ n = item.n + 1
  BY <1>1, <1>2 DEF AfterLive, Connection
<1>4. ~WillSnapshot(stream[c]) /\ ~WillSnapshot(stream[c])'
  BY <1>3 DEF WillSnapshot
<1>5. item.n \in 1..sent /\ item.what \in Told
  BY <1>1, <1>2, ChannelFacts DEF Kept
<1> DEFINE e == item.what
<1>6. \/ e.kind = "routes" /\ HandleRoutes(c)
      \/ e.kind = "session" /\ HandleSession(c, e)
      \/ e.kind = "capture" /\ HandleCapture(c, e)
  BY <1>1 DEF Message
<1>7. CASE Tells(f, e)
  <2>1. Agrees(data, f, e)
    BY <1>1, <1>3, <1>5, <1>7 DEF LastWord
  <2>2. CASE f = "capturing"
    <3>1. view'[c].capturing = e.running
      <4>1. CASE e.kind = "capture"
        BY <1>2, <1>6, <4>1 DEF HandleCapture, View
      <4>2. CASE e.kind = "session" /\ ~e.running
        <5>1. e.running = FALSE
          BY <1>5, <4>2 DEF Told
        <5>2. view'[c].capturing = FALSE
          BY <1>2, <1>6, <4>2 DEF HandleSession, Ends, View
        <5> QED BY <5>1, <5>2
      <4> QED BY <1>7, <2>2, <4>1, <4>2 DEF Tells
    <3>2. e.running = data.capturing
      BY <2>1, <2>2 DEF Agrees
    <3> QED BY <1>1, <1>4, <2>2, <3>1, <3>2 DEF Shows, ShowsCapture, CaptureRight
  <2>3. CASE f = "running"
    BY <1>1, <1>2, <1>4, <1>6, <1>7, <2>1, <2>3
       DEF Tells, Agrees, HandleSession, View, Shows
  <2>4. CASE f = "state"
    BY <1>1, <1>2, <1>4, <1>6, <1>7, <2>1, <2>4
       DEF Tells, Agrees, HandleSession, View, Shows
  <2>5. CASE f = "rows" /\ e.kind = "routes"
    BY <1>2, <1>6, <2>5 DEF HandleRoutes, Shows, ShowsRows
  <2>6. CASE f = "rows" /\ Clears(e)
    <3>1. data.rows = 0
      BY <2>1, <2>6 DEF Agrees, Clears
    <3>2. /\ view'[c].rows = 0 /\ load' = load
          /\ (excuses[c] \ {"running"}) \cup LeftBehind(c) \subseteq excuses'[c]
      BY <1>2, <1>6, <2>6 DEF Clears, HandleSession, View
    <3>3. load[c].at \in {"none", "asked", "answered"}
      BY <1>2 DEF Loads
    <3> QED BY <1>1, <2>6, <3>1, <3>2, <3>3 DEF LeftBehind, Shows, ShowsRows
  <2> QED BY <1>7, <2>2, <2>3, <2>4, <2>5, <2>6 DEF Tells
<1>8. CASE ~Tells(f, e)
  <2>1. ~Coming(f, item.n)
    <3> SUFFICES ASSUME Coming(f, item.n) PROVE Coming(f, n)
      OBVIOUS
    <3>1. PICK told \in Told :
             /\ Tells(f, told)
             /\ \/ \E m \in item.n..sent : Kept(m) /\ Broadcast(m) = told
                \/ \E w \in Writers : unsent[w] # None /\ unsent[w] = told
      BY DEF Coming
    <3>2. ASSUME NEW m \in item.n..sent, Kept(m), Broadcast(m) = told
          PROVE  m \in n..sent
      BY <1>1, <1>3, <1>5, <1>8, <3>1, <3>2, ChannelFacts
    <3> QED BY <3>1, <3>2 DEF Coming
  <2>2. Shows(c, f)
    BY <1>1, <1>2, <2>1 DEF UpToDate
  <2>3. CASE f = "rows"
    <3>1. /\ view'[c].rows = view[c].rows /\ load' = load
          /\ timer[c] => timer'[c]
          /\ "rows" \in excuses[c] => "rows" \in excuses'[c]
      BY <1>2, <1>6, <1>8, <2>3
         DEF Tells, Clears, HandleRoutes, HandleSession, HandleCapture, View
    <3> QED BY <1>1, <1>4, <2>2, <2>3, <3>1 DEF Shows, ShowsRows
  <2>4. CASE f = "capturing"
    <3>1. CASE view'[c].capturing = view[c].capturing /\ (Excused(c) => Excused(c)')
      BY <1>1, <1>4, <2>2, <2>4, <3>1 DEF Shows, ShowsCapture, CaptureRight
    <3>2. CASE e.kind = "session" /\ e.running /\ e.state = "IDLE" /\ view[c].capturing
      <4>1. view'[c].capturing = FALSE
        BY <1>2, <1>6, <3>2 DEF HandleSession, Ends, View
      <4>2. "forgotten" \in excuses'[c]
        BY <1>2, <1>6, <3>2 DEF HandleSession, Ends, Forgotten
      <4>3. Excused(c)'
        BY <4>2 DEF Excused
      <4> QED BY <1>1, <1>4, <2>4, <4>1, <4>3 DEF Shows, ShowsCapture, CaptureRight
    <3>3. CASE e.kind = "session" /\ e.running /\ ~(e.state = "IDLE" /\ view[c].capturing)
      <4>1. view[c].capturing \in BOOLEAN
        BY <1>2 DEF View
      <4>2. view'[c].capturing = view[c].capturing
        BY <1>2, <1>6, <3>3, <4>1 DEF HandleSession, Ends, View
      <4>3. excuses[c] \ {"running"} \subseteq excuses'[c]
        BY <1>2, <1>6, <3>3 DEF HandleSession
      <4>4. Excused(c) => Excused(c)'
        BY <4>3 DEF Excused
      <4> QED BY <3>1, <4>2, <4>4
    <3>4. CASE e.kind = "routes"
      <4>1. UNCHANGED <<view, excuses>>
        BY <1>6, <3>4 DEF HandleRoutes
      <4> QED BY <3>1, <4>1 DEF Excused
    <3>5. \/ e.kind = "routes"
          \/ e.kind = "session" /\ e.running
      <4>1. e.kind \in {"routes", "session", "capture"}
        BY <1>6
      <4>2. e.kind # "capture" /\ (e.kind = "session" => e.running)
        BY <1>8, <2>4 DEF Tells
      <4> QED BY <4>1, <4>2
    <3> QED BY <3>2, <3>3, <3>4, <3>5
  <2>5. CASE f \notin {"rows", "capturing"}
    <3>1. view'[c][f] = view[c][f]
      BY <1>2, <1>6, <1>8, <2>5
         DEF Tells, Fields, HandleRoutes, HandleSession, HandleCapture, View
    <3>2. f \in excuses[c] => f \in excuses'[c]
      BY <1>2, <1>6, <1>8, <2>5
         DEF Tells, Fields, HandleRoutes, HandleSession, HandleCapture
    <3> QED BY <1>1, <1>4, <2>2, <2>5, <3>1, <3>2 DEF Shows
  <2> QED BY <2>3, <2>4, <2>5
<1> QED BY <1>7, <1>8

LEMMA MessageSettles ==
    ASSUME Inv, PageTypes, LastWord, UpToDate, NEW c \in Streams, NEW item \in Item(c),
           Message(c, item)
    PROVE  LastWord' /\ UpToDate'
<1>1. UNCHANGED <<data, phase, unsent, sent, ring>>
  BY DEF Message, Deliver, serverVars, emitVars
<1>2. \A f \in Fields, n \in Nat :
         /\ stream'[c].at = "open" /\ stream'[c].next = n /\ Kept(n)
         /\ ~Silent(phase, f) /\ ~Coming(f, n)
         => Shows(c, f)'
  BY HeldSettles, LiveSettles
<1> QED BY <1>1, <1>2, OthersAlone, PageSettlesStep

-----------------------------------------------------------------------------
(* The server's steps, on a page or not.                                   *)

(* What each step of a writer stores, and that each field is accounted for.*)
LEMMA ChangeSettles ==
    ASSUME Inv, Phases, LastWord, UpToDate,
           Start \/ Establish \/ Learn \/ Clear \/ Idle \/ End \/ Stop
             \/ CaptureBegins \/ CaptureEnds,
           UNCHANGED <<view, timer, load, excuses>>
    PROVE  Phases' /\ LastWord' /\ UpToDate'
<1>1. /\ data \in [running : BOOLEAN, state : {"IDLE", "ESTABLISHED"},
                   rows : Nat, capturing : BOOLEAN]
      /\ data.running \in BOOLEAN /\ "session" \in Writers /\ "capture" \in Writers
      /\ unsent \in [Writers -> Told \cup {None}]
  BY DEF Inv, Stored, Writers
<1>2. ASSUME NEW writer \in Writers, NEW event \in Told \cup {None},
             event # None => Speaks(writer, event),
             unsent[writer] = None, unsent' = [unsent EXCEPT ![writer] = event],
             UNCHANGED <<sent, ring, stream>>,
             data'.running <=> phase' \in {"on", "up", "cleared"},
             phase' \notin {"up", "cleared"} => data'.state = "IDLE",
             phase' # "up" => data'.rows = 0,
             phase' = "off" => ~data'.capturing,
             phase = "ended" => ~data.capturing \/ phase' = "ended",
             unsent'["session"] # None /\ ~unsent'["session"].running => phase' = "off",
             \A w \in Writers : w # writer /\ unsent[w] # None /\ Tells("capturing", unsent[w])
                => ~(event # None /\ Tells("capturing", event)),
             \A f \in Fields : Accounted(data', phase', f, event)
      PROVE  Phases' /\ LastWord' /\ UpToDate'
  <2>1. LastWord' /\ UpToDate'
    BY <1>2, StoreSettles
  <2>2. \A w \in Writers : unsent'[w] = IF w = writer THEN event ELSE unsent[w]
    BY <1>1, <1>2
  <2>3. Phases'
    BY <1>2, <2>2 DEF Phases
  <2> QED BY <2>1, <2>3
<1>3. ASSUME NEW event \in Told \cup {None},
             event # None => event.kind \in {"session", "routes"} /\ event.running = TRUE,
             unsent["session"] = None, unsent' = [unsent EXCEPT !["session"] = event],
             UNCHANGED <<sent, ring, stream>>,
             data'.running <=> phase' \in {"on", "up", "cleared"},
             phase' \notin {"up", "cleared"} => data'.state = "IDLE",
             phase' # "up" => data'.rows = 0,
             phase' # "off",
             phase = "ended" => ~data.capturing \/ phase' = "ended",
             \A f \in Fields : Accounted(data', phase', f, event)
      PROVE  Phases' /\ LastWord' /\ UpToDate'
  <2>1. event # None => Speaks("session", event) /\ ~Tells("capturing", event)
    BY <1>3 DEF Speaks, Tells
  <2>2. unsent'["session"] = event
    BY <1>1, <1>3
  <2>3. \A w \in Writers : w # "session" /\ unsent[w] # None /\ Tells("capturing", unsent[w])
           => ~(event # None /\ Tells("capturing", event))
    BY <2>1
  <2>4. phase' = "off" => ~data'.capturing
    BY <1>3
  <2>5. unsent'["session"] # None /\ ~unsent'["session"].running => phase' = "off"
    BY <1>3, <2>2
  <2> QED BY <1>1, <1>2, <1>3, <2>1, <2>3, <2>4, <2>5
<1>4. CASE Start
  <2>1. PICK event \in Told : event = Event("session", "unsaid", TRUE)
    BY EventType DEF Kinds
  <2>2. /\ phase \in {"off", "ended"} /\ phase' = "on" /\ ~data.capturing
        /\ unsent["session"] = None /\ unsent' = [unsent EXCEPT !["session"] = event]
        /\ data' = [data EXCEPT !.running = TRUE, !.rows = 0]
        /\ UNCHANGED <<sent, ring, stream>>
    BY <1>4, <2>1 DEF Start, Joined, Store, emitVars
  <2>3. \A f \in Fields : Accounted(data', phase', f, event)
    <3>1. event # None /\ event.kind = "session"
      BY <2>1, NoneAssumption DEF Event
    <3> QED BY <1>1, <2>1, <2>2, <3>1
            DEF Accounted, Fields, Tells, Agrees, Silent, Clears, Event, Phases
  <2>4. event.kind \in {"session", "routes"} /\ event.running = TRUE
    BY <2>1 DEF Event
  <2> QED BY <1>1, <1>3, <2>2, <2>3, <2>4 DEF Phases
<1>5. CASE Establish
  <2>1. PICK event \in Told : event = Event("session", "ESTABLISHED", data.running)
    BY <1>1, EventType DEF Kinds
  <2>2. /\ phase \in {"on"} /\ phase' = "up"
        /\ unsent["session"] = None /\ unsent' = [unsent EXCEPT !["session"] = event]
        /\ data' = [data EXCEPT !.state = "ESTABLISHED"]
        /\ UNCHANGED <<sent, ring, stream>>
    BY <1>5, <2>1 DEF Establish, Move, Store, emitVars
  <2>3. \A f \in Fields : Accounted(data', phase', f, event)
    <3>1. event # None /\ event.kind = "session"
      BY <2>1, NoneAssumption DEF Event
    <3> QED BY <1>1, <2>1, <2>2, <3>1
            DEF Accounted, Fields, Tells, Agrees, Silent, Clears, Event, Phases
  <2>4. event.kind \in {"session", "routes"} /\ event.running = TRUE
    BY <2>1, <2>2 DEF Event, Phases
  <2> QED BY <1>1, <1>3, <2>2, <2>3, <2>4 DEF Phases
<1>6. CASE Learn
  <2>1. PICK event \in Told : event = Event("routes", "unsaid", TRUE)
    BY <1>1, EventType DEF Kinds
  <2>2. /\ phase \in {"up"} /\ phase' = "up"
        /\ unsent["session"] = None /\ unsent' = [unsent EXCEPT !["session"] = event]
        /\ data' = [data EXCEPT !.rows = sent + 1]
        /\ UNCHANGED <<sent, ring, stream>>
    BY <1>6, <2>1 DEF Learn, Move, Store, emitVars
  <2>3. \A f \in Fields : Accounted(data', phase', f, event)
    <3>1. event # None /\ event.kind = "routes"
      BY <2>1, NoneAssumption DEF Event
    <3> QED BY <1>1, <2>1, <2>2, <3>1
            DEF Accounted, Fields, Tells, Agrees, Silent, Clears, Event, Phases
  <2>4. event.kind \in {"session", "routes"} /\ event.running = TRUE
    BY <2>1 DEF Event
  <2> QED BY <1>1, <1>3, <2>2, <2>3, <2>4 DEF Phases
<1>7. CASE Clear
  <2>1. /\ phase \in {"on", "up"} /\ phase' = "cleared"
        /\ unsent["session"] = None /\ unsent' = [unsent EXCEPT !["session"] = None]
        /\ data' = [data EXCEPT !.rows = 0]
        /\ UNCHANGED <<sent, ring, stream>>
    BY <1>7 DEF Clear, Move, Store, emitVars
  <2>2. \A f \in Fields : Accounted(data', phase', f, None)
    BY <1>1, <2>1 DEF Accounted, Fields, Silent, Phases
  <2> QED BY <1>1, <1>3, <2>1, <2>2 DEF Phases
<1>8. CASE Idle
  <2>1. PICK event \in Told : event = Event("session", "IDLE", data.running)
    BY <1>1, EventType DEF Kinds
  <2>2. /\ phase \in {"cleared"} /\ phase' = "on"
        /\ unsent["session"] = None /\ unsent' = [unsent EXCEPT !["session"] = event]
        /\ data' = [data EXCEPT !.state = "IDLE"]
        /\ UNCHANGED <<sent, ring, stream>>
    BY <1>8, <2>1 DEF Idle, Move, Store, emitVars
  <2>3. \A f \in Fields : Accounted(data', phase', f, event)
    <3>1. event # None /\ event.kind = "session"
      BY <2>1, NoneAssumption DEF Event
    <3> QED BY <1>1, <2>1, <2>2, <3>1
            DEF Accounted, Fields, Tells, Agrees, Silent, Clears, Ends, Event, Phases
  <2>4. event.kind \in {"session", "routes"} /\ event.running = TRUE
    BY <2>1, <2>2 DEF Event, Phases
  <2> QED BY <1>1, <1>3, <2>2, <2>3, <2>4 DEF Phases
<1>9. CASE End
  <2>1. /\ phase \in {"on"} /\ phase' = "ended"
        /\ unsent["session"] = None /\ unsent' = [unsent EXCEPT !["session"] = None]
        /\ data' = [data EXCEPT !.running = FALSE, !.state = "IDLE", !.rows = 0]
        /\ UNCHANGED <<sent, ring, stream>>
    BY <1>9 DEF End, Move, Store, emitVars
  <2>2. \A f \in Fields : Accounted(data', phase', f, None)
    BY <1>1, <2>1 DEF Accounted, Fields, Silent, Phases
  <2> QED BY <1>1, <1>3, <2>1, <2>2 DEF Phases
<1>10. CASE Stop
  <2>1. PICK event \in Told : event = Event("session", "IDLE", FALSE)
    BY <1>1, EventType DEF Kinds
  <2>2. /\ phase \in {"off", "ended"} /\ phase' = "off"
        /\ ~data.capturing /\ unsent["capture"] = None
        /\ unsent["session"] = None /\ unsent' = [unsent EXCEPT !["session"] = event]
        /\ data' = [data EXCEPT !.running = FALSE, !.state = "IDLE", !.rows = 0]
        /\ UNCHANGED <<sent, ring, stream>>
    BY <1>10, <2>1 DEF Stop, Joined, Halt, emitVars
  <2>3. \A f \in Fields : Accounted(data', phase', f, event)
    <3>1. event # None /\ event.kind = "session"
      BY <2>1, NoneAssumption DEF Event
    <3> QED BY <1>1, <2>1, <2>2, <3>1
            DEF Accounted, Fields, Tells, Agrees, Silent, Clears, Event, Phases
  <2>4. Speaks("session", event)
    BY <2>1 DEF Speaks, Event
  <2>5. /\ \A w \in Writers : w # "session" => unsent[w] = None
        /\ phase' = "off" /\ ~data'.capturing /\ ~data'.running
        /\ data'.state = "IDLE" /\ data'.rows = 0
    BY <1>1, <2>2 DEF Writers
  <2> QED BY <1>1, <1>2, <2>2, <2>3, <2>4, <2>5
<1>11. CASE CaptureBegins \/ CaptureEnds
  <2>1. PICK running \in BOOLEAN :
             /\ CaptureTold(running)
             /\ data.running \/ data.capturing
             /\ running => data.running
    BY <1>11 DEF CaptureBegins, CaptureEnds
  <2>2. PICK event \in Told : event = Event("capture", "unsaid", running)
    BY EventType DEF Kinds
  <2>3. /\ phase' = phase
        /\ unsent["capture"] = None /\ unsent' = [unsent EXCEPT !["capture"] = event]
        /\ data' = [data EXCEPT !.capturing = running]
        /\ UNCHANGED <<sent, ring, stream>>
    BY <2>1, <2>2 DEF CaptureTold, Store, emitVars
  <2>4. \A f \in Fields : Accounted(data', phase', f, event)
    <3>1. event # None /\ event.kind = "capture" /\ event.running = running
      BY <2>2, NoneAssumption DEF Event
    <3>2. data'.capturing = running
      BY <1>1, <2>3
    <3>3. Tells("capturing", event) /\ Agrees(data', "capturing", event)
      BY <3>1, <3>2 DEF Tells, Agrees
    <3>4. \A f \in Fields \ {"capturing"} : ~Tells(f, event) /\ data'[f] = data[f]
      BY <1>1, <2>3, <3>1 DEF Tells, Clears, Fields
    <3>5. ASSUME NEW f \in Fields PROVE Accounted(data', phase', f, event)
      <4>1. CASE f = "capturing"
        BY <3>1, <3>3, <4>1 DEF Accounted
      <4>2. CASE f # "capturing"
        BY <2>3, <3>4, <4>2 DEF Accounted
      <4> QED BY <4>1, <4>2
    <3> QED BY <3>5
  <2>5. Speaks("capture", event)
    BY <2>2 DEF Speaks, Event
  <2>6. phase # "off"
    BY <2>1 DEF Phases
  <2>7. unsent["session"] # None => ~Tells("capturing", unsent["session"])
    <3>1. unsent["session"] # None
            => unsent["session"].kind # "capture" /\ unsent["session"].running
      BY <1>1, <2>6 DEF Phases, Speaks
    <3> QED BY <3>1 DEF Tells
  <2>8. \A w \in Writers : w # "capture" /\ unsent[w] # None /\ Tells("capturing", unsent[w])
           => ~(event # None /\ Tells("capturing", event))
    BY <2>7 DEF Writers
  <2>9. unsent'["session"] # None /\ ~unsent'["session"].running => phase' = "off"
    BY <1>1, <2>3 DEF Phases
  <2>10. /\ data'.running = data.running /\ data'.state = data.state /\ data'.rows = data.rows
    BY <1>1, <2>3
  <2> QED BY <1>1, <1>2, <2>3, <2>4, <2>5, <2>6, <2>8, <2>9, <2>10 DEF Phases
<1> QED BY <1>4, <1>5, <1>6, <1>7, <1>8, <1>9, <1>10, <1>11

-----------------------------------------------------------------------------
(* The theorem.                                                            *)

Own(c) ==
    \/ ReloadTimer(c) \/ Browse(c) \/ ServeRoutes(c) \/ ShowRoutes(c)
    \/ LoadFails(c) \/ Started(c) \/ Stopped(c)

(* A page is one more client to the stream.                                *)
LEMMA PageIsClient == [PageNext]_vars => [Next]_streamVars
<1> SUFFICES ASSUME PageNext \/ UNCHANGED vars PROVE [Next]_streamVars
  OBVIOUS
<1>1. CASE Change \/ (\E c \in Streams : Subscribe(c) \/ Lag(c) \/ Recover(c) \/ Leave(c))
  BY <1>1 DEF Next, Progress
<1>2. CASE Start \/ Stop
  BY <1>2 DEF Next, Change
<1>3. ASSUME NEW c \in Streams, NEW item \in Item(c), Message(c, item)
      PROVE  Next
  BY <1>3 DEF Message, Next, Progress
<1>4. ASSUME NEW c \in Streams, Own(c)
      PROVE  UNCHANGED streamVars
  BY <1>4 DEF Own, ReloadTimer, Browse, ServeRoutes, ShowRoutes, LoadFails, Started, Stopped
<1>5. CASE UNCHANGED vars
  BY <1>5 DEF vars
<1> QED BY <1>1, <1>2, <1>3, <1>4, <1>5 DEF PageNext, Own

LEMMA MessageTypes ==
    ASSUME Inv, PageTypes, NEW c \in Streams, NEW item \in Item(c), Message(c, item)
    PROVE  PageTypes'
<1>1. /\ view[c] \in View /\ UNCHANGED asked
      /\ data.state \in {"IDLE", "ESTABLISHED"} /\ data.capturing \in BOOLEAN
  BY DEF PageTypes, Message, Inv, Stored
<1>2. CASE stream[c].pending # << >>
  <2>1. item \in Taken \cup Replay
    BY <1>2, DeliverHeld DEF Message
  <2>2. CASE item.kind = "snapshot"
    <3>1. item \in Taken /\ HandleSnapshot(c, item)
      BY <2>1, <2>2 DEF Replay, Message
    <3>2. view' \in [Streams -> View]
      <4>1. /\ item.running \in BOOLEAN /\ item.capturing \in BOOLEAN
            /\ item.state \in {"IDLE", "ESTABLISHED"}
        BY <3>1 DEF Taken
      <4>2. \A d \in Streams : view[d] \in View
        BY DEF PageTypes
      <4> DEFINE capture == item.capturing /\ item.running
      <4>3. view' = [view EXCEPT ![c] = [view[c] EXCEPT !.running = item.running,
                        !.state = item.state, !.capturing = capture]]
        BY <3>1 DEF HandleSnapshot, PageTypes
      <4>5. capture \in BOOLEAN
        BY <4>1
      <4> HIDE DEF capture
      <4>4. [view[c] EXCEPT !.running = item.running, !.state = item.state,
                            !.capturing = capture] \in View
        BY <4>1, <4>2, <4>5 DEF View
      <4> QED BY <4>3, <4>4 DEF PageTypes
    <3>3. load' \in [Streams -> Loads] /\ \A d \in Streams : load'[d].at # "answered" => load'[d].rows = 0
      BY <3>1 DEF HandleSnapshot, LoadRoutes, PageTypes, Loads
    <3>4. excuses' \in [Streams -> SUBSET Reasons] /\ timer' = timer
      BY <3>1 DEF HandleSnapshot, PageTypes
    <3> QED BY <1>1, <3>2, <3>3, <3>4 DEF PageTypes
  <2>3. CASE item.kind # "snapshot"
    <3>1. UNCHANGED <<view, timer, load, excuses>>
      BY <2>1, <2>3 DEF Message, Taken, Replay
    <3> QED BY <1>1, <3>1 DEF PageTypes
  <2> QED BY <2>2, <2>3
<1>3. CASE stream[c].pending = << >>
  <2>1. /\ item.kind = "live" /\ item.n \in 1..sent /\ Kept(item.n)
        /\ item.what = Broadcast(item.n)
    <3>1. stream[c].next \in Nat
      BY DEF Inv, Followed, Connection
    <3> QED BY <1>3, <3>1, DeliverNext, ChannelFacts DEF Message, Kept
  <2> DEFINE e == item.what
  <2>2. e \in Told
    BY <2>1, ChannelFacts
  <2>3. CASE HandleRoutes(c)
    BY <1>1, <2>3 DEF HandleRoutes, PageTypes
  <2>4. CASE HandleCapture(c, e)
    <3>1. view' \in [Streams -> View]
      BY <2>2, <2>4, SMTT(60) DEF HandleCapture, PageTypes, View, Told
    <3>2. excuses' \in [Streams -> SUBSET Reasons]
      BY <2>4 DEF HandleCapture, PageTypes
    <3> QED BY <1>1, <2>4, <3>1, <3>2 DEF HandleCapture, PageTypes
  <2>5. CASE e.kind = "session" /\ HandleSession(c, e)
    <3>1. view' \in [Streams -> View]
      <4> DEFINE state == IF e.state = "unsaid" THEN view[c].state ELSE e.state
                 rows == IF Ends(e) THEN 0 ELSE view[c].rows
                 capture == view[c].capturing /\ ~Ends(e)
      <4>1. /\ e.running \in BOOLEAN /\ state \in {"IDLE", "ESTABLISHED"} /\ rows \in Nat
            /\ capture \in BOOLEAN
        BY <1>1, <2>2 DEF Told, View
      <4>3. view' = [view EXCEPT ![c] =
                       [view[c] EXCEPT !.running = e.running, !.state = state, !.rows = rows,
                                       !.capturing = capture]]
        BY <2>5 DEF HandleSession, PageTypes
      <4> HIDE DEF state, rows, capture
      <4>4. [view[c] EXCEPT !.running = e.running, !.state = state, !.rows = rows,
                            !.capturing = capture] \in View
        BY <1>1, <4>1 DEF View
      <4> QED BY <4>3, <4>4 DEF PageTypes
    <3>2. excuses' \in [Streams -> SUBSET Reasons]
      BY <2>5 DEF HandleSession, LeftBehind, Forgotten, PageTypes, Reasons
    <3> QED BY <1>1, <2>5, <3>1, <3>2 DEF HandleSession, PageTypes
  <2> QED BY <2>1, <2>3, <2>4, <2>5 DEF Message
<1> QED BY <1>2, <1>3

LEMMA OwnTypes ==
    ASSUME Inv, PageTypes, NEW c \in Streams, Own(c)
    PROVE  PageTypes'
<1>1. data.rows \in Nat
  BY DEF Inv, Stored
<1>2. CASE ReloadTimer(c) \/ Browse(c)
  <2>1. load' = [load EXCEPT ![c] = [at |-> "asked", rows |-> 0]]
    BY <1>2 DEF ReloadTimer, Browse, LoadRoutes
  <2>2. /\ load' \in [Streams -> Loads]
        /\ \A d \in Streams : load'[d].at # "answered" => load'[d].rows = 0
    BY <2>1 DEF PageTypes, Loads
  <2>3. timer' \in [Streams -> BOOLEAN] /\ excuses' \in [Streams -> SUBSET Reasons]
    <3>1. timer' = timer \/ timer' = [timer EXCEPT ![c] = FALSE]
      BY <1>2 DEF ReloadTimer, Browse
    <3>2. excuses' = [excuses EXCEPT ![c] = @ \ {"rows"}]
      BY <1>2 DEF ReloadTimer, Browse
    <3> QED BY <3>1, <3>2 DEF PageTypes
  <2> QED BY <1>2, <2>2, <2>3 DEF ReloadTimer, Browse, PageTypes
<1>3. CASE ServeRoutes(c)
  BY <1>1, <1>3 DEF ServeRoutes, PageTypes, Loads
<1>4. CASE ShowRoutes(c)
  <2>1. /\ load' \in [Streams -> Loads]
        /\ \A d \in Streams : load'[d].at # "answered" => load'[d].rows = 0
    BY <1>4 DEF ShowRoutes, NoLoad, PageTypes, Loads
  <2>2. load[c].rows \in Nat /\ view \in [Streams -> View]
    BY DEF PageTypes, Loads
  <2>3. view' \in [Streams -> View]
    BY <1>4, <2>2 DEF ShowRoutes, View
  <2> QED BY <1>4, <2>1, <2>3 DEF ShowRoutes, PageTypes
<1>5. CASE LoadFails(c)
  BY <1>5 DEF LoadFails, NoLoad, PageTypes, Loads, Reasons
<1>6. CASE Started(c)
  <2>1. view' \in [Streams -> View] /\ asked' \in [Streams -> {"no", "start", "stop"}]
    <3>1. view' = [view EXCEPT ![c].running = TRUE] /\ asked' = [asked EXCEPT ![c] = "no"]
      BY <1>6 DEF Started
    <3>2. view' \in [Streams -> View]
      <4> DEFINE mine == [view[c] EXCEPT !.running = TRUE]
      <4>1. view[c] \in View /\ view \in [Streams -> View]
        BY DEF PageTypes
      <4>2. mine \in View
        BY <4>1 DEF View
      <4>3. view' = [view EXCEPT ![c] = mine]
        BY <3>1
      <4> HIDE DEF mine
      <4> QED BY <4>1, <4>2, <4>3
    <3> QED BY <3>1, <3>2 DEF PageTypes
  <2>2. excuses' \in [Streams -> SUBSET Reasons]
    BY <1>6 DEF Started, PageTypes, Reasons
  <2> QED BY <1>6, <2>1, <2>2 DEF Started, PageTypes
<1>7. CASE Stopped(c)
  <2>1. view' \in [Streams -> View] /\ asked' \in [Streams -> {"no", "start", "stop"}]
    <3>1. /\ view' = [view EXCEPT ![c] = [view[c] EXCEPT !.running = FALSE, !.rows = 0,
                                                           !.capturing = FALSE]]
          /\ asked' = [asked EXCEPT ![c] = "no"]
      <4>1. /\ view' = [view EXCEPT ![c].running = FALSE, ![c].rows = 0, ![c].capturing = FALSE]
            /\ asked' = [asked EXCEPT ![c] = "no"]
        BY <1>7 DEF Stopped
      <4>2. view \in [Streams -> View] /\ view[c] \in View
        BY DEF PageTypes
      <4>3. QED
        BY <4>1, <4>2 DEF View
    <3>2. view' \in [Streams -> View]
      <4> DEFINE mine == [view[c] EXCEPT !.running = FALSE, !.rows = 0, !.capturing = FALSE]
      <4>1. view[c] \in View /\ view \in [Streams -> View]
        BY DEF PageTypes
      <4>2. mine \in View
        BY <4>1 DEF View
      <4>3. view' = [view EXCEPT ![c] = mine]
        BY <3>1
      <4> HIDE DEF mine
      <4> QED BY <4>1, <4>2, <4>3
    <3> QED BY <3>1, <3>2 DEF PageTypes
  <2>2. excuses' \in [Streams -> SUBSET Reasons]
    BY <1>7 DEF Stopped, LeftBehind, PageTypes, Reasons
  <2> QED BY <1>7, <2>1, <2>2 DEF Stopped, PageTypes
<1> QED BY <1>2, <1>3, <1>4, <1>5, <1>6, <1>7 DEF Own

LEMMA InitPInv == PageInit => PInv
<1> SUFFICES ASSUME PageInit PROVE PInv
  OBVIOUS
<1>1. Inv
  BY InitInv DEF PageInit
<1>2. Phases /\ LastWord /\ UpToDate
  BY DEF PageInit, Init, Closed, Phases, LastWord, UpToDate, Writers
<1>3. PageTypes
  BY DEF PageInit, PageTypes, View, Loads, NoLoad
<1> QED BY <1>1, <1>2, <1>3 DEF PInv

LEMMA NextPInv == PInv /\ [PageNext]_vars => PInv'
<1> SUFFICES ASSUME PInv, PageNext \/ UNCHANGED vars PROVE PInv'
  OBVIOUS
<1>1. /\ Inv /\ Phases /\ LastWord /\ PageTypes /\ UpToDate
      /\ Inv'
  BY NextInv, PageIsClient DEF PInv
<1>2. ASSUME Change, UNCHANGED <<view, timer, load, excuses>>
      PROVE  Phases' /\ LastWord' /\ UpToDate'
  <2>1. CASE \E writer \in Writers : Emit(writer)
    <3>1. PICK writer \in Writers : Emit(writer)
      BY <2>1
    <3>2. LastWord' /\ UpToDate'
      BY <1>1, <1>2, <3>1, EmitSettles
    <3>3. Phases'
      BY <1>1, <3>1 DEF Emit, Inv, Stored, Phases
    <3> QED BY <3>2, <3>3
  <2>2. CASE ClearLog
    <3>1. LastWord' /\ UpToDate'
      BY <1>1, <1>2, <2>2, QuietSettles DEF ClearLog
    <3>2. Phases'
      BY <1>1, <2>2 DEF ClearLog, Phases
    <3> QED BY <3>1, <3>2
  <2>3. CASE Start \/ Establish \/ Learn \/ Clear \/ Idle \/ End \/ Stop
               \/ CaptureBegins \/ CaptureEnds
    BY <1>1, <1>2, <2>3, ChangeSettles
  <2> QED BY <1>2, <2>1, <2>2, <2>3 DEF Change
<1>3. CASE Change /\ UNCHANGED pageVars
  BY <1>1, <1>2, <1>3 DEF pageVars, PInv, PageTypes
<1>4. ASSUME NEW c \in Streams, NEW what \in {"start", "stop"}, Change, Carried(c, what)
      PROVE  PInv'
  BY <1>1, <1>2, <1>4 DEF Carried, PInv, PageTypes
<1>5. ASSUME NEW c \in Streams, Subscribe(c) \/ Lag(c) \/ Recover(c) \/ Leave(c),
             UNCHANGED pageVars
      PROVE  PInv'
  <2>1. LastWord' /\ UpToDate'
    BY <1>1, <1>5, ConnectSettles
  <2>2. Phases'
    BY <1>1, <1>5 DEF Subscribe, Lag, Recover, Leave, serverVars, Phases
  <2> QED BY <1>1, <1>5, <2>1, <2>2 DEF pageVars, PInv, PageTypes
<1>6. ASSUME NEW c \in Streams, NEW item \in Item(c), Message(c, item)
      PROVE  PInv'
  <2>1. Phases'
    BY <1>1, <1>6 DEF Message, Deliver, serverVars, Phases
  <2> QED BY <1>1, <1>6, <2>1, MessageSettles, MessageTypes DEF PInv
<1>7. ASSUME NEW c \in Streams, Own(c)
      PROVE  PInv'
  <2>1. Phases'
    BY <1>1, <1>7 DEF Own, ReloadTimer, Browse, ServeRoutes, ShowRoutes, LoadFails, Started,
                      Stopped, streamVars, serverVars, Phases
  <2>2. LastWord' /\ UpToDate'
    BY <1>1, <1>7, OwnSettles DEF Own
  <2> QED BY <1>1, <1>7, <2>1, <2>2, OwnTypes DEF PInv
<1>8. CASE UNCHANGED vars
  <2>1. LastWord' /\ UpToDate'
    BY <1>1, <1>8, QuietSettles DEF vars, streamVars, serverVars, emitVars, pageVars
  <2> QED BY <1>1, <1>8, <2>1 DEF vars, streamVars, serverVars, pageVars, Phases, PageTypes, PInv
<1> QED BY <1>3, <1>4, <1>5, <1>6, <1>7, <1>8 DEF PageNext, Own, Change

(* Once a page has handled what was emitted it shows what the server has,  *)
(* whatever was lost, replayed or told late, but for what the four named   *)
(* exceptions leave until the next event or load (ui.html:1018-1166); a    *)
(* capture that has ended is never shown.                                  *)
THEOREM PageRight == PageSpec => []PageSettles
<1>1. PInv => PageSettles
  <2> SUFFICES ASSUME PInv, NEW c \in Streams, Settled(c)
               PROVE  /\ view[c].state = data.state
                      /\ \/ view[c].capturing = data.capturing
                         \/ /\ data.capturing
                            /\ excuses[c] \cap {"capturing", "forgotten"} # {}
                      /\ view[c].running = data.running \/ "running" \in excuses[c]
                      /\ view[c].rows = data.rows \/ "rows" \in excuses[c]
    BY DEF PageSettles
  <2>1. PICK n \in Nat : n = sent + 1
    BY DEF PInv, Inv, Channel
  <2>2. stream[c].at = "open" /\ stream[c].next = n /\ ~WillSnapshot(stream[c])
    BY <2>1 DEF Settled, Live, WillSnapshot
  <2>3. Kept(n)
    BY <2>1, ChannelFacts DEF PInv, Kept
  <2>4. \A f \in Fields : ~Silent(phase, f) /\ ~Coming(f, n)
    <3>1. n..sent = {}
      BY <2>1 DEF PInv, Inv, Channel
    <3> QED BY <3>1 DEF Settled, Silent, Coming
  <2>5. \A f \in Fields : Shows(c, f)
    BY <2>2, <2>3, <2>4 DEF PInv, UpToDate
  <2>6. \A f \in Fields \ {"rows", "capturing"} : view[c][f] = data[f] \/ f \in excuses[c]
    BY <2>2, <2>5 DEF Shows
  <2>7. view[c].rows = data.rows \/ "rows" \in excuses[c]
    BY <2>2, <2>5 DEF Shows, ShowsRows, Fields, Settled, NoLoad
  <2>8. "state" \notin excuses[c]
    BY DEF PInv, PageTypes, Reasons
  <2>9. \/ view[c].capturing = data.capturing
        \/ data.capturing /\ excuses[c] \cap {"capturing", "forgotten"} # {}
    <3>1. view[c].capturing \in BOOLEAN /\ data.capturing \in BOOLEAN
      BY DEF PInv, PageTypes, View, Inv, Stored
    <3>2. CaptureRight(view[c].capturing, Excused(c)) /\ phase # "ended"
      BY <2>2, <2>5 DEF Shows, ShowsCapture, Fields, Settled
    <3> QED BY <3>1, <3>2 DEF CaptureRight, Excused
  <2> QED BY <2>6, <2>7, <2>8, <2>9 DEF Fields
<1> QED BY <1>1, InitPInv, NextPInv, PTL DEF PageSpec

=============================================================================

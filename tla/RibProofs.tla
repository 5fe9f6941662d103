----------------------------- MODULE RibProofs -----------------------------
(***************************************************************************)
(* Theorems about Rib, for every set of families, keys, labels and UPDATEs *)
(* and with or without clears by another task.                             *)
(***************************************************************************)
EXTENDS Rib, FiniteSetTheorems, SequenceTheorems, TLAPS

-----------------------------------------------------------------------------
(* What one route contributes to the charts.                               *)

LEMMA TagType ==
    ASSUME NEW chart \in Charts, NEW labels \in Seq(Label)
    PROVE  Tag(chart, labels) \in Seq(Metric)
BY DEF Tag, Metric

LEMMA MetricsType ==
    ASSUME NEW route \in Route
    PROVE  Metrics(route) \in Seq(Metric)
<1>1. /\ Tag("communities", route.communities) \in Seq(Metric)
      /\ Tag("actions", route.actions) \in Seq(Metric)
      /\ Tag("protocols", route.protocols) \in Seq(Metric)
      /\ Tag("ports", route.ports) \in Seq(Metric)
  BY TagType DEF Route, Charts
<1>2. << <<"prefix_lengths", route.length>> >> \in Seq(Metric)
  BY DEF Route, Charts, Metric
<1>3. (IF route.as_path = << >> THEN << >>
       ELSE << <<"origin_as", route.as_path[Len(route.as_path)]>> >>)
        \in Seq(Metric)
  <2>1. route.as_path # << >> => route.as_path[Len(route.as_path)] \in Label
    BY DEF Route
  <2> QED BY <2>1, SMTT(60) DEF Charts, Metric
<1>4. (IF route.next_hop = None THEN << >>
       ELSE << <<"next_hops", route.next_hop>> >>) \in Seq(Metric)
  <2>1. route.next_hop # None => route.next_hop \in Label
    BY DEF Route
  <2> QED BY <2>1 DEF Charts, Metric
<1> QED BY <1>1, <1>2, <1>3, <1>4 DEF Metrics

(* A route has finitely many places in the charts.                         *)
LEMMA PlacesFinite ==
    ASSUME NEW route \in Route, NEW metric \in Metric
    PROVE  /\ IsFiniteSet(Places(route, metric))
           /\ Cardinality(Places(route, metric)) \in Nat
           /\ Occurrences(route, metric) = Cardinality(Places(route, metric))
<1>1. IsFiniteSet(DOMAIN Metrics(route))
  <2>1. DOMAIN Metrics(route) = 1..Len(Metrics(route))
        /\ Len(Metrics(route)) \in Nat
    BY MetricsType
  <2> QED BY <2>1, FS_Interval
<1>2. IsFiniteSet(Places(route, metric))
  BY <1>1, FS_Subset DEF Places
<1> QED BY <1>2, FS_CardinalityType DEF Occurrences, Places

LEMMA MarksOfOne ==
    ASSUME NEW route \in Route, NEW metric \in Metric, NEW seq
    PROVE  /\ IsFiniteSet({seq} \X Places(route, metric))
           /\ Cardinality({seq} \X Places(route, metric))
                = Occurrences(route, metric)
<1> DEFINE P == Places(route, metric)
           f == [i \in P |-> <<seq, i>>]
<1>1. f \in Bijection(P, {seq} \X P)
  <2>1. f \in [P -> {seq} \X P]
    OBVIOUS
  <2>2. \A i, j \in P : f[i] = f[j] => i = j
    OBVIOUS
  <2>3. \A pair \in {seq} \X P : \E i \in P : f[i] = pair
    OBVIOUS
  <2> QED BY <2>1, <2>2, <2>3, Zenon DEF Bijection, Injection, Surjection, IsInjective
<1>2. ExistsBijection(P, {seq} \X P)
  BY <1>1 DEF ExistsBijection
<1> QED BY <1>2, PlacesFinite, FS_Bijection

-----------------------------------------------------------------------------
(* Storing or dropping one row changes the marks by that row's places.     *)

LEMMA MarksSplit ==
    ASSUME NEW S, NEW routes \in [S -> Route], NEW seq \in S,
           NEW metric \in Metric
    PROVE  LET rest == Restrict(routes, S \ {seq})
               own == {seq} \X Places(routes[seq], metric)
           IN  /\ Marks(routes, metric) = Marks(rest, metric) \cup own
               /\ Marks(rest, metric) \cap own = {}
<1> DEFINE rest == Restrict(routes, S \ {seq})
           own == {seq} \X Places(routes[seq], metric)
<1>1. DOMAIN routes = S /\ DOMAIN rest = S \ {seq}
  BY DEF Restrict
<1>2. \A s \in S \ {seq} : rest[s] = routes[s]
  BY DEF Restrict
<1>3. Marks(routes, metric) =
        UNION {{s} \X Places(routes[s], metric) : s \in S}
  BY <1>1 DEF Marks
<1>4. Marks(rest, metric) =
        UNION {{s} \X Places(routes[s], metric) : s \in S \ {seq}}
  BY <1>1, <1>2 DEF Marks
<1> HIDE DEF rest
<1>5. Marks(routes, metric) = Marks(rest, metric) \cup own
  BY <1>3, <1>4
<1>6. Marks(rest, metric) \cap own = {}
  BY <1>4
<1> QED BY <1>5, <1>6 DEF rest

LEMMA MarksTake ==
    ASSUME NEW S, NEW routes \in [S -> Route], NEW seq \in S,
           NEW metric \in Metric, IsFiniteSet(Marks(routes, metric))
    PROVE  LET rest == Restrict(routes, S \ {seq})
           IN  /\ IsFiniteSet(Marks(rest, metric))
               /\ Cardinality(Marks(rest, metric)) \in Nat
               /\ Cardinality(Marks(routes, metric)) =
                    Cardinality(Marks(rest, metric))
                      + Occurrences(routes[seq], metric)
<1> DEFINE rest == Restrict(routes, S \ {seq})
           own == {seq} \X Places(routes[seq], metric)
<1>1. /\ Marks(routes, metric) = Marks(rest, metric) \cup own
      /\ Marks(rest, metric) \cap own = {}
  BY MarksSplit
<1> HIDE DEF rest
<1>2. IsFiniteSet(Marks(rest, metric))
  BY <1>1, FS_Subset
<1>3. IsFiniteSet(own) /\ Cardinality(own) = Occurrences(routes[seq], metric)
  BY MarksOfOne
<1>4. /\ Cardinality(Marks(rest, metric)) \in Nat
      /\ Cardinality(own) \in Nat
  BY <1>2, <1>3, FS_CardinalityType
<1> HIDE DEF own
<1>5. Cardinality(Marks(routes, metric)) =
        Cardinality(Marks(rest, metric)) + Cardinality(own) - Cardinality({})
  BY <1>1, <1>2, <1>3, FS_Union
<1> QED BY <1>2, <1>3, <1>4, <1>5, FS_EmptySet DEF rest

LEMMA MarksAdd ==
    ASSUME NEW S, NEW routes \in [S -> Route], NEW seq, seq \notin S,
           NEW route \in Route,
           NEW metric \in Metric, IsFiniteSet(Marks(routes, metric))
    PROVE  /\ IsFiniteSet(Marks(Put(routes, seq, route), metric))
           /\ Cardinality(Marks(Put(routes, seq, route), metric)) =
                Cardinality(Marks(routes, metric)) + Occurrences(route, metric)
<1> DEFINE more == Put(routes, seq, route)
           own == {seq} \X Places(route, metric)
<1>1. /\ more \in [S \cup {seq} -> Route]
      /\ more[seq] = route
      /\ Restrict(more, (S \cup {seq}) \ {seq}) = routes
  BY DEF Put, Restrict
<1> HIDE DEF more
<1>2. /\ Marks(more, metric) = Marks(routes, metric) \cup own
      /\ Marks(routes, metric) \cap own = {}
  BY <1>1, MarksSplit
<1>3. IsFiniteSet(own) /\ Cardinality(own) = Occurrences(route, metric)
  BY MarksOfOne
<1>4. /\ Cardinality(Marks(routes, metric)) \in Nat
      /\ Cardinality(own) \in Nat
  BY <1>3, FS_CardinalityType
<1> HIDE DEF own
<1>5. /\ IsFiniteSet(Marks(more, metric))
      /\ Cardinality(Marks(more, metric)) =
          Cardinality(Marks(routes, metric)) + Cardinality(own) - Cardinality({})
  BY <1>2, <1>3, FS_Union
<1> QED BY <1>3, <1>4, <1>5, FS_EmptySet DEF more

-----------------------------------------------------------------------------
(* The same for the sets of rows a counter counts.                         *)

Counted(routes, c) == {seq \in DOMAIN routes : c \in CountersOf(routes[seq])}
Step(route, c) == IF c \in CountersOf(route) THEN 1 ELSE 0

LEMMA CountedTake ==
    ASSUME NEW S, NEW routes \in [S -> Route], NEW seq \in S,
           NEW c \in Counter, IsFiniteSet(S)
    PROVE  LET rest == Restrict(routes, S \ {seq})
           IN  /\ Cardinality(Counted(rest, c)) \in Nat
               /\ Cardinality(Counted(routes, c)) =
                    Cardinality(Counted(rest, c)) + Step(routes[seq], c)
<1> DEFINE rest == Restrict(routes, S \ {seq})
<1>1. Counted(rest, c) = Counted(routes, c) \ {seq}
  BY DEF Counted, Restrict
<1>2. IsFiniteSet(Counted(routes, c))
  BY FS_Subset DEF Counted
<1>3. seq \in Counted(routes, c) <=> c \in CountersOf(routes[seq])
  BY DEF Counted
<1> HIDE DEF rest
<1>4. /\ IsFiniteSet(Counted(rest, c))
      /\ Cardinality(Counted(rest, c)) =
           IF seq \in Counted(routes, c) THEN Cardinality(Counted(routes, c)) - 1
           ELSE Cardinality(Counted(routes, c))
  BY <1>1, <1>2, FS_RemoveElement
<1>5. /\ Cardinality(Counted(rest, c)) \in Nat
      /\ Cardinality(Counted(routes, c)) \in Nat
  BY <1>2, <1>4, FS_CardinalityType
<1> QED BY <1>3, <1>4, <1>5 DEF rest, Step

LEMMA CountedAdd ==
    ASSUME NEW S, NEW routes \in [S -> Route], NEW seq, seq \notin S,
           NEW route \in Route, NEW c \in Counter, IsFiniteSet(S)
    PROVE  Cardinality(Counted(Put(routes, seq, route), c)) =
                Cardinality(Counted(routes, c)) + Step(route, c)
<1> DEFINE more == Put(routes, seq, route)
<1>1. /\ more \in [S \cup {seq} -> Route]
      /\ more[seq] = route
      /\ Restrict(more, (S \cup {seq}) \ {seq}) = routes
  BY DEF Put, Restrict
<1>2. IsFiniteSet(S \cup {seq})
  BY FS_AddElement
<1> HIDE DEF more
<1>3. Cardinality(Counted(more, c)) =
        Cardinality(Counted(routes, c)) + Step(more[seq], c)
  BY <1>1, <1>2, CountedTake
<1> QED BY <1>1, <1>3 DEF more

-----------------------------------------------------------------------------
(* The table is consistent, and each operation of Data keeps it so.        *)

MarksFinite(table) == \A m \in Metric : IsFiniteSet(Marks(table.routes, m))

Consistent(table) ==
    /\ IsTable(table)
    /\ IndexAgreesIn(table)
    /\ CountersAgreeIn(table)
    /\ MarksFinite(table)
    /\ AnalyticsAgreeIn(table)

LEMMA RowsFinite ==
    ASSUME NEW table, IsTable(table)
    PROVE  IsFiniteSet(DOMAIN table.routes)
<1>1. IsFiniteSet(1..table.sequence)
  <2>1. table.sequence \in Nat
    BY DEF IsTable
  <2> QED BY <2>1, FS_Interval
<1>2. DOMAIN table.routes \in SUBSET (1..table.sequence)
  BY DEF IsTable, IsPartialFunction
<1> QED BY <1>1, <1>2, FS_Subset

LEMMA EmptyConsistent ==
    ASSUME NEW table,
           table = [routes |-> << >>, ids |-> << >>,
                    sequence |-> table.sequence,
                    counts |-> [c \in Counter |-> 0],
                    analytics |-> [m \in Metric |-> 0]],
           table.sequence \in Nat
    PROVE  Consistent(table)
<1>1. /\ table.routes = << >> /\ table.ids = << >>
      /\ DOMAIN table.routes = {} /\ DOMAIN table.ids = {}
      /\ table.counts = [c \in Counter |-> 0]
      /\ table.analytics = [m \in Metric |-> 0]
  OBVIOUS
<1>2. IsTable(table)
  BY <1>1 DEF IsTable, IsPartialFunction
<1>3. IndexAgreesIn(table)
  BY <1>1 DEF IndexAgreesIn
<1>4. \A c \in Counter : Counted(table.routes, c) = {}
  BY <1>1 DEF Counted
<1>5. CountersAgreeIn(table)
  BY <1>1, <1>4, FS_EmptySet DEF CountersAgreeIn, Counted
<1>6. \A m \in Metric : Marks(table.routes, m) = {}
  BY <1>1 DEF Marks
<1>7. MarksFinite(table) /\ AnalyticsAgreeIn(table)
  BY <1>1, <1>6, FS_EmptySet DEF MarksFinite, AnalyticsAgreeIn
<1> QED BY <1>2, <1>3, <1>5, <1>7 DEF Consistent

LEMMA ClearedConsistent ==
    ASSUME NEW table, Consistent(table)
    PROVE  Consistent(Cleared(table))
<1>1. table.sequence \in Nat
  BY DEF Consistent, IsTable
<1>2. Cleared(table) = [routes |-> << >>, ids |-> << >>,
                        sequence |-> table.sequence,
                        counts |-> [c \in Counter |-> 0],
                        analytics |-> [m \in Metric |-> 0]]
  BY DEF Cleared, EmptyTable
<1>3. Cleared(table).sequence = table.sequence
  BY <1>2
<1> QED BY <1>1, <1>2, <1>3, EmptyConsistent

LEMMA RemoveFields ==
    ASSUME NEW table, IsTable(table), NEW id \in Id, Known(table, id),
           IndexAgreesIn(table)
    PROVE  LET seq == table.ids[id]
               route == table.routes[seq]
               after == Remove(table, id)
           IN  /\ seq \in DOMAIN table.routes
               /\ route \in Route
               /\ after = [routes |-> Restrict(table.routes, DOMAIN table.routes \ {seq}),
                           ids |-> Restrict(table.ids, DOMAIN table.ids \ {id}),
                           sequence |-> table.sequence,
                           counts |-> after.counts,
                           analytics |-> after.analytics]
               /\ after.counts =
                    [c \in Counter |-> table.counts[c] - Step(route, c)]
               /\ after.analytics =
                    [m \in Metric |-> table.analytics[m] - Occurrences(route, m)]
<1> DEFINE seq == table.ids[id]
           route == table.routes[seq]
           after == Remove(table, id)
           counted == Count(table, route, -1)
<1>1. seq \in DOMAIN table.routes /\ route \in Route
  BY DEF IsTable, IsPartialFunction, Known
<1>2. \A m \in Metric : Occurrences(route, m) \in Nat
  BY <1>1, PlacesFinite
<1>3. \A m \in Metric : table.analytics[m] \in Nat
  BY DEF IsTable
<1>4. counted = [routes |-> table.routes, ids |-> table.ids,
                 sequence |-> table.sequence,
                 counts |-> [c \in Counter |-> table.counts[c] - Step(route, c)],
                 analytics |-> [m \in Metric |-> table.analytics[m] - Occurrences(route, m)]]
  <2>1. table = [routes |-> table.routes, ids |-> table.ids,
                sequence |-> table.sequence, counts |-> table.counts,
                analytics |-> table.analytics]
    BY DEF IsTable
  <2>2. \A c \in Counter : table.counts[c] \in Nat
    BY DEF IsTable
  <2>3. [c \in Counter |-> IF c \in CountersOf(route) THEN table.counts[c] + (-1) ELSE table.counts[c]]
          = [c \in Counter |-> table.counts[c] - Step(route, c)]
    BY <2>2 DEF Step
  <2>4. [m \in Metric |-> table.analytics[m] + (-1) * Occurrences(route, m)]
          = [m \in Metric |-> table.analytics[m] - Occurrences(route, m)]
    BY <1>2, <1>3
  <2>5. counted = [table EXCEPT
          !.counts = [c \in Counter |-> table.counts[c] - Step(route, c)],
          !.analytics = [m \in Metric |-> table.analytics[m] - Occurrences(route, m)]]
    BY <2>1, <2>3, <2>4, Zenon DEF Count
  <2> HIDE DEF counted, route
  <2> QED BY <2>1, <2>5
<1>5. after = [counted EXCEPT
                 !.ids = Restrict(@, DOMAIN @ \ {id}),
                 !.routes = Restrict(@, DOMAIN @ \ {seq})]
  BY DEF Remove
<1> HIDE DEF counted, after
<1>6. after = [routes |-> Restrict(table.routes, DOMAIN table.routes \ {seq}),
               ids |-> Restrict(table.ids, DOMAIN table.ids \ {id}),
               sequence |-> table.sequence,
               counts |-> [c \in Counter |-> table.counts[c] - Step(route, c)],
               analytics |-> [m \in Metric |-> table.analytics[m] - Occurrences(route, m)]]
  BY <1>4, <1>5
<1> QED BY <1>1, <1>6 DEF after

LEMMA RemoveConsistent ==
    ASSUME NEW table, Consistent(table), NEW id \in Id
    PROVE  /\ Consistent(Remove(table, id))
           /\ ~Known(Remove(table, id), id)
           /\ Remove(table, id).sequence = table.sequence
<1> DEFINE seq == table.ids[id]
           route == table.routes[seq]
           after == Remove(table, id)
<1>1. CASE ~Known(table, id)
  BY <1>1 DEF Remove
<1>2. CASE Known(table, id)
  <2>1. /\ IsTable(table) /\ IndexAgreesIn(table) /\ CountersAgreeIn(table)
        /\ MarksFinite(table) /\ AnalyticsAgreeIn(table)
    BY DEF Consistent
  <2>2. /\ seq \in DOMAIN table.routes
        /\ route \in Route
        /\ after = [routes |-> Restrict(table.routes, DOMAIN table.routes \ {seq}),
                    ids |-> Restrict(table.ids, DOMAIN table.ids \ {id}),
                    sequence |-> table.sequence,
                    counts |-> after.counts,
                    analytics |-> after.analytics]
        /\ after.counts = [c \in Counter |-> table.counts[c] - Step(route, c)]
        /\ after.analytics =
             [m \in Metric |-> table.analytics[m] - Occurrences(route, m)]
    BY <1>2, <2>1, RemoveFields, SMTT(60)
  <2> HIDE DEF after, seq, route
  <2>3. /\ after.routes = Restrict(table.routes, DOMAIN table.routes \ {seq})
        /\ after.ids = Restrict(table.ids, DOMAIN table.ids \ {id})
        /\ after.sequence = table.sequence
    BY <2>2
  <2>4. /\ table.routes \in [DOMAIN table.routes -> Route]
        /\ DOMAIN table.routes \subseteq 1..table.sequence
        /\ table.ids \in [DOMAIN table.ids -> DOMAIN table.routes]
        /\ DOMAIN table.ids \subseteq Id
        /\ table.sequence \in Nat
        /\ table.counts \in [Counter -> Nat]
        /\ table.analytics \in [Metric -> Nat]
    BY <2>1 DEF IsTable, IsPartialFunction
  <2>5. \A i \in DOMAIN table.ids : table.ids[i] = seq => i = id
    BY <1>2, <2>1 DEF IndexAgreesIn, seq, Known
  <2>6. IsFiniteSet(DOMAIN table.routes)
    BY <2>1, RowsFinite
  <2>7. CountersAgreeIn(after) /\ after.counts \in [Counter -> Nat]
    <3>1. \A c \in Counter :
            /\ Cardinality(Counted(after.routes, c)) \in Nat
            /\ Cardinality(Counted(table.routes, c)) =
                 Cardinality(Counted(after.routes, c)) + Step(route, c)
      BY <2>2, <2>3, <2>4, <2>6, CountedTake DEF route
    <3>2. \A c \in Counter : Step(route, c) \in Nat
      BY DEF Step
    <3>3. \A c \in Counter :
            table.counts[c] = Cardinality(Counted(table.routes, c))
      BY <2>1 DEF CountersAgreeIn, Counted
    <3>4. \A c \in Counter :
            after.counts[c] = Cardinality(Counted(after.routes, c))
      BY <2>2, <3>1, <3>2, <3>3
    <3> QED BY <2>2, <3>1, <3>4 DEF CountersAgreeIn, Counted
  <2>8. /\ MarksFinite(after) /\ AnalyticsAgreeIn(after)
        /\ after.analytics \in [Metric -> Nat]
    <3>1. \A m \in Metric :
            /\ IsFiniteSet(Marks(after.routes, m))
            /\ Cardinality(Marks(after.routes, m)) \in Nat
            /\ Cardinality(Marks(table.routes, m)) =
                 Cardinality(Marks(after.routes, m)) + Occurrences(route, m)
      BY <2>1, <2>2, <2>3, <2>4, MarksTake DEF route, MarksFinite
    <3>2. \A m \in Metric : Occurrences(route, m) \in Nat
      BY <2>2, PlacesFinite
    <3>3. \A m \in Metric :
            table.analytics[m] = Cardinality(Marks(table.routes, m))
      BY <2>1 DEF AnalyticsAgreeIn
    <3>4. \A m \in Metric :
            after.analytics[m] = Cardinality(Marks(after.routes, m))
      BY <2>2, <3>1, <3>2, <3>3
    <3> QED BY <2>2, <3>1, <3>4 DEF AnalyticsAgreeIn, MarksFinite
  <2>9. IsTable(after)
    <3>1. IsPartialFunction(after.routes, 1..after.sequence, Route)
      BY <2>3, <2>4 DEF IsPartialFunction, Restrict
    <3>2. IsPartialFunction(after.ids, Id, DOMAIN after.routes)
      BY <2>3, <2>4, <2>5 DEF IsPartialFunction, Restrict
    <3> QED BY <2>2, <2>3, <2>4, <2>7, <2>8, <3>1, <3>2 DEF IsTable
  <2>10. IndexAgreesIn(after)
    <3>1. /\ DOMAIN after.ids = DOMAIN table.ids \ {id}
          /\ \A i \in DOMAIN after.ids : after.ids[i] = table.ids[i]
          /\ DOMAIN after.routes = DOMAIN table.routes \ {seq}
          /\ \A n \in DOMAIN after.routes : after.routes[n] = table.routes[n]
      BY <2>3 DEF Restrict
    <3>2. \A i \in DOMAIN after.ids : after.ids[i] \in DOMAIN after.routes
      BY <2>4, <2>5, <3>1
    <3> QED BY <2>1, <3>1, <3>2 DEF IndexAgreesIn, Known, seq
  <2>11. ~Known(after, id)
    BY <2>3 DEF Known, Restrict
  <2> QED BY <2>1, <2>3, <2>7, <2>8, <2>9, <2>10, <2>11 DEF Consistent, after
<1> QED BY <1>1, <1>2

LEMMA InsertFields ==
    ASSUME NEW table, IsTable(table), NEW id \in Id, NEW route \in Route
    PROVE  LET next == table.sequence + 1
               after == Insert(table, id, route)
           IN  /\ after = [routes |-> Put(table.routes, next, route),
                           ids |-> Put(table.ids, id, next),
                           sequence |-> next,
                           counts |-> after.counts,
                           analytics |-> after.analytics]
               /\ after.counts =
                    [c \in Counter |-> table.counts[c] + Step(route, c)]
               /\ after.analytics =
                    [m \in Metric |-> table.analytics[m] + Occurrences(route, m)]
<1> DEFINE next == table.sequence + 1
           after == Insert(table, id, route)
           counted == Count(table, route, 1)
           counts == [c \in Counter |-> table.counts[c] + Step(route, c)]
           analytics == [m \in Metric |-> table.analytics[m] + Occurrences(route, m)]
<1>1. table = [routes |-> table.routes, ids |-> table.ids,
               sequence |-> table.sequence, counts |-> table.counts,
               analytics |-> table.analytics]
  BY DEF IsTable
<1>2. [c \in Counter |-> IF c \in CountersOf(route) THEN table.counts[c] + 1 ELSE table.counts[c]]
        = counts
  <2>1. \A c \in Counter : table.counts[c] \in Nat
    BY DEF IsTable
  <2> QED BY <2>1 DEF Step
<1>3. [m \in Metric |-> table.analytics[m] + 1 * Occurrences(route, m)] = analytics
  <2>1. \A m \in Metric : Occurrences(route, m) \in Nat
    BY PlacesFinite
  <2>2. \A m \in Metric : table.analytics[m] \in Nat
    BY DEF IsTable
  <2> QED BY <2>1, <2>2
<1>4. counted = [table EXCEPT !.counts = counts, !.analytics = analytics]
  BY <1>2, <1>3, Zenon DEF Count
<1>5. after = [counted EXCEPT !.sequence = next,
                              !.ids = Put(@, id, next),
                              !.routes = Put(@, next, route)]
  BY DEF Insert
<1> HIDE DEF counted, counts, analytics, after
<1>6. counted = [routes |-> table.routes, ids |-> table.ids,
                 sequence |-> table.sequence,
                 counts |-> counts, analytics |-> analytics]
  BY <1>1, <1>4
<1>7. after = [routes |-> Put(table.routes, next, route),
               ids |-> Put(table.ids, id, next),
               sequence |-> next,
               counts |-> counts, analytics |-> analytics]
  BY <1>5, <1>6
<1> QED BY <1>7 DEF after, counts, analytics

(* A new row is only ever inserted under an identity the index lacks: the  *)
(* code removes the old one first.                                         *)
LEMMA InsertConsistent ==
    ASSUME NEW table, Consistent(table), NEW id \in Id, ~Known(table, id),
           NEW route \in Route, route.id = id
    PROVE  Consistent(Insert(table, id, route))
<1> DEFINE next == table.sequence + 1
           after == Insert(table, id, route)
<1>1. /\ IsTable(table) /\ IndexAgreesIn(table) /\ CountersAgreeIn(table)
      /\ MarksFinite(table) /\ AnalyticsAgreeIn(table)
  BY DEF Consistent
<1>2. /\ after = [routes |-> Put(table.routes, next, route),
                  ids |-> Put(table.ids, id, next),
                  sequence |-> next,
                  counts |-> after.counts,
                  analytics |-> after.analytics]
      /\ after.counts = [c \in Counter |-> table.counts[c] + Step(route, c)]
      /\ after.analytics =
           [m \in Metric |-> table.analytics[m] + Occurrences(route, m)]
  BY <1>1, InsertFields
<1> HIDE DEF after
<1>3. /\ after.routes = Put(table.routes, next, route)
      /\ after.ids = Put(table.ids, id, next)
      /\ after.sequence = next
  BY <1>2
<1>4. /\ table.routes \in [DOMAIN table.routes -> Route]
      /\ DOMAIN table.routes \subseteq 1..table.sequence
      /\ table.ids \in [DOMAIN table.ids -> DOMAIN table.routes]
      /\ DOMAIN table.ids \subseteq Id
      /\ table.sequence \in Nat
      /\ table.counts \in [Counter -> Nat]
      /\ table.analytics \in [Metric -> Nat]
  BY <1>1 DEF IsTable, IsPartialFunction
<1>5. next \notin DOMAIN table.routes /\ next \in Nat
  BY <1>4
<1>6. IsFiniteSet(DOMAIN table.routes)
  BY <1>1, RowsFinite
<1> HIDE DEF next
<1>7. CountersAgreeIn(after) /\ after.counts \in [Counter -> Nat]
  <2>1. \A c \in Counter :
          Cardinality(Counted(after.routes, c)) =
            Cardinality(Counted(table.routes, c)) + Step(route, c)
    BY <1>3, <1>4, <1>5, <1>6, CountedAdd
  <2>2. \A c \in Counter : Step(route, c) \in Nat
    BY DEF Step
  <2>3. \A c \in Counter :
          table.counts[c] = Cardinality(Counted(table.routes, c))
    BY <1>1 DEF CountersAgreeIn, Counted
  <2>4. /\ after.counts \in [Counter -> Nat]
        /\ \A c \in Counter : after.counts[c] = table.counts[c] + Step(route, c)
    BY <1>2, <1>4, <2>2
  <2> QED BY <2>1, <2>3, <2>4 DEF CountersAgreeIn, Counted
<1>8. /\ MarksFinite(after) /\ AnalyticsAgreeIn(after)
      /\ after.analytics \in [Metric -> Nat]
  <2>1. \A m \in Metric :
          /\ IsFiniteSet(Marks(after.routes, m))
          /\ Cardinality(Marks(after.routes, m)) =
               Cardinality(Marks(table.routes, m)) + Occurrences(route, m)
    BY <1>1, <1>3, <1>4, <1>5, MarksAdd DEF MarksFinite
  <2>2. \A m \in Metric : Occurrences(route, m) \in Nat
    BY PlacesFinite
  <2>3. \A m \in Metric :
          table.analytics[m] = Cardinality(Marks(table.routes, m))
    BY <1>1 DEF AnalyticsAgreeIn
  <2> QED BY <1>2, <1>4, <2>1, <2>2, <2>3 DEF AnalyticsAgreeIn, MarksFinite
<1>9. IsTable(after)
  <2>1. IsPartialFunction(after.routes, 1..after.sequence, Route)
    <3>1. DOMAIN after.routes = DOMAIN table.routes \cup {next}
      BY <1>3 DEF Put
    <3>2. DOMAIN after.routes \subseteq 1..after.sequence
      BY <1>3, <1>4, <3>1 DEF next
    <3>3. after.routes \in [DOMAIN after.routes -> Route]
      BY <1>3, <1>4 DEF Put
    <3> QED BY <3>2, <3>3 DEF IsPartialFunction
  <2>2. IsPartialFunction(after.ids, Id, DOMAIN after.routes)
    BY <1>3, <1>4 DEF IsPartialFunction, Put
  <2> QED BY <1>2, <1>3, <1>5, <1>7, <1>8, <2>1, <2>2 DEF IsTable
<1>10. IndexAgreesIn(after)
  <2>1. /\ DOMAIN after.ids = DOMAIN table.ids \cup {id}
        /\ after.ids[id] = next
        /\ \A i \in DOMAIN table.ids : after.ids[i] = table.ids[i]
        /\ DOMAIN after.routes = DOMAIN table.routes \cup {next}
        /\ after.routes[next] = route
        /\ \A n \in DOMAIN table.routes : after.routes[n] = table.routes[n]
    BY <1>3, <1>5 DEF Put, Known
  <2>2. \A i \in DOMAIN table.ids : table.ids[i] \in DOMAIN table.routes
    BY <1>4
  <2> QED BY <1>1, <2>1, <2>2 DEF IndexAgreesIn, Known
<1> QED BY <1>7, <1>8, <1>9, <1>10 DEF Consistent, after

-----------------------------------------------------------------------------
(* The state machine.                                                      *)

LEMMA EntryType ==
    ASSUME NEW nlri \in Nlri, NEW u \in Update
    PROVE  /\ IdOf(nlri) \in Id
           /\ Entry(nlri, u) \in Route
           /\ Entry(nlri, u).id = IdOf(nlri)
<1>1. IdOf(nlri) \in Id
  BY DEF IdOf, Id, Nlri
<1>2. /\ u.as_path \in Seq(Label) /\ u.communities \in Seq(Label)
      /\ u.actions \in Seq(Label)
  BY DEF Update
<1>3. /\ nlri.afi \in Afi /\ nlri.next_hop \in Label \cup {None}
      /\ nlri.length \in Label /\ nlri.protocols \in Seq(Label)
      /\ nlri.ports \in Seq(Label)
  BY DEF Nlri
<1> QED BY <1>1, <1>2, <1>3 DEF Entry, Route

LEMMA FlattenType ==
    ASSUME NEW u \in Update
    PROVE  Flatten(u) \in Seq(Kinds \X Nlri)
<1>1. /\ u.announce \in Seq(Nlri) /\ u.withdraw \in Seq(Nlri)
  BY DEF Update
<1>2. /\ Len(u.announce) \in Nat /\ Len(u.withdraw) \in Nat
      /\ \A i \in 1..Len(u.announce) : u.announce[i] \in Nlri
      /\ \A i \in 1..Len(u.withdraw) : u.withdraw[i] \in Nlri
  BY <1>1
<1> DEFINE n == Len(u.announce) + Len(u.withdraw)
<1>3. n \in Nat
  <2>1. \A a, b \in Nat : a + b \in Nat
    OBVIOUS
  <2> QED BY <1>2, <2>1, Zenon
<1>4. ASSUME NEW i \in 1..n
      PROVE  Flatten(u)[i] \in Kinds \X Nlri
  <2>1. CASE i <= Len(u.announce)
    <3>1. Flatten(u)[i] = <<"announce", u.announce[i]>>
      BY <2>1 DEF Flatten
    <3>2. u.announce[i] \in Nlri
      BY <1>2, <2>1
    <3> QED BY <3>1, <3>2 DEF Kinds
  <2>2. CASE ~(i <= Len(u.announce))
    <3>1. Flatten(u)[i] = <<"withdraw", u.withdraw[i - Len(u.announce)]>>
      BY <2>2 DEF Flatten
    <3>2. \A a, b \in Nat : \A j \in 1..(a + b) : ~(j <= a) => j - a \in 1..b
      OBVIOUS
    <3>3. i - Len(u.announce) \in 1..Len(u.withdraw)
      BY <1>2, <2>2, <3>2, Zenon
    <3>4. u.withdraw[i - Len(u.announce)] \in Nlri
      BY <1>2, <3>3, Zenon
    <3> QED BY <3>1, <3>4 DEF Kinds
  <2> QED BY <2>1, <2>2
<1>5. Flatten(u) = [i \in 1..n |-> Flatten(u)[i]]
  BY DEF Flatten
<1> HIDE DEF n
<1>6. Flatten(u) \in [1..n -> Kinds \X Nlri]
  BY <1>4, <1>5
<1> QED BY <1>3, <1>6, IsASeq

LEMMA MergedPathType ==
    ASSUME NEW path \in Seq(Label), NEW as4 \in Seq(Label)
    PROVE  MergedPath(path, as4) \in Seq(Label)
<1> DEFINE n == IF Len(as4) > Len(path) THEN 0 ELSE Len(path) - Len(as4)
<1>1. n \in 0..Len(path)
  OBVIOUS
<1>2. SubSeq(path, 1, n) \in Seq(Label)
  BY <1>1
<1> QED BY <1>2 DEF MergedPath

Rows == Seq([route_id : Id \cup {None}, entry : Route])

(* What holds besides the consistency of the table: the types.             *)
Types ==
    /\ stage \in Stages
    /\ update \in Update
    /\ pending \in Seq(Kinds \X Nlri)
    /\ batches \in [Kinds -> Rows]
    /\ DOMAIN mirror \subseteq Id
    /\ ambiguous \subseteq Id
    /\ disturbed \in BOOLEAN

(* The inductive invariant.  CountersAgree and AnalyticsAgree are needed   *)
(* for the types too: only the recount shows that a decrement finds a      *)
(* positive count.                                                         *)
Inv == Consistent(data) /\ Types

LEMMA InitInv == Init => Inv
<1> SUFFICES ASSUME Init PROVE Inv
  OBVIOUS
<1>1. data.sequence = 0 /\ data = [routes |-> << >>, ids |-> << >>,
               sequence |-> data.sequence,
               counts |-> [c \in Counter |-> 0],
               analytics |-> [m \in Metric |-> 0]]
  BY DEF Init, EmptyTable
<1>2. Consistent(data)
  BY <1>1, EmptyConsistent
<1>3. disturbed \in BOOLEAN
  BY Zenon DEF Init
<1>4. Types
  BY <1>3 DEF Init, Types, Stages, Update, NoUpdate, NoBatches, Rows
<1> QED BY <1>2, <1>4 DEF Inv

LEMMA RowType ==
    ASSUME NEW route_id \in Id \cup {None}, NEW entry \in Route,
           batches \in [Kinds -> Rows], NEW kind \in Kinds
    PROVE  [batches EXCEPT ![kind] =
               Append(@, [route_id |-> route_id, entry |-> entry])]
                 \in [Kinds -> Rows]
<1>1. [route_id |-> route_id, entry |-> entry]
        \in [route_id : Id \cup {None}, entry : Route]
  OBVIOUS
<1>2. batches[kind] \in Seq([route_id : Id \cup {None}, entry : Route])
  BY DEF Rows
<1>3. Append(batches[kind], [route_id |-> route_id, entry |-> entry]) \in Rows
  BY <1>1, <1>2 DEF Rows
<1> QED BY <1>3

LEMMA ReportedType ==
    ASSUME NEW rows \in Rows
    PROVE  Reported(rows) \subseteq Id
<1>1. rows \in Seq([route_id : Id \cup {None}, entry : Route])
  BY DEF Rows
<1>2. ASSUME NEW i \in DOMAIN rows
      PROVE  rows[i].route_id \in Id \cup {None}
  <2>1. rows[i] \in [route_id : Id \cup {None}, entry : Route]
    BY <1>1, ElementOfSeq, LenProperties
  <2> QED BY <2>1
<1> QED BY <1>2 DEF Reported

LEMMA NextInv == Inv /\ [Next]_vars => Inv'
<1> SUFFICES ASSUME Inv, [Next]_vars PROVE Inv'
  OBVIOUS
<1>0. Consistent(data) /\ Types
  BY DEF Inv
<1>1. CASE BeginUpdate
  <2>1. PICK u \in Updates :
          /\ update' = [u EXCEPT !.as_path = MergedPath(@, u.as4_path)]
          /\ pending' = Flatten(u)
          /\ ambiguous' = (ambiguous \ Ids(u.announce))
                             \cup (Ids(u.announce) \cap Ids(u.withdraw))
    BY <1>1 DEF BeginUpdate
  <2>2. u \in Update
    BY UpdatesAssumption
  <2>3. MergedPath(u.as_path, u.as4_path) \in Seq(Label)
    BY <2>2, MergedPathType DEF Update
  <2>4. update' \in Update
    BY <2>1, <2>2, <2>3 DEF Update
  <2>5. pending' \in Seq(Kinds \X Nlri)
    BY <2>1, <2>2, FlattenType
  <2>6. Ids(u.announce) \subseteq Id
    <3>1. u.announce \in Seq(Nlri)
      BY <2>2 DEF Update
    <3>2. \A i \in DOMAIN u.announce : u.announce[i] \in Nlri
      BY <3>1
    <3> QED BY <3>2 DEF Ids, IdOf, Id, Nlri
  <2>7. batches' \in [Kinds -> Rows]
    BY <1>1 DEF BeginUpdate, NoBatches, Rows
  <2>8. Types'
    BY <1>0, <1>1, <2>1, <2>4, <2>5, <2>6, <2>7 DEF Types, BeginUpdate, Stages
  <2> QED BY <1>0, <1>1, <2>8 DEF BeginUpdate, Inv
<1>2. CASE ApplyRoute
  <2> DEFINE kind == Head(pending)[1]
             nlri == Head(pending)[2]
             id == IdOf(nlri)
             entry == Entry(nlri, update)
             removed == Remove(data, id)
             route_id == IF kind = "announce" \/ Known(data, id)
                         THEN id ELSE None
  <2>1. /\ data' = IF kind = "announce" THEN Insert(removed, id, entry) ELSE removed
        /\ batches' = [batches EXCEPT ![kind] =
                         Append(@, [route_id |-> route_id, entry |-> entry])]
        /\ pending' = Tail(pending)
        /\ UNCHANGED <<stage, update, mirror, ambiguous, disturbed>>
    BY <1>2 DEF ApplyRoute, historyVars
  <2>2. Head(pending) \in Kinds \X Nlri /\ Tail(pending) \in Seq(Kinds \X Nlri)
    BY <1>0, <1>2 DEF ApplyRoute, Types
  <2>3. kind \in Kinds /\ nlri \in Nlri
    BY <2>2
  <2> HIDE DEF kind, nlri
  <2>4. id \in Id /\ entry \in Route /\ entry.id = id
    BY <1>0, <2>3, EntryType DEF Types
  <2>5. Consistent(removed) /\ ~Known(removed, id)
    BY <1>0, <2>4, RemoveConsistent
  <2>6. route_id \in Id \cup {None}
    BY <2>4
  <2> HIDE DEF id, entry, removed, route_id
  <2>7. Consistent(Insert(removed, id, entry))
    BY <2>4, <2>5, InsertConsistent
  <2>8. Consistent(data')
    BY <2>1, <2>5, <2>7
  <2>9. batches' \in [Kinds -> Rows]
    BY <1>0, <2>1, <2>3, <2>4, <2>6, RowType DEF Types
  <2> QED BY <1>0, <2>1, <2>2, <2>8, <2>9 DEF Inv, Types
<1>3. CASE ApplyDone
  BY <1>0, <1>3 DEF ApplyDone, historyVars, Inv, Types, Stages
<1>4. ASSUME NEW kind \in Kinds, EmitBatch(kind)
      PROVE  Inv'
  <2>1. batches[kind] \in Rows /\ << >> \in Rows
    <3>1. << >> \in Rows
      BY DEF Rows
    <3> QED BY <1>0, <1>4, <3>1 DEF Types
  <2>2. batches' \in [Kinds -> Rows]
    BY <1>0, <1>4, <2>1 DEF Types, EmitBatch
  <2>3. DOMAIN mirror' \subseteq Id
    BY <1>0, <1>4, <2>1, ReportedType DEF Types, EmitBatch, Folded, Restrict
  <2> QED BY <1>0, <1>4, <2>2, <2>3 DEF EmitBatch, Inv, Types
<1>5. CASE UpdateDone
  <2>1. update' \in Update
    BY <1>5 DEF UpdateDone, NoUpdate, Update
  <2> QED BY <1>0, <1>5, <2>1 DEF UpdateDone, Inv, Types, Stages
<1>6. CASE Clear
  BY <1>0, <1>6, ClearedConsistent DEF Clear, historyVars, Inv, Types, Stages
<1>7. CASE EmitIdle
  <2>1. disturbed' \in BOOLEAN
    BY <1>7, Zenon DEF EmitIdle
  <2> QED BY <1>0, <1>7, <2>1 DEF EmitIdle, Inv, Types, Stages
<1>8. CASE ForeignClear
  BY <1>0, <1>8, ClearedConsistent DEF ForeignClear, Inv, Types
<1>9. CASE UNCHANGED vars
  BY <1>0, <1>9 DEF vars, historyVars, Inv, Types
<1> QED BY <1>1, <1>2, <1>3, <1>4, <1>5, <1>6, <1>7, <1>8, <1>9 DEF Next

LEMMA Invariance == Spec => []Inv
BY InitInv, NextInv, PTL DEF Spec

(* Types hold and no counter underflows, whatever UPDATEs and clears       *)
(* interleave (app.rs:501-558).                                            *)
THEOREM Typing == Spec => []TypeOK
<1>1. Inv => TypeOK
  BY DEF Inv, Types, TypeOK, Consistent, Rows
<1> QED BY <1>1, Invariance, PTL

(* The identity index and the table are inverse to each other at every     *)
(* critical section (app.rs:530-546).                                      *)
THEOREM IndexCorrect == Spec => []IndexAgrees
<1>1. Inv => IndexAgrees
  BY DEF Inv, Consistent, IndexAgrees
<1> QED BY <1>1, Invariance, PTL

(* The incremental totals are the totals of a recount (app.rs:501-516).    *)
THEOREM CountersCorrect == Spec => []CountersAgree
<1>1. Inv => CountersAgree
  BY DEF Inv, Consistent, CountersAgree
<1> QED BY <1>1, Invariance, PTL

(* The incremental charts are the charts of a recount (app.rs:517-528).    *)
THEOREM AnalyticsCorrect == Spec => []AnalyticsAgree
<1>1. Inv => AnalyticsAgree
  BY DEF Inv, Consistent, AnalyticsAgree
<1> QED BY <1>1, Invariance, PTL

-----------------------------------------------------------------------------
(* Refinement.                                                             *)

RibOf(table) == [id \in DOMAIN table.ids |-> table.routes[table.ids[id]]]
NewerOf(table) == {pair \in (DOMAIN table.ids) \X (DOMAIN table.ids) :
                      table.ids[pair[1]] > table.ids[pair[2]]}

LEMMA ViewRemoved ==
    ASSUME NEW table, Consistent(table), NEW id \in Id
    PROVE  /\ RibOf(Remove(table, id)) =
                [i \in DOMAIN RibOf(table) \ {id} |-> RibOf(table)[i]]
           /\ NewerOf(Remove(table, id)) =
                {pair \in NewerOf(table) : pair[1] # id /\ pair[2] # id}
<1> DEFINE after == Remove(table, id)
<1>1. CASE ~Known(table, id)
  <2>1. after = table
    BY <1>1 DEF Remove
  <2>2. RibOf(table) = [i \in DOMAIN RibOf(table) \ {id} |-> RibOf(table)[i]]
    BY <1>1 DEF RibOf, Known
  <2>3. \A pair \in NewerOf(table) : pair[1] # id /\ pair[2] # id
    BY <1>1 DEF NewerOf, Known
  <2> QED BY <2>1, <2>2, <2>3
<1>2. CASE Known(table, id)
  <2>1. IsTable(table) /\ IndexAgreesIn(table)
    BY DEF Consistent
  <2> DEFINE seq == table.ids[id]
  <2>2. after.routes = Restrict(table.routes, DOMAIN table.routes \ {seq})
        /\ after.ids = Restrict(table.ids, DOMAIN table.ids \ {id})
    <3>1. after = [routes |-> Restrict(table.routes, DOMAIN table.routes \ {seq}),
                   ids |-> Restrict(table.ids, DOMAIN table.ids \ {id}),
                   sequence |-> table.sequence,
                   counts |-> after.counts,
                   analytics |-> after.analytics]
      BY <1>2, <2>1, RemoveFields
    <3> HIDE DEF after
    <3> QED BY <3>1
  <2> HIDE DEF after
  <2>3. /\ DOMAIN after.ids = DOMAIN table.ids \ {id}
        /\ \A i \in DOMAIN after.ids : after.ids[i] = table.ids[i]
        /\ \A n \in DOMAIN table.routes \ {seq} : after.routes[n] = table.routes[n]
    BY <2>2 DEF Restrict
  <2>4. \A i \in DOMAIN table.ids :
          table.ids[i] \in DOMAIN table.routes /\ (table.ids[i] = seq => i = id)
    BY <1>2, <2>1 DEF IsTable, IsPartialFunction, IndexAgreesIn, Known
  <2>5. RibOf(after) = [i \in DOMAIN RibOf(table) \ {id} |-> RibOf(table)[i]]
    BY <2>3, <2>4 DEF RibOf
  <2>6. NewerOf(after) = {pair \in NewerOf(table) : pair[1] # id /\ pair[2] # id}
    BY <2>3 DEF NewerOf
  <2> QED BY <2>5, <2>6 DEF after
<1> QED BY <1>1, <1>2

LEMMA ViewInserted ==
    ASSUME NEW table, Consistent(table), NEW id \in Id, ~Known(table, id),
           NEW route \in Route
    PROVE  /\ RibOf(Insert(table, id, route)) =
                [i \in DOMAIN RibOf(table) \cup {id} |->
                    IF i = id THEN route ELSE RibOf(table)[i]]
           /\ NewerOf(Insert(table, id, route)) =
                NewerOf(table) \cup ({id} \X DOMAIN RibOf(table))
<1> DEFINE after == Insert(table, id, route)
           next == table.sequence + 1
<1>1. IsTable(table)
  BY DEF Consistent
<1>2. after.routes = Put(table.routes, next, route)
      /\ after.ids = Put(table.ids, id, next)
  <2>1. after = [routes |-> Put(table.routes, next, route),
                 ids |-> Put(table.ids, id, next),
                 sequence |-> next,
                 counts |-> after.counts,
                 analytics |-> after.analytics]
    BY <1>1, InsertFields, ZenonT(60)
  <2> HIDE DEF after
  <2> QED BY <2>1
<1>3. /\ next \in Nat
      /\ \A i \in DOMAIN table.ids :
            /\ table.ids[i] \in DOMAIN table.routes
            /\ table.ids[i] \in Nat
            /\ next > table.ids[i]
  <2>1. table.sequence \in Nat
        /\ DOMAIN table.routes \subseteq 1..table.sequence
        /\ \A i \in DOMAIN table.ids : table.ids[i] \in DOMAIN table.routes
    BY <1>1 DEF IsTable, IsPartialFunction
  <2>2. \A i \in DOMAIN table.ids : table.ids[i] \in 1..table.sequence
    BY <2>1
  <2> QED BY <2>1, <2>2
<1> HIDE DEF after, next
<1>4. /\ DOMAIN after.ids = DOMAIN table.ids \cup {id}
      /\ after.ids[id] = next
      /\ \A i \in DOMAIN table.ids : after.ids[i] = table.ids[i]
      /\ after.routes[next] = route
      /\ \A n \in DOMAIN table.routes :
            n # next => after.routes[n] = table.routes[n]
  BY <1>2 DEF Put, Known
<1>5. \A i \in DOMAIN table.ids : table.ids[i] # next
  BY <1>3
<1>6. RibOf(after) = [i \in DOMAIN RibOf(table) \cup {id} |->
                        IF i = id THEN route ELSE RibOf(table)[i]]
  BY <1>3, <1>4, <1>5 DEF RibOf, Known
<1>7. NewerOf(after) = NewerOf(table) \cup ({id} \X DOMAIN RibOf(table))
  <2>1. id \notin DOMAIN table.ids
    BY DEF Known
  <2>2. \A i, j \in DOMAIN after.ids :
          after.ids[i] > after.ids[j] <=>
            \/ i \in DOMAIN table.ids /\ j \in DOMAIN table.ids
               /\ table.ids[i] > table.ids[j]
            \/ i = id /\ j \in DOMAIN table.ids
    BY <1>3, <1>4, <2>1
  <2> QED BY <1>4, <2>1, <2>2 DEF NewerOf, RibOf
<1> QED BY <1>6, <1>7 DEF after

(* Every critical section is an announcement, a withdrawal, a clear, or    *)
(* leaves the map and its order alone.                                     *)
LEMMA StepRefines == Inv /\ [Next]_vars => [Abstract!Next]_(Abstract!ribVars)
<1> SUFFICES ASSUME Inv, [Next]_vars
             PROVE  Abstract!Next \/ (RibOf(data)' = RibOf(data)
                                      /\ NewerOf(data)' = NewerOf(data))
  BY DEF Abstract!ribVars, RibOf, NewerOf
<1>0. Consistent(data) /\ Types
  BY DEF Inv
<1>1. CASE ApplyRoute
  <2> DEFINE kind == Head(pending)[1]
             nlri == Head(pending)[2]
  <2>1. data' = IF kind = "announce"
                THEN Insert(Remove(data, IdOf(nlri)), IdOf(nlri), Entry(nlri, update))
                ELSE Remove(data, IdOf(nlri))
    BY <1>1 DEF ApplyRoute
  <2>2. nlri \in Nlri
    <3>1. Head(pending) \in Kinds \X Nlri
      BY <1>0, <1>1 DEF ApplyRoute, Types
    <3> QED BY <3>1
  <2> HIDE DEF kind, nlri
  <2>a. PICK id \in Id : id = IdOf(nlri)
    BY <1>0, <2>2, EntryType DEF Types
  <2>b. PICK entry \in Route : entry = Entry(nlri, update)
    BY <1>0, <2>2, EntryType DEF Types
  <2> DEFINE removed == Remove(data, id)
             others == DOMAIN RibOf(data) \ {id}
  <2>3. data' = IF kind = "announce" THEN Insert(removed, id, entry) ELSE removed
    BY <2>1, <2>a, <2>b
  <2>4. Consistent(removed) /\ ~Known(removed, id)
    BY <1>0, RemoveConsistent
  <2>5. /\ RibOf(removed) = [i \in others |-> RibOf(data)[i]]
        /\ NewerOf(removed) =
             {pair \in NewerOf(data) : pair[1] # id /\ pair[2] # id}
    BY <1>0, ViewRemoved
  <2> HIDE DEF removed
  <2>6. CASE kind = "announce"
    <3>1. /\ RibOf(data') = [i \in others \cup {id} |->
                               IF i = id THEN entry ELSE RibOf(data)[i]]
          /\ NewerOf(data') = NewerOf(removed) \cup ({id} \X others)
      <4>1. /\ RibOf(data') = [i \in DOMAIN RibOf(removed) \cup {id} |->
                                 IF i = id THEN entry ELSE RibOf(removed)[i]]
            /\ NewerOf(data') =
                 NewerOf(removed) \cup ({id} \X DOMAIN RibOf(removed))
        <5>1. data' = Insert(removed, id, entry)
          BY <2>3, <2>6
        <5>2. /\ RibOf(Insert(removed, id, entry)) =
                   [i \in DOMAIN RibOf(removed) \cup {id} |->
                      IF i = id THEN entry ELSE RibOf(removed)[i]]
              /\ NewerOf(Insert(removed, id, entry)) =
                   NewerOf(removed) \cup ({id} \X DOMAIN RibOf(removed))
          BY <2>4, ViewInserted
        <5> QED BY <5>1, <5>2, Zenon
      <4> QED BY <2>5, <4>1
    <3>2. id \in DOMAIN RibOf(data') /\ RibOf(data')[id] = entry
      BY <3>1
    <3>3. Abstract!AnnounceSome(id)
      BY <2>5, <3>1, <3>2
      DEF Abstract!AnnounceSome, Abstract!Announce, Abstract!Without, RibOf, NewerOf
    <3> QED BY <3>3 DEF Abstract!Next
  <2>7. CASE kind # "announce" /\ Known(data, id)
    <3>1. Abstract!Withdraw(id)
      BY <2>3, <2>5, <2>7
      DEF Abstract!Withdraw, Abstract!Without, RibOf, NewerOf, Known
    <3> QED BY <3>1 DEF Abstract!Next
  <2>8. CASE kind # "announce" /\ ~Known(data, id)
    <3>1. data' = data
      BY <2>3, <2>8 DEF removed, Remove
    <3> QED BY <3>1 DEF RibOf, NewerOf
  <2> QED BY <2>6, <2>7, <2>8
<1>2. CASE data' = Cleared(data)
  <2>1. data'.ids = << >>
    BY <1>2 DEF Cleared, EmptyTable
  <2>2. RibOf(data') = << >> /\ NewerOf(data') = {}
    BY <2>1 DEF RibOf, NewerOf
  <2>3. Abstract!Clear
    BY <2>2 DEF Abstract!Clear, RibOf, NewerOf
  <2> QED BY <2>3 DEF Abstract!Next
<1>3. CASE UNCHANGED data
  BY <1>3 DEF RibOf, NewerOf
<1> QED BY <1>1, <1>2, <1>3 DEF Next, BeginUpdate, ApplyDone, EmitBatch,
        UpdateDone, Clear, EmitIdle, ForeignClear, vars

LEMMA InitRefines == Init => Abstract!Init
BY DEF Init, EmptyTable, Abstract!Init

(* The indexed table implements a map ordered by last reception.           *)
THEOREM RibImplements == Spec => ImplementsRib
BY InitRefines, StepRefines, Invariance, PTL
DEF Spec, ImplementsRib, Abstract!Spec

-----------------------------------------------------------------------------
(* What an UPDATE leaves in the table, and what a client that folds its    *)
(* events knows of it.                                                     *)
(*                                                                         *)
(* Both are about an UPDATE that is half applied.  The table is what the   *)
(* last step on each identity has made of it (Progress); the client will   *)
(* agree with the table once it has heard the batches, in either order,    *)
(* because outside `ambiguous` no identity is in both (Apart, Following).  *)

Row(table, id) == table.routes[table.ids[id]]
Same(one, other, id) ==
    /\ Known(one, id) <=> Known(other, id)
    /\ Known(one, id) => Row(one, id) = Row(other, id)

(* The steps of the UPDATE, and how many of them are done.                 *)
AtWork == stage \in {"applying", "emitting"}
Done == Len(Flatten(update)) - Len(pending)
On(k, id) == IdOf(Flatten(update)[k][2]) = id
LeftBy(step, id) ==
    IF step[1] = "announce"
    THEN Known(data, id) /\ Row(data, id) = Entry(step[2], update)
    ELSE ~Known(data, id)

(* What is pending is the rest of the UPDATE.                              *)
Remainder ==
    /\ AtWork =>
          /\ Len(pending) <= Len(Flatten(update))
          /\ \A i \in 1..Len(pending) : pending[i] = Flatten(update)[Done + i]
    /\ stage # "applying" => pending = << >>

(* Each identity is as the last step on it has left it.                    *)
Progress ==
    AtWork /\ ~disturbed => \A id \in Id :
        \/ \E k \in 1..Done :
              /\ On(k, id)
              /\ \A j \in (k + 1)..Done : ~On(j, id)
              /\ LeftBy(Flatten(update)[k], id)
        \/ /\ \A j \in 1..Done : ~On(j, id)
           /\ Same(data, before, id)

(* What the client has not heard of yet.                                   *)
Targets(steps, kind) ==
    {IdOf(steps[i][2]) : i \in {j \in DOMAIN steps : steps[j][1] = kind}}
Coming(kind) == Targets(pending, kind)
Told(kind) == Reported(batches[kind])
Newest(rows, id, i) ==
    /\ i \in DOMAIN rows
    /\ rows[i].route_id = id
    /\ \A j \in DOMAIN rows : rows[j].route_id = id => j <= i
Agrees(id) ==
    /\ id \in DOMAIN mirror <=> Known(data, id)
    /\ Known(data, id) => mirror[id] = Row(data, id)

Apart ==
    \A id \in Id \ ambiguous :
        id \notin (Coming("announce") \cup Told("announce"))
                  \cap (Coming("withdraw") \cup Told("withdraw"))

(* With its rows heard, the client will know what the table has.           *)
Following ==
    /\ stage \in {"ready", "cleared"} => batches = NoBatches
    /\ stage = "cleared" => \A id \in Id : ~Known(data, id)
    /\ ~disturbed => \A id \in Id \ ambiguous :
          /\ stage # "cleared" =>
                \/ Agrees(id)
                \/ id \in Coming("announce") \cup Told("announce") \cup Told("withdraw")
          /\ id \in Told("withdraw") => ~Known(data, id)
          /\ id \in Told("announce") =>
                /\ Known(data, id)
                /\ \E i \in DOMAIN batches["announce"] :
                      /\ Newest(batches["announce"], id, i)
                      /\ batches["announce"][i].entry = Row(data, id)

UInv == Inv /\ Remainder /\ Progress /\ Apart /\ Following

-----------------------------------------------------------------------------
(* What a step does to the table, one identity at a time.                  *)

LEMMA RowRemoved ==
    ASSUME NEW table, Consistent(table), NEW id \in Id
    PROVE  /\ ~Known(Remove(table, id), id)
           /\ \A other \in Id \ {id} : Same(Remove(table, id), table, other)
<1>1. ~Known(Remove(table, id), id)
  BY RemoveConsistent
<1>2. RibOf(Remove(table, id)) = [i \in DOMAIN RibOf(table) \ {id} |-> RibOf(table)[i]]
  BY ViewRemoved
<1> DEFINE after == Remove(table, id)
<1> HIDE DEF after
<1>3. RibOf(after) = [i \in DOMAIN RibOf(table) \ {id} |-> RibOf(table)[i]]
  BY <1>2 DEF after
<1>4. /\ DOMAIN RibOf(after) = DOMAIN after.ids /\ DOMAIN RibOf(table) = DOMAIN table.ids
      /\ \A i \in DOMAIN after.ids : RibOf(after)[i] = Row(after, i)
      /\ \A i \in DOMAIN table.ids : RibOf(table)[i] = Row(table, i)
  BY DEF RibOf, Row
<1>5. \A other \in Id \ {id} : Same(after, table, other)
  BY <1>3, <1>4 DEF Same, Known
<1> QED BY <1>1, <1>5 DEF after

LEMMA RowInserted ==
    ASSUME NEW table, Consistent(table), NEW id \in Id, ~Known(table, id),
           NEW route \in Route
    PROVE  /\ Known(Insert(table, id, route), id)
           /\ Row(Insert(table, id, route), id) = route
           /\ \A other \in Id \ {id} : Same(Insert(table, id, route), table, other)
<1> DEFINE after == Insert(table, id, route)
<1> HIDE DEF after
<1>1. RibOf(after) = [i \in DOMAIN RibOf(table) \cup {id} |->
                        IF i = id THEN route ELSE RibOf(table)[i]]
  <2>1. /\ RibOf(Insert(table, id, route)) =
             [i \in DOMAIN RibOf(table) \cup {id} |->
                IF i = id THEN route ELSE RibOf(table)[i]]
        /\ NewerOf(Insert(table, id, route)) =
             NewerOf(table) \cup ({id} \X DOMAIN RibOf(table))
    BY ViewInserted
  <2> QED BY <2>1 DEF after
<1>2. /\ DOMAIN RibOf(after) = DOMAIN after.ids /\ DOMAIN RibOf(table) = DOMAIN table.ids
      /\ \A i \in DOMAIN after.ids : RibOf(after)[i] = Row(after, i)
      /\ \A i \in DOMAIN table.ids : RibOf(table)[i] = Row(table, i)
  BY DEF RibOf, Row
<1>3. /\ Known(after, id) /\ Row(after, id) = route
      /\ \A other \in Id \ {id} : Same(after, table, other)
  BY <1>1, <1>2 DEF Same, Known
<1> QED BY <1>3 DEF after

(* One turn of the loop: the row of its own identity comes or goes.        *)
LEMMA RouteApplied ==
    ASSUME Inv, ApplyRoute
    PROVE  LET kind == Head(pending)[1]
               nlri == Head(pending)[2]
               id == IdOf(nlri)
               row == [route_id |-> IF kind = "announce" \/ Known(data, id)
                                    THEN id ELSE None,
                       entry |-> Entry(nlri, update)]
           IN  /\ kind \in Kinds /\ nlri \in Nlri /\ id \in Id
               /\ IF kind = "announce"
                  THEN Known(data', id) /\ Row(data', id) = Entry(nlri, update)
                  ELSE ~Known(data', id)
               /\ \A other \in Id \ {id} : Same(data', data, other)
               /\ pending' = Tail(pending)
               /\ batches' = [batches EXCEPT ![kind] = Append(@, row)]
               /\ UNCHANGED <<stage, update, historyVars>>
<1> DEFINE kind == Head(pending)[1]
           nlri == Head(pending)[2]
           id == IdOf(nlri)
           entry == Entry(nlri, update)
           removed == Remove(data, id)
           row == [route_id |-> IF kind = "announce" \/ Known(data, id) THEN id ELSE None,
                   entry |-> entry]
<1>1. /\ data' = IF kind = "announce" THEN Insert(removed, id, entry) ELSE removed
      /\ batches' = [batches EXCEPT ![kind] = Append(@, row)]
      /\ pending' = Tail(pending)
      /\ UNCHANGED <<stage, update, historyVars>>
  BY DEF ApplyRoute
<1>2. kind \in Kinds /\ nlri \in Nlri
  <2>1. Head(pending) \in Kinds \X Nlri
    BY DEF ApplyRoute, Inv, Types
  <2> QED BY <2>1
<1> HIDE DEF kind, nlri
<1>3. id \in Id /\ entry \in Route
  BY <1>2, EntryType DEF Inv, Types
<1> HIDE DEF id, entry, row
<1>4. Consistent(data) /\ Consistent(removed)
  BY <1>3, RemoveConsistent DEF Inv
<1>5. /\ ~Known(removed, id)
      /\ \A other \in Id \ {id} : Same(removed, data, other)
  BY <1>3, <1>4, RowRemoved
<1> HIDE DEF removed
<1>6. CASE kind = "announce"
  <2>1. data' = Insert(removed, id, entry)
    BY <1>1, <1>6
  <2>2. /\ Known(data', id) /\ Row(data', id) = entry
        /\ \A other \in Id \ {id} : Same(data', removed, other)
    BY <1>3, <1>4, <1>5, <2>1, RowInserted, Zenon
  <2>3. \A other \in Id \ {id} : Same(data', data, other)
    BY <1>5, <2>2 DEF Same
  <2> QED BY <1>1, <1>2, <1>3, <1>6, <2>2, <2>3 DEF kind, nlri, id, entry, row
<1>7. CASE kind # "announce"
  <2>1. data' = removed
    BY <1>1, <1>7
  <2> QED BY <1>1, <1>2, <1>3, <1>5, <1>7, <2>1 DEF kind, nlri, id, entry, row
<1> QED BY <1>6, <1>7

(* A cleared table has no route.                                           *)
LEMMA NoneKnown ==
    ASSUME NEW id
    PROVE  ~Known(Cleared(data), id)
BY DEF Cleared, EmptyTable, Known

(* The UPDATE taken from the peer, and the one that is applied.            *)
LEMMA Begun ==
    ASSUME Inv, BeginUpdate
    PROVE  /\ update' \in Update
           /\ pending' = Flatten(update')
           /\ Flatten(update') \in Seq(Kinds \X Nlri)
           /\ ambiguous' = (ambiguous \ Ids(update'.announce))
                              \cup (Ids(update'.announce) \cap Ids(update'.withdraw))
<1>1. PICK u \in Updates :
        /\ update' = [u EXCEPT !.as_path = MergedPath(@, u.as4_path)]
        /\ pending' = Flatten(u)
        /\ ambiguous' = (ambiguous \ Ids(u.announce))
                           \cup (Ids(u.announce) \cap Ids(u.withdraw))
  BY DEF BeginUpdate
<1>2. u \in Update
  BY UpdatesAssumption
<1>3. /\ MergedPath(u.as_path, u.as4_path) \in Seq(Label)
      /\ update' \in Update
      /\ update'.announce = u.announce /\ update'.withdraw = u.withdraw
  <2>1. MergedPath(u.as_path, u.as4_path) \in Seq(Label)
    BY <1>2, MergedPathType DEF Update
  <2> QED BY <1>1, <1>2, <2>1 DEF Update
<1>4. Flatten(update') = Flatten(u)
  BY <1>3 DEF Flatten
<1>5. Flatten(update') \in Seq(Kinds \X Nlri)
  BY <1>3, FlattenType
<1> QED BY <1>1, <1>3, <1>4, <1>5

-----------------------------------------------------------------------------
(* An UPDATE half applied.                                                 *)

LEMMA Counts ==
    ASSUME Inv, Remainder, AtWork
    PROVE  /\ Flatten(update) \in Seq(Kinds \X Nlri)
           /\ Len(Flatten(update)) \in Nat /\ Len(pending) \in Nat /\ Done \in Nat
           /\ Done + Len(pending) = Len(Flatten(update))
<1>1. Flatten(update) \in Seq(Kinds \X Nlri) /\ pending \in Seq(Kinds \X Nlri)
  BY FlattenType DEF Inv, Types
<1>2. Len(Flatten(update)) \in Nat /\ Len(pending) \in Nat
  BY <1>1
<1>3. Len(pending) <= Len(Flatten(update))
  BY DEF Remainder
<1> QED BY <1>1, <1>2, <1>3 DEF Done

(* What is applied next is what the UPDATE has next.                       *)
LEMMA Turn ==
    ASSUME Inv, Remainder, ApplyRoute
    PROVE  /\ AtWork
           /\ Done' = Done + 1
           /\ Done \in Nat /\ Done + 1 <= Len(Flatten(update))
           /\ Head(pending) = Flatten(update)[Done + 1]
           /\ Len(pending') \in Nat /\ Len(pending') + 1 = Len(pending)
           /\ \A i \in 1..Len(pending') : pending'[i] = pending[i + 1]
<1>1. /\ AtWork /\ pending # << >> /\ pending \in Seq(Kinds \X Nlri)
      /\ pending' = Tail(pending) /\ update' = update
  BY DEF ApplyRoute, Inv, Types, AtWork
<1>2. /\ Len(pending) \in Nat \ {0} /\ Head(pending) = pending[1]
      /\ Len(pending') = Len(pending) - 1
      /\ \A i \in 1..Len(pending') : pending'[i] = pending[i + 1]
  BY <1>1
<1>3. pending[1] = Flatten(update)[Done + 1]
  BY <1>1, <1>2 DEF Remainder
<1>4. Flatten(update)' = Flatten(update)
  BY <1>1 DEF Flatten
<1> QED BY <1>1, <1>2, <1>3, <1>4, Counts DEF Done

LEMMA NextRemainder ==
    ASSUME Inv, Remainder, [Next]_vars
    PROVE  Remainder'
<1>1. CASE BeginUpdate
  <2>1. pending' = Flatten(update') /\ Len(Flatten(update')) \in Nat
    BY <1>1, Begun
  <2>2. Done' = 0
    BY <2>1 DEF Done
  <2>3. stage' = "applying"
    BY <1>1 DEF BeginUpdate
  <2> QED BY <2>1, <2>2, <2>3 DEF Remainder
<1>2. CASE ApplyRoute
  <2>1. UNCHANGED <<stage, update>> /\ stage = "applying"
    BY <1>2 DEF ApplyRoute
  <2>2. Flatten(update)' = Flatten(update)
    BY <2>1 DEF Flatten
  <2>3. ASSUME NEW i \in 1..Len(pending')
        PROVE  pending'[i] = Flatten(update)[Done' + i]
    <3>1. i + 1 \in 1..Len(pending) /\ pending'[i] = pending[i + 1] /\ AtWork
      BY <1>2, <2>3, Turn
    <3>2. pending[i + 1] = Flatten(update)[Done + (i + 1)]
      BY <3>1 DEF Remainder
    <3>3. Done + (i + 1) = Done' + i
      BY <1>2, <2>3, Turn
    <3> QED BY <3>1, <3>2, <3>3
  <2>4. Len(pending') <= Len(Flatten(update))
    BY <1>2, Turn, Counts
  <2> QED BY <2>1, <2>2, <2>3, <2>4 DEF Remainder
<1>3. CASE ApplyDone
  BY <1>3 DEF ApplyDone, Remainder, AtWork, Done
<1>4. ASSUME NEW kind \in Kinds, EmitBatch(kind)
      PROVE  Remainder'
  BY <1>4 DEF EmitBatch, Remainder, AtWork, Done
<1>5. CASE UpdateDone
  BY <1>5 DEF UpdateDone, Remainder, AtWork
<1>6. CASE Clear
  BY <1>6 DEF Clear, Remainder, AtWork
<1>7. CASE EmitIdle
  BY <1>7 DEF EmitIdle, Remainder, AtWork
<1>8. CASE ForeignClear
  BY <1>8 DEF ForeignClear, Remainder, AtWork, Done
<1>9. CASE UNCHANGED vars
  BY <1>9 DEF vars, Remainder, AtWork, Done
<1> QED BY <1>1, <1>2, <1>3, <1>4, <1>5, <1>6, <1>7, <1>8, <1>9 DEF Next

LEMMA NextProgress ==
    ASSUME Inv, Remainder, Progress, [Next]_vars
    PROVE  Progress'
<1> SUFFICES ASSUME AtWork', ~disturbed', NEW id \in Id
             PROVE  \/ \E k \in 1..(Done') :
                          /\ On(k, id)'
                          /\ \A j \in (k + 1)..(Done') : ~On(j, id)'
                          /\ LeftBy(Flatten(update)[k], id)'
                    \/ /\ \A j \in 1..(Done') : ~On(j, id)'
                       /\ Same(data, before, id)'
  BY DEF Progress
<1>1. CASE BeginUpdate
  <2>1. pending' = Flatten(update') /\ Len(Flatten(update')) \in Nat
    BY <1>1, Begun
  <2>2. Done' = 0
    BY <2>1 DEF Done
  <2>3. data' = data /\ before' = data
    BY <1>1 DEF BeginUpdate
  <2> QED BY <2>2, <2>3 DEF Same
<1>2. CASE ApplyRoute
  <2>1. PICK n \in Nat : n = Done
    BY <1>2, Turn
  <2>2. Done' = n + 1 /\ AtWork /\ Head(pending) = Flatten(update)[n + 1]
    BY <1>2, <2>1, Turn
  <2> DEFINE step == Flatten(update)[n + 1]
             own == IdOf(step[2])
  <2>3. /\ UNCHANGED <<stage, update, historyVars>>
        /\ IF step[1] = "announce"
           THEN Known(data', own) /\ Row(data', own) = Entry(step[2], update)
           ELSE ~Known(data', own)
        /\ \A other \in Id \ {own} : Same(data', data, other)
    BY <1>2, <2>2, RouteApplied
  <2>4. /\ Flatten(update)' = Flatten(update)
        /\ before' = before /\ ~disturbed
    BY <2>3 DEF Flatten, historyVars
  <2>5. \A k : On(k, id)' <=> On(k, id)
    BY <2>4 DEF On
  <2>6. CASE id = own
    <3>1. On(n + 1, id)'
      BY <2>5, <2>6 DEF On
    <3>2. LeftBy(Flatten(update)[n + 1], id)'
      BY <2>3, <2>4, <2>6 DEF LeftBy
    <3>3. n + 1 \in 1..(n + 1) /\ \A j \in ((n + 1) + 1)..(n + 1) : FALSE
      OBVIOUS
    <3> QED BY <2>2, <3>1, <3>2, <3>3
  <2>7. CASE id # own
    <3>1. Same(data', data, id) /\ ~On(n + 1, id)'
      BY <2>3, <2>5, <2>7 DEF On
    <3>2. CASE \E k \in 1..n :
                  /\ On(k, id)
                  /\ \A j \in (k + 1)..n : ~On(j, id)
                  /\ LeftBy(Flatten(update)[k], id)
      <4>1. PICK k \in 1..n :
                  /\ On(k, id)
                  /\ \A j \in (k + 1)..n : ~On(j, id)
                  /\ LeftBy(Flatten(update)[k], id)
        BY <3>2
      <4>2. LeftBy(Flatten(update)[k], id)'
        BY <2>3, <2>4, <3>1, <4>1 DEF LeftBy, Same
      <4>3. k \in 1..(n + 1) /\ \A j \in (k + 1)..(n + 1) : j = n + 1 \/ j \in (k + 1)..n
        OBVIOUS
      <4>4. \A j \in (k + 1)..(n + 1) : ~On(j, id)'
        BY <2>5, <3>1, <4>1, <4>3
      <4> QED BY <2>2, <2>5, <4>1, <4>2, <4>3, <4>4
    <3>3. CASE (\A j \in 1..n : ~On(j, id)) /\ Same(data, before, id)
      <4>1. \A j \in 1..(n + 1) : j = n + 1 \/ j \in 1..n
        OBVIOUS
      <4>2. \A j \in 1..(n + 1) : ~On(j, id)'
        BY <2>5, <3>1, <3>3, <4>1
      <4>3. Same(data, before, id)'
        BY <2>4, <3>1, <3>3 DEF Same
      <4> QED BY <2>2, <4>2, <4>3
    <3> QED BY <2>1, <2>2, <2>4, <3>2, <3>3 DEF Progress
  <2> QED BY <2>6, <2>7
<1>3. CASE ApplyDone
  BY <1>3 DEF ApplyDone, Progress, AtWork, Done, On, LeftBy, Same, historyVars
<1>4. ASSUME NEW kind \in Kinds, EmitBatch(kind)
      PROVE  UNCHANGED <<data, stage, update, pending, before, disturbed>>
  BY <1>4 DEF EmitBatch
<1>5. CASE UNCHANGED <<data, stage, update, pending, before, disturbed>>
  BY <1>5 DEF Progress, AtWork, Done, On, LeftBy, Same
<1>6. CASE UpdateDone
  BY <1>6 DEF UpdateDone, AtWork
<1>7. CASE Clear
  BY <1>7 DEF Clear, AtWork
<1>8. CASE EmitIdle
  BY <1>8 DEF EmitIdle, AtWork
<1>9. CASE ForeignClear
  BY <1>9 DEF ForeignClear
<1>10. CASE UNCHANGED vars
  BY <1>5, <1>10 DEF vars, historyVars
<1> QED BY <1>1, <1>2, <1>3, <1>4, <1>5, <1>6, <1>7, <1>8, <1>9, <1>10 DEF Next

-----------------------------------------------------------------------------
(* Rows, and what is still to come.                                        *)

LEMMA RowsGrow ==
    ASSUME NEW rows \in Rows, NEW row \in [route_id : Id \cup {None}, entry : Route]
    PROVE  /\ Append(rows, row) \in Rows
           /\ Reported(Append(rows, row)) = Reported(rows) \cup ({row.route_id} \ {None})
           /\ \A id \in Id :
                 /\ row.route_id = id => /\ Newest(Append(rows, row), id, Len(rows) + 1)
                                         /\ Append(rows, row)[Len(rows) + 1] = row
                 /\ row.route_id # id => \A i \in DOMAIN rows :
                       Newest(rows, id, i) => /\ Newest(Append(rows, row), id, i)
                                              /\ Append(rows, row)[i] = rows[i]
<1> DEFINE after == Append(rows, row)
           n == Len(rows) + 1
<1>1. rows \in Seq([route_id : Id \cup {None}, entry : Route])
  BY DEF Rows
<1>2. /\ after \in Rows
      /\ n \in Nat \ {0} /\ DOMAIN rows = 1..(n - 1) /\ DOMAIN after = 1..n
      /\ after[n] = row
      /\ \A i \in 1..(n - 1) : after[i] = rows[i]
  BY <1>1 DEF Rows
<1> HIDE DEF after, n
<1>3. /\ n \in DOMAIN after /\ \A i \in DOMAIN rows : i \in DOMAIN after /\ i <= n
      /\ \A i \in DOMAIN after : i = n \/ i \in DOMAIN rows
      /\ n <= n
  BY <1>2
<1>4. Reported(after) = Reported(rows) \cup ({row.route_id} \ {None})
  <2>1. {after[i].route_id : i \in DOMAIN after}
          = {rows[i].route_id : i \in DOMAIN rows} \cup {row.route_id}
    BY <1>2, <1>3
  <2> QED BY <2>1 DEF Reported
<1>5. ASSUME NEW id \in Id, row.route_id = id
      PROVE  Newest(after, id, n)
  BY <1>2, <1>3, <1>5 DEF Newest
<1>6. ASSUME NEW id \in Id, row.route_id # id, NEW i \in DOMAIN rows, Newest(rows, id, i)
      PROVE  Newest(after, id, i) /\ after[i] = rows[i]
  BY <1>2, <1>3, <1>6 DEF Newest
<1> QED BY <1>2, <1>4, <1>5, <1>6 DEF after, n

(* The steps of an UPDATE are on what it announces and withdraws.          *)
LEMMA AllTargets ==
    ASSUME NEW u \in Update
    PROVE  /\ Targets(Flatten(u), "announce") = Ids(u.announce)
           /\ Targets(Flatten(u), "withdraw") = Ids(u.withdraw)
<1> DEFINE f == Flatten(u)
           a == Len(u.announce)
           b == Len(u.withdraw)
<1>1. /\ a \in Nat /\ b \in Nat
      /\ DOMAIN u.announce = 1..a /\ DOMAIN u.withdraw = 1..b
  <2>1. u.announce \in Seq(Nlri) /\ u.withdraw \in Seq(Nlri)
    BY DEF Update
  <2> QED BY <2>1
<1>2. /\ DOMAIN f = 1..(a + b)
      /\ \A i \in 1..(a + b) :
            f[i] = IF i <= a THEN <<"announce", u.announce[i]>>
                             ELSE <<"withdraw", u.withdraw[i - a]>>
  BY DEF Flatten
<1> HIDE DEF f, a, b
<1>3. \A i \in 1..a : i \in 1..(a + b) /\ i <= a
  BY <1>1
<1>4. \A i \in 1..b : a + i \in 1..(a + b) /\ ~(a + i <= a) /\ (a + i) - a = i
  BY <1>1
<1>5. \A i \in 1..(a + b) : IF i <= a THEN i \in 1..a ELSE i - a \in 1..b
  BY <1>1
<1>6. \A i \in 1..a : f[i] = <<"announce", u.announce[i]>> /\ i \in DOMAIN f
  BY <1>2, <1>3
<1>7. \A i \in 1..b : f[a + i] = <<"withdraw", u.withdraw[i]>> /\ a + i \in DOMAIN f
  BY <1>2, <1>4
<1>8. \A i \in DOMAIN f :
         \/ i \in 1..a /\ f[i] = <<"announce", u.announce[i]>>
         \/ i - a \in 1..b /\ f[i] = <<"withdraw", u.withdraw[i - a]>>
  BY <1>2, <1>5
<1>9. Targets(f, "announce") = Ids(u.announce)
  <2>1. ASSUME NEW x \in Targets(f, "announce") PROVE x \in Ids(u.announce)
    BY <1>1, <1>8 DEF Targets, Ids
  <2>2. ASSUME NEW x \in Ids(u.announce) PROVE x \in Targets(f, "announce")
    BY <1>1, <1>6 DEF Targets, Ids
  <2> QED BY <2>1, <2>2
<1>10. Targets(f, "withdraw") = Ids(u.withdraw)
  <2>1. ASSUME NEW x \in Targets(f, "withdraw") PROVE x \in Ids(u.withdraw)
    BY <1>1, <1>8 DEF Targets, Ids
  <2>2. ASSUME NEW x \in Ids(u.withdraw) PROVE x \in Targets(f, "withdraw")
    BY <1>1, <1>7, SMTT(60) DEF Targets, Ids
  <2> QED BY <2>1, <2>2
<1> QED BY <1>9, <1>10 DEF f

LEMMA FewerTargets ==
    ASSUME NEW steps \in Seq(Kinds \X Nlri), steps # << >>, NEW kind \in Kinds
    PROVE  Targets(steps, kind) =
              Targets(Tail(steps), kind)
                \cup (IF Head(steps)[1] = kind THEN {IdOf(Head(steps)[2])} ELSE {})
<1> DEFINE n == Len(steps)
           t == Tail(steps)
<1>1. /\ n \in Nat \ {0} /\ DOMAIN steps = 1..n /\ Head(steps) = steps[1]
      /\ DOMAIN t = 1..(n - 1) /\ \A i \in 1..(n - 1) : t[i] = steps[i + 1]
  OBVIOUS
<1> HIDE DEF n, t
<1>2. /\ 1 \in 1..n
      /\ \A i \in 1..(n - 1) : i + 1 \in 1..n
      /\ \A i \in 1..n : i = 1 \/ (i - 1 \in 1..(n - 1) /\ (i - 1) + 1 = i)
  BY <1>1
<1>3. \A i \in DOMAIN steps : i = 1 \/ \E j \in DOMAIN t : steps[i] = t[j]
  BY <1>1, <1>2
<1>4. \A j \in DOMAIN t : \E i \in DOMAIN steps : steps[i] = t[j]
  BY <1>1, <1>2
<1>5. \A x \in Targets(steps, kind) :
         x \in Targets(t, kind) \/ (Head(steps)[1] = kind /\ x = IdOf(Head(steps)[2]))
  BY <1>1, <1>3 DEF Targets
<1>6. \A x \in Targets(t, kind) : x \in Targets(steps, kind)
  BY <1>4 DEF Targets
<1>7. Head(steps)[1] = kind => IdOf(Head(steps)[2]) \in Targets(steps, kind)
  BY <1>1, <1>2 DEF Targets
<1> QED BY <1>5, <1>6, <1>7 DEF t

LEMMA NothingTold ==
    /\ Reported(<< >>) = {}
    /\ \A kind \in Kinds : Reported(NoBatches[kind]) = {}
    /\ \A kind : Targets(<< >>, kind) = {}
BY DEF Reported, NoBatches, Targets

(* A step of the UPDATE moves its identity from what comes to what is told.*)
LEMMA RouteTold ==
    ASSUME Inv, ApplyRoute
    PROVE  LET own == IdOf(Head(pending)[2])
               row == [route_id |-> IF Head(pending)[1] = "announce" \/ Known(data, own)
                                    THEN own ELSE None,
                       entry |-> Entry(Head(pending)[2], update)]
           IN  /\ row \in [route_id : Id \cup {None}, entry : Route]
               /\ \A kind \in Kinds :
                     /\ batches[kind] \in Rows
                     /\ batches'[kind] = IF Head(pending)[1] = kind
                                         THEN Append(batches[kind], row)
                                         ELSE batches[kind]
                     /\ Coming(kind) = Coming(kind)'
                           \cup (IF Head(pending)[1] = kind THEN {own} ELSE {})
                     /\ Told(kind)' = Told(kind)
                           \cup (IF Head(pending)[1] = kind
                                 THEN {row.route_id} \ {None} ELSE {})
<1> DEFINE first == Head(pending)[1]
           nlri == Head(pending)[2]
           own == IdOf(nlri)
           row == [route_id |-> IF first = "announce" \/ Known(data, own) THEN own ELSE None,
                   entry |-> Entry(nlri, update)]
<1>1. /\ first \in Kinds /\ nlri \in Nlri /\ own \in Id
      /\ pending' = Tail(pending)
      /\ batches' = [batches EXCEPT ![first] = Append(@, row)]
  BY RouteApplied
<1>2. /\ pending \in Seq(Kinds \X Nlri) /\ pending # << >>
      /\ batches \in [Kinds -> Rows]
  BY DEF ApplyRoute, Inv, Types
<1>3. \A kind \in Kinds :
        Coming(kind) = Coming(kind)' \cup (IF first = kind THEN {own} ELSE {})
  BY <1>1, <1>2, FewerTargets DEF Coming
<1>4. Entry(nlri, update) \in Route
  BY <1>1, EntryType DEF Inv, Types
<1> HIDE DEF first, nlri, own
<1>5. row \in [route_id : Id \cup {None}, entry : Route]
  BY <1>1, <1>4
<1> HIDE DEF row
<1>6. \A kind \in Kinds :
         /\ batches[kind] \in Rows
         /\ batches'[kind] = IF first = kind THEN Append(batches[kind], row)
                                             ELSE batches[kind]
  BY <1>1, <1>2
<1>7. \A kind \in Kinds :
        Told(kind)' = Told(kind) \cup (IF first = kind THEN {row.route_id} \ {None} ELSE {})
  BY <1>5, <1>6, RowsGrow DEF Told
<1> QED BY <1>3, <1>5, <1>6, <1>7 DEF first, nlri, own, row

LEMMA NextApart ==
    ASSUME Inv, Remainder, Apart, Following, [Next]_vars
    PROVE  Apart'
<1>1. ASSUME ambiguous' = ambiguous,
             \A kind \in Kinds : Coming(kind)' \cup Told(kind)' \subseteq Coming(kind) \cup Told(kind)
      PROVE  Apart'
  BY <1>1 DEF Apart, Kinds
<1>2. CASE BeginUpdate
  <2>1. /\ update' \in Update /\ pending' = Flatten(update') /\ batches' = NoBatches
        /\ ambiguous' = (ambiguous \ Ids(update'.announce))
                           \cup (Ids(update'.announce) \cap Ids(update'.withdraw))
    BY <1>2, Begun DEF BeginUpdate
  <2>2. Coming("announce")' = Ids(update'.announce) /\ Coming("withdraw")' = Ids(update'.withdraw)
    BY <2>1, AllTargets DEF Coming
  <2>3. Told("announce")' = {} /\ Told("withdraw")' = {}
    BY <2>1, NothingTold DEF Told, Kinds
  <2> QED BY <2>1, <2>2, <2>3 DEF Apart
<1>3. CASE ApplyRoute
  <2>1. \A kind \in Kinds : Coming(kind)' \cup Told(kind)' \subseteq Coming(kind) \cup Told(kind)
    BY <1>3, RouteTold
  <2>2. ambiguous' = ambiguous
    BY <1>3 DEF ApplyRoute, historyVars
  <2> QED BY <1>1, <2>1, <2>2
<1>4. CASE UNCHANGED <<pending, batches, ambiguous>>
  BY <1>4 DEF Apart, Coming, Told
<1>5. ASSUME NEW kind \in Kinds, EmitBatch(kind)
      PROVE  Apart'
  <2>1. /\ batches' = [batches EXCEPT ![kind] = << >>]
        /\ UNCHANGED <<pending, ambiguous>> /\ batches \in [Kinds -> Rows]
    BY <1>5 DEF EmitBatch, Inv, Types
  <2>2. \A k \in Kinds : Told(k)' \subseteq Told(k) /\ Coming(k)' = Coming(k)
    BY <2>1, NothingTold DEF Told, Coming
  <2> QED BY <1>1, <2>1, <2>2
<1>6. CASE EmitIdle
  <2>1. pending' = << >> /\ batches' = NoBatches
    BY <1>6 DEF EmitIdle, Remainder, Following
  <2>2. \A k \in Kinds : Told(k)' = {} /\ Coming(k)' = {}
    BY <2>1, NothingTold DEF Told, Coming
  <2> QED BY <2>2 DEF Apart, Kinds
<1> QED BY <1>2, <1>3, <1>4, <1>5, <1>6
        DEF Next, ApplyDone, UpdateDone, Clear, ForeignClear, vars, historyVars

(* A client hears the newest row of an identity last.                      *)
LEMMA FoldedAnnounced ==
    ASSUME NEW rows \in Rows, NEW view, NEW id \in Id
    PROVE  LET after == Folded(view, "announce", rows)
           IN  /\ id \notin Reported(rows) =>
                     /\ id \in DOMAIN after <=> id \in DOMAIN view
                     /\ id \in DOMAIN view => after[id] = view[id]
               /\ \A i : id \in Reported(rows) /\ Newest(rows, id, i) =>
                     id \in DOMAIN after /\ after[id] = rows[i].entry
<1>1. Folded(view, "announce", rows) =
        [i \in DOMAIN view \cup Reported(rows) |->
            IF i \in Reported(rows) THEN rows[LastRow(rows, i)].entry ELSE view[i]]
  BY DEF Folded
<1>2. ASSUME NEW i, Newest(rows, id, i)
      PROVE  LastRow(rows, id) = i
  <2>1. \A j \in DOMAIN rows : j \in Nat
    BY DEF Rows
  <2>2. \A j : Newest(rows, id, j) => j = i
    BY <1>2, <2>1 DEF Newest
  <2>3. LastRow(rows, id) = CHOOSE j \in DOMAIN rows :
            rows[j].route_id = id /\ \A k \in DOMAIN rows : rows[k].route_id = id => k <= j
    BY DEF LastRow
  <2> QED BY <1>2, <2>2, <2>3 DEF Newest
<1> QED BY <1>1, <1>2

LEMMA NextFollowing ==
    ASSUME Inv, Remainder, Apart, Following, [Next]_vars
    PROVE  Following'
<1> DEFINE Kept(id) ==
      /\ stage # "cleared" =>
            \/ Agrees(id)
            \/ id \in Coming("announce") \cup Told("announce") \cup Told("withdraw")
      /\ id \in Told("withdraw") => ~Known(data, id)
      /\ id \in Told("announce") =>
            /\ Known(data, id)
            /\ \E i \in DOMAIN batches["announce"] :
                  /\ Newest(batches["announce"], id, i)
                  /\ batches["announce"][i].entry = Row(data, id)
<1>0. ~disturbed => \A id \in Id \ ambiguous : Kept(id)
  BY DEF Following
<1>1. CASE BeginUpdate
  <2>1. /\ update' \in Update /\ pending' = Flatten(update') /\ batches' = NoBatches
        /\ stage' = "applying" /\ stage = "ready"
        /\ UNCHANGED <<data, mirror, disturbed>>
        /\ ambiguous' = (ambiguous \ Ids(update'.announce))
                           \cup (Ids(update'.announce) \cap Ids(update'.withdraw))
    BY <1>1, Begun DEF BeginUpdate
  <2>2. Coming("announce")' = Ids(update'.announce)
    BY <2>1, AllTargets DEF Coming
  <2>3. Told("announce")' = {} /\ Told("withdraw")' = {}
    BY <2>1, NothingTold DEF Told, Kinds
  <2>4. batches = NoBatches /\ pending = << >>
    BY <2>1 DEF Following, Remainder
  <2>5. Coming("announce") = {} /\ Told("announce") = {} /\ Told("withdraw") = {}
    BY <2>4, NothingTold DEF Told, Coming, Kinds
  <2>6. ASSUME ~disturbed', NEW id \in Id \ ambiguous'
        PROVE  Agrees(id)' \/ id \in Coming("announce")'
    <3>1. CASE id \in ambiguous
      BY <2>1, <2>2, <2>6, <3>1
    <3>2. CASE id \notin ambiguous
      <4>1. Agrees(id)
        BY <1>0, <2>1, <2>5, <2>6, <3>2
      <4> QED BY <2>1, <4>1 DEF Agrees
    <3> QED BY <3>1, <3>2
  <2> QED BY <2>1, <2>3, <2>6 DEF Following
<1>2. CASE ApplyRoute
  <2> DEFINE kind == Head(pending)[1]
             own == IdOf(Head(pending)[2])
             entry == Entry(Head(pending)[2], update)
             row == [route_id |-> IF kind = "announce" \/ Known(data, own) THEN own ELSE None,
                     entry |-> entry]
  <2>1. /\ kind \in Kinds /\ own \in Id
        /\ IF kind = "announce" THEN Known(data', own) /\ Row(data', own) = entry
                                ELSE ~Known(data', own)
        /\ \A other \in Id \ {own} : Same(data', data, other)
        /\ UNCHANGED <<stage, mirror, ambiguous, disturbed>>
        /\ stage = "applying"
    BY <1>2, RouteApplied DEF ApplyRoute, historyVars
  <2>2. /\ row \in [route_id : Id \cup {None}, entry : Route]
        /\ \A k \in Kinds :
              /\ batches[k] \in Rows
              /\ batches'[k] = IF kind = k THEN Append(batches[k], row) ELSE batches[k]
              /\ Coming(k) = Coming(k)' \cup (IF kind = k THEN {own} ELSE {})
              /\ Told(k)' = Told(k) \cup (IF kind = k THEN {row.route_id} \ {None} ELSE {})
    BY <1>2, RouteTold
  <2>3. row.entry = entry /\ row.route_id = IF kind = "announce" \/ Known(data, own)
                                            THEN own ELSE None
    OBVIOUS
  <2> HIDE DEF kind, own, entry, row
  <2>4. "announce" \in Kinds /\ "withdraw" \in Kinds
    BY DEF Kinds
  <2>5. None \notin Id
    BY NoneAssumption
  <2>6. ASSUME ~disturbed', NEW id \in Id \ ambiguous'
        PROVE  Kept(id)'
    <3>0. Kept(id) /\ id \notin (Coming("announce") \cup Told("announce"))
                                  \cap (Coming("withdraw") \cup Told("withdraw"))
      BY <1>0, <2>1, <2>6 DEF Apart
    <3>1. CASE id # own
      <4>1. /\ Same(data', data, id)
            /\ id \in Told("announce")' <=> id \in Told("announce")
            /\ id \in Told("withdraw")' <=> id \in Told("withdraw")
            /\ id \in Coming("announce")' <=> id \in Coming("announce")
        BY <2>1, <2>2, <2>3, <2>4, <2>6, <3>1
      <4>2. Agrees(id) => Agrees(id)'
        BY <2>1, <4>1 DEF Agrees, Same
      <4>3. ASSUME id \in Told("announce")
            PROVE  \E i \in DOMAIN batches'["announce"] :
                      /\ Newest(batches'["announce"], id, i)
                      /\ batches'["announce"][i].entry = Row(data', id)
        <5>1. PICK i \in DOMAIN batches["announce"] :
                      /\ Newest(batches["announce"], id, i)
                      /\ batches["announce"][i].entry = Row(data, id)
          BY <3>0, <4>3
        <5>2. Row(data', id) = Row(data, id)
          BY <3>0, <4>1, <4>3 DEF Same
        <5>3. CASE kind = "announce"
          <6>1. batches'["announce"] = Append(batches["announce"], row) /\ row.route_id # id
            BY <2>2, <2>3, <2>4, <3>1, <5>3
          <6>2. /\ Newest(batches'["announce"], id, i)
                /\ batches'["announce"][i] = batches["announce"][i]
            BY <2>2, <2>4, <2>6, <5>1, <6>1, RowsGrow, SMTT(60)
          <6> QED BY <5>1, <5>2, <6>2 DEF Newest
        <5>4. CASE kind # "announce"
          BY <2>2, <2>4, <5>1, <5>2, <5>4
        <5> QED BY <5>3, <5>4
      <4> QED BY <2>1, <3>0, <4>1, <4>2, <4>3 DEF Same
    <3>2. CASE id = own /\ kind = "announce"
      <4>1. /\ id \in Told("announce")' /\ id \notin Told("withdraw")'
        BY <2>2, <2>3, <2>4, <2>5, <2>6, <3>0, <3>2
      <4>2. Known(data', id) /\ Row(data', id) = entry
        BY <2>1, <3>2
      <4>3. batches'["announce"] = Append(batches["announce"], row) /\ row.route_id = id
        BY <2>2, <2>3, <2>4, <3>2
      <4>4. \E i : Newest(batches'["announce"], id, i) /\ batches'["announce"][i] = row
        BY <2>2, <2>4, <2>6, <4>3, RowsGrow
      <4> QED BY <2>3, <4>1, <4>2, <4>4 DEF Newest
    <3>3. CASE id = own /\ kind # "announce"
      <4>1. kind = "withdraw" /\ ~Known(data', id)
        BY <2>1, <3>3 DEF Kinds
      <4>2. /\ id \notin Coming("announce") /\ id \notin Told("announce")
            /\ id \notin Told("announce")'
            /\ id \in Told("withdraw") => id \in Told("withdraw")'
            /\ Known(data, id) => id \in Told("withdraw")'
        BY <2>2, <2>3, <2>4, <2>5, <2>6, <3>0, <3>3, <4>1
      <4>3. Agrees(id) /\ ~Known(data, id) => Agrees(id)'
        BY <2>1, <4>1 DEF Agrees
      <4> QED BY <2>1, <3>0, <4>1, <4>2, <4>3
    <3> QED BY <3>1, <3>2, <3>3
  <2> QED BY <2>1, <2>6 DEF Following
<1>3. CASE ApplyDone
  BY <1>0, <1>3 DEF ApplyDone, historyVars, Following, Agrees, Coming, Told
<1>4. ASSUME NEW kind \in Kinds, EmitBatch(kind)
      PROVE  Following'
  <2>1. /\ stage = "emitting" /\ UNCHANGED <<data, stage, pending, ambiguous, disturbed>>
        /\ mirror' = Folded(mirror, kind, batches[kind])
        /\ batches' = [batches EXCEPT ![kind] = << >>]
        /\ batches \in [Kinds -> Rows]
        /\ pending = << >>
    BY <1>4 DEF EmitBatch, Inv, Types, Remainder
  <2>2. Coming("announce") = {} /\ Coming("announce")' = {}
    BY <2>1, NothingTold DEF Coming
  <2>3. /\ Told(kind)' = {}
        /\ \A k \in Kinds \ {kind} : batches'[k] = batches[k] /\ Told(k)' = Told(k)
    BY <2>1, NothingTold DEF Told
  <2>4. ASSUME ~disturbed', NEW id \in Id \ ambiguous'
        PROVE  Kept(id)'
    <3>0. Kept(id)
      BY <1>0, <2>1, <2>4
    <3>1. CASE kind = "announce"
      <4>1. /\ Told("announce")' = {} /\ Told("withdraw")' = Told("withdraw")
            /\ batches["announce"] \in Rows
            /\ mirror' = Folded(mirror, "announce", batches["announce"])
        BY <2>1, <2>3, <3>1 DEF Kinds
      <4>2. CASE id \in Told("announce")
        <5>1. PICK i \in DOMAIN batches["announce"] :
                      /\ Newest(batches["announce"], id, i)
                      /\ batches["announce"][i].entry = Row(data, id)
          BY <3>0, <4>2
        <5>2. id \in DOMAIN mirror' /\ mirror'[id] = Row(data, id)
          BY <2>4, <4>1, <4>2, <5>1, FoldedAnnounced DEF Told
        <5>3. Agrees(id)' /\ id \notin Told("withdraw")
          BY <2>1, <3>0, <4>2, <5>2 DEF Agrees
        <5> QED BY <4>1, <5>3
      <4>3. CASE id \notin Told("announce")
        <5>1. /\ id \in DOMAIN mirror' <=> id \in DOMAIN mirror
              /\ id \in DOMAIN mirror => mirror'[id] = mirror[id]
          BY <2>4, <4>1, <4>3, FoldedAnnounced DEF Told
        <5>2. Agrees(id) => Agrees(id)'
          BY <2>1, <5>1 DEF Agrees
        <5> QED BY <2>1, <2>2, <3>0, <4>1, <4>3, <5>2
      <4> QED BY <4>2, <4>3
    <3>2. CASE kind = "withdraw"
      <4>1. /\ Told("withdraw")' = {} /\ Told("announce")' = Told("announce")
            /\ batches'["announce"] = batches["announce"]
        BY <2>1, <2>3, <3>2 DEF Kinds
      <4>2. mirror' = Restrict(mirror, DOMAIN mirror \ Told("withdraw"))
        BY <2>1, <3>2 DEF Folded, Told
      <4>3. CASE id \in Told("withdraw")
        <5>1. Agrees(id)' /\ id \notin Told("announce")
          BY <2>1, <3>0, <4>2, <4>3 DEF Agrees, Restrict
        <5> QED BY <4>1, <5>1
      <4>4. CASE id \notin Told("withdraw")
        <5>1. Agrees(id) => Agrees(id)'
          BY <2>1, <4>2, <4>4 DEF Agrees, Restrict
        <5> QED BY <2>1, <2>2, <3>0, <4>1, <4>4, <5>1
      <4> QED BY <4>3, <4>4
    <3> QED BY <3>1, <3>2 DEF Kinds
  <2> QED BY <2>1, <2>4 DEF Following
<1>5. CASE UpdateDone
  BY <1>0, <1>5 DEF UpdateDone, Following, Agrees, Coming, Told
<1>6. CASE Clear
  <2>1. /\ data' = Cleared(data) /\ stage' = "cleared" /\ stage = "ready"
        /\ UNCHANGED batches
    BY <1>6 DEF Clear
  <2>2. batches' = NoBatches
    BY <2>1 DEF Following
  <2>3. Told("announce")' = {} /\ Told("withdraw")' = {}
    BY <2>2, NothingTold DEF Told, Kinds
  <2> QED BY <2>1, <2>2, <2>3, NoneKnown DEF Following
<1>7. CASE EmitIdle
  <2>1. /\ stage = "cleared" /\ stage' = "ready" /\ mirror' = << >>
        /\ UNCHANGED <<data, pending, batches>>
    BY <1>7 DEF EmitIdle
  <2>2. batches' = NoBatches /\ \A id \in Id : ~Known(data', id)
    BY <2>1 DEF Following
  <2>3. Told("announce")' = {} /\ Told("withdraw")' = {}
    BY <2>2, NothingTold DEF Told, Kinds
  <2>4. \A id \in Id : Agrees(id)'
    BY <2>1, <2>2 DEF Agrees
  <2> QED BY <2>1, <2>2, <2>3, <2>4 DEF Following
<1>8. CASE ForeignClear
  BY <1>8, NoneKnown DEF ForeignClear, Following
<1>9. CASE UNCHANGED vars
  BY <1>0, <1>9 DEF vars, historyVars, Following, Agrees, Coming, Told
<1> QED BY <1>1, <1>2, <1>3, <1>4, <1>5, <1>6, <1>7, <1>8, <1>9 DEF Next

-----------------------------------------------------------------------------
(* The invariant, and what it says.                                        *)

LEMMA InitUInv == Init => UInv
<1> SUFFICES ASSUME Init PROVE UInv
  OBVIOUS
<1>1. Remainder
  BY DEF Init, Remainder, AtWork
<1>2. Progress
  BY DEF Init, Progress, AtWork
<1>3. Coming("announce") = {} /\ Told("announce") = {} /\ Told("withdraw") = {}
  BY NothingTold DEF Init, Coming, Told, Kinds
<1>4. Apart
  BY <1>3 DEF Apart
<1>5. \A id \in Id : Agrees(id)
  BY DEF Init, EmptyTable, Agrees, Known
<1>6. Following
  BY <1>3, <1>5 DEF Init, Following
<1> QED BY <1>1, <1>2, <1>4, <1>6, InitInv DEF UInv

LEMMA NextUInv == UInv /\ [Next]_vars => UInv'
<1> SUFFICES ASSUME UInv, [Next]_vars PROVE UInv'
  OBVIOUS
<1>1. Inv' BY NextInv DEF UInv
<1>2. Remainder' BY NextRemainder DEF UInv
<1>3. Progress' BY NextProgress DEF UInv
<1>4. Apart' BY NextApart DEF UInv
<1>5. Following' BY NextFollowing DEF UInv
<1> QED BY <1>1, <1>2, <1>3, <1>4, <1>5 DEF UInv

LEMMA UInvariance == Spec => []UInv
BY InitUInv, NextUInv, PTL DEF Spec

(* Whatever an UPDATE repeats, replaces or takes back, its last word on    *)
(* each identity is what the table has, and it touches no other route      *)
(* (app.rs:368-449).                                                       *)
THEOREM UpdateWhole == Spec => []UpdateApplied
<1>1. UInv => UpdateApplied
  <2> SUFFICES ASSUME UInv, stage = "emitting", ~disturbed, NEW id \in Id
               PROVE
            \/ id \in Ids(update.withdraw) /\ ~Known(data, id)
            \/ /\ id \in Ids(update.announce) \ Ids(update.withdraw)
               /\ Known(data, id)
               /\ data.routes[data.ids[id]] =
                    Entry(update.announce[LastAnnounced(update, id)], update)
            \/ /\ id \notin Ids(update.announce) \cup Ids(update.withdraw)
               /\ Known(data, id) <=> Known(before, id)
               /\ Known(data, id) =>
                    data.routes[data.ids[id]] = before.routes[before.ids[id]]
    BY DEF UpdateApplied
  <2> DEFINE a == Len(update.announce)
             b == Len(update.withdraw)
  <2>1. /\ a \in Nat /\ b \in Nat
        /\ DOMAIN update.announce = 1..a /\ DOMAIN update.withdraw = 1..b
    <3>1. update.announce \in Seq(Nlri) /\ update.withdraw \in Seq(Nlri)
      BY DEF UInv, Inv, Types, Update
    <3> QED BY <3>1
  <2>2. Done = a + b
    <3>1. pending = << >>
      BY DEF UInv, Remainder
    <3>2. DOMAIN Flatten(update) = 1..(a + b)
      BY DEF Flatten
    <3>3. Flatten(update) \in Seq(Kinds \X Nlri)
      BY FlattenType DEF UInv, Inv, Types
    <3> HIDE DEF a, b
    <3>4. /\ Len(Flatten(update)) \in Nat /\ a + b \in Nat
          /\ 1..Len(Flatten(update)) = 1..(a + b)
      BY <2>1, <3>2, <3>3
    <3>5. \A m, n \in Nat : 1..m = 1..n => m = n
      <4> TAKE m, n \in Nat
      <4>1. /\ m \in 1..m \/ m = 0
            /\ n \in 1..n \/ n = 0
        OBVIOUS
      <4> QED BY <4>1
    <3>6. Len(Flatten(update)) = a + b
      BY <3>4, <3>5
    <3> QED BY <3>1, <3>4, <3>6 DEF Done
  <2>3. \A k \in 1..(a + b) :
           Flatten(update)[k] = IF k <= a THEN <<"announce", update.announce[k]>>
                                ELSE <<"withdraw", update.withdraw[k - a]>>
    BY DEF Flatten
  <2> HIDE DEF a, b
  <2>4. \A k \in 1..a : k \in 1..(a + b) /\ k <= a
    BY <2>1
  <2>5. \A k \in 1..b : a + k \in 1..(a + b) /\ ~(a + k <= a) /\ (a + k) - a = k
    BY <2>1
  <2>6. \A k \in 1..(a + b) : IF k <= a THEN k \in 1..a ELSE k - a \in 1..b
    BY <2>1
  <2>7. /\ \A k \in 1..a : On(k, id) <=> IdOf(update.announce[k]) = id
        /\ \A k \in 1..b : On(a + k, id) <=> IdOf(update.withdraw[k]) = id
    <3>1. \A k \in 1..a : Flatten(update)[k] = <<"announce", update.announce[k]>>
      BY <2>3, <2>4
    <3>2. \A k \in 1..b : Flatten(update)[a + k] = <<"withdraw", update.withdraw[k]>>
      BY <2>3, <2>5
    <3>3. /\ \A k \in 1..a : Flatten(update)[k][2] = update.announce[k]
          /\ \A k \in 1..b : Flatten(update)[a + k][2] = update.withdraw[k]
      BY <3>1, <3>2
    <3> QED BY <3>3, Zenon DEF On
  <2>8. /\ id \in Ids(update.announce) <=> \E k \in 1..a : On(k, id)
        /\ id \in Ids(update.withdraw) <=> \E k \in 1..b : On(a + k, id)
    BY <2>1, <2>7 DEF Ids
  <2>9. CASE \E k \in 1..(a + b) :
                /\ On(k, id)
                /\ \A j \in (k + 1)..(a + b) : ~On(j, id)
                /\ LeftBy(Flatten(update)[k], id)
    <3>1. PICK k \in 1..(a + b) :
                /\ On(k, id)
                /\ \A j \in (k + 1)..(a + b) : ~On(j, id)
                /\ LeftBy(Flatten(update)[k], id)
      BY <2>9
    <3>2. CASE k <= a
      <4>1. k \in 1..a /\ Flatten(update)[k] = <<"announce", update.announce[k]>>
        BY <2>3, <2>6, <3>2
      <4>2. Known(data, id) /\ Row(data, id) = Entry(update.announce[k], update)
        BY <3>1, <4>1 DEF LeftBy
      <4>3. \A j \in 1..b : a + j \in (k + 1)..(a + b)
        BY <2>1, <4>1
      <4>4. id \in Ids(update.announce) \ Ids(update.withdraw)
        BY <2>8, <3>1, <4>1, <4>3
      <4>5. \A j \in 1..a : On(j, id) => j <= k
        <5>1. \A j \in 1..a : j <= k \/ j \in (k + 1)..(a + b)
          BY <2>1, <4>1
        <5> QED BY <3>1, <5>1
      <4>6. LastAnnounced(update, id) = k
        <5>1. \A i, j \in 1..a : i <= j /\ j <= i => i = j
          BY <2>1
        <5>2. LastAnnounced(update, id) =
                CHOOSE i \in 1..a : On(i, id) /\ \A j \in 1..a : On(j, id) => j <= i
          BY <2>1, <2>7 DEF LastAnnounced
        <5> QED BY <3>1, <4>1, <4>5, <5>1, <5>2
      <4> QED BY <4>2, <4>4, <4>6 DEF Row
    <3>3. CASE ~(k <= a)
      <4>1. k - a \in 1..b /\ Flatten(update)[k] = <<"withdraw", update.withdraw[k - a]>>
        BY <2>3, <2>6, <3>3
      <4>2. ~Known(data, id)
        BY <3>1, <4>1 DEF LeftBy
      <4>3. a + (k - a) = k
        BY <2>1
      <4>4. id \in Ids(update.withdraw)
        BY <2>8, <3>1, <4>1, <4>3
      <4> QED BY <4>2, <4>4
    <3> QED BY <3>2, <3>3
  <2>10. CASE (\A j \in 1..(a + b) : ~On(j, id)) /\ Same(data, before, id)
    <3>1. id \notin Ids(update.announce) \cup Ids(update.withdraw)
      BY <2>4, <2>5, <2>8, <2>10
    <3> QED BY <2>10, <3>1 DEF Same, Row
  <2> QED BY <2>2, <2>9, <2>10 DEF UInv, Progress, AtWork
<1> QED BY <1>1, UInvariance, PTL

(* A client that folds the events holds the table, in whatever order the   *)
(* batches reach it, but for what one UPDATE announced and withdrew        *)
(* (app.rs:429-459).                                                       *)
THEOREM MirrorFollows == Spec => []MirrorAgrees
<1>1. UInv => MirrorAgrees
  <2> SUFFICES ASSUME UInv, stage = "ready", ~disturbed, NEW id \in Id \ ambiguous
               PROVE  /\ id \in DOMAIN mirror <=> Known(data, id)
                      /\ Known(data, id) => mirror[id] = data.routes[data.ids[id]]
    BY DEF MirrorAgrees
  <2>1. pending = << >> /\ batches = NoBatches
    BY DEF UInv, Remainder, Following
  <2>2. Coming("announce") = {} /\ Told("announce") = {} /\ Told("withdraw") = {}
    BY <2>1, NothingTold DEF Coming, Told, Kinds
  <2>3. Agrees(id)
    BY <2>2 DEF UInv, Following
  <2> QED BY <2>3 DEF Agrees, Row
<1> QED BY <1>1, UInvariance, PTL

=============================================================================

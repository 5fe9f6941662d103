-------------------------------- MODULE Rib --------------------------------
(***************************************************************************)
(* The routing table of the receiver: struct Data of src/app.rs and the    *)
(* one function that fills it, App::apply_update.                          *)
(*                                                                         *)
(* A route is kept under a sequence number (`routes`, whose key order is   *)
(* the order of reception that /routes pages through) and found by its     *)
(* identity (`ids`); the totals and the charts of the dashboard are not    *)
(* recomputed but counted up and down as routes come and go.  The three    *)
(* structures are updated by hand and have to stay in step through every   *)
(* mix of announcements, implicit replacements, withdrawals and clears.    *)
(*                                                                         *)
(* The lock of Data is taken once per route, not once per UPDATE, so a     *)
(* step of this module is one critical section.  The session task is the   *)
(* only one that applies UPDATEs; whether another task may clear the table *)
(* between two of its critical sections is the constant ForeignClears: it  *)
(* is FALSE while every handler runs to completion, and TRUE once a        *)
(* cancelled handler has let two sessions overlap (module Lifecycle).      *)
(*                                                                         *)
(* Definitions commented "bug:" are deliberate mistakes, for mutation.     *)
(***************************************************************************)
EXTENDS Integers, Sequences, FiniteSets, Functions, AsPath

CONSTANTS
    Afi,            \* address families: "ipv4-unicast", "ipv6-flowspec", ...
    UnicastAfi,     \* those whose name ends with "-unicast"
    Ipv6Afi,        \* those whose name starts with "ipv6"
    Key,            \* what tells two NLRI of a family apart (app.rs:401-408)
    Label,          \* texts a chart can count: ASNs, communities, ports, ...
    None,           \* Option::None
    Updates,        \* the decoded UPDATEs a peer may send
    ForeignClears,  \* may another task clear between two critical sections?
    MaxSequence     \* bound: the u64 sequence stops here

Charts == {"communities", "origin_as", "next_hops", "prefix_lengths",
           "actions", "protocols", "ports"}
Metric == Charts \X Label
Counter == {"unicast", "flowspec", "ipv4", "ipv6"}
Kinds == {"announce", "withdraw"}
Id == Afi \X Key

(* One NLRI of a decoded UPDATE.  `length`, `protocols` and `ports` are    *)
(* determined by the key: they are part of the prefix or of the match.     *)
Nlri == [afi : Afi, key : Key, next_hop : Label \cup {None}, length : Label,
         protocols : Seq(Label), ports : Seq(Label)]

Update == [as_path : Seq(Label), as4_path : Seq(Label),
           communities : Seq(Label), actions : Seq(Label),
           announce : Seq(Nlri), withdraw : Seq(Nlri)]

Route == [id : Id, afi : Afi, next_hop : Label \cup {None}, length : Label,
          as_path : Seq(Label), communities : Seq(Label),
          protocols : Seq(Label), ports : Seq(Label), actions : Seq(Label)]

ASSUME AfiAssumption == UnicastAfi \subseteq Afi /\ Ipv6Afi \subseteq Afi
ASSUME UpdatesAssumption == Updates \subseteq Update
ASSUME BoundAssumption == MaxSequence \in Nat
ASSUME ForeignAssumption == ForeignClears \in BOOLEAN
ASSUME NoneAssumption == None \notin Label /\ None \notin Id

VARIABLES
    data,       \* the tables of struct Data, see EmptyTable
    stage,      \* where the session task is: see Stages
    update,     \* the UPDATE being applied, its AS_PATH already merged
    pending,    \* the <<kind, nlri>> of it that are still to be applied
    batches,    \* the rows collected per kind, emitted when none is pending
    before,     \* history: the table as it was when the UPDATE arrived
    mirror,     \* history: what a client folding the events believes
    ambiguous,  \* history: ids whose last announcement came with a withdrawal
    disturbed   \* history: another task cleared since the last IDLE event

historyVars == <<before, mirror, ambiguous, disturbed>>
vars == <<data, stage, update, pending, batches, historyVars>>

-----------------------------------------------------------------------------
(* The tables and the operations of Data on them.                          *)

EmptyTable == [routes    |-> << >>,     \* BTreeMap<u64, Route>
               ids       |-> << >>,     \* HashMap<String, u64>
               sequence  |-> 0,
               counts    |-> [c \in Counter |-> 0],
               analytics |-> [m \in Metric |-> 0]]

Family(afi) == IF afi \in UnicastAfi THEN "unicast" ELSE "flowspec"

CountersOf(route) ==
    {Family(route.afi), IF route.afi \in Ipv6Afi THEN "ipv6" ELSE "ipv4"}

Tag(chart, labels) == [i \in DOMAIN labels |-> <<chart, labels[i]>>]

(* The charts a route contributes to, a label once per occurrence: a       *)
(* FlowSpec rule naming one port as source and as destination counts twice.*)
Metrics(route) ==
    IF Family(route.afi) = "unicast"
    THEN Tag("communities", route.communities)
         \o (IF route.as_path = << >> THEN << >>
             ELSE << <<"origin_as", route.as_path[Len(route.as_path)]>> >>)
         \o (IF route.next_hop = None THEN << >>
             ELSE << <<"next_hops", route.next_hop>> >>)
         \o << <<"prefix_lengths", route.length>> >>
    ELSE Tag("actions", route.actions)
         \o Tag("protocols", route.protocols)
         \o Tag("ports", route.ports)

OncePerRoute(route, metric) ==     \* bug: a label counted once per route
    IF \E i \in DOMAIN Metrics(route) : Metrics(route)[i] = metric
    THEN 1 ELSE 0

Occurrences(route, metric) ==
    Cardinality({i \in DOMAIN Metrics(route) : Metrics(route)[i] = metric})

CountLabelsOnly(table, route, step) ==     \* bug: the totals forgotten
    [table EXCEPT
       !.analytics = [m \in Metric |-> @[m] + step * Occurrences(route, m)]]

(* A label that falls to zero leaves its BTreeMap; an absent label and a   *)
(* zero are the same here.  Counts are in Int: reaching a negative one is  *)
(* the underflow of a usize.                                               *)
Count(table, route, step) ==
    [table EXCEPT
       !.counts = [c \in Counter |->
           IF c \in CountersOf(route) THEN @[c] + step ELSE @[c]],
       !.analytics = [m \in Metric |-> @[m] + step * Occurrences(route, m)]]

Put(f, key, value) ==
    [k \in DOMAIN f \cup {key} |-> IF k = key THEN value ELSE f[k]]

InsertAtFree(table, id, route) ==     \* bug: numbers of freed rows reused
    LET free == CHOOSE n \in 1..MaxSequence :
                    /\ n \notin DOMAIN table.routes
                    /\ 1..(n - 1) \subseteq DOMAIN table.routes
    IN  [Count(table, route, 1) EXCEPT
           !.sequence = IF free > @ THEN free ELSE @,
           !.ids = Put(@, id, free),
           !.routes = Put(@, free, route)]

Insert(table, id, route) ==
    LET next == table.sequence + 1
    IN  [Count(table, route, 1) EXCEPT
           !.sequence = next,
           !.ids = Put(@, id, next),
           !.routes = Put(@, next, route)]

Known(table, id) == id \in DOMAIN table.ids

RemoveRowOnly(table, id) ==     \* bug: the index keeps the identity
    IF Known(table, id) /\ table.ids[id] \in DOMAIN table.routes
    THEN LET seq == table.ids[id]
         IN  [Count(table, table.routes[seq], -1) EXCEPT
                !.routes = Restrict(@, DOMAIN @ \ {seq})]
    ELSE table

Remove(table, id) ==
    IF Known(table, id)
    THEN LET seq == table.ids[id]
         IN  [Count(table, table.routes[seq], -1) EXCEPT
                !.ids = Restrict(@, DOMAIN @ \ {id}),
                !.routes = Restrict(@, DOMAIN @ \ {seq})]
    ELSE table

ClearedKeepsIds(table) ==     \* bug: the index not cleared
    [EmptyTable EXCEPT !.sequence = table.sequence, !.ids = table.ids]
(* The sequence goes on: a cleared table never reuses a number.            *)
Cleared(table) == [EmptyTable EXCEPT !.sequence = table.sequence]

-----------------------------------------------------------------------------
(* App::apply_update.                                                      *)

Stages == {"ready",      \* the session task waits for a frame
           "applying",   \* inside apply_update, routes still pending
           "emitting",   \* inside apply_update, batches still to be emitted
           "cleared"}    \* after data.clear(), before the IDLE event

IdOf(nlri) == <<nlri.afi, nlri.key>>

Entry(nlri, u) ==
    LET unicast == Family(nlri.afi) = "unicast"
    IN  [id          |-> IdOf(nlri),
         afi         |-> nlri.afi,
         next_hop    |-> IF unicast THEN nlri.next_hop ELSE None,
         length      |-> nlri.length,
         as_path     |-> u.as_path,
         communities |-> u.communities,
         protocols   |-> nlri.protocols,
         ports       |-> nlri.ports,
         actions     |-> IF unicast THEN << >> ELSE u.actions]

FlattenWithdrawalsFirst(u) ==     \* bug: the kinds in the other order
    [i \in 1..(Len(u.announce) + Len(u.withdraw)) |->
        IF i <= Len(u.withdraw)
        THEN <<"withdraw", u.withdraw[i]>>
        ELSE <<"announce", u.announce[i - Len(u.withdraw)]>>]

(* Announcements first, whatever order the message had them in.            *)
Flatten(u) ==
    [i \in 1..(Len(u.announce) + Len(u.withdraw)) |->
        IF i <= Len(u.announce)
        THEN <<"announce", u.announce[i]>>
        ELSE <<"withdraw", u.withdraw[i - Len(u.announce)]>>]

Ids(nlris) == {IdOf(nlris[i]) : i \in DOMAIN nlris}

NoUpdate == [as_path |-> << >>, as4_path |-> << >>, communities |-> << >>,
             actions |-> << >>, announce |-> << >>, withdraw |-> << >>]
NoBatches == [kind \in Kinds |-> << >>]

BeginUpdate ==
    /\ stage = "ready"
    /\ \E u \in Updates :
        /\ data.sequence + Len(u.announce) <= MaxSequence
        /\ update' = [u EXCEPT !.as_path = MergedPath(@, u.as4_path)]
        /\ pending' = Flatten(u)
        /\ ambiguous' = (ambiguous \ Ids(u.announce))
                           \cup (Ids(u.announce) \cap Ids(u.withdraw))
    /\ stage' = "applying"
    /\ batches' = NoBatches
    /\ before' = data
    /\ UNCHANGED <<data, mirror, disturbed>>

(* One turn of the inner loop: remove, and insert again when announced, in *)
(* one critical section; then the row for the event.  The row of a         *)
(* withdrawal carries the identity only if there was such a route.         *)
ApplyRoute ==
    /\ stage = "applying"
    /\ pending # << >>
    /\ LET kind == Head(pending)[1]
           nlri == Head(pending)[2]
           id == IdOf(nlri)
           entry == Entry(nlri, update)
           removed == Remove(data, id)
           row == [route_id |-> IF kind = "announce" \/ Known(data, id)
                                THEN id ELSE None,
                   entry |-> entry]
       IN  /\ data' = IF kind = "announce" THEN Insert(removed, id, entry)
                      ELSE removed
           /\ batches' = [batches EXCEPT ![kind] = Append(@, row)]
    /\ pending' = Tail(pending)
    /\ UNCHANGED <<stage, update, historyVars>>

ApplyDone ==
    /\ stage = "applying"
    /\ pending = << >>
    /\ stage' = "emitting"
    /\ UNCHANGED <<data, update, pending, batches, historyVars>>

(* The rows of one kind as a client folds them, in order.                  *)
Reported(rows) == {rows[i].route_id : i \in DOMAIN rows} \ {None}
LastRow(rows, id) ==
    CHOOSE i \in DOMAIN rows :
        /\ rows[i].route_id = id
        /\ \A j \in DOMAIN rows : rows[j].route_id = id => j <= i
Folded(view, kind, rows) ==
    IF kind = "announce"
    THEN [id \in DOMAIN view \cup Reported(rows) |->
            IF id \in Reported(rows) THEN rows[LastRow(rows, id)].entry
            ELSE view[id]]
    ELSE Restrict(view, DOMAIN view \ Reported(rows))

(* The batches are the values of a HashMap: either comes out first.        *)
EmitBatch(kind) ==
    /\ stage = "emitting"
    /\ batches[kind] # << >>
    /\ mirror' = Folded(mirror, kind, batches[kind])
    /\ batches' = [batches EXCEPT ![kind] = << >>]
    /\ UNCHANGED <<data, stage, update, pending, before, ambiguous, disturbed>>

UpdateDone ==
    /\ stage = "emitting"
    /\ batches = NoBatches
    /\ stage' = "ready"
    /\ update' = NoUpdate
    /\ before' = EmptyTable
    /\ UNCHANGED <<data, pending, batches, mirror, ambiguous, disturbed>>

-----------------------------------------------------------------------------
(* data.clear() of the session task between two connections, and the       *)
(* event that tells of it.                                                 *)

ClearSilently ==     \* bug: no event after the table is cleared
    /\ stage = "ready"
    /\ data' = Cleared(data)
    /\ UNCHANGED <<stage, update, pending, batches, historyVars>>

Clear ==
    /\ stage = "ready"
    /\ data' = Cleared(data)
    /\ stage' = "cleared"
    /\ UNCHANGED <<update, pending, batches, historyVars>>

EmitIdle ==
    /\ stage = "cleared"
    /\ mirror' = << >>
    /\ ambiguous' = {}
    /\ disturbed' = FALSE
    /\ stage' = "ready"
    /\ UNCHANGED <<data, update, pending, batches, before>>

(* data.clear() of another task: App::start, App::stop, or the teardown of *)
(* a session that nobody waited for.                                       *)
ForeignClear ==
    /\ ForeignClears
    /\ data' = Cleared(data)
    /\ disturbed' = TRUE
    /\ UNCHANGED <<stage, update, pending, batches, before, mirror, ambiguous>>

Init ==
    /\ data = EmptyTable
    /\ stage = "ready"
    /\ update = NoUpdate
    /\ pending = << >>
    /\ batches = NoBatches
    /\ before = EmptyTable
    /\ mirror = << >>
    /\ ambiguous = {}
    /\ disturbed = FALSE

Next ==
    \/ BeginUpdate
    \/ ApplyRoute
    \/ ApplyDone
    \/ \E kind \in Kinds : EmitBatch(kind)
    \/ UpdateDone
    \/ Clear
    \/ EmitIdle
    \/ ForeignClear

Spec == Init /\ [][Next]_vars

-----------------------------------------------------------------------------
(* Properties.                                                             *)

IsPartialFunction(f, S, T) == DOMAIN f \subseteq S /\ f \in [DOMAIN f -> T]

IsTable(table) ==
    /\ table = [routes |-> table.routes, ids |-> table.ids,
                sequence |-> table.sequence, counts |-> table.counts,
                analytics |-> table.analytics]
    /\ IsPartialFunction(table.routes, 1..table.sequence, Route)
    /\ IsPartialFunction(table.ids, Id, DOMAIN table.routes)
    /\ table.sequence \in Nat
    /\ table.counts \in [Counter -> Nat]
    /\ table.analytics \in [Metric -> Nat]

(* The types of the tables, counters that never go below zero among them,  *)
(* and an index that never points outside `routes`: `routes.remove(&seq)`  *)
(* is unwrapped and the counts are decremented unchecked (app.rs:513-546). *)
TypeOK ==
    /\ IsTable(data)
    /\ stage \in Stages
    /\ update \in Update
    /\ pending \in Seq(Kinds \X Nlri)
    /\ batches \in [Kinds -> Seq([route_id : Id \cup {None}, entry : Route])]
    /\ DOMAIN mirror \subseteq Id
    /\ ambiguous \subseteq Id
    /\ disturbed \in BOOLEAN

IndexAgreesIn(table) ==
    /\ \A id \in DOMAIN table.ids :
          /\ table.ids[id] \in DOMAIN table.routes
          /\ table.routes[table.ids[id]].id = id
    /\ \A seq \in DOMAIN table.routes :
          /\ Known(table, table.routes[seq].id)
          /\ table.ids[table.routes[seq].id] = seq

CountersAgreeIn(table) ==
    \A c \in Counter :
        table.counts[c] =
            Cardinality({seq \in DOMAIN table.routes :
                            c \in CountersOf(table.routes[seq])})

Places(route, metric) ==
    {i \in DOMAIN Metrics(route) : Metrics(route)[i] = metric}
Marks(routes, metric) ==
    UNION {{seq} \X Places(routes[seq], metric) : seq \in DOMAIN routes}

AnalyticsAgreeIn(table) ==
    \A m \in Metric : table.analytics[m] = Cardinality(Marks(table.routes, m))

(* The identity index and the table are inverse to each other: no route is *)
(* stored twice under one identity, none is out of reach of a withdrawal,  *)
(* and no identity outlives its route.  Holds whatever clears interleave.  *)
IndexAgrees == IndexAgreesIn(data)

(* The totals /stats reports, kept by += and -=, are the totals of a       *)
(* recount, after every critical section (app.rs:501-516).                 *)
CountersAgree == CountersAgreeIn(data)

(* So are the charts: each label is counted once for each time a stored    *)
(* route contributes it, and a label nobody contributes is not charted     *)
(* (app.rs:517-528).                                                       *)
AnalyticsAgree == AnalyticsAgreeIn(data)

LastAnnounced(u, id) ==
    CHOOSE i \in DOMAIN u.announce :
        /\ IdOf(u.announce[i]) = id
        /\ \A j \in DOMAIN u.announce : IdOf(u.announce[j]) = id => j <= i

(* An UPDATE taken as a whole: when all its critical sections are done,    *)
(* what it withdraws is gone (announced in the same message or not), what  *)
(* it announces is there with the last attributes given for it, and every  *)
(* other route is the one that was there before: unless another task has   *)
(* cleared the table meanwhile.                                            *)
UpdateApplied ==
    stage = "emitting" /\ ~disturbed =>
        \A id \in Id :
            \/ id \in Ids(update.withdraw) /\ ~Known(data, id)
            \/ /\ id \in Ids(update.announce) \ Ids(update.withdraw)
               /\ Known(data, id)
               /\ data.routes[data.ids[id]] =
                    Entry(update.announce[LastAnnounced(update, id)], update)
            \/ /\ id \notin Ids(update.announce) \cup Ids(update.withdraw)
               /\ Known(data, id) <=> Known(before, id)
               /\ Known(data, id) =>
                    data.routes[data.ids[id]] = before.routes[before.ids[id]]

(* A client that folds the announce and withdraw events, in whatever order *)
(* the two batches of an UPDATE are emitted, and forgets everything at the *)
(* IDLE event, holds exactly the table, attributes included.  The only     *)
(* exception is an identity that the UPDATE announcing it last withdraws   *)
(* as well: which of the two the client hears last is up to a HashMap, and *)
(* a later withdrawal does not undo the harm, for the row of a route that  *)
(* is not in the table carries no identity (app.rs:439-449).  The clear of *)
(* another task is left to that task's own event (module Page).            *)
MirrorAgrees ==
    stage = "ready" /\ ~disturbed =>
        \A id \in Id \ ambiguous :
            /\ id \in DOMAIN mirror <=> Known(data, id)
            /\ Known(data, id) => mirror[id] = data.routes[data.ids[id]]

Abstract == INSTANCE RibSpec WITH
    rib   <- [id \in DOMAIN data.ids |-> data.routes[data.ids[id]]],
    newer <- {pair \in (DOMAIN data.ids) \X (DOMAIN data.ids) :
                data.ids[pair[1]] > data.ids[pair[2]]}

(* The indexed table is a map ordered by last reception: a replaced route  *)
(* moves to the newest end, the others keep their order, and no sequence   *)
(* number that a clear or a withdrawal freed disturbs it.                  *)
ImplementsRib == Abstract!Spec

=============================================================================

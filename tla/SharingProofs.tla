--------------------------- MODULE SharingProofs ---------------------------
(***************************************************************************)
(* Theorems about Sharing, for every set of contents, identities and       *)
(* clients and any number of permits.                                      *)
(***************************************************************************)
EXTENDS Sharing, FiniteSetTheorems, SequenceTheorems, TLAPS

-----------------------------------------------------------------------------
(* The pool.                                                               *)

(* What a route or apply_update refers to is what the pool has for that    *)
(* content; SharedOnce alone does not survive the next Store.              *)
Pooled ==
    /\ \A k \in DOMAIN pool : pool[k][1] = k
    /\ \A i \in DOMAIN table :
          /\ table[i][1] \in DOMAIN pool
          /\ pool[table[i][1]] = table[i]
    /\ caller # None =>
          /\ caller[1] \in DOMAIN pool
          /\ pool[caller[1]] = caller

LEMMA PooledShares ==
    ASSUME Pooled
    PROVE  SharedOnce
BY DEF Pooled, SharedOnce

LEMMA BeginPooled ==
    ASSUME Pooled, NEW content, BeginUpdate(content)
    PROVE  Pooled'
<1> DEFINE a == IF content \in DOMAIN pool THEN pool[content] ELSE New(content)
<1>1. /\ pool' = [k \in DOMAIN pool \cup {content} |-> IF k = content THEN a ELSE pool[k]]
      /\ caller' = a
      /\ table' = table
  BY DEF BeginUpdate
<1>2. a[1] = content
  <2>1. New(content)[1] = content BY DEF New
  <2> QED BY <2>1 DEF Pooled
<1>3. \A k \in DOMAIN pool : pool'[k] = pool[k]
  BY <1>1
<1>4. /\ DOMAIN pool' = DOMAIN pool \cup {content}
      /\ pool'[content] = a
  BY <1>1
<1> HIDE DEF a
<1>5. \A k \in DOMAIN pool' : pool'[k][1] = k
  BY <1>2, <1>3, <1>4 DEF Pooled
<1> QED BY <1>1, <1>2, <1>3, <1>4, <1>5 DEF Pooled

LEMMA StorePooled ==
    ASSUME Pooled, NEW id, Store(id) \/ Withdraw(id)
    PROVE  Pooled'
<1>1. CASE Store(id)
  <2>1. /\ DOMAIN table' = DOMAIN table \cup {id}
        /\ \A i \in DOMAIN table' : table'[i] = IF i = id THEN caller ELSE table[i]
    BY <1>1 DEF Store
  <2> QED BY <1>1, <2>1 DEF Store, Pooled
<1>2. CASE Withdraw(id)
  <2>1. /\ DOMAIN table' = DOMAIN table \ {id}
        /\ \A i \in DOMAIN table' : table'[i] = table[i]
    BY <1>2 DEF Withdraw, Restrict
  <2> QED BY <1>2, <2>1 DEF Withdraw, Pooled
<1> QED BY <1>1, <1>2

(* The collector keeps what the table and apply_update refer to.           *)
LEMMA CollectPooled ==
    ASSUME Pooled, Collect
    PROVE  Pooled'
<1> DEFINE kept == {k \in DOMAIN pool : Used(pool[k])}
<1>1. /\ DOMAIN pool' = kept
      /\ \A k \in kept : pool'[k] = pool[k]
      /\ table' = table
      /\ caller' = caller
  BY DEF Collect, Restrict
<1>2. \A i \in DOMAIN table : table[i][1] \in kept
  <2> SUFFICES ASSUME NEW i \in DOMAIN table PROVE table[i][1] \in kept
    OBVIOUS
  <2>1. UsedByTable(table[i]) BY DEF UsedByTable, Range
  <2> QED BY <2>1 DEF Used, Pooled
<1>3. caller # None => caller[1] \in kept
  BY DEF Used, Pooled
<1> HIDE DEF kept
<1>4. kept \subseteq DOMAIN pool BY DEF kept
<1> QED BY <1>1, <1>2, <1>3, <1>4 DEF Pooled

LEMMA NextPooled ==
    ASSUME Pooled, [Next]_vars
    PROVE  Pooled'
<1>1. CASE UNCHANGED tableVars
  BY <1>1 DEF tableVars, Pooled
<1>2. ASSUME NEW content \in Contents, BeginUpdate(content)
      PROVE  Pooled'
  BY <1>2, BeginPooled
<1>3. ASSUME NEW id \in Ids, Store(id) \/ Withdraw(id)
      PROVE  Pooled'
  BY <1>3, StorePooled
<1>4. CASE EndUpdate
  BY <1>4 DEF EndUpdate, Pooled
<1>5. CASE Clear
  BY <1>5 DEF Clear, Pooled
<1>6. CASE Collect
  BY <1>6, CollectPooled
<1>7. ASSUME NEW c \in Clients,
             \/ Export(c) \/ Refuse(c) \/ Send(c) \/ AllSent(c) \/ Late(c)
             \/ Receive(c) \/ Close(c) \/ Abandon(c) \/ Done(c)
      PROVE  UNCHANGED tableVars
  BY <1>7 DEF Export, Refuse, Send, AllSent, Late, Return, Receive, Close, Abandon, Done
<1> QED BY <1>1, <1>2, <1>3, <1>4, <1>5, <1>6, <1>7 DEF Next, vars

(* Routes with the same content share one allocation, whatever the         *)
(* collector, the exports and the clears do between two steps of an UPDATE *)
(* (app.rs:89-95, 127-131).                                                *)
THEOREM Shared == Spec => []SharedOnce
<1>1. Init => Pooled
  BY DEF Init, Pooled
<1>2. Pooled /\ [Next]_vars => Pooled'
  BY NextPooled
<1>3. Pooled => SharedOnce
  BY PooledShares
<1> QED BY <1>1, <1>2, <1>3, PTL DEF Spec

-----------------------------------------------------------------------------
(* The exports.                                                            *)

(* While a client reads, every chunk of the snapshot is with the producer, *)
(* in the channel or with the client, and a producer that was in time has  *)
(* none left.                                                              *)
Accounted(b) ==
    /\ DOMAIN b = DOMAIN Idle
    /\ b.sending \in Nat /\ b.queued \in Nat /\ b.got \in Nat /\ b.whole \in Nat
    /\ b.reader = "reading" => b.got + b.queued + b.sending = b.whole
    /\ b.reader = "reading" /\ b.producer = "inTime" => b.sending = 0
    /\ b.reader = "complete" => b.got = b.whole

Bodies ==
    /\ IsFiniteSet(DOMAIN table)
    /\ DOMAIN body = Clients
    /\ \A c \in Clients : Accounted(body[c])

LEMMA IdleAccounted == Accounted(Idle)
BY DEF Accounted, Idle

(* The table stays finite under the steps that change it.                  *)
LEMMA TableBodies ==
    ASSUME Bodies, UNCHANGED body,
           \/ UNCHANGED table
           \/ table' = << >>
           \/ \E id \in Ids : Store(id) \/ Withdraw(id)
    PROVE  Bodies'
<1>1. CASE UNCHANGED table
  BY <1>1 DEF Bodies, Accounted, Idle
<1>2. CASE table' = << >>
  <2>1. DOMAIN table' = {} BY <1>2
  <2> QED BY <2>1, FS_EmptySet DEF Bodies, Accounted, Idle
<1>3. ASSUME NEW id \in Ids, Store(id) \/ Withdraw(id)
      PROVE  Bodies'
  <2>1. \/ DOMAIN table' = DOMAIN table \cup {id}
        \/ DOMAIN table' = DOMAIN table \ {id}
    BY <1>3 DEF Store, Withdraw, Restrict
  <2>2. IsFiniteSet(DOMAIN table')
    BY <2>1, FS_AddElement, FS_RemoveElement DEF Bodies
  <2> QED BY <2>2 DEF Bodies, Accounted, Idle
<1> QED BY <1>1, <1>2, <1>3

(* A step of one connection has only that connection to account for.       *)
LEMMA BodyBodies ==
    ASSUME Bodies, NEW c \in Clients, NEW b, Accounted(b),
           UNCHANGED table, body' = [body EXCEPT ![c] = b]
    PROVE  Bodies'
<1>1. DOMAIN body' = Clients
  BY DEF Bodies
<1>2. ASSUME NEW d \in Clients
      PROVE  Accounted(body'[d])
  BY DEF Bodies
<1> QED BY <1>1, <1>2 DEF Bodies, Accounted, Idle

LEMMA ExportBodies ==
    ASSUME Bodies, NEW c \in Clients, Export(c)
    PROVE  Bodies'
<1> DEFINE ids == SetToSeq(DOMAIN table)
           chunks == Cardinality(DOMAIN table) + 2
           b == [Idle EXCEPT !.producer = "writing", !.reader = "reading",
                             !.rows = [i \in DOMAIN ids |-> table[ids[i]]],
                             !.sending = chunks, !.whole = chunks]
<1>1. body' = [body EXCEPT ![c] = b] /\ UNCHANGED table
  BY DEF Export, tableVars
<1>2. chunks \in Nat
  BY FS_CardinalityType DEF Bodies
<1> HIDE DEF ids, chunks
<1>3. Accounted(b)
  BY <1>2 DEF Accounted, Idle
<1> HIDE DEF b
<1> QED BY <1>1, <1>3, BodyBodies

LEMMA ProducerBodies ==
    ASSUME Bodies, NEW c \in Clients, Send(c) \/ AllSent(c) \/ Late(c)
    PROVE  Bodies'
<1>1. Accounted(body[c])
  BY DEF Bodies
<1>2. CASE Send(c)
  <2> DEFINE rest == IF body[c].rows = << >> \/ body[c].sending = body[c].whole
                     THEN body[c].rows ELSE Tail(body[c].rows)
             b == [body[c] EXCEPT !.queued = 1, !.sending = @ - 1, !.rows = rest]
  <2>1. body' = [body EXCEPT ![c] = b] /\ UNCHANGED table
    BY <1>2 DEF Send, tableVars, Bodies
  <2> HIDE DEF rest
  <2>2. Accounted(b)
    BY <1>1, <1>2 DEF Send, Accounted, Idle
  <2> HIDE DEF b
  <2> QED BY <2>1, <2>2, BodyBodies
<1>3. CASE AllSent(c)
  <2> DEFINE b == [body[c] EXCEPT !.producer = "inTime", !.rows = << >>]
  <2>1. body' = [body EXCEPT ![c] = b] /\ UNCHANGED table
    BY <1>3 DEF AllSent, Return, tableVars, Bodies
  <2>2. Accounted(b)
    BY <1>1, <1>3 DEF AllSent, Accounted, Idle
  <2> HIDE DEF b
  <2> QED BY <2>1, <2>2, BodyBodies
<1>4. CASE Late(c)
  <2> DEFINE b == [body[c] EXCEPT !.producer = "late", !.rows = << >>]
  <2>1. body' = [body EXCEPT ![c] = b] /\ UNCHANGED table
    BY <1>4 DEF Late, Return, tableVars, Bodies
  <2>2. Accounted(b)
    BY <1>1, <1>4 DEF Late, Accounted, Idle
  <2> HIDE DEF b
  <2> QED BY <2>1, <2>2, BodyBodies
<1> QED BY <1>2, <1>3, <1>4

LEMMA ReaderBodies ==
    ASSUME Bodies, NEW c \in Clients,
           Refuse(c) \/ Receive(c) \/ Close(c) \/ Abandon(c) \/ Done(c)
    PROVE  Bodies'
<1>1. Accounted(body[c])
  BY DEF Bodies
<1>2. CASE Refuse(c)
  <2> DEFINE b == [body[c] EXCEPT !.reader = "refused"]
  <2>1. body' = [body EXCEPT ![c] = b] /\ UNCHANGED table
    BY <1>2 DEF Refuse, tableVars, Bodies
  <2>2. Accounted(b)
    BY <1>1 DEF Accounted, Idle
  <2> HIDE DEF b
  <2> QED BY <2>1, <2>2, BodyBodies
<1>3. CASE Receive(c)
  <2> DEFINE b == [body[c] EXCEPT !.queued = 0, !.got = @ + 1]
  <2>1. body' = [body EXCEPT ![c] = b] /\ UNCHANGED table
    BY <1>3 DEF Receive, tableVars, Bodies
  <2>2. Accounted(b)
    BY <1>1, <1>3 DEF Receive, Accounted, Idle
  <2> HIDE DEF b
  <2> QED BY <2>1, <2>2, BodyBodies
<1>4. CASE Close(c)
  <2> DEFINE how == IF body[c].producer = "inTime" THEN "complete" ELSE "error"
             b == [body[c] EXCEPT !.reader = how]
  <2>1. body' = [body EXCEPT ![c] = b] /\ UNCHANGED table
    BY <1>4 DEF Close, tableVars, Bodies
  <2>2. Accounted(b)
    BY <1>1, <1>4 DEF Close, Accounted, Idle
  <2> HIDE DEF b
  <2> QED BY <2>1, <2>2, BodyBodies
<1>5. CASE Abandon(c)
  <2> DEFINE b == [body[c] EXCEPT !.reader = "gone", !.queued = 0]
  <2>1. body' = [body EXCEPT ![c] = b] /\ UNCHANGED table
    BY <1>5 DEF Abandon, tableVars, Bodies
  <2>2. Accounted(b)
    BY <1>1 DEF Accounted, Idle
  <2> HIDE DEF b
  <2> QED BY <2>1, <2>2, BodyBodies
<1>6. CASE Done(c)
  BY <1>6, IdleAccounted, BodyBodies DEF Done, tableVars
<1> QED BY <1>2, <1>3, <1>4, <1>5, <1>6

LEMMA NextBodies ==
    ASSUME Bodies, [Next]_vars
    PROVE  Bodies'
<1>1. CASE UNCHANGED vars
  BY <1>1, TableBodies DEF vars, tableVars
<1>2. ASSUME NEW content \in Contents, BeginUpdate(content)
      PROVE  Bodies'
  BY <1>2, TableBodies DEF BeginUpdate
<1>3. ASSUME NEW id \in Ids, Store(id) \/ Withdraw(id)
      PROVE  Bodies'
  BY <1>3, TableBodies DEF Store, Withdraw
<1>4. CASE EndUpdate
  BY <1>4, TableBodies DEF EndUpdate
<1>5. CASE Clear
  BY <1>5, TableBodies DEF Clear
<1>6. CASE Collect
  BY <1>6, TableBodies DEF Collect
<1>7. ASSUME NEW c \in Clients, Export(c)
      PROVE  Bodies'
  BY <1>7, ExportBodies
<1>8. ASSUME NEW c \in Clients, Send(c) \/ AllSent(c) \/ Late(c)
      PROVE  Bodies'
  BY <1>8, ProducerBodies
<1>9. ASSUME NEW c \in Clients,
             Refuse(c) \/ Receive(c) \/ Close(c) \/ Abandon(c) \/ Done(c)
      PROVE  Bodies'
  BY <1>9, ReaderBodies
<1> QED BY <1>1, <1>2, <1>3, <1>4, <1>5, <1>6, <1>7, <1>8, <1>9 DEF Next

(* A body that ends without an error is the whole of its snapshot, however *)
(* the deadline, the end of the write and the client's reading interleave  *)
(* (app.rs:706-713).                                                       *)
THEOREM Honest == Spec => []BodyHonest
<1>1. Init => Bodies
  <2> SUFFICES ASSUME Init PROVE Bodies
    OBVIOUS
  <2>1. DOMAIN table = {} BY DEF Init
  <2> QED BY <2>1, FS_EmptySet, IdleAccounted DEF Init, Bodies
<1>2. Bodies /\ [Next]_vars => Bodies'
  BY NextBodies
<1>3. Bodies => BodyHonest
  BY DEF Bodies, Accounted, BodyHonest
<1> QED BY <1>1, <1>2, <1>3, PTL DEF Spec

=============================================================================

------------------------------ MODULE Sharing ------------------------------
(***************************************************************************)
(* Who holds what: the attribute pool of `Data`, which lets routes with    *)
(* the same content share one allocation, and the exports, whose producers *)
(* hold the routes of a snapshot, and one of two permits, for as long as   *)
(* the client lets them (App::apply_update, reclaim_memory, export and     *)
(* export_body).                                                           *)
(*                                                                         *)
(* An allocation is its content and a number; it is free for reuse as soon *)
(* as nothing refers to it.  One content stands for AS path, communities   *)
(* and names.  The table is written by one session at a time (module       *)
(* Lifecycle), the collector and the exports run beside it.                *)
(***************************************************************************)
EXTENDS Naturals, SequencesExt

CONSTANTS
    Contents,   \* the attributes routes may have
    Ids,        \* identities of routes
    Clients,    \* connections that may ask for an export
    Permits,    \* the semaphore `exports`
    None

ASSUME PermitsAssumption == Permits \in Nat

VARIABLES
    pool,       \* content to allocation
    table,      \* identity to allocation
    caller,     \* the allocation apply_update has in hand, or None
    permits,    \* what is left of the semaphore
    body        \* per client: see Idle

tableVars == <<pool, table, caller>>
vars == <<tableVars, permits, body>>

(* `rows` are the routes the producer still holds, `sending` the chunks it *)
(* has still to send, `queued` those in the channel of one, `got` and      *)
(* `whole` those the client has and would have to get.                     *)
Idle == [producer |-> "none", reader |-> "none", rows |-> << >>,
         sending |-> 0, queued |-> 0, got |-> 0, whole |-> 0]

Init ==
    /\ pool = << >>
    /\ table = << >>
    /\ caller = None
    /\ permits = Permits
    /\ body = [c \in Clients |-> Idle]

-----------------------------------------------------------------------------
(* The pool.                                                               *)

(* strong_count > 1, the one being the pool's own.                         *)
UsedByTable(a) == a \in Range(table)
Used(a) ==
    \/ UsedByTable(a)
    \/ a = caller
    \/ \E c \in Clients : a \in Range(body[c].rows)

New(content) ==
    <<content, Min({n \in 1..(Cardinality(Ids) * (Cardinality(Clients) + 1) + 2) :
                        ~Used(<<content, n>>)})>>

(* apply_update interns the attributes in one critical section ...         *)
BeginUpdate(content) ==
    /\ caller = None
    /\ LET a == IF content \in DOMAIN pool THEN pool[content] ELSE New(content)
       IN  /\ pool' = [k \in DOMAIN pool \cup {content} |->
                          IF k = content THEN a ELSE pool[k]]
           /\ caller' = a
    /\ UNCHANGED <<table, permits, body>>

(* ... and stores or removes the routes in one each.                       *)
Store(id) ==
    /\ caller # None
    /\ table' = [i \in DOMAIN table \cup {id} |-> IF i = id THEN caller ELSE table[i]]
    /\ UNCHANGED <<pool, caller, permits, body>>

Withdraw(id) ==
    /\ caller # None
    /\ table' = Restrict(table, DOMAIN table \ {id})
    /\ UNCHANGED <<pool, caller, permits, body>>

EndUpdate ==
    /\ caller # None
    /\ caller' = None
    /\ UNCHANGED <<pool, table, permits, body>>

(* Data::clear takes the pool with the table.                              *)
Clear ==
    /\ caller = None
    /\ table' = << >>
    /\ pool' = << >>
    /\ UNCHANGED <<caller, permits, body>>

CollectUnstored ==     \* bug: what only apply_update holds is collected
    /\ pool' = Restrict(pool, {k \in DOMAIN pool : UsedByTable(pool[k])})
    /\ UNCHANGED <<table, caller, permits, body>>

Collect ==
    /\ pool' = Restrict(pool, {k \in DOMAIN pool : Used(pool[k])})
    /\ UNCHANGED <<table, caller, permits, body>>

-----------------------------------------------------------------------------
(* The exports.                                                            *)

(* Every chunk but the first and the last is a route.                      *)
Export(c) ==
    /\ body[c] = Idle
    /\ permits > 0
    /\ permits' = permits - 1
    /\ LET ids == SetToSeq(DOMAIN table)
           chunks == Cardinality(DOMAIN table) + 2
       IN  body' = [body EXCEPT ![c] =
              [Idle EXCEPT !.producer = "writing", !.reader = "reading",
                           !.rows = [i \in DOMAIN ids |-> table[ids[i]]],
                           !.sending = chunks, !.whole = chunks]]
    /\ UNCHANGED tableVars

(* With no permit left the answer is 429.                                  *)
Refuse(c) ==
    /\ body[c] = Idle
    /\ permits = 0
    /\ body' = [body EXCEPT ![c].reader = "refused"]
    /\ UNCHANGED <<tableVars, permits>>

(* The producer sends a chunk; a route is dropped once it is serialised.   *)
Send(c) ==
    /\ body[c].producer = "writing" /\ body[c].reader = "reading"
    /\ body[c].queued = 0 /\ body[c].sending > 0
    /\ body' = [body EXCEPT
          ![c].queued = 1, ![c].sending = @ - 1,
          ![c].rows = IF @ = << >> \/ body[c].sending = body[c].whole THEN @ ELSE Tail(@)]
    /\ UNCHANGED <<tableVars, permits>>

(* How a producer ends: all is sent, the client is gone, or it is late.    *)
(* Whatever it was, it says whether it was in time, and gives back its     *)
(* permit and the routes.                                                  *)
Return(c, how) ==
    /\ body[c].producer = "writing"
    /\ body' = [body EXCEPT ![c].producer = how, ![c].rows = << >>]
    /\ permits' = permits + 1
    /\ UNCHANGED tableVars

AllSent(c) ==
    /\ body[c].sending = 0 \/ body[c].reader = "gone"
    /\ Return(c, "inTime")

LateAtPoll(c) ==     \* bug: the deadline is the consumer's
    body[c].sending > 0 /\ body[c].queued = 0 /\ Return(c, "late")

(* EXPORT_TIMEOUT has passed, whether the client reads or not; a write     *)
(* that has come to its end is in time.                                    *)
Late(c) == body[c].sending > 0 /\ Return(c, "late")

Receive(c) ==
    /\ body[c].reader = "reading" /\ body[c].queued = 1
    /\ body' = [body EXCEPT ![c].queued = 0, ![c].got = @ + 1]
    /\ UNCHANGED <<tableVars, permits>>

CloseUnasked(c) ==     \* bug: the end of the channel is the end of the body
    /\ body[c].reader = "reading" /\ body[c].queued = 0
    /\ body[c].producer # "writing"
    /\ body' = [body EXCEPT ![c].reader = "complete"]
    /\ UNCHANGED <<tableVars, permits>>

(* The channel is at its end: `finished` tells a whole body from a cut one.*)
Close(c) ==
    /\ body[c].reader = "reading" /\ body[c].queued = 0
    /\ body[c].producer \in {"inTime", "late"}
    /\ body' = [body EXCEPT ![c].reader =
                    IF body[c].producer = "inTime" THEN "complete" ELSE "error"]
    /\ UNCHANGED <<tableVars, permits>>

(* The client leaves in the middle, or is done and may ask again.          *)
Abandon(c) ==
    /\ body[c].reader = "reading"
    /\ body' = [body EXCEPT ![c].reader = "gone", ![c].queued = 0]
    /\ UNCHANGED <<tableVars, permits>>

Done(c) ==
    /\ body[c].producer # "writing"
    /\ body[c].reader \in {"complete", "error", "gone", "refused"}
    /\ body' = [body EXCEPT ![c] = Idle]
    /\ UNCHANGED <<tableVars, permits>>

Next ==
    \/ \E content \in Contents : BeginUpdate(content)
    \/ \E id \in Ids : Store(id) \/ Withdraw(id)
    \/ EndUpdate \/ Clear \/ Collect
    \/ \E c \in Clients :
          \/ Export(c) \/ Refuse(c) \/ Send(c) \/ AllSent(c) \/ Late(c)
          \/ Receive(c) \/ Close(c) \/ Abandon(c) \/ Done(c)

(* Sixty seconds pass and the producer is polled; no client has to read,   *)
(* and none has to leave.                                                  *)
Spec ==
    Init /\ [][Next]_vars /\ \A c \in Clients : WF_vars(Late(c)) /\ WF_vars(AllSent(c))

-----------------------------------------------------------------------------
(* Properties.                                                             *)

(* Routes with the same content share one allocation, whatever is          *)
(* collected between the interning of an UPDATE and its routes, and        *)
(* whoever else holds some: the comment at app.rs:89.                      *)
SharedOnce ==
    \A i, j \in DOMAIN table :
        table[i][1] = table[j][1] => table[i] = table[j]

(* A body that ends without an error is the whole of its snapshot: a cut   *)
(* one always ends with an error (app.rs:706-713).                         *)
BodyHonest ==
    \A c \in Clients : body[c].reader = "complete" => body[c].got = body[c].whole

(* A client that stalls keeps its permit and its routes for a bounded time *)
(* only, and no permit is lost (the comment at app.rs:682).                *)
PermitsReturn == permits = 0 ~> permits > 0

=============================================================================

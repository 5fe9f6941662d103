# A verification of bgpx

`bgpx` (this repository) is a BGP receiver: it keeps one session with one peer,
collects the unicast and FlowSpec routes the peer announces in an in-memory
table, shows them in a browser and over HTTP, streams every change as
Server-Sent Events and writes the table to a file. This directory holds TLA+
models of the program, TLC configurations that check them, and proofs that
TLAPS checks. Line numbers are those of `src/` at the commit the models were
written from; `app.rs`, `session.rs`, `capture.rs`, `main.rs` and `wire.rs` are
under `src/src/`.

## 1. The system

| Component | Source | State | Operations |
|---|---|---|---|
| Routing table | `app.rs` 63-153, 338-583 | `routes` (by sequence number), `ids` (identity to number), `sequence`, `counts`, `analytics` | `apply_update`, `insert`, `remove`, `clear`, `count` |
| Lifecycle | `app.rs` 43-52, 277-336; `session.rs` 115-192; `main.rs` 72-124 | `control` (the two tasks), `running`, `state`, `peer_info`, stop signals, the listener | `start`, `stop`, `stop_task`, `run`, shutdown |
| Connection | `session.rs` 194-291 | hold time, handshake flags, two timers, the frame being read | `connected`, `read_message` |
| Output file | `app.rs` 240-275; `main.rs` 77-100 | `dirty`, `output`, `<path>`, `<path>.tmp` | `flush` by the worker and by start, stop and the end of a session |
| Packet capture | `capture.rs` | `capturing`, the tcpdump child | start, stop, the capture task |
| Event stream | `app.rs` 194-218, 760-790 | `history`, `history_bytes`, the broadcast channel, the shutdown watch | `emit`, `/events`, `DELETE /log` |
| Attribute pool | `app.rs` 91-135, 220-224 | interned AS paths, communities, strings | `intern_*`, `collect` |
| Read API | `app.rs` 594-759, 804-816 | export permits | `/routes`, `/routes/search`, `/routes/export`, `/health` |
| Wire format | `wire.rs`, `wire_helpers.rs` | none | header, OPEN and UPDATE decoding |
| Web UI | `web/ui.html` | the client's view | SSE handling, page loads |

How they interact. One session task (`run`, and `connected` inside it) feeds
`apply_update`. HTTP handlers start and stop tasks; they take turns on the async
mutex `control`, which they hold across the awaits in which they join the old
tasks. Everything else is shared through the mutex around `Data`, taken for one
block of assignments at a time and never across an await. `emit` appends to the
history and to a broadcast channel of 64; every `/events` client reads from
that. A worker task calls `flush(false)` every second; start, stop and the end
of a session call `flush(true)`.

What is hard here:

* three structures and two kinds of counters describe one table and are kept in
  step by hand (`unwrap` and unchecked `-=` rely on it);
* an UPDATE is applied in many critical sections, and reported afterwards in
  batches whose order is that of a `HashMap`;
* handlers wait for tasks while they hold a lock, and the HTTP server may drop a
  handler at any of its awaits when its client disconnects;
* a read in progress must survive the timers beside it; a write in a `select!`
  branch stops everything else;
* two writers share a temporary file; a change may land in the middle of a flush;
* what a client is told comes from a replay history with two limits, a ring that
  drops what a slow reader has not read, snapshots, page loads and the answers of
  its own requests, in no common order;
* a body that is streamed holds routes and one of two permits until a deadline,
  and the collector of shared attributes runs between any two steps of an UPDATE;
* attributes come in any order, encodings change at boundaries (240 octets, bits
  within an octet, AS numbers above 65535).

The full list, each at its line and with the properties aimed at it, is
`hazards` in `PROJECT.json`.

What makes each component correct: the table is a map from identities to routes
ordered by last reception, and its derived numbers equal a recount; at most one
session lives, it is the one the handlers know, and what it leaves behind is
nothing; a connection applies nothing before its handshake and notices a dead
peer in bounded time; the file is always one whole export and ends up equal to
a table at rest; a client that has handled what it was sent shows what the server
has; equal attributes share one allocation, an export is whole or ends with an
error and gives its permit back; a message is decoded as it was meant.

## 2. The modules

| Module | Models | Checked by | Proved in |
|---|---|---|---|
| `RibSpec` | what the table promises: a map ordered by last reception | - | - |
| `Rib` | `Data` and `apply_update`, one critical section per step | `MCRib` | `RibProofs` |
| `Lifecycle` | handlers, session task, capture task, shutdown | `MCLifecycle` | `LifecycleProofs` |
| `Connection` | `connected` and `read_message`, peer, clock | `MCConnection` | `ConnectionProofs` |
| `Persistence` | `flush` and its callers, the file system | `MCPersistence` | `PersistenceProofs` |
| `EventStream` | `emit`, the history, `/events`, the end of the server | `MCEventStream` | `PageProofs` |
| `Page` | the web page on an `EventStream` | `MCPage` | `PageProofs` |
| `Sharing` | the attribute pool and the exports | `MCSharing` | `SharingProofs` |
| `AsPath` | the merge of AS_PATH and AS4_PATH, for `Rib` and `Wire` | - | - |
| `Wire` | the BGP wire format and the longest-prefix match, as operators | `MCDecoding` | `OpenProofs`, `DecodingProofs` |
| `Decoding` | a peer that encodes, the receiver that decodes | `MCDecoding` | `OpenProofs`, `DecodingProofs` |

`Page` composes `EventStream` with the client, `Decoding` composes `Wire` with a
peer. The others meet at these places, each a named abstraction in the coarser
one:

* `Lifecycle` keeps the table as `data.rib`, the set of sessions with routes in
  it, and its phases `accepted .. established` are the states of `Connection`.
  What another session may do to the table in the middle of an UPDATE is the
  constant `ForeignClears` of `Rib`.
* `Lifecycle` leaves out what flushes write; `Persistence` models that and takes
  from `Lifecycle` (`SingleSession`) that at most one forced flush runs.
* `Persistence` keeps the table as a set of routes.
* `EventStream` keeps the table as a version number, and has one writer for the
  session and one for the capture: that start and stop wait for both tasks
  (`Joined`) is `SingleSession` and `CaptureHonest` of `Lifecycle`, without
  disconnects.
* `Rib` starts from the decoded attributes that `Wire` delivers; `Sharing` keeps of
  an UPDATE what it interns and stores.

Definitions commented `bug:` are deliberate mistakes; each property of a passing
run has at least one that breaks it (`mutants` in `PROJECT.json`).

### Rib

`data` is the record of the tables of `struct Data`. `EmptyTable`, `Count`,
`Insert`, `Remove` and `Cleared` are the functions of the same purpose in
`impl Data`; `BTreeMap` and `HashMap` are functions with a finite domain. A
label that is not in a chart and one with count zero are the same, since the
code removes a label when it reaches zero. Counts are integers, so an underflow
of the `usize` shows as a negative number and breaks `TypeOK`. An identity is a
pair of an address family and a key: the first 12 hex digits of the SHA-1 are
taken to be injective. The decoded attributes are sequences of labels.

`BeginUpdate` is the part of `apply_update` before the loops (the AS4_PATH merge
included), `ApplyRoute` one turn of the inner loop, `ApplyDone`, `EmitBatch` and
`UpdateDone` the emission. `Clear` and `EmitIdle` are what `run` does between two
connections. `before`, `mirror`, `ambiguous` and `disturbed` are history variables: the
table at the start of the UPDATE, the table of a client that folds the events,
the identities for which the order of the two batches matters, and whether
another task has cleared the table.

### Lifecycle

A handler is a program counter (`pc`) and the task it joins; `queue` is the fair
async mutex `control`. `StopSession`, `SessionJoined`, `StopCapture` and
`CaptureJoined` are `stop_task` (take, signal, join), `StopData` and `StopTold`
the rest of `App::stop`, `StartFlush`, `StartData` and `StartSpawn` the rest of
`App::start`, `CheckRunning` and `CaptureSpawn` those of `capture::start`.
`Disconnect` drops a handler at an await, wherever it stands in `queue`: the
lock goes to the next one, the task that was taken out stays alone. It is enabled by the constant `Disconnects`.
A session runs through `phase`: each action is one critical section of `run` or
`connected`. `Heed` is the three `select!` that look at the stop signal. Since
these are `biased`, a dial or a retry is not taken once the signal is there; the
steps inside `connected` may still be, because a poll under way when the signal
is sent goes on to its next await. Session and capture identities are reused.
`set_state` stores and emits in one step; `EventStream` takes the two apart.

### Connection

One connection after the other. Frames arrive in two parts, header and body, so
that every timer may fall between them. Timers count down; a second passes only
when no branch of the `select!` is ready (the runtime polls within a second).
`blocked` is the `timeout` around the KEEPALIVE write. Frame kinds that the
`match` answers with an error differ only in name; the instance has one of them.

### Persistence

A flush is a sequence of system calls (`Copy`, `Create`, `Write`, `Rename`,
`Mark`; `Forced` is a caller's `flush(true)`), by the writers `worker` and
`control`. Names refer to inodes and open files do too, so that truncating or
renaming a file somebody else is writing has its real effect. `dirty` is clean,
young (changed within five seconds) or ripe. Any call may fail, and the process
may die, with or without the machine: what was not synced may then be lost. A
rename is taken to be durable at once; the code does not sync the directory, so
after a power failure the previous export may be back, which is whole as well.

### EventStream

Each writer stores a change under the lock (`Store`) and emits it later
(`Emit`), so that the other writer, a subscription or a snapshot falls between.
Emitting is one step, as in the code, where both the history and the channel are
served under the lock. `history` is the sequence of the sizes of its events,
`ring` the last `RingSize` events of the channel, `stream[c]` a connection: the
items it holds ready, where its receiver stands, and whether it will notice the
shutdown. `Lag` and `Recover` are two steps, since the snapshot is taken after the
receiver has moved. `rows` is the number of the event that told of the table. The
states between IDLE and ESTABLISHED are left out; they are stored and told like
the others and clear nothing. The last block of the session and the clearing of
a table say nothing, as in the code. A capture begins while the session runs,
connected or not (`CaptureBegins`); it ends when a handler tells it to, or with
`tcpdump` (`CaptureEnds`).

### Page

`view` is what is shown, `load` the newest `/routes` request (older answers are
ignored by their number), `timer` the queued reload, `asked` a start or stop that
was carried out and whose answer is on its way. `Message` composes with `Deliver`
of `EventStream`: a message is handled when it is read, and a connection that is
closed is opened again by `Subscribe`. `excuses` is a history variable that
records when one of the four exceptions of `PageSettles` begins and ends.
`HandleSnapshot`, `HandleSession` and `Stopped` contain `updateFormState`, which
takes a capture for ended when the page has the session as not running. That
is so for a moment on every event IDLE, also on one that goes on to say
`running: true`.

### Sharing

An allocation is a content and a number that nobody else uses; a `HashSet` of
`Arc`s is a function from contents to allocations, and `strong_count` is whether
anybody else refers to it. `caller` is what `apply_update` has in hand between
its critical sections. An export is a producer, a channel of one and a reader;
routes are dropped as they are sent, and the three ways in which a producer ends
are `AllSent` (also when the reader is gone) and `Late`.

### Wire and Decoding

The decoder is translated to operators on sequences of octets; each returns a
record whose field `ok` is FALSE where the code returns `Err` (`Malformed`). Every
loop of the code that takes one item after the other from a slice is `Items`, for
a function that gives the octets of the item at the front of some data, and
`Split` says as well whether the items are all there is. What the code does with
an item follows from the list of them, which is what a decoder without
RECURSIVE looks like and what the proofs need.
Texts are left out where they tell apart what the octets tell apart. Where they
do not, the loss is modelled: `Shown` and `Symbol` for values of components,
`Mask` for unicast prefixes, `WantsNextHop` for the redirects that are completed
later. `Decoding` is a sender written from the RFCs, but for the offset
octet of IPv6 FlowSpec prefixes, which it leaves out; it shares no definition
with the decoder: its prefixes are bits, its paths AS numbers, its rules
components. An AS number is a pair of halves because TLC's integers have 32 bits.
What a sender may put is said by named assumptions on the constants: prefixes
and values that the encoding has room for, FlowSpec prefixes without stray bits
(the code keeps them), each component of a rule once, attributes that are not
well formed in the ways `IsJunk` lists. `SendUpdate` sends what fits a message of
4096 octets. `stage` says what `sent` and `received` are about.

## 3. The runs

| Run | Instance | Shows |
|---|---|---|
| `rib` | 3 identities (ipv4 and ipv6 unicast, ipv4 FlowSpec), 7 UPDATEs, 6 insertions, clears anywhere | `TypeOK`, `IndexAgrees`, `CountersAgree`, `AnalyticsAgree`, `UpdateApplied`, `MirrorAgrees`, `ImplementsRib` |
| `lifecycle` | 2 clients and the shutdown, 2 sessions, 2 captures, no disconnects | the eight safety properties, `Answered`, `StopEnds` |
| `lifecycle_disconnect` | 1 connection whose client may leave, 2 sessions | `NoOrphan`, `ShutdownExits` |
| `health_disconnect` | the same with a capture | `HealthWhenEstablished` is violated |
| `connection` | hold times 0, 3, 6 against 0, 4; 3 parts in the stream | `FramesIntact` and the timing properties, `HandshakeEnds` |
| `persistence` | 1 route, 1 path, 1 error, 1 crash | the file and the dirty mark, with their exceptions |
| `stream` | 1 connection, 4 events begun freely, a ring of 2, a history of 3 events and 4 bytes, sizes 1 to 5 | `TypeOK`, `NothingMissed`, `EndsUnlessLate` |
| `page` | 1 page, 4 events begun freely, a ring of 2 | `PageSettles` |
| `sharing` | 1 content, 2 identities, 2 clients for 1 permit | `SharedOnce`, `BodyHonest`, `PermitsReturn` |
| `wire` | 15 attributes, up to 3 in a message, prefixes in the body, 192 pairs of OPENs | `DecodedAsSent`, `LongestMatch`, `OpenAgreed` |
| `file_whole`, `file_saved` | the same without errors and crashes | `FileWhole` and `SavedWhenClean` are violated |

Why the bounds are enough. `Rib`: three identities give every pair of equal and
different families; the UPDATEs replace, repeat one identity, withdraw what is
and what is not there, mix families, announce and withdraw the same route and
do nothing; six insertions allow a table to be filled, replaced, cleared and
filled again. The theorems below hold for all values. `Lifecycle`: two sessions
are one more than may live at a time without disconnects, so an overlap is
reachable if the code allows it; two clients and the shutdown give a holder and
two waiters. With disconnects one connection is enough to leave,
return and overlap, and the captures, which are joined the same way, are left
out. `Connection`: 6 against 4 lowers the hold time, 3 against 4 leaves it, 0 on
either side switches the timers off, and 3 and 4 are the cases where a third is
rounded to 1; three parts are a whole frame and the next header. `Persistence`:
one route makes two images of different lengths, enough to tear and to forget.
`EventStream`: a ring of two is overrun by three events; an event may be small,
fill most of the history, or be larger than it; `MaxEvents` leaves room for a
session that is started, learns and is lost, with a capture or a second session
beside it, and what must follow (leaving a connection, the last block, the end
of a capture, the shutdown) is not bounded. `Page` has the same bounds; the sizes make no
difference to it. `Sharing`: one content is enough, for contents share nothing,
and to replace a route by one of another content frees it as withdrawing does;
two identities are needed for one content to be stored twice; of two clients one
holds the permit and one is refused, or holds older allocations. `Wire`: three
attributes give every order of a list, a next hop and actions; one octet below,
at and above 240 is where the length of a rule changes; /0, /9, /10, /32, /33
and /128 with and without stray bits are the edges of masking.

`MaxSequence`, `MaxInbox`, `MaxFaults`, `MaxCrashes`, `MaxEvents` and `MaxParts`
are the only bounds that guard actions. Deadlock is checked in every run; `Rib` never stops, for
`Clear` and the empty UPDATE are always possible.

Fairness. `Lifecycle`: weak fairness of every handler, of what a session does
without waiting for anything outside (`Proceed`), of a capture that was told to
stop, and of the exit: the tokio runtime polls a task whose await is ready, and
`tcpdump` is killed. Clients, the peer, the network and the debounce of a retry
owe nothing. `Connection`: the task is polled and time passes. `Persistence`:
the five seconds pass, the worker's thread and the holder of `control` are
scheduled; errors and crashes are finitely many. `EventStream`: what is stored is
emitted, the shutdown's `stop` gets its turn (`Answered` of `Lifecycle`), a
client reads, and a stream that has nothing else to send looks at the shutdown;
the last is strong fairness, for `select!` polls its branches in random order.
`Sharing`: sixty seconds pass and the producer is polled; no client has to read.
`Rib`, `Page` and `Decoding` need none.

### What the runs showed

* `HealthWhenEstablished` (README.md:125) holds while no handler is dropped, and
  fails with `Disconnects`: a client that gives up a start request while it
  waits for the old session frees `control`; the next start spawns a session
  beside the old one, whose last block then sets `running = false` and clears
  the new session's routes. `NoOrphan` and `ShutdownExits` hold even so.
* `FileWhole` ("debounced atomic replacement", INSTALL.md:76): two flushes of
  one path share `<path>.tmp`, and the rename of one puts the file the other is
  writing in place. `WholeUnlessOverlapped` shows that nothing else tears it.
* `UpdateApplied` states what the code does with an identity that one UPDATE both
  announces and withdraws: the withdrawal wins. RFC 4271 (4.3) has it the other
  way round; no document of the repository speaks of it.
* `SavedWhenClean` (README.md:76): the change that lands during a flush is
  marked as saved. `SavedUnlessForgotten` shows that nothing else is forgotten.
* Two exceptions are stated in properties that hold. A start that fails to flush
  leaves the clients with the old `running` (`unsaid` in `ToldTheTruth`), and a
  start queued behind the shutdown is killed with the process (`late` in
  `CleanExit`).
* An identity announced and withdrawn in one UPDATE is gone from the table, but
  a client that keeps its own from the events may be left with it for good
  (`ambiguous` in `MirrorAgrees`). The web page reloads `/routes` and is not
  affected.
* After a blocked KEEPALIVE write the hold timer may win against a frame that
  has been waiting (`stalled` in `ExpiryDeserved`).
* A stream opened while the shutdown waits in `App::stop` subscribes to the watch
  after the value was sent and never sees a change: it holds the process until
  its client leaves. `EndsUnlessLate` holds for every stream that was open when
  the signal came, which is what tests/http_smoke.py:62 checks.
* A client that lags is sent a snapshot and then events from before it; it misses
  nothing (`NothingMissed`) and ends up right (`PageSettles`).
* `PageSettles` needs four exceptions, and each is necessary: an answer of
  `/routes` on its way while the rows are cleared fills them again, since
  `clearRoutes` does not advance `routeRequest`; a load that failed leaves the old
  rows; the answer to a start or stop that another client has overtaken sets
  `sessionRunning` and clears the rows and the capture regardless; and an event
  IDLE makes the page take a running capture for ended. Each lasts until the next
  event or load about the same thing. No page shows a capture that has ended.
* The last of the four is a defect of the page (README.md:98 has its button start
  and stop the capture) that every lost connection shows: start, start a capture,
  lose the connection. The session goes on, to connect again, and so does the
  capture; the page shows none, and a click on the button starts a capture afresh
  instead of stopping the one there is. Nothing that follows corrects it until a
  capture begins or ends, or a new stream brings a snapshot. Without
  the exception `forgotten`, TLC finds that trace in the run `page`.
* Only the last of two lists of one family in an UPDATE is kept (`wire.rs` 331,
  366, 369); the first is lost. `SameLists` excepts it.
* An AS4_PATH longer than the AS_PATH replaces it, where RFC 6793 (4.2.3) ignores
  it; README.md:182 calls the merging full. `DecodedAsSent` excepts it.
* What `DecodedAsSent` has no sender for: the AND bit of a FlowSpec operator,
  unknown flags beside known ones and the upper bits of a DSCP are not shown, and
  as the identity of a rule is taken from what is shown, rules that differ only
  there replace one another; stray bits of FlowSpec prefixes are kept, so that
  one rule may have two identities; the offset octet of IPv6 FlowSpec prefixes is
  not read at all, with offset 0 either (README.md:186); AS_SETs count as many
  as they have members.

## 4. The proofs

Every invariant that a passing run checks is a theorem, for every value of the
constants that satisfies the named assumptions of the modules. Each module of
proofs has one inductive invariant (or one and its continuation), and TLC has
checked it on the run's instance as well; the theorems follow from it.

| Module | Theorem | Statement |
|---|---|---|
| `RibProofs` | `Typing` | `Spec => []TypeOK` |
| | `IndexCorrect` | `Spec => []IndexAgrees` |
| | `CountersCorrect` | `Spec => []CountersAgree` |
| | `AnalyticsCorrect` | `Spec => []AnalyticsAgree` |
| | `RibImplements` | `Spec => ImplementsRib` |
| | `UpdateWhole` | `Spec => []UpdateApplied` |
| | `MirrorFollows` | `Spec => []MirrorAgrees` |
| `LifecycleProofs` | `Typing` | `Spec => []TypeOK` |
| | `NoTaskLost` | `Spec => []NoOrphan` |
| | `OneSession` | `Spec => []SingleSession`, if `~Disconnects` |
| | `HealthTells` | `Spec => []HealthHonest`, if `~Disconnects` |
| | `NoGhosts` | `Spec => []NoGhostRoutes`, if `~Disconnects` |
| | `DataAgree` | `Spec => []DataMatchControl`, if `~Disconnects` |
| | `CaptureTells` | `Spec => []CaptureHonest`, if `~Disconnects` |
| | `EventTells` | `Spec => []ToldTheTruth`, if `~Disconnects` |
| | `ExitsClean` | `Spec => []CleanExit`, if `~Disconnects` |
| `ConnectionProofs` | `Typing` | `Spec => []TypeOK` |
| | `FramesKept` | `Spec => []FramesIntact` |
| | `HandshakeKept` | `Spec => []HandshakeFirst` |
| | `DeadPeer` | `Spec => []DeadPeerNoticed` |
| | `Expiry` | `Spec => []ExpiryDeserved` |
| | `KeptAlive` | `Spec => []PeerKeptAlive` |
| `PersistenceProofs` | `Typing` | `Spec => []TypeOK` |
| | `KeptWhole` | `Spec => []WholeUnlessOverlapped` |
| | `KeptSaved` | `Spec => []SavedUnlessForgotten` |
| `PageProofs` | `Typing` | `Spec => []TypeOK` |
| | `NoGap` | `Spec => []NothingMissed` |
| | `PageRight` | `PageSpec => []PageSettles` |
| `SharingProofs` | `Shared` | `Spec => []SharedOnce` |
| | `Honest` | `Spec => []BodyHonest` |
| `OpenProofs` | `OpensAgree` | `Spec => []OpenAgreed` |
| `DecodingProofs` | `TypedAlways` | `Spec => []Typed` |
| | `SearchesLongest` | `Spec => []LongestMatch` |
| | `DecodesAsSent` | `Spec => []DecodedAsSent` |

### Rib

Any families, keys, labels, set of UPDATEs and bound, with and without foreign
clears. `Inv == Consistent(data) /\ Types`. None of the properties is inductive
alone. `Remove` reads the row the index points to and subtracts what the row
contributes; the counters stay natural numbers only if they equal the recount
beforehand, and the recount shrinks by that row only if the index points to it.
Cardinalities add up only for finite sets, so `Consistent` says as well that the
table is finite. The argument goes by operation: `RemoveConsistent`,
`InsertConsistent` and `ClearedConsistent` show that each keeps `Consistent`, from
lemmas about the rows that carry a mark (`MarksSplit`, `MarksTake`, `MarksAdd`)
and about counting (`CountedTake`, `CountedAdd`); `NextInv` is then a case per
action. `RibImplements` shows that each critical section is one operation of
`RibSpec` or a stutter (`StepRefines`), with `ViewInserted` and `ViewRemoved` for
the map and the order seen through the index.

In the middle of an UPDATE more has to hold. `Remainder`: what is
pending is the rest of it. `Progress`: each identity is as the last step on it
has left it, or as it was before. For the client, `Following` says that an
identity on which it does not agree with the table yet is in a batch or still to
be applied, that the newest row of an identity in the announced batch is the
table's, and that one in the withdrawn batch is gone; `Apart`, that outside
`ambiguous` no identity is in both, so that the order of the batches cannot
matter. `RowRemoved`, `RowInserted` and the like describe an operation one
identity at a time.

### Lifecycle

Any number of requests, sessions and captures. The invariant has two halves. `Inv`
holds with and without disconnects: `Queue` (a handler waits once, only the head
is past its first line), `Places` (which operation passes where), `Taken` (what
the holder has taken out of `control` stays out) and `Signals` (the task in
`control` runs and is not told to stop, one that is in no field was). It gives
`Typing` and `NoTaskLost`. `Served` needs every client to wait for its answer:
`Awaited` says that a task that runs is in `control` or is joined by the holder,
so that there is one; from that follow what the data say of it (`DataHonest`),
what was told (`EventHonest`), the captures (`CaptureBelongs`) and the exit
(`Leaves`). The hypothesis `~Disconnects` cannot be dropped: the run
`health_disconnect` violates `HealthWhenEstablished` without it. The helper
lemmas are about the waiting line (`JoinsLine`, `StepsOn`, `LeavesHead`,
`LeavesLine`).

### Connection

Any hold times on either side, any frames, any number of connections.
`Stream` says that what is under way alternates between headers and their bodies,
that it begins where the reader stands and ends where the peer does; `Stages`
ties the state to the handshake. `Clocks` relates the two timers to what has
happened: what is left of the hold timer is what the silence leaves of it, a
write adds at most the hold time to the silence and to the quiet. The part that
took longest to find is that once the hold timer has run out no KEEPALIVE is due
without time passing, for otherwise writes that block could follow one another
for ever and the bound of `DeadPeerNoticed` would not hold.

### Persistence

Any finite sets of routes and paths, any number of errors and crashes; the run
has one path, the theorem covers a change of the path in the middle of a flush.
`Stands` says what a flush has at each of its places, `Names` that an inode has
one name and is open under one path only, `Solo` that a writer which is alone has
written a beginning of its image to the file with the temporary name, `Intact`
that a file in place is whole and synced and that nobody writes to it. The last
two hold unless flushes of the path overlapped, and the overlap is what `Solo`
loses. `KeptSaved` needs `Remembered`: a flush that missed no change has the
table, and what it has renamed is in place. `FreeInode` shows that the inodes of
the model never run out, by counting names and descriptors.

### EventStream and Page

The stream first: any limits, sizes of events, ring and number of clients.
`Account` says that `history_bytes` is the recount of the history. The recount
folds + over a sequence, and the fold is recursive; `SumIsArea` shows that it is the
cardinality of an area, by looking at a least set of indices for which it is
not. From then on sums are cardinalities, and `SumOfParts` and `SumOfMore` are
about sets. `EvictedFits` shows that the loop of `emit` always finds room. For
the clients, `Covered` says that everything before the event a receiver stands
at was told, or is made up for by the snapshot at the head of what it holds, or
will be by one that is still to be taken (`lagged`).

The page comes on top (`PageIsClient`: a step of the page is a step of the
stream or none of its business). The invariant has one shape for all that a page
shows, the state, `running`, the capture and the rows. `LastWord`: the last event
about a field says what the server has, in the ring or unsent, unless the server
changed it silently (`Silent`) and the step out of that phase will tell. `UpToDate`:
for a client that will not lag, what it shows of a field is right unless an event
about the field is `Coming`; with a snapshot in hand, the snapshot is. For the
rows it says that they are right, asked for, or answered rightly. So the last
event to be handled about a field makes it right, and all others leave it so.
That the events that follow a snapshot may be older does no harm for the same
reason. The capture has two speakers, its own events and those of the session;
that the latter do not contradict it needs that start and stop wait for it
(`Phases`: there is none when the session is off). An IDLE that says `running:
true` proves nothing about it, so `UpToDate` asks of the capture only that what
is shown runs, and that what runs is shown or excused (`CaptureRight`). A proof attempt showed that `None` must not be an event, which
`NoneAssumption` now says.

### Sharing

Any contents, identities, clients and number of permits. `SharedOnce` is not
inductive: a route stored next gets what `apply_update` has in hand, which may
have been collected. `Pooled` says that what a route or `apply_update` refers to
is what the pool has for that content; the collector keeps it because it keeps
whatever somebody refers to (`CollectPooled`), and clearing waits until nothing
is in hand. `Bodies` accounts for the chunks of a body: what the producer has,
what is in the channel and what the client has are the whole of it while the
client reads, and a producer that was in time has none left; the number of
chunks is a number because the table is finite.

### Wire and Decoding

Any configurations and peers, any routes, paths and lists of prefixes, any
attributes a sender may put, in any number and order; the assumptions on the
constants say what a sender may put (section 2), and the run's instance
satisfies them. There is little to be inductive about: `Typed` says that what
was sent is composed of the constants and has at most 4096 octets, header
included, and that what was received and found is the decoder's and the search's
answer to it; `OnceEach`, that no code but those of MP_REACH and MP_UNREACH
comes twice and that AS4_PATH is not sent in a session of four octets. The rest
is about the operators, from the bits up.

* Sequences. Decoder and encoder put together and take apart lists of any
  length, and induction over data is out of reach. Each place that needs it
  looks instead at the least index at which a claim fails (`LeastOne`, `UpTo`).
  That gives what `FlattenSeq` does (`FlattenAppend`, `FlattenConcat`,
  `FlattenIn`, `FlattenMapped`) and what `Items` does: the function it is defined
  by exists (`FoundExists`), and if every piece says its own size, whatever
  follows it, the pieces are what it returns (`ItemsOf`, `SplitOf`). With that
  the loops of the decoder are done with, once for all.
* Bits. An octet is the sum of its bits (`EightBits`, `BitsOf`), and `Mask` keeps
  the leading ones and clears the others (`MaskBits`), so that two prefixes are
  the same when masked if and only if their leading bits are the same
  (`MaskedSame`, `MatchesWithin`). `SearchesLongest` follows, as what is
  decoded are prefixes whose length fits their octets (`UnicastTyped`), and
  `PrefixRead`: a prefix comes back without the bits the sender padded it with.
* Pieces. `OpenHeadRead`, `OpenRead` and `PeerRead` for OPEN with each layout of
  the capabilities; `OperatorRead` and `EncodedValuesRead` for the values of a
  component, where an end bit stops the loop; `RuleLengthRead` across the length
  of 240, where the encoding changes; `SegmentRead` and `TrailRead` for the path
  with two octets and with four.
* The message. Lengths have two octets, so that everything must fit: what is a
  part of a message of at most 4096 octets is shorter than it (`PieceShorter`,
  `PartsFit`), and that is where `Sendable` is needed: a length is a pair of octets
  only if the whole is not too long. `PartIsRead` covers the header of an
  attribute with one octet of length and with two, `PartsSplit` and `UpdateRead`
  give the list of attributes. `ListsRead` is about the lists of routes, of which
  the last one of a family is kept; `RuleHops` and `CompletedRead` about the
  next hops of redirects; `TailIsRead` and `MergedRead` about the merge of AS_PATH
  and AS4_PATH. `JunkRead` and `PathBad` show that attributes that are not well
  formed change nothing.

What the theorems do not say is what the properties except: a family with two
lists and an AS4_PATH longer than the AS_PATH.

### Only model-checked

* Liveness under fairness (`Answered`, `StopEnds`, `ShutdownExits`,
  `HandshakeEnds`, `EndsUnlessLate`, `PermitsReturn`, `QuietTableSaved`), which
  the provers at hand do not reach. `QuietTableSaved` speaks of a table that
  comes to rest: every change sets `dirty` anew, so that a peer that never pauses
  for five seconds puts the save off for ever, and no property says otherwise.
  `HandshakeEnds` is about a configured hold time other than 0; with 0 there is no
  timer, and a silent peer is waited for.
* The disagreements (`HealthWhenEstablished`, `FileWhole`, `SavedWhenClean`), of
  which there is nothing to prove.

## 5. What is not modelled

* Texts, log levels, JSON layout, paging and sorting, the five most frequent
  labels of a chart: pure functions of one snapshot.
* Attributes that are shown as they are and have no effect (ORIGIN, MED,
  AGGREGATOR, communities and the like); the repository's 324 fixtures compare
  their texts. The texts of FlowSpec actions, but for the redirects that are
  completed later.
* The parsing of tcpdump's output, which only makes events.
* Of the page: rendering, the form, charts, the log tab, the peer's details.
* Command line, installers, memory trimming.

## 6. What could come next

1. A refinement of `EventStream`'s history to an abstract log with two limits.
2. A summary of `Connection` for `Lifecycle`: that its phases `accepted ..
   established` are steps of a connection.
3. A sender that uses what `DecodedAsSent` has no sender for (section 3), with a
   reference that says what of it is shown.

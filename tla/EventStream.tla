---------------------------- MODULE EventStream ----------------------------
(***************************************************************************)
(* The event stream: what is told of the state kept in `Data`, through     *)
(* App::emit, the replay history, the broadcast channel and /events, up to *)
(* the graceful shutdown of src/main.rs, which waits for the streams.      *)
(*                                                                         *)
(* There are two writers, each of which stores a change under the lock of  *)
(* `data`, releases it and then emits: the session (its task and the       *)
(* handlers) and the capture.  Start and stop wait for both to end; that   *)
(* they do is Lifecycle's SingleSession and CaptureHonest, without dropped *)
(* handlers.  A start whose flush fails is in Lifecycle (`unsaid`).  The   *)
(* states between IDLE and ESTABLISHED, which are stored and told in the   *)
(* same way and clear nothing, are left out, and so are events without a   *)
(* state.                                                                  *)
(***************************************************************************)
EXTENDS Naturals, Sequences, FiniteSetsExt, Functions

CONSTANTS
    Streams,        \* connections to /events
    HistoryEvents,  \* HISTORY_EVENTS
    HistoryBytes,   \* HISTORY_BYTES
    RingSize,       \* events the broadcast channel keeps
    Sizes,          \* the sizes of an event, by kind
    MaxEvents,      \* bound: nothing new is begun after so many events
    None

Kinds == {"session", "capture", "routes"}
Writers == {"session", "capture"}
Told == [kind : Kinds, state : {"unsaid", "IDLE", "ESTABLISHED"}, running : BOOLEAN]

ASSUME LimitsAssumption ==
    /\ {HistoryEvents, HistoryBytes, RingSize} \subseteq Nat \ {0}
    /\ MaxEvents \in Nat
    /\ Sizes \in [Kinds -> SUBSET (Nat \ {0})]
ASSUME NoneAssumption == None \notin Told

VARIABLES
    data,       \* [running, state, rows, capturing]: `rows` is a version, 0 empty
    phase,      \* the session: off, on, up, cleared or ended
    unsent,     \* per writer: what it has stored and not yet emitted
    history,    \* the replay history: the sizes of its events
    bytes,      \* history_bytes
    sent,       \* how many events were broadcast
    ring,       \* the last of them
    stream,     \* per connection: see Closed
    main        \* the server: serving, stopping, draining or exited

serverVars == <<data, phase, unsent, history, bytes, sent, ring, main>>
emitVars == <<history, bytes, sent, ring>>
streamVars == <<serverVars, stream>>

(* `next` is the event the receiver stands at, `pending` what the stream   *)
(* holds ready, `watches` that it will notice the shutdown, and `knows` a  *)
(* history variable: up to which event the client has been told.           *)
Closed == [at |-> "closed", pending |-> << >>, next |-> 1, watches |-> FALSE,
           knows |-> 0]

Init ==
    /\ data = [running |-> FALSE, state |-> "IDLE", rows |-> 0,
               capturing |-> FALSE]
    /\ phase = "off"
    /\ unsent = [w \in Writers |-> None]
    /\ history = << >>
    /\ bytes = 0
    /\ sent = 0
    /\ ring = << >>
    /\ stream = [c \in Streams |-> Closed]
    /\ main = "serving"

-----------------------------------------------------------------------------
(* The writers.  A step with MayBegin is somebody's free choice.           *)

MayBegin == sent < MaxEvents /\ main # "exited"

(* One block under the lock, and the event built from it; `unsaid` is the  *)
(* state of an event without the field.                                    *)
Store(writer, change, event) ==
    /\ unsent[writer] = None
    /\ data' = change
    /\ unsent' = [unsent EXCEPT ![writer] = event]
    /\ UNCHANGED <<emitVars, stream>>

Move(from, to) == phase \in from /\ phase' = to
Event(kind, state, running) ==
    [kind |-> kind, state |-> state, running |-> running]

(* stop_task of both tasks: the old session and the capture have ended.    *)
Joined == phase \in {"off", "ended"} /\ ~data.capturing /\ unsent.capture = None

(* App::start.                                                             *)
Start ==
    /\ MayBegin
    /\ main \in {"serving", "stopping"}
    /\ Joined
    /\ phase' = "on"
    /\ Store("session", [data EXCEPT !.running = TRUE, !.rows = 0],
             Event("session", "unsaid", TRUE))
    /\ UNCHANGED main

Establish ==
    /\ MayBegin
    /\ Move({"on"}, "up")
    /\ Store("session", [data EXCEPT !.state = "ESTABLISHED"],
             Event("session", "ESTABLISHED", data.running))
    /\ UNCHANGED main

(* An UPDATE, applied and told; the order of its events is in module Rib.  *)
Learn ==
    /\ MayBegin
    /\ Move({"up"}, "up")
    /\ Store("session", [data EXCEPT !.rows = sent + 1],
             Event("routes", "unsaid", TRUE))
    /\ UNCHANGED main

(* A connection, established or not, is left: the table is cleared,        *)
(* silently, then the state.                                               *)
Clear ==
    /\ phase = "on" => MayBegin
    /\ Move({"on", "up"}, "cleared")
    /\ Store("session", [data EXCEPT !.rows = 0], None)
    /\ UNCHANGED main

Idle ==
    /\ Move({"cleared"}, "on")
    /\ Store("session", [data EXCEPT !.state = "IDLE"],
             Event("session", "IDLE", data.running))
    /\ UNCHANGED main

(* The last block of the session task, told to stop: no event.             *)
End ==
    /\ Move({"on"}, "ended")
    /\ Store("session", [data EXCEPT !.running = FALSE, !.state = "IDLE",
                                     !.rows = 0], None)
    /\ UNCHANGED main

(* The block of App::stop, which clears the history under the same lock.   *)
Halt(place) ==
    /\ Joined
    /\ phase' = "off"
    /\ unsent.session = None
    /\ data' = [data EXCEPT !.running = FALSE, !.state = "IDLE", !.rows = 0]
    /\ unsent' = [unsent EXCEPT !.session = Event("session", "IDLE", FALSE)]
    /\ history' = << >>
    /\ bytes' = 0
    /\ main' = place
    /\ UNCHANGED <<sent, ring, stream>>

Stop == MayBegin /\ main \in {"serving", "stopping"} /\ Halt(main)

CaptureTold(running) ==
    /\ Store("capture", [data EXCEPT !.capturing = running],
             Event("capture", "unsaid", running))
    /\ UNCHANGED <<phase, main>>

(* capture::start, which has ended the old capture first; it has to wait   *)
(* for a start, which is over when it has told of itself.                  *)
CaptureBegins ==
    /\ MayBegin
    /\ data.running /\ ~data.capturing
    /\ unsent.session # Event("session", "unsaid", TRUE)
    /\ CaptureTold(TRUE)

(* The capture was told to stop, or tcpdump has ended by itself.           *)
CaptureEnds == data.capturing /\ CaptureTold(FALSE)

-----------------------------------------------------------------------------
(* App::emit.                                                              *)

Bytes(sizes) == FoldFunction(+, 0, sizes)
Rest(sizes, k) == SubSeq(sizes, k + 1, Len(sizes))

EvictedUncounted(size) ==     \* bug: only the number of events is limited
    Min({k \in 0..Len(history) : Len(history) - k < HistoryEvents})

(* How many of the oldest have to go before one of this size fits in.      *)
Evicted(size) ==
    Min({k \in 0..Len(history) :
            /\ Len(history) - k < HistoryEvents
            /\ Bytes(Rest(history, k)) + size <= HistoryBytes})

Remember(size) ==
    IF size > HistoryBytes
    THEN UNCHANGED <<history, bytes>>
    ELSE LET k == Evicted(size)
         IN  /\ history' = Append(Rest(history, k), size)
             /\ bytes' = bytes - Bytes(SubSeq(history, 1, k)) + size

Emit(writer) ==
    /\ unsent[writer] # None
    /\ \E size \in Sizes[unsent[writer].kind] : Remember(size)
    /\ LET all == Append(ring, unsent[writer])
       IN  ring' = IF Len(all) > RingSize THEN Tail(all) ELSE all
    /\ sent' = sent + 1
    /\ unsent' = [unsent EXCEPT ![writer] = None]
    /\ UNCHANGED <<data, phase, stream, main>>

(* DELETE /log.                                                            *)
ClearLog ==
    /\ main \in {"serving", "stopping"}
    /\ history' = << >>
    /\ bytes' = 0
    /\ UNCHANGED <<data, phase, unsent, sent, ring, stream, main>>

-----------------------------------------------------------------------------
(* GET /events.                                                            *)

Snapshot ==
    [kind |-> "snapshot", asof |-> sent, running |-> data.running,
     state |-> data.state, capturing |-> data.capturing]
Replays == [i \in DOMAIN history |-> [kind |-> "replay"]]

(* The shutdown watch counts what was sent before it as seen; receiver,    *)
(* snapshot and history are taken under one lock.                          *)
Subscribe(c) ==
    /\ stream[c].at = "closed"
    /\ main \in {"serving", "stopping"}
    /\ stream' = [stream EXCEPT ![c] =
          [Closed EXCEPT !.at = "open", !.pending = <<Snapshot>> \o Replays,
                         !.next = sent + 1, !.watches = (main = "serving")]]
    /\ UNCHANGED serverVars

Live(c) == stream[c].at = "open" /\ stream[c].pending = << >>
Kept(n) == n > sent - Len(ring)
Broadcast(n) == ring[Len(ring) - (sent - n)]

(* What is written to the connection next, if anything.                    *)
Item(c) ==
    LET s == stream[c]
    IN  IF s.at # "open" THEN {}
        ELSE IF s.pending # << >> THEN {Head(s.pending)}
        ELSE {[kind |-> "live", n |-> n, what |-> Broadcast(n)] :
                 n \in {n \in {s.next} : n <= sent /\ Kept(n)}}

AfterLive(s, item) ==
    [s EXCEPT !.next = s.next + 1, !.knows = Max({s.knows, item.n})]
AfterHeld(s, item) ==
    [s EXCEPT !.pending = Tail(s.pending),
              !.knows = IF item.kind = "snapshot" THEN item.asof ELSE s.knows]

Deliver(c, item) ==
    /\ item \in Item(c)
    /\ stream' = [stream EXCEPT ![c] = IF item.kind = "live"
                                       THEN AfterLive(stream[c], item)
                                       ELSE AfterHeld(stream[c], item)]
    /\ UNCHANGED serverVars

LagUntold(c) ==     \* bug: the receiver goes on with what is kept
    /\ Live(c)
    /\ stream[c].next <= sent - Len(ring)
    /\ stream' = [stream EXCEPT ![c].next = sent - Len(ring) + 1]
    /\ UNCHANGED serverVars

(* RecvError::Lagged: the receiver moves to the oldest event kept; then a  *)
(* snapshot is taken, and older events may follow it.                      *)
Lag(c) ==
    /\ Live(c)
    /\ stream[c].next <= sent - Len(ring)
    /\ stream' = [stream EXCEPT ![c].next = sent - Len(ring) + 1,
                                ![c].at = "lagged"]
    /\ UNCHANGED serverVars

Recover(c) ==
    /\ stream[c].at = "lagged"
    /\ stream' = [stream EXCEPT ![c].at = "open", ![c].pending = <<Snapshot>>]
    /\ UNCHANGED serverVars

FinishAtEvent(c) ==     \* bug: looked at when an event has come in
    /\ Live(c)
    /\ stream[c].watches
    /\ main # "serving"
    /\ stream[c].next <= sent
    /\ stream' = [stream EXCEPT ![c] = Closed]
    /\ UNCHANGED serverVars

(* shutdown.changed() is looked at between two events only.                *)
Finish(c) ==
    /\ Live(c)
    /\ stream[c].watches
    /\ main # "serving"
    /\ stream' = [stream EXCEPT ![c] = Closed]
    /\ UNCHANGED serverVars

(* The client closes the connection, or loses it.                          *)
Leave(c) ==
    /\ stream[c].at # "closed"
    /\ stream' = [stream EXCEPT ![c] = Closed]
    /\ UNCHANGED serverVars

-----------------------------------------------------------------------------
(* main.rs: the signal is announced, then App::stop takes its turn; until  *)
(* that is over requests are accepted.  Then the open ones are awaited.    *)
Shutdown ==
    /\ main = "serving"
    /\ main' = "stopping"
    /\ UNCHANGED <<data, phase, unsent, emitVars, stream>>

Exit ==
    /\ main = "draining"
    /\ \A c \in Streams : stream[c].at = "closed"
    /\ main' = "exited"
    /\ UNCHANGED <<data, phase, unsent, emitVars, stream>>

LastStop == main = "stopping" /\ Halt("draining")
WindDown == main = "stopping" /\ (Clear \/ Idle \/ End \/ CaptureEnds \/ LastStop)

(* What happens while the server is serving, and at the end.               *)
Change ==
    \/ Start \/ Establish \/ Learn \/ Clear \/ Idle \/ End \/ Stop
    \/ CaptureBegins \/ CaptureEnds \/ ClearLog
    \/ \E writer \in Writers : Emit(writer)
Close == Shutdown \/ LastStop \/ Exit

Progress(c) == (\E item \in Item(c) : Deliver(c, item)) \/ Lag(c) \/ Recover(c) \/ Finish(c)

Exited == main = "exited" /\ UNCHANGED streamVars

Next ==
    \/ Change \/ Close
    \/ \E c \in Streams : Subscribe(c) \/ Progress(c) \/ Leave(c)
    \/ Exited

(* The shutdown's stop gets its turn and finishes (Lifecycle's Answered),   *)
(* what was stored is emitted, and a client reads what it is sent; select! *)
(* starts with a branch at random, so that the shutdown is not passed over *)
(* for ever.  Nobody has to begin anything, and no client has to leave.    *)
Fairness ==
    /\ WF_streamVars(WindDown)
    /\ WF_streamVars(Exit)
    /\ \A writer \in Writers : WF_streamVars(Emit(writer))
    /\ \A c \in Streams : WF_streamVars(Progress(c)) /\ SF_streamVars(Finish(c))

Spec == Init /\ [][Next]_streamVars /\ Fairness

-----------------------------------------------------------------------------
(* Properties.                                                             *)

(* The types; history_bytes, kept by += and -= across evictions, is the    *)
(* size of what is kept, and neither limit of README.md:102 is exceeded.   *)
TypeOK ==
    /\ data \in [running : BOOLEAN, state : {"IDLE", "ESTABLISHED"},
                 rows : Nat, capturing : BOOLEAN]
    /\ phase \in {"off", "on", "up", "cleared", "ended"}
    /\ main \in {"serving", "stopping", "draining", "exited"}
    /\ sent \in Nat
    /\ Len(ring) <= RingSize
    /\ Len(history) <= HistoryEvents
    /\ bytes = Bytes(history)
    /\ bytes <= HistoryBytes

(* A client misses no event without being given a snapshot that is newer:  *)
(* where the history that is replayed ends, and whenever it has lagged     *)
(* behind the channel (app.rs:763-783).                                    *)
NothingMissed ==
    \A c \in Streams : Live(c) => stream[c].next <= stream[c].knows + 1

(* A shutdown ends every stream that was there when it was signalled, as   *)
(* long as the client reads (app.rs:776, main.rs:115).  One opened while   *)
(* the shutdown waits in App::stop takes the signal for seen; it ends when *)
(* its client leaves, and the process with it.                             *)
EndsUnlessLate ==
    \A c \in Streams :
        main = "stopping" /\ stream[c].watches ~> stream[c].at = "closed"

=============================================================================

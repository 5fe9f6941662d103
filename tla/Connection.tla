----------------------------- MODULE Connection -----------------------------
(***************************************************************************)
(* One BGP connection at a time: connected() of src/session.rs, the peer   *)
(* at the other end of the stream, and the clock.                          *)
(*                                                                         *)
(* The loop of connected() waits for three things in one unbiased select!: *)
(* the frame being read, the hold deadline, and the time of the next       *)
(* KEEPALIVE.  Whichever of the ready ones is picked, the other two have   *)
(* to survive it: in particular the frame is read in parts (header, then   *)
(* body) and what has been read must not be lost when a timer goes first.  *)
(* A KEEPALIVE is written inside its branch, where nothing else is polled. *)
(*                                                                         *)
(* Time is discrete, in seconds, and kept as what is left of each timer.   *)
(* It passes only when the task has nothing to do: the runtime polls a     *)
(* ready task well within a second.  connected() returns at a `fate` other *)
(* than "up"; run() then cleans up and connects again (module Lifecycle),  *)
(* which is one step here.                                                 *)
(*                                                                         *)
(* Definitions commented "bug:" are deliberate mistakes, for mutation.     *)
(***************************************************************************)
EXTENDS Naturals, Sequences

CONSTANTS
    ConfigHolds,    \* values of config.hold_time, in seconds
    PeerHolds,      \* values of the hold time in the peer's OPEN
    OtherKinds,     \* the other frames a peer may send
    None,
    MaxInbox        \* bound: parts of frames waiting in the stream

(* Config::validate and wire::open let neither side ask for 1 or 2.        *)
ASSUME HoldsAssumption ==
    /\ ConfigHolds \subseteq Nat \ {1, 2}
    /\ PeerHolds \subseteq Nat \ {1, 2}
ASSUME KindsAssumption ==
    OtherKinds \subseteq
        {"keepalive", "update",
         "badOpen",         \* malformed, or another AS than config.peer_as
         "longKeepalive",   \* with a body
         "badUpdate",       \* refused by wire::update
         "notification",
         "unknown"}
ASSUME BoundAssumption == MaxInbox \in Nat

Frame == [kind : {"open"}, hold : PeerHolds] \cup [kind : OtherKinds, hold : {0}]
ASSUME NoneAssumption == None \notin Nat /\ None \notin Frame
Part == {"header", "body"} \X Frame

VARIABLES
    config,         \* config.hold_time
    hold,           \* the hold time in force, negotiated by the OPEN
    received_open,
    established,
    state,          \* what set_state was last told
    deadline,       \* seconds left of the hold timer
    next_keepalive, \* seconds left until the next KEEPALIVE
    blocked,        \* in a KEEPALIVE write: seconds left of its timeout
    reader,         \* the header the pinned read_message has, if any
    inbox,          \* the parts that have arrived and are not read yet
    peer,           \* the frame whose body the peer still has to send
    fate,           \* "up", or why connected() returned
    silence,        \* history: seconds since the last frame was handled
    quiet,          \* history: seconds since something was written
    stalled,        \* history: a write took time since the last frame
    waiting,        \* history: a whole frame was there when time passed
    handshake,      \* history: the kinds of the first two frames handled
    applied         \* history: an UPDATE was applied

timerVars == <<deadline, next_keepalive, blocked>>
fsmVars == <<hold, received_open, established, state>>
streamVars == <<reader, inbox, peer>>
ageVars == <<silence, quiet, stalled, waiting>>
vars == <<config, timerVars, fsmVars, streamVars, fate, ageVars, handshake, applied>>

Fates == {"up", "expired", "unwritable", "refused", "garbage", "closed"}
Interval(seconds) == IF seconds \div 3 = 0 THEN 1 ELSE seconds \div 3
Least(a, b) == IF a < b THEN a ELSE b

(* What connected() starts from: the OPEN is sent before the loop.         *)
Init ==
    /\ config \in ConfigHolds
    /\ hold = config
    /\ received_open = FALSE
    /\ established = FALSE
    /\ state = "OPEN_SENT"
    /\ deadline = hold
    /\ next_keepalive = 0
    /\ blocked = None
    /\ reader = None
    /\ inbox = << >>
    /\ peer = None
    /\ fate = "up"
    /\ silence = 0
    /\ quiet = 0
    /\ stalled = FALSE
    /\ waiting = FALSE
    /\ handshake = << >>
    /\ applied = FALSE

-----------------------------------------------------------------------------
(* The select!.                                                            *)

Polling == fate = "up" /\ blocked = None

(* read_exact of the header; wire::header refuses anything else.           *)
ReadHeader ==
    /\ Polling
    /\ reader = None
    /\ inbox # << >>
    /\ IF Head(inbox)[1] = "header"
       THEN reader' = Head(inbox)[2] /\ UNCHANGED fate
       ELSE fate' = "garbage" /\ UNCHANGED reader
    /\ inbox' = Tail(inbox)
    /\ UNCHANGED <<config, timerVars, fsmVars, peer, ageVars, handshake, applied>>

OpenUnarmed(frame) ==     \* bug: the deadline is left at the configured time
    /\ hold' = Least(hold, frame.hold)
    /\ received_open' = TRUE
    /\ state' = "OPEN_CONFIRMED"
    /\ next_keepalive' = Interval(hold')
    /\ quiet' = 0
    /\ UNCHANGED <<established, applied, deadline>>

OpenTheirs(frame) ==     \* bug: the peer's hold time is taken as it is
    /\ hold' = frame.hold
    /\ received_open' = TRUE
    /\ state' = "OPEN_CONFIRMED"
    /\ next_keepalive' = Interval(hold')
    /\ quiet' = 0
    /\ deadline' = IF hold' > 0 THEN hold' ELSE deadline
    /\ UNCHANGED <<established, applied>>

(* The OPEN settles the hold time; a KEEPALIVE answers it.  That write and *)
(* the one of the OPEN have no timeout and need none: they are the first   *)
(* of the connection, and go into an empty send buffer.                    *)
Open(frame) ==
    /\ hold' = Least(hold, frame.hold)
    /\ received_open' = TRUE
    /\ state' = "OPEN_CONFIRMED"
    /\ next_keepalive' = Interval(hold')
    /\ quiet' = 0
    /\ deadline' = IF hold' > 0 THEN hold' ELSE deadline
    /\ UNCHANGED <<established, applied>>

Rearm == deadline' = IF hold > 0 THEN hold ELSE deadline

Keepalive ==
    /\ established' = TRUE
    /\ state' = "ESTABLISHED"
    /\ Rearm
    /\ UNCHANGED <<hold, received_open, next_keepalive, quiet, applied>>

Update ==
    /\ applied' = TRUE
    /\ Rearm
    /\ UNCHANGED <<fsmVars, next_keepalive, quiet>>

ExpectedAnyTime(frame) ==     \* bug: UPDATEs accepted before the handshake ends
    \/ frame.kind = "open" /\ ~received_open
    \/ frame.kind = "keepalive" /\ received_open
    \/ frame.kind = "update" /\ received_open

Expected(frame) ==
    \/ frame.kind = "open" /\ ~received_open
    \/ frame.kind = "keepalive" /\ received_open
    \/ frame.kind = "update" /\ established

(* The body completes the frame: the match of connected().                 *)
HandleFrame ==
    /\ Polling
    /\ reader # None
    /\ inbox # << >>
    /\ IF Head(inbox) = <<"body", reader>> /\ Expected(reader)
       THEN /\ \/ reader.kind = "open" /\ Open(reader)
               \/ reader.kind = "keepalive" /\ Keepalive
               \/ reader.kind = "update" /\ Update
            /\ handshake' = IF Len(handshake) < 2
                            THEN Append(handshake, reader.kind) ELSE handshake
            /\ silence' = 0
            /\ stalled' = FALSE
            /\ UNCHANGED fate
       ELSE /\ fate' = IF Head(inbox) = <<"body", reader>> THEN "refused"
                       ELSE "garbage"
            /\ UNCHANGED <<fsmVars, deadline, next_keepalive, quiet, silence,
                           stalled, handshake, applied>>
    /\ reader' = None
    /\ inbox' = Tail(inbox)
    /\ waiting' = FALSE
    /\ UNCHANGED <<config, blocked, peer>>

ExpireOnceOpen ==     \* bug: no deadline for the OPEN itself
    /\ Polling
    /\ hold > 0
    /\ received_open
    /\ deadline = 0
    /\ fate' = "expired"
    /\ UNCHANGED <<config, timerVars, fsmVars, streamVars, ageVars, handshake,
                   applied>>

Expire ==
    /\ Polling
    /\ hold > 0
    /\ deadline = 0
    /\ fate' = "expired"
    /\ UNCHANGED <<config, timerVars, fsmVars, streamVars, ageVars, handshake,
                   applied>>

SendKeepaliveAfresh ==     \* bug: the loop starts a new read_message
    /\ Polling
    /\ received_open
    /\ hold > 0
    /\ next_keepalive = 0
    /\ blocked' = hold
    /\ reader' = None
    /\ UNCHANGED <<config, deadline, next_keepalive, fsmVars, inbox, peer, fate,
                   ageVars, handshake, applied>>

(* The write has `hold` seconds; until it is done nothing else is polled.  *)
SendKeepalive ==
    /\ Polling
    /\ received_open
    /\ hold > 0
    /\ next_keepalive = 0
    /\ blocked' = hold
    /\ UNCHANGED <<config, deadline, next_keepalive, fsmVars, streamVars, fate,
                   ageVars, handshake, applied>>

WrittenUntimed ==     \* bug: the next one is not scheduled before a frame came
    /\ fate = "up"
    /\ blocked # None
    /\ blocked' = None
    /\ next_keepalive' = deadline
    /\ quiet' = 0
    /\ UNCHANGED <<config, deadline, fsmVars, streamVars, fate, silence, stalled,
                   waiting, handshake, applied>>

Written ==
    /\ fate = "up"
    /\ blocked # None
    /\ blocked' = None
    /\ next_keepalive' = Interval(hold)
    /\ quiet' = 0
    /\ UNCHANGED <<config, deadline, fsmVars, streamVars, fate, silence, stalled,
                   waiting, handshake, applied>>

WriteTimeout ==
    /\ fate = "up"
    /\ blocked = 0
    /\ fate' = "unwritable"
    /\ UNCHANGED <<config, timerVars, fsmVars, streamVars, ageVars, handshake,
                   applied>>

-----------------------------------------------------------------------------
(* The peer, the network and the clock.                                    *)

SendHeader ==
    /\ fate = "up"
    /\ peer = None
    /\ Len(inbox) < MaxInbox
    /\ peer' \in Frame
    /\ inbox' = Append(inbox, <<"header", peer'>>)
    /\ UNCHANGED <<config, timerVars, fsmVars, reader, fate, ageVars, handshake,
                   applied>>

SendBody ==
    /\ fate = "up"
    /\ peer # None
    /\ Len(inbox) < MaxInbox
    /\ inbox' = Append(inbox, <<"body", peer>>)
    /\ peer' = None
    /\ UNCHANGED <<config, timerVars, fsmVars, reader, fate, ageVars, handshake,
                   applied>>

(* End of stream, a reset, a failed write.                                 *)
Close ==
    /\ fate = "up"
    /\ fate' = "closed"
    /\ UNCHANGED <<config, timerVars, fsmVars, streamVars, ageVars, handshake,
                   applied>>

Reconnect ==
    /\ fate # "up"
    /\ hold' = config
    /\ received_open' = FALSE
    /\ established' = FALSE
    /\ state' = "OPEN_SENT"
    /\ deadline' = config
    /\ next_keepalive' = 0
    /\ blocked' = None
    /\ reader' = None
    /\ inbox' = << >>
    /\ peer' = None
    /\ fate' = "up"
    /\ silence' = 0
    /\ quiet' = 0
    /\ stalled' = FALSE
    /\ waiting' = FALSE
    /\ handshake' = << >>
    /\ applied' = FALSE
    /\ UNCHANGED config

Ready ==
    IF blocked # None THEN blocked = 0
    ELSE \/ inbox # << >>
         \/ hold > 0 /\ deadline = 0
         \/ hold > 0 /\ received_open /\ next_keepalive = 0

Left(seconds) == IF seconds = 0 THEN 0 ELSE seconds - 1

(* A second passes.  With hold = 0 no timer runs and nothing is counted.   *)
Second ==
    /\ fate = "up"
    /\ ~Ready
    /\ hold > 0
    /\ deadline' = Left(deadline)
    /\ next_keepalive' = Left(next_keepalive)
    /\ blocked' = IF blocked = None THEN None ELSE Left(blocked)
    /\ silence' = silence + 1
    /\ quiet' = quiet + 1
    /\ stalled' = (stalled \/ blocked # None)
    /\ waiting' = (\E i \in DOMAIN inbox : inbox[i][1] = "body")
    /\ UNCHANGED <<config, fsmVars, streamVars, fate, handshake, applied>>

Poll == ReadHeader \/ HandleFrame \/ Expire \/ SendKeepalive \/ WriteTimeout

Next ==
    \/ ReadHeader \/ HandleFrame \/ Expire
    \/ SendKeepalive \/ Written \/ WriteTimeout
    \/ SendHeader \/ SendBody \/ Close
    \/ Reconnect
    \/ Second

(* The task is polled and time passes; the peer and the network owe        *)
(* nothing.                                                                *)
Spec == Init /\ [][Next]_vars /\ WF_vars(Poll) /\ WF_vars(Second)

-----------------------------------------------------------------------------
(* Properties.                                                             *)

TypeOK ==
    /\ config \in ConfigHolds
    /\ hold \in ConfigHolds \cup PeerHolds
    /\ received_open \in BOOLEAN
    /\ established \in BOOLEAN
    /\ state \in {"OPEN_SENT", "OPEN_CONFIRMED", "ESTABLISHED"}
    /\ deadline \in 0..config
    /\ next_keepalive \in 0..Interval(config)
    /\ blocked \in (0..hold) \cup {None}
    /\ reader \in Frame \cup {None}
    /\ inbox \in Seq(Part)
    /\ peer \in Frame \cup {None}
    /\ fate \in Fates
    /\ silence \in Nat
    /\ quiet \in Nat
    /\ stalled \in BOOLEAN
    /\ waiting \in BOOLEAN
    /\ handshake \in Seq({"open"} \cup OtherKinds)
    /\ applied \in BOOLEAN

(* "Keep the frame read alive while sending keepalives" (session.rs:231):  *)
(* however the timers cut into a frame, no byte of it is lost, so the next *)
(* header is looked for where the peer put it.                             *)
FramesIntact == fate # "garbage"

(* The state the clients see is the one the frames justify: OPEN_CONFIRMED *)
(* after the OPEN, ESTABLISHED after OPEN and KEEPALIVE in this order, and *)
(* no UPDATE is applied before (session.rs:245-277).                       *)
HandshakeFirst ==
    /\ state = "OPEN_CONFIRMED" => handshake = <<"open">>
    /\ state = "ESTABLISHED" \/ applied => handshake = <<"open", "keepalive">>

(* "Hold-timer enforcement — session resets on expiry" (README.md:29): a   *)
(* peer of which nothing is heard is given up after the negotiated hold    *)
(* time.  A blocked write delays that, to twice the hold time at most.     *)
DeadPeerNoticed ==
    fate = "up" /\ hold > 0 =>
        silence <= hold + (IF stalled THEN hold ELSE 0)

(* The other way round: the timer expires only when nothing was handled    *)
(* for the whole hold time, and a frame that had been there for a second   *)
(* is overlooked only if a write was blocked: then the deadline and the    *)
(* frame are both ready when it ends and the select! picks either.         *)
ExpiryDeserved ==
    fate = "expired" => silence >= hold /\ (waiting => stalled)

(* The peer hears from this side well within its hold time: a third of it, *)
(* plus what the write itself is blocked for (session.rs:238-241).         *)
PeerKeptAlive ==
    fate = "up" /\ received_open /\ hold > 0 =>
        /\ quiet <= Interval(hold) + (IF blocked = None THEN 0 ELSE hold - blocked)
        /\ Interval(hold) < hold

(* With a hold time configured, no connection hangs in the handshake: it   *)
(* ends, is established, or the peer has switched the timers off.          *)
HandshakeEnds ==
    fate = "up" /\ ~established /\ hold > 0 ~>
        fate # "up" \/ established \/ hold = 0

=============================================================================

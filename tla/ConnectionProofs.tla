-------------------------- MODULE ConnectionProofs --------------------------
(***************************************************************************)
(* Theorems about Connection, for all hold times either side may have, any *)
(* set of other frames and any number of parts in the stream.              *)
(*                                                                         *)
(* The invariant has four parts, one per concern of connected(): what its  *)
(* variables may hold, where the stream stands, how far the handshake is,  *)
(* and how the timers relate to the time that has passed.                  *)
(***************************************************************************)
EXTENDS Connection, SequenceTheorems, TLAPS

(* The hold time in force is never longer than the configured one, which   *)
(* is what bounds the timers.                                              *)
Types == TypeOK /\ hold <= config

(* A whole part and the next one: a header is followed by its own body, a  *)
(* body by a header.  The reader stands where the stream begins, and the   *)
(* peer where it ends.                                                     *)
Begins(part, read) ==
    IF read = None THEN part[1] = "header" ELSE part = <<"body", read>>
Ends(part, rest) == IF part[1] = "header" THEN rest = part[2] ELSE rest = None
Follows(part, other) ==
    IF part[1] = "header" THEN other = <<"body", part[2]>> ELSE other[1] = "header"

Stream ==
    /\ inbox = << >> => peer = reader
    /\ inbox # << >> => Begins(inbox[1], reader) /\ Ends(inbox[Len(inbox)], peer)
    /\ \A i \in 1..(Len(inbox) - 1) : Follows(inbox[i], inbox[i + 1])

(* The three stages of the handshake.                                      *)
Stages ==
    \/ /\ ~received_open /\ ~established /\ ~applied
       /\ state = "OPEN_SENT" /\ handshake = << >>
    \/ /\ received_open /\ ~established /\ ~applied
       /\ state = "OPEN_CONFIRMED" /\ handshake = <<"open">>
    \/ /\ received_open /\ established
       /\ state = "ESTABLISHED" /\ handshake = <<"open", "keepalive">>

(* While the connection is up and its timers run: what is left of the hold *)
(* timer is what the silence leaves of it; a write begins only before the  *)
(* timer has run out, for once it has, the next KEEPALIVE is not due       *)
(* without time passing; a write adds at most the hold time to the silence *)
(* and to the quiet.                                                       *)
Clocks ==
    fate = "up" /\ hold > 0 =>
        /\ deadline = IF silence >= hold THEN 0 ELSE hold - silence
        /\ ~stalled => silence <= hold
        /\ silence + (IF blocked = None THEN 0 ELSE blocked) <= 2 * hold
        /\ blocked = None /\ silence > hold => next_keepalive > 0
        /\ received_open /\ blocked = None =>
              quiet + next_keepalive <= Interval(hold)
        /\ received_open /\ blocked # None =>
              quiet <= Interval(hold) + (hold - blocked)
        /\ blocked # None => received_open

Timers ==
    /\ Clocks
    /\ waiting => stalled
    /\ fate = "expired" => silence >= hold

Inv == Types /\ Stream /\ Stages /\ Timers

-----------------------------------------------------------------------------
(* A third of a hold time.                                                 *)

LEMMA IntervalBound ==
    ASSUME NEW h \in Nat
    PROVE  /\ Interval(h) \in Nat \ {0}
           /\ h \notin {0, 1, 2} => Interval(h) < h
           /\ \A g \in Nat : g <= h => Interval(g) <= Interval(h)
BY DEF Interval


LEMMA HoldTypes ==
    ASSUME Types
    PROVE  /\ config \in Nat /\ hold \in Nat
           /\ hold \notin {1, 2}
           /\ deadline \in Nat /\ next_keepalive \in Nat
           /\ silence \in Nat /\ quiet \in Nat
           /\ blocked # None => blocked \in Nat /\ blocked <= hold
<1>1. config \in Nat /\ hold \in Nat /\ hold \notin {1, 2}
  BY HoldsAssumption DEF Types, TypeOK
<1>2. Interval(config) \in Nat
  BY <1>1, IntervalBound
<1>3. deadline \in Nat /\ next_keepalive \in Nat
  BY <1>1, <1>2 DEF Types, TypeOK
<1>4. blocked # None => blocked \in Nat /\ blocked <= hold
  BY <1>1 DEF Types, TypeOK
<1> QED BY <1>1, <1>3, <1>4 DEF Types, TypeOK

(* What an OPEN may negotiate.                                             *)
LEMMA OpenTypes ==
    ASSUME Types, reader \in Frame, reader.kind = "open"
    PROVE  /\ Least(hold, reader.hold) \in Nat \ {1, 2}
           /\ Least(hold, reader.hold) \in ConfigHolds \cup PeerHolds
           /\ Least(hold, reader.hold) <= hold
<1>1. reader.hold \in PeerHolds
  BY KindsAssumption DEF Frame
<1>2. reader.hold \in Nat \ {1, 2} /\ hold \in Nat \ {1, 2}
  BY <1>1, HoldTypes, HoldsAssumption
<1>3. hold \in ConfigHolds \cup PeerHolds
  BY DEF Types, TypeOK
<1> QED BY <1>1, <1>2, <1>3 DEF Least

-----------------------------------------------------------------------------
(* Types.                                                                  *)

LEMMA HandleFrameTypes ==
    ASSUME Types, HandleFrame
    PROVE  Types'
<1>1. /\ reader \in Frame /\ reader' = None
      /\ inbox \in Seq(Part) /\ inbox # << >> /\ inbox' = Tail(inbox)
      /\ waiting' = FALSE /\ fate' \in Fates
      /\ UNCHANGED <<config, blocked, peer>>
      /\ blocked = None
  BY DEF HandleFrame, Polling, Types, TypeOK, Fates
<1>2. inbox' \in Seq(Part)
  BY <1>1
<1>3. CASE Head(inbox) = <<"body", reader>> /\ Expected(reader)
  <2>1. /\ handshake' \in Seq({"open"} \cup OtherKinds)
        /\ silence' \in Nat /\ stalled' \in BOOLEAN
    <3>1. reader.kind \in {"open"} \cup OtherKinds
      BY <1>1 DEF Frame
    <3>2. handshake \in Seq({"open"} \cup OtherKinds)
      BY DEF Types, TypeOK
    <3>3. Append(handshake, reader.kind) \in Seq({"open"} \cup OtherKinds)
      BY <3>1, <3>2, AppendProperties
    <3>4. silence' = 0 /\ stalled' = FALSE
      BY <1>3, Zenon DEF HandleFrame
    <3> QED BY <1>3, <3>2, <3>3, <3>4 DEF HandleFrame
  <2>2. CASE reader.kind = "open" /\ Open(reader)
    <3>1. /\ hold' = Least(hold, reader.hold)
          /\ hold' \in Nat /\ hold' \in ConfigHolds \cup PeerHolds
          /\ hold' <= config
      BY <1>1, <2>2, OpenTypes, HoldTypes DEF Open, Types
    <3>2. /\ next_keepalive' = Interval(hold')
          /\ next_keepalive' \in 0..Interval(config)
      BY <2>2, <3>1, HoldTypes, IntervalBound DEF Open
    <3>3. deadline' \in 0..config
      BY <2>2, <3>1, HoldTypes DEF Open, Types, TypeOK
    <3>4. /\ received_open' \in BOOLEAN /\ established' \in BOOLEAN
          /\ applied' \in BOOLEAN
          /\ state' \in {"OPEN_SENT", "OPEN_CONFIRMED", "ESTABLISHED"}
          /\ quiet' \in Nat
      BY <2>2 DEF Open, Types, TypeOK
    <3> QED BY <1>1, <1>2, <2>1, <3>1, <3>2, <3>3, <3>4 DEF Types, TypeOK
  <2>3. CASE reader.kind = "keepalive" /\ Keepalive
    <3>1. deadline' \in 0..config
      BY <2>3, HoldTypes DEF Keepalive, Rearm, Types, TypeOK
    <3>2. /\ received_open' \in BOOLEAN /\ established' \in BOOLEAN
          /\ applied' \in BOOLEAN
          /\ state' \in {"OPEN_SENT", "OPEN_CONFIRMED", "ESTABLISHED"}
          /\ quiet' \in Nat
          /\ UNCHANGED <<hold, next_keepalive>>
      BY <2>3 DEF Keepalive, Types, TypeOK
    <3> QED BY <1>1, <1>2, <2>1, <3>1, <3>2 DEF Types, TypeOK
  <2>4. CASE reader.kind = "update" /\ Update
    <3>1. deadline' \in 0..config
      BY <2>4, HoldTypes DEF Update, Rearm, Types, TypeOK
    <3>2. /\ applied' \in BOOLEAN
          /\ UNCHANGED <<hold, received_open, established, state, next_keepalive,
                         quiet>>
      BY <2>4 DEF Update, fsmVars
    <3> QED BY <1>1, <1>2, <2>1, <3>1, <3>2 DEF Types, TypeOK
  <2> QED BY <1>3, <2>2, <2>3, <2>4 DEF HandleFrame
<1>4. CASE ~(Head(inbox) = <<"body", reader>> /\ Expected(reader))
  <2>1. UNCHANGED <<fsmVars, deadline, next_keepalive, quiet, silence, stalled,
                    handshake, applied>>
    BY <1>4 DEF HandleFrame
  <2> QED BY <1>1, <1>2, <2>1 DEF Types, TypeOK, fsmVars
<1> QED BY <1>3, <1>4

LEMMA NextTypes ==
    ASSUME Types, [Next]_vars
    PROVE  Types'
<1> USE DEF timerVars, fsmVars, streamVars, ageVars
<1>1. CASE ReadHeader
  <2>1. /\ inbox # << >> /\ inbox \in Seq(Part) /\ Head(inbox) \in Part
    BY <1>1 DEF ReadHeader, Types, TypeOK
  <2>2. inbox' \in Seq(Part) /\ reader' \in Frame \cup {None} /\ fate' \in Fates
    BY <1>1, <2>1 DEF ReadHeader, Types, TypeOK, Part, Fates
  <2> QED BY <1>1, <2>2 DEF ReadHeader, Types, TypeOK
<1>2. CASE HandleFrame
  BY <1>2, HandleFrameTypes
<1>3. CASE Expire \/ WriteTimeout \/ Close
  BY <1>3 DEF Expire, WriteTimeout, Close, Types, TypeOK, Fates
<1>4. CASE SendKeepalive
  BY <1>4, HoldTypes DEF SendKeepalive, Types, TypeOK
<1>5. CASE Written
  BY <1>5, HoldTypes, IntervalBound, SMTT(60) DEF Written, Types, TypeOK
<1>6. CASE SendHeader
  <2>1. <<"header", peer'>> \in Part /\ peer' \in Frame
    BY <1>6 DEF SendHeader, Part
  <2>2. inbox' \in Seq(Part)
    BY <1>6, <2>1, AppendProperties DEF SendHeader, Types, TypeOK
  <2> QED BY <1>6, <2>1, <2>2 DEF SendHeader, Types, TypeOK
<1>7. CASE SendBody
  <2>1. <<"body", peer>> \in Part
    BY <1>7 DEF SendBody, Part, Types, TypeOK
  <2>2. inbox' \in Seq(Part)
    BY <1>7, <2>1, AppendProperties DEF SendBody, Types, TypeOK
  <2> QED BY <1>7, <2>2 DEF SendBody, Types, TypeOK
<1>8. CASE Reconnect
  <2>1. config \in Nat /\ Interval(config) \in Nat
    BY HoldTypes, IntervalBound
  <2>2. inbox' \in Seq(Part) /\ handshake' \in Seq({"open"} \cup OtherKinds)
    BY <1>8, EmptySeq DEF Reconnect
  <2>3. /\ hold' \in ConfigHolds \cup PeerHolds /\ hold' <= config'
        /\ deadline' \in 0..config /\ next_keepalive' \in 0..Interval(config)
        /\ silence' \in Nat /\ quiet' \in Nat
    BY <1>8, <2>1 DEF Reconnect, Types, TypeOK
  <2>4. /\ received_open' \in BOOLEAN /\ established' \in BOOLEAN
        /\ stalled' \in BOOLEAN /\ waiting' \in BOOLEAN /\ applied' \in BOOLEAN
    BY <1>8, Zenon DEF Reconnect
  <2> QED BY <1>8, <2>2, <2>3, <2>4 DEF Reconnect, Types, TypeOK, Fates
<1>9. CASE Second
  <2>1. /\ deadline' \in 0..config
        /\ silence' \in Nat /\ quiet' \in Nat
    BY <1>9, HoldTypes DEF Second, Left, Types, TypeOK
  <2>3. next_keepalive' \in 0..Interval(config)
    <3>1. Interval(config) \in Nat
      BY HoldTypes, IntervalBound
    <3> QED BY <1>9, <3>1, HoldTypes DEF Second, Left, Types, TypeOK
  <2>4. blocked' \in (0..hold) \cup {None}
    <3>1. CASE blocked = None
      BY <1>9, <3>1 DEF Second
    <3>2. CASE blocked # None
      BY <1>9, <3>2, HoldTypes DEF Second, Left
    <3> QED BY <3>1, <3>2
  <2>2. stalled' \in BOOLEAN /\ waiting' \in BOOLEAN
    BY <1>9 DEF Second, Types, TypeOK
  <2> QED BY <1>9, <2>1, <2>2, <2>3, <2>4 DEF Second, Types, TypeOK
<1>10. CASE UNCHANGED vars
  BY <1>10 DEF vars, Types, TypeOK
<1> QED
  BY <1>1, <1>2, <1>3, <1>4, <1>5, <1>6, <1>7, <1>8, <1>9, <1>10 DEF Next

-----------------------------------------------------------------------------
(* The stream.                                                             *)

LEMMA InboxTypes ==
    ASSUME Types
    PROVE  /\ inbox \in Seq(Part) /\ Len(inbox) \in Nat
           /\ \A i \in 1..Len(inbox) :
                 /\ inbox[i][1] \in {"header", "body"}
                 /\ inbox[i][2] \in Frame
                 /\ inbox[i][2] # None
<1>1. inbox \in Seq(Part)
  BY DEF Types, TypeOK
<1>2. \A i \in 1..Len(inbox) : inbox[i] \in Part
  BY <1>1
<1> QED BY <1>1, <1>2, NoneAssumption DEF Part

(* What taking the first part leaves.                                      *)
LEMMA Taken ==
    ASSUME Types, inbox # << >>
    PROVE  /\ Head(inbox) = inbox[1]
           /\ Len(inbox) >= 1
           /\ Len(Tail(inbox)) = Len(inbox) - 1
           /\ \A i \in 1..Len(Tail(inbox)) : Tail(inbox)[i] = inbox[i + 1]
           /\ Tail(inbox) = << >> <=> Len(inbox) = 1
<1>1. inbox \in Seq(Part) /\ Len(inbox) \in Nat
  BY InboxTypes
<1>2. /\ Head(inbox) = inbox[1] /\ Len(inbox) >= 1
      /\ Tail(inbox) \in Seq(Part) /\ Len(Tail(inbox)) = Len(inbox) - 1
      /\ \A i \in 1..Len(Tail(inbox)) : Tail(inbox)[i] = inbox[i + 1]
  BY <1>1
<1>3. Tail(inbox) = << >> <=> Len(Tail(inbox)) = 0
  BY <1>2, EmptySeq
<1> QED BY <1>1, <1>2, <1>3

LEMMA TakeStream ==
    ASSUME Types, Stream, inbox # << >>, inbox' = Tail(inbox), UNCHANGED peer,
           \/ reader = None /\ reader' = inbox[1][2]
           \/ reader # None /\ reader' = None
    PROVE  Stream'
<1> DEFINE first == inbox[1]
<1>1. /\ Begins(first, reader)
      /\ first[1] \in {"header", "body"} /\ first[2] # None
  BY InboxTypes, Taken DEF Stream
<1>2. ASSUME inbox' = << >>
      PROVE  peer' = reader'
  <2>1. Ends(first, peer)
    BY <1>2, Taken DEF Stream
  <2> QED BY <1>1, <2>1 DEF Begins, Ends
<1>3. ASSUME inbox' # << >>
      PROVE  Begins(inbox'[1], reader') /\ Ends(inbox'[Len(inbox')], peer')
  <2>1. /\ Len(inbox') >= 1 /\ Len(inbox) >= 2
        /\ inbox'[1] = inbox[2] /\ inbox'[Len(inbox')] = inbox[Len(inbox)]
    BY <1>3, Taken, InboxTypes
  <2>2. Follows(first, inbox[2]) /\ Ends(inbox[Len(inbox)], peer)
    BY <2>1, InboxTypes DEF Stream
  <2>3. Begins(inbox[2], reader')
    BY <1>1, <2>2 DEF Begins, Follows
  <2>4. Ends(inbox'[Len(inbox')], peer')
    BY <2>1, <2>2 DEF Ends
  <2> QED BY <2>1, <2>3, <2>4
<1>4. \A i \in 1..(Len(inbox') - 1) : Follows(inbox'[i], inbox'[i + 1])
  <2> SUFFICES ASSUME NEW i \in 1..(Len(inbox') - 1)
               PROVE  Follows(inbox'[i], inbox'[i + 1])
    OBVIOUS
  <2>1. /\ i + 1 \in 1..(Len(inbox) - 1)
        /\ inbox'[i] = inbox[i + 1] /\ inbox'[i + 1] = inbox[(i + 1) + 1]
    BY Taken, InboxTypes
  <2> QED BY <2>1 DEF Stream
<1> QED BY <1>2, <1>3, <1>4 DEF Stream, Follows

LEMMA SendStream ==
    ASSUME Types, Stream, NEW part, UNCHANGED reader, inbox' = Append(inbox, part),
           \/ peer = None /\ part = <<"header", peer'>>
           \/ peer # None /\ part = <<"body", peer>> /\ peer' = None
    PROVE  Stream'
<1>1. /\ Len(inbox') = Len(inbox) + 1 /\ Len(inbox) \in Nat
      /\ \A i \in 1..Len(inbox) : inbox'[i] = inbox[i]
      /\ inbox'[Len(inbox) + 1] = part
  <2>1. inbox \in Seq(Part \cup {part})
    BY InboxTypes, SeqMonotonic
  <2> QED BY <2>1, AppendProperties, InboxTypes
<1>2. inbox' # << >>
  BY <1>1
<1>3. Ends(part, peer')
  BY DEF Ends
<1>4. Begins(inbox'[1], reader')
  <2>1. CASE inbox = << >>
    <3>1. Len(inbox) = 0 /\ peer = reader
      BY <2>1 DEF Stream
    <3> QED BY <1>1, <3>1 DEF Begins
  <2>2. CASE inbox # << >>
    <3>1. inbox'[1] = inbox[1]
      BY <1>1, <2>2, Taken
    <3> QED BY <2>2, <3>1 DEF Stream, Begins
  <2> QED BY <2>1, <2>2
<1>5. ASSUME NEW i \in 1..(Len(inbox') - 1)
      PROVE  Follows(inbox'[i], inbox'[i + 1])
  <2>1. CASE i = Len(inbox)
    <3>1. inbox # << >> /\ inbox[i][1] \in {"header", "body"} /\ inbox[i][2] # None
      BY <1>1, <2>1, InboxTypes
    <3>2. Ends(inbox[i], peer)
      BY <2>1, <3>1 DEF Stream
    <3>3. Follows(inbox[i], part)
      BY <3>1, <3>2 DEF Ends, Follows
    <3>4. inbox'[i] = inbox[i] /\ inbox'[i + 1] = part
      BY <1>1, <2>1
    <3> QED BY <3>3, <3>4
  <2>2. CASE i # Len(inbox)
    <3>1. /\ i \in 1..(Len(inbox) - 1)
          /\ inbox'[i] = inbox[i] /\ inbox'[i + 1] = inbox[i + 1]
      BY <1>1, <2>2
    <3> QED BY <3>1 DEF Stream
  <2> QED BY <2>1, <2>2
<1> QED BY <1>1, <1>2, <1>3, <1>4, <1>5 DEF Stream, Follows

LEMMA NextStream ==
    ASSUME Types, Stream, [Next]_vars
    PROVE  Stream'
<1>1. CASE ReadHeader
  <2>1. /\ inbox # << >> /\ inbox' = Tail(inbox) /\ reader = None /\ UNCHANGED peer
    BY <1>1 DEF ReadHeader
  <2>2. Begins(Head(inbox), reader) /\ Head(inbox) = inbox[1]
    BY <2>1, Taken DEF Stream
  <2>3. reader' = inbox[1][2]
    BY <1>1, <2>1, <2>2 DEF ReadHeader, Begins
  <2> QED BY <2>1, <2>3, TakeStream
<1>2. CASE HandleFrame
  BY <1>2, TakeStream DEF HandleFrame
<1>3. CASE SendHeader
  BY <1>3, SendStream DEF SendHeader
<1>4. CASE SendBody
  BY <1>4, SendStream DEF SendBody
<1>5. CASE Reconnect
  BY <1>5 DEF Reconnect, Stream
<1>6. CASE UNCHANGED streamVars
  BY <1>6 DEF streamVars, Stream, Begins, Ends, Follows
<1> QED
  BY <1>1, <1>2, <1>3, <1>4, <1>5, <1>6
  DEF Next, vars, Expire, SendKeepalive, Written, WriteTimeout, Close, Second

(* No read ends in the middle of a frame, so none is garbage.              *)
LEMMA NextIntact ==
    ASSUME Types, Stream, FramesIntact, [Next]_vars
    PROVE  FramesIntact'
<1>1. CASE ReadHeader
  <2>1. inbox # << >> /\ reader = None
    BY <1>1 DEF ReadHeader
  <2>2. Begins(Head(inbox), reader)
    BY <2>1, Taken DEF Stream
  <2> QED BY <1>1, <2>1, <2>2 DEF ReadHeader, Begins, FramesIntact
<1>2. CASE HandleFrame
  <2>1. inbox # << >> /\ reader # None
    BY <1>2 DEF HandleFrame
  <2>2. Begins(Head(inbox), reader)
    BY <2>1, Taken DEF Stream
  <2> QED BY <1>2, <2>1, <2>2 DEF HandleFrame, Begins, FramesIntact
<1> QED
  BY <1>1, <1>2
  DEF Next, vars, FramesIntact, Expire, SendKeepalive, Written, WriteTimeout,
      SendHeader, SendBody, Close, Reconnect, Second

-----------------------------------------------------------------------------
(* The handshake.                                                          *)

LEMMA FirstTwo == Append(<<"open">>, "keepalive") = <<"open", "keepalive">>
<1> DEFINE Words == {"open", "keepalive"}
           both == Append(<<"open">>, "keepalive")
<1>1. <<"open">> \in Seq(Words)
  OBVIOUS
<1>2. both \in Seq(Words) /\ Len(both) = 2 /\ both[1] = "open" /\ both[2] = "keepalive"
  BY <1>1, AppendProperties
<1>3. <<"open", "keepalive">> \in Seq(Words) /\ Len(<<"open", "keepalive">>) = 2
  OBVIOUS
<1>4. \A i \in 1..Len(both) : both[i] = <<"open", "keepalive">>[i]
  BY <1>2
<1> HIDE DEF both, Words
<1>5. both = <<"open", "keepalive">>
  BY <1>2, <1>3, <1>4, SeqEqual
<1> QED BY <1>5 DEF both

LEMMA NextStages ==
    ASSUME Stages, [Next]_vars
    PROVE  Stages'
<1>1. CASE HandleFrame
  <2>1. CASE Head(inbox) = <<"body", reader>> /\ Expected(reader)
    <3>1. handshake' = IF Len(handshake) < 2
                       THEN Append(handshake, reader.kind) ELSE handshake
      BY <1>1, <2>1, Zenon DEF HandleFrame
    <3>2. CASE reader.kind = "open" /\ Open(reader)
      <4>1. ~received_open /\ handshake = << >> /\ ~established /\ ~applied
        BY <2>1, <3>2 DEF Expected, Stages
      <4>2. handshake' = <<"open">>
        BY <3>1, <3>2, <4>1
      <4>3. /\ received_open' /\ ~established' /\ ~applied'
            /\ state' = "OPEN_CONFIRMED"
        BY <3>2, <4>1 DEF Open
      <4> QED BY <4>2, <4>3 DEF Stages
    <3>3. CASE reader.kind = "keepalive" /\ Keepalive
      <4>1. received_open' /\ established' /\ state' = "ESTABLISHED"
        BY <2>1, <3>3 DEF Expected, Keepalive
      <4>2. handshake = <<"open">> \/ handshake = <<"open", "keepalive">>
        BY <2>1, <3>3 DEF Expected, Stages
      <4>3. handshake' = <<"open", "keepalive">>
        <5>1. CASE handshake = <<"open">>
          <6>1. Len(handshake) = 1
            BY <5>1
          <6> QED BY <3>1, <3>3, <5>1, <6>1, FirstTwo
        <5>2. CASE handshake = <<"open", "keepalive">>
          BY <3>1, <5>2
        <5> QED BY <4>2, <5>1, <5>2
      <4> QED BY <4>1, <4>3 DEF Stages
    <3>4. CASE reader.kind = "update" /\ Update
      <4>1. established /\ handshake = <<"open", "keepalive">>
        BY <2>1, <3>4 DEF Expected, Stages
      <4>2. handshake' = handshake
        BY <3>1, <4>1
      <4> QED BY <3>4, <4>1, <4>2 DEF Stages, Update, fsmVars
    <3> QED BY <1>1, <2>1, <3>2, <3>3, <3>4 DEF HandleFrame
  <2>2. CASE ~(Head(inbox) = <<"body", reader>> /\ Expected(reader))
    <3>1. UNCHANGED <<fsmVars, handshake, applied>>
      BY <1>1, <2>2 DEF HandleFrame
    <3> QED BY <3>1 DEF fsmVars, Stages
  <2> QED BY <2>1, <2>2
<1>2. CASE Reconnect
  BY <1>2 DEF Reconnect, Stages
<1>3. CASE UNCHANGED <<fsmVars, handshake, applied>>
  BY <1>3 DEF fsmVars, Stages
<1> QED
  BY <1>1, <1>2, <1>3
  DEF Next, vars, ReadHeader, Expire, SendKeepalive, Written, WriteTimeout,
      SendHeader, SendBody, Close, Second

-----------------------------------------------------------------------------
(* The timers.                                                             *)

(* A frame sets everything back; the first one settles what counts.        *)
LEMMA HandleFrameTimers ==
    ASSUME Types, Timers, HandleFrame
    PROVE  Timers'
<1>1. fate = "up" /\ blocked = None /\ blocked' = None /\ waiting' = FALSE
  BY DEF HandleFrame, Polling
<1>2. CASE Head(inbox) = <<"body", reader>> /\ Expected(reader)
  <2>1. silence' = 0 /\ stalled' = FALSE /\ fate' = fate
    BY <1>2, Zenon DEF HandleFrame
  <2>2. CASE reader.kind = "open" /\ Open(reader)
    <3>1. /\ hold' = Least(hold, reader.hold) /\ hold' \in Nat
          /\ next_keepalive' = Interval(hold') /\ Interval(hold') \in Nat
          /\ quiet' = 0
          /\ hold' > 0 => deadline' = hold'
      <4>1. reader \in Frame
        BY DEF HandleFrame, Types, TypeOK
      <4>2. hold' \in Nat
        BY <2>2, <4>1, OpenTypes DEF Open
      <4> QED BY <2>2, <4>2, IntervalBound DEF Open
    <3> QED BY <1>1, <2>1, <3>1 DEF Timers, Clocks
  <2>3. CASE reader.kind = "keepalive" /\ Keepalive
    <3>1. /\ UNCHANGED <<hold, received_open, next_keepalive, quiet>>
          /\ hold > 0 => deadline' = hold
      BY <2>3 DEF Keepalive, Rearm
    <3> QED BY <1>1, <2>1, <3>1, HoldTypes, IntervalBound DEF Timers, Clocks
  <2>4. CASE reader.kind = "update" /\ Update
    <3>1. /\ UNCHANGED <<hold, received_open, next_keepalive, quiet>>
          /\ hold > 0 => deadline' = hold
      BY <2>4 DEF Update, Rearm, fsmVars
    <3> QED BY <1>1, <2>1, <3>1, HoldTypes, IntervalBound DEF Timers, Clocks
  <2> QED BY <1>2, <2>2, <2>3, <2>4 DEF HandleFrame
<1>3. CASE ~(Head(inbox) = <<"body", reader>> /\ Expected(reader))
  <2>1. fate' \in {"refused", "garbage"}
    BY <1>3 DEF HandleFrame
  <2> QED BY <1>1, <2>1 DEF Timers, Clocks
<1> QED BY <1>2, <1>3

(* Nothing is ready when a second passes: then the timer has not run out,  *)
(* and nothing is in the stream, unless a write is blocked.                *)
LEMMA SecondTimers ==
    ASSUME Types, Timers, Second
    PROVE  Timers'
<1>1. /\ fate = "up" /\ fate' = "up" /\ hold > 0 /\ UNCHANGED <<hold, received_open>>
      /\ deadline' = Left(deadline) /\ next_keepalive' = Left(next_keepalive)
      /\ silence' = silence + 1 /\ quiet' = quiet + 1
      /\ blocked' = IF blocked = None THEN None ELSE Left(blocked)
  BY DEF Second, fsmVars
<1>2. /\ deadline' = IF silence' >= hold THEN 0 ELSE hold - silence'
  BY <1>1, HoldTypes DEF Timers, Clocks, Left
<1>3. CASE blocked = None
  <2>1. /\ inbox = << >> /\ deadline > 0
        /\ received_open => next_keepalive > 0
    BY <1>1, <1>3, HoldTypes DEF Second, Ready
  <2>2. silence < hold
    BY <1>1, <2>1, HoldTypes DEF Timers, Clocks
  <2>3. received_open => quiet' + next_keepalive' <= Interval(hold)
    <3> SUFFICES ASSUME received_open
                 PROVE  quiet' + next_keepalive' <= Interval(hold)
      OBVIOUS
    <3>1. next_keepalive' = next_keepalive - 1 /\ quiet' = quiet + 1
      BY <1>1, <2>1, HoldTypes DEF Left
    <3>2. quiet + next_keepalive <= Interval(hold)
      BY <1>1, <1>3 DEF Timers, Clocks
    <3> QED BY <3>1, <3>2, HoldTypes, IntervalBound
  <2>4. waiting' = FALSE
    BY <2>1 DEF Second
  <2> QED BY <1>1, <1>2, <1>3, <2>2, <2>3, <2>4, HoldTypes DEF Timers, Clocks
<1>4. CASE blocked # None
  <2>1. blocked \in Nat \ {0} /\ blocked <= hold
    BY <1>4, HoldTypes DEF Second, Ready
  <2>2. blocked' = blocked - 1 /\ blocked' # None
    BY <1>1, <1>4, <2>1, NoneAssumption DEF Left
  <2>3. stalled' /\ received_open'
    BY <1>1, <1>4 DEF Second, Timers, Clocks
  <2>4. /\ silence' + blocked' <= 2 * hold
        /\ quiet' <= Interval(hold) + (hold - blocked')
    BY <1>1, <1>4, <2>1, <2>2, <2>3, HoldTypes, IntervalBound DEF Timers, Clocks
  <2> QED BY <1>1, <1>2, <2>2, <2>3, <2>4 DEF Timers, Clocks
<1> QED BY <1>3, <1>4

LEMMA NextTimers ==
    ASSUME Types, Timers, [Next]_vars
    PROVE  Timers'
<1> USE DEF timerVars, fsmVars, ageVars
<1>1. CASE HandleFrame
  BY <1>1, HandleFrameTimers
<1>2. CASE Second
  BY <1>2, SecondTimers
<1>3. CASE Expire
  BY <1>3, HoldTypes DEF Expire, Polling, Timers, Clocks
<1>4. CASE SendKeepalive
  <2>1. /\ fate = "up" /\ fate' = "up" /\ blocked = None /\ hold > 0 /\ received_open
        /\ next_keepalive = 0 /\ blocked' = hold
        /\ UNCHANGED <<deadline, next_keepalive, hold, received_open, silence, quiet,
                       stalled, waiting>>
    BY <1>4 DEF SendKeepalive, Polling
  <2>2. blocked' # None
    BY <2>1, HoldTypes, NoneAssumption
  <2>3. silence <= hold /\ quiet <= Interval(hold)
    BY <2>1, HoldTypes, IntervalBound DEF Timers, Clocks
  <2> QED BY <2>1, <2>2, <2>3, HoldTypes, IntervalBound DEF Timers, Clocks
<1>5. CASE Written
  <2>1. /\ fate = "up" /\ fate' = "up" /\ blocked # None /\ blocked' = None
        /\ next_keepalive' = Interval(hold) /\ quiet' = 0
        /\ UNCHANGED <<deadline, hold, received_open, silence, stalled, waiting>>
    BY <1>5 DEF Written
  <2> QED BY <2>1, HoldTypes, IntervalBound DEF Timers, Clocks
<1>6. CASE Reconnect
  <2>1. /\ hold' = config /\ deadline' = config /\ ~received_open'
        /\ next_keepalive' = 0 /\ blocked' = None /\ fate' = "up"
        /\ silence' = 0 /\ quiet' = 0 /\ ~stalled' /\ ~waiting'
    BY <1>6 DEF Reconnect
  <2> QED BY <2>1, HoldTypes DEF Timers, Clocks
<1>7. CASE WriteTimeout \/ Close
  BY <1>7 DEF WriteTimeout, Close, Timers, Clocks
<1>8. CASE ReadHeader
  BY <1>8 DEF ReadHeader, Timers, Clocks
<1>9. CASE SendHeader \/ SendBody \/ UNCHANGED vars
  BY <1>9 DEF SendHeader, SendBody, vars, Timers, Clocks
<1> QED
  BY <1>1, <1>2, <1>3, <1>4, <1>5, <1>6, <1>7, <1>8, <1>9 DEF Next

-----------------------------------------------------------------------------
(* The invariant, and what it says.                                        *)

LEMMA InitInv == Init => Inv /\ FramesIntact
<1> SUFFICES ASSUME Init PROVE Inv /\ FramesIntact
  OBVIOUS
<1>1. /\ config \in Nat /\ config \notin {1, 2} /\ Interval(config) \in Nat
      /\ hold = config /\ deadline = config
  BY HoldsAssumption, IntervalBound DEF Init
<1>2. inbox \in Seq(Part) /\ handshake \in Seq({"open"} \cup OtherKinds)
  BY EmptySeq DEF Init
<1>3. /\ received_open \in BOOLEAN /\ established \in BOOLEAN
      /\ stalled \in BOOLEAN /\ waiting \in BOOLEAN /\ applied \in BOOLEAN
  BY Zenon DEF Init
<1>4. Types
  BY <1>1, <1>2, <1>3 DEF Init, Types, TypeOK, Fates
<1>5. Stream
  BY DEF Init, Stream
<1>6. Stages
  BY DEF Init, Stages
<1>7. Timers
  BY <1>1 DEF Init, Timers, Clocks
<1> QED BY <1>4, <1>5, <1>6, <1>7 DEF Inv, Init, FramesIntact

LEMMA NextInv == Inv /\ FramesIntact /\ [Next]_vars => (Inv /\ FramesIntact)'
<1> SUFFICES ASSUME Inv, FramesIntact, [Next]_vars
             PROVE  (Inv /\ FramesIntact)'
  OBVIOUS
<1>1. Types' BY NextTypes DEF Inv
<1>2. Stream' BY NextStream DEF Inv
<1>3. Stages' BY NextStages DEF Inv
<1>4. Timers' BY NextTimers DEF Inv
<1>5. FramesIntact' BY NextIntact DEF Inv
<1> QED BY <1>1, <1>2, <1>3, <1>4, <1>5 DEF Inv

LEMMA Invariance == Spec => [](Inv /\ FramesIntact)
BY InitInv, NextInv, PTL DEF Spec

(* Every variable has its type, the timers their range: none exceeds what  *)
(* was configured, whatever the peer asks for (session.rs:246-252).        *)
THEOREM Typing == Spec => []TypeOK
<1>1. Inv => TypeOK
  BY DEF Inv, Types
<1> QED BY <1>1, Invariance, PTL

(* However the timers cut into a frame, the reader stays in step with the  *)
(* stream (session.rs:231).                                                *)
THEOREM FramesKept == Spec => []FramesIntact
BY Invariance, PTL

(* The state told to the clients is what the frames justify, and no UPDATE *)
(* is applied before the handshake (session.rs:245-277).                   *)
THEOREM HandshakeKept == Spec => []HandshakeFirst
<1>1. Inv => HandshakeFirst
  BY DEF Inv, Stages, HandshakeFirst
<1> QED BY <1>1, Invariance, PTL

(* A silent peer is given up after the hold time, or twice of it if a      *)
(* write was blocked (README.md:29).                                       *)
THEOREM DeadPeer == Spec => []DeadPeerNoticed
<1>1. Inv => DeadPeerNoticed
  BY HoldTypes DEF Inv, Timers, Clocks, DeadPeerNoticed
<1> QED BY <1>1, Invariance, PTL

(* No peer is given up before the hold time, nor while a frame of it is    *)
(* there, unless a write was blocked (session.rs:233-237).                 *)
THEOREM Expiry == Spec => []ExpiryDeserved
<1>1. Inv => ExpiryDeserved
  BY DEF Inv, Timers, ExpiryDeserved
<1> QED BY <1>1, Invariance, PTL

(* The peer hears something within a third of its hold time, and what a    *)
(* write is blocked for (session.rs:238-241).                              *)
THEOREM KeptAlive == Spec => []PeerKeptAlive
<1>1. Inv => PeerKeptAlive
  <2> SUFFICES ASSUME Inv, fate = "up", received_open, hold > 0
               PROVE  /\ quiet <= Interval(hold)
                                  + (IF blocked = None THEN 0 ELSE hold - blocked)
                      /\ Interval(hold) < hold
    BY DEF PeerKeptAlive
  <2>1. Interval(hold) \in Nat /\ Interval(hold) < hold
    BY HoldTypes, IntervalBound DEF Inv
  <2> QED BY <2>1, HoldTypes DEF Inv, Timers, Clocks
<1> QED BY <1>1, Invariance, PTL

=============================================================================

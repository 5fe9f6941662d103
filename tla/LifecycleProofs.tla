-------------------------- MODULE LifecycleProofs --------------------------
(***************************************************************************)
(* Theorems about Lifecycle, for any number of requests, sessions and      *)
(* captures.                                                               *)
(*                                                                         *)
(* The first half holds whether or not clients disconnect: the mutex has   *)
(* one holder, only the holder is past its first line, and a task that is  *)
(* let go of was signalled.  The second half is for clients that wait for  *)
(* their answers: a task that is let go of is awaited, hence alone, and    *)
(* the data say what it does.                                              *)
(***************************************************************************)
EXTENDS Lifecycle, SequenceTheorems, TLAPS

(* Past the first line of the handler, which is reached with the lock.     *)
Busy(h) == pc[h] \notin {"idle", "waiting"}

(* A handler in the mutex is there once, and those behind the head wait.   *)
Queue ==
    /\ \A i, j \in 1..Len(queue) : queue[i] = queue[j] => i = j
    /\ \A h \in Handlers : pc[h] # "idle" <=> \E i \in 1..Len(queue) : queue[i] = h
    /\ \A i \in 2..Len(queue) : pc[queue[i]] = "waiting"

(* Which operations pass which places, and what they wait for there.       *)
Places ==
    /\ op[Main] = "stop"
    /\ \A h \in Handlers :
          /\ pc[h] = "joinSession" =>
                op[h] \in {"start", "stop"} /\ joining[h] \in Sessions
          /\ pc[h] = "stopCapture" => op[h] # "captureStop"
          /\ pc[h] = "joinCapture" => joining[h] \in Captures \cup {None}
          /\ pc[h] \in {"stop", "tellStopped"} => op[h] = "stop"
          /\ pc[h] \in {"flush", "reset", "spawn"} => op[h] = "start"
          /\ pc[h] = "captureStart" => op[h] = "captureStart"

(* What a handler has taken out of `control` is out of it until it ends.   *)
Taken ==
    \A h \in Handlers :
        /\ Busy(h) /\ op[h] \in {"start", "stop"} => control.session = None
        /\ Busy(h) /\ pc[h] \notin {"joinSession", "stopCapture"} =>
              control.capture = None

(* The task in `control` runs and is not told to stop; one that leaves was.*)
Signals ==
    /\ NoOrphan
    /\ \A t \in Sessions :
          /\ control.session = t => Live(t) /\ ~stop[t]
          /\ stop[t] => Live(t)
          /\ leaving[t] => stop[t]
          /\ phase[t] \in {"ending", "saving"} => stop[t]

Mutex == TypeOK /\ Queue /\ Places /\ Taken
Inv == Mutex /\ Signals

-----------------------------------------------------------------------------
(* Without disconnects.                                                    *)

(* A task that runs is in `control` or is awaited; the port is with it.    *)
Awaited ==
    /\ \A t \in Sessions : Live(t) =>
          \/ control.session = t
          \/ \E h \in Handlers : pc[h] = "joinSession" /\ joining[h] = t
    /\ \A c \in Captures : Sniffing(c) =>
          \/ control.capture = c
          \/ \E h \in Handlers : pc[h] = "joinCapture" /\ joining[h] = c
    /\ \A t \in Sessions : port = t <=> Live(t) /\ phase[t] # "binding"

(* What the data say of the session.                                       *)
Told(t) == Live(t) /\ phase[t] # "saving"
DataHonest ==
    /\ data.running <=> \/ \E t \in Sessions : Told(t)
                        \/ \E h \in Handlers : pc[h] = "spawn"
    /\ data.state # "IDLE" => \E t \in Sessions : Told(t)
    /\ data.state = "ESTABLISHED" =>
          \E t \in Sessions : phase[t] \in {"established", "lost", "cleared"}
    /\ \A t \in Sessions : phase[t] = "established" => data.state = "ESTABLISHED"
    /\ data.peer # None =>
          phase[data.peer] \in {"greeting", "confirmed", "established", "lost"}
    /\ NoGhostRoutes

(* Between the handlers that change it, the last event is right.           *)
Engaged(h) == Busy(h) /\ op[h] \in {"start", "stop"}
EventHonest ==
    (\A h \in Handlers : ~Engaged(h)) => told = data.running \/ unsaid

(* A capture has a session, but for a handler that is about to end both.   *)
CaptureBelongs ==
    /\ data.capturing <=> \E c \in Captures : Sniffing(c)
    /\ control.capture # None =>
          \/ control.session # None
          \/ \E h \in Handlers : Engaged(h) /\ pc[h] \in {"joinSession", "stopCapture"}
    /\ \A h \in Handlers :
          Busy(h) /\ op[h] = "captureStart" => control.session # None

Leaves == main \in {"draining", "exited"} => late \/ \A t \in Sessions : ~Live(t)

Served == Awaited /\ DataHonest /\ EventHonest /\ CaptureBelongs /\ Leaves

-----------------------------------------------------------------------------
(* What the sequence operators do to the waiting line.                     *)
LEMMA Fresher == ASSUME NEW S, NEW t \in Fresh(S) PROVE t \in S
BY DEF Fresh

LEMMA Removed ==
  ASSUME NEW S, NEW q \in Seq(S), NEW i \in 1..Len(q)
  PROVE  /\ RemoveAt(q, i) \in Seq(S)
         /\ Len(RemoveAt(q, i)) = Len(q) - 1
         /\ \A j \in 1..(Len(q) - 1) :
               RemoveAt(q, i)[j] = q[IF j < i THEN j ELSE j + 1]
<1> DEFINE front == SubSeq(q, 1, i - 1)  back == SubSeq(q, i + 1, Len(q))
<1>1. Len(q) \in Nat
  OBVIOUS
<1>2. /\ front \in Seq(S)
      /\ Len(front) = i - 1
      /\ \A j \in 1..(i - 1) : front[j] = q[j]
  BY <1>1, SubSeqProperties
<1>3. /\ back \in Seq(S)
      /\ Len(back) = Len(q) - i
      /\ \A j \in 1..(Len(q) - i) : back[j] = q[i + j]
  BY <1>1, SubSeqProperties
<1>4. RemoveAt(q, i) = front \o back
  BY DEF RemoveAt
<1> HIDE DEF front, back
<1>5. /\ front \o back \in Seq(S)
      /\ Len(front \o back) = Len(q) - 1
      /\ \A j \in 1..(Len(q) - 1) :
            (front \o back)[j] = IF j <= i - 1 THEN front[j] ELSE back[j - (i - 1)]
  <2>1. /\ front \o back \in Seq(S)
        /\ Len(front \o back) = Len(front) + Len(back)
        /\ \A j \in 1..(Len(front) + Len(back)) :
              (front \o back)[j] = IF j <= Len(front) THEN front[j]
                                                      ELSE back[j - Len(front)]
    BY <1>2, <1>3, ConcatProperties
  <2>2. Len(front) + Len(back) = Len(q) - 1
    BY <1>1, <1>2, <1>3
  <2>3. Len(front) = i - 1
    BY <1>2
  <2> QED BY <2>1, <2>2, <2>3
<1>6. ASSUME NEW j \in 1..(Len(q) - 1)
      PROVE  (front \o back)[j] = q[IF j < i THEN j ELSE j + 1]
  <2>1. CASE j < i
    BY <1>1, <1>2, <1>5, <2>1
  <2>2. CASE ~(j < i)
    <3>1. j - (i - 1) \in 1..(Len(q) - i) /\ i + (j - (i - 1)) = j + 1
      BY <1>1, <2>2
    <3> QED BY <1>3, <1>5, <2>2, <3>1
  <2> QED BY <2>1, <2>2
<1> QED BY <1>4, <1>5, <1>6

(* A handler joins the line, steps on at its head, or leaves it.           *)
LEMMA JoinsLine ==
  ASSUME Mutex, NEW h \in Handlers, pc[h] = "idle",
         queue' = Append(queue, h), pc' = [pc EXCEPT ![h] = "waiting"]
  PROVE  Queue'
<1>1. /\ Len(queue) \in Nat
      /\ Len(queue') = Len(queue) + 1
      /\ queue'[Len(queue) + 1] = h
      /\ \A i \in 1..Len(queue) : queue'[i] = queue[i] /\ queue[i] \in Handlers
  BY AppendProperties DEF Mutex, TypeOK
<1>2. \A i \in 1..Len(queue) : queue[i] # h
  BY DEF Mutex, Queue
<1>3. \A g \in Handlers : pc'[g] = IF g = h THEN "waiting" ELSE pc[g]
  BY DEF Mutex, TypeOK
<1>4. \A i, j \in 1..Len(queue') : queue'[i] = queue'[j] => i = j
  BY <1>1, <1>2 DEF Mutex, Queue
<1>5. \A g \in Handlers : pc'[g] # "idle" <=> \E i \in 1..Len(queue') : queue'[i] = g
  <2> TAKE g \in Handlers
  <2>1. CASE g = h
    BY <1>1, <1>3, <2>1
  <2>2. CASE g # h
    <3>1. pc'[g] # "idle" <=> \E i \in 1..Len(queue) : queue[i] = g
      BY <1>3, <2>2 DEF Mutex, Queue
    <3>2. \A i \in 1..Len(queue') : queue'[i] = g => i \in 1..Len(queue)
      BY <1>1, <2>2
    <3> QED BY <1>1, <3>1, <3>2
  <2> QED BY <2>1, <2>2
<1>6. \A i \in 2..Len(queue') : pc'[queue'[i]] = "waiting"
  BY <1>1, <1>3 DEF Mutex, Queue
<1> QED BY <1>4, <1>5, <1>6 DEF Queue

LEMMA StepsOn ==
  ASSUME Mutex, NEW h \in Handlers, Holds(h), UNCHANGED queue,
         NEW place, place # "idle", Goto(h, place)
  PROVE  Queue'
<1>1. queue \in Seq(Handlers) /\ queue # << >> /\ queue[1] = h
  BY DEF Holds, Mutex, TypeOK
<1>2. \A g \in Handlers : pc'[g] = IF g = h THEN place ELSE pc[g]
  BY DEF Mutex, TypeOK, Goto
<1>3. \A i \in 2..Len(queue) : queue[i] # h /\ queue[i] \in Handlers
  BY <1>1 DEF Mutex, Queue
<1>4. \E i \in 1..Len(queue) : queue[i] = h
  BY <1>1
<1> QED BY <1>2, <1>3, <1>4 DEF Mutex, Queue

LEMMA LeavesHead ==
  ASSUME Mutex, NEW h \in Handlers, Holds(h),
         queue' = Tail(queue), Goto(h, "idle")
  PROVE  Queue'
<1>1. queue \in Seq(Handlers) /\ queue # << >> /\ queue[1] = h /\ Len(queue) \in Nat
  BY DEF Holds, Mutex, TypeOK
<1>2. /\ Len(queue') = Len(queue) - 1
      /\ \A i \in 1..Len(queue') : queue'[i] = queue[i + 1]
  BY <1>1, HeadTailProperties
<1>3. \A g \in Handlers : pc'[g] = IF g = h THEN "idle" ELSE pc[g]
  BY DEF Mutex, TypeOK, Goto
<1>4. \A i \in 2..Len(queue) : queue[i] # h /\ queue[i] \in Handlers
  BY <1>1 DEF Mutex, Queue
<1>5. \A i, j \in 1..Len(queue') : queue'[i] = queue'[j] => i = j
  BY <1>1, <1>2 DEF Mutex, Queue
<1>6. \A g \in Handlers : pc'[g] # "idle" <=> \E i \in 1..Len(queue') : queue'[i] = g
  <2> TAKE g \in Handlers
  <2>1. CASE g = h
    BY <1>1, <1>2, <1>3, <1>4, <2>1
  <2>2. CASE g # h
    <3>1. pc'[g] # "idle" <=> \E i \in 1..Len(queue) : queue[i] = g
      BY <1>3, <2>2 DEF Mutex, Queue
    <3>2. ASSUME NEW i \in 1..Len(queue), queue[i] = g
          PROVE  i - 1 \in 1..Len(queue') /\ queue'[i - 1] = g
      BY <1>1, <1>2, <2>2, <3>2
    <3>3. ASSUME NEW i \in 1..Len(queue'), queue'[i] = g
          PROVE  i + 1 \in 1..Len(queue) /\ queue[i + 1] = g
      BY <1>1, <1>2, <3>3
    <3> QED BY <3>1, <3>2, <3>3
  <2> QED BY <2>1, <2>2
<1>7. \A i \in 2..Len(queue') : pc'[queue'[i]] = "waiting"
  BY <1>1, <1>2, <1>3, <1>4 DEF Mutex, Queue
<1> QED BY <1>5, <1>6, <1>7 DEF Queue

LEMMA LeavesLine ==
  ASSUME Mutex, NEW h \in Handlers, NEW i \in DOMAIN queue, queue[i] = h,
         queue' = RemoveAt(queue, i), Goto(h, "idle")
  PROVE  Queue'
<1>1. queue \in Seq(Handlers) /\ Len(queue) \in Nat /\ i \in 1..Len(queue)
  BY DEF Mutex, TypeOK
<1> DEFINE old(j) == IF j < i THEN j ELSE j + 1
<1>2. /\ Len(queue') = Len(queue) - 1
      /\ \A j \in 1..Len(queue') : queue'[j] = queue[old(j)]
  BY <1>1, Removed
<1>3. \A g \in Handlers : pc'[g] = IF g = h THEN "idle" ELSE pc[g]
  BY DEF Mutex, TypeOK, Goto
<1>4. \A j \in 1..Len(queue) : queue[j] \in Handlers /\ (j # i => queue[j] # h)
  BY <1>1 DEF Mutex, Queue
<1>5. \A j \in 1..Len(queue') : old(j) \in 1..Len(queue) /\ old(j) # i
  BY <1>1, <1>2
<1>6. \A j, k \in 1..Len(queue') : old(j) = old(k) => j = k
  BY <1>1, <1>2
<1>7. \A j \in 1..Len(queue) : j # i => \E k \in 1..Len(queue') : old(k) = j
  <2> SUFFICES ASSUME NEW j \in 1..Len(queue), j # i
               PROVE  \E k \in 1..Len(queue') : old(k) = j
    OBVIOUS
  <2>1. CASE j < i
    BY <1>1, <1>2, <2>1
  <2>2. CASE ~(j < i)
    <3>1. j - 1 \in 1..Len(queue') /\ old(j - 1) = j
      BY <1>1, <1>2, <2>2
    <3> QED BY <3>1
  <2> QED BY <2>1, <2>2
<1>8. \A j \in 2..Len(queue') : old(j) \in 2..Len(queue)
  BY <1>1, <1>2
<1> HIDE DEF old
<1>9. \A j, k \in 1..Len(queue') : queue'[j] = queue'[k] => j = k
  BY <1>2, <1>5, <1>6 DEF Mutex, Queue
<1>10. \A g \in Handlers : pc'[g] # "idle" <=> \E j \in 1..Len(queue') : queue'[j] = g
  <2> TAKE g \in Handlers
  <2>1. CASE g = h
    BY <1>2, <1>3, <1>4, <1>5, <2>1
  <2>2. CASE g # h
    <3>1. pc'[g] # "idle" <=> \E j \in 1..Len(queue) : queue[j] = g
      BY <1>3, <2>2 DEF Mutex, Queue
    <3>2. ASSUME NEW j \in 1..Len(queue), queue[j] = g
          PROVE  \E k \in 1..Len(queue') : queue'[k] = g
      <4>1. PICK k \in 1..Len(queue') : old(k) = j
        BY <1>1, <1>7, <2>2, <3>2
      <4> QED BY <1>2, <3>2, <4>1
    <3>3. ASSUME NEW k \in 1..Len(queue'), queue'[k] = g
          PROVE  \E j \in 1..Len(queue) : queue[j] = g
      BY <1>2, <1>5, <3>3
    <3> QED BY <3>1, <3>2, <3>3
  <2> QED BY <2>1, <2>2
<1>11. \A j \in 2..Len(queue') : pc'[queue'[j]] = "waiting"
  <2> SUFFICES ASSUME NEW j \in 2..Len(queue') PROVE pc'[queue'[j]] = "waiting"
    OBVIOUS
  <2>1. j \in 1..Len(queue')
    BY <1>1, <1>2
  <2>2. queue'[j] = queue[old(j)] /\ old(j) \in 2..Len(queue) /\ old(j) # i
    BY <1>2, <1>5, <1>8, <2>1
  <2>3. queue[old(j)] \in Handlers /\ queue[old(j)] # h
    BY <1>4, <1>5, <2>1
  <2> QED BY <1>3, <2>2, <2>3 DEF Mutex, Queue
<1> QED BY <1>9, <1>10, <1>11 DEF Queue

(* Who is busy has the lock, and nobody else is busy.                      *)
LEMMA OneBusy ==
  ASSUME Mutex, NEW h \in Handlers, Busy(h)
  PROVE  Holds(h) /\ \A g \in Handlers : Busy(g) => g = h
<1>1. queue \in Seq(Handlers) /\ Len(queue) \in Nat
  BY DEF Mutex, TypeOK
<1>2. ASSUME NEW g \in Handlers, Busy(g)
      PROVE  Len(queue) > 0 /\ queue[1] = g
  <2>1. PICK i \in 1..Len(queue) : queue[i] = g
    BY <1>2 DEF Mutex, Queue, Busy
  <2>2. i \notin 2..Len(queue)
    BY <1>2, <2>1 DEF Mutex, Queue, Busy
  <2> QED BY <1>1, <2>1, <2>2
<1>3. queue # << >> /\ Head(queue) = queue[1]
  BY <1>1, <1>2
<1> QED BY <1>2, <1>3 DEF Holds

LEMMA HolderAlone ==
  ASSUME Mutex, NEW h \in Handlers, Holds(h)
  PROVE  \A g \in Handlers : Busy(g) => g = h
BY OneBusy DEF Holds

-----------------------------------------------------------------------------
(* What every step keeps.                                                  *)

Stations == {"idle", "waiting", "joinSession", "stopCapture", "joinCapture", "stop",
             "tellStopped", "flush", "reset", "spawn", "captureStart"}

LEMMA AnswerTypes ==
  ASSUME TypeOK, NEW h \in Handlers, Holds(h), Answer(h)
  PROVE  /\ queue' \in Seq(Handlers)
         /\ pc' \in [Handlers -> Stations]
         /\ op' \in [Handlers -> Ops]
         /\ main' \in {"serving", "stopping", "draining", "exited"}
<1>1. queue' \in Seq(Handlers)
  BY HeadTailProperties DEF TypeOK, Answer, Holds
<1> QED BY <1>1 DEF TypeOK, Answer, Goto, Ops, Stations

LEMMA NextTypes ==
  ASSUME TypeOK, [Next]_vars
  PROVE  TypeOK'
<1> USE DEF TypeOK, States, Ops, Phases, Connected
<1>1. CASE UNCHANGED vars
  BY <1>1 DEF vars, handlerVars, sessionVars, captureVars, historyVars
<1>2. ASSUME NEW h \in Handlers, NEW what \in Ops, Issue(h, what)
      PROVE  TypeOK'
  BY <1>2, AppendProperties DEF Issue, Goto, sessionVars, captureVars, historyVars
<1>3. ASSUME NEW h \in Handlers, Handle(h)
      PROVE  TypeOK'
  <2> USE DEF handlerVars, sessionVars, captureVars, historyVars,
              Locked, At, Holds, Goto, Answer
  <2>1. CASE StopSession(h)
    <3>1. CASE control.session = None
      BY <2>1, <3>1, SMTT(60) DEF StopSession
    <3>2. CASE control.session # None
      <4>1. stop' = [stop EXCEPT ![control.session] = TRUE]
        BY <2>1, <3>2 DEF StopSession
      <4>2. stop' \in [Sessions -> BOOLEAN]
        BY <4>1, Zenon
      <4> QED BY <2>1, <3>2, <4>2, SMTT(60) DEF StopSession
    <3> QED BY <3>1, <3>2
  <2>2. CASE SessionJoined(h)
    BY <2>2 DEF SessionJoined
  <2>3. CASE CheckRunning(h)
    <3>1. CASE data.running
      BY <2>3, <3>1 DEF CheckRunning
    <3>2. CASE ~data.running
      BY <2>3, <3>2, AnswerTypes DEF CheckRunning, Stations
    <3> QED BY <3>1, <3>2
  <2>4. CASE StopCapture(h)
    BY <2>4, SMTT(60) DEF StopCapture
  <2>5. CASE CaptureJoined(h)
    <3>1. CASE op[h] = "captureStop"
      BY <2>5, <3>1, AnswerTypes DEF CaptureJoined, Stations
    <3>2. CASE op[h] # "captureStop"
      BY <2>5, <3>2 DEF CaptureJoined
    <3> QED BY <3>1, <3>2
  <2>6. CASE StopData(h)
    BY <2>6, ZenonT(60) DEF StopData
  <2>7. CASE StopTold(h)
    BY <2>7, AnswerTypes, ZenonT(60) DEF StopTold, Stations
  <2>8. CASE StartFlush(h)
    <3>1. CASE Answer(h) /\ unsaid' = TRUE
      BY <2>8, <3>1, AnswerTypes DEF StartFlush, Stations
    <3>2. CASE Goto(h, "reset") /\ UNCHANGED <<queue, op, main, unsaid>>
      BY <2>8, <3>2 DEF StartFlush
    <3> QED BY <2>8, <3>1, <3>2 DEF StartFlush
  <2>9. CASE StartData(h)
    BY <2>9, ZenonT(60) DEF StartData
  <2>10. CASE StartSpawn(h)
    <3>1. PICK t \in Fresh({t \in Sessions : ~Live(t)}) :
            /\ control' = [control EXCEPT !.session = t]
            /\ phase' = [phase EXCEPT ![t] = "binding"]
      BY <2>10 DEF StartSpawn
    <3>2. t \in Sessions
      BY <3>1, Fresher
    <3> QED BY <2>10, <3>1, <3>2, AnswerTypes, ZenonT(60) DEF StartSpawn, Stations
  <2>11. CASE CaptureSpawn(h)
    <3>1. CASE UNCHANGED <<control, sniffer, data>>
      BY <2>11, <3>1, AnswerTypes DEF CaptureSpawn, Stations
    <3>2. ASSUME NEW c \in Fresh({c \in Captures : ~Sniffing(c)}),
                 control' = [control EXCEPT !.capture = c],
                 sniffer' = [sniffer EXCEPT ![c] = "sniffing"],
                 data' = [data EXCEPT !.capturing = TRUE]
          PROVE  TypeOK'
      <4>1. c \in Captures
        BY Fresher
      <4> QED BY <2>11, <3>2, <4>1, AnswerTypes DEF CaptureSpawn, Stations
    <3> QED BY <2>11, <3>1, <3>2 DEF CaptureSpawn
  <2> QED BY <1>3, <2>1, <2>2, <2>3, <2>4, <2>5, <2>6, <2>7, <2>8, <2>9, <2>10, <2>11 DEF Handle
<1>4. ASSUME NEW h \in Handlers, Disconnect(h)
      PROVE  TypeOK'
  BY <1>4, Removed DEF Disconnect, Goto, sessionVars, captureVars, historyVars
<1>5. ASSUME NEW t \in Sessions, Proceed(t) \/ Talk(t)
      PROVE  TypeOK'
  <2> USE DEF handlerVars, sessionVars, captureVars, historyVars, Enter, SetState
  <2>1. CASE Bind(t)
    BY <2>1 DEF Bind
  <2>2. CASE Connect(t)
    BY <2>2 DEF Connect
  <2>3. CASE Heed(t)
    <3>1. CASE UNCHANGED leaving
      BY <2>3, <3>1 DEF Heed
    <3>2. CASE leaving' = [leaving EXCEPT ![t] = TRUE]
      <4>1. leaving' \in [Sessions -> BOOLEAN]
        BY <3>2, Zenon
      <4> QED BY <2>3, <3>2, <4>1 DEF Heed
    <3> QED BY <2>3, <3>1, <3>2 DEF Heed
  <2>4. CASE ClearData(t)
    BY <2>4, ZenonT(60) DEF ClearData
  <2>5. CASE Rest(t)
    BY <2>5 DEF Rest
  <2>6. CASE End(t)
    BY <2>6, ZenonT(60) DEF End
  <2>7. CASE Save(t)
    BY <2>7 DEF Save
  <2>8. CASE Dialed(t)
    BY <2>8 DEF Dialed
  <2>9. CASE SendOpen(t)
    BY <2>9, ZenonT(60) DEF SendOpen
  <2>10. CASE ReceiveOpen(t)
    BY <2>10, ZenonT(60) DEF ReceiveOpen
  <2>11. CASE Confirm(t)
    BY <2>11, SMTT(60) DEF Confirm
  <2>12. CASE Establish(t)
    BY <2>12, SMTT(60) DEF Establish
  <2>13. CASE ReceiveUpdate(t)
    BY <2>13, ZenonT(60) DEF ReceiveUpdate
  <2>14. CASE Lose(t)
    BY <2>14 DEF Lose
  <2>15. CASE Retry(t)
    BY <2>15 DEF Retry
  <2> QED BY <1>5, <2>1, <2>2, <2>3, <2>4, <2>5, <2>6, <2>7, <2>8, <2>9, <2>10, <2>11, <2>12, <2>13, <2>14, <2>15 DEF Proceed, Talk
<1>6. ASSUME NEW c \in Captures, SniffEnds(c) \/ SniffDone(c)
      PROVE  TypeOK'
  <2>1. CASE SniffEnds(c)
    BY <2>1 DEF SniffEnds, handlerVars, sessionVars, historyVars
  <2>2. CASE SniffDone(c)
    BY <2>2, ZenonT(60) DEF SniffDone, handlerVars, sessionVars, historyVars
  <2> QED BY <1>6, <2>1, <2>2
<1>7. CASE Exit
  BY <1>7 DEF Exit, handlerVars, sessionVars, captureVars, historyVars
<1> QED BY <1>1, <1>2, <1>3, <1>4, <1>5, <1>6, <1>7 DEF Next, Exited

(* The tasks leave the handlers alone.                                     *)
LEMMA TaskFrame ==
  ASSUME NEW t \in Sessions, Proceed(t) \/ Talk(t)
  PROVE  UNCHANGED <<handlerVars, captureVars, main, historyVars>>
<1>1. CASE Bind(t)
  BY <1>1 DEF Bind
<1>2. CASE Connect(t)
  BY <1>2 DEF Connect
<1>3. CASE Heed(t)
  BY <1>3 DEF Heed
<1>4. CASE ClearData(t)
  BY <1>4 DEF ClearData
<1>5. CASE Rest(t)
  BY <1>5 DEF Rest
<1>6. CASE End(t)
  BY <1>6 DEF End
<1>7. CASE Save(t)
  BY <1>7 DEF Save
<1>8. CASE Dialed(t)
  BY <1>8 DEF Dialed
<1>9. CASE SendOpen(t)
  BY <1>9 DEF SendOpen
<1>10. CASE ReceiveOpen(t)
  BY <1>10 DEF ReceiveOpen
<1>11. CASE Confirm(t)
  BY <1>11 DEF Confirm
<1>12. CASE Establish(t)
  BY <1>12 DEF Establish
<1>13. CASE ReceiveUpdate(t)
  BY <1>13 DEF ReceiveUpdate
<1>14. CASE Lose(t)
  BY <1>14 DEF Lose
<1>15. CASE Retry(t)
  BY <1>15 DEF Retry
<1> QED BY <1>1, <1>2, <1>3, <1>4, <1>5, <1>6, <1>7, <1>8, <1>9, <1>10, <1>11, <1>12, <1>13, <1>14, <1>15 DEF Proceed, Talk

LEMMA OtherFrame ==
  ASSUME \/ Exit \/ UNCHANGED vars
         \/ \E t \in Sessions : Proceed(t) \/ Talk(t)
         \/ \E c \in Captures : SniffEnds(c) \/ SniffDone(c)
  PROVE  UNCHANGED handlerVars
BY TaskFrame DEF Exit, SniffEnds, SniffDone, vars

LEMMA NextQueue ==
  ASSUME Mutex, [Next]_vars
  PROVE  Queue'
<1>1. CASE UNCHANGED handlerVars
  BY <1>1 DEF handlerVars, Mutex, Queue
<1>2. ASSUME NEW h \in Handlers, NEW what \in Ops, Issue(h, what)
      PROVE  Queue'
  BY <1>2, JoinsLine DEF Issue, Goto
<1>3. ASSUME NEW h \in Handlers, Handle(h)
      PROVE  Queue'
  <2> USE DEF Locked, At, handlerVars
  <2>1. CASE StopSession(h)
    BY <2>1, StepsOn DEF StopSession
  <2>2. CASE SessionJoined(h)
    BY <2>2, StepsOn DEF SessionJoined
  <2>3. CASE CheckRunning(h)
    BY <2>3, StepsOn, LeavesHead DEF CheckRunning, Answer, Mutex, TypeOK, Ops
  <2>4. CASE StopCapture(h)
    BY <2>4, StepsOn DEF StopCapture
  <2>5. CASE CaptureJoined(h)
    BY <2>5, StepsOn, LeavesHead DEF CaptureJoined, Answer, Mutex, TypeOK, Ops
  <2>6. CASE StopData(h)
    BY <2>6, StepsOn DEF StopData
  <2>7. CASE StopTold(h)
    BY <2>7, LeavesHead DEF StopTold, Answer
  <2>8. CASE StartFlush(h)
    BY <2>8, StepsOn, LeavesHead DEF StartFlush, Answer, Mutex, TypeOK, Ops
  <2>9. CASE StartData(h)
    BY <2>9, StepsOn DEF StartData
  <2>10. CASE StartSpawn(h)
    BY <2>10, LeavesHead DEF StartSpawn, Answer
  <2>11. CASE CaptureSpawn(h)
    BY <2>11, LeavesHead DEF CaptureSpawn, Answer
  <2> QED BY <1>3, <2>1, <2>2, <2>3, <2>4, <2>5, <2>6, <2>7, <2>8, <2>9, <2>10, <2>11 DEF Handle
<1>4. ASSUME NEW h \in Handlers, Disconnect(h)
      PROVE  Queue'
  BY <1>4, LeavesLine DEF Disconnect
<1> QED BY <1>1, <1>2, <1>3, <1>4, OtherFrame DEF Next, Exited

LEMMA NextPlaces ==
  ASSUME Mutex, [Next]_vars
  PROVE  Places'
<1>1. CASE UNCHANGED handlerVars
  BY <1>1 DEF handlerVars, Mutex, Places
<1>2. ASSUME NEW h \in Handlers, NEW what \in Ops, Issue(h, what)
      PROVE  Places'
  BY <1>2, NamesAssumption DEF Issue, Goto, Mutex, TypeOK, Places, Handlers
<1>3. ASSUME NEW h \in Handlers, Handle(h)
      PROVE  Places'
  <2> USE DEF Mutex, TypeOK, Places, Ops, Handlers, Locked, At, Goto, Answer, handlerVars
  <2>1. CASE StopSession(h)
    BY <2>1 DEF StopSession
  <2>2. CASE SessionJoined(h)
    BY <2>2 DEF SessionJoined
  <2>3. CASE CheckRunning(h)
    BY <2>3 DEF CheckRunning
  <2>4. CASE StopCapture(h)
    BY <2>4 DEF StopCapture
  <2>5. CASE CaptureJoined(h)
    BY <2>5 DEF CaptureJoined
  <2>6. CASE StopData(h)
    BY <2>6 DEF StopData
  <2>7. CASE StopTold(h)
    BY <2>7 DEF StopTold
  <2>8. CASE StartFlush(h)
    BY <2>8 DEF StartFlush
  <2>9. CASE StartData(h)
    BY <2>9 DEF StartData
  <2>10. CASE StartSpawn(h)
    BY <2>10 DEF StartSpawn
  <2>11. CASE CaptureSpawn(h)
    BY <2>11 DEF CaptureSpawn
  <2> QED BY <1>3, <2>1, <2>2, <2>3, <2>4, <2>5, <2>6, <2>7, <2>8, <2>9, <2>10, <2>11 DEF Handle
<1>4. ASSUME NEW h \in Handlers, Disconnect(h)
      PROVE  Places'
  BY <1>4, NamesAssumption DEF Disconnect, Goto, Mutex, TypeOK, Places, Handlers
<1> QED BY <1>1, <1>2, <1>3, <1>4, OtherFrame DEF Next, Exited

LEMMA ByHolder ==
  ASSUME Mutex, NEW h \in Handlers, Handle(h)
  PROVE  Holds(h) /\ \A g \in Handlers : Busy(g) => g = h
<1>1. Holds(h)
  BY DEF Handle, Locked, At, StopSession, SessionJoined, CheckRunning, StopCapture,
         CaptureJoined, StopData, StopTold, StartFlush, StartData, StartSpawn,
         CaptureSpawn
<1> QED BY <1>1, HolderAlone

LEMMA NextTaken ==
  ASSUME Mutex, [Next]_vars
  PROVE  Taken'
<1>1. CASE UNCHANGED handlerVars
  BY <1>1 DEF handlerVars, Mutex, Taken, Busy
<1>2. ASSUME NEW h \in Handlers, NEW what \in Ops, Issue(h, what)
      PROVE  Taken'
  BY <1>2 DEF Issue, Goto, Mutex, TypeOK, Taken, Busy
<1>3. ASSUME NEW h \in Handlers, Handle(h)
      PROVE  Taken'
  <2>0. Holds(h) /\ \A g \in Handlers : Busy(g) => g = h
    BY <1>3, ByHolder
  <2> USE DEF Mutex, TypeOK, Places, Taken, Busy, Ops, Locked, At, Goto, Answer, handlerVars
  <2>1. CASE StopSession(h)
    <3>1. \A g \in Handlers : IF g = h THEN pc'[g] \in {"stopCapture", "joinSession"}
                                       ELSE pc'[g] = pc[g]
      BY <2>1 DEF StopSession
    <3>2. control' = [control EXCEPT !.session = None] /\ UNCHANGED op
      BY <2>1 DEF StopSession
    <3> QED BY <2>0, <3>1, <3>2
  <2>2. CASE SessionJoined(h)
    BY <2>0, <2>2 DEF SessionJoined
  <2>3. CASE CheckRunning(h)
    BY <2>0, <2>3 DEF CheckRunning
  <2>4. CASE StopCapture(h)
    BY <2>0, <2>4 DEF StopCapture
  <2>5. CASE CaptureJoined(h)
    BY <2>0, <2>5 DEF CaptureJoined
  <2>6. CASE StopData(h)
    BY <2>0, <2>6 DEF StopData
  <2>7. CASE StopTold(h)
    BY <2>0, <2>7 DEF StopTold
  <2>8. CASE StartFlush(h)
    BY <2>0, <2>8 DEF StartFlush
  <2>9. CASE StartData(h)
    BY <2>0, <2>9 DEF StartData
  <2>10. CASE StartSpawn(h)
    BY <2>0, <2>10 DEF StartSpawn
  <2>11. CASE CaptureSpawn(h)
    BY <2>0, <2>11 DEF CaptureSpawn
  <2> QED BY <1>3, <2>1, <2>2, <2>3, <2>4, <2>5, <2>6, <2>7, <2>8, <2>9, <2>10, <2>11 DEF Handle
<1>4. ASSUME NEW h \in Handlers, Disconnect(h)
      PROVE  Taken'
  BY <1>4 DEF Disconnect, Goto, Mutex, TypeOK, Taken, Busy
<1> QED BY <1>1, <1>2, <1>3, <1>4, OtherFrame DEF Next, Exited

LEMMA NextMutex ==
  ASSUME Mutex, [Next]_vars
  PROVE  Mutex'
<1>1. TypeOK'
  BY NextTypes DEF Mutex
<1> QED BY <1>1, NextQueue, NextPlaces, NextTaken DEF Mutex

-----------------------------------------------------------------------------
(* No task is lost.                                                        *)

LEMMA NextSignals ==
  ASSUME Inv, [Next]_vars
  PROVE  Signals'
<1> DEFINE watched == <<control, phase, stop, leaving, sniffer, hush>>
<1>0. ASSUME UNCHANGED watched PROVE Signals'
  BY <1>0 DEF Inv, Signals, NoOrphan, Live, Sniffing
<1>1. CASE UNCHANGED vars \/ Exit
  BY <1>0, <1>1 DEF vars, handlerVars, sessionVars, captureVars, Exit
<1>2. ASSUME NEW h \in Handlers, NEW what \in Ops, Issue(h, what)
      PROVE  Signals'
  BY <1>0, <1>2 DEF Issue, sessionVars, captureVars
<1>3. ASSUME NEW h \in Handlers, Handle(h)
      PROVE  Signals'
  <2>0. Holds(h) /\ \A g \in Handlers : Busy(g) => g = h
    BY <1>3, ByHolder DEF Inv
  <2>1. CASE StopSession(h)
    <3>1. CASE control.session = None
      <4>1. UNCHANGED watched
        BY <2>1, <3>1 DEF StopSession, captureVars, Inv, Mutex, TypeOK
      <4> QED BY <1>0, <4>1
    <3>2. CASE control.session # None
      <4>1. /\ stop' = [stop EXCEPT ![control.session] = TRUE]
            /\ control' = [control EXCEPT !.session = None]
            /\ UNCHANGED <<phase, leaving, sniffer, hush>>
            /\ control.session \in Sessions
        BY <2>1, <3>2 DEF StopSession, captureVars, Inv, Mutex, TypeOK
      <4>2. control'.session = None /\ control'.capture = control.capture
        BY <4>1 DEF Inv, Mutex, TypeOK
      <4>3. stop'[control.session]
        BY <4>1 DEF Inv, Mutex, TypeOK
      <4>4. \A t \in Sessions : t # control.session => (stop'[t] <=> stop[t])
        BY <4>1 DEF Inv, Mutex, TypeOK
      <4> QED BY <4>1, <4>2, <4>3, <4>4, NamesAssumption
              DEF Inv, Signals, NoOrphan, Live, Sniffing
    <3> QED BY <3>1, <3>2
  <2>2. CASE StopCapture(h)
    <3>1. /\ hush' = [d \in Captures |-> hush[d] \/ (d = control.capture /\ Sniffing(d))]
          /\ control' = [control EXCEPT !.capture = None]
          /\ UNCHANGED <<phase, stop, leaving, sniffer>>
      BY <2>2 DEF StopCapture, sessionVars
    <3>2. control'.session = control.session /\ control'.capture = None
      BY <3>1 DEF Inv, Mutex, TypeOK
    <3>3. \A c \in Captures : Sniffing(c) => hush'[c]
      BY <3>1 DEF Inv, Signals, NoOrphan
    <3> QED BY <3>1, <3>2, <3>3 DEF Inv, Signals, NoOrphan, Live, Sniffing
  <2>3. CASE StartSpawn(h)
    <3>1. PICK t \in Fresh({t \in Sessions : ~Live(t)}) :
            /\ control' = [control EXCEPT !.session = t]
            /\ phase' = [phase EXCEPT ![t] = "binding"]
      BY <2>3 DEF StartSpawn
    <3>2. t \in Sessions /\ ~Live(t)
      BY <3>1, Fresher
    <3>3. control.session = None
      BY <2>3 DEF StartSpawn, At, Inv, Mutex, Taken, Places, Busy
    <3>4. UNCHANGED <<stop, leaving, sniffer, hush>>
      BY <2>3 DEF StartSpawn, captureVars
    <3>5. control'.session = t /\ control'.capture = control.capture
      BY <3>1 DEF Inv, Mutex, TypeOK
    <3>6. \A u \in Sessions : phase'[u] = IF u = t THEN "binding" ELSE phase[u]
      BY <3>1 DEF Inv, Mutex, TypeOK
    <3> QED BY <3>2, <3>3, <3>4, <3>5, <3>6, NamesAssumption
            DEF Inv, Signals, NoOrphan, Live, Sniffing
  <2>4. CASE CaptureSpawn(h)
    <3>1. CASE UNCHANGED <<control, sniffer, data>>
      BY <1>0, <2>4, <3>1 DEF CaptureSpawn, sessionVars
    <3>2. ASSUME NEW c \in Fresh({c \in Captures : ~Sniffing(c)}),
                 control' = [control EXCEPT !.capture = c],
                 sniffer' = [sniffer EXCEPT ![c] = "sniffing"]
          PROVE  Signals'
      <4>1. c \in Captures
        BY Fresher
      <4>2. control.capture = None
        BY <2>4 DEF CaptureSpawn, At, Inv, Mutex, Taken, Busy
      <4>3. UNCHANGED <<phase, stop, leaving, hush>>
        BY <2>4 DEF CaptureSpawn, sessionVars
      <4> QED BY <3>2, <4>1, <4>2, <4>3, NamesAssumption
              DEF Inv, Mutex, TypeOK, Signals, NoOrphan, Live, Sniffing
    <3> QED BY <2>4, <3>1, <3>2 DEF CaptureSpawn
  <2>5. CASE UNCHANGED watched
    BY <1>0, <2>5
  <2> QED BY <1>3, <2>1, <2>2, <2>3, <2>4, <2>5
          DEF Handle, SessionJoined, CheckRunning, CaptureJoined, StopData, StopTold,
              StartFlush, StartData, sessionVars, captureVars
<1>4. ASSUME NEW h \in Handlers, Disconnect(h)
      PROVE  Signals'
  BY <1>0, <1>4 DEF Disconnect, sessionVars, captureVars
<1>5. ASSUME NEW t \in Sessions, Proceed(t) \/ Talk(t)
      PROVE  Signals'
  <2>0. UNCHANGED <<control, sniffer, hush>>
    BY <1>5, TaskFrame DEF handlerVars, captureVars
  <2> USE DEF Inv, Mutex, TypeOK, Signals, NoOrphan, Live, Sniffing, Connected, Enter,
              sessionVars
  <2>1. CASE Bind(t)
    BY <2>0, <2>1 DEF Bind
  <2>2. CASE Connect(t)
    BY <2>0, <2>2 DEF Connect
  <2>3. CASE Heed(t)
    BY <2>0, <2>3 DEF Heed
  <2>4. CASE ClearData(t)
    BY <2>0, <2>4 DEF ClearData
  <2>5. CASE Rest(t)
    BY <2>0, <2>5 DEF Rest
  <2>6. CASE End(t)
    BY <2>0, <2>6 DEF End
  <2>7. CASE Save(t)
    BY <2>0, <2>7 DEF Save
  <2>8. CASE Dialed(t)
    BY <2>0, <2>8 DEF Dialed
  <2>9. CASE SendOpen(t)
    BY <2>0, <2>9 DEF SendOpen
  <2>10. CASE ReceiveOpen(t)
    BY <2>0, <2>10 DEF ReceiveOpen
  <2>11. CASE Confirm(t)
    BY <2>0, <2>11 DEF Confirm
  <2>12. CASE Establish(t)
    BY <2>0, <2>12 DEF Establish
  <2>13. CASE ReceiveUpdate(t)
    BY <2>0, <2>13 DEF ReceiveUpdate
  <2>14. CASE Lose(t)
    BY <2>0, <2>14 DEF Lose
  <2>15. CASE Retry(t)
    BY <2>0, <2>15 DEF Retry
  <2> QED BY <1>5, <2>1, <2>2, <2>3, <2>4, <2>5, <2>6, <2>7, <2>8, <2>9, <2>10, <2>11, <2>12, <2>13, <2>14, <2>15 DEF Proceed, Talk
<1>6. ASSUME NEW c \in Captures, SniffEnds(c) \/ SniffDone(c)
      PROVE  Signals'
  BY <1>6 DEF SniffEnds, SniffDone, handlerVars, sessionVars, Inv, Mutex, TypeOK,
              Signals, NoOrphan, Live, Sniffing
<1> QED BY <1>1, <1>2, <1>3, <1>4, <1>5, <1>6 DEF Next, Exited

LEMMA InitInv == Init => Inv
<1> SUFFICES ASSUME Init PROVE Inv
  OBVIOUS
<1>1. TypeOK
  <2>1. /\ stop \in [Sessions -> BOOLEAN]
        /\ leaving \in [Sessions -> BOOLEAN]
        /\ hush \in [Captures -> BOOLEAN]
    BY Zenon DEF Init
  <2>2. data \in [running : BOOLEAN, state : States, peer : Sessions \cup {None},
                  rib : SUBSET Sessions, capturing : BOOLEAN]
    BY DEF Init, States
  <2>3. queue \in Seq(Handlers)
    BY DEF Init
  <2>4. /\ told \in BOOLEAN /\ unsaid \in BOOLEAN /\ late \in BOOLEAN
    BY Zenon DEF Init
  <2>5. /\ pc \in [Handlers -> Stations]
        /\ op \in [Handlers -> Ops]
        /\ joining \in [Handlers -> Sessions \cup Captures \cup {None}]
    BY DEF Init, Ops, Stations
  <2>6. phase \in [Sessions -> Phases]
    BY DEF Init, Phases
  <2>7. /\ control \in [session : Sessions \cup {None}, capture : Captures \cup {None}]
        /\ sniffer \in [Captures -> {"none", "sniffing", "killing"}]
        /\ port \in Sessions \cup {None}
        /\ main \in {"serving", "stopping", "draining", "exited"}
    BY DEF Init
  <2> QED BY <2>1, <2>2, <2>3, <2>4, <2>5, <2>6, <2>7 DEF TypeOK, Stations
<1>2. Queue /\ Places /\ Taken
  BY DEF Init, Queue, Places, Taken, Busy, Handlers
<1>3. Signals
  BY NamesAssumption DEF Init, Signals, NoOrphan, Live, Sniffing
<1> QED BY <1>1, <1>2, <1>3 DEF Inv, Mutex

LEMMA NextInv == Inv /\ [Next]_vars => Inv'
<1> SUFFICES ASSUME Inv, [Next]_vars PROVE Inv'
  OBVIOUS
<1>1. Mutex'
  BY NextMutex DEF Inv
<1> QED BY <1>1, NextSignals DEF Inv

LEMMA Invariance == Spec => []Inv
BY InitInv, NextInv, PTL DEF Spec

(* Every variable keeps its type, whoever leaves when.                     *)
THEOREM Typing == Spec => []TypeOK
<1>1. Inv => TypeOK
  BY DEF Inv, Mutex
<1> QED BY <1>1, Invariance, PTL

(* However requests interleave and wherever a client leaves, a task that   *)
(* `control` has let go of was told to stop (app.rs:277-282).              *)
THEOREM NoTaskLost == Spec => []NoOrphan
<1>1. Inv => NoOrphan
  BY DEF Inv, Signals
<1> QED BY <1>1, Invariance, PTL

-----------------------------------------------------------------------------
(* While clients wait for their answers.                                   *)

(* A session that runs is alone, and no handler is between its end and the *)
(* start of the next one.                                                  *)
LEMMA Alone ==
  ASSUME Inv, Awaited, NEW t \in Sessions, Live(t)
  PROVE  /\ \A u \in Sessions : u # t => phase[u] = "none"
         /\ \A h \in Handlers : Engaged(h) => pc[h] = "joinSession" /\ joining[h] = t
         /\ stop[t] => \E h \in Handlers : Engaged(h)
         /\ control.session = t \/ \E h \in Handlers : Engaged(h)
<1>1. \A h \in Handlers : pc[h] = "joinSession" => Engaged(h) /\ Busy(h)
  BY DEF Inv, Mutex, Places, Engaged, Busy
<1>2. \A h \in Handlers : Engaged(h) => control.session = None /\ Busy(h)
  BY DEF Inv, Mutex, Taken, Engaged
<1>3. \A g, h \in Handlers : Busy(g) /\ Busy(h) => g = h
  BY OneBusy DEF Inv
<1>4. ASSUME NEW u \in Sessions, Live(u)
      PROVE  \/ control.session = u
             \/ \E h \in Handlers : pc[h] = "joinSession" /\ joining[h] = u
  BY <1>4 DEF Awaited
<1>5. \A u \in Sessions : Live(u) => u = t
  BY <1>1, <1>2, <1>3, <1>4, NamesAssumption
<1>6. \A h \in Handlers : Engaged(h) => pc[h] = "joinSession" /\ joining[h] = t
  BY <1>1, <1>2, <1>3, <1>4, NamesAssumption
<1>7. stop[t] => control.session # t
  BY DEF Inv, Signals
<1> QED BY <1>1, <1>4, <1>5, <1>6, <1>7 DEF Live

LEMMA NobodyLive ==
  ASSUME Inv, Awaited, NEW h \in Handlers, Engaged(h), pc[h] # "joinSession"
  PROVE  \A t \in Sessions : phase[t] = "none"
BY Alone DEF Live

LEMMA NextAwaited ==
  ASSUME ~Disconnects, Inv, Awaited, [Next]_vars
  PROVE  Awaited'
<1> USE DEF Live, Sniffing
<1>1. CASE UNCHANGED vars \/ Exit
  BY <1>1 DEF vars, handlerVars, sessionVars, captureVars, Exit, Awaited
<1>2. ASSUME NEW h \in Handlers, NEW what \in Ops, Issue(h, what)
      PROVE  Awaited'
  BY <1>2 DEF Issue, Goto, sessionVars, captureVars, Awaited, Inv, Mutex, TypeOK
<1>3. ASSUME NEW h \in Handlers, Handle(h)
      PROVE  Awaited'
  <2>0. Holds(h) /\ \A g \in Handlers : Busy(g) => g = h
    BY <1>3, ByHolder DEF Inv
  <2>1. CASE StopSession(h)
    <3>1. \A g \in Handlers : ~Busy(g)
      BY <2>0, <2>1 DEF StopSession, Locked, At, Busy
    <3>2. CASE control.session = None
      <4>1. UNCHANGED <<phase, sniffer, port>> /\ control' = [control EXCEPT !.session = None]
        BY <2>1 DEF StopSession, captureVars
      <4>2. \A t \in Sessions : ~Live(t)
        BY <3>1, <3>2, NamesAssumption DEF Awaited, Busy
      <4>3. \A c \in Captures : Sniffing(c) => control.capture = c
        BY <3>1 DEF Awaited, Busy
      <4> QED BY <4>1, <4>2, <4>3 DEF Awaited, Inv, Mutex, TypeOK
    <3>3. CASE control.session # None
      <4>1. /\ UNCHANGED <<phase, sniffer, port>>
            /\ control' = [control EXCEPT !.session = None]
            /\ joining' = [joining EXCEPT ![h] = control.session]
            /\ pc' = [pc EXCEPT ![h] = "joinSession"]
        BY <2>1, <3>3 DEF StopSession, captureVars, Goto
      <4>2. pc'[h] = "joinSession" /\ joining'[h] = control.session
        BY <4>1 DEF Inv, Mutex, TypeOK
      <4>3. control'.capture = control.capture
        BY <4>1 DEF Inv, Mutex, TypeOK
      <4>4. \A t \in Sessions : Live(t) => control.session = t
        BY <3>1 DEF Awaited, Busy
      <4>5. \A c \in Captures : Sniffing(c) => control.capture = c
        BY <3>1 DEF Awaited, Busy
      <4> QED BY <4>1, <4>2, <4>3, <4>4, <4>5 DEF Awaited
    <3> QED BY <3>2, <3>3
  <2>2. CASE SessionJoined(h)
    <3>1. UNCHANGED <<phase, sniffer, port, control>>
      BY <2>2 DEF SessionJoined, sessionVars, captureVars
    <3>2. \A t \in Sessions : Live(t) => control.session = t
      BY <2>0, <2>2 DEF Awaited, SessionJoined, At, Busy
    <3>3. \A c \in Captures : Sniffing(c) => control.capture = c
      BY <2>0, <2>2 DEF Awaited, SessionJoined, At, Busy
    <3> QED BY <3>1, <3>2, <3>3 DEF Awaited
  <2>3. CASE StopCapture(h)
    <3>1. /\ UNCHANGED <<phase, sniffer, port>>
          /\ control' = [control EXCEPT !.capture = None]
          /\ joining' = [joining EXCEPT ![h] = control.capture]
          /\ pc' = [pc EXCEPT ![h] = "joinCapture"]
      BY <2>3 DEF StopCapture, sessionVars, Goto
    <3>2. pc'[h] = "joinCapture" /\ joining'[h] = control.capture
      BY <3>1 DEF Inv, Mutex, TypeOK
    <3>3. control'.session = control.session
      BY <3>1 DEF Inv, Mutex, TypeOK
    <3>4. \A t \in Sessions : Live(t) => control.session = t
      BY <2>0, <2>3 DEF Awaited, StopCapture, Locked, At, Busy
    <3>5. \A c \in Captures : Sniffing(c) => control.capture = c
      BY <2>0, <2>3 DEF Awaited, StopCapture, Locked, At, Busy
    <3> QED BY <3>1, <3>2, <3>3, <3>4, <3>5 DEF Awaited
  <2>4. CASE CaptureJoined(h)
    <3>1. UNCHANGED <<phase, sniffer, port, control>>
      BY <2>4 DEF CaptureJoined, sessionVars, captureVars
    <3>2. \A t \in Sessions : Live(t) => control.session = t
      BY <2>0, <2>4 DEF Awaited, CaptureJoined, At, Busy
    <3>3. \A c \in Captures : Sniffing(c) => control.capture = c
      BY <2>0, <2>4, NamesAssumption DEF Awaited, CaptureJoined, At, Busy
    <3> QED BY <3>1, <3>2, <3>3 DEF Awaited
  <2>5. CASE StartSpawn(h)
    <3>1. PICK t \in Fresh({t \in Sessions : ~Live(t)}) :
            /\ control' = [control EXCEPT !.session = t]
            /\ phase' = [phase EXCEPT ![t] = "binding"]
      BY <2>5 DEF StartSpawn
    <3>2. t \in Sessions /\ ~Live(t)
      BY <3>1, Fresher
    <3>3. Engaged(h)
      BY <2>5 DEF StartSpawn, At, Inv, Mutex, Places, Engaged, Busy
    <3>4. \A u \in Sessions : phase[u] = "none"
      BY <2>5, <3>3, NobodyLive DEF StartSpawn, At
    <3>5. control'.session = t /\ control'.capture = control.capture
      BY <3>1 DEF Inv, Mutex, TypeOK
    <3>6. \A u \in Sessions : phase'[u] = IF u = t THEN "binding" ELSE phase[u]
      BY <3>1 DEF Inv, Mutex, TypeOK
    <3>7. \A c \in Captures : Sniffing(c) => control.capture = c
      BY <2>0, <2>5 DEF Awaited, StartSpawn, At, Busy
    <3>8. UNCHANGED <<sniffer, port>>
      BY <2>5 DEF StartSpawn, captureVars
    <3> QED BY <3>2, <3>4, <3>5, <3>6, <3>7, <3>8 DEF Awaited
  <2>6. CASE CaptureSpawn(h)
    <3>1. UNCHANGED <<phase, port>>
      BY <2>6 DEF CaptureSpawn, sessionVars
    <3>2. \A t \in Sessions : Live(t) => control.session = t
      BY <2>0, <2>6 DEF Awaited, CaptureSpawn, At, Busy
    <3>3. \A c \in Captures : Sniffing(c) => control.capture = c
      BY <2>0, <2>6 DEF Awaited, CaptureSpawn, At, Busy
    <3>4. CASE UNCHANGED <<control, sniffer, data>>
      BY <3>1, <3>2, <3>3, <3>4 DEF Awaited
    <3>5. ASSUME NEW c \in Fresh({c \in Captures : ~Sniffing(c)}),
                 control' = [control EXCEPT !.capture = c],
                 sniffer' = [sniffer EXCEPT ![c] = "sniffing"]
          PROVE  Awaited'
      <4>1. control.capture = None
        BY <2>6 DEF CaptureSpawn, At, Inv, Mutex, Taken, Busy
      <4>2. control'.session = control.session /\ control'.capture = c
        BY <3>5 DEF Inv, Mutex, TypeOK
      <4> QED BY <3>1, <3>2, <3>3, <3>5, <4>1, <4>2, NamesAssumption
              DEF Awaited, Inv, Mutex, TypeOK
    <3> QED BY <2>6, <3>4, <3>5 DEF CaptureSpawn
  <2>7. ASSUME UNCHANGED <<control, joining, phase, port, sniffer>>,
               pc[h] \notin {"joinSession", "joinCapture"},
               \A g \in Handlers : g # h => pc'[g] = pc[g]
        PROVE  Awaited'
    BY <2>7 DEF Awaited
  <2>8. CASE \/ CheckRunning(h) \/ StopData(h) \/ StopTold(h)
             \/ StartFlush(h) \/ StartData(h)
    BY <2>7, <2>8 DEF CheckRunning, StopData, StopTold, StartFlush, StartData,
       Locked, At, Goto, Answer, sessionVars, captureVars, Inv, Mutex, TypeOK
  <2> QED BY <1>3, <2>1, <2>2, <2>3, <2>4, <2>5, <2>6, <2>8 DEF Handle
<1>4. ASSUME NEW t \in Sessions, Proceed(t) \/ Talk(t)
      PROVE  Awaited'
  <2>0. UNCHANGED <<pc, joining, control, sniffer>>
    BY <1>4, TaskFrame DEF handlerVars, captureVars
  <2>1. ASSUME \A u \in Sessions : phase'[u] # "none" => phase[u] # "none",
               \A u \in Sessions : port' = u <=> phase'[u] \notin {"none", "binding"}
        PROVE  Awaited'
    BY <2>0, <2>1 DEF Awaited
  <2>2. CASE Bind(t)
    <3>1. \A u \in Sessions : u # t => phase[u] = "none"
      BY <2>2, Alone DEF Bind
    <3>2. port = None /\ port' = t
      BY <2>2, <3>1 DEF Bind, Awaited, Inv, Mutex, TypeOK
    <3>3. \A u \in Sessions : phase'[u] = IF u = t THEN "connecting" ELSE phase[u]
      BY <2>2 DEF Bind, Enter, Inv, Mutex, TypeOK
    <3> QED BY <2>1, <2>2, <3>1, <3>2, <3>3 DEF Bind
  <2>3. CASE Save(t)
    <3>1. \A u \in Sessions : u # t => phase[u] = "none"
      BY <2>3, Alone DEF Save
    <3>2. port = t /\ port' = None
      BY <2>3 DEF Save, Awaited
    <3>3. \A u \in Sessions : phase'[u] = IF u = t THEN "none" ELSE phase[u]
      BY <2>3 DEF Save, Enter, Inv, Mutex, TypeOK
    <3> QED BY <2>1, <3>1, <3>2, <3>3, NamesAssumption
  <2>4. ASSUME UNCHANGED port, NEW next, next \notin {"none", "binding"},
               Enter(t, next), phase[t] \notin {"none", "binding"}
        PROVE  Awaited'
    BY <2>1, <2>4 DEF Enter, Awaited, Inv, Mutex, TypeOK
  <2>5. CASE Connect(t)
    BY <2>4, <2>5 DEF Connect, Connected
  <2>6. CASE Heed(t)
    BY <2>4, <2>6 DEF Heed, Connected
  <2>7. CASE ClearData(t)
    BY <2>4, <2>7 DEF ClearData, Connected
  <2>8. CASE Rest(t)
    BY <2>4, <2>8 DEF Rest, Connected
  <2>9. CASE End(t)
    BY <2>4, <2>9 DEF End, Connected
  <2>10. CASE Dialed(t)
    BY <2>4, <2>10 DEF Dialed, Connected
  <2>11. CASE SendOpen(t)
    BY <2>4, <2>11 DEF SendOpen, Connected
  <2>12. CASE ReceiveOpen(t)
    BY <2>4, <2>12 DEF ReceiveOpen, Connected
  <2>13. CASE Confirm(t)
    BY <2>4, <2>13 DEF Confirm, Connected
  <2>14. CASE Establish(t)
    BY <2>4, <2>14 DEF Establish, Connected
  <2>15. CASE ReceiveUpdate(t)
    BY <2>0, <2>15 DEF ReceiveUpdate, Connected, Awaited, sessionVars
  <2>16. CASE Lose(t)
    BY <2>4, <2>16 DEF Lose, Connected
  <2>17. CASE Retry(t)
    BY <2>4, <2>17 DEF Retry, Connected
  <2> QED BY <1>4, <2>2, <2>3, <2>5, <2>6, <2>7, <2>8, <2>9, <2>10, <2>11, <2>12, <2>13, <2>14, <2>15, <2>16, <2>17 DEF Proceed, Talk
<1>5. ASSUME NEW c \in Captures, SniffEnds(c) \/ SniffDone(c)
      PROVE  Awaited'
  BY <1>5 DEF SniffEnds, SniffDone, handlerVars, sessionVars, Inv, Mutex, TypeOK, Awaited
<1> QED BY <1>1, <1>2, <1>3, <1>4, <1>5 DEF Next, Exited, Disconnect

(* With one session, or none, what the data say is said of it.             *)
DataOf(t) ==
    /\ data.running <=> phase[t] # "saving"
    /\ data.state # "IDLE" => phase[t] # "saving"
    /\ data.state = "ESTABLISHED" => phase[t] \in {"established", "lost", "cleared"}
    /\ phase[t] = "established" => data.state = "ESTABLISHED"
    /\ data.peer # None =>
          data.peer = t /\ phase[t] \in {"greeting", "confirmed", "established", "lost"}
    /\ data.rib # {} => data.rib = {t} /\ phase[t] \in {"established", "lost"}

DataOfNone ==
    /\ ~data.running
    /\ data.state = "IDLE" /\ data.peer = None /\ data.rib = {}

LEMMA OneSpeaks ==
  ASSUME TypeOK, NEW t \in Sessions, Live(t),
         \A u \in Sessions : u # t => phase[u] = "none",
         \A h \in Handlers : pc[h] # "spawn"
  PROVE  DataHonest <=> DataOf(t)
<1>1. data.running \in BOOLEAN /\ data.peer \in Sessions \cup {None}
      /\ data.rib \subseteq Sessions
  BY DEF TypeOK
<1>2. DataHonest => DataOf(t)
  <2> SUFFICES ASSUME DataHonest PROVE DataOf(t)
    OBVIOUS
  <2>1. data.running <=> phase[t] # "saving"
    BY DEF DataHonest, Told, Live
  <2>2. data.rib # {} => data.rib = {t} /\ phase[t] \in {"established", "lost"}
    BY DEF DataHonest, NoGhostRoutes
  <2> QED BY <1>1, <2>1, <2>2 DEF DataHonest, DataOf, Told, Live
<1>3. DataOf(t) => DataHonest
  <2> SUFFICES ASSUME DataOf(t) PROVE DataHonest
    OBVIOUS
  <2>1. data.running <=> \/ \E u \in Sessions : Told(u)
                         \/ \E h \in Handlers : pc[h] = "spawn"
    BY DEF DataOf, Told, Live
  <2>2. NoGhostRoutes
    BY DEF DataOf, NoGhostRoutes
  <2> QED BY <1>1, <2>1, <2>2 DEF DataHonest, DataOf, Told, Live
<1> QED BY <1>2, <1>3

LEMMA NoneSpeaks ==
  ASSUME TypeOK, NamesAssumption, \A u \in Sessions : phase[u] = "none",
         \A h \in Handlers : pc[h] # "spawn"
  PROVE  DataHonest <=> DataOfNone
<1>1. data.peer \in Sessions \cup {None} /\ data.rib \subseteq Sessions
  BY DEF TypeOK
<1>2. NoGhostRoutes <=> data.rib = {}
  BY <1>1 DEF NoGhostRoutes
<1> QED BY <1>1, <1>2 DEF DataHonest, DataOfNone, Told, Live

LEMMA NextData ==
  ASSUME ~Disconnects, Inv, Awaited, DataHonest, [Next]_vars
  PROVE  DataHonest'
<1>0. TypeOK' /\ Inv' /\ Awaited'
  BY NextInv, NextAwaited DEF Inv, Mutex
<1>1. ASSUME UNCHANGED <<phase, data>>,
             \A h \in Handlers : pc'[h] = "spawn" <=> pc[h] = "spawn"
      PROVE  DataHonest'
  BY <1>1 DEF DataHonest, Told, Live, NoGhostRoutes
<1>2. CASE UNCHANGED vars \/ Exit
  BY <1>1, <1>2 DEF vars, handlerVars, sessionVars, Exit
<1>3. ASSUME NEW h \in Handlers, NEW what \in Ops, Issue(h, what)
      PROVE  DataHonest'
  BY <1>1, <1>3 DEF Issue, Goto, sessionVars, Inv, Mutex, TypeOK
<1>4. ASSUME NEW h \in Handlers, Handle(h)
      PROVE  DataHonest'
  <2>0. \A g \in Handlers : Busy(g) => g = h
    BY <1>4, ByHolder DEF Inv
  <2>1. ASSUME \/ StopSession(h) \/ SessionJoined(h) \/ CheckRunning(h)
               \/ StopCapture(h) \/ CaptureJoined(h) \/ StopTold(h) \/ StartFlush(h)
        PROVE  DataHonest'
    <3>1. UNCHANGED <<phase, data>>
      BY <2>1 DEF StopSession, SessionJoined, CheckRunning, StopCapture, CaptureJoined,
         StopTold, StartFlush, sessionVars
    <3>2. pc[h] # "spawn" /\ pc'[h] # "spawn" /\ \A g \in Handlers : g # h => pc'[g] = pc[g]
      BY <2>1 DEF StopSession, SessionJoined, CheckRunning, StopCapture, CaptureJoined,
         StopTold, StartFlush, Locked, At, Goto, Answer, Inv, Mutex, TypeOK, Ops
    <3> QED BY <1>1, <3>1, <3>2
  <2>2. CASE StopData(h)
    <3>1. Engaged(h) /\ pc[h] = "stop"
      BY <2>2 DEF StopData, At, Engaged, Busy, Inv, Mutex, Places
    <3>2. \A t \in Sessions : phase'[t] = "none"
      BY <2>2, <3>1, NobodyLive DEF StopData, sessionVars
    <3>3. \A g \in Handlers : pc'[g] # "spawn"
      BY <2>0, <2>2, <3>1 DEF StopData, Goto, Busy, Inv, Mutex, TypeOK
    <3>4. DataOfNone'
      BY <2>2 DEF StopData, DataOfNone, Inv, Mutex, TypeOK
    <3> QED BY <1>0, <3>2, <3>3, <3>4, NoneSpeaks, NamesAssumption
               DEF TypeOK, DataHonest, DataOfNone, Told, Live, NoGhostRoutes
  <2>3. CASE StartData(h)
    <3>1. Engaged(h) /\ pc[h] = "reset"
      BY <2>3 DEF StartData, At, Engaged, Busy, Inv, Mutex, Places
    <3>2. \A t \in Sessions : phase[t] = "none" /\ phase'[t] = "none"
      BY <2>3, <3>1, NobodyLive DEF StartData, sessionVars
    <3>3. DataOfNone
      BY <2>0, <3>1, <3>2, NoneSpeaks, NamesAssumption DEF Busy, Inv, Mutex
    <3>4. /\ data'.running /\ data'.state = "IDLE" /\ data'.peer = None /\ data'.rib = {}
      BY <2>3, <3>3 DEF StartData, DataOfNone, Inv, Mutex, TypeOK
    <3>5. pc'[h] = "spawn"
      BY <2>3 DEF StartData, Goto, Inv, Mutex, TypeOK
    <3> QED BY <3>2, <3>4, <3>5 DEF DataHonest, Told, Live, NoGhostRoutes
  <2>4. CASE StartSpawn(h)
    <3>1. PICK t \in Fresh({t \in Sessions : ~Live(t)}) :
            phase' = [phase EXCEPT ![t] = "binding"]
      BY <2>4 DEF StartSpawn
    <3>2. t \in Sessions
      BY <3>1, Fresher
    <3>3. Engaged(h) /\ pc[h] = "spawn"
      BY <2>4 DEF StartSpawn, At, Engaged, Busy, Inv, Mutex, Places
    <3>4. \A u \in Sessions : phase[u] = "none"
      BY <3>3, NobodyLive
    <3>5. \A u \in Sessions : phase'[u] = IF u = t THEN "binding" ELSE "none"
      BY <3>1, <3>4 DEF Inv, Mutex, TypeOK
    <3>6. \A g \in Handlers : pc'[g] # "spawn"
      BY <2>0, <2>4, <3>3 DEF StartSpawn, Answer, Goto, Busy, Inv, Mutex, TypeOK
    <3>7. /\ data.running /\ data.state = "IDLE" /\ data.peer = None /\ data.rib = {}
      BY <3>3, <3>4, NamesAssumption
         DEF DataHonest, Told, Live, NoGhostRoutes, Inv, Mutex, TypeOK
    <3>8. UNCHANGED data
      BY <2>4 DEF StartSpawn
    <3> QED BY <3>2, <3>5, <3>6, <3>7, <3>8 DEF DataHonest, Told, Live, NoGhostRoutes
  <2>5. CASE CaptureSpawn(h)
    <3>1. /\ UNCHANGED phase
          /\ data'.running = data.running /\ data'.state = data.state
          /\ data'.peer = data.peer /\ data'.rib = data.rib
      BY <2>5 DEF CaptureSpawn, sessionVars, Inv, Mutex, TypeOK
    <3>2. pc[h] # "spawn" /\ pc'[h] # "spawn" /\ \A g \in Handlers : g # h => pc'[g] = pc[g]
      BY <2>5 DEF CaptureSpawn, At, Goto, Answer, Inv, Mutex, TypeOK
    <3> QED BY <3>1, <3>2 DEF DataHonest, Told, Live, NoGhostRoutes
  <2> QED BY <1>4, <2>1, <2>2, <2>3, <2>4, <2>5 DEF Handle
<1>5. ASSUME NEW t \in Sessions, Proceed(t) \/ Talk(t)
      PROVE  DataHonest'
  <2>1. Live(t)
    BY <1>5 DEF Proceed, Talk, Bind, Connect, Heed, ClearData, Rest, End, Save, Dialed,
       SendOpen, ReceiveOpen, Confirm, Establish, ReceiveUpdate, Lose, Retry,
       Live, Connected
  <2>2. \A u \in Sessions : u # t => phase[u] = "none"
    BY <2>1, Alone
  <2>3. \A g \in Handlers : pc[g] # "spawn" /\ pc'[g] = pc[g]
    <3>1. \A g \in Handlers : pc[g] = "spawn" => Engaged(g)
      BY DEF Inv, Mutex, Places, Engaged, Busy
    <3>2. UNCHANGED pc
      BY <1>5, TaskFrame DEF handlerVars
    <3> QED BY <2>1, <3>1, <3>2, Alone
  <2>4. DataOf(t)
    BY <2>1, <2>2, <2>3, OneSpeaks DEF Inv, Mutex
  <2>5. ASSUME NEW next, next # "none", Enter(t, next), DataOf(t)'
        PROVE  DataHonest'
    <3>1. \A u \in Sessions : phase'[u] = IF u = t THEN next ELSE "none"
      BY <2>2, <2>5 DEF Enter, Inv, Mutex, TypeOK
    <3>2. /\ Live(t)'
          /\ \A u \in Sessions : u # t => phase'[u] = "none"
          /\ \A h \in Handlers : pc'[h] # "spawn"
      BY <2>3, <2>5, <3>1 DEF Live
    <3> QED BY <1>0, <2>5, <3>2 DEF DataOf, DataHonest, TypeOK, Told, Live, NoGhostRoutes
  <2> USE <2>4 DEF DataOf, Inv, Mutex, TypeOK, Enter, SetState, Connected
  <2>6. CASE Bind(t)
    BY <2>5, <2>6, ZenonT(60) DEF Bind
  <2>7. CASE Connect(t)
    BY <2>5, <2>7 DEF Connect
  <2>8. CASE Heed(t)
    BY <2>5, <2>8 DEF Heed
  <2>9. CASE ClearData(t)
    BY <2>5, <2>9 DEF ClearData
  <2>10. CASE Rest(t)
    BY <2>5, <2>10 DEF Rest
  <2>11. CASE End(t)
    BY <2>5, <2>11 DEF End
  <2>12. CASE Dialed(t)
    BY <2>5, <2>12 DEF Dialed
  <2>13. CASE SendOpen(t)
    BY <2>5, <2>13, ZenonT(60) DEF SendOpen
  <2>14. CASE ReceiveOpen(t)
    BY <2>5, <2>14, ZenonT(60) DEF ReceiveOpen
  <2>15. CASE Confirm(t)
    BY <2>5, <2>15 DEF Confirm
  <2>16. CASE Establish(t)
    BY <2>5, <2>16 DEF Establish
  <2>17. CASE Lose(t)
    BY <2>5, <2>17 DEF Lose
  <2>18. CASE Retry(t)
    BY <2>5, <2>18 DEF Retry
  <2>19. CASE Save(t)
    <3>1. \A u \in Sessions : phase'[u] = "none"
      BY <2>2, <2>19 DEF Save
    <3>2. DataOfNone /\ UNCHANGED data
      BY <2>19, NamesAssumption DEF Save, DataOfNone
    <3> QED BY <2>3, <3>1, <3>2 DEF DataHonest, DataOfNone, Told, Live, NoGhostRoutes
  <2>20. CASE ReceiveUpdate(t)
    BY <2>1, <2>2, <2>3, <2>20
       DEF ReceiveUpdate, sessionVars, DataHonest, Told, Live, NoGhostRoutes
  <2> QED BY <1>5, <2>6, <2>7, <2>8, <2>9, <2>10, <2>11, <2>12, <2>13, <2>14, <2>15, <2>16, <2>17, <2>18, <2>19, <2>20 DEF Proceed, Talk
<1>6. ASSUME NEW c \in Captures, SniffEnds(c) \/ SniffDone(c)
      PROVE  DataHonest'
  <2>1. /\ UNCHANGED <<phase, pc>>
        /\ data'.running = data.running /\ data'.state = data.state
        /\ data'.peer = data.peer /\ data'.rib = data.rib
    BY <1>6 DEF SniffEnds, SniffDone, sessionVars, handlerVars, Inv, Mutex, TypeOK
  <2> QED BY <2>1 DEF DataHonest, Told, Live, NoGhostRoutes
<1> QED BY <1>2, <1>3, <1>4, <1>5, <1>6 DEF Next, Exited, Disconnect

LEMMA NextEvent ==
  ASSUME ~Disconnects, Inv, Awaited, DataHonest, EventHonest, [Next]_vars
  PROVE  EventHonest'
<1>1. ASSUME UNCHANGED <<told, unsaid>>, data'.running = data.running,
             \A h \in Handlers : Engaged(h)' <=> Engaged(h)
      PROVE  EventHonest'
  BY <1>1 DEF EventHonest
<1>2. ASSUME UNCHANGED <<pc, op, told, unsaid>>, data'.running = data.running
      PROVE  EventHonest'
  BY <1>2 DEF EventHonest, Engaged, Busy
<1>3. CASE UNCHANGED vars \/ Exit
  BY <1>2, <1>3 DEF vars, handlerVars, historyVars, Exit
<1>4. ASSUME NEW h \in Handlers, NEW what \in Ops, Issue(h, what)
      PROVE  EventHonest'
  <2>1. \A g \in Handlers : Engaged(g)' <=> Engaged(g)
    BY <1>4 DEF Issue, Goto, Engaged, Busy, Inv, Mutex, TypeOK
  <2> QED BY <1>1, <1>4, <2>1 DEF Issue, historyVars
<1>5. ASSUME NEW h \in Handlers, Handle(h)
      PROVE  EventHonest'
  <2>0. ASSUME \A g \in Handlers : g # h => pc'[g] = pc[g] /\ op'[g] = op[g],
               Engaged(h)' <=> Engaged(h)
        PROVE  \A g \in Handlers : Engaged(g)' <=> Engaged(g)
    BY <2>0 DEF Engaged, Busy
  <2>1. ASSUME \/ CheckRunning(h) \/ CaptureSpawn(h)
               \/ StopCapture(h) /\ pc[h] = "waiting"
               \/ CaptureJoined(h) /\ op[h] \in {"captureStart", "captureStop"}
        PROVE  EventHonest'
    <3>1. /\ UNCHANGED <<told, unsaid>>
          /\ data'.running = data.running
          /\ \A g \in Handlers : g # h => pc'[g] = pc[g] /\ op'[g] = op[g]
      BY <2>1, ZenonT(60) DEF CheckRunning, CaptureSpawn, StopCapture, CaptureJoined, Goto, Answer,
         sessionVars, historyVars, Inv, Mutex, TypeOK
    <3>2. op[h] \in {"captureStart", "captureStop"} /\ op'[h] \in {op[h], "stop"}
          /\ (op'[h] = "stop" => pc'[h] = "idle")
      BY <2>1 DEF CheckRunning, CaptureSpawn, StopCapture, CaptureJoined, Goto, Answer,
         Locked, At, Inv, Mutex, TypeOK, Places
    <3> QED BY <1>1, <2>0, <3>1, <3>2 DEF Engaged, Busy
  <2>2. ASSUME \/ StopSession(h) \/ SessionJoined(h)
               \/ StopCapture(h) /\ pc[h] = "stopCapture" /\ op[h] # "captureStart"
               \/ CaptureJoined(h) /\ op[h] \notin {"captureStart", "captureStop"}
               \/ StopData(h) \/ StartData(h)
        PROVE  EventHonest'
    <3>1. op'[h] \in {"start", "stop"} /\ pc'[h] \notin {"idle", "waiting"}
      BY <2>2 DEF StopSession, SessionJoined, StopCapture, CaptureJoined, StopData,
         StartData, Goto, Locked, At, Inv, Mutex, TypeOK, Places, Ops
    <3> QED BY <3>1 DEF EventHonest, Engaged, Busy
  <2>3. CASE StopCapture(h) /\ pc[h] = "stopCapture" /\ op[h] = "captureStart"
    <3>1. /\ UNCHANGED <<told, unsaid, data, op>>
          /\ \A g \in Handlers : g # h => pc'[g] = pc[g]
      BY <2>3 DEF StopCapture, Goto, historyVars, Inv, Mutex, TypeOK
    <3> QED BY <1>1, <2>0, <2>3, <3>1 DEF Engaged
  <2>4. CASE StopTold(h)
    <3>1. Engaged(h) /\ pc[h] = "tellStopped"
      BY <2>4 DEF StopTold, At, Engaged, Busy, Inv, Mutex, Places
    <3>2. \A g \in Handlers : pc[g] # "spawn"
      BY <1>5, <3>1, ByHolder DEF Inv, Busy
    <3>3. ~data.running
      BY <3>1, <3>2, NobodyLive DEF DataHonest, Told, Live
    <3>4. data.running = FALSE
      BY <3>3 DEF Inv, Mutex, TypeOK
    <3> QED BY <2>4, <3>4 DEF StopTold, EventHonest
  <2>5. CASE StartFlush(h)
    <3>1. CASE unsaid' = TRUE
      BY <3>1 DEF EventHonest
    <3>2. CASE Goto(h, "reset") /\ UNCHANGED <<queue, op, main, unsaid>>
      <4>1. op'[h] = "start" /\ pc'[h] = "reset"
        BY <2>5, <3>2 DEF StartFlush, At, Goto, Inv, Mutex, TypeOK, Places
      <4> QED BY <4>1 DEF EventHonest, Engaged, Busy
    <3> QED BY <2>5, <3>1, <3>2 DEF StartFlush
  <2>6. CASE StartSpawn(h)
    <3>1. data.running
      BY <2>6 DEF StartSpawn, At, DataHonest
    <3>2. data.running = TRUE
      BY <3>1 DEF Inv, Mutex, TypeOK
    <3> QED BY <2>6, <3>2 DEF StartSpawn, EventHonest
  <2>7. pc[h] # "waiting" /\ StopCapture(h) => pc[h] = "stopCapture"
    BY DEF StopCapture, Locked, At
  <2> QED BY <1>5, <2>1, <2>2, <2>3, <2>4, <2>5, <2>6, <2>7 DEF Handle
<1>6. ASSUME NEW t \in Sessions, Proceed(t) \/ Talk(t)
      PROVE  EventHonest'
  <2>0. UNCHANGED <<pc, op, unsaid>>
    BY <1>6, TaskFrame DEF handlerVars, historyVars
  <2>1. ASSUME data'.running = data.running, UNCHANGED told
        PROVE  EventHonest'
    BY <1>2, <2>0, <2>1
  <2>2. ASSUME data'.running = data.running, told' = data.running
        PROVE  EventHonest'
    BY <2>2 DEF EventHonest
  <2>3. CASE End(t)
    <3>1. \E h \in Handlers : Engaged(h)
      BY <2>3, Alone DEF End, Live, Inv, Signals
    <3> QED BY <2>0, <3>1 DEF EventHonest, Engaged, Busy
  <2>4. CASE Connect(t) \/ Rest(t) \/ SendOpen(t) \/ Confirm(t) \/ Establish(t)
    BY <2>2, <2>4 DEF Connect, Rest, SendOpen, Confirm, Establish, SetState,
       Inv, Mutex, TypeOK
  <2>5. CASE \/ Bind(t) \/ Heed(t) \/ ClearData(t) \/ Save(t) \/ Dialed(t)
             \/ ReceiveOpen(t) \/ ReceiveUpdate(t) \/ Lose(t) \/ Retry(t)
    BY <2>1, <2>5 DEF Bind, Heed, ClearData, Save, Dialed, ReceiveOpen, ReceiveUpdate,
       Lose, Retry, Inv, Mutex, TypeOK
  <2> QED BY <1>6, <2>3, <2>4, <2>5 DEF Proceed, Talk
<1>7. ASSUME NEW c \in Captures, SniffEnds(c) \/ SniffDone(c)
      PROVE  EventHonest'
  BY <1>2, <1>7 DEF SniffEnds, SniffDone, handlerVars, historyVars, Inv, Mutex, TypeOK
<1> QED BY <1>3, <1>4, <1>5, <1>6, <1>7 DEF Next, Exited, Disconnect

LEMMA CaptureAlone ==
  ASSUME Inv, Awaited, NEW c \in Captures, NEW d \in Captures, Sniffing(c), Sniffing(d)
  PROVE  c = d
<1>1. \A h \in Handlers : pc[h] = "joinCapture" => Busy(h) /\ control.capture = None
  BY DEF Inv, Mutex, Taken, Busy
<1>2. \A g, h \in Handlers : Busy(g) /\ Busy(h) => g = h
  BY OneBusy DEF Inv
<1> QED BY <1>1, <1>2, NamesAssumption DEF Awaited, Inv, Mutex, Taken, Busy, Places

LEMMA NextCapture ==
  ASSUME ~Disconnects, Inv, Awaited, DataHonest, CaptureBelongs, [Next]_vars
  PROVE  CaptureBelongs'
<1>1. ASSUME UNCHANGED <<control, pc, op, sniffer>>, data'.capturing = data.capturing
      PROVE  CaptureBelongs'
  BY <1>1 DEF CaptureBelongs, Sniffing, Engaged, Busy
<1>2. CASE UNCHANGED vars \/ Exit
  BY <1>1, <1>2 DEF vars, handlerVars, captureVars, Exit
<1>3. ASSUME NEW h \in Handlers, NEW what \in Ops, Issue(h, what)
      PROVE  CaptureBelongs'
  <2>1. \A g \in Handlers : Busy(g)' <=> Busy(g)
    BY <1>3 DEF Issue, Goto, Busy, Inv, Mutex, TypeOK
  <2>2. \A g \in Handlers : Busy(g) => op'[g] = op[g] /\ pc'[g] = pc[g]
    BY <1>3 DEF Issue, Goto, Busy, Inv, Mutex, TypeOK
  <2>3. UNCHANGED <<control, sniffer, data>>
    BY <1>3 DEF Issue, captureVars
  <2> QED BY <2>1, <2>2, <2>3 DEF CaptureBelongs, Engaged, Sniffing
<1>4. ASSUME NEW h \in Handlers, Handle(h)
      PROVE  CaptureBelongs'
  <2>0. \A g \in Handlers : Busy(g) => g = h
    BY <1>4, ByHolder DEF Inv
  <2>1. \A g \in Handlers : Busy(g)' => g = h
    <3>1. \A g \in Handlers : g # h => pc'[g] = pc[g]
      BY <1>4 DEF Handle, StopSession, SessionJoined, CheckRunning, StopCapture,
         CaptureJoined, StopData, StopTold, StartFlush, StartData, StartSpawn,
         CaptureSpawn, Goto, Answer, Inv, Mutex, TypeOK
    <3> QED BY <2>0, <3>1 DEF Busy
  <2>2. CASE StopSession(h)
    <3>1. /\ op'[h] \in {"start", "stop"} /\ pc'[h] \in {"joinSession", "stopCapture"}
          /\ UNCHANGED <<sniffer, data>>
      BY <2>2 DEF StopSession, captureVars, Locked, Goto, Inv, Mutex, TypeOK
    <3>2. Engaged(h)'
      BY <3>1 DEF Engaged, Busy
    <3> QED BY <2>1, <3>1, <3>2 DEF CaptureBelongs, Sniffing
  <2>3. CASE SessionJoined(h)
    <3>1. /\ op'[h] \in {"start", "stop"} /\ pc'[h] = "stopCapture"
          /\ UNCHANGED <<sniffer, data>>
      BY <2>3 DEF SessionJoined, captureVars, At, Goto, Inv, Mutex, TypeOK, Places
    <3>2. Engaged(h)'
      BY <3>1 DEF Engaged, Busy
    <3> QED BY <2>1, <3>1, <3>2 DEF CaptureBelongs, Sniffing
  <2>4. CASE CheckRunning(h)
    <3>1. UNCHANGED <<sniffer, data, control>> /\ ~Busy(h)
      BY <2>4 DEF CheckRunning, captureVars, Locked, At, Busy
    <3>2. control.capture # None => control.session # None
      BY <2>0, <3>1 DEF CaptureBelongs, Engaged
    <3>3. Busy(h)' => data.running
      BY <2>4 DEF CheckRunning, Answer, Goto, Busy, Inv, Mutex, TypeOK
    <3>4. data.running => control.session # None
      BY <2>0, <3>1, NamesAssumption DEF DataHonest, Told, Awaited, Busy
    <3> QED BY <2>1, <3>1, <3>2, <3>3, <3>4 DEF CaptureBelongs, Sniffing
  <2>5. CASE StopCapture(h)
    <3>1. /\ UNCHANGED <<sniffer, data, op>>
          /\ control'.capture = None /\ control'.session = control.session
          /\ op[h] = "captureStart" => Busy(h)
      BY <2>5 DEF StopCapture, Locked, At, Busy, Inv, Mutex, TypeOK
    <3> QED BY <2>1, <3>1 DEF CaptureBelongs, Sniffing
  <2>6. ASSUME pc[h] \in {"joinCapture", "stop", "tellStopped", "flush", "reset"},
               UNCHANGED <<sniffer, control>>, data'.capturing = data.capturing,
               op'[h] = "captureStart" => op[h] = "captureStart"
        PROVE  CaptureBelongs'
    <3>1. Busy(h) /\ control.capture = None
      BY <2>6 DEF Busy, Inv, Mutex, Taken
    <3> QED BY <2>1, <2>6, <3>1 DEF CaptureBelongs, Sniffing
  <2>7. CASE \/ CaptureJoined(h) \/ StopData(h) \/ StopTold(h) \/ StartFlush(h)
             \/ StartData(h)
    BY <2>6, <2>7 DEF CaptureJoined, StopData, StopTold, StartFlush, StartData, At, Answer,
       captureVars, Inv, Mutex, TypeOK
  <2>8. CASE StartSpawn(h)
    <3>1. PICK t \in Fresh({t \in Sessions : ~Live(t)}) :
            control' = [control EXCEPT !.session = t]
      BY <2>8 DEF StartSpawn
    <3>2. t \in Sessions
      BY <3>1, Fresher
    <3>3. UNCHANGED <<sniffer, data>> /\ control'.session = t
      BY <2>8, <3>1 DEF StartSpawn, captureVars, Inv, Mutex, TypeOK
    <3> QED BY <3>2, <3>3, NamesAssumption DEF CaptureBelongs, Sniffing
  <2>9. CASE CaptureSpawn(h)
    <3>1. control.session # None
      BY <2>9 DEF CaptureSpawn, At, Busy, CaptureBelongs, Inv, Mutex, Places
    <3>2. control'.session = control.session
      BY <2>9 DEF CaptureSpawn, Inv, Mutex, TypeOK
    <3>3. data'.capturing <=> \E c \in Captures : Sniffing(c)'
      <4>1. CASE UNCHANGED <<control, sniffer, data>>
        BY <4>1 DEF CaptureBelongs, Sniffing
      <4>2. ASSUME NEW c \in Fresh({c \in Captures : ~Sniffing(c)}),
                   sniffer' = [sniffer EXCEPT ![c] = "sniffing"],
                   data' = [data EXCEPT !.capturing = TRUE]
            PROVE  data'.capturing /\ \E d \in Captures : Sniffing(d)'
        <5>1. c \in Captures
          BY Fresher
        <5> QED BY <4>2, <5>1 DEF Sniffing, Inv, Mutex, TypeOK
      <4> QED BY <2>9, <4>1, <4>2 DEF CaptureSpawn
    <3> QED BY <3>1, <3>2, <3>3 DEF CaptureBelongs
  <2> QED BY <1>4, <2>2, <2>3, <2>4, <2>5, <2>7, <2>8, <2>9 DEF Handle
<1>5. ASSUME NEW t \in Sessions, Proceed(t) \/ Talk(t)
      PROVE  CaptureBelongs'
  <2>1. UNCHANGED <<control, pc, op, sniffer>>
    BY <1>5, TaskFrame DEF handlerVars, captureVars
  <2>2. data'.capturing = data.capturing
    BY <1>5, ZenonT(60) DEF Proceed, Talk, Bind, Connect, Heed, ClearData, Rest, End, Save, Dialed,
       SendOpen, ReceiveOpen, Confirm, Establish, ReceiveUpdate, Lose, Retry, SetState,
       Inv, Mutex, TypeOK
  <2> QED BY <1>1, <2>1, <2>2
<1>6. ASSUME NEW c \in Captures, SniffEnds(c) \/ SniffDone(c)
      PROVE  CaptureBelongs'
  <2>1. UNCHANGED <<control, pc, op>>
    BY <1>6 DEF SniffEnds, SniffDone, handlerVars
  <2>2. data'.capturing <=> \E d \in Captures : Sniffing(d)'
    <3>1. CASE SniffEnds(c)
      BY <3>1 DEF SniffEnds, CaptureBelongs, Sniffing, Inv, Mutex, TypeOK
    <3>2. CASE SniffDone(c)
      <4>1. \A d \in Captures : Sniffing(d) => d = c
        BY <3>2, CaptureAlone DEF SniffDone, Sniffing
      <4> QED BY <3>2, <4>1 DEF SniffDone, Sniffing, Inv, Mutex, TypeOK
    <3> QED BY <1>6, <3>1, <3>2
  <2> QED BY <2>1, <2>2 DEF CaptureBelongs, Engaged, Busy
<1> QED BY <1>2, <1>3, <1>4, <1>5, <1>6 DEF Next, Exited, Disconnect

LEMMA NextLeaves ==
  ASSUME ~Disconnects, Inv, Awaited, Leaves, [Next]_vars
  PROVE  Leaves'
<1>1. ASSUME \A t \in Sessions : Live(t)' => Live(t),
             late => late', main' \in {"draining", "exited"} => main \in {"draining", "exited"}
      PROVE  Leaves'
  BY <1>1 DEF Leaves
<1>2. CASE UNCHANGED vars \/ Exit
  BY <1>1, <1>2 DEF vars, sessionVars, historyVars, Exit, Live
<1>3. ASSUME NEW h \in Handlers, NEW what \in Ops, Issue(h, what)
      PROVE  Leaves'
  BY <1>1, <1>3 DEF Issue, sessionVars, historyVars, Live
<1>4. ASSUME main # "exited", NEW h \in Handlers, Handle(h)
      PROVE  Leaves'
  <2>1. CASE StopTold(h)
    <3>1. Engaged(h) /\ pc[h] = "tellStopped"
      BY <2>1 DEF StopTold, At, Engaged, Busy, Inv, Mutex, Places
    <3>2. \A t \in Sessions : phase'[t] = "none"
      BY <2>1, <3>1, NobodyLive DEF StopTold, sessionVars
    <3> QED BY <3>2 DEF Leaves, Live
  <2>2. CASE StartSpawn(h)
    <3>1. h # Main
      BY <2>2 DEF StartSpawn, At, Inv, Mutex, Places
    <3>2. UNCHANGED main /\ late' = (late \/ main = "draining")
      BY <2>2, <3>1 DEF StartSpawn, Answer
    <3> QED BY <1>4, <3>2 DEF Leaves
  <2>3. CASE \/ StopSession(h) \/ SessionJoined(h) \/ CheckRunning(h) \/ StopCapture(h)
             \/ CaptureJoined(h) \/ StopData(h) \/ StartFlush(h) \/ StartData(h)
             \/ CaptureSpawn(h)
    <3>1. UNCHANGED <<phase, late>>
      BY <2>3 DEF StopSession, SessionJoined, CheckRunning, StopCapture, CaptureJoined,
         StopData, StartFlush, StartData, CaptureSpawn, sessionVars, historyVars
    <3>2. UNCHANGED main
      BY <2>3 DEF StopSession, SessionJoined, CheckRunning, StopCapture, CaptureJoined,
         StopData, StartFlush, StartData, CaptureSpawn, Locked, At, Answer,
         Inv, Mutex, Places
    <3> QED BY <1>1, <3>1, <3>2 DEF Live
  <2> QED BY <1>4, <2>1, <2>2, <2>3 DEF Handle
<1>5. ASSUME NEW t \in Sessions, Proceed(t) \/ Talk(t)
      PROVE  Leaves'
  <2>1. UNCHANGED <<main, late>>
    BY <1>5, TaskFrame DEF historyVars
  <2>2. \A u \in Sessions : Live(u)' => Live(u)
    BY <1>5 DEF Proceed, Talk, Bind, Connect, Heed, ClearData, Rest, End, Save, Dialed,
       SendOpen, ReceiveOpen, Confirm, Establish, ReceiveUpdate, Lose, Retry, Enter,
       Live, Connected, sessionVars, Inv, Mutex, TypeOK
  <2> QED BY <1>1, <2>1, <2>2
<1>6. ASSUME NEW c \in Captures, SniffEnds(c) \/ SniffDone(c)
      PROVE  Leaves'
  BY <1>1, <1>6 DEF SniffEnds, SniffDone, sessionVars, historyVars, Live
<1> QED BY <1>2, <1>3, <1>4, <1>5, <1>6 DEF Next, Exited, Disconnect

LEMMA InitServed == Init => Served
<1> SUFFICES ASSUME Init PROVE Served
  OBVIOUS
<1>1. Awaited /\ CaptureBelongs /\ Leaves
  BY NamesAssumption DEF Init, Awaited, CaptureBelongs, Leaves, Live, Sniffing, Busy
<1>2. DataHonest
  BY DEF Init, DataHonest, Told, Live, NoGhostRoutes
<1>3. EventHonest
  BY DEF Init, EventHonest
<1> QED BY <1>1, <1>2, <1>3 DEF Served

LEMMA NextServed ==
  ASSUME ~Disconnects, Inv /\ Served, [Next]_vars
  PROVE  (Inv /\ Served)'
<1>1. Inv'
  BY NextInv
<1>2. Awaited' /\ DataHonest' /\ EventHonest' /\ CaptureBelongs' /\ Leaves'
  BY NextAwaited, NextData, NextEvent, NextCapture, NextLeaves DEF Served
<1> QED BY <1>1, <1>2 DEF Served

LEMMA ServedInvariance ==
  ASSUME ~Disconnects PROVE Spec => [](Inv /\ Served)
<1>1. Inv /\ Served /\ [Next]_vars => (Inv /\ Served)'
  BY NextServed
<1> QED BY <1>1, InitInv, InitServed, PTL DEF Spec

(* App::start never lets a new session meet the old one (app.rs:307-336),  *)
(* whatever the other handlers do and whatever the old one is doing.       *)
THEOREM OneSession ==
  ASSUME ~Disconnects PROVE Spec => []SingleSession
<1>1. Inv /\ Served => SingleSession
  <2> SUFFICES ASSUME Inv, Served, NEW t \in Sessions, Live(t)
               PROVE  /\ \A u \in Sessions : Live(u) => u = t
                      /\ \/ control.session = t
                         \/ queue # << >> /\ joining[Head(queue)] = t
                      /\ phase[t] = "binding" \/ port = t
    BY DEF SingleSession
  <2>1. \A u \in Sessions : Live(u) => u = t
    BY Alone DEF Served, Live
  <2>2. ASSUME NEW h \in Handlers, pc[h] = "joinSession", joining[h] = t
        PROVE  queue # << >> /\ joining[Head(queue)] = t
    BY <2>2, OneBusy DEF Inv, Busy, Holds
  <2> QED BY <2>1, <2>2 DEF Served, Awaited
<1> QED BY <1>1, ServedInvariance, PTL

(* /health answers 200 for a session that is up and only for one           *)
(* (README.md:125); the hypothesis is needed: see the finding.             *)
THEOREM HealthTells ==
  ASSUME ~Disconnects PROVE Spec => []HealthHonest
<1>1. Inv /\ Served => HealthHonest
  BY DEF Served, DataHonest, HealthHonest, HealthWhenEstablished,
     HealthOnlyWhenEstablished, Healthy, Told, Live
<1> QED BY <1>1, ServedInvariance, PTL

(* No route outlives its connection, nor the session that learned it       *)
(* (session.rs:163-165, app.rs:289-295).                                   *)
THEOREM NoGhosts ==
  ASSUME ~Disconnects PROVE Spec => []NoGhostRoutes
<1>1. Served => NoGhostRoutes
  BY DEF Served, DataHonest
<1> QED BY <1>1, ServedInvariance, PTL

LEMMA Idle ==
  ASSUME Inv, queue = << >> PROVE \A h \in Handlers : ~Busy(h)
BY OneBusy DEF Holds, Inv

LEMMA Matching == Inv /\ Served => DataMatchControl
<1> SUFFICES ASSUME Inv, Served, queue = << >>
             PROVE  IF control.session # None
                    THEN data.running /\ Live(control.session)
                    ELSE /\ ~data.running /\ data.state = "IDLE"
                         /\ data.peer = None /\ data.rib = {}
  BY DEF DataMatchControl
<1>1. \A h \in Handlers : pc[h] \notin {"joinSession", "spawn"}
  BY Idle DEF Busy
<1>2. CASE control.session # None
  <2>1. /\ control.session \in Sessions /\ Live(control.session)
        /\ phase[control.session] # "saving"
    BY <1>2 DEF Inv, Mutex, TypeOK, Signals
  <2> QED BY <1>2, <2>1 DEF Served, DataHonest, Told
<1>3. CASE control.session = None
  <2>1. \A t \in Sessions : phase[t] = "none"
    BY <1>1, <1>3, NamesAssumption DEF Served, Awaited, Live
  <2>2. \A h \in Handlers : pc[h] # "spawn"
    BY <1>1
  <2> QED BY <1>3, <2>1, <2>2, NoneSpeaks, NamesAssumption
          DEF Served, Inv, Mutex, DataOfNone
<1> QED BY <1>2, <1>3

(* Between two handlers the data agree with `control` (app.rs:285-336).    *)
THEOREM DataAgree ==
  ASSUME ~Disconnects PROVE Spec => []DataMatchControl
BY Matching, ServedInvariance, PTL

(* `capturing` is true of exactly one capture task, which has a session    *)
(* (capture.rs:16, app.rs:287).                                            *)
THEOREM CaptureTells ==
  ASSUME ~Disconnects PROVE Spec => []CaptureHonest
<1>1. Inv /\ Served => CaptureHonest
  <2> SUFFICES ASSUME Inv, Served PROVE CaptureHonest
    OBVIOUS
  <2>1. \A c, d \in Captures : Sniffing(c) /\ Sniffing(d) => c = d
    BY CaptureAlone DEF Served
  <2>2. ASSUME queue = << >>, data.capturing PROVE data.running
    <3>1. \A h \in Handlers : ~Busy(h)
      BY <2>2, Idle
    <3>2. PICK c \in Captures : Sniffing(c)
      BY <2>2 DEF Served, CaptureBelongs
    <3>3. control.capture = c
      BY <3>1, <3>2 DEF Served, Awaited, Busy
    <3>4. control.session # None
      BY <3>1, <3>3, NamesAssumption DEF Served, CaptureBelongs, Engaged
    <3> QED BY <2>2, <3>4, Matching DEF DataMatchControl
  <2> QED BY <2>1, <2>2 DEF CaptureHonest, Served, CaptureBelongs
<1> QED BY <1>1, ServedInvariance, PTL

(* Between two handlers the last event told the clients the truth, unless  *)
(* a start failed to flush (app.rs:312).                                   *)
THEOREM EventTells ==
  ASSUME ~Disconnects PROVE Spec => []ToldTheTruth
<1>1. Inv /\ Served => ToldTheTruth
  BY Idle DEF Served, EventHonest, ToldTheTruth, Engaged
<1> QED BY <1>1, ServedInvariance, PTL

(* The process leaves no session behind but one whose start was waiting    *)
(* when the shutdown came (main.rs, the graceful shutdown).                *)
THEOREM ExitsClean ==
  ASSUME ~Disconnects PROVE Spec => []CleanExit
<1>1. Served => CleanExit
  BY DEF Served, Leaves, CleanExit
<1> QED BY <1>1, ServedInvariance, PTL

=============================================================================

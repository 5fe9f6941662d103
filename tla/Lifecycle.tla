----------------------------- MODULE Lifecycle -----------------------------
(***************************************************************************)
(* Starting and stopping: the handlers of /session/start, /session/stop,   *)
(* /capture/start and /capture/stop, the session task (run in              *)
(* src/session.rs), the capture task (src/capture.rs) and the shutdown of  *)
(* src/main.rs.                                                            *)
(*                                                                         *)
(* The handlers take turns: the async mutex `control` is held from the     *)
(* first line of a handler to its last, across the awaits in which it      *)
(* waits for the old tasks to end.  The tasks themselves never take it.    *)
(* Everything they and the handlers tell each other besides goes through   *)
(* `data`, which is locked for one assignment block at a time.             *)
(*                                                                         *)
(* A request whose client disconnects is dropped by the HTTP server at the *)
(* await it stands at, and gives its lock back; the task it had already    *)
(* taken out of `control` runs on and nobody waits for it.  The constant   *)
(* Disconnects says whether that may happen.                               *)
(*                                                                         *)
(* Definitions commented "bug:" are deliberate mistakes, for mutation.     *)
(***************************************************************************)
EXTENDS Naturals, SequencesExt

CONSTANTS
    Requests,       \* connections a request may arrive on, one at a time
    Main,           \* the shutdown future of main.rs
    Sessions,       \* identities of session tasks, reused when done
    Captures,       \* identities of capture tasks, reused when done
    None,
    Disconnects,    \* may a client disconnect before its answer?
    PeersSend,      \* do the peers send UPDATEs?
    FlushMayFail    \* may writing the output file fail in App::start?

ASSUME NamesAssumption ==
    /\ Main \notin Requests
    /\ None \notin Sessions \cup Captures \cup Requests \cup {Main}
ASSUME FlagsAssumption == {Disconnects, PeersSend, FlushMayFail} \subseteq BOOLEAN

Handlers == Requests \cup {Main}
Ops == {"start", "stop", "captureStart", "captureStop"}
States == {"IDLE", "CONNECT", "OPEN_SENT", "OPEN_CONFIRMED", "ESTABLISHED"}

VARIABLES
    data,       \* [running, state, peer, rib, capturing]: see Init
    told,       \* the last value of "running" in an event
    queue,      \* the control mutex: who holds it, then who waits, in order
    control,    \* [session, capture]: the tasks it protects
    pc, op,     \* per handler: where it stands, what was asked
    joining,    \* per handler: the task it waits for
    phase,      \* per session: where run() stands
    stop,       \* per session: its oneshot stop signal was sent
    leaving,    \* per session: connected() was left because of the signal
    port,       \* the session holding the passive listener
    sniffer,    \* per capture: where its task stands
    hush,       \* per capture: its oneshot stop signal was sent
    main,       \* the server: serving, stopping, draining or exited
    unsaid,     \* history: a start failed after it had ended the old session
    late        \* history: a session was started after the shutdown's stop

handlerVars == <<queue, control, pc, op, joining>>
sessionVars == <<phase, stop, leaving, port>>
captureVars == <<sniffer, hush>>
historyVars == <<unsaid, late>>
vars == <<data, told, handlerVars, sessionVars, captureVars, main, historyVars>>

(* Where a session task stands; connected() runs in the Connected ones.    *)
Connected == {"accepted", "opening", "greeting", "confirmed", "established"}
Phases == {"none", "binding", "connecting", "reconnecting", "dialing",
           "lost", "cleared", "resting", "ending", "saving"} \cup Connected
Live(t) == phase[t] # "none"
Sniffing(c) == sniffer[c] # "none"

(* The identity of a new task: which free one it is makes no difference.   *)
Fresh(free) == IF free = {} THEN {} ELSE {CHOOSE task \in free : TRUE}

Init ==
    /\ data = [running |-> FALSE, state |-> "IDLE", peer |-> None,
               rib |-> {}, capturing |-> FALSE]
    /\ told = FALSE
    /\ queue = << >>
    /\ control = [session |-> None, capture |-> None]
    /\ pc = [h \in Handlers |-> "idle"]
    /\ op = [h \in Handlers |-> "stop"]
    /\ joining = [h \in Handlers |-> None]
    /\ phase = [t \in Sessions |-> "none"]
    /\ stop = [t \in Sessions |-> FALSE]
    /\ leaving = [t \in Sessions |-> FALSE]
    /\ port = None
    /\ sniffer = [c \in Captures |-> "none"]
    /\ hush = [c \in Captures |-> FALSE]
    /\ main = "serving"
    /\ unsaid = FALSE
    /\ late = FALSE

-----------------------------------------------------------------------------
(* The handlers.                                                           *)

Holds(h) == queue # << >> /\ Head(queue) = h
At(h, place) == pc[h] = place /\ Holds(h)
Goto(h, place) == pc' = [pc EXCEPT ![h] = place]

Issue(h, what) ==
    /\ pc[h] = "idle"
    /\ \/ h \in Requests /\ main \in {"serving", "stopping"}
       \/ h = Main /\ what = "stop" /\ main = "serving"
    /\ main' = IF h = Main THEN "stopping" ELSE main
    /\ op' = [op EXCEPT ![h] = what]
    /\ queue' = Append(queue, h)
    /\ Goto(h, "waiting")
    /\ UNCHANGED <<data, told, control, joining, sessionVars, captureVars, historyVars>>

(* The end of a handler: its guard gives the lock to the next one.  What   *)
(* nobody reads any more is reset, here and where a task ends.             *)
Answer(h) ==
    /\ Goto(h, "idle")
    /\ op' = [op EXCEPT ![h] = "stop"]
    /\ queue' = Tail(queue)
    /\ main' = IF h = Main THEN "draining" ELSE main

(* The lock is fair: a handler goes past it as the head of the queue.      *)
Locked(h, ops) == At(h, "waiting") /\ op[h] \in ops

StopUnsignalled(h) ==     \* bug: the sender is dropped before it has sent
    /\ Locked(h, {"start", "stop"})
    /\ joining' = [joining EXCEPT ![h] = control.session]
    /\ Goto(h, IF control.session = None THEN "stopCapture" ELSE "joinSession")
    /\ control' = [control EXCEPT !.session = None]
    /\ UNCHANGED <<data, told, queue, op, sessionVars, captureVars, main,
                   historyVars>>

(* stop_task: take the task out, signal it, wait for it.                   *)
StopSession(h) ==
    /\ Locked(h, {"start", "stop"})
    /\ LET t == control.session
       IN  IF t = None
           THEN Goto(h, "stopCapture") /\ UNCHANGED <<stop, joining>>
           ELSE /\ stop' = [stop EXCEPT ![t] = TRUE]
                /\ joining' = [joining EXCEPT ![h] = t]
                /\ Goto(h, "joinSession")
    /\ control' = [control EXCEPT !.session = None]
    /\ UNCHANGED <<data, told, queue, op, phase, leaving, port, captureVars,
                   main, historyVars>>

SessionNotAwaited(h) ==     \* bug: the task is signalled but not awaited
    /\ At(h, "joinSession")
    /\ joining' = [joining EXCEPT ![h] = None]
    /\ Goto(h, "stopCapture")
    /\ UNCHANGED <<data, told, queue, control, op, sessionVars, captureVars,
                   main, historyVars>>

SessionJoined(h) ==
    /\ At(h, "joinSession")
    /\ ~Live(joining[h])
    /\ joining' = [joining EXCEPT ![h] = None]
    /\ Goto(h, "stopCapture")
    /\ UNCHANGED <<data, told, queue, control, op, sessionVars, captureVars,
                   main, historyVars>>

(* capture::start refuses before it stops anything.                        *)
CheckRunning(h) ==
    /\ Locked(h, {"captureStart"})
    /\ IF data.running
       THEN Goto(h, "stopCapture") /\ UNCHANGED <<queue, op, main>>
       ELSE Answer(h)
    /\ UNCHANGED <<data, told, control, joining, sessionVars, captureVars,
                   historyVars>>

(* The signal to a task that has ended reaches nobody.                     *)
StopCapture(h) ==
    /\ \/ At(h, "stopCapture")
       \/ Locked(h, {"captureStop"})
    /\ LET c == control.capture
       IN  /\ hush' = [d \in Captures |-> hush[d] \/ (d = c /\ Sniffing(d))]
           /\ joining' = [joining EXCEPT ![h] = c]
    /\ control' = [control EXCEPT !.capture = None]
    /\ Goto(h, "joinCapture")
    /\ UNCHANGED <<data, told, queue, op, sessionVars, sniffer, main, historyVars>>

CaptureJoined(h) ==
    /\ At(h, "joinCapture")
    /\ joining[h] # None => ~Sniffing(joining[h])
    /\ joining' = [joining EXCEPT ![h] = None]
    /\ IF op[h] = "captureStop"
       THEN Answer(h)
       ELSE /\ Goto(h, IF op[h] = "start" THEN "flush" ELSE op[h])
            /\ UNCHANGED <<queue, op, main>>
    /\ UNCHANGED <<data, told, control, sessionVars, captureVars, historyVars>>

(* App::stop, once the tasks have ended; the file it writes last is the    *)
(* subject of module Persistence.                                          *)
StopData(h) ==
    /\ At(h, "stop")
    /\ data' = [data EXCEPT !.running = FALSE, !.state = "IDLE",
                            !.peer = None, !.rib = {}]
    /\ Goto(h, "tellStopped")
    /\ UNCHANGED <<told, queue, control, op, joining, sessionVars, captureVars,
                   main, historyVars>>

StopUntold(h) ==     \* bug: no event
    /\ At(h, "tellStopped")
    /\ Answer(h)
    /\ UNCHANGED <<data, told, control, joining, sessionVars, captureVars,
                   historyVars>>

StopTold(h) ==
    /\ At(h, "tellStopped")
    /\ told' = FALSE
    /\ unsaid' = FALSE
    /\ Answer(h)
    /\ UNCHANGED <<data, control, joining, sessionVars, captureVars, late>>

(* App::start, once the tasks have ended: `self.flush(true)?` comes before *)
(* anything is set, and its failure leaves without an event.               *)
StartFlush(h) ==
    /\ At(h, "flush")
    /\ \/ Goto(h, "reset") /\ UNCHANGED <<queue, op, main, unsaid>>
       \/ FlushMayFail /\ Answer(h) /\ unsaid' = TRUE
    /\ UNCHANGED <<data, told, control, joining, sessionVars, captureVars,
                   late>>

StartData(h) ==
    /\ At(h, "reset")
    /\ data' = [data EXCEPT !.running = TRUE, !.peer = None, !.rib = {}]
    /\ Goto(h, "spawn")
    /\ UNCHANGED <<told, queue, control, op, joining, sessionVars, captureVars,
                   main, historyVars>>

StartSpawn(h) ==
    /\ At(h, "spawn")
    /\ \E t \in Fresh({t \in Sessions : ~Live(t)}) :
        /\ control' = [control EXCEPT !.session = t]
        /\ phase' = [phase EXCEPT ![t] = "binding"]
    /\ told' = TRUE
    /\ unsaid' = FALSE
    /\ late' = (late \/ main = "draining")
    /\ Answer(h)
    /\ UNCHANGED <<data, joining, stop, leaving, port, captureVars>>

(* tcpdump starts, or not.                                                 *)
CaptureSpawn(h) ==
    /\ At(h, "captureStart")
    /\ \/ \E c \in Fresh({c \in Captures : ~Sniffing(c)}) :
            /\ control' = [control EXCEPT !.capture = c]
            /\ sniffer' = [sniffer EXCEPT ![c] = "sniffing"]
            /\ data' = [data EXCEPT !.capturing = TRUE]
       \/ UNCHANGED <<control, sniffer, data>>
    /\ Answer(h)
    /\ UNCHANGED <<hush, told, joining, sessionVars, historyVars>>

(* The server drops the handler of a disconnected client at an await.      *)
Disconnect(h) ==
    /\ Disconnects
    /\ h \in Requests
    /\ \/ pc[h] = "waiting"
       \/ pc[h] = "joinSession"
       \/ pc[h] = "joinCapture" /\ joining[h] # None
    /\ \E i \in DOMAIN queue : queue[i] = h /\ queue' = RemoveAt(queue, i)
    /\ joining' = [joining EXCEPT ![h] = None]
    /\ Goto(h, "idle")
    /\ op' = [op EXCEPT ![h] = "stop"]
    /\ UNCHANGED <<data, told, control, sessionVars, captureVars, main, historyVars>>

(* The server leaves once the requests it has accepted are answered.       *)
Exit ==
    /\ main = "draining"
    /\ \A h \in Requests : pc[h] = "idle"
    /\ main' = "exited"
    /\ UNCHANGED <<data, told, handlerVars, sessionVars, captureVars, historyVars>>

Handle(h) ==
    \/ StopSession(h) \/ SessionJoined(h) \/ CheckRunning(h)
    \/ StopCapture(h) \/ CaptureJoined(h) \/ StopData(h) \/ StopTold(h)
    \/ StartFlush(h) \/ StartData(h) \/ StartSpawn(h) \/ CaptureSpawn(h)

-----------------------------------------------------------------------------
(* The session task: run() of src/session.rs, one critical section of      *)
(* `data` per step.                                                        *)

Enter(t, place) == phase' = [phase EXCEPT ![t] = place]
SetState(name) ==
    /\ data' = [data EXCEPT !.state = name]
    /\ told' = data.running

(* The passive listener is refused while another session still has it; the *)
(* session goes on without.                                                *)
Bind(t) ==
    /\ phase[t] = "binding"
    /\ port' = IF port = None THEN t ELSE port
    /\ Enter(t, "connecting")
    /\ UNCHANGED <<data, told, handlerVars, stop, leaving, captureVars,
                   main, historyVars>>

(* A connection accepted during the pause is used without another wait.    *)
Connect(t) ==
    /\ phase[t] \in {"connecting", "reconnecting"}
    /\ SetState("CONNECT")
    /\ Enter(t, IF phase[t] = "connecting" THEN "dialing" ELSE "accepted")
    /\ UNCHANGED <<handlerVars, stop, leaving, port, captureVars, main,
                   historyVars>>

(* A biased select! looks at the stop signal before the network: with the  *)
(* signal there, neither a dial nor a retry is taken any more.             *)
Dialed(t) ==
    /\ phase[t] = "dialing"
    /\ ~stop[t]
    /\ Enter(t, "accepted")
    /\ UNCHANGED <<data, told, handlerVars, stop, leaving, port, captureVars,
                   main, historyVars>>

(* connected(): OPEN sent, OPEN received (peer_info, then the state), the  *)
(* first KEEPALIVE received.                                               *)
SendOpen(t) ==
    /\ phase[t] = "accepted"
    /\ SetState("OPEN_SENT")
    /\ Enter(t, "opening")
    /\ UNCHANGED <<handlerVars, stop, leaving, port, captureVars, main,
                   historyVars>>

ReceiveOpen(t) ==
    /\ phase[t] = "opening"
    /\ data' = [data EXCEPT !.peer = t]
    /\ Enter(t, "greeting")
    /\ UNCHANGED <<told, handlerVars, stop, leaving, port, captureVars,
                   main, historyVars>>

Confirm(t) ==
    /\ phase[t] = "greeting"
    /\ SetState("OPEN_CONFIRMED")
    /\ Enter(t, "confirmed")
    /\ UNCHANGED <<handlerVars, stop, leaving, port, captureVars, main,
                   historyVars>>

Establish(t) ==
    /\ phase[t] = "confirmed"
    /\ SetState("ESTABLISHED")
    /\ Enter(t, "established")
    /\ UNCHANGED <<handlerVars, stop, leaving, port, captureVars, main,
                   historyVars>>

(* `rib` is the set of sessions with routes in the table, which module Rib *)
(* has in detail.  The peer sends routes, or it does not.                  *)
ReceiveUpdate(t) ==
    /\ PeersSend
    /\ phase[t] = "established"
    /\ data' = [data EXCEPT !.rib = @ \cup {t}]
    /\ UNCHANGED <<told, handlerVars, sessionVars, captureVars, main, historyVars>>

(* connected() returns an error: a timer, a NOTIFICATION, a closed stream. *)
Lose(t) ==
    /\ phase[t] \in Connected
    /\ Enter(t, "lost")
    /\ UNCHANGED <<data, told, handlerVars, stop, leaving, port,
                   captureVars, main, historyVars>>

HeedUnlessResting(t) ==     \* bug: the signal is not looked at in the pause
    /\ stop[t]
    /\ \/ /\ phase[t] \in Connected
          /\ leaving' = [leaving EXCEPT ![t] = TRUE]
          /\ Enter(t, "lost")
       \/ /\ phase[t] = "dialing"
          /\ Enter(t, "ending")
          /\ UNCHANGED leaving
    /\ UNCHANGED <<data, told, handlerVars, stop, port, captureVars,
                   main, historyVars>>

(* The signal is seen at each of the three select! of run().  The poll of  *)
(* connected() that is under way when it is sent may still take steps, so  *)
(* those are not guarded by ~stop[t].                                      *)
Heed(t) ==
    /\ stop[t]
    /\ \/ /\ phase[t] \in Connected
          /\ leaving' = [leaving EXCEPT ![t] = TRUE]
          /\ Enter(t, "lost")
       \/ /\ phase[t] \in {"dialing", "resting"}
          /\ Enter(t, "ending")
          /\ UNCHANGED leaving
    /\ UNCHANGED <<data, told, handlerVars, stop, port, captureVars,
                   main, historyVars>>

ForgetPeerOnly(t) ==     \* bug: the routes of the connection stay
    /\ phase[t] = "lost"
    /\ data' = [data EXCEPT !.peer = None]
    /\ Enter(t, "cleared")
    /\ UNCHANGED <<told, handlerVars, stop, leaving, port, captureVars,
                   main, historyVars>>

ClearData(t) ==
    /\ phase[t] = "lost"
    /\ data' = [data EXCEPT !.rib = {}, !.peer = None]
    /\ Enter(t, "cleared")
    /\ UNCHANGED <<told, handlerVars, stop, leaving, port, captureVars,
                   main, historyVars>>

RestUnmarked(t) ==     \* bug: the state is not set back
    /\ phase[t] = "cleared"
    /\ Enter(t, IF leaving[t] THEN "ending" ELSE "resting")
    /\ UNCHANGED <<data, told, handlerVars, stop, leaving, port,
                   captureVars, main, historyVars>>

RestUnnamed(t) ==     \* bug: a state that the clients do not know
    /\ phase[t] = "cleared"
    /\ SetState("ACTIVE")
    /\ Enter(t, IF leaving[t] THEN "ending" ELSE "resting")
    /\ UNCHANGED <<handlerVars, stop, leaving, port, captureVars, main,
                   historyVars>>

Rest(t) ==
    /\ phase[t] = "cleared"
    /\ SetState("IDLE")
    /\ Enter(t, IF leaving[t] THEN "ending" ELSE "resting")
    /\ UNCHANGED <<handlerVars, stop, leaving, port, captureVars, main,
                   historyVars>>

(* After reconnect_delay, or at once with a connection that came in.       *)
Retry(t) ==
    /\ phase[t] = "resting"
    /\ ~stop[t]
    /\ \/ Enter(t, "connecting")
       \/ port = t /\ Enter(t, "reconnecting")
    /\ UNCHANGED <<data, told, handlerVars, stop, leaving, port,
                   captureVars, main, historyVars>>

EndStillRunning(t) ==     \* bug: `running` is left to the handler
    /\ phase[t] = "ending"
    /\ data' = [data EXCEPT !.state = "IDLE", !.rib = {}, !.peer = None]
    /\ Enter(t, "saving")
    /\ UNCHANGED <<told, handlerVars, stop, leaving, port, captureVars,
                   main, historyVars>>

End(t) ==
    /\ phase[t] = "ending"
    /\ data' = [data EXCEPT !.running = FALSE, !.state = "IDLE",
                            !.rib = {}, !.peer = None]
    /\ Enter(t, "saving")
    /\ UNCHANGED <<told, handlerVars, stop, leaving, port, captureVars,
                   main, historyVars>>

(* The forced flush, then the task ends and drops its listener.            *)
Save(t) ==
    /\ phase[t] = "saving"
    /\ port' = IF port = t THEN None ELSE port
    /\ Enter(t, "none")
    /\ stop' = [stop EXCEPT ![t] = FALSE]
    /\ leaving' = [leaving EXCEPT ![t] = FALSE]
    /\ UNCHANGED <<data, told, handlerVars, captureVars, main, historyVars>>

(* What the task does unless something outside has to happen first.        *)
Proceed(t) ==
    \/ Bind(t) \/ Connect(t) \/ Heed(t) \/ ClearData(t) \/ Rest(t) \/ End(t)
    \/ Save(t)

Talk(t) ==
    \/ Dialed(t) \/ SendOpen(t) \/ ReceiveOpen(t) \/ Confirm(t)
    \/ Establish(t) \/ ReceiveUpdate(t) \/ Lose(t) \/ Retry(t)

-----------------------------------------------------------------------------
(* The capture task: it reads tcpdump until the signal or the end of the   *)
(* output, then kills it and says so.                                      *)

SniffEnds(c) ==
    /\ sniffer[c] = "sniffing"
    /\ sniffer' = [sniffer EXCEPT ![c] = "killing"]
    /\ UNCHANGED <<data, told, handlerVars, sessionVars, hush, main, historyVars>>

Hushed(c) == hush[c] /\ SniffEnds(c)

SniffDoneSilently(c) ==     \* bug: `capturing` is left set
    /\ sniffer[c] = "killing"
    /\ sniffer' = [sniffer EXCEPT ![c] = "none"]
    /\ hush' = [hush EXCEPT ![c] = FALSE]
    /\ UNCHANGED <<data, told, handlerVars, sessionVars, main, historyVars>>

SniffDone(c) ==
    /\ sniffer[c] = "killing"
    /\ data' = [data EXCEPT !.capturing = FALSE]
    /\ sniffer' = [sniffer EXCEPT ![c] = "none"]
    /\ hush' = [hush EXCEPT ![c] = FALSE]
    /\ UNCHANGED <<told, handlerVars, sessionVars, main, historyVars>>

-----------------------------------------------------------------------------
Exited == main = "exited" /\ UNCHANGED vars

Next ==
    \/ /\ main # "exited"
       /\ \/ \E h \in Handlers, what \in Ops : Issue(h, what)
          \/ \E h \in Handlers : Handle(h) \/ Disconnect(h)
          \/ \E t \in Sessions : Proceed(t) \/ Talk(t)
          \/ \E c \in Captures : SniffEnds(c) \/ SniffDone(c)
          \/ Exit
    \/ Exited

(* The runtime polls every task whose await is ready, so a handler or a    *)
(* task that can go on by itself does; clients, peers, the network and     *)
(* tcpdump owe nothing.                                                    *)
Fairness ==
    /\ \A h \in Handlers : WF_vars(main # "exited" /\ Handle(h))
    /\ \A t \in Sessions : WF_vars(main # "exited" /\ Proceed(t))
    /\ \A c \in Captures :
          WF_vars(main # "exited" /\ (Hushed(c) \/ SniffDone(c)))
    /\ WF_vars(Exit)

Spec == Init /\ [][Next]_vars /\ Fairness

-----------------------------------------------------------------------------
(* Properties.                                                             *)

TypeOK ==
    /\ data \in [running : BOOLEAN, state : States, peer : Sessions \cup {None},
                 rib : SUBSET Sessions, capturing : BOOLEAN]
    /\ told \in BOOLEAN
    /\ queue \in Seq(Handlers)
    /\ control \in [session : Sessions \cup {None},
                    capture : Captures \cup {None}]
    /\ pc \in [Handlers -> {"idle", "waiting", "joinSession", "stopCapture", "joinCapture",
                            "stop", "tellStopped", "flush", "reset", "spawn",
                            "captureStart"}]
    /\ op \in [Handlers -> Ops]
    /\ joining \in [Handlers -> Sessions \cup Captures \cup {None}]
    /\ phase \in [Sessions -> Phases]
    /\ stop \in [Sessions -> BOOLEAN]
    /\ leaving \in [Sessions -> BOOLEAN]
    /\ port \in Sessions \cup {None}
    /\ sniffer \in [Captures -> {"none", "sniffing", "killing"}]
    /\ hush \in [Captures -> BOOLEAN]
    /\ main \in {"serving", "stopping", "draining", "exited"}
    /\ unsaid \in BOOLEAN
    /\ late \in BOOLEAN

(* There is at most one session task, either the one in `control` or the   *)
(* one the holder of the lock waits for: App::start never lets the new     *)
(* session meet the old (app.rs:307-336), so that the new one finds the    *)
(* passive port free (session.rs:116).                                     *)
SingleSession ==
    \A t \in Sessions : Live(t) =>
        /\ \A u \in Sessions : Live(u) => u = t
        /\ \/ control.session = t
           \/ queue # << >> /\ joining[Head(queue)] = t
        /\ phase[t] = "binding" \/ port = t

(* What README.md:125 says of /health, in both directions: 200 while a     *)
(* session that nobody has told to stop is ESTABLISHED, and 200 only while *)
(* there is one or in the two steps that follow its loss.                  *)
Healthy == data.running /\ data.state = "ESTABLISHED"
HealthWhenEstablished ==
    (\E t \in Sessions : phase[t] = "established" /\ ~stop[t]) => Healthy
HealthOnlyWhenEstablished ==
    Healthy => \E t \in Sessions : phase[t] \in {"established", "lost", "cleared"}
HealthHonest == HealthWhenEstablished /\ HealthOnlyWhenEstablished

(* A route in the table was learned on the connection that is up now, or   *)
(* was until the step before the clear: no routes of an old connection or  *)
(* of an old session (session.rs:163-165, app.rs:289-295).                 *)
NoGhostRoutes ==
    data.rib \subseteq {t \in Sessions : phase[t] \in {"established", "lost"}}

(* Between two handlers the data agree with `control`: with a session,     *)
(* running is TRUE; without, nothing is left of it.                        *)
DataMatchControl ==
    queue = << >> =>
        IF control.session # None
        THEN data.running /\ Live(control.session)
        ELSE /\ ~data.running
             /\ data.state = "IDLE"
             /\ data.peer = None
             /\ data.rib = {}

(* `capturing` tells whether there is a capture task, and between two      *)
(* handlers there is none without a session (capture.rs:16, app.rs:287).   *)
CaptureHonest ==
    /\ data.capturing <=> \E c \in Captures : Sniffing(c)
    /\ \A c, d \in Captures : Sniffing(c) /\ Sniffing(d) => c = d
    /\ queue = << >> /\ data.capturing => data.running

(* Between two handlers, the last "running" a client was sent is the one   *)
(* in `data`; not so after a start that failed to flush (app.rs:312).      *)
ToldTheTruth == queue = << >> => told = data.running \/ unsaid

(* When the process ends no session is left running, unless its start was  *)
(* already waiting when the shutdown stopped the one before it.            *)
CleanExit == main = "exited" => late \/ \A t \in Sessions : ~Live(t)

(* A task that `control` has let go of was told to stop, whether or not    *)
(* anybody waits for it: no task is ever lost (app.rs:277-282).            *)
NoOrphan ==
    /\ \A t \in Sessions : Live(t) => control.session = t \/ stop[t]
    /\ \A c \in Captures : Sniffing(c) => control.capture = c \/ hush[c]

(* Every request is answered (or its client has left), so no handler       *)
(* starves on `control` or waits for a task that never ends.               *)
Answered == \A h \in Handlers : pc[h] # "idle" ~> pc[h] = "idle" \/ main = "exited"

(* A session told to stop ends, from whatever point of run().              *)
StopEnds ==
    \A t \in Sessions : stop[t] /\ Live(t) ~> ~Live(t) \/ main = "exited"

(* A shutdown ends the process.                                            *)
ShutdownExits == main = "stopping" ~> main = "exited"

=============================================================================

------------------------------- MODULE Page -------------------------------
(***************************************************************************)
(* The web page (web/ui.html) on the event stream: what it shows of the    *)
(* session, the capture and the table.  It follows /events, loads /routes  *)
(* when an event or the user asks for it, and sends start and stop; their  *)
(* answers come on connections of their own, in no order with the events.  *)
(* The server goes on serving: its end is a lost stream to the page.       *)
(***************************************************************************)
EXTENDS EventStream

VARIABLES
    view,       \* what is shown: sessionRunning, badge, routeRows, capturing
    timer,      \* reloadTimer is set
    load,       \* the newest /routes request: none, asked or answered
    asked,      \* which button's request was carried out: no, start or stop
    excuses     \* history: what is shown wrong, for a reason PageSettles names

pageVars == <<view, timer, load, asked, excuses>>
vars == <<streamVars, pageVars>>

NoLoad == [at |-> "none", rows |-> 0]

PageInit ==
    /\ Init
    /\ view = [c \in Streams |-> [running |-> FALSE, state |-> "IDLE",
                                  rows |-> 0, capturing |-> FALSE]]
    /\ timer = [c \in Streams |-> FALSE]
    /\ load = [c \in Streams |-> NoLoad]
    /\ asked = [c \in Streams |-> "no"]
    /\ excuses = [c \in Streams |-> {}]

(* loadRoutes: the answer of an older request is ignored by its number, so *)
(* only the newest is kept.                                                *)
LoadRoutes(c) == load' = [load EXCEPT ![c] = [at |-> "asked", rows |-> 0]]

(* What is cleared while an answer with routes is on its way comes back.   *)
LeftBehind(c) == IF load[c].rows # 0 THEN {"rows"} ELSE {}

-----------------------------------------------------------------------------
(* onmessage.                                                              *)

(* updateFormState: whatever the page shows as not running has no capture. *)
HandleSnapshot(c, item) ==
    /\ view' = [view EXCEPT ![c].running = item.running, ![c].state = item.state,
                            ![c].capturing = item.capturing /\ item.running]
    /\ LoadRoutes(c)
    /\ excuses' = [excuses EXCEPT ![c] = {}]
    /\ UNCHANGED timer

(* queueRouteReload.                                                       *)
HandleRoutes(c) ==
    /\ timer' = [timer EXCEPT ![c] = TRUE]
    /\ UNCHANGED <<view, load, excuses>>

(* The state IDLE counts as not running, even if the event goes on to say  *)
(* that the session runs, as it does when a connection is lost.            *)
Ends(what) == what.state = "IDLE" \/ ~what.running

(* So a capture that goes on is shown no more.                             *)
Forgotten(c, what) ==
    IF what.running /\ view[c].capturing THEN {"forgotten"} ELSE {}

HandleSessionKeepingRows(c, what) ==     \* bug: the rows are not cleared
    /\ view' = [view EXCEPT
          ![c].running = what.running,
          ![c].state = IF what.state = "unsaid" THEN @ ELSE what.state,
          ![c].capturing = @ /\ ~Ends(what)]
    /\ excuses' = [excuses EXCEPT ![c] = (@ \ {"running"}) \cup
          (IF Ends(what) THEN LeftBehind(c) \cup Forgotten(c, what) ELSE {})]
    /\ UNCHANGED <<timer, load>>

HandleSession(c, what) ==
    /\ view' = [view EXCEPT
          ![c].running = what.running,
          ![c].state = IF what.state = "unsaid" THEN @ ELSE what.state,
          ![c].rows = IF Ends(what) THEN 0 ELSE @,
          ![c].capturing = @ /\ ~Ends(what)]
    /\ excuses' = [excuses EXCEPT ![c] = (@ \ {"running"}) \cup
          (IF Ends(what) THEN LeftBehind(c) \cup Forgotten(c, what) ELSE {})]
    /\ UNCHANGED <<timer, load>>

HandleCapture(c, what) ==
    /\ view' = [view EXCEPT ![c].capturing = what.running]
    /\ excuses' = [excuses EXCEPT ![c] = @ \ {"capturing", "forgotten"}]
    /\ UNCHANGED <<timer, load>>

(* A replayed event goes to the log tab only.                              *)
Message(c, item) ==
    /\ Deliver(c, item)
    /\ \/ item.kind = "snapshot" /\ HandleSnapshot(c, item)
       \/ item.kind = "replay" /\ UNCHANGED <<view, timer, load, excuses>>
       \/ /\ item.kind = "live"
          /\ \/ item.what.kind = "routes" /\ HandleRoutes(c)
             \/ item.what.kind = "session" /\ HandleSession(c, item.what)
             \/ item.what.kind = "capture" /\ HandleCapture(c, item.what)
    /\ UNCHANGED asked

-----------------------------------------------------------------------------
(* /routes.                                                                *)

ReloadTimer(c) ==
    /\ timer[c]
    /\ timer' = [timer EXCEPT ![c] = FALSE]
    /\ LoadRoutes(c)
    /\ excuses' = [excuses EXCEPT ![c] = @ \ {"rows"}]
    /\ UNCHANGED <<streamVars, view, asked>>

(* The user turns a page, sorts, or opens the tab.                         *)
Browse(c) ==
    /\ LoadRoutes(c)
    /\ excuses' = [excuses EXCEPT ![c] = @ \ {"rows"}]
    /\ UNCHANGED <<streamVars, view, timer, asked>>

ServeRoutes(c) ==
    /\ load[c].at = "asked"
    /\ load' = [load EXCEPT ![c] = [at |-> "answered", rows |-> data.rows]]
    /\ UNCHANGED <<streamVars, view, timer, asked, excuses>>

ShowRoutes(c) ==
    /\ load[c].at = "answered"
    /\ view' = [view EXCEPT ![c].rows = load[c].rows]
    /\ load' = [load EXCEPT ![c] = NoLoad]
    /\ UNCHANGED <<streamVars, timer, asked, excuses>>

(* The page says "Route load failed" and keeps the rows it has.            *)
LoadFails(c) ==
    /\ load[c].at # "none"
    /\ load' = [load EXCEPT ![c] = NoLoad]
    /\ excuses' = [excuses EXCEPT ![c] = @ \cup {"rows"}]
    /\ UNCHANGED <<streamVars, view, timer, asked>>

-----------------------------------------------------------------------------
(* The start and stop buttons; somebody else may start and stop as well.   *)

Carried(c, what) ==
    /\ asked[c] = "no"
    /\ asked' = [asked EXCEPT ![c] = what]
    /\ UNCHANGED <<view, timer, load, excuses>>

Started(c) ==
    /\ asked[c] = "start"
    /\ view' = [view EXCEPT ![c].running = TRUE]
    /\ excuses' = [excuses EXCEPT ![c] = @ \cup (IF data.running THEN {} ELSE {"running"})]
    /\ asked' = [asked EXCEPT ![c] = "no"]
    /\ UNCHANGED <<streamVars, timer, load>>

Stopped(c) ==
    /\ asked[c] = "stop"
    /\ view' = [view EXCEPT ![c].running = FALSE, ![c].rows = 0,
                            ![c].capturing = FALSE]
    /\ excuses' = [excuses EXCEPT ![c] =
          @ \cup LeftBehind(c)
            \cup (IF data.running THEN {"running"} ELSE {})
            \cup (IF data.rows # 0 THEN {"rows"} ELSE {})
            \cup (IF data.capturing THEN {"capturing"} ELSE {})]
    /\ asked' = [asked EXCEPT ![c] = "no"]
    /\ UNCHANGED <<streamVars, timer, load>>

-----------------------------------------------------------------------------
PageNext ==
    \/ /\ \/ Change
          \/ \E c \in Streams : Subscribe(c) \/ Lag(c) \/ Recover(c) \/ Leave(c)
       /\ UNCHANGED pageVars
    \/ \E c \in Streams :
          \/ Start /\ Carried(c, "start")
          \/ Stop /\ Carried(c, "stop")
          \/ \E item \in Item(c) : Message(c, item)
          \/ ReloadTimer(c) \/ Browse(c) \/ ServeRoutes(c) \/ ShowRoutes(c)
          \/ LoadFails(c) \/ Started(c) \/ Stopped(c)

PageSpec == PageInit /\ [][PageNext]_vars

(* A page that has handled everything that was emitted.                    *)
Settled(c) ==
    /\ Live(c) /\ stream[c].next = sent + 1
    /\ unsent = [w \in Writers |-> None]
    /\ phase \notin {"cleared", "ended"}
    /\ ~timer[c] /\ load[c] = NoLoad

(* Once there is nothing left to handle, the page shows what the server    *)
(* has: the session, the capture and the newest table.  What the stream    *)
(* lost, repeated after a snapshot or replayed makes no difference.  Four  *)
(* things do, until the next event or load about the same: the answer to a *)
(* page request made before the rows were cleared (clearRoutes does not    *)
(* advance routeRequest, ui.html:1625), a load that failed, the answer to  *)
(* a start or stop that somebody else has overtaken (ui.html:1610), and an *)
(* IDLE while a capture goes on: when a connection is lost, session and    *)
(* capture stay, but the page takes the capture for ended (ui.html:1087,   *)
(* 1163), and its button offers to start one, not to stop the one there is *)
(* (README.md:98).  A capture that has ended is shown by no page.          *)
PageSettles ==
    \A c \in Streams : Settled(c) =>
        /\ view[c].state = data.state
        /\ \/ view[c].capturing = data.capturing
           \/ data.capturing /\ excuses[c] \cap {"capturing", "forgotten"} # {}
        /\ view[c].running = data.running \/ "running" \in excuses[c]
        /\ view[c].rows = data.rows \/ "rows" \in excuses[c]

=============================================================================

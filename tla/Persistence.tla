---------------------------- MODULE Persistence ----------------------------
(***************************************************************************)
(* The output file (--json-output): App::flush of src/app.rs, the worker   *)
(* of src/main.rs that calls it every second, and the forced calls of      *)
(* App::start, App::stop and the end of session::run.                      *)
(*                                                                         *)
(* A flush copies the table under the lock, releases it, writes the copy   *)
(* to <path>.tmp, syncs, renames it over <path> and marks the data clean.  *)
(* There are two writers: the worker, one flush at a time, and whoever     *)
(* holds `control` (a handler, or the session it waits for), one at a time *)
(* as well (SingleSession of module Lifecycle).  Nothing keeps the two     *)
(* from writing to the same temporary file.                                *)
(*                                                                         *)
(* A file is an inode with the pieces written to it: `create` truncates    *)
(* the inode the name has, `rename` moves a name and leaves the inode to   *)
(* whoever still has it open.                                              *)
(*                                                                         *)
(* Definitions commented "bug:" are deliberate mistakes, for mutation.     *)
(***************************************************************************)
EXTENDS Naturals, Sequences, FiniteSets

CONSTANTS
    Routes,         \* the routes a peer may announce and withdraw
    Paths,          \* output paths a start request may name
    None,           \* no output path, no file
    Inode,          \* inodes, reused when nothing refers to them
    MaxFaults,      \* bound: I/O errors in one behaviour
    MaxCrashes      \* bound: crashes in one behaviour

ASSUME PathsAssumption ==
    None \notin Paths \cup Inode /\ Paths # {} /\ IsFiniteSet(Paths)
ASSUME RoutesAssumption == IsFiniteSet(Routes)
(* Two names per path and an open file per writer.                         *)
ASSUME InodeAssumption ==
    IsFiniteSet(Inode) /\ Cardinality(Inode) >= 2 * Cardinality(Paths) + 2
ASSUME BoundAssumption == MaxFaults \in Nat /\ MaxCrashes \in Nat

Writers == {"worker", "control"}
Goals == {"none", "start", "stop"}
Steps == {"none", "ending", "joined", "flushing"}
Places == {"idle", "decide", "create", "write", "rename", "mark"}

VARIABLES
    table,      \* data.routes, as a set
    dirty,      \* "clean" (None), "young" (elapsed < 5 s) or "ripe"
    output,     \* data.output
    session,    \* a session task is running
    goal,       \* what the holder of `control` is doing
    step,       \* how far it is: the session ends, has ended, own flush
    failed,     \* the last forced flush returned an error
    place,      \* per writer: where its flush stands
    copy,       \* per writer: [path, routes] as it found them
    fd,         \* per writer: the inode it has open
    offset,     \* per writer: the pieces it has written
    final, tmp, \* per path: the inode of <path> and of <path>.tmp
    pieces,     \* per inode: the pieces in it
    synced,     \* per inode: the pieces a crash leaves in it
    faults,     \* bounded: I/O errors so far
    crashes,    \* bounded: crashes so far
    alone,      \* history, per writer: nobody else wrote since its create
    missed,     \* history, per writer: the table changed since its copy
    overlapped, \* history, per path: the last to rename was not alone
    forgot,     \* history: the file in place had missed a change when it
                \* came there or when the data were marked clean
    pristine    \* history: nothing was written to `output` since it was set

dataVars == <<table, dirty, output, session>>
controlVars == <<goal, step, failed>>
fileVars == <<final, tmp, pieces, synced>>
writerVars == <<place, copy, fd, offset>>
boundVars == <<faults, crashes>>
historyVars == <<alone, missed, overlapped, forgot, pristine>>
vars == <<dataVars, controlVars, writerVars, fileVars, boundVars, historyVars>>

NoCopy == [path |-> None, routes |-> {}]

(* What a flush of these routes writes: the count and the opening, then a  *)
(* piece per route, the last one with the closing brackets.                *)
Image(routes) == [i \in 1..(Cardinality(routes) + 1) |-> <<routes, i>>]

Init ==
    /\ table = {}
    /\ dirty = "clean"
    /\ output \in Paths \cup {None}
    /\ session = FALSE
    /\ goal = "none"
    /\ step = "none"
    /\ failed = FALSE
    /\ place = [w \in Writers |-> "idle"]
    /\ copy = [w \in Writers |-> NoCopy]
    /\ fd = [w \in Writers |-> None]
    /\ offset = [w \in Writers |-> 0]
    /\ final = [p \in Paths |-> None]
    /\ tmp = [p \in Paths |-> None]
    /\ pieces = [n \in Inode |-> << >>]
    /\ synced = [n \in Inode |-> << >>]
    /\ faults = 0
    /\ crashes = 0
    /\ alone = [w \in Writers |-> TRUE]
    /\ missed = [w \in Writers |-> FALSE]
    /\ overlapped = [p \in Paths |-> FALSE]
    /\ forgot = FALSE
    /\ pristine = TRUE

-----------------------------------------------------------------------------
(* The table.  Data::insert, remove and clear set `dirty`, the last one    *)
(* only if there was something to clear.                                   *)

Missing == missed' = [w \in Writers |->
                        missed[w] \/ (place[w] # "idle" /\ table' # table)]

Change(routes) ==
    /\ table' = routes
    /\ dirty' = "young"
    /\ pristine' = FALSE
    /\ Missing

Emptied ==
    /\ table' = {}
    /\ dirty' = IF table = {} THEN dirty ELSE "young"
    /\ pristine' = (pristine /\ table = {})
    /\ Missing

ApplyUpdate ==
    /\ session
    /\ goal = "none"
    /\ \E r \in Routes : Change(table \cup {r}) \/ (r \in table /\ Change(table \ {r}))
    /\ UNCHANGED <<output, session, controlVars, writerVars, fileVars, boundVars,
                   alone, overlapped, forgot>>

LoseConnection ==
    /\ session
    /\ goal = "none"
    /\ Emptied
    /\ UNCHANGED <<output, session, controlVars, writerVars, fileVars, boundVars,
                   alone, overlapped, forgot>>

(* Five seconds after the last change.                                     *)
Ripen ==
    /\ dirty = "young"
    /\ dirty' = "ripe"
    /\ UNCHANGED <<table, output, session, controlVars, writerVars, fileVars,
                   boundVars, historyVars>>

-----------------------------------------------------------------------------
(* App::flush, a step per system call.                                     *)

Goto(w, where) == place' = [place EXCEPT ![w] = where]

(* A flush is over: its buffers and its descriptor go.                     *)
Return(w, error) ==
    /\ Goto(w, "idle")
    /\ failed' = IF w = "control" THEN error ELSE failed
    /\ UNCHANGED <<goal, step>>
    /\ copy' = [copy EXCEPT ![w] = NoCopy]
    /\ fd' = [fd EXCEPT ![w] = None]
    /\ offset' = [offset EXCEPT ![w] = 0]
    /\ alone' = [alone EXCEPT ![w] = TRUE]
    /\ missed' = [missed EXCEPT ![w] = FALSE]

Copy(w) ==
    /\ copy' = [copy EXCEPT ![w] = [path |-> output, routes |-> table]]
    /\ missed' = [missed EXCEPT ![w] = FALSE]
    /\ Goto(w, "create")

TickWhenYoung ==     \* bug: the comparison the wrong way round
    /\ place["worker"] = "idle"
    /\ dirty = "young"
    /\ output # None
    /\ Copy("worker")
    /\ UNCHANGED <<dataVars, controlVars, fd, offset, fileVars, boundVars,
                   alone, overlapped, forgot, pristine>>

(* The worker's turn, at most one flush at a time.  It looks every second, *)
(* and does nothing unless the last change is five seconds old.            *)
Tick ==
    /\ place["worker"] = "idle"
    /\ dirty = "ripe"
    /\ output # None
    /\ Copy("worker")
    /\ UNCHANGED <<dataVars, controlVars, fd, offset, fileVars, boundVars,
                   alone, overlapped, forgot, pristine>>

(* A forced flush does not ask whether the data are dirty.                 *)
Forced ==
    /\ place["control"] = "decide"
    /\ failed' = FALSE
    /\ IF output = None
       THEN Goto("control", "idle") /\ UNCHANGED <<copy, missed>>
       ELSE Copy("control")
    /\ UNCHANGED <<dataVars, goal, step, fd, offset, fileVars, boundVars,
                   alone, overlapped, forgot, pristine>>

Other(w) == CHOOSE v \in Writers : v # w
Writing(w, p) == place[w] \in {"write", "rename"} /\ copy[w].path = p
Used == {final[p] : p \in Paths} \cup {tmp[p] : p \in Paths}
           \cup {fd[w] : w \in Writers}

(* File::create: a name that exists keeps its inode, which is truncated.   *)
Create(w) ==
    /\ place[w] = "create"
    /\ LET n == IF tmp[copy[w].path] # None THEN tmp[copy[w].path]
                ELSE CHOOSE free \in Inode : free \notin Used
       IN
        /\ tmp' = [tmp EXCEPT ![copy[w].path] = n]
        /\ pieces' = [pieces EXCEPT ![n] = << >>]
        /\ synced' = IF n \in Used THEN synced ELSE [synced EXCEPT ![n] = << >>]
        /\ fd' = [fd EXCEPT ![w] = n]
    /\ LET contended == Writing(Other(w), copy[w].path)
       IN  alone' = [v \in Writers |-> IF v = w THEN ~contended
                                      ELSE alone[v] /\ ~contended]
    /\ Goto(w, "write")
    /\ UNCHANGED <<dataVars, controlVars, copy, offset, final, boundVars,
                   missed, overlapped, forgot, pristine>>

WrittenAtEnd(old, at, piece) == Append(old, piece)     \* bug: O_APPEND

(* A write at the writer's own offset; a gap left by a truncation reads as *)
(* zeros.                                                                  *)
Written(old, at, piece) ==
    [i \in 1..(IF at > Len(old) THEN at ELSE Len(old)) |->
        IF i = at THEN piece
        ELSE IF i <= Len(old) THEN old[i] ELSE <<{}, 0>>]

Write(w) ==
    /\ place[w] = "write"
    /\ LET image == Image(copy[w].routes)
           next == offset[w] + 1
       IN  /\ pieces' = [pieces EXCEPT ![fd[w]] = Written(@, next, image[next])]
           /\ offset' = [offset EXCEPT ![w] = next]
           /\ IF next = Len(image) THEN Goto(w, "rename") ELSE UNCHANGED place
    /\ UNCHANGED <<dataVars, controlVars, copy, fd, final, tmp, synced, boundVars,
                   historyVars>>

(* The inode that loses its name is freed, unless a writer has it open.    *)
Freed(contents, n) ==
    IF n \in {fd[w] : w \in Writers} \cup {None} THEN contents
    ELSE [contents EXCEPT ![n] = << >>]

RenameUnsynced(w) ==     \* bug: no sync_all before the rename
    /\ place[w] = "rename"
    /\ LET p == copy[w].path
       IN  IF tmp[p] = None
           THEN Return(w, TRUE) /\ UNCHANGED <<final, tmp, overlapped, forgot>>
           ELSE /\ final' = [final EXCEPT ![p] = tmp[p]]
                /\ tmp' = [tmp EXCEPT ![p] = None]
                /\ overlapped' = [overlapped EXCEPT ![p] = ~alone[w]]
                /\ forgot' = missed[w]
                /\ Goto(w, "mark")
                /\ UNCHANGED <<controlVars, copy, fd, offset, alone, missed>>
    /\ UNCHANGED <<dataVars, pieces, synced, boundVars, pristine>>

(* sync_all, then rename: it moves whatever has the name by then, and      *)
(* fails when the other writer has taken it away.                          *)
Rename(w) ==
    /\ place[w] = "rename"
    /\ LET p == copy[w].path
           durable == [synced EXCEPT ![fd[w]] = pieces[fd[w]]]
       IN  IF tmp[p] = None
           THEN /\ Return(w, TRUE)
                /\ synced' = durable
                /\ UNCHANGED <<final, tmp, pieces, overlapped, forgot>>
           ELSE /\ synced' = Freed(durable, final[p])
                /\ pieces' = Freed(pieces, final[p])
                /\ final' = [final EXCEPT ![p] = tmp[p]]
                /\ tmp' = [tmp EXCEPT ![p] = None]
                /\ overlapped' = [overlapped EXCEPT ![p] = ~alone[w]]
                /\ forgot' = missed[w]
                /\ Goto(w, "mark")
                /\ UNCHANGED <<controlVars, copy, fd, offset, alone, missed>>
    /\ UNCHANGED <<dataVars, boundVars, pristine>>

(* dirty = None, whatever happened since the copy.                         *)
Mark(w) ==
    /\ place[w] = "mark"
    /\ dirty' = "clean"
    /\ forgot' = (forgot \/ missed[w])
    /\ Return(w, FALSE)
    /\ UNCHANGED <<table, output, session, fileVars, boundVars, overlapped,
                   pristine>>

FailMarkingClean(w) ==     \* bug: an error leaves the data marked as saved
    /\ place[w] \in {"create", "write", "rename"}
    /\ faults < MaxFaults
    /\ faults' = faults + 1
    /\ dirty' = "clean"
    /\ Return(w, TRUE)
    /\ UNCHANGED <<table, output, session, fileVars, crashes,
                   overlapped, forgot, pristine>>

(* Any system call may fail: `?` leaves, the temporary file stays, and so  *)
(* does `dirty`.                                                           *)
Fail(w) ==
    /\ place[w] \in {"create", "write", "rename"}
    /\ faults < MaxFaults
    /\ faults' = faults + 1
    /\ Return(w, TRUE)
    /\ UNCHANGED <<dataVars, fileVars, crashes, overlapped,
                   forgot, pristine>>

Flush(w) == Create(w) \/ Write(w) \/ Rename(w) \/ Mark(w)

-----------------------------------------------------------------------------
(* Who forces a flush.                                                     *)

(* A start or a stop request has the lock: the session, if there is one,   *)
(* clears the table and flushes as its last acts.                          *)
Request(what) ==
    /\ goal = "none"
    /\ goal' = what
    /\ IF session
       THEN Emptied /\ Goto("control", "decide") /\ step' = "ending"
       ELSE /\ step' = "joined"
            /\ UNCHANGED <<table, dirty, missed, pristine, place>>
    /\ session' = FALSE
    /\ UNCHANGED <<output, failed, copy, fd, offset, fileVars, boundVars, alone,
                   overlapped, forgot>>

SessionEnded ==
    /\ step = "ending"
    /\ place["control"] = "idle"
    /\ step' = "joined"
    /\ UNCHANGED <<dataVars, goal, failed, writerVars, fileVars, boundVars, historyVars>>

(* App::stop clears, then flushes; App::start flushes what there is.       *)
HandlerFlush ==
    /\ step = "joined"
    /\ IF goal = "stop" THEN Emptied
       ELSE UNCHANGED <<table, dirty, missed, pristine>>
    /\ Goto("control", "decide")
    /\ step' = "flushing"
    /\ UNCHANGED <<output, session, goal, failed, copy, fd, offset, fileVars,
                   boundVars, alone, overlapped, forgot>>

(* App::start goes on only if its flush did not fail.  A path that was     *)
(* not the output before has not been written to.                          *)
Finish ==
    /\ step = "flushing"
    /\ place["control"] = "idle"
    /\ IF goal = "stop" \/ failed
       THEN UNCHANGED <<dataVars, missed, pristine>>
       ELSE /\ output' \in Paths \cup {None}
            /\ session' = TRUE
            /\ table' = {}
            /\ dirty' = IF table = {} THEN dirty ELSE "young"
            /\ pristine' = (table = {} /\ (pristine \/ output' # output))
            /\ Missing
    /\ goal' = "none"
    /\ step' = "none"
    /\ failed' = FALSE
    /\ UNCHANGED <<writerVars, fileVars, boundVars, alone, overlapped, forgot>>

-----------------------------------------------------------------------------
(* The process dies and is started again.  If the machine went with it,    *)
(* what was not synced is gone; a rename is taken to be durable.  Nothing  *)
(* is read back (INSTALL.md:77).                                           *)
Crash ==
    /\ crashes < MaxCrashes
    /\ crashes' = crashes + 1
    /\ pieces' \in {pieces, synced}
    /\ table' = {}
    /\ dirty' = "clean"
    /\ output' \in Paths \cup {None}
    /\ session' = FALSE
    /\ goal' = "none"
    /\ step' = "none"
    /\ failed' = FALSE
    /\ place' = [w \in Writers |-> "idle"]
    /\ copy' = [w \in Writers |-> NoCopy]
    /\ fd' = [w \in Writers |-> None]
    /\ offset' = [w \in Writers |-> 0]
    /\ alone' = [w \in Writers |-> TRUE]
    /\ missed' = [w \in Writers |-> FALSE]
    /\ forgot' = FALSE
    /\ pristine' = TRUE
    /\ UNCHANGED <<final, tmp, synced, faults, overlapped>>

Proceed ==
    \/ SessionEnded \/ HandlerFlush \/ Forced \/ Finish
    \/ Flush("control")

Next ==
    \/ ApplyUpdate \/ LoseConnection \/ Ripen
    \/ Tick
    \/ \E w \in Writers : Flush(w) \/ Fail(w)
    \/ \E what \in {"start", "stop"} : Request(what)
    \/ SessionEnded \/ HandlerFlush \/ Forced \/ Finish
    \/ Crash

(* The clock runs, the worker's thread and the holder of `control` are     *)
(* scheduled; requests, UPDATEs, errors and crashes need not happen.       *)
Fairness ==
    /\ WF_vars(Ripen)
    /\ WF_vars(Tick)
    /\ WF_vars(Flush("worker"))
    /\ WF_vars(Proceed)

Spec == Init /\ [][Next]_vars /\ Fairness

-----------------------------------------------------------------------------
(* Properties.                                                             *)

TypeOK ==
    /\ table \subseteq Routes
    /\ dirty \in {"clean", "young", "ripe"}
    /\ output \in Paths \cup {None}
    /\ session \in BOOLEAN
    /\ goal \in Goals
    /\ step \in Steps
    /\ failed \in BOOLEAN
    /\ place \in [Writers -> Places]
    /\ copy \in [Writers -> [path : Paths \cup {None}, routes : SUBSET Routes]]
    /\ fd \in [Writers -> Inode \cup {None}]
    /\ offset \in [Writers -> 0..(Cardinality(Routes) + 1)]
    /\ final \in [Paths -> Inode \cup {None}]
    /\ tmp \in [Paths -> Inode \cup {None}]
    /\ faults \in 0..MaxFaults
    /\ crashes \in 0..MaxCrashes
    /\ \A n \in Inode : Len(pieces[n]) <= Cardinality(Routes) + 1

(* The file is a whole document: the image of some table.                  *)
Whole(p) ==
    final[p] # None => \E routes \in SUBSET Routes : pieces[final[p]] = Image(routes)

(* "debounced atomic replacement" (INSTALL.md:76): whoever opens the file, *)
(* at any moment and after any crash, finds one complete export in it.     *)
FileWhole == \A p \in Paths : Whole(p)

(* What the code does keep of that promise: only two flushes of one path   *)
(* that write at the same time can damage the file, errors and crashes     *)
(* cannot, and the next flush that has the path to itself repairs it.      *)
WholeUnlessOverlapped == \A p \in Paths : Whole(p) \/ overlapped[p]

Quiet == \A w \in Writers : place[w] = "idle"
Saved == final[output] # None /\ pieces[final[output]] = Image(table)

(* "Write RIB to this file after each change burst" (README.md:76): with   *)
(* no flush under way, data that are not dirty are in the file.            *)
SavedWhenClean ==
    Quiet /\ dirty = "clean" /\ output # None /\ ~pristine => Saved

(* What the code does keep: a change can be forgotten only if it fell into *)
(* a flush, between its copy and its mark, or if two flushes overlapped;   *)
(* never by an error, and not by a new start or the end of a session.      *)
SavedUnlessForgotten ==
    SavedWhenClean \/ forgot \/ overlapped[output]

(* When the changes cease, the file comes to hold the table, errors that   *)
(* stop and requests that go on notwithstanding; same exceptions.  While   *)
(* changes keep coming within five seconds of each other, identical ones   *)
(* included, the worker never writes at all (app.rs:243-250).              *)
Resting == <>[][dirty' # "young" /\ output' = output]_<<dirty, output>>
QuietTableSaved ==
    Resting => <>[](\/ output = None \/ pristine \/ Saved
                    \/ forgot \/ overlapped[output])

=============================================================================

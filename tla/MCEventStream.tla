--------------------------- MODULE MCEventStream ---------------------------
(* An instance of EventStream: an event of the session is small, one of    *)
(* the capture large, one with routes may be too large for the history.    *)
EXTENDS EventStream

MixedEvents == [session |-> {1}, capture |-> {3}, routes |-> {2, 5}]

=============================================================================

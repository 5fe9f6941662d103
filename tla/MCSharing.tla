----------------------------- MODULE MCSharing -----------------------------
(* Instances of Sharing; a permit less than clients, so that one is refused. *)
EXTENDS Sharing

=============================================================================

---------------------------- MODULE MCConnection ----------------------------
(* An instance of Connection.                                              *)
EXTENDS Connection

=============================================================================

---------------------------- MODULE MCLifecycle ----------------------------
(* Instances of Lifecycle.  No symmetry: liveness is checked.              *)
EXTENDS Lifecycle

=============================================================================

---------------------------- MODULE MCLifecycle -----------------------------
(* Two processes. *)
EXTENDS Lifecycle

Creation1 == {[name |-> "create", gen |-> 1]}
=============================================================================

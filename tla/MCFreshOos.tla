----------------------------- MODULE MCFreshOos -----------------------------
(* Small instances of the fresh out-of-sample pool for TLC. *)
EXTENDS FreshOos
=============================================================================

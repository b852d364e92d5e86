--------------------------- MODULE MCOptionsPaper ---------------------------
(* Small instances of the options paper simulation for TLC. *)
EXTENDS OptionsPaper
=============================================================================

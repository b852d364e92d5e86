---------------------------- MODULE MCPaperTrack ----------------------------
(* Small instances of the daily paper track for TLC. *)
EXTENDS PaperTrack
=============================================================================

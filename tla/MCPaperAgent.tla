---------------------------- MODULE MCPaperAgent ----------------------------
(* Small instances of the continuous paper agent for TLC. *)
EXTENDS PaperAgent
=============================================================================

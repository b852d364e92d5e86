--------------------------- MODULE MCPaperSession ---------------------------
(* Small instances of the paper session for TLC. *)
EXTENDS PaperSession
=============================================================================

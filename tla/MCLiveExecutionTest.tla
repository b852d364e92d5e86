------------------------ MODULE MCLiveExecutionTest -------------------------
(* Small instances of the live execution test for TLC. *)
EXTENDS LiveExecutionTest
=============================================================================

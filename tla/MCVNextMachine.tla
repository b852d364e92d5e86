--------------------------- MODULE MCVNextMachine ---------------------------
(* TLC instances of VNextMachine: runs and order ids are interchangeable. *)
EXTENDS VNextMachine, TLC

Interchangeable == Permutations(Machine) \cup Permutations(OrderId)
=============================================================================

---------------------------- MODULE MCTempStore ----------------------------
(* Small instances of TempStore for TLC. *)
EXTENDS TempStore, TLC

\* Calls are interchangeable, and so are file ids.
Symmetry == Permutations(Ops) \cup Permutations(FileIds)

=============================================================================

---------------------------- MODULE MCRowMapping ----------------------------
(* Small instances of RowMapping for TLC. *)
EXTENDS RowMapping

\* "0", "00", "a", ...: two header cells may spell the same index.
Spelt == [name \in Names |-> IF name <= 2 THEN 0 ELSE -1]

\* A negative index is refused, and one beyond the last sheet.
SheetIndices == {-1, 0, 1}

=============================================================================

---------------------------- MODULE MCTusHandler ----------------------------
(* Small instances of TusHandler for TLC. *)
EXTENDS TusHandler, TLC

CONSTANTS r1, r2, r3, f1, f2

\* Goroutines are interchangeable, and so are file ids: every behaviour is one
\* in which they are first used in this order, with other names.  Unlike a
\* symmetry set this is sound for liveness too: fairness never asks for an
\* arrival, nor for one file id rather than another.
FirstUseInOrder ==
  /\ pc[r2] /= "idle" => pc[r1] /= "idle"
  /\ pc[r3] /= "idle" => pc[r2] /= "idle"
  /\ stored[f2] /= NoFile => stored[f1] /= NoFile

=============================================================================

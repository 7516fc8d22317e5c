----------------------------- MODULE MCStateSync -----------------------------
(* Instances of StateSync for TLC. *)
EXTENDS StateSync, TLC

\* The files are interchangeable; used only where no liveness is checked.
Symmetry == Permutations(File)
=============================================================================

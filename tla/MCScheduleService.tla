--------------------------- MODULE MCScheduleService ---------------------------
(* Instances of ScheduleService for TLC. *)
EXTENDS ScheduleService, TLC

\* The runs are interchangeable, and so are the cron expressions.
Symmetry == Permutations(Run) \cup Permutations(Cron) \cup Permutations(Schedule)
=============================================================================

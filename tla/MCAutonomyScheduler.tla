------------------------- MODULE MCAutonomyScheduler -------------------------
(* Instances of AutonomyScheduler for TLC. *)
EXTENDS AutonomyScheduler, TLC

\* Processes and tokens are interchangeable where no fairness names a process.
MCSymmetry == Permutations(Processes) \cup Permutations(Tokens)
=============================================================================

------------------------------- MODULE MCJobs -------------------------------
(* Jobs with constants for TLC; the names of nodes are interchangeable. *)
EXTENDS Jobs, TLC

Symmetry == Permutations(Names)
=============================================================================

------------------------------- MODULE MCFork -------------------------------
(* Any(Fork()) with constants for TLC. *)
EXTENDS AnyFork
=============================================================================

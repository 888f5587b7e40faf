----------------------------- MODULE MCContext -----------------------------
(* Context, over Async, with constants for TLC. *)
EXTENDS Context
=============================================================================

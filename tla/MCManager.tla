----------------------------- MODULE MCManager -----------------------------
(* Instances of Manager for TLC: two goroutines that call Add, each of      *)
(* which becomes a handle goroutine, one that calls Stop, and one ticker,   *)
(* which may be added twice.                                                *)
EXTENDS ManagerInv
=============================================================================

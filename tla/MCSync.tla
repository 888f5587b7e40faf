------------------------------- MODULE MCSync -------------------------------
(* Instances of Sync for TLC: more nodes than goroutines, so that the bound *)
(* on running nodes is not the number of nodes.                             *)
EXTENDS Sync
=============================================================================

------------------------------ MODULE MCTicker ------------------------------
(* Instances of Ticker for TLC. *)
EXTENDS TickerInv
=============================================================================

------------------------------ MODULE MCValue ------------------------------
(* Instances of Value for TLC: enough channels for one to be free always.   *)
EXTENDS Value
=============================================================================

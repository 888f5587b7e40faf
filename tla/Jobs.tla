-------------------------------- MODULE Jobs --------------------------------
(* The tree Sequence, RateLimit(d), Background(tick): the caller that keeps the
   list of Background short, which has no bound of its own (background.go:26).
   The loop of Sequence is a step together with what it comes to. *)
EXTENDS Background, RateLimit

jobVars == <<backgroundVars, clockVars>>

JobsInit == BackgroundInit /\ ClockInit

(* RateLimit succeeds, and Background is ticked. *)
Start == LimitSucceeds /\ Begin

(* It fails, and so does the tree. *)
Refused ==
  /\ pos = 0
  /\ LimitFails
  /\ result' = "failure"
  /\ UNCHANGED <<nodes, pos, alive, older, ticked, missed>>

JobsNext ==
  \/ Start
  \/ Refused
  \/ Tick /\ UNCHANGED clockVars
  \/ Advance /\ UNCHANGED backgroundVars

JobsSpec == JobsInit /\ [][JobsNext]_jobVars

-----------------------------------------------------------------------------
(* "the caller must manage that externally" (background.go:26), and does: the
   list grows by one node per duration at most, however often the tree is
   ticked and however long its nodes run. *)
GrowthBounded ==
  /\ OncePerDuration
  /\ (Len(nodes) - 1) * d <= now

(* Why: each node in the list, and the one that may be made in this tick, was
   made at a success of its own. *)
Growth == IF last = Never THEN nodes = <<>> /\ pos = 0
          ELSE (Len(nodes) - (IF pos = 0 THEN 1 ELSE 0)) * d <= last

JobsInv == BackgroundInv /\ ClockInv /\ Growth
=============================================================================

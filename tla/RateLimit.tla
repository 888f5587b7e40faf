----------------------------- MODULE RateLimit -----------------------------
(* ratelimit.go: a tick that succeeds at most once per duration.  The clock is
   monotonic, as that of time.Now is, and may stand still or jump between
   ticks. *)
EXTENDS Integers

CONSTANTS
  Durations,  \* the durations to look at
  MaxNow      \* bound on the clock

ASSUME RateLimitAssumption == Durations \subseteq Nat /\ MaxNow \in Nat

VARIABLES
  d,          \* the duration
  now,        \* the clock
  last,       \* when the tick last succeeded, or Never
  successes   \* history: when it did

clockVars == <<d, now, last, successes>>

Never == -1

ClockInit ==
  /\ d \in Durations
  /\ now = 0
  /\ last = Never
  /\ successes = {}

Advance ==
  /\ now' \in now + 1..MaxNow
  /\ UNCHANGED <<d, last, successes>>

Allowed == last = Never \/ ~(now - d < last)

(* Mutant: only the first success is remembered. *)
FirstRemembered ==
  /\ Allowed
  /\ last' = IF last = Never THEN now ELSE last
  /\ successes' = successes \cup {now}
  /\ UNCHANGED <<d, now>>

LimitSucceeds ==
  /\ Allowed
  /\ last' = now
  /\ successes' = successes \cup {now}
  /\ UNCHANGED <<d, now>>

LimitFails == ~Allowed /\ UNCHANGED clockVars

-----------------------------------------------------------------------------
(* "success at most once per a given duration" (ratelimit.go:21): over the whole
   history, also for a duration of zero. *)
OncePerDuration == \A s, t \in successes : s < t => s + d <= t

(* Why: last is the latest of them. *)
ClockInv ==
  /\ d \in Durations
  /\ now \in Nat
  /\ IF last = Never THEN successes = {}
     ELSE last \in 0..now /\ successes \subseteq 0..last
  /\ OncePerDuration
=============================================================================

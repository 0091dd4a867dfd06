---------------------------- MODULE Backpressure ----------------------------
(***************************************************************************)
(* StratumV1Service: the listener that accepts connections, paused while   *)
(* the process is overloaded and resumed after several healthy checks in a *)
(* row.  The connection limit, which net.Server enforces, is left out.     *)
(***************************************************************************)
EXTENDS Integers

CONSTANT HealthyChecks    \* STRATUM_BACKPRESSURE_HEALTHY_CHECKS

ASSUME BackpressureAssumption == HealthyChecks \in Nat \ {0}

VARIABLES
  listener,   \* the listener and healthyBackpressureChecks
  load        \* what the next check will measure

backpressureVars == <<listener, load>>

\* "middling" is between the limits for pausing and for resuming.
Loads == {"overloaded", "middling", "healthy"}

\* "starting": there is no listener yet.
BackpressureInit ==
  /\ listener = [state |-> "starting", healthyBackpressureChecks |-> 0]
  /\ load = "healthy"

LoadChanges == load' \in Loads /\ UNCHANGED listener

\* Ten seconds after the start.
startSocketServer ==
  /\ listener.state = "starting"
  /\ listener' = [listener EXCEPT !.state = "listening"]
  /\ UNCHANGED load

\* A listener that is there is closed; one still to start is not paused.
pauseAccepting ==
  [state |-> IF listener.state = "listening" THEN "paused" ELSE listener.state,
   healthyBackpressureChecks |-> 0]

\* Mutant of HealthyCheck: the counter does not reach the limit.
HealthyCheckNever ==
  [listener EXCEPT !.healthyBackpressureChecks = (@ + 1) % HealthyChecks]

\* Mutant of HealthyCheck: resuming does not reset the counter.
HealthyCheckKeepsCount ==
  [state |-> IF listener.healthyBackpressureChecks + 1 >= HealthyChecks
             THEN "listening" ELSE "paused",
   healthyBackpressureChecks |-> listener.healthyBackpressureChecks + 1]

resumeAccepting == [state |-> "listening", healthyBackpressureChecks |-> 0]

\* A healthy check while paused: resume after enough of them.
HealthyCheck ==
  IF listener.healthyBackpressureChecks + 1 >= HealthyChecks
  THEN resumeAccepting
  ELSE [listener EXCEPT !.healthyBackpressureChecks = @ + 1]

checkBackpressure ==
  /\ listener' =
       CASE load = "overloaded" -> pauseAccepting
         [] load # "overloaded" /\ listener.state # "paused" -> listener
         [] load = "middling" /\ listener.state = "paused" ->
              [listener EXCEPT !.healthyBackpressureChecks = 0]
         [] load = "healthy" /\ listener.state = "paused" -> HealthyCheck
  /\ UNCHANGED load

BackpressureNext == LoadChanges \/ startSocketServer \/ checkBackpressure

BackpressureSpec == BackpressureInit /\ [][BackpressureNext]_backpressureVars

-----------------------------------------------------------------------------
(* Properties                                                              *)

\* The type invariant: among the rest, the counter starts from 0 at every pause and
\* never reaches the limit between two checks.
BackpressureTypeOK ==
  /\ listener \in [state : {"starting", "listening", "paused"},
                  healthyBackpressureChecks : 0..(HealthyChecks - 1)]
  /\ (listener.state # "paused" => listener.healthyBackpressureChecks = 0)
  /\ load \in Loads

\* When the load stays healthy, the listener is not left paused, whatever checks and
\* loads came before.
EventuallyAccepting == <>[](load = "healthy") => <>[](listener.state # "paused")
=============================================================================

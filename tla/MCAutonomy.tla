----------------------------- MODULE MCAutonomy -----------------------------
(***************************************************************************)
(* What the assistant does unasked, for TLC: goal reviews, daily and       *)
(* weekly reflections, heartbeats.  A behaviour is one of a single part,   *)
(* chosen at its start; the other parts stand still and ask nothing of     *)
(* fairness.  A goal has an owner and restarts until the time Short, or    *)
(* edits on the dashboard until then, or none of them until MaxTime.       *)
(***************************************************************************)
EXTENDS GoalReview, Reflections, Heartbeat

CONSTANT Short  \* bound: the clock of a goal that others change

VARIABLE part

GoalParts == {"goal owned", "goal edited", "goal alone", "goal interval"}
GoalPart  == part \in GoalParts

parts == <<goalVars, reflVars, hbVars>>

MCInit ==
  /\ part \in GoalParts \cup {"reflection", "heartbeat"}
  /\ GoalInit /\ ReflInit /\ HbInit
  /\ rhythm = CASE part = "goal edited" -> "none" [] part = "goal interval" -> "interval"
                 [] OTHER -> "daily"
  /\ part # "reflection" => clock = PerDay
  /\ part # "heartbeat" => quiet

WithinPart ==
  /\ part \in {"goal owned", "goal edited"} => now <= Short
  /\ part # "goal owned" => owned = 0 /\ reboots = 0
  /\ part # "goal edited" => edits = 0
  /\ part = "goal edited" => pauses = 0
  /\ pauses + reboots <= 1

MCNext ==
  /\ UNCHANGED part
  /\ \/ GoalPart /\ GoalNext /\ WithinPart' /\ UNCHANGED <<reflVars, hbVars>>
     \/ part = "reflection" /\ ReflNext /\ UNCHANGED <<goalVars, hbVars>>
     \/ part = "heartbeat" /\ HbNext /\ UNCHANGED <<goalVars, reflVars>>

MCSpec ==
  /\ MCInit /\ [][MCNext]_<<parts, part>>
  /\ WF_goalVars(GoalPart /\ ClaimGoal)
  /\ WF_goalVars(GoalPart /\ ReviewStarts)
  /\ WF_reflVars(part = "reflection" /\ ClaimDaily)
  /\ WF_reflVars(part = "reflection" /\ ClaimWeekly)
  /\ WF_reflVars(part = "reflection" /\ BeginReview)
  /\ WF_reflVars(part = "reflection" /\ ClockMoves)
  /\ WF_hbVars(part = "heartbeat" /\ HbWork)
  /\ WF_hbVars(part = "heartbeat" /\ ReplyDelivered)
  /\ WF_hbVars(part = "heartbeat" /\ HbRestart)

\* The rows, jobs and turns of the three parts are of their types.
AutonomyTypeOK == GoalTypeOK /\ ReflTypeOK /\ HbTypeOK

\* A row that is claimed for its turn has a job or a turn that will release it: after a
\* restart, a pause, a failure and a stop nothing is left claimed by nobody, which would
\* keep the goal, the review or the heartbeat from being scheduled ever again.
ClaimsHaveJobs == ClaimIsHeld /\ ClaimHasJob /\ ClaimIsAlive
=============================================================================

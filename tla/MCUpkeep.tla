------------------------------ MODULE MCUpkeep ------------------------------
(***************************************************************************)
(* The upkeep of memory for TLC: memory operations and the current state,  *)
(* and the filing and summarising of episodes.  A behaviour is one of a    *)
(* single part, chosen at its start; the other stands still and asks       *)
(* nothing of fairness.                                                    *)
(***************************************************************************)
EXTENDS Upkeep, Episodes

VARIABLE part

MCInit == part \in {"memory", "episode"} /\ UpkeepInit /\ EpisodeInit

MCNext ==
  /\ UNCHANGED part
  /\ \/ part = "memory" /\ UpkeepNext /\ UNCHANGED episodeVars
     \/ part = "episode" /\ EpisodeNext /\ UNCHANGED upkeepVars

MCSpec ==
  /\ MCInit /\ [][MCNext]_<<upkeepVars, episodeVars, part>>
  /\ WF_upkeepVars(part = "memory" /\ Schedule)
  /\ WF_upkeepVars(part = "memory" /\ RetryComes)
  /\ WF_upkeepVars(part = "memory" /\ BecomesQuiet)
  /\ WF_upkeepVars(part = "memory" /\ OwnerStarts)
  /\ WF_upkeepVars(part = "memory" /\ FinishesState)
  /\ \A s \in Sources : SF_upkeepVars(part = "memory" /\ TakeState(s))
  /\ \A b \in Reviews : SF_upkeepVars(part = "memory" /\ TakeMemory(b))
  /\ WF_episodeVars(part = "episode" /\ Maintain)
  /\ WF_episodeVars(part = "episode" /\ GrowsIdle)
  /\ WF_episodeVars(part = "episode" /\ ClosesIdle)
  /\ WF_episodeVars(part = "episode" /\ ExpiresDeferral)
  /\ WF_episodeVars(part = "episode" /\ RetryFallsDue)

\* The queues, tasks, filings and claims are of their types.
MaintenanceTypeOK == UpkeepTypeOK /\ EpisodeTypeOK
=============================================================================

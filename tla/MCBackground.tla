---------------------------- MODULE MCBackground ----------------------------
(***************************************************************************)
(* The background jobs for TLC: the agent worker that runs them, the runs  *)
(* of webhooks and the steps of plans.  A behaviour is one of a single     *)
(* part, chosen at its start; the other parts stand still and ask nothing  *)
(* of fairness.                                                            *)
(***************************************************************************)
EXTENDS AgentWorker, WebhookRun, PlanScopes

VARIABLE part

\* The steps of a webhook run: a failing command before the rest, a message that is
\* on its way while the next step runs, a clip.
MCShapes == {<<"exec", "message", "agent">>, <<"message", "exec">>, <<"message", "exec", "video">>}

Hooked == part \in {"webhook", "webhooks"}

parts == <<workerVars, runVars, planVars, scope>>

MCInit == part \in {"worker", "webhook", "webhooks", "plan"} /\ WorkerInit /\ RunInit /\ ScopedInit

\* One webhook run of any shape, or two short ones.
WithinPart ==
  /\ part = "webhook" => \A r \in RunIds : r > 1 => runs[r].state = "none"
  /\ part = "webhooks" => \A r \in RunIds : Len(steps[r]) <= 2

MCNext ==
  /\ UNCHANGED part
  /\ \/ part = "worker" /\ WorkerNext /\ UNCHANGED <<runVars, planVars, scope>>
     \/ Hooked /\ RunNext /\ WithinPart' /\ UNCHANGED <<workerVars, planVars, scope>>
     \/ part = "plan" /\ ScopedNext /\ UNCHANGED <<workerVars, runVars>>

MCSpec ==
  /\ MCInit /\ [][MCNext]_<<parts, part>>
  /\ WF_workerVars(part = "worker" /\ WorkerStep)
  /\ WF_workerVars(part = "worker" /\ GatherMore)
  /\ WF_workerVars(part = "worker" /\ Resumes)
  /\ WF_runVars(Hooked /\ GoesOn)
  /\ WF_runVars(Hooked /\ ~Midway /\ WorkerMoves)
  /\ WF_runVars(Hooked /\ ~Midway /\ Takes)
  /\ WF_runVars(Hooked /\ ~Midway /\ ExecOver)
  /\ WF_runVars(Hooked /\ ~Midway /\ Outside)
  /\ \A r \in RunIds : WF_runVars(Hooked /\ ~Midway /\ ClipMoves(r))
  /\ WF_planVars(part = "plan" /\ \E p \in Plans : ClaimPlan(p))
  /\ SF_planVars(part = "plan" /\ TakeJob)
  /\ WF_planVars(part = "plan" /\ BeginStep)
  /\ WF_planVars(part = "plan" /\ StepEnds)
  /\ WF_planVars(part = "plan" /\ Cancelled)
  /\ WF_planVars(part = "plan" /\ \E c \in PlanChannels : OwnerTurn(c))

\* The worker, a run and its steps are of their types: no turn, row or queue entry of a
\* kind the handlers do not know.
BackgroundTypeOK == WorkerTypeOK /\ RunTypeOK
=============================================================================

------------------------------ MODULE TaskPlan ------------------------------
(***************************************************************************)
(* Task plans: drafted and revised in owner turns or in a plan's own       *)
(* steps, submitted, approved by a later message, claimed by the scheduler *)
(* and run one step at a time on the single worker, which the owner may    *)
(* interrupt at any await.  Sources: storage/agenda/plans.py,              *)
(* runtime/workflows/plan.py, runtime/agent/tool_batch.py,                 *)
(* runtime/dispatch/{worker,scheduler,commands}.py, interruptions.py.      *)
(*                                                                         *)
(* The order in which messages and proposals are received is kept in two   *)
(* flags of a plan that asks something, since and heard: an answer is a    *)
(* message received after the question.                                    *)
(***************************************************************************)
EXTENDS Naturals, Sequences, Functions

CONSTANTS
  MaxPlans,      \* bound: plans ever created
  MaxSteps,      \* steps a plan may have (12 in the code)
  MaxVersions,   \* bound: revisions that create a draft
  MaxResumes,    \* bound: resumptions of one approved version
  MaxStarts,     \* bound: process restarts
  PlanChannels   \* the owner's channels

Plans == 1 .. MaxPlans
Nobody == "nobody"

ASSUME PlanBounds == MaxPlans \in Nat /\ MaxSteps \in Nat \ {0} /\ MaxVersions \in Nat \ {0}
ASSUME PlanLimits == MaxResumes \in Nat /\ MaxStarts \in Nat
ASSUME PlanOwners == Nobody \notin PlanChannels /\ PlanChannels # {}

\* The turn that works on a step: the hash of plan, step, version and resume_count.
StepTurn == [plan : Plans, step : 0 .. MaxSteps, version : 0 .. MaxVersions + 1,
             resumes : 0 .. MaxResumes]
NoStep == [plan |-> 0, step |-> 0, version |-> 0, resumes |-> 0]

VARIABLES
  \* Durable: the table task_plans (held: the current step has an interrupted_turn_id,
  \* and that turn has an external effect or a bubble) and what it needs of turns.
  plan,      \* task_plans, in the order of created_at
  source,    \* state of the turn that created the plan: its own turn, completed, or lost
  begun,     \* step turns with a row in turns
  \* The owner's channels and the worker.
  mail,      \* channels with an owner message no turn has read
  since,     \* plans that a waiting message may answer
  heard,     \* plans that a message of the present owner turn may answer
  here,      \* plans proposed by the present owner turn
  talk,      \* channel of the present owner turn
  jobs,      \* plan_step jobs in the autonomous queue
  run,       \* the step being worked on
  \* History.
  halted,    \* step turns that the owner interrupted after they acted
  stranded,  \* plans whose step was cancelled before its first instruction
  starts     \* restarts so far

askVars  == <<mail, since, heard, here, talk>>
planVars == <<plan, source, begun, mail, since, heard, here, talk, jobs, run,
              halted, stranded, starts>>

NoRun == [plan |-> 0, id |-> NoStep, stage |-> "none", acted |-> FALSE, done |-> FALSE,
          cancel |-> "no"]
Blank == [status |-> "none", version |-> 0, step |-> 0, size |-> 0, approved |-> 0,
          held |-> "no", limited |-> FALSE, resumes |-> 0, channel |-> Nobody]

Status(p)  == plan[p].status
Home(p)    == plan[p].channel
Exists(p)  == Status(p) # "none"
Finished   == {"completed", "cancelled"}
StepId(p)  == [plan |-> p, step |-> plan[p].step, version |-> plan[p].version,
               resumes |-> plan[p].resumes]
Working    == run.stage # "none" /\ run.cancel = "no"
Stepping   == Working /\ run.stage = "step"

\* Who may call the plan tools on channel c: its owner turn, or a step of a plan of c.
Speaking(c) == talk = c \/ (Stepping /\ Home(run.plan) = c)

Put(p, row) == plan' = [plan EXCEPT ![p] = row]
\* A question the owner is to answer: nothing received so far is the answer.
Ask(p)   == since' = since \ {p} /\ heard' = heard \ {p}
KeepRun  == UNCHANGED <<begun, mail, talk, jobs, run, halted, stranded, starts>>
KeepAsks == UNCHANGED <<since, heard, here>>

-----------------------------------------------------------------------------
(***************************************************************************)
(* The tools, called in owner turns and in plan steps.                     *)
(***************************************************************************)
CreatePlan(p, c, n) ==
  /\ Speaking(c) /\ ~Exists(p) /\ \A q \in Plans : q < p => Exists(q)
  /\ Put(p, [Blank EXCEPT !.status = "draft", !.version = 1, !.size = n, !.channel = c])
  /\ source' = [source EXCEPT ![p] = "open"]
  /\ KeepRun /\ KeepAsks

\* The interrupted turn is carried along only past the first step or from "paused".
Carried(p) ==
  IF (plan[p].step > 0 \/ Status(p) = "paused") /\ plan[p].step < plan[p].size
  THEN plan[p].held ELSE "no"

\* update_task_plan: the steps done are kept, the rest is replaced by n new ones.
UpdatePlan(p, n) ==
  /\ Exists(p) /\ Speaking(Home(p)) /\ Status(p) \notin Finished \cup {"partial"}
  /\ plan[p].version < MaxVersions /\ n + plan[p].step <= MaxSteps
  /\ Put(p, [plan[p] EXCEPT !.status = "draft", !.version = @ + 1, !.size = plan[p].step + n,
                            !.approved = 0, !.held = Carried(p), !.limited = FALSE])
  /\ UNCHANGED source /\ KeepRun /\ KeepAsks

SubmitPlan(p) ==
  /\ Exists(p) /\ Speaking(Home(p)) /\ Status(p) = "draft"
  /\ Put(p, [plan[p] EXCEPT !.status = "awaiting_approval", !.approved = 0])
  /\ Ask(p)
  /\ here' = IF talk = Home(p) THEN here \cup {p} ELSE here
  /\ UNCHANGED source /\ KeepRun

\* start_task_plan: only an owner turn has events to quote, and only a later turn
\* than the proposing one may quote a message received after the proposal.
\* submitted_version is the version of every plan that awaits approval.
StartPlan(p) ==
  /\ Exists(p) /\ talk = Home(p) /\ Status(p) = "awaiting_approval"
  /\ plan[p].held # "acted"
  /\ p \in heard \ here
  /\ Put(p, [plan[p] EXCEPT !.status = "ready", !.approved = plan[p].version, !.resumes = 0])
  /\ UNCHANGED source /\ KeepRun /\ KeepAsks

CancelPlan(p) ==
  /\ Exists(p) /\ Speaking(Home(p)) /\ Status(p) \notin Finished
  /\ Put(p, [plan[p] EXCEPT !.status = "cancelled", !.version = @ + 1])
  /\ UNCHANGED source /\ KeepRun /\ KeepAsks

\* Slip: what the interrupted turn did is not looked at.
SafeToResumeUnlessLimited(p) == plan[p].limited => talk = Home(p) /\ p \in heard

\* plan_resume_safety: a plan stopped at its limit needs the owner's word, one that
\* the owner interrupted must not have acted.
SafeToResume(p) ==
  IF plan[p].limited THEN talk = Home(p) /\ p \in heard ELSE plan[p].held # "acted"

\* Slips: the approval is not compared with the version; resume_count is not raised.
ResumePlanUnapproved(p) ==
  /\ Exists(p) /\ Speaking(Home(p)) /\ Status(p) = "paused"
  /\ plan[p].step < plan[p].size /\ plan[p].resumes < MaxResumes /\ SafeToResume(p)
  /\ Put(p, [plan[p] EXCEPT !.status = "ready", !.limited = FALSE, !.resumes = @ + 1])
  /\ UNCHANGED source /\ KeepRun /\ KeepAsks

ResumePlanUncounted(p) ==
  /\ Exists(p) /\ Speaking(Home(p)) /\ Status(p) = "paused"
  /\ plan[p].approved = plan[p].version /\ plan[p].step < plan[p].size /\ SafeToResume(p)
  /\ Put(p, [plan[p] EXCEPT !.status = "ready", !.limited = FALSE])
  /\ UNCHANGED source /\ KeepRun /\ KeepAsks

ResumePlan(p) ==
  /\ Exists(p) /\ Speaking(Home(p)) /\ Status(p) = "paused"
  /\ plan[p].approved = plan[p].version /\ plan[p].step < plan[p].size
  /\ plan[p].resumes < MaxResumes
  /\ SafeToResume(p)
  /\ Put(p, [plan[p] EXCEPT !.status = "ready", !.limited = FALSE, !.resumes = @ + 1])
  /\ UNCHANGED source /\ KeepRun /\ KeepAsks

-----------------------------------------------------------------------------
(***************************************************************************)
(* The owner: messages, /stop, and owner turns.                            *)
(***************************************************************************)
Asks(p) == Status(p) = "awaiting_approval" \/ plan[p].limited

\* owner_arrived: a message on the channel of the running step interrupts it.
OwnerWrites(c) ==
  /\ mail' = mail \cup {c}
  /\ since' = since \cup {p \in Plans : Home(p) = c /\ Asks(p)}
  /\ run' = IF run.stage # "none" /\ Home(run.plan) = c
            THEN [run EXCEPT !.cancel = "owner_update"] ELSE run
  /\ UNCHANGED <<plan, source, begun, heard, here, talk, jobs, halted, stranded, starts>>

\* What becomes of the plans that the present turn created, when it ends.
Settle(outcome) == source' = [p \in Plans |-> IF source[p] = "open" THEN outcome ELSE source[p]]

Stoppable == {"draft", "awaiting_approval", "paused", "ready", "running"}

\* stop_task_plans on the channel, and the turn of any channel is cancelled.
OwnerStops(c) ==
  /\ plan' = [p \in Plans |-> IF Home(p) = c /\ Status(p) \in Stoppable
                              THEN [plan[p] EXCEPT !.status = "cancelled"] ELSE plan[p]]
  /\ run' = IF run.stage # "none" THEN [run EXCEPT !.cancel = "owner_stop"] ELSE run
  /\ talk' = Nobody /\ heard' = {} /\ here' = {}
  /\ IF talk # Nobody THEN Settle("lost") ELSE UNCHANGED source
  /\ UNCHANGED <<begun, mail, since, jobs, halted, stranded, starts>>

Read(c) ==
  /\ mail' = mail \ {c}
  /\ heard' = heard \cup {p \in since : Home(p) = c}
  /\ since' = {p \in since : Home(p) # c}
  /\ UNCHANGED <<plan, source, begun, here, jobs, run, halted, stranded, starts>>

OwnerTurn(c) == talk = Nobody /\ run.stage = "none" /\ c \in mail /\ talk' = c /\ Read(c)

\* Messages that arrive during the turn are taken in as updates.
Absorb(c) == talk = c /\ c \in mail /\ UNCHANGED talk /\ Read(c)

OwnerTurnEnds(outcome) ==
  /\ talk # Nobody
  /\ talk' = Nobody /\ heard' = {} /\ here' = {}
  /\ Settle(outcome)
  /\ UNCHANGED <<plan, begun, mail, since, jobs, run, halted, stranded, starts>>

-----------------------------------------------------------------------------
(***************************************************************************)
(* The scheduler and the worker.                                           *)
(***************************************************************************)
KeepTalk == UNCHANGED <<mail, talk, here, starts>>

\* A finished step's turn is completed already while its loop still returns.
SourceDone(p) == source[p] = "completed" \/ (source[p] = "open" /\ run.done)
Claimable(p) ==
  /\ Status(p) = "ready" /\ SourceDone(p) /\ plan[p].approved = plan[p].version
  /\ \A q \in Plans : Status(q) # "running"

ClaimPlan(p) ==
  /\ Claimable(p) /\ \A q \in Plans : q < p => ~Claimable(q)
  /\ Put(p, [plan[p] EXCEPT !.status = "running"])
  /\ jobs' = Append(jobs, p)
  /\ UNCHANGED <<source, begun, since, heard, run, halted, stranded>> /\ KeepTalk

\* The worker serves waiting owner messages first.
TakeJob ==
  /\ talk = Nobody /\ run.stage = "none" /\ mail = {} /\ jobs # <<>>
  /\ run' = [NoRun EXCEPT !.plan = Head(jobs), !.stage = "begin"]
  /\ jobs' = Tail(jobs)
  /\ UNCHANGED <<plan, source, begun, since, heard, halted, stranded>> /\ KeepTalk

\* A claimed plan that was stopped meanwhile is left alone.
BeginStep ==
  /\ Working /\ run.stage = "begin"
  /\ IF Status(run.plan) = "running"
     THEN /\ StepId(run.plan) \notin begun
          /\ run' = [run EXCEPT !.stage = "step", !.id = StepId(run.plan)]
          /\ begun' = begun \cup {StepId(run.plan)}
     ELSE run' = NoRun /\ UNCHANGED begun
  /\ UNCHANGED <<plan, source, since, heard, jobs, halted, stranded>> /\ KeepTalk

StepActs ==
  /\ Stepping /\ run' = [run EXCEPT !.acted = TRUE]
  /\ UNCHANGED <<plan, source, begun, since, heard, jobs, halted, stranded>> /\ KeepTalk

\* The step is over: the next one is pending and nothing is held against it.
Advanced(p, s) == [plan[p] EXCEPT !.status = s, !.step = @ + 1, !.held = "no"]

\* finish_task_plan_step: which end it is depends on the outcome, on_failure, abort
\* and the outcomes of the steps before.
FinishStep(s) ==
  /\ Working /\ run.stage \in {"step", "closing"} /\ ~run.done
  /\ Status(run.plan) = "running"
  /\ s \in {"blocked", "failed"} \cup
        (IF plan[run.plan].step + 1 = plan[run.plan].size THEN {"partial", "completed"} ELSE {"ready"})
  /\ Put(run.plan, Advanced(run.plan, s))
  /\ run' = [run EXCEPT !.done = TRUE]
  /\ UNCHANGED <<source, begun, since, heard, jobs, halted, stranded>> /\ KeepTalk

\* The tool loop of a finished step returns.
StepReturns ==
  /\ Working /\ run.done
  /\ run' = NoRun /\ Settle("completed")
  /\ UNCHANGED <<plan, begun, since, heard, jobs, halted, stranded>> /\ KeepTalk

StoppedOrRevised == run.done \/ Status(run.plan) \in {"awaiting_approval", "cancelled"}

\* The round ends and the plan is no longer to be worked on: the turn is cancelled.
StepAbandoned ==
  /\ Stepping /\ ~run.done /\ StoppedOrRevised
  /\ run' = NoRun /\ Settle("lost")
  /\ UNCHANGED <<plan, begun, since, heard, jobs, halted, stranded>> /\ KeepTalk

\* The hard limit of rounds: the plan is paused, whatever its state, until the owner
\* decides; a closing turn of its own hands it over.
LimitReached ==
  /\ Stepping /\ ~StoppedOrRevised
  /\ Put(run.plan, [plan[run.plan] EXCEPT !.status = "paused", !.limited = TRUE])
  /\ run' = [run EXCEPT !.stage = "handoff"]
  /\ Ask(run.plan) /\ Settle("completed")
  /\ UNCHANGED <<begun, jobs, halted, stranded>> /\ KeepTalk

HandedOver ==
  /\ Working /\ run.stage = "handoff"
  /\ run' = NoRun
  /\ UNCHANGED <<plan, source, begun, since, heard, jobs, halted, stranded>> /\ KeepTalk

\* A soft limit (time, tokens): a closing turn may still finish the step.
StepTimesOut ==
  /\ Stepping /\ ~StoppedOrRevised
  /\ run' = [run EXCEPT !.stage = "closing"]
  /\ UNCHANGED <<plan, source, begun, since, heard, jobs, halted, stranded>> /\ KeepTalk

\* Slip: the failure is logged and the plan left as it is.
StepFailsUnrecorded ==
  /\ Working /\ run.stage \in {"step", "closing"} /\ ~run.done
  /\ Settle("lost") /\ run' = NoRun
  /\ UNCHANGED <<plan, begun, since, heard, jobs, halted, stranded>> /\ KeepTalk

\* An error, or a closing turn without a result: a running plan is blocked.
StepFails ==
  /\ Working /\ run.stage \in {"step", "closing"} /\ ~run.done
  /\ IF Status(run.plan) = "running"
     THEN Put(run.plan, Advanced(run.plan, "blocked")) /\ Settle("completed")
     ELSE UNCHANGED plan /\ Settle("lost")
  /\ run' = NoRun
  /\ UNCHANGED <<begun, since, heard, jobs, halted, stranded>> /\ KeepTalk

-----------------------------------------------------------------------------
(***************************************************************************)
(* The cancellation is delivered, in the handler and then in the worker.   *)
(***************************************************************************)
Pauses == run.cancel = "owner_update" \/ run.stage \in {"closing", "handoff"}

Cancelled ==
  /\ run.cancel # "no"
  /\ run' = NoRun
  /\ IF Status(run.plan) # "running" \/ (run.stage = "begin" /\ Pauses)
     THEN UNCHANGED <<plan, halted>>
     ELSE IF Pauses
     THEN /\ Put(run.plan, [plan[run.plan] EXCEPT !.status = "paused",
                                               !.held = IF run.acted THEN "acted" ELSE "clean"])
          /\ halted' = IF run.acted THEN halted \cup {run.id} ELSE halted
     ELSE Put(run.plan, [plan[run.plan] EXCEPT !.status = "blocked"]) /\ UNCHANGED halted
  /\ stranded' = IF run.stage = "begin" /\ Pauses /\ Status(run.plan) = "running"
                 THEN stranded \cup {run.plan} ELSE stranded
  /\ Settle(IF run.done /\ run.stage = "closing" THEN "completed" ELSE "lost")
  /\ UNCHANGED <<begun, since, heard, jobs>> /\ KeepTalk

\* Slip: the plan that ran is not recovered.
PlanRestartUnrecovered ==
  /\ starts < MaxStarts /\ starts' = starts + 1
  /\ mail' = IF talk = Nobody THEN mail ELSE mail \cup {talk}
  /\ since' = since \cup heard /\ heard' = {} /\ here' = {} /\ talk' = Nobody
  /\ jobs' = <<>> /\ run' = NoRun /\ stranded' = {} /\ Settle("lost")
  /\ UNCHANGED <<plan, begun, halted>>

\* The next process: recover_task_plans.  The owner turn's messages are queued anew.
PlanRestart ==
  /\ starts < MaxStarts /\ starts' = starts + 1
  /\ plan' = [p \in Plans |-> IF Status(p) = "running"
                              THEN [plan[p] EXCEPT !.status = "blocked"] ELSE plan[p]]
  /\ mail' = IF talk = Nobody THEN mail ELSE mail \cup {talk}
  /\ since' = since \cup heard /\ heard' = {} /\ here' = {} /\ talk' = Nobody
  /\ jobs' = <<>> /\ run' = NoRun /\ stranded' = {}
  /\ Settle(IF run.done THEN "completed" ELSE "lost")
  /\ UNCHANGED <<begun, halted>>

-----------------------------------------------------------------------------
PlanInit ==
  /\ plan = [p \in Plans |-> Blank] /\ source = [p \in Plans |-> "none"]
  /\ begun = {} /\ mail = {} /\ since = {} /\ heard = {} /\ here = {}
  /\ talk = Nobody /\ jobs = <<>> /\ run = NoRun
  /\ halted = {} /\ stranded = {} /\ starts = 0

Tools ==
  \E p \in Plans :
     \/ \E c \in PlanChannels, n \in 1 .. MaxSteps : CreatePlan(p, c, n)
     \/ \E n \in 1 .. MaxSteps : UpdatePlan(p, n)
     \/ SubmitPlan(p) \/ StartPlan(p) \/ CancelPlan(p) \/ ResumePlan(p)

Owner == \E c \in PlanChannels :
  OwnerWrites(c) \/ OwnerStops(c) \/ OwnerTurn(c) \/ Absorb(c)

StepEnds ==
  \/ \E s \in {"blocked", "failed", "partial", "completed", "ready"} : FinishStep(s)
  \/ StepReturns \/ StepAbandoned \/ LimitReached \/ HandedOver \/ StepTimesOut \/ StepFails

PlanNext ==
  \/ Tools \/ Owner \/ OwnerTurnEnds("completed") \/ OwnerTurnEnds("lost")
  \/ (\E p \in Plans : ClaimPlan(p)) \/ TakeJob \/ BeginStep \/ StepActs \/ StepEnds
  \/ Cancelled \/ PlanRestart

PlanSpec == PlanInit /\ [][PlanNext]_planVars

\* The owner does not write without pause: SF only where owner turns go first.
PlanFairness ==
  /\ WF_planVars(\E p \in Plans : ClaimPlan(p)) /\ SF_planVars(TakeJob)
  /\ WF_planVars(BeginStep) /\ WF_planVars(StepEnds) /\ WF_planVars(Cancelled)
  /\ WF_planVars(\E c \in PlanChannels : OwnerTurn(c))

PlanFairSpec == PlanSpec /\ PlanFairness

-----------------------------------------------------------------------------
(***************************************************************************)
(* Properties.                                                             *)
(***************************************************************************)
Statuses == {"none", "draft", "awaiting_approval", "ready", "running", "paused", "completed",
             "partial", "failed", "blocked", "cancelled"}

PlanRow == [status : Statuses, version : 0 .. MaxVersions + 1, step : 0 .. MaxSteps,
            size : 0 .. MaxSteps, approved : 0 .. MaxVersions + 1,
            held : {"no", "clean", "acted"},
            limited : BOOLEAN, resumes : 0 .. MaxResumes, channel : PlanChannels \cup {Nobody}]

\* Types of the tables, the queue and the worker.
PlanTypeOK ==
  /\ plan \in [Plans -> PlanRow]
  /\ source \in [Plans -> {"none", "open", "completed", "lost"}]
  /\ begun \subseteq StepTurn /\ halted \subseteq begun
  /\ mail \subseteq PlanChannels /\ talk \in PlanChannels \cup {Nobody}
  /\ since \subseteq Plans /\ heard \subseteq Plans /\ here \subseteq Plans
  /\ jobs \in Seq(Plans)
  /\ run \in [plan : Plans \cup {0}, id : StepTurn \cup {NoStep}, acted : BOOLEAN, done : BOOLEAN,
              stage : {"none", "begin", "step", "closing", "handoff"},
              cancel : {"no", "owner_update", "owner_stop"}]
  /\ stranded \subseteq Plans /\ starts \in 0 .. MaxStarts

\* No plan is ready or runs in a version the owner has not approved, although the
\* planner may revise it in any turn, in its own step and while it waits or runs.
AgreedVersion ==
  \A p \in Plans : Status(p) \in {"ready", "running"} => plan[p].approved = plan[p].version

\* A step's turn is never begun twice: begin_turn would return the state of the
\* earlier attempt, and the workflow would give the plan up instead of working.
StepTurnFresh ==
  run.stage = "begin" /\ Status(run.plan) = "running" => StepId(run.plan) \notin begun

\* A running plan has a job in the queue or is being worked on: otherwise it would
\* keep every other plan from being claimed.  The exception is a step the owner's
\* message cancelled before its first instruction.
RunningIsHeld ==
  \A p \in Plans : Status(p) = "running" =>
    p \in Range(jobs) \/ (run.stage # "none" /\ run.plan = p) \/ p \in stranded

\* What the owner stopped and what was completed is never taken up again.
FinishedIsFinal ==
  [][\A p \in Plans : Status(p) \in Finished => Status(p)' = Status(p)]_planVars

\* "If the interrupted step may have acted, the runtime refuses to replay it": no
\* step the owner interrupted after it acted is begun again, unless by a plan that
\* was revised before its first step was done.
NoSilentReplay ==
  [][\A new \in begun' \ begun, old \in halted :
       new.plan = old.plan /\ new.step = old.step =>
         new.step = 0 /\ new.version > old.version]_planVars

\* The worker's record: a step turn that has begun is a row of turns; nothing is
\* paused at its limit, resumed or approved while the worker is on it.
RunShape ==
  /\ run.stage = "none" => run = NoRun
  /\ run.stage # "none" => run.plan \in Plans /\ talk = Nobody
  /\ run.stage \in {"step", "closing", "handoff"} => run.id \in begun /\ run.id.plan = run.plan
  /\ run.stage \in {"none", "begin", "handoff"} => ~run.done
  /\ run.stage = "handoff" => Status(run.plan) \in {"paused", "cancelled"}
  /\ run.done /\ Status(run.plan) = "running" => run.plan \in Range(jobs)
  /\ run.stage \in {"step", "closing"} /\ ~run.done =>
       /\ plan[run.plan].held # "acted" /\ run.id.step = plan[run.plan].step
       /\ run.id.version <= plan[run.plan].version /\ plan[run.plan].step < plan[run.plan].size
       /\ Status(run.plan) \in {"running", "draft", "awaiting_approval", "cancelled"}
  /\ run.done => run.id.step < plan[run.plan].step

\* Turns lie behind the plan, in its steps and in its versions.
BegunFits(id) ==
  /\ Exists(id.plan)
  /\ id.step <= plan[id.plan].step /\ id.version <= plan[id.plan].version
  /\ id.version = plan[id.plan].version =>
       /\ Status(id.plan) \notin {"draft", "awaiting_approval"}
       /\ id.resumes <= plan[id.plan].resumes
       /\ id.step = plan[id.plan].step /\ id.resumes = plan[id.plan].resumes =>
            /\ Status(id.plan) # "ready"
            /\ Status(id.plan) = "running" =>
                 run.plan = id.plan /\ run.stage \in {"step", "closing"} /\ ~run.done
BegunShape == \A id \in begun : BegunFits(id)

\* A plan has a channel, steps left, and what is held against its current one.
HeldFits(p) ==
  /\ Status(p) \in {"draft", "awaiting_approval", "ready", "running", "paused"} =>
       plan[p].step < plan[p].size
  /\ Status(p) \in {"ready", "running"} \/ plan[p].limited => plan[p].held # "acted"
  /\ plan[p].limited => Status(p) \in {"paused", "cancelled"}
  /\ Exists(p) => Home(p) # Nobody
  /\ plan[p].version <= MaxVersions \/ Status(p) = "cancelled"
HeldShape == \A p \in Plans : HeldFits(p)

\* A halted turn is held against the step it halted, until a revision may drop it.
HaltedFits(old) ==
  old.step = plan[old.plan].step /\ (old.step > 0 \/ old.version = plan[old.plan].version) =>
    plan[old.plan].held = "acted" /\ old.step < plan[old.plan].size
HaltedShape == \A old \in halted : old \in begun /\ HaltedFits(old)

\* The inductive invariant.
PlanInv == PlanTypeOK /\ AgreedVersion /\ RunningIsHeld /\ RunShape /\ BegunShape
             /\ HeldShape /\ HaltedShape

\* The same without the exception, as the tool's description and the check in
\* start_task_plan have it: revising a plan does not clear the way for a replay.
NeverReplayed ==
  [][\A new \in begun' \ begun, old \in halted :
       ~(new.plan = old.plan /\ new.step = old.step)]_planVars

\* The same as RunningIsHeld without the exception: the owner's message pauses the
\* step it interrupts, as the notice given to the planner says.
InterruptedIsPaused ==
  \A p \in Plans : Status(p) = "running" =>
    p \in Range(jobs) \/ (run.stage # "none" /\ run.plan = p)

\* An approved plan is taken up, or withdrawn, if again and again no owner message
\* waits and no owner turn runs: unless a stranded plan is in its way, or the turn
\* that created it did not complete.
ReadyIsTaken ==
  []<>(mail = {} /\ talk = Nobody) =>
    \A p \in Plans : (Status(p) = "ready") ~>
       (Status(p) # "ready" \/ stranded # {} \/ source[p] = "lost")
=============================================================================

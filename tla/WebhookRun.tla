----------------------------- MODULE WebhookRun -----------------------------
(***************************************************************************)
(* Webhook workflows: the runs that requests create, the one worker that   *)
(* takes their message and exec steps in order, and a task of its own for  *)
(* the step that records a clip, which is sent by the run or handed to the *)
(* agent. Both write the same rows and wait for turns of the one agent,    *)
(* which speaks while its turn goes on; /stop cancels them, a turn between *)
(* two nested ones of the owner excepted; a restart recovers each kind of  *)
(* step in its own way. Sources: webhooks/service.py,                      *)
(* storage/ops/webhooks.py, storage/core/lifecycle.py, dispatch/worker.py. *)
(***************************************************************************)
EXTENDS Integers, Sequences, FiniteSets

CONSTANTS
  RunShapes,   \* the workflows: sequences of message, exec, video and agent
  MaxRuns,     \* bound: requests accepted
  MaxHalts,    \* bound: /stop
  MaxBoots     \* bound: restarts

\* A clip is delivered by the run (video) or by the agent (agent), one at most.
StepKinds  == {"message", "exec", "video", "agent"}
ClipKinds  == {"video", "agent"}
Terminal   == {"succeeded", "failed", "ambiguous"}
BeforeSend == {"none", "recording", "recorded", "record_failed", "reviewing"}

ASSUME RunScope ==
  \A s \in RunShapes : /\ s \in Seq(StepKinds) /\ s # <<>>
                       /\ \A i, k \in DOMAIN s : s[i] \in ClipKinds /\ s[k] \in ClipKinds => i = k
ASSUME RunBounds == MaxRuns \in Nat /\ MaxHalts \in Nat /\ MaxBoots \in Nat

RunIds == 1 .. MaxRuns

VARIABLES
  runs,      \* webhook_runs: state and current step, in the order of created_at
  steps,     \* webhook_steps of each run
  act,       \* _active_run: its run, its step and what it waits for
  clip,      \* the task of each run's recording
  voice,     \* the webhook turn the agent works on: its run and step
  recalled,  \* history: runs whose clip /stop cancelled before any of it was queued
  missed,    \* history: runs whose review turn was not cancelled with it
  halts, boots

runVars == <<runs, steps, act, clip, voice, recalled, missed, halts, boots>>
history == <<recalled, missed, halts, boots>>
aside   == <<voice, history>>

Idle     == [run |-> 0, at |-> 0, stage |-> "idle"]
At(r, i) == [run |-> r, at |-> i]
NoVoice  == At(0, 0)

\* A step's row; out is the state of the bubbles of its turn, error says that the
\* recording failed, and done counts the starts of an exec and the clips the run queued.
NewStep(k) == [kind |-> k, state |-> "queued", status |-> "none", out |-> "none",
               error |-> FALSE, done |-> 0]

IsClip(s)   == s.kind \in ClipKinds
Settled(s)  == s.state \in Terminal
HasClip(ss) == \E i \in DOMAIN ss : IsClip(ss[i])
Clip(ss)    == CHOOSE i \in DOMAIN ss : IsClip(ss[i])
Least(S)    == CHOOSE i \in S : \A k \in S : i <= k
Due(ss)     == {i \in DOMAIN ss : ~IsClip(ss[i]) /\ ~Settled(ss[i])}
MessagesSettled(ss) == \A i \in DOMAIN ss : ss[i].kind = "message" => Settled(ss[i])

-----------------------------------------------------------------------------
(***************************************************************************)
(* Transactions of the store.                                              *)
(***************************************************************************)
\* Slip: the steps behind an exec that failed stay queued.
CutNothing(ss) == ss

\* _refresh_webhook_video_run: what a failed exec leaves behind is failed...
Cut(ss) ==
  [i \in DOMAIN ss |->
    IF /\ ~IsClip(ss[i]) /\ ss[i].state = "queued"
       /\ \E p \in 1 .. i - 1 : ss[p].kind = "exec" /\ ss[p].state \in {"failed", "ambiguous"}
    THEN [ss[i] EXCEPT !.state = "failed"] ELSE ss[i]]

\* Slip: only the steps of the worker count.
VerdictOfDue(ss) ==
  [at |-> IF Due(ss) = {} THEN Len(ss) + 1 ELSE Least(Due(ss)),
   state |-> IF Due(ss) = {} THEN "succeeded" ELSE "queued"]

\* ... and the run's state follows from its steps.
Verdict(ss) ==
  LET states == {ss[i].state : i \in DOMAIN ss}
  IN  [at |-> IF Due(ss) = {} THEN Len(ss) + 1 ELSE Least(Due(ss)),
       state |-> IF states \subseteq Terminal
                 THEN IF "ambiguous" \in states THEN "ambiguous"
                      ELSE IF "failed" \in states THEN "failed" ELSE "succeeded"
                 ELSE IF "waiting_delivery" \in states THEN "waiting_delivery" ELSE "queued"]

\* Rows ss of run r are written, with state st and current step i if the run has no
\* clip, whose runs are refreshed.
Write(r, ss, st, i) ==
  LET kept == IF HasClip(ss) THEN Cut(ss) ELSE ss
  IN  /\ steps' = [steps EXCEPT ![r] = kept]
      /\ runs' = [runs EXCEPT ![r] = IF HasClip(ss) THEN Verdict(kept)
                                                    ELSE [state |-> st, at |-> i]]

Ended(ss, i, st) ==
  [ss EXCEPT ![i].state = st, ![i].status = IF IsClip(ss[i]) THEN st ELSE @]

\* finish_webhook_step.
Finish(r, i, st) ==
  Write(r, Ended(steps[r], i, st), IF st = "succeeded" THEN "running" ELSE st,
        IF st = "succeeded" THEN i + 1 ELSE i)

\* fail_webhook_run.
Failing(ss) ==
  [i \in DOMAIN ss |-> IF Settled(ss[i]) THEN ss[i]
                       ELSE [ss[i] EXCEPT !.state = "failed", !.status = IF IsClip(ss[i]) THEN "failed" ELSE @]]

FailRun(r) ==
  /\ runs' = [runs EXCEPT ![r].state = IF @ \in {"succeeded", "ambiguous"} THEN @ ELSE "failed"]
  /\ steps' = [steps EXCEPT ![r] = Failing(@)]

\* commit_webhook_reply: the step waits for whatever is in the outbox under its turn, an
\* earlier attempt at that turn included.
Spoke(s) == s.out # "none"

Replied(s) ==
  [s EXCEPT !.state = IF Spoke(s) THEN "waiting_delivery" ELSE "succeeded",
            !.status = IF IsClip(s) THEN IF Spoke(s) THEN "enqueued" ELSE "reviewed" ELSE @]

Commit(r, i) ==
  LET ss == [steps[r] EXCEPT ![i] = Replied(@)]
  IN  IF IsClip(ss[i]) THEN Write(r, ss, "waiting_delivery", i)
      ELSE /\ steps' = [steps EXCEPT ![r] = ss]
           /\ runs' = [runs EXCEPT ![r] = IF Spoke(ss[i]) THEN [state |-> "waiting_delivery", at |-> i]
                                                          ELSE [state |-> "running", at |-> i + 1]]

\* webhook_delivery_state.
Delivered(s) == IF s.out = "sent" THEN "succeeded" ELSE s.out

-----------------------------------------------------------------------------
(***************************************************************************)
(* Requests and the worker.                                                *)
(***************************************************************************)
\* POST with a new idempotency key; an old one finds its run.
Post(r, shape) ==
  /\ runs[r].state = "none" /\ \A q \in 1 .. r - 1 : runs[q].state # "none"
  /\ steps' = [steps EXCEPT ![r] = [i \in DOMAIN shape |-> NewStep(shape[i])]]
  /\ runs' = [runs EXCEPT ![r] = [state |-> "queued", at |-> 1]]
  /\ clip' = [clip EXCEPT ![r] = IF HasClip(steps'[r]) THEN "new" ELSE "none"]
  /\ UNCHANGED <<act, aside>>

\* Slip: a run that waits for its bubbles is not taken up again.
ClaimableRunsQueued == {"queued"}

ClaimableRuns == {"queued", "waiting_delivery"}

\* claim_webhook_run: the oldest; of a run with a clip only if another step is due.
ClaimRun ==
  /\ act = Idle
  /\ LET free == {r \in RunIds : /\ runs[r].state \in ClaimableRuns
                                 /\ HasClip(steps[r]) => Due(steps[r]) # {}}
     IN  /\ free # {}
         /\ act' = [run |-> Least(free), at |-> runs[Least(free)].at, stage |-> "claimed"]
         /\ runs' = [runs EXCEPT ![Least(free)].state = IF @ = "queued" THEN "running" ELSE @]
  /\ UNCHANGED <<steps, clip, aside>>

Goes(i)  == act' = [act EXCEPT !.stage = "go", !.at = i]
Waits(s) == act' = [act EXCEPT !.stage = s]

\* The loop over the steps up to its next await; settled steps and clips are skipped.
Proceed ==
  /\ act.stage \in {"claimed", "go"}
  /\ LET r == act.run
         left == {i \in Due(steps[r]) : i >= act.at}
         i == Least(left)
     IN  IF left = {}
         THEN /\ act' = Idle
              /\ IF HasClip(steps[r]) THEN Write(r, steps[r], "none", 0)
                 ELSE /\ runs' = [runs EXCEPT ![r].state =
                           IF \A k \in DOMAIN steps[r] : steps[r][k].state = "succeeded"
                           THEN "succeeded" ELSE @]
                      /\ UNCHANGED steps
         ELSE IF steps[r][i].state = "waiting_delivery"
         THEN act' = [run |-> r, at |-> i, stage |-> "deliver"] /\ UNCHANGED <<runs, steps>>
         ELSE /\ act' = [run |-> r, at |-> i,
                         stage |-> IF steps[r][i].kind = "message" THEN "turn" ELSE "exec"]
              /\ runs' = [runs EXCEPT ![r] = [state |-> "running", at |-> i]]
              /\ steps' = [steps EXCEPT ![r][i].state = "running",
                                       ![r][i].done = IF steps[r][i].kind = "exec" THEN @ + 1 ELSE @]
  /\ UNCHANGED <<clip, aside>>

\* The worker awaits the turn's answer, without a time limit; then it commits it.
TurnAnswers ==
  /\ act.stage = "turn" /\ voice = At(act.run, act.at) /\ voice' = NoVoice
  /\ Commit(act.run, act.at)
  /\ IF Spoke(steps[act.run][act.at]) THEN Waits("deliver") ELSE Goes(act.at + 1)
  /\ UNCHANGED <<clip, history>>

\* The turn fails, also because its row says that it was cancelled. A run with a clip
\* goes on without the notification.
TurnFails ==
  /\ act.stage = "turn" /\ voice = At(act.run, act.at) /\ voice' = NoVoice
  /\ IF HasClip(steps[act.run]) THEN Finish(act.run, act.at, "failed") /\ Goes(act.at + 1)
                                ELSE FailRun(act.run) /\ act' = Idle
  /\ UNCHANGED <<clip, history>>

\* _wait_delivery.
MessageDelivered ==
  /\ act.stage = "deliver"
  /\ LET r == act.run  s == Delivered(steps[r][act.at])
     IN  /\ s # "pending"
         /\ Finish(r, act.at, s)
         /\ IF s = "succeeded" \/ HasClip(steps[r]) THEN Goes(act.at + 1) ELSE act' = Idle
  /\ UNCHANGED <<clip, aside>>

\* The process ends, cannot be started, or is given up after its timeout.
ExecEnds(st) ==
  /\ act.stage = "exec"
  /\ Finish(act.run, act.at, st)
  /\ IF st = "succeeded" THEN Goes(act.at + 1) ELSE act' = Idle
  /\ UNCHANGED <<clip, aside>>

\* The outbox settles the bubbles of a step; only a clip of the run itself may stay in
\* doubt, all others are sent again.
BubblesSettle(r, i, s) ==
  /\ i \in DOMAIN steps[r] /\ steps[r][i].out = "pending"
  /\ s = "ambiguous" => steps[r][i].kind = "video"
  /\ steps' = [steps EXCEPT ![r][i].out = s]
  /\ UNCHANGED <<runs, act, clip, aside>>

-----------------------------------------------------------------------------
(***************************************************************************)
(* The agent: one webhook turn at a time.                                  *)
(***************************************************************************)
\* Somebody waits for turn v: the worker, or the task of a clip.
Asked(v) ==
  \/ act.stage = "turn" /\ v = At(act.run, act.at)
  \/ v.run \in RunIds /\ clip[v.run] = "turn" /\ v.at = Clip(steps[v.run])

\* A request that was given up meanwhile is dropped.
AgentTakes(r, i) ==
  /\ voice = NoVoice /\ i \in DOMAIN steps[r] /\ Asked(At(r, i))
  /\ voice' = At(r, i)
  /\ UNCHANGED <<runs, steps, act, clip, history>>

\* The reply tool queues a bubble while the turn goes on, the clip attached or not; it
\* does not ask for the step. One that failed fails the delivery of all.
Speaks ==
  /\ voice # NoVoice
  /\ steps' = [steps EXCEPT ![voice.run][voice.at].out = IF @ = "failed" THEN @ ELSE "pending"]
  /\ UNCHANGED <<runs, act, clip, aside>>

\* A turn that /stop missed comes to its end; nobody takes its answer.
StrayEnds ==
  /\ voice # NoVoice /\ ~Asked(voice) /\ voice' = NoVoice
  /\ UNCHANGED <<runs, steps, act, clip, history>>

-----------------------------------------------------------------------------
(***************************************************************************)
(* The recording's task.                                                   *)
(***************************************************************************)
Row(r)        == steps[r][Clip(steps[r])]
ClipGoes(r, p) == clip' = [clip EXCEPT ![r] = p]
SetRow(r, row) == steps' = [steps EXCEPT ![r][Clip(steps[r])] = row] /\ UNCHANGED runs
Enqueued(r)    == [Row(r) EXCEPT !.state = "waiting_delivery", !.status = "enqueued",
                                 !.out = "pending", !.done = @ + 1]
EndClip(r, st) == Finish(r, Clip(steps[r]), st)
Keep           == UNCHANGED <<act, aside>>

ClipBegins(r) ==
  /\ clip[r] = "new"
  /\ IF Settled(Row(r)) THEN ClipGoes(r, "none") /\ UNCHANGED <<runs, steps>>
     ELSE /\ SetRow(r, [Row(r) EXCEPT !.state = "running", !.status = "recording"])
          /\ ClipGoes(r, "record")
  /\ Keep

Recording(r) == Row(r).state = "running" /\ Row(r).status = "recording"

ClipRecorded(r) ==
  /\ clip[r] = "record"
  /\ IF Recording(r) THEN SetRow(r, [Row(r) EXCEPT !.status = "recorded"]) /\ ClipGoes(r, "loop")
                     ELSE ClipGoes(r, "none") /\ UNCHANGED <<runs, steps>>
  /\ Keep

\* The agent is told of a recording that failed; without it the step has failed.
ClipLost(r) ==
  /\ clip[r] = "record"
  /\ IF Row(r).kind = "video" THEN EndClip(r, "failed") /\ ClipGoes(r, "none")
     ELSE /\ ClipGoes(r, "loop")
          /\ IF Recording(r)
             THEN SetRow(r, [Row(r) EXCEPT !.status = "record_failed", !.error = TRUE])
             ELSE UNCHANGED <<runs, steps>>
  /\ Keep

\* enqueue_webhook_video, checked and written in one transaction.
ClipSent(r) ==
  /\ clip[r] = "loop" /\ ~Settled(Row(r)) /\ Row(r).kind = "video" /\ Row(r).status = "recorded"
  /\ MessagesSettled(steps[r])
  /\ Write(r, [steps[r] EXCEPT ![Clip(steps[r])] = Enqueued(r)], "none", 0)
  /\ ClipGoes(r, "deliver") /\ Keep

\* begin_webhook_video_review: also again, after a restart.
ReviewBegins(r) ==
  /\ clip[r] = "loop" /\ ~Settled(Row(r)) /\ Row(r).kind = "agent"
  /\ Row(r).status \in {"recorded", "record_failed", "reviewing"}
  /\ MessagesSettled(steps[r])
  /\ SetRow(r, [Row(r) EXCEPT !.status = "reviewing"])
  /\ ClipGoes(r, "turn") /\ Keep

ReviewAnswers(r) ==
  /\ clip[r] = "turn" /\ Row(r).state = "running"
  /\ voice = At(r, Clip(steps[r])) /\ voice' = NoVoice
  /\ Commit(r, Clip(steps[r]))
  /\ ClipGoes(r, IF Spoke(Row(r)) THEN "deliver" ELSE IF Row(r).error THEN "close" ELSE "none")
  /\ UNCHANGED <<act, history>>

\* The turn failed, or its step has been settled meanwhile.
ReviewFails(r) ==
  /\ clip[r] = "turn" /\ EndClip(r, "failed") /\ ClipGoes(r, "none")
  /\ voice = At(r, Clip(steps[r])) /\ voice' = NoVoice
  /\ UNCHANGED <<act, history>>

\* A restarted task finds its clip in the outbox.
ClipAwaited(r) ==
  /\ clip[r] = "loop" /\ ~Settled(Row(r)) /\ Row(r).status = "enqueued"
  /\ ClipGoes(r, "deliver") /\ UNCHANGED <<runs, steps>> /\ Keep

\* The row was settled by others.
ClipDropped(r) ==
  /\ clip[r] = "loop" /\ Settled(Row(r))
  /\ ClipGoes(r, "none") /\ UNCHANGED <<runs, steps>> /\ Keep

ClipDelivered(r) ==
  /\ clip[r] = "deliver" /\ Delivered(Row(r)) # "pending"
  /\ EndClip(r, Delivered(Row(r)))
  /\ ClipGoes(r, IF Row(r).error THEN "close" ELSE "none") /\ Keep

\* What the agent said of a failed recording went out; the step has failed.
ClipClosed(r) ==
  /\ clip[r] = "close" /\ EndClip(r, "failed") /\ ClipGoes(r, "none") /\ Keep

-----------------------------------------------------------------------------
(***************************************************************************)
(* /stop and restarts.                                                     *)
(***************************************************************************)
\* Slip: a recorded clip is left as it is, only its task is cancelled.
StoppedRowsOnlyQueued(hit) ==
  [r \in RunIds |-> IF r \in hit /\ Row(r).state = "queued"
                    THEN Cut(Ended(steps[r], Clip(steps[r]), "failed")) ELSE steps[r]]

\* What stop_active writes: a clip not begun, or past its recording, has failed.
StoppedRows(hit) ==
  [r \in RunIds |-> IF r \in hit /\ (Row(r).state = "queued" \/ Row(r).status # "recording")
                    THEN Cut(Ended(steps[r], Clip(steps[r]), "failed")) ELSE steps[r]]

\* stop_active: the active run and the tasks of clips not yet in the outbox. The agent's
\* turn is cancelled with them, unless it is parked and no turn of the owner runs just then.
Halt ==
  /\ halts < MaxHalts /\ halts' = halts + 1
  /\ LET hit == {r \in RunIds : clip[r] \notin {"none", "stopped"} /\ Row(r).status \in BeforeSend}
     IN  /\ steps' = StoppedRows(hit)
         /\ runs' = [r \in RunIds |-> IF steps'[r] = steps[r] THEN runs[r] ELSE Verdict(steps'[r])]
         /\ clip' = [r \in RunIds |-> IF r \notin hit THEN clip[r]
                                      ELSE IF clip[r] = "record" THEN "stopped" ELSE "none"]
         /\ recalled' = recalled \cup {r \in hit : ~Spoke(Row(r))}
         /\ voice' \in {NoVoice, voice}
         /\ missed' = missed \cup {r \in hit : voice' = At(r, Clip(steps[r]))}
  /\ act' = IF act = Idle THEN act ELSE [act EXCEPT !.stage = "stopped"]
  /\ UNCHANGED boots

\* The cancelled tasks end.
RunStopped ==
  /\ act.stage = "stopped" /\ FailRun(act.run) /\ act' = Idle
  /\ UNCHANGED <<clip, aside>>

ClipStopped(r) ==
  /\ clip[r] = "stopped" /\ ClipGoes(r, "none")
  /\ IF Recording(r) THEN EndClip(r, "failed") ELSE UNCHANGED <<runs, steps>>
  /\ Keep

\* Slip: an exec that ran when the process died runs again.
AfterDeathAnew(kind) == "queued"

\* _recover_webhooks: an exec may have acted, a turn starts again, footage is lost.
AfterDeath(kind) == IF kind = "exec" THEN "ambiguous" ELSE "queued"

Recovered(s) ==
  IF IsClip(s) /\ s.state \in {"queued", "running"} /\ s.status \in {"none", "recording"}
  THEN [s EXCEPT !.state = "failed", !.status = "failed"]
  ELSE IF ~IsClip(s) /\ s.state = "running" THEN [s EXCEPT !.state = AfterDeath(s.kind)] ELSE s

Boot ==
  /\ boots < MaxBoots /\ boots' = boots + 1
  /\ LET fixed == [r \in RunIds |-> [i \in DOMAIN steps[r] |-> Recovered(steps[r][i])]]
         unsure(r) == \E i \in DOMAIN fixed[r] : fixed[r][i].state = "ambiguous"
         cutOff(r) == \E i \in DOMAIN fixed[r] : steps[r][i].kind = "exec" /\ steps[r][i].state = "running"
     IN  /\ steps' = [r \in RunIds |-> IF HasClip(fixed[r]) THEN Cut(fixed[r]) ELSE fixed[r]]
         /\ runs' = [r \in RunIds |->
              IF HasClip(fixed[r]) THEN Verdict(steps'[r])
              ELSE IF cutOff(r) THEN [runs[r] EXCEPT !.state = "ambiguous"]
              ELSE IF runs[r].state = "running" /\ ~unsure(r) THEN [runs[r] EXCEPT !.state = "queued"]
              ELSE runs[r]]
         /\ clip' = [r \in RunIds |->
              IF HasClip(steps'[r]) /\ ~Settled(steps'[r][Clip(steps'[r])]) THEN "loop" ELSE "none"]
  /\ act' = Idle /\ voice' = NoVoice
  /\ UNCHANGED <<recalled, missed, halts>>

-----------------------------------------------------------------------------
RunInit ==
  /\ runs = [r \in RunIds |-> [state |-> "none", at |-> 1]]
  /\ steps = [r \in RunIds |-> <<>>]
  /\ act = Idle /\ clip = [r \in RunIds |-> "none"] /\ voice = NoVoice
  /\ recalled = {} /\ missed = {} /\ halts = 0 /\ boots = 0

\* Between two transactions of one stretch of code nothing else runs; the process
\* may die there.
Midway == act.stage = "go" \/ \E r \in RunIds : clip[r] = "close"

WorkerMoves ==
  \/ ClaimRun \/ MessageDelivered \/ RunStopped
  \/ act.stage = "claimed" /\ Proceed
ExecOver == \E st \in Terminal : ExecEnds(st)
Outside  == \E r \in RunIds, i \in 1 .. 4, s \in {"sent", "failed", "ambiguous"} : BubblesSettle(r, i, s)
Takes    == \E r \in RunIds, i \in 1 .. 4 : AgentTakes(r, i)
TurnEnds == TurnAnswers \/ TurnFails \/ StrayEnds \/ \E r \in RunIds : ReviewAnswers(r) \/ ReviewFails(r)

ClipMoves(r) ==
  \/ ClipBegins(r) \/ ClipRecorded(r) \/ ClipLost(r) \/ ClipSent(r) \/ ReviewBegins(r)
  \/ ClipAwaited(r) \/ ClipDropped(r) \/ ClipDelivered(r) \/ ClipStopped(r)

GoesOn == (act.stage = "go" /\ Proceed) \/ \E r \in RunIds : ClipClosed(r)

RunNext ==
  \/ Boot \/ GoesOn
  \/ /\ ~Midway
     /\ \/ \E r \in RunIds, shape \in RunShapes : Post(r, shape)
        \/ WorkerMoves \/ Takes \/ Speaks \/ TurnEnds \/ ExecOver \/ Outside \/ Halt
        \/ \E r \in RunIds : ClipMoves(r)

RunSpec == RunInit /\ [][RunNext]_runVars

\* The worker, the clips' tasks and the agent's worker go on, a process ends or is killed
\* at its timeout, the outbox settles its rows. That a turn ends is no part of it: the
\* requester waits without a time limit, and the turn has no limit of rounds.
RunFairness ==
  /\ WF_runVars(GoesOn)
  /\ WF_runVars(~Midway /\ WorkerMoves) /\ WF_runVars(~Midway /\ Takes)
  /\ WF_runVars(~Midway /\ ExecOver) /\ WF_runVars(~Midway /\ Outside)
  /\ \A r \in RunIds : WF_runVars(~Midway /\ ClipMoves(r))

FairRunSpec == RunSpec /\ RunFairness

-----------------------------------------------------------------------------
(***************************************************************************)
(* Properties.                                                             *)
(***************************************************************************)
StepRows == [kind : StepKinds, state : {"queued", "running", "waiting_delivery"} \cup Terminal,
             status : BeforeSend \cup {"enqueued", "reviewed"} \cup Terminal,
             out : {"none", "pending", "sent", "failed", "ambiguous"}, error : BOOLEAN, done : 0 .. 1]

\* Types. Whatever is stopped or restarted, an exec is started once and the clip a run
\* sends itself is queued once. (Not so the replies of a turn: one that a crash cut off is
\* started again and may speak again.)
RunTypeOK ==
  /\ runs \in [RunIds -> [state : {"none", "queued", "running", "waiting_delivery"} \cup Terminal,
                          at : Nat]]
  /\ \A r \in RunIds : \A i \in DOMAIN steps[r] : steps[r][i] \in StepRows
  /\ act \in [run : 0 .. MaxRuns, at : Nat,
              stage : {"idle", "claimed", "go", "turn", "deliver", "exec", "stopped"}]
  /\ clip \in [RunIds -> {"none", "new", "record", "loop", "turn", "deliver", "close", "stopped"}]
  /\ voice \in [run : 0 .. MaxRuns, at : Nat]
  /\ recalled \subseteq RunIds /\ missed \subseteq RunIds /\ halts \in 0 .. MaxHalts /\ boots \in 0 .. MaxBoots

\* A run has succeeded only if each of its steps has, and all that was queued under its
\* turns has been delivered, by attempts that a crash cut off too.
SuccessIsEarned ==
  \A r \in RunIds : runs[r].state = "succeeded" =>
    \A i \in DOMAIN steps[r] : steps[r][i].state = "succeeded" /\ steps[r][i].out \in {"none", "sent"}

\* Behind an exec that failed or may have failed no later step of the worker acts: it is
\* neither begun nor answered, and nothing is said for it.
Acted(s) == s.done > 0 \/ Spoke(s) \/ s.state \in {"running", "waiting_delivery", "succeeded"}

NothingAfterFailedExec ==
  \A r \in RunIds : \A i, p \in DOMAIN steps[r] :
    p < i /\ steps[r][p].kind = "exec" /\ steps[r][p].state \in {"failed", "ambiguous"}
      => IsClip(steps[r][i]) \/ ~Acted(steps[r][i])

\* docs/WORKFLOW.md: /stop cancels the clips that have not entered the outbox: they never
\* do, whatever the recorder, the reviewing agent or a restart does then. The exception is
\* a review that /stop did not reach, parked between two of the owner's turns.
StoppedClipNeverSent == \A r \in recalled \ missed : ~Spoke(Row(r))

\* The same without the exception, as the document has it.
StoppedClipStaysBack == \A r \in recalled : ~Spoke(Row(r))

\* Premise: no webhook turn works for ever.
WebhookTurnsEnd == []<>(voice = NoVoice)

\* If its turns end, every accepted request comes to its verdict, although runs share the
\* agent, and steps wait for bubbles, clips for messages.
RunSettles ==
  WebhookTurnsEnd =>
    \A r \in RunIds : (runs[r].state # "none") ~> (runs[r].state \in Terminal)
=============================================================================

-------------------------- MODULE BackgroundProofs --------------------------
(***************************************************************************)
(* Proofs about AgentWorker and WebhookRun, the two parts of MCBackground  *)
(* with rows and queues, for every set of jobs, of workflows and for all   *)
(* bounds. WorkerInv says where the worker's turn, its nested run and the  *)
(* owner's turn are. RunInv says of each webhook run in which order its    *)
(* steps stand, that its record fits its steps, where the worker is in     *)
(* it, where the recording's task is and what a cancelled clip can do.     *)
(***************************************************************************)
EXTENDS MCBackground, SequenceTheorems, WellFoundedInduction, TLAPS

\* The worker watches a turn that yields; its nested run and the owner's turn are where
\* its record says.
WorkerRecord ==
  /\ phase \in {"watch", "nested"} => job \in WorkerJobs /\ Yields(job)
  /\ phase = "watch" => active = "job"
  /\ inner = "gather" => phase = "nested"
  /\ inner = "owner" => phase \in {"nested", "dead"}
  /\ ownerTask # "none" => phase = "owner" \/ (phase = "nested" /\ inner = "owner")

\* The inductive invariant of the worker.
WorkerInv == WorkerTypeOK /\ WorkerRecord /\ WaitingIsAsked

\* The jobs of webhooks.
Hooks == {j \in WorkerJobs : Kind(j) = "webhook"}

\* The queues.
QueuesOK ==
  /\ autonomous \in Seq(WorkerJobs) /\ hooks \in Seq(Hooks) /\ waited \in [WorkerJobs -> Nat]

\* The rest of the worker's state.
StateOK ==
  /\ inbox \in 0 .. MaxInbox /\ writes \in 0 .. MaxWrites
  /\ phase \in {"choose", "asleep", "gather", "owner", "plain", "watch", "nested", "settle", "dead"}
  /\ inner \in {"none", "gather", "owner"} /\ job \in WorkerJobs \cup {NoJob}
  /\ task \in {"none", "run", "parked", "cancelling", "ok", "cancelled"}
  /\ active \in {"none", "job", "owner"} /\ ownerTask \in {"none", "run", "cancelling"}
  /\ requested \in BOOLEAN /\ resume \in BOOLEAN /\ stopReq \in BOOLEAN /\ stopped \in BOOLEAN

\* The type invariant in two parts.
LEMMA TypeSplit == WorkerTypeOK <=> QueuesOK /\ StateOK
BY DEF WorkerTypeOK, QueuesOK, StateOK, Hooks

\* The same, one step later.
LEMMA TypeSplitNext == WorkerTypeOK' <=> QueuesOK' /\ StateOK'
BY DEF WorkerTypeOK, QueuesOK, StateOK, Hooks

-----------------------------------------------------------------------------
\* A job taken out of a queue leaves a queue.
LEMMA WithoutType ==
  ASSUME NEW S, NEW s \in Seq(S), NEW i \in 1 .. Len(s)
  PROVE  Without(s, i) \in Seq(S)
<1>1. Len(s) \in Nat /\ Len(s) >= 1 /\ Len(s) - 1 \in Nat
  BY LenProperties
<1>2. \A k \in 1 .. Len(s) - 1 : (IF k < i THEN s[k] ELSE s[k + 1]) \in S
  BY <1>1, ElementOfSeq
<1>. QED  BY <1>1, <1>2, IsASeq DEF Without

\* A hook put back behind the others leaves a queue.
LEMMA RotatedType ==
  ASSUME NEW S, NEW s \in Seq(S), NEW t \in Rotated(s)
  PROVE  t \in Seq(S)
<1>1. CASE t = s
  BY <1>1
<1>2. CASE 1 \in DOMAIN s /\ t = Append(Tail(s), Head(s))
  <2>1. s # <<>>
    BY <1>2
  <2>2. Tail(s) \in Seq(S) /\ Head(s) \in S
    BY <2>1, HeadTailProperties
  <2>. QED  BY <1>2, <2>2, AppendProperties
<1>. QED  BY <1>1, <1>2 DEF Rotated

\* The jobs of both queues are jobs.
LEMMA BothQueues ==
  ASSUME QueuesOK
  PROVE  autonomous \o hooks \in Seq(WorkerJobs)
<1>1. hooks \in Seq(WorkerJobs)
  <2>1. \A k \in 1 .. Len(hooks) : hooks[k] \in WorkerJobs
    BY ElementOfSeq DEF QueuesOK, Hooks
  <2>2. hooks = [k \in 1 .. Len(hooks) |-> hooks[k]] /\ Len(hooks) \in Nat
    BY LenProperties DEF QueuesOK
  <2>3. [k \in 1 .. Len(hooks) |-> hooks[k]] \in Seq(WorkerJobs)
    BY <2>1, <2>2, IsASeq
  <2>. QED  BY <2>2, <2>3
<1>. QED  BY <1>1, ConcatProperties DEF QueuesOK

\* The ages stay numbers.
LEMMA AgeType ==
  ASSUME QueuesOK, NEW s, Age(s)
  PROVE  waited' \in [WorkerJobs -> Nat]
BY DEF QueuesOK, Age

-----------------------------------------------------------------------------
\* The worker's state without its queues.
Rest == <<inbox, writes, phase, inner, job, task, active, ownerTask, requested, resume, stopReq, stopped>>

\* A job is queued by a timer, a request or a commit.
LEMMA EnqueueStep ==
  ASSUME WorkerInv, NEW j \in WorkerJobs, Enqueue(j)
  PROVE  WorkerInv'
<1>1. QueuesOK /\ StateOK /\ WorkerRecord /\ WaitingIsAsked
  BY TypeSplit DEF WorkerInv
<1>2. /\ UNCHANGED Rest /\ waited' = [waited EXCEPT ![j] = 0]
      /\ \/ autonomous' = Append(autonomous, j) /\ hooks' = hooks
         \/ Kind(j) = "webhook" /\ hooks' = Append(hooks, j) /\ autonomous' = autonomous
  BY DEF Enqueue, Rest, jobVars
<1>3. waited' \in [WorkerJobs -> Nat]
  BY <1>1, <1>2 DEF QueuesOK
<1>4. autonomous' \in Seq(WorkerJobs) /\ hooks' \in Seq(Hooks)
  <2>1. autonomous \in Seq(WorkerJobs) /\ hooks \in Seq(Hooks) /\ (Kind(j) = "webhook" => j \in Hooks)
    BY <1>1 DEF QueuesOK, Hooks
  <2>2. CASE autonomous' = Append(autonomous, j) /\ hooks' = hooks
    <3>1. Append(autonomous, j) \in Seq(WorkerJobs)
      BY <2>1, AppendProperties
    <3>. QED  BY <2>1, <2>2, <3>1
  <2>3. CASE Kind(j) = "webhook" /\ hooks' = Append(hooks, j) /\ autonomous' = autonomous
    <3>1. Append(hooks, j) \in Seq(Hooks)
      BY <2>1, <2>3, AppendProperties
    <3>. QED  BY <2>1, <2>3, <3>1
  <2>. QED  BY <1>2, <2>2, <2>3
<1>5. QueuesOK' /\ StateOK' /\ WorkerRecord' /\ WaitingIsAsked'
  BY <1>1, <1>2, <1>3, <1>4 DEF QueuesOK, StateOK, WorkerRecord, WaitingIsAsked, Rest
<1>. QED  BY <1>5, TypeSplitNext DEF WorkerInv

\* The queues stand still.
LEMMA StillQueues ==
  ASSUME QueuesOK, UNCHANGED jobQueues
  PROVE  QueuesOK'
BY DEF QueuesOK, jobQueues

\* An owner message arrives.
LEMMA MessageStep ==
  ASSUME WorkerInv, OwnerMessageArrives
  PROVE  WorkerInv'
<1>1. QueuesOK /\ StateOK /\ WorkerRecord /\ WaitingIsAsked
  BY TypeSplit DEF WorkerInv
<1>2. /\ inbox' = inbox + 1 /\ writes' = writes + 1 /\ inbox < MaxInbox /\ writes < MaxWrites
      /\ UNCHANGED jobQueues /\ UNCHANGED <<phase, inner, job, active, ownerTask, resume, stopped>>
      /\ \/ /\ requested' = (requested \/ ((active = "job" /\ ~TaskDone) /\ Yields(job)))
            /\ UNCHANGED <<task, stopReq>>
         \/ task' = "cancelling" /\ stopReq' = TRUE /\ UNCHANGED requested
  BY DEF OwnerMessageArrives, Arrives
<1>3. inbox' \in 0 .. MaxInbox /\ writes' \in 0 .. MaxWrites
  BY <1>1, <1>2, WorkerBounds DEF StateOK
<1>4. requested' \in BOOLEAN /\ stopReq' \in BOOLEAN
  BY <1>1, <1>2 DEF StateOK
<1>5. StateOK' /\ WorkerRecord'
  BY <1>1, <1>2, <1>3, <1>4 DEF StateOK, WorkerRecord
<1>6. WaitingIsAsked'
  BY <1>1, <1>2 DEF WaitingIsAsked, WorkerRecord, TaskDone
<1>. QED  BY <1>1, <1>2, <1>5, <1>6, StillQueues, TypeSplitNext DEF WorkerInv

\* /stop.
LEMMA StopStep ==
  ASSUME WorkerInv, StopArrives
  PROVE  WorkerInv'
<1>1. QueuesOK /\ StateOK /\ WorkerRecord /\ WaitingIsAsked
  BY TypeSplit DEF WorkerInv
<1>2. /\ inbox' = inbox + 1 /\ writes' = writes + 1 /\ inbox < MaxInbox /\ writes < MaxWrites
      /\ UNCHANGED jobQueues /\ UNCHANGED <<phase, inner, job, active, requested, resume>>
      /\ stopped' = (stopped \/ TaskAlive) /\ (stopReq' = TRUE \/ stopReq' = stopReq)
      /\ task' \in {task, "cancelling", "cancelled"} /\ ownerTask' \in {"cancelling", ownerTask}
      /\ ~ActiveAlive => UNCHANGED <<task, ownerTask>>
      /\ ActiveAlive => task' = AfterCancel /\ (active # "owner" => ownerTask' = ownerTask)
  BY DEF StopArrives, Arrives, AfterCancel
<1>3. inbox' \in 0 .. MaxInbox /\ writes' \in 0 .. MaxWrites
  BY <1>1, <1>2, WorkerBounds DEF StateOK
<1>4. stopped' \in BOOLEAN /\ stopReq' \in BOOLEAN
  BY <1>1, <1>2 DEF StateOK
<1>5. StateOK'
  BY <1>1, <1>2, <1>3, <1>4 DEF StateOK
<1>6. ownerTask' # "none" => ownerTask # "none"
  BY <1>2 DEF ActiveAlive, StopArrives
<1>7. WorkerRecord' /\ WaitingIsAsked'
  BY <1>1, <1>2, <1>6 DEF WaitingIsAsked, WorkerRecord, TaskDone, ActiveAlive, AfterCancel
<1>. QED  BY <1>1, <1>2, <1>5, <1>7, StillQueues, TypeSplitNext DEF WorkerInv

\* A job is started or dropped: the rest of the state.
LEMMA TakenStep ==
  ASSUME StateOK, WorkerRecord, phase \in {"choose", "asleep"}, NEW j \in WorkerJobs, StartJob(j) \/ DropJob(j),
         inbox = 0
  PROVE  StateOK' /\ WorkerRecord' /\ WaitingIsAsked'
<1>1. CASE StartJob(j)
  <2>1. /\ job' = j /\ task' = "run" /\ active' = "job"
        /\ requested' = FALSE /\ resume' = FALSE /\ stopReq' = FALSE /\ stopped' = FALSE
        /\ phase' = (IF Yields(j) THEN "watch" ELSE "plain")
        /\ UNCHANGED <<inbox, inner, ownerTask, writes>>
    BY <1>1 DEF StartJob
  <2>2. requested' \in BOOLEAN /\ resume' \in BOOLEAN /\ stopReq' \in BOOLEAN /\ stopped' \in BOOLEAN
    BY <2>1
  <2>3. StateOK'
    BY <2>1, <2>2 DEF StateOK
  <2>. QED  BY <2>1, <2>3 DEF WorkerRecord, WaitingIsAsked
<1>2. CASE DropJob(j)
  <2>1. /\ phase' = "choose"
        /\ UNCHANGED <<inbox, inner, job, task, requested, resume, stopped, active, ownerTask, stopReq, writes>>
    BY <1>2 DEF DropJob, jobVars
  <2>2. requested' \in BOOLEAN /\ resume' \in BOOLEAN /\ stopReq' \in BOOLEAN /\ stopped' \in BOOLEAN
    BY <2>1 DEF StateOK
  <2>. QED  BY <2>1, <2>2 DEF StateOK, WorkerRecord, WaitingIsAsked
<1>. QED  BY <1>1, <1>2

\* The worker takes a job.
LEMMA ChooseJobStep ==
  ASSUME WorkerInv, NEW i \in Place, ChooseJob(i)
  PROVE  WorkerInv'
<1>. DEFINE all == autonomous \o hooks
<1>1. QueuesOK /\ StateOK /\ WorkerRecord
  BY TypeSplit DEF WorkerInv
<1>2. all \in Seq(WorkerJobs)
  BY <1>1, BothQueues
<1>3. /\ phase = "choose" /\ inbox = 0 /\ i \in 1 .. Len(all)
      /\ autonomous' = Without(all, i) /\ hooks' = <<>> /\ Age(Without(all, i))
      /\ StartJob(all[i]) \/ DropJob(all[i])
  BY DEF ChooseJob
<1>. HIDE DEF all
<1>4. all[i] \in WorkerJobs /\ Without(all, i) \in Seq(WorkerJobs)
  BY <1>2, <1>3, WithoutType, ElementOfSeq
<1>5. waited' \in [WorkerJobs -> Nat]
  BY <1>1, <1>3, AgeType
<1>6. <<>> \in Seq(Hooks)
  BY EmptySeq
<1>7. QueuesOK'
  BY <1>3, <1>4, <1>5, <1>6 DEF QueuesOK
<1>8. StateOK' /\ WorkerRecord' /\ WaitingIsAsked'
  BY <1>1, <1>3, <1>4, TakenStep
<1>. QED  BY <1>7, <1>8, TypeSplitNext DEF WorkerInv

\* The worker wakes for a job.
LEMMA WokenByJobStep ==
  ASSUME WorkerInv, NEW i \in Place, WokenByJob(i)
  PROVE  WorkerInv'
<1>1. QueuesOK /\ StateOK /\ WorkerRecord
  BY TypeSplit DEF WorkerInv
<1>2. /\ phase = "asleep" /\ inbox = 0 /\ i \in 1 .. Len(autonomous)
      /\ autonomous' = Without(autonomous, i) /\ hooks' \in Rotated(hooks) /\ Age(Without(autonomous, i))
      /\ StartJob(autonomous[i]) \/ DropJob(autonomous[i])
  BY DEF WokenByJob
<1>3. autonomous[i] \in WorkerJobs /\ Without(autonomous, i) \in Seq(WorkerJobs)
  BY <1>1, <1>2, WithoutType, ElementOfSeq DEF QueuesOK
<1>4. waited' \in [WorkerJobs -> Nat] /\ hooks' \in Seq(Hooks)
  BY <1>1, <1>2, AgeType, RotatedType DEF QueuesOK
<1>5. QueuesOK'
  BY <1>2, <1>3, <1>4 DEF QueuesOK
<1>6. StateOK' /\ WorkerRecord' /\ WaitingIsAsked'
  BY <1>1, <1>2, <1>3, TakenStep
<1>. QED  BY <1>5, <1>6, TypeSplitNext DEF WorkerInv

\* The worker wakes for a webhook.
LEMMA WokenByHookStep ==
  ASSUME WorkerInv, WokenByHook
  PROVE  WorkerInv'
<1>1. QueuesOK /\ StateOK /\ WorkerRecord
  BY TypeSplit DEF WorkerInv
<1>2. /\ phase = "asleep" /\ inbox = 0 /\ hooks # <<>>
      /\ hooks' = Tail(hooks) /\ UNCHANGED <<autonomous, waited>>
      /\ StartJob(Head(hooks)) \/ DropJob(Head(hooks))
  BY DEF WokenByHook
<1>3. Head(hooks) \in WorkerJobs /\ Tail(hooks) \in Seq(Hooks)
  BY <1>1, <1>2, HeadTailProperties DEF QueuesOK, Hooks
<1>4. QueuesOK'
  BY <1>1, <1>2, <1>3 DEF QueuesOK
<1>5. StateOK' /\ WorkerRecord' /\ WaitingIsAsked'
  BY <1>1, <1>2, <1>3, TakenStep
<1>. QED  BY <1>4, <1>5, TypeSplitNext DEF WorkerInv

\* A run of the worker goes on after an owner turn or an empty batch.
LEMMA OnwardStep ==
  ASSUME StateOK, WorkerRecord, NEW a \in {"none", "job", "owner"}, NEW q \in BOOLEAN, Onward(a, q),
         Gathering \/ ownerTask # "none", ownerTask' = "none",
         UNCHANGED <<job, task, requested, stopped, writes>>
  PROVE  StateOK' /\ WorkerRecord' /\ WaitingIsAsked'
<1>. DEFINE noticed == q \/ task = "cancelled"
<1>1. noticed \in BOOLEAN
  OBVIOUS
<1>2. \/ /\ phase # "nested" /\ phase' = "choose" /\ active' = a /\ stopReq' = q
         /\ UNCHANGED <<inbox, inner, resume>>
      \/ /\ phase = "nested" /\ inbox > 0 /\ inner' = "gather" /\ inbox' = inbox - 1
         /\ active' = a /\ stopReq' = q /\ UNCHANGED <<phase, resume>>
      \/ /\ phase = "nested" /\ ~(inbox > 0) /\ phase' = "watch" /\ inner' = "none" /\ active' = "job"
         /\ resume' = TRUE /\ stopReq' = noticed /\ UNCHANGED inbox
  BY DEF Onward, OnwardTo
<1>. HIDE DEF noticed
<1>3. inbox' \in 0 .. MaxInbox
  BY <1>2, WorkerBounds DEF StateOK
<1>4. stopReq' \in BOOLEAN /\ resume' \in BOOLEAN /\ requested' \in BOOLEAN /\ stopped' \in BOOLEAN
  BY <1>1, <1>2 DEF StateOK
<1>5. StateOK'
  BY <1>2, <1>3, <1>4 DEF StateOK
<1>6. WorkerRecord' /\ WaitingIsAsked'
  BY <1>2 DEF StateOK, WorkerRecord, WaitingIsAsked, Gathering
<1>. QED  BY <1>5, <1>6

\* A batch that /stop emptied is dropped.
LEMMA DiscardBatchStep ==
  ASSUME WorkerInv, DiscardBatch
  PROVE  WorkerInv'
<1>1. QueuesOK /\ StateOK /\ WorkerRecord
  BY TypeSplit DEF WorkerInv
<1>2. /\ Gathering /\ Onward(active, stopReq) /\ UNCHANGED jobQueues
      /\ UNCHANGED <<job, task, requested, stopped, ownerTask, writes>>
  BY DEF DiscardBatch
<1>3. ownerTask = "none" /\ active \in {"none", "job", "owner"} /\ stopReq \in BOOLEAN
  BY <1>1, <1>2 DEF Gathering, WorkerRecord, StateOK
<1>4. StateOK' /\ WorkerRecord' /\ WaitingIsAsked'
  BY <1>1, <1>2, <1>3, OnwardStep
<1>. QED  BY <1>1, <1>2, <1>4, StillQueues, TypeSplitNext DEF WorkerInv

\* The owner's turn ends, in the outer or in the nested run.
LEMMA OwnerEndsStep ==
  ASSUME WorkerInv, OwnerEnds
  PROVE  WorkerInv'
<1>1. QueuesOK /\ StateOK /\ WorkerRecord /\ WaitingIsAsked
  BY TypeSplit DEF WorkerInv
<1>2. /\ ownerTask # "none" /\ ownerTask' = "none" /\ UNCHANGED jobQueues
      /\ UNCHANGED <<job, task, requested, stopped, writes>>
      /\ \/ phase' = "dead" /\ UNCHANGED <<inbox, inner, active, stopReq, resume>>
         \/ Onward("none", FALSE)
  BY DEF OwnerEnds
<1>. SUFFICES StateOK' /\ WorkerRecord' /\ WaitingIsAsked'
  BY <1>1, <1>2, StillQueues, TypeSplitNext DEF WorkerInv
<1>3. CASE phase' = "dead" /\ UNCHANGED <<inbox, inner, active, stopReq, resume>>
  BY <1>1, <1>2, <1>3 DEF StateOK, WorkerRecord, WaitingIsAsked
<1>4. CASE Onward("none", FALSE)
  BY <1>1, <1>2, <1>4, OnwardStep
<1>. QED  BY <1>2, <1>3, <1>4

\* A waiting message is taken, into the batch that is gathered or a new one.
LEMMA MessageTaken ==
  ASSUME StateOK, WorkerRecord, WaitingIsAsked, inbox > 0, inbox' = inbox - 1,
         UNCHANGED <<inner, job, task, requested, resume, stopped, active, ownerTask, stopReq, writes>>,
         UNCHANGED phase \/ (phase \in {"choose", "asleep"} /\ phase' = "gather")
  PROVE  StateOK' /\ WorkerRecord' /\ WaitingIsAsked'
<1>1. inbox' \in 0 .. MaxInbox
  BY WorkerBounds DEF StateOK
<1>. QED  BY <1>1 DEF StateOK, WorkerRecord, WaitingIsAsked

\* The worker gathers owner messages.
LEMMA TakingSteps ==
  ASSUME WorkerInv, TakeOwner \/ GatherMore \/ OwnerAbsorbs \/ WokenByMessage
  PROVE  WorkerInv'
<1>1. QueuesOK /\ StateOK /\ WorkerRecord /\ WaitingIsAsked
  BY TypeSplit DEF WorkerInv
<1>2. StateOK' /\ WorkerRecord' /\ WaitingIsAsked'
  BY <1>1, MessageTaken DEF TakeOwner, GatherMore, OwnerAbsorbs, WokenByMessage, jobVars
<1>3. QueuesOK'
  <2>1. CASE WokenByMessage
    <3>1. autonomous' \in Rotated(autonomous) /\ hooks' \in Rotated(hooks) /\ waited' = waited
      BY <2>1 DEF WokenByMessage
    <3>2. autonomous' \in Seq(WorkerJobs) /\ hooks' \in Seq(Hooks)
      BY <1>1, <3>1, RotatedType DEF QueuesOK
    <3>. QED  BY <1>1, <3>1, <3>2 DEF QueuesOK
  <2>2. CASE UNCHANGED jobQueues
    BY <1>1, <2>2, StillQueues
  <2>. QED  BY <2>1, <2>2 DEF TakeOwner, GatherMore, OwnerAbsorbs
<1>. QED  BY <1>2, <1>3, TypeSplitNext DEF WorkerInv

\* A turn is asked to yield, yields or resumes.
LEMMA TurnSteps ==
  ASSUME WorkerInv, FallAsleep \/ SealBatch \/ TaskEnds \/ Park \/ Resumes
  PROVE  WorkerInv'
<1>1. QueuesOK /\ StateOK /\ WorkerRecord /\ WaitingIsAsked
  BY TypeSplit DEF WorkerInv
<1>2. UNCHANGED jobQueues
  BY DEF FallAsleep, SealBatch, TaskEnds, Park, Resumes, KeepWorker
<1>. SUFFICES StateOK' /\ WorkerRecord' /\ WaitingIsAsked'
  BY <1>1, <1>2, StillQueues, TypeSplitNext DEF WorkerInv
<1>3. CASE FallAsleep
  BY <1>1, <1>3 DEF FallAsleep, jobVars, StateOK, WorkerRecord, WaitingIsAsked
<1>4. CASE SealBatch
  <2>1. stopReq' = FALSE /\ requested' = requested /\ resume' = resume /\ stopped' = stopped
    BY <1>4 DEF SealBatch, jobVars
  <2>2. stopReq' \in BOOLEAN /\ requested' \in BOOLEAN /\ resume' \in BOOLEAN /\ stopped' \in BOOLEAN
    BY <1>1, <2>1 DEF StateOK
  <2>3. StateOK'
    BY <1>1, <1>4, <2>2 DEF SealBatch, StateOK, jobVars
  <2>. QED  BY <1>1, <1>4, <2>3 DEF SealBatch, jobVars, StateOK, WorkerRecord, WaitingIsAsked, Gathering
<1>5. CASE TaskEnds
  BY <1>1, <1>5 DEF TaskEnds, KeepWorker, StateOK, WorkerRecord, WaitingIsAsked
<1>6. CASE Park
  BY <1>1, <1>6 DEF Park, KeepWorker, StateOK, WorkerRecord, WaitingIsAsked
<1>7. CASE Resumes
  <2>1. resume' \in BOOLEAN
    BY <1>7 DEF Resumes
  <2>. QED  BY <1>1, <1>7, <2>1 DEF Resumes, KeepWorker, StateOK, WorkerRecord, WaitingIsAsked
<1>. QED  BY <1>3, <1>4, <1>5, <1>6, <1>7

\* The worker runs the owner's turn inside a job that yielded.
LEMMA EnterNestedStep ==
  ASSUME WorkerInv, EnterNested
  PROVE  WorkerInv'
<1>1. QueuesOK /\ StateOK /\ WorkerRecord /\ WaitingIsAsked
  BY TypeSplit DEF WorkerInv
<1>2. /\ phase = "watch" /\ requested' = FALSE
      /\ \/ inbox > 0 /\ phase' = "nested" /\ inner' = "gather" /\ inbox' = inbox - 1 /\ UNCHANGED resume
         \/ ~(inbox > 0) /\ resume' = TRUE /\ UNCHANGED <<phase, inner, inbox>>
      /\ UNCHANGED jobQueues /\ UNCHANGED <<job, task, active, ownerTask, stopReq, writes, stopped>>
  BY DEF EnterNested
<1>3. inbox' \in 0 .. MaxInbox
  BY <1>1, <1>2, WorkerBounds DEF StateOK
<1>4. requested' \in BOOLEAN /\ resume' \in BOOLEAN
  BY <1>1, <1>2 DEF StateOK
<1>5. StateOK'
  BY <1>1, <1>2, <1>3, <1>4 DEF StateOK
<1>6. WorkerRecord' /\ WaitingIsAsked'
  BY <1>1, <1>2 DEF StateOK, WorkerRecord, WaitingIsAsked
<1>. QED  BY <1>1, <1>2, <1>5, <1>6, StillQueues, TypeSplitNext DEF WorkerInv

\* A job and its hook end.
LEMMA EndSteps ==
  ASSUME WorkerInv, JobEnds \/ HookSettled
  PROVE  WorkerInv'
<1>1. QueuesOK /\ StateOK /\ WorkerRecord /\ WaitingIsAsked
  BY TypeSplit DEF WorkerInv
<1>2. /\ phase \in {"plain", "watch", "settle"}
      /\ \/ phase' \in {"dead", "settle"} /\ UNCHANGED <<job, task, active, stopReq>>
         \/ phase' = "choose" /\ job' = NoJob /\ task' = "none" /\ active' = "none" /\ stopReq' = FALSE
      /\ UNCHANGED jobQueues /\ UNCHANGED <<inbox, inner, ownerTask, writes>>
      /\ \/ stopped' = FALSE /\ requested' = FALSE /\ resume' = FALSE
         \/ UNCHANGED <<requested, resume, stopped>>
  BY DEF JobEnds, HookSettled
<1>3. stopReq' \in BOOLEAN /\ stopped' \in BOOLEAN /\ requested' \in BOOLEAN /\ resume' \in BOOLEAN
  BY <1>1, <1>2 DEF StateOK
<1>4. StateOK'
  BY <1>1, <1>2, <1>3 DEF StateOK
<1>5. WorkerRecord' /\ WaitingIsAsked'
  BY <1>1, <1>2 DEF StateOK, WorkerRecord, WaitingIsAsked
<1>. QED  BY <1>1, <1>2, <1>4, <1>5, StillQueues, TypeSplitNext DEF WorkerInv

\* At first the worker is idle.
LEMMA WorkerInitInv ==
  ASSUME WorkerInit
  PROVE  WorkerInv
<1>1. QueuesOK
  BY EmptySeq DEF WorkerInit, QueuesOK
<1>2. requested \in BOOLEAN /\ resume \in BOOLEAN /\ stopReq \in BOOLEAN /\ stopped \in BOOLEAN
  BY DEF WorkerInit
<1>3. inbox \in 0 .. MaxInbox /\ writes \in 0 .. MaxWrites
  BY WorkerBounds DEF WorkerInit
<1>4. StateOK
  BY <1>2, <1>3 DEF WorkerInit, StateOK
<1>. QED  BY <1>1, <1>4, TypeSplit DEF WorkerInit, WorkerInv, WorkerRecord, WaitingIsAsked

\* WorkerInv is inductive.
LEMMA WorkerNextInv ==
  ASSUME WorkerInv, WorkerNext
  PROVE  WorkerInv'
BY EnqueueStep, MessageStep, StopStep, TakingSteps, ChooseJobStep, WokenByJobStep, WokenByHookStep,
   TurnSteps, DiscardBatchStep, EnterNestedStep, EndSteps, OwnerEndsStep DEF WorkerNext, WorkerStep

\* Nothing of the worker changes.
LEMMA WorkerStutter ==
  ASSUME WorkerInv, UNCHANGED workerVars
  PROVE  WorkerInv'
<1>1. QueuesOK /\ StateOK /\ WorkerRecord /\ WaitingIsAsked
  BY TypeSplit DEF WorkerInv
<1>2. UNCHANGED jobQueues /\ UNCHANGED Rest
  BY DEF workerVars, jobQueues, Rest
<1>3. StateOK' /\ WorkerRecord' /\ WaitingIsAsked'
  BY <1>1, <1>2 DEF Rest, StateOK, WorkerRecord, WaitingIsAsked
<1>. QED  BY <1>1, <1>2, <1>3, StillQueues, TypeSplitNext DEF WorkerInv

\* WorkerInv holds in every reachable state of the worker.
LEMMA WorkerInductive == WorkerSpec => []WorkerInv
<1>1. WorkerInv /\ [WorkerNext]_workerVars => WorkerInv'
  BY WorkerNextInv, WorkerStutter
<1>. QED  BY <1>1, WorkerInitInv, PTL DEF WorkerSpec

\* The worker's queues, its turns and what they wait for keep their types: an entry that is
\* neither a job nor a hook never reaches a handler (daemon.py).
THEOREM WorkerType == WorkerSpec => []WorkerTypeOK
<1>1. WorkerInv => WorkerTypeOK
  BY DEF WorkerInv
<1>. QED  BY <1>1, WorkerInductive, PTL

\* While an owner message waits and a background turn runs or is paused, that turn has been
\* asked to pause: no message is overlooked (daemon.py).
THEOREM WaitingAsks == WorkerSpec => []WaitingIsAsked
<1>1. WorkerInv => WaitingIsAsked
  BY DEF WorkerInv
<1>. QED  BY <1>1, WorkerInductive, PTL

\* An exec that failed or may have failed; a step for which nothing was done or said.
FailedExec(s) == s.kind = "exec" /\ s.state \in {"failed", "ambiguous"}
Untouched(s)  == s.done = 0 /\ s.out = "none" /\ s.state \in {"queued", "failed"}

\* What is behind such a step has not begun.
HoldsBack(s) == ~Settled(s) \/ FailedExec(s)

\* What the state of a row says of its bubbles and of what was carried out.
ExecOK(s) == s.out = "none" /\ s.state # "waiting_delivery" /\ (s.state = "queued" => s.done = 0)

\* Bubbles may be there long before the reply, from a turn that was cut off.
Earned(s) ==
  /\ s.state = "waiting_delivery" => s.out # "none"
  /\ s.state = "succeeded" => s.out \in {"none", "sent"}

MessageOK(s) == s.done = 0 /\ Earned(s)

ClipRowOK(s) ==
  /\ s.state \in {"queued", "running"} <=> s.status \in BeforeSend
  /\ s.status \in BeforeSend => s.done = 0
  /\ s.state = "queued" => s.status = "none"
  /\ Earned(s)

RowOK(s) ==
  /\ s \in StepRows
  /\ s.kind = "exec" => ExecOK(s)
  /\ s.kind = "message" => MessageOK(s)
  /\ IsClip(s) => ClipRowOK(s)

OneClip(ss) == \A i, k \in DOMAIN ss : IsClip(ss[i]) /\ IsClip(ss[k]) => i = k

InOrder(ss) ==
  \A p, i \in DOMAIN ss : p < i /\ ~IsClip(ss[p]) /\ ~IsClip(ss[i]) /\ HoldsBack(ss[p]) => Untouched(ss[i])

\* The rows of a run.
RowsOK(ss) == ss \in Seq(StepRows) /\ (\A i \in DOMAIN ss : RowOK(ss[i])) /\ OneClip(ss) /\ InOrder(ss)

\* Behind a failed exec every step is settled.
CutThrough(ss) ==
  \A p, i \in DOMAIN ss : p < i /\ FailedExec(ss[p]) /\ ~IsClip(ss[i]) => Settled(ss[i])

AllSucceeded(ss)  == \A i \in DOMAIN ss : ss[i].state = "succeeded"
HasFailed(ss)     == \E p \in DOMAIN ss : FailedExec(ss[p])
FromFirst(ss, at) == \A i \in Due(ss) : at <= i

RunStates == {"none", "queued", "running", "waiting_delivery"} \cup Terminal

\* A run's record fits its steps.
RunFits(ss, rec) ==
  /\ rec \in [state : RunStates, at : Nat]
  /\ HasClip(ss) => CutThrough(ss)
  /\ ~HasClip(ss) /\ HasFailed(ss) => rec.state \in Terminal
  /\ rec.state = "succeeded" => AllSucceeded(ss)
  /\ rec.state = "none" => DOMAIN ss = {}
  /\ rec.state \notin Terminal => FromFirst(ss, rec.at)

ClipStages == {"none", "new", "record", "loop", "turn", "deliver", "close", "stopped"}

\* The task of the recording and the row of the clip.
StageFits(row, c) ==
  /\ c = "new" => row.state = "queued" \/ Settled(row)
  /\ c = "deliver" => row.out # "none"
  /\ row.status = "recording" => c \in {"record", "stopped"}
  /\ c = "stopped" => row.status = "recording" \/ Settled(row)
  /\ c = "turn" => row.kind = "agent" /\ row.state \in {"running", "failed"}

ClipFits(ss, c) ==
  /\ c \in ClipStages
  /\ c # "none" => HasClip(ss)
  /\ HasClip(ss) => StageFits(ss[Clip(ss)], c)

\* A clip that /stop cancelled; lost, if it missed the turn that reviews it.
Recalled(ss, c, lost) ==
  /\ HasClip(ss) /\ (lost \/ ss[Clip(ss)].out = "none")
  /\ (c = "none" /\ Settled(ss[Clip(ss)])) \/ c = "stopped"

\* What holds of each run.
RunOK(r) ==
  /\ RowsOK(steps[r]) /\ RunFits(steps[r], runs[r]) /\ ClipFits(steps[r], clip[r])
  /\ r \in recalled => Recalled(steps[r], clip[r], r \in missed)

Stages == {"idle", "claimed", "go", "turn", "deliver", "exec", "stopped"}

\* The worker's place in its run: the first step due, or the one that it works on.
ActFits(ss, rec) ==
  /\ rec.state # "none" /\ (HasClip(ss) \/ ~HasFailed(ss))
  /\ act.stage \in {"claimed", "go"} => FromFirst(ss, act.at)
  /\ act.stage \in {"turn", "exec", "deliver"} => act.at \in DOMAIN ss
  /\ act.stage = "turn" => ss[act.at].kind = "message" /\ ss[act.at].state = "running"
  /\ act.stage = "exec" => ss[act.at].kind = "exec" /\ ss[act.at].state = "running"
  /\ act.stage = "deliver" => ss[act.at].kind = "message" /\ ss[act.at].state = "waiting_delivery"

\* A step other than a clip runs only under the worker.
UnderWorker(r) ==
  \A i \in DOMAIN steps[r] : ~IsClip(steps[r][i]) /\ steps[r][i].state = "running" =>
    act.run = r /\ act.at = i /\ act.stage \in {"turn", "exec", "stopped"}

\* The worker is in a run that goes on, and runs a step only there.
ActOK ==
  /\ act \in [run : 0 .. MaxRuns, at : Nat, stage : Stages]
  /\ act.stage = "idle" => act = Idle
  /\ act.stage # "idle" => act.run \in RunIds /\ ActFits(steps[act.run], runs[act.run])
  /\ \A r \in RunIds : UnderWorker(r)

\* The inductive invariant of the runs.
RunInv ==
  /\ runs = [r \in RunIds |-> runs[r]] /\ steps = [r \in RunIds |-> steps[r]]
  /\ clip = [r \in RunIds |-> clip[r]]
  /\ recalled \subseteq RunIds /\ missed \subseteq RunIds /\ halts \in 0 .. MaxHalts /\ boots \in 0 .. MaxBoots
  /\ \A r \in RunIds : RunOK(r)
  /\ ActOK

\* What is before step i is settled, and no exec there has failed.
IsFirst(ss, i) == \A p \in DOMAIN ss : p < i /\ ~IsClip(ss[p]) => Settled(ss[p]) /\ ~FailedExec(ss[p])

\* The turn's step has begun and its row waits for the reply, or the requester has given it
\* up and the row has failed; nothing before a message holds it back.
VoiceFits(ss, c, i) ==
  /\ i \in DOMAIN ss /\ ss[i].kind \in {"message", "agent"} /\ ss[i].state \in {"running", "failed"}
  /\ IsClip(ss[i]) => c \in {"turn", "none"}
  /\ ~IsClip(ss[i]) => IsFirst(ss, i)

\* A review that goes on was not cancelled, or /stop missed it.
VoiceOK ==
  /\ voice \in [run : 0 .. MaxRuns, at : Nat]
  /\ voice # NoVoice =>
       /\ voice.run \in RunIds /\ VoiceFits(steps[voice.run], clip[voice.run], voice.at)
       /\ IsClip(steps[voice.run][voice.at]) => voice.run \notin recalled \ missed

-----------------------------------------------------------------------------
(***************************************************************************)
(* The least of a set; sequences made row by row.                          *)
(***************************************************************************)

\* The least number of a set is there.
LEMMA LeastIsFirst ==
  ASSUME NEW S, S \subseteq Nat, S # {}
  PROVE  Least(S) \in S /\ \A k \in S : Least(S) <= k
<1>1. PICK i \in S : \A k \in S : ~ (<<k, i>> \in OpToRel(<, Nat))
  BY NatLessThanWellFounded, WFMin
<1>2. \A k \in S : ~(k < i)
  BY <1>1 DEF OpToRel
<1>3. \E x \in S : \A k \in S : x <= k
  BY <1>2
<1>. QED  BY <1>3 DEF Least

\* A function on 1 .. n with rows as values is a sequence of rows.
LEMMA RowWise ==
  ASSUME NEW S, NEW n \in Nat, NEW tt, tt = [i \in 1 .. n |-> tt[i]], \A i \in 1 .. n : tt[i] \in S
  PROVE  tt \in Seq(S) /\ DOMAIN tt = 1 .. n /\ Len(tt) = n
<1>1. [i \in 1 .. n |-> tt[i]] \in Seq(S)
  BY IsASeq
<1>2. DOMAIN tt = 1 .. n
  OBVIOUS
<1>. QED  BY <1>1, <1>2, LenProperties

\* A sequence of rows.
LEMMA RowsDomain ==
  ASSUME NEW ss \in Seq(StepRows)
  PROVE  /\ Len(ss) \in Nat /\ DOMAIN ss = 1 .. Len(ss) /\ \A i \in DOMAIN ss : ss[i] \in StepRows /\ i \in Nat
         /\ ss = [i \in 1 .. Len(ss) |-> ss[i]]
BY LenProperties, ElementOfSeq

\* The clip of a run is its only one.
LEMMA ClipIsIt ==
  ASSUME NEW ss, OneClip(ss), HasClip(ss)
  PROVE  /\ Clip(ss) \in DOMAIN ss /\ IsClip(ss[Clip(ss)])
         /\ \A i \in DOMAIN ss : IsClip(ss[i]) => i = Clip(ss)
BY DEF OneClip, HasClip, Clip

-----------------------------------------------------------------------------
(***************************************************************************)
(* One field of a row.                                                     *)
(***************************************************************************)
RowStates   == {"queued", "running", "waiting_delivery"} \cup Terminal
RowStatuses == BeforeSend \cup {"enqueued", "reviewed"} \cup Terminal
Outs        == {"none", "pending", "sent", "failed", "ambiguous"}

\* The fields of a row.
LEMMA RowFields ==
  ASSUME NEW s \in StepRows
  PROVE  /\ s.kind \in StepKinds /\ s.state \in RowStates /\ s.status \in RowStatuses /\ s.out \in Outs
         /\ s.error \in BOOLEAN /\ s.done \in 0 .. 1
BY DEF StepRows, RowStates, RowStatuses, Outs

\* One field of a row is written.
LEMMA SetState ==
  ASSUME NEW s \in StepRows, NEW v \in RowStates, NEW t, t = [s EXCEPT !.state = v]
  PROVE  /\ t \in StepRows /\ t.state = v /\ t.kind = s.kind /\ t.status = s.status /\ t.out = s.out
         /\ t.error = s.error /\ t.done = s.done
BY DEF StepRows, RowStates

\* One field of a row is written.
LEMMA SetStatus ==
  ASSUME NEW s \in StepRows, NEW v \in RowStatuses, NEW t, t = [s EXCEPT !.status = v]
  PROVE  /\ t \in StepRows /\ t.status = v /\ t.kind = s.kind /\ t.state = s.state /\ t.out = s.out
         /\ t.error = s.error /\ t.done = s.done
BY DEF StepRows, RowStatuses

\* One field of a row is written.
LEMMA SetOut ==
  ASSUME NEW s \in StepRows, NEW v \in Outs, NEW t, t = [s EXCEPT !.out = v]
  PROVE  /\ t \in StepRows /\ t.out = v /\ t.kind = s.kind /\ t.state = s.state /\ t.status = s.status
         /\ t.error = s.error /\ t.done = s.done
BY DEF StepRows, Outs

\* One field of a row is written.
LEMMA SetDone ==
  ASSUME NEW s \in StepRows, NEW v \in 0 .. 1, NEW t, t = [s EXCEPT !.done = v]
  PROVE  /\ t \in StepRows /\ t.done = v /\ t.kind = s.kind /\ t.state = s.state /\ t.status = s.status
         /\ t.error = s.error /\ t.out = s.out
BY DEF StepRows

\* One field of a row is written.
LEMMA SetError ==
  ASSUME NEW s \in StepRows, NEW t, t = [s EXCEPT !.error = TRUE]
  PROVE  /\ t \in StepRows /\ t.kind = s.kind /\ t.state = s.state /\ t.status = s.status
         /\ t.done = s.done /\ t.out = s.out
BY DEF StepRows

\* Two fields, as most transactions write them.
Both(s, v, w) == [s EXCEPT !.state = v, !.status = w]

\* State and status of a row are written.
LEMMA SetBoth ==
  ASSUME NEW s \in StepRows, NEW v \in RowStates, NEW w \in RowStatuses, NEW t, t = Both(s, v, w)
  PROVE  /\ t \in StepRows /\ t.state = v /\ t.status = w /\ t.kind = s.kind /\ t.out = s.out
         /\ t.error = s.error /\ t.done = s.done
<1>. DEFINE u == [s EXCEPT !.state = v]
<1>1. /\ u \in StepRows /\ u.state = v /\ u.kind = s.kind /\ u.status = s.status /\ u.out = s.out
      /\ u.error = s.error /\ u.done = s.done
  BY SetState
<1>2. t = [u EXCEPT !.status = w]
  BY DEF StepRows, Both
<1>. HIDE DEF u
<1>. QED  BY <1>1, <1>2 DEF StepRows, RowStatuses

\* An answer: state, status, bubbles and count.
Answer(s, v, w, o, n) == [s EXCEPT !.state = v, !.status = w, !.out = o, !.done = n]

\* A reply is written into its row.
LEMMA SetAnswer ==
  ASSUME NEW s \in StepRows, NEW v \in RowStates, NEW w \in RowStatuses, NEW o \in Outs, NEW n \in 0 .. 1, NEW t,
         t = Answer(s, v, w, o, n)
  PROVE  /\ t \in StepRows /\ t.state = v /\ t.status = w /\ t.kind = s.kind /\ t.out = o
         /\ t.error = s.error /\ t.done = n
<1>. DEFINE u == [s EXCEPT !.state = v, !.status = w]  x == [u EXCEPT !.out = o]
<1>1. /\ u \in StepRows /\ u.state = v /\ u.kind = s.kind /\ u.status = w
      /\ u.error = s.error /\ u.done = s.done
  <2>. DEFINE y == [s EXCEPT !.state = v]
  <2>1. /\ y \in StepRows /\ y.state = v /\ y.kind = s.kind /\ y.status = s.status
        /\ y.error = s.error /\ y.done = s.done
    BY SetState
  <2>2. u = [y EXCEPT !.status = w]
    BY DEF StepRows
  <2>. HIDE DEF y, u
  <2>. QED  BY <2>1, <2>2 DEF StepRows, RowStatuses
<1>2. t = [x EXCEPT !.done = n]
  BY DEF StepRows, Answer
<1>. HIDE DEF u
<1>3. /\ x \in StepRows /\ x.state = v /\ x.kind = s.kind /\ x.status = w /\ x.out = o
      /\ x.error = s.error
  BY <1>1 DEF StepRows, Outs
<1>. HIDE DEF x
<1>. QED  BY <1>2, <1>3 DEF StepRows

-----------------------------------------------------------------------------
(***************************************************************************)
(* Changes of a run's rows that keep their order.                          *)
(***************************************************************************)
\* Row t replaces row s: it holds back no more than s did, and what was untouched is.
Replaces(t, s) ==
  /\ RowOK(t) /\ t.kind = s.kind
  /\ ~IsClip(s) => (HoldsBack(t) => HoldsBack(s)) /\ (Untouched(s) => Untouched(t))

Follows(tt, ss) ==
  /\ tt \in Seq(StepRows) /\ DOMAIN tt = DOMAIN ss
  /\ \A i \in DOMAIN ss : Replaces(tt[i], ss[i])

\* Rows of the same kinds have the same clip.
LEMMA SameClips ==
  ASSUME NEW ss, NEW tt, OneClip(ss), DOMAIN tt = DOMAIN ss, \A i \in DOMAIN ss : tt[i].kind = ss[i].kind
  PROVE  /\ OneClip(tt) /\ (HasClip(tt) <=> HasClip(ss)) /\ (HasClip(ss) => Clip(tt) = Clip(ss))
         /\ \A i \in DOMAIN ss : IsClip(tt[i]) <=> IsClip(ss[i])
<1>1. OneClip(tt) /\ (HasClip(tt) <=> HasClip(ss)) /\ \A i \in DOMAIN ss : IsClip(tt[i]) <=> IsClip(ss[i])
  BY DEF OneClip, HasClip, IsClip
<1>. QED  BY <1>1, ClipIsIt

\* Rows that follow are in order as before.
LEMMA FollowsOK ==
  ASSUME NEW ss, NEW tt, RowsOK(ss), Follows(tt, ss)
  PROVE  /\ RowsOK(tt) /\ (HasClip(tt) <=> HasClip(ss)) /\ (HasClip(ss) => Clip(tt) = Clip(ss))
         /\ \A i \in DOMAIN ss : IsClip(tt[i]) <=> IsClip(ss[i])
<1>1. /\ OneClip(tt) /\ (HasClip(tt) <=> HasClip(ss)) /\ (HasClip(ss) => Clip(tt) = Clip(ss))
      /\ \A i \in DOMAIN ss : IsClip(tt[i]) <=> IsClip(ss[i])
  BY SameClips DEF RowsOK, Follows, Replaces
<1>2. InOrder(tt)
  BY <1>1 DEF RowsOK, Follows, Replaces, InOrder
<1>. QED  BY <1>1, <1>2 DEF RowsOK, Follows, Replaces

\* Rows follow themselves.
LEMMA FollowsSelf ==
  ASSUME NEW ss, RowsOK(ss)
  PROVE  Follows(ss, ss)
BY DEF RowsOK, Follows, Replaces

\* Rows that follow rows that follow.
LEMMA FollowsOn ==
  ASSUME NEW ss, NEW tt, NEW uu, Follows(tt, ss), Follows(uu, tt)
  PROVE  Follows(uu, ss)
BY DEF Follows, Replaces, IsClip

\* One row is replaced.
LEMMA ReplaceOne ==
  ASSUME NEW ss, RowsOK(ss), NEW i \in DOMAIN ss, NEW t, Replaces(t, ss[i]), NEW tt, tt = [ss EXCEPT ![i] = t]
  PROVE  /\ Follows(tt, ss) /\ tt[i] = t /\ \A k \in DOMAIN ss : k # i => tt[k] = ss[k]
<1>1. ss \in Seq(StepRows) /\ t \in StepRows /\ \A k \in DOMAIN ss : Replaces(ss[k], ss[k])
  BY DEF RowsOK, Replaces, RowOK
<1>2. Len(ss) \in Nat /\ DOMAIN ss = 1 .. Len(ss) /\ ss = [k \in 1 .. Len(ss) |-> ss[k]]
  BY <1>1, RowsDomain
<1>3. DOMAIN tt = DOMAIN ss /\ tt[i] = t /\ \A k \in DOMAIN ss : k # i => tt[k] = ss[k]
  OBVIOUS
<1>5. tt \in Seq(StepRows)
  BY <1>1, ExceptSeq
<1>. QED  BY <1>1, <1>3, <1>5 DEF Follows

\* The cut settles what is behind a failed exec and nothing else.
LEMMA CutRows ==
  ASSUME NEW ss, RowsOK(ss)
  PROVE  /\ Follows(Cut(ss), ss) /\ CutThrough(Cut(ss))
         /\ \A i \in DOMAIN ss : \/ Cut(ss)[i] = ss[i]
                                 \/ ~IsClip(ss[i]) /\ ss[i].state = "queued" /\ Cut(ss)[i].state = "failed"
<1>. DEFINE Behind(i) == \E p \in 1 .. i - 1 : ss[p].kind = "exec" /\ ss[p].state \in {"failed", "ambiguous"}
            tt == Cut(ss)
<1>1. /\ Len(ss) \in Nat /\ DOMAIN ss = 1 .. Len(ss) /\ \A i \in DOMAIN ss : RowOK(ss[i]) /\ ss[i] \in StepRows
      /\ InOrder(ss)
  BY RowsDomain DEF RowsOK
<1>2. tt = [i \in DOMAIN ss |-> IF ~IsClip(ss[i]) /\ ss[i].state = "queued" /\ Behind(i)
                                THEN [ss[i] EXCEPT !.state = "failed"] ELSE ss[i]]
  BY DEF Cut
<1>. HIDE DEF tt
<1>3. \A i \in DOMAIN ss :
        \/ tt[i] = ss[i] /\ ~(~IsClip(ss[i]) /\ ss[i].state = "queued" /\ Behind(i))
        \/ /\ ~IsClip(ss[i]) /\ ss[i].state = "queued" /\ Behind(i)
           /\ tt[i] = [ss[i] EXCEPT !.state = "failed"]
  BY <1>2
<1>4. ASSUME NEW i \in DOMAIN ss
      PROVE  Replaces(tt[i], ss[i]) /\ (tt[i] = ss[i] \/ tt[i].state = "failed")
  <2>1. CASE tt[i] = ss[i]
    BY <1>1, <2>1 DEF Replaces
  <2>2. CASE ~IsClip(ss[i]) /\ ss[i].state = "queued" /\ tt[i] = [ss[i] EXCEPT !.state = "failed"]
    <3>1. /\ tt[i] \in StepRows /\ tt[i].state = "failed" /\ tt[i].kind = ss[i].kind /\ tt[i].out = ss[i].out
          /\ tt[i].done = ss[i].done
      BY <1>1, <2>2, SetState DEF RowStates, Terminal
    <3>2. RowOK(tt[i])
      BY <1>1, <2>2, <3>1 DEF RowOK, ExecOK, MessageOK, Earned, IsClip
    <3>. QED  BY <2>2, <3>1, <3>2 DEF Replaces, HoldsBack, Settled, Untouched, Terminal
  <2>. QED  BY <1>3, <2>1, <2>2
<1>5. tt = [i \in 1 .. Len(ss) |-> tt[i]] /\ \A i \in 1 .. Len(ss) : tt[i] \in StepRows
  BY <1>1, <1>2, <1>4 DEF Replaces, RowOK
<1>6. tt \in Seq(StepRows) /\ DOMAIN tt = DOMAIN ss
  BY <1>1, <1>5, RowWise
<1>7. CutThrough(tt)
  <2>1. SUFFICES ASSUME NEW p \in DOMAIN ss, NEW i \in DOMAIN ss, p < i, FailedExec(tt[p]), ~IsClip(tt[i])
                 PROVE  Settled(tt[i])
    BY <1>6 DEF CutThrough
  <2>2. tt[p].kind = ss[p].kind /\ tt[i].kind = ss[i].kind
    BY <1>4 DEF Replaces
  <2>3. \E q \in DOMAIN ss : q <= p /\ FailedExec(ss[q])
    <3>1. CASE tt[p] = ss[p]
      BY <1>1, <2>1, <3>1
    <3>2. CASE Behind(p)
      BY <1>1, <3>2 DEF FailedExec
    <3>. QED  BY <1>3, <3>1, <3>2
  <2>4. PICK q \in DOMAIN ss : q <= p /\ FailedExec(ss[q])
    BY <2>3
  <2>5. Behind(i) /\ q < i
    BY <1>1, <2>1, <2>4 DEF FailedExec
  <2>6. Untouched(ss[i])
    BY <1>1, <2>1, <2>2, <2>4, <2>5 DEF InOrder, HoldsBack, IsClip, ClipKinds, FailedExec
  <2>7. CASE ss[i].state = "queued"
    <3>. HIDE DEF Behind
    <3>1. ~IsClip(ss[i])
      BY <2>1, <2>2 DEF IsClip
    <3>2. tt[i] = [ss[i] EXCEPT !.state = "failed"]
      BY <1>3, <2>5, <2>7, <3>1
    <3>3. tt[i].state = "failed"
      BY <1>1, <3>2, SetState DEF RowStates, Terminal
    <3>. QED  BY <3>3 DEF Settled, Terminal
  <2>8. CASE ss[i].state = "failed"
    BY <1>3, <2>8 DEF Settled, Terminal
  <2>. QED  BY <2>6, <2>7, <2>8 DEF Untouched
<1>. QED  BY <1>3, <1>4, <1>6, <1>7 DEF Follows, tt

\* A step ends: a clip in any way, another step if it was being carried out.
LEMMA EndedRows ==
  ASSUME NEW ss, RowsOK(ss), NEW i \in DOMAIN ss, NEW st \in Terminal,
         IsClip(ss[i]) \/ ss[i].state \in {"running", "waiting_delivery"},
         st = "succeeded" => ss[i].out \in {"none", "sent"}
  PROVE  /\ Follows(Ended(ss, i, st), ss) /\ Ended(ss, i, st)[i].state = st
         /\ \A k \in DOMAIN ss : k # i => Ended(ss, i, st)[k] = ss[k]
         /\ Ended(ss, i, st)[i].out = ss[i].out /\ Ended(ss, i, st)[i].error = ss[i].error
         /\ IsClip(ss[i]) => Ended(ss, i, st)[i].status = st
<1>. DEFINE w == IF IsClip(ss[i]) THEN st ELSE ss[i].status
            t == Both(ss[i], st, w)
<1>1. RowOK(ss[i]) /\ ss[i] \in StepRows
  BY DEF RowsOK, RowOK
<1>2. st \in RowStates /\ st \in RowStatuses /\ w \in RowStatuses
  BY <1>1, RowFields DEF RowStates, RowStatuses
<1>3. Ended(ss, i, st) = [ss EXCEPT ![i] = t]
  BY DEF Ended, Both
<1>4. (IsClip(ss[i]) => w = st) /\ (~IsClip(ss[i]) => w = ss[i].status)
  OBVIOUS
<1>. HIDE DEF w
<1>5. /\ t \in StepRows /\ t.state = st /\ t.status = w /\ t.kind = ss[i].kind /\ t.out = ss[i].out
      /\ t.error = ss[i].error /\ t.done = ss[i].done
  BY <1>1, <1>2, SetBoth
<1>. HIDE DEF t
<1>6. RowOK(t)
  <2>1. CASE IsClip(ss[i])
    BY <1>4, <1>5, <2>1 DEF RowOK, ClipRowOK, Earned, IsClip, ClipKinds, Terminal, BeforeSend
  <2>2. CASE ~IsClip(ss[i])
    BY <1>1, <1>5, <2>2 DEF RowOK, ExecOK, MessageOK, Earned, IsClip, Terminal
  <2>. QED  BY <2>1, <2>2
<1>7. Replaces(t, ss[i])
  BY <1>5, <1>6 DEF Replaces, HoldsBack, Settled, Untouched, Terminal
<1>8. /\ Follows([ss EXCEPT ![i] = t], ss) /\ [ss EXCEPT ![i] = t][i] = t
      /\ \A k \in DOMAIN ss : k # i => [ss EXCEPT ![i] = t][k] = ss[k]
  BY <1>7, ReplaceOne
<1>. QED  BY <1>3, <1>4, <1>5, <1>8

\* A run is failed: its open steps.
LEMMA FailingRows ==
  ASSUME NEW ss, RowsOK(ss)
  PROVE  /\ Follows(Failing(ss), ss)
         /\ \A i \in DOMAIN ss : \/ Settled(ss[i]) /\ Failing(ss)[i] = ss[i]
                                 \/ /\ ~Settled(ss[i]) /\ Failing(ss)[i].state = "failed"
                                    /\ Failing(ss)[i].out = ss[i].out
                                    /\ IsClip(ss[i]) => Failing(ss)[i].status = "failed"
<1>. DEFINE tt == Failing(ss)
<1>1. Len(ss) \in Nat /\ DOMAIN ss = 1 .. Len(ss) /\ \A i \in DOMAIN ss : RowOK(ss[i]) /\ ss[i] \in StepRows
  BY RowsDomain DEF RowsOK
<1>2. \A i \in DOMAIN ss :
        \/ Settled(ss[i]) /\ tt[i] = ss[i]
        \/ /\ ~Settled(ss[i])
           /\ tt[i] = [ss[i] EXCEPT !.state = "failed",
                                    !.status = IF IsClip(ss[i]) THEN "failed" ELSE ss[i].status]
  BY DEF Failing
<1>3. tt = [i \in DOMAIN ss |-> tt[i]]
  BY DEF Failing
<1>. HIDE DEF tt
<1>4. ASSUME NEW i \in DOMAIN ss
      PROVE  /\ Replaces(tt[i], ss[i])
             /\ \/ Settled(ss[i]) /\ tt[i] = ss[i]
                \/ /\ ~Settled(ss[i]) /\ tt[i].state = "failed" /\ tt[i].out = ss[i].out
                   /\ IsClip(ss[i]) => tt[i].status = "failed"
  <2>1. CASE Settled(ss[i]) /\ tt[i] = ss[i]
    BY <1>1, <2>1 DEF Replaces
  <2>2. CASE /\ ~Settled(ss[i])
             /\ tt[i] = [ss[i] EXCEPT !.state = "failed",
                                      !.status = IF IsClip(ss[i]) THEN "failed" ELSE ss[i].status]
    <3>. DEFINE w == IF IsClip(ss[i]) THEN "failed" ELSE ss[i].status
    <3>1. w \in RowStatuses /\ "failed" \in RowStates
      BY <1>1, RowFields DEF RowStates, RowStatuses, Terminal
    <3>2. (IsClip(ss[i]) => w = "failed") /\ (~IsClip(ss[i]) => w = ss[i].status)
      OBVIOUS
    <3>3. tt[i] = Both(ss[i], "failed", w)
      BY <2>2 DEF Both
    <3>. HIDE DEF w
    <3>4. /\ tt[i] \in StepRows /\ tt[i].state = "failed" /\ tt[i].status = w /\ tt[i].kind = ss[i].kind
          /\ tt[i].out = ss[i].out /\ tt[i].done = ss[i].done
      BY <1>1, <3>1, <3>3, SetBoth
    <3>5. CASE IsClip(ss[i])
      <4>1. RowOK(tt[i])
        BY <3>2, <3>4, <3>5 DEF RowOK, ClipRowOK, Earned, IsClip, ClipKinds, BeforeSend
      <4>. QED  BY <2>2, <3>2, <3>4, <3>5, <4>1 DEF Replaces
    <3>6. CASE ~IsClip(ss[i])
      <4>1. RowOK(tt[i])
        BY <1>1, <2>2, <3>4, <3>6 DEF RowOK, ExecOK, MessageOK, Earned, IsClip
      <4>. QED  BY <2>2, <3>4, <3>6, <4>1 DEF Replaces, HoldsBack, Settled, Untouched, Terminal
    <3>. QED  BY <3>5, <3>6
  <2>. QED  BY <1>2, <2>1, <2>2
<1>5. tt \in Seq(StepRows) /\ DOMAIN tt = DOMAIN ss
  <2>1. \A i \in 1 .. Len(ss) : tt[i] \in StepRows
    BY <1>1, <1>4 DEF Replaces, RowOK
  <2>2. tt = [i \in 1 .. Len(ss) |-> tt[i]]
    BY <1>1, <1>3
  <2>. QED  BY <1>1, <2>1, <2>2, RowWise
<1>. QED  BY <1>4, <1>5 DEF Follows, tt

\* _refresh_webhook_video_run: the verdict fits the steps.
LEMMA VerdictFits ==
  ASSUME NEW ss, RowsOK(ss), HasClip(ss), CutThrough(ss)
  PROVE  RunFits(ss, Verdict(ss)) /\ Verdict(ss).state # "none"
<1>. DEFINE states == {ss[i].state : i \in DOMAIN ss}
            first == IF Due(ss) = {} THEN Len(ss) + 1 ELSE Least(Due(ss))
            sum == IF states \subseteq Terminal
                   THEN IF "ambiguous" \in states THEN "ambiguous"
                        ELSE IF "failed" \in states THEN "failed" ELSE "succeeded"
                   ELSE IF "waiting_delivery" \in states THEN "waiting_delivery" ELSE "queued"
<1>1. Verdict(ss) = [at |-> first, state |-> sum]
  BY DEF Verdict
<1>2. Len(ss) \in Nat /\ Due(ss) \subseteq Nat
  BY RowsDomain DEF RowsOK, Due
<1>3. first \in Nat /\ FromFirst(ss, first)
  BY <1>2, LeastIsFirst DEF FromFirst
<1>4. sum \in RunStates /\ sum # "none"
  BY DEF RunStates, Terminal
<1>5. sum = "succeeded" => AllSucceeded(ss)
  BY DEF Terminal, AllSucceeded
<1>. HIDE DEF first, sum
<1>. QED  BY <1>1, <1>3, <1>4, <1>5 DEF RunFits

-----------------------------------------------------------------------------
(***************************************************************************)
(* One run changes.                                                        *)
(***************************************************************************)
\* The worker's rows stay as they are, or are cut.
Calm(tt, ss) ==
  /\ Follows(tt, ss)
  /\ \A i \in DOMAIN ss : ~IsClip(ss[i]) =>
       tt[i].state = ss[i].state \/ (HasClip(ss) /\ ss[i].state = "queued" /\ tt[i].state = "failed")

\* The cut is calm.
LEMMA CalmCut ==
  ASSUME NEW ss, NEW tt, RowsOK(ss), Calm(tt, ss), HasClip(ss)
  PROVE  Calm(Cut(tt), ss)
<1>1. RowsOK(tt) /\ DOMAIN tt = DOMAIN ss /\ \A i \in DOMAIN ss : IsClip(tt[i]) <=> IsClip(ss[i])
  BY FollowsOK DEF Calm, Follows
<1>2. Follows(Cut(tt), ss)
  BY <1>1, CutRows, FollowsOn DEF Calm
<1>3. \A i \in DOMAIN ss : Cut(tt)[i] = tt[i] \/ (tt[i].state = "queued" /\ Cut(tt)[i].state = "failed")
  BY <1>1, CutRows
<1>. QED  BY <1>2, <1>3 DEF Calm

\* Rows that change calmly leave no more steps due.
LEMMA DueShrinks ==
  ASSUME NEW ss, NEW tt, RowsOK(ss), Calm(tt, ss)
  PROVE  Due(tt) \subseteq Due(ss)
<1>1. DOMAIN tt = DOMAIN ss /\ \A i \in DOMAIN ss : IsClip(tt[i]) <=> IsClip(ss[i])
  BY FollowsOK DEF Calm, Follows
<1>. QED  BY <1>1 DEF Calm, Due, Settled, Terminal

\* What one run must fit is enough when only that run changes.
LEMMA OneRun ==
  ASSUME RunInv, NEW r \in RunIds, NEW tt, NEW rec, NEW c,
         steps' = [steps EXCEPT ![r] = tt], runs' = [runs EXCEPT ![r] = rec], clip' = [clip EXCEPT ![r] = c],
         RowsOK(tt), RunFits(tt, rec), ClipFits(tt, c), r \in recalled => Recalled(tt, c, r \in missed),
         UNCHANGED history, ActOK'
  PROVE  RunInv'
<1>1. /\ runs = [q \in RunIds |-> runs[q]] /\ steps = [q \in RunIds |-> steps[q]]
      /\ clip = [q \in RunIds |-> clip[q]]
      /\ recalled \subseteq RunIds /\ missed \subseteq RunIds /\ halts \in 0 .. MaxHalts /\ boots \in 0 .. MaxBoots
      /\ \A q \in RunIds : RunOK(q)
  BY DEF RunInv
<1>2. /\ steps'[r] = tt /\ runs'[r] = rec /\ clip'[r] = c
      /\ \A q \in RunIds : q # r => steps'[q] = steps[q] /\ runs'[q] = runs[q] /\ clip'[q] = clip[q]
  BY <1>1
<1>3. /\ runs' = [q \in RunIds |-> runs'[q]] /\ steps' = [q \in RunIds |-> steps'[q]]
      /\ clip' = [q \in RunIds |-> clip'[q]]
  BY <1>1
<1>4. recalled' = recalled /\ missed' = missed /\ halts' = halts /\ boots' = boots
  BY DEF history
<1>5. \A q \in RunIds : RunOK(q)'
  BY <1>1, <1>2, <1>4 DEF RunOK
<1>. QED  BY <1>1, <1>3, <1>4, <1>5 DEF RunInv

\* The worker stays where it is while the rows change calmly.
LEMMA ActKept ==
  ASSUME RunInv, NEW r \in RunIds, NEW tt, NEW rec,
         steps' = [steps EXCEPT ![r] = tt], runs' = [runs EXCEPT ![r] = rec],
         Calm(tt, steps[r]), runs[r].state # "none" => rec.state # "none", UNCHANGED act
  PROVE  ActOK'
<1>1. /\ runs = [q \in RunIds |-> runs[q]] /\ steps = [q \in RunIds |-> steps[q]]
      /\ RowsOK(steps[r]) /\ ActOK
  BY DEF RunInv, RunOK
<1>2. /\ steps'[r] = tt /\ runs'[r] = rec
      /\ \A q \in RunIds : q # r => steps'[q] = steps[q] /\ runs'[q] = runs[q]
  BY <1>1
<1>3. /\ DOMAIN tt = DOMAIN steps[r] /\ (HasClip(tt) <=> HasClip(steps[r]))
      /\ \A i \in DOMAIN tt : (IsClip(tt[i]) <=> IsClip(steps[r][i])) /\ tt[i].kind = steps[r][i].kind
  BY <1>1, FollowsOK DEF Calm, Follows, Replaces
<1>4. Due(tt) \subseteq Due(steps[r])
  BY <1>1, DueShrinks
<1>5. \A q \in RunIds : UnderWorker(q)'
  BY <1>1, <1>2, <1>3 DEF ActOK, UnderWorker, Calm
<1>6. ASSUME act.run = r, ActFits(steps[r], runs[r])
      PROVE  ActFits(tt, rec)
  <2>1. HasClip(tt) \/ ~HasFailed(tt)
    <3>1. ASSUME ~HasClip(steps[r])
          PROVE  \A i \in DOMAIN tt : FailedExec(tt[i]) => FailedExec(steps[r][i])
      BY <1>3, <3>1 DEF FailedExec, Calm, HasClip
    <3>. QED  BY <1>3, <1>6, <3>1 DEF ActFits, HasFailed
  <2>2. act.stage \in {"claimed", "go"} => FromFirst(tt, act.at)
    BY <1>4, <1>6 DEF ActFits, FromFirst
  <2>3. act.stage \in {"turn", "exec", "deliver"} =>
          /\ act.at \in DOMAIN tt /\ tt[act.at].kind = steps[r][act.at].kind
          /\ tt[act.at].state = steps[r][act.at].state
    <3>1. ASSUME act.stage \in {"turn", "exec", "deliver"}
          PROVE  /\ act.at \in DOMAIN tt /\ steps[r][act.at].state \in {"running", "waiting_delivery"}
                 /\ ~IsClip(steps[r][act.at])
      BY <1>3, <1>6, <3>1 DEF ActFits, IsClip, ClipKinds
    <3>. QED  BY <1>3, <3>1 DEF Calm
  <2>. QED  BY <1>6, <2>1, <2>2, <2>3 DEF ActFits
<1>7. act.stage # "idle" => act.run \in RunIds /\ ActFits(steps'[act.run], runs'[act.run])
  BY <1>1, <1>2, <1>6 DEF ActOK
<1>. QED  BY <1>1, <1>5, <1>7 DEF ActOK, ActFits

\* The rows of a run with a clip are written and its verdict follows.
LEMMA WriteFits ==
  ASSUME NEW r, NEW ss, RowsOK(ss), HasClip(ss), NEW st, NEW i, Write(r, ss, st, i)
  PROVE  /\ steps' = [steps EXCEPT ![r] = Cut(ss)] /\ runs' = [runs EXCEPT ![r] = Verdict(Cut(ss))]
         /\ RowsOK(Cut(ss)) /\ RunFits(Cut(ss), Verdict(Cut(ss))) /\ Verdict(Cut(ss)).state # "none"
         /\ HasClip(Cut(ss)) /\ Clip(Cut(ss)) = Clip(ss) /\ Cut(ss)[Clip(ss)] = ss[Clip(ss)]
<1>1. Follows(Cut(ss), ss) /\ CutThrough(Cut(ss))
  BY CutRows
<1>2. RowsOK(Cut(ss)) /\ HasClip(Cut(ss)) /\ Clip(Cut(ss)) = Clip(ss)
  BY <1>1, FollowsOK
<1>3. RunFits(Cut(ss), Verdict(Cut(ss))) /\ Verdict(Cut(ss)).state # "none"
  BY <1>1, <1>2, VerdictFits
<1>4. Cut(ss)[Clip(ss)] = ss[Clip(ss)]
  BY CutRows, ClipIsIt DEF RowsOK
<1>. QED  BY <1>2, <1>3, <1>4 DEF Write

-----------------------------------------------------------------------------
(***************************************************************************)
(* The task of a recording.                                                *)
(***************************************************************************)
\* What a run's record of its clip is before a step of its task.
LEMMA ClipFacts ==
  ASSUME RunInv, NEW r \in RunIds, clip[r] # "none"
  PROVE  /\ RowsOK(steps[r]) /\ HasClip(steps[r]) /\ Clip(steps[r]) \in DOMAIN steps[r]
         /\ Row(r) = steps[r][Clip(steps[r])] /\ RowOK(Row(r)) /\ IsClip(Row(r)) /\ StageFits(Row(r), clip[r])
         /\ Row(r) \in StepRows /\ ClipRowOK(Row(r))
         /\ r \in recalled => clip[r] = "stopped"
         /\ RunFits(steps[r], runs[r]) /\ runs[r].state # "none"
<1>1. RunOK(r)
  BY DEF RunInv
<1>2. RowsOK(steps[r]) /\ HasClip(steps[r]) /\ OneClip(steps[r])
  BY <1>1 DEF RunOK, ClipFits, RowsOK
<1>3. Clip(steps[r]) \in DOMAIN steps[r] /\ IsClip(steps[r][Clip(steps[r])])
  BY <1>2, ClipIsIt
<1>. QED  BY <1>1, <1>2, <1>3 DEF RunOK, ClipFits, RowsOK, RowOK, Row, Recalled, RunFits

\* Only the task moves.
LEMMA TaskMoves ==
  ASSUME RunInv, NEW r \in RunIds, clip[r] # "none", r \notin recalled, NEW c \in ClipStages,
         StageFits(Row(r), c), clip' = [clip EXCEPT ![r] = c], UNCHANGED <<runs, steps, act, history>>
  PROVE  RunInv'
<1>1. /\ runs = [q \in RunIds |-> runs[q]] /\ steps = [q \in RunIds |-> steps[q]]
      /\ clip = [q \in RunIds |-> clip[q]]
  BY DEF RunInv
<1>2. steps' = [steps EXCEPT ![r] = steps[r]] /\ runs' = [runs EXCEPT ![r] = runs[r]]
  BY <1>1
<1>3. RowsOK(steps[r]) /\ RunFits(steps[r], runs[r]) /\ ClipFits(steps[r], c)
  BY ClipFacts DEF ClipFits
<1>4. Calm(steps[r], steps[r])
  BY <1>3, FollowsSelf DEF Calm
<1>5. ActOK'
  BY <1>2, <1>4, ActKept
<1>. QED  BY <1>2, <1>3, <1>5, OneRun

\* The clip's row is replaced.
WithClip(ss, row) == [ss EXCEPT ![Clip(ss)] = row]

\* A new row for the clip leaves the other rows in order.
LEMMA ClipReplaced ==
  ASSUME RunInv, NEW r \in RunIds, clip[r] # "none", NEW row, RowOK(row), row.kind = Row(r).kind,
         NEW tt, tt = WithClip(steps[r], row)
  PROVE  /\ RowsOK(tt) /\ Calm(tt, steps[r]) /\ HasClip(tt) /\ Clip(tt) = Clip(steps[r]) /\ tt[Clip(tt)] = row
         /\ \A i \in DOMAIN steps[r] : i # Clip(tt) => tt[i] = steps[r][i]
<1>1. /\ RowsOK(steps[r]) /\ HasClip(steps[r]) /\ Clip(steps[r]) \in DOMAIN steps[r]
      /\ Row(r) = steps[r][Clip(steps[r])] /\ IsClip(Row(r))
  BY ClipFacts
<1>2. Replaces(row, steps[r][Clip(steps[r])])
  BY <1>1 DEF Replaces
<1>3. /\ Follows(tt, steps[r]) /\ tt[Clip(steps[r])] = row
      /\ \A i \in DOMAIN steps[r] : i # Clip(steps[r]) => tt[i] = steps[r][i]
  BY <1>1, <1>2, ReplaceOne DEF WithClip
<1>4. Calm(tt, steps[r])
  BY <1>1, <1>3 DEF Calm
<1>. QED  BY <1>1, <1>3, <1>4, FollowsOK

\* The recording's task writes its row and nothing else.
LEMMA RowSet ==
  ASSUME RunInv, NEW r \in RunIds, clip[r] # "none", r \notin recalled, NEW c \in ClipStages, NEW row,
         RowOK(row), row.kind = Row(r).kind, ~Settled(Row(r)), StageFits(row, c),
         SetRow(r, row), clip' = [clip EXCEPT ![r] = c], UNCHANGED <<act, history>>
  PROVE  RunInv'
<1>. DEFINE tt == WithClip(steps[r], row)
<1>1. /\ RowsOK(tt) /\ Calm(tt, steps[r]) /\ HasClip(tt) /\ Clip(tt) = Clip(steps[r]) /\ tt[Clip(tt)] = row
      /\ \A i \in DOMAIN steps[r] : i # Clip(tt) => tt[i] = steps[r][i]
  BY ClipReplaced
<1>2. /\ RowsOK(steps[r]) /\ HasClip(steps[r]) /\ Clip(steps[r]) \in DOMAIN steps[r]
      /\ Row(r) = steps[r][Clip(steps[r])] /\ IsClip(Row(r)) /\ RunFits(steps[r], runs[r])
  BY ClipFacts
<1>3. steps' = [steps EXCEPT ![r] = tt] /\ runs' = [runs EXCEPT ![r] = runs[r]]
  <2>1. runs = [q \in RunIds |-> runs[q]]
    BY DEF RunInv
  <2>. QED  BY <2>1 DEF SetRow, WithClip
<1>. HIDE DEF tt
<1>4. DOMAIN tt = DOMAIN steps[r] /\ Due(tt) \subseteq Due(steps[r])
  BY <1>1, <1>2, DueShrinks DEF Calm, Follows
<1>5. CutThrough(tt)
  BY <1>1, <1>2, <1>4 DEF CutThrough, RunFits, FailedExec, IsClip, ClipKinds
<1>6. runs[r].state \notin {"succeeded", "none"}
  BY <1>2 DEF RunFits, AllSucceeded, Settled, Terminal
<1>7. RunFits(tt, runs[r])
  BY <1>1, <1>2, <1>4, <1>5, <1>6 DEF RunFits, FromFirst
<1>8. ClipFits(tt, c)
  BY <1>1 DEF ClipFits
<1>9. ActOK'
  BY <1>1, <1>3, ActKept
<1>. QED  BY <1>1, <1>3, <1>7, <1>8, <1>9, OneRun

\* The row is replaced and the run refreshed.
LEMMA RowWritten ==
  ASSUME RunInv, NEW r \in RunIds, clip[r] # "none", NEW c \in ClipStages, NEW row, NEW st, NEW i,
         RowOK(row), row.kind = Row(r).kind, StageFits(row, c),
         r \in recalled => (r \in missed \/ row.out = "none") /\ ((c = "none" /\ Settled(row)) \/ c = "stopped"),
         Write(r, WithClip(steps[r], row), st, i),
         clip' = [clip EXCEPT ![r] = c], UNCHANGED <<act, history>>
  PROVE  RunInv'
<1>. DEFINE tt == WithClip(steps[r], row)
<1>1. /\ RowsOK(tt) /\ Calm(tt, steps[r]) /\ HasClip(tt) /\ Clip(tt) = Clip(steps[r]) /\ tt[Clip(tt)] = row
  BY ClipReplaced
<1>2. RowsOK(steps[r]) /\ HasClip(steps[r])
  BY ClipFacts
<1>3. Write(r, tt, st, i)
  OBVIOUS
<1>. HIDE DEF tt
<1>4. /\ steps' = [steps EXCEPT ![r] = Cut(tt)] /\ runs' = [runs EXCEPT ![r] = Verdict(Cut(tt))]
      /\ RowsOK(Cut(tt)) /\ RunFits(Cut(tt), Verdict(Cut(tt))) /\ Verdict(Cut(tt)).state # "none"
      /\ HasClip(Cut(tt)) /\ Clip(Cut(tt)) = Clip(tt) /\ Cut(tt)[Clip(tt)] = tt[Clip(tt)]
  BY <1>1, <1>3, WriteFits
<1>5. Calm(Cut(tt), steps[r])
  BY <1>1, <1>2, CalmCut
<1>6. ActOK'
  BY <1>4, <1>5, ActKept
<1>7. ClipFits(Cut(tt), c) /\ (r \in recalled => Recalled(Cut(tt), c, r \in missed))
  BY <1>1, <1>4 DEF ClipFits, Recalled
<1>. QED  BY <1>4, <1>6, <1>7, OneRun

\* The clip's step ends.
LEMMA ClipEnds ==
  ASSUME RunInv, NEW r \in RunIds, clip[r] # "none", NEW st \in Terminal, NEW c \in {"none", "close"},
         r \in recalled => c = "none", st = "succeeded" => Row(r).out \in {"none", "sent"}, EndClip(r, st), clip' = [clip EXCEPT ![r] = c], UNCHANGED <<act, history>>
  PROVE  RunInv'
<1>. DEFINE row == Both(Row(r), st, st)
<1>1. /\ Clip(steps[r]) \in DOMAIN steps[r] /\ Row(r) = steps[r][Clip(steps[r])] /\ RowOK(Row(r))
      /\ Row(r) \in StepRows /\ IsClip(Row(r)) /\ (r \in recalled => Recalled(steps[r], clip[r], r \in missed))
  BY ClipFacts DEF RunInv, RunOK
<1>2. Ended(steps[r], Clip(steps[r]), st) = WithClip(steps[r], row)
  BY <1>1 DEF Ended, Both, WithClip
<1>3. \E s, i : Write(r, WithClip(steps[r], row), s, i)
  BY <1>2 DEF EndClip, Finish
<1>. HIDE DEF row
<1>4. row \in StepRows /\ row.state = st /\ row.status = st /\ row.kind = Row(r).kind /\ row.out = Row(r).out
  <2>1. st \in RowStates /\ st \in RowStatuses
    BY DEF RowStates, RowStatuses
  <2>. QED  BY <1>1, <2>1, SetBoth DEF row
<1>5. RowOK(row) /\ StageFits(row, c) /\ Settled(row)
  BY <1>1, <1>4 DEF RowOK, ClipRowOK, Earned, StageFits, IsClip, ClipKinds, BeforeSend, Terminal, Settled
<1>6. r \in recalled => r \in missed \/ row.out = "none"
  BY <1>1, <1>4 DEF Recalled, Row
<1>7. c \in ClipStages
  BY DEF ClipStages
<1>. QED  BY <1>3, <1>4, <1>5, <1>6, <1>7, RowWritten

\* The recording begins.
LEMMA ClipBeginsStep ==
  ASSUME RunInv, NEW r \in RunIds, ClipBegins(r)
  PROVE  RunInv'
<1>1. clip[r] = "new" /\ UNCHANGED <<act, history>> /\ clip[r] # "none"
  BY DEF ClipBegins, Keep, aside
<1>2. r \notin recalled /\ RowOK(Row(r)) /\ Row(r) \in StepRows /\ IsClip(Row(r)) /\ StageFits(Row(r), "new")
  BY <1>1, ClipFacts
<1>3. CASE Settled(Row(r)) /\ ClipGoes(r, "none") /\ UNCHANGED <<runs, steps>>
  <2>1. StageFits(Row(r), "none")
    BY <1>2, <1>3 DEF StageFits, RowOK, ClipRowOK, Settled, Terminal, BeforeSend
  <2>2. clip' = [clip EXCEPT ![r] = "none"] /\ "none" \in ClipStages
    BY <1>3 DEF ClipGoes, ClipStages
  <2>. QED  BY <1>1, <1>2, <1>3, <2>1, <2>2, TaskMoves
<1>4. CASE /\ ~Settled(Row(r)) /\ ClipGoes(r, "record")
           /\ SetRow(r, [Row(r) EXCEPT !.state = "running", !.status = "recording"])
  <2>. DEFINE row == Both(Row(r), "running", "recording")
  <2>1. SetRow(r, row) /\ clip' = [clip EXCEPT ![r] = "record"] /\ "record" \in ClipStages
    BY <1>4 DEF Both, ClipGoes, ClipStages
  <2>2. "running" \in RowStates /\ "recording" \in RowStatuses
    BY DEF RowStates, RowStatuses, BeforeSend
  <2>3. /\ row \in StepRows /\ row.state = "running" /\ row.status = "recording" /\ row.kind = Row(r).kind
        /\ row.out = Row(r).out /\ row.done = Row(r).done
    BY <1>2, <2>2, SetBoth
  <2>. HIDE DEF row
  <2>4. Row(r).state = "queued" /\ Row(r).done = 0
    BY <1>2, <1>4 DEF StageFits, RowOK, ClipRowOK
  <2>5. RowOK(row) /\ StageFits(row, "record")
    BY <1>2, <2>3, <2>4 DEF RowOK, ClipRowOK, Earned, StageFits, IsClip, ClipKinds, BeforeSend
  <2>. QED  BY <1>1, <1>2, <1>4, <2>1, <2>3, <2>5, RowSet
<1>. QED  BY <1>3, <1>4 DEF ClipBegins

\* A row whose status is recording runs, or has just been settled.
LEMMA RecordingRuns ==
  ASSUME RunInv, NEW r \in RunIds, clip[r] # "none"
  PROVE  Row(r).status = "recording" <=> Recording(r)
BY ClipFacts, RowFields DEF Recording, ClipRowOK, BeforeSend, RowStates

\* The recording is there.
LEMMA ClipRecordedStep ==
  ASSUME RunInv, NEW r \in RunIds, ClipRecorded(r)
  PROVE  RunInv'
<1>1. clip[r] = "record" /\ UNCHANGED <<act, history>> /\ clip[r] # "none"
  BY DEF ClipRecorded, Keep, aside
<1>2. r \notin recalled /\ RowOK(Row(r)) /\ Row(r) \in StepRows /\ IsClip(Row(r)) /\ StageFits(Row(r), "record")
  BY <1>1, ClipFacts
<1>3. CASE ~Recording(r) /\ ClipGoes(r, "none") /\ UNCHANGED <<runs, steps>>
  <2>1. StageFits(Row(r), "none")
    BY <1>1, <1>3, RecordingRuns DEF StageFits
  <2>2. clip' = [clip EXCEPT ![r] = "none"] /\ "none" \in ClipStages
    BY <1>3 DEF ClipGoes, ClipStages
  <2>. QED  BY <1>1, <1>2, <1>3, <2>1, <2>2, TaskMoves
<1>4. CASE Recording(r) /\ SetRow(r, [Row(r) EXCEPT !.status = "recorded"]) /\ ClipGoes(r, "loop")
  <2>1. PICK row : SetRow(r, row) /\ row = [Row(r) EXCEPT !.status = "recorded"]
    BY <1>4
  <2>2. clip' = [clip EXCEPT ![r] = "loop"] /\ "loop" \in ClipStages /\ "recorded" \in RowStatuses
    BY <1>4 DEF ClipGoes, ClipStages, RowStatuses, BeforeSend
  <2>3. /\ row \in StepRows /\ row.state = Row(r).state /\ row.status = "recorded" /\ row.kind = Row(r).kind
        /\ row.out = Row(r).out /\ row.done = Row(r).done
    BY <1>2, <2>1, <2>2, SetStatus
  <2>4. Row(r).state = "running" /\ Row(r).done = 0 /\ ~Settled(Row(r))
    BY <1>2, <1>4 DEF Recording, RowOK, ClipRowOK, Settled, Terminal, BeforeSend
  <2>5. RowOK(row) /\ StageFits(row, "loop")
    BY <1>2, <2>3, <2>4 DEF RowOK, ClipRowOK, Earned, StageFits, IsClip, ClipKinds, BeforeSend
  <2>. QED  BY <1>1, <1>2, <2>1, <2>2, <2>3, <2>4, <2>5, RowSet
<1>. QED  BY <1>3, <1>4 DEF ClipRecorded

\* The recording failed.
LEMMA ClipLostStep ==
  ASSUME RunInv, NEW r \in RunIds, ClipLost(r)
  PROVE  RunInv'
<1>1. clip[r] = "record" /\ UNCHANGED <<act, history>> /\ clip[r] # "none"
  BY DEF ClipLost, Keep, aside
<1>2. r \notin recalled /\ RowOK(Row(r)) /\ Row(r) \in StepRows /\ IsClip(Row(r)) /\ StageFits(Row(r), "record")
  BY <1>1, ClipFacts
<1>3. CASE EndClip(r, "failed") /\ ClipGoes(r, "none")
  BY <1>1, <1>3, ClipEnds DEF ClipGoes, Terminal
<1>4. CASE ~Recording(r) /\ ClipGoes(r, "loop") /\ UNCHANGED <<runs, steps>>
  <2>1. StageFits(Row(r), "loop")
    BY <1>1, <1>4, RecordingRuns DEF StageFits
  <2>2. clip' = [clip EXCEPT ![r] = "loop"] /\ "loop" \in ClipStages
    BY <1>4 DEF ClipGoes, ClipStages
  <2>. QED  BY <1>1, <1>2, <1>4, <2>1, <2>2, TaskMoves
<1>5. CASE /\ Recording(r) /\ ClipGoes(r, "loop")
           /\ SetRow(r, [Row(r) EXCEPT !.status = "record_failed", !.error = TRUE])
  <2>1. PICK s : s = [Row(r) EXCEPT !.status = "record_failed"]
    OBVIOUS
  <2>2. PICK row : row = [s EXCEPT !.error = TRUE]
    OBVIOUS
  <2>3. SetRow(r, row)
    BY <1>2, <1>5, <2>1, <2>2 DEF StepRows
  <2>4. clip' = [clip EXCEPT ![r] = "loop"] /\ "loop" \in ClipStages /\ "record_failed" \in RowStatuses
    BY <1>5 DEF ClipGoes, ClipStages, RowStatuses, BeforeSend
  <2>5. /\ s \in StepRows /\ s.state = Row(r).state /\ s.status = "record_failed" /\ s.kind = Row(r).kind
        /\ s.out = Row(r).out /\ s.done = Row(r).done
    BY <1>2, <2>1, <2>4, SetStatus
  <2>6. /\ row \in StepRows /\ row.state = Row(r).state /\ row.status = "record_failed" /\ row.kind = Row(r).kind
        /\ row.out = Row(r).out /\ row.done = Row(r).done
    BY <2>2, <2>5, SetError
  <2>7. Row(r).state = "running" /\ Row(r).done = 0 /\ ~Settled(Row(r))
    BY <1>2, <1>5 DEF Recording, RowOK, ClipRowOK, Settled, Terminal, BeforeSend
  <2>8. RowOK(row) /\ StageFits(row, "loop")
    BY <1>2, <2>6, <2>7 DEF RowOK, ClipRowOK, Earned, StageFits, IsClip, ClipKinds, BeforeSend
  <2>. QED  BY <1>1, <1>2, <2>3, <2>4, <2>6, <2>7, <2>8, RowSet
<1>. QED  BY <1>3, <1>4, <1>5 DEF ClipLost

\* The agent is asked to look at the recording.
LEMMA ReviewBeginsStep ==
  ASSUME RunInv, NEW r \in RunIds, ReviewBegins(r)
  PROVE  RunInv'
<1>1. /\ clip[r] = "loop" /\ UNCHANGED <<act, history>> /\ clip[r] # "none" /\ ~Settled(Row(r))
      /\ Row(r).kind = "agent" /\ Row(r).status \in {"recorded", "record_failed", "reviewing"}
      /\ SetRow(r, [Row(r) EXCEPT !.status = "reviewing"]) /\ ClipGoes(r, "turn")
  BY DEF ReviewBegins, Keep, aside
<1>2. r \notin recalled /\ RowOK(Row(r)) /\ Row(r) \in StepRows /\ IsClip(Row(r))
  BY <1>1, ClipFacts
<1>3. PICK row : SetRow(r, row) /\ row = [Row(r) EXCEPT !.status = "reviewing"]
  BY <1>1
<1>4. clip' = [clip EXCEPT ![r] = "turn"] /\ "turn" \in ClipStages /\ "reviewing" \in RowStatuses
  BY <1>1 DEF ClipGoes, ClipStages, RowStatuses, BeforeSend
<1>5. /\ row \in StepRows /\ row.state = Row(r).state /\ row.status = "reviewing" /\ row.kind = Row(r).kind
      /\ row.out = Row(r).out /\ row.done = Row(r).done
  BY <1>2, <1>3, <1>4, SetStatus
<1>6. row.state = "running" /\ row.done = 0
  BY <1>1, <1>2, <1>5 DEF RowOK, ClipRowOK, BeforeSend
<1>7. RowOK(row) /\ StageFits(row, "turn")
  BY <1>1, <1>2, <1>5, <1>6 DEF RowOK, ClipRowOK, Earned, StageFits, IsClip, ClipKinds, BeforeSend
<1>. QED  BY <1>1, <1>2, <1>3, <1>4, <1>5, <1>7, RowSet

\* The clip enters the outbox.
LEMMA ClipSentStep ==
  ASSUME RunInv, NEW r \in RunIds, ClipSent(r)
  PROVE  RunInv'
<1>. DEFINE row == Answer(Row(r), "waiting_delivery", "enqueued", "pending", Row(r).done + 1)
<1>1. /\ clip[r] = "loop" /\ UNCHANGED <<act, history>> /\ clip[r] # "none"
      /\ Row(r).status = "recorded" /\ clip' = [clip EXCEPT ![r] = "deliver"] /\ "deliver" \in ClipStages
  BY DEF ClipSent, Keep, aside, ClipGoes, ClipStages
<1>2. Write(r, WithClip(steps[r], row), "none", 0)
  BY DEF ClipSent, WithClip, Enqueued, Answer
<1>3. r \notin recalled /\ RowOK(Row(r)) /\ Row(r) \in StepRows /\ IsClip(Row(r))
  BY <1>1, ClipFacts
<1>4. Row(r).done = 0
  BY <1>1, <1>3 DEF RowOK, ClipRowOK, BeforeSend
<1>5. "waiting_delivery" \in RowStates /\ "enqueued" \in RowStatuses /\ "pending" \in Outs /\ Row(r).done + 1 \in 0 .. 1
  BY <1>4 DEF RowStates, RowStatuses, Outs
<1>6. /\ row \in StepRows /\ row.state = "waiting_delivery" /\ row.status = "enqueued" /\ row.kind = Row(r).kind
      /\ row.out = "pending"
  BY <1>3, <1>5, SetAnswer
<1>. HIDE DEF row
<1>7. RowOK(row) /\ StageFits(row, "deliver")
  BY <1>3, <1>6 DEF RowOK, ClipRowOK, Earned, StageFits, IsClip, ClipKinds, BeforeSend
<1>. QED  BY <1>1, <1>2, <1>3, <1>6, <1>7, RowWritten

\* The row of a step that was answered.
LEMMA RepliedRow ==
  ASSUME NEW s, RowOK(s), s.state = "running", s.kind # "exec"
  PROVE  /\ RowOK(Replied(s)) /\ Replied(s).kind = s.kind /\ Replied(s) \in StepRows /\ Replied(s).out = s.out
         /\ Replied(s).state = (IF Spoke(s) THEN "waiting_delivery" ELSE "succeeded")
         /\ IsClip(s) => Replied(s).status \in {"enqueued", "reviewed"}
<1>. DEFINE v == IF Spoke(s) THEN "waiting_delivery" ELSE "succeeded"
            w == IF IsClip(s) THEN IF Spoke(s) THEN "enqueued" ELSE "reviewed" ELSE s.status
            t == Replied(s)
<1>1. s \in StepRows /\ s.kind \in StepKinds /\ s.status \in RowStatuses
  BY RowFields DEF RowOK
<1>2. v \in RowStates /\ w \in RowStatuses
  BY <1>1 DEF RowStates, RowStatuses, Terminal
<1>3. t = Both(s, v, w)
  BY <1>1 DEF Replied, Both, StepRows
<1>4. /\ Spoke(s) => v = "waiting_delivery" /\ s.out # "none"
      /\ ~Spoke(s) => v = "succeeded" /\ s.out = "none"
      /\ IsClip(s) => w \in {"enqueued", "reviewed"}
  BY DEF Spoke
<1>. HIDE DEF v, w, t
<1>5. t \in StepRows /\ t.state = v /\ t.status = w /\ t.kind = s.kind /\ t.out = s.out /\ t.done = s.done
  BY <1>1, <1>2, <1>3, SetBoth
<1>6. RowOK(t)
  BY <1>1, <1>4, <1>5 DEF RowOK, ClipRowOK, MessageOK, Earned, IsClip, ClipKinds, StepKinds, BeforeSend
<1>. QED  BY <1>4, <1>5, <1>6 DEF t, v

\* The rows of commit_webhook_reply.
LEMMA CommitRows ==
  ASSUME NEW r, steps[r] \in Seq(StepRows), NEW i \in DOMAIN steps[r], Commit(r, i),
         NEW tt, tt = [steps[r] EXCEPT ![i] = Replied(steps[r][i])]
  PROVE  IF IsClip(tt[i]) THEN Write(r, tt, "waiting_delivery", i)
         ELSE /\ steps' = [steps EXCEPT ![r] = tt]
              /\ runs' = [runs EXCEPT ![r] = IF Spoke(tt[i]) THEN [state |-> "waiting_delivery", at |-> i]
                                                             ELSE [state |-> "running", at |-> i + 1]]
BY DEF Commit

\* The agent answers.
LEMMA ReviewAnswersStep ==
  ASSUME RunInv, NEW r \in RunIds, ReviewAnswers(r)
  PROVE  RunInv'
<1>. DEFINE row == Replied(Row(r))
            c == IF Spoke(Row(r)) THEN "deliver" ELSE IF Row(r).error THEN "close" ELSE "none"
<1>1. /\ clip[r] = "turn" /\ UNCHANGED <<act, history>> /\ clip[r] # "none" /\ Row(r).state = "running"
      /\ Commit(r, Clip(steps[r])) /\ clip' = [clip EXCEPT ![r] = c] /\ c \in ClipStages
  BY DEF ReviewAnswers, ClipGoes, ClipStages
<1>2. /\ r \notin recalled /\ RowOK(Row(r)) /\ IsClip(Row(r)) /\ Clip(steps[r]) \in DOMAIN steps[r]
      /\ Row(r) = steps[r][Clip(steps[r])] /\ steps[r] \in Seq(StepRows)
  BY <1>1, ClipFacts DEF RowsOK
<1>3. /\ RowOK(row) /\ row.kind = Row(r).kind /\ IsClip(row) /\ row.state \in {"waiting_delivery", "succeeded"}
      /\ row.status \in {"enqueued", "reviewed"} /\ row.out = Row(r).out
  BY <1>1, <1>2, RepliedRow DEF IsClip, ClipKinds
<1>4. WithClip(steps[r], row)[Clip(steps[r])] = row
  BY <1>2 DEF WithClip
<1>5. Write(r, WithClip(steps[r], row), "waiting_delivery", Clip(steps[r]))
  <2>1. WithClip(steps[r], row) = [steps[r] EXCEPT ![Clip(steps[r])] = Replied(steps[r][Clip(steps[r])])]
    BY <1>2 DEF WithClip
  <2>. HIDE DEF row
  <2>. QED  BY <1>1, <1>2, <1>3, <1>4, <2>1, CommitRows
<1>6. StageFits(row, c)
  BY <1>3 DEF StageFits, Spoke
<1>. HIDE DEF row, c
<1>. QED  BY <1>1, <1>2, <1>3, <1>5, <1>6, RowWritten

\* The clip's step ends.
LEMMA ClipEndingSteps ==
  ASSUME RunInv, NEW r \in RunIds, ReviewFails(r) \/ ClipClosed(r) \/ ClipDelivered(r)
  PROVE  RunInv'
<1>1. CASE ReviewFails(r) \/ ClipClosed(r)
  <2>1. /\ clip[r] # "none" /\ EndClip(r, "failed") /\ clip' = [clip EXCEPT ![r] = "none"]
        /\ UNCHANGED <<act, history>>
    BY <1>1 DEF ReviewFails, ClipClosed, Keep, aside, ClipGoes
  <2>. QED  BY <2>1, ClipEnds DEF Terminal
<1>2. CASE ClipDelivered(r)
  <2>. DEFINE c == IF Row(r).error THEN "close" ELSE "none"
  <2>1. /\ clip[r] = "deliver" /\ clip[r] # "none" /\ Delivered(Row(r)) # "pending" /\ EndClip(r, Delivered(Row(r)))
        /\ clip' = [clip EXCEPT ![r] = c] /\ UNCHANGED <<act, history>> /\ c \in {"none", "close"}
    BY <1>2 DEF ClipDelivered, Keep, aside, ClipGoes
  <2>2. r \notin recalled /\ Row(r).out # "none" /\ Row(r).out \in Outs
    BY <2>1, ClipFacts, RowFields DEF StageFits
  <2>3. Delivered(Row(r)) \in Terminal /\ (Delivered(Row(r)) = "succeeded" => Row(r).out = "sent")
    BY <2>1, <2>2 DEF Delivered, Outs, Terminal
  <2>. HIDE DEF c
  <2>. QED  BY <2>1, <2>2, <2>3, ClipEnds
<1>. QED  BY <1>1, <1>2

\* The clip's task finds its row enqueued or settled.
LEMMA ClipLoopSteps ==
  ASSUME RunInv, NEW r \in RunIds, ClipAwaited(r) \/ ClipDropped(r)
  PROVE  RunInv'
<1>1. /\ clip[r] = "loop" /\ clip[r] # "none" /\ UNCHANGED <<runs, steps, act, history>>
  BY DEF ClipAwaited, ClipDropped, Keep, aside
<1>2. /\ r \notin recalled /\ RowOK(Row(r)) /\ Row(r) \in StepRows /\ IsClip(Row(r)) /\ StageFits(Row(r), "loop")
      /\ Row(r).state \in RowStates /\ {"deliver", "none"} \subseteq ClipStages
  BY <1>1, ClipFacts, RowFields DEF ClipStages
<1>3. CASE ClipAwaited(r)
  <2>1. clip' = [clip EXCEPT ![r] = "deliver"] /\ ~Settled(Row(r)) /\ Row(r).status = "enqueued"
    BY <1>3 DEF ClipAwaited, ClipGoes
  <2>2. StageFits(Row(r), "deliver")
    BY <1>2, <2>1 DEF RowOK, ClipRowOK, Earned, StageFits, Settled, RowStates, BeforeSend
  <2>. QED  BY <1>1, <1>2, <2>1, <2>2, TaskMoves
<1>4. CASE ClipDropped(r)
  <2>1. clip' = [clip EXCEPT ![r] = "none"]
    BY <1>4 DEF ClipDropped, ClipGoes
  <2>2. StageFits(Row(r), "none")
    BY <1>2 DEF StageFits
  <2>. QED  BY <1>1, <1>2, <2>1, <2>2, TaskMoves
<1>. QED  BY <1>3, <1>4

\* A cancelled recording ends.
LEMMA ClipStoppedStep ==
  ASSUME RunInv, NEW r \in RunIds, ClipStopped(r)
  PROVE  RunInv'
<1>1. /\ clip[r] = "stopped" /\ clip[r] # "none" /\ UNCHANGED <<act, history>> /\ clip' = [clip EXCEPT ![r] = "none"]
      /\ IF Recording(r) THEN EndClip(r, "failed") ELSE UNCHANGED <<runs, steps>>
  BY DEF ClipStopped, Keep, aside, ClipGoes
<1>2. CASE EndClip(r, "failed")
  BY <1>1, <1>2, ClipEnds DEF Terminal
<1>3. CASE ~Recording(r) /\ UNCHANGED <<runs, steps>>
  <2>1. /\ RunOK(r) /\ RowsOK(steps[r]) /\ HasClip(steps[r]) /\ StageFits(Row(r), "stopped")
        /\ Row(r) = steps[r][Clip(steps[r])] /\ RunFits(steps[r], runs[r])
    BY <1>1, ClipFacts DEF RunInv
  <2>2. Row(r).status # "recording" /\ Settled(Row(r))
    BY <1>1, <1>3, <2>1, RecordingRuns DEF StageFits
  <2>3. ClipFits(steps[r], "none") /\ (r \in recalled => Recalled(steps[r], "none", r \in missed))
    BY <2>1, <2>2 DEF ClipFits, StageFits, ClipStages, RunOK, Recalled
  <2>4. steps' = [steps EXCEPT ![r] = steps[r]] /\ runs' = [runs EXCEPT ![r] = runs[r]]
    BY <1>3 DEF RunInv
  <2>5. Calm(steps[r], steps[r])
    BY <2>1, FollowsSelf DEF Calm
  <2>6. ActOK'
    BY <1>1, <2>4, <2>5, ActKept
  <2>. QED  BY <1>1, <2>1, <2>3, <2>4, <2>6, OneRun
<1>. QED  BY <1>1, <1>2, <1>3

-----------------------------------------------------------------------------
(***************************************************************************)
(* The worker.                                                             *)
(***************************************************************************)
\* Only rows of the worker change.
LEMMA WorkerRows ==
  ASSUME RunInv, NEW r \in RunIds, NEW tt, NEW rec,
         steps' = [steps EXCEPT ![r] = tt], runs' = [runs EXCEPT ![r] = rec], UNCHANGED <<clip, history>>,
         RowsOK(tt), HasClip(tt) <=> HasClip(steps[r]),
         HasClip(steps[r]) => Clip(tt) = Clip(steps[r]) /\ tt[Clip(tt)] = steps[r][Clip(steps[r])],
         RunFits(tt, rec), ActOK'
  PROVE  RunInv'
<1>1. RunOK(r) /\ clip = [q \in RunIds |-> clip[q]]
  BY DEF RunInv
<1>2. clip' = [clip EXCEPT ![r] = clip[r]]
  BY <1>1
<1>3. ClipFits(tt, clip[r]) /\ (r \in recalled => Recalled(tt, clip[r], r \in missed))
  BY <1>1 DEF RunOK, ClipFits, Recalled
<1>. QED  BY <1>2, <1>3, OneRun

\* The step at which the worker is: it was begun, and what is before it has ended well
\* enough.
AtStep == act.stage \in {"turn", "exec", "deliver"}

\* What is known at the worker's step.
LEMMA StepFacts ==
  ASSUME RunInv, AtStep
  PROVE  /\ act.run \in RunIds /\ RowsOK(steps[act.run]) /\ act.at \in DOMAIN steps[act.run] /\ act.at \in Nat
         /\ ~IsClip(steps[act.run][act.at]) /\ steps[act.run][act.at].state \in {"running", "waiting_delivery"}
         /\ RowOK(steps[act.run][act.at]) /\ RunFits(steps[act.run], runs[act.run])
         /\ runs[act.run].state # "none" /\ (HasClip(steps[act.run]) \/ ~HasFailed(steps[act.run]))
         /\ \A p \in DOMAIN steps[act.run] :
              p < act.at /\ ~IsClip(steps[act.run][p]) =>
                Settled(steps[act.run][p]) /\ ~FailedExec(steps[act.run][p])
<1>1. act.run \in RunIds /\ ActFits(steps[act.run], runs[act.run]) /\ RunOK(act.run)
  BY DEF RunInv, ActOK, AtStep
<1>2. /\ RowsOK(steps[act.run]) /\ RunFits(steps[act.run], runs[act.run]) /\ act.at \in DOMAIN steps[act.run]
      /\ RowOK(steps[act.run][act.at])
  BY <1>1 DEF RunOK, ActFits, AtStep, RowsOK
<1>3. steps[act.run][act.at].state \in {"running", "waiting_delivery"} /\ ~IsClip(steps[act.run][act.at])
  BY <1>1 DEF ActFits, AtStep, IsClip, ClipKinds
<1>4. act.at \in Nat
  BY <1>2, RowsDomain DEF RowsOK
<1>5. ~Untouched(steps[act.run][act.at])
  BY <1>3 DEF Untouched
<1>6. \A p \in DOMAIN steps[act.run] :
        p < act.at /\ ~IsClip(steps[act.run][p]) => ~HoldsBack(steps[act.run][p])
  BY <1>2, <1>3, <1>5 DEF RowsOK, InOrder
<1>. QED  BY <1>1, <1>2, <1>3, <1>4, <1>6 DEF ActFits, HoldsBack

\* Step i is over, the rest of the rows is as it was or cut.
Over(tt, ss, i) ==
  /\ Follows(tt, ss) /\ tt[i].state \in Terminal
  /\ \A k \in DOMAIN ss : k # i /\ ~IsClip(ss[k]) =>
       \/ tt[k].state = ss[k].state
       \/ HasClip(ss) /\ ss[k].state = "queued" /\ tt[k].state = "failed"
  /\ HasClip(ss) => tt[Clip(ss)] = ss[Clip(ss)]

\* What is due after it lies behind it.
LEMMA OverDue ==
  ASSUME RunInv, AtStep, NEW tt, Over(tt, steps[act.run], act.at)
  PROVE  FromFirst(tt, act.at + 1)
<1>. DEFINE ss == steps[act.run]
<1>1. /\ RowsOK(ss) /\ act.at \in DOMAIN ss /\ act.at \in Nat
      /\ \A p \in DOMAIN ss : p < act.at /\ ~IsClip(ss[p]) => Settled(ss[p])
  BY StepFacts
<1>2. DOMAIN tt = DOMAIN ss /\ \A i \in DOMAIN ss : (IsClip(tt[i]) <=> IsClip(ss[i])) /\ i \in Nat
  BY <1>1, FollowsOK, RowsDomain DEF Over, Follows, RowsOK
<1>. HIDE DEF ss
<1>3. ASSUME NEW k \in Due(tt)
      PROVE  act.at + 1 <= k
  <2>1. k \in DOMAIN ss /\ ~IsClip(ss[k]) /\ ~Settled(tt[k]) /\ k \in Nat
    BY <1>2, <1>3 DEF Due
  <2>2. k # act.at
    BY <2>1 DEF Over, Settled
  <2>3. ~Settled(ss[k])
    BY <2>1, <2>2 DEF Over, Settled, Terminal, ss
  <2>4. ~(k < act.at)
    BY <1>1, <2>1, <2>3
  <2>. QED  BY <1>1, <2>1, <2>2, <2>4
<1>. QED  BY <1>3 DEF FromFirst

\* The worker goes on behind its step, or leaves the run.
LEMMA StepOver ==
  ASSUME RunInv, AtStep, NEW tt, NEW rec, Over(tt, steps[act.run], act.at),
         steps' = [steps EXCEPT ![act.run] = tt], runs' = [runs EXCEPT ![act.run] = rec],
         RunFits(tt, rec), rec.state # "none", UNCHANGED <<clip, history>>,
         \/ act' = Idle
         \/ /\ act' = [act EXCEPT !.stage = "go", !.at = act.at + 1]
            /\ HasClip(steps[act.run]) \/ tt[act.at].state = "succeeded"
  PROVE  RunInv'
<1>0. PICK r \in RunIds : r = act.run
  BY StepFacts
<1>. DEFINE ss == steps[r]
<1>1. /\ r \in RunIds /\ RowsOK(ss) /\ act.at \in DOMAIN ss /\ act.at \in Nat
      /\ HasClip(ss) \/ ~HasFailed(ss)
  BY <1>0, StepFacts
<1>2. /\ RowsOK(tt) /\ DOMAIN tt = DOMAIN ss /\ (HasClip(tt) <=> HasClip(ss))
      /\ (HasClip(ss) => Clip(tt) = Clip(ss)) /\ \A k \in DOMAIN ss : IsClip(tt[k]) <=> IsClip(ss[k])
  BY <1>1, <1>0, FollowsOK DEF Over, Follows
<1>3. FromFirst(tt, act.at + 1)
  BY OverDue
<1>4. ActOK /\ steps = [q \in RunIds |-> steps[q]] /\ runs = [q \in RunIds |-> runs[q]]
  BY DEF RunInv
<1>5. steps'[r] = tt /\ runs'[r] = rec /\ \A q \in RunIds : q # r => steps'[q] = steps[q]
  BY <1>0, <1>1, <1>4
<1>6. \A q \in RunIds : UnderWorker(q)'
  <2>1. ASSUME NEW q \in RunIds, q # r
        PROVE  UnderWorker(q)'
    BY <1>4, <1>5, <2>1 DEF ActOK, UnderWorker
  <2>2. \A k \in DOMAIN ss : ~IsClip(ss[k]) /\ ss[k].state = "running" => k = act.at
    BY <1>1, <1>4 DEF ActOK, UnderWorker
  <2>3. \A k \in DOMAIN tt : ~IsClip(tt[k]) => tt[k].state # "running"
    BY <1>0, <1>2, <2>2 DEF Over, Terminal
  <2>4. UnderWorker(r)'
    BY <1>5, <2>3 DEF UnderWorker
  <2>. QED  BY <2>1, <2>4
<1>7. CASE act' = Idle
  <2>1. act' \in [run : 0 .. MaxRuns, at : Nat, stage : Stages] /\ act'.stage = "idle"
    BY <1>7, RunBounds DEF Idle, Stages
  <2>2. ActOK'
    BY <1>6, <1>7, <2>1 DEF ActOK, Idle
  <2>. QED  BY <1>0, <1>1, <1>2, <2>2, WorkerRows DEF Over
<1>8. CASE /\ act' = [act EXCEPT !.stage = "go", !.at = act.at + 1]
           /\ HasClip(ss) \/ tt[act.at].state = "succeeded"
  <2>1. act \in [run : 0 .. MaxRuns, at : Nat, stage : Stages]
    BY <1>4 DEF ActOK
  <2>2. act'.run = r /\ act'.stage = "go" /\ act'.at = act.at + 1
    BY <1>0, <1>8, <2>1
  <2>3. act' \in [run : 0 .. MaxRuns, at : Nat, stage : Stages]
    <3>1. "go" \in Stages /\ act.at + 1 \in Nat
      BY <1>1 DEF Stages
    <3>2. [act EXCEPT !.stage = "go"] \in [run : 0 .. MaxRuns, at : Nat, stage : Stages]
      BY <2>1, <3>1
    <3>3. act' = [[act EXCEPT !.stage = "go"] EXCEPT !.at = act.at + 1]
      BY <1>8, <2>1
    <3>. QED  BY <3>1, <3>2, <3>3
  <2>4. HasClip(tt) \/ ~HasFailed(tt)
    BY <1>0, <1>1, <1>2, <1>8 DEF HasFailed, FailedExec, Over, Follows, Replaces, HasClip
  <2>5. ActFits(tt, rec)'
    BY <1>3, <2>2, <2>4 DEF ActFits
  <2>6. ActOK'
    BY <1>1, <1>5, <1>6, <2>2, <2>3, <2>5 DEF ActOK, ActFits
  <2>. QED  BY <1>0, <1>1, <1>2, <2>6, WorkerRows DEF Over
<1>. QED  BY <1>0, <1>7, <1>8

\* finish_webhook_step for the worker's step.
LEMMA FinishOver ==
  ASSUME RunInv, AtStep, NEW st \in Terminal, Finish(act.run, act.at, st),
         st = "succeeded" => steps[act.run][act.at].out \in {"none", "sent"}, UNCHANGED <<clip, history>>,
         \/ act' = Idle
         \/ /\ act' = [act EXCEPT !.stage = "go", !.at = act.at + 1]
            /\ HasClip(steps[act.run]) \/ st = "succeeded"
  PROVE  RunInv'
<1>. DEFINE ss == steps[act.run]
            uu == Ended(ss, act.at, st)
            s == IF st = "succeeded" THEN "running" ELSE st
            n == IF st = "succeeded" THEN act.at + 1 ELSE act.at
<1>1. /\ act.run \in RunIds /\ RowsOK(ss) /\ act.at \in DOMAIN ss /\ act.at \in Nat /\ ~IsClip(ss[act.at])
      /\ ss[act.at].state \in {"running", "waiting_delivery"} /\ RunFits(ss, runs[act.run])
      /\ HasClip(ss) \/ ~HasFailed(ss)
  BY StepFacts
<1>2. /\ Follows(uu, ss) /\ uu[act.at].state = st /\ \A k \in DOMAIN ss : k # act.at => uu[k] = ss[k]
  BY <1>1, EndedRows
<1>3. /\ RowsOK(uu) /\ DOMAIN uu = DOMAIN ss /\ (HasClip(uu) <=> HasClip(ss))
      /\ (HasClip(ss) => Clip(uu) = Clip(ss)) /\ \A k \in DOMAIN ss : IsClip(uu[k]) <=> IsClip(ss[k])
  BY <1>1, <1>2, FollowsOK DEF Follows
<1>4. HasClip(ss) => Clip(ss) \in DOMAIN ss /\ Clip(ss) # act.at
  BY <1>1, ClipIsIt DEF RowsOK
<1>5. Over(uu, ss, act.at)
  BY <1>2, <1>4 DEF Over
<1>6. /\ s \in RunStates /\ s \notin {"none", "succeeded"} /\ (st # "succeeded" => s \in Terminal) /\ n \in Nat
      /\ st = "succeeded" => n = act.at + 1 /\ s = "running"
  BY <1>1 DEF RunStates, Terminal
<1>7. Write(act.run, uu, s, n)
  BY DEF Finish
<1>. HIDE DEF uu, s, n
<1>8. CASE HasClip(ss)
  <2>1. /\ steps' = [steps EXCEPT ![act.run] = Cut(uu)] /\ runs' = [runs EXCEPT ![act.run] = Verdict(Cut(uu))]
        /\ RunFits(Cut(uu), Verdict(Cut(uu))) /\ Verdict(Cut(uu)).state # "none"
        /\ Cut(uu)[Clip(uu)] = uu[Clip(uu)]
    BY <1>3, <1>7, <1>8, WriteFits
  <2>2. /\ Follows(Cut(uu), uu)
        /\ \A k \in DOMAIN uu : Cut(uu)[k] = uu[k] \/ (uu[k].state = "queued" /\ Cut(uu)[k].state = "failed")
    BY <1>3, CutRows
  <2>3. Over(Cut(uu), ss, act.at)
    <3>1. Follows(Cut(uu), ss)
      BY <1>2, <2>2, FollowsOn
    <3>2. Cut(uu)[act.at].state = st
      BY <1>1, <1>2, <1>3, <2>2 DEF Terminal
    <3>3. \A k \in DOMAIN ss : k # act.at /\ ~IsClip(ss[k]) =>
            Cut(uu)[k].state = ss[k].state \/ (ss[k].state = "queued" /\ Cut(uu)[k].state = "failed")
      BY <1>2, <1>3, <2>2
    <3>4. Cut(uu)[Clip(ss)] = ss[Clip(ss)]
      BY <1>2, <1>3, <1>4, <1>8, <2>1
    <3>. QED  BY <1>8, <3>1, <3>2, <3>3, <3>4 DEF Over
  <2>. QED  BY <1>8, <2>1, <2>3, StepOver
<1>9. CASE ~HasClip(ss)
  <2>1. /\ steps' = [steps EXCEPT ![act.run] = uu]
        /\ runs' = [runs EXCEPT ![act.run] = [state |-> s, at |-> n]]
    BY <1>3, <1>7, <1>9 DEF Write
  <2>2. st = "succeeded" => ~HasFailed(uu)
    BY <1>1, <1>2, <1>3, <1>9 DEF HasFailed, FailedExec
  <2>3. s \notin Terminal => FromFirst(uu, n)
    BY <1>5, <1>6, OverDue
  <2>4. RunFits(uu, [state |-> s, at |-> n])
    BY <1>3, <1>6, <1>9, <2>2, <2>3 DEF RunFits
  <2>. QED  BY <1>2, <1>5, <1>6, <1>9, <2>1, <2>4, StepOver
<1>. QED  BY <1>8, <1>9

\* The bubbles of a message are settled.
LEMMA MessageDeliveredStep ==
  ASSUME RunInv, MessageDelivered
  PROVE  RunInv'
<1>. DEFINE s == Delivered(steps[act.run][act.at])
<1>1. /\ act.stage = "deliver" /\ s # "pending" /\ Finish(act.run, act.at, s) /\ UNCHANGED <<clip, history>>
      /\ \/ act' = Idle
         \/ /\ act' = [act EXCEPT !.stage = "go", !.at = act.at + 1]
            /\ HasClip(steps[act.run]) \/ s = "succeeded"
  BY DEF MessageDelivered, Goes, aside
<1>2. AtStep
  BY <1>1 DEF AtStep
<1>3. steps[act.run][act.at].out # "none" /\ steps[act.run][act.at].out \in Outs
  <2>1. steps[act.run][act.at].kind = "message" /\ steps[act.run][act.at].state = "waiting_delivery"
    BY <1>1 DEF RunInv, ActOK, ActFits
  <2>. QED  BY <1>2, <2>1, StepFacts, RowFields DEF RowOK, MessageOK, Earned
<1>4. s \in Terminal /\ (s = "succeeded" => steps[act.run][act.at].out = "sent")
  BY <1>1, <1>3 DEF Delivered, Outs, Terminal
<1>. HIDE DEF s
<1>. QED  BY <1>1, <1>2, <1>4, FinishOver

\* An exec ends.
LEMMA ExecEndsStep ==
  ASSUME RunInv, NEW st \in Terminal, ExecEnds(st)
  PROVE  RunInv'
<1>1. /\ AtStep /\ Finish(act.run, act.at, st) /\ UNCHANGED <<clip, history>>
      /\ \/ act' = Idle
         \/ act' = [act EXCEPT !.stage = "go", !.at = act.at + 1] /\ st = "succeeded"
  BY DEF ExecEnds, Goes, AtStep, aside
<1>2. steps[act.run][act.at].kind = "exec" /\ RowOK(steps[act.run][act.at])
  BY <1>1, StepFacts DEF RunInv, ActOK, ActFits, ExecEnds
<1>. QED  BY <1>1, <1>2, FinishOver DEF RowOK, ExecOK

\* fail_webhook_run.
LEMMA FailRunRows ==
  ASSUME RunInv, NEW r \in RunIds, FailRun(r), runs[r].state # "none"
  PROVE  \E rec : /\ steps' = [steps EXCEPT ![r] = Failing(steps[r])] /\ runs' = [runs EXCEPT ![r] = rec]
                  /\ RunFits(Failing(steps[r]), rec) /\ rec.state \in Terminal
                  /\ RowsOK(Failing(steps[r])) /\ Follows(Failing(steps[r]), steps[r])
                  /\ \A i \in DOMAIN steps[r] : Settled(Failing(steps[r])[i])
<1>. DEFINE ss == steps[r]  tt == Failing(ss)
            v == IF runs[r].state \in {"succeeded", "ambiguous"} THEN runs[r].state ELSE "failed"
            rec == [runs[r] EXCEPT !.state = v]
<1>1. RowsOK(ss) /\ RunFits(ss, runs[r]) /\ runs = [q \in RunIds |-> runs[q]]
  BY DEF RunInv, RunOK
<1>2. steps' = [steps EXCEPT ![r] = tt] /\ runs' = [runs EXCEPT ![r] = rec]
  BY DEF FailRun
<1>3. v \in Terminal /\ v \in RunStates /\ (v = "succeeded" => runs[r].state = "succeeded")
  BY DEF RunStates, Terminal
<1>. HIDE DEF v
<1>4. rec.state = v /\ rec \in [state : RunStates, at : Nat]
  BY <1>1, <1>3 DEF RunFits
<1>5. Follows(tt, ss) /\ \A i \in DOMAIN ss : Settled(tt[i]) /\ (Settled(ss[i]) => tt[i] = ss[i])
  BY <1>1, FailingRows DEF Settled, Terminal
<1>6. RowsOK(tt) /\ DOMAIN tt = DOMAIN ss
  BY <1>1, <1>5, FollowsOK DEF Follows
<1>. HIDE DEF rec, tt
<1>7. v = "succeeded" => AllSucceeded(tt)
  BY <1>1, <1>3, <1>5, <1>6 DEF RunFits, AllSucceeded, Settled, Terminal
<1>8. RunFits(tt, rec)
  BY <1>3, <1>4, <1>5, <1>6, <1>7 DEF RunFits, CutThrough, Terminal
<1>. QED  BY <1>2, <1>3, <1>4, <1>5, <1>6, <1>8 DEF tt

\* The worker gives its run up: the run and its open steps have failed.
LEMMA RunLeft ==
  ASSUME RunInv, act.stage # "idle", FailRun(act.run), act' = Idle, UNCHANGED <<clip, history>>
  PROVE  RunInv'
<1>1. PICK r \in RunIds : r = act.run /\ runs[r].state # "none"
  BY DEF RunInv, ActOK, ActFits
<1>. DEFINE ss == steps[r]  tt == Failing(ss)
<1>2. /\ RowsOK(ss) /\ ClipFits(ss, clip[r]) /\ (r \in recalled => Recalled(ss, clip[r], r \in missed)) /\ ActOK
      /\ steps = [q \in RunIds |-> steps[q]] /\ clip = [q \in RunIds |-> clip[q]]
  BY DEF RunInv, RunOK
<1>3. PICK rec : /\ steps' = [steps EXCEPT ![r] = tt] /\ runs' = [runs EXCEPT ![r] = rec]
                 /\ RunFits(tt, rec) /\ RowsOK(tt) /\ Follows(tt, ss) /\ \A i \in DOMAIN ss : Settled(tt[i])
  BY <1>1, FailRunRows
<1>4. \A i \in DOMAIN ss : /\ Settled(ss[i]) => tt[i] = ss[i]
                           /\ tt[i] = ss[i] \/ tt[i].state = "failed"
                           /\ tt[i].out = ss[i].out
                           /\ ~Settled(ss[i]) /\ IsClip(ss[i]) => tt[i].status = "failed"
  BY <1>2, FailingRows
<1>. HIDE DEF tt
<1>5. /\ DOMAIN tt = DOMAIN ss /\ (HasClip(tt) <=> HasClip(ss)) /\ (HasClip(ss) => Clip(tt) = Clip(ss))
  BY <1>2, <1>3, FollowsOK DEF Follows
<1>6. HasClip(ss) => /\ Clip(ss) \in DOMAIN ss /\ IsClip(ss[Clip(ss)])
  BY <1>2, ClipIsIt DEF RowsOK
<1>7. HasClip(ss) => StageFits(tt[Clip(ss)], clip[r])
  <2>1. ASSUME HasClip(ss)
        PROVE  /\ Settled(tt[Clip(ss)]) /\ tt[Clip(ss)].kind = ss[Clip(ss)].kind
               /\ tt[Clip(ss)].state \in {ss[Clip(ss)].state, "failed"} /\ tt[Clip(ss)].out = ss[Clip(ss)].out /\ StageFits(ss[Clip(ss)], clip[r])
               /\ tt[Clip(ss)].status = "recording" => ss[Clip(ss)].status = "recording"
    BY <1>2, <1>3, <1>4, <1>6, <2>1 DEF ClipFits, Follows, Replaces
  <2>. QED  BY <2>1 DEF StageFits
<1>8. ClipFits(tt, clip[r]) /\ (r \in recalled => Recalled(tt, clip[r], r \in missed))
  BY <1>2, <1>3, <1>4, <1>5, <1>6, <1>7 DEF ClipFits, Recalled
<1>9. steps'[r] = tt /\ \A q \in RunIds : q # r => steps'[q] = steps[q]
  BY <1>2, <1>3
<1>10. ActOK'
  <2>1. ASSUME NEW q \in RunIds, q # r
        PROVE  UnderWorker(q)'
    BY <1>1, <1>2, <1>9, <2>1 DEF ActOK, UnderWorker
  <2>2. UnderWorker(r)'
    BY <1>3, <1>5, <1>9 DEF UnderWorker, Settled, Terminal
  <2>3. act' \in [run : 0 .. MaxRuns, at : Nat, stage : Stages] /\ act'.stage = "idle"
    BY RunBounds DEF Idle, Stages
  <2>. QED  BY <2>1, <2>2, <2>3 DEF ActOK, Idle
<1>11. clip' = [clip EXCEPT ![r] = clip[r]]
  BY <1>2
<1>. QED  BY <1>3, <1>8, <1>10, <1>11, OneRun

\* The turn of a message fails.
LEMMA TurnFailsStep ==
  ASSUME RunInv, TurnFails
  PROVE  RunInv'
<1>1. AtStep /\ UNCHANGED <<clip, history>> /\ act.stage = "turn"
  BY DEF TurnFails, AtStep
<1>2. CASE HasClip(steps[act.run])
  BY <1>1, <1>2, FinishOver DEF TurnFails, Goes, Terminal
<1>3. CASE ~HasClip(steps[act.run])
  BY <1>1, <1>3, RunLeft DEF TurnFails
<1>. QED  BY <1>2, <1>3

\* The stopped worker gives its run up.
LEMMA RunStoppedStep ==
  ASSUME RunInv, RunStopped
  PROVE  RunInv'
BY RunLeft DEF RunStopped, aside

\* The turn of a message ends with or without bubbles.
LEMMA TurnAnswersStep ==
  ASSUME RunInv, TurnAnswers
  PROVE  RunInv'
<1>0. PICK r \in RunIds : r = act.run
  BY StepFacts DEF AtStep, TurnAnswers
<1>1. PICK i \in DOMAIN steps[r] : i = act.at /\ r = act.run
  BY <1>0, StepFacts DEF AtStep, TurnAnswers
<1>. DEFINE ss == steps[r]
<1>c. PICK b \in BOOLEAN : b = Spoke(ss[i])
  BY DEF Spoke
<1>a. PICK tt : tt = [ss EXCEPT ![i] = Replied(ss[i])]
  OBVIOUS
<1>b. PICK rec : rec = [state |-> IF b THEN "waiting_delivery" ELSE "running", at |-> IF b THEN i ELSE i + 1]
  OBVIOUS
<1>2. /\ act.stage = "turn" /\ Commit(r, i) /\ UNCHANGED <<clip, history>> /\ AtStep
      /\ act' = IF b THEN [act EXCEPT !.stage = "deliver"] ELSE [act EXCEPT !.stage = "go", !.at = i + 1]
  BY <1>1, <1>c DEF TurnAnswers, AtStep, Waits, Goes
<1>3. /\ RowsOK(ss) /\ i \in DOMAIN ss /\ i \in Nat /\ ~IsClip(ss[i]) /\ RowOK(ss[i]) /\ RunFits(ss, runs[r])
      /\ HasClip(ss) \/ ~HasFailed(ss)
      /\ \A p \in DOMAIN ss : p < i /\ ~IsClip(ss[p]) => Settled(ss[p]) /\ ~FailedExec(ss[p])
  BY <1>1, <1>2, StepFacts
<1>4. ss[i].kind = "message" /\ ss[i].state = "running" /\ ss \in Seq(StepRows) /\ ActOK
  BY <1>1, <1>2, <1>3 DEF RunInv, ActOK, ActFits, RowsOK
<1>5. /\ RowOK(Replied(ss[i])) /\ Replied(ss[i]).kind = "message"
      /\ Replied(ss[i]).state = (IF b THEN "waiting_delivery" ELSE "succeeded") /\ Replied(ss[i]).out = ss[i].out
  BY <1>3, <1>4, <1>c, RepliedRow
<1>6. Replaces(Replied(ss[i]), ss[i])
  BY <1>4, <1>5 DEF Replaces, HoldsBack, Settled, Untouched, Terminal
<1>7. Follows(tt, ss) /\ tt[i] = Replied(ss[i]) /\ \A k \in DOMAIN ss : k # i => tt[k] = ss[k]
  BY <1>3, <1>6, <1>a, ReplaceOne
<1>8. ~IsClip(tt[i])
  BY <1>5, <1>7 DEF IsClip, ClipKinds
<1>9. steps' = [steps EXCEPT ![r] = tt] /\ runs' = [runs EXCEPT ![r] = rec]
  <2>1. Commit(r, i) /\ ss \in Seq(StepRows) /\ i \in DOMAIN ss
    BY <1>2, <1>4
  <2>2. Spoke(tt[i]) <=> b
    BY <1>5, <1>7, <1>c DEF Spoke
  <2>. QED  BY <1>8, <1>a, <1>b, <2>1, <2>2, CommitRows
<1>10. /\ RowsOK(tt) /\ DOMAIN tt = DOMAIN ss /\ (HasClip(tt) <=> HasClip(ss))
       /\ (HasClip(ss) => Clip(tt) = Clip(ss)) /\ \A k \in DOMAIN ss : (IsClip(tt[k]) <=> IsClip(ss[k])) /\ k \in Nat
  <2>1. \A k \in DOMAIN ss : k \in Nat
    BY <1>4, RowsDomain
  <2>2. DOMAIN tt = DOMAIN ss
    BY <1>7 DEF Follows
  <2>. QED  BY <1>3, <1>7, <2>1, <2>2, FollowsOK
<1>11. HasClip(ss) => Clip(ss) \in DOMAIN ss /\ Clip(ss) # i
  BY <1>3, ClipIsIt DEF RowsOK
<1>. HIDE DEF ss
<1>12. FromFirst(tt, i) /\ (~b => FromFirst(tt, i + 1))
  BY <1>3, <1>5, <1>7, <1>10 DEF FromFirst, Due, Settled, Terminal
<1>13. RunFits(tt, rec)
  <2>1. rec \in [state : RunStates, at : Nat] /\ rec.state \in {"waiting_delivery", "running"}
    BY <1>3, <1>b DEF RunStates
  <2>2. \A k \in DOMAIN tt : FailedExec(tt[k]) => FailedExec(ss[k]) /\ k # i
    BY <1>5, <1>7, <1>10 DEF FailedExec
  <2>3. HasClip(tt) => CutThrough(tt)
    <3>1. HasClip(tt) => CutThrough(ss)
      BY <1>3, <1>10 DEF RunFits
    <3>2. ASSUME HasClip(tt), NEW p \in DOMAIN tt, NEW k \in DOMAIN tt, p < k, FailedExec(tt[p]), ~IsClip(tt[k])
          PROVE  Settled(tt[k])
      <4>1. FailedExec(ss[p]) /\ p # i /\ Settled(ss[k])
        BY <1>10, <2>2, <3>1, <3>2 DEF CutThrough
      <4>2. k # i
        BY <1>4, <4>1 DEF Settled, Terminal
      <4>. QED  BY <1>7, <1>10, <4>1, <4>2
    <3>. QED  BY <3>2 DEF CutThrough
  <2>4. ~HasClip(tt) => ~HasFailed(tt)
    BY <1>3, <1>10, <2>2 DEF HasFailed
  <2>5. FromFirst(tt, rec.at)
    BY <1>12, <1>b
  <2>. QED  BY <2>1, <2>3, <2>4, <2>5 DEF RunFits, Terminal
<1>14. CASE b
  <2>1. act' = [act EXCEPT !.stage = "deliver"] /\ act \in [run : 0 .. MaxRuns, at : Nat, stage : Stages]
    BY <1>2, <1>4, <1>14 DEF ActOK
  <2>2. /\ act' \in [run : 0 .. MaxRuns, at : Nat, stage : Stages] /\ act'.run = r /\ act'.at = i
        /\ act'.stage = "deliver"
    BY <1>1, <2>1 DEF Stages
  <2>3. steps'[r] = tt /\ runs'[r] = rec /\ \A q \in RunIds : q # r => steps'[q] = steps[q]
    BY <1>9 DEF RunInv
  <2>4. ASSUME NEW q \in RunIds, q # r
        PROVE  UnderWorker(q)'
    BY <1>1, <1>4, <2>3, <2>4 DEF ActOK, UnderWorker
  <2>5. \A k \in DOMAIN ss : ~IsClip(ss[k]) /\ ss[k].state = "running" => k = i
    BY <1>1, <1>4 DEF ActOK, UnderWorker, ss
  <2>6. UnderWorker(r)'
    BY <1>5, <1>7, <1>10, <1>14, <2>3, <2>5 DEF UnderWorker
  <2>7. HasClip(tt) \/ ~HasFailed(tt)
    BY <1>13, <1>14, <1>b DEF RunFits, Terminal
  <2>8. ActFits(tt, rec)'
    <3>1. /\ tt[i].kind = "message" /\ tt[i].state = "waiting_delivery" /\ rec.state # "none"
          /\ i \in DOMAIN tt
      BY <1>5, <1>7, <1>10, <1>14, <1>b DEF ss
    <3>. QED  BY <2>2, <2>7, <3>1 DEF ActFits
  <2>9. ActOK'
    BY <2>2, <2>3, <2>4, <2>6, <2>8 DEF ActOK, ActFits
  <2>. QED  BY <1>2, <1>7, <1>9, <1>10, <1>11, <1>13, <2>9, WorkerRows DEF ss
<1>15. CASE ~b
  <2>1. Over(tt, ss, i) /\ tt[i].state = "succeeded"
    BY <1>5, <1>7, <1>11, <1>15 DEF Over, Terminal
  <2>2. rec.state # "none"
    BY <1>b
  <2>. QED  BY <1>1, <1>2, <1>9, <1>13, <1>15, <2>1, <2>2, StepOver DEF ss
<1>. QED  BY <1>14, <1>15

-----------------------------------------------------------------------------
(***************************************************************************)
(* Requests, and the worker between two steps.                             *)
(***************************************************************************)
\* The rows of a new run.
Fresh(shape) == [i \in DOMAIN shape |-> NewStep(shape[i])]

\* The rows of a new run fit its record.
LEMMA FreshRows ==
  ASSUME NEW shape \in RunShapes
  PROVE  /\ RowsOK(Fresh(shape)) /\ RunFits(Fresh(shape), [state |-> "queued", at |-> 1])
         /\ \A i \in DOMAIN Fresh(shape) : Fresh(shape)[i].state = "queued" /\ Fresh(shape)[i].status = "none"
<1>. DEFINE ss == Fresh(shape)
<1>1. /\ shape \in Seq(StepKinds)
      /\ \A i, k \in DOMAIN shape : shape[i] \in ClipKinds /\ shape[k] \in ClipKinds => i = k
  BY RunScope
<1>2. Len(shape) \in Nat /\ DOMAIN shape = 1 .. Len(shape) /\ \A i \in DOMAIN shape : shape[i] \in StepKinds
  BY <1>1, LenProperties, ElementOfSeq
<1>3. DOMAIN ss = 1 .. Len(shape) /\ \A i \in DOMAIN shape : ss[i] = NewStep(shape[i])
  BY <1>2 DEF Fresh
<1>4. \A k \in StepKinds : /\ NewStep(k) \in StepRows /\ NewStep(k).kind = k /\ NewStep(k).state = "queued"
                           /\ NewStep(k).status = "none" /\ NewStep(k).out = "none" /\ NewStep(k).done = 0
  BY DEF NewStep, StepRows, BeforeSend
<1>5. ss = [i \in 1 .. Len(shape) |-> ss[i]]
  BY <1>2 DEF Fresh
<1>. HIDE DEF ss
<1>6. \A i \in DOMAIN ss : /\ ss[i] \in StepRows /\ ss[i].kind = shape[i] /\ ss[i].state = "queued"
                           /\ ss[i].status = "none" /\ ss[i].out = "none" /\ ss[i].done = 0
  BY <1>2, <1>3, <1>4
<1>7. ss \in Seq(StepRows)
  BY <1>2, <1>3, <1>5, <1>6, RowWise
<1>8. \A i \in DOMAIN ss : RowOK(ss[i])
  BY <1>6 DEF RowOK, ExecOK, MessageOK, ClipRowOK, Earned, BeforeSend
<1>9. OneClip(ss)
  BY <1>1, <1>2, <1>3, <1>6 DEF OneClip, IsClip
<1>10. InOrder(ss)
  BY <1>6 DEF InOrder, Untouched
<1>11. ~HasFailed(ss) /\ CutThrough(ss)
  BY <1>6 DEF HasFailed, CutThrough, FailedExec
<1>12. FromFirst(ss, 1)
  BY <1>2, <1>3 DEF FromFirst, Due
<1>13. RunFits(ss, [state |-> "queued", at |-> 1])
  BY <1>11, <1>12 DEF RunFits, RunStates
<1>. QED  BY <1>6, <1>7, <1>8, <1>9, <1>10, <1>13 DEF RowsOK, ss

\* A request is accepted.
LEMMA PostStep ==
  ASSUME RunInv, NEW r \in RunIds, NEW shape \in RunShapes, Post(r, shape)
  PROVE  RunInv'
<1>1. PICK tt : tt = Fresh(shape)
  OBVIOUS
<1>2. PICK rec : rec = [state |-> "queued", at |-> 1]
  OBVIOUS
<1>3. PICK c : c = IF HasClip(tt) THEN "new" ELSE "none"
  OBVIOUS
<1>4. /\ runs[r].state = "none" /\ steps' = [steps EXCEPT ![r] = tt] /\ runs' = [runs EXCEPT ![r] = rec]
      /\ clip' = [clip EXCEPT ![r] = IF HasClip(steps'[r]) THEN "new" ELSE "none"] /\ UNCHANGED <<act, history>>
  BY <1>1, <1>2 DEF Post, Fresh, aside
<1>5. /\ RunOK(r) /\ ActOK /\ steps = [q \in RunIds |-> steps[q]] /\ runs = [q \in RunIds |-> runs[q]]
  BY DEF RunInv
<1>6. clip' = [clip EXCEPT ![r] = c]
  BY <1>3, <1>4, <1>5
<1>7. /\ RowsOK(tt) /\ RunFits(tt, rec)
      /\ \A i \in DOMAIN tt : tt[i].state = "queued" /\ tt[i].status = "none"
  BY <1>1, <1>2, FreshRows
<1>8. r \notin recalled
  BY <1>4, <1>5 DEF RunOK, RunFits, Recalled, HasClip
<1>9. ClipFits(tt, c)
  <2>1. CASE HasClip(tt)
    BY <1>3, <1>7, <2>1, ClipIsIt DEF ClipFits, ClipStages, StageFits, RowsOK
  <2>2. CASE ~HasClip(tt)
    BY <1>3, <2>2 DEF ClipFits, ClipStages
  <2>. QED  BY <2>1, <2>2
<1>10. ActOK'
  <2>1. steps'[r] = tt /\ \A q \in RunIds : q # r => steps'[q] = steps[q] /\ runs'[q] = runs[q]
    BY <1>4, <1>5
  <2>2. act' = act
    BY <1>4
  <2>3. ASSUME act.stage # "idle"
        PROVE  act.run \in RunIds /\ act.run # r /\ ActFits(steps[act.run], runs[act.run])
    BY <1>4, <1>5, <2>3 DEF ActOK, ActFits
  <2>4. act.stage # "idle" => act.run \in RunIds /\ ActFits(steps[act.run], runs[act.run])'
    BY <2>1, <2>2, <2>3 DEF ActFits
  <2>5. \A q \in RunIds : UnderWorker(q)'
    BY <1>5, <1>7, <2>1, <2>2 DEF ActOK, UnderWorker
  <2>. QED  BY <1>5, <2>2, <2>4, <2>5 DEF ActOK
<1>. QED  BY <1>4, <1>6, <1>7, <1>8, <1>9, <1>10, OneRun

\* A run is claimed.
LEMMA ClaimRunStep ==
  ASSUME RunInv, ClaimRun
  PROVE  RunInv'
<1>. DEFINE free == {q \in RunIds : /\ runs[q].state \in ClaimableRuns
                                    /\ HasClip(steps[q]) => Due(steps[q]) # {}}
<1>1. PICK r : r = Least(free)
  OBVIOUS
<1>2. PICK v : v = IF runs[r].state = "queued" THEN "running" ELSE runs[r].state
  OBVIOUS
<1>3. PICK rec : rec = [runs[r] EXCEPT !.state = v]
  OBVIOUS
<1>4. /\ free # {} /\ free \subseteq Nat /\ act = Idle /\ UNCHANGED <<steps, clip, history>>
      /\ act' = [run |-> r, at |-> runs[r].at, stage |-> "claimed"]
  BY <1>1 DEF ClaimRun, RunIds, aside
<1>5. runs' = [runs EXCEPT ![r] = rec]
  BY <1>1, <1>2, <1>3 DEF ClaimRun
<1>6. r \in RunIds /\ runs[r].state \in {"queued", "waiting_delivery"}
  BY <1>1, <1>4, LeastIsFirst DEF ClaimableRuns
<1>7. /\ RowsOK(steps[r]) /\ RunFits(steps[r], runs[r]) /\ ActOK
      /\ steps = [q \in RunIds |-> steps[q]] /\ runs = [q \in RunIds |-> runs[q]]
  BY <1>6 DEF RunInv, RunOK
<1>8. v \in {"running", "waiting_delivery"} /\ runs[r] \in [state : RunStates, at : Nat]
  BY <1>2, <1>6, <1>7 DEF RunFits
<1>9. rec \in [state : RunStates, at : Nat] /\ rec.state = v /\ rec.at = runs[r].at
  BY <1>3, <1>8 DEF RunStates
<1>10. FromFirst(steps[r], runs[r].at) /\ (HasClip(steps[r]) \/ ~HasFailed(steps[r]))
  BY <1>6, <1>7 DEF RunFits, Terminal
<1>11. RunFits(steps[r], rec)
  BY <1>7, <1>8, <1>9, <1>10 DEF RunFits, Terminal
<1>12. steps' = [steps EXCEPT ![r] = steps[r]]
  BY <1>4, <1>7
<1>13. ActOK'
  <2>1. /\ act' \in [run : 0 .. MaxRuns, at : Nat, stage : Stages] /\ act'.stage = "claimed"
        /\ act'.run = r /\ act'.at = runs[r].at
    BY <1>4, <1>6, <1>8, RunBounds DEF Stages, RunIds
  <2>2. steps' = steps /\ runs'[r] = rec
    BY <1>4, <1>5, <1>6, <1>7
  <2>3. ActFits(steps[r], rec)'
    BY <1>8, <1>9, <1>10, <2>1, <2>2 DEF ActFits
  <2>4. \A q \in RunIds : \A i \in DOMAIN steps[q] : ~IsClip(steps[q][i]) => steps[q][i].state # "running"
    BY <1>4, <1>7 DEF ActOK, UnderWorker, Idle
  <2>5. \A q \in RunIds : UnderWorker(q)'
    BY <2>2, <2>4 DEF UnderWorker
  <2>. QED  BY <1>6, <2>1, <2>2, <2>3, <2>5 DEF ActOK, ActFits
<1>. QED  BY <1>4, <1>5, <1>6, <1>7, <1>11, <1>12, <1>13, WorkerRows

\* A step is begun: an exec is counted when it starts.
Begun(s) == [s EXCEPT !.state = "running", !.done = IF s.kind = "exec" THEN s.done + 1 ELSE s.done]

\* A step that is begun.
LEMMA BegunRow ==
  ASSUME NEW s, RowOK(s), s.state = "queued", ~IsClip(s)
  PROVE  /\ RowOK(Begun(s)) /\ Begun(s).kind = s.kind /\ Begun(s).state = "running"
<1>. DEFINE u == [s EXCEPT !.state = "running"]
            n == IF s.kind = "exec" THEN s.done + 1 ELSE s.done
<1>1. s \in StepRows /\ s.kind \in {"message", "exec"} /\ s.done = 0
  BY RowFields DEF RowOK, ExecOK, MessageOK, IsClip, ClipKinds, StepKinds
<1>2. n \in 0 .. 1 /\ (s.kind = "message" => n = 0)
  BY <1>1
<1>. HIDE DEF n
<1>3. /\ u \in StepRows /\ u.state = "running" /\ u.kind = s.kind /\ u.status = s.status /\ u.out = s.out
  BY <1>1, SetState DEF RowStates
<1>4. Begun(s) = [u EXCEPT !.done = n]
  BY <1>1 DEF Begun, n
<1>. HIDE DEF u
<1>5. /\ Begun(s) \in StepRows /\ Begun(s).done = n /\ Begun(s).kind = s.kind /\ Begun(s).state = "running"
      /\ Begun(s).out = s.out
  BY <1>2, <1>3, <1>4, SetDone
<1>6. RowOK(Begun(s))
  BY <1>1, <1>2, <1>5 DEF RowOK, ExecOK, MessageOK, Earned, IsClip, ClipKinds
<1>. QED  BY <1>5, <1>6

BeginAt(ss, i) == [ss EXCEPT ![i] = Begun(ss[i])]
AtWork(i)     == [state |-> "running", at |-> i]

\* The first step due is begun: what is before it is settled and has not failed.
LEMMA BegunRows ==
  ASSUME NEW ss, RowsOK(ss), NEW i \in DOMAIN ss, ~IsClip(ss[i]), ss[i].state = "queued", IsFirst(ss, i),
         NEW rec, RunFits(ss, rec), HasClip(ss) \/ ~HasFailed(ss), NEW tt, tt = BeginAt(ss, i)
  PROVE  /\ RowsOK(tt) /\ DOMAIN tt = DOMAIN ss /\ (HasClip(tt) <=> HasClip(ss))
         /\ HasClip(ss) => Clip(tt) = Clip(ss) /\ tt[Clip(tt)] = ss[Clip(ss)]
         /\ tt[i].kind = ss[i].kind /\ tt[i].state = "running" /\ ~IsClip(tt[i])
         /\ \A k \in DOMAIN ss : k # i => tt[k] = ss[k]
         /\ RunFits(tt, AtWork(i)) /\ (HasClip(tt) \/ ~HasFailed(tt))
<1>1. /\ ss \in Seq(StepRows) /\ (\A k \in DOMAIN ss : RowOK(ss[k])) /\ OneClip(ss) /\ InOrder(ss)
      /\ \A k \in DOMAIN ss : k \in Nat
  BY RowsDomain DEF RowsOK
<1>2. RowOK(Begun(ss[i])) /\ Begun(ss[i]).kind = ss[i].kind /\ Begun(ss[i]).state = "running"
  BY <1>1, BegunRow
<1>3. Begun(ss[i]) \in StepRows
  BY <1>2 DEF RowOK
<1>4. /\ DOMAIN tt = DOMAIN ss /\ tt[i] = Begun(ss[i]) /\ \A k \in DOMAIN ss : k # i => tt[k] = ss[k]
  BY <1>1 DEF BeginAt
<1>5. tt \in Seq(StepRows)
  BY <1>1, <1>3, RowsDomain, ExceptSeq DEF BeginAt
<1>6. /\ OneClip(tt) /\ (HasClip(tt) <=> HasClip(ss)) /\ (HasClip(ss) => Clip(tt) = Clip(ss))
      /\ \A k \in DOMAIN ss : IsClip(tt[k]) <=> IsClip(ss[k])
  <2>1. \A k \in DOMAIN ss : tt[k].kind = ss[k].kind
    BY <1>2, <1>4
  <2>2. OneClip(ss) /\ DOMAIN tt = DOMAIN ss
    BY <1>1, <1>4
  <2>3. /\ OneClip(tt) /\ (HasClip(tt) <=> HasClip(ss)) /\ (HasClip(ss) => Clip(tt) = Clip(ss))
        /\ \A k \in DOMAIN ss : IsClip(tt[k]) <=> IsClip(ss[k])
    BY <2>1, <2>2, SameClips, Zenon
  <2>. QED  BY <2>3
<1>7. InOrder(tt)
  <2>1. ASSUME NEW p \in DOMAIN ss, NEW k \in DOMAIN ss, p < k, ~IsClip(tt[p]), ~IsClip(tt[k]), HoldsBack(tt[p])
        PROVE  Untouched(tt[k])
    <3>1. k # i
      BY <1>1, <1>4, <1>6, <2>1 DEF HoldsBack, IsFirst
    <3>2. HoldsBack(ss[p])
      BY <1>4, <2>1 DEF HoldsBack, Settled, Terminal
    <3>. QED  BY <1>1, <1>4, <1>6, <2>1, <3>1, <3>2 DEF InOrder
  <2>. QED  BY <1>4, <2>1 DEF InOrder
<1>8. \A k \in DOMAIN ss : RowOK(tt[k])
  BY <1>1, <1>2, <1>4
<1>9. HasClip(ss) => Clip(ss) \in DOMAIN ss /\ Clip(ss) # i
  BY <1>1, ClipIsIt
<1>10. \A k \in DOMAIN ss : FailedExec(tt[k]) <=> FailedExec(ss[k])
  BY <1>2, <1>4 DEF FailedExec
<1>11. HasFailed(tt) <=> HasFailed(ss)
  BY <1>4, <1>10 DEF HasFailed
<1>12. HasClip(tt) => CutThrough(tt)
  <2>1. ASSUME HasClip(tt), NEW p \in DOMAIN ss, NEW k \in DOMAIN ss, p < k, FailedExec(tt[p]), ~IsClip(tt[k])
        PROVE  Settled(tt[k])
    <3>1. FailedExec(ss[p]) /\ Settled(ss[k])
      BY <1>6, <1>10, <2>1 DEF RunFits, CutThrough
    <3>2. k # i
      BY <3>1 DEF Settled, Terminal
    <3>. QED  BY <1>4, <3>1, <3>2
  <2>. QED  BY <1>4, <2>1 DEF CutThrough
<1>13. FromFirst(tt, i)
  BY <1>1, <1>4, <1>6 DEF FromFirst, Due, IsFirst
<1>14. RunFits(tt, AtWork(i))
  BY <1>1, <1>6, <1>11, <1>12, <1>13 DEF RunFits, RunStates, AtWork
<1>. QED  BY <1>2, <1>4, <1>5, <1>6, <1>7, <1>8, <1>9, <1>11, <1>14 DEF RowsOK

\* Only rows of the worker's run change, and none runs any more.
LEMMA WorkerIdle ==
  ASSUME RunInv, NEW r \in RunIds, NEW tt, steps' = [steps EXCEPT ![r] = tt], act' = Idle,
         \A q \in RunIds : \A i \in DOMAIN steps[q] : ~IsClip(steps[q][i]) => steps[q][i].state # "running",
         \A i \in DOMAIN tt : ~IsClip(tt[i]) => tt[i].state # "running"
  PROVE  ActOK'
<1>1. act' \in [run : 0 .. MaxRuns, at : Nat, stage : Stages] /\ act'.stage = "idle"
  BY RunBounds DEF Idle, Stages
<1>2. \A q \in RunIds : steps'[q] = IF q = r THEN tt ELSE steps[q]
  BY DEF RunInv
<1>3. \A q \in RunIds : UnderWorker(q)'
  BY <1>2 DEF UnderWorker
<1>. QED  BY <1>1, <1>3 DEF ActOK, Idle

\* The worker goes to the first step due, or leaves the run.
LEMMA ProceedStep ==
  ASSUME RunInv, Proceed
  PROVE  RunInv'
<1>0. PICK r : r = act.run
  OBVIOUS
<1>. DEFINE ss == steps[r]
            left == {k \in Due(ss) : k >= act.at}
<1>1. PICK i : i = Least(left)
  OBVIOUS
<1>2. /\ r \in RunIds /\ RowsOK(ss) /\ RunFits(ss, runs[r]) /\ ActOK /\ ActFits(ss, runs[r])
      /\ steps = [q \in RunIds |-> steps[q]] /\ runs = [q \in RunIds |-> runs[q]]
      /\ UNCHANGED <<clip, history>> /\ act.stage \in {"claimed", "go"}
  BY <1>0 DEF RunInv, RunOK, ActOK, Proceed, aside
<1>3. /\ FromFirst(ss, act.at) /\ runs[r].state # "none" /\ (HasClip(ss) \/ ~HasFailed(ss))
      /\ act.at \in Nat /\ \A k \in DOMAIN ss : k \in Nat /\ RowOK(ss[k])
  BY <1>2, RowsDomain DEF ActFits, ActOK, RowsOK
<1>4. left = Due(ss)
  BY <1>3 DEF FromFirst, Due
<1>5. \A q \in RunIds : \A k \in DOMAIN steps[q] : ~IsClip(steps[q][k]) => steps[q][k].state # "running"
  BY <1>2 DEF ActOK, UnderWorker
<1>6. steps = [steps EXCEPT ![r] = ss] /\ runs = [runs EXCEPT ![r] = runs[r]]
  BY <1>2
<1>7. CASE left = {} /\ HasClip(ss)
  <2>1. act' = Idle /\ Write(r, ss, "none", 0)
    BY <1>0, <1>1, <1>7 DEF Proceed
  <2>2. PICK tt, rec : tt = Cut(ss) /\ rec = Verdict(Cut(ss))
    OBVIOUS
  <2>3. /\ steps' = [steps EXCEPT ![r] = tt] /\ runs' = [runs EXCEPT ![r] = rec] /\ RowsOK(tt) /\ RunFits(tt, rec)
        /\ HasClip(tt) /\ Clip(tt) = Clip(ss) /\ tt[Clip(ss)] = ss[Clip(ss)]
    BY <1>2, <1>7, <2>1, <2>2, WriteFits
  <2>4. \A k \in DOMAIN tt : ~IsClip(tt[k]) => tt[k].state # "running"
    <3>1. DOMAIN tt = DOMAIN ss /\ \A k \in DOMAIN ss : IsClip(tt[k]) <=> IsClip(ss[k])
      BY <1>2, <2>2, CutRows, FollowsOK DEF Follows
    <3>2. \A k \in DOMAIN ss : tt[k] = ss[k] \/ tt[k].state = "failed"
      BY <1>2, <2>2, CutRows
    <3>. QED  BY <1>2, <1>5, <3>1, <3>2
  <2>5. ActOK'
    BY <1>2, <1>5, <2>1, <2>3, <2>4, WorkerIdle
  <2>. QED  BY <1>2, <1>7, <2>3, <2>5, WorkerRows
<1>8. CASE left = {} /\ ~HasClip(ss)
  <2>1. /\ act' = Idle /\ UNCHANGED steps
        /\ runs' = [runs EXCEPT ![r].state = IF \A k \in DOMAIN ss : ss[k].state = "succeeded"
                                             THEN "succeeded" ELSE @]
    BY <1>0, <1>1, <1>8 DEF Proceed
  <2>2. PICK v : v = IF AllSucceeded(ss) THEN "succeeded" ELSE runs[r].state
    OBVIOUS
  <2>3. PICK rec : rec = [runs[r] EXCEPT !.state = v]
    OBVIOUS
  <2>4. runs' = [runs EXCEPT ![r] = rec] /\ steps' = [steps EXCEPT ![r] = ss]
    BY <1>6, <2>1, <2>2, <2>3 DEF AllSucceeded
  <2>5. /\ runs[r] \in [state : RunStates, at : Nat] /\ v \in RunStates /\ (v = "succeeded" => AllSucceeded(ss))
        /\ v = runs[r].state \/ v = "succeeded"
    BY <1>2, <2>2 DEF RunFits, RunStates, Terminal
  <2>6. rec \in [state : RunStates, at : Nat] /\ rec.state = v /\ rec.at = runs[r].at
    BY <2>3, <2>5
  <2>7. RunFits(ss, rec)
    BY <1>2, <1>3, <1>8, <2>5, <2>6 DEF RunFits, Terminal
  <2>8. ActOK'
    BY <1>2, <1>5, <2>1, <2>4, WorkerIdle
  <2>. QED  BY <1>2, <2>4, <2>7, <2>8, WorkerRows
<1>9. ASSUME left # {}
      PROVE  /\ i \in DOMAIN ss /\ ~IsClip(ss[i]) /\ ~Settled(ss[i]) /\ ss[i].state \in {"queued", "waiting_delivery"}
             /\ ss[i].kind \in {"message", "exec"} /\ (ss[i].kind = "exec" => ss[i].state = "queued") /\ i \in Nat
             /\ \A p \in DOMAIN ss : p < i /\ ~IsClip(ss[p]) => Settled(ss[p]) /\ ~FailedExec(ss[p])
  <2>1. left \subseteq Nat
    BY <1>3 DEF Due
  <2>2. i \in Due(ss) /\ \A k \in Due(ss) : i <= k
    BY <1>1, <1>4, <1>9, <2>1, LeastIsFirst
  <2>3. i \in DOMAIN ss /\ ~IsClip(ss[i]) /\ ~Settled(ss[i]) /\ RowOK(ss[i]) /\ i \in Nat
    BY <1>3, <2>2 DEF Due
  <2>4. ss[i].state \in RowStates /\ ss[i].kind \in StepKinds
    BY <2>3, RowFields DEF RowOK
  <2>5. ss[i].state \in {"queued", "waiting_delivery"} /\ ss[i].kind \in {"message", "exec"}
    BY <1>2, <1>5, <2>3, <2>4 DEF RowStates, Settled, IsClip, ClipKinds, StepKinds
  <2>6. ss[i].kind = "exec" => ss[i].state = "queued"
    BY <2>3, <2>5 DEF RowOK, ExecOK
  <2>7. ASSUME NEW p \in DOMAIN ss, p < i, ~IsClip(ss[p])
        PROVE  Settled(ss[p]) /\ ~FailedExec(ss[p])
    <3>1. Settled(ss[p])
      BY <1>3, <2>2, <2>3, <2>7 DEF Due
    <3>2. HasClip(ss) => ~FailedExec(ss[p])
      BY <1>2, <2>3, <2>7 DEF RunFits, CutThrough
    <3>3. ~HasClip(ss) => ~FailedExec(ss[p])
      BY <1>3 DEF HasFailed
    <3>. QED  BY <3>1, <3>2, <3>3
  <2>. QED  BY <2>3, <2>5, <2>6, <2>7
<1>10. CASE left # {} /\ ss[i].state = "waiting_delivery"
  <2>1. act' = [run |-> r, at |-> i, stage |-> "deliver"] /\ UNCHANGED <<runs, steps>>
    BY <1>0, <1>1, <1>10 DEF Proceed
  <2>2. /\ act' \in [run : 0 .. MaxRuns, at : Nat, stage : Stages] /\ act'.run = r /\ act'.at = i
        /\ act'.stage = "deliver"
    BY <1>2, <1>9, <1>10, <2>1, RunBounds DEF Stages, RunIds
  <2>3. ActFits(ss, runs[r])'
    BY <1>3, <1>9, <1>10, <2>1, <2>2 DEF ActFits
  <2>4. \A q \in RunIds : UnderWorker(q)'
    BY <1>5, <2>1 DEF UnderWorker
  <2>5. ActOK'
    BY <1>2, <2>1, <2>2, <2>3, <2>4 DEF ActOK
  <2>6. steps' = [steps EXCEPT ![r] = ss] /\ runs' = [runs EXCEPT ![r] = runs[r]]
    BY <1>6, <2>1
  <2>. QED  BY <1>2, <2>5, <2>6, WorkerRows
<1>11. CASE left # {} /\ ss[i].state # "waiting_delivery"
  <2>0. PICK stage : stage = IF ss[i].kind = "message" THEN "turn" ELSE "exec"
    OBVIOUS
  <2>1. /\ act' = [run |-> r, at |-> i, stage |-> stage]
        /\ runs' = [runs EXCEPT ![r] = [state |-> "running", at |-> i]]
        /\ steps' = [steps EXCEPT ![r][i].state = "running",
                                  ![r][i].done = IF ss[i].kind = "exec" THEN @ + 1 ELSE @]
    BY <1>0, <1>1, <1>11, <2>0 DEF Proceed
  <2>2. PICK tt : tt = BeginAt(ss, i)
    OBVIOUS
  <2>3. PICK rec : rec = AtWork(i)
    OBVIOUS
  <2>4. ss[i] \in StepRows /\ i \in DOMAIN ss
    BY <1>3, <1>9, <1>11 DEF RowOK
  <2>5. steps' = [steps EXCEPT ![r] = tt]
    BY <1>2, <2>1, <2>2, <2>4 DEF Begun, BeginAt, StepRows
  <2>6. /\ RowsOK(tt) /\ DOMAIN tt = DOMAIN ss /\ (HasClip(tt) <=> HasClip(ss))
        /\ HasClip(ss) => Clip(tt) = Clip(ss) /\ tt[Clip(tt)] = ss[Clip(ss)]
        /\ tt[i].kind = ss[i].kind /\ tt[i].state = "running" /\ ~IsClip(tt[i])
        /\ \A k \in DOMAIN ss : k # i => tt[k] = ss[k]
        /\ RunFits(tt, rec) /\ (HasClip(tt) \/ ~HasFailed(tt))
    <3>1. /\ ss[i].state = "queued" /\ ~IsClip(ss[i]) /\ IsFirst(ss, i)
      BY <1>9, <1>11 DEF IsFirst
    <3>. HIDE DEF ss
    <3>2. RowsOK(ss) /\ RunFits(ss, runs[r]) /\ (HasClip(ss) \/ ~HasFailed(ss)) /\ i \in DOMAIN ss
      BY <1>2, <1>3, <2>4
    <3>. QED  BY <2>2, <2>3, <3>1, <3>2, BegunRows
  <2>7. /\ act' \in [run : 0 .. MaxRuns, at : Nat, stage : Stages] /\ act'.run = r /\ act'.at = i
        /\ act'.stage = stage /\ stage \in {"turn", "exec"}
    BY <1>2, <1>9, <1>11, <2>0, <2>1, RunBounds DEF Stages, RunIds
  <2>8. steps'[r] = tt /\ runs'[r] = rec /\ \A q \in RunIds : q # r => steps'[q] = steps[q]
    BY <1>2, <2>1, <2>3, <2>5 DEF AtWork
  <2>9. ActFits(tt, rec)'
    <3>1. rec.state # "none" /\ i \in DOMAIN tt
      BY <2>3, <2>4, <2>6 DEF AtWork
    <3>2. tt[i].kind = IF stage = "turn" THEN "message" ELSE "exec"
      BY <1>9, <1>11, <2>0, <2>6
    <3>. QED  BY <2>6, <2>7, <3>1, <3>2 DEF ActFits
  <2>10. \A q \in RunIds : UnderWorker(q)'
    <3>1. ASSUME NEW q \in RunIds, q # r
          PROVE  UnderWorker(q)'
      BY <1>5, <2>8, <3>1 DEF UnderWorker
    <3>2. \A k \in DOMAIN tt : ~IsClip(tt[k]) /\ tt[k].state = "running" => k = i
      BY <1>2, <1>5, <2>6
    <3>3. UnderWorker(r)'
      BY <2>7, <2>8, <3>2 DEF UnderWorker
    <3>. QED  BY <3>1, <3>3
  <2>11. ActOK'
    BY <1>2, <2>7, <2>8, <2>9, <2>10 DEF ActOK
  <2>. QED  BY <1>2, <2>1, <2>3, <2>5, <2>6, <2>11, WorkerRows DEF AtWork
<1>. QED  BY <1>7, <1>8, <1>10, <1>11

-----------------------------------------------------------------------------
(***************************************************************************)
(* The outbox, /stop and restarts.                                         *)
(***************************************************************************)
\* What a run's record must fit is said by the kinds and states of its rows.
LEMMA SameStates ==
  ASSUME NEW ss, NEW tt, NEW rec, RunFits(ss, rec), DOMAIN tt = DOMAIN ss,
         \A k \in DOMAIN ss : tt[k].kind = ss[k].kind /\ tt[k].state = ss[k].state
  PROVE  RunFits(tt, rec)
<1>1. /\ HasClip(tt) <=> HasClip(ss)
      /\ \A k \in DOMAIN ss : /\ IsClip(tt[k]) <=> IsClip(ss[k])
                              /\ FailedExec(tt[k]) <=> FailedExec(ss[k])
                              /\ Settled(tt[k]) <=> Settled(ss[k])
  BY DEF HasClip, IsClip, FailedExec, Settled
<1>2. Due(tt) = Due(ss) /\ (HasFailed(tt) <=> HasFailed(ss)) /\ (AllSucceeded(tt) <=> AllSucceeded(ss))
  BY <1>1 DEF Due, HasFailed, AllSucceeded
<1>3. CutThrough(tt) <=> CutThrough(ss)
  BY <1>1 DEF CutThrough
<1>. QED  BY <1>1, <1>2, <1>3 DEF RunFits, FromFirst

\* The outbox settles bubbles of a step, also of one that has ended.
LEMMA BubblesSettleStep ==
  ASSUME RunInv, NEW r \in RunIds, NEW i, NEW s \in {"sent", "failed", "ambiguous"}, BubblesSettle(r, i, s)
  PROVE  RunInv'
<1>. DEFINE ss == steps[r]
<1>1. PICK t : t = [ss[i] EXCEPT !.out = s]
  OBVIOUS
<1>2. PICK tt : tt = [ss EXCEPT ![i] = t]
  OBVIOUS
<1>3. i \in DOMAIN ss /\ ss[i].out = "pending" /\ steps' = [steps EXCEPT ![r] = tt] /\ UNCHANGED <<runs, act, clip, history>>
  BY <1>1, <1>2 DEF BubblesSettle, aside
<1>4. /\ RowsOK(ss) /\ RunFits(ss, runs[r]) /\ ClipFits(ss, clip[r])
      /\ r \in recalled => Recalled(ss, clip[r], r \in missed)
      /\ runs = [q \in RunIds |-> runs[q]] /\ clip = [q \in RunIds |-> clip[q]]
  BY DEF RunInv, RunOK
<1>. HIDE DEF ss
<1>5. RowOK(ss[i]) /\ ss[i] \in StepRows /\ s \in Outs /\ s # "none"
  BY <1>3, <1>4 DEF RowsOK, RowOK, Outs
<1>6. /\ t \in StepRows /\ t.out = s /\ t.kind = ss[i].kind /\ t.state = ss[i].state /\ t.status = ss[i].status
      /\ t.done = ss[i].done
  BY <1>1, <1>5, SetOut
<1>7. RowOK(t)
  BY <1>3, <1>5, <1>6 DEF RowOK, ExecOK, MessageOK, ClipRowOK, Earned, IsClip
<1>8. Replaces(t, ss[i])
  BY <1>3, <1>6, <1>7 DEF Replaces, HoldsBack, Settled, FailedExec, Untouched
<1>9. Follows(tt, ss) /\ tt[i] = t /\ \A k \in DOMAIN ss : k # i => tt[k] = ss[k]
  BY <1>2, <1>3, <1>4, <1>8, ReplaceOne
<1>10. \A k \in DOMAIN ss : /\ tt[k].kind = ss[k].kind /\ tt[k].state = ss[k].state /\ tt[k].status = ss[k].status
                            /\ ss[k].out # "none" => tt[k].out # "none"
  BY <1>5, <1>6, <1>9
<1>11. DOMAIN tt = DOMAIN ss
  BY <1>9 DEF Follows
<1>12. RowsOK(tt) /\ (HasClip(tt) <=> HasClip(ss)) /\ (HasClip(ss) => Clip(tt) = Clip(ss))
  BY <1>4, <1>9, FollowsOK
<1>13. RunFits(tt, runs[r])
  BY <1>4, <1>10, <1>11, SameStates
<1>14. HasClip(ss) => Clip(ss) \in DOMAIN ss
  BY <1>4, ClipIsIt DEF RowsOK
<1>15. ClipFits(tt, clip[r])
  BY <1>4, <1>10, <1>12, <1>14 DEF ClipFits, StageFits, Settled
<1>16. r \in recalled => Recalled(tt, clip[r], r \in missed)
  BY <1>3, <1>4, <1>9, <1>10, <1>12, <1>14 DEF Recalled, Settled
<1>17. Calm(tt, ss)
  BY <1>9, <1>10 DEF Calm
<1>18. runs' = [runs EXCEPT ![r] = runs[r]] /\ clip' = [clip EXCEPT ![r] = clip[r]]
  BY <1>3, <1>4
<1>19. ActOK'
  BY <1>3, <1>17, <1>18, ActKept DEF ss
<1>. QED  BY <1>3, <1>12, <1>13, <1>15, <1>16, <1>18, <1>19, OneRun

\* /stop, for one run.
Hit(r) == clip[r] \notin {"none", "stopped"} /\ Row(r).status \in BeforeSend

HaltRows(r) ==
  IF Hit(r) /\ (Row(r).state = "queued" \/ Row(r).status # "recording")
  THEN Cut(Ended(steps[r], Clip(steps[r]), "failed")) ELSE steps[r]
HaltRun(r)  == IF HaltRows(r) = steps[r] THEN runs[r] ELSE Verdict(HaltRows(r))
HaltClip(r) == IF ~Hit(r) THEN clip[r] ELSE IF clip[r] = "record" THEN "stopped" ELSE "none"

\* What /stop leaves of one run.
LEMMA HaltOne ==
  ASSUME RunInv, NEW r \in RunIds
  PROVE  /\ RowsOK(HaltRows(r)) /\ Calm(HaltRows(r), steps[r]) /\ RunFits(HaltRows(r), HaltRun(r))
         /\ ClipFits(HaltRows(r), HaltClip(r))
         /\ r \in recalled \/ (Hit(r) /\ ~Spoke(Row(r))) => Recalled(HaltRows(r), HaltClip(r), r \in missed)
         /\ runs[r].state # "none" => HaltRun(r).state # "none"
         /\ ~Hit(r) => HaltRows(r) = steps[r]
         /\ Hit(r) => HasClip(HaltRows(r))
<1>. DEFINE ss == steps[r]
<1>1. /\ RowsOK(ss) /\ RunFits(ss, runs[r]) /\ ClipFits(ss, clip[r])
      /\ r \in recalled => Recalled(ss, clip[r], r \in missed)
  BY DEF RunInv, RunOK
<1>2. Calm(ss, ss)
  BY <1>1, FollowsSelf DEF Calm
<1>3. CASE ~Hit(r)
  <2>1. HaltRows(r) = ss /\ HaltRun(r) = runs[r] /\ HaltClip(r) = clip[r]
    BY <1>3 DEF HaltRows, HaltRun, HaltClip
  <2>. QED  BY <1>1, <1>2, <1>3, <2>1
<1>4. CASE Hit(r)
  <2>1. /\ HasClip(ss) /\ Clip(ss) \in DOMAIN ss /\ Row(r) = ss[Clip(ss)] /\ RowOK(Row(r)) /\ IsClip(Row(r))
        /\ StageFits(Row(r), clip[r]) /\ ClipRowOK(Row(r)) /\ Row(r).status \in BeforeSend
        /\ clip[r] # "none" /\ clip[r] # "stopped" /\ r \notin recalled
    BY <1>4, ClipFacts DEF Hit
  <2>2. ~Spoke(Row(r)) => ss[Clip(ss)].out = "none"
    BY <2>1 DEF Spoke
  <2>3. PICK c : c = HaltClip(r)
    OBVIOUS
  <2>4. c = IF clip[r] = "record" THEN "stopped" ELSE "none"
    BY <1>4, <2>3 DEF HaltClip
  <2>5. CASE Row(r).state = "queued" \/ Row(r).status # "recording"
    <3>1. PICK uu : uu = Ended(ss, Clip(ss), "failed")
      OBVIOUS
    <3>2. PICK tt : tt = HaltRows(r)
      OBVIOUS
    <3>3. tt = Cut(uu)
      BY <1>4, <2>5, <3>1, <3>2 DEF HaltRows
    <3>. HIDE DEF ss
    <3>4. /\ Follows(uu, ss) /\ uu[Clip(ss)].state = "failed" /\ uu[Clip(ss)].out = ss[Clip(ss)].out
          /\ \A k \in DOMAIN ss : k # Clip(ss) => uu[k] = ss[k]
          /\ uu[Clip(ss)].status = "failed"
      <4>1. "failed" \in Terminal /\ IsClip(ss[Clip(ss)])
        BY <2>1 DEF Terminal
      <4>. QED  BY <1>1, <2>1, <3>1, <4>1, EndedRows
    <3>5. RowsOK(uu) /\ HasClip(uu) /\ Clip(uu) = Clip(ss) /\ DOMAIN uu = DOMAIN ss
      BY <1>1, <2>1, <3>4, FollowsOK DEF Follows
    <3>6. IsClip(uu[Clip(ss)])
      BY <1>1, <2>1, <3>4, FollowsOK
    <3>7. Calm(uu, ss)
      BY <2>1, <3>4 DEF Calm
    <3>8. Calm(tt, ss) /\ Follows(tt, uu) /\ CutThrough(tt) /\ tt[Clip(ss)] = uu[Clip(ss)]
      BY <1>1, <2>1, <3>3, <3>5, <3>6, <3>7, CalmCut, CutRows
    <3>9. RowsOK(tt) /\ HasClip(tt) /\ Clip(tt) = Clip(ss)
      BY <3>5, <3>8, FollowsOK
    <3>10. HaltRun(r) = IF tt = ss THEN runs[r] ELSE Verdict(tt)
      BY <3>2 DEF HaltRun, ss
    <3>11. RunFits(tt, HaltRun(r)) /\ (runs[r].state # "none" => HaltRun(r).state # "none")
      <4>1. RunFits(tt, Verdict(tt)) /\ Verdict(tt).state # "none"
        BY <3>8, <3>9, VerdictFits
      <4>. QED  BY <1>1, <3>10, <4>1
    <3>12. Settled(tt[Clip(tt)]) /\ tt[Clip(tt)].status = "failed" /\ tt[Clip(tt)].out = ss[Clip(ss)].out
      BY <3>4, <3>8, <3>9 DEF Settled, Terminal
    <3>13. ClipFits(tt, c)
      BY <2>4, <3>9, <3>12 DEF ClipFits, ClipStages, StageFits
    <3>14. ~Spoke(Row(r)) => Recalled(tt, c, r \in missed)
      BY <2>2, <2>4, <3>9, <3>12 DEF Recalled, ss
    <3>. QED  BY <1>4, <2>1, <2>3, <3>2, <3>8, <3>9, <3>11, <3>13, <3>14 DEF ss
  <2>6. CASE ~(Row(r).state = "queued" \/ Row(r).status # "recording")
    <3>1. HaltRows(r) = ss /\ HaltRun(r) = runs[r]
      BY <2>6 DEF HaltRows, HaltRun
    <3>2. c = "stopped" /\ Row(r).status = "recording"
      BY <2>1, <2>4, <2>6 DEF StageFits
    <3>3. ClipFits(ss, c) /\ (~Spoke(Row(r)) => Recalled(ss, c, r \in missed))
      BY <2>1, <2>2, <3>2 DEF ClipFits, ClipStages, StageFits, Recalled
    <3>. QED  BY <1>1, <1>2, <1>4, <2>1, <2>3, <3>1, <3>3
  <2>. QED  BY <2>5, <2>6
<1>. QED  BY <1>3, <1>4

\* /stop, for all runs and the worker.
LEMMA HaltStep ==
  ASSUME RunInv, Halt
  PROVE  RunInv'
<1>1. /\ steps' = [r \in RunIds |-> HaltRows(r)]
      /\ runs' = [r \in RunIds |-> IF steps'[r] = steps[r] THEN runs[r] ELSE Verdict(steps'[r])]
      /\ clip' = [r \in RunIds |-> HaltClip(r)] /\ recalled' = recalled \cup {r \in RunIds : Hit(r) /\ ~Spoke(Row(r))}
      /\ missed' = missed \cup {r \in RunIds : Hit(r) /\ voice' = At(r, Clip(steps[r]))}
      /\ act' = (IF act = Idle THEN act ELSE [act EXCEPT !.stage = "stopped"])
      /\ halts < MaxHalts /\ halts' = halts + 1 /\ UNCHANGED boots
  BY DEF Halt, StoppedRows, HaltRows, HaltClip, Hit
<1>2. /\ recalled \subseteq RunIds /\ missed \subseteq RunIds /\ halts \in 0 .. MaxHalts /\ boots \in 0 .. MaxBoots
      /\ ActOK
  BY DEF RunInv
<1>3. /\ \A r \in RunIds : steps'[r] = HaltRows(r) /\ clip'[r] = HaltClip(r) /\ runs'[r] = HaltRun(r)
      /\ \A r \in RunIds : r \in recalled' <=> r \in recalled \/ (Hit(r) /\ ~Spoke(Row(r)))
      /\ recalled' \subseteq RunIds /\ missed' \subseteq RunIds /\ missed \subseteq missed'
  BY <1>1, <1>2 DEF HaltRun
<1>4. \A r \in RunIds : RunOK(r)'
  <2>1. \A r \in RunIds : r \in recalled' => Recalled(HaltRows(r), HaltClip(r), r \in missed')
    BY <1>3, HaltOne DEF Recalled
  <2>. QED  BY <1>3, <2>1, HaltOne DEF RunOK
<1>5. /\ runs' = [r \in RunIds |-> runs'[r]] /\ steps' = [r \in RunIds |-> steps'[r]]
      /\ clip' = [r \in RunIds |-> clip'[r]]
  BY <1>1
<1>6. halts' \in 0 .. MaxHalts /\ boots' \in 0 .. MaxBoots
  BY <1>1, <1>2, RunBounds
<1>7. \A r \in RunIds : UnderWorker(r)'
  <2>1. ASSUME NEW r \in RunIds, NEW k \in DOMAIN HaltRows(r), ~IsClip(HaltRows(r)[k]),
               HaltRows(r)[k].state = "running"
        PROVE  act'.run = r /\ act'.at = k /\ act'.stage = "stopped"
    <3>1. RowsOK(steps[r]) /\ Calm(HaltRows(r), steps[r]) /\ Follows(HaltRows(r), steps[r])
      BY HaltOne DEF RunInv, RunOK, Calm
    <3>2. k \in DOMAIN steps[r] /\ ~IsClip(steps[r][k]) /\ steps[r][k].state = "running"
      <4>1. k \in DOMAIN steps[r] /\ ~IsClip(steps[r][k])
        BY <2>1, <3>1, FollowsOK DEF Follows
      <4>. QED  BY <2>1, <3>1, <4>1 DEF Calm
    <3>3. act.run = r /\ act.at = k /\ act.stage \in {"turn", "exec", "stopped"}
      BY <1>2, <3>2 DEF ActOK, UnderWorker
    <3>4. act # Idle /\ act \in [run : 0 .. MaxRuns, at : Nat, stage : Stages]
      BY <1>2, <3>3 DEF Idle, ActOK
    <3>. QED  BY <1>1, <3>3, <3>4
  <2>. QED  BY <1>3, <2>1 DEF UnderWorker
<1>8. CASE act = Idle
  <2>1. act' = Idle /\ act'.stage = "idle" /\ act' \in [run : 0 .. MaxRuns, at : Nat, stage : Stages]
    BY <1>1, <1>2, <1>8 DEF ActOK, Idle
  <2>2. ActOK'
    BY <1>7, <2>1 DEF ActOK, Idle
  <2>. QED  BY <1>3, <1>4, <1>5, <1>6, <2>2 DEF RunInv
<1>9. CASE act # Idle
  <2>1. PICK r \in RunIds : r = act.run /\ ActFits(steps[r], runs[r])
    BY <1>2, <1>9 DEF ActOK
  <2>2. act' = [act EXCEPT !.stage = "stopped"] /\ act \in [run : 0 .. MaxRuns, at : Nat, stage : Stages]
    BY <1>1, <1>2, <1>9 DEF ActOK
  <2>3. act' \in [run : 0 .. MaxRuns, at : Nat, stage : Stages] /\ act'.run = r /\ act'.stage = "stopped"
    BY <2>1, <2>2 DEF Stages
  <2>4. PICK tt, rec : tt = HaltRows(r) /\ rec = HaltRun(r)
    OBVIOUS
  <2>5. rec.state # "none" /\ (HasClip(tt) \/ ~HasFailed(tt))
    BY <2>1, <2>4, HaltOne DEF ActFits
  <2>6. ActFits(tt, rec)'
    BY <2>3, <2>5 DEF ActFits
  <2>7. steps'[r] = tt /\ runs'[r] = rec
    BY <1>3, <2>4
  <2>8. ActOK'
    BY <1>7, <2>3, <2>6, <2>7 DEF ActOK, ActFits
  <2>. QED  BY <1>3, <1>4, <1>5, <1>6, <2>8 DEF RunInv
<1>. QED  BY <1>8, <1>9

\* What a restart makes of one row, of the rows, of the run and of the recording's task.
LEMMA RecoveredRow ==
  ASSUME NEW s, RowOK(s)
  PROVE  /\ Replaces(Recovered(s), s) /\ (~IsClip(s) => Recovered(s).state # "running")
         /\ Recovered(s) = s \/ s.state \in {"queued", "running"}
         /\ FailedExec(Recovered(s)) => FailedExec(s) \/ (s.kind = "exec" /\ s.state = "running")
         /\ s.kind = "exec" /\ s.state = "running" => ~IsClip(s)
         /\ ~IsClip(s) /\ Settled(Recovered(s)) => Settled(s) \/ (s.kind = "exec" /\ s.state = "running")
         /\ IsClip(s) => /\ Recovered(s).out = s.out /\ Recovered(s).status # "recording"
                         /\ s.status = "recording" \/ Settled(s) => Settled(Recovered(s))
<1>1. s \in StepRows /\ s.kind \in StepKinds /\ s.state \in RowStates /\ s.status \in RowStatuses
  BY RowFields DEF RowOK
<1>2. CASE IsClip(s) /\ s.state \in {"queued", "running"} /\ s.status \in {"none", "recording"}
  <2>1. PICK t : t = Both(s, "failed", "failed")
    OBVIOUS
  <2>2. t = Recovered(s)
    BY <1>1, <1>2, <2>1 DEF Recovered, Both, StepRows
  <2>3. "failed" \in RowStates /\ "failed" \in RowStatuses
    BY DEF RowStates, RowStatuses, Terminal
  <2>4. /\ t \in StepRows /\ t.state = "failed" /\ t.status = "failed" /\ t.kind = s.kind /\ t.out = s.out
        /\ t.done = s.done
    BY <1>1, <2>1, <2>3, SetBoth
  <2>5. RowOK(t)
    BY <1>2, <2>4 DEF RowOK, ExecOK, MessageOK, ClipRowOK, Earned, IsClip, ClipKinds, BeforeSend
  <2>6. t.kind # "exec"
    BY <1>2, <2>4 DEF IsClip, ClipKinds
  <2>. QED  BY <1>2, <2>2, <2>4, <2>5, <2>6 DEF Replaces, FailedExec, Settled, Terminal, IsClip, ClipKinds
<1>3. CASE ~IsClip(s) /\ s.state = "running"
  <2>1. PICK v : v = AfterDeath(s.kind)
    OBVIOUS
  <2>2. PICK t : t = [s EXCEPT !.state = v]
    OBVIOUS
  <2>3. v = IF s.kind = "exec" THEN "ambiguous" ELSE "queued"
    BY <2>1 DEF AfterDeath
  <2>4. v \in RowStates
    BY <2>3 DEF RowStates, Terminal
  <2>5. t = Recovered(s)
    BY <1>3, <2>1, <2>2 DEF Recovered
  <2>6. /\ t \in StepRows /\ t.state = v /\ t.status = s.status /\ t.kind = s.kind /\ t.out = s.out
        /\ t.done = s.done
    BY <1>1, <2>2, <2>4, SetState
  <2>7. RowOK(t)
    BY <1>3, <2>3, <2>6 DEF RowOK, ExecOK, MessageOK, Earned, IsClip, ClipKinds
  <2>8. Replaces(t, s)
    BY <1>3, <2>3, <2>6, <2>7 DEF Replaces, HoldsBack, Settled, Terminal, Untouched
  <2>. QED  BY <1>3, <2>3, <2>5, <2>6, <2>8 DEF FailedExec, Settled, Terminal, IsClip
<1>4. CASE /\ ~(IsClip(s) /\ s.state \in {"queued", "running"} /\ s.status \in {"none", "recording"})
           /\ ~(~IsClip(s) /\ s.state = "running")
  <2>1. Recovered(s) = s
    BY <1>4 DEF Recovered
  <2>2. IsClip(s) => s.status # "recording"
    BY <1>4 DEF RowOK, ClipRowOK, BeforeSend
  <2>3. s.kind = "exec" /\ s.state = "running" => ~IsClip(s)
    BY DEF IsClip, ClipKinds
  <2>. QED  BY <1>4, <2>1, <2>2, <2>3 DEF Replaces
<1>. QED  BY <1>2, <1>3, <1>4

Fixed(ss)    == [i \in DOMAIN ss |-> Recovered(ss[i])]
BootRows(ss) == IF HasClip(Fixed(ss)) THEN Cut(Fixed(ss)) ELSE Fixed(ss)
CutOff(ss)   == \E i \in DOMAIN Fixed(ss) : ss[i].kind = "exec" /\ ss[i].state = "running"
Unsure(ss)   == \E i \in DOMAIN Fixed(ss) : Fixed(ss)[i].state = "ambiguous"

BootRun(ss, rec) ==
  IF HasClip(Fixed(ss)) THEN Verdict(BootRows(ss))
  ELSE IF CutOff(ss) THEN [rec EXCEPT !.state = "ambiguous"]
  ELSE IF rec.state = "running" /\ ~Unsure(ss) THEN [rec EXCEPT !.state = "queued"]
  ELSE rec

BootClip(ss) ==
  IF HasClip(BootRows(ss)) /\ ~Settled(BootRows(ss)[Clip(BootRows(ss))]) THEN "loop" ELSE "none"

\* The rows after a restart follow those before.
LEMMA FixedRows ==
  ASSUME NEW ss, RowsOK(ss)
  PROVE  /\ Follows(Fixed(ss), ss) /\ RowsOK(Fixed(ss)) /\ DOMAIN Fixed(ss) = DOMAIN ss
         /\ \A i \in DOMAIN ss : Fixed(ss)[i] = Recovered(ss[i]) /\ RowOK(ss[i])
         /\ (HasClip(Fixed(ss)) <=> HasClip(ss)) /\ (HasClip(ss) => Clip(Fixed(ss)) = Clip(ss))
         /\ \A i \in DOMAIN ss : IsClip(Fixed(ss)[i]) <=> IsClip(ss[i])
<1>. DEFINE tt == Fixed(ss)
<1>1. /\ ss \in Seq(StepRows) /\ \A i \in DOMAIN ss : RowOK(ss[i])
  BY DEF RowsOK
<1>2. Len(ss) \in Nat /\ DOMAIN ss = 1 .. Len(ss)
  BY <1>1, RowsDomain
<1>3. /\ DOMAIN tt = DOMAIN ss /\ \A i \in DOMAIN ss : tt[i] = Recovered(ss[i])
      /\ tt = [i \in 1 .. Len(ss) |-> tt[i]]
  BY <1>2 DEF Fixed
<1>. HIDE DEF tt
<1>4. \A i \in DOMAIN ss : Replaces(tt[i], ss[i])
  BY <1>1, <1>3, RecoveredRow
<1>5. \A i \in DOMAIN ss : tt[i] \in StepRows
  BY <1>4 DEF Replaces, RowOK
<1>6. tt \in Seq(StepRows)
  BY <1>2, <1>3, <1>5, RowWise
<1>7. Follows(tt, ss)
  BY <1>3, <1>4, <1>6 DEF Follows
<1>8. /\ RowsOK(tt) /\ (HasClip(tt) <=> HasClip(ss)) /\ (HasClip(ss) => Clip(tt) = Clip(ss))
      /\ \A i \in DOMAIN ss : IsClip(tt[i]) <=> IsClip(ss[i])
  BY <1>7, FollowsOK
<1>. QED  BY <1>1, <1>3, <1>7, <1>8 DEF tt

\* What a restart leaves of one run.
LEMMA BootOne ==
  ASSUME RunInv, NEW r \in RunIds
  PROVE  /\ RowsOK(BootRows(steps[r])) /\ RunFits(BootRows(steps[r]), BootRun(steps[r], runs[r]))
         /\ ClipFits(BootRows(steps[r]), BootClip(steps[r]))
         /\ r \in recalled => Recalled(BootRows(steps[r]), BootClip(steps[r]), r \in missed)
         /\ \A i \in DOMAIN BootRows(steps[r]) :
              ~IsClip(BootRows(steps[r])[i]) => BootRows(steps[r])[i].state # "running"
<1>1. PICK ss, rec, c : ss = steps[r] /\ rec = runs[r] /\ c = clip[r]
  OBVIOUS
<1>2. RowsOK(ss) /\ RunFits(ss, rec) /\ ClipFits(ss, c) /\ (r \in recalled => Recalled(ss, c, r \in missed))
  BY <1>1 DEF RunInv, RunOK
<1>3. PICK uu : uu = Fixed(ss)
  OBVIOUS
<1>4. /\ RowsOK(uu) /\ DOMAIN uu = DOMAIN ss
      /\ \A i \in DOMAIN ss : uu[i] = Recovered(ss[i]) /\ RowOK(ss[i])
      /\ (HasClip(uu) <=> HasClip(ss)) /\ (HasClip(ss) => Clip(uu) = Clip(ss))
      /\ \A i \in DOMAIN ss : IsClip(uu[i]) <=> IsClip(ss[i])
  BY <1>2, <1>3, FixedRows
<1>5. \A i \in DOMAIN ss : ~IsClip(uu[i]) => uu[i].state # "running"
  BY <1>4, RecoveredRow
<1>6. CASE HasClip(ss)
  <2>1. PICK tt, n : tt = BootRows(ss) /\ n = BootClip(ss)
    OBVIOUS
  <2>2. tt = Cut(uu) /\ BootRun(ss, rec) = Verdict(tt)
    BY <1>3, <1>4, <1>6, <2>1 DEF BootRows, BootRun
  <2>3. Follows(tt, uu) /\ CutThrough(tt) /\ \A i \in DOMAIN uu : tt[i] = uu[i] \/ (~IsClip(uu[i]) /\ tt[i].state = "failed")
    BY <1>4, <2>2, CutRows
  <2>4. /\ RowsOK(tt) /\ HasClip(tt) /\ Clip(tt) = Clip(ss) /\ DOMAIN tt = DOMAIN uu
        /\ \A i \in DOMAIN uu : IsClip(tt[i]) <=> IsClip(uu[i])
    BY <1>4, <1>6, <2>3, FollowsOK DEF Follows
  <2>5. RunFits(tt, Verdict(tt))
    BY <2>3, <2>4, VerdictFits
  <2>6. \A i \in DOMAIN tt : ~IsClip(tt[i]) => tt[i].state # "running"
    BY <1>4, <1>5, <2>3, <2>4
  <2>7. Clip(ss) \in DOMAIN ss /\ IsClip(ss[Clip(ss)]) /\ RowOK(ss[Clip(ss)])
    BY <1>2, <1>4, <1>6, ClipIsIt DEF RowsOK
  <2>8. PICK row, old : row = tt[Clip(tt)] /\ old = ss[Clip(ss)]
    OBVIOUS
  <2>9. row = Recovered(old)
    BY <1>4, <2>3, <2>4, <2>7, <2>8
  <2>10. /\ row.out = old.out /\ row.status # "recording"
         /\ old.status = "recording" \/ Settled(old) => Settled(row)
    BY <2>7, <2>8, <2>9, RecoveredRow
  <2>11. n = IF ~Settled(row) THEN "loop" ELSE "none"
    BY <2>1, <2>4, <2>8 DEF BootClip
  <2>12. ClipFits(tt, n)
    BY <2>4, <2>8, <2>10, <2>11 DEF ClipFits, ClipStages, StageFits
  <2>13. r \in recalled => Recalled(tt, n, r \in missed)
    <3>1. ASSUME r \in recalled
          PROVE  (r \in missed \/ old.out = "none") /\ (old.status = "recording" \/ Settled(old))
      BY <1>2, <1>6, <2>8, <3>1 DEF Recalled, ClipFits, StageFits
    <3>. QED  BY <2>4, <2>8, <2>10, <2>11, <3>1 DEF Recalled
  <2>. QED  BY <1>1, <2>1, <2>2, <2>4, <2>5, <2>6, <2>12, <2>13
<1>7. CASE ~HasClip(ss)
  <2>1. BootRows(ss) = uu /\ BootClip(ss) = "none"
    BY <1>3, <1>4, <1>7 DEF BootRows, BootClip
  <2>2. ClipFits(uu, "none") /\ r \notin recalled
    BY <1>2, <1>4, <1>7 DEF ClipFits, ClipStages, Recalled
  <2>3. PICK next : next = BootRun(ss, rec)
    OBVIOUS
  <2>4. next = IF CutOff(ss) THEN [rec EXCEPT !.state = "ambiguous"]
               ELSE IF rec.state = "running" /\ ~Unsure(ss) THEN [rec EXCEPT !.state = "queued"]
               ELSE rec
    BY <1>3, <1>4, <1>7, <2>3 DEF BootRun
  <2>5. rec \in [state : RunStates, at : Nat] /\ (rec.state = "none" => DOMAIN ss = {})
    BY <1>2 DEF RunFits
  <2>6. CASE CutOff(ss)
    <3>1. next.state = "ambiguous" /\ next \in [state : RunStates, at : Nat]
      BY <2>4, <2>5, <2>6 DEF RunStates, Terminal
    <3>2. RunFits(uu, next)
      BY <1>4, <1>7, <3>1 DEF RunFits, Terminal
    <3>. QED  BY <1>1, <1>4, <1>5, <2>1, <2>2, <2>3, <3>2
  <2>7. CASE ~CutOff(ss)
    <3>1. \A i \in DOMAIN ss : ~(ss[i].kind = "exec" /\ ss[i].state = "running")
      BY <1>3, <1>4, <2>7 DEF CutOff
    <3>2. HasFailed(uu) => HasFailed(ss)
      BY <1>4, <3>1, RecoveredRow DEF HasFailed
    <3>3. \A i \in DOMAIN ss : IsClip(ss[i]) = FALSE
      BY <1>7 DEF HasClip
    <3>4. Due(uu) \subseteq Due(ss)
      <4>1. ASSUME NEW i \in DOMAIN ss, Settled(ss[i])
            PROVE  Settled(uu[i])
        <5>1. ss[i].state \notin {"queued", "running"}
          BY <4>1 DEF Settled, Terminal
        <5>. QED  BY <1>4, <4>1, <5>1, RecoveredRow
      <4>. QED  BY <1>4, <4>1 DEF Due
    <3>5. AllSucceeded(ss) => AllSucceeded(uu)
      <4>1. ASSUME NEW i \in DOMAIN ss, ss[i].state = "succeeded"
            PROVE  uu[i].state = "succeeded"
        BY <1>4, <4>1, RecoveredRow
      <4>. QED  BY <1>4, <4>1 DEF AllSucceeded
    <3>6. /\ next \in [state : RunStates, at : Nat] /\ next.at = rec.at
          /\ next.state = rec.state \/ (rec.state = "running" /\ next.state = "queued")
      BY <2>4, <2>5, <2>7 DEF RunStates
    <3>7. RunFits(uu, next)
      <4>1. ~HasClip(uu) /\ (HasFailed(uu) => next.state \in Terminal)
        BY <1>2, <1>4, <1>7, <3>2, <3>6 DEF RunFits, Terminal
      <4>2. next.state = "succeeded" => AllSucceeded(uu)
        BY <1>2, <3>5, <3>6 DEF RunFits
      <4>3. next.state = "none" => DOMAIN uu = {}
        BY <1>4, <2>5, <3>6
      <4>4. next.state \notin Terminal => FromFirst(uu, next.at)
        BY <1>2, <3>4, <3>6 DEF RunFits, FromFirst, Terminal
      <4>. QED  BY <3>6, <4>1, <4>2, <4>3, <4>4 DEF RunFits
    <3>. QED  BY <1>1, <1>4, <1>5, <2>1, <2>2, <2>3, <3>7
  <2>. QED  BY <2>6, <2>7
<1>. QED  BY <1>6, <1>7

\* A restart.
LEMMA BootStep ==
  ASSUME RunInv, Boot
  PROVE  RunInv'
<1>1. /\ steps' = [r \in RunIds |-> BootRows(steps[r])] /\ act' = Idle /\ UNCHANGED <<recalled, missed, halts>>
      /\ boots < MaxBoots /\ boots' = boots + 1
  BY DEF Boot, BootRows, Fixed
<1>2. \A r \in RunIds : steps'[r] = BootRows(steps[r])
  BY <1>1
<1>3. /\ runs' = [r \in RunIds |-> runs'[r]] /\ clip' = [r \in RunIds |-> clip'[r]]
      /\ steps' = [r \in RunIds |-> steps'[r]]
  BY <1>1 DEF Boot
<1>4. ASSUME NEW r \in RunIds
      PROVE  runs'[r] = BootRun(steps[r], runs[r])
  BY <1>2 DEF Boot, BootRun, Fixed, CutOff, Unsure
<1>5. ASSUME NEW r \in RunIds
      PROVE  clip'[r] = BootClip(steps[r])
  BY <1>2 DEF Boot, BootClip
<1>6. recalled \subseteq RunIds /\ missed \subseteq RunIds /\ halts \in 0 .. MaxHalts /\ boots \in 0 .. MaxBoots
  BY DEF RunInv
<1>7. \A r \in RunIds : RunOK(r)'
  BY <1>1, <1>2, <1>4, <1>5, BootOne DEF RunOK
<1>8. \A r \in RunIds : UnderWorker(r)'
  BY <1>2, BootOne DEF UnderWorker
<1>9. act' \in [run : 0 .. MaxRuns, at : Nat, stage : Stages] /\ act'.stage = "idle"
  BY <1>1, RunBounds DEF Idle, Stages
<1>10. ActOK'
  BY <1>1, <1>8, <1>9 DEF ActOK, Idle
<1>11. boots' \in 0 .. MaxBoots /\ halts' \in 0 .. MaxHalts /\ recalled' \subseteq RunIds /\ missed' \subseteq RunIds
  BY <1>1, <1>6, RunBounds
<1>. QED  BY <1>3, <1>7, <1>10, <1>11 DEF RunInv

-----------------------------------------------------------------------------
(***************************************************************************)
(* The webhook turn: where the agent works, and what it says meanwhile.    *)
(***************************************************************************)
\* The worker stays where it is while the kinds and states of the rows do.
LEMMA SameAct ==
  ASSUME ActOK, NEW r \in RunIds, NEW tt, steps = [q \in RunIds |-> steps[q]], steps' = [steps EXCEPT ![r] = tt],
         UNCHANGED <<runs, act>>, DOMAIN tt = DOMAIN steps[r],
         \A k \in DOMAIN steps[r] : tt[k].kind = steps[r][k].kind /\ tt[k].state = steps[r][k].state
  PROVE  ActOK'
<1>1. /\ steps'[r] = tt /\ \A q \in RunIds : q # r => steps'[q] = steps[q]
      /\ runs' = runs /\ act' = act
  OBVIOUS
<1>2. \A q \in RunIds : /\ DOMAIN steps'[q] = DOMAIN steps[q]
                        /\ \A k \in DOMAIN steps[q] : /\ steps'[q][k].kind = steps[q][k].kind
                                                      /\ steps'[q][k].state = steps[q][k].state
  BY <1>1
<1>3. \A q \in RunIds : UnderWorker(q)'
  BY <1>1, <1>2 DEF ActOK, UnderWorker, IsClip
<1>4. ASSUME act.stage # "idle"
      PROVE  act'.run \in RunIds /\ ActFits(steps[act.run], runs[act.run])'
  <2>1. PICK q \in RunIds : q = act.run /\ ActFits(steps[q], runs[q])
    BY <1>4 DEF ActOK
  <2>2. PICK ss, uu : ss = steps[q] /\ uu = steps'[q]
    OBVIOUS
  <2>3. /\ DOMAIN uu = DOMAIN ss
        /\ \A k \in DOMAIN ss : /\ uu[k].kind = ss[k].kind /\ uu[k].state = ss[k].state
                                /\ IsClip(uu[k]) <=> IsClip(ss[k])
    BY <1>2, <2>2 DEF IsClip
  <2>4. /\ HasClip(uu) <=> HasClip(ss)
        /\ HasFailed(uu) <=> HasFailed(ss)
        /\ Due(uu) = Due(ss)
    BY <2>3 DEF HasClip, HasFailed, FailedExec, Due, Settled
  <2>5. ActFits(uu, runs[q])'
    BY <1>1, <2>1, <2>2, <2>3, <2>4 DEF ActFits, FromFirst
  <2>. QED  BY <1>1, <2>1, <2>2, <2>5 DEF ActFits
<1>. QED  BY <1>1, <1>3, <1>4 DEF ActOK

\* The agent speaks while its turn goes on.
LEMMA SpeaksStep ==
  ASSUME RunInv, VoiceOK, Speaks
  PROVE  RunInv'
<1>0. PICK r \in RunIds : r = voice.run
  BY DEF VoiceOK, Speaks
<1>1. PICK i, o : i = voice.at /\ o = IF steps[r][i].out = "failed" THEN "failed" ELSE "pending"
  OBVIOUS
<1>2. PICK ss, c : ss = steps[r] /\ c = clip[r]
  OBVIOUS
<1>3. PICK t : t = [ss[i] EXCEPT !.out = o]
  OBVIOUS
<1>4. PICK tt : tt = [ss EXCEPT ![i] = t]
  OBVIOUS
<1>5. /\ VoiceFits(ss, c, i) /\ (IsClip(ss[i]) => r \notin recalled \ missed)
      /\ UNCHANGED <<runs, act, clip, history>>
  BY <1>0, <1>1, <1>2 DEF VoiceOK, Speaks, aside
<1>6. /\ RowsOK(ss) /\ RunFits(ss, runs[r]) /\ ClipFits(ss, c) /\ ActOK
      /\ r \in recalled => Recalled(ss, c, r \in missed)
      /\ runs = [q \in RunIds |-> runs[q]] /\ clip = [q \in RunIds |-> clip[q]] /\ steps = [q \in RunIds |-> steps[q]]
  BY <1>2 DEF RunInv, RunOK
<1>7. i \in DOMAIN ss /\ RowOK(ss[i]) /\ ss[i] \in StepRows /\ o \in Outs /\ o # "none"
  BY <1>1, <1>5, <1>6 DEF VoiceFits, RowsOK, RowOK, Outs
<1>8. steps' = [steps EXCEPT ![r] = tt]
  BY <1>0, <1>1, <1>2, <1>3, <1>4, <1>6, <1>7 DEF Speaks
<1>9. /\ t \in StepRows /\ t.out = o /\ t.kind = ss[i].kind /\ t.state = ss[i].state /\ t.status = ss[i].status
      /\ t.done = ss[i].done
  BY <1>3, <1>7, SetOut
<1>10. RowOK(t)
  BY <1>5, <1>7, <1>9 DEF VoiceFits, RowOK, ExecOK, MessageOK, ClipRowOK, Earned, IsClip
<1>11. /\ DOMAIN tt = DOMAIN ss /\ tt[i] = t /\ \A k \in DOMAIN ss : k # i => tt[k] = ss[k]
  BY <1>4, <1>7
<1>12. /\ tt \in Seq(StepRows) /\ ss \in Seq(StepRows) /\ OneClip(ss) /\ InOrder(ss) /\ \A k \in DOMAIN ss : RowOK(ss[k])
  BY <1>4, <1>6, <1>7, <1>9, ExceptSeq DEF RowsOK
<1>13. \A k \in DOMAIN ss : /\ tt[k].kind = ss[k].kind /\ tt[k].state = ss[k].state /\ tt[k].status = ss[k].status
                            /\ ss[k].out # "none" => tt[k].out # "none"
                            /\ RowOK(tt[k])
  BY <1>7, <1>9, <1>10, <1>11, <1>12
<1>14. /\ OneClip(tt) /\ (HasClip(tt) <=> HasClip(ss)) /\ (HasClip(ss) => Clip(tt) = Clip(ss))
       /\ \A k \in DOMAIN ss : IsClip(tt[k]) <=> IsClip(ss[k])
  <2>1. \A k \in DOMAIN ss : tt[k].kind = ss[k].kind
    BY <1>13
  <2>. QED  BY <1>11, <1>12, <2>1, SameClips, Zenon
<1>15. InOrder(tt)
  <2>1. ASSUME NEW p \in DOMAIN ss, NEW k \in DOMAIN ss, p < k, ~IsClip(ss[p]), ~IsClip(ss[k]), HoldsBack(tt[p])
        PROVE  Untouched(tt[k])
    <3>1. HoldsBack(ss[p])
      BY <1>13, <2>1 DEF HoldsBack, Settled, FailedExec
    <3>2. k # i
      BY <1>5, <2>1, <3>1 DEF VoiceFits, IsFirst, HoldsBack
    <3>. QED  BY <1>11, <1>12, <2>1, <3>1, <3>2 DEF InOrder
  <2>. QED  BY <1>11, <1>14, <2>1 DEF InOrder
<1>16. RowsOK(tt) /\ RunFits(tt, runs[r])
  BY <1>6, <1>11, <1>12, <1>13, <1>14, <1>15, SameStates DEF RowsOK
<1>17. HasClip(ss) => Clip(ss) \in DOMAIN ss /\ IsClip(ss[Clip(ss)])
  BY <1>12, ClipIsIt
<1>18. ClipFits(tt, c)
  BY <1>6, <1>13, <1>14, <1>17 DEF ClipFits, StageFits, Settled
<1>19. r \in recalled => Recalled(tt, c, r \in missed)
  BY <1>5, <1>6, <1>11, <1>13, <1>14, <1>17 DEF Recalled, Settled
<1>20. ActOK'
  BY <1>2, <1>5, <1>6, <1>8, <1>11, <1>13, SameAct
<1>21. runs' = [runs EXCEPT ![r] = runs[r]] /\ clip' = [clip EXCEPT ![r] = c]
  BY <1>2, <1>5, <1>6
<1>. QED  BY <1>5, <1>8, <1>16, <1>18, <1>19, <1>20, <1>21, OneRun

\* Nothing of the runs changes but the agent's turn.
LEMMA RunStutter ==
  ASSUME RunInv, UNCHANGED <<runs, steps, act, clip, history>>
  PROVE  RunInv'
<1>1. /\ runs' = runs /\ steps' = steps /\ act' = act /\ clip' = clip /\ recalled' = recalled /\ missed' = missed
      /\ halts' = halts /\ boots' = boots
  BY DEF history
<1>2. (\A r \in RunIds : RunOK(r)') /\ ActOK'
  BY <1>1 DEF RunInv, RunOK, ActOK, ActFits, UnderWorker
<1>. QED  BY <1>1, <1>2 DEF RunInv

\* Row i of a run, and rows that wait, get another state; no other does.
Writes(tt, ss, i) ==
  /\ DOMAIN tt = DOMAIN ss
  /\ \A k \in DOMAIN ss :
       /\ tt[k].kind = ss[k].kind
       /\ k # i => tt[k].state = ss[k].state \/ (~IsClip(ss[k]) /\ ss[k].state = "queued")

\* What has settled stays so, a message that has begun and a clip whose turn was begun are
\* at most failed: all that the turn's step is asked for.
Steady(tt, ss, d, c) ==
  /\ DOMAIN tt = DOMAIN ss /\ (c \in {"turn", "none"} => d \in {"turn", "none"})
  /\ \A k \in DOMAIN ss :
       /\ tt[k].kind = ss[k].kind
       /\ ~IsClip(ss[k]) /\ Settled(ss[k]) => tt[k].state = ss[k].state
       /\ ss[k].kind = "message" /\ ss[k].state = "running" => tt[k].state \in {"running", "failed"}
       /\ IsClip(ss[k]) /\ c \in {"turn", "none"} /\ ss[k].state \in {"running", "failed"} =>
            tt[k].state \in {"running", "failed"}

\* The turn's step fits the rows that follow steadily.
LEMMA VoiceSteady ==
  ASSUME NEW ss, NEW c, NEW i, VoiceFits(ss, c, i), NEW tt, NEW d, Steady(tt, ss, d, c)
  PROVE  VoiceFits(tt, d, i) /\ (IsClip(tt[i]) <=> IsClip(ss[i]))
<1>1. /\ i \in DOMAIN ss /\ ss[i].kind \in {"message", "agent"} /\ ss[i].state \in {"running", "failed"}
      /\ IsClip(ss[i]) => c \in {"turn", "none"}
      /\ ~IsClip(ss[i]) => IsFirst(ss, i)
      /\ DOMAIN tt = DOMAIN ss /\ \A k \in DOMAIN ss : tt[k].kind = ss[k].kind
  BY DEF VoiceFits, Steady
<1>2. \A k \in DOMAIN ss : IsClip(tt[k]) <=> IsClip(ss[k])
  BY <1>1 DEF IsClip
<1>3. tt[i].state \in {"running", "failed"}
  BY <1>1 DEF Steady, IsClip, ClipKinds, Settled, Terminal
<1>4. ~IsClip(ss[i]) => IsFirst(tt, i)
  BY <1>1, <1>2 DEF IsFirst, Steady, Settled, FailedExec
<1>. QED  BY <1>1, <1>2, <1>3, <1>4 DEF VoiceFits, Steady

\* Nothing happened to the rows.
LEMMA SteadySelf ==
  ASSUME NEW ss, NEW c
  PROVE  Steady(ss, ss, c, c)
BY DEF Steady

\* The agent has no webhook turn.
LEMMA VoiceFree ==
  ASSUME voice' = NoVoice
  PROVE  VoiceOK'
<1>1. NoVoice \in [run : 0 .. MaxRuns, at : Nat]
  BY RunBounds DEF NoVoice, At
<1>. QED  BY <1>1 DEF VoiceOK

\* The turn goes on while rows change steadily.
LEMMA VoiceKept ==
  ASSUME VoiceOK, UNCHANGED voice,
         voice # NoVoice =>
           /\ Steady(steps'[voice.run], steps[voice.run], clip'[voice.run], clip[voice.run])
           /\ IsClip(steps[voice.run][voice.at]) /\ voice.run \in recalled' \ missed' =>
                voice.run \in recalled \ missed
  PROVE  VoiceOK'
BY VoiceSteady DEF VoiceOK

\* One run changes.
LEMMA VoiceOneRun ==
  ASSUME RunInv, VoiceOK, UNCHANGED <<voice, history>>, NEW r \in RunIds, NEW tt, NEW c,
         steps' = [steps EXCEPT ![r] = tt], clip' = [clip EXCEPT ![r] = c],
         voice # NoVoice /\ voice.run = r => Steady(tt, steps[r], c, clip[r])
  PROVE  VoiceOK'
<1>1. /\ steps = [q \in RunIds |-> steps[q]] /\ clip = [q \in RunIds |-> clip[q]]
      /\ recalled' = recalled /\ missed' = missed
  BY DEF RunInv, history
<1>2. /\ steps'[r] = tt /\ clip'[r] = c
      /\ \A q \in RunIds : q # r => steps'[q] = steps[q] /\ clip'[q] = clip[q]
  BY <1>1
<1>3. ASSUME voice # NoVoice
      PROVE  Steady(steps'[voice.run], steps[voice.run], clip'[voice.run], clip[voice.run])
  <2>1. voice.run \in RunIds
    BY <1>3 DEF VoiceOK
  <2>2. CASE voice.run = r
    BY <1>2, <1>3, <2>2
  <2>3. CASE voice.run # r
    BY <1>2, <2>1, <2>3, SteadySelf
  <2>. QED  BY <2>2, <2>3
<1>. QED  BY <1>1, <1>3, VoiceKept

\* No row and no clip's task changes.
LEMMA VoiceSame ==
  ASSUME VoiceOK, UNCHANGED <<steps, clip, voice, history>>
  PROVE  VoiceOK'
BY SteadySelf, VoiceKept DEF history

\* One row of a run is written, and those behind a failed exec are cut.
LEMMA WritesOne ==
  ASSUME NEW r, NEW ss \in Seq(StepRows), NEW i \in DOMAIN ss, NEW row \in StepRows, row.kind = ss[i].kind,
         NEW st, NEW n, Write(r, [ss EXCEPT ![i] = row], st, n)
  PROVE  \E tt : steps' = [steps EXCEPT ![r] = tt] /\ Writes(tt, ss, i)
<1>1. PICK uu : uu = [ss EXCEPT ![i] = row]
  OBVIOUS
<1>2. \A k \in DOMAIN ss : ss[k] \in StepRows
  BY RowsDomain
<1>3. /\ DOMAIN uu = DOMAIN ss
      /\ \A k \in DOMAIN ss : uu[k] \in StepRows /\ uu[k].kind = ss[k].kind /\ (k # i => uu[k] = ss[k])
  BY <1>1, <1>2
<1>4. PICK tt : tt = IF HasClip(uu) THEN Cut(uu) ELSE uu
  OBVIOUS
<1>5. steps' = [steps EXCEPT ![r] = tt]
  BY <1>1, <1>4 DEF Write
<1>6. CASE HasClip(uu)
  <2>1. DOMAIN tt = DOMAIN ss
    BY <1>3, <1>4, <1>6 DEF Cut
  <2>2. ASSUME NEW k \in DOMAIN ss
        PROVE  /\ tt[k].kind = uu[k].kind
               /\ tt[k] = uu[k] \/ (~IsClip(uu[k]) /\ uu[k].state = "queued")
    <3>1. \/ tt[k] = uu[k]
          \/ ~IsClip(uu[k]) /\ uu[k].state = "queued" /\ tt[k] = [uu[k] EXCEPT !.state = "failed"]
      BY <1>3, <1>4, <1>6, <2>2 DEF Cut
    <3>2. uu[k] \in StepRows /\ "failed" \in RowStates
      BY <1>3 DEF RowStates, Terminal
    <3>. QED  BY <3>1, <3>2, SetState
  <2>3. \A k \in DOMAIN ss : IsClip(uu[k]) <=> IsClip(ss[k])
    BY <1>3 DEF IsClip
  <2>4. Writes(tt, ss, i)
    BY <1>3, <2>1, <2>2, <2>3 DEF Writes
  <2>. QED  BY <1>5, <2>4
<1>7. CASE ~HasClip(uu)
  <2>1. Writes(tt, ss, i)
    BY <1>3, <1>4, <1>7 DEF Writes
  <2>. QED  BY <1>5, <2>1
<1>. QED  BY <1>6, <1>7

\* finish_webhook_step writes one row.
LEMMA FinishWrites ==
  ASSUME NEW r \in RunIds, RowsOK(steps[r]), NEW i \in DOMAIN steps[r], NEW st \in Terminal, Finish(r, i, st)
  PROVE  \E tt : steps' = [steps EXCEPT ![r] = tt] /\ Writes(tt, steps[r], i)
<1>1. PICK ss : ss = steps[r]
  OBVIOUS
<1>2. PICK w : w = IF IsClip(ss[i]) THEN st ELSE ss[i].status
  OBVIOUS
<1>3. PICK row : row = Both(ss[i], st, w)
  OBVIOUS
<1>4. ss \in Seq(StepRows) /\ i \in DOMAIN ss /\ ss[i] \in StepRows
  BY <1>1 DEF RowsOK, RowOK
<1>5. st \in RowStates /\ w \in RowStatuses
  BY <1>2, <1>4, RowFields DEF RowStates, RowStatuses
<1>6. row \in StepRows /\ row.kind = ss[i].kind
  BY <1>3, <1>4, <1>5, SetBoth
<1>7. Ended(ss, i, st) = [ss EXCEPT ![i] = row]
  BY <1>2, <1>3 DEF Ended, Both
<1>8. \E s, n : Write(r, [ss EXCEPT ![i] = row], s, n)
  BY <1>1, <1>7 DEF Finish
<1>. QED  BY <1>1, <1>4, <1>6, <1>8, WritesOne

\* A turn goes on in another step than the one that the worker ends.
LEMMA VoiceWorkerEnds ==
  ASSUME RunInv, VoiceOK, AtStep, NEW st \in Terminal, Finish(act.run, act.at, st),
         UNCHANGED <<clip, voice, history>>, act.stage # "turn"
  PROVE  VoiceOK'
<1>1. PICK r \in RunIds : r = act.run
  BY StepFacts
<1>2. PICK i \in DOMAIN steps[r] : i = act.at
  BY <1>1, StepFacts
<1>3. /\ RowsOK(steps[r]) /\ ~IsClip(steps[r][i]) /\ ~Settled(steps[r][i])
      /\ ~(steps[r][i].kind = "message" /\ steps[r][i].state = "running")
      /\ clip = [q \in RunIds |-> clip[q]]
  BY <1>1, <1>2, StepFacts DEF RunInv, ActOK, ActFits, AtStep, Settled, Terminal
<1>4. PICK tt : steps' = [steps EXCEPT ![r] = tt] /\ Writes(tt, steps[r], i)
  BY <1>1, <1>2, <1>3, FinishWrites
<1>5. Steady(tt, steps[r], clip[r], clip[r])
  BY <1>3, <1>4 DEF Writes, Steady, Settled, Terminal, IsClip, ClipKinds
<1>6. clip' = [clip EXCEPT ![r] = clip[r]]
  BY <1>3
<1>. QED  BY <1>4, <1>5, <1>6, VoiceOneRun

\* Bubbles are settled or an exec ends.
LEMMA VoiceStepEnds ==
  ASSUME RunInv, VoiceOK, MessageDelivered \/ \E st \in Terminal : ExecEnds(st)
  PROVE  VoiceOK'
<1>1. CASE MessageDelivered
  <2>. DEFINE s == Delivered(steps[act.run][act.at])
  <2>1. AtStep /\ act.stage = "deliver" /\ s # "pending" /\ Finish(act.run, act.at, s) /\ UNCHANGED <<clip, voice, history>>
    BY <1>1 DEF MessageDelivered, AtStep, aside
  <2>2. steps[act.run][act.at].kind = "message" /\ steps[act.run][act.at].state = "waiting_delivery"
    BY <2>1 DEF RunInv, ActOK, ActFits
  <2>3. steps[act.run][act.at].out # "none" /\ steps[act.run][act.at].out \in Outs
    BY <2>1, <2>2, StepFacts, RowFields DEF RowOK, MessageOK, Earned
  <2>4. s \in Terminal
    BY <2>1, <2>3 DEF Delivered, Outs, Terminal
  <2>. HIDE DEF s
  <2>. QED  BY <2>1, <2>4, VoiceWorkerEnds
<1>2. CASE \E st \in Terminal : ExecEnds(st)
  <2>1. PICK st \in Terminal : ExecEnds(st)
    BY <1>2
  <2>2. AtStep /\ act.stage = "exec" /\ Finish(act.run, act.at, st) /\ UNCHANGED <<clip, voice, history>>
    BY <2>1 DEF ExecEnds, AtStep, aside
  <2>. QED  BY <2>2, VoiceWorkerEnds
<1>. QED  BY <1>1, <1>2

\* A run is given up: the turn goes on, its row has failed.
LEMMA VoiceRunStopped ==
  ASSUME RunInv, VoiceOK, RunStopped
  PROVE  VoiceOK'
<1>1. PICK r \in RunIds : r = act.run
  BY DEF RunStopped, RunInv, ActOK
<1>2. /\ RowsOK(steps[r]) /\ clip = [q \in RunIds |-> clip[q]] /\ UNCHANGED <<clip, voice, history>>
      /\ steps' = [steps EXCEPT ![r] = Failing(steps[r])]
  BY <1>1 DEF RunInv, RunOK, RunStopped, FailRun, aside
<1>3. PICK tt : tt = Failing(steps[r])
  OBVIOUS
<1>4. /\ Follows(tt, steps[r])
      /\ \A k \in DOMAIN steps[r] : \/ Settled(steps[r][k]) /\ tt[k] = steps[r][k]
                                    \/ ~Settled(steps[r][k]) /\ tt[k].state = "failed"
  BY <1>2, <1>3, FailingRows
<1>5. Steady(tt, steps[r], clip[r], clip[r])
  BY <1>4 DEF Follows, Replaces, Steady
<1>6. clip' = [clip EXCEPT ![r] = clip[r]]
  BY <1>2
<1>. QED  BY <1>2, <1>3, <1>5, <1>6, VoiceOneRun

\* The worker goes to its next step or leaves the run.
LEMMA VoiceProceed ==
  ASSUME RunInv, VoiceOK, Proceed
  PROVE  VoiceOK'
<1>1. PICK r \in RunIds : r = act.run
  BY DEF Proceed, RunInv, ActOK
<1>2. PICK ss, left : ss = steps[r] /\ left = {k \in Due(ss) : k >= act.at}
  OBVIOUS
<1>3. PICK i : i = Least(left)
  OBVIOUS
<1>4. /\ RowsOK(ss) /\ ss \in Seq(StepRows) /\ UNCHANGED <<clip, voice, history>> /\ FromFirst(ss, act.at)
      /\ clip = [q \in RunIds |-> clip[q]] /\ steps = [q \in RunIds |-> steps[q]] /\ act.at \in Nat
      /\ \A k \in DOMAIN ss : k \in Nat /\ ss[k] \in StepRows
      /\ \A k \in DOMAIN ss : ~IsClip(ss[k]) => ss[k].state # "running"
  <2>1. RowsOK(ss) /\ ActFits(ss, runs[r]) /\ ActOK
    BY <1>1, <1>2 DEF RunInv, RunOK, ActOK, Proceed
  <2>2. \A k \in DOMAIN ss : ~IsClip(ss[k]) => ss[k].state # "running"
    BY <1>2, <2>1 DEF ActOK, UnderWorker, Proceed
  <2>. QED  BY <2>1, <2>2, RowsDomain DEF RunInv, RowsOK, ActFits, ActOK, Proceed, aside
<1>5. CASE left = {} /\ HasClip(ss)
  <2>1. steps' = [steps EXCEPT ![r] = Cut(ss)]
    BY <1>1, <1>2, <1>5 DEF Proceed, Write
  <2>2. /\ Follows(Cut(ss), ss)
        /\ \A k \in DOMAIN ss : Cut(ss)[k] = ss[k] \/ (~IsClip(ss[k]) /\ ss[k].state = "queued")
    BY <1>4, CutRows
  <2>3. Steady(Cut(ss), ss, clip[r], clip[r])
    BY <2>2 DEF Follows, Replaces, Steady, Settled, Terminal
  <2>4. clip' = [clip EXCEPT ![r] = clip[r]]
    BY <1>4
  <2>. QED  BY <1>2, <1>4, <2>1, <2>3, <2>4, VoiceOneRun
<1>6. CASE (left = {} /\ ~HasClip(ss)) \/ (left # {} /\ ss[i].state = "waiting_delivery")
  <2>1. UNCHANGED steps
    BY <1>1, <1>2, <1>3, <1>6 DEF Proceed
  <2>. QED  BY <1>4, <2>1, VoiceSame
<1>7. CASE left # {} /\ ss[i].state # "waiting_delivery"
  <2>1. /\ steps' = [steps EXCEPT ![r][i].state = "running",
                                  ![r][i].done = IF ss[i].kind = "exec" THEN @ + 1 ELSE @]
    BY <1>1, <1>2, <1>3, <1>7 DEF Proceed
  <2>2. left \subseteq Nat /\ left = Due(ss)
    BY <1>2, <1>4 DEF FromFirst, Due
  <2>3. i \in Due(ss) /\ i \in DOMAIN ss /\ ~IsClip(ss[i]) /\ ~Settled(ss[i]) /\ ss[i] \in StepRows
    BY <1>3, <1>4, <1>7, <2>2, LeastIsFirst DEF Due
  <2>4. PICK tt : tt = BeginAt(ss, i)
    OBVIOUS
  <2>5. steps' = [steps EXCEPT ![r] = tt]
    BY <1>2, <1>4, <2>1, <2>3, <2>4 DEF Begun, BeginAt, StepRows
  <2>6. Begun(ss[i]).kind = ss[i].kind
    BY <2>3 DEF Begun, StepRows
  <2>7. DOMAIN tt = DOMAIN ss /\ tt[i].kind = ss[i].kind /\ \A k \in DOMAIN ss : k # i => tt[k] = ss[k]
    BY <1>4, <2>3, <2>4, <2>6 DEF BeginAt
  <2>8. Steady(tt, ss, clip[r], clip[r])
    BY <1>4, <2>3, <2>7 DEF Steady, IsClip, ClipKinds
  <2>9. clip' = [clip EXCEPT ![r] = clip[r]]
    BY <1>4
  <2>. QED  BY <1>2, <1>4, <2>5, <2>8, <2>9, VoiceOneRun
<1>. QED  BY <1>5, <1>6, <1>7

\* A clip's task moves while no turn of the agent is asked for it.
LEMMA VoiceClipWrites ==
  ASSUME RunInv, VoiceOK, NEW r \in RunIds, clip[r] \notin {"none", "turn"}, NEW c, clip' = [clip EXCEPT ![r] = c],
         UNCHANGED <<voice, history>>, NEW tt, steps' = [steps EXCEPT ![r] = tt], Writes(tt, steps[r], Clip(steps[r]))
  PROVE  VoiceOK'
<1>1. IsClip(steps[r][Clip(steps[r])])
  BY ClipFacts
<1>2. Steady(tt, steps[r], c, clip[r])
  <2>1. \A k \in DOMAIN steps[r] : ~IsClip(steps[r][k]) \/ steps[r][k].kind = "message" => k # Clip(steps[r])
    BY <1>1 DEF IsClip, ClipKinds
  <2>. QED  BY <2>1 DEF Writes, Steady, Settled, Terminal
<1>. QED  BY <1>2, VoiceOneRun

\* The task writes its row, ends the step, or only moves on.
LEMMA VoiceClipSteps ==
  ASSUME RunInv, VoiceOK, NEW r \in RunIds, clip[r] \notin {"none", "turn"}, NEW c, clip' = [clip EXCEPT ![r] = c],
         UNCHANGED <<voice, history>>,
         \/ UNCHANGED steps
         \/ \E row : SetRow(r, row) /\ row.kind = Row(r).kind
         \/ \E st \in Terminal : EndClip(r, st)
         \/ \E row \in StepRows : row.kind = Row(r).kind /\ \E st, n : Write(r, WithClip(steps[r], row), st, n)
  PROVE  VoiceOK'
<1>1. PICK ss, i : ss = steps[r] /\ i = Clip(steps[r])
  OBVIOUS
<1>2. /\ i \in DOMAIN ss /\ Row(r) = ss[i] /\ RowsOK(ss) /\ ss \in Seq(StepRows)
      /\ steps = [q \in RunIds |-> steps[q]]
  BY <1>1, ClipFacts DEF RunInv, RowsOK
<1>3. CASE UNCHANGED steps
  <2>1. steps' = [steps EXCEPT ![r] = ss] /\ Writes(ss, ss, i)
    BY <1>1, <1>2, <1>3 DEF Writes
  <2>. QED  BY <1>1, <2>1, VoiceClipWrites
<1>4. CASE \E row : SetRow(r, row) /\ row.kind = Row(r).kind
  <2>1. PICK row : SetRow(r, row) /\ row.kind = ss[i].kind
    BY <1>2, <1>4
  <2>2. PICK tt : tt = [ss EXCEPT ![i] = row]
    OBVIOUS
  <2>3. steps' = [steps EXCEPT ![r] = tt]
    BY <1>1, <1>2, <2>1, <2>2 DEF SetRow
  <2>4. Writes(tt, ss, i)
    BY <1>2, <2>1, <2>2 DEF Writes
  <2>. QED  BY <1>1, <2>3, <2>4, VoiceClipWrites
<1>5. CASE \E st \in Terminal : EndClip(r, st)
  BY <1>1, <1>2, <1>5, FinishWrites, VoiceClipWrites DEF EndClip
<1>6. CASE \E row \in StepRows : row.kind = Row(r).kind /\ \E st, n : Write(r, WithClip(steps[r], row), st, n)
  <2>1. PICK row \in StepRows : (\E st, n : Write(r, [ss EXCEPT ![i] = row], st, n)) /\ row.kind = ss[i].kind
    BY <1>1, <1>2, <1>6 DEF WithClip
  <2>2. PICK st, n : Write(r, [ss EXCEPT ![i] = row], st, n)
    BY <2>1
  <2>3. PICK tt : steps' = [steps EXCEPT ![r] = tt] /\ Writes(tt, ss, i)
    BY <1>2, <2>1, <2>2, WritesOne
  <2>. QED  BY <1>1, <2>3, VoiceClipWrites
<1>. QED  BY <1>3, <1>4, <1>5, <1>6

\* The steps of a clip's task while the agent works on another step.
LEMMA VoiceClipMoves ==
  ASSUME RunInv, VoiceOK, NEW r \in RunIds, ClipMoves(r) \/ ClipClosed(r)
  PROVE  VoiceOK'
<1>1. clip[r] \notin {"none", "turn"} /\ UNCHANGED <<voice, history>> /\ \E c : clip' = [clip EXCEPT ![r] = c]
  BY DEF ClipMoves, ClipBegins, ClipRecorded, ClipLost, ClipSent, ReviewBegins, ClipAwaited, ClipDropped,
         ClipDelivered, ClipStopped, ClipClosed, ClipGoes, Keep, aside
<1>2. PICK s \in StepRows : s = Row(r) /\ ClipRowOK(s)
  BY <1>1, ClipFacts
<1>3. CASE \/ ClipClosed(r) \/ ClipStopped(r) \/ ClipAwaited(r) \/ ClipDropped(r)
  <2>1. UNCHANGED steps \/ \E st \in Terminal : EndClip(r, st)
    BY <1>3 DEF ClipClosed, ClipStopped, ClipAwaited, ClipDropped, Terminal
  <2>. QED  BY <1>1, <2>1, VoiceClipSteps
<1>4. CASE ClipDelivered(r)
  <2>1. clip[r] = "deliver" /\ Delivered(s) # "pending" /\ EndClip(r, Delivered(s))
    BY <1>2, <1>4 DEF ClipDelivered
  <2>2. s.out # "none" /\ s.out \in Outs
    BY <1>2, <2>1, ClipFacts, RowFields DEF StageFits
  <2>3. Delivered(s) \in Terminal
    BY <2>1, <2>2 DEF Delivered, Outs, Terminal
  <2>. QED  BY <1>1, <2>1, <2>3, VoiceClipSteps
<1>5. CASE ClipBegins(r) \/ ClipRecorded(r) \/ ReviewBegins(r)
  <2>1. \/ UNCHANGED steps
        \/ SetRow(r, [s EXCEPT !.state = "running", !.status = "recording"])
        \/ SetRow(r, [s EXCEPT !.status = "recorded"])
        \/ SetRow(r, [s EXCEPT !.status = "reviewing"])
    BY <1>2, <1>5 DEF ClipBegins, ClipRecorded, ReviewBegins
  <2>2. /\ [s EXCEPT !.state = "running", !.status = "recording"].kind = s.kind
        /\ [s EXCEPT !.status = "recorded"].kind = s.kind
        /\ [s EXCEPT !.status = "reviewing"].kind = s.kind
    BY <1>2 DEF StepRows
  <2>3. UNCHANGED steps \/ \E row : SetRow(r, row) /\ row.kind = Row(r).kind
    BY <1>2, <2>1, <2>2
  <2>. QED  BY <1>1, <2>3, VoiceClipSteps
<1>6. CASE ClipLost(r)
  <2>1. \/ UNCHANGED steps \/ EndClip(r, "failed")
        \/ SetRow(r, [s EXCEPT !.status = "record_failed", !.error = TRUE])
    BY <1>2, <1>6 DEF ClipLost
  <2>2. [s EXCEPT !.status = "record_failed", !.error = TRUE].kind = s.kind /\ "failed" \in Terminal
    BY <1>2 DEF StepRows, Terminal
  <2>3. \/ UNCHANGED steps \/ \E st \in Terminal : EndClip(r, st)
        \/ \E row : SetRow(r, row) /\ row.kind = Row(r).kind
    BY <1>2, <2>1, <2>2
  <2>. QED  BY <1>1, <2>3, VoiceClipSteps
<1>7. CASE ClipSent(r)
  <2>1. PICK row : row = Answer(s, "waiting_delivery", "enqueued", "pending", s.done + 1)
    OBVIOUS
  <2>2. Write(r, WithClip(steps[r], row), "none", 0) /\ s.status = "recorded"
    BY <1>2, <1>7, <2>1 DEF ClipSent, WithClip, Enqueued, Answer
  <2>3. s.done = 0
    BY <1>2, <2>2 DEF ClipRowOK, BeforeSend
  <2>4. /\ "waiting_delivery" \in RowStates /\ "enqueued" \in RowStatuses /\ "pending" \in Outs
        /\ s.done + 1 \in 0 .. 1
    BY <2>3 DEF RowStates, RowStatuses, Outs
  <2>5. row \in StepRows /\ row.kind = s.kind
    BY <1>2, <2>1, <2>4, SetAnswer
  <2>. QED  BY <1>1, <1>2, <2>2, <2>5, VoiceClipSteps
<1>. QED  BY <1>3, <1>4, <1>5, <1>6, <1>7 DEF ClipMoves

\* The agent begins a turn for the worker's message or for a clip.
LEMMA VoiceTakes ==
  ASSUME RunInv, NEW r \in RunIds, NEW i \in 1 .. 4, AgentTakes(r, i)
  PROVE  VoiceOK'
<1>1. /\ i \in DOMAIN steps[r] /\ Asked(At(r, i)) /\ voice' = At(r, i)
      /\ steps' = steps /\ clip' = clip /\ recalled' = recalled /\ missed' = missed
  BY DEF AgentTakes, history
<1>2. At(r, i).run = r /\ At(r, i).at = i /\ At(r, i) \in [run : 0 .. MaxRuns, at : Nat]
  BY RunBounds DEF At, RunIds
<1>3. CASE act.stage = "turn" /\ At(r, i) = At(act.run, act.at)
  <2>1. r = act.run /\ i = act.at /\ AtStep
    BY <1>3 DEF At, AtStep
  <2>2. /\ ~IsClip(steps[r][i]) /\ IsFirst(steps[r], i)
    BY <2>1, StepFacts DEF IsFirst
  <2>3. steps[r][i].kind = "message" /\ steps[r][i].state = "running"
    BY <1>3, <2>1 DEF RunInv, ActOK, ActFits
  <2>4. VoiceFits(steps[r], clip[r], i)
    BY <1>1, <2>2, <2>3 DEF VoiceFits
  <2>. QED  BY <1>1, <1>2, <2>2, <2>4 DEF VoiceOK
<1>4. CASE clip[r] = "turn" /\ i = Clip(steps[r])
  <2>1. /\ IsClip(steps[r][i]) /\ StageFits(steps[r][i], "turn") /\ r \notin recalled
    BY <1>4, ClipFacts
  <2>2. VoiceFits(steps[r], clip[r], i)
    BY <1>1, <1>4, <2>1 DEF VoiceFits, StageFits
  <2>. QED  BY <1>1, <1>2, <2>1, <2>2 DEF VoiceOK
<1>. QED  BY <1>1, <1>2, <1>3, <1>4 DEF Asked

\* The agent speaks, or bubbles are settled: kinds and states of the rows stay.
LEMMA VoiceBubbles ==
  ASSUME RunInv, VoiceOK, Speaks \/ \E r \in RunIds, i \in 1 .. 4, s \in {"sent", "failed", "ambiguous"} : BubblesSettle(r, i, s)
  PROVE  VoiceOK'
<1>1. PICK r \in RunIds : \E i \in DOMAIN steps[r] : \E o \in Outs :
        steps' = [steps EXCEPT ![r] = [steps[r] EXCEPT ![i] = [steps[r][i] EXCEPT !.out = o]]]
  <2>1. CASE Speaks
    <3>1. PICK r \in RunIds : r = voice.run
      BY <2>1 DEF VoiceOK, Speaks
    <3>2. PICK i \in DOMAIN steps[r] : i = voice.at
      BY <2>1, <3>1 DEF VoiceOK, VoiceFits, Speaks
    <3>3. PICK o \in Outs : o = IF steps[r][i].out = "failed" THEN "failed" ELSE "pending"
      BY DEF Outs
    <3>4. PICK ss : ss = steps[r]
      OBVIOUS
    <3>5. PICK t : t = [ss[i] EXCEPT !.out = o]
      OBVIOUS
    <3>6. PICK tt : tt = [ss EXCEPT ![i] = t]
      OBVIOUS
    <3>7. steps = [q \in RunIds |-> steps[q]] /\ ss \in Seq(StepRows) /\ ss[i] \in StepRows
      BY <3>2, <3>4, RowsDomain DEF RunInv, RunOK, RowsOK
    <3>8. steps' = [steps EXCEPT ![r] = tt]
      BY <2>1, <3>1, <3>2, <3>3, <3>4, <3>5, <3>6, <3>7 DEF Speaks
    <3>. QED  BY <3>4, <3>5, <3>6, <3>8
  <2>2. CASE \E r \in RunIds, i \in 1 .. 4, s \in {"sent", "failed", "ambiguous"} : BubblesSettle(r, i, s)
    <3>1. PICK r \in RunIds, i \in 1 .. 4, s \in {"sent", "failed", "ambiguous"} : BubblesSettle(r, i, s)
      BY <2>2
    <3>2. /\ i \in DOMAIN steps[r] /\ steps' = [steps EXCEPT ![r][i].out = s] /\ s \in Outs
          /\ steps = [q \in RunIds |-> steps[q]]
      BY <3>1 DEF BubblesSettle, Outs, RunInv
    <3>. QED  BY <3>2
  <2>. QED  BY <2>1, <2>2
<1>2. PICK i \in DOMAIN steps[r], o \in Outs :
        steps' = [steps EXCEPT ![r] = [steps[r] EXCEPT ![i] = [steps[r][i] EXCEPT !.out = o]]]
  BY <1>1
<1>3. PICK ss : ss = steps[r]
  OBVIOUS
<1>4. PICK t : t = [ss[i] EXCEPT !.out = o]
  OBVIOUS
<1>5. PICK tt : tt = [ss EXCEPT ![i] = t]
  OBVIOUS
<1>6. /\ ss[i] \in StepRows /\ clip = [q \in RunIds |-> clip[q]] /\ i \in DOMAIN ss
      /\ UNCHANGED <<clip, voice, history>>
  BY <1>3, RowsDomain DEF RunInv, RunOK, RowsOK, Speaks, BubblesSettle, aside
<1>7. t.kind = ss[i].kind /\ t.state = ss[i].state
  BY <1>4, <1>6, SetOut
<1>8. steps' = [steps EXCEPT ![r] = tt] /\ clip' = [clip EXCEPT ![r] = clip[r]]
  BY <1>2, <1>3, <1>4, <1>5, <1>6
<1>9. Steady(tt, ss, clip[r], clip[r])
  BY <1>5, <1>6, <1>7 DEF Steady
<1>. QED  BY <1>3, <1>6, <1>8, <1>9, VoiceOneRun

\* A new run has no turn yet.
LEMMA VoicePost ==
  ASSUME RunInv, VoiceOK, NEW r \in RunIds, NEW shape \in RunShapes, Post(r, shape)
  PROVE  VoiceOK'
<1>1. PICK tt, c : steps' = [steps EXCEPT ![r] = tt] /\ clip' = [clip EXCEPT ![r] = c]
  BY DEF Post
<1>2. UNCHANGED <<voice, history>> /\ DOMAIN steps[r] = {}
  BY DEF Post, RunInv, RunOK, RunFits, aside
<1>3. voice # NoVoice => voice.run # r
  BY <1>2 DEF VoiceOK, VoiceFits
<1>. QED  BY <1>1, <1>2, <1>3, VoiceOneRun

\* /stop: the turn is cancelled, or goes on and its clip is among those missed.
LEMMA VoiceHalt ==
  ASSUME RunInv, VoiceOK, Halt
  PROVE  VoiceOK'
<1>1. CASE voice' = NoVoice
  BY <1>1, VoiceFree
<1>2. CASE voice' = voice /\ voice # NoVoice
  <2>1. PICK r \in RunIds : r = voice.run
    BY <1>2 DEF VoiceOK
  <2>2. PICK i : i = voice.at
    OBVIOUS
  <2>3. /\ steps'[r] = HaltRows(r) /\ clip'[r] = HaltClip(r)
        /\ r \in recalled' <=> r \in recalled \/ (Hit(r) /\ ~Spoke(Row(r)))
        /\ r \in missed' <=> r \in missed \/ (Hit(r) /\ voice' = At(r, Clip(steps[r])))
    BY DEF Halt, StoppedRows, HaltRows, HaltClip, Hit
  <2>4. /\ RowsOK(steps[r]) /\ Calm(HaltRows(r), steps[r]) /\ (~Hit(r) => HaltRows(r) = steps[r])
        /\ VoiceFits(steps[r], clip[r], i) /\ (IsClip(steps[r][i]) => r \notin recalled \ missed)
    BY <1>2, <2>1, <2>2, HaltOne DEF RunInv, RunOK, VoiceOK
  <2>5. IsClip(steps[r][i]) => HasClip(steps[r]) /\ i = Clip(steps[r])
    BY <2>4, ClipIsIt DEF VoiceFits, HasClip, RowsOK
  <2>6. IsClip(steps[r][i]) => r \notin recalled' \ missed'
    <3>1. ASSUME IsClip(steps[r][i]), Hit(r)
          PROVE  r \in missed'
      <4>1. voice \in [run : 0 .. MaxRuns, at : Nat]
        BY DEF VoiceOK
      <4>2. voice = At(r, i)
        BY <2>1, <2>2, <4>1 DEF At
      <4>. QED  BY <1>2, <2>3, <2>5, <3>1, <4>2
    <3>. QED  BY <2>3, <2>4, <3>1
  <2>7. ASSUME IsClip(steps[r][i])
        PROVE  HaltRows(r)[i].state \in {"running", "failed"} /\ clip'[r] \in {"turn", "none"}
    <3>1. CASE ~Hit(r)
      BY <2>3, <2>4, <2>7, <3>1 DEF VoiceFits, HaltClip
    <3>2. CASE Hit(r)
      <4>1. clip[r] = "turn" /\ RowOK(steps[r][i])
        BY <2>4, <2>7, <3>2 DEF Hit, VoiceFits, RowsOK
      <4>2. clip'[r] = "none"
        BY <2>3, <3>2, <4>1 DEF HaltClip
      <4>3. HaltRows(r) = steps[r] \/ HaltRows(r) = Cut(Ended(steps[r], i, "failed"))
        BY <2>5, <2>7 DEF HaltRows
      <4>4. CASE HaltRows(r) = Cut(Ended(steps[r], i, "failed"))
        <5>1. PICK uu : uu = Ended(steps[r], i, "failed")
          OBVIOUS
        <5>2. Follows(uu, steps[r]) /\ uu[i].state = "failed" /\ i \in DOMAIN steps[r]
          BY <2>4, <2>7, <5>1, EndedRows DEF VoiceFits, Terminal
        <5>3. RowsOK(uu) /\ i \in DOMAIN uu
          BY <2>4, <5>2, FollowsOK DEF Follows
        <5>4. Cut(uu)[i] = uu[i] \/ Cut(uu)[i].state = "failed"
          BY <5>3, CutRows
        <5>. QED  BY <4>2, <4>4, <5>1, <5>2, <5>4
      <4>. QED  BY <2>4, <4>2, <4>3, <4>4 DEF VoiceFits
    <3>. QED  BY <3>1, <3>2
  <2>8. VoiceFits(HaltRows(r), clip'[r], i) /\ (IsClip(HaltRows(r)[i]) <=> IsClip(steps[r][i]))
    <3>1. PICK ss, tt : ss = steps[r] /\ tt = HaltRows(r)
      OBVIOUS
    <3>2. /\ DOMAIN tt = DOMAIN ss /\ i \in DOMAIN ss
          /\ \A k \in DOMAIN ss : tt[k].kind = ss[k].kind /\ (IsClip(tt[k]) <=> IsClip(ss[k]))
      BY <2>4, <3>1 DEF Calm, Follows, Replaces, VoiceFits, IsClip
    <3>3. \A k \in DOMAIN ss : ~IsClip(ss[k]) => tt[k].state = ss[k].state \/ ss[k].state = "queued"
      BY <2>4, <3>1 DEF Calm
    <3>4. ASSUME ~IsClip(ss[i])
          PROVE  tt[i].state \in {"running", "failed"} /\ IsFirst(tt, i)
      <4>1. IsFirst(ss, i) /\ ss[i].state \in {"running", "failed"}
        BY <2>4, <3>1, <3>4 DEF VoiceFits
      <4>. QED  BY <3>2, <3>3, <3>4, <4>1 DEF IsFirst, Settled, Terminal, FailedExec
    <3>5. IsClip(ss[i]) => tt[i].state \in {"running", "failed"} /\ clip'[r] \in {"turn", "none"}
      BY <2>7, <3>1
    <3>6. tt[i].kind \in {"message", "agent"}
      BY <2>4, <3>1, <3>2 DEF VoiceFits
    <3>. QED  BY <3>1, <3>2, <3>4, <3>5, <3>6 DEF VoiceFits
  <2>. QED  BY <1>2, <2>1, <2>2, <2>3, <2>6, <2>8 DEF VoiceOK
<1>. QED  BY <1>1, <1>2 DEF Halt

\* Every step keeps the turn at its step.
LEMMA VoiceNextInv ==
  ASSUME RunInv, VoiceOK, RunNext
  PROVE  VoiceOK'
<1>1. CASE Boot \/ TurnEnds
  <2>1. voice' = NoVoice
    BY <1>1 DEF Boot, TurnEnds, TurnAnswers, TurnFails, StrayEnds, ReviewAnswers, ReviewFails
  <2>. QED  BY <2>1, VoiceFree
<1>2. CASE GoesOn
  BY <1>2, VoiceProceed, VoiceClipMoves DEF GoesOn
<1>3. CASE \E r \in RunIds, shape \in RunShapes : Post(r, shape)
  BY <1>3, VoicePost
<1>4. CASE WorkerMoves
  <2>1. ClaimRun => VoiceOK'
    BY VoiceSame DEF ClaimRun, aside
  <2>. QED  BY <1>4, <2>1, VoiceStepEnds, VoiceRunStopped, VoiceProceed DEF WorkerMoves
<1>5. CASE Takes
  BY <1>5, VoiceTakes DEF Takes
<1>6. CASE Speaks \/ Outside
  BY <1>6, VoiceBubbles DEF Outside
<1>7. CASE ExecOver
  BY <1>7, VoiceStepEnds DEF ExecOver
<1>8. CASE Halt
  BY <1>8, VoiceHalt
<1>9. CASE \E r \in RunIds : ClipMoves(r)
  BY <1>9, VoiceClipMoves
<1>. QED  BY <1>1, <1>2, <1>3, <1>4, <1>5, <1>6, <1>7, <1>8, <1>9 DEF RunNext

-----------------------------------------------------------------------------
(***************************************************************************)
(* Every step.                                                             *)
(***************************************************************************)

\* At first no run is there.
LEMMA RunInitInv ==
  ASSUME RunInit
  PROVE  RunInv
<1>1. ASSUME NEW r \in RunIds
      PROVE  RunOK(r) /\ UnderWorker(r)
  <2>1. steps[r] = <<>> /\ runs[r] = [state |-> "none", at |-> 1] /\ clip[r] = "none" /\ r \notin recalled
    BY <1>1 DEF RunInit
  <2>2. DOMAIN steps[r] = {} /\ steps[r] \in Seq(StepRows)
    BY <2>1, EmptySeq
  <2>3. RowsOK(steps[r])
    BY <2>2 DEF RowsOK, OneClip, InOrder
  <2>4. ~HasClip(steps[r]) /\ ~HasFailed(steps[r]) /\ FromFirst(steps[r], 1)
    BY <2>2 DEF HasClip, HasFailed, FromFirst, Due
  <2>5. RunFits(steps[r], runs[r])
    BY <2>1, <2>2, <2>4 DEF RunFits, RunStates
  <2>6. ClipFits(steps[r], clip[r])
    BY <2>1, <2>4 DEF ClipFits, ClipStages
  <2>. QED  BY <2>1, <2>2, <2>3, <2>5, <2>6 DEF RunOK, UnderWorker
<1>2. act \in [run : 0 .. MaxRuns, at : Nat, stage : Stages] /\ act = Idle /\ act.stage = "idle"
  BY RunBounds DEF RunInit, Idle, Stages
<1>3. ActOK
  BY <1>1, <1>2 DEF ActOK
<1>4. recalled \subseteq RunIds /\ missed \subseteq RunIds /\ halts \in 0 .. MaxHalts /\ boots \in 0 .. MaxBoots
  BY RunBounds DEF RunInit
<1>5. /\ runs = [r \in RunIds |-> runs[r]] /\ steps = [r \in RunIds |-> steps[r]]
      /\ clip = [r \in RunIds |-> clip[r]]
  BY DEF RunInit
<1>. QED  BY <1>1, <1>3, <1>4, <1>5 DEF RunInv

\* One step of the worker, of a clip's task, of the agent, of the outbox, of a request, of
\* /stop, of a restart.
LEMMA RunNextInv ==
  ASSUME RunInv, VoiceOK, RunNext
  PROVE  RunInv'
<1>1. CASE Boot
  BY <1>1, BootStep
<1>2. CASE GoesOn
  BY <1>2, ProceedStep, ClipEndingSteps DEF GoesOn
<1>3. CASE \E r \in RunIds, shape \in RunShapes : Post(r, shape)
  BY <1>3, PostStep
<1>4. CASE WorkerMoves
  BY <1>4, ClaimRunStep, MessageDeliveredStep, RunStoppedStep, ProceedStep DEF WorkerMoves
<1>5. CASE Takes
  BY <1>5, RunStutter DEF Takes, AgentTakes
<1>6. CASE Speaks
  BY <1>6, SpeaksStep
<1>7. CASE TurnEnds
  <2>1. StrayEnds => RunInv'
    BY RunStutter DEF StrayEnds
  <2>. QED  BY <1>7, <2>1, TurnAnswersStep, TurnFailsStep, ReviewAnswersStep, ClipEndingSteps DEF TurnEnds
<1>8. CASE ExecOver
  BY <1>8, ExecEndsStep DEF ExecOver
<1>9. CASE Outside
  BY <1>9, BubblesSettleStep DEF Outside
<1>10. CASE Halt
  BY <1>10, HaltStep
<1>11. CASE \E r \in RunIds : ClipMoves(r)
  BY <1>11, ClipBeginsStep, ClipRecordedStep, ClipLostStep, ClipSentStep, ReviewBeginsStep,
     ClipEndingSteps, ClipLoopSteps, ClipStoppedStep DEF ClipMoves
<1>. QED  BY <1>1, <1>2, <1>3, <1>4, <1>5, <1>6, <1>7, <1>8, <1>9, <1>10, <1>11 DEF RunNext

\* At first there is no turn.
LEMMA VoiceInit ==
  ASSUME RunInit
  PROVE  VoiceOK
<1>1. NoVoice \in [run : 0 .. MaxRuns, at : Nat]
  BY RunBounds DEF NoVoice, At
<1>. QED  BY <1>1 DEF RunInit, VoiceOK

\* Nothing of the runs changes.
LEMMA RunVarsStutter ==
  ASSUME RunInv, VoiceOK, UNCHANGED runVars
  PROVE  RunInv' /\ VoiceOK'
<1>1. UNCHANGED <<runs, steps, act, clip, voice, history>>
  BY DEF runVars, history
<1>. QED  BY <1>1, RunStutter, VoiceSame

\* What the invariant says, as the properties say it.
LEMMA RunInvSays ==
  ASSUME RunInv, VoiceOK
  PROVE  RunTypeOK /\ SuccessIsEarned /\ NothingAfterFailedExec /\ StoppedClipNeverSent
<1>1. ASSUME NEW r \in RunIds
      PROVE  /\ RowsOK(steps[r]) /\ RunFits(steps[r], runs[r]) /\ ClipFits(steps[r], clip[r])
             /\ r \in recalled => Recalled(steps[r], clip[r], r \in missed)
  BY DEF RunInv, RunOK
<1>2. RunTypeOK
  <2>1. runs \in [RunIds -> [state : RunStates, at : Nat]] /\ clip \in [RunIds -> ClipStages]
    BY <1>1 DEF RunInv, RunFits, ClipFits
  <2>2. \A r \in RunIds : \A i \in DOMAIN steps[r] : steps[r][i] \in StepRows
    BY <1>1 DEF RowsOK, RowOK
  <2>3. act \in [run : 0 .. MaxRuns, at : Nat, stage : Stages] /\ voice \in [run : 0 .. MaxRuns, at : Nat]
    BY DEF RunInv, ActOK, VoiceOK
  <2>. QED  BY <2>1, <2>2, <2>3 DEF RunTypeOK, RunInv, RunStates, ClipStages, Stages
<1>3. SuccessIsEarned
  <2>1. ASSUME NEW r \in RunIds, runs[r].state = "succeeded", NEW i \in DOMAIN steps[r]
        PROVE  steps[r][i].state = "succeeded" /\ steps[r][i].out \in {"none", "sent"}
    <3>1. RowOK(steps[r][i]) /\ steps[r][i].state = "succeeded"
      BY <1>1, <2>1 DEF RowsOK, RunFits, AllSucceeded
    <3>2. steps[r][i].kind \in StepKinds
      BY <3>1, RowFields DEF RowOK
    <3>. QED  BY <3>1, <3>2 DEF RowOK, ExecOK, MessageOK, ClipRowOK, Earned, IsClip, ClipKinds, StepKinds
  <2>. QED  BY <2>1 DEF SuccessIsEarned
<1>4. NothingAfterFailedExec
  <2>1. ASSUME NEW r \in RunIds, NEW i \in DOMAIN steps[r], NEW p \in DOMAIN steps[r], p < i,
               FailedExec(steps[r][p]), ~IsClip(steps[r][i])
        PROVE  ~Acted(steps[r][i])
    <3>1. ~IsClip(steps[r][p]) /\ HoldsBack(steps[r][p])
      BY <2>1 DEF FailedExec, HoldsBack, IsClip, ClipKinds
    <3>2. Untouched(steps[r][i])
      BY <1>1, <2>1, <3>1 DEF RowsOK, InOrder
    <3>. QED  BY <3>2 DEF Untouched, Acted, Spoke
  <2>. QED  BY <2>1 DEF NothingAfterFailedExec, FailedExec
<1>5. StoppedClipNeverSent
  BY <1>1 DEF StoppedClipNeverSent, Recalled, Row, RunInv, Spoke
<1>. QED  BY <1>2, <1>3, <1>4, <1>5

\* The rows, the run, the worker, the clip's task and the turn of the agent fit each other
\* in every reachable state of the runs.
LEMMA RunInductive == RunSpec => [](RunInv /\ VoiceOK)
<1>1. RunInit => RunInv /\ VoiceOK
  BY RunInitInv, VoiceInit
<1>2. RunInv /\ VoiceOK /\ [RunNext]_runVars => (RunInv /\ VoiceOK)'
  BY RunNextInv, VoiceNextInv, RunVarsStutter
<1>. QED  BY <1>1, <1>2, PTL DEF RunSpec

\* A webhook run has succeeded only when every step of it has, the clip included, and
\* whatever was said under its turns is delivered, by attempts that a crash cut off and by
\* turns that /stop missed too (webhooks/service.py, storage/ops/webhooks.py).
THEOREM SuccessEarned == RunSpec => []SuccessIsEarned
<1>1. RunInv /\ VoiceOK => SuccessIsEarned
  BY RunInvSays
<1>. QED  BY <1>1, RunInductive, PTL

\* No message and no further exec of a run is begun, answered or spoken for behind an exec
\* that failed, was given up or died with the process (storage/ops/webhooks.py).
THEOREM FailedExecHoldsBack == RunSpec => []NothingAfterFailedExec
<1>1. RunInv /\ VoiceOK => NothingAfterFailedExec
  BY RunInvSays
<1>. QED  BY <1>1, RunInductive, PTL

\* A clip of which nothing was queued when /stop cancelled it never enters the outbox,
\* whatever the recorder, the agent or a restart does afterwards, unless /stop did not reach
\* the turn that reviews it (webhooks/service.py, runtime/interruptions.py).
THEOREM StoppedClipUnsent == RunSpec => []StoppedClipNeverSent
<1>1. RunInv /\ VoiceOK => StoppedClipNeverSent
  BY RunInvSays
<1>. QED  BY <1>1, RunInductive, PTL

\* The specification that TLC runs keeps both parts in their types: an exec is started and a
\* clip that the run sends itself is queued at most once across every restart (done stays
\* within 0 .. 1; what a turn says may be said again).
THEOREM BackgroundTypes == MCSpec => []BackgroundTypeOK
<1>1. MCInit => WorkerInv /\ RunInv /\ VoiceOK
  BY WorkerInitInv, RunInitInv, VoiceInit DEF MCInit
<1>2. WorkerInv /\ RunInv /\ VoiceOK /\ [MCNext]_<<parts, part>> => (WorkerInv /\ RunInv /\ VoiceOK)'
  <2>1. ASSUME WorkerInv, RunInv, VoiceOK, MCNext
        PROVE  (WorkerInv /\ RunInv /\ VoiceOK)'
    <3>1. WorkerNext \/ UNCHANGED workerVars
      BY <2>1 DEF MCNext
    <3>2. RunNext \/ UNCHANGED runVars
      BY <2>1 DEF MCNext
    <3>. QED  BY <2>1, <3>1, <3>2, WorkerNextInv, WorkerStutter, RunNextInv, VoiceNextInv, RunVarsStutter
  <2>2. ASSUME WorkerInv, RunInv, VoiceOK, UNCHANGED <<parts, part>>
        PROVE  (WorkerInv /\ RunInv /\ VoiceOK)'
    <3>1. UNCHANGED workerVars /\ UNCHANGED runVars
      BY <2>2 DEF parts
    <3>. QED  BY <2>2, <3>1, WorkerStutter, RunVarsStutter
  <2>. QED  BY <2>1, <2>2
<1>3. WorkerInv /\ RunInv /\ VoiceOK => BackgroundTypeOK
  BY RunInvSays DEF WorkerInv, BackgroundTypeOK
<1>. QED  BY <1>1, <1>2, <1>3, PTL DEF MCSpec
=============================================================================

-------------------------- MODULE TaskPlanProofs --------------------------
(***************************************************************************)
(* Proofs about TaskPlan, for every number of plans, steps, revisions,     *)
(* resumptions, restarts and channels.  PlanInv is inductive: one lemma    *)
(* for each action, one step of its proof for each conjunct.               *)
(***************************************************************************)
EXTENDS TaskPlan, TLAPS

\* Queues of jobs.
LEMMA QueueAdds ==
  ASSUME NEW p \in Plans, NEW s \in Seq(Plans)
  PROVE  Append(s, p) \in Seq(Plans) /\ Range(Append(s, p)) = Range(s) \cup {p}
<1>1. /\ Append(s, p) \in Seq(Plans) /\ Len(Append(s, p)) = Len(s) + 1 /\ Len(s) \in Nat
      /\ DOMAIN s = 1 .. Len(s) /\ DOMAIN Append(s, p) = 1 .. Len(s) + 1
  OBVIOUS
<1>2. \A i \in 1 .. Len(s) + 1 : Append(s, p)[i] = IF i = Len(s) + 1 THEN p ELSE s[i]
  OBVIOUS
<1>. QED  BY <1>1, <1>2 DEF Range

\* The queue without its first job has no job that was not in it.
LEMMA QueueTakes ==
  ASSUME NEW s \in Seq(Plans), s # <<>>
  PROVE  /\ Head(s) \in Plans /\ Tail(s) \in Seq(Plans)
         /\ Range(s) = {Head(s)} \cup Range(Tail(s))
<1>1. Head(s) \in Plans /\ Tail(s) \in Seq(Plans)
  OBVIOUS
<1>2. /\ Len(Tail(s)) = Len(s) - 1 /\ Len(s) > 0 /\ Len(s) \in Nat
      /\ DOMAIN Tail(s) = 1 .. Len(Tail(s)) /\ DOMAIN s = 1 .. Len(s)
  OBVIOUS
<1>3. \A i \in 1 .. Len(Tail(s)) : Tail(s)[i] = s[i + 1]
  OBVIOUS
<1>4. Range(Tail(s)) \subseteq Range(s) /\ Head(s) \in Range(s)
  BY <1>1, <1>2, <1>3 DEF Range
<1>5. \A i \in 1 .. Len(s) : s[i] \in {Head(s)} \cup Range(Tail(s))
  <2> SUFFICES ASSUME NEW i \in 1 .. Len(s), i # 1 PROVE s[i] \in Range(Tail(s))
    OBVIOUS
  <2>1. i - 1 \in 1 .. Len(Tail(s)) /\ Tail(s)[i - 1] = s[i]
    BY <1>2, <1>3
  <2>. QED  BY <1>2, <2>1 DEF Range
<1>. QED  BY <1>1, <1>4, <1>5 DEF Range

USE DEF Plans, Status, Home, Exists, Working, Stepping, Finished, KeepRun, KeepAsks, KeepTalk

\* The fields of a row.
LEMMA RowTyped ==
  ASSUME PlanTypeOK, NEW p \in Plans
  PROVE  /\ plan[p] \in PlanRow
         /\ plan[p].status \in Statuses /\ plan[p].version \in 0 .. MaxVersions + 1
         /\ plan[p].step \in 0 .. MaxSteps /\ plan[p].size \in 0 .. MaxSteps
         /\ plan[p].approved \in 0 .. MaxVersions + 1 /\ plan[p].held \in {"no", "clean", "acted"}
         /\ plan[p].limited \in BOOLEAN /\ plan[p].resumes \in 0 .. MaxResumes
         /\ plan[p].channel \in PlanChannels \cup {Nobody}
  BY DEF PlanTypeOK, PlanRow

\* A row is replaced, the others stay.
LEMMA RowPut ==
  ASSUME PlanTypeOK, NEW p \in Plans, NEW row \in PlanRow, Put(p, row)
  PROVE  /\ plan' \in [Plans -> PlanRow] /\ plan'[p] = row
         /\ \A q \in Plans : q # p => plan'[q] = plan[q]
  BY DEF PlanTypeOK, Put

\* A row whose status is replaced.
LEMMA StatusPut ==
  ASSUME PlanTypeOK, NEW p \in Plans, NEW s \in Statuses
  PROVE  [plan[p] EXCEPT !.status = s] \in PlanRow
  BY RowTyped DEF PlanRow

\* Turns with a row in the table turns are step turns.
LEMMA BegunTyped ==
  ASSUME PlanTypeOK, NEW id \in begun
  PROVE  /\ id \in StepTurn /\ id.plan \in Plans /\ id.step \in 0 .. MaxSteps
         /\ id.version \in 0 .. MaxVersions + 1 /\ id.resumes \in 0 .. MaxResumes
  BY DEF PlanTypeOK, StepTurn

\* The plan that is worked on.
LEMMA RunAt ==
  ASSUME PlanInv, run.stage # "none"
  PROVE  /\ run.plan \in Plans
         /\ run.stage \in {"step", "closing", "handoff"} =>
              /\ Exists(run.plan) /\ run.id \in begun /\ run.id.plan = run.plan
              /\ run.id.step \in 0 .. MaxSteps /\ run.id.version \in 0 .. MaxVersions + 1
              /\ run.id.step <= plan[run.plan].step /\ run.id.version <= plan[run.plan].version
  BY BegunTyped DEF PlanInv, RunShape, BegunShape, BegunFits

\* create_plan keeps the invariant.
LEMMA CreatePlanKeeps ==
  ASSUME PlanInv, NEW p \in Plans, NEW c \in PlanChannels, NEW n \in 1 .. MaxSteps, CreatePlan(p, c, n)
  PROVE  PlanInv'
<1> DEFINE row == [Blank EXCEPT !.status = "draft", !.version = 1, !.size = n, !.channel = c]
<1>1. row \in PlanRow
  <2>0. plan[p] \in PlanRow /\ "draft" \in Statuses
    BY RowTyped DEF PlanInv, Statuses
  <2>1. 0 \in 0 .. MaxSteps /\ n \in 0 .. MaxSteps /\ 0 \in 0 .. MaxVersions + 1 /\ 1 \in 0 .. MaxVersions + 1 /\ 0 \in 0 .. MaxResumes
    BY RowTyped, PlanBounds, PlanLimits DEF PlanInv, HeldShape, HeldFits, RunShape, CreatePlan, Blank
  <2>. QED  BY <2>0, <2>1 DEF PlanRow, Blank
<1>2. Put(p, row)
  BY DEF CreatePlan, Blank
<1> HIDE DEF row
<1>3. /\ plan' \in [Plans -> PlanRow] /\ plan'[p] = row
      /\ \A q \in Plans : q # p => plan'[q] = plan[q]
  BY <1>1, <1>2, RowPut DEF PlanInv
<1>4. /\ plan'[p].status = "draft" /\ plan'[p].version = 1 /\ plan'[p].step = 0
      /\ plan'[p].size = n /\ plan'[p].approved = 0 /\ plan'[p].held = "no"
      /\ plan'[p].limited = FALSE /\ plan'[p].resumes = 0 /\ plan'[p].channel = c
  BY <1>3, RowTyped DEF PlanInv, PlanRow, row, Blank
<1>5. /\ ~Exists(p) /\ n \in 1 .. MaxSteps
      /\ UNCHANGED <<begun, mail, talk, jobs, run, halted, stranded, starts>>
      /\ UNCHANGED <<since, heard, here>> /\ source' = [source EXCEPT ![p] = "open"]
  BY DEF CreatePlan, Blank
<1>6. run.stage = "none" \/ (run.stage = "step" /\ run.cancel = "no")
  BY RunAt, PlanOwners DEF PlanInv, RunShape, HeldShape, HeldFits, Speaking, CreatePlan, Blank
<1>7. PlanTypeOK'
  BY <1>3, <1>4, <1>5, <1>6, PlanBounds, PlanLimits, PlanOwners, RowTyped DEF PlanInv, PlanTypeOK
<1>8. AgreedVersion'
  BY <1>3, <1>4, <1>5, <1>6, RowTyped DEF PlanInv, AgreedVersion
<1>9. RunningIsHeld'
  BY <1>3, <1>4, <1>5, <1>6, RowTyped DEF PlanInv, RunningIsHeld, RunShape
<1>10. RunShape'
  <2>1. CASE run.plan = p
    BY <1>3, <1>4, <1>5, <1>6, <2>1, RowTyped, RunAt DEF PlanInv, RunShape
  <2>2. CASE run.plan # p
    BY <1>3, <1>4, <1>5, <1>6, <2>2, RowTyped DEF PlanInv, RunShape
  <2>. QED  BY <2>1, <2>2
<1>11. BegunShape'
  <2> SUFFICES ASSUME NEW id \in begun PROVE BegunFits(id)'
    BY <1>5 DEF BegunShape
  <2>1. id \in begun /\ BegunFits(id)
    BY DEF PlanInv, BegunShape, HaltedShape
  <2>2. CASE id.plan = p
    BY <1>3, <1>4, <1>5, <1>6, <2>1, <2>2, RowTyped, BegunTyped DEF PlanInv, BegunFits
  <2>3. CASE id.plan # p
    BY <1>3, <1>4, <1>5, <1>6, <2>1, <2>3, BegunTyped DEF PlanInv, BegunFits
  <2>. QED  BY <2>1, <2>2, <2>3
<1>12. HeldShape'
  <2> SUFFICES ASSUME NEW q \in Plans PROVE HeldFits(q)'
    BY DEF HeldShape
  <2>1. HeldFits(q)
    BY DEF PlanInv, HeldShape
  <2>2. CASE q = p
    BY <1>3, <1>4, <1>5, <1>6, <2>1, <2>2, RowTyped, PlanBounds, PlanOwners DEF PlanInv, HeldFits
  <2>3. CASE q # p
    BY <1>3, <2>1, <2>3 DEF HeldFits
  <2>. QED  BY <2>1, <2>2, <2>3
<1>13. HaltedShape'
  <2> SUFFICES ASSUME NEW old \in halted PROVE old \in begun' /\ HaltedFits(old)'
    BY <1>5 DEF HaltedShape
  <2>1. old \in begun /\ HaltedFits(old) /\ BegunFits(old)
    BY DEF PlanInv, BegunShape, HaltedShape
  <2>2. CASE old.plan = p
    BY <1>3, <1>4, <1>5, <1>6, <2>1, <2>2, RowTyped, BegunTyped DEF PlanInv, HaltedFits, BegunFits
  <2>3. CASE old.plan # p
    BY <1>3, <1>4, <1>5, <1>6, <2>1, <2>3, BegunTyped DEF PlanInv, HaltedFits
  <2>. QED  BY <2>1, <2>2, <2>3
<1>. QED  BY <1>7, <1>8, <1>9, <1>10, <1>11, <1>12, <1>13 DEF PlanInv

\* update_plan, which makes a new version, keeps the invariant.
LEMMA UpdatePlanKeeps ==
  ASSUME PlanInv, NEW p \in Plans, NEW n \in 1 .. MaxSteps, UpdatePlan(p, n)
  PROVE  PlanInv'
<1> DEFINE row == [plan[p] EXCEPT !.status = "draft", !.version = @ + 1,
                !.size = plan[p].step + n, !.approved = 0, !.held = Carried(p), !.limited = FALSE]
<1>1. row \in PlanRow
  <2>0. plan[p] \in PlanRow /\ "draft" \in Statuses
    BY RowTyped DEF PlanInv, Statuses
  <2>1. /\ plan[p].version + 1 \in 0 .. MaxVersions + 1 /\ 0 \in 0 .. MaxVersions + 1
        /\ plan[p].step + n \in 0 .. MaxSteps /\ Carried(p) \in {"no", "clean", "acted"}
    BY RowTyped, PlanBounds, PlanLimits DEF PlanInv, HeldShape, HeldFits, RunShape, UpdatePlan, Carried
  <2>. QED  BY <2>0, <2>1 DEF PlanRow
<1>2. Put(p, row)
  BY DEF UpdatePlan, Carried
<1> HIDE DEF row
<1>3. /\ plan' \in [Plans -> PlanRow] /\ plan'[p] = row
      /\ \A q \in Plans : q # p => plan'[q] = plan[q]
  BY <1>1, <1>2, RowPut DEF PlanInv
<1>4. /\ plan'[p].status = "draft" /\ plan'[p].version = plan[p].version + 1 /\ plan'[p].step = plan[p].step
      /\ plan'[p].size = plan[p].step + n /\ plan'[p].approved = 0 /\ plan'[p].held = Carried(p)
      /\ plan'[p].limited = FALSE /\ plan'[p].resumes = plan[p].resumes /\ plan'[p].channel = plan[p].channel
  BY <1>3, RowTyped DEF PlanInv, PlanRow, row
<1>5. /\ plan[p].version < MaxVersions /\ Exists(p) /\ Status(p) \notin Finished \cup {"partial"} /\ n \in 1 .. MaxSteps
      /\ UNCHANGED <<begun, mail, talk, jobs, run, halted, stranded, starts>>
      /\ UNCHANGED <<source, since, heard, here>>
  BY DEF UpdatePlan, Carried
<1>6. run.stage = "none" \/ (run.stage = "step" /\ run.cancel = "no")
  BY RunAt, PlanOwners DEF PlanInv, RunShape, HeldShape, HeldFits, Speaking, UpdatePlan, Carried
<1>7. PlanTypeOK'
  BY <1>3, <1>4, <1>5, <1>6, PlanBounds, PlanLimits, PlanOwners, RowTyped DEF PlanInv, PlanTypeOK
<1>8. AgreedVersion'
  BY <1>3, <1>4, <1>5, <1>6, RowTyped DEF PlanInv, AgreedVersion
<1>9. RunningIsHeld'
  BY <1>3, <1>4, <1>5, <1>6, RowTyped DEF PlanInv, RunningIsHeld, RunShape
<1>10. RunShape'
  <2>1. CASE run.plan = p
    BY <1>3, <1>4, <1>5, <1>6, <2>1, RowTyped, RunAt DEF PlanInv, RunShape, Carried
  <2>2. CASE run.plan # p
    BY <1>3, <1>4, <1>5, <1>6, <2>2, RowTyped DEF PlanInv, RunShape
  <2>. QED  BY <2>1, <2>2
<1>11. BegunShape'
  <2> SUFFICES ASSUME NEW id \in begun PROVE BegunFits(id)'
    BY <1>5 DEF BegunShape
  <2>1. id \in begun /\ BegunFits(id)
    BY DEF PlanInv, BegunShape, HaltedShape
  <2>2. CASE id.plan = p
    BY <1>3, <1>4, <1>5, <1>6, <2>1, <2>2, RowTyped, BegunTyped DEF PlanInv, BegunFits, Carried
  <2>3. CASE id.plan # p
    BY <1>3, <1>4, <1>5, <1>6, <2>1, <2>3, BegunTyped DEF PlanInv, BegunFits
  <2>. QED  BY <2>1, <2>2, <2>3
<1>12. HeldShape'
  <2> SUFFICES ASSUME NEW q \in Plans PROVE HeldFits(q)'
    BY DEF HeldShape
  <2>1. HeldFits(q)
    BY DEF PlanInv, HeldShape
  <2>2. CASE q = p
    <3>1. /\ plan[p].step \in Nat /\ plan[p].version \in Nat /\ MaxVersions \in Nat
          /\ plan[p].version < MaxVersions /\ n \in Nat /\ n > 0
      BY <1>5, RowTyped, PlanBounds DEF PlanInv
    <3>2. Exists(p) /\ plan[p].channel # Nobody
      BY <1>5, <2>1, <2>2 DEF HeldFits
    <3>. QED  BY <1>4, <2>2, <3>1, <3>2 DEF HeldFits
  <2>3. CASE q # p
    BY <1>3, <2>1, <2>3 DEF HeldFits
  <2>. QED  BY <2>1, <2>2, <2>3
<1>13. HaltedShape'
  <2> SUFFICES ASSUME NEW old \in halted PROVE old \in begun' /\ HaltedFits(old)'
    BY <1>5 DEF HaltedShape
  <2>1. old \in begun /\ HaltedFits(old) /\ BegunFits(old)
    BY DEF PlanInv, BegunShape, HaltedShape
  <2>2. CASE old.plan = p
    BY <1>3, <1>4, <1>5, <1>6, <2>1, <2>2, RowTyped, BegunTyped DEF PlanInv, HaltedFits, BegunFits, Carried
  <2>3. CASE old.plan # p
    BY <1>3, <1>4, <1>5, <1>6, <2>1, <2>3, BegunTyped DEF PlanInv, HaltedFits
  <2>. QED  BY <2>1, <2>2, <2>3
<1>. QED  BY <1>7, <1>8, <1>9, <1>10, <1>11, <1>12, <1>13 DEF PlanInv

\* submit_plan keeps the invariant.
LEMMA SubmitPlanKeeps ==
  ASSUME PlanInv, NEW p \in Plans, SubmitPlan(p)
  PROVE  PlanInv'
<1> DEFINE row == [plan[p] EXCEPT !.status = "awaiting_approval", !.approved = 0]
<1>1. row \in PlanRow
  <2>0. plan[p] \in PlanRow /\ "awaiting_approval" \in Statuses
    BY RowTyped DEF PlanInv, Statuses
  <2>1. 0 \in 0 .. MaxVersions + 1
    BY RowTyped, PlanBounds, PlanLimits DEF PlanInv, HeldShape, HeldFits, RunShape, SubmitPlan, Ask
  <2>. QED  BY <2>0, <2>1 DEF PlanRow
<1>2. Put(p, row)
  BY DEF SubmitPlan, Ask
<1> HIDE DEF row
<1>3. /\ plan' \in [Plans -> PlanRow] /\ plan'[p] = row
      /\ \A q \in Plans : q # p => plan'[q] = plan[q]
  BY <1>1, <1>2, RowPut DEF PlanInv
<1>4. /\ plan'[p].status = "awaiting_approval" /\ plan'[p].version = plan[p].version /\ plan'[p].step = plan[p].step
      /\ plan'[p].size = plan[p].size /\ plan'[p].approved = 0 /\ plan'[p].held = plan[p].held
      /\ plan'[p].limited = plan[p].limited /\ plan'[p].resumes = plan[p].resumes /\ plan'[p].channel = plan[p].channel
  BY <1>3, RowTyped DEF PlanInv, PlanRow, row
<1>5. /\ Status(p) = "draft"
      /\ UNCHANGED <<begun, mail, talk, jobs, run, halted, stranded, starts>>
      /\ since' \subseteq since /\ heard' \subseteq heard /\ here' \subseteq here \cup {p} /\ UNCHANGED source
  BY DEF SubmitPlan, Ask
<1>6. run.stage = "none" \/ (run.stage = "step" /\ run.cancel = "no")
  BY RunAt, PlanOwners DEF PlanInv, RunShape, HeldShape, HeldFits, Speaking, SubmitPlan, Ask
<1>7. PlanTypeOK'
  BY <1>3, <1>4, <1>5, <1>6, PlanBounds, PlanLimits, PlanOwners, RowTyped DEF PlanInv, PlanTypeOK
<1>8. AgreedVersion'
  BY <1>3, <1>4, <1>5, <1>6, RowTyped DEF PlanInv, AgreedVersion
<1>9. RunningIsHeld'
  BY <1>3, <1>4, <1>5, <1>6, RowTyped DEF PlanInv, RunningIsHeld, RunShape
<1>10. RunShape'
  <2>1. CASE run.plan = p
    BY <1>3, <1>4, <1>5, <1>6, <2>1, RowTyped, RunAt DEF PlanInv, RunShape
  <2>2. CASE run.plan # p
    BY <1>3, <1>4, <1>5, <1>6, <2>2, RowTyped DEF PlanInv, RunShape
  <2>. QED  BY <2>1, <2>2
<1>11. BegunShape'
  <2> SUFFICES ASSUME NEW id \in begun PROVE BegunFits(id)'
    BY <1>5 DEF BegunShape
  <2>1. id \in begun /\ BegunFits(id)
    BY DEF PlanInv, BegunShape, HaltedShape
  <2>2. CASE id.plan = p
    BY <1>3, <1>4, <1>5, <1>6, <2>1, <2>2, RowTyped, BegunTyped DEF PlanInv, BegunFits
  <2>3. CASE id.plan # p
    BY <1>3, <1>4, <1>5, <1>6, <2>1, <2>3, BegunTyped DEF PlanInv, BegunFits
  <2>. QED  BY <2>1, <2>2, <2>3
<1>12. HeldShape'
  <2> SUFFICES ASSUME NEW q \in Plans PROVE HeldFits(q)'
    BY DEF HeldShape
  <2>1. HeldFits(q)
    BY DEF PlanInv, HeldShape
  <2>2. CASE q = p
    BY <1>3, <1>4, <1>5, <1>6, <2>1, <2>2, RowTyped DEF PlanInv, HeldFits
  <2>3. CASE q # p
    BY <1>3, <2>1, <2>3 DEF HeldFits
  <2>. QED  BY <2>1, <2>2, <2>3
<1>13. HaltedShape'
  <2> SUFFICES ASSUME NEW old \in halted PROVE old \in begun' /\ HaltedFits(old)'
    BY <1>5 DEF HaltedShape
  <2>1. old \in begun /\ HaltedFits(old) /\ BegunFits(old)
    BY DEF PlanInv, BegunShape, HaltedShape
  <2>2. CASE old.plan = p
    BY <1>3, <1>4, <1>5, <1>6, <2>1, <2>2, RowTyped, BegunTyped DEF PlanInv, HaltedFits, BegunFits
  <2>3. CASE old.plan # p
    BY <1>3, <1>4, <1>5, <1>6, <2>1, <2>3, BegunTyped DEF PlanInv, HaltedFits
  <2>. QED  BY <2>1, <2>2, <2>3
<1>. QED  BY <1>7, <1>8, <1>9, <1>10, <1>11, <1>12, <1>13 DEF PlanInv

\* Approval keeps the invariant.
LEMMA StartPlanKeeps ==
  ASSUME PlanInv, NEW p \in Plans, StartPlan(p)
  PROVE  PlanInv'
<1> DEFINE row == [plan[p] EXCEPT !.status = "ready", !.approved = plan[p].version, !.resumes = 0]
<1>1. row \in PlanRow
  <2>0. plan[p] \in PlanRow /\ "ready" \in Statuses
    BY RowTyped DEF PlanInv, Statuses
  <2>1. 0 \in 0 .. MaxResumes
    BY RowTyped, PlanBounds, PlanLimits DEF PlanInv, HeldShape, HeldFits, RunShape, StartPlan
  <2>. QED  BY <2>0, <2>1 DEF PlanRow
<1>2. Put(p, row)
  BY DEF StartPlan
<1> HIDE DEF row
<1>3. /\ plan' \in [Plans -> PlanRow] /\ plan'[p] = row
      /\ \A q \in Plans : q # p => plan'[q] = plan[q]
  BY <1>1, <1>2, RowPut DEF PlanInv
<1>4. /\ plan'[p].status = "ready" /\ plan'[p].version = plan[p].version /\ plan'[p].step = plan[p].step
      /\ plan'[p].size = plan[p].size /\ plan'[p].approved = plan[p].version /\ plan'[p].held = plan[p].held
      /\ plan'[p].limited = plan[p].limited /\ plan'[p].resumes = 0 /\ plan'[p].channel = plan[p].channel
  BY <1>3, RowTyped DEF PlanInv, PlanRow, row
<1>5. /\ Status(p) = "awaiting_approval" /\ plan[p].held # "acted"
      /\ UNCHANGED <<begun, mail, talk, jobs, run, halted, stranded, starts>>
      /\ UNCHANGED <<source, since, heard, here>>
  BY DEF StartPlan
<1>6. run.stage = "none"
  BY RunAt, PlanOwners DEF PlanInv, RunShape, HeldShape, HeldFits, Speaking, StartPlan
<1>7. PlanTypeOK'
  BY <1>3, <1>4, <1>5, <1>6, PlanBounds, PlanLimits, PlanOwners, RowTyped DEF PlanInv, PlanTypeOK
<1>8. AgreedVersion'
  BY <1>3, <1>4, <1>5, <1>6, RowTyped DEF PlanInv, AgreedVersion
<1>9. RunningIsHeld'
  BY <1>3, <1>4, <1>5, <1>6, RowTyped DEF PlanInv, RunningIsHeld, RunShape
<1>10. RunShape'
  <2>1. CASE run.plan = p
    BY <1>3, <1>4, <1>5, <1>6, <2>1, RowTyped, RunAt DEF PlanInv, RunShape
  <2>2. CASE run.plan # p
    BY <1>3, <1>4, <1>5, <1>6, <2>2, RowTyped DEF PlanInv, RunShape
  <2>. QED  BY <2>1, <2>2
<1>11. BegunShape'
  <2> SUFFICES ASSUME NEW id \in begun PROVE BegunFits(id)'
    BY <1>5 DEF BegunShape
  <2>1. id \in begun /\ BegunFits(id)
    BY DEF PlanInv, BegunShape, HaltedShape
  <2>2. CASE id.plan = p
    BY <1>3, <1>4, <1>5, <1>6, <2>1, <2>2, RowTyped, BegunTyped DEF PlanInv, BegunFits
  <2>3. CASE id.plan # p
    BY <1>3, <1>4, <1>5, <1>6, <2>1, <2>3, BegunTyped DEF PlanInv, BegunFits
  <2>. QED  BY <2>1, <2>2, <2>3
<1>12. HeldShape'
  <2> SUFFICES ASSUME NEW q \in Plans PROVE HeldFits(q)'
    BY DEF HeldShape
  <2>1. HeldFits(q)
    BY DEF PlanInv, HeldShape
  <2>2. CASE q = p
    BY <1>3, <1>4, <1>5, <1>6, <2>1, <2>2, RowTyped DEF PlanInv, HeldFits
  <2>3. CASE q # p
    BY <1>3, <2>1, <2>3 DEF HeldFits
  <2>. QED  BY <2>1, <2>2, <2>3
<1>13. HaltedShape'
  <2> SUFFICES ASSUME NEW old \in halted PROVE old \in begun' /\ HaltedFits(old)'
    BY <1>5 DEF HaltedShape
  <2>1. old \in begun /\ HaltedFits(old) /\ BegunFits(old)
    BY DEF PlanInv, BegunShape, HaltedShape
  <2>2. CASE old.plan = p
    BY <1>3, <1>4, <1>5, <1>6, <2>1, <2>2, RowTyped, BegunTyped DEF PlanInv, HaltedFits, BegunFits
  <2>3. CASE old.plan # p
    BY <1>3, <1>4, <1>5, <1>6, <2>1, <2>3, BegunTyped DEF PlanInv, HaltedFits
  <2>. QED  BY <2>1, <2>2, <2>3
<1>. QED  BY <1>7, <1>8, <1>9, <1>10, <1>11, <1>12, <1>13 DEF PlanInv

\* cancel_plan keeps the invariant.
LEMMA CancelPlanKeeps ==
  ASSUME PlanInv, NEW p \in Plans, CancelPlan(p)
  PROVE  PlanInv'
<1> DEFINE row == [plan[p] EXCEPT !.status = "cancelled", !.version = @ + 1]
<1>1. row \in PlanRow
  <2>0. plan[p] \in PlanRow /\ "cancelled" \in Statuses
    BY RowTyped DEF PlanInv, Statuses
  <2>1. plan[p].version + 1 \in 0 .. MaxVersions + 1
    BY RowTyped, PlanBounds, PlanLimits DEF PlanInv, HeldShape, HeldFits, RunShape, CancelPlan
  <2>. QED  BY <2>0, <2>1 DEF PlanRow
<1>2. Put(p, row)
  BY DEF CancelPlan
<1> HIDE DEF row
<1>3. /\ plan' \in [Plans -> PlanRow] /\ plan'[p] = row
      /\ \A q \in Plans : q # p => plan'[q] = plan[q]
  BY <1>1, <1>2, RowPut DEF PlanInv
<1>4. /\ plan'[p].status = "cancelled" /\ plan'[p].version = plan[p].version + 1 /\ plan'[p].step = plan[p].step
      /\ plan'[p].size = plan[p].size /\ plan'[p].approved = plan[p].approved /\ plan'[p].held = plan[p].held
      /\ plan'[p].limited = plan[p].limited /\ plan'[p].resumes = plan[p].resumes /\ plan'[p].channel = plan[p].channel
  BY <1>3, RowTyped DEF PlanInv, PlanRow, row
<1>5. /\ Exists(p) /\ Status(p) \notin Finished
      /\ UNCHANGED <<begun, mail, talk, jobs, run, halted, stranded, starts>>
      /\ UNCHANGED <<source, since, heard, here>>
  BY DEF CancelPlan
<1>6. run.stage = "none" \/ (run.stage = "step" /\ run.cancel = "no")
  BY RunAt, PlanOwners DEF PlanInv, RunShape, HeldShape, HeldFits, Speaking, CancelPlan
<1>7. PlanTypeOK'
  BY <1>3, <1>4, <1>5, <1>6, PlanBounds, PlanLimits, PlanOwners, RowTyped DEF PlanInv, PlanTypeOK
<1>8. AgreedVersion'
  BY <1>3, <1>4, <1>5, <1>6, RowTyped DEF PlanInv, AgreedVersion
<1>9. RunningIsHeld'
  BY <1>3, <1>4, <1>5, <1>6, RowTyped DEF PlanInv, RunningIsHeld, RunShape
<1>10. RunShape'
  <2>1. CASE run.plan = p
    BY <1>3, <1>4, <1>5, <1>6, <2>1, RowTyped, RunAt DEF PlanInv, RunShape
  <2>2. CASE run.plan # p
    BY <1>3, <1>4, <1>5, <1>6, <2>2, RowTyped DEF PlanInv, RunShape
  <2>. QED  BY <2>1, <2>2
<1>11. BegunShape'
  <2> SUFFICES ASSUME NEW id \in begun PROVE BegunFits(id)'
    BY <1>5 DEF BegunShape
  <2>1. id \in begun /\ BegunFits(id)
    BY DEF PlanInv, BegunShape, HaltedShape
  <2>2. CASE id.plan = p
    BY <1>3, <1>4, <1>5, <1>6, <2>1, <2>2, RowTyped, BegunTyped DEF PlanInv, BegunFits
  <2>3. CASE id.plan # p
    BY <1>3, <1>4, <1>5, <1>6, <2>1, <2>3, BegunTyped DEF PlanInv, BegunFits
  <2>. QED  BY <2>1, <2>2, <2>3
<1>12. HeldShape'
  <2> SUFFICES ASSUME NEW q \in Plans PROVE HeldFits(q)'
    BY DEF HeldShape
  <2>1. HeldFits(q)
    BY DEF PlanInv, HeldShape
  <2>2. CASE q = p
    BY <1>3, <1>4, <1>5, <1>6, <2>1, <2>2, RowTyped DEF PlanInv, HeldFits
  <2>3. CASE q # p
    BY <1>3, <2>1, <2>3 DEF HeldFits
  <2>. QED  BY <2>1, <2>2, <2>3
<1>13. HaltedShape'
  <2> SUFFICES ASSUME NEW old \in halted PROVE old \in begun' /\ HaltedFits(old)'
    BY <1>5 DEF HaltedShape
  <2>1. old \in begun /\ HaltedFits(old) /\ BegunFits(old)
    BY DEF PlanInv, BegunShape, HaltedShape
  <2>2. CASE old.plan = p
    BY <1>3, <1>4, <1>5, <1>6, <2>1, <2>2, RowTyped, BegunTyped DEF PlanInv, HaltedFits, BegunFits
  <2>3. CASE old.plan # p
    BY <1>3, <1>4, <1>5, <1>6, <2>1, <2>3, BegunTyped DEF PlanInv, HaltedFits
  <2>. QED  BY <2>1, <2>2, <2>3
<1>. QED  BY <1>7, <1>8, <1>9, <1>10, <1>11, <1>12, <1>13 DEF PlanInv

\* resume_plan keeps the invariant.
LEMMA ResumePlanKeeps ==
  ASSUME PlanInv, NEW p \in Plans, ResumePlan(p)
  PROVE  PlanInv'
<1> DEFINE row == [plan[p] EXCEPT !.status = "ready", !.limited = FALSE, !.resumes = @ + 1]
<1>1. row \in PlanRow
  <2>0. plan[p] \in PlanRow /\ "ready" \in Statuses
    BY RowTyped DEF PlanInv, Statuses
  <2>1. plan[p].resumes + 1 \in 0 .. MaxResumes
    BY RowTyped, PlanBounds, PlanLimits DEF PlanInv, HeldShape, HeldFits, RunShape, ResumePlan, SafeToResume
  <2>. QED  BY <2>0, <2>1 DEF PlanRow
<1>2. Put(p, row)
  BY DEF ResumePlan, SafeToResume
<1> HIDE DEF row
<1>3. /\ plan' \in [Plans -> PlanRow] /\ plan'[p] = row
      /\ \A q \in Plans : q # p => plan'[q] = plan[q]
  BY <1>1, <1>2, RowPut DEF PlanInv
<1>4. /\ plan'[p].status = "ready" /\ plan'[p].version = plan[p].version /\ plan'[p].step = plan[p].step
      /\ plan'[p].size = plan[p].size /\ plan'[p].approved = plan[p].approved /\ plan'[p].held = plan[p].held
      /\ plan'[p].limited = FALSE /\ plan'[p].resumes = plan[p].resumes + 1 /\ plan'[p].channel = plan[p].channel
  BY <1>3, RowTyped DEF PlanInv, PlanRow, row
<1>5. /\ Status(p) = "paused" /\ plan[p].approved = plan[p].version /\ plan[p].step < plan[p].size
      /\ (~plan[p].limited => plan[p].held # "acted")
      /\ UNCHANGED <<begun, mail, talk, jobs, run, halted, stranded, starts>>
      /\ UNCHANGED <<source, since, heard, here>>
  BY DEF ResumePlan, SafeToResume
<1>6. run.stage = "none" \/ (run.stage = "step" /\ run.cancel = "no")
  BY RunAt, PlanOwners DEF PlanInv, RunShape, HeldShape, HeldFits, Speaking, ResumePlan, SafeToResume
<1>7. PlanTypeOK'
  BY <1>3, <1>4, <1>5, <1>6, PlanBounds, PlanLimits, PlanOwners, RowTyped DEF PlanInv, PlanTypeOK
<1>8. AgreedVersion'
  BY <1>3, <1>4, <1>5, <1>6, RowTyped DEF PlanInv, AgreedVersion
<1>9. RunningIsHeld'
  BY <1>3, <1>4, <1>5, <1>6, RowTyped DEF PlanInv, RunningIsHeld, RunShape
<1>10. RunShape'
  <2>1. CASE run.plan = p
    BY <1>3, <1>4, <1>5, <1>6, <2>1, RowTyped, RunAt DEF PlanInv, RunShape
  <2>2. CASE run.plan # p
    BY <1>3, <1>4, <1>5, <1>6, <2>2, RowTyped DEF PlanInv, RunShape
  <2>. QED  BY <2>1, <2>2
<1>11. BegunShape'
  <2> SUFFICES ASSUME NEW id \in begun PROVE BegunFits(id)'
    BY <1>5 DEF BegunShape
  <2>1. id \in begun /\ BegunFits(id)
    BY DEF PlanInv, BegunShape, HaltedShape
  <2>2. CASE id.plan = p
    BY <1>3, <1>4, <1>5, <1>6, <2>1, <2>2, RowTyped, BegunTyped DEF PlanInv, BegunFits
  <2>3. CASE id.plan # p
    BY <1>3, <1>4, <1>5, <1>6, <2>1, <2>3, BegunTyped DEF PlanInv, BegunFits
  <2>. QED  BY <2>1, <2>2, <2>3
<1>12. HeldShape'
  <2> SUFFICES ASSUME NEW q \in Plans PROVE HeldFits(q)'
    BY DEF HeldShape
  <2>1. HeldFits(q)
    BY DEF PlanInv, HeldShape
  <2>2. CASE q = p
    BY <1>3, <1>4, <1>5, <1>6, <2>1, <2>2, RowTyped DEF PlanInv, HeldFits
  <2>3. CASE q # p
    BY <1>3, <2>1, <2>3 DEF HeldFits
  <2>. QED  BY <2>1, <2>2, <2>3
<1>13. HaltedShape'
  <2> SUFFICES ASSUME NEW old \in halted PROVE old \in begun' /\ HaltedFits(old)'
    BY <1>5 DEF HaltedShape
  <2>1. old \in begun /\ HaltedFits(old) /\ BegunFits(old)
    BY DEF PlanInv, BegunShape, HaltedShape
  <2>2. CASE old.plan = p
    BY <1>3, <1>4, <1>5, <1>6, <2>1, <2>2, RowTyped, BegunTyped DEF PlanInv, HaltedFits, BegunFits
  <2>3. CASE old.plan # p
    BY <1>3, <1>4, <1>5, <1>6, <2>1, <2>3, BegunTyped DEF PlanInv, HaltedFits
  <2>. QED  BY <2>1, <2>2, <2>3
<1>. QED  BY <1>7, <1>8, <1>9, <1>10, <1>11, <1>12, <1>13 DEF PlanInv

\* A message of the owner keeps the invariant.
LEMMA OwnerWritesKeeps ==
  ASSUME PlanInv, NEW c \in PlanChannels, OwnerWrites(c)
  PROVE  PlanInv'
<1>1. PlanTypeOK'
  BY PlanBounds, PlanLimits, PlanOwners, RowTyped DEF PlanInv, PlanTypeOK, OwnerWrites
<1>2. AgreedVersion'
  BY RowTyped DEF PlanInv, AgreedVersion, OwnerWrites
<1>3. RunningIsHeld'
  BY RowTyped DEF PlanInv, RunningIsHeld, RunShape, OwnerWrites
<1>4. RunShape'
  BY RowTyped, RunAt DEF PlanInv, RunShape, HeldShape, HeldFits, OwnerWrites
<1>5. BegunShape'
  BY RowTyped, BegunTyped DEF PlanInv, BegunShape, BegunFits, RunShape, OwnerWrites
<1>6. HeldShape'
  BY RowTyped, PlanBounds DEF PlanInv, HeldShape, HeldFits, RunShape, OwnerWrites
<1>7. HaltedShape'
  BY RowTyped, BegunTyped DEF PlanInv, HaltedShape, HaltedFits, BegunShape, BegunFits, RunShape, HeldShape, HeldFits, OwnerWrites
<1>. QED  BY <1>1, <1>2, <1>3, <1>4, <1>5, <1>6, <1>7 DEF PlanInv

\* /stop keeps the invariant.
LEMMA OwnerStopsKeeps ==
  ASSUME PlanInv, NEW c \in PlanChannels, OwnerStops(c)
  PROVE  PlanInv'
<1>1. PlanTypeOK'
  <2>1. ASSUME NEW p \in Plans PROVE plan'[p] \in PlanRow
    BY StatusPut, RowTyped DEF PlanInv, OwnerStops, Statuses
  <2>2. plan' \in [Plans -> PlanRow]
    BY <2>1 DEF OwnerStops
  <2>. QED  BY <2>2, PlanLimits, PlanOwners DEF PlanInv, PlanTypeOK, OwnerStops, Settle
<1>2. AgreedVersion'
  BY RowTyped DEF PlanInv, AgreedVersion, OwnerStops, Stoppable, Settle
<1>3. RunningIsHeld'
  BY RowTyped DEF PlanInv, RunningIsHeld, RunShape, OwnerStops, Stoppable, Settle
<1>4. RunShape'
  BY RowTyped, RunAt DEF PlanInv, RunShape, HeldShape, HeldFits, OwnerStops, Stoppable, Settle
<1>5. BegunShape'
  BY RowTyped, BegunTyped DEF PlanInv, BegunShape, BegunFits, RunShape, OwnerStops, Stoppable, Settle
<1>6. HeldShape'
  BY RowTyped, PlanBounds DEF PlanInv, HeldShape, HeldFits, RunShape, OwnerStops, Stoppable, Settle
<1>7. HaltedShape'
  BY RowTyped, BegunTyped DEF PlanInv, HaltedShape, HaltedFits, BegunShape, BegunFits, RunShape, HeldShape, HeldFits, OwnerStops, Stoppable, Settle
<1>. QED  BY <1>1, <1>2, <1>3, <1>4, <1>5, <1>6, <1>7 DEF PlanInv

\* The start of an owner turn keeps the invariant.
LEMMA OwnerTurnKeeps ==
  ASSUME PlanInv, NEW c \in PlanChannels, OwnerTurn(c)
  PROVE  PlanInv'
<1>1. PlanTypeOK'
  BY PlanBounds, PlanLimits, PlanOwners, RowTyped DEF PlanInv, PlanTypeOK, OwnerTurn, Read
<1>2. AgreedVersion'
  BY RowTyped DEF PlanInv, AgreedVersion, OwnerTurn, Read
<1>3. RunningIsHeld'
  BY RowTyped DEF PlanInv, RunningIsHeld, RunShape, OwnerTurn, Read
<1>4. RunShape'
  BY RowTyped, RunAt DEF PlanInv, RunShape, HeldShape, HeldFits, OwnerTurn, Read
<1>5. BegunShape'
  BY RowTyped, BegunTyped DEF PlanInv, BegunShape, BegunFits, RunShape, OwnerTurn, Read
<1>6. HeldShape'
  BY RowTyped, PlanBounds DEF PlanInv, HeldShape, HeldFits, RunShape, OwnerTurn, Read
<1>7. HaltedShape'
  BY RowTyped, BegunTyped DEF PlanInv, HaltedShape, HaltedFits, BegunShape, BegunFits, RunShape, HeldShape, HeldFits, OwnerTurn, Read
<1>. QED  BY <1>1, <1>2, <1>3, <1>4, <1>5, <1>6, <1>7 DEF PlanInv

\* An update of a running owner turn keeps the invariant.
LEMMA AbsorbKeeps ==
  ASSUME PlanInv, NEW c \in PlanChannels, Absorb(c)
  PROVE  PlanInv'
<1>1. PlanTypeOK'
  BY PlanBounds, PlanLimits, PlanOwners, RowTyped DEF PlanInv, PlanTypeOK, Absorb, Read
<1>2. AgreedVersion'
  BY RowTyped DEF PlanInv, AgreedVersion, Absorb, Read
<1>3. RunningIsHeld'
  BY RowTyped DEF PlanInv, RunningIsHeld, RunShape, Absorb, Read
<1>4. RunShape'
  BY RowTyped, RunAt DEF PlanInv, RunShape, HeldShape, HeldFits, Absorb, Read
<1>5. BegunShape'
  BY RowTyped, BegunTyped DEF PlanInv, BegunShape, BegunFits, RunShape, Absorb, Read
<1>6. HeldShape'
  BY RowTyped, PlanBounds DEF PlanInv, HeldShape, HeldFits, RunShape, Absorb, Read
<1>7. HaltedShape'
  BY RowTyped, BegunTyped DEF PlanInv, HaltedShape, HaltedFits, BegunShape, BegunFits, RunShape, HeldShape, HeldFits, Absorb, Read
<1>. QED  BY <1>1, <1>2, <1>3, <1>4, <1>5, <1>6, <1>7 DEF PlanInv

\* The end of an owner turn keeps the invariant.
LEMMA OwnerTurnEndsKeeps ==
  ASSUME PlanInv, NEW o \in {"completed", "lost"}, OwnerTurnEnds(o)
  PROVE  PlanInv'
<1>1. PlanTypeOK'
  BY PlanBounds, PlanLimits, PlanOwners, RowTyped DEF PlanInv, PlanTypeOK, OwnerTurnEnds, Settle
<1>2. AgreedVersion'
  BY RowTyped DEF PlanInv, AgreedVersion, OwnerTurnEnds, Settle
<1>3. RunningIsHeld'
  BY RowTyped DEF PlanInv, RunningIsHeld, RunShape, OwnerTurnEnds, Settle
<1>4. RunShape'
  BY RowTyped, RunAt DEF PlanInv, RunShape, HeldShape, HeldFits, OwnerTurnEnds, Settle
<1>5. BegunShape'
  BY RowTyped, BegunTyped DEF PlanInv, BegunShape, BegunFits, RunShape, OwnerTurnEnds, Settle
<1>6. HeldShape'
  BY RowTyped, PlanBounds DEF PlanInv, HeldShape, HeldFits, RunShape, OwnerTurnEnds, Settle
<1>7. HaltedShape'
  BY RowTyped, BegunTyped DEF PlanInv, HaltedShape, HaltedFits, BegunShape, BegunFits, RunShape, HeldShape, HeldFits, OwnerTurnEnds, Settle
<1>. QED  BY <1>1, <1>2, <1>3, <1>4, <1>5, <1>6, <1>7 DEF PlanInv

\* The scheduler's claim keeps the invariant.
LEMMA ClaimPlanKeeps ==
  ASSUME PlanInv, NEW p \in Plans, ClaimPlan(p)
  PROVE  PlanInv'
<1> DEFINE row == [plan[p] EXCEPT !.status = "running"]
<1>1. row \in PlanRow
  <2>0. plan[p] \in PlanRow /\ "running" \in Statuses
    BY RowTyped DEF PlanInv, Statuses
  <2>1. plan[p] \in PlanRow
    BY RowTyped, PlanBounds, PlanLimits DEF PlanInv, HeldShape, HeldFits, RunShape, ClaimPlan, Claimable
  <2>. QED  BY <2>0, <2>1 DEF PlanRow
<1>2. Put(p, row)
  BY DEF ClaimPlan, Claimable
<1> HIDE DEF row
<1>3. /\ plan' \in [Plans -> PlanRow] /\ plan'[p] = row
      /\ \A q \in Plans : q # p => plan'[q] = plan[q]
  BY <1>1, <1>2, RowPut DEF PlanInv
<1>4. /\ plan'[p].status = "running" /\ plan'[p].version = plan[p].version /\ plan'[p].step = plan[p].step
      /\ plan'[p].size = plan[p].size /\ plan'[p].approved = plan[p].approved /\ plan'[p].held = plan[p].held
      /\ plan'[p].limited = plan[p].limited /\ plan'[p].resumes = plan[p].resumes /\ plan'[p].channel = plan[p].channel
  BY <1>3, RowTyped DEF PlanInv, PlanRow, row
<1>5. /\ Status(p) = "ready" /\ plan[p].approved = plan[p].version /\ jobs' = Append(jobs, p)
      /\ UNCHANGED <<source, begun, since, heard, run, halted, stranded, mail, talk, here, starts>>
  BY DEF ClaimPlan, Claimable
<1>6. jobs' \in Seq(Plans) /\ Range(jobs') = Range(jobs) \cup {p}
  BY <1>5, QueueAdds DEF PlanInv, PlanTypeOK
<1>7. PlanTypeOK'
  BY <1>3, <1>4, <1>5, <1>6, PlanBounds, PlanLimits, PlanOwners, RowTyped DEF PlanInv, PlanTypeOK
<1>8. AgreedVersion'
  BY <1>3, <1>4, <1>5, <1>6, RowTyped DEF PlanInv, AgreedVersion
<1>9. RunningIsHeld'
  BY <1>3, <1>4, <1>5, <1>6, RowTyped DEF PlanInv, RunningIsHeld, RunShape
<1>10. RunShape'
  <2>1. CASE run.plan = p
    BY <1>3, <1>4, <1>5, <1>6, <2>1, RowTyped, RunAt DEF PlanInv, RunShape
  <2>2. CASE run.plan # p
    BY <1>3, <1>4, <1>5, <1>6, <2>2, RowTyped DEF PlanInv, RunShape
  <2>. QED  BY <2>1, <2>2
<1>11. BegunShape'
  <2> SUFFICES ASSUME NEW id \in begun PROVE BegunFits(id)'
    BY <1>5 DEF BegunShape
  <2>1. id \in begun /\ BegunFits(id)
    BY DEF PlanInv, BegunShape, HaltedShape
  <2>2. CASE id.plan = p
    BY <1>3, <1>4, <1>5, <1>6, <2>1, <2>2, RowTyped, BegunTyped DEF PlanInv, BegunFits
  <2>3. CASE id.plan # p
    BY <1>3, <1>4, <1>5, <1>6, <2>1, <2>3, BegunTyped DEF PlanInv, BegunFits
  <2>. QED  BY <2>1, <2>2, <2>3
<1>12. HeldShape'
  <2> SUFFICES ASSUME NEW q \in Plans PROVE HeldFits(q)'
    BY DEF HeldShape
  <2>1. HeldFits(q)
    BY DEF PlanInv, HeldShape
  <2>2. CASE q = p
    BY <1>3, <1>4, <1>5, <1>6, <2>1, <2>2, RowTyped DEF PlanInv, HeldFits
  <2>3. CASE q # p
    BY <1>3, <2>1, <2>3 DEF HeldFits
  <2>. QED  BY <2>1, <2>2, <2>3
<1>13. HaltedShape'
  <2> SUFFICES ASSUME NEW old \in halted PROVE old \in begun' /\ HaltedFits(old)'
    BY <1>5 DEF HaltedShape
  <2>1. old \in begun /\ HaltedFits(old) /\ BegunFits(old)
    BY DEF PlanInv, BegunShape, HaltedShape
  <2>2. CASE old.plan = p
    BY <1>3, <1>4, <1>5, <1>6, <2>1, <2>2, RowTyped, BegunTyped DEF PlanInv, HaltedFits, BegunFits
  <2>3. CASE old.plan # p
    BY <1>3, <1>4, <1>5, <1>6, <2>1, <2>3, BegunTyped DEF PlanInv, HaltedFits
  <2>. QED  BY <2>1, <2>2, <2>3
<1>. QED  BY <1>7, <1>8, <1>9, <1>10, <1>11, <1>12, <1>13 DEF PlanInv

\* The worker's taking of the job keeps the invariant.
LEMMA TakeJobKeeps ==
  ASSUME PlanInv, TakeJob
  PROVE  PlanInv'
<1>1. /\ Head(jobs) \in Plans /\ jobs' \in Seq(Plans)
      /\ Range(jobs) = {Head(jobs)} \cup Range(jobs')
  BY QueueTakes DEF PlanInv, PlanTypeOK, TakeJob
<1>2. /\ run.stage = "none" /\ talk = Nobody /\ run' = [NoRun EXCEPT !.plan = Head(jobs), !.stage = "begin"]
      /\ UNCHANGED <<plan, source, begun, since, heard, halted, stranded, mail, talk, here, starts>>
  BY DEF TakeJob
<1>3. run'.plan = Head(jobs) /\ run'.stage = "begin" /\ run'.done = FALSE
  BY <1>2 DEF NoRun
<1>4. PlanTypeOK'
  BY <1>1, <1>2 DEF PlanInv, PlanTypeOK, NoRun
<1>5. AgreedVersion'
  BY <1>2 DEF PlanInv, AgreedVersion
<1>6. RunningIsHeld'
  BY <1>1, <1>2, <1>3 DEF PlanInv, RunningIsHeld
<1>7. RunShape'
  BY <1>1, <1>2, <1>3 DEF PlanInv, RunShape
<1>8. BegunShape'
  BY <1>2, BegunTyped DEF PlanInv, BegunShape, BegunFits
<1>9. HeldShape'
  BY <1>2 DEF PlanInv, HeldShape, HeldFits
<1>10. HaltedShape'
  BY <1>2, BegunTyped DEF PlanInv, HaltedShape, HaltedFits
<1>. QED  BY <1>4, <1>5, <1>6, <1>7, <1>8, <1>9, <1>10 DEF PlanInv

\* The begin of a step keeps the invariant.
LEMMA BeginStepOnPlanKeeps ==
  ASSUME PlanInv, BeginStep, Status(run.plan) = "running"
  PROVE  PlanInv'
<1>1. /\ run.plan \in Plans /\ run.stage = "begin" /\ talk = Nobody /\ StepId(run.plan) \notin begun
      /\ run' = [run EXCEPT !.stage = "step", !.id = StepId(run.plan)]
      /\ begun' = begun \cup {StepId(run.plan)}
  BY RunAt DEF PlanInv, RunShape, BeginStep
<1>2. UNCHANGED <<plan, source, since, heard, jobs, halted, stranded, mail, talk, here, starts>>
  BY DEF BeginStep
<1>3. /\ StepId(run.plan) \in StepTurn
      /\ StepId(run.plan).plan = run.plan /\ StepId(run.plan).step = plan[run.plan].step
      /\ StepId(run.plan).version = plan[run.plan].version
      /\ StepId(run.plan).resumes = plan[run.plan].resumes
  BY <1>1, RowTyped DEF PlanInv, StepId, StepTurn
<1>4. /\ run'.plan = run.plan /\ run'.stage = "step" /\ run'.id = StepId(run.plan)
      /\ run'.done = run.done /\ ~run.done
  BY <1>1 DEF PlanInv, PlanTypeOK, RunShape
<1>5. PlanTypeOK'
  BY <1>1, <1>2, <1>3 DEF PlanInv, PlanTypeOK
<1>6. AgreedVersion'
  BY <1>2 DEF PlanInv, AgreedVersion
<1>7. RunningIsHeld'
  BY <1>1, <1>2, <1>4 DEF PlanInv, RunningIsHeld
<1>8. RunShape'
  BY <1>1, <1>2, <1>3, <1>4, RowTyped DEF PlanInv, RunShape, HeldShape, HeldFits
<1>9. BegunShape'
  <2> SUFFICES ASSUME NEW id \in begun' PROVE BegunFits(id)'
    BY DEF BegunShape
  <2>1. CASE id = StepId(run.plan)
    BY <1>1, <1>2, <1>3, <1>4, <2>1, RowTyped DEF PlanInv, BegunFits
  <2>2. CASE id \in begun
    BY <1>1, <1>2, <1>4, <2>2, BegunTyped DEF PlanInv, BegunShape, BegunFits
  <2>. QED  BY <1>1, <2>1, <2>2
<1>10. HeldShape'
  BY <1>2 DEF PlanInv, HeldShape, HeldFits
<1>11. HaltedShape'
  BY <1>1, <1>2, BegunTyped DEF PlanInv, HaltedShape, HaltedFits
<1>. QED  BY <1>5, <1>6, <1>7, <1>8, <1>9, <1>10, <1>11 DEF PlanInv

\* A job whose plan was stopped keeps the invariant.
LEMMA BeginStepOnNoneKeeps ==
  ASSUME PlanInv, BeginStep, Status(run.plan) # "running"
  PROVE  PlanInv'
<1>1. PlanTypeOK'
  <2>1. run' = NoRun /\ UNCHANGED begun
    BY DEF BeginStep
  <2>. QED  BY <2>1 DEF PlanInv, PlanTypeOK, BeginStep, NoRun
<1>2. AgreedVersion'
  BY RowTyped DEF PlanInv, AgreedVersion, BeginStep, NoRun
<1>3. RunningIsHeld'
  BY RowTyped DEF PlanInv, RunningIsHeld, RunShape, BeginStep, NoRun
<1>4. RunShape'
  BY RowTyped, RunAt DEF PlanInv, RunShape, HeldShape, HeldFits, BeginStep, NoRun
<1>5. BegunShape'
  BY RowTyped, BegunTyped DEF PlanInv, BegunShape, BegunFits, RunShape, BeginStep, NoRun
<1>6. HeldShape'
  BY RowTyped, PlanBounds DEF PlanInv, HeldShape, HeldFits, RunShape, BeginStep, NoRun
<1>7. HaltedShape'
  BY RowTyped, BegunTyped DEF PlanInv, HaltedShape, HaltedFits, BegunShape, BegunFits, RunShape, HeldShape, HeldFits, BeginStep, NoRun
<1>. QED  BY <1>1, <1>2, <1>3, <1>4, <1>5, <1>6, <1>7 DEF PlanInv

\* An external effect of a step keeps the invariant.
LEMMA StepActsKeeps ==
  ASSUME PlanInv, StepActs
  PROVE  PlanInv'
<1>1. PlanTypeOK'
  BY PlanBounds, PlanLimits, PlanOwners, RowTyped DEF PlanInv, PlanTypeOK, StepActs
<1>2. AgreedVersion'
  BY RowTyped DEF PlanInv, AgreedVersion, StepActs
<1>3. RunningIsHeld'
  BY RowTyped DEF PlanInv, RunningIsHeld, RunShape, StepActs
<1>4. RunShape'
  BY RowTyped, RunAt DEF PlanInv, RunShape, HeldShape, HeldFits, StepActs
<1>5. BegunShape'
  BY RowTyped, BegunTyped DEF PlanInv, BegunShape, BegunFits, RunShape, StepActs
<1>6. HeldShape'
  BY RowTyped, PlanBounds DEF PlanInv, HeldShape, HeldFits, RunShape, StepActs
<1>7. HaltedShape'
  BY RowTyped, BegunTyped DEF PlanInv, HaltedShape, HaltedFits, BegunShape, BegunFits, RunShape, HeldShape, HeldFits, StepActs
<1>. QED  BY <1>1, <1>2, <1>3, <1>4, <1>5, <1>6, <1>7 DEF PlanInv

\* finish_plan_step keeps the invariant.
LEMMA FinishStepKeeps ==
  ASSUME PlanInv, NEW s \in {"blocked", "failed", "partial", "completed", "ready"}, FinishStep(s)
  PROVE  PlanInv'
<1>0. run.plan \in Plans /\ run.stage # "none" /\ run.stage \in {"step", "closing"} /\ ~run.done
  BY RunAt DEF PlanInv, RunShape, NoRun, FinishStep, Advanced
<1> DEFINE row == Advanced(run.plan, s)
<1>1. row \in PlanRow
  <2>0. plan[run.plan] \in PlanRow /\ s \in Statuses
    BY <1>0, RowTyped DEF PlanInv, Statuses
  <2>1. plan[run.plan].step + 1 \in 0 .. MaxSteps
    BY <1>0, RowTyped, PlanBounds, PlanLimits DEF PlanInv, HeldShape, HeldFits, RunShape
  <2>. QED  BY <2>0, <2>1 DEF PlanRow, Advanced
<1>2. Put(run.plan, row)
  BY <1>0 DEF FinishStep, Advanced
<1> HIDE DEF row
<1>3. /\ plan' \in [Plans -> PlanRow] /\ plan'[run.plan] = row
      /\ \A q \in Plans : q # run.plan => plan'[q] = plan[q]
  BY <1>1, <1>2, <1>0, RowPut DEF PlanInv
<1>4. /\ plan'[run.plan].status = s /\ plan'[run.plan].version = plan[run.plan].version
      /\ plan'[run.plan].step = plan[run.plan].step + 1 /\ plan'[run.plan].size = plan[run.plan].size
      /\ plan'[run.plan].approved = plan[run.plan].approved /\ plan'[run.plan].held = "no"
      /\ plan'[run.plan].limited = plan[run.plan].limited /\ plan'[run.plan].resumes = plan[run.plan].resumes
      /\ plan'[run.plan].channel = plan[run.plan].channel
  BY <1>3, <1>0, RowTyped DEF PlanInv, PlanRow, row, Advanced
<1>5. /\ run.stage \in {"step", "closing"} /\ ~run.done /\ Status(run.plan) = "running"
      /\ s = "ready" => plan[run.plan].step + 1 # plan[run.plan].size
      /\ run' = [run EXCEPT !.done = TRUE] /\ UNCHANGED <<source, begun, since, heard, jobs, halted, stranded, mail, talk, here, starts>>
  BY <1>0 DEF FinishStep, Advanced
<1>6. run.id \in begun /\ run.id.plan = run.plan /\ run.id.step = plan[run.plan].step
  BY <1>5, <1>0, RunAt DEF PlanInv, RunShape
<1>7. PlanTypeOK'
  BY <1>0, <1>3, <1>4, <1>5, <1>6, PlanBounds, PlanLimits, PlanOwners, RowTyped DEF PlanInv, PlanTypeOK
<1>8. AgreedVersion'
  BY <1>0, <1>3, <1>4, <1>5, <1>6, RowTyped DEF PlanInv, AgreedVersion
<1>9. RunningIsHeld'
  BY <1>0, <1>3, <1>4, <1>5, <1>6, RowTyped DEF PlanInv, RunningIsHeld, RunShape
<1>10. RunShape'
  BY <1>0, <1>3, <1>4, <1>5, <1>6, RowTyped, RunAt DEF PlanInv, RunShape, HeldShape, HeldFits
<1>11. BegunShape'
  <2> SUFFICES ASSUME NEW id \in begun PROVE BegunFits(id)'
    BY <1>5 DEF BegunShape
  <2>1. id \in begun /\ BegunFits(id)
    BY DEF PlanInv, BegunShape, HaltedShape
  <2>2. CASE id.plan = run.plan
    BY <1>0, <1>3, <1>4, <1>5, <1>6, <2>1, <2>2, RowTyped, BegunTyped DEF PlanInv, BegunFits
  <2>3. CASE id.plan # run.plan
    BY <1>0, <1>3, <1>4, <1>5, <1>6, <2>1, <2>3, BegunTyped DEF PlanInv, BegunFits
  <2>. QED  BY <2>1, <2>2, <2>3
<1>12. HeldShape'
  <2> SUFFICES ASSUME NEW q \in Plans PROVE HeldFits(q)'
    BY DEF HeldShape
  <2>1. HeldFits(q)
    BY DEF PlanInv, HeldShape
  <2>2. CASE q = run.plan
    BY <1>0, <1>4, <1>5, <2>1, <2>2, RowTyped DEF PlanInv, HeldFits
  <2>3. CASE q # run.plan
    BY <1>3, <2>1, <2>3 DEF HeldFits
  <2>. QED  BY <2>1, <2>2, <2>3
<1>13. HaltedShape'
  <2> SUFFICES ASSUME NEW old \in halted PROVE old \in begun' /\ HaltedFits(old)'
    BY <1>5 DEF HaltedShape
  <2>1. old \in begun /\ HaltedFits(old) /\ BegunFits(old)
    BY DEF PlanInv, BegunShape, HaltedShape
  <2>2. CASE old.plan = run.plan
    BY <1>0, <1>3, <1>4, <1>5, <1>6, <2>1, <2>2, RowTyped, BegunTyped DEF PlanInv, HaltedFits, BegunFits
  <2>3. CASE old.plan # run.plan
    BY <1>0, <1>3, <1>4, <1>5, <1>6, <2>1, <2>3, BegunTyped DEF PlanInv, HaltedFits
  <2>. QED  BY <2>1, <2>2, <2>3
<1>. QED  BY <1>7, <1>8, <1>9, <1>10, <1>11, <1>12, <1>13 DEF PlanInv

\* The return of a finished step keeps the invariant.
LEMMA StepReturnsKeeps ==
  ASSUME PlanInv, StepReturns
  PROVE  PlanInv'
<1>1. PlanTypeOK'
  BY PlanBounds, PlanLimits, PlanOwners, RowTyped DEF PlanInv, PlanTypeOK, StepReturns, Settle, NoRun
<1>2. AgreedVersion'
  BY RowTyped DEF PlanInv, AgreedVersion, StepReturns, Settle, NoRun
<1>3. RunningIsHeld'
  BY RowTyped DEF PlanInv, RunningIsHeld, RunShape, StepReturns, Settle, NoRun
<1>4. RunShape'
  BY RowTyped, RunAt DEF PlanInv, RunShape, HeldShape, HeldFits, StepReturns, Settle, NoRun
<1>5. BegunShape'
  BY RowTyped, BegunTyped DEF PlanInv, BegunShape, BegunFits, RunShape, StepReturns, Settle, NoRun
<1>6. HeldShape'
  BY RowTyped, PlanBounds DEF PlanInv, HeldShape, HeldFits, RunShape, StepReturns, Settle, NoRun
<1>7. HaltedShape'
  BY RowTyped, BegunTyped DEF PlanInv, HaltedShape, HaltedFits, BegunShape, BegunFits, RunShape, HeldShape, HeldFits, StepReturns, Settle, NoRun
<1>. QED  BY <1>1, <1>2, <1>3, <1>4, <1>5, <1>6, <1>7 DEF PlanInv

\* A step given up because its plan was stopped keeps the invariant.
LEMMA StepAbandonedKeeps ==
  ASSUME PlanInv, StepAbandoned
  PROVE  PlanInv'
<1>1. PlanTypeOK'
  BY PlanBounds, PlanLimits, PlanOwners, RowTyped DEF PlanInv, PlanTypeOK, StepAbandoned, StoppedOrRevised, Settle, NoRun
<1>2. AgreedVersion'
  BY RowTyped DEF PlanInv, AgreedVersion, StepAbandoned, StoppedOrRevised, Settle, NoRun
<1>3. RunningIsHeld'
  BY RowTyped DEF PlanInv, RunningIsHeld, RunShape, StepAbandoned, StoppedOrRevised, Settle, NoRun
<1>4. RunShape'
  BY RowTyped, RunAt DEF PlanInv, RunShape, HeldShape, HeldFits, StepAbandoned, StoppedOrRevised, Settle, NoRun
<1>5. BegunShape'
  BY RowTyped, BegunTyped DEF PlanInv, BegunShape, BegunFits, RunShape, StepAbandoned, StoppedOrRevised, Settle, NoRun
<1>6. HeldShape'
  BY RowTyped, PlanBounds DEF PlanInv, HeldShape, HeldFits, RunShape, StepAbandoned, StoppedOrRevised, Settle, NoRun
<1>7. HaltedShape'
  BY RowTyped, BegunTyped DEF PlanInv, HaltedShape, HaltedFits, BegunShape, BegunFits, RunShape, HeldShape, HeldFits, StepAbandoned, StoppedOrRevised, Settle, NoRun
<1>. QED  BY <1>1, <1>2, <1>3, <1>4, <1>5, <1>6, <1>7 DEF PlanInv

\* A step stopped at its limit keeps the invariant.
LEMMA LimitReachedKeeps ==
  ASSUME PlanInv, LimitReached
  PROVE  PlanInv'
<1>0. run.plan \in Plans /\ run.stage # "none"
  BY RunAt DEF PlanInv, RunShape, NoRun, LimitReached, StoppedOrRevised, Ask, Settle
<1> DEFINE row == [plan[run.plan] EXCEPT !.status = "paused", !.limited = TRUE]
<1>1. row \in PlanRow
  <2>0. plan[run.plan] \in PlanRow /\ "paused" \in Statuses
    BY <1>0, RowTyped DEF PlanInv, Statuses
  <2>1. plan[run.plan] \in PlanRow
    BY <1>0, RowTyped, PlanBounds, PlanLimits DEF PlanInv, HeldShape, HeldFits, RunShape, LimitReached, StoppedOrRevised, Ask, Settle
  <2>. QED  BY <2>0, <2>1 DEF PlanRow
<1>2. Put(run.plan, row)
  BY <1>0 DEF LimitReached, StoppedOrRevised, Ask, Settle
<1> HIDE DEF row
<1>3. /\ plan' \in [Plans -> PlanRow] /\ plan'[run.plan] = row
      /\ \A q \in Plans : q # run.plan => plan'[q] = plan[q]
  BY <1>1, <1>2, <1>0, RowPut DEF PlanInv
<1>4. /\ plan'[run.plan].status = "paused" /\ plan'[run.plan].version = plan[run.plan].version
      /\ plan'[run.plan].step = plan[run.plan].step /\ plan'[run.plan].size = plan[run.plan].size
      /\ plan'[run.plan].approved = plan[run.plan].approved /\ plan'[run.plan].held = plan[run.plan].held
      /\ plan'[run.plan].limited = TRUE /\ plan'[run.plan].resumes = plan[run.plan].resumes
      /\ plan'[run.plan].channel = plan[run.plan].channel
  BY <1>3, <1>0, RowTyped DEF PlanInv, PlanRow, row
<1>5. /\ run.stage = "step" /\ ~run.done /\ Status(run.plan) \notin {"awaiting_approval", "cancelled"}
      /\ run' = [run EXCEPT !.stage = "handoff"] /\ since' \subseteq since /\ heard' \subseteq heard
      /\ source' = [p \in Plans |-> IF source[p] = "open" THEN "completed" ELSE source[p]]
      /\ UNCHANGED <<begun, jobs, halted, stranded, mail, talk, here, starts>>
  BY <1>0 DEF LimitReached, StoppedOrRevised, Ask, Settle
<1>6. run.id \in begun /\ run.id.plan = run.plan /\ run.id.step = plan[run.plan].step
  BY <1>5, <1>0, RunAt DEF PlanInv, RunShape
<1>7. PlanTypeOK'
  BY <1>0, <1>3, <1>4, <1>5, <1>6, PlanBounds, PlanLimits, PlanOwners, RowTyped DEF PlanInv, PlanTypeOK
<1>8. AgreedVersion'
  BY <1>0, <1>3, <1>4, <1>5, <1>6, RowTyped DEF PlanInv, AgreedVersion
<1>9. RunningIsHeld'
  BY <1>0, <1>3, <1>4, <1>5, <1>6, RowTyped DEF PlanInv, RunningIsHeld, RunShape
<1>10. RunShape'
  BY <1>0, <1>3, <1>4, <1>5, <1>6, RowTyped, RunAt DEF PlanInv, RunShape, HeldShape, HeldFits
<1>11. BegunShape'
  <2> SUFFICES ASSUME NEW id \in begun PROVE BegunFits(id)'
    BY <1>5 DEF BegunShape
  <2>1. id \in begun /\ BegunFits(id)
    BY DEF PlanInv, BegunShape, HaltedShape
  <2>2. CASE id.plan = run.plan
    BY <1>0, <1>3, <1>4, <1>5, <1>6, <2>1, <2>2, RowTyped, BegunTyped DEF PlanInv, BegunFits
  <2>3. CASE id.plan # run.plan
    BY <1>0, <1>3, <1>4, <1>5, <1>6, <2>1, <2>3, BegunTyped DEF PlanInv, BegunFits
  <2>. QED  BY <2>1, <2>2, <2>3
<1>12. HeldShape'
  <2> SUFFICES ASSUME NEW q \in Plans PROVE HeldFits(q)'
    BY DEF HeldShape
  <2>1. HeldFits(q)
    BY DEF PlanInv, HeldShape
  <2>2. CASE q = run.plan
    BY <1>0, <1>3, <1>4, <1>5, <1>6, <2>1, <2>2, RowTyped DEF PlanInv, HeldFits, RunShape
  <2>3. CASE q # run.plan
    BY <1>3, <2>1, <2>3 DEF HeldFits
  <2>. QED  BY <2>1, <2>2, <2>3
<1>13. HaltedShape'
  <2> SUFFICES ASSUME NEW old \in halted PROVE old \in begun' /\ HaltedFits(old)'
    BY <1>5 DEF HaltedShape
  <2>1. old \in begun /\ HaltedFits(old) /\ BegunFits(old)
    BY DEF PlanInv, BegunShape, HaltedShape
  <2>2. CASE old.plan = run.plan
    BY <1>0, <1>3, <1>4, <1>5, <1>6, <2>1, <2>2, RowTyped, BegunTyped DEF PlanInv, HaltedFits, BegunFits
  <2>3. CASE old.plan # run.plan
    BY <1>0, <1>3, <1>4, <1>5, <1>6, <2>1, <2>3, BegunTyped DEF PlanInv, HaltedFits
  <2>. QED  BY <2>1, <2>2, <2>3
<1>. QED  BY <1>7, <1>8, <1>9, <1>10, <1>11, <1>12, <1>13 DEF PlanInv

\* The end of a step whose turn has been handed over keeps the invariant.
LEMMA HandedOverKeeps ==
  ASSUME PlanInv, HandedOver
  PROVE  PlanInv'
<1>1. PlanTypeOK'
  BY PlanBounds, PlanLimits, PlanOwners, RowTyped DEF PlanInv, PlanTypeOK, HandedOver, NoRun
<1>2. AgreedVersion'
  BY RowTyped DEF PlanInv, AgreedVersion, HandedOver, NoRun
<1>3. RunningIsHeld'
  BY RowTyped DEF PlanInv, RunningIsHeld, RunShape, HandedOver, NoRun
<1>4. RunShape'
  BY RowTyped, RunAt DEF PlanInv, RunShape, HeldShape, HeldFits, HandedOver, NoRun
<1>5. BegunShape'
  BY RowTyped, BegunTyped DEF PlanInv, BegunShape, BegunFits, RunShape, HandedOver, NoRun
<1>6. HeldShape'
  BY RowTyped, PlanBounds DEF PlanInv, HeldShape, HeldFits, RunShape, HandedOver, NoRun
<1>7. HaltedShape'
  BY RowTyped, BegunTyped DEF PlanInv, HaltedShape, HaltedFits, BegunShape, BegunFits, RunShape, HeldShape, HeldFits, HandedOver, NoRun
<1>. QED  BY <1>1, <1>2, <1>3, <1>4, <1>5, <1>6, <1>7 DEF PlanInv

\* A step at its soft limit keeps the invariant.
LEMMA StepTimesOutKeeps ==
  ASSUME PlanInv, StepTimesOut
  PROVE  PlanInv'
<1>1. PlanTypeOK'
  BY PlanBounds, PlanLimits, PlanOwners, RowTyped DEF PlanInv, PlanTypeOK, StepTimesOut, StoppedOrRevised
<1>2. AgreedVersion'
  BY RowTyped DEF PlanInv, AgreedVersion, StepTimesOut, StoppedOrRevised
<1>3. RunningIsHeld'
  BY RowTyped DEF PlanInv, RunningIsHeld, RunShape, StepTimesOut, StoppedOrRevised
<1>4. RunShape'
  BY RowTyped, RunAt DEF PlanInv, RunShape, HeldShape, HeldFits, StepTimesOut, StoppedOrRevised
<1>5. BegunShape'
  BY RowTyped, BegunTyped DEF PlanInv, BegunShape, BegunFits, RunShape, StepTimesOut, StoppedOrRevised
<1>6. HeldShape'
  BY RowTyped, PlanBounds DEF PlanInv, HeldShape, HeldFits, RunShape, StepTimesOut, StoppedOrRevised
<1>7. HaltedShape'
  BY RowTyped, BegunTyped DEF PlanInv, HaltedShape, HaltedFits, BegunShape, BegunFits, RunShape, HeldShape, HeldFits, StepTimesOut, StoppedOrRevised
<1>. QED  BY <1>1, <1>2, <1>3, <1>4, <1>5, <1>6, <1>7 DEF PlanInv

\* A failed step that blocks its plan keeps the invariant.
LEMMA StepBlocksKeeps ==
  ASSUME PlanInv, StepFails, Status(run.plan) = "running"
  PROVE  PlanInv'
<1>0. run.plan \in Plans /\ run.stage # "none" /\ run.stage \in {"step", "closing"} /\ ~run.done
  BY RunAt DEF PlanInv, RunShape, NoRun, StepFails, Advanced, Settle
<1> DEFINE row == Advanced(run.plan, "blocked")
<1>1. row \in PlanRow
  <2>0. plan[run.plan] \in PlanRow /\ "blocked" \in Statuses
    BY <1>0, RowTyped DEF PlanInv, Statuses
  <2>1. plan[run.plan].step + 1 \in 0 .. MaxSteps
    BY <1>0, RowTyped, PlanBounds, PlanLimits DEF PlanInv, HeldShape, HeldFits, RunShape
  <2>. QED  BY <2>0, <2>1 DEF PlanRow, Advanced
<1>2. Put(run.plan, row)
  BY <1>0 DEF StepFails, Advanced, Settle
<1> HIDE DEF row
<1>3. /\ plan' \in [Plans -> PlanRow] /\ plan'[run.plan] = row
      /\ \A q \in Plans : q # run.plan => plan'[q] = plan[q]
  BY <1>1, <1>2, <1>0, RowPut DEF PlanInv
<1>4. /\ plan'[run.plan].status = "blocked" /\ plan'[run.plan].version = plan[run.plan].version
      /\ plan'[run.plan].step = plan[run.plan].step + 1 /\ plan'[run.plan].size = plan[run.plan].size
      /\ plan'[run.plan].approved = plan[run.plan].approved /\ plan'[run.plan].held = "no"
      /\ plan'[run.plan].limited = plan[run.plan].limited /\ plan'[run.plan].resumes = plan[run.plan].resumes
      /\ plan'[run.plan].channel = plan[run.plan].channel
  BY <1>3, <1>0, RowTyped DEF PlanInv, PlanRow, row, Advanced
<1>5. /\ run.stage \in {"step", "closing"} /\ ~run.done
      /\ run' = NoRun /\ source' = [p \in Plans |-> IF source[p] = "open" THEN "completed" ELSE source[p]]
      /\ UNCHANGED <<begun, since, heard, jobs, halted, stranded, mail, talk, here, starts>>
  BY <1>0 DEF StepFails, Advanced, Settle
<1>6. run.id \in begun /\ run.id.plan = run.plan /\ run.id.step = plan[run.plan].step
  BY <1>5, <1>0, RunAt DEF PlanInv, RunShape
<1>7. PlanTypeOK'
  BY <1>0, <1>3, <1>4, <1>5, <1>6, PlanBounds, PlanLimits, PlanOwners, RowTyped DEF PlanInv, PlanTypeOK, NoRun
<1>8. AgreedVersion'
  BY <1>0, <1>3, <1>4, <1>5, <1>6, RowTyped DEF PlanInv, AgreedVersion, NoRun
<1>9. RunningIsHeld'
  BY <1>0, <1>3, <1>4, <1>5, <1>6, RowTyped DEF PlanInv, RunningIsHeld, RunShape, NoRun
<1>10. RunShape'
  BY <1>0, <1>3, <1>4, <1>5, <1>6, RowTyped, RunAt DEF PlanInv, RunShape, HeldShape, HeldFits, NoRun
<1>11. BegunShape'
  <2> SUFFICES ASSUME NEW id \in begun PROVE BegunFits(id)'
    BY <1>5 DEF BegunShape
  <2>1. id \in begun /\ BegunFits(id)
    BY DEF PlanInv, BegunShape, HaltedShape
  <2>2. CASE id.plan = run.plan
    BY <1>0, <1>3, <1>4, <1>5, <1>6, <2>1, <2>2, RowTyped, BegunTyped DEF PlanInv, BegunFits
  <2>3. CASE id.plan # run.plan
    BY <1>0, <1>3, <1>4, <1>5, <1>6, <2>1, <2>3, BegunTyped DEF PlanInv, BegunFits
  <2>. QED  BY <2>1, <2>2, <2>3
<1>12. HeldShape'
  <2> SUFFICES ASSUME NEW q \in Plans PROVE HeldFits(q)'
    BY DEF HeldShape
  <2>1. HeldFits(q)
    BY DEF PlanInv, HeldShape
  <2>2. CASE q = run.plan
    BY <1>0, <1>3, <1>4, <1>5, <1>6, <2>1, <2>2, RowTyped DEF PlanInv, HeldFits
  <2>3. CASE q # run.plan
    BY <1>3, <2>1, <2>3 DEF HeldFits
  <2>. QED  BY <2>1, <2>2, <2>3
<1>13. HaltedShape'
  <2> SUFFICES ASSUME NEW old \in halted PROVE old \in begun' /\ HaltedFits(old)'
    BY <1>5 DEF HaltedShape
  <2>1. old \in begun /\ HaltedFits(old) /\ BegunFits(old)
    BY DEF PlanInv, BegunShape, HaltedShape
  <2>2. CASE old.plan = run.plan
    BY <1>0, <1>3, <1>4, <1>5, <1>6, <2>1, <2>2, RowTyped, BegunTyped DEF PlanInv, HaltedFits, BegunFits
  <2>3. CASE old.plan # run.plan
    BY <1>0, <1>3, <1>4, <1>5, <1>6, <2>1, <2>3, BegunTyped DEF PlanInv, HaltedFits
  <2>. QED  BY <2>1, <2>2, <2>3
<1>. QED  BY <1>7, <1>8, <1>9, <1>10, <1>11, <1>12, <1>13 DEF PlanInv

\* A failed step of a plan stopped meanwhile keeps the invariant.
LEMMA StepGivesUpKeeps ==
  ASSUME PlanInv, StepFails, Status(run.plan) # "running"
  PROVE  PlanInv'
<1>1. PlanTypeOK'
  BY PlanBounds, PlanLimits, PlanOwners, RowTyped DEF PlanInv, PlanTypeOK, StepFails, Settle, NoRun
<1>2. AgreedVersion'
  BY RowTyped DEF PlanInv, AgreedVersion, StepFails, Settle, NoRun
<1>3. RunningIsHeld'
  BY RowTyped DEF PlanInv, RunningIsHeld, RunShape, StepFails, Settle, NoRun
<1>4. RunShape'
  BY RowTyped, RunAt DEF PlanInv, RunShape, HeldShape, HeldFits, StepFails, Settle, NoRun
<1>5. BegunShape'
  BY RowTyped, BegunTyped DEF PlanInv, BegunShape, BegunFits, RunShape, StepFails, Settle, NoRun
<1>6. HeldShape'
  BY RowTyped, PlanBounds DEF PlanInv, HeldShape, HeldFits, RunShape, StepFails, Settle, NoRun
<1>7. HaltedShape'
  BY RowTyped, BegunTyped DEF PlanInv, HaltedShape, HaltedFits, BegunShape, BegunFits, RunShape, HeldShape, HeldFits, StepFails, Settle, NoRun
<1>. QED  BY <1>1, <1>2, <1>3, <1>4, <1>5, <1>6, <1>7 DEF PlanInv

\* A cancelled step whose handler changes nothing, or never runs, keeps the invariant.
LEMMA CancelledQuietlyKeeps ==
  ASSUME PlanInv, Cancelled, Status(run.plan) # "running" \/ (run.stage = "begin" /\ Pauses)
  PROVE  PlanInv'
<1>1. PlanTypeOK'
  BY PlanBounds, PlanLimits, PlanOwners, RunAt DEF PlanInv, PlanTypeOK, Cancelled, Settle, NoRun
<1>2. AgreedVersion'
  BY RowTyped DEF PlanInv, AgreedVersion, Cancelled, Pauses, Settle, NoRun
<1>3. RunningIsHeld'
  BY RowTyped DEF PlanInv, RunningIsHeld, RunShape, Cancelled, Pauses, Settle, NoRun
<1>4. RunShape'
  BY RowTyped, RunAt DEF PlanInv, RunShape, HeldShape, HeldFits, Cancelled, Pauses, Settle, NoRun
<1>5. BegunShape'
  BY RowTyped, BegunTyped DEF PlanInv, BegunShape, BegunFits, RunShape, Cancelled, Pauses, Settle, NoRun
<1>6. HeldShape'
  BY RowTyped, PlanBounds DEF PlanInv, HeldShape, HeldFits, RunShape, Cancelled, Pauses, Settle, NoRun
<1>7. HaltedShape'
  BY RowTyped, BegunTyped DEF PlanInv, HaltedShape, HaltedFits, BegunShape, BegunFits, RunShape, HeldShape, HeldFits, Cancelled, Pauses, Settle, NoRun
<1>. QED  BY <1>1, <1>2, <1>3, <1>4, <1>5, <1>6, <1>7 DEF PlanInv

\* A cancelled step that pauses its plan keeps the invariant.
LEMMA CancelledPausingKeeps ==
  ASSUME PlanInv, Cancelled, Status(run.plan) = "running", run.stage # "begin", Pauses
  PROVE  PlanInv'
<1>0. run.plan \in Plans /\ run.stage # "none"
  BY RunAt DEF PlanInv, RunShape, NoRun, Cancelled, Settle
<1> DEFINE row == [plan[run.plan] EXCEPT !.status = "paused",
                !.held = IF run.acted THEN "acted" ELSE "clean"]
<1>1. row \in PlanRow
  <2>0. plan[run.plan] \in PlanRow /\ "paused" \in Statuses
    BY <1>0, RowTyped DEF PlanInv, Statuses
  <2>1. plan[run.plan] \in PlanRow
    BY <1>0, RowTyped, PlanBounds, PlanLimits DEF PlanInv, HeldShape, HeldFits, RunShape, Cancelled, Settle
  <2>. QED  BY <2>0, <2>1 DEF PlanRow
<1>2. Put(run.plan, row)
  BY <1>0 DEF Cancelled, Settle
<1> HIDE DEF row
<1>3. /\ plan' \in [Plans -> PlanRow] /\ plan'[run.plan] = row
      /\ \A q \in Plans : q # run.plan => plan'[q] = plan[q]
  BY <1>1, <1>2, <1>0, RowPut DEF PlanInv
<1>4. /\ plan'[run.plan].status = "paused" /\ plan'[run.plan].version = plan[run.plan].version
      /\ plan'[run.plan].step = plan[run.plan].step /\ plan'[run.plan].size = plan[run.plan].size
      /\ plan'[run.plan].approved = plan[run.plan].approved /\ plan'[run.plan].held = (IF run.acted THEN "acted" ELSE "clean")
      /\ plan'[run.plan].limited = plan[run.plan].limited /\ plan'[run.plan].resumes = plan[run.plan].resumes
      /\ plan'[run.plan].channel = plan[run.plan].channel
  BY <1>3, <1>0, RowTyped DEF PlanInv, PlanRow, row
<1>5. /\ run' = NoRun
      /\ source' = [p \in Plans |-> IF source[p] = "open"
                    THEN (IF run.done /\ run.stage = "closing" THEN "completed" ELSE "lost") ELSE source[p]]
      /\ halted' = IF run.acted THEN halted \cup {run.id} ELSE halted
      /\ stranded' = stranded
      /\ UNCHANGED <<begun, since, heard, jobs, mail, talk, here, starts>>
  <2>1. run' = NoRun
    BY <1>0 DEF Cancelled, Settle
  <2>2. source' = [p \in Plans |-> IF source[p] = "open"
                    THEN (IF run.done /\ run.stage = "closing" THEN "completed" ELSE "lost") ELSE source[p]]
    BY <1>0 DEF Cancelled, Settle
  <2>3. halted' = IF run.acted THEN halted \cup {run.id} ELSE halted
    BY <1>0 DEF Cancelled, Settle
  <2>4. stranded' = stranded
    BY <1>0 DEF Cancelled, Settle
  <2>5. UNCHANGED <<begun, since, heard, jobs, mail, talk, here, starts>>
    BY <1>0 DEF Cancelled, Settle
  <2>. QED  BY <2>1, <2>2, <2>3, <2>4, <2>5
<1>6. run.id \in begun /\ run.id.plan = run.plan /\ run.id.step <= plan[run.plan].step
      /\ run.stage # "handoff"
  BY <1>5, <1>0, RunAt DEF PlanInv, PlanTypeOK, RunShape
<1>7. PlanTypeOK'
  BY <1>0, <1>3, <1>4, <1>5, <1>6, PlanBounds, PlanLimits, PlanOwners, RowTyped DEF PlanInv, PlanTypeOK, NoRun
<1>8. AgreedVersion'
  BY <1>0, <1>3, <1>4, <1>5, <1>6, RowTyped DEF PlanInv, AgreedVersion, NoRun
<1>9. RunningIsHeld'
  BY <1>0, <1>3, <1>4, <1>5, <1>6, RowTyped DEF PlanInv, RunningIsHeld, RunShape, NoRun
<1>10. RunShape'
  BY <1>0, <1>3, <1>4, <1>5, <1>6, RowTyped, RunAt DEF PlanInv, RunShape, HeldShape, HeldFits, NoRun
<1>11. BegunShape'
  <2> SUFFICES ASSUME NEW id \in begun PROVE BegunFits(id)'
    BY <1>5 DEF BegunShape
  <2>1. id \in begun /\ BegunFits(id)
    BY DEF PlanInv, BegunShape, HaltedShape
  <2>2. CASE id.plan = run.plan
    BY <1>0, <1>3, <1>4, <1>5, <1>6, <2>1, <2>2, RowTyped, BegunTyped DEF PlanInv, BegunFits
  <2>3. CASE id.plan # run.plan
    BY <1>0, <1>3, <1>4, <1>5, <1>6, <2>1, <2>3, BegunTyped DEF PlanInv, BegunFits
  <2>. QED  BY <2>1, <2>2, <2>3
<1>12. HeldShape'
  <2> SUFFICES ASSUME NEW q \in Plans PROVE HeldFits(q)'
    BY DEF HeldShape
  <2>1. HeldFits(q)
    BY DEF PlanInv, HeldShape
  <2>2. CASE q = run.plan
    BY <1>0, <1>3, <1>4, <1>5, <1>6, <2>1, <2>2, RowTyped DEF PlanInv, HeldFits
  <2>3. CASE q # run.plan
    BY <1>3, <2>1, <2>3 DEF HeldFits
  <2>. QED  BY <2>1, <2>2, <2>3
<1>13. HaltedShape'
  <2> SUFFICES ASSUME NEW old \in halted' PROVE old \in begun' /\ HaltedFits(old)'
    BY DEF HaltedShape
  <2>1. old \in begun
    BY <1>5, <1>6 DEF PlanInv, HaltedShape
  <2>2. HeldFits(run.plan) /\ (old \in halted => HaltedFits(old))
    BY <1>0 DEF PlanInv, HeldShape, HaltedShape
  <2>3. CASE old = run.id /\ run.acted
    BY <1>0, <1>4, <1>5, <1>6, <2>1, <2>2, <2>3, RowTyped DEF PlanInv, HaltedFits, HeldFits
  <2>4. CASE old \in halted /\ old.plan = run.plan
    BY <1>0, <1>4, <1>5, <2>1, <2>2, <2>4, RowTyped DEF PlanInv, HaltedFits, HeldFits
  <2>5. CASE old \in halted /\ old.plan # run.plan
    BY <1>3, <1>5, <2>1, <2>2, <2>5, BegunTyped DEF PlanInv, HaltedFits
  <2>. QED  BY <1>5, <2>3, <2>4, <2>5
<1>. QED  BY <1>7, <1>8, <1>9, <1>10, <1>11, <1>12, <1>13 DEF PlanInv

\* A cancelled step that blocks its plan keeps the invariant.
LEMMA CancelledBlockingKeeps ==
  ASSUME PlanInv, Cancelled, Status(run.plan) = "running", ~Pauses
  PROVE  PlanInv'
<1>0. run.plan \in Plans /\ run.stage # "none"
  BY RunAt DEF PlanInv, RunShape, NoRun, Cancelled, Settle, Pauses
<1> DEFINE row == [plan[run.plan] EXCEPT !.status = "blocked"]
<1>1. row \in PlanRow
  <2>0. plan[run.plan] \in PlanRow /\ "blocked" \in Statuses
    BY <1>0, RowTyped DEF PlanInv, Statuses
  <2>1. plan[run.plan] \in PlanRow
    BY <1>0, RowTyped, PlanBounds, PlanLimits DEF PlanInv, HeldShape, HeldFits, RunShape, Cancelled, Settle, Pauses
  <2>. QED  BY <2>0, <2>1 DEF PlanRow
<1>2. Put(run.plan, row)
  BY <1>0 DEF Cancelled, Settle, Pauses
<1> HIDE DEF row
<1>3. /\ plan' \in [Plans -> PlanRow] /\ plan'[run.plan] = row
      /\ \A q \in Plans : q # run.plan => plan'[q] = plan[q]
  BY <1>1, <1>2, <1>0, RowPut DEF PlanInv
<1>4. /\ plan'[run.plan].status = "blocked" /\ plan'[run.plan].version = plan[run.plan].version
      /\ plan'[run.plan].step = plan[run.plan].step /\ plan'[run.plan].size = plan[run.plan].size
      /\ plan'[run.plan].approved = plan[run.plan].approved /\ plan'[run.plan].held = plan[run.plan].held
      /\ plan'[run.plan].limited = plan[run.plan].limited /\ plan'[run.plan].resumes = plan[run.plan].resumes
      /\ plan'[run.plan].channel = plan[run.plan].channel
  BY <1>3, <1>0, RowTyped DEF PlanInv, PlanRow, row
<1>5. /\ run' = NoRun
      /\ source' = [p \in Plans |-> IF source[p] = "open"
                    THEN (IF run.done /\ run.stage = "closing" THEN "completed" ELSE "lost") ELSE source[p]]
      /\ halted' = halted /\ stranded' = stranded
      /\ UNCHANGED <<begun, since, heard, jobs, mail, talk, here, starts>>
  <2>1. run' = NoRun
    BY <1>0 DEF Cancelled, Settle, Pauses
  <2>2. source' = [p \in Plans |-> IF source[p] = "open"
                    THEN (IF run.done /\ run.stage = "closing" THEN "completed" ELSE "lost") ELSE source[p]]
    BY <1>0 DEF Cancelled, Settle, Pauses
  <2>3. halted' = halted /\ stranded' = stranded
    BY <1>0 DEF Cancelled, Settle, Pauses
  <2>4. UNCHANGED <<begun, since, heard, jobs, mail, talk, here, starts>>
    BY <1>0 DEF Cancelled, Settle, Pauses
  <2>. QED  BY <2>1, <2>2, <2>3, <2>4
<1>6. run.stage \in {"begin", "step"}
  BY <1>0 DEF Pauses, PlanInv, PlanTypeOK
<1>7. PlanTypeOK'
  BY <1>0, <1>3, <1>4, <1>5, <1>6, PlanBounds, PlanLimits, PlanOwners, RowTyped DEF PlanInv, PlanTypeOK, NoRun
<1>8. AgreedVersion'
  BY <1>0, <1>3, <1>4, <1>5, <1>6, RowTyped DEF PlanInv, AgreedVersion, NoRun
<1>9. RunningIsHeld'
  BY <1>0, <1>3, <1>4, <1>5, <1>6, RowTyped DEF PlanInv, RunningIsHeld, RunShape, NoRun
<1>10. RunShape'
  BY <1>0, <1>3, <1>4, <1>5, <1>6, RowTyped, RunAt DEF PlanInv, RunShape, HeldShape, HeldFits, NoRun
<1>11. BegunShape'
  <2> SUFFICES ASSUME NEW id \in begun PROVE BegunFits(id)'
    BY <1>5 DEF BegunShape
  <2>1. id \in begun /\ BegunFits(id)
    BY DEF PlanInv, BegunShape, HaltedShape
  <2>2. CASE id.plan = run.plan
    BY <1>0, <1>3, <1>4, <1>5, <1>6, <2>1, <2>2, RowTyped, BegunTyped DEF PlanInv, BegunFits
  <2>3. CASE id.plan # run.plan
    BY <1>0, <1>3, <1>4, <1>5, <1>6, <2>1, <2>3, BegunTyped DEF PlanInv, BegunFits
  <2>. QED  BY <2>1, <2>2, <2>3
<1>12. HeldShape'
  <2> SUFFICES ASSUME NEW q \in Plans PROVE HeldFits(q)'
    BY DEF HeldShape
  <2>1. HeldFits(q)
    BY DEF PlanInv, HeldShape
  <2>2. CASE q = run.plan
    BY <1>0, <1>3, <1>4, <1>5, <1>6, <2>1, <2>2, RowTyped DEF PlanInv, HeldFits
  <2>3. CASE q # run.plan
    BY <1>3, <2>1, <2>3 DEF HeldFits
  <2>. QED  BY <2>1, <2>2, <2>3
<1>13. HaltedShape'
  <2> SUFFICES ASSUME NEW old \in halted PROVE old \in begun' /\ HaltedFits(old)'
    BY <1>5 DEF HaltedShape
  <2>1. old \in begun /\ HaltedFits(old) /\ BegunFits(old)
    BY DEF PlanInv, BegunShape, HaltedShape
  <2>2. CASE old.plan = run.plan
    BY <1>0, <1>3, <1>4, <1>5, <1>6, <2>1, <2>2, RowTyped, BegunTyped DEF PlanInv, HaltedFits, BegunFits
  <2>3. CASE old.plan # run.plan
    BY <1>0, <1>3, <1>4, <1>5, <1>6, <2>1, <2>3, BegunTyped DEF PlanInv, HaltedFits
  <2>. QED  BY <2>1, <2>2, <2>3
<1>. QED  BY <1>7, <1>8, <1>9, <1>10, <1>11, <1>12, <1>13 DEF PlanInv

\* A crash and the recovery of plans keep the invariant.
LEMMA PlanRestartKeeps ==
  ASSUME PlanInv, PlanRestart
  PROVE  PlanInv'
<1>1. PlanTypeOK'
  <2>1. ASSUME NEW p \in Plans PROVE plan'[p] \in PlanRow
    BY StatusPut, RowTyped DEF PlanInv, PlanRestart, Statuses
  <2>2. plan' \in [Plans -> PlanRow]
    BY <2>1 DEF PlanRestart
  <2>. QED  BY <2>2, PlanLimits, PlanOwners DEF PlanInv, PlanTypeOK, PlanRestart, Settle, NoRun
<1>2. AgreedVersion'
  BY RowTyped DEF PlanInv, AgreedVersion, PlanRestart, Settle, NoRun
<1>3. RunningIsHeld'
  BY RowTyped DEF PlanInv, RunningIsHeld, RunShape, PlanRestart, Settle, NoRun
<1>4. RunShape'
  BY RowTyped, RunAt DEF PlanInv, RunShape, HeldShape, HeldFits, PlanRestart, Settle, NoRun
<1>5. BegunShape'
  BY RowTyped, BegunTyped DEF PlanInv, BegunShape, BegunFits, RunShape, PlanRestart, Settle, NoRun
<1>6. HeldShape'
  BY RowTyped, PlanBounds DEF PlanInv, HeldShape, HeldFits, RunShape, PlanRestart, Settle, NoRun
<1>7. HaltedShape'
  BY RowTyped, BegunTyped DEF PlanInv, HaltedShape, HaltedFits, BegunShape, BegunFits, RunShape, HeldShape, HeldFits, PlanRestart, Settle, NoRun
<1>. QED  BY <1>1, <1>2, <1>3, <1>4, <1>5, <1>6, <1>7 DEF PlanInv

\* No plans: the invariant holds.
LEMMA InitKeeps == ASSUME PlanInit PROVE PlanInv
<1>1. \A p \in Plans : plan[p] = Blank
  BY DEF PlanInit
<1>2. Blank \in PlanRow
  <2>1. 0 \in 0 .. MaxVersions + 1 /\ 0 \in 0 .. MaxSteps /\ 0 \in 0 .. MaxResumes
    BY PlanBounds, PlanLimits
  <2>. QED  BY <2>1 DEF Blank, PlanRow, Statuses
<1>3. PlanTypeOK
  <2>1. plan \in [Plans -> PlanRow]
    BY <1>2 DEF PlanInit
  <2>. QED  BY <2>1, PlanLimits DEF PlanInit, PlanTypeOK, NoRun
<1>4. AgreedVersion /\ RunningIsHeld /\ HeldShape
  BY <1>1, PlanBounds DEF AgreedVersion, RunningIsHeld, HeldShape, HeldFits, Blank
<1>5. RunShape /\ BegunShape /\ HaltedShape
  BY DEF PlanInit, RunShape, BegunShape, HaltedShape, NoRun
<1>. QED  BY <1>3, <1>4, <1>5 DEF PlanInv

\* Every step keeps the invariant.
LEMMA StepKeeps == ASSUME PlanInv, [PlanNext]_planVars PROVE PlanInv'
<1>1. CASE Tools
  BY <1>1, CreatePlanKeeps, UpdatePlanKeeps, SubmitPlanKeeps, StartPlanKeeps, CancelPlanKeeps,
     ResumePlanKeeps DEF Tools
<1>2. CASE Owner
  BY <1>2, OwnerWritesKeeps, OwnerStopsKeeps, OwnerTurnKeeps, AbsorbKeeps DEF Owner
<1>3. CASE OwnerTurnEnds("completed") \/ OwnerTurnEnds("lost")
  BY <1>3, OwnerTurnEndsKeeps
<1>4. CASE (\E p \in Plans : ClaimPlan(p)) \/ TakeJob
  BY <1>4, ClaimPlanKeeps, TakeJobKeeps
<1>5. CASE BeginStep
  BY <1>5, BeginStepOnPlanKeeps, BeginStepOnNoneKeeps
<1>6. CASE StepActs
  BY <1>6, StepActsKeeps
<1>7. CASE StepEnds
  BY <1>7, FinishStepKeeps, StepReturnsKeeps, StepAbandonedKeeps, LimitReachedKeeps,
     HandedOverKeeps, StepTimesOutKeeps, StepBlocksKeeps, StepGivesUpKeeps DEF StepEnds
<1>8. CASE Cancelled
  BY <1>8, CancelledQuietlyKeeps, CancelledPausingKeeps, CancelledBlockingKeeps
<1>9. CASE PlanRestart
  BY <1>9, PlanRestartKeeps
<1>10. CASE UNCHANGED planVars
  <2>1. UNCHANGED <<plan, source, begun, mail, since, heard, here, talk, jobs, run, halted,
                    stranded, starts>>
    BY <1>10 DEF planVars
  <2>2. PlanTypeOK' /\ AgreedVersion' /\ RunningIsHeld' /\ RunShape'
    BY <2>1 DEF PlanInv, PlanTypeOK, AgreedVersion, RunningIsHeld, RunShape
  <2>3. BegunShape' /\ HeldShape' /\ HaltedShape'
    BY <2>1 DEF PlanInv, BegunShape, BegunFits, HeldShape, HeldFits, HaltedShape, HaltedFits
  <2>. QED  BY <2>2, <2>3 DEF PlanInv
<1>. QED
  BY <1>1, <1>2, <1>3, <1>4, <1>5, <1>6, <1>7, <1>8, <1>9, <1>10 DEF PlanNext

\* PlanInv holds whatever the owner, the planner, the scheduler and the worker do.
THEOREM PlanInvHolds == PlanSpec => []PlanInv
<1>1. PlanInit => PlanInv
  BY InitKeeps
<1>2. PlanInv /\ [PlanNext]_planVars => PlanInv'
  BY StepKeeps
<1>. QED  BY <1>1, <1>2, PTL DEF PlanSpec

\* The tables, the queue and the worker's record keep their types.
THEOREM PlanTypes == PlanSpec => []PlanTypeOK
<1>1. PlanInv => PlanTypeOK
  BY DEF PlanInv
<1>. QED  BY <1>1, PlanInvHolds, PTL

\* No plan is ready or runs in a version the owner has not approved.
THEOREM AgreedVersionHolds == PlanSpec => []AgreedVersion
<1>1. PlanInv => AgreedVersion
  BY DEF PlanInv
<1>. QED  BY <1>1, PlanInvHolds, PTL

\* A running plan is queued, worked on or stranded by the owner's message.
THEOREM RunningIsHeldHolds == PlanSpec => []RunningIsHeld
<1>1. PlanInv => RunningIsHeld
  BY DEF PlanInv
<1>. QED  BY <1>1, PlanInvHolds, PTL

\* No step turn is begun a second time.
THEOREM StepTurnsAreFresh == PlanSpec => []StepTurnFresh
<1>1. ASSUME PlanInv PROVE StepTurnFresh
  <2> SUFFICES ASSUME run.stage = "begin", Status(run.plan) = "running", StepId(run.plan) \in begun
               PROVE FALSE
    BY DEF StepTurnFresh
  <2>1. /\ StepId(run.plan).plan = run.plan /\ StepId(run.plan).step = plan[run.plan].step
        /\ StepId(run.plan).version = plan[run.plan].version
        /\ StepId(run.plan).resumes = plan[run.plan].resumes
    BY DEF StepId
  <2>2. BegunFits(StepId(run.plan))
    BY <1>1 DEF PlanInv, BegunShape
  <2>3. run.plan \in Plans
    BY <1>1, RunAt
  <2>. QED  BY <1>1, <2>1, <2>2, <2>3 DEF BegunFits
<1>2. PlanInv => StepTurnFresh
  BY <1>1
<1>. QED  BY <1>2, PlanInvHolds, PTL

\* The tools replace the row of one plan, which is not finished.
LEMMA ToolsPut ==
  ASSUME Tools
  PROVE  \E q \in Plans : (\E row : Put(q, row)) /\ Status(q) \notin Finished /\ UNCHANGED begun
<1> DEFINE Puts(q) == (\E row : Put(q, row)) /\ Status(q) \notin Finished /\ UNCHANGED begun
<1>1. ASSUME NEW q \in Plans, NEW c \in PlanChannels, NEW n \in 1 .. MaxSteps, CreatePlan(q, c, n) PROVE Puts(q)
  <2>1. Status(q) \notin Finished
    BY <1>1 DEF CreatePlan
  <2>2. UNCHANGED begun
    BY <1>1 DEF CreatePlan
  <2>3. \E row : Put(q, row)
    BY <1>1 DEF CreatePlan
  <2>. QED  BY <2>1, <2>2, <2>3
<1>2. ASSUME NEW q \in Plans, NEW n \in 1 .. MaxSteps, UpdatePlan(q, n) PROVE Puts(q)
  <2>1. Status(q) \notin Finished
    BY <1>2 DEF UpdatePlan
  <2>2. UNCHANGED begun
    BY <1>2 DEF UpdatePlan
  <2>3. \E row : Put(q, row)
    BY <1>2 DEF UpdatePlan
  <2>. QED  BY <2>1, <2>2, <2>3
<1>3. ASSUME NEW q \in Plans, SubmitPlan(q) PROVE Puts(q)
  <2>1. Status(q) \notin Finished
    BY <1>3 DEF SubmitPlan
  <2>2. UNCHANGED begun
    BY <1>3 DEF SubmitPlan
  <2>3. \E row : Put(q, row)
    BY <1>3 DEF SubmitPlan
  <2>. QED  BY <2>1, <2>2, <2>3
<1>4. ASSUME NEW q \in Plans, StartPlan(q) PROVE Puts(q)
  <2>1. Status(q) \notin Finished
    BY <1>4 DEF StartPlan
  <2>2. UNCHANGED begun
    BY <1>4 DEF StartPlan
  <2>3. \E row : Put(q, row)
    BY <1>4 DEF StartPlan
  <2>. QED  BY <2>1, <2>2, <2>3
<1>5. ASSUME NEW q \in Plans, CancelPlan(q) PROVE Puts(q)
  <2>1. Status(q) \notin Finished
    BY <1>5 DEF CancelPlan
  <2>2. UNCHANGED begun
    BY <1>5 DEF CancelPlan
  <2>3. \E row : Put(q, row)
    BY <1>5 DEF CancelPlan
  <2>. QED  BY <2>1, <2>2, <2>3
<1>6. ASSUME NEW q \in Plans, ResumePlan(q) PROVE Puts(q)
  <2>1. Status(q) \notin Finished
    BY <1>6 DEF ResumePlan
  <2>2. UNCHANGED begun
    BY <1>6 DEF ResumePlan
  <2>3. \E row : Put(q, row)
    BY <1>6 DEF ResumePlan
  <2>. QED  BY <2>1, <2>2, <2>3
<1>. QED  BY <1>1, <1>2, <1>3, <1>4, <1>5, <1>6 DEF Tools

\* A plan that completed or was cancelled stays so.
THEOREM FinishedStaysFinished == PlanSpec => FinishedIsFinal
<1>1. ASSUME PlanInv, [PlanNext]_planVars, NEW p \in Plans, Status(p) \in Finished
      PROVE  Status(p)' = Status(p)
  <2>2. CASE Tools
    <3>1. PICK q \in Plans : (\E row : Put(q, row)) /\ Status(q) \notin Finished
      BY <2>2, ToolsPut
    <3>. QED  BY <1>1, <3>1 DEF Put, PlanInv, PlanTypeOK
  <2>3. CASE Owner
    BY <1>1, <2>3 DEF Owner, OwnerWrites, OwnerStops, OwnerTurn, Absorb, Read, Stoppable
  <2>4. CASE OwnerTurnEnds("completed") \/ OwnerTurnEnds("lost")
    BY <1>1, <2>4 DEF OwnerTurnEnds
  <2>5. CASE (\E q \in Plans : ClaimPlan(q)) \/ TakeJob
    BY <1>1, <2>5 DEF ClaimPlan, Claimable, TakeJob, Put, PlanInv, PlanTypeOK
  <2>6. CASE BeginStep \/ StepActs
    BY <1>1, <2>6 DEF BeginStep, StepActs
  <2>7. CASE StepEnds
    <3>1. CASE LimitReached
      BY <1>1, <3>1, RunAt DEF LimitReached, Put, StoppedOrRevised, PlanInv, PlanTypeOK, RunShape
    <3>2. CASE \E s \in {"blocked", "failed", "partial", "completed", "ready"} : FinishStep(s)
      BY <1>1, <3>2 DEF FinishStep, Put, PlanInv, PlanTypeOK
    <3>3. CASE StepFails
      BY <1>1, <3>3 DEF StepFails, Put, PlanInv, PlanTypeOK
    <3>4. CASE StepReturns \/ StepAbandoned \/ HandedOver \/ StepTimesOut
      BY <1>1, <3>4 DEF StepReturns, StepAbandoned, HandedOver, StepTimesOut
    <3>. QED  BY <2>7, <3>1, <3>2, <3>3, <3>4 DEF StepEnds
  <2>8. CASE Cancelled
    BY <1>1, <2>8 DEF Cancelled, Put, PlanInv, PlanTypeOK
  <2>9. CASE PlanRestart
    BY <1>1, <2>9 DEF PlanRestart
  <2>10. CASE UNCHANGED planVars
    BY <1>1, <2>10 DEF planVars
  <2>. QED
    BY <1>1, <2>2, <2>3, <2>4, <2>5, <2>6, <2>7, <2>8, <2>9, <2>10 DEF PlanNext
<1>2. PlanInv /\ [PlanNext]_planVars =>
        [\A p \in Plans : Status(p) \in Finished => Status(p)' = Status(p)]_planVars
  BY <1>1
<1>. QED  BY <1>2, PlanInvHolds, PTL DEF PlanSpec, FinishedIsFinal

\* No step that the owner interrupted after it acted is begun again, unless by a plan
\* revised before its first step was done.
THEOREM NoReplay == PlanSpec => NoSilentReplay
<1>1. ASSUME PlanInv, [PlanNext]_planVars, NEW new \in begun' \ begun, NEW old \in halted,
             new.plan = old.plan, new.step = old.step
      PROVE  new.step = 0 /\ new.version > old.version
  <2>1. BeginStep /\ Status(run.plan) = "running" /\ new = StepId(run.plan) /\ run.plan \in Plans
    <3>1. CASE Tools
      BY <1>1, <3>1, ToolsPut
    <3>2. CASE Owner \/ OwnerTurnEnds("completed") \/ OwnerTurnEnds("lost")
      BY <1>1, <3>2 DEF Owner, OwnerWrites, OwnerStops, OwnerTurn, Absorb, Read, OwnerTurnEnds
    <3>3. CASE (\E q \in Plans : ClaimPlan(q)) \/ TakeJob \/ StepActs \/ Cancelled \/ PlanRestart
      BY <1>1, <3>3 DEF ClaimPlan, TakeJob, StepActs, Cancelled, PlanRestart
    <3>4. CASE StepEnds
      BY <1>1, <3>4 DEF StepEnds, FinishStep, StepReturns, StepAbandoned, LimitReached, HandedOver,
         StepTimesOut, StepFails
    <3>5. CASE BeginStep
      BY <1>1, <3>5, RunAt DEF BeginStep
    <3>6. CASE UNCHANGED planVars
      BY <1>1, <3>6 DEF planVars
    <3>. QED  BY <1>1, <3>1, <3>2, <3>3, <3>4, <3>5, <3>6 DEF PlanNext
  <2>2. /\ new.plan = run.plan /\ new.step = plan[run.plan].step
        /\ new.version = plan[run.plan].version
    BY <2>1 DEF StepId
  <2>3. old \in begun /\ BegunFits(old) /\ HaltedFits(old) /\ HeldFits(run.plan)
    BY <1>1, <2>1 DEF PlanInv, HaltedShape, BegunShape, HeldShape
  <2>4. plan[run.plan].held # "acted"
    BY <2>1, <2>3 DEF HeldFits
  <2>. QED  BY <1>1, <2>1, <2>2, <2>3, <2>4, RowTyped, BegunTyped DEF PlanInv, HaltedFits, BegunFits
<1>2. PlanInv /\ [PlanNext]_planVars =>
        [\A new \in begun' \ begun, old \in halted : new.plan = old.plan /\ new.step = old.step =>
           new.step = 0 /\ new.version > old.version]_planVars
  BY <1>1
<1>. QED  BY <1>2, PlanInvHolds, PTL DEF PlanSpec, NoSilentReplay

=============================================================================

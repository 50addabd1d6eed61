----------------------------- MODULE PlanScopes -----------------------------
(***************************************************************************)
(* Instances of TaskPlan for model checking: the bounds of a behaviour are *)
(* chosen at its start, so that one run sees long lives of one plan on two *)
(* channels and the interference of two plans.                             *)
(***************************************************************************)
EXTENDS TaskPlan

CONSTANT Scopes  \* instances, by name

VARIABLE scope

Bounds(s) ==
  CASE s = "life"  -> [plans |-> 1, steps |-> 2, versions |-> 2, resumes |-> 1, starts |-> 1, channels |-> PlanChannels]
    [] s = "pair"  -> [plans |-> 2, steps |-> 1, versions |-> 1, resumes |-> 1, starts |-> 1, channels |-> {"onebot"}]
    [] s = "steps" -> [plans |-> 2, steps |-> 2, versions |-> 1, resumes |-> 0, starts |-> 1, channels |-> {"onebot"}]
    [] s = "small" -> [plans |-> 2, steps |-> 1, versions |-> 1, resumes |-> 0, starts |-> 0, channels |-> {"onebot"}]

Within(b) ==
  /\ \A p \in Plans : Exists(p) =>
       /\ p <= b.plans /\ plan[p].size <= b.steps /\ plan[p].resumes <= b.resumes
       /\ plan[p].version <= b.versions + (IF Status(p) = "cancelled" THEN 1 ELSE 0)
       /\ Home(p) \in b.channels
  /\ mail \subseteq b.channels /\ starts <= b.starts

ScopedInit == PlanInit /\ scope \in Scopes
ScopedNext == UNCHANGED scope /\ PlanNext /\ Within(Bounds(scope))'
ScopedSpec == ScopedInit /\ [][ScopedNext]_<<planVars, scope>>
FairScopedSpec == ScopedSpec /\ PlanFairness
=============================================================================

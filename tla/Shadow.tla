------------------------------- MODULE Shadow -------------------------------
(***************************************************************************)
(* The shadow plans of internal/shadow/manager.go: changes of the          *)
(* configuration that are tried against the audit log (replay) or against  *)
(* the running calls (mirror), and then applied or dropped.                *)
(*                                                                         *)
(* A method reads the plan from its table, goes by the status it has read, *)
(* writes the table and then Manager.plans; no lock spans these, only the  *)
(* loop that applies the overrides holds applyMu.  planMethods holds the   *)
(* methods under way, planReplays the replays, which are goroutines of     *)
(* their own.  The configuration is a value per target; what               *)
(* the overrides would have decided is left out: the replay finds no log   *)
(* rows anyhow, its range being set in memory and read from the table.     *)
(*                                                                         *)
(* A definition whose comment begins "Faulty:" is no part of the model: it *)
(* is a slip one could make in the definition after it.                    *)
(***************************************************************************)
EXTENDS Integers, Sequences, SequencesExt

CONSTANTS
  Plans, PlanNone,
  PlanTargets, PlanValues, PlanFirst,   \* the configuration, as it is at first
  PlanOverrides,        \* the overrides of each plan, in their order
  PlanMethods,          \* bound: methods under way at a time
  PlanCrashes           \* bound on crashes

PlanOverride == [target : PlanTargets, value : PlanValues]
PlanMethod ==
  [do : {"start", "cancel", "apply"}, plan : Plans, at : {"read", "written", "applying"}]
PlanJob ==
  [do : {"apply", "undo"}, left : Seq(PlanOverride), applied : Seq(PlanOverride),
   refused : BOOLEAN]

ASSUME PlanAssumption ==
  PlanFirst \in PlanValues /\ PlanOverrides \in [Plans -> Seq(PlanOverride)]
ASSUME PlanNoneAssumption == PlanNone \notin PlanMethod /\ PlanNone \notin PlanJob

VARIABLES
  planModes,            \* "replay" or "mirror"
  plans,                \* table shadow_plans: the status of each
  plansSeen,            \* Manager.plans: the status of each
  planConfig,           \* the configuration: target -> value
  planMethods,          \* methods under way: what they do, and with which plan
  planReplays,          \* the replays under way
  planApplying,         \* under applyMu: the overrides to apply and to undo
  planAgreed,           \* history: the configuration after the last plan applied
                        \* whole, or cut short by a crash or a refused undo
  planCrashed           \* how often the process has died

planHistory == <<planAgreed, planCrashed>>
planVars ==
  <<planModes, plans, plansSeen, planConfig, planMethods, planReplays, planApplying,
    planHistory>>

ShadowInit ==
  /\ plans = [p \in Plans |-> PlanNone] /\ plansSeen = plans /\ planModes = plans
  /\ planConfig = [t \in PlanTargets |-> PlanFirst]
  /\ planMethods = [g \in PlanMethods |-> PlanNone]
  /\ planReplays = {} /\ planApplying = PlanNone
  /\ planAgreed = planConfig /\ planCrashed = 0

-----------------------------------------------------------------------------
(* Methods *)

CreatePlan(p, mode) ==
  /\ plans[p] = PlanNone
  /\ planModes' = [planModes EXCEPT ![p] = mode]
  /\ plans' = [plans EXCEPT ![p] = "draft"]
  /\ plansSeen' = [plansSeen EXCEPT ![p] = "draft"]
  /\ UNCHANGED <<planConfig, planMethods, planReplays, planApplying, planHistory>>

(* What StartPlan, CancelPlan and ApplyPlan ask of the status they read    *)
Admitted(do) ==
  CASE do = "start" -> {"draft"}
    [] do = "cancel" -> {"running", "draft"}
    [] do = "apply" -> {"completed", "running"}
BecomesOf(do) ==
  CASE do = "start" -> "running"
    [] do = "cancel" -> "cancelled"
    [] do = "apply" -> "applied"

(* GetShadowPlan, and the status it finds                                  *)
PlanRead(g, p, do) ==
  /\ planMethods[g] = PlanNone /\ plans[p] \in Admitted(do)
  /\ planMethods' = [planMethods EXCEPT ![g] = [do |-> do, plan |-> p, at |-> "read"]]
  /\ UNCHANGED <<planModes, plans, plansSeen, planConfig, planReplays, planApplying, planHistory>>

PlanAt(g, at) == planMethods[g] # PlanNone /\ planMethods[g].at = at
PlanOf(g) == planMethods[g].plan

(* StartPlan and CancelPlan go on without looking at the status again.     *)
UpdateShadowPlanStatus(g) ==
  /\ PlanAt(g, "read") /\ planMethods[g].do # "apply"
  /\ plans' = [plans EXCEPT ![PlanOf(g)] = BecomesOf(planMethods[g].do)]
  /\ planMethods' = [planMethods EXCEPT ![g].at = "written"]
  /\ UNCHANGED <<planModes, plansSeen, planConfig, planReplays, planApplying, planHistory>>

(* m.plans under mu, and for a plan just started the goroutine             *)
PlanSeen(g) ==
  /\ PlanAt(g, "written")
  /\ plansSeen' = [plansSeen EXCEPT ![PlanOf(g)] = BecomesOf(planMethods[g].do)]
  /\ planReplays' = IF planMethods[g].do = "start" /\ planModes[PlanOf(g)] = "replay"
                    THEN planReplays \cup {[plan |-> PlanOf(g), at |-> "replaying"]}
                    ELSE planReplays
  /\ planMethods' = [planMethods EXCEPT ![g] = PlanNone]
  /\ UNCHANGED <<planModes, plans, planConfig, planApplying, planHistory>>

-----------------------------------------------------------------------------
(* ApplyPlan *)

ApplyPlan(g) ==
  /\ PlanAt(g, "read") /\ planMethods[g].do = "apply" /\ planApplying = PlanNone
  /\ planApplying' = [do |-> "apply", left |-> PlanOverrides[PlanOf(g)], applied |-> <<>>,
                    refused |-> FALSE]
  /\ planMethods' = [planMethods EXCEPT ![g].at = "applying"]
  /\ UNCHANGED <<planModes, plans, plansSeen, planConfig, planReplays, planHistory>>

Undo(t) == [target |-> t, value |-> planConfig[t]]

(* Faulty: in the order they were applied                                  *)
RollBackForward(applied) == applied
RollBack(applied) == Reverse(applied)

(* applyOverrideWithUndo: the target is changed, or is not there to change *)
(* (or its breaker is open, or its value no number).                       *)
ApplyOverride ==
  /\ planApplying # PlanNone /\ planApplying.do = "apply" /\ planApplying.left # <<>>
  /\ LET o == Head(planApplying.left)
     IN  \/ /\ planConfig' = [planConfig EXCEPT ![o.target] = o.value]
            /\ planApplying' = [planApplying EXCEPT
                 !.left = Tail(@), !.applied = Append(@, Undo(o.target))]
         \/ /\ planApplying' = [planApplying EXCEPT !.do = "undo", !.applied = RollBack(@)]
            /\ UNCHANGED planConfig
  /\ UNCHANGED <<planModes, plans, plansSeen, planMethods, planReplays, planHistory>>

(* An undo may be refused, the audit manager's by an open breaker; the     *)
(* rollback goes on.                                                       *)
RollBackOverride ==
  /\ planApplying # PlanNone /\ planApplying.do = "undo" /\ planApplying.applied # <<>>
  /\ LET u == Head(planApplying.applied)
     IN  \/ /\ planConfig' = [planConfig EXCEPT ![u.target] = u.value]
            /\ planApplying' = [planApplying EXCEPT !.applied = Tail(@)]
         \/ /\ planApplying' = [planApplying EXCEPT !.applied = Tail(@), !.refused = TRUE]
            /\ UNCHANGED planConfig
  /\ UNCHANGED <<planModes, plans, plansSeen, planMethods, planReplays, planHistory>>

ApplyFails(g) ==
  /\ PlanAt(g, "applying") /\ planApplying.do = "undo" /\ planApplying.applied = <<>>
  /\ planApplying' = PlanNone
  /\ planAgreed' = IF planApplying.refused THEN planConfig ELSE planAgreed
  /\ planMethods' = [planMethods EXCEPT ![g] = PlanNone]
  /\ UNCHANGED <<planModes, plans, plansSeen, planConfig, planReplays, planCrashed>>

(* UpdateShadowPlanApplied; applyMu is let go with the method's end, which *)
(* only writes m.plans.                                                    *)
Applied(g) ==
  /\ PlanAt(g, "applying") /\ planApplying.do = "apply" /\ planApplying.left = <<>>
  /\ plans' = [plans EXCEPT ![PlanOf(g)] = "applied"]
  /\ planAgreed' = planConfig
  /\ planApplying' = PlanNone
  /\ planMethods' = [planMethods EXCEPT ![g].at = "written"]
  /\ UNCHANGED <<planModes, plansSeen, planConfig, planReplays, planCrashed>>

-----------------------------------------------------------------------------
(* Replays, mirrors, crashes *)

(* runReplay ends with the plan completed, whatever has become of it.      *)
ReplayCompletes(r) ==
  /\ r \in planReplays /\ r.at = "replaying"
  /\ plans' = [plans EXCEPT ![r.plan] = "completed"]
  /\ planReplays' = (planReplays \ {r}) \cup {[r EXCEPT !.at = "completed"]}
  /\ UNCHANGED <<planModes, plansSeen, planConfig, planMethods, planApplying, planHistory>>

ReplayEnds(r) ==
  /\ r \in planReplays /\ r.at = "completed"
  /\ plansSeen' = [plansSeen EXCEPT ![r.plan] = "completed"]
  /\ planReplays' = planReplays \ {r}
  /\ UNCHANGED <<planModes, plans, planConfig, planMethods, planApplying, planHistory>>

(* The tick goes by m.plans.                                               *)
CheckMirrorExpiry(p) ==
  /\ planModes[p] = "mirror" /\ plansSeen[p] = "running"
  /\ plans' = [plans EXCEPT ![p] = "completed"]
  /\ plansSeen' = [plansSeen EXCEPT ![p] = "completed"]
  /\ UNCHANGED <<planModes, planConfig, planMethods, planReplays, planApplying, planHistory>>

Resumed(running) ==
  {[plan |-> p, at |-> "replaying"] : p \in {p \in running : planModes[p] = "replay"}}

(* The process dies; Start reads the plans.                                *)
ShadowCrash ==
  /\ planCrashed < PlanCrashes
  /\ planCrashed' = planCrashed + 1
  /\ planAgreed' = IF planApplying # PlanNone THEN planConfig ELSE planAgreed
  /\ planMethods' = [g \in PlanMethods |-> PlanNone] /\ planApplying' = PlanNone
  /\ plansSeen' = plans
  /\ planReplays' = Resumed({p \in Plans : plans[p] = "running"})
  /\ UNCHANGED <<planModes, plans, planConfig>>

ShadowSteps(g) ==
  UpdateShadowPlanStatus(g) \/ PlanSeen(g) \/ ApplyPlan(g) \/ ApplyFails(g) \/ Applied(g)
ReplaySteps == \E r \in planReplays : ReplayCompletes(r) \/ ReplayEnds(r)

ShadowNext ==
  \/ ReplaySteps \/ ApplyOverride \/ RollBackOverride \/ ShadowCrash
  \/ \E p \in Plans : (\E mode \in {"replay", "mirror"} : CreatePlan(p, mode)) \/ CheckMirrorExpiry(p)
  \/ \E g \in PlanMethods :
       \/ ShadowSteps(g)
       \/ \E p \in Plans, do \in {"start", "cancel", "apply"} : PlanRead(g, p, do)

ShadowSpec == ShadowInit /\ [][ShadowNext]_planVars

-----------------------------------------------------------------------------
(* Properties *)

(* A plan is applied whole or not at all: unless a crash cuts it short or  *)
(* an undo is refused, the configuration is what the last plan applied     *)
(* left, also where two overrides of a plan change the same target.        *)
AppliedWhollyOrNot == planApplying = PlanNone => planConfig = planAgreed
=============================================================================

------------------------------ MODULE Heartbeat ------------------------------
(***************************************************************************)
(* internal/heartbeat/manager.go: callers report that they are alive; one  *)
(* that is silent for too long is lost and its resources are released or   *)
(* frozen.  Callers form groups; a group with too few of them alive is     *)
(* unhealthy, and the groups that depend on it are degraded.               *)
(*                                                                         *)
(* Every method and the 500 ms tick hold Manager.mu; hbTodo is what the    *)
(* method under it still does, innermost call first.  A step writes one    *)
(* row, and a crash may come between any two.  What is released or frozen  *)
(* for a caller lies with other managers: here it is any set of resources. *)
(*                                                                         *)
(* A definition whose comment begins "Faulty:" is no part of the model: it *)
(* is a slip one could make in the definition after it.                    *)
(***************************************************************************)
EXTENDS Integers, Sequences, FiniteSetsExt, SequencesExt

CONSTANTS
  HbCallers, HbGroups,
  HbNone,               \* no registration, no group
  HbRegistrations,      \* asked for: caller, group, freeze (the strategy)
  HbDependencies,       \* asked for: pairs <<group, depends on>>
  HbThreshold,          \* survival_threshold of every group
  HbResources,          \* locks, tokens, transactions
  HbCrashes             \* bound on crashes

VARIABLES
  hbRegs,               \* table heartbeat_registrations
  hbSilence,            \* since the last heartbeat: "heard", "late" or "gone"
  hbFrozen,             \* table frozen_resources, by caller: those not released
  hbGroups,             \* table heartbeat_groups
  hbDeps,               \* table heartbeat_group_dependencies
  hbTodo,               \* what the method under mu still does
  hbLateAtStart,        \* callers that Start has found overdue
  hbUp,                 \* the process runs
  hbCrashed,            \* how often it has died
  hbOrphans             \* history: degraded groups that nobody tried to restore

hbMembers == <<hbRegs, hbSilence, hbFrozen>>
hbGraph == <<hbGroups, hbDeps, hbOrphans>>
hbProcess == <<hbUp, hbLateAtStart, hbCrashed>>
hbVars == <<hbMembers, hbGraph, hbTodo, hbProcess>>

HbAlive == {"healthy", "suspect", "recovered"}
HbStatus == HbAlive \cup {"lost", "frozen"}

(* Rows of the two tables                                                  *)
HbRegistration == [group : HbGroups \cup {HbNone}, freeze : BOOLEAN, status : HbStatus]
HbGroupRow == [alive : Nat, status : {"healthy", "unhealthy", "degraded"}, degraded : BOOLEAN]

ASSUME HbAssumption ==
  /\ HbNone \notin HbRegistration \cup HbGroupRow
  /\ HbRegistrations \subseteq
       [caller : HbCallers, group : HbGroups \cup {HbNone}, freeze : BOOLEAN]
  /\ HbDependencies \subseteq HbGroups \X HbGroups
  /\ IsFiniteSet(HbCallers) /\ IsFiniteSet(HbResources)

HbInit ==
  /\ hbRegs = [c \in HbCallers |-> HbNone]
  /\ hbSilence = [c \in HbCallers |-> "heard"]
  /\ hbFrozen = [c \in HbCallers |-> {}]
  /\ hbGroups = [g \in HbGroups |-> HbNone] /\ hbDeps = {} /\ hbOrphans = {}
  /\ hbTodo = <<>> /\ hbUp = TRUE /\ hbLateAtStart = {} /\ hbCrashed = 0

HbFree == hbUp /\ hbTodo = <<>>
HbIs(c, statuses) == hbRegs[c] # HbNone /\ hbRegs[c].status \in statuses
UpdateHeartbeatRegistration(c, status) == hbRegs' = [hbRegs EXCEPT ![c].status = status]

HbTask(do, c) == [do |-> do, caller |-> c]
HbGroupTask(g) == [do |-> "group", group |-> g]
HbTasks(do, c, resources) ==
  LET rs == SetToSeq(resources)
  IN  [i \in DOMAIN rs |-> [do |-> do, caller |-> c, resource |-> rs[i]]]
HbNow(do) == hbUp /\ hbTodo # <<>> /\ hbTodo[1].do = do
HbAt == hbTodo[1].caller

-----------------------------------------------------------------------------
(* Groups *)

GroupMembers(g) == {c \in HbCallers : hbRegs[c] # HbNone /\ hbRegs[c].group = g}
ListGroupsThatDependOn(g) == {d \in HbGroups : <<d, g>> \in hbDeps}
ListGroupDependenciesByGroup(g) == {d[2] : d \in {e \in hbDeps : e[1] = g}}
GroupFails(g) == hbGroups[g].status = "unhealthy" \/ hbGroups[g].degraded
HbStatusOf(alive) == IF alive >= HbThreshold THEN "healthy" ELSE "unhealthy"

HbDegraded == {g \in HbGroups : hbGroups[g] # HbNone /\ hbGroups[g].degraded}
CanRestore(g) ==
  g \in HbDegraded /\ \A d \in ListGroupDependenciesByGroup(g) : ~GroupFails(d)

HbCascade(do, groups) ==
  IF groups = {} THEN <<>> ELSE <<[do |-> do, groups |-> groups]>>

(* checkCascadeDegradeLocked, which is called with g's row just written.   *)
CheckCascadeDegrade(g) ==
  IF hbGroups[g].status = "unhealthy"
  THEN HbCascade("degrade", {d \in ListGroupsThatDependOn(g) :
                               hbGroups[d] # HbNone /\ ~hbGroups[d].degraded})
  ELSE HbCascade("restore", ListGroupsThatDependOn(g) \cap HbDegraded)

UpdateGroupHealth(g) ==
  /\ HbNow("group") /\ hbTodo[1].group = g
  /\ UNCHANGED <<hbMembers, hbDeps, hbOrphans, hbProcess>>
  /\ IF hbGroups[g] = HbNone THEN hbTodo' = Tail(hbTodo) /\ UNCHANGED hbGroups
     ELSE LET alive == Cardinality({c \in GroupMembers(g) : HbIs(c, HbAlive)})
          IN  /\ hbGroups' = [hbGroups EXCEPT ![g] =
                   [@ EXCEPT !.alive = alive, !.status = HbStatusOf(alive)]]
              /\ hbTodo' = CheckCascadeDegrade(g)' \o Tail(hbTodo)

(* The groups of a call are taken one at a time, in any order.             *)
HbTaken(g) == HbCascade(hbTodo[1].do, hbTodo[1].groups \ {g}) \o Tail(hbTodo)

(* A group degraded here has those that depend on it try to be restored,   *)
(* which, as they depend on it, they cannot be.                            *)
DegradeGroup ==
  /\ HbNow("degrade")
  /\ \E g \in hbTodo[1].groups :
       /\ hbGroups' = [hbGroups EXCEPT ![g] = [@ EXCEPT !.degraded = TRUE, !.status = "degraded"]]
       /\ hbTodo' = HbTaken(g)
  /\ UNCHANGED <<hbMembers, hbDeps, hbOrphans, hbProcess>>

(* Faulty: a group restored does not let those that depend on it try       *)
NobodyTries(g) == <<>>
DependentsTry(g) == HbCascade("restore", ListGroupsThatDependOn(g) \cap HbDegraded)

RestoredRow(row) == [row EXCEPT !.degraded = FALSE, !.status = HbStatusOf(row.alive)]

(* A group restored lets those that depend on it try, before the others.   *)
TryRestoreGroup ==
  /\ HbNow("restore")
  /\ \E g \in hbTodo[1].groups :
       /\ IF CanRestore(g)
          THEN /\ hbGroups' = [hbGroups EXCEPT ![g] = RestoredRow(@)]
               /\ hbTodo' = DependentsTry(g) \o HbTaken(g)
          ELSE UNCHANGED hbGroups /\ hbTodo' = HbTaken(g)
       /\ hbOrphans' = hbOrphans \ {g}
  /\ UNCHANGED <<hbMembers, hbDeps, hbProcess>>

CreateGroup(g) ==
  /\ HbFree /\ hbGroups[g] = HbNone
  /\ hbGroups' = [hbGroups EXCEPT ![g] = [alive |-> 0, status |-> "healthy", degraded |-> FALSE]]
  /\ UNCHANGED <<hbMembers, hbDeps, hbOrphans, hbTodo, hbProcess>>

DeleteGroup(g) ==
  /\ HbFree /\ hbGroups[g] # HbNone /\ GroupMembers(g) = {}
  /\ hbTodo' = <<[do |-> "delete", group |-> g]>>
  /\ UNCHANGED <<hbMembers, hbGraph, hbProcess>>

(* Its dependencies row by row, then those of others on it, which if it    *)
(* alone degraded them are not restored; in the end its own row.           *)
DeleteDependency ==
  /\ HbNow("delete")
  /\ \E d \in hbDeps :
       /\ \/ d[1] = hbTodo[1].group
          \/ d[2] = hbTodo[1].group /\ ListGroupDependenciesByGroup(hbTodo[1].group) = {}
       /\ hbDeps' = hbDeps \ {d}
       /\ UNCHANGED hbGroups
       /\ hbOrphans' = IF CanRestore(d[1])' THEN hbOrphans \cup {d[1]} ELSE hbOrphans
  /\ UNCHANGED <<hbMembers, hbTodo, hbProcess>>

DeleteGroupRow ==
  /\ HbNow("delete") /\ \A d \in hbDeps : hbTodo[1].group \notin {d[1], d[2]}
  /\ hbGroups' = [hbGroups EXCEPT ![hbTodo[1].group] = HbNone]
  /\ hbOrphans' = hbOrphans \ {hbTodo[1].group}
  /\ hbTodo' = Tail(hbTodo)
  /\ UNCHANGED <<hbMembers, hbDeps, hbProcess>>

(* The search from g comes to h.                                           *)
DependsOn(g, h) ==
  \A S \in SUBSET HbGroups : g \in S /\ (\A d \in hbDeps : d[1] \in S => d[2] \in S) => h \in S

(* One that is declared already is left as it is.                          *)
AddGroupDependency(g, on) ==
  /\ HbFree /\ g # on /\ hbGroups[g] # HbNone /\ hbGroups[on] # HbNone
  /\ ~DependsOn(on, g)
  /\ hbDeps' = hbDeps \cup {<<g, on>>}
  /\ UNCHANGED hbGroups
  /\ hbTodo' = IF GroupFails(on) THEN CheckCascadeDegrade(on)' ELSE <<>>
  /\ UNCHANGED <<hbMembers, hbOrphans, hbProcess>>

(* Also of a dependency that there is not                                  *)
RemoveGroupDependency(g, on) ==
  /\ HbFree
  /\ hbDeps' = hbDeps \ {<<g, on>>}
  /\ hbTodo' = HbCascade("restore", {g} \cap HbDegraded)
  /\ UNCHANGED <<hbMembers, hbGroups, hbOrphans, hbProcess>>

-----------------------------------------------------------------------------
(* Callers *)

(* Again by one that was lost, perhaps in another group.                   *)
Register(c, g, freeze) ==
  /\ HbFree /\ (g = HbNone \/ hbGroups[g] # HbNone)
  /\ hbRegs[c] = HbNone \/ HbIs(c, {"lost", "recovered"})
  /\ hbRegs' = [hbRegs EXCEPT ![c] = [group |-> g, freeze |-> freeze, status |-> "healthy"]]
  /\ hbSilence' = [hbSilence EXCEPT ![c] = "heard"]
  /\ hbTodo' = LET old == IF hbRegs[c] = HbNone THEN g ELSE hbRegs[c].group
               IN  (IF old \notin {g, HbNone} THEN <<HbGroupTask(old)>> ELSE <<>>)
                     \o (IF g # HbNone THEN <<HbGroupTask(g)>> ELSE <<>>)
  /\ UNCHANGED <<hbFrozen, hbGraph, hbProcess>>

HbGroupTasks(c) ==
  IF hbRegs[c].group = HbNone THEN <<>> ELSE <<HbGroupTask(hbRegs[c].group)>>

ReportHeartbeat(c) ==
  /\ HbFree /\ HbIs(c, HbStatus \ {"frozen"})
  /\ UpdateHeartbeatRegistration(c, IF HbIs(c, {"lost"}) THEN "recovered" ELSE "healthy")
  /\ hbSilence' = [hbSilence EXCEPT ![c] = "heard"]
  /\ hbTodo' = HbGroupTasks(c)
  /\ UNCHANGED <<hbFrozen, hbGraph, hbProcess>>

ListHeartbeatRegistrations == {c \in HbCallers : HbIs(c, HbStatus \ {"frozen"})}

(* The tick looks at every caller, then at the groups of those it changed  *)
(* and of those lost or recovered.                                         *)
HbTick ==
  /\ HbFree /\ ListHeartbeatRegistrations # {}
  /\ LET cs == SetToSeq(ListHeartbeatRegistrations)
     IN  hbTodo' = [i \in DOMAIN cs |-> HbTask("check", cs[i])]
  /\ UNCHANGED <<hbMembers, hbGraph, hbProcess>>

(* checkAndHandleCaller, of a caller overdue when the process started      *)
CheckAtStart(c) ==
  /\ HbFree /\ c \in hbLateAtStart
  /\ hbLateAtStart' = hbLateAtStart \ {c}
  /\ hbTodo' = <<HbTask("check only", c)>>
  /\ UNCHANGED <<hbMembers, hbGraph, hbUp, hbCrashed>>

(* Faulty: forgets that a caller that has recovered may be lost again      *)
MayBeLostOnce == {"healthy", "suspect"}
MayBeLost == {"healthy", "suspect", "recovered"}

HbChecked(c, status) ==
  IF status = hbRegs[c].status THEN UNCHANGED hbRegs ELSE UpdateHeartbeatRegistration(c, status)

CheckedStatus(c) ==
  CASE hbSilence[c] = "heard" /\ HbIs(c, {"suspect", "recovered"}) -> "healthy"
    [] hbSilence[c] = "late" /\ HbIs(c, {"healthy"}) -> "suspect"
    [] hbSilence[c] = "gone" /\ HbIs(c, MayBeLost) -> "lost"
    [] OTHER -> hbRegs[c].status

(* handleConnectionLostLocked after its first write                        *)
ConnectionLost(c) == <<HbTask("dispose", c)>> \o HbGroupTasks(c)

(* checkCallerLocked and the first write of handleConnectionLostLocked     *)
CheckCaller ==
  /\ HbNow("check") \/ HbNow("check only")
  /\ LET status == CheckedStatus(HbAt)
         changed == status # hbRegs[HbAt].status
         lost == IF ~changed \/ status # "lost" THEN <<>>
                 ELSE ConnectionLost(HbAt)
         groups == IF \/ hbTodo[1].do = "check only"
                      \/ ~changed /\ status \notin {"lost", "recovered"}
                      \/ ToSet(HbGroupTasks(HbAt)) \subseteq ToSet(hbTodo)
                   THEN <<>> ELSE HbGroupTasks(HbAt)
     IN  /\ HbChecked(HbAt, status)
         /\ hbTodo' = lost \o Tail(hbTodo) \o groups
  /\ UNCHANGED <<hbSilence, hbFrozen, hbGraph, hbProcess>>

(* release_all and release_locks: calls of the managers concerned          *)
ReleaseResources ==
  /\ HbNow("dispose") /\ ~hbRegs[HbAt].freeze
  /\ hbTodo' = Tail(hbTodo)
  /\ UNCHANGED <<hbMembers, hbGraph, hbProcess>>

(* freeze: the caller's status, then a row for every resource it has       *)
FreezeResources ==
  /\ HbNow("dispose") /\ hbRegs[HbAt].freeze
  /\ UpdateHeartbeatRegistration(HbAt, "frozen")
  /\ \E rs \in SUBSET HbResources :
       hbTodo' = HbTasks("freeze", HbAt, rs) \o Tail(hbTodo)
  /\ UNCHANGED <<hbSilence, hbFrozen, hbGraph, hbProcess>>

CreateFrozenResource ==
  /\ HbNow("freeze")
  /\ hbFrozen' = [hbFrozen EXCEPT ![HbAt] = @ \cup {hbTodo[1].resource}]
  /\ hbTodo' = Tail(hbTodo)
  /\ UNCHANGED <<hbRegs, hbSilence, hbGraph, hbProcess>>

-----------------------------------------------------------------------------
(* Frozen resources are released by hand, one of them or all; the group is *)
(* not looked at, nor is the time of the last heartbeat changed.           *)

HbThaw(c, rs) == hbTodo' = HbTasks("thaw", c, rs) \o <<HbTask("thawed", c)>>

ReleaseFrozenResource(c, r) ==
  /\ HbFree /\ r \in hbFrozen[c]
  /\ HbThaw(c, {r})
  /\ UNCHANGED <<hbMembers, hbGraph, hbProcess>>

ReleaseAllFrozenResources(c) ==
  /\ HbFree /\ hbRegs[c] # HbNone
  /\ HbThaw(c, hbFrozen[c])
  /\ UNCHANGED <<hbMembers, hbGraph, hbProcess>>

ThawRow ==
  /\ HbNow("thaw")
  /\ hbFrozen' = [hbFrozen EXCEPT ![HbAt] = @ \ {hbTodo[1].resource}]
  /\ hbTodo' = Tail(hbTodo)
  /\ UNCHANGED <<hbRegs, hbSilence, hbGraph, hbProcess>>

(* Faulty: recovers with the first resource                                *)
ThawedAny ==
  /\ HbNow("thawed")
  /\ UpdateHeartbeatRegistration(HbAt, "recovered")
  /\ hbTodo' = Tail(hbTodo)
  /\ UNCHANGED <<hbSilence, hbFrozen, hbGraph, hbProcess>>

Thawed ==
  /\ HbNow("thawed")
  /\ IF hbFrozen[HbAt] = {} THEN UpdateHeartbeatRegistration(HbAt, "recovered")
     ELSE UNCHANGED hbRegs
  /\ hbTodo' = Tail(hbTodo)
  /\ UNCHANGED <<hbSilence, hbFrozen, hbGraph, hbProcess>>

-----------------------------------------------------------------------------
(* Time, crash, restart *)

(* Every method reads the clock once, when it begins.                      *)
HbSilent(c) ==
  /\ hbTodo = <<>> /\ hbRegs[c] # HbNone /\ hbSilence[c] # "gone"
  /\ hbSilence' = [hbSilence EXCEPT ![c] = IF @ = "heard" THEN "late" ELSE "gone"]
  /\ UNCHANGED <<hbRegs, hbFrozen, hbGraph, hbTodo, hbProcess>>

(* Groups that the method under way still has to try to restore            *)
HbPending == UNION {t.groups : t \in {u \in ToSet(hbTodo) : u.do = "restore"}}

HbCrash ==
  /\ hbUp /\ hbCrashed < HbCrashes
  /\ hbUp' = FALSE /\ hbTodo' = <<>> /\ hbLateAtStart' = {}
  /\ hbCrashed' = hbCrashed + 1
  /\ hbOrphans' = hbOrphans \cup {g \in HbPending : CanRestore(g)}
  /\ UNCHANGED <<hbMembers, hbGroups, hbDeps>>

HbStart ==
  /\ ~hbUp /\ hbUp' = TRUE
  /\ hbLateAtStart' = {c \in HbCallers : HbIs(c, MayBeLost) /\ hbSilence[c] = "gone"}
  /\ UNCHANGED <<hbMembers, hbGraph, hbTodo, hbCrashed>>

HbSteps ==
  \/ \E g \in HbGroups : UpdateGroupHealth(g)
  \/ DegradeGroup \/ TryRestoreGroup \/ DeleteDependency \/ DeleteGroupRow
  \/ CheckCaller \/ ReleaseResources \/ FreezeResources \/ CreateFrozenResource \/ ThawRow
  \/ Thawed

HbNext ==
  \/ HbSteps \/ HbTick \/ HbCrash \/ HbStart
  \/ \E q \in HbRegistrations : Register(q.caller, q.group, q.freeze)
  \/ \E c \in HbCallers :
       \/ ReportHeartbeat(c) \/ CheckAtStart(c) \/ HbSilent(c)
       \/ ReleaseAllFrozenResources(c) \/ \E r \in HbResources : ReleaseFrozenResource(c, r)
  \/ \E g \in HbGroups : CreateGroup(g) \/ DeleteGroup(g)
  \/ \E d \in HbDependencies :
       AddGroupDependency(d[1], d[2]) \/ RemoveGroupDependency(d[1], d[2])

(* The ticker goes on ticking and mu passes over nobody for ever.          *)
HbFairness == WF_hbVars(HbSteps) /\ WF_hbVars(HbStart) /\ SF_hbVars(HbTick)

-----------------------------------------------------------------------------
(* Properties *)

(* A resource is frozen only while its caller is: whatever the order of    *)
(* ticks, manual releases and crashes, no caller that may report and renew *)
(* has a frozen resource left.                                             *)
FrozenTogether == \A c \in HbCallers : hbFrozen[c] # {} => HbIs(c, {"frozen"})

(* A group is degraded only while a group it depends on fails, by way of   *)
(* whichever chain of groups, unless the method under way has still to try *)
(* it, or a crash came before that, or a group it depended on was deleted; *)
(* and the next call that does try it leaves no exception.                 *)
DegradedForACause ==
  \A g \in HbDegraded \ (hbOrphans \cup HbPending) :
    \E d \in ListGroupDependenciesByGroup(g) : GroupFails(d)

(* A caller that stays silent is lost, or frozen, in the end; also after a *)
(* restart, and also one that had recovered before.                        *)
SilenceIsNoticed ==
  \A c \in HbCallers :
    hbRegs[c] # HbNone /\ hbSilence[c] = "gone" ~>
      HbIs(c, {"lost", "frozen"}) \/ hbSilence[c] = "heard"
=============================================================================

------------------------------ MODULE RateAlert ------------------------------
(***************************************************************************)
(* The rate alerts of internal/ratealert/manager.go: a caller that uses up *)
(* its budget too fast within a sliding window causes an alert, at most    *)
(* one in half a window; after some alerts it is frozen, until somebody    *)
(* lifts the freeze by hand.                                               *)
(*                                                                         *)
(* Every method holds Manager.mu; each row it writes is a step, alertJob   *)
(* what is still to do.  The rules and freezes are tables, the window and  *)
(* the count of alerts are memory.                                         *)
(*                                                                         *)
(* A definition whose comment begins "Faulty:" is no part of the model: it *)
(* is a slip one could make in the definition after it.                    *)
(***************************************************************************)
EXTENDS Integers, Sequences, SequencesExt

CONSTANTS
  AlertCallers,
  AlertNone,            \* no rule, no freeze, no method
  AlertRuleChoices,     \* rules: window, max, trigger and enabled
  AlertUnits,           \* what a metering charges at a time
  AlertDelay,           \* bound: how late a consumption is recorded
  AlertMaxNow,          \* bound on the clock
  AlertMaxEvents,       \* bound on the alerts of a caller
  AlertMaxRecords,      \* bound on the records in a window
  AlertCrashes          \* bound on crashes

AlertRule == [window : Nat, max : Nat, trigger : Nat, enabled : BOOLEAN]
AlertRecord == [at : Int, units : Nat]
AlertRuntime ==
  [rule : AlertRule, records : Seq(AlertRecord), consecutive : Nat, lastAlertAt : Int]
AlertFreeze == [active : BOOLEAN, before : Nat]
AlertJob ==
  [do : {"rule"}, caller : AlertCallers, rule : AlertRule \cup {AlertNone}]
    \cup [do : {"alert", "freeze"}, caller : AlertCallers, at : Int]

ASSUME AlertAssumption ==
  AlertRuleChoices \subseteq AlertRule /\ AlertUnits \subseteq Nat /\ AlertDelay \in Nat
ASSUME AlertNoneAssumption ==
  AlertNone \notin AlertRuntime \cup AlertFreeze \cup AlertJob \cup AlertRule

VARIABLES
  alertCallers,         \* Manager.callers
  alertRules,           \* table lock_budget_rate_alert_rules
  alertEvents,          \* table lock_budget_rate_alert_events, by caller
  alertFreezes,         \* table lock_budget_caller_freezes
  alertNow,
  alertJob,             \* what the method under mu still does
  alertUp,
  alertCrashed          \* how often the process has died

alertTables == <<alertRules, alertEvents, alertFreezes>>
alertProcess == <<alertUp, alertCrashed>>
alertVars == <<alertCallers, alertTables, alertNow, alertJob, alertProcess>>

(* A callerRuntime as it begins: the next alert is not held back.          *)
Watching(rule) ==
  [rule |-> rule, records |-> <<>>, consecutive |-> 0,
   lastAlertAt |-> alertNow - 2 * rule.window]

AlertInit ==
  /\ alertCallers = [c \in AlertCallers |-> AlertNone]
  /\ alertRules = [c \in AlertCallers |-> AlertNone]
  /\ alertEvents = [c \in AlertCallers |-> <<>>]
  /\ alertFreezes = [c \in AlertCallers |-> AlertNone]
  /\ alertNow = 0 /\ alertJob = AlertNone /\ alertUp = TRUE /\ alertCrashed = 0

AlertFree == alertUp /\ alertJob = AlertNone
AlertDoing(what) == alertJob # AlertNone /\ alertJob.do = what
Frozen(c) == alertFreezes[c] # AlertNone /\ alertFreezes[c].active

-----------------------------------------------------------------------------
(* Rules *)

(* Faulty: the new rule goes on with the old count                         *)
RulesetCounting(c, rule) ==
  [Watching(rule) EXCEPT !.consecutive =
     IF alertCallers[c] = AlertNone THEN 0 ELSE alertCallers[c].consecutive]
Ruleset(c, rule) == Watching(rule)

SetRule(c, rule) ==
  /\ AlertFree
  /\ alertCallers' = [alertCallers EXCEPT ![c] = Ruleset(c, rule)]
  /\ alertJob' = [do |-> "rule", caller |-> c, rule |-> rule]
  /\ UNCHANGED <<alertTables, alertNow, alertProcess>>

DeleteRule(c) ==
  /\ AlertFree /\ alertCallers[c] # AlertNone
  /\ alertCallers' = [alertCallers EXCEPT ![c] = AlertNone]
  /\ alertJob' = [do |-> "rule", caller |-> c, rule |-> AlertNone]
  /\ UNCHANGED <<alertTables, alertNow, alertProcess>>

(* UpsertRateAlertRule, DeleteRateAlertRule                                *)
WriteRule ==
  /\ AlertDoing("rule")
  /\ alertRules' = [alertRules EXCEPT ![alertJob.caller] = alertJob.rule]
  /\ alertJob' = AlertNone
  /\ UNCHANGED <<alertCallers, alertEvents, alertFreezes, alertNow, alertProcess>>

-----------------------------------------------------------------------------
(* Consumption and alerts *)

(* The records before the first one in the window are dropped; a late one  *)
(* behind it stays, even when its time is over.                            *)
Trimmed(records, cutoff) ==
  LET first == SelectInSeq(records, LAMBDA r : r.at >= cutoff)
  IN  IF first = 0 THEN <<>> ELSE SubSeq(records, first, Len(records))

CleanupExpiredRecords ==
  /\ AlertFree
  /\ alertCallers' = [c \in AlertCallers |->
       IF alertCallers[c] = AlertNone THEN AlertNone
       ELSE [alertCallers[c] EXCEPT !.records = Trimmed(@, alertNow - alertCallers[c].rule.window)]]
  /\ UNCHANGED <<alertTables, alertNow, alertJob, alertProcess>>

(* The budget manager reads the clock before it gets its own mutex, so a   *)
(* release may be recorded late, after a metering of a later moment.       *)
RecordConsumption(c, units, at) ==
  /\ AlertFree
  /\ alertCallers[c] # AlertNone /\ alertCallers[c].rule.enabled /\ ~Frozen(c)
  /\ Len(alertEvents[c]) < AlertMaxEvents
  /\ LET rt == alertCallers[c]
         window == Trimmed(Append(rt.records, [at |-> at, units |-> units]), at - rt.rule.window)
         total == FoldLeft(LAMBDA sum, r : sum + r.units, 0, window)
     IN  /\ Len(window) <= AlertMaxRecords
         /\ alertCallers' = [alertCallers EXCEPT ![c].records = window]
         /\ alertJob' = IF total >= rt.rule.max /\ 2 * (at - rt.lastAlertAt) >= rt.rule.window
                        THEN [do |-> "alert", caller |-> c, at |-> at] ELSE AlertNone
  /\ UNCHANGED <<alertTables, alertNow, alertProcess>>

(* triggerAlertLocked: the event, then the count, which no quiet time ends *)
TriggerAlert ==
  /\ AlertDoing("alert")
  /\ LET c == alertJob.caller
         rt == alertCallers[c]
     IN  /\ alertEvents' = [alertEvents EXCEPT ![c] =
              Append(@, [at |-> alertJob.at, window |-> rt.rule.window])]
         /\ alertCallers' = [alertCallers EXCEPT
              ![c].consecutive = @ + 1, ![c].lastAlertAt = alertJob.at]
         /\ alertJob' = IF rt.consecutive + 1 >= rt.rule.trigger
                        THEN [alertJob EXCEPT !.do = "freeze"] ELSE AlertNone
  /\ UNCHANGED <<alertRules, alertFreezes, alertNow, alertProcess>>

TriggerFreeze ==
  /\ AlertDoing("freeze")
  /\ alertFreezes' = [alertFreezes EXCEPT ![alertJob.caller] =
       [active |-> TRUE, before |-> alertCallers[alertJob.caller].consecutive]]
  /\ alertJob' = AlertNone
  /\ UNCHANGED <<alertCallers, alertRules, alertEvents, alertNow, alertProcess>>

Unfreeze(c) ==
  /\ AlertFree /\ Frozen(c)
  /\ alertFreezes' = [alertFreezes EXCEPT ![c].active = FALSE]
  /\ alertCallers' = IF alertCallers[c] = AlertNone THEN alertCallers
                     ELSE [alertCallers EXCEPT ![c].consecutive = 0]
  /\ UNCHANGED <<alertRules, alertEvents, alertNow, alertJob, alertProcess>>

-----------------------------------------------------------------------------
(* Time, crash, restart *)

AlertTime ==
  /\ alertJob = AlertNone /\ alertNow < AlertMaxNow
  /\ alertNow' = alertNow + 1
  /\ UNCHANGED <<alertCallers, alertTables, alertJob, alertProcess>>

AlertCrash ==
  /\ alertUp /\ alertCrashed < AlertCrashes
  /\ alertUp' = FALSE /\ alertCrashed' = alertCrashed + 1
  /\ alertCallers' = [c \in AlertCallers |-> AlertNone]
  /\ alertJob' = AlertNone
  /\ UNCHANGED <<alertTables, alertNow>>

AlertStart ==
  /\ ~alertUp /\ alertUp' = TRUE
  /\ alertCallers' = [c \in AlertCallers |->
       IF alertRules[c] = AlertNone THEN AlertNone ELSE Watching(alertRules[c])]
  /\ UNCHANGED <<alertTables, alertNow, alertJob, alertCrashed>>

AlertNext ==
  \/ WriteRule \/ TriggerAlert \/ TriggerFreeze
  \/ CleanupExpiredRecords \/ AlertTime \/ AlertCrash \/ AlertStart
  \/ \E c \in AlertCallers :
       \/ DeleteRule(c) \/ Unfreeze(c)
       \/ \E rule \in AlertRuleChoices : SetRule(c, rule)
       \/ \E units \in AlertUnits, late \in 0..AlertDelay :
            RecordConsumption(c, units, alertNow - late)

AlertSpec == AlertInit /\ [][AlertNext]_alertVars

-----------------------------------------------------------------------------
(* Properties *)

(* Half a window lies between any two of the last n alerts.                *)
Streak(events, n) ==
  LET first == Len(events) - n + 1
  IN  /\ first >= 1
      /\ \A i \in first + 1..Len(events) :
           2 * (events[i].at - events[i - 1].at) >= events[i].window

(* Whoever is frozen has deserved it: the table has as many alerts as its  *)
(* freeze counts, and half a window lies between any two of them, though   *)
(* rules are set anew, consumption is recorded late and out of order, and  *)
(* a crash comes between an alert and the freeze.                          *)
FreezeFollowsAlerts ==
  \A c \in AlertCallers : Frozen(c) => Streak(alertEvents[c], alertFreezes[c].before)
=============================================================================

------------------------------- MODULE Audit -------------------------------
(***************************************************************************)
(* The circuit breaker of internal/audit/manager.go: every call to the     *)
(* lock manager or the rate limiter goes through a method that looks at    *)
(* the caller's breaker, makes the call, writes an audit row, and opens    *)
(* the breaker once the rows of the window hold too many failures.         *)
(*                                                                         *)
(* Manager.mu is held while the breaker is read and while it changes, and  *)
(* not for the call in between: a call let through may still fail after    *)
(* another has opened the breaker.  A change writes a row of cb_history    *)
(* and the row of cb_status, a step each; breakerJob is what is still to   *)
(* do.  The rows of the window are counted, and time takes them away.      *)
(*                                                                         *)
(* A definition whose comment begins "Faulty:" is no part of the model: it *)
(* is a slip one could make in the definition after it.                    *)
(***************************************************************************)
EXTENDS Integers, FiniteSets

CONSTANTS
  BreakerCallers,
  BreakerDefault,       \* "", whose rule holds for callers without their own
  BreakerNone,          \* no rule, no call, nothing to do
  BreakerThresholds,    \* failure_threshold of the rules
  BreakerMaxFailures,   \* bound: failures of the window, counted up to here
  BreakerCalls,         \* bound: goroutines calling at a time
  BreakerCrashes        \* bound on crashes

BreakerJob == [do : {"recover", "trip", "upsert"}, caller : BreakerCallers]
BreakerCall == [caller : BreakerCallers, at : {"trips", "no trip", "failed"}]

ASSUME BreakerNoneAssumption == BreakerNone \notin BreakerJob \cup BreakerCall

VARIABLES
  breakerRules,         \* Manager.rules, defaultRule and table cb_rules
  breakerFailures,      \* audit_logs: failures of the window, by caller
  breakers,             \* Manager.statuses
  breakerRows,          \* table cb_status
  openHistory,          \* cb_history: rows not recovered, by caller
  breakerCalls,         \* calls between the look at the breaker and the end
  breakerJob,           \* what the holder of mu still writes
  breakerTorn,          \* history: callers whose rows a crash left apart
  breakerCrashed        \* how often the process has died

breakerTables == <<breakerRules, breakerFailures, breakerRows, openHistory>>
breakerHistory == <<breakerTorn, breakerCrashed>>
breakerVars == <<breakerTables, breakers, breakerCalls, breakerJob, breakerHistory>>

BreakerInit ==
  /\ breakerRules = [c \in BreakerCallers \cup {BreakerDefault} |-> BreakerNone]
  /\ breakerFailures = [c \in BreakerCallers |-> 0]
  /\ breakers = [c \in BreakerCallers |-> "closed"]
  /\ breakerRows = breakers
  /\ openHistory = [c \in BreakerCallers |-> 0]
  /\ breakerCalls = [g \in BreakerCalls |-> BreakerNone]
  /\ breakerJob = BreakerNone
  /\ breakerTorn = {} /\ breakerCrashed = 0

-----------------------------------------------------------------------------
(* Closing *)

(* A breaker is open, and due once its expires_at has passed.              *)
IsOpen(c) == breakers[c] # "closed"
BreakerFree == breakerJob = BreakerNone

(* recoverCircuitBreakerLocked: memory, then the history, then the row     *)
Recover(c) ==
  /\ breakers' = [breakers EXCEPT ![c] = "closed"]
  /\ breakerJob' = [do |-> "recover", caller |-> c]

UpdateHistoryRecover(c) == IF openHistory[c] > 0 THEN openHistory[c] - 1 ELSE 0

WriteHistory ==
  /\ breakerJob # BreakerNone /\ breakerJob.do \in {"recover", "trip"}
  /\ LET c == breakerJob.caller
     IN  openHistory' = [openHistory EXCEPT
           ![c] = IF breakerJob.do = "trip" THEN @ + 1 ELSE UpdateHistoryRecover(c)]
  /\ breakerJob' = [breakerJob EXCEPT !.do = "upsert"]
  /\ UNCHANGED <<breakerRules, breakerFailures, breakerRows, breakers, breakerCalls, breakerHistory>>

UpsertCircuitBreakerStatus ==
  /\ breakerJob # BreakerNone /\ breakerJob.do = "upsert"
  /\ breakerRows' = [breakerRows EXCEPT ![breakerJob.caller] = breakers[breakerJob.caller]]
  /\ breakerJob' = BreakerNone
  /\ UNCHANGED <<breakerRules, breakerFailures, openHistory, breakers, breakerCalls, breakerHistory>>

(* The tick; GetCircuitBreakerStatus and ListOpenCircuitBreakers too       *)
CheckCooldownExpiry(c) ==
  /\ BreakerFree /\ breakers[c] = "due"
  /\ Recover(c)
  /\ UNCHANGED <<breakerTables, breakerCalls, breakerHistory>>

ManuallyCloseCircuitBreaker(c) ==
  /\ BreakerFree /\ IsOpen(c)
  /\ Recover(c)
  /\ UNCHANGED <<breakerTables, breakerCalls, breakerHistory>>

-----------------------------------------------------------------------------
(* Calls *)

AddFailure(c) ==
  breakerFailures' = [breakerFailures EXCEPT
    ![c] = IF @ < BreakerMaxFailures THEN @ + 1 ELSE @]

(* AcquireLock, RenewLock, AcquireLocksBatch, RequestTokens, BorrowQuota   *)
(* (of the borrower) and AdjustQuota, which opens no breaker ("no trip").  *)
(* A call that is refused is a failure of the window as well.              *)
GuardedCall(g, c, kind) ==
  /\ BreakerFree /\ breakerCalls[g] = BreakerNone
  /\ \/ /\ breakers[c] = "open"
        /\ AddFailure(c)
        /\ UNCHANGED <<breakers, breakerCalls, breakerJob>>
     \/ /\ breakers[c] # "open"
        /\ breakerCalls' = [breakerCalls EXCEPT ![g] = [caller |-> c, at |-> kind]]
        /\ IF breakers[c] = "due" THEN Recover(c) ELSE UNCHANGED <<breakers, breakerJob>>
        /\ UNCHANGED breakerFailures
  /\ UNCHANGED <<breakerRules, breakerRows, openHistory, breakerHistory>>

GuardedCallReturns(g) ==
  /\ breakerCalls[g] # BreakerNone /\ breakerCalls[g].at \in {"trips", "no trip"}
  /\ \/ /\ breakerCalls' = [breakerCalls EXCEPT ![g] = BreakerNone]
        /\ UNCHANGED breakerFailures
     \/ /\ AddFailure(breakerCalls[g].caller)
        /\ breakerCalls' = [breakerCalls EXCEPT
             ![g] = IF @.at = "trips" THEN [@ EXCEPT !.at = "failed"] ELSE BreakerNone]
  /\ UNCHANGED <<breakerRules, breakerRows, openHistory, breakers, breakerJob, breakerHistory>>

(* ReleaseLock, ReturnTokens and ReturnQuota look at no breaker.           *)
UnguardedCallFails(c) ==
  /\ AddFailure(c)
  /\ UNCHANGED <<breakerRules, breakerRows, openHistory, breakers, breakerCalls, breakerJob,
                 breakerHistory>>

GetRuleForCaller(c) ==
  IF breakerRules[c] # BreakerNone THEN breakerRules[c] ELSE breakerRules[BreakerDefault]

(* Faulty: a call that was on its way when the breaker opened trips it     *)
(* again                                                                   *)
TripsAgain(c) ==
  GetRuleForCaller(c) # BreakerNone /\ breakerFailures[c] >= GetRuleForCaller(c)
Trips(c) ==
  /\ GetRuleForCaller(c) # BreakerNone
  /\ breakerFailures[c] >= GetRuleForCaller(c)
  /\ ~IsOpen(c)

CheckAndTriggerCircuitBreaker(g) ==
  /\ BreakerFree /\ breakerCalls[g] # BreakerNone /\ breakerCalls[g].at = "failed"
  /\ LET c == breakerCalls[g].caller
     IN  IF Trips(c)
         THEN /\ breakers' = [breakers EXCEPT ![c] = "open"]
              /\ breakerJob' = [do |-> "trip", caller |-> c]
         ELSE /\ breakerJob' = IF GetRuleForCaller(c) = BreakerNone THEN BreakerNone
                               ELSE [do |-> "upsert", caller |-> c]
              /\ UNCHANGED breakers
  /\ breakerCalls' = [breakerCalls EXCEPT ![g] = BreakerNone]
  /\ UNCHANGED <<breakerTables, breakerHistory>>

-----------------------------------------------------------------------------
(* Rules, time, crashes *)

(* SetCircuitBreakerRule, for a caller or as the default;                  *)
(* DeleteCircuitBreakerRule (BreakerNone)                                  *)
SetCircuitBreakerRule(c, rule) ==
  /\ BreakerFree /\ breakerRules[c] # rule
  /\ breakerRules' = [breakerRules EXCEPT ![c] = rule]
  /\ UNCHANGED <<breakerFailures, breakerRows, openHistory, breakers, breakerCalls, breakerJob,
                 breakerHistory>>

FailureLeavesWindow(c) ==
  /\ breakerFailures[c] > 0
  /\ breakerFailures' = [breakerFailures EXCEPT ![c] = @ - 1]
  /\ UNCHANGED <<breakerRules, breakerRows, openHistory, breakers, breakerCalls, breakerJob,
                 breakerHistory>>

CooldownPasses(c) ==
  /\ breakers[c] = "open"
  /\ breakers' = [breakers EXCEPT ![c] = "due"]
  /\ breakerRows' = [breakerRows EXCEPT ![c] = IF @ = "open" THEN "due" ELSE @]
  /\ UNCHANGED <<breakerRules, breakerFailures, openHistory, breakerCalls, breakerJob, breakerHistory>>

(* The process dies and Start reads the rows again; that it closes those   *)
(* that are due before it returns is the tick's first round here.          *)
BreakerCrash ==
  /\ breakerCrashed < BreakerCrashes
  /\ breakerCrashed' = breakerCrashed + 1
  /\ breakerTorn' = IF BreakerFree THEN breakerTorn ELSE breakerTorn \cup {breakerJob.caller}
  /\ breakers' = breakerRows
  /\ breakerCalls' = [g \in BreakerCalls |-> BreakerNone]
  /\ breakerJob' = BreakerNone
  /\ UNCHANGED breakerTables

BreakerNext ==
  \/ WriteHistory \/ UpsertCircuitBreakerStatus \/ BreakerCrash
  \/ \E g \in BreakerCalls : GuardedCallReturns(g) \/ CheckAndTriggerCircuitBreaker(g)
  \/ \E c \in BreakerCallers :
       \/ CheckCooldownExpiry(c) \/ CooldownPasses(c) \/ ManuallyCloseCircuitBreaker(c)
       \/ UnguardedCallFails(c) \/ FailureLeavesWindow(c)
       \/ \E g \in BreakerCalls, kind \in {"trips", "no trip"} : GuardedCall(g, c, kind)
  \/ \E c \in BreakerCallers \cup {BreakerDefault}, rule \in BreakerThresholds \cup {BreakerNone} :
       SetCircuitBreakerRule(c, rule)

BreakerSpec == BreakerInit /\ [][BreakerNext]_breakerVars

-----------------------------------------------------------------------------
(* Properties *)

(* The history tells which breakers are open: one row is not recovered     *)
(* while the breaker is open and none otherwise, however many calls were   *)
(* past the breaker when it opened (crashes between two writes excepted).  *)
HistoryTellsOpen ==
  BreakerFree =>
    \A c \in BreakerCallers \ breakerTorn : openHistory[c] = IF IsOpen(c) THEN 1 ELSE 0
=============================================================================

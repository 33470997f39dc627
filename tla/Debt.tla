-------------------------------- MODULE Debt --------------------------------
(***************************************************************************)
(* The debts of internal/debt/manager.go: what a caller owes another, or   *)
(* the system, is returned, collected by the liquidation tick or by hand,  *)
(* or written off; a caller with too many overdue debts is restricted.     *)
(*                                                                         *)
(* Every method and the tick hold Manager.mu; each row they write is a     *)
(* step, debtJob what is still to do.  The ledger and the audit rows are   *)
(* left out, except for the failures that the tick counts: it looks back   *)
(* over 300 of its periods, which stands for all of them.                  *)
(*                                                                         *)
(* A definition whose comment begins "Faulty:" is no part of the model: it *)
(* is a slip one could make in the definition after it.                    *)
(***************************************************************************)
EXTENDS Integers, Sequences, FiniteSetsExt, SequencesExt

CONSTANTS
  Debtors,
  DebtSystem,           \* the creditor "system"
  DebtNone,             \* no record, no rule, no method
  DebtIds,              \* bound: debt records, 1..n
  DebtLoans,            \* what is borrowed, pairs of creditor and amount
  DebtAmounts,          \* returned
  DebtRuleChoices,      \* liquidation rules: threshold, retries, protection
  DebtDefaults,         \* retries and protection without a rule (3 and 5)
  DebtMaxTries,         \* bound: attempts and failures are counted up to here
  DebtCrashes           \* bound on crashes

VARIABLES
  debts,                \* table debt_records
  debtDue,              \* debts whose due_at has passed, in its order
  debtFailures,         \* liquidation_audit: failed collections, by debtor
  debtRestricted,       \* debtors with an active row in debt_restrictions
  debtRules,            \* Manager.rules and table liquidation_rules
  debtJob,              \* what the method under mu still does
  debtPaid,             \* history: what was paid for a debt, up to one too much
  debtTorn,             \* history: debts a crash left between payment and row
  debtCrashed           \* how often the process has died

debtTables == <<debts, debtFailures, debtRestricted, debtRules>>
debtHistory == <<debtPaid, debtTorn, debtCrashed>>
debtVars == <<debtTables, debtDue, debtJob, debtHistory>>

DebtInit ==
  /\ debts = [d \in DebtIds |-> DebtNone] /\ debtDue = <<>>
  /\ debtFailures = [c \in Debtors |-> 0] /\ debtRestricted = {}
  /\ debtRules = [c \in Debtors |-> DebtNone]
  /\ debtJob = DebtNone
  /\ debtPaid = [d \in DebtIds |-> 0] /\ debtTorn = {} /\ debtCrashed = 0

DebtRecord ==
  [debtor : Debtors, creditor : {loan[1] : loan \in DebtLoans} \cup {DebtSystem},
   amount : Nat, status : {"active", "overdue", "collected", "written_off"}, attempts : Nat]

(* A return, the tick between two debts and at one of them, a collection   *)
(* by hand                                                                 *)
DebtJob ==
  [do : {"return"}, remaining : Nat, debtor : Debtors, left : SUBSET DebtIds]
  \cup [do : {"mark"}, left : SUBSET DebtIds]
  \cup [do : {"attempt", "collect", "settle", "fail", "restrict"}, at : DebtIds,
        left : SUBSET DebtIds]
  \cup [do : {"settle by hand", "lift"}, at : DebtIds]

ASSUME DebtAssumption ==
  /\ \A loan \in DebtLoans : loan[2] \in Nat
  /\ DebtAmounts \subseteq Nat /\ DebtMaxTries \in Nat

ASSUME DebtNoneAssumption == DebtNone \notin DebtRecord /\ DebtNone \notin DebtJob

DebtFree == debtJob = DebtNone
DebtIs(d, statuses) == debts[d] # DebtNone /\ debts[d].status \in statuses
UpdateDebtRecord(d, status) == debts' = [debts EXCEPT ![d].status = status]
DebtPay(d, amount) ==
  debtPaid' = [debtPaid EXCEPT ![d] = Min({debts[d].amount + 1, @ + amount})]
Capped(n) == IF n < DebtMaxTries THEN n ELSE DebtMaxTries

-----------------------------------------------------------------------------
(* Debts are made and returned *)

CreateDebtRecord(d, debtor, creditor, amount) ==
  /\ DebtFree /\ debts[d] = DebtNone /\ \A e \in DebtIds : e < d => debts[e] # DebtNone
  /\ debts' = [debts EXCEPT ![d] =
       [debtor |-> debtor, creditor |-> creditor, amount |-> amount,
        status |-> "active", attempts |-> 0]]
  /\ UNCHANGED <<debtDue, debtFailures, debtRestricted, debtRules, debtJob, debtHistory>>

RecordBorrow(d, debtor, creditor, amount) ==
  creditor # DebtSystem /\ CreateDebtRecord(d, debtor, creditor, amount)

(* RecordRollbackFail, RecordReservationExpire, RecordForceReclaim         *)
RecordSystemDebt(d, debtor, amount) == CreateDebtRecord(d, debtor, DebtSystem, amount)

ListDebtRecords(debtor, status) ==
  {d \in DebtIds : DebtIs(d, {status}) /\ debts[d].debtor = debtor}

(* Which of two debts a return settles first: the active one, or of two    *)
(* that are active or two that are overdue the younger one                 *)
ListedBefore(d, e) ==
  IF debts[d].status = debts[e].status THEN d > e ELSE debts[d].status = "active"

(* A return that is no return of anything may lift restrictions all the    *)
(* same.                                                                   *)
RecordReturn(debtor, creditor, amount) ==
  /\ DebtFree
  /\ debtJob' = [do |-> "return", remaining |-> amount, debtor |-> debtor,
       left |-> {d \in ListDebtRecords(debtor, "active") \cup ListDebtRecords(debtor, "overdue") :
                   debts[d].creditor = creditor}]
  /\ UNCHANGED <<debtTables, debtDue, debtHistory>>

DebtDoing(what) == debtJob # DebtNone /\ debtJob.do = what
DebtAt == debtJob.at
DebtDoes(what) == debtJob' = [debtJob EXCEPT !.do = what]

(* Faulty: what has settled one debt settles the next as well              *)
RemainingWhole(d) == debtJob.remaining
Remaining(d) ==
  IF debts[d].amount <= debtJob.remaining THEN debtJob.remaining - debts[d].amount ELSE 0

(* UpdateDebtRecord does not write the amount: of a debt returned in part  *)
(* the table keeps the whole.                                              *)
ReturnNext ==
  /\ DebtDoing("return") /\ debtJob.remaining > 0
  /\ \E d \in debtJob.left :
       /\ \A e \in debtJob.left : ~ListedBefore(e, d)
       /\ IF debts[d].amount <= debtJob.remaining
          THEN UpdateDebtRecord(d, "collected") ELSE UNCHANGED debts
       /\ DebtPay(d, debtJob.remaining - Remaining(d))
       /\ debtJob' = [debtJob EXCEPT !.left = @ \ {d}, !.remaining = Remaining(d)]
  /\ UNCHANGED <<debtDue, debtFailures, debtRestricted, debtRules, debtTorn, debtCrashed>>

CountOverdueDebts(c) == Cardinality(ListDebtRecords(c, "overdue"))

(* tryLiftRestrictions, by RecordReturn and ManualCollect, not by the tick *)
TryLiftRestrictions(c) ==
  debtRestricted' = IF CountOverdueDebts(c) > 0 THEN debtRestricted ELSE debtRestricted \ {c}

Returned ==
  /\ DebtDoing("return") /\ (debtJob.left = {} \/ debtJob.remaining = 0)
  /\ TryLiftRestrictions(debtJob.debtor)
  /\ debtJob' = DebtNone
  /\ UNCHANGED <<debts, debtFailures, debtRules, debtDue, debtHistory>>

-----------------------------------------------------------------------------
(* The liquidation tick *)

ListOverdueDebts == {d \in ToSet(debtDue) : DebtIs(d, {"active", "overdue"})}
DueBefore(d, e) ==
  \E i, j \in DOMAIN debtDue : i < j /\ debtDue[i] = d /\ debtDue[j] = e

RunLiquidationTick ==
  /\ DebtFree /\ ListOverdueDebts # {}
  /\ debtJob' = [do |-> "mark", left |-> ListOverdueDebts]
  /\ UNCHANGED <<debtTables, debtDue, debtHistory>>

MarkOverdue ==
  /\ DebtDoing("mark")
  /\ \E d \in debtJob.left :
       /\ \A e \in debtJob.left : ~DueBefore(e, d)
       /\ UpdateDebtRecord(d, "overdue")
       /\ debtJob' = [do |-> "attempt", at |-> d, left |-> debtJob.left \ {d}]
  /\ UNCHANGED <<debtFailures, debtRestricted, debtRules, debtDue, debtHistory>>

(* Faulty: asked for the number of attempts itself, not for at least that  *)
GivesUpOnlyThen(d) ==
  LET rule == IF debtRules[debts[d].debtor] # DebtNone THEN debtRules[debts[d].debtor]
              ELSE DebtDefaults
  IN  debts[d].attempts = rule.retries /\ debtFailures[debts[d].debtor] >= rule.protection

GivesUp(d) ==
  LET rule == IF debtRules[debts[d].debtor] # DebtNone THEN debtRules[debts[d].debtor]
              ELSE DebtDefaults
  IN  debts[d].attempts >= rule.retries /\ debtFailures[debts[d].debtor] >= rule.protection

WriteOff ==
  /\ DebtDoing("attempt") /\ GivesUp(DebtAt)
  /\ UpdateDebtRecord(DebtAt, "written_off")
  /\ DebtDoes("restrict")
  /\ UNCHANGED <<debtFailures, debtRestricted, debtRules, debtDue, debtHistory>>

Attempt ==
  /\ DebtDoing("attempt") /\ ~GivesUp(DebtAt)
  /\ debts' = [debts EXCEPT ![DebtAt].attempts = Capped(@ + 1)]
  /\ DebtDoes("collect")
  /\ UNCHANGED <<debtFailures, debtRestricted, debtRules, debtDue, debtHistory>>

(* ReturnTokens of the debtor; for what it owes the system the tick does   *)
(* not even try.                                                           *)
Collect ==
  /\ DebtDoing("collect")
  /\ \/ /\ debts[DebtAt].creditor # DebtSystem
        /\ DebtPay(DebtAt, debts[DebtAt].amount)
        /\ DebtDoes("settle")
     \/ DebtDoes("fail") /\ UNCHANGED debtPaid
  /\ UNCHANGED <<debtTables, debtDue, debtTorn, debtCrashed>>

Settle ==
  /\ DebtDoing("settle")
  /\ UpdateDebtRecord(DebtAt, "collected")
  /\ DebtDoes("restrict")
  /\ UNCHANGED <<debtFailures, debtRestricted, debtRules, debtDue, debtHistory>>

(* The audit row of a failure, which CountCollectFailures counts           *)
CollectFails ==
  /\ DebtDoing("fail")
  /\ debtFailures' = [debtFailures EXCEPT ![debts[DebtAt].debtor] = Capped(@ + 1)]
  /\ DebtDoes("restrict")
  /\ UNCHANGED <<debts, debtRestricted, debtRules, debtDue, debtHistory>>

ApplyRestrictionsIfNeeded ==
  /\ DebtDoing("restrict")
  /\ LET c == debts[DebtAt].debtor
     IN  debtRestricted' =
           IF debtRules[c] # DebtNone /\ CountOverdueDebts(c) >= debtRules[c].threshold
           THEN debtRestricted \cup {c} ELSE debtRestricted
  /\ debtJob' = IF debtJob.left = {} THEN DebtNone ELSE [do |-> "mark", left |-> debtJob.left]
  /\ UNCHANGED <<debts, debtFailures, debtRules, debtDue, debtHistory>>

-----------------------------------------------------------------------------
(* By hand *)

(* What is owed the system is collected at once, and nothing is paid.      *)
ManualCollectForSystem(d) ==
  /\ debts[d].creditor = DebtSystem
  /\ debts' = [debts EXCEPT ![d].status = "collected", ![d].attempts = Capped(@ + 1)]
  /\ debtJob' = [do |-> "lift", at |-> d]
  /\ UNCHANGED debtPaid

(* Of other debts the tokens first, which may fail, then the row.          *)
ManualCollectForCaller(d) ==
  /\ debts[d].creditor # DebtSystem
  /\ \/ /\ debtJob' = [do |-> "settle by hand", at |-> d]
        /\ DebtPay(d, debts[d].amount)
        /\ UNCHANGED debts
     \/ /\ debts' = [debts EXCEPT ![d].attempts = Capped(@ + 1)]
        /\ UNCHANGED <<debtJob, debtPaid>>

ManualCollect(d) ==
  /\ DebtFree /\ DebtIs(d, {"active", "overdue"})
  /\ ManualCollectForSystem(d) \/ ManualCollectForCaller(d)
  /\ UNCHANGED <<debtFailures, debtRestricted, debtRules, debtDue, debtTorn, debtCrashed>>

SettleByHand ==
  /\ DebtDoing("settle by hand")
  /\ debts' = [debts EXCEPT ![DebtAt].status = "collected", ![DebtAt].attempts = Capped(@ + 1)]
  /\ DebtDoes("lift")
  /\ UNCHANGED <<debtFailures, debtRestricted, debtRules, debtDue, debtHistory>>

LiftByHand ==
  /\ DebtDoing("lift")
  /\ TryLiftRestrictions(debts[DebtAt].debtor)
  /\ debtJob' = DebtNone
  /\ UNCHANGED <<debts, debtFailures, debtRules, debtDue, debtHistory>>

LiftRestriction(c) ==
  /\ DebtFree /\ c \in debtRestricted
  /\ debtRestricted' = debtRestricted \ {c}
  /\ UNCHANGED <<debts, debtFailures, debtRules, debtDue, debtJob, debtHistory>>

SetLiquidationRule(c, rule) ==
  /\ DebtFree /\ debtRules[c] # rule
  /\ debtRules' = [debtRules EXCEPT ![c] = rule]
  /\ UNCHANGED <<debts, debtFailures, debtRestricted, debtDue, debtJob, debtHistory>>

DeleteLiquidationRule(c) == SetLiquidationRule(c, DebtNone)

DebtFallsDue(d) ==
  /\ debts[d] # DebtNone /\ d \notin ToSet(debtDue)
  /\ debtDue' = Append(debtDue, d)
  /\ UNCHANGED <<debtTables, debtJob, debtHistory>>

(* The process dies in the middle of a method and is started again.        *)
DebtCrash ==
  /\ debtJob # DebtNone /\ debtCrashed < DebtCrashes
  /\ debtCrashed' = debtCrashed + 1
  /\ debtTorn' = IF debtJob.do \in {"settle", "settle by hand"}
                 THEN debtTorn \cup {DebtAt} ELSE debtTorn
  /\ debtJob' = DebtNone
  /\ UNCHANGED <<debtTables, debtDue, debtPaid>>

DebtSteps ==
  \/ ReturnNext \/ Returned \/ MarkOverdue \/ WriteOff \/ Attempt \/ Collect \/ Settle \/ CollectFails
  \/ ApplyRestrictionsIfNeeded \/ SettleByHand \/ LiftByHand

DebtNext ==
  \/ DebtSteps \/ RunLiquidationTick \/ DebtCrash
  \/ \E c \in Debtors, d \in DebtIds, loan \in DebtLoans :
       \/ RecordBorrow(d, c, loan[1], loan[2])
       \/ loan[1] = DebtSystem /\ RecordSystemDebt(d, c, loan[2])
  \/ \E c \in Debtors, loan \in DebtLoans, amount \in DebtAmounts :
       RecordReturn(c, loan[1], amount)
  \/ \E d \in DebtIds : ManualCollect(d) \/ DebtFallsDue(d)
  \/ \E c \in Debtors :
       \/ LiftRestriction(c) \/ DeleteLiquidationRule(c)
       \/ \E rule \in DebtRuleChoices : SetLiquidationRule(c, rule)

(* The ticker goes on ticking, and mu passes over nobody for ever.         *)
DebtFairness == WF_debtVars(DebtSteps) /\ SF_debtVars(RunLiquidationTick)

-----------------------------------------------------------------------------
(* Properties *)

(* No debt to a caller counts as collected before it is paid in full: a    *)
(* return that settles one debt is not counted for the next, whoever else  *)
(* collects, and whatever method dies half way.  (What is owed the system  *)
(* is collected by hand without payment.)                                  *)
CollectedIsPaid ==
  \A d \in DebtIds :
    DebtIs(d, {"collected"}) /\ debts[d].creditor # DebtSystem => debtPaid[d] >= debts[d].amount

(* A debt past its due time is collected or written off in the end, what   *)
(* is owed the system too, whatever rules come and go and also after a     *)
(* crash.                                                                  *)
DueDebtEnds ==
  \A d \in DebtIds : d \in ToSet(debtDue) ~> DebtIs(d, {"collected", "written_off"})

(* Nobody pays for a debt more than it owes (crashes excepted).            *)
NotPaidTwice ==
  \A d \in DebtIds \ debtTorn :
    debts[d] # DebtNone => debtPaid[d] <= debts[d].amount
=============================================================================

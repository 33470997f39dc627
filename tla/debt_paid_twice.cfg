SPECIFICATION Spec
CONSTANTS
  HoCallers = {"a", "b", "c"}
  HoNobody = None
  HoLocks = {"l"}
  HoTxs = {"t"}
  HoReservations = {"r"}
  HoRequests <- MCRequests
  Handovers = {1, 2}
  HoFirst = "a"
  HoBoundFirst = {"b", "c"}
  HoCrashes = 1
  Debtors = {"a"}
  DebtSystem = "system"
  DebtNone = None
  DebtIds = {1, 2}
  DebtLoans <- MCLoans
  DebtAmounts = {3}
  DebtRuleChoices <- MCRuleChoices
  DebtDefaults <- MCDefaults
  DebtMaxTries = 2
  DebtCrashes = 1
  BreakerCallers = {"a"}
  BreakerDefault = ""
  BreakerNone = None
  BreakerThresholds = {1, 2}
  BreakerMaxFailures = 3
  BreakerCalls = {1, 2}
  BreakerCrashes = 1
  Plans = {1}
  PlanNone = None
  PlanTargets = {"x"}
  PlanValues = {0, 1, 2}
  PlanFirst = 0
  PlanOverrides <- MCOverrides
  PlanMethods = {1, 2}
  PlanCrashes = 1
  AlertCallers = {"a"}
  AlertNone = None
  AlertRuleChoices <- MCAlertRules
  AlertUnits = {1}
  AlertDelay = 1
  AlertMaxNow = 3
  AlertMaxEvents = 3
  AlertMaxRecords = 2
  AlertCrashes = 1
INVARIANTS NotPaidTwice
CHECK_DEADLOCK FALSE

SPECIFICATION MCSpec
CONSTANTS
  c1 = c1
  c2 = c2
  l1 = l1
  l2 = l2
  None = None
  Callers = {c1, c2}
  Locks = {l1, l2}
  Limits = {1}
  Periods = {1, 2}
  OverdraftLimits = {1}
  LeaseSecs = {2}
  Amounts = {1}
  MaxUnits = 2
  MaxLimit = 1
  MaxLate = 6
  MaxNet = 1
  MaxAge = 4
  MaxLease = 2
SYMMETRY CallerSymmetry
INVARIANTS MeteringConsistent
PROPERTIES TransferWithinBudget PeriodCatchesUp ArrearsOnlyPaid

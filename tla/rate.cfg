SPECIFICATION BoundedSpec
CONSTANTS
  c1 = c1
  c2 = c2
  p1 = p1
  None = None
  Callers = {c1, c2}
  Policies = {p1}
  Algorithms = {"fixed_window"}
  MaxTokens = 1
  Quotas = {1}
  NewQuotas = {0}
  Amounts = {1}
  Waits = {1}
  Starts = {0, 1}
  Lengths = {2}
  Reservations = {1, 2}
  Items = {1, 2, 3}
  MaxNow = 2
  MaxRows = 2
  Crashes = 1
SYMMETRY CallerSymmetry
INVARIANTS UsedWithinLimit NeverOverbooked BorrowedIsLent ReservationsKept QueueSurvives

SPECIFICATION OneSecondSpec
CONSTANTS
  l1 = l1
  l2 = l2
  l3 = l3
  h1 = h1
  h2 = h2
  h3 = h3
  NoHolder = NoHolder
  Locks = {l1, l2, l3}
  Holders = {h1, h2, h3}
  Gold = {}
  Flags = {FALSE}
  LeaseSecs = {1}
  CooldownSecs = {}
  WaitTimeoutSec = 1
  MaxLeft = 1
  MaxCount = 1
  MaxTicket = 2
  MaxTimers = 3
  MaxCrashes = 1
SYMMETRY AllInterchangeable
PROPERTIES RefusedBatchHoldsNothing EnqueueClosesNoCycle

SPECIFICATION Spec
CONSTANTS
  l1 = l1
  l2 = l2
  l3 = l3
  h1 = h1
  h2 = h2
  h3 = h3
  NoHolder = NoHolder
  Locks = {l1}
  Holders = {h1, h2, h3}
  Gold = {h1}
  Flags = {TRUE}
  LeaseSecs = {1, 2}
  CooldownSecs = {1}
  WaitTimeoutSec = 2
  MaxLeft = 2
  MaxCount = 2
  MaxTicket = 2
  MaxTimers = 2
  MaxCrashes = 1
SYMMETRY Interchangeable
INVARIANTS TypeOK LeaseBelongsToHolder HeldLockIsTimed NoStrandedWaiter
PROPERTIES LongestWaiterFirst OnlyStaleCallbacksComeEarly ServiceSpec

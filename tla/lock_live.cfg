SPECIFICATION FairSpec
CONSTANTS
  l1 = l1
  l2 = l2
  l3 = l3
  h1 = h1
  h2 = h2
  h3 = h3
  NoHolder = NoHolder
  Locks = {l1}
  Holders = {h1, h2}
  Gold = {h1}
  Flags = {FALSE}
  LeaseSecs = {1}
  CooldownSecs = {1}
  WaitTimeoutSec = 1
  MaxLeft = 2
  MaxCount = 1
  MaxTicket = 2
  MaxTimers = 2
  MaxCrashes = 1
PROPERTIES WaitEnds PastLeaseEnds

SPECIFICATION Spec
CONSTANTS
  h1 = h1
  h2 = h2
  l1 = l1
  l2 = l2
  l3 = l3
  n1 = n1
  n2 = n2
  n3 = n3
  None = None
  Locks = {l1, l2, l3}
  Holders = {h1, h2}
  Budgeted = {}
  Others = {h2}
  MaxCount = 2
  Nodes = {n1, n2, n3}
  LockOf <- MCLockOf
  Charged = {n1}
  CascadeHolders = {h1}
  Txs = {1, 2}
  TxSpecs <- MCTxSpecs
  TxCrashes = 1
INVARIANTS TokensComeBackOnce AncestorsFirst CascadeGivesBack
PROPERTY CommittedTxEnds
CHECK_DEADLOCK FALSE

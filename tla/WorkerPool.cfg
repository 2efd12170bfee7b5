SPECIFICATION Spec
CONSTANTS
  i1 = i1
  i2 = i2
  i3 = i3
  NoItem = NoItem
  Items <- MCItems
  Size <- MCSize
  Budgets <- MCBudgets
  Workers = {w1, w2}
  QueueSize = 1
  Retries = 1
INVARIANTS PoolInv BytesAccounted NeverStranded
PROPERTY AcceptedIsHandled
CHECK_DEADLOCK FALSE

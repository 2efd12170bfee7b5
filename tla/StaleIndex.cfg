SPECIFICATION FairSpec
CONSTANTS
  A = A
  B = B
  c1 = c1
  c2 = c2
  MaxConns = 3
  Instances = {A}
  First = A
  Configs = {c1}
  Adopted = c1
  Stored = c1
  Empty = Empty
  Default = Default
  Local = Local
  Rejected = {Default}
  None = None
  MaxDown = 1
  MaxChanges = 0
PROPERTY ReconcileDelivers

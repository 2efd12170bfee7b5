SPECIFICATION FairSpec
CONSTANTS
  A = A
  B = B
  c1 = c1
  c2 = c2
  MaxConns = 2
  Instances = {A, B}
  First = A
  Configs = {c1, c2}
  Adopted = c1
  Stored = None
  Empty = Empty
  Default = Default
  Local = Local
  Rejected = {Default}
  None = None
  MaxDown = 1
  MaxChanges = 1
INVARIANT DeliveryInv
PROPERTIES Converges Registered

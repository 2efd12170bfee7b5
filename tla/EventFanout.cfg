SPECIFICATION FairSpec
CONSTANTS
  Events = {e1, e2}
  Subs = {s1}
  Dests = {d1}
  Matches <- MCMatches
  Workers = {w1, w2}
  None = None
  BufSize = 1
  QueueSize = 1
  Attempts = 2
  MaxEdits = 2
INVARIANT FanoutInv
PROPERTY FanoutEnds
CHECK_DEADLOCK FALSE

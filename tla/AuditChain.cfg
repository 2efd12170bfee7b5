SPECIFICATION Spec
CONSTANTS
  Events = {e1, e2, e3, e4}
  MaxClock = 3
  MaxFaults = 1
  Nobody = Nobody
SYMMETRY EventSymmetry
INVARIANTS ChainIntact  RecordedIsKept

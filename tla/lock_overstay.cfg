CONSTANTS
  r1 = r1
  r2 = r2
  r3 = r3
  Requests <- MCRequests
  NoOwner = NoOwner
  LockTTL = 2
  AcquireTimeout = 3
  MaxHold = 4
SPECIFICATION Spec
SYMMETRY RequestSymmetry
INVARIANTS TypeOK OverlapNeedsOverstay BoundedWait
PROPERTY ReleasedByOwnerOnly

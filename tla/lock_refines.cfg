CONSTANTS
  r1 = r1
  r2 = r2
  r3 = r3
  Requests <- MCRequests
  NoOwner = NoOwner
  LockTTL = 2
  AcquireTimeout = 1
  MaxHold = 1
SPECIFICATION FairSpec
PROPERTIES ImplementsMutex LockRecovers

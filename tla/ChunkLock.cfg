SPECIFICATION Spec
CONSTANTS
  Chunks = {1, 2, 3, 4}
  Timeout = 2
  Increment = 2
  MaxTime = 6
INVARIANT TypeOK
INVARIANT FitsAllocation
PROPERTY UnlockReleases
PROPERTY ImplementsLockTable

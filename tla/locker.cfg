SPECIFICATION LockerSpec
CONSTANTS
  Requests = {r1, r2, r3}
  MaxRevision = 5
  MaxLate = 3
PROPERTIES ImplementsLockService

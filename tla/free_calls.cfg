SPECIFICATION FreeSpec
CONSTANTS
  u1 = u1
  u2 = u2
  Users = {u1, u2}
  Calls = {c1, c2}
  FreeCallsPerAddress <- MCFreeCallsPerAddress
  FreeCallsAllowed = 3
  Faults = {"storage", "crash"}
  MaxMade = 4
INVARIANTS SoftLimit OnlyFailuresLeaveLocks AvailabilityAgrees
PROPERTIES FreeCallsUseLockService

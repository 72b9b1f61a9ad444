SPECIFICATION MemorySpec
CONSTANTS
  Clients = {c1, c2}
  Stores = {"a"}
  Names = {n1, n2}
  Used <- MCUsed
  Values = {1}
  Absent = Absent
  Limit = 3
  MaxCalls = 3
  MaxRetries = 2
INVARIANTS OkMeansWritten
CHECK_DEADLOCK FALSE

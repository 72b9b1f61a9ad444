SPECIFICATION EtcdSpec
CONSTANTS
  Clients = {c1, c2}
  Stores = {"a", "b"}
  Names = {n1, n2}
  Used <- MCUsed
  Values = {1}
  Absent = Absent
  Limit = 2
  MaxCalls = 3
INVARIANTS StorageTypeOK
PROPERTIES ImplementsAtomicStorage CallsEnd
CHECK_DEADLOCK FALSE

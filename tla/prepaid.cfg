SPECIFICATION PrePaidSpec
CONSTANTS
  Tokens = {t1, t2}
  Calls = {c1, c2}
  Price = 1
  Full = 2
  Others = {"claim", "escrow"}
  Faults = {"storage", "crash"}
  MaxNonce = 1
  MaxRefund = 1
SYMMETRY Symmetry
INVARIANTS PrePaidTypeOK UsedIsAccounted ServedWithinPlanned PlannedIsPaid PaidIsPlanned
VIEW View

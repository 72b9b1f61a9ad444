SPECIFICATION Spec
CONSTANTS
  Channels = {ch1}
  Calls = {p1}
  Tokens = {t1}
  Claimers = {c1}
  Prices = {0, 1}
  Amounts = {1, 2}
  Deposits = {2}
  Expirations = {1, 2}
  Threshold = 0
  Faults = {"storage", "chain", "crash"}
  MaxNonce = 2
  MaxValue = 2
  MaxBlock = 1
  NoSignature = NoSignature
INVARIANTS TypeOK MutualExclusion NextClaimCovered
PROPERTIES IncomeStep ServedIsCovered UsesLockService

SPECIFICATION FairSpec
CONSTANTS
  Channels = {ch1}
  Calls = {p1}
  Tokens = {t1}
  Claimers = {c1}
  Prices = {1}
  Amounts = {1, 2}
  Deposits = {2}
  Expirations = {1, 2}
  Threshold = 0
  Faults = {"chain"}
  MaxNonce = 2
  MaxValue = 2
  MaxBlock = 1
  NoSignature = NoSignature
INVARIANTS ClaimIsSigned NoClaimLost UnspentAmountIsExact
PROPERTIES LockReleased

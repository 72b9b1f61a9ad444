SPECIFICATION Spec
CONSTANTS
  Channels = {ch1}
  Calls = {p1}
  Tokens = {}
  Claimers = {c1, c2}
  Prices = {1}
  Amounts = {1, 2}
  Deposits = {1, 2}
  Expirations = {4}
  Threshold = 1
  Faults = {}
  MaxNonce = 2
  MaxValue = 2
  MaxBlock = 0
  NoSignature = NoSignature
INVARIANTS ClaimIsSigned

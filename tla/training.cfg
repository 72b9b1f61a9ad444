SPECIFICATION FairTrainingSpec
CONSTANTS
  u1 = u1
  u2 = u2
  m1 = m1
  m2 = m2
  Users = {u1, u2}
  Models = {m1, m2}
  AddressLists <- MCAddressLists
  Before <- MCBefore
  Requests = {1, 2}
  Workers = {w1}
  Faults = {"storage", "crash"}
INVARIANTS TrainingTypeOK AccessOnlyGranted CreateGrantsAccess DeleteRevokes
  ListingAgreesWithAccess LostUpdatesNeedARace
PROPERTIES PendingDrains

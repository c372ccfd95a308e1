SPECIFICATION FairSpec
CONSTANTS
  MaxSnaps = 3
  Kinds <- MCKinds
  Account <- MCAccount
  Pair <- MCPair
  Late <- MCLate
  Limit = 2
  MaxErrors = 1
  Timeouts = TRUE
INVARIANTS PaidAtMostOnce NothingLost
PROPERTY EventuallyPaid

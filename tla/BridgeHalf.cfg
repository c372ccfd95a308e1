SPECIFICATION Spec
CONSTANTS
  MaxSnaps = 3
  Kinds <- MCKinds
  Account <- MCAccount
  Pair <- MCPair
  Late <- MCLate
  Limit = 2
  MaxErrors = 0
  Timeouts = FALSE
INVARIANT NoHalfLost

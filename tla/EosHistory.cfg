SPECIFICATION FairSpec
CONSTANTS
  MaxLogs = 3
  Limit = 2
  Start = 1
  MaxForks = 1
  MaxSnapshots = 1
  MaxCrashes = 1
INVARIANTS NoLogMissed StoredIsFinal NeverMismatchedLater
PROPERTY EventuallyStored
CHECK_DEADLOCK FALSE

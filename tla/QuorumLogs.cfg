CONSTANTS
  Base = 2
  Window = 2
  MaxHeight = 8
  MaxEvents = 4
  Refused = {1}
  Malformed = {3}
SPECIFICATION LogsFairSpec
INVARIANT NoLogMissed
PROPERTY EventuallyStored

CONSTANTS
  Publishers = {p1,p2}
  Running = {p1}
  EventCount = 2
  ListLimit = 1
  SendGas = 1
  LowGas = 1
  DepositGas = 3
  Reverting = {1}
  MaxHalts = 2
  MaxErrors = 1
  None = None
SPECIFICATION FairSpec
INVARIANT NotifierNotAhead
PROPERTY TakenUnlessSpoilt

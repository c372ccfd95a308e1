SPECIFICATION FairSpec
CONSTANTS
  p1 = p1 p2 = p2 alice = alice bob = bob dapp = dapp proxy = proxy nobody = nobody
  Publishers = {p1}
  MaxNonce = 2
  EventLists <- MCEventLists
  Senders = {dapp}
  Bound = {alice, bob}
  Others = {dapp}
  Master = proxy
  NoAccount = nobody
  Limit = 2
  MaxAmount = 4
  MaxSupply = 5
  Meos = TRUE
  Fees = {2}
  Transfers = {2}
  MaxAdmin = 2
INVARIANTS TakenExactly Conserved TokensAddUp
PROPERTIES HandledAtMostOnce EventuallyTaken
CHECK_DEADLOCK FALSE

CONSTANTS
  u1 = u1
  u2 = u2
  p1 = p1
  p2 = p2
  a1 = a1
  a2 = a2
  Users = {u1, u2}
  Processes = {p1, p2}
  Greedy = {p2}
  Assets = {a1, a2}
  Events <- MCEvents
  MaxAmount = 1
  MaxEmpty = 1
  MaxHalts = 2
  MaxDepth = 2
  System = System
  None = None
SPECIFICATION FairSpec
INVARIANTS SupplyInCustody NothingLost NoncesOnce TakenWithinGiven UserKeepsNothing
 
CHECK_DEADLOCK FALSE

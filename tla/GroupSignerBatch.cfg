CONSTANTS
  n1 = n1
  n2 = n2
  n3 = n3
  f1 = f1
  a = a
  b = b
  Nodes <- TwoNodes
  Faulty = {}
  Threshold = 2
  Contents = {a, b}
  Timestamp <- Timestamps
  OutputCount = 2
  Order <- TwoOutputs
  ListLimit = 1
  NoContent = NoContent
  NoEvent = NoEvent
SPECIFICATION FairSpec
INVARIANT SignedReachesEngine
PROPERTIES NeverQueuedAgain EventuallySent

CONSTANTS
  n1 = n1
  n2 = n2
  n3 = n3
  f1 = f1
  a = a
  b = b
  Nodes <- FourNodes
  Faulty <- OneFaulty
  Threshold = 3
  Contents = {a, b}
  Timestamp <- Timestamps
  OutputCount = 1
  Order <- OneOutput
  ListLimit = 1
  NoContent = NoContent
  NoEvent = NoEvent
SYMMETRY Symmetry
SPECIFICATION Spec
INVARIANTS Agreement Authentic PendingUntilSigned

SPECIFICATION FairAxlSpec
CONSTANTS
  Nodes = {n1, n2}
  Sends = 2
  TotalSends = 3
  MaxTimeouts = 1
INVARIANTS
  AxlTypeOK
  OnceAndInOrder
  OkMeansArrived
PROPERTIES
  EverySendIsAnswered

SPECIFICATION FairDemoSpec
CONSTANTS
  Requests = {r1, r2}
  MaxForeign = 2
  MaxFaults = 2
INVARIANTS
  DemoTypeOK
  WorkIsOneToOne
  VerifiedMeansDone
PROPERTIES
  AnsweredOrRobbed
CHECK_DEADLOCK FALSE

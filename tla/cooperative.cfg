SPECIFICATION FairSpec
CONSTANTS
  N = 4
  MaxRows = 3
PROPERTIES AllFinish ImplementsRoundRobin

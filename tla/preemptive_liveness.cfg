SPECIFICATION FairSpec
CONSTANTS
  N = 2
  Rows = 2
  Endless = {1}
PROPERTIES WorkersFinish NoStarvation

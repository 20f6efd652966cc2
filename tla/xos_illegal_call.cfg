SPECIFICATION FairSpec
CONSTANTS
  KTop = 3
  Words = {1, 3}
  Numbers = {0, 1, 2, 3}
  MaxCalls = 3
PROPERTIES IllegalCallsReturn

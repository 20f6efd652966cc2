SPECIFICATION FairSpec
CONSTANTS
  Top = 3
  Words = {1, 3}
  Numbers = {0, 1, 7}
  MaxCalls = 3
  MaxTicks = 3
INVARIANTS ProgramUndisturbed StopsWhereItShould
PROPERTIES TicksShown

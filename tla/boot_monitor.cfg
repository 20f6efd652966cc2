SPECIFICATION FairSpec
CONSTANTS
  Keys = {202, 203, 211, 212, 213, 214, 215}
  Queued = {202}
  Size = 4
  MaxDump = 2
  Ram = {0}
  Half = 4
  Top = 4
  FifoDepth = 2
  Values = {1}
INVARIANTS SupervisorUndisturbed ScreenShowsLine ShownIsTrue
PROPERTIES EveryCharacterHandled ProgramResumes

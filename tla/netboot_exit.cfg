SPECIFICATION Spec
CONSTANTS
  Blocks <- MCBlocks
  Retries = 5
  TargetName = "device"
  MaxFaults = 4
  SeqWrap = 12
INVARIANT ExitMeansStarted

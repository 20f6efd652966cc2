SPECIFICATION FairSpec
CONSTANTS
  Blocks <- MCBlocks
  Retries = 5
  TargetName = "device"
  MaxFaults = 4
  SeqWrap = 12
INVARIANTS AckedIsWritten ExecIsComplete NoOldRequests
PROPERTIES HostEnds BootsEventually

SPECIFICATION FairSpec
CONSTANTS
  Shapes <- MCShapes
  Frames <- MCFrames
  MaxFrames = 4
INVARIANTS OwnBytesOnly RepliesExact
PROPERTIES AllAnswered

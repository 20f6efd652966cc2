SPECIFICATION Spec
CONSTANTS
  N = 3
  Rows = 2
  Endless = {}
INVARIANTS TypeOK RingConsistent NoZombie OwnStack PictureCorrect
PROPERTIES SuspendedUntouched ImplementsRoundRobin

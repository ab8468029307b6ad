SPECIFICATION FairSystemSpec
CONSTANTS
  p1 = p1
  p2 = p2
  p3 = p3
  NoPose = NoPose
  Poses <- MCTwoPoses
  ReleaseAfter = 1
  JoypadDepth = 1
  CounterModulus = 2
  MaxSeq = 0
  MaxTime = 2
  MaxMalformed = 0
  MaxBurst = 0
  JointCount = 2
  Rest = Rest
  MaxHalts = 1
INVARIANTS
  FreezeLag
  StandsInOnePose
PROPERTIES
  FreezeHolds
  FreezeSettles

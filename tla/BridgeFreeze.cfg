SPECIFICATION FairSpec
CONSTANTS
  p1 = p1
  p2 = p2
  NoPose = NoPose
  Poses <- MCTwoPoses
  ReleaseAfter = 2
  JoypadDepth = 1
  CounterModulus = 2
  MaxSeq = 0
  MaxTime = 3
  MaxMalformed = 0
  MaxBurst = 1
INVARIANT FreezeInv
PROPERTIES
  StreamYieldsToPress
  NoReplay
  PressTakesHold
  ImplementsFreeze
  StreamResumes

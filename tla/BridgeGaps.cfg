SPECIFICATION Spec
CONSTANTS
  p1 = p1
  p2 = p2
  NoPose = NoPose
  Poses <- MCOnePose
  ReleaseAfter = 1
  JoypadDepth = 1
  CounterModulus = 2
  MaxSeq = 3
  MaxTime = 1
  MaxMalformed = 1
  MaxBurst = 0
INVARIANT TypeOK
PROPERTIES
  GapReportSound
  HandoverReported

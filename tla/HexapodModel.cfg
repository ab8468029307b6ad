SPECIFICATION MCSpec
CONSTANTS
  LegCount = 4
  Size = 3
  Ground <- MCGround
  Keys <- MCKeys
  Scripts <- MCScripts
  Sound <- MCSound
  NotFinite = NotFinite
  Nothing = Nothing
  Bodies <- MCBodies
  Poses <- MCPoses
  Aims <- MCAims
INVARIANTS
  SignIsStability
  MarginIsClearance
  FeetLandOnTarget
  JointsComeBack
  JacobianIsVelocity
PROPERTIES
  AnotherFootHelps
  NamesTheFault

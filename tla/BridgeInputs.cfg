SPECIFICATION InputsSpec
CONSTANTS
  Joints = {"", "L_coxaA", "R_coxaA"}
  NoName = ""
  Angles <- MCAngles
  NotFinite = NotFinite
  Nothing = Nothing
  MaxAngle = 1
  SchemaModulus = 4
  SchemaNumbers = {0, 1, 2, 5}
  SchemaFields <- MCSchemaFields
  SequenceFields <- MCSequenceFields
  UnitFields <- MCUnitFields
  JointFields <- MCJointFields
  MaxSequence = 2
  Pads <- MCPads
  Released <- MCReleased
  NotANumber = NotANumber
  FullScale = 2
  DeadZones <- MCDeadZones
  QueueDepth = 2
  RepeatEvery = 2
  ReleaseAfter = 3
  LastTick = 7
INVARIANTS
  AcceptsTheFormat
  SenderIsUnderstood
  OtherVersionIsNamed
  FrozenIffTouched

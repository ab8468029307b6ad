SPECIFICATION Spec
CONSTANTS
  Joints = {"", "L_coxaA", "R_coxaA"}
  NoName = ""
  Angles <- MCAngles
  NotFinite = NotFinite
  Nothing = Nothing
  MaxAngle = 1
  SchemaModulus = 4
  SchemaNumbers = {0, 1, 2, 5}
  SchemaFields <- MCSchemaFields
  SequenceFields <- MCSequenceFields
  UnitFields <- MCUnitFields
  JointFields <- MCJointFields
  MaxSequence = 2
INVARIANT UnknownSchemaRefused

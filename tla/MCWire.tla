------------------------------- MODULE MCWire -------------------------------
(* Small instances of WireFormat for TLC. *)
EXTENDS WireFormat

CONSTANT SchemaNumbers   \* the schema numbers that occur

(* Angles below, at both ends of and above the travel of 0 .. MaxAngle. *)
MCAngles == -1 .. MaxAngle + 1

MCSchemaFields ==
  {Absent, Value("negative", -1), Value("real", 1), Value("string", Nothing)}
    \cup {Value("unsigned", n) : n \in SchemaNumbers}

MCSequenceFields == {Absent, Value("unsigned", 1), Value("negative", -1)}

MCUnitFields == {Absent, Value("string", "deg"), Value("string", "rad")}

MCAngleFields ==
  {Value("real", angle) : angle \in MCAngles}
    \cup {Value("negative", -1), Value("unsigned", 1), Value("null", Nothing)}

MCJointFields ==
  {Absent, Value("string", Nothing)}
    \cup {Value("object", f) :
            f \in UNION {[names -> MCAngleFields] : names \in SUBSET Joints}}
=============================================================================

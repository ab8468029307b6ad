----------------------------- MODULE WireFormat -----------------------------
(***************************************************************************)
(* The format of a pose on its way to the bridge: encoded by               *)
(* tools/hexapod_pose_sender.py or by WireFormat::Encode, decoded by       *)
(* WireFormat::Decode (hexapod_bridge/src/wire_format.cc).                 *)
(*                                                                         *)
(* A payload is the JSON document the parser makes of its bytes: a form    *)
(* and, if it is an object, four fields.  Every value carries its kind,    *)
(* as JSON values do.  Angles are integers of some unit; NotFinite stands  *)
(* for NaN and the infinities.                                             *)
(***************************************************************************)
EXTENDS Integers, Sequences, FiniteSets

CONSTANTS
  Joints,         \* names a joint may be given
  NoName,         \* the empty string, one of them
  Angles,         \* angles a pose may ask for
  NotFinite,      \* an angle that is not finite
  Nothing,        \* the content of what is absent, null or not looked into
  MaxAngle,       \* kMaxAngleDegree
  SchemaModulus,  \* JointPose::schema wraps here (2^32 in the code)
  SchemaFields,   \* the fields other programs may send
  SequenceFields,
  UnitFields,
  JointFields,
  MaxSequence     \* bound on the poses one sender sends

ASSUME WireAssumption ==
  /\ NoName \in Joints
  /\ Angles \subseteq Int
  /\ NotFinite \notin Int
  /\ MaxAngle \in Nat
  /\ SchemaModulus \in Nat \ {0, 1}
  /\ MaxSequence \in Nat

SchemaVersion == 1   \* kSchemaVersion and SCHEMA_VERSION
MinAngle == 0        \* kMinAngleDegree and MIN_ANGLE_DEGREE

VARIABLES
  sequence,   \* PoseSender._sequence
  asked,      \* the pose the last payload was made of, if a sender made one
  payload,    \* the document on the wire
  pose        \* what Decode made of it

vars == <<sequence, asked, payload, pose>>

-----------------------------------------------------------------------------
(* Documents *)

Value(kind, content) == [kind |-> kind, value |-> content]
Absent == Value("absent", Nothing)

Object(schema, seq, units, joints) ==
  [form |-> "object", schema |-> schema, seq |-> seq, units |-> units,
   joints |-> joints]

(* Nothing, bytes that are not JSON, or JSON that is not an object. *)
Formless(form) ==
  [Object(Absent, Absent, Absent, Absent) EXCEPT !.form = form]

Numbers == {"unsigned", "negative", "real"}

(* What a JSON parser can make of a field: a value with its kind, whose    *)
(* content fits the kind as far as Decode looks into it.                   *)
IsField(field) ==
  /\ field = Value(field.kind, field.value)
  /\ field.kind = "unsigned" => field.value \in Nat
  /\ field.kind = "object" =>
       \A n \in DOMAIN field.value :
         field.value[n].kind \in Numbers => field.value[n].value \in Int

ASSUME FieldsAssumption ==
  \A field \in SchemaFields \cup SequenceFields \cup UnitFields \cup JointFields :
    IsField(field)

-----------------------------------------------------------------------------
(* PoseSender *)

(* A pose in Python: joint |-> a value of kind int, float, bool or str. *)
Finite(angle) == angle.value # NotFinite

(* Mutant: math.isfinite is not asked. *)
ValidateWithoutFinite(joints) ==
  /\ DOMAIN joints # {}
  /\ \A name \in DOMAIN joints :
       /\ name # NoName
       /\ joints[name].kind \in {"int", "float"}
       /\ Finite(joints[name]) => joints[name].value \in MinAngle .. MaxAngle

Validate(joints) ==
  /\ DOMAIN joints # {}
  /\ \A name \in DOMAIN joints :
       /\ name # NoName
       /\ joints[name].kind \in {"int", "float"}
       /\ Finite(joints[name])
       /\ joints[name].value \in MinAngle .. MaxAngle

(* json.dumps writes a float that is not finite as a bare word, which no   *)
(* JSON parser reads.                                                      *)
EncodeInPython(joints, seq) ==
  IF \E name \in DOMAIN joints : ~Finite(joints[name])
  THEN Formless("text")
  ELSE Object(Value("unsigned", SchemaVersion), Value("unsigned", seq),
              Value("string", "deg"),
              Value("object",
                    [n \in DOMAIN joints |-> Value("real", joints[n].value)]))

-----------------------------------------------------------------------------
(* WireFormat *)

(* Encode: neither names nor angles are checked, the schema is this        *)
(* build's whatever the pose says, and dump() writes null for an angle     *)
(* that is not finite.  Of a name given twice the last angle stays.        *)
Encode(names, degrees, seq) ==
  LET last(name) ==
        CHOOSE i \in 1 .. Len(names) :
          names[i] = name /\ \A j \in i + 1 .. Len(names) : names[j] # name
      number(angle) ==
        IF angle = NotFinite THEN Value("null", Nothing)
        ELSE Value("real", angle)
  IN  Object(Value("unsigned", SchemaVersion), Value("unsigned", seq),
             Value("string", "deg"),
             Value("object",
                   [n \in {names[i] : i \in 1 .. Len(names)} |->
                      number(degrees[last(n)])]))

Narrowed(n) == n % SchemaModulus

Undecoded == [accepted |-> FALSE, field |-> "none"]
Rejected(field) == [accepted |-> FALSE, field |-> field]

(* Mutant: the upper end of the travel is refused. *)
BadJointAtTheEnd(name, angle) ==
  \/ name = NoName
  \/ angle.kind \notin Numbers
  \/ angle.value \notin MinAngle .. MaxAngle - 1

(* Whether the loop over the joints throws at this one.  A number the      *)
(* parser returns is finite: it discards documents that overflow a double. *)
BadJoint(name, angle) ==
  \/ name = NoName
  \/ angle.kind \notin Numbers
  \/ angle.value \notin MinAngle .. MaxAngle

Decoded(doc) ==
  [accepted |-> TRUE, field |-> "none",
   schema |-> Narrowed(doc.schema.value),
   sequence |-> IF doc.seq.kind = "unsigned" THEN doc.seq.value ELSE 0,
   degrees |-> [n \in DOMAIN doc.joints.value |-> doc.joints.value[n].value]]

(* What is wrong with a document, field by field.  The schema number is    *)
(* narrowed before it is compared; the sequence number is never wrong.     *)
Wrong(doc) ==
  [document |-> doc.form # "object",
   schema   |-> \/ doc.schema.kind # "unsigned"
                \/ Narrowed(doc.schema.value) # SchemaVersion,
   units    |-> doc.units.kind # "string" \/ doc.units.value # "deg",
   joints   |-> \/ doc.joints.kind # "object"
                \/ DOMAIN doc.joints.value = {}
                \/ \E n \in DOMAIN doc.joints.value :
                     BadJoint(n, doc.joints.value[n])]

(* Mutant: the units are looked at before the schema. *)
ChecksUnitsFirst == <<"document", "units", "schema", "joints">>

Checks == <<"document", "schema", "units", "joints">>

(* Every check throws, so the first that fails names the field. *)
Decode(doc) ==
  IF \E i \in 1 .. Len(Checks) : Wrong(doc)[Checks[i]]
  THEN Rejected(Checks[CHOOSE i \in 1 .. Len(Checks) :
                         /\ Wrong(doc)[Checks[i]]
                         /\ \A j \in 1 .. i - 1 : ~Wrong(doc)[Checks[j]]])
  ELSE Decoded(doc)

-----------------------------------------------------------------------------
(* Who sends, and the bridge that decodes *)

NoPose == [n \in {} |-> Nothing]
Quiet == Formless("nothing")

Init ==
  /\ sequence = 0
  /\ asked = NoPose
  /\ payload = Quiet
  /\ pose = Undecoded

(* The values Python code may put into a pose. *)
PythonValues ==
  [kind : {"int", "float"}, value : Angles] \cup
  {Value("float", NotFinite), Value("bool", 1), Value("str", Nothing)}

PythonPoses == UNION {[names -> PythonValues] : names \in SUBSET Joints}

(* send(): what does not pass validate() raises, and is not counted. *)
Send(joints) ==
  /\ sequence < MaxSequence
  /\ Validate(joints)
  /\ payload' = EncodeInPython(joints, sequence)
  /\ sequence' = sequence + 1
  /\ asked' = joints
  /\ UNCHANGED pose

(* A sender written against WireFormat::Encode, which throws when the two  *)
(* vectors differ in length.                                               *)
SendEncoded(names, degrees) ==
  /\ Len(names) = Len(degrees)
  /\ payload' = Encode(names, degrees, sequence)
  /\ asked' = NoPose
  /\ UNCHANGED <<sequence, pose>>

SendAnything(doc) ==
  /\ payload' = doc
  /\ asked' = NoPose
  /\ UNCHANGED <<sequence, pose>>

Receive ==
  /\ payload # Quiet
  /\ pose = Undecoded
  /\ pose' = Decode(payload)
  /\ UNCHANGED <<sequence, asked, payload>>

(* The bridge has done with the payload; the next one may come. *)
Finish ==
  /\ pose # Undecoded
  /\ payload' = Quiet
  /\ asked' = NoPose
  /\ pose' = Undecoded
  /\ UNCHANGED sequence

Vectors(S) == UNION {[1 .. n -> S] : n \in 0 .. 2}

(* One payload is on the wire at a time: Decode keeps nothing of the last. *)
Next ==
  \/ /\ payload = Quiet
     /\ \/ \E joints \in PythonPoses : Send(joints)
        \/ \E names \in Vectors(Joints),
              degrees \in Vectors(Angles \cup {NotFinite}) :
             SendEncoded(names, degrees)
        \/ \E form \in {"empty", "text", "array"} : SendAnything(Formless(form))
        \/ \E s \in SchemaFields, q \in SequenceFields,
              u \in UnitFields, j \in JointFields : SendAnything(Object(s, q, u, j))
  \/ Receive
  \/ Finish

Spec == Init /\ [][Next]_vars

-----------------------------------------------------------------------------
(* Properties *)

(* The format as documented (doc/zeromq-bridge.md, "The message format"    *)
(* and "What is validated").                                               *)
KnownSchema(doc) == doc.schema = Value("unsigned", SchemaVersion)

Documented(doc) ==
  /\ doc.form = "object"
  /\ KnownSchema(doc)
  /\ doc.units = Value("string", "deg")
  /\ doc.joints.kind = "object"
  /\ DOMAIN doc.joints.value # {}
  /\ \A n \in DOMAIN doc.joints.value :
       /\ n # NoName
       /\ doc.joints.value[n].kind \in Numbers
       /\ MinAngle <= doc.joints.value[n].value
       /\ doc.joints.value[n].value <= MaxAngle

(* Exactly the documented payloads are accepted, as long as their schema   *)
(* number fits the field it is read into.                                  *)
AcceptsTheFormat ==
  /\ pose # Undecoded
  /\ payload.schema.kind = "unsigned" => payload.schema.value < SchemaModulus
  => (pose.accepted <=> Documented(payload))

(* What the Python sender lets through arrives: the two programs agree on  *)
(* the format, on every joint and its angle, and on the sequence number.   *)
(* The sender's checks may be stricter than the bridge's, never laxer.     *)
SenderIsUnderstood ==
  asked # NoPose /\ pose # Undecoded =>
    /\ pose.accepted
    /\ pose.sequence = sequence - 1
    /\ pose.degrees = [n \in DOMAIN asked |-> asked[n].value]

(* A sender that speaks another version is told so, whatever else this     *)
(* build makes of its fields (wire_format.cc:72).                          *)
OtherVersionIsNamed ==
  /\ pose # Undecoded
  /\ payload.form = "object"
  /\ payload.schema.kind = "unsigned"
  /\ payload.schema.value \in 0 .. SchemaModulus - 1 \ {SchemaVersion}
  => pose.field = "schema"

(* doc/zeromq-bridge.md:86 and wire_format.h:96 say that a version this    *)
(* build does not know is refused; one whose lowest bits are the known     *)
(* version's is not.                                                       *)
UnknownSchemaRefused == pose.accepted => KnownSchema(payload)

=============================================================================

----------------------------- MODULE InputProofs -----------------------------
(***************************************************************************)
(* Theorems about the two ways into the bridge.                            *)
(*                                                                         *)
(* WireFormat, for every modulus, travel, set of joints and set of fields  *)
(* other programs may send.  WireInv says what a payload looks like, that  *)
(* a pose is what Decode makes of the payload, and which payload a         *)
(* sender's pose has become.  Everything else is what Decode does with one *)
(* document.                                                               *)
(*                                                                         *)
(* Joypad: the stream is frozen while the operator touches the pad and by  *)
(* nothing else, for every pad, dead zone, depth of the queues, period of  *)
(* the driver and timeout.                                                 *)
(***************************************************************************)
EXTENDS WireFormat, Joypad, SequenceTheorems, FiniteSetTheorems, TLAPS

(* A document the parser can produce. *)
IsDocument(doc) ==
  /\ IsField(doc.schema)
  /\ IsField(doc.units)
  /\ IsField(doc.joints)

Asked ==
  asked # NoPose =>
    /\ asked \in PythonPoses
    /\ Validate(asked)
    /\ sequence \in Nat \ {0}
    /\ payload = EncodeInPython(asked, sequence - 1)

WireInv ==
  /\ sequence \in Nat
  /\ IsDocument(payload)
  /\ payload = Quiet => pose = Undecoded
  /\ pose # Undecoded => pose = Decode(payload)
  /\ Asked

-----------------------------------------------------------------------------
(* What Decode does with one document *)

(* Nothing is wrong with a document that is decoded. *)
Accepts(doc) == \A i \in 1 .. 4 : ~Wrong(doc)[Checks[i]]

LEMMA DecodeCases ==
  ASSUME NEW doc
  PROVE  /\ Decode(doc).accepted <=> Accepts(doc)
         /\ Accepts(doc) => Decode(doc) = Decoded(doc)
<1>1. Len(Checks) = 4
  BY DEF Checks
<1>2. CASE \E i \in 1 .. Len(Checks) : Wrong(doc)[Checks[i]]
  BY <1>1, <1>2 DEF Decode, Rejected, Accepts
<1>3. CASE ~\E i \in 1 .. Len(Checks) : Wrong(doc)[Checks[i]]
  BY <1>1, <1>3 DEF Decode, Decoded, Accepts
<1> QED
  BY <1>2, <1>3

LEMMA AcceptsByField ==
  ASSUME NEW doc
  PROVE  Accepts(doc) <=> /\ ~Wrong(doc).document
                          /\ ~Wrong(doc).schema
                          /\ ~Wrong(doc).units
                          /\ ~Wrong(doc).joints
<1>1. /\ Checks[1] = "document"
      /\ Checks[2] = "schema"
      /\ Checks[3] = "units"
      /\ Checks[4] = "joints"
  BY DEF Checks
<1>2. 1 .. 4 = {1, 2, 3, 4}
  OBVIOUS
<1> QED
  BY <1>1, <1>2 DEF Accepts, Wrong

(* A number below the modulus is not changed by narrowing it. *)
LEMMA NarrowedIsIdentity ==
  ASSUME NEW n \in Nat, n < SchemaModulus
  PROVE  Narrowed(n) = n
BY WireAssumption DEF Narrowed

LEMMA AcceptsDocumented ==
  ASSUME NEW doc, IsDocument(doc),
         doc.schema.kind = "unsigned" => doc.schema.value < SchemaModulus
  PROVE  Accepts(doc) <=> Documented(doc)
<1>1. ~Wrong(doc).document <=> doc.form = "object"
  BY DEF Wrong
<1>2. ~Wrong(doc).schema <=> KnownSchema(doc)
  <2>1. CASE doc.schema.kind = "unsigned"
    <3>1. Narrowed(doc.schema.value) = doc.schema.value
      BY <2>1, NarrowedIsIdentity DEF IsDocument, IsField
    <3> QED
      BY <2>1, <3>1 DEF Wrong, KnownSchema, IsDocument, IsField, Value
  <2>2. CASE doc.schema.kind # "unsigned"
    BY <2>2 DEF Wrong, KnownSchema, Value
  <2> QED
    BY <2>1, <2>2
<1>3. ~Wrong(doc).units <=> doc.units = Value("string", "deg")
  <2>1. ~Wrong(doc).units <=> doc.units.kind = "string" /\ doc.units.value = "deg"
    BY DEF Wrong
  <2>2. doc.units = Value(doc.units.kind, doc.units.value)
    BY DEF IsDocument, IsField
  <2>3. doc.units = Value("string", "deg") =>
          doc.units.kind = "string" /\ doc.units.value = "deg"
    BY DEF Value
  <2> QED
    BY <2>1, <2>2, <2>3
<1>4. ~Wrong(doc).joints <=>
        /\ doc.joints.kind = "object"
        /\ DOMAIN doc.joints.value # {}
        /\ \A n \in DOMAIN doc.joints.value :
             /\ n # NoName
             /\ doc.joints.value[n].kind \in Numbers
             /\ MinAngle <= doc.joints.value[n].value
             /\ doc.joints.value[n].value <= MaxAngle
  BY WireAssumption DEF Wrong, BadJoint, IsDocument, IsField, MinAngle
<1> QED
  BY <1>1, <1>2, <1>3, <1>4, AcceptsByField DEF Documented

(* Of several wrong fields the version is the one named. *)
LEMMA SchemaIsNamed ==
  ASSUME NEW doc, doc.form = "object", Wrong(doc).schema
  PROVE  Decode(doc).field = "schema"
<1>1. Len(Checks) = 4 /\ Checks[1] = "document" /\ Checks[2] = "schema"
  BY DEF Checks
<1>2. ~Wrong(doc)[Checks[1]] /\ Wrong(doc)[Checks[2]]
  <2>1. ~Wrong(doc).document
    BY DEF Wrong
  <2> QED
    BY <1>1, <2>1, Zenon
<1> DEFINE First(i) == /\ Wrong(doc)[Checks[i]]
                       /\ \A j \in 1 .. i - 1 : ~Wrong(doc)[Checks[j]]
<1>3. First(2)
  BY <1>2
<1>4. \A i \in 1 .. Len(Checks) : First(i) => i = 2
  <2> SUFFICES ASSUME NEW i \in 1 .. Len(Checks), First(i), i # 2
               PROVE  FALSE
    OBVIOUS
  <2>1. CASE i = 1
    BY <1>2, <2>1
  <2>2. CASE i # 1
    <3>1. 2 \in 1 .. i - 1
      BY <2>2, <1>1
    <3> QED
      BY <3>1, <1>2
  <2> QED
    BY <2>1, <2>2
<1>5. (CHOOSE i \in 1 .. Len(Checks) : First(i)) = 2
  <2> HIDE DEF First
  <2> QED
    BY <1>1, <1>3, <1>4
<1>6. \E i \in 1 .. Len(Checks) : Wrong(doc)[Checks[i]]
  BY <1>1, <1>2
<1>7. Decode(doc) = Rejected(Checks[2])
  BY <1>5, <1>6 DEF Decode
<1> QED
  BY <1>1, <1>7 DEF Rejected

(* The document the Python sender makes of a pose it lets through. *)
LEMMA SenderDocument ==
  ASSUME NEW joints \in PythonPoses, Validate(joints), NEW seq \in Nat
  PROVE  /\ IsDocument(EncodeInPython(joints, seq))
         /\ EncodeInPython(joints, seq) # Quiet
         /\ Decode(EncodeInPython(joints, seq)).accepted
         /\ Decode(EncodeInPython(joints, seq)).sequence = seq
         /\ Decode(EncodeInPython(joints, seq)).degrees =
              [n \in DOMAIN joints |-> joints[n].value]
<1> DEFINE angles == [n \in DOMAIN joints |-> Value("real", joints[n].value)]
           doc == Object(Value("unsigned", SchemaVersion), Value("unsigned", seq),
                         Value("string", "deg"), Value("object", angles))
<1>1. EncodeInPython(joints, seq) = doc
  BY DEF EncodeInPython, Validate
<1>2. /\ DOMAIN angles = DOMAIN joints
      /\ DOMAIN angles # {}
      /\ \A n \in DOMAIN angles :
           /\ n # NoName
           /\ angles[n].kind = "real"
           /\ angles[n].value = joints[n].value
           /\ angles[n].value \in MinAngle .. MaxAngle
  BY DEF Validate, Value
<1>3. /\ doc.form = "object"
      /\ doc.schema = Value("unsigned", SchemaVersion)
      /\ doc.seq = Value("unsigned", seq)
      /\ doc.units = Value("string", "deg")
      /\ doc.joints = Value("object", angles)
  BY DEF Object
<1>4. doc # Quiet
  BY <1>3 DEF Quiet, Formless, Object
<1>5. /\ IsField(doc.schema) /\ doc.schema.kind = "unsigned"
      /\ doc.schema.value = 1
  BY <1>3 DEF IsField, Value, SchemaVersion
<1>6. IsField(doc.units)
  BY <1>3 DEF IsField, Value
<1>7. doc.joints.kind = "object" /\ doc.joints.value = angles
  BY <1>3 DEF Value
<1> HIDE DEF angles
<1>8. IsField(doc.joints)
  <2>1. doc.joints = Value(doc.joints.kind, doc.joints.value)
    BY <1>3 DEF Value
  <2>2. \A n \in DOMAIN angles : angles[n].value \in Int
    BY <1>2, WireAssumption DEF MinAngle
  <2> QED
    BY <2>1, <2>2, <1>7 DEF IsField
<1> HIDE DEF doc
<1>9. IsDocument(doc)
  BY <1>5, <1>6, <1>8 DEF IsDocument
<1>10. Documented(doc)
  <2>1. \A n \in DOMAIN angles :
          /\ angles[n].kind \in Numbers
          /\ MinAngle <= angles[n].value
          /\ angles[n].value <= MaxAngle
    BY <1>2, WireAssumption DEF MinAngle, Numbers
  <2>2. KnownSchema(doc)
    BY <1>3 DEF KnownSchema
  <2> QED
    BY <1>2, <1>3, <1>7, <2>1, <2>2 DEF Documented
<1>11. Accepts(doc)
  BY <1>5, <1>9, <1>10, AcceptsDocumented, WireAssumption
<1>12. Decode(doc) = Decoded(doc) /\ Decode(doc).accepted
  BY <1>11, DecodeCases
<1>13. Decoded(doc).sequence = seq
  BY <1>3 DEF Decoded, Value
<1>14. Decoded(doc).degrees = [n \in DOMAIN joints |-> joints[n].value]
  BY <1>2, <1>7 DEF Decoded
<1> QED
  BY <1>1, <1>4, <1>9, <1>12, <1>13, <1>14

(* Whatever WireFormat::Encode is given, it makes a document. *)
LEMMA EncodeMakesDocuments ==
  ASSUME NEW names \in Vectors(Joints),
         NEW degrees \in Vectors(Angles \cup {NotFinite}),
         Len(names) = Len(degrees), NEW seq \in Nat
  PROVE  /\ IsDocument(Encode(names, degrees, seq))
         /\ Encode(names, degrees, seq) # Quiet
<1> DEFINE Last(name) ==
             CHOOSE i \in 1 .. Len(names) :
               names[i] = name /\ \A j \in i + 1 .. Len(names) : names[j] # name
           Number(angle) == IF angle = NotFinite THEN Value("null", Nothing)
                            ELSE Value("real", angle)
           angles == [n \in {names[i] : i \in 1 .. Len(names)} |->
                        Number(degrees[Last(n)])]
           doc == Object(Value("unsigned", SchemaVersion), Value("unsigned", seq),
                         Value("string", "deg"), Value("object", angles))
<1>1. Encode(names, degrees, seq) = doc
  BY DEF Encode
<1>2. PICK k \in 0 .. 2 : names \in [1 .. k -> Joints]
  BY DEF Vectors
<1>3. PICK m \in 0 .. 2 : degrees \in [1 .. m -> Angles \cup {NotFinite}]
  BY DEF Vectors
<1>4. Len(names) = k /\ Len(degrees) = m
  BY <1>2, <1>3
<1>5. ASSUME NEW i \in 1 .. Len(names)
      PROVE  Last(names[i]) \in 1 .. Len(names)
  <2> DEFINE IsLast(l) == /\ names[l] = names[i]
                          /\ \A j \in l + 1 .. Len(names) : names[j] # names[i]
  <2>1. \E l \in 1 .. Len(names) : IsLast(l)
    <3>1. k \in {1, 2}
      BY <1>4
    <3>2. CASE k = 1
      BY <1>4, <3>2
    <3>3. CASE k = 2
      <4>1. CASE names[2] = names[i]
        BY <1>4, <3>3, <4>1
      <4>2. CASE names[2] # names[i]
        <5>1. i = 1
          BY <1>4, <3>3, <4>2
        <5>2. 2 .. Len(names) = {2}
          BY <1>4, <3>3
        <5> QED
          BY <1>4, <3>3, <4>2, <5>1, <5>2
      <4> QED
        BY <4>1, <4>2
    <3> QED
      BY <3>1, <3>2, <3>3
  <2> HIDE DEF IsLast
  <2>2. (CHOOSE l \in 1 .. Len(names) : IsLast(l)) \in 1 .. Len(names)
    BY <2>1
  <2> QED
    BY <2>2 DEF IsLast
<1>6. \A n \in DOMAIN angles : angles[n].kind \in Numbers => angles[n].value \in Int
  <2> SUFFICES ASSUME NEW n \in DOMAIN angles, angles[n].kind \in Numbers
               PROVE  angles[n].value \in Int
    OBVIOUS
  <2>1. PICK i \in 1 .. Len(names) : n = names[i]
    OBVIOUS
  <2> DEFINE angle == degrees[Last(n)]
  <2> HIDE DEF Last
  <2>2. angles[n] = Number(angle)
    OBVIOUS
  <2>3. angle \in Angles \cup {NotFinite}
    BY <1>3, <1>4, <1>5, <2>1
  <2> HIDE DEF angles, angle
  <2>4. CASE angle = NotFinite
    BY <2>2, <2>4 DEF Numbers, Value
  <2>5. CASE angle # NotFinite
    <3>1. angles[n] = Value("real", angle)
      BY <2>2, <2>5
    <3>2. angles[n].value = angle
      BY <3>1 DEF Value
    <3> QED
      BY <3>2, <2>3, <2>5, WireAssumption
  <2> QED
    BY <2>4, <2>5
<1> HIDE DEF angles
<1>7. /\ IsField(doc.schema) /\ IsField(doc.units) /\ doc # Quiet
  BY DEF Object, IsField, Value, SchemaVersion, Quiet, Formless
<1>8. IsField(doc.joints)
  <2>1. doc.joints = Value("object", angles)
    BY DEF Object
  <2> QED
    BY <2>1, <1>6 DEF Value, IsField
<1> QED
  BY <1>1, <1>7, <1>8 DEF IsDocument

LEMMA FormlessIsDocument ==
  ASSUME NEW form
  PROVE  /\ IsDocument(Formless(form))
         /\ Formless(form).form = form
<1>1. /\ Formless(form).schema = Absent
      /\ Formless(form).units = Absent
      /\ Formless(form).joints = Absent
      /\ Formless(form).form = form
  BY DEF Formless, Object
<1>2. IsField(Absent)
  BY DEF IsField, Absent, Value
<1> QED
  BY <1>1, <1>2 DEF IsDocument

-----------------------------------------------------------------------------
(* The invariant *)

LEMMA InitWireInv == Init => WireInv
BY FormlessIsDocument DEF Init, WireInv, Asked, Quiet

LEMMA NextWireInv == WireInv /\ [Next]_vars => WireInv'
<1> SUFFICES ASSUME WireInv, [Next]_vars
             PROVE  WireInv'
  OBVIOUS
<1>1. ASSUME NEW joints \in PythonPoses, payload = Quiet, Send(joints)
      PROVE  WireInv'
  <2>1. /\ Validate(joints) /\ asked' = joints /\ pose' = pose
        /\ sequence' = sequence + 1
        /\ payload' = EncodeInPython(joints, sequence)
    BY <1>1 DEF Send
  <2>2. sequence \in Nat /\ pose = Undecoded
    BY <1>1 DEF WireInv
  <2>3. IsDocument(payload') /\ payload' # Quiet
    BY <2>1, <2>2, SenderDocument
  <2>4. sequence' \in Nat \ {0} /\ sequence' - 1 = sequence
    BY <2>1, <2>2
  <2>5. Asked'
    BY <2>1, <2>4 DEF Asked
  <2> QED
    BY <2>1, <2>2, <2>3, <2>4, <2>5 DEF WireInv
<1>2. ASSUME NEW names \in Vectors(Joints),
             NEW degrees \in Vectors(Angles \cup {NotFinite}),
             payload = Quiet, SendEncoded(names, degrees)
      PROVE  WireInv'
  <2>1. IsDocument(payload') /\ payload' # Quiet
    BY <1>2, EncodeMakesDocuments DEF SendEncoded, WireInv
  <2> QED
    BY <1>2, <2>1 DEF SendEncoded, WireInv, Asked
<1>3. ASSUME NEW form \in {"empty", "text", "array"}, payload = Quiet,
             SendAnything(Formless(form))
      PROVE  WireInv'
  <2>1. IsDocument(payload')
    BY <1>3, FormlessIsDocument DEF SendAnything
  <2> QED
    BY <1>3, <2>1 DEF SendAnything, WireInv, Asked
<1>4. ASSUME NEW s \in SchemaFields, NEW q \in SequenceFields,
             NEW u \in UnitFields, NEW j \in JointFields, payload = Quiet,
             SendAnything(Object(s, q, u, j))
      PROVE  WireInv'
  <2>1. IsDocument(Object(s, q, u, j))
    BY FieldsAssumption DEF IsDocument, Object
  <2> QED
    BY <1>4, <2>1 DEF SendAnything, WireInv, Asked
<1>5. CASE Receive
  BY <1>5 DEF Receive, WireInv, Asked
<1>6. CASE Finish
  BY <1>6, FormlessIsDocument DEF Finish, WireInv, Asked, Quiet
<1>7. CASE UNCHANGED vars
  BY <1>7 DEF vars, WireInv, Asked
<1> QED
  BY <1>1, <1>2, <1>3, <1>4, <1>5, <1>6, <1>7 DEF Next

(* The invariant of the exchange: a payload is a document, a pose is what  *)
(* Decode makes of it, and a sender's payload is the one made of its pose. *)
THEOREM WireInvariant == Spec => []WireInv
BY InitWireInv, NextWireInv, PTL DEF Spec

(* Exactly the documented payloads are accepted (wire_format.cc:57-132).   *)
THEOREM FormatAccepted == Spec => []AcceptsTheFormat
<1>1. WireInv => AcceptsTheFormat
  <2> SUFFICES ASSUME WireInv, pose # Undecoded,
                      payload.schema.kind = "unsigned" =>
                        payload.schema.value < SchemaModulus
               PROVE  pose.accepted <=> Documented(payload)
    BY DEF AcceptsTheFormat
  <2> QED
    BY DecodeCases, AcceptsDocumented DEF WireInv
<1> QED
  BY <1>1, WireInvariant, PTL

(* What the Python sender lets through arrives unchanged                   *)
(* (hexapod_pose_sender.py:142-198, wire_format.cc:57-132).                *)
THEOREM SenderUnderstood == Spec => []SenderIsUnderstood
<1>1. WireInv => SenderIsUnderstood
  <2> SUFFICES ASSUME WireInv, asked # NoPose, pose # Undecoded
               PROVE  /\ pose.accepted
                      /\ pose.sequence = sequence - 1
                      /\ pose.degrees = [n \in DOMAIN asked |-> asked[n].value]
    BY DEF SenderIsUnderstood
  <2>1. asked \in PythonPoses /\ Validate(asked)
    BY DEF WireInv, Asked
  <2>2. pose = Decode(EncodeInPython(asked, sequence - 1))
    BY DEF WireInv, Asked
  <2>3. sequence - 1 \in Nat
    BY DEF WireInv, Asked
  <2> QED
    BY <2>1, <2>2, <2>3, SenderDocument
<1> QED
  BY <1>1, WireInvariant, PTL

(* A sender of another version is told that it is the version              *)
(* (wire_format.cc:72-86).                                                 *)
THEOREM VersionNamed == Spec => []OtherVersionIsNamed
<1>1. WireInv => OtherVersionIsNamed
  <2> SUFFICES ASSUME WireInv, pose # Undecoded, payload.form = "object",
                      payload.schema.kind = "unsigned",
                      payload.schema.value \in 0 .. SchemaModulus - 1 \ {SchemaVersion}
               PROVE  pose.field = "schema"
    BY DEF OtherVersionIsNamed
  <2>1. Narrowed(payload.schema.value) = payload.schema.value
    BY NarrowedIsIdentity, WireAssumption
  <2>2. Wrong(payload).schema
    BY <2>1 DEF Wrong
  <2> QED
    BY <2>2, SchemaIsNamed DEF WireInv
<1> QED
  BY <1>1, WireInvariant, PTL

-----------------------------------------------------------------------------
(* The operator's touch *)

Positions == Int \cup {NotANumber}

(* The values a press may have, and the samples of a stick.                *)
Values == Int \ {0}

Samples == [x : Positions, y : Positions]

JoyTypeOK ==
  /\ deadZone \in Positions /\ Permitted(deadZone)
  /\ pad \in Pads
  /\ publishedAt \in Nat
  /\ clock \in publishedAt .. publishedAt + RepeatEvery
  /\ joy \in Seq(Pads)
  /\ presses \in Seq(Values)
  /\ deflections \in Seq(Samples)
  /\ policy \in Policies
  /\ touchedAt \in -1 .. clock

Pushes == \E k \in DOMAIN deflections : IsPush(deflections[k])

(* The touch of the pad published last is on its way, or it is noted.      *)
Noted == policy.engaged /\ policy.lastActivity >= publishedAt

TouchInv ==
  /\ joy # <<>> => joy = <<pad>> /\ presses = <<>> /\ deflections = <<>>
  /\ ~Through => clock = publishedAt
  /\ Touched(pad) => /\ touchedAt = publishedAt
                     /\ joy # <<>> \/ presses # <<>> \/ Pushes \/ Noted
  /\ presses # <<>> \/ Pushes => Touched(pad)
  /\ policy.engaged => policy.lastActivity <= touchedAt

-----------------------------------------------------------------------------
(* The pads. *)

LEMMA PadType ==
  ASSUME NEW p \in Pads
  PROVE  /\ p.axes \in Seq(Positions) /\ p.buttons \in Seq(Int)
         /\ Len(p.axes) \in Nat
         /\ DOMAIN p.axes = 1 .. Len(p.axes)
         /\ \A i \in DOMAIN p.axes : p.axes[i] \in Positions
         /\ Len(p.buttons) \in Nat
         /\ DOMAIN p.buttons = 1 .. Len(p.buttons)
         /\ \A b \in DOMAIN p.buttons : p.buttons[b] \in Int
<1>1. p.axes \in Seq(Positions) /\ p.buttons \in Seq(Int)
  BY JoypadAssumption DEF Positions
<1>2. /\ Len(p.axes) \in Nat /\ DOMAIN p.axes = 1 .. Len(p.axes)
      /\ \A i \in DOMAIN p.axes : p.axes[i] \in Positions
  BY <1>1, LenProperties, ElementOfSeq
<1>3. /\ Len(p.buttons) \in Nat /\ DOMAIN p.buttons = 1 .. Len(p.buttons)
      /\ \A b \in DOMAIN p.buttons : p.buttons[b] \in Int
  BY <1>1, LenProperties, ElementOfSeq
<1>4. QED
  BY <1>1, <1>2, <1>3

LEMMA SameSquare == \A a \in Int : (-a) * (-a) = a * a
OBVIOUS

(* Nobody touches a released pad.                                          *)
LEMMA ReleasedUntouched ==
  ASSUME deadZone \in Positions, Permitted(deadZone)
  PROVE  ~ Touched(Released)
<1>1. \A b \in DOMAIN Released.buttons : Released.buttons[b] = 0
  BY JoypadAssumption
<1>2. ASSUME Len(Released.axes) >= 6, deadZone # NotANumber
      PROVE  ~ Outside(Released.axes, 1, 2) /\ ~ Outside(Released.axes, 4, 5)
  <2>1. DOMAIN Released.axes = 1 .. Len(Released.axes) /\ Len(Released.axes) \in Nat
    BY PadType, JoypadAssumption
  <2>2. {1, 2, 4, 5} \subseteq DOMAIN Released.axes
    BY <1>2, <2>1
  <2>3. /\ Released.axes[1] = 0 /\ Released.axes[2] = 0
        /\ Released.axes[4] = 0 /\ Released.axes[5] = 0
    BY <2>2, JoypadAssumption
  <2>4. deadZone \in Nat
    BY <1>2 DEF Permitted, Positions
  <2> DEFINE zone == deadZone * deadZone
  <2>5. zone \in Nat
    BY <2>4
  <2>6. 0 * 0 + 0 * 0 = 0
    OBVIOUS
  <2>7. Outside(Released.axes, 1, 2) => 0 * 0 + 0 * 0 > zone
    BY <2>3 DEF Outside
  <2>8. Outside(Released.axes, 4, 5) => 0 * 0 + 0 * 0 > zone
    BY <2>3 DEF Outside
  <2> HIDE DEF zone
  <2>9. ~ (0 * 0 + 0 * 0 > zone)
    BY <2>5, <2>6
  <2>10. QED
    BY <2>7, <2>8, <2>9
<1>3. QED
  BY <1>1, <1>2 DEF Touched

-----------------------------------------------------------------------------
(* The topics. *)

(* A topic that drops the oldest samples keeps at least one.               *)
LEMMA LastOfType ==
  ASSUME NEW S, NEW q \in Seq(S)
  PROVE  /\ LastOf(q) \in Seq(S)
         /\ LastOf(q) = <<>> <=> q = <<>>
         /\ Len(q) <= QueueDepth => LastOf(q) = q
<1>1. CASE Len(q) <= QueueDepth
  BY <1>1 DEF LastOf
<1>2. CASE ~ (Len(q) <= QueueDepth)
  <2> DEFINE n == Len(q)
             m == n - QueueDepth + 1
             r == SubSeq(q, m, n)
  <2>1. n \in Nat /\ QueueDepth \in Nat \ {0, 1} /\ DOMAIN q = 1 .. n
    BY LenProperties, JoypadAssumption
  <2>2. m \in Nat /\ 1 <= m /\ m <= n
    BY <1>2, <2>1
  <2>3. \A i \in m .. n : q[i] \in S
    BY <2>1, <2>2, ElementOfSeq
  <2>4. LastOf(q) = r
    BY <1>2 DEF LastOf
  <2> HIDE DEF n, m
  <2>5. r \in Seq(S) /\ Len(r) = IF m <= n THEN n - m + 1 ELSE 0
    BY <2>1, <2>2, <2>3, SubSeqProperties
  <2> HIDE DEF r
  <2>6. Len(r) # 0
    BY <2>1, <2>2, <2>5
  <2>7. r # <<>> /\ q # <<>>
    BY <1>2, <2>1, <2>6, EmptySeq DEF n
  <2>8. QED
    BY <1>2, <2>4, <2>5, <2>7
<1>3. QED
  BY <1>1, <1>2

(* The presses of a message are the values of its buttons that are down:   *)
(* there is one if any button is.                                          *)
LEMMA PressesType ==
  ASSUME NEW p \in Pads, NEW order \in Orders(p.buttons)
  PROVE  LET q == [k \in DOMAIN order |-> p.buttons[order[k]]] IN
         /\ q \in Seq(Values)
         /\ q # <<>> <=> \E b \in DOMAIN p.buttons : p.buttons[b] # 0
<1> DEFINE D == Down(p.buttons)
           n == Cardinality(D)
           q == [k \in DOMAIN order |-> p.buttons[order[k]]]
<1>1. DOMAIN p.buttons = 1 .. Len(p.buttons) /\ Len(p.buttons) \in Nat
  BY PadType
<1>2. IsFiniteSet(D) /\ n \in Nat /\ (n = 0 <=> D = {})
  <2>1. IsFiniteSet(1 .. Len(p.buttons))
    BY <1>1, FS_Interval
  <2>2. D \subseteq 1 .. Len(p.buttons)
    BY <1>1 DEF Down
  <2>3. IsFiniteSet(D)
    BY <2>1, <2>2, FS_Subset
  <2>4. QED
    BY <2>3, FS_CardinalityType, FS_EmptySet
<1>3. order \in [1 .. n -> D]
  BY DEF Orders
<1>4. \A b \in D : p.buttons[b] \in Values
  BY PadType DEF Down, Values
<1>5. (\E b \in DOMAIN p.buttons : p.buttons[b] # 0) <=> D # {}
  BY DEF Down
<1> HIDE DEF D, n
<1>6. q \in Seq(Values) /\ Len(q) = n
  BY <1>2, <1>3, <1>4
<1> HIDE DEF q
<1>7. q # <<>> <=> n # 0
  BY <1>6, EmptySeq
<1>8. QED
  BY <1>2, <1>5, <1>6, <1>7 DEF q

(* The sticks of a message, as the node publishes them: one of them is a   *)
(* push if the operator means it.                                          *)
LEMMA DeflectionsType ==
  ASSUME NEW p \in Pads, Len(p.axes) >= 6, deadZone \in Positions
  PROVE  LET q == LastOf([i \in 1 .. 2 |-> Deflection(p.axes, Sticks[i])]) IN
         /\ q \in Seq(Samples)
         /\ (\E k \in DOMAIN q : IsPush(q[k])) <=>
              /\ deadZone # NotANumber
              /\ Outside(p.axes, 1, 2) \/ Outside(p.axes, 4, 5)
<1> DEFINE r == [i \in 1 .. 2 |-> Deflection(p.axes, Sticks[i])]
           q == LastOf(r)
<1>1. /\ p.axes[1] \in Positions /\ p.axes[2] \in Positions
      /\ p.axes[4] \in Positions /\ p.axes[5] \in Positions
  <2>1. DOMAIN p.axes = 1 .. Len(p.axes) /\ Len(p.axes) \in Nat
    BY PadType
  <2>2. {1, 2, 4, 5} \subseteq DOMAIN p.axes
    BY <2>1
  <2>3. QED
    BY <2>2, PadType
<1>2. /\ r[1] = [x |-> Mirrored(p.axes[1]), y |-> p.axes[2]]
      /\ r[2] = [x |-> Mirrored(p.axes[4]), y |-> p.axes[5]]
  <2>1. Sticks[1][1] + 1 = 1 /\ Sticks[1][2] + 1 = 2
    BY DEF Sticks
  <2>2. Sticks[2][1] + 1 = 4 /\ Sticks[2][2] + 1 = 5
    BY DEF Sticks
  <2>3. r[1] = Deflection(p.axes, Sticks[1]) /\ r[2] = Deflection(p.axes, Sticks[2])
    OBVIOUS
  <2>4. QED
    BY <2>1, <2>2, <2>3 DEF Deflection
<1>3. NotANumber \notin Int
  BY JoypadAssumption
<1>4. ASSUME NEW x \in Positions, NEW y \in Positions
      PROVE  LET d == [x |-> Mirrored(x), y |-> y] IN
             /\ d \in Samples
             /\ IsPush(d) <=>
                  /\ deadZone # NotANumber /\ {x, y} \cap {NotANumber} = {}
                  /\ x * x + y * y > deadZone * deadZone
  <2> DEFINE d == [x |-> Mirrored(x), y |-> y]
  <2>1. d.x = Mirrored(x) /\ d.y = y
    OBVIOUS
  <2>2. Mirrored(x) \in Positions /\ (Mirrored(x) = NotANumber <=> x = NotANumber)
    BY <1>3 DEF Mirrored, Positions
  <2>3. d \in Samples
    BY <2>2 DEF Samples
  <2> HIDE DEF d
  <2>4. CASE x = NotANumber \/ y = NotANumber
    <3>1. ~ IsPush(d)
      BY <2>1, <2>2, <2>4 DEF IsPush, IsFinite
    <3>2. NotANumber \in {x, y} \cap {NotANumber}
      BY <2>4
    <3>3. QED
      BY <2>3, <3>1, <3>2 DEF d
  <2>5. CASE x # NotANumber /\ y # NotANumber
    <3>1. x \in Int /\ y \in Int /\ Mirrored(x) = -x
      BY <2>5 DEF Positions, Mirrored
    <3>2. Magnitude(d) = x * x + y * y
      BY <2>1, <3>1, SameSquare DEF Magnitude
    <3>3. IsFinite(d)
      BY <2>1, <2>2, <2>5 DEF IsFinite
    <3>4. QED
      BY <2>3, <2>5, <3>2, <3>3 DEF IsPush, d
  <2>6. QED
    BY <2>3, <2>4, <2>5 DEF d
<1>5. r[1] \in Samples /\ r[2] \in Samples
  BY <1>1, <1>2, <1>4
<1>6. /\ IsPush(r[1]) <=> deadZone # NotANumber /\ Outside(p.axes, 1, 2)
      /\ IsPush(r[2]) <=> deadZone # NotANumber /\ Outside(p.axes, 4, 5)
  BY <1>1, <1>2, <1>4 DEF Outside
<1>7. DOMAIN r = 1 .. 2
  OBVIOUS
<1>8. r \in Seq(Samples) /\ Len(r) = 2
  <2>1. \A i \in 1 .. 2 : r[i] \in Samples
    <3> HIDE DEF r
    <3>1. \A i \in 1 .. 2 : i = 1 \/ i = 2
      OBVIOUS
    <3>2. QED
      BY <1>5, <3>1
  <2>2. r = [i \in 1 .. 2 |-> r[i]]
    OBVIOUS
  <2> HIDE DEF r
  <2>3. 2 \in Nat /\ r \in [1 .. 2 -> Samples]
    BY <2>1, <2>2
  <2>4. r \in Seq(Samples)
    BY <2>3, SeqDef
  <2>5. QED
    BY <1>7, <2>3, <2>4, LenProperties
<1> HIDE DEF r
<1>9. LastOf(r) = r
  <2>1. Len(r) <= QueueDepth
    BY <1>8, JoypadAssumption
  <2>2. QED
    BY <1>8, <2>1, LastOfType
<1>10. (\E k \in DOMAIN r : IsPush(r[k])) <=> IsPush(r[1]) \/ IsPush(r[2])
  <2>1. \A k \in DOMAIN r : k = 1 \/ k = 2
    BY <1>7
  <2>2. 1 \in DOMAIN r /\ 2 \in DOMAIN r
    BY <1>7
  <2>3. QED
    BY <2>1, <2>2
<1>11. QED
  BY <1>6, <1>8, <1>9, <1>10 DEF r


-----------------------------------------------------------------------------
(* The invariant holds. *)

(* The dead zone stays, so a touch and a push stay what they are.          *)
LEMMA SameZone ==
  ASSUME deadZone' = deadZone
  PROVE  /\ Touched(pad)' <=> Touched(pad')
         /\ Pushes' <=> \E k \in DOMAIN deflections' : IsPush(deflections'[k])
BY DEF Touched, Outside, Pushes, IsPush

LEMMA NothingPushes == deflections = <<>> => ~ Pushes
BY DEF Pushes

LEMMA JoyInitInv == JoyInit => JoyTypeOK /\ TouchInv
<1> SUFFICES ASSUME JoyInit PROVE JoyTypeOK /\ TouchInv
  OBVIOUS
<1>1. /\ deadZone \in Positions /\ Permitted(deadZone)
      /\ pad = Released /\ Released \in Pads /\ publishedAt = 0 /\ clock = 0
      /\ joy = <<>> /\ presses = <<>> /\ deflections = <<>>
      /\ policy = NewPolicy /\ touchedAt = -1
  BY JoypadAssumption DEF JoyInit, Positions
<1>2. policy \in Policies /\ ~ policy.engaged
  BY <1>1 DEF NewPolicy, Policies
<1>3. RepeatEvery \in Nat \ {0}
  BY JoypadAssumption
<1>4. ~ Touched(pad)
  BY <1>1, ReleasedUntouched
<1>5. JoyTypeOK
  BY <1>1, <1>2, <1>3 DEF JoyTypeOK
<1>6. TouchInv
  BY <1>1, <1>2, <1>4, NothingPushes DEF TouchInv, Through
<1>7. QED
  BY <1>5, <1>6

(* A pad that is published starts a new touch, or none.                    *)
LEMMA PublishPadInv ==
  ASSUME JoyTypeOK, TouchInv, NEW p \in Pads, PublishPad(p)
  PROVE  JoyTypeOK' /\ TouchInv'
<1>1. /\ pad' = p /\ joy' = <<p>> /\ publishedAt' = clock /\ clock' = clock
      /\ touchedAt' = IF Touched(p) THEN clock ELSE touchedAt
      /\ presses' = <<>> /\ deflections' = <<>> /\ policy' = policy
      /\ deadZone' = deadZone
  BY DEF PublishPad, Through
<1>2. clock \in Nat /\ touchedAt \in -1 .. clock /\ RepeatEvery \in Nat \ {0}
  BY JoypadAssumption DEF JoyTypeOK
<1>3. clock' \in publishedAt' .. publishedAt' + RepeatEvery /\ touchedAt' \in -1 .. clock'
  BY <1>1, <1>2
<1>4. JoyTypeOK'
  BY <1>1, <1>2, <1>3 DEF JoyTypeOK, Permitted
<1>5. (Touched(pad)' <=> Touched(p)) /\ ~ Pushes'
  BY <1>1, SameZone DEF Pushes
<1>6. policy.engaged => policy.lastActivity <= touchedAt'
  <2>1. policy.engaged => policy.lastActivity <= touchedAt /\ policy.lastActivity \in Nat
    BY DEF TouchInv, JoyTypeOK, Policies
  <2>2. QED
    BY <1>1, <1>2, <2>1
<1>7. TouchInv'
  BY <1>1, <1>5, <1>6 DEF TouchInv, Through
<1>8. QED
  BY <1>4, <1>7

(* The joypad node passes the touch on, and nothing else as one.           *)
LEMMA ControllerCallbackInv ==
  ASSUME JoyTypeOK, TouchInv, ControllerCallback
  PROVE  JoyTypeOK' /\ TouchInv'
<1>1. /\ joy = <<pad>> /\ Head(joy) = pad /\ pad \in Pads
      /\ presses = <<>> /\ deflections = <<>> /\ clock = publishedAt
  BY DEF ControllerCallback, TouchInv, JoyTypeOK, Through
<1>2. /\ joy' = <<>>
      /\ UNCHANGED <<deadZone, pad, publishedAt, clock, policy, touchedAt>>
  BY DEF ControllerCallback
<1>3. /\ presses' \in Seq(Values) /\ deflections' \in Seq(Samples)
      /\ Touched(pad)' <=> presses' # <<>> \/ Pushes'
  <2>1. CASE Len(pad.axes) < 6
    <3>1. presses' = <<>> /\ deflections' = <<>>
      BY <1>1, <2>1 DEF ControllerCallback, RequiredAxes
    <3>2. ~ Touched(pad)
      <4>1. Len(pad.axes) \in Nat
        BY <1>1, PadType
      <4>2. QED
        BY <2>1, <4>1 DEF Touched
    <3>3. ~ Pushes'
      BY <3>1 DEF Pushes
    <3>4. QED
      BY <1>2, <3>1, <3>2, <3>3, SameZone
  <2>2. CASE ~ (Len(pad.axes) < 6)
    <3> DEFINE samples == LastOf([i \in 1 .. 2 |-> Deflection(pad.axes, Sticks[i])])
    <3>1. /\ \E order \in Orders(pad.buttons) :
               presses' = LastOf([k \in DOMAIN order |-> pad.buttons[order[k]]])
          /\ deflections' = samples
      BY <1>1, <2>2 DEF ControllerCallback, RequiredAxes
    <3>2. Len(pad.axes) >= 6
      <4>1. Len(pad.axes) \in Nat
        BY <1>1, PadType
      <4>2. QED
        BY <2>2, <4>1
    <3>3. deadZone \in Positions
      BY DEF JoyTypeOK
    <3>4. /\ samples \in Seq(Samples)
          /\ (\E k \in DOMAIN samples : IsPush(samples[k])) <=>
               /\ deadZone # NotANumber
               /\ Outside(pad.axes, 1, 2) \/ Outside(pad.axes, 4, 5)
      BY <1>1, <3>2, <3>3, DeflectionsType
    <3> HIDE DEF samples
    <3>5. PICK order \in Orders(pad.buttons) :
            presses' = LastOf([k \in DOMAIN order |-> pad.buttons[order[k]]])
      BY <3>1
    <3> DEFINE values == [k \in DOMAIN order |-> pad.buttons[order[k]]]
    <3>6. /\ values \in Seq(Values)
          /\ values # <<>> <=> \E b \in DOMAIN pad.buttons : pad.buttons[b] # 0
      BY <1>1, PressesType
    <3>7. presses' = LastOf(values)
      BY <3>5
    <3> HIDE DEF values
    <3>8. /\ presses' \in Seq(Values)
          /\ presses' # <<>> <=> \E b \in DOMAIN pad.buttons : pad.buttons[b] # 0
      BY <3>6, <3>7, LastOfType
    <3>9. Pushes' <=> /\ deadZone # NotANumber
                      /\ Outside(pad.axes, 1, 2) \/ Outside(pad.axes, 4, 5)
      BY <1>2, <3>1, <3>4, SameZone
    <3>10. Touched(pad) <=> presses' # <<>> \/ Pushes'
      BY <3>2, <3>8, <3>9 DEF Touched
    <3>11. Touched(pad)' <=> Touched(pad)
      BY <1>2, SameZone
    <3>12. QED
      BY <3>1, <3>4, <3>8, <3>10, <3>11
  <2>3. QED
    BY <2>1, <2>2
<1>4. JoyTypeOK'
  <2>1. <<>> \in Seq(Pads)
    OBVIOUS
  <2>2. QED
    BY <1>2, <1>3, <2>1 DEF JoyTypeOK, Permitted
<1>5. TouchInv'
  <2>1. Touched(pad)' <=> Touched(pad)
    BY <1>2, SameZone
  <2>2. Touched(pad)' => touchedAt' = publishedAt'
    BY <1>2, <2>1 DEF TouchInv
  <2>3. policy'.engaged => policy'.lastActivity <= touchedAt'
    BY <1>2 DEF TouchInv
  <2>4. QED
    BY <1>1, <1>2, <1>3, <2>2, <2>3 DEF TouchInv
<1>6. QED
  BY <1>4, <1>5

(* A touch that reaches the bridge is noted at the moment of its pad.      *)
LEMMA NoteTouch ==
  ASSUME JoyTypeOK, TouchInv, ~ Through, Touched(pad), joy = <<>>,
         policy' = NoteJoypadActivity(policy, clock),
         UNCHANGED <<deadZone, pad, publishedAt, clock, joy, touchedAt>>,
         presses' \in Seq(Values), deflections' \in Seq(Samples)
  PROVE  JoyTypeOK' /\ TouchInv'
<1>1. clock = publishedAt /\ touchedAt = publishedAt /\ clock \in Nat
  BY DEF TouchInv, JoyTypeOK
<1>2. policy' \in Policies /\ policy'.engaged /\ policy'.lastActivity = clock
  BY <1>1 DEF NoteJoypadActivity, Policies, JoyTypeOK
<1>3. JoyTypeOK'
  BY <1>2 DEF JoyTypeOK, Permitted
<1>4. Touched(pad)' /\ Noted'
  BY <1>1, <1>2, SameZone DEF Noted
<1>5. TouchInv'
  BY <1>1, <1>2, <1>4 DEF TouchInv
<1>6. QED
  BY <1>3, <1>5

LEMMA OnPressInv ==
  ASSUME JoyTypeOK, TouchInv, OnPress
  PROVE  JoyTypeOK' /\ TouchInv'
<1>1. /\ presses # <<>> /\ presses' = Tail(presses) /\ presses \in Seq(Values)
      /\ UNCHANGED <<deadZone, pad, publishedAt, clock, joy, deflections, touchedAt>>
      /\ deflections \in Seq(Samples)
  BY DEF OnPress, JoyTypeOK
<1>2. Head(presses) \in Values /\ Tail(presses) \in Seq(Values)
  BY <1>1, HeadTailProperties
<1>3. policy' = NoteJoypadActivity(policy, clock)
  BY <1>2 DEF OnPress, Values
<1>4. ~ Through /\ Touched(pad) /\ joy = <<>>
  BY <1>1 DEF TouchInv, Through
<1>5. QED
  BY <1>1, <1>2, <1>3, <1>4, NoteTouch

LEMMA OnDeflectionInv ==
  ASSUME JoyTypeOK, TouchInv, OnDeflection
  PROVE  JoyTypeOK' /\ TouchInv'
<1> DEFINE q == deflections
<1>1. /\ q # <<>> /\ deflections' = Tail(q) /\ q \in Seq(Samples)
      /\ UNCHANGED <<deadZone, pad, publishedAt, clock, joy, presses, touchedAt>>
      /\ presses \in Seq(Values)
  BY DEF OnDeflection, JoyTypeOK
<1>2. /\ Tail(q) \in Seq(Samples) /\ Len(Tail(q)) = Len(q) - 1
      /\ Len(q) \in Nat \ {0} /\ DOMAIN q = 1 .. Len(q)
      /\ DOMAIN Tail(q) = 1 .. Len(q) - 1 /\ Head(q) = q[1]
      /\ \A k \in 1 .. Len(q) - 1 : Tail(q)[k] = q[k + 1]
  BY <1>1, HeadTailProperties, EmptySeq, LenProperties
<1>3. joy = <<>> /\ ~ Through
  BY <1>1 DEF TouchInv, Through
<1>4. CASE IsPush(Head(q))
  <2>1. Pushes
    <3>1. 1 \in DOMAIN q
      BY <1>2
    <3>2. QED
      BY <1>2, <1>4, <3>1 DEF Pushes
  <2>2. Touched(pad)
    BY <2>1 DEF TouchInv
  <2>3. policy' = NoteJoypadActivity(policy, clock)
    BY <1>4 DEF OnDeflection
  <2>4. QED
    BY <1>1, <1>2, <1>3, <2>2, <2>3, NoteTouch
<1>5. CASE ~ IsPush(Head(q))
  <2>1. policy' = policy
    BY <1>5 DEF OnDeflection
  <2>2. Pushes' <=> Pushes
    <3>1. Pushes' <=> \E k \in DOMAIN Tail(q) : IsPush(Tail(q)[k])
      BY <1>1, SameZone
    <3>2. ASSUME NEW k \in DOMAIN Tail(q), IsPush(Tail(q)[k]) PROVE Pushes
      <4>1. k + 1 \in DOMAIN q /\ q[k + 1] = Tail(q)[k]
        BY <1>2
      <4>2. QED
        BY <3>2, <4>1 DEF Pushes
    <3>3. ASSUME NEW k \in DOMAIN q, IsPush(q[k])
          PROVE  \E j \in DOMAIN Tail(q) : IsPush(Tail(q)[j])
      <4>1. k # 1
        BY <1>2, <1>5, <3>3
      <4>2. k - 1 \in DOMAIN Tail(q) /\ (k - 1) + 1 = k
        BY <1>2, <4>1
      <4>3. Tail(q)[k - 1] = q[k]
        BY <1>2, <4>2
      <4>4. QED
        BY <3>3, <4>2, <4>3
    <3>4. QED
      BY <3>1, <3>2, <3>3 DEF Pushes
  <2>3. JoyTypeOK'
    BY <1>1, <1>2, <2>1 DEF JoyTypeOK, Permitted
  <2>4. Touched(pad)' <=> Touched(pad)
    BY <1>1, SameZone
  <2>5. Noted' <=> Noted
    BY <1>1, <2>1 DEF Noted
  <2>6. clock' = publishedAt'
    BY <1>1, <1>3 DEF TouchInv
  <2>7. QED
    BY <1>1, <1>3, <2>1, <2>2, <2>3, <2>4, <2>5, <2>6 DEF TouchInv
<1>6. QED
  BY <1>4, <1>5

(* Time passes only once the touch is noted, and not past a repetition.    *)
LEMMA PassTimeInv ==
  ASSUME JoyTypeOK, TouchInv, PassTime
  PROVE  JoyTypeOK' /\ TouchInv'
<1>1. /\ Through /\ clock' = clock + 1 /\ clock - publishedAt < RepeatEvery
      /\ UNCHANGED <<deadZone, pad, publishedAt, joy, presses, deflections, policy,
                     touchedAt>>
  BY DEF PassTime
<1>2. /\ clock \in publishedAt .. publishedAt + RepeatEvery /\ publishedAt \in Nat
      /\ RepeatEvery \in Nat \ {0} /\ touchedAt \in -1 .. clock
  BY JoypadAssumption DEF JoyTypeOK
<1>3. /\ clock' \in publishedAt .. publishedAt + RepeatEvery
      /\ touchedAt \in -1 .. clock'
  BY <1>1, <1>2
<1>4. JoyTypeOK'
  BY <1>1, <1>3 DEF JoyTypeOK, Permitted
<1>5. (Touched(pad)' <=> Touched(pad)) /\ (Pushes' <=> Pushes) /\ (Noted' <=> Noted)
  BY <1>1, SameZone DEF Noted, Pushes
<1>6. TouchInv'
  BY <1>1, <1>5 DEF TouchInv, Through
<1>7. QED
  BY <1>4, <1>6

LEMMA JoyNextInv ==
  JoyTypeOK /\ TouchInv /\ [JoyNext]_joypadVars => JoyTypeOK' /\ TouchInv'
<1> SUFFICES ASSUME JoyTypeOK, TouchInv, [JoyNext]_joypadVars
             PROVE  JoyTypeOK' /\ TouchInv'
  OBVIOUS
<1>1. CASE UNCHANGED joypadVars
  BY <1>1 DEF joypadVars, JoyTypeOK, TouchInv, Permitted, Touched, Outside, Pushes,
     IsPush, Noted, Through
<1>2. QED
  BY <1>1, PublishPadInv, ControllerCallbackInv, OnPressInv, OnDeflectionInv,
     PassTimeInv DEF JoyNext

(* The stream is frozen for as long as the operator holds the pad, however *)
(* still it is held, provided the driver repeats more often than the       *)
(* override lapses; and while it is frozen the last touch is less than the *)
(* timeout ago: neither a worn stick, a trigger, a release, an incomplete  *)
(* message nor a queue that overflows freezes it or lets it go.            *)
THEOREM JoypadFreezesIffTouched == JoySpec => []FrozenIffTouched
<1>1. JoyTypeOK /\ TouchInv => FrozenIffTouched
  <2> SUFFICES ASSUME JoyTypeOK, TouchInv, Through PROVE
        /\ Touched(pad) /\ RepeatEvery < ReleaseAfter => OverrideActive(policy, clock)
        /\ OverrideActive(policy, clock) =>
             touchedAt >= 0 /\ clock - touchedAt < ReleaseAfter
    BY DEF FrozenIffTouched
  <2>1. /\ clock \in publishedAt .. publishedAt + RepeatEvery /\ publishedAt \in Nat
        /\ RepeatEvery \in Nat /\ ReleaseAfter \in Nat /\ touchedAt \in -1 .. clock
        /\ policy.lastActivity \in Nat
    BY JoypadAssumption, ReleaseAfterAssumption DEF JoyTypeOK, Policies
  <2>2. Touched(pad) => policy.engaged /\ policy.lastActivity >= publishedAt
    BY NothingPushes DEF TouchInv, Through, Noted
  <2>3. policy.engaged => policy.lastActivity <= touchedAt
    BY DEF TouchInv
  <2>4. QED
    BY <2>1, <2>2, <2>3 DEF OverrideActive
<1>2. QED
  BY JoyInitInv, JoyNextInv, <1>1, PTL DEF JoySpec

=============================================================================

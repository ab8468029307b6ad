---------------------------- MODULE ModelProofs ----------------------------
(***************************************************************************)
(* Theorems about HexapodModel: what the node says of a script, and what   *)
(* the model it builds of a complete one promises a planner.               *)
(***************************************************************************)
EXTENDS HexapodModel, LegProofs

-----------------------------------------------------------------------------
(* The items of a leg *)

Items == {"entry", "geometry", "mount"} \cup GeometryFields \cup MountFields

LEMMA ItemsAre ==
  /\ Len(LegItems) = 15
  /\ \A item \in 1 .. 15 : LegItems[item] \in Items
  /\ \A name \in Items : \E item \in 1 .. 15 : LegItems[item] = name
  /\ \A item \in 1 .. 15 : LegItems[item] \in MountFields => item > 11
  /\ LegItems[11] = "mount"
<1>1. /\ LegItems[1] = "entry" /\ LegItems[2] = "coxa_length"
      /\ LegItems[3] = "femur_length" /\ LegItems[4] = "tibia_length"
      /\ LegItems[5] = "lateral_offset" /\ LegItems[6] = "tibia_offset"
      /\ LegItems[7] = "sigma_coxa" /\ LegItems[8] = "joint_min"
      /\ LegItems[9] = "joint_max" /\ LegItems[10] = "geometry"
      /\ LegItems[11] = "mount" /\ LegItems[12] = "x"
      /\ LegItems[13] = "y" /\ LegItems[14] = "z" /\ LegItems[15] = "yaw"
  BY DEF LegItems
<1>2. Len(LegItems) = 15
  BY DEF LegItems
<1>6. \A item \in 1 .. 15 : LegItems[item] \in Items
  BY <1>1 DEF Items, GeometryFields, LengthFields, AngleFields, MountFields
<1>3. \A name \in Items : \E item \in 1 .. 15 : LegItems[item] = name
  BY <1>1 DEF Items, GeometryFields, LengthFields, AngleFields, MountFields
<1>4. \A item \in 1 .. 15 : LegItems[item] \in MountFields => item > 11
  BY <1>1 DEF MountFields
<1>5. QED
  BY <1>1, <1>2, <1>3, <1>4, <1>6

(* What it is for each item to throw. *)
LEMMA ThrowsIs ==
  ASSUME NEW legs, NEW key
  PROVE  /\ Throws(legs, key, "entry") <=> key \notin DOMAIN legs
         /\ \A item \in GeometryFields :
              Throws(legs, key, item) <=> NoNumber(legs[key], item)
         /\ Throws(legs, key, "geometry") <=> ~IsUsable(legs[key])
         /\ Throws(legs, key, "mount") <=> "mount" \notin DOMAIN legs[key]
         /\ \A item \in MountFields :
              Throws(legs, key, item) <=> NoNumber(legs[key].mount, item)
<1>1. Throws(legs, key, "entry") <=> key \notin DOMAIN legs
  BY DEF Throws, GeometryFields, LengthFields, AngleFields, MountFields
<1>2. \A item \in GeometryFields :
        Throws(legs, key, item) <=> NoNumber(legs[key], item)
  BY DEF Throws, GeometryFields, LengthFields, AngleFields, MountFields
<1>3. Throws(legs, key, "geometry") <=> ~IsUsable(legs[key])
  BY DEF Throws, GeometryFields, LengthFields, AngleFields, MountFields
<1>4. Throws(legs, key, "mount") <=> "mount" \notin DOMAIN legs[key]
  BY DEF Throws, GeometryFields, LengthFields, AngleFields, MountFields
<1>5. \A item \in MountFields :
        Throws(legs, key, item) <=> NoNumber(legs[key].mount, item)
  BY DEF Throws, GeometryFields, LengthFields, AngleFields, MountFields
<1>6. QED
  BY <1>1, <1>2, <1>3, <1>4, <1>5

Readable == script.result = "returned" /\ script.legs # Nothing

LEMMA ThrowsOrComplete ==
  ASSUME Readable, NEW leg \in LegIndices
  PROVE  ~LegThrows(leg) <=> LegIsComplete(Keys[leg])
<1> DEFINE key == Keys[leg]
           table == script.legs[key]
<1>1. ~LegThrows(leg) <=> \A item \in Items : ~Throws(script.legs, key, item)
  BY ItemsAre DEF LegThrows, ItemThrows
<1>2. (\A item \in Items : ~Throws(script.legs, key, item))
        <=> /\ key \in DOMAIN script.legs
            /\ \A item \in GeometryFields : ~NoNumber(table, item)
            /\ IsUsable(table)
            /\ "mount" \in DOMAIN table
            /\ \A item \in MountFields : ~NoNumber(table.mount, item)
  BY ThrowsIs DEF Items
<1>3. LegIsComplete(key) <=> key \in DOMAIN script.legs /\ Complete(table)
  BY DEF LegIsComplete, Readable
<1>4. QED
  BY <1>1, <1>2, <1>3 DEF Complete, NoNumber

-----------------------------------------------------------------------------
(* What the exception names *)

(* The first leg to throw, at its first item that does. *)
LEMMA FirstIs ==
  ASSUME NEW some \in LegIndices, LegThrows(some)
  PROVE  /\ FirstLeg \in LegIndices /\ LegThrows(FirstLeg)
         /\ \A leg \in 1 .. FirstLeg - 1 : ~LegThrows(leg)
         /\ \E item \in 1 .. 15 :
              /\ FirstItem(FirstLeg) = LegItems[item]
              /\ ItemThrows(FirstLeg, item)
              /\ \A earlier \in 1 .. item - 1 : ~ItemThrows(FirstLeg, earlier)
<1> DEFINE first == FirstLeg
           Failing == {leg \in LegIndices : LegThrows(leg)}
           Throwing == {item \in 1 .. 15 : ItemThrows(first, item)}
<1>0. Len(Keys) \in Nat /\ LegIndices = 1 .. Len(Keys)
  BY ModelAssumption DEF LegIndices
<1>1. first \in LegIndices /\ LegThrows(first) /\ \A leg \in 1 .. first - 1 : ~LegThrows(leg)
  <2>1. PICK k \in Failing : \A l \in Failing : k <= l
    <3>1. Failing \subseteq Nat /\ Failing # {}
      BY <1>0
    <3> HIDE DEF Failing
    <3>2. QED
      BY <3>1, LeastNat
  <2>2. k \in 1 .. Len(Keys) /\ LegThrows(k) /\ \A l \in 1 .. k - 1 : ~LegThrows(l)
    BY <1>0, <2>1
  <2>3. first = CHOOSE n \in 1 .. Len(Keys) :
                  LegThrows(n) /\ \A l \in 1 .. n - 1 : ~LegThrows(l)
    BY DEF FirstLeg, FirstOf
  <2> HIDE DEF first
  <2>4. QED
    BY <1>0, <2>2, <2>3
<1>2. \E item \in 1 .. 15 :
        /\ FirstItem(first) = LegItems[item]
        /\ ItemThrows(first, item)
        /\ \A earlier \in 1 .. item - 1 : ~ItemThrows(first, earlier)
  <2> HIDE DEF first
  <2>1. PICK k \in Throwing : \A l \in Throwing : k <= l
    <3>1. Throwing \subseteq Nat /\ Throwing # {}
      BY <1>1, ItemsAre DEF LegThrows
    <3> HIDE DEF Throwing
    <3>2. QED
      BY <3>1, LeastNat
  <2>2. k \in 1 .. 15 /\ ItemThrows(first, k) /\ \A l \in 1 .. k - 1 : ~ItemThrows(first, l)
    BY <2>1
  <2> DEFINE least == CHOOSE n \in 1 .. 15 :
                        ItemThrows(first, n) /\ \A l \in 1 .. n - 1 : ~ItemThrows(first, l)
  <2>3. FirstItem(first) = LegItems[least]
    BY ItemsAre DEF FirstItem, FirstOf
  <2>4. /\ least \in 1 .. 15 /\ ItemThrows(first, least)
        /\ \A l \in 1 .. least - 1 : ~ItemThrows(first, l)
    BY <2>2
  <2> HIDE DEF least
  <2>5. QED
    BY <2>3, <2>4
<1>3. QED
  BY <1>1, <1>2

(* All that a complaint can be. *)
LEMMA ComplaintIs ==
  \/ ~Readable /\ Complaint = <<"script", "Legs">> /\ Complaint # Nothing
  \/ /\ Readable /\ Complaint = Nothing
     /\ \A leg \in LegIndices : ~LegThrows(leg)
  \/ /\ Readable /\ Complaint # Nothing
     /\ \E leg \in LegIndices, item \in 1 .. 15 :
          /\ Complaint = <<Keys[leg], LegItems[item]>>
          /\ Keys[leg] # "script"
          /\ ItemThrows(leg, item)
          /\ \A earlier \in 1 .. item - 1 : ~ItemThrows(leg, earlier)
          /\ LegThrows(leg)
          /\ \A other \in 1 .. leg - 1 : ~LegThrows(other)
<1>0. Nothing \notin Complaints
  BY ModelAssumption
<1>1. CASE ~Readable
  <2>1. Complaint = <<"script", "Legs">>
    BY <1>1 DEF Complaint, Readable
  <2>2. <<"script", "Legs">> \in Complaints
    BY DEF Complaints
  <2>3. QED
    BY <1>0, <1>1, <2>1, <2>2
<1>2. CASE Readable /\ \A leg \in LegIndices : ~LegThrows(leg)
  BY <1>2 DEF Complaint, Readable
<1>3. CASE Readable /\ ~ \A leg \in LegIndices : ~LegThrows(leg)
  <2>1. Complaint = <<Keys[FirstLeg], FirstItem(FirstLeg)>>
    BY <1>3 DEF Complaint, Readable
  <2>2. /\ FirstLeg \in LegIndices /\ LegThrows(FirstLeg)
        /\ \A leg \in 1 .. FirstLeg - 1 : ~LegThrows(leg)
        /\ \E item \in 1 .. 15 :
             /\ FirstItem(FirstLeg) = LegItems[item]
             /\ ItemThrows(FirstLeg, item)
             /\ \A earlier \in 1 .. item - 1 : ~ItemThrows(FirstLeg, earlier)
    BY <1>3, FirstIs
  <2>3. \A leg \in LegIndices : Keys[leg] \in STRING \ {"script"}
    BY ModelAssumption DEF LegIndices
  <2>4. \A leg \in LegIndices, item \in 1 .. 15 : <<Keys[leg], LegItems[item]>> \in Complaints
    BY ItemsAre DEF Complaints
  <2>5. QED
    BY <1>0, <1>3, <2>1, <2>2, <2>3, <2>4
<1>4. QED
  BY <1>1, <1>2, <1>3

-----------------------------------------------------------------------------
(* The node and its script *)

(* What the last complaint named is mended before the node starts again.   *)
FaultInv ==
  /\ {"result", "legs"} \subseteq DOMAIN script
  /\ node \in {"down", "spinning", "failed"}
  /\ node = "failed" => error = Complaint /\ error # Nothing
  /\ node = "down" =>
       \/ error = Nothing
       \/ error = <<"script", "Legs">> /\ script = Sound
       \/ \E key \in STRING \ {"script"}, item \in Items :
            error = <<key, item>> /\ ~Throws(script.legs, key, item)

LEMMA SoundIs ==
  /\ {"result", "legs"} \subseteq DOMAIN Sound
  /\ Sound.result = "returned" /\ Sound.legs # Nothing
  /\ \A leg \in LegIndices, item \in Items : ~Throws(Sound.legs, Keys[leg], item)
<1>1. \A leg \in LegIndices, item \in 1 .. 15 : ~Throws(Sound.legs, Keys[leg], LegItems[item])
  BY ModelAssumption, ItemsAre
<1>2. QED
  BY <1>1, ModelAssumption, ItemsAre DEF TypedScript

(* One item taken from the sound leg, and it does not throw again.         *)
LEMMA MendedItem ==
  ASSUME NEW table, NEW sound, NEW item \in Items \ {"entry"},
         item \in GeometryFields => ~NoNumber(sound, item),
         item = "geometry" =>
           IsUsable(sound) /\ GeometryFields \subseteq DOMAIN sound,
         item \in MountFields => /\ "mount" \in DOMAIN table
                                 /\ ~NoNumber(sound.mount, item)
  PROVE  LET mended == Mended(table, item, sound)
         IN  /\ item \in GeometryFields => ~NoNumber(mended, item)
             /\ item = "geometry" => IsUsable(mended)
             /\ item = "mount" => "mount" \in DOMAIN mended
             /\ item \in MountFields => ~NoNumber(mended.mount, item)
<1> DEFINE mended == Mended(table, item, sound)
<1>1. CASE item = "mount"
  <2>1. mended = Copied(sound, {"mount"}, table)
    BY <1>1 DEF Mended, GeometryFields, LengthFields, AngleFields, MountFields
  <2> HIDE DEF mended
  <2>2. "mount" \in DOMAIN mended
    BY <2>1 DEF Copied
  <2>3. QED
    BY <1>1, <2>2 DEF mended, GeometryFields, LengthFields, AngleFields, MountFields
<1>2. CASE item = "geometry"
  <2>1. mended = Copied(sound, GeometryFields, table)
    BY <1>2 DEF Mended, GeometryFields, LengthFields, AngleFields, MountFields
  <2> HIDE DEF mended
  <2>2. \A f \in GeometryFields : mended[f] = sound[f]
    BY <2>1 DEF Copied
  <2>3. IsUsable(mended)
    BY <1>2, <2>2 DEF IsUsable, GeometryFields, LengthFields, AngleFields
  <2>4. QED
    BY <1>2, <2>3 DEF mended, GeometryFields, LengthFields, AngleFields, MountFields
<1>3. CASE item \in GeometryFields
  <2>1. mended = Copied(sound, {item}, table)
    BY <1>3 DEF Mended, GeometryFields, LengthFields, AngleFields, MountFields
  <2> HIDE DEF mended
  <2>2. item \in DOMAIN mended /\ mended[item] = sound[item]
    BY <2>1 DEF Copied
  <2>3. ~NoNumber(mended, item)
    BY <1>3, <2>2 DEF NoNumber
  <2>4. QED
    BY <1>3, <2>3 DEF mended, GeometryFields, LengthFields, AngleFields, MountFields
<1>4. CASE item \in MountFields
  <2> DEFINE mount == Copied(sound.mount, {item}, table.mount)
  <2>1. mended = [table EXCEPT !.mount = mount]
    BY <1>4 DEF Mended, GeometryFields, LengthFields, AngleFields, MountFields
  <2> HIDE DEF mended, mount
  <2>2. mended.mount = mount
    BY <1>4, <2>1
  <2>3. item \in DOMAIN mount /\ mount[item] = sound.mount[item]
    BY DEF mount, Copied
  <2>4. ~NoNumber(mended.mount, item)
    BY <1>4, <2>2, <2>3 DEF NoNumber
  <2>5. QED
    BY <1>4, <2>4 DEF mended, GeometryFields, LengthFields, AngleFields, MountFields
<1>5. QED
  BY <1>1, <1>2, <1>3, <1>4 DEF Items

LEMMA FaultInit == ModelInit => FaultInv
<1> SUFFICES ASSUME ModelInit PROVE FaultInv
  OBVIOUS
<1>1. TypedScript(script)
  BY ModelAssumption DEF ModelInit
<1>2. QED
  BY <1>1 DEF ModelInit, FaultInv, TypedScript

LEMMA MendStep ==
  ASSUME FaultInv, Mend
  PROVE  FaultInv'
<1>1. /\ {"result", "legs"} \subseteq DOMAIN script
      /\ error = Complaint /\ error # Nothing
      /\ node' = "down" /\ error' = error
  BY DEF FaultInv, Mend
<1> DEFINE key == error[1]
           legs == script.legs
           mended == IF error[2] = "entry" THEN Copied(Sound.legs, {key}, legs)
                     ELSE [legs EXCEPT ![key] = Mended(@, error[2], Sound.legs[key])]
<1>2. CASE error = <<"script", "Legs">>
  <2>1. script' = Sound
    BY <1>2 DEF Mend
  <2>2. QED
    BY <1>1, <1>2, <2>1, SoundIs DEF FaultInv
<1>3. CASE error # <<"script", "Legs">>
  <2>1. PICK leg \in LegIndices, item \in 1 .. 15 :
          /\ error = <<Keys[leg], LegItems[item]>>
          /\ Keys[leg] # "script"
          /\ ItemThrows(leg, item)
          /\ \A earlier \in 1 .. item - 1 : ~ItemThrows(leg, earlier)
    BY <1>1, <1>3, ComplaintIs
  <2> DEFINE name == LegItems[item]
  <2>2. /\ key = Keys[leg] /\ error[2] = name /\ name \in Items
        /\ key \in STRING \ {"script"}
    BY <2>1, ItemsAre, ModelAssumption DEF LegIndices
  <2>3. script' = [script EXCEPT !.legs = mended]
    BY <2>1, <2>2 DEF Mend
  <2>4. ~Throws(mended, key, name)
    <3>1. \A other \in Items : ~Throws(Sound.legs, key, other)
      BY <2>2, SoundIs
    <3>2. CASE name = "entry"
      <4>1. mended = Copied(Sound.legs, {key}, legs)
        BY <2>2, <3>2
      <4>2. key \in DOMAIN mended
        BY <4>1 DEF Copied
      <4> HIDE DEF mended, name, key
      <4>3. QED
        BY <3>2, <4>2, ThrowsIs
    <3>3. CASE name # "entry"
      <4> DEFINE table == legs[key]
                 sound == Sound.legs[key]
      <4>1. key \in DOMAIN legs
        <5>1. item # 1
          BY <3>3 DEF LegItems
        <5>2. ~ItemThrows(leg, 1) /\ LegItems[1] = "entry"
          BY <2>1, <5>1 DEF LegItems
        <5>3. ~Throws(legs, key, "entry")
          BY <2>2, <5>2 DEF ItemThrows
        <5> HIDE DEF key, legs
        <5>4. QED
          BY <5>3, ThrowsIs
      <4>2. mended = [legs EXCEPT ![key] = Mended(table, name, sound)]
        BY <2>2, <3>3
      <4>3. mended[key] = Mended(table, name, sound)
        <5> HIDE DEF key, legs, mended, name
        <5>1. QED
          BY <4>1, <4>2
      <4>4. name \in MountFields => "mount" \in DOMAIN table
        <5>1. ASSUME name \in MountFields PROVE ~ItemThrows(leg, 11)
          BY <2>1, <5>1, ItemsAre
        <5>2. ASSUME name \in MountFields PROVE ~Throws(legs, key, "mount")
          BY <2>2, <5>1, <5>2, ItemsAre DEF ItemThrows
        <5> HIDE DEF key, legs, name
        <5>3. QED
          BY <5>2, ThrowsIs
      <4>5. /\ name \in GeometryFields => ~NoNumber(sound, name)
            /\ IsUsable(sound) /\ GeometryFields \subseteq DOMAIN sound
            /\ name \in MountFields => ~NoNumber(sound.mount, name)
        <5> HIDE DEF key, name
        <5>1. /\ \A field \in GeometryFields : ~NoNumber(sound, field)
              /\ IsUsable(sound)
              /\ \A field \in MountFields : ~NoNumber(sound.mount, field)
          BY <3>1, ThrowsIs DEF Items
        <5>2. QED
          BY <5>1 DEF NoNumber
      <4> HIDE DEF key, legs, name, mended, table, sound
      <4>6. /\ name \in GeometryFields => ~NoNumber(mended[key], name)
            /\ name = "geometry" => IsUsable(mended[key])
            /\ name = "mount" => "mount" \in DOMAIN mended[key]
            /\ name \in MountFields => ~NoNumber(mended[key].mount, name)
        BY <2>2, <3>3, <4>3, <4>4, <4>5, MendedItem
      <4>7. QED
        BY <2>2, <3>3, <4>6, ThrowsIs DEF Items
    <3>4. QED
      BY <3>2, <3>3
  <2> HIDE DEF mended, name
  <2>5. script'.legs = mended /\ DOMAIN script' = DOMAIN script
    BY <1>1, <2>3
  <2>6. error' = <<key, name>>
    BY <1>1, <2>1 DEF name
  <2> HIDE DEF key
  <2>7. QED
    BY <1>1, <2>2, <2>4, <2>5, <2>6 DEF FaultInv
<1>4. QED
  BY <1>2, <1>3

LEMMA FaultStep ==
  ASSUME FaultInv, [ModelNext]_modelVars
  PROVE  FaultInv'
<1>1. CASE ComeUp
  BY <1>1 DEF FaultInv, ComeUp
<1>2. CASE Fail
  <2>1. Complaint' = Complaint
    BY <1>2 DEF Fail, Complaint, FirstLeg, FirstItem, FirstOf, LegThrows, ItemThrows
  <2>2. QED
    BY <1>2, <2>1 DEF FaultInv, Fail, Loads
<1>3. CASE Mend
  BY <1>3, MendStep
<1>4. ASSUME UNCHANGED <<script, node, error>> PROVE FaultInv'
  <2>1. Complaint' = Complaint
    BY <1>4 DEF Complaint, FirstLeg, FirstItem, FirstOf, LegThrows, ItemThrows
  <2>2. QED
    BY <1>4, <2>1 DEF FaultInv
<1>5. QED
  BY <1>1, <1>2, <1>3, <1>4
  DEF ModelNext, modelVars, Pose, Aim, SolveJoints, SolveIntoNull, Forget

LEMMA FaultIsNamed ==
  ASSUME FaultInv, [ModelNext]_modelVars
  PROVE  /\ node = "down" /\ node' = "spinning" =>
              \A leg \in LegIndices : LegIsComplete(Keys[leg])
         /\ node = "down" /\ node' = "failed" =>
              /\ error' # error
              /\ error'[1] # "script" =>
                   \E i \in LegIndices :
                     /\ Keys[i] = error'[1]
                     /\ ~LegIsComplete(Keys[i])
                     /\ \A j \in 1 .. i - 1 : LegIsComplete(Keys[j])
<1>1. ASSUME node = "down", node' = "spinning"
      PROVE  \A leg \in LegIndices : LegIsComplete(Keys[leg])
  <2>1. Complaint = Nothing
    BY <1>1 DEF ModelNext, modelVars, ComeUp, Fail, Mend, Loads, Pose, Aim,
                SolveJoints, SolveIntoNull, Forget
  <2>2. Readable /\ \A leg \in LegIndices : ~LegThrows(leg)
    BY <2>1, ComplaintIs
  <2>3. QED
    BY <2>2, ThrowsOrComplete
<1>2. ASSUME node = "down", node' = "failed"
      PROVE  /\ error' # error
             /\ error'[1] # "script" =>
                  \E i \in LegIndices :
                    /\ Keys[i] = error'[1]
                    /\ ~LegIsComplete(Keys[i])
                    /\ \A j \in 1 .. i - 1 : LegIsComplete(Keys[j])
  <2>1. Complaint # Nothing /\ error' = Complaint
    BY <1>2 DEF ModelNext, modelVars, ComeUp, Fail, Mend, Loads, Pose, Aim,
                SolveJoints, SolveIntoNull, Forget
  <2>2. CASE ~Readable
    <3>1. error' = <<"script", "Legs">>
      BY <2>1, <2>2, ComplaintIs
    <3>2. script # Sound
      BY <2>2, SoundIs DEF Readable
    <3>3. error' # error
      BY <1>2, <2>1, <3>1, <3>2 DEF FaultInv
    <3>4. QED
      BY <3>1, <3>3
  <2>3. CASE Readable
    <3>1. PICK leg \in LegIndices, item \in 1 .. 15 :
            /\ Complaint = <<Keys[leg], LegItems[item]>>
            /\ Keys[leg] # "script"
            /\ ItemThrows(leg, item)
            /\ LegThrows(leg)
            /\ \A other \in 1 .. leg - 1 : ~LegThrows(other)
      BY <2>1, <2>3, ComplaintIs
    <3>2. error' # error
      BY <1>2, <2>1, <3>1 DEF FaultInv, ItemThrows
    <3>3. 1 .. leg - 1 \subseteq LegIndices
      BY ModelAssumption DEF LegIndices
    <3>4. ~LegIsComplete(Keys[leg]) /\ \A j \in 1 .. leg - 1 : LegIsComplete(Keys[j])
      BY <2>3, <3>1, <3>3, ThrowsOrComplete
    <3>5. QED
      BY <2>1, <3>1, <3>2, <3>4
  <2>4. QED
    BY <2>2, <2>3
<1>3. QED
  BY <1>1, <1>2

LEMMA FaultInvariant == ModelSpec => []FaultInv
<1>1. QED
  BY FaultInit, FaultStep, PTL DEF ModelSpec

(* The node comes up with complete scripts only; of any other it names the *)
(* first leg that is not complete, and whoever mends just the item it      *)
(* names is never told the same again: for all legs, scripts and numbers.  *)
THEOREM ModelNamesTheFault == ModelSpec => NamesTheFault
<1>1. QED
  BY FaultInvariant, FaultIsNamed, PTL DEF ModelSpec, NamesTheFault

-----------------------------------------------------------------------------
(* Vectors *)

LEMMA AtType ==
  ASSUME NEW p, NEW x, NEW y, NEW z, NEW D, At(p, x, y, z, D)
  PROVE  /\ p \in Points
         /\ p.v[1] \in Int /\ p.v[2] \in Int /\ p.v[3] \in Int
         /\ p.d \in Nat /\ p.d > 0 /\ p.d \in Int /\ p.d # 0
         /\ Ratio(p.v[1], p.d, x, D) /\ Ratio(p.v[2], p.d, y, D) /\ Ratio(p.v[3], p.d, z, D)
<1>1. p \in Points
  BY DEF At
<1>2. QED
  BY <1>1, PointType DEF At

(* One coordinate of a sum of two vectors over one denominator.            *)
LEMMA RatioOfSum ==
  ASSUME NEW p \in Int, NEW r \in Int, NEW q \in Int, NEW s \in Int,
         NEW P \in Int, NEW Q \in Int, NEW D \in Int, Ratio(p, r, P, D), Ratio(q, s, Q, D)
  PROVE  /\ Ratio(p * s + q * r, r * s, P + Q, D)
         /\ Ratio(p * s + (-q) * r, r * s, P - Q, D)
<1>1. p * D = P * r /\ q * D = Q * s
  BY DEF Ratio
<1>2. /\ (p * s + q * r) * D = s * (p * D) + r * (q * D)
      /\ (p * s + (-q) * r) * D = s * (p * D) - r * (q * D)
  OBVIOUS
<1>3. /\ (P + Q) * (r * s) = s * (P * r) + r * (Q * s)
      /\ (P - Q) * (r * s) = s * (P * r) - r * (Q * s)
  OBVIOUS
<1>4. QED
  BY <1>1, <1>2, <1>3 DEF Ratio

LEMMA SumAt ==
  ASSUME NEW x \in Int, NEW y \in Int, NEW z \in Int, NEW D \in Int, D # 0,
         NEW X \in Int, NEW Y \in Int, NEW Z \in Int,
         NEW p, At(p, x, y, z, D), NEW q, At(q, X, Y, Z, D)
  PROVE  /\ At(Sum(p, q), x + X, y + Y, z + Z, D)
         /\ At(Difference(p, q), x - X, y - Y, z - Z, D)
<1> DEFINE p1 == p.v[1]
           p2 == p.v[2]
           p3 == p.v[3]
           d == p.d
           q1 == q.v[1]
           q2 == q.v[2]
           q3 == q.v[3]
           e == q.d
<1>1. /\ p1 \in Int /\ p2 \in Int /\ p3 \in Int /\ d \in Nat /\ d > 0 /\ d \in Int /\ d # 0
      /\ Ratio(p1, d, x, D) /\ Ratio(p2, d, y, D) /\ Ratio(p3, d, z, D)
      /\ q1 \in Int /\ q2 \in Int /\ q3 \in Int /\ e \in Nat /\ e > 0 /\ e \in Int /\ e # 0
      /\ Ratio(q1, e, X, D) /\ Ratio(q2, e, Y, D) /\ Ratio(q3, e, Z, D)
      /\ q = [v |-> q.v, d |-> q.d]
  BY AtType, PointType
<1> DEFINE u1 == p1 * e + q1 * d
           u2 == p2 * e + q2 * d
           u3 == p3 * e + q3 * d
           w1 == p1 * e + (-q1) * d
           w2 == p2 * e + (-q2) * d
           w3 == p3 * e + (-q3) * d
           E == d * e
           u == [i \in 1 .. 3 |-> p.v[i] * e + q.v[i] * d]
           m == [q EXCEPT !.v = [i \in 1 .. 3 |-> -q.v[i]]]
           w == [i \in 1 .. 3 |-> p.v[i] * e + m.v[i] * d]
<1>2. Sum(p, q) = Point(u, E) /\ u[1] = u1 /\ u[2] = u2 /\ u[3] = u3
  BY DEF Sum
<1>3. Difference(p, q) = Point(w, E) /\ w[1] = w1 /\ w[2] = w2 /\ w[3] = w3
  <2>1. m.v = [i \in 1 .. 3 |-> -q.v[i]] /\ m.d = e
    BY <1>1
  <2>2. Difference(p, q) = Sum(p, m)
    BY DEF Difference
  <2> HIDE DEF m
  <2>3. Sum(p, m) = Point(w, E)
    BY <2>1 DEF Sum
  <2>4. w[1] = w1 /\ w[2] = w2 /\ w[3] = w3
    BY <2>1
  <2>5. QED
    BY <2>2, <2>3, <2>4
<1> HIDE DEF p1, p2, p3, d, q1, q2, q3, e, u, w
<1>4. /\ u1 \in Int /\ u2 \in Int /\ u3 \in Int /\ w1 \in Int /\ w2 \in Int /\ w3 \in Int
      /\ E \in Nat /\ E > 0 /\ E \in Int /\ E # 0
  BY <1>1
<1>5. /\ Ratio(u1, E, x + X, D) /\ Ratio(w1, E, x - X, D)
  BY <1>1, RatioOfSum
<1>6. /\ Ratio(u2, E, y + Y, D) /\ Ratio(w2, E, y - Y, D)
  BY <1>1, RatioOfSum
<1>7. /\ Ratio(u3, E, z + Z, D) /\ Ratio(w3, E, z - Z, D)
  BY <1>1, RatioOfSum
<1> HIDE DEF u1, u2, u3, w1, w2, w3, E
<1>8. At(Point(u, E), u1, u2, u3, E) /\ At(Point(w, E), w1, w2, w3, E)
  BY <1>2, <1>3, <1>4, PointIs
<1>9. At(Sum(p, q), x + X, y + Y, z + Z, D)
  BY <1>2, <1>4, <1>5, <1>6, <1>7, <1>8, AtTrans
<1>10. At(Difference(p, q), x - X, y - Y, z - Z, D)
  BY <1>3, <1>4, <1>5, <1>6, <1>7, <1>8, AtTrans
<1>11. QED
  BY <1>9, <1>10

(* What is added can be taken away again.                                  *)
LEMMA SumBack ==
  ASSUME NEW p \in Points, NEW q \in Points
  PROVE  Sum(p, q) \in Points /\ Difference(Sum(p, q), p) = q /\ Difference(Sum(p, q), q) = p
<1> DEFINE p1 == p.v[1]
           p2 == p.v[2]
           p3 == p.v[3]
           d == p.d
           q1 == q.v[1]
           q2 == q.v[2]
           q3 == q.v[3]
           e == q.d
           s == Sum(p, q)
<1>1. /\ p1 \in Int /\ p2 \in Int /\ p3 \in Int /\ d \in Int /\ d # 0
      /\ q1 \in Int /\ q2 \in Int /\ q3 \in Int /\ e \in Int /\ e # 0
      /\ At(p, p1, p2, p3, d) /\ At(q, q1, q2, q3, e)
  BY PointType
<1> DEFINE D == d * e
           x == e * p1
           y == e * p2
           z == e * p3
           X == d * q1
           Y == d * q2
           Z == d * q3
<1> HIDE DEF p1, p2, p3, d, q1, q2, q3, e, s
<1>2. /\ x \in Int /\ y \in Int /\ z \in Int /\ X \in Int /\ Y \in Int /\ Z \in Int
      /\ D \in Int /\ D # 0
  BY <1>1, NotZero
<1>3. At(p, x, y, z, D)
  <2>1. At(p, x, y, z, e * d)
    BY <1>1, AtScale
  <2>2. e * d = D
    BY <1>1
  <2>3. QED
    BY <2>1, <2>2
<1>4. At(q, X, Y, Z, D)
  BY <1>1, AtScale
<1> HIDE DEF x, y, z, X, Y, Z, D
<1>5. At(s, x + X, y + Y, z + Z, D)
  BY <1>2, <1>3, <1>4, SumAt DEF s
<1> DEFINE u == x + X
           v == y + Y
           w == z + Z
<1>6. /\ u \in Int /\ v \in Int /\ w \in Int
      /\ u - x = X /\ v - y = Y /\ w - z = Z /\ u - X = x /\ v - Y = y /\ w - Z = z
  BY <1>2
<1>7. At(s, u, v, w, D)
  BY <1>5
<1> HIDE DEF u, v, w
<1>8. At(Difference(s, p), u - x, v - y, w - z, D)
  BY <1>2, <1>3, <1>6, <1>7, SumAt
<1>9. At(Difference(s, q), u - X, v - Y, w - Z, D)
  BY <1>2, <1>4, <1>6, <1>7, SumAt
<1>10. At(Difference(s, p), X, Y, Z, D) /\ At(Difference(s, q), x, y, z, D)
  BY <1>6, <1>8, <1>9
<1>11. Difference(s, p) = q /\ Difference(s, q) = p
  BY <1>2, <1>3, <1>4, <1>10, PointUnique
<1>12. QED
  BY <1>5, <1>11 DEF s, At

-----------------------------------------------------------------------------
(* Rotations *)

IsMatrix(rotation) ==
  /\ rotation.d \in Nat /\ rotation.d > 0
  /\ \A i, j \in 1 .. 3 : rotation.m[i][j] \in Int

(* One row of a matrix times a vector over a denominator.                  *)
RowRatio(a, b, c, k, p, q, s, r, x, y, z, D) ==
  Ratio(a * p + b * q + c * s, k * r, a * x + b * y + c * z, k * D)

LEMMA RatioOfRow ==
  ASSUME NEW a \in Int, NEW b \in Int, NEW c \in Int, NEW k \in Int,
         NEW p \in Int, NEW q \in Int, NEW s \in Int, NEW r \in Int,
         NEW x \in Int, NEW y \in Int, NEW z \in Int, NEW D \in Int,
         Ratio(p, r, x, D), Ratio(q, r, y, D), Ratio(s, r, z, D)
  PROVE  RowRatio(a, b, c, k, p, q, s, r, x, y, z, D)
<1>1. p * D = x * r /\ q * D = y * r /\ s * D = z * r
  BY DEF Ratio
<1>2. (a * p + b * q + c * s) * (k * D) = k * (a * (p * D) + b * (q * D) + c * (s * D))
  OBVIOUS
<1>3. (a * x + b * y + c * z) * (k * r) = k * (a * (x * r) + b * (y * r) + c * (z * r))
  OBVIOUS
<1>4. QED
  BY <1>1, <1>2, <1>3 DEF Ratio, RowRatio

LEMMA RotatedAt ==
  ASSUME NEW rotation, IsMatrix(rotation),
         NEW x \in Int, NEW y \in Int, NEW z \in Int, NEW D \in Int, D # 0,
         NEW p, At(p, x, y, z, D)
  PROVE  At(Rotated(rotation, p), Dot(rotation.m[1], <<x, y, z>>),
            Dot(rotation.m[2], <<x, y, z>>), Dot(rotation.m[3], <<x, y, z>>),
            rotation.d * D)
<1> DEFINE p1 == p.v[1]
           p2 == p.v[2]
           p3 == p.v[3]
           d == p.d
           k == rotation.d
           u1 == Dot(rotation.m[1], p.v)
           u2 == Dot(rotation.m[2], p.v)
           u3 == Dot(rotation.m[3], p.v)
           v1 == Dot(rotation.m[1], <<x, y, z>>)
           v2 == Dot(rotation.m[2], <<x, y, z>>)
           v3 == Dot(rotation.m[3], <<x, y, z>>)
           E == k * d
           F == k * D
           u == [i \in 1 .. 3 |-> Dot(rotation.m[i], p.v)]
<1>1. /\ p1 \in Int /\ p2 \in Int /\ p3 \in Int /\ d \in Nat /\ d > 0 /\ d \in Int
      /\ Ratio(p1, d, x, D) /\ Ratio(p2, d, y, D) /\ Ratio(p3, d, z, D)
  BY AtType
<1>2. k \in Nat /\ k > 0 /\ k \in Int /\ k # 0
  BY DEF IsMatrix
<1>3. ASSUME NEW i \in 1 .. 3
      PROVE  /\ Ratio(Dot(rotation.m[i], p.v), E, Dot(rotation.m[i], <<x, y, z>>), F)
             /\ Dot(rotation.m[i], p.v) \in Int /\ Dot(rotation.m[i], <<x, y, z>>) \in Int
  <2> DEFINE a == rotation.m[i][1]
             b == rotation.m[i][2]
             c == rotation.m[i][3]
  <2>1. a \in Int /\ b \in Int /\ c \in Int
    BY DEF IsMatrix
  <2>2. /\ Dot(rotation.m[i], p.v) = a * p1 + b * p2 + c * p3
        /\ Dot(rotation.m[i], <<x, y, z>>) = a * x + b * y + c * z
    BY DEF Dot
  <2> HIDE DEF a, b, c, p1, p2, p3, d, k
  <2>3. RowRatio(a, b, c, k, p1, p2, p3, d, x, y, z, D)
    BY <1>1, <1>2, <2>1, RatioOfRow
  <2>4. a * p1 + b * p2 + c * p3 \in Int /\ a * x + b * y + c * z \in Int
    BY <1>1, <2>1
  <2>5. QED
    BY <2>2, <2>3, <2>4 DEF RowRatio
<1>4. /\ u1 \in Int /\ u2 \in Int /\ u3 \in Int /\ v1 \in Int /\ v2 \in Int /\ v3 \in Int
      /\ Ratio(u1, E, v1, F) /\ Ratio(u2, E, v2, F) /\ Ratio(u3, E, v3, F)
  BY <1>3
<1>5. Rotated(rotation, p) = Point(u, E) /\ u[1] = u1 /\ u[2] = u2 /\ u[3] = u3
  BY DEF Rotated
<1>6. E \in Nat /\ E > 0 /\ E \in Int /\ E # 0 /\ F \in Int
  <2> HIDE DEF d, k
  <2>1. QED
    BY <1>1, <1>2
<1> HIDE DEF u1, u2, u3, v1, v2, v3, u, E, F
<1>7. At(Point(u, E), u1, u2, u3, E)
  BY <1>4, <1>5, <1>6, PointIs
<1>8. At(Rotated(rotation, p), v1, v2, v3, F)
  BY <1>4, <1>5, <1>6, <1>7, AtTrans
<1>9. QED
  BY <1>8 DEF v1, v2, v3, F

(* The product of the two is a multiple of the identity.                   *)
TakesBack(inverse, rotation) ==
  \A i, k \in 1 .. 3 :
    inverse.m[i][1] * rotation.m[1][k] + inverse.m[i][2] * rotation.m[2][k]
        + inverse.m[i][3] * rotation.m[3][k]
      = IF i = k THEN inverse.d * rotation.d ELSE 0

LEMMA RotatedBack ==
  ASSUME NEW rotation, IsMatrix(rotation), NEW inverse, IsMatrix(inverse),
         TakesBack(inverse, rotation), NEW p \in Points
  PROVE  Rotated(rotation, p) \in Points /\ Rotated(inverse, Rotated(rotation, p)) = p
<1> DEFINE x == p.v[1]
           y == p.v[2]
           z == p.v[3]
           d == p.d
           D == rotation.d * d
           u == Dot(rotation.m[1], <<x, y, z>>)
           v == Dot(rotation.m[2], <<x, y, z>>)
           w == Dot(rotation.m[3], <<x, y, z>>)
           K == inverse.d * rotation.d
           back == Rotated(inverse, Rotated(rotation, p))
<1>1. /\ x \in Int /\ y \in Int /\ z \in Int /\ d \in Int /\ d # 0
      /\ At(p, x, y, z, d)
  BY PointType
<1>2. /\ rotation.d \in Int /\ rotation.d # 0 /\ inverse.d \in Int /\ inverse.d # 0
      /\ \A i, j \in 1 .. 3 : rotation.m[i][j] \in Int /\ inverse.m[i][j] \in Int
  BY DEF IsMatrix
<1>3. /\ u = rotation.m[1][1] * x + rotation.m[1][2] * y + rotation.m[1][3] * z
      /\ v = rotation.m[2][1] * x + rotation.m[2][2] * y + rotation.m[2][3] * z
      /\ w = rotation.m[3][1] * x + rotation.m[3][2] * y + rotation.m[3][3] * z
  BY DEF Dot
<1> HIDE DEF x, y, z, d, u, v, w
<1>4. u \in Int /\ v \in Int /\ w \in Int /\ D \in Int /\ D # 0 /\ K \in Int /\ K # 0
  <2>1. D \in Int /\ D # 0 /\ K \in Int /\ K # 0
    BY <1>1, <1>2, NotZero
  <2>2. u \in Int /\ v \in Int /\ w \in Int
    <3> DEFINE b(j, k) == rotation.m[j][k]
    <3>1. /\ b(1, 1) \in Int /\ b(1, 2) \in Int /\ b(1, 3) \in Int
          /\ b(2, 1) \in Int /\ b(2, 2) \in Int /\ b(2, 3) \in Int
          /\ b(3, 1) \in Int /\ b(3, 2) \in Int /\ b(3, 3) \in Int
      BY <1>2
    <3>2. /\ u = b(1, 1) * x + b(1, 2) * y + b(1, 3) * z
          /\ v = b(2, 1) * x + b(2, 2) * y + b(2, 3) * z
          /\ w = b(3, 1) * x + b(3, 2) * y + b(3, 3) * z
      BY <1>3
    <3> HIDE DEF b
    <3>3. QED
      BY <1>1, <3>1, <3>2
  <2>3. QED
    BY <2>1, <2>2
<1>5. At(Rotated(rotation, p), u, v, w, D)
  BY <1>1, RotatedAt DEF u, v, w
<1>6. ASSUME NEW i \in 1 .. 3
      PROVE  Dot(inverse.m[i], <<u, v, w>>)
               = (IF i = 1 THEN K ELSE 0) * x + (IF i = 2 THEN K ELSE 0) * y
                   + (IF i = 3 THEN K ELSE 0) * z
  <2> DEFINE a(j) == inverse.m[i][j]
             b(j, k) == rotation.m[j][k]
             e(k) == a(1) * b(1, k) + a(2) * b(2, k) + a(3) * b(3, k)
  <2>1. e(1) = (IF i = 1 THEN K ELSE 0) /\ e(2) = (IF i = 2 THEN K ELSE 0)
        /\ e(3) = (IF i = 3 THEN K ELSE 0)
    BY DEF TakesBack
  <2>2. Dot(inverse.m[i], <<u, v, w>>) = a(1) * u + a(2) * v + a(3) * w
    BY DEF Dot
  <2>3. a(1) * u + a(2) * v + a(3) * w = e(1) * x + e(2) * y + e(3) * z
    <3>1. /\ a(1) \in Int /\ a(2) \in Int /\ a(3) \in Int
          /\ b(1, 1) \in Int /\ b(1, 2) \in Int /\ b(1, 3) \in Int
          /\ b(2, 1) \in Int /\ b(2, 2) \in Int /\ b(2, 3) \in Int
          /\ b(3, 1) \in Int /\ b(3, 2) \in Int /\ b(3, 3) \in Int
      BY <1>2
    <3>2. /\ u = b(1, 1) * x + b(1, 2) * y + b(1, 3) * z
          /\ v = b(2, 1) * x + b(2, 2) * y + b(2, 3) * z
          /\ w = b(3, 1) * x + b(3, 2) * y + b(3, 3) * z
      BY <1>3
    <3> HIDE DEF a, b
    <3>3. QED
      BY <1>1, <3>1, <3>2
  <2> HIDE DEF e
  <2>4. QED
    BY <2>1, <2>2, <2>3
<1> HIDE DEF D, K
<1>7. /\ Dot(inverse.m[1], <<u, v, w>>) = K * x
      /\ Dot(inverse.m[2], <<u, v, w>>) = K * y
      /\ Dot(inverse.m[3], <<u, v, w>>) = K * z
  BY <1>1, <1>4, <1>6
<1>8. At(back, Dot(inverse.m[1], <<u, v, w>>), Dot(inverse.m[2], <<u, v, w>>),
         Dot(inverse.m[3], <<u, v, w>>), inverse.d * D)
  BY <1>4, <1>5, RotatedAt
<1>9. inverse.d * D = K * d
  BY <1>1, <1>2 DEF D, K
<1>10. At(back, K * x, K * y, K * z, K * d)
  BY <1>7, <1>8, <1>9
<1>11. At(back, x, y, z, d)
  BY <1>1, <1>4, <1>10, AtScale
<1>12. back = p
  BY <1>1, <1>11, PointUnique
<1>13. QED
  BY <1>5, <1>12 DEF At

(* The rotation about the mount's yaw, and back.                           *)
LEMMA MountTurns ==
  ASSUME NEW yaw \in Angles
  PROVE  LET rotation == MountRotation(yaw)
         IN  /\ IsMatrix(rotation) /\ IsMatrix(Transposed(rotation))
             /\ TakesBack(Transposed(rotation), rotation)
<1> DEFINE rotation == MountRotation(yaw)
           inverse == Transposed(rotation)
           c == yaw.x
           s == yaw.y
           r == yaw.r
<1>1. /\ c \in Int /\ s \in Int /\ r \in Nat /\ r > 0 /\ r \in Int
      /\ c * c + s * s = r * r
  BY AngleType
<1>2. /\ rotation.d = r
      /\ rotation.m[1][1] = c /\ rotation.m[1][2] = -s /\ rotation.m[1][3] = 0
      /\ rotation.m[2][1] = s /\ rotation.m[2][2] = c /\ rotation.m[2][3] = 0
      /\ rotation.m[3][1] = 0 /\ rotation.m[3][2] = 0 /\ rotation.m[3][3] = r
  BY DEF MountRotation
<1>3. /\ inverse.d = rotation.d
      /\ \A i, j \in 1 .. 3 : inverse.m[i][j] = rotation.m[j][i]
  BY DEF Transposed, MountRotation
<1> HIDE DEF rotation, inverse, c, s, r
<1>4. /\ inverse.d = r
      /\ inverse.m[1][1] = c /\ inverse.m[1][2] = s /\ inverse.m[1][3] = 0
      /\ inverse.m[2][1] = -s /\ inverse.m[2][2] = c /\ inverse.m[2][3] = 0
      /\ inverse.m[3][1] = 0 /\ inverse.m[3][2] = 0 /\ inverse.m[3][3] = r
  BY <1>2, <1>3
<1>5. IsMatrix(rotation) /\ IsMatrix(inverse)
  BY <1>1, <1>2, <1>4 DEF IsMatrix
<1>6. TakesBack(inverse, rotation)
  <2> DEFINE e(i, k) ==
               inverse.m[i][1] * rotation.m[1][k] + inverse.m[i][2] * rotation.m[2][k]
                 + inverse.m[i][3] * rotation.m[3][k]
  <2>1. e(1, 1) = r * r /\ e(1, 2) = 0 /\ e(1, 3) = 0
    BY <1>1, <1>2, <1>4
  <2>2. e(2, 1) = 0 /\ e(2, 2) = r * r /\ e(2, 3) = 0
    BY <1>1, <1>2, <1>4
  <2>3. e(3, 1) = 0 /\ e(3, 2) = 0 /\ e(3, 3) = r * r
    BY <1>1, <1>2, <1>4
  <2> DEFINE n == r * r
  <2>4. inverse.d * rotation.d = n
    BY <1>2, <1>3
  <2> HIDE DEF e, n
  <2>5. \A i, k \in 1 .. 3 : e(i, k) = IF i = k THEN n ELSE 0
    BY <2>1, <2>2, <2>3 DEF n
  <2>6. QED
    BY <2>4, <2>5 DEF TakesBack, e
<1>7. QED
  BY <1>5, <1>6 DEF rotation, inverse

(* The rotation of a quaternion that need not be a unit, and back.         *)
Quaternions == (Int \X Int \X Int \X Int) \ {<<0, 0, 0, 0>>}

LEMMA QuaternionTurns ==
  ASSUME NEW quaternion \in Quaternions
  PROVE  LET rotation == RotationOf(quaternion)
             inverse == RotationOf(Conjugate(quaternion))
         IN  IsMatrix(rotation) /\ IsMatrix(inverse) /\ TakesBack(inverse, rotation)
<1> DEFINE rotation == RotationOf(quaternion)
           inverse == RotationOf(Conjugate(quaternion))
           w == quaternion[1]
           x == quaternion[2]
           y == quaternion[3]
           z == quaternion[4]
           n == w*w + x*x + y*y + z*z
           a == w*w + x*x - y*y - z*z
           b == w*w - x*x + y*y - z*z
           c == w*w - x*x - y*y + z*z
<1>1. /\ w \in Int /\ x \in Int /\ y \in Int /\ z \in Int
      /\ w # 0 \/ x # 0 \/ y # 0 \/ z # 0
  BY DEF Quaternions
<1>2. /\ rotation.d = n
      /\ rotation.m[1][1] = a
      /\ rotation.m[1][2] = 2 * (x*y - w*z)
      /\ rotation.m[1][3] = 2 * (x*z + w*y)
      /\ rotation.m[2][1] = 2 * (x*y + w*z)
      /\ rotation.m[2][2] = b
      /\ rotation.m[2][3] = 2 * (y*z - w*x)
      /\ rotation.m[3][1] = 2 * (x*z - w*y)
      /\ rotation.m[3][2] = 2 * (y*z + w*x)
      /\ rotation.m[3][3] = c
  BY DEF RotationOf
<1>3. /\ inverse.d = w*w + (-x)*(-x) + (-y)*(-y) + (-z)*(-z)
      /\ inverse.m[1][1] = w*w + (-x)*(-x) - (-y)*(-y) - (-z)*(-z)
      /\ inverse.m[1][2] = 2 * ((-x)*(-y) - w*(-z))
      /\ inverse.m[1][3] = 2 * ((-x)*(-z) + w*(-y))
      /\ inverse.m[2][1] = 2 * ((-x)*(-y) + w*(-z))
      /\ inverse.m[2][2] = w*w - (-x)*(-x) + (-y)*(-y) - (-z)*(-z)
      /\ inverse.m[2][3] = 2 * ((-y)*(-z) - w*(-x))
      /\ inverse.m[3][1] = 2 * ((-x)*(-z) - w*(-y))
      /\ inverse.m[3][2] = 2 * ((-y)*(-z) + w*(-x))
      /\ inverse.m[3][3] = w*w - (-x)*(-x) - (-y)*(-y) + (-z)*(-z)
  BY DEF RotationOf, Conjugate
<1> HIDE DEF rotation, inverse, w, x, y, z
<1>4. /\ inverse.d = n
      /\ inverse.m[1][1] = a
      /\ inverse.m[1][2] = 2 * (x*y + w*z)
      /\ inverse.m[1][3] = 2 * (x*z - w*y)
      /\ inverse.m[2][1] = 2 * (x*y - w*z)
      /\ inverse.m[2][2] = b
      /\ inverse.m[2][3] = 2 * (y*z + w*x)
      /\ inverse.m[3][1] = 2 * (x*z + w*y)
      /\ inverse.m[3][2] = 2 * (y*z - w*x)
      /\ inverse.m[3][3] = c
  BY <1>1, <1>3
<1>5. n \in Nat /\ n > 0
  <2>1. w*w + x*x \in Nat /\ y*y + z*z \in Nat
    BY <1>1, Lengths
  <2>2. w*w + x*x > 0 \/ y*y + z*z > 0
    BY <1>1, Lengths
  <2>3. n = (w*w + x*x) + (y*y + z*z)
    BY <1>1
  <2>4. QED
    BY <2>1, <2>2, <2>3
<1>6. IsMatrix(rotation)
  <2>1. /\ a \in Int /\ b \in Int /\ c \in Int
        /\ 2 * (x*y - w*z) \in Int /\ 2 * (x*z + w*y) \in Int
        /\ 2 * (x*y + w*z) \in Int /\ 2 * (y*z - w*x) \in Int
        /\ 2 * (x*z - w*y) \in Int /\ 2 * (y*z + w*x) \in Int
    BY <1>1
  <2>2. \A i, j \in 1 .. 3 : rotation.m[i][j] \in Int
    BY <1>2, <2>1
  <2>3. QED
    BY <1>2, <1>5, <2>2 DEF IsMatrix
<1>7. \A i, j \in 1 .. 3 : inverse.m[i][j] = rotation.m[j][i]
  BY <1>2, <1>4
<1>8. IsMatrix(inverse)
  BY <1>4, <1>5, <1>6, <1>7 DEF IsMatrix
<1>9. TakesBack(inverse, rotation)
  <2> DEFINE e(i, k) ==
               inverse.m[i][1] * rotation.m[1][k] + inverse.m[i][2] * rotation.m[2][k]
                 + inverse.m[i][3] * rotation.m[3][k]
             m == n * n
  <2>1. e(1, 1) = m
    BY <1>1, <1>2, <1>4
  <2>2. e(2, 2) = m
    BY <1>1, <1>2, <1>4
  <2>3. e(3, 3) = m
    BY <1>1, <1>2, <1>4
  <2>4. e(1, 2) = 0 /\ e(2, 1) = 0
    BY <1>1, <1>2, <1>4
  <2>5. e(1, 3) = 0 /\ e(3, 1) = 0
    BY <1>1, <1>2, <1>4
  <2>6. e(2, 3) = 0 /\ e(3, 2) = 0
    BY <1>1, <1>2, <1>4
  <2>7. inverse.d * rotation.d = m
    BY <1>2, <1>4
  <2> HIDE DEF e, m
  <2>8. \A i, k \in 1 .. 3 : e(i, k) = IF i = k THEN m ELSE 0
    BY <2>1, <2>2, <2>3, <2>4, <2>5, <2>6
  <2>9. QED
    BY <2>7, <2>8 DEF TakesBack, e
<1>10. QED
  BY <1>6, <1>8, <1>9 DEF rotation, inverse

(* From a leg's hip frame to the body and back, and on to the world.       *)
LEMMA HipFrame ==
  ASSUME NEW mount, mount.position \in Points, mount.yaw \in Angles, NEW h \in Points
  PROVE  ToBody(mount, h) \in Points /\ ToHip(mount, ToBody(mount, h)) = h
<1> DEFINE turned == Rotated(MountRotation(mount.yaw), h)
<1>1. turned \in Points /\ Rotated(Transposed(MountRotation(mount.yaw)), turned) = h
  BY MountTurns, RotatedBack
<1>2. ToBody(mount, h) = Sum(turned, mount.position)
  BY DEF ToBody
<1> HIDE DEF turned
<1>3. /\ ToBody(mount, h) \in Points
      /\ Difference(ToBody(mount, h), mount.position) = turned
  BY <1>1, <1>2, SumBack
<1>4. QED
  BY <1>1, <1>3 DEF ToHip

BodyType(where) == where.position \in Points /\ where.orientation \in Quaternions

LEMMA WorldFrame ==
  ASSUME NEW where, BodyType(where), NEW p \in Points
  PROVE  /\ ToWorld(where, p) \in Points
         /\ Rotated(WorldToBody(where), Difference(ToWorld(where, p), where.position)) = p
<1> DEFINE turned == Rotated(RotationOf(where.orientation), p)
<1>1. turned \in Points /\ Rotated(WorldToBody(where), turned) = p
  BY QuaternionTurns, RotatedBack DEF BodyType, WorldToBody
<1>2. ToWorld(where, p) = Sum(where.position, turned)
  BY DEF ToWorld
<1> HIDE DEF turned
<1>3. /\ ToWorld(where, p) \in Points
      /\ Difference(ToWorld(where, p), where.position) = turned
  BY <1>1, <1>2, SumBack DEF BodyType
<1>4. QED
  BY <1>1, <1>3

-----------------------------------------------------------------------------
(* What a script puts where *)

TypedLeg(leg) == Typed(leg) /\ ("mount" \in DOMAIN leg => Typed(leg.mount))

LEMMA CopiedTyped ==
  ASSUME NEW from, NEW table, NEW fields, Typed(from), Typed(table), fields \subseteq DOMAIN from
  PROVE  Typed(Copied(from, fields, table))
<1> DEFINE copied == Copied(from, fields, table)
<1>1. /\ DOMAIN copied = fields \cup DOMAIN table
      /\ \A f \in DOMAIN copied : copied[f] = IF f \in fields THEN from[f] ELSE table[f]
  BY DEF Copied
<1> HIDE DEF copied
<1>2. Typed(copied)
  BY <1>1 DEF Typed
<1>3. QED
  BY <1>2 DEF copied

LEMMA MendedTyped ==
  ASSUME NEW table, NEW sound, NEW item \in Items \ {"entry"},
         TypedLeg(table), TypedLeg(sound), Complete(sound),
         item \in MountFields => "mount" \in DOMAIN table
  PROVE  TypedLeg(Mended(table, item, sound))
<1> DEFINE mended == Mended(table, item, sound)
<1>1. /\ GeometryFields \cup {"mount"} \subseteq DOMAIN sound
      /\ MountFields \subseteq DOMAIN sound.mount
      /\ Typed(sound) /\ Typed(sound.mount) /\ Typed(table)
  BY DEF Complete, TypedLeg
<1>2. "mount" \notin GeometryFields /\ "mount" \notin MountFields
  BY DEF GeometryFields, LengthFields, AngleFields, MountFields
<1>3. CASE item = "mount"
  <2>1. mended = Copied(sound, {"mount"}, table)
    BY <1>3 DEF Mended, GeometryFields, LengthFields, AngleFields, MountFields
  <2>2. Typed(mended)
    BY <1>1, <2>1, CopiedTyped
  <2> HIDE DEF mended
  <2>3. mended.mount = sound.mount
    BY <2>1 DEF Copied
  <2>4. QED
    BY <1>1, <2>2, <2>3 DEF TypedLeg, mended
<1>4. CASE item \in GeometryFields \cup {"geometry"}
  <2>1. PICK fields \in SUBSET GeometryFields : mended = Copied(sound, fields, table)
    <3>1. CASE item = "geometry"
      BY <3>1 DEF Mended, GeometryFields, LengthFields, AngleFields, MountFields
    <3>2. CASE item \in GeometryFields
      BY <3>2 DEF Mended, GeometryFields, LengthFields, AngleFields, MountFields
    <3>3. QED
      BY <1>4, <3>1, <3>2
  <2>2. Typed(mended)
    BY <1>1, <2>1, CopiedTyped
  <2> HIDE DEF mended
  <2>3. "mount" \in DOMAIN mended => "mount" \in DOMAIN table /\ mended.mount = table.mount
    BY <1>2, <2>1 DEF Copied
  <2>4. QED
    BY <2>2, <2>3 DEF TypedLeg, mended
<1>5. CASE item \in MountFields
  <2> DEFINE mount == Copied(sound.mount, {item}, table.mount)
  <2>1. mended = [table EXCEPT !.mount = mount]
    BY <1>5 DEF Mended, GeometryFields, LengthFields, AngleFields, MountFields
  <2>2. Typed(mount)
    <3>1. Typed(table.mount)
      BY <1>5 DEF TypedLeg
    <3>2. QED
      BY <1>1, <1>5, <3>1, CopiedTyped
  <2> HIDE DEF mended, mount
  <2>3. /\ DOMAIN mended = DOMAIN table /\ mended.mount = mount
        /\ \A f \in DOMAIN table \ {"mount"} : mended[f] = table[f]
    BY <1>5, <2>1
  <2>4. Typed(mended)
    <3>1. "mount" \notin LengthFields \cup {"x", "y", "z"} \cup AngleFields \cup {"yaw"}
      BY DEF LengthFields, AngleFields
    <3>2. QED
      BY <1>1, <2>3, <3>1 DEF Typed
  <2>5. QED
    BY <2>2, <2>3, <2>4 DEF TypedLeg, mended
<1>6. QED
  BY <1>3, <1>4, <1>5 DEF Items

LEMMA ScriptIs ==
  ASSUME NEW s
  PROVE  TypedScript(s) <=>
           /\ {"result", "legs"} \subseteq DOMAIN s
           /\ s.result = "returned" /\ s.legs # Nothing =>
                \A key \in DOMAIN s.legs : TypedLeg(s.legs[key])
BY DEF TypedScript, TypedLeg

LEMMA SoundLegs ==
  /\ TypedScript(Sound)
  /\ \A leg \in LegIndices :
       /\ Keys[leg] \in DOMAIN Sound.legs
       /\ Complete(Sound.legs[Keys[leg]]) /\ TypedLeg(Sound.legs[Keys[leg]])
<1>1. TypedScript(Sound)
  BY ModelAssumption
<1>2. ASSUME NEW leg \in LegIndices
      PROVE  Keys[leg] \in DOMAIN Sound.legs /\ Complete(Sound.legs[Keys[leg]])
  <2> DEFINE key == Keys[leg]
             legs == Sound.legs
  <2>1. \A item \in Items : ~Throws(legs, key, item)
    BY SoundIs
  <2> HIDE DEF key, legs
  <2>2. /\ key \in DOMAIN legs
        /\ \A item \in GeometryFields : ~NoNumber(legs[key], item)
        /\ IsUsable(legs[key])
        /\ "mount" \in DOMAIN legs[key]
        /\ \A item \in MountFields : ~NoNumber(legs[key].mount, item)
    BY <2>1, ThrowsIs DEF Items
  <2>3. QED
    BY <2>2 DEF Complete, NoNumber, key, legs
<1>3. \A leg \in LegIndices : TypedLeg(Sound.legs[Keys[leg]])
  BY <1>1, <1>2, SoundIs, ScriptIs
<1>4. QED
  BY <1>1, <1>2, <1>3

(* Whatever is mended is mended in kind. *)
LEMMA MendTyped ==
  ASSUME FaultInv, TypedScript(script), Mend
  PROVE  TypedScript(script')
<1> DEFINE key == error[1]
           legs == script.legs
           mended == IF error[2] = "entry" THEN Copied(Sound.legs, {key}, legs)
                     ELSE [legs EXCEPT ![key] = Mended(@, error[2], Sound.legs[key])]
<1>1. error = Complaint /\ error # Nothing
  BY DEF FaultInv, Mend
<1>2. CASE error = <<"script", "Legs">>
  <2>1. script' = Sound
    BY <1>2 DEF Mend
  <2>2. QED
    BY <2>1, SoundLegs
<1>3. CASE error # <<"script", "Legs">>
  <2>1. PICK leg \in LegIndices, item \in 1 .. 15 :
          /\ Readable
          /\ error = <<Keys[leg], LegItems[item]>>
          /\ Keys[leg] # "script"
          /\ \A earlier \in 1 .. item - 1 : ~ItemThrows(leg, earlier)
    BY <1>1, <1>3, ComplaintIs
  <2> DEFINE name == LegItems[item]
             sound == Sound.legs[key]
  <2>2. key = Keys[leg] /\ error[2] = name /\ name \in Items
    BY <2>1, ItemsAre
  <2>3. script' = [script EXCEPT !.legs = mended]
    BY <2>1, <2>2 DEF Mend
  <2>4. /\ {"result", "legs"} \subseteq DOMAIN script
        /\ \A other \in DOMAIN legs : TypedLeg(legs[other])
    BY <2>1, ScriptIs DEF Readable
  <2>5. /\ key \in DOMAIN Sound.legs /\ TypedLeg(sound) /\ Complete(sound)
    BY <2>2, SoundLegs
  <2>6. \A other \in DOMAIN mended : TypedLeg(mended[other])
    <3>1. CASE name = "entry"
      <4>1. mended = Copied(Sound.legs, {key}, legs)
        BY <2>2, <3>1
      <4> HIDE DEF mended, key, legs, name
      <4>2. /\ DOMAIN mended = {key} \cup DOMAIN legs
            /\ \A other \in DOMAIN mended :
                 mended[other] = IF other = key THEN Sound.legs[other] ELSE legs[other]
        BY <4>1 DEF Copied
      <4>3. QED
        BY <2>4, <2>5, <4>2
    <3>2. CASE name # "entry"
      <4>1. mended = [legs EXCEPT ![key] = Mended(legs[key], name, sound)]
        BY <2>2, <3>2
      <4>2. name \in MountFields => "mount" \in DOMAIN legs[key]
        <5>1. ASSUME name \in MountFields PROVE ~ItemThrows(leg, 11)
          BY <2>1, <5>1, ItemsAre
        <5>2. ASSUME name \in MountFields PROVE ~Throws(legs, key, "mount")
          BY <2>2, <5>1, <5>2, ItemsAre DEF ItemThrows
        <5> HIDE DEF key, legs, name
        <5>3. QED
          BY <5>2, ThrowsIs
      <4> HIDE DEF mended, key, legs, name, sound
      <4>3. key \in DOMAIN legs => TypedLeg(Mended(legs[key], name, sound))
        BY <2>2, <2>4, <2>5, <3>2, <4>2, MendedTyped
      <4>4. /\ DOMAIN mended = DOMAIN legs
            /\ \A other \in DOMAIN legs :
                 mended[other] = IF other = key THEN Mended(legs[key], name, sound)
                                 ELSE legs[other]
        BY <4>1
      <4>5. QED
        BY <2>4, <4>3, <4>4
    <3>3. QED
      BY <3>1, <3>2
  <2> HIDE DEF mended
  <2>7. /\ script'.legs = mended
        /\ {"result", "legs"} \subseteq DOMAIN script'
    BY <2>3, <2>4
  <2>8. TypedScript(script')
    BY <2>6, <2>7, ScriptIs
  <2>9. QED
    BY <2>8
<1>4. QED
  BY <1>2, <1>3

-----------------------------------------------------------------------------
(* The configuration of a node that spins *)

ConfiguredLeg(c) ==
  /\ LegType(c.geometry) /\ IsUsable(c.geometry)
  /\ c.mount.position \in Points /\ c.mount.yaw \in Angles

LEMMA ReadLegIs ==
  ASSUME NEW leg, TypedLeg(leg), Complete(leg)
  PROVE  ConfiguredLeg(ReadLeg(leg))
<1> DEFINE c == ReadLeg(leg)
           g == c.geometry
           mount == leg.mount
<1>1. \A f \in GeometryFields : f \in DOMAIN leg /\ leg[f] # NotFinite
  BY DEF Complete
<1>2. \A f \in MountFields : f \in DOMAIN mount /\ mount[f] # NotFinite
  BY DEF Complete
<1>3. g = [f \in GeometryFields |-> leg[f]]
  BY DEF ReadLeg
<1>4. /\ c.mount.position = Point(<<mount.x, mount.y, mount.z>>, 1)
      /\ c.mount.yaw = mount.yaw
  BY DEF ReadLeg
<1>5. Typed(leg) /\ Typed(mount) /\ IsUsable(leg)
  BY DEF TypedLeg, Complete
<1> HIDE DEF c, g, mount
<1>6. \A f \in GeometryFields : g[f] = leg[f]
  BY <1>3
<1>7. LegType(g)
  <2>1. \A f \in LengthFields : g[f] \in Int
    BY <1>1, <1>5, <1>6 DEF Typed, GeometryFields
  <2>2. \A f \in AngleFields : g[f] \in Angles
    BY <1>1, <1>5, <1>6 DEF Typed, GeometryFields
  <2>3. QED
    BY <2>1, <2>2 DEF LegType, LengthFields, AngleFields
<1>8. IsUsable(g)
  BY <1>5, <1>6 DEF IsUsable, GeometryFields, LengthFields, AngleFields
<1>9. mount.x \in Int /\ mount.y \in Int /\ mount.z \in Int /\ mount.yaw \in Angles
  BY <1>2, <1>5 DEF Typed, MountFields
<1>10. Point(<<mount.x, mount.y, mount.z>>, 1) \in Points
  <2> DEFINE x == mount.x
             y == mount.y
             z == mount.z
             v == <<x, y, z>>
  <2>1. x \in Int /\ y \in Int /\ z \in Int /\ v[1] = x /\ v[2] = y /\ v[3] = z
    BY <1>9
  <2> HIDE DEF x, y, z, v
  <2>2. At(Point(v, 1), x, y, z, 1)
    BY <2>1, PointIs
  <2>3. QED
    BY <2>2 DEF At, x, y, z, v
<1>11. QED
  BY <1>4, <1>7, <1>8, <1>9, <1>10 DEF ConfiguredLeg, c, g

(* A node that spins was given numbers that it can solve with.             *)
ConfiguredInv ==
  /\ TypedScript(script)
  /\ node = "spinning" => \A leg \in LegIndices : ConfiguredLeg(configuration[leg])

LEMMA ConfiguredStep ==
  ASSUME FaultInv, ConfiguredInv, [ModelNext]_modelVars
  PROVE  ConfiguredInv'
<1>1. CASE ComeUp
  <2>1. Readable /\ \A leg \in LegIndices : LegIsComplete(Keys[leg])
    <3>1. Complaint = Nothing
      BY <1>1 DEF ComeUp, Loads
    <3>2. Readable /\ \A leg \in LegIndices : ~LegThrows(leg)
      BY <3>1, ComplaintIs
    <3>3. QED
      BY <3>2, ThrowsOrComplete
  <2>2. ASSUME NEW leg \in LegIndices PROVE ConfiguredLeg(configuration'[leg])
    <3> DEFINE table == script.legs[Keys[leg]]
    <3>1. Keys[leg] \in DOMAIN script.legs /\ Complete(table)
      BY <2>1 DEF LegIsComplete
    <3>2. TypedLeg(table)
      BY <2>1, <3>1, ScriptIs DEF ConfiguredInv, Readable
    <3>3. configuration'[leg] = ReadLeg(table)
      BY <1>1 DEF ComeUp
    <3> HIDE DEF table
    <3>4. ConfiguredLeg(ReadLeg(table))
      BY <3>1, <3>2, ReadLegIs
    <3>5. QED
      BY <3>3, <3>4
  <2>3. script' = script
    BY <1>1 DEF ComeUp
  <2>4. QED
    BY <2>2, <2>3 DEF ConfiguredInv
<1>2. CASE Fail
  BY <1>2 DEF Fail, ConfiguredInv
<1>3. CASE Mend
  <2>1. TypedScript(script')
    BY <1>3, MendTyped DEF ConfiguredInv
  <2>2. node' # "spinning"
    BY <1>3 DEF Mend
  <2>3. QED
    BY <2>1, <2>2 DEF ConfiguredInv
<1>4. ASSUME UNCHANGED <<script, node, configuration>> PROVE ConfiguredInv'
  BY <1>4 DEF ConfiguredInv
<1>5. QED
  BY <1>1, <1>2, <1>3, <1>4
  DEF ModelNext, modelVars, Pose, Aim, SolveJoints, SolveIntoNull, Forget

LEMMA ConfiguredInit == ModelInit => ConfiguredInv
BY ModelAssumption DEF ModelInit, ConfiguredInv

LEMMA ConfiguredInvariant == ModelSpec => []ConfiguredInv
<1>1. QED
  BY FaultInvariant, ConfiguredInit, ConfiguredStep, PTL DEF ModelSpec

-----------------------------------------------------------------------------
(* What a planner has asked for *)

(* The target of a leg is a point of its hip frame of which the roots are  *)
(* whole; where the planner took it from joints, it is their foot.         *)
IsTarget(c, where, to, triple, h) ==
  /\ h \in Points
  /\ WholeRoots(c.geometry, h)
  /\ to = ToWorld(where, ToBody(c.mount, h))
  /\ triple # Nothing =>
       triple \in LegTriples /\ h = ForwardKinematics(c.geometry, triple)

Planned ==
  /\ node = "spinning"
  /\ BodyType(body)
  /\ target = [leg \in LegIndices |-> target[leg]]
  /\ \A leg \in LegIndices :
       \E h \in Points : IsTarget(configuration[leg], body, target[leg], tried[leg], h)

IsSolved ==
  /\ joints = [leg \in LegIndices |-> Solved(leg).q]
  /\ status = [leg \in LegIndices |-> Solved(leg).status]

PlanInv ==
  /\ tried # Nothing \/ target # Nothing => Planned
  /\ joints # Nothing \/ ok = TRUE => target # Nothing /\ IsSolved
  /\ ok = TRUE => \A leg \in LegIndices : status[leg] = "Success"

LEMMA PlanInit == ModelInit => PlanInv
BY ModelAssumption DEF ModelInit, PlanInv

(* A foot that joints reach is a target.                                   *)
LEMMA FootIsTarget ==
  ASSUME NEW c, ConfiguredLeg(c), NEW triple \in LegTriples, Expressible(c.geometry, triple),
         NEW where
  PROVE  LET h == ForwardKinematics(c.geometry, triple)
         IN  IsTarget(c, where, ToWorld(where, ToBody(c.mount, h)), triple, h)
<1>1. LegType(c.geometry)
  BY DEF ConfiguredLeg
<1>2. ForwardKinematics(c.geometry, triple) \in Points
  BY <1>1, FootFrom
<1>3. WholeRoots(c.geometry, ForwardKinematics(c.geometry, triple))
  BY <1>1, RootsOfFoot
<1>4. QED
  BY <1>2, <1>3 DEF IsTarget

LEMMA PosePlanned ==
  ASSUME ConfiguredInv, NEW where \in Bodies, NEW triples \in Poses, Pose(where, triples)
  PROVE  Planned'
<1>1. /\ node = "spinning" /\ node' = "spinning" /\ body' = where
      /\ configuration' = configuration /\ tried' = triples
      /\ target' = FeetFromJoints(where, triples)
  BY DEF Pose
<1>2. BodyType(where)
  BY ModelAssumption DEF BodyType, Quaternions
<1>3. target' = [leg \in LegIndices |-> target'[leg]]
  BY <1>1 DEF FeetFromJoints
<1>4. ASSUME NEW leg \in LegIndices
      PROVE  \E h \in Points : IsTarget(configuration[leg], where, target'[leg], triples[leg], h)
  <2> DEFINE c == configuration[leg]
             triple == triples[leg]
             h == ForwardKinematics(c.geometry, triple)
  <2>1. ConfiguredLeg(c)
    BY <1>1 DEF ConfiguredInv
  <2>2. triple \in LegTriples
    BY ModelAssumption DEF LegTriples
  <2>3. Expressible(c.geometry, triple)
    BY DEF Pose
  <2>4. target'[leg] = ToWorld(where, ToBody(c.mount, h))
    BY <1>1 DEF FeetFromJoints
  <2> HIDE DEF c, triple
  <2>5. IsTarget(c, where, target'[leg], triple, h)
    BY <2>1, <2>2, <2>3, <2>4, FootIsTarget
  <2>6. h \in Points
    BY <2>5 DEF IsTarget
  <2>7. QED
    BY <2>5, <2>6 DEF c, triple
<1>5. QED
  BY <1>1, <1>2, <1>3, <1>4 DEF Planned

LEMMA RestIs ==
  ASSUME NEW leg \in LegIndices
  PROVE  Rest[leg] \in LegTriples
<1>1. NoTurn \in Angles
  BY DirectionOfNothing DEF NoTurn
<1>2. QED
  BY <1>1 DEF Rest, LegTriples

LEMMA AimPlanned ==
  ASSUME ConfiguredInv, NEW where \in Bodies, NEW one \in LegIndices, NEW point \in Aims,
         Aim(where, one, point)
  PROVE  Planned'
<1>1. /\ node = "spinning" /\ node' = "spinning" /\ body' = where
      /\ configuration' = configuration
      /\ tried' = [Rest EXCEPT ![one] = Nothing]
      /\ target' = [FeetFromJoints(where, Rest) EXCEPT ![one] =
                      ToWorld(where, ToBody(configuration[one].mount, point))]
      /\ WholeRoots(configuration[one].geometry, point)
      /\ \A other \in LegIndices \ {one} :
           Expressible(configuration[other].geometry, Rest[other])
  BY DEF Aim
<1>2. BodyType(where)
  BY ModelAssumption DEF BodyType, Quaternions
<1>3. target' = [leg \in LegIndices |-> target'[leg]]
  BY <1>1 DEF FeetFromJoints
<1>4. ASSUME NEW leg \in LegIndices
      PROVE  \E h \in Points : IsTarget(configuration[leg], where, target'[leg], tried'[leg], h)
  <2>1. CASE leg = one
    <3>1. tried'[leg] = Nothing
      BY <1>1, <2>1 DEF Rest
    <3>2. target'[leg] = ToWorld(where, ToBody(configuration[leg].mount, point))
      BY <1>1, <2>1 DEF FeetFromJoints
    <3>3. point \in Points
      BY ModelAssumption
    <3>4. IsTarget(configuration[leg], where, target'[leg], tried'[leg], point)
      BY <1>1, <2>1, <3>1, <3>2, <3>3 DEF IsTarget
    <3>5. QED
      BY <3>3, <3>4
  <2>2. CASE leg # one
    <3> DEFINE c == configuration[leg]
               triple == Rest[leg]
               h == ForwardKinematics(c.geometry, triple)
    <3>1. ConfiguredLeg(c)
      BY <1>1 DEF ConfiguredInv
    <3>2. triple \in LegTriples
      BY RestIs
    <3>3. Expressible(c.geometry, triple)
      BY <1>1, <2>2
    <3>4. tried'[leg] = triple
      BY <1>1, <2>2 DEF Rest
    <3>5. target'[leg] = ToWorld(where, ToBody(c.mount, h))
      BY <1>1, <2>2 DEF FeetFromJoints
    <3> HIDE DEF c, triple
    <3>6. IsTarget(c, where, target'[leg], triple, h)
      BY <3>1, <3>2, <3>3, <3>5, FootIsTarget
    <3>7. h \in Points
      BY <3>6 DEF IsTarget
    <3>8. QED
      BY <3>4, <3>6, <3>7 DEF c
  <2>3. QED
    BY <2>1, <2>2
<1>5. QED
  BY <1>1, <1>2, <1>3, <1>4 DEF Planned

LEMMA PlanStep ==
  ASSUME ConfiguredInv, PlanInv, [ModelNext]_modelVars
  PROVE  PlanInv'
<1>0. TRUE \in BOOLEAN /\ FALSE \in BOOLEAN /\ Nothing \notin BOOLEAN
  BY ModelAssumption
<1>1. CASE ComeUp \/ Fail \/ Mend
  <2>1. /\ node # "spinning"
        /\ UNCHANGED planVars
    BY <1>1 DEF ComeUp, Fail, Mend
  <2>2. tried = Nothing /\ target = Nothing /\ joints = Nothing /\ ok # TRUE
    BY <2>1 DEF PlanInv, Planned
  <2>3. QED
    BY <2>1, <2>2 DEF PlanInv, planVars
<1>2. ASSUME NEW where \in Bodies, NEW triples \in Poses, Pose(where, triples)
      PROVE  PlanInv'
  <2>1. target = Nothing /\ UNCHANGED <<joints, ok>>
    BY <1>2 DEF Pose
  <2>2. Planned'
    BY <1>2, PosePlanned
  <2>3. QED
    BY <2>1, <2>2 DEF PlanInv
<1>3. ASSUME NEW where \in Bodies, NEW leg \in LegIndices, NEW point \in Aims,
             Aim(where, leg, point)
      PROVE  PlanInv'
  <2>1. target = Nothing /\ UNCHANGED <<joints, ok>>
    BY <1>3 DEF Aim
  <2>2. Planned'
    BY <1>3, AimPlanned
  <2>3. QED
    BY <2>1, <2>2 DEF PlanInv
<1>4. ASSUME target # Nothing, UNCHANGED <<node, configuration, body, tried, target>>
      PROVE  /\ Planned' /\ target' # Nothing
             /\ \A leg \in LegIndices : Solved(leg)' = Solved(leg)
  BY <1>4 DEF PlanInv, Planned, Solved
<1>5. CASE SolveJoints
  <2>1. /\ Planned' /\ target' # Nothing
        /\ \A leg \in LegIndices : Solved(leg)' = Solved(leg)
    BY <1>4, <1>5 DEF SolveJoints
  <2>2. IsSolved'
    BY <1>5, <2>1 DEF SolveJoints, IsSolved
  <2>3. ok' = TRUE => \A leg \in LegIndices : status'[leg] = "Success"
    BY <1>5 DEF SolveJoints
  <2>4. QED
    BY <2>1, <2>2, <2>3 DEF PlanInv
<1>6. CASE SolveIntoNull
  <2>1. /\ Planned' /\ target' # Nothing
        /\ \A leg \in LegIndices : Solved(leg)' = Solved(leg)
    BY <1>4, <1>6 DEF SolveIntoNull
  <2>2. ok' # TRUE /\ UNCHANGED <<joints, status>>
    BY <1>6 DEF SolveIntoNull
  <2>3. joints # Nothing => IsSolved'
    BY <2>1, <2>2 DEF PlanInv, IsSolved
  <2>4. QED
    BY <2>1, <2>2, <2>3 DEF PlanInv
<1>7. CASE Forget
  BY <1>0, <1>7 DEF Forget, PlanInv
<1>8. CASE UNCHANGED modelVars
  BY <1>8 DEF modelVars, PlanInv, Planned, IsSolved, Solved
<1>9. QED
  BY <1>1, <1>2, <1>3, <1>5, <1>6, <1>7, <1>8 DEF ModelNext

LEMMA PlanInvariant == ModelSpec => []PlanInv
<1>1. QED
  BY ConfiguredInvariant, PlanInit, PlanStep, PTL DEF ModelSpec

-----------------------------------------------------------------------------
(* Feet and joints *)

(* What SolveJoints does for a leg. *)
LEMMA SolvedIs ==
  ASSUME ConfiguredInv, Planned, NEW leg \in LegIndices
  PROVE  \E h \in Points :
           /\ IsTarget(configuration[leg], body, target[leg], tried[leg], h)
           /\ Solved(leg) = InverseKinematics(configuration[leg].geometry, h)
<1> DEFINE c == configuration[leg]
<1>1. ConfiguredLeg(c)
  BY DEF ConfiguredInv, Planned
<1>2. PICK h \in Points : IsTarget(c, body, target[leg], tried[leg], h)
  BY DEF Planned
<1>3. ToBody(c.mount, h) \in Points /\ ToHip(c.mount, ToBody(c.mount, h)) = h
  BY <1>1, HipFrame DEF ConfiguredLeg
<1>4. Rotated(WorldToBody(body), Difference(target[leg], body.position)) = ToBody(c.mount, h)
  BY <1>2, <1>3, WorldFrame DEF IsTarget, Planned
<1>5. Solved(leg) = InverseKinematics(c.geometry, h)
  BY <1>3, <1>4 DEF Solved
<1>6. QED
  BY <1>2, <1>5

LEMMA FeetLand ==
  ASSUME ConfiguredInv, PlanInv
  PROVE  FeetLandOnTarget
<1>1. ASSUME Planned, IsSolved, NEW leg \in LegIndices, status[leg] # "Unreachable"
      PROVE  /\ FeetFromJoints(body, joints)[leg] = target[leg]
             /\ status[leg] = "Success" =>
                  WithinLimits(configuration[leg].geometry, joints[leg])
  <2> DEFINE c == configuration[leg]
             g == c.geometry
  <2>1. PICK h \in Points :
          /\ IsTarget(c, body, target[leg], tried[leg], h)
          /\ Solved(leg) = InverseKinematics(g, h)
    BY <1>1, SolvedIs
  <2>2. LegType(g)
    BY <1>1 DEF ConfiguredInv, Planned, ConfiguredLeg
  <2>3. joints[leg] = Solved(leg).q /\ status[leg] = Solved(leg).status
    BY <1>1 DEF IsSolved
  <2>4. WholeRoots(g, h) /\ target[leg] = ToWorld(body, ToBody(c.mount, h))
    BY <2>1 DEF IsTarget
  <2>5. FeetFromJoints(body, joints)[leg]
          = ToWorld(body, ToBody(c.mount, ForwardKinematics(g, joints[leg])))
    BY <1>1 DEF FeetFromJoints
  <2> HIDE DEF c, g
  <2>6. IsReached(g, h)
    <3>1. SUFFICES ASSUME ~IsReached(g, h) PROVE FALSE
      OBVIOUS
    <3>2. Solved(leg) = Unreachable
      BY <2>1, <2>2, <3>1, InverseIs
    <3>3. QED
      BY <1>1, <2>3, <3>2 DEF Unreachable
  <2>7. /\ joints[leg] = JointsTo(g, h)
        /\ status[leg] = IF WithinLimits(g, joints[leg]) THEN "Success" ELSE "LimitViolation"
    BY <2>1, <2>2, <2>3, <2>6, InverseIs
  <2>8. ForwardKinematics(g, joints[leg]) = h
    BY <2>2, <2>4, <2>6, <2>7, LandsOnTarget
  <2>9. FeetFromJoints(body, joints)[leg] = target[leg]
    BY <2>4, <2>5, <2>8
  <2>10. QED
    BY <2>7, <2>9 DEF c, g
<1>2. ASSUME joints # Nothing, NEW leg \in LegIndices, status[leg] # "Unreachable"
      PROVE  FeetFromJoints(body, joints)[leg] = target[leg]
  BY <1>1, <1>2 DEF PlanInv
<1>3. ASSUME ok = TRUE
      PROVE  /\ FeetFromJoints(body, joints) = target
             /\ \A leg \in LegIndices :
                  WithinLimits(configuration[leg].geometry, joints[leg])
  <2>1. /\ Planned /\ IsSolved
        /\ \A leg \in LegIndices : status[leg] = "Success"
    BY <1>3 DEF PlanInv
  <2>2. \A leg \in LegIndices :
          /\ FeetFromJoints(body, joints)[leg] = target[leg]
          /\ WithinLimits(configuration[leg].geometry, joints[leg])
    BY <1>1, <2>1
  <2>3. target = [leg \in LegIndices |-> target[leg]]
    BY <2>1 DEF Planned
  <2>4. FeetFromJoints(body, joints)
          = [leg \in LegIndices |-> FeetFromJoints(body, joints)[leg]]
    BY DEF FeetFromJoints
  <2>5. QED
    BY <2>2, <2>3, <2>4
<1>4. QED
  BY <1>2, <1>3 DEF FeetLandOnTarget

LEMMA ComeBack ==
  ASSUME ConfiguredInv, PlanInv
  PROVE  JointsComeBack
<1> SUFFICES ASSUME joints # Nothing, NEW leg \in LegIndices,
                    tried[leg] # Nothing,
                    OnBranch(configuration[leg].geometry, tried[leg])
             PROVE  /\ joints[leg] = tried[leg]
                    /\ status[leg] = IF WithinLimits(configuration[leg].geometry, tried[leg])
                                     THEN "Success" ELSE "LimitViolation"
  BY DEF JointsComeBack
<1> DEFINE c == configuration[leg]
           g == c.geometry
           q == tried[leg]
<1>1. Planned /\ IsSolved
  BY DEF PlanInv
<1>2. PICK h \in Points :
        /\ IsTarget(c, body, target[leg], q, h)
        /\ Solved(leg) = InverseKinematics(g, h)
  BY <1>1, SolvedIs
<1>3. LegType(g) /\ IsUsable(g)
  BY <1>1 DEF ConfiguredInv, Planned, ConfiguredLeg
<1>4. joints[leg] = Solved(leg).q /\ status[leg] = Solved(leg).status
  BY <1>1 DEF IsSolved
<1>5. q \in LegTriples /\ h = ForwardKinematics(g, q)
  BY <1>2 DEF IsTarget
<1>6. /\ Minus(ToLegAngles(g, q).tibia, ToLegAngles(g, q).femur).y < 0
      /\ Arm(g, ToLegAngles(g, q)).reach > 0
  BY DEF OnBranch
<1> HIDE DEF c, g, q
<1>7. IsReached(g, h) /\ JointsTo(g, h) = q
  BY <1>3, <1>5, <1>6, JointsReturn
<1>8. Solved(leg) = [q |-> q, status |-> IF WithinLimits(g, q) THEN "Success"
                                         ELSE "LimitViolation"]
  BY <1>2, <1>3, <1>7, InverseIs
<1>9. joints[leg] = q /\ status[leg] = IF WithinLimits(g, q) THEN "Success"
                                       ELSE "LimitViolation"
  BY <1>4, <1>8
<1>10. QED
  BY <1>9 DEF g, c, q

(* Every foot that is not out of reach lands on its target, and all do,    *)
(* within the travel of every joint, when SolveJoints says so: for every   *)
(* robot, body pose and target of which the roots are whole.               *)
THEOREM ModelFeetLand == ModelSpec => []FeetLandOnTarget
<1>1. QED
  BY ConfiguredInvariant, PlanInvariant, FeetLand, PTL

(* On the branch that the code takes, the joints of every foot come back   *)
(* from where they put it, and are held against their own limits.          *)
THEOREM ModelJointsComeBack == ModelSpec => []JointsComeBack
<1>1. QED
  BY ConfiguredInvariant, PlanInvariant, ComeBack, PTL

-----------------------------------------------------------------------------
(* The velocity of the foot *)

(* sigma times axis x lever, over r, as JacobianIsVelocity takes it.       *)
Velocity(sigma, axis, r, lever) ==
  LET v == CrossProduct(axis, lever.v)
  IN  Point(<<sigma * v[1], sigma * v[2], sigma * v[3]>>, r * lever.d)

HasVelocity(p, sigma, a, b, c, r, x, y, z, D) ==
  At(p, sigma * (b * z - c * y), sigma * (c * x - a * z), sigma * (a * y - b * x), r * D)

LEMMA VelocityAt ==
  ASSUME NEW sigma \in Int, NEW a \in Int, NEW b \in Int, NEW c \in Int,
         NEW r \in Nat, r > 0,
         NEW x \in Int, NEW y \in Int, NEW z \in Int, NEW D \in Int, D # 0,
         NEW lever, At(lever, x, y, z, D)
  PROVE  HasVelocity(Velocity(sigma, <<a, b, c>>, r, lever), sigma, a, b, c, r, x, y, z, D)
<1> DEFINE p == lever.v[1]
           q == lever.v[2]
           s == lever.v[3]
           d == lever.d
           u1 == sigma * (b * s - c * q)
           u2 == sigma * (c * p - a * s)
           u3 == sigma * (a * q - b * p)
           v1 == sigma * (b * z - c * y)
           v2 == sigma * (c * x - a * z)
           v3 == sigma * (a * y - b * x)
           u == <<u1, u2, u3>>
           E == r * d
           F == r * D
<1>1. /\ p \in Int /\ q \in Int /\ s \in Int /\ d \in Nat /\ d > 0 /\ d \in Int
      /\ Ratio(p, d, x, D) /\ Ratio(q, d, y, D) /\ Ratio(s, d, z, D)
  BY AtType
<1>2. Velocity(sigma, <<a, b, c>>, r, lever) = Point(u, E)
  BY DEF Velocity, CrossProduct
<1> HIDE DEF p, q, s, d
<1>3. /\ u1 \in Int /\ u2 \in Int /\ u3 \in Int /\ v1 \in Int /\ v2 \in Int /\ v3 \in Int
      /\ E \in Nat /\ E > 0 /\ E \in Int /\ E # 0 /\ F \in Int
  BY <1>1
<1>4. ASSUME NEW k \in Int, NEW l \in Int, NEW m \in Int
      PROVE  Ratio(k * p + l * q + m * s, E, k * x + l * y + m * z, F)
  <2>1. r \in Int
    OBVIOUS
  <2>2. RowRatio(k, l, m, r, p, q, s, d, x, y, z, D)
    BY <1>1, <1>4, <2>1, RatioOfRow
  <2>3. QED
    BY <2>2 DEF RowRatio
<1>5. Ratio(u1, E, v1, F)
  <2> DEFINE l == sigma * (-c)
             m == sigma * b
  <2>1. l \in Int /\ m \in Int
    OBVIOUS
  <2>2. u1 = 0 * p + l * q + m * s /\ v1 = 0 * x + l * y + m * z
    BY <1>1
  <2> HIDE DEF l, m, u1, v1, E, F
  <2>3. Ratio(0 * p + l * q + m * s, E, 0 * x + l * y + m * z, F)
    BY <1>4, <2>1
  <2>4. QED
    BY <2>2, <2>3
<1>6. Ratio(u2, E, v2, F)
  <2> DEFINE k == sigma * c
             m == sigma * (-a)
  <2>1. k \in Int /\ m \in Int
    OBVIOUS
  <2>2. u2 = k * p + 0 * q + m * s /\ v2 = k * x + 0 * y + m * z
    BY <1>1
  <2> HIDE DEF k, m, u2, v2, E, F
  <2>3. Ratio(k * p + 0 * q + m * s, E, k * x + 0 * y + m * z, F)
    BY <1>4, <2>1
  <2>4. QED
    BY <2>2, <2>3
<1>7. Ratio(u3, E, v3, F)
  <2> DEFINE k == sigma * (-b)
             l == sigma * a
  <2>1. k \in Int /\ l \in Int
    OBVIOUS
  <2>2. u3 = k * p + l * q + 0 * s /\ v3 = k * x + l * y + 0 * z
    BY <1>1
  <2> HIDE DEF k, l, u3, v3, E, F
  <2>3. Ratio(k * p + l * q + 0 * s, E, k * x + l * y + 0 * z, F)
    BY <1>4, <2>1
  <2>4. QED
    BY <2>2, <2>3
<1>8. u[1] = u1 /\ u[2] = u2 /\ u[3] = u3
  OBVIOUS
<1> HIDE DEF u1, u2, u3, v1, v2, v3, u, E, F
<1>9. At(Point(u, E), u1, u2, u3, E)
  BY <1>3, <1>8, PointIs
<1>10. At(Point(u, E), v1, v2, v3, F)
  BY <1>3, <1>5, <1>6, <1>7, <1>9, AtTrans
<1>11. QED
  BY <1>2, <1>10 DEF HasVelocity, v1, v2, v3, F

(* A lever in the plane of the leg, which turns about the axis across it.  *)
InPlane(lever, C, along, up, den) ==
  At(lever, along * C.x, along * C.y, up * C.r, den * C.r)

IsColumn(C, sigma, along, up, den, lever) ==
  Velocity(sigma, <<C.y, -C.x, 0>>, C.r, lever)
    = Turned(C, -sigma * up, 0, sigma * along, den)

LEMMA ColumnIs ==
  ASSUME NEW C \in Angles, NEW sigma \in Int, NEW along \in Int, NEW up \in Int,
         NEW den \in Nat, den > 0,
         NEW lever, InPlane(lever, C, along, up, den)
  PROVE  IsColumn(C, sigma, along, up, den, lever)
<1> DEFINE x == C.x
           y == C.y
           r == C.r
           D == den * r
           X == along * x
           Y == along * y
           Z == up * r
           p == -sigma * up
           q == sigma * along
           V == Velocity(sigma, <<y, -x, 0>>, r, lever)
           T == Turned(C, p, 0, q, den)
<1>1. /\ x \in Int /\ y \in Int /\ r \in Nat /\ r > 0 /\ r \in Int /\ r # 0
      /\ x * x + y * y = r * r
  BY AngleType
<1>2. At(lever, X, Y, Z, D)
  BY DEF InPlane
<1>3. p \in Int /\ q \in Int
  OBVIOUS
<1>4. /\ X \in Int /\ Y \in Int /\ Z \in Int /\ D \in Int /\ D # 0
      /\ -x \in Int
  <2>1. D \in Int /\ D # 0
    BY <1>1, NotZero
  <2>2. QED
    BY <1>1, <2>1
<1>5. At(V, sigma * ((-x) * Z - 0 * Y), sigma * (0 * X - y * Z), sigma * (y * Y - (-x) * X), r * D)
  <2> DEFINE b == -x
  <2> HIDE DEF x, y, r, X, Y, Z, D, b
  <2>1. b \in Int /\ 0 \in Int
    BY <1>4 DEF b
  <2>2. HasVelocity(Velocity(sigma, <<y, b, 0>>, r, lever), sigma, y, b, 0, r, X, Y, Z, D)
    BY <1>1, <1>2, <1>4, <2>1, VelocityAt
  <2>3. QED
    BY <2>2 DEF HasVelocity, b
<1>6. At(T, Re(p, 0, x, y), Im(p, 0, x, y), q * r, D)
  <2> HIDE DEF p, q
  <2>1. QED
    BY <1>3, TurnedAt
<1>7. /\ r * Re(p, 0, x, y) = sigma * ((-x) * Z - 0 * Y)
      /\ r * Im(p, 0, x, y) = sigma * (0 * X - y * Z)
      /\ r * (q * r) = sigma * (y * Y - (-x) * X)
  <2> HIDE DEF x, y, r
  <2>1. r * Re(p, 0, x, y) = sigma * ((-x) * Z - 0 * Y)
    BY <1>1 DEF Re
  <2>2. r * Im(p, 0, x, y) = sigma * (0 * X - y * Z)
    BY <1>1 DEF Im
  <2>3. r * (q * r) = sigma * (y * Y - (-x) * X)
    <3>1. r * (q * r) = (sigma * along) * (x * x + y * y)
      <4>1. r * (q * r) = (sigma * along) * (r * r)
        BY <1>1
      <4>2. QED
        BY <1>1, <4>1
    <3>2. sigma * (y * Y - (-x) * X) = (sigma * along) * (x * x + y * y)
      BY <1>1
    <3>3. QED
      BY <3>1, <3>2
  <2>4. QED
    BY <2>1, <2>2, <2>3
<1> DEFINE U == Re(p, 0, x, y)
           W == Im(p, 0, x, y)
           Q == q * r
<1>8. U \in Int /\ W \in Int /\ Q \in Int
  <2>1. 0 \in Int
    OBVIOUS
  <2> HIDE DEF p, q, x, y, r
  <2>2. U \in Int /\ W \in Int
    BY <1>1, <1>3, <2>1, ProductType
  <2>3. Q \in Int
    BY <1>1, <1>3
  <2>4. QED
    BY <2>2, <2>3
<1>9. At(V, r * U, r * W, r * Q, r * D)
  BY <1>5, <1>7
<1>10. At(T, U, W, Q, D)
  BY <1>6
<1> HIDE DEF U, W, Q, V, T, D, r
<1>11. At(V, U, W, Q, D)
  BY <1>1, <1>4, <1>8, <1>9, AtScale
<1>12. V = T
  BY <1>4, <1>8, <1>10, <1>11, PointUnique
<1>13. QED
  BY <1>12 DEF IsColumn, V, T, r

(* The pivots of the femur and of the tibia, as JacobianIsVelocity takes   *)
(* them.                                                                   *)
Hip(geometry, angles) ==
  Turned(angles.coxa, geometry.coxa_length, geometry.lateral_offset, 0, 1)

Knee(geometry, angles) ==
  Sum(Hip(geometry, angles),
      Turned(angles.coxa, geometry.femur_length * angles.femur.x, 0,
             geometry.femur_length * angles.femur.y, angles.femur.r))

(* From the pivots to the foot, in the plane of the leg.                   *)
LEMMA LeversAre ==
  ASSUME NEW geometry, LegType(geometry), NEW q \in LegTriples
  PROVE  LET angles == ToLegAngles(geometry, q)
             C == angles.coxa
             arm == Arm(geometry, angles)
             foot == ForwardKinematics(geometry, q)
             linksAlong == arm.reach - geometry.coxa_length * arm.den
             D == arm.den * C.r
         IN  /\ At(Difference(foot, Hip(geometry, angles)),
                   linksAlong * C.x, linksAlong * C.y, arm.height * C.r, D)
             /\ At(Difference(foot, Knee(geometry, angles)),
                   arm.tibiaAlong * C.x, arm.tibiaAlong * C.y, arm.tibiaUp * C.r, D)
<1> DEFINE angles == ToLegAngles(geometry, q)
           C == angles.coxa
           F == angles.femur
           T == angles.tibia
           arm == Arm(geometry, angles)
           foot == ForwardKinematics(geometry, q)
           hip == Hip(geometry, angles)
           c == geometry.coxa_length
           o == geometry.lateral_offset
           f == geometry.femur_length
           t == geometry.tibia_length
           thigh == Turned(C, f * F.x, 0, f * F.y, F.r)
           den == arm.den
           reach == arm.reach
           lateral == arm.lateral
           height == arm.height
           along == arm.tibiaAlong
           up == arm.tibiaUp
           links == reach - c * den
           x == C.x
           y == C.y
           r == C.r
           D == den * r
<1>1. IsTurned(angles) /\ C \in Angles /\ F \in Angles /\ T \in Angles
  BY AnglesGiveJoints DEF LegType, IsTurned
<1>2. /\ x \in Int /\ y \in Int /\ r \in Int /\ r # 0
      /\ F.x \in Int /\ F.y \in Int /\ F.r \in Nat /\ F.r > 0 /\ F.r \in Int /\ F.r # 0
      /\ T.x \in Int /\ T.y \in Int /\ T.r \in Int /\ T.r # 0
  BY <1>1, AngleType
<1>3. /\ den \in Int /\ den # 0 /\ reach \in Int /\ height \in Int /\ lateral \in Int
      /\ along \in Int /\ up \in Int
  BY <1>1, ArmType
<1>4. c \in Int /\ o \in Int /\ f \in Int /\ t \in Int
  BY DEF LegType
<1>5. /\ den = F.r * T.r /\ lateral = o * den
      /\ reach = c * den + (f * T.r) * F.x + (t * F.r) * T.x
      /\ height = (f * T.r) * F.y + (t * F.r) * T.y
      /\ along = (t * F.r) * T.x /\ up = (t * F.r) * T.y
  BY DEF Arm
<1>6. At(foot, Re(reach, lateral, x, y), Im(reach, lateral, x, y), height * r, D)
  BY <1>1, FootAt
<1>7. At(hip, Re(c, o, x, y), Im(c, o, x, y), 0 * r, 1 * r)
  BY <1>1, <1>4, TurnedAt DEF Hip
<1>8. At(thigh, Re(f * F.x, 0, x, y), Im(f * F.x, 0, x, y), (f * F.y) * r, F.r * r)
  <2> DEFINE a == f * F.x
             b == f * F.y
             n == F.r
  <2>1. a \in Int /\ b \in Int /\ 0 \in Int /\ n \in Nat /\ n > 0
    BY <1>2, <1>4
  <2> HIDE DEF a, b, n, C
  <2>2. At(Turned(C, a, 0, b, n), Re(a, 0, x, y), Im(a, 0, x, y), b * r, n * r)
    BY <1>1, <2>1, TurnedAt
  <2>3. QED
    BY <2>2 DEF a, b, n
<1>9. Knee(geometry, angles) = Sum(hip, thigh)
  BY DEF Knee
<1> HIDE DEF angles, C, F, T, arm, foot, hip, c, o, f, t, thigh, den, reach, lateral, height,
             along, up, x, y, r
<1> DEFINE X == Re(reach, lateral, x, y)
           Y == Im(reach, lateral, x, y)
           Z == height * r
           U == den * Re(c, o, x, y)
           V == den * Im(c, o, x, y)
           W == 0
           u == T.r * Re(f * F.x, 0, x, y)
           v == T.r * Im(f * F.x, 0, x, y)
           w == T.r * ((f * F.y) * r)
<1>10. /\ D \in Int /\ D # 0
  BY <1>2, <1>3, NotZero
<1>11. /\ X \in Int /\ Y \in Int /\ Z \in Int
       /\ U \in Int /\ V \in Int /\ W \in Int
       /\ u \in Int /\ v \in Int /\ w \in Int
  <2>1. X \in Int /\ Y \in Int /\ Z \in Int
    <3>1. X \in Int /\ Y \in Int
      BY <1>2, <1>3, ProductType
    <3>2. Z \in Int
      BY <1>2, <1>3
    <3>3. QED
      BY <3>1, <3>2
  <2>2. U \in Int /\ V \in Int /\ W \in Int
    <3>1. Re(c, o, x, y) \in Int /\ Im(c, o, x, y) \in Int
      BY <1>2, <1>4, ProductType
    <3>2. QED
      BY <1>3, <3>1
  <2>3. u \in Int /\ v \in Int /\ w \in Int
    <3> DEFINE a == f * F.x
    <3>1. a \in Int /\ 0 \in Int
      BY <1>2, <1>4
    <3> HIDE DEF a
    <3>2. Re(a, 0, x, y) \in Int /\ Im(a, 0, x, y) \in Int
      BY <1>2, <3>1, ProductType
    <3>3. w \in Int
      BY <1>2, <1>4
    <3>4. QED
      BY <1>2, <3>2, <3>3 DEF a
  <2>4. QED
    BY <2>1, <2>2, <2>3
<1>12. At(hip, U, V, W, D)
  <2> DEFINE M == Re(c, o, x, y)
             N == Im(c, o, x, y)
             K == 0
  <2>1. 0 * r = K /\ 1 * r = r /\ den * K = W
    BY <1>2, <1>3
  <2>2. At(hip, M, N, K, r)
    BY <1>7, <2>1
  <2>3. M \in Int /\ N \in Int
    BY <1>2, <1>4, ProductType
  <2>4. K \in Int
    OBVIOUS
  <2> HIDE DEF M, N, K, W
  <2>5. At(hip, den * M, den * N, den * K, den * r)
    BY <1>2, <1>3, <2>2, <2>3, <2>4, AtScale
  <2>6. QED
    BY <2>1, <2>5 DEF M, N
<1>13. At(thigh, u, v, w, D)
  <2> DEFINE a == f * F.x
             M == Re(a, 0, x, y)
             N == Im(a, 0, x, y)
             K == (f * F.y) * r
             E == F.r * r
  <2>1. a \in Int /\ K \in Int /\ E \in Int /\ 0 \in Int
    BY <1>2, <1>4
  <2>2. At(thigh, M, N, K, E)
    BY <1>8
  <2>3. T.r * E = D
    BY <1>2, <1>5
  <2>4. u = T.r * M /\ v = T.r * N /\ w = T.r * K
    OBVIOUS
  <2> HIDE DEF a
  <2>5. M \in Int /\ N \in Int
    BY <1>2, <2>1, ProductType
  <2> HIDE DEF M, N, K, E, u, v, w, D
  <2>6. At(thigh, T.r * M, T.r * N, T.r * K, T.r * E)
    BY <1>2, <2>1, <2>2, <2>5, AtScale
  <2>7. QED
    BY <2>3, <2>4, <2>6
<1>14. X - U = links * x /\ Y - V = links * y /\ Z - W = height * r
  <2>1. X - U = links * x /\ Y - V = links * y
    <3>1. lateral = o * den
      BY <1>5
    <3>2. /\ (reach * x - (o * den) * y) - den * (c * x - o * y) = (reach - c * den) * x
          /\ (reach * y + (o * den) * x) - den * (c * y + o * x) = (reach - c * den) * y
      BY <1>2, <1>3, <1>4
    <3>3. QED
      BY <3>1, <3>2 DEF Re, Im
  <2>2. Z - W = height * r
    BY <1>2, <1>3
  <2>3. QED
    BY <2>1, <2>2
<1>15. X - (U + u) = along * x /\ Y - (V + v) = along * y /\ Z - (W + w) = up * r
  <2>1. links = f * T.r * F.x + along
    <3>1. c * den \in Int /\ (f * T.r) * F.x \in Int /\ (t * F.r) * T.x \in Int
      BY <1>2, <1>3, <1>4
    <3>2. \A i, j, k \in Int : (i + j + k) - i = j + k
      OBVIOUS
    <3>3. QED
      BY <1>5, <3>1, <3>2
  <2>2. u = (f * T.r * F.x) * x /\ v = (f * T.r * F.x) * y
    BY <1>2, <1>4 DEF Re, Im
  <2>3. X - (U + u) = (X - U) - u /\ Y - (V + v) = (Y - V) - v
    BY <1>11
  <2>4. /\ (f * T.r * F.x + along) * x - (f * T.r * F.x) * x = along * x
        /\ (f * T.r * F.x + along) * y - (f * T.r * F.x) * y = along * y
    BY <1>2, <1>3, <1>4
  <2>5. X - (U + u) = along * x /\ Y - (V + v) = along * y
    BY <1>14, <2>1, <2>2, <2>3, <2>4
  <2>6. Z - (W + w) = up * r
    BY <1>2, <1>3, <1>4, <1>5
  <2>7. QED
    BY <2>5, <2>6
<1> HIDE DEF X, Y, Z, U, V, W, u, v, w, D
<1>16. At(Difference(foot, hip), X - U, Y - V, Z - W, D)
  BY <1>6, <1>10, <1>11, <1>12, SumAt DEF X, Y, Z
<1>17. At(Difference(foot, Sum(hip, thigh)), X - (U + u), Y - (V + v), Z - (W + w), D)
  <2> DEFINE knee == Sum(hip, thigh)
             K == U + u
             L == V + v
             M == W + w
  <2>1. At(knee, K, L, M, D)
    BY <1>10, <1>11, <1>12, <1>13, SumAt
  <2>2. K \in Int /\ L \in Int /\ M \in Int
    BY <1>11
  <2>3. At(foot, X, Y, Z, D)
    BY <1>6 DEF X, Y, Z, D
  <2> HIDE DEF knee, K, L, M
  <2>4. At(Difference(foot, knee), X - K, Y - L, Z - M, D)
    BY <1>10, <1>11, <2>1, <2>2, <2>3, SumAt
  <2>5. QED
    BY <2>4 DEF knee, K, L, M
<1>18. QED
  BY <1>9, <1>14, <1>15, <1>16, <1>17
  DEF angles, C, arm, foot, hip, c, den, reach, height, along, up, x, y, r, D

(* The coxa turns the foot about the hip frame's axis.                     *)
LEMMA CoxaColumn ==
  ASSUME NEW geometry, LegType(geometry), NEW q \in LegTriples
  PROVE  LET angles == ToLegAngles(geometry, q)
             arm == Arm(geometry, angles)
             sigma == geometry.sigma_coxa
         IN  Velocity(sigma, <<0, 0, 1>>, 1, Difference(ForwardKinematics(geometry, q), Origin))
               = Turned(angles.coxa, -sigma * arm.lateral, sigma * arm.reach, 0, arm.den)
<1> DEFINE angles == ToLegAngles(geometry, q)
           C == angles.coxa
           arm == Arm(geometry, angles)
           foot == ForwardKinematics(geometry, q)
           lever == Difference(foot, Origin)
           sigma == geometry.sigma_coxa
           den == arm.den
           reach == arm.reach
           lateral == arm.lateral
           x == C.x
           y == C.y
           r == C.r
           D == den * r
           X == Re(reach, lateral, x, y)
           Y == Im(reach, lateral, x, y)
           Z == arm.height * r
           p == -sigma * lateral
           s == sigma * reach
           V == Velocity(sigma, <<0, 0, 1>>, 1, lever)
           T == Turned(C, p, s, 0, den)
<1>1. IsTurned(angles) /\ C \in Angles
  BY AnglesGiveJoints DEF LegType, IsTurned
<1>2. x \in Int /\ y \in Int /\ r \in Int /\ r # 0
  BY <1>1, AngleType
<1>3. /\ den \in Int /\ den # 0 /\ den \in Nat /\ den > 0 /\ reach \in Int /\ lateral \in Int
      /\ arm.height \in Int
  BY <1>1, ArmType
<1>4. sigma \in Int
  BY DEF LegType
<1>5. At(foot, X, Y, Z, D)
  BY <1>1, FootAt
<1>6. D \in Int /\ D # 0
  BY <1>2, <1>3, NotZero
<1>7. X \in Int /\ Y \in Int
  BY <1>2, <1>3, ProductType
<1>8. Z \in Int /\ p \in Int /\ s \in Int
  BY <1>2, <1>3, <1>4
<1> HIDE DEF X, Y, Z, D
<1>9. At(lever, X, Y, Z, D)
  <2> DEFINE n == 0
             one == 1
             v == <<n, n, n>>
  <2>1. n \in Int /\ one \in Nat /\ one > 0 /\ one \in Int /\ v[1] = n /\ v[2] = n /\ v[3] = n
    OBVIOUS
  <2>2. Origin = Point(v, one)
    BY DEF Origin
  <2>3. D * n = n /\ D * one = D /\ X - n = X /\ Y - n = Y /\ Z - n = Z
    BY <1>6, <1>7, <1>8
  <2> HIDE DEF n, one, v
  <2>4. At(Origin, n, n, n, one)
    BY <2>1, <2>2, PointIs
  <2>5. At(Origin, D * n, D * n, D * n, D * one)
    BY <1>6, <2>1, <2>4, AtScale
  <2>6. At(Origin, n, n, n, D)
    BY <2>3, <2>5
  <2> HIDE DEF foot
  <2>7. At(lever, X - n, Y - n, Z - n, D)
    BY <1>5, <1>6, <1>7, <1>8, <2>1, <2>6, SumAt
  <2>8. QED
    BY <2>3, <2>7
<1>10. HasVelocity(V, sigma, 0, 0, 1, 1, X, Y, Z, D)
  <2> DEFINE n == 0
             one == 1
  <2>1. n \in Int /\ one \in Int /\ one \in Nat /\ one > 0
    OBVIOUS
  <2> HIDE DEF n, one, lever, sigma
  <2>2. HasVelocity(Velocity(sigma, <<n, n, one>>, one, lever), sigma, n, n, one, one, X, Y, Z, D)
    BY <1>4, <1>6, <1>7, <1>8, <1>9, <2>1, VelocityAt
  <2>3. QED
    BY <2>2 DEF n, one, sigma
<1>11. At(V, sigma * (-Y), sigma * X, 0, D)
  <2>1. /\ sigma * (0 * Z - 1 * Y) = sigma * (-Y)
        /\ sigma * (1 * X - 0 * Z) = sigma * X
        /\ sigma * (0 * Y - 0 * X) = 0
        /\ 1 * D = D
    BY <1>4, <1>6, <1>7, <1>8
  <2>2. At(V, sigma * (0 * Z - 1 * Y), sigma * (1 * X - 0 * Z), sigma * (0 * Y - 0 * X), 1 * D)
    BY <1>10 DEF HasVelocity
  <2> HIDE DEF V, sigma
  <2>3. QED
    BY <2>1, <2>2
<1>12. At(T, Re(p, s, x, y), Im(p, s, x, y), 0, D)
  <2> DEFINE n == 0
  <2>1. n \in Int /\ n * r = n
    BY <1>2
  <2> HIDE DEF n, C, p, s, den
  <2>2. At(Turned(C, p, s, n, den), Re(p, s, C.x, C.y), Im(p, s, C.x, C.y), n * C.r, den * C.r)
    BY <1>1, <1>3, <1>8, <2>1, TurnedAt
  <2>3. QED
    BY <2>1, <2>2 DEF n, D
<1>13. Re(p, s, x, y) = sigma * (-Y) /\ Im(p, s, x, y) = sigma * X
  <2> HIDE DEF x, y, sigma, reach, lateral
  <2>1. QED
    BY <1>2, <1>3, <1>4 DEF Re, Im, X, Y
<1> DEFINE u == sigma * (-Y)
           v == sigma * X
<1>14. u \in Int /\ v \in Int /\ 0 \in Int
  BY <1>4, <1>7
<1>15. At(V, u, v, 0, D) /\ At(T, u, v, 0, D)
  BY <1>11, <1>12, <1>13
<1> HIDE DEF u, v, V, T
<1>16. V = T
  BY <1>6, <1>14, <1>15, PointUnique
<1>17. QED
  BY <1>16 DEF V, T

(* The columns of the Jacobian are the velocities that the joints give to  *)
(* the foot, for every leg and all its joints.                             *)
LEMMA Columns ==
  ASSUME NEW geometry, LegType(geometry), NEW q \in LegTriples
  PROVE  LET angles == ToLegAngles(geometry, q)
             foot == ForwardKinematics(geometry, q)
             sideways == <<angles.coxa.y, -angles.coxa.x, 0>>
         IN  Jacobian(geometry, q) =
               << Velocity(geometry.sigma_coxa, <<0, 0, 1>>, 1, Difference(foot, Origin)),
                  Velocity(SigmaFemur, sideways, angles.coxa.r,
                           Difference(foot, Hip(geometry, angles))),
                  Velocity(SigmaTibia, sideways, angles.coxa.r,
                           Difference(foot, Knee(geometry, angles))) >>
<1> DEFINE angles == ToLegAngles(geometry, q)
           C == angles.coxa
           arm == Arm(geometry, angles)
           foot == ForwardKinematics(geometry, q)
           sideways == <<C.y, -C.x, 0>>
           links == arm.reach - geometry.coxa_length * arm.den
           hip == Hip(geometry, angles)
           knee == Knee(geometry, angles)
           sigma == geometry.sigma_coxa
<1>1. IsTurned(angles) /\ C \in Angles
  BY AnglesGiveJoints DEF LegType, IsTurned
<1>2. /\ arm.den \in Int /\ arm.den \in Nat /\ arm.den > 0 /\ arm.reach \in Int
      /\ arm.height \in Int /\ arm.tibiaAlong \in Int /\ arm.tibiaUp \in Int
  BY <1>1, ArmType
<1>3. links \in Int
  BY <1>2 DEF LegType
<1>4. SigmaFemur \in Int /\ SigmaTibia \in Int
  BY DEF SigmaFemur, SigmaTibia
<1>5. /\ At(Difference(foot, hip), links * C.x, links * C.y, arm.height * C.r, arm.den * C.r)
      /\ At(Difference(foot, knee), arm.tibiaAlong * C.x, arm.tibiaAlong * C.y,
            arm.tibiaUp * C.r, arm.den * C.r)
  BY LeversAre
<1>6. Jacobian(geometry, q)
        = << Turned(C, -sigma * arm.lateral, sigma * arm.reach, 0, arm.den),
             Turned(C, -SigmaFemur * arm.height, 0, SigmaFemur * links, arm.den),
             Turned(C, -SigmaTibia * arm.tibiaUp, 0, SigmaTibia * arm.tibiaAlong, arm.den) >>
  BY DEF Jacobian
<1>7. Velocity(sigma, <<0, 0, 1>>, 1, Difference(foot, Origin))
        = Turned(C, -sigma * arm.lateral, sigma * arm.reach, 0, arm.den)
  BY CoxaColumn
<1> DEFINE height == arm.height
           den == arm.den
           along == arm.tibiaAlong
           up == arm.tibiaUp
           femur == Difference(foot, hip)
           tibia == Difference(foot, knee)
<1>8. InPlane(femur, C, links, height, den) /\ InPlane(tibia, C, along, up, den)
  BY <1>5 DEF InPlane
<1>9. height \in Int /\ den \in Nat /\ den > 0 /\ along \in Int /\ up \in Int
  BY <1>2
<1> HIDE DEF angles, C, arm, foot, links, hip, knee, sigma, height, den, along, up, femur, tibia
<1>10. IsColumn(C, SigmaFemur, links, height, den, femur)
  BY <1>1, <1>3, <1>4, <1>8, <1>9, ColumnIs
<1>11. IsColumn(C, SigmaTibia, along, up, den, tibia)
  BY <1>1, <1>4, <1>8, <1>9, ColumnIs
<1>12. Velocity(SigmaFemur, sideways, C.r, Difference(foot, hip))
         = Turned(C, -SigmaFemur * arm.height, 0, SigmaFemur * links, arm.den)
  BY <1>10 DEF IsColumn, femur, height, den
<1>13. Velocity(SigmaTibia, sideways, C.r, Difference(foot, knee))
         = Turned(C, -SigmaTibia * arm.tibiaUp, 0, SigmaTibia * arm.tibiaAlong, arm.den)
  BY <1>11 DEF IsColumn, tibia, along, up, den
<1>14. QED
  BY <1>6, <1>7, <1>12, <1>13 DEF angles, C, foot, hip, knee, sigma

LEMMA VelocityIs ==
  ASSUME ConfiguredInv, PlanInv
  PROVE  JacobianIsVelocity
<1> SUFFICES ASSUME tried # Nothing, NEW leg \in LegIndices, tried[leg] # Nothing
             PROVE  LET g == configuration[leg].geometry
                        angles == ToLegAngles(g, tried[leg])
                        foot == ForwardKinematics(g, tried[leg])
                        sideways == <<angles.coxa.y, -angles.coxa.x, 0>>
                    IN  Jacobian(g, tried[leg]) =
                          << Velocity(g.sigma_coxa, <<0, 0, 1>>, 1, Difference(foot, Origin)),
                             Velocity(SigmaFemur, sideways, angles.coxa.r,
                                      Difference(foot, Hip(g, angles))),
                             Velocity(SigmaTibia, sideways, angles.coxa.r,
                                      Difference(foot, Knee(g, angles))) >>
  BY DEF JacobianIsVelocity, Velocity, Hip, Knee
<1>1. Planned
  BY DEF PlanInv
<1>2. LegType(configuration[leg].geometry)
  BY <1>1 DEF ConfiguredInv, Planned, ConfiguredLeg
<1>3. tried[leg] \in LegTriples
  BY <1>1 DEF Planned, IsTarget
<1>4. QED
  BY <1>2, <1>3, Columns

(* A column of the Jacobian is the velocity of the foot about that joint's *)
(* axis and pivot, for every robot and all joints that a planner tries.    *)
THEOREM ModelJacobian == ModelSpec => []JacobianIsVelocity
<1>1. QED
  BY ConfiguredInvariant, PlanInvariant, VelocityIs, PTL

=============================================================================

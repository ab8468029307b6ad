----------------------------- MODULE ServoProofs -----------------------------
(***************************************************************************)
(* Theorems about ServoController, for every motor table, configuration,   *)
(* command and pulse range: its types, what the boards are left at, and    *)
(* what they put out.                                                      *)
(*                                                                         *)
(* Each invariant is strengthened by what the process has still to do:     *)
(* a board either is as it should be, or a transfer that makes it so is    *)
(* still in `todo`, and nothing in between undoes it.                      *)
(***************************************************************************)
EXTENDS ServoController, SequenceTheorems, WellFoundedInduction, TLAPS

-----------------------------------------------------------------------------
(* The angles a motor can be at, and the counts an OFF counter can hold.   *)
Travel == 0 .. 179
Counts == 0 .. 4095

-----------------------------------------------------------------------------
(* Arithmetic. *)

(* A rounded ratio of natural numbers is a natural number.                 *)
LEMMA RoundedType ==
  ASSUME NEW n \in Nat, NEW d \in Nat \ {0}
  PROVE  Rounded(n, d) \in Nat
BY DEF Rounded

(* A pulse fits the twelve bits of an OFF counter.                         *)
LEMMA TicksType ==
  ASSUME NEW angle \in Travel, NEW prescale \in Byte
  PROVE  Ticks(angle, prescale) \in Counts
<1> DEFINE numerator == 25 * (180 * MinPulse + angle * (MaxPulse - MinPulse))
           denominator == 180 * (prescale + 1)
           ticks == Rounded(numerator, denominator)
<1>1. angle * (MaxPulse - MinPulse) \in Nat
  BY ServoAssumption DEF Travel
<1>2. numerator \in Nat
  BY <1>1, ServoAssumption
<1>3. denominator \in Nat \ {0}
  BY DEF Byte
<1>4. ticks \in Nat
  BY <1>2, <1>3, RoundedType
<1>5. Ticks(angle, prescale) = IF ticks > 4095 THEN 4095 ELSE ticks
  BY DEF Ticks
<1> HIDE DEF ticks
<1>6. QED
  BY <1>4, <1>5 DEF Counts

(* The angle of a motor stays within the servo's travel.                   *)
LEMMA ValidateAngleType ==
  ASSUME NEW degree \in Int PROVE ValidateAngle(degree) \in Travel
BY DEF ValidateAngle, Travel

-----------------------------------------------------------------------------
(* The methods of the driver are sequences of transfers. *)

LEMMA ConcatType ==
  ASSUME NEW S, NEW s \in Seq(S), NEW t \in Seq(S)
  PROVE  s \o t \in Seq(S)
BY ConcatProperties

LEMMA BusType ==
  ASSUME NEW op \in Operations, NEW v \in Byte
  PROVE  Bus(op, v) \in Transfers
BY DEF Bus, Transfers

LEMMA CounterType ==
  ASSUME NEW channels \in SUBSET Channels, NEW v \in Byte
  PROVE  /\ On(channels) \in Transfers
         /\ OffLow(channels, v) \in Transfers
         /\ OffHigh(channels, v) \in Transfers
BY DEF On, OffLow, OffHigh, Transfers, Operations, Byte

(* A list of transfers is a sequence of transfers. *)
LEMMA ListType ==
  ASSUME NEW S, NEW a \in S, NEW b \in S
  PROVE  /\ <<a>> \in Seq(S)
         /\ <<a, b>> \in Seq(S)
         /\ \A c \in S : <<a, b, c>> \in Seq(S)
         /\ \A c, d, e \in S : <<a, b, c, d, e>> \in Seq(S)
<1>1. <<a>> \in Seq(S) /\ <<a, b>> \in Seq(S)
  OBVIOUS
<1>2. ASSUME NEW c \in S PROVE <<a, b, c>> \in Seq(S)
  OBVIOUS
<1>3. ASSUME NEW c \in S, NEW d \in S, NEW e \in S
      PROVE  <<a, b, c, d, e>> \in Seq(S)
  OBVIOUS
<1>4. QED
  BY <1>1, <1>2, <1>3

LEMMA SetSinglePWMType ==
  ASSUME NEW channel \in Channels, NEW ticks \in Counts
  PROVE  SetSinglePWM(channel, ticks) \in Seq(Transfers)
<1>1. ticks % 256 \in Byte /\ ticks \div 256 \in Byte
  <2>1. ticks % 256 \in 0 .. 255
    BY DEF Counts
  <2>2. ticks \div 256 \in 0 .. 15
    BY DEF Counts
  <2>3. QED
    BY <2>1, <2>2 DEF Byte
<1>2. /\ On({channel}) \in Transfers
      /\ OffLow({channel}, ticks % 256) \in Transfers
      /\ OffHigh({channel}, ticks \div 256) \in Transfers
  BY <1>1, CounterType
<1>3. QED
  BY <1>2, ListType DEF SetSinglePWM

LEMMA WakeType == Wake \in Seq(Transfers)
<1>1. /\ Bus("ReadMode1", 0) \in Transfers
      /\ Bus("WriteMode1", Awake) \in Transfers
  BY BusType DEF Operations, Byte, Awake
<1>2. QED
  BY <1>1, ListType DEF Wake

LEMMA InitializeType == Initialize \in Seq(Transfers)
<1>1. ClearAll \in Seq(Transfers)
  <2>1. /\ On(Channels) \in Transfers
        /\ OffLow(Channels, 0) \in Transfers
        /\ OffHigh(Channels, 0) \in Transfers
    BY CounterType DEF Byte
  <2>2. QED
    BY <2>1, ListType DEF ClearAll
<1>2. /\ Bus("Open", 0) \in Transfers
      /\ Bus("WriteMode2", 4) \in Transfers
      /\ Bus("WriteMode1", Awake) \in Transfers
      /\ Bus("ReadPreScale", 0) \in Transfers
  BY BusType DEF Operations, Byte, Awake
<1>3. /\ <<Bus("Open", 0)>> \in Seq(Transfers)
      /\ <<Bus("ReadPreScale", 0)>> \in Seq(Transfers)
      /\ <<Bus("WriteMode2", 4), Bus("WriteMode1", Awake)>> \in Seq(Transfers)
  BY <1>2, ListType
<1>4. QED
  BY <1>1, <1>3, WakeType, ConcatType DEF Initialize

LEMMA SetPrescaleType == SetPrescale(Prescale) \in Seq(Transfers)
<1>1. Prescale \in Byte
  BY ServoAssumption DEF Byte
<1>2. /\ Bus("ReadMode1", 0) \in Transfers
      /\ Bus("WriteMode1", Asleep) \in Transfers
      /\ Bus("WritePreScale", Prescale) \in Transfers
      /\ Bus("RestoreMode1", 0) \in Transfers
      /\ Bus("Restart", Prescale) \in Transfers
  BY <1>1, BusType DEF Operations, Byte, Asleep
<1>3. QED
  BY <1>2, ListType DEF SetPrescale

LEMMA ParkType == Park \in Seq(Transfers)
<1>1. AllOutputsOff \in Seq(Transfers)
  <2>1. /\ On(Channels) \in Transfers
        /\ OffLow(Channels, 0) \in Transfers
        /\ OffHigh(Channels, FullOff) \in Transfers
    BY CounterType DEF Byte, FullOff
  <2>2. QED
    BY <2>1, ListType DEF AllOutputsOff
<1>2. Sleep \in Seq(Transfers)
  <2>1. /\ Bus("ReadMode1", 0) \in Transfers
        /\ Bus("WriteMode1", Asleep) \in Transfers
    BY BusType DEF Operations, Byte, Asleep
  <2>2. QED
    BY <2>1, ListType DEF Sleep
<1>3. QED
  BY <1>1, <1>2, ConcatType DEF Park

-----------------------------------------------------------------------------
(* The steps of the node's methods. *)

(* A set of natural numbers that is not empty has a least element.         *)
LEMMA LeastElement ==
  ASSUME NEW S \in SUBSET Nat, S # {}
  PROVE  \E m \in S : \A n \in S : m <= n
<1> DEFINE R == OpToRel(<, Nat)
<1>1. IsWellFoundedOn(R, Nat)
  BY NatLessThanWellFounded
<1> HIDE DEF R
<1>2. PICK m \in S : \A n \in S : ~ (<<n, m>> \in R)
  BY <1>1, WFMin
<1>3. ASSUME NEW n \in S PROVE m <= n
  <2>1. ~ (n < m)
    BY <1>2 DEF R, OpToRel
  <2>2. QED
    BY <2>1
<1>4. QED
  BY <1>3

LEMMA MotorsType ==
  /\ Motors = 1 .. Len(MotorTable)
  /\ Motors \subseteq Nat
  /\ \A i \in Motors : MotorTable[i].side \in Sides /\ MotorTable[i].pin \in Channels
<1>1. Len(MotorTable) \in Nat /\ Motors = 1 .. Len(MotorTable)
  BY ServoAssumption DEF Motors
<1>2. \A i \in Motors : MotorTable[i] \in [name : Names, side : Sides, pin : Channels]
  BY <1>1, ServoAssumption, ElementOfSeq
<1>3. QED
  BY <1>1, <1>2

(* FindMotor finds the first motor of the name, if one has it.             *)
LEMMA FindMotorSpec ==
  ASSUME NEW name, Named(name) # {}
  PROVE  /\ FindMotor(name) \in Motors
         /\ MotorTable[FindMotor(name)].name = name
         /\ \A i \in Motors :
              MotorTable[i].name = name => FindMotor(name) <= i
<1>1. Named(name) \in SUBSET Nat
  BY MotorsType DEF Named
<1>2. \E i \in Named(name) : \A j \in Named(name) : i <= j
  BY <1>1, LeastElement
<1>3. /\ FindMotor(name) \in Named(name)
      /\ \A j \in Named(name) : FindMotor(name) <= j
  BY <1>2 DEF FindMotor
<1>4. QED
  BY <1>3 DEF Named

LEMMA StepType ==
  /\ \A side \in Sides : \A t \in Transfers : Transfer(side, t) \in Steps
  /\ \A what \in Checks : Check(what) \in Steps
  /\ \A i \in Motors : Home(i) \in Steps /\ Sweep(i) \in Steps
  /\ \A i \in Motors : \A degree \in Int : SetTo(i, degree) \in Steps
  /\ \A entry \in PoseEntries : Write(entry) \in Steps
<1>1. Bus("Open", 0) \in Transfers
  BY BusType DEF Operations, Byte
<1> DEFINE bus == Bus("Open", 0)
<1> HIDE DEF bus
<1>2. Step = [kind |-> "return", side |-> "L", name |-> "none", motor |-> 0,
              degree |-> 0, transfer |-> bus]
  BY DEF Step, bus
<1>3. bus \in Transfers /\ 0 \in Int
  BY <1>1 DEF bus
<1>4. ASSUME NEW side \in Sides, NEW t \in Transfers
      PROVE  Transfer(side, t) \in Steps
  BY <1>2, <1>3 DEF Transfer, Steps
<1>5. ASSUME NEW what \in Checks PROVE Check(what) \in Steps
  BY <1>2, <1>3 DEF Check, Steps, Sides
<1>6. ASSUME NEW i \in Motors PROVE Home(i) \in Steps /\ Sweep(i) \in Steps
  BY <1>2, <1>3 DEF Home, Sweep, Steps, Sides
<1>7. ASSUME NEW i \in Motors, NEW degree \in Int
      PROVE  SetTo(i, degree) \in Steps
  BY <1>2, <1>3 DEF SetTo, Steps, Sides
<1>8. ASSUME NEW entry \in PoseEntries PROVE Write(entry) \in Steps
  <2>1. entry.name \in Names /\ entry.degree \in Int
    BY DEF PoseEntries
  <2>2. QED
    BY <1>2, <1>3, <2>1 DEF Write, Steps, Sides
<1>9. QED
  BY <1>4, <1>5, <1>6, <1>7, <1>8

(* Carrying out a method takes the transfers of the method.                *)
LEMMA DoType ==
  ASSUME NEW side \in Sides, NEW method \in Seq(Transfers)
  PROVE  Do(side, method) \in Seq(Steps)
<1>1. DOMAIN method = 1 .. Len(method) /\ Len(method) \in Nat
  BY LenProperties
<1>2. \A i \in DOMAIN method : method[i] \in Transfers
  BY <1>1, ElementOfSeq
<1>3. \A i \in DOMAIN method : Transfer(side, method[i]) \in Steps
  BY <1>2, StepType
<1>4. QED
  BY <1>1, <1>3 DEF Do

LEMMA RestoreType == RestoreDefaultPosition \in Seq(Steps)
<1>1. Check("homing script") \in Steps
  BY StepType DEF Checks
<1>2. <<Check("homing script")>> \in Seq(Steps)
  BY <1>1, ListType
<1>3. [i \in Motors |-> Home(i)] \in Seq(Steps)
  BY MotorsType, StepType, LenProperties, ServoAssumption
<1>4. QED
  BY <1>2, <1>3, ConcatType DEF RestoreDefaultPosition

LEMMA ConstructType == Construct \in Seq(Steps)
<1>1. /\ Check("parameters") \in Steps /\ Check("left address") \in Steps
      /\ Check("right address") \in Steps /\ Check("frequency") \in Steps
      /\ Check("motors script") \in Steps
  BY StepType DEF Checks
<1>2. /\ <<Check("parameters"), Check("left address")>> \in Seq(Steps)
      /\ <<Check("right address")>> \in Seq(Steps)
      /\ <<Check("frequency")>> \in Seq(Steps)
      /\ <<Check("motors script")>> \in Seq(Steps)
  BY <1>1, ListType
<1>3. \A side \in Sides : /\ Do(side, Initialize) \in Seq(Steps)
                         /\ Do(side, SetPrescale(Prescale)) \in Seq(Steps)
  BY InitializeType, SetPrescaleType, DoType
<1>4. "L" \in Sides /\ "R" \in Sides
  BY DEF Sides
<1>5. QED
  BY <1>2, <1>3, <1>4, RestoreType, ConcatType DEF Construct

LEMMA PerformTestType == PerformTest \in Seq(Steps)
<1>1. [i \in Motors |-> Sweep(i)] \in Seq(Steps)
  BY MotorsType, StepType, LenProperties, ServoAssumption
<1>2. QED
  BY <1>1, RestoreType, ConcatType DEF PerformTest

LEMMA SweepType ==
  ASSUME NEW i \in Motors
  PROVE  [a \in DOMAIN SweepAngles |-> SetTo(i, SweepAngles[a])] \in Seq(Steps)
<1>1. 180 \div TestStep + 1 \in Nat
  BY ServoAssumption
<1>2. DOMAIN SweepAngles = 1 .. 180 \div TestStep + 1
  BY DEF SweepAngles
<1>3. \A a \in DOMAIN SweepAngles : SweepAngles[a] \in Int
  BY <1>1, ServoAssumption DEF SweepAngles
<1>4. \A a \in DOMAIN SweepAngles : SetTo(i, SweepAngles[a]) \in Steps
  BY <1>3, StepType
<1>5. QED
  BY <1>1, <1>2, <1>4

LEMMA ParkOpenType ==
  ASSUME NEW side \in Sides
  PROVE  ParkOpen(side) \in Seq(Steps)
BY ParkType, DoType DEF ParkOpen

LEMMA DestructType == Destruct \in Seq(Steps)
BY ParkOpenType, ConcatType DEF Destruct, Sides

-----------------------------------------------------------------------------
(* Type correctness. *)

(* A board stays a board, and a driver a driver, whatever transfer is      *)
(* carried out.                                                            *)
LEMMA PerformType ==
  ASSUME NEW board \in Boards, NEW driver \in Drivers, NEW t \in Transfers
  PROVE  Perform(board, driver, t) \in Boards
<1>1. t.value \in Byte /\ driver.mode \in BOOLEAN
  BY DEF Transfers, Drivers
<1>2. \A c \in Channels : board.low[c] \in Byte /\ board.high[c] \in Byte
  BY DEF Boards
<1>3. /\ [c \in Channels |-> IF c \in t.channels THEN t.value ELSE board.low[c]]
           \in [Channels -> Byte]
      /\ [c \in Channels |-> IF c \in t.channels THEN t.value ELSE board.high[c]]
           \in [Channels -> Byte]
  BY <1>1, <1>2
<1>4. QED
  BY <1>1, <1>3 DEF Perform, Boards

LEMMA NoteType ==
  ASSUME NEW board \in Boards, NEW driver \in Drivers, NEW t \in Transfers
  PROVE  Note(driver, board, t) \in Drivers
BY DEF Note, Boards, Drivers, Transfers

(* The step a process is at, and what it has left after it.                *)
LEMMA AtStepType ==
  ASSUME todo \in Seq(Steps), NEW kind, AtStep(kind)
  PROVE  /\ Head(todo) \in Steps
         /\ Head(todo).kind = kind
         /\ Tail(todo) \in Seq(Steps)
BY HeadTailProperties, EmptySeq DEF AtStep

LEMMA FirstAttempt == 1 \in 1 .. MaxAttempts
BY ServoAssumption

LEMMA ThrowType ==
  ASSUME TypeOK, todo # <<>>, Throw
  PROVE  /\ phase' \in {"down", "constructing", "testing", "spinning", "destroying"}
         /\ todo' \in Seq(Steps)
         /\ attempt' \in 1 .. MaxAttempts
         /\ topic' \in Seq(Commands)
         /\ pending' \in Seq(PoseEntries)
         /\ unparked' \subseteq Sides
         /\ latest' \in Seq(PoseEntries)
<1>1. attempt' \in 1 .. MaxAttempts
  BY FirstAttempt DEF Throw
<1>2. Head(todo) \in Steps
  BY HeadTailProperties DEF TypeOK
<1>3. Head(todo).side \in Sides
  BY <1>2 DEF Steps
<1>4. <<>> \in Seq(Steps) /\ <<>> \in Seq(Commands) /\ <<>> \in Seq(PoseEntries)
  OBVIOUS
<1>5. CASE phase = "destroying"
  <2>1. todo' \in Seq(Steps)
    BY <1>4, <1>5, ParkOpenType DEF Throw, SkipParking, Sides
  <2>2. QED
    BY <1>1, <1>3, <1>5, <2>1 DEF Throw, TypeOK
<1>6. CASE phase # "destroying"
  BY <1>1, <1>4, <1>6, DestructType DEF Throw, Destroy
<1>7. QED
  BY <1>5, <1>6

(* What moving a motor puts on the bus.                                    *)
LEMMA PulseType ==
  ASSUME TypeOK, NEW angle \in Travel, NEW i \in Motors
  PROVE  Do(MotorTable[i].side, SetSinglePWM(MotorTable[i].pin, PulseWidth(angle)))
           \in Seq(Steps)
<1>1. MotorTable[i].side \in Sides /\ MotorTable[i].pin \in Channels
  BY MotorsType
<1>2. drivers["L"].prescale \in Byte
  BY DEF TypeOK, Drivers, Sides
<1>3. \A prescale \in Byte : Ticks(angle, prescale) \in Counts
  BY TicksType
<1>4. PulseWidth(angle) \in Counts
  BY <1>2, <1>3 DEF PulseWidth
<1>5. \A ticks \in Counts :
        SetSinglePWM(MotorTable[i].pin, ticks) \in Seq(Transfers)
  BY <1>1, SetSinglePWMType
<1>6. SetSinglePWM(MotorTable[i].pin, PulseWidth(angle)) \in Seq(Transfers)
  BY <1>4, <1>5
<1>7. QED
  BY <1>1, <1>6, DoType

LEMMA MoveType ==
  ASSUME TypeOK, todo # <<>>, NEW i \in Motors, NEW degree \in Int,
         Move(i, degree)
  PROVE  TypeOK'
<1> DEFINE angle == ValidateAngle(degree)
           written == Do(MotorTable[i].side,
                         SetSinglePWM(MotorTable[i].pin, PulseWidth(angle)))
<1>1. angle \in Travel
  BY ValidateAngleType
<1>2. \A a \in Travel :
        Do(MotorTable[i].side, SetSinglePWM(MotorTable[i].pin, PulseWidth(a)))
          \in Seq(Steps)
  BY PulseType
<1>3. written \in Seq(Steps)
  BY <1>1, <1>2
<1>4. /\ todo' = written \o Tail(todo)
      /\ motorAngle' = [motorAngle EXCEPT ![i] = angle]
      /\ driven' = driven \cup {<<MotorTable[i].side, MotorTable[i].pin>>}
  BY DEF Move
<1> HIDE DEF angle, written
<1>5. Tail(todo) \in Seq(Steps)
  BY HeadTailProperties DEF TypeOK
<1>6. todo' \in Seq(Steps)
  BY <1>3, <1>4, <1>5, ConcatType
<1>7. motorAngle' \in [Motors -> 0 .. 179]
  BY <1>1, <1>4 DEF TypeOK, Travel
<1>8. driven' \subseteq Sides \X Channels
  BY <1>4, MotorsType DEF TypeOK
<1>9. QED
  BY <1>6, <1>7, <1>8 DEF Move, TypeOK

(* An accepted command leaves nothing but finite degrees and known names.  *)
LEMMA EntriesType ==
  ASSUME NEW command \in Commands, Accepted(command)
  PROVE  Entries(command) \in Seq(PoseEntries)
<1>1. /\ command.names \in Seq(Names)
      /\ command.positions \in Seq(Int \cup {NotFinite})
  BY ServoAssumption
<1>2. /\ Len(command.names) \in Nat
      /\ DOMAIN command.names = 1 .. Len(command.names)
      /\ DOMAIN command.positions = 1 .. Len(command.names)
  BY <1>1 DEF Accepted
<1>3. \A k \in DOMAIN command.names :
        command.names[k] \in Names /\ command.positions[k] \in Int
  BY <1>1, <1>2, ElementOfSeq DEF Accepted
<1>4. \A k \in DOMAIN command.names :
        [name |-> command.names[k], degree |-> command.positions[k]]
          \in PoseEntries
  BY <1>3 DEF PoseEntries
<1>5. QED
  BY <1>2, <1>4 DEF Entries

LEMMA InitType == Init => TypeOK
<1> SUFFICES ASSUME Init PROVE TypeOK
  OBVIOUS
<1>1. PoweredOn \in Boards
  BY DEF PoweredOn, Boards, Byte, FullOff
<1>2. NewDriver \in Drivers
  BY DEF NewDriver, Drivers, Byte
<1>3. QED
  BY <1>1, <1>2, FirstAttempt DEF Init, TypeOK

LEMMA NextType == TypeOK /\ [Next]_vars => TypeOK'
<1> SUFFICES ASSUME TypeOK, [Next]_vars PROVE TypeOK'
  OBVIOUS
<1>1. CASE Respawn
  <2>1. NewDriver \in Drivers
    BY DEF NewDriver, Drivers, Byte
  <2>2. QED
    BY <1>1, <2>1, ConstructType DEF Respawn, TypeOK
<1>2. CASE Constructed
  BY <1>2, PerformTestType DEF Constructed, TypeOK
<1>3. CASE Spin
  BY <1>3 DEF Spin, TypeOK
<1>4. CASE Shutdown
  BY <1>4, DestructType DEF Shutdown, Destroy, TypeOK
<1>5. CASE Exit
  BY <1>5 DEF Exit, TypeOK
<1>6. CASE Kill
  BY <1>6, FirstAttempt DEF Kill, TypeOK
<1>7. CASE Succeed
  <2>1. Head(todo) \in Steps /\ Tail(todo) \in Seq(Steps)
    BY <1>7, AtStepType DEF Succeed, TypeOK
  <2> DEFINE side == Head(todo).side
             t == Head(todo).transfer
  <2>2. side \in Sides /\ t \in Transfers
    BY <2>1 DEF Steps
  <2>3. boards[side] \in Boards /\ drivers[side] \in Drivers
    BY <2>2 DEF TypeOK
  <2>4. boards' = [boards EXCEPT ![side] = Perform(boards[side], drivers[side], t)]
    BY <1>7 DEF Succeed
  <2>5. drivers' = [drivers EXCEPT ![side] = Note(drivers[side], boards[side], t)]
    BY <1>7 DEF Succeed
  <2>6. boards' \in [Sides -> Boards]
    BY <2>2, <2>3, <2>4, PerformType DEF TypeOK
  <2>7. drivers' \in [Sides -> Drivers]
    BY <2>2, <2>3, <2>5, NoteType DEF TypeOK
  <2>8. /\ todo' = Tail(todo)
        /\ attempt' = 1
        /\ UNCHANGED <<configuration, phase, motorAngle, topic, pending,
                       driven, unparked, latest>>
    BY <1>7 DEF Succeed
  <2>9. QED
    BY <2>1, <2>6, <2>7, <2>8, FirstAttempt DEF TypeOK
<1>8. CASE Fail
  <2>1. Head(todo) \in Steps /\ todo # <<>>
    BY <1>8, AtStepType DEF Fail, TypeOK, AtStep
  <2> DEFINE side == Head(todo).side
             t == Head(todo).transfer
  <2>2. side \in Sides /\ t \in Transfers
    BY <2>1 DEF Steps
  <2>3. Perform(boards[side], drivers[side], t) \in Boards
    BY <2>2, PerformType DEF TypeOK
  <2>4. boards' \in {boards, [boards EXCEPT
                      ![side] = Perform(boards[side], drivers[side], t)]}
    BY <1>8 DEF Fail
  <2>5. boards' \in [Sides -> Boards]
    BY <2>2, <2>3, <2>4 DEF TypeOK
  <2>6. CASE /\ attempt < MaxAttempts
             /\ attempt' = attempt + 1
             /\ UNCHANGED <<phase, todo, topic, pending, latest, unparked>>
    BY <1>8, <2>5, <2>6, ServoAssumption DEF Fail, TypeOK
  <2>7. CASE Throw
    BY <1>8, <2>1, <2>5, <2>7, ThrowType DEF Fail, TypeOK
  <2>8. QED
    BY <1>8, <2>6, <2>7 DEF Fail
<1>9. CASE Inspect
  <2>1. todo # <<>> /\ Tail(todo) \in Seq(Steps)
    BY <1>9, AtStepType DEF Inspect, TypeOK, AtStep
  <2>2. CASE Throw
    BY <1>9, <2>1, <2>2, ThrowType DEF Inspect, TypeOK
  <2>3. CASE /\ todo' = Tail(todo)
             /\ UNCHANGED <<phase, attempt, topic, pending, latest, unparked>>
    BY <1>9, <2>1, <2>3 DEF Inspect, TypeOK
  <2>4. QED
    BY <1>9, <2>2, <2>3 DEF Inspect
<1>10. CASE HomeMotor
  <2>1. /\ todo # <<>>
        /\ Head(todo).motor \in Motors
    BY <1>10, AtStepType DEF HomeMotor, TypeOK, AtStep, Steps
  <2> DEFINE i == Head(todo).motor
  <2>2. CASE configuration.homing[i] # Missing
    <3>1. configuration.homing[i] \in Int
      BY <2>1, <2>2, ServoAssumption DEF TypeOK
    <3>2. Move(i, configuration.homing[i])
      BY <1>10, <2>2 DEF HomeMotor
    <3>3. QED
      BY <2>1, <3>1, <3>2, MoveType
  <2>3. CASE configuration.homing[i] = Missing
    <3>1. Throw /\ UNCHANGED <<configuration, boards, drivers, motorAngle, driven>>
      BY <1>10, <2>3 DEF HomeMotor
    <3>2. QED
      BY <2>1, <3>1, ThrowType DEF TypeOK
  <2>4. QED
    BY <2>2, <2>3
<1>11. CASE SweepMotor
  <2>1. Head(todo).motor \in Motors /\ Tail(todo) \in Seq(Steps)
    BY <1>11, AtStepType DEF SweepMotor, TypeOK, Steps
  <2> DEFINE sweep == [a \in DOMAIN SweepAngles |->
                         SetTo(Head(todo).motor, SweepAngles[a])]
  <2>2. sweep \in Seq(Steps)
    BY <2>1, SweepType
  <2>3. todo' = sweep \o RestoreDefaultPosition \o Tail(todo)
    BY <1>11 DEF SweepMotor
  <2> HIDE DEF sweep
  <2>4. sweep \o RestoreDefaultPosition \in Seq(Steps)
    BY <2>2, RestoreType, ConcatType
  <2>5. todo' \in Seq(Steps)
    BY <2>1, <2>3, <2>4, ConcatType
  <2>6. QED
    BY <1>11, <2>5 DEF SweepMotor, TypeOK
<1>12. CASE SetMotor
  <2>1. /\ todo # <<>>
        /\ Head(todo).motor \in Motors
        /\ Head(todo).degree \in Int
    BY <1>12, AtStepType DEF SetMotor, TypeOK, AtStep, Steps
  <2>2. QED
    BY <1>12, <2>1, MoveType DEF SetMotor
<1>13. CASE WriteEntry
  <2>1. /\ todo # <<>>
        /\ Head(todo).degree \in Int
        /\ Tail(todo) \in Seq(Steps)
    BY <1>13, AtStepType DEF WriteEntry, TypeOK, AtStep, Steps
  <2>2. CASE Named(Head(todo).name) # {}
    <3>1. FindMotor(Head(todo).name) \in Motors
      BY <2>2, FindMotorSpec
    <3>2. Move(FindMotor(Head(todo).name), Head(todo).degree)
      BY <1>13, <2>2 DEF WriteEntry
    <3>3. QED
      BY <2>1, <3>1, <3>2, MoveType
  <2>3. CASE Named(Head(todo).name) = {}
    BY <1>13, <2>1, <2>3 DEF WriteEntry, TypeOK
  <2>4. QED
    BY <2>2, <2>3
<1>14. CASE OnJointCommand
  <2>1. Head(topic) \in Commands
    BY <1>14, HeadTailProperties DEF OnJointCommand, TypeOK
  <2>2. CASE Accepted(Head(topic))
    <3>1. Entries(Head(topic)) \in Seq(PoseEntries)
      BY <2>1, <2>2, EntriesType
    <3>2. QED
      BY <1>14, <2>2, <3>1 DEF OnJointCommand, TypeOK
  <2>3. CASE ~Accepted(Head(topic))
    BY <1>14, <2>3 DEF OnJointCommand, TypeOK
  <2>4. QED
    BY <2>2, <2>3
<1>15. CASE WritePendingPose
  <2>1. /\ Len(pending) \in Nat
        /\ DOMAIN pending = 1 .. Len(pending)
    BY DEF TypeOK
  <2>2. \A k \in DOMAIN pending : Write(pending[k]) \in Steps
    BY <2>1, ElementOfSeq, StepType DEF TypeOK
  <2>3. [k \in DOMAIN pending |-> Write(pending[k])] \in Seq(Steps)
    BY <2>1, <2>2
  <2>4. QED
    BY <1>15, <2>3 DEF WritePendingPose, TypeOK
<1>16. CASE Publish
  BY <1>16 DEF Publish, TypeOK
<1>17. CASE UNCHANGED vars
  BY <1>17 DEF vars, TypeOK
<1>18. QED
  BY <1>1, <1>2, <1>3, <1>4, <1>5, <1>6, <1>7, <1>8, <1>9, <1>10, <1>11,
     <1>12, <1>13, <1>14, <1>15, <1>16, <1>17 DEF Next, Process

(* Whatever fails, is killed, refused or overtaken, every register keeps a *)
(* byte, every motor's angle stays within its travel, and only finite      *)
(* degrees ever wait to be written.                                        *)
THEOREM ServoTypeCorrect == Spec => []TypeOK
BY InitType, NextType, PTL DEF Spec

-----------------------------------------------------------------------------
(* Lists of steps. *)

Awaits(q, step) == \E k \in DOMAIN q : q[k] = step

(* Every step of q in `use` comes after the step `need`.                   *)
Guarded(q, need, use) ==
  \A k \in DOMAIN q : q[k] \in use => \E j \in 1 .. k - 1 : q[j] = need

(* A list is its first step and the others.                                *)
LEMMA HeadTail ==
  ASSUME NEW S, NEW q \in Seq(S), q # <<>>
  PROVE  /\ Head(q) = q[1] /\ Head(q) \in S
         /\ Tail(q) \in Seq(S)
         /\ DOMAIN q = 1 .. Len(q) /\ Len(q) \in Nat \ {0}
         /\ DOMAIN Tail(q) = 1 .. Len(q) - 1
         /\ \A k \in DOMAIN Tail(q) : k + 1 \in DOMAIN q /\ Tail(q)[k] = q[k + 1]
<1>1. Len(q) \in Nat \ {0} /\ DOMAIN q = 1 .. Len(q)
  BY EmptySeq, LenProperties
<1>2. /\ Head(q) \in S /\ Tail(q) \in Seq(S) /\ Len(Tail(q)) = Len(q) - 1
      /\ \A i \in 1 .. Len(Tail(q)) : Tail(q)[i] = q[i + 1]
  BY HeadTailProperties
<1>3. DOMAIN Tail(q) = 1 .. Len(q) - 1
  BY <1>2, LenProperties
<1>4. \A k \in DOMAIN Tail(q) : k + 1 \in DOMAIN q /\ Tail(q)[k] = q[k + 1]
  BY <1>1, <1>2, <1>3
<1>5. Head(q) = q[1]
  OBVIOUS
<1>6. QED
  BY <1>1, <1>2, <1>3, <1>4, <1>5

(* Two lists, one after the other.                                         *)
LEMMA Concat ==
  ASSUME NEW S, NEW p \in Seq(S), NEW q \in Seq(S)
  PROVE  /\ p \o q \in Seq(S)
         /\ DOMAIN p = 1 .. Len(p) /\ Len(p) \in Nat
         /\ DOMAIN q = 1 .. Len(q) /\ Len(q) \in Nat
         /\ DOMAIN (p \o q) = 1 .. Len(p) + Len(q)
         /\ \A k \in DOMAIN p : k \in DOMAIN (p \o q) /\ (p \o q)[k] = p[k]
         /\ \A k \in DOMAIN q : /\ k + Len(p) \in DOMAIN (p \o q)
                                /\ (p \o q)[k + Len(p)] = q[k]
         /\ \A k \in DOMAIN (p \o q) : k \notin DOMAIN p =>
              k - Len(p) \in DOMAIN q /\ (p \o q)[k] = q[k - Len(p)]
<1> DEFINE r == p \o q
<1>1. /\ DOMAIN p = 1 .. Len(p) /\ Len(p) \in Nat
      /\ DOMAIN q = 1 .. Len(q) /\ Len(q) \in Nat
  BY LenProperties
<1>2. /\ r \in Seq(S)
      /\ Len(r) = Len(p) + Len(q)
      /\ \A i \in 1 .. Len(p) + Len(q) :
           r[i] = IF i <= Len(p) THEN p[i] ELSE q[i - Len(p)]
  BY ConcatProperties
<1> HIDE DEF r
<1>3. DOMAIN r = 1 .. Len(p) + Len(q)
  BY <1>2, LenProperties
<1>4. \A k \in DOMAIN p : k \in DOMAIN r /\ r[k] = p[k]
  BY <1>1, <1>2, <1>3
<1>5. ASSUME NEW k \in DOMAIN q
      PROVE  k + Len(p) \in DOMAIN r /\ r[k + Len(p)] = q[k]
  <2>1. k + Len(p) \in 1 .. Len(p) + Len(q) /\ ~ (k + Len(p) <= Len(p))
    BY <1>1
  <2>2. (k + Len(p)) - Len(p) = k
    BY <1>1
  <2>3. QED
    BY <1>2, <1>3, <2>1, <2>2
<1>6. \A k \in DOMAIN r : k \notin DOMAIN p =>
        k - Len(p) \in DOMAIN q /\ r[k] = q[k - Len(p)]
  BY <1>1, <1>2, <1>3
<1>7. QED
  BY <1>1, <1>2, <1>3, <1>4, <1>5, <1>6 DEF r

(* The first step of two lists is the first one's, unless that is empty.   *)
LEMMA ConcatTail ==
  ASSUME NEW S, NEW p \in Seq(S), NEW q \in Seq(S), p # <<>>
  PROVE  /\ p \o q # <<>>
         /\ Head(p \o q) = Head(p)
         /\ Tail(p \o q) = Tail(p) \o q
<1> DEFINE r == p \o q
           t == Tail(p) \o q
<1>1. /\ r \in Seq(S) /\ Len(r) = Len(p) + Len(q)
      /\ \A i \in 1 .. Len(p) + Len(q) :
           r[i] = IF i <= Len(p) THEN p[i] ELSE q[i - Len(p)]
  BY ConcatProperties
<1>2. Len(p) \in Nat \ {0} /\ Len(q) \in Nat
  BY EmptySeq, LenProperties
<1>3. r # <<>>
  BY <1>1, <1>2, EmptySeq
<1>4. /\ Tail(p) \in Seq(S) /\ Len(Tail(p)) = Len(p) - 1
      /\ \A i \in 1 .. Len(p) - 1 : Tail(p)[i] = p[i + 1]
  BY HeadTailProperties
<1>5. /\ t \in Seq(S) /\ Len(t) = Len(Tail(p)) + Len(q)
      /\ \A i \in 1 .. Len(Tail(p)) + Len(q) :
           t[i] = IF i <= Len(Tail(p)) THEN Tail(p)[i] ELSE q[i - Len(Tail(p))]
  BY <1>4, ConcatProperties
<1> HIDE DEF r, t
<1>6. /\ Tail(r) \in Seq(S) /\ Len(Tail(r)) = Len(r) - 1
      /\ \A i \in 1 .. Len(r) - 1 : Tail(r)[i] = r[i + 1]
  BY <1>1, <1>3, HeadTailProperties
<1>7. Len(Tail(r)) = Len(t) /\ Len(t) = Len(p) - 1 + Len(q)
  BY <1>1, <1>2, <1>4, <1>5, <1>6
<1>8. ASSUME NEW i \in 1 .. Len(Tail(r)) PROVE Tail(r)[i] = t[i]
  <2>1. Tail(r)[i] = r[i + 1]
    BY <1>1, <1>2, <1>6
  <2>2. r[i + 1] = IF i + 1 <= Len(p) THEN p[i + 1] ELSE q[(i + 1) - Len(p)]
    BY <1>1, <1>2, <1>7
  <2>3. t[i] = IF i <= Len(p) - 1 THEN Tail(p)[i] ELSE q[i - (Len(p) - 1)]
    BY <1>2, <1>4, <1>5, <1>7
  <2>4. (i + 1) - Len(p) = i - (Len(p) - 1)
    BY <1>2, <1>7
  <2>5. i <= Len(p) - 1 => Tail(p)[i] = p[i + 1]
    BY <1>2, <1>4, <1>7
  <2>6. i + 1 <= Len(p) <=> i <= Len(p) - 1
    BY <1>2, <1>7
  <2>7. QED
    BY <2>1, <2>2, <2>3, <2>4, <2>5, <2>6
<1>9. Tail(r) = t
  BY <1>5, <1>6, <1>7, <1>8, SeqEqual
<1>10. Head(r) = Head(p)
  <2>1. r[1] = p[1]
    BY <1>1, <1>2
  <2>2. QED
    BY <1>1, <1>3, <2>1
<1>11. QED
  BY <1>3, <1>9, <1>10 DEF r, t

LEMMA AwaitsTail ==
  ASSUME NEW S, NEW q \in Seq(S), q # <<>>, NEW x, Awaits(q, x), x # Head(q)
  PROVE  Awaits(Tail(q), x)
<1>1. PICK k \in DOMAIN q : q[k] = x
  BY DEF Awaits
<1>2. k # 1
  BY <1>1, HeadTail
<1>3. k - 1 \in DOMAIN Tail(q) /\ (k - 1) + 1 = k
  BY <1>1, <1>2, HeadTail
<1>4. Tail(q)[k - 1] = x
  BY <1>1, <1>3, HeadTail
<1>5. QED
  BY <1>3, <1>4 DEF Awaits

LEMMA AwaitsConcat ==
  ASSUME NEW S, NEW p \in Seq(S), NEW q \in Seq(S), NEW x
  PROVE  Awaits(p \o q, x) <=> Awaits(p, x) \/ Awaits(q, x)
<1>1. ASSUME Awaits(p, x) PROVE Awaits(p \o q, x)
  BY <1>1, Concat DEF Awaits
<1>2. ASSUME Awaits(q, x) PROVE Awaits(p \o q, x)
  <2>1. PICK k \in DOMAIN q : q[k] = x
    BY <1>2 DEF Awaits
  <2>2. k + Len(p) \in DOMAIN (p \o q) /\ (p \o q)[k + Len(p)] = x
    BY <2>1, Concat
  <2>3. QED
    BY <2>2 DEF Awaits
<1>3. ASSUME Awaits(p \o q, x), ~ Awaits(p, x) PROVE Awaits(q, x)
  <2>1. PICK k \in DOMAIN (p \o q) : (p \o q)[k] = x
    BY <1>3 DEF Awaits
  <2>2. k \notin DOMAIN p
    BY <1>3, <2>1, Concat DEF Awaits
  <2>3. QED
    BY <2>1, <2>2, Concat DEF Awaits
<1>4. QED
  BY <1>1, <1>2, <1>3

LEMMA GuardedTail ==
  ASSUME NEW S, NEW q \in Seq(S), q # <<>>, NEW need, NEW use,
         Guarded(q, need, use)
  PROVE  /\ Head(q) \notin use
         /\ need # Head(q) => Guarded(Tail(q), need, use)
<1>1. Head(q) \notin use
  BY HeadTail DEF Guarded
<1>2. ASSUME need # Head(q), NEW k \in DOMAIN Tail(q), Tail(q)[k] \in use
      PROVE  \E j \in 1 .. k - 1 : Tail(q)[j] = need
  <2>1. k + 1 \in DOMAIN q /\ q[k + 1] \in use /\ k \in Nat
    BY <1>2, HeadTail
  <2>2. PICK j \in 1 .. (k + 1) - 1 : q[j] = need
    BY <2>1 DEF Guarded
  <2>3. j # 1
    BY <1>2, <2>2, HeadTail
  <2>4. j - 1 \in 1 .. k - 1 /\ j - 1 \in DOMAIN Tail(q) /\ (j - 1) + 1 = j
    BY <2>1, <2>2, <2>3, <1>2, HeadTail
  <2>5. Tail(q)[j - 1] = need
    BY <2>2, <2>4, HeadTail
  <2>6. QED
    BY <2>4, <2>5
<1>3. QED
  BY <1>1, <1>2 DEF Guarded

LEMMA GuardedConcat ==
  ASSUME NEW S, NEW p \in Seq(S), NEW q \in Seq(S), NEW need, NEW use,
         Guarded(p, need, use), Guarded(q, need, use) \/ Awaits(p, need)
  PROVE  Guarded(p \o q, need, use)
<1> SUFFICES ASSUME NEW k \in DOMAIN (p \o q), (p \o q)[k] \in use
             PROVE  \E j \in 1 .. k - 1 : (p \o q)[j] = need
  BY DEF Guarded
<1>1. CASE k \in DOMAIN p
  <2>1. p[k] \in use
    BY <1>1, Concat
  <2>2. PICK j \in 1 .. k - 1 : p[j] = need
    BY <1>1, <2>1 DEF Guarded
  <2>3. j \in DOMAIN p
    BY <1>1, <2>2, Concat
  <2>4. QED
    BY <2>2, <2>3, Concat
<1>2. CASE k \notin DOMAIN p /\ Awaits(p, need)
  <2>1. PICK j \in DOMAIN p : p[j] = need
    BY <1>2 DEF Awaits
  <2>2. j \in 1 .. k - 1
    BY <1>2, <2>1, Concat
  <2>3. QED
    BY <2>1, <2>2, Concat
<1>3. CASE k \notin DOMAIN p /\ Guarded(q, need, use)
  <2> DEFINE i == k - Len(p)
  <2>1. i \in DOMAIN q /\ q[i] \in use
    BY <1>3, Concat
  <2>2. PICK j \in 1 .. i - 1 : q[j] = need
    BY <1>3, <2>1 DEF Guarded
  <2>3. j \in DOMAIN q /\ j + Len(p) \in 1 .. k - 1
    BY <2>1, <2>2, Concat
  <2>4. (p \o q)[j + Len(p)] = need
    BY <2>2, <2>3, Concat
  <2>5. QED
    BY <2>3, <2>4
<1>4. QED
  BY <1>1, <1>2, <1>3

(* Five lists, one after the other.                                        *)
LEMMA Chain ==
  ASSUME NEW S, NEW a \in Seq(S), NEW b \in Seq(S), NEW c \in Seq(S),
         NEW d \in Seq(S), NEW e \in Seq(S)
  PROVE  /\ a \o b \o c \o d \o e \in Seq(S)
         /\ \A x : Awaits(a \o b \o c \o d \o e, x) <=>
              \/ Awaits(a, x) \/ Awaits(b, x) \/ Awaits(c, x)
              \/ Awaits(d, x) \/ Awaits(e, x)
         /\ \A need, use :
              /\ Guarded(a, need, use) /\ Guarded(b, need, use)
              /\ Guarded(c, need, use) /\ Guarded(d, need, use)
              /\ Guarded(e, need, use) \/ Awaits(b, need)
              => Guarded(a \o b \o c \o d \o e, need, use)
<1> DEFINE u == a \o b
           v == u \o c
           w == v \o d
<1>1. u \in Seq(S)
  BY ConcatProperties
<1>2. \A x : Awaits(u, x) <=> Awaits(a, x) \/ Awaits(b, x)
  BY AwaitsConcat
<1>3. \A need, use : Guarded(a, need, use) /\ Guarded(b, need, use)
        => Guarded(u, need, use)
  BY GuardedConcat
<1> HIDE DEF u
<1>4. v \in Seq(S)
  BY <1>1, ConcatProperties
<1>5. \A x : Awaits(v, x) <=> Awaits(u, x) \/ Awaits(c, x)
  BY <1>1, AwaitsConcat
<1>6. \A need, use : Guarded(u, need, use) /\ Guarded(c, need, use)
        => Guarded(v, need, use)
  BY <1>1, GuardedConcat
<1> HIDE DEF v
<1>7. w \in Seq(S)
  BY <1>4, ConcatProperties
<1>8. \A x : Awaits(w, x) <=> Awaits(v, x) \/ Awaits(d, x)
  BY <1>4, AwaitsConcat
<1>9. \A need, use : Guarded(v, need, use) /\ Guarded(d, need, use)
        => Guarded(w, need, use)
  BY <1>4, GuardedConcat
<1> HIDE DEF w
<1>10. w \o e \in Seq(S)
  BY <1>7, ConcatProperties
<1>11. \A x : Awaits(w \o e, x) <=> Awaits(w, x) \/ Awaits(e, x)
  BY <1>7, AwaitsConcat
<1>12. \A need, use :
         Guarded(w, need, use) /\ (Guarded(e, need, use) \/ Awaits(w, need))
         => Guarded(w \o e, need, use)
  BY <1>7, GuardedConcat
<1>13. \A x : Awaits(w \o e, x) <=>
              \/ Awaits(a, x) \/ Awaits(b, x) \/ Awaits(c, x)
              \/ Awaits(d, x) \/ Awaits(e, x)
  BY <1>2, <1>5, <1>8, <1>11
<1>14. ASSUME NEW need, NEW use,
              Guarded(a, need, use), Guarded(b, need, use),
              Guarded(c, need, use), Guarded(d, need, use),
              Guarded(e, need, use) \/ Awaits(b, need)
       PROVE  Guarded(w \o e, need, use)
  <2>1. Guarded(w, need, use)
    BY <1>3, <1>6, <1>9, <1>14
  <2>2. Awaits(b, need) => Awaits(w, need)
    BY <1>2, <1>5, <1>8
  <2>3. QED
    BY <1>12, <1>14, <2>1, <2>2
<1>15. w \o e = a \o b \o c \o d \o e
  BY DEF u, v, w
<1>16. QED
  BY <1>10, <1>13, <1>14, <1>15

-----------------------------------------------------------------------------
(* What a step of the bus does. *)

LEMMA StepFields ==
  /\ \A side, t : /\ Transfer(side, t).kind = "transfer"
                  /\ Transfer(side, t).side = side
                  /\ Transfer(side, t).transfer = t
  /\ \A what : Check(what).kind = "check"
  /\ \A i : /\ Home(i).kind = "home" /\ Home(i).motor = i
            /\ Sweep(i).kind = "sweep" /\ Sweep(i).motor = i
  /\ \A i, degree : /\ SetTo(i, degree).kind = "set"
                    /\ SetTo(i, degree).motor = i
                    /\ SetTo(i, degree).degree = degree
  /\ \A entry : /\ Write(entry).kind = "write"
                /\ Write(entry).name = entry.name
                /\ Write(entry).degree = entry.degree
<1> DEFINE bus == Bus("Open", 0)
<1>1. Step = [kind |-> "return", side |-> "L", name |-> "none", motor |-> 0,
              degree |-> 0, transfer |-> bus]
  BY DEF Step
<1> HIDE DEF bus
<1>2. QED
  BY <1>1 DEF Transfer, Check, Home, Sweep, SetTo, Write

LEMMA DoSteps ==
  ASSUME NEW side \in Sides, NEW method \in Seq(Transfers)
  PROVE  /\ Do(side, method) \in Seq(Steps)
         /\ DOMAIN Do(side, method) = DOMAIN method
         /\ Len(Do(side, method)) = Len(method)
         /\ \A k \in DOMAIN method :
              Do(side, method)[k] = Transfer(side, method[k])
<1>1. Do(side, method) \in Seq(Steps)
  BY DoType
<1>2. /\ DOMAIN Do(side, method) = DOMAIN method
      /\ \A k \in DOMAIN method :
           Do(side, method)[k] = Transfer(side, method[k])
  BY DEF Do
<1>3. Len(Do(side, method)) = Len(method)
  BY <1>1, <1>2, LenProperties
<1>4. QED
  BY <1>1, <1>2, <1>3

(* A transfer reaches the board of its side, or, if it fails, nothing;     *)
(* only a success tells the driver.                                        *)
LEMMA BusStep ==
  ASSUME TypeOK, Succeed \/ Fail
  PROVE  /\ todo # <<>> /\ Head(todo) \in Steps
         /\ Head(todo).kind = "transfer"
         /\ \A s \in Sides : \/ boards'[s] = boards[s]
                             \/ /\ s = Head(todo).side
                                /\ boards'[s] = Perform(boards[s], drivers[s],
                                                        Head(todo).transfer)
<1>1. todo # <<>> /\ Head(todo) \in Steps /\ Head(todo).kind = "transfer"
  BY AtStepType DEF Succeed, Fail, AtStep, TypeOK
<1> DEFINE side == Head(todo).side
           after == Perform(boards[side], drivers[side], Head(todo).transfer)
<1>2. boards' = boards \/ boards' = [boards EXCEPT ![side] = after]
  BY DEF Succeed, Fail
<1> HIDE DEF after
<1>3. ASSUME NEW s \in Sides, boards'[s] # boards[s]
      PROVE  s = side /\ boards'[s] = after
  BY <1>2, <1>3 DEF TypeOK
<1>4. QED
  BY <1>1, <1>3 DEF after

LEMMA SuccessStep ==
  ASSUME TypeOK, Succeed
  PROVE  \A s \in Sides :
           IF s = Head(todo).side
           THEN /\ boards'[s] = Perform(boards[s], drivers[s], Head(todo).transfer)
                /\ drivers'[s] = Note(drivers[s], boards[s], Head(todo).transfer)
           ELSE boards'[s] = boards[s] /\ drivers'[s] = drivers[s]
<1> DEFINE side == Head(todo).side
           after == Perform(boards[side], drivers[side], Head(todo).transfer)
           noted == Note(drivers[side], boards[side], Head(todo).transfer)
<1>1. boards' = [boards EXCEPT ![side] = after]
  BY DEF Succeed
<1>2. drivers' = [drivers EXCEPT ![side] = noted]
  BY DEF Succeed
<1> HIDE DEF after, noted
<1>3. ASSUME NEW s \in Sides, s = side
      PROVE  boards'[s] = after /\ drivers'[s] = noted
  BY <1>1, <1>2, <1>3 DEF TypeOK
<1>4. ASSUME NEW s \in Sides, s # side
      PROVE  boards'[s] = boards[s] /\ drivers'[s] = drivers[s]
  BY <1>1, <1>2, <1>4 DEF TypeOK
<1>5. QED
  BY <1>3, <1>4 DEF after, noted

(* A step that fails for good ends the method it is in.                    *)
LEMMA FailStep ==
  ASSUME Fail
  PROVE  /\ UNCHANGED <<configuration, drivers, motorAngle, driven>>
         /\ \/ UNCHANGED <<phase, todo, topic, pending, latest, unparked>>
            \/ Throw
BY DEF Fail

-----------------------------------------------------------------------------
(* The boards are parked on the way out. *)

ParkTransfers ==
  {On(Channels), OffLow(Channels, 0), OffHigh(Channels, FullOff),
   Bus("ReadMode1", 0), Bus("WriteMode1", Asleep)}

ParkSteps(side) == {Transfer(side, t) : t \in ParkTransfers}

Opens(side)  == Transfer(side, Bus("Open", 0))
Stops(side)  == Transfer(side, OffHigh(Channels, FullOff))
Sleeps(side) == Transfer(side, Bus("WriteMode1", Asleep))

Stopped(board) == \A c \in Channels : board.high[c] = FullOff

(* The right board is parked before the left one.                          *)
InParkOrder(q) ==
  \E n \in 0 .. Len(q) : \A k \in DOMAIN q :
    q[k] \in ParkSteps(IF k <= n THEN "R" ELSE "L")

(* A board the process answers for is stopped and asleep, or will be.      *)
ParkedOrWillBe ==
  \A s \in Sides \ unparked :
    /\ drivers[s].open
    /\ Stopped(boards[s]) \/ Awaits(todo, Stops(s))
    /\ boards[s].asleep \/ Awaits(todo, Sleeps(s))

ParkInv ==
  /\ phase = "constructing" =>
       \A s \in Sides : drivers[s].open \/ Awaits(todo, Opens(s))
  /\ phase \in {"testing", "spinning"} => \A s \in Sides : drivers[s].open
  /\ phase = "destroying" => InParkOrder(todo) /\ ParkedOrWillBe
  /\ phase = "down" => todo = <<>>
  /\ ParkedOnExit

LEMMA ParkSteps5 ==
  ASSUME NEW side \in Sides
  PROVE  /\ Do(side, Park) \in Seq(Steps)
         /\ \A k \in DOMAIN Do(side, Park) : Do(side, Park)[k] \in ParkSteps(side)
         /\ Awaits(Do(side, Park), Stops(side))
         /\ Awaits(Do(side, Park), Sleeps(side))
<1>1. Park = <<On(Channels), OffLow(Channels, 0), OffHigh(Channels, FullOff),
               Bus("ReadMode1", 0), Bus("WriteMode1", Asleep)>>
  <2> DEFINE a == On(Channels)
             b == OffLow(Channels, 0)
             c == OffHigh(Channels, FullOff)
             d == Bus("ReadMode1", 0)
             e == Bus("WriteMode1", Asleep)
  <2>1. Park = <<a, b, c>> \o <<d, e>>
    BY DEF Park, AllOutputsOff, Sleep
  <2> HIDE DEF a, b, c, d, e
  <2>2. <<a, b, c>> \o <<d, e>> = <<a, b, c, d, e>>
    <3> DEFINE S == {a, b, c, d, e}
               p == <<a, b, c>>
               q == <<d, e>>
               r == <<a, b, c, d, e>>
    <3>1. p \in Seq(S) /\ q \in Seq(S) /\ r \in Seq(S)
      OBVIOUS
    <3>2. Len(p) = 3 /\ Len(q) = 2 /\ Len(r) = 5
      OBVIOUS
    <3>3. p[1] = r[1] /\ p[2] = r[2] /\ p[3] = r[3] /\ q[1] = r[4] /\ q[2] = r[5]
      OBVIOUS
    <3> HIDE DEF S, p, q, r
    <3>4. /\ p \o q \in Seq(S) /\ Len(p \o q) = Len(p) + Len(q)
          /\ \A i \in 1 .. Len(p) + Len(q) :
               (p \o q)[i] = IF i <= Len(p) THEN p[i] ELSE q[i - Len(p)]
      BY <3>1, ConcatProperties
    <3>5. Len(p) + Len(q) = 5
      BY <3>2
    <3>6. ASSUME NEW i \in 1 .. 5 PROVE (p \o q)[i] = r[i]
      BY <3>2, <3>3, <3>4, <3>5
    <3>7. p \o q = r
      BY <3>1, <3>2, <3>4, <3>5, <3>6, SeqEqual
    <3>8. QED
      BY <3>7 DEF p, q, r
  <2>3. QED
    BY <2>1, <2>2 DEF a, b, c, d, e
<1>2. DOMAIN Park = 1 .. 5
  BY <1>1
<1>3. /\ \A k \in 1 .. 5 : Park[k] \in ParkTransfers
      /\ Park[3] = OffHigh(Channels, FullOff)
      /\ Park[5] = Bus("WriteMode1", Asleep)
  BY <1>1 DEF ParkTransfers
<1>4. /\ Do(side, Park) \in Seq(Steps)
      /\ DOMAIN Do(side, Park) = 1 .. 5
      /\ \A k \in 1 .. 5 : Do(side, Park)[k] = Transfer(side, Park[k])
  BY <1>2, ParkType, DoSteps
<1>5. \A k \in 1 .. 5 : Do(side, Park)[k] \in ParkSteps(side)
  BY <1>3, <1>4 DEF ParkSteps
<1>6. Awaits(Do(side, Park), Stops(side)) /\ Awaits(Do(side, Park), Sleeps(side))
  <2>1. 3 \in 1 .. 5 /\ 5 \in 1 .. 5
    OBVIOUS
  <2>2. QED
    BY <1>3, <1>4, <2>1 DEF Awaits, Stops, Sleeps
<1>7. QED
  BY <1>4, <1>5, <1>6

(* What the destructors do of a board that was opened, and of one that was *)
(* not.                                                                    *)
LEMMA ParkOpenSteps ==
  ASSUME NEW side \in Sides
  PROVE  /\ ParkOpen(side) \in Seq(Steps)
         /\ \A k \in DOMAIN ParkOpen(side) : ParkOpen(side)[k] \in ParkSteps(side)
         /\ drivers[side].open => /\ Awaits(ParkOpen(side), Stops(side))
                                  /\ Awaits(ParkOpen(side), Sleeps(side))
<1>1. CASE drivers[side].open
  BY <1>1, ParkSteps5 DEF ParkOpen
<1>2. CASE ~ drivers[side].open
  <2>1. ParkOpen(side) = <<>> /\ DOMAIN <<>> = {} /\ <<>> \in Seq(Steps)
    BY <1>2 DEF ParkOpen
  <2>2. QED
    BY <1>2, <2>1
<1>3. QED
  BY <1>1, <1>2

LEMMA DestructSteps ==
  /\ Destruct \in Seq(Steps)
  /\ InParkOrder(Destruct)
  /\ \A s \in Sides : drivers[s].open =>
       Awaits(Destruct, Stops(s)) /\ Awaits(Destruct, Sleeps(s))
<1> DEFINE r == ParkOpen("R")
           l == ParkOpen("L")
<1>1. "R" \in Sides /\ "L" \in Sides /\ \A s \in Sides : s = "R" \/ s = "L"
  BY DEF Sides
<1>2. /\ r \in Seq(Steps) /\ \A k \in DOMAIN r : r[k] \in ParkSteps("R")
      /\ l \in Seq(Steps) /\ \A k \in DOMAIN l : l[k] \in ParkSteps("L")
  BY <1>1, ParkOpenSteps
<1>3. \A s \in Sides : drivers[s].open =>
        /\ Awaits(ParkOpen(s), Stops(s)) /\ Awaits(ParkOpen(s), Sleeps(s))
  BY ParkOpenSteps
<1>4. Destruct = r \o l
  BY DEF Destruct
<1> HIDE DEF r, l
<1>5. InParkOrder(Destruct)
  <2>1. Len(r) \in Nat /\ Len(l) \in Nat /\ Len(r \o l) = Len(r) + Len(l)
    BY <1>2, ConcatProperties
  <2>2. Len(r) \in 0 .. Len(Destruct)
    BY <1>4, <2>1
  <2>3. ASSUME NEW k \in DOMAIN Destruct
        PROVE  Destruct[k] \in ParkSteps(IF k <= Len(r) THEN "R" ELSE "L")
    <3>1. CASE k <= Len(r)
      BY <1>2, <1>4, <3>1, Concat
    <3>2. CASE ~ (k <= Len(r))
      BY <1>2, <1>4, <3>2, Concat
    <3>3. QED
      BY <3>1, <3>2
  <2>4. QED
    BY <2>2, <2>3 DEF InParkOrder
<1>6. ASSUME NEW s \in Sides, drivers[s].open
      PROVE  Awaits(Destruct, Stops(s)) /\ Awaits(Destruct, Sleeps(s))
  <2>1. CASE s = "R"
    <3>1. Awaits(r, Stops(s)) /\ Awaits(r, Sleeps(s))
      BY <1>3, <1>6, <2>1 DEF r
    <3>2. QED
      BY <1>2, <1>4, <3>1, AwaitsConcat
  <2>2. CASE s = "L"
    <3>1. Awaits(l, Stops(s)) /\ Awaits(l, Sleeps(s))
      BY <1>3, <1>6, <2>2 DEF l
    <3>2. QED
      BY <1>2, <1>4, <3>1, AwaitsConcat
  <2>3. QED
    BY <1>1, <2>1, <2>2
<1>7. QED
  BY <1>5, <1>6, DestructType

(* Parking a board never starts it again.                                  *)
LEMMA PerformParks ==
  ASSUME NEW board \in Boards, NEW driver \in Drivers, NEW t \in ParkTransfers
  PROVE  /\ Stopped(board) \/ t = OffHigh(Channels, FullOff) =>
              Stopped(Perform(board, driver, t))
         /\ board.asleep \/ t = Bus("WriteMode1", Asleep) =>
              Perform(board, driver, t).asleep
         /\ Note(driver, board, t).open = driver.open
<1>1. CASE t = On(Channels)
  BY <1>1 DEF On, OffHigh, Bus, Perform, Note, Drivers
<1>2. CASE t = OffLow(Channels, 0)
  BY <1>2 DEF OffLow, OffHigh, Bus, Perform, Note, Boards, Drivers, Stopped
<1>3. CASE t = OffHigh(Channels, FullOff)
  BY <1>3 DEF OffHigh, Bus, Perform, Note, Boards, Drivers, Stopped
<1>4. CASE t = Bus("ReadMode1", 0)
  BY <1>4 DEF Bus, OffHigh, Perform, Note, Drivers
<1>5. CASE t = Bus("WriteMode1", Asleep)
  BY <1>5 DEF Bus, OffHigh, Perform, Note, Boards, Drivers, Stopped
<1>6. QED
  BY <1>1, <1>2, <1>3, <1>4, <1>5 DEF ParkTransfers

LEMMA OrderTail ==
  ASSUME NEW S, NEW q \in Seq(S), q # <<>>, InParkOrder(q)
  PROVE  InParkOrder(Tail(q))
<1>1. PICK n \in 0 .. Len(q) : \A k \in DOMAIN q :
        q[k] \in ParkSteps(IF k <= n THEN "R" ELSE "L")
  BY DEF InParkOrder
<1> DEFINE m == IF n = 0 THEN 0 ELSE n - 1
<1>2. m \in 0 .. Len(Tail(q))
  BY HeadTail, HeadTailProperties
<1>3. ASSUME NEW k \in DOMAIN Tail(q)
      PROVE  Tail(q)[k] \in ParkSteps(IF k <= m THEN "R" ELSE "L")
  <2>1. k + 1 \in DOMAIN q /\ Tail(q)[k] = q[k + 1] /\ k \in Nat \ {0}
    BY HeadTail
  <2>2. q[k + 1] \in ParkSteps(IF k + 1 <= n THEN "R" ELSE "L")
    BY <1>1, <2>1
  <2>3. k + 1 <= n <=> k <= m
    BY <2>1
  <2>4. QED
    BY <2>1, <2>2, <2>3
<1> HIDE DEF m
<1>4. QED
  BY <1>2, <1>3 DEF InParkOrder

(* The head of a list in park order, and what it says of the others.       *)
LEMMA OrderHead ==
  ASSUME NEW S, NEW q \in Seq(S), q # <<>>, InParkOrder(q)
  PROVE  /\ Head(q).kind = "transfer"
         /\ Head(q).side \in Sides
         /\ Head(q) \in ParkSteps(Head(q).side)
         /\ Head(q).transfer \in ParkTransfers
         /\ Head(q).side = "L" => \A t : ~ Awaits(q, Transfer("R", t))
<1>1. PICK n \in 0 .. Len(q) : \A k \in DOMAIN q :
        q[k] \in ParkSteps(IF k <= n THEN "R" ELSE "L")
  BY DEF InParkOrder
<1>2. 1 \in DOMAIN q /\ Head(q) = q[1]
  BY HeadTail
<1>3. PICK side \in Sides : Head(q) \in ParkSteps(side) /\ (side = "L" => n = 0)
  <2>1. Head(q) \in ParkSteps(IF 1 <= n THEN "R" ELSE "L")
    BY <1>1, <1>2
  <2>2. CASE n = 0
    BY <2>1, <2>2 DEF Sides
  <2>3. CASE 1 <= n
    BY <2>1, <2>3 DEF Sides
  <2>4. QED
    BY <2>2, <2>3
<1>4. PICK t \in ParkTransfers : Head(q) = Transfer(side, t)
  BY <1>3 DEF ParkSteps
<1>5. Head(q).kind = "transfer" /\ Head(q).side = side /\ Head(q).transfer = t
  BY <1>4, StepFields
<1>6. ASSUME side = "L", NEW u, NEW k \in DOMAIN q, q[k] = Transfer("R", u)
      PROVE  FALSE
  <2>1. ~ (k <= n)
    BY <1>3, <1>6, HeadTail
  <2>2. q[k] \in ParkSteps("L")
    BY <1>1, <2>1
  <2>3. q[k].side = "L" /\ q[k].side = "R"
    BY <1>6, <2>2, StepFields DEF ParkSteps
  <2>4. QED
    BY <2>3
<1>7. QED
  BY <1>3, <1>4, <1>5, <1>6 DEF Awaits

(* A step that is no transfer parks nothing, and opens nothing.            *)
LEMMA ParkAdvance ==
  ASSUME TypeOK, ParkInv, todo # <<>>, Head(todo).kind # "transfer",
         \E p \in Seq(Steps) : todo' = p \o Tail(todo),
         UNCHANGED <<boards, drivers, phase, unparked>>
  PROVE  ParkInv'
<1>1. todo \in Seq(Steps)
  BY DEF TypeOK
<1>2. PICK p \in Seq(Steps) : todo' = p \o Tail(todo)
  OBVIOUS
<1>3. Tail(todo) \in Seq(Steps)
  BY <1>1, HeadTail
<1>4. ASSUME NEW s \in Sides, Awaits(todo, Opens(s)) PROVE Awaits(todo', Opens(s))
  <2>1. Opens(s) # Head(todo)
    BY StepFields DEF Opens
  <2>2. Awaits(Tail(todo), Opens(s))
    BY <1>1, <1>4, <2>1, AwaitsTail
  <2>3. QED
    BY <1>2, <1>3, <2>2, AwaitsConcat
<1>5. phase # "destroying"
  BY <1>1, OrderHead DEF ParkInv
<1>6. ParkedOnExit'
  BY DEF ParkInv, ParkedOnExit
<1>7. QED
  BY <1>4, <1>5, <1>6 DEF ParkInv

(* A board whose destructor gives up is left; the other one is parked.     *)
LEMMA ParkThrow ==
  ASSUME TypeOK, ParkInv, todo # <<>>, Throw, drivers' = drivers,
         \A s \in Sides : s # Head(todo).side => boards'[s] = boards[s]
  PROVE  ParkInv'
<1>1. todo \in Seq(Steps)
  BY DEF TypeOK
<1>2. CASE phase # "destroying"
  <2>1. /\ phase' = "destroying" /\ todo' = Destruct
        /\ unparked' = {s \in Sides : ~ drivers[s].open}
    BY <1>2 DEF Throw, Destroy
  <2>2. InParkOrder(todo')
    BY <2>1, DestructSteps
  <2>3. ASSUME NEW s \in Sides \ unparked'
        PROVE  /\ drivers'[s].open
               /\ Awaits(todo', Stops(s)) /\ Awaits(todo', Sleeps(s))
    BY <2>1, <2>3, DestructSteps
  <2>4. QED
    BY <2>1, <2>2, <2>3 DEF ParkInv, ParkedOrWillBe, ParkedOnExit
<1>3. CASE phase = "destroying"
  <2>1. /\ phase' = "destroying"
        /\ todo' = IF Head(todo).side = "R" THEN ParkOpen("L") ELSE <<>>
        /\ unparked' = unparked \cup {Head(todo).side}
    BY <1>3 DEF Throw, SkipParking
  <2>2. InParkOrder(todo) /\ ParkedOrWillBe
    BY <1>3 DEF ParkInv
  <2>3. /\ Head(todo).side \in Sides
        /\ Head(todo).side = "L" => \A t : ~ Awaits(todo, Transfer("R", t))
    BY <1>1, <2>2, OrderHead
  <2>4. CASE Head(todo).side = "R"
    <3>1. /\ todo' = ParkOpen("L") /\ "L" \in Sides
          /\ unparked' = unparked \cup {"R"}
      BY <2>1, <2>4 DEF Sides
    <3>2. InParkOrder(todo')
      <4>1. /\ ParkOpen("L") \in Seq(Steps)
            /\ \A k \in DOMAIN ParkOpen("L") : ParkOpen("L")[k] \in ParkSteps("L")
        BY <3>1, ParkOpenSteps
      <4>2. /\ Len(ParkOpen("L")) \in Nat
            /\ DOMAIN ParkOpen("L") = 1 .. Len(ParkOpen("L"))
        BY <4>1, LenProperties
      <4>3. \A k \in DOMAIN ParkOpen("L") :
              ParkOpen("L")[k] \in ParkSteps(IF k <= 0 THEN "R" ELSE "L")
        BY <4>1, <4>2
      <4>4. QED
        BY <3>1, <4>2, <4>3 DEF InParkOrder
    <3>3. ASSUME NEW s \in Sides \ unparked'
          PROVE  /\ drivers'[s].open
                 /\ Awaits(todo', Stops(s)) /\ Awaits(todo', Sleeps(s))
      <4>1. s = "L" /\ s \notin unparked
        BY <3>1, <3>3 DEF Sides
      <4>2. drivers["L"].open
        BY <3>1, <4>1, <2>2 DEF ParkedOrWillBe
      <4>3. QED
        BY <3>1, <4>1, <4>2, ParkOpenSteps
    <3>4. QED
      BY <2>1, <3>2, <3>3 DEF ParkInv, ParkedOrWillBe, ParkedOnExit
  <2>5. CASE Head(todo).side = "L"
    <3>1. todo' = <<>> /\ unparked' = unparked \cup {"L"}
      BY <2>1, <2>5
    <3>2. InParkOrder(todo')
      <4>1. DOMAIN <<>> = {} /\ 0 \in 0 .. Len(<<>>)
        BY EmptySeq
      <4>2. QED
        BY <3>1, <4>1 DEF InParkOrder
    <3>3. ASSUME NEW s \in Sides \ unparked'
          PROVE  drivers'[s].open /\ Stopped(boards'[s]) /\ boards'[s].asleep
      <4>1. s = "R" /\ s \notin unparked
        BY <3>1, <3>3 DEF Sides
      <4>2. boards'[s] = boards[s]
        BY <2>5, <4>1
      <4>3. ~ Awaits(todo, Stops(s)) /\ ~ Awaits(todo, Sleeps(s))
        BY <2>3, <2>5, <4>1 DEF Stops, Sleeps
      <4>4. QED
        BY <2>2, <4>1, <4>2, <4>3 DEF ParkedOrWillBe, Stopped
    <3>4. QED
      BY <2>1, <3>2, <3>3 DEF ParkInv, ParkedOrWillBe, ParkedOnExit
  <2>6. QED
    BY <2>3, <2>4, <2>5 DEF Sides
<1>4. QED
  BY <1>2, <1>3

(* A transfer leaves what is stopped stopped, and what sleeps asleep.      *)
LEMMA ParkTransferKeeps ==
  ASSUME TypeOK, Succeed \/ Fail, InParkOrder(todo), NEW s \in Sides
  PROVE  /\ Stopped(boards[s]) => Stopped(boards'[s])
         /\ boards[s].asleep => boards'[s].asleep
<1>1. /\ todo # <<>> /\ todo \in Seq(Steps)
      /\ \/ boards'[s] = boards[s]
         \/ boards'[s] = Perform(boards[s], drivers[s], Head(todo).transfer)
  BY BusStep DEF TypeOK
<1>2. Head(todo).transfer \in ParkTransfers
  BY <1>1, OrderHead
<1>3. boards[s] \in Boards /\ drivers[s] \in Drivers
  BY DEF TypeOK
<1>4. \A t \in ParkTransfers :
        /\ Stopped(boards[s]) => Stopped(Perform(boards[s], drivers[s], t))
        /\ boards[s].asleep => Perform(boards[s], drivers[s], t).asleep
  BY <1>3, PerformParks
<1>5. CASE boards'[s] = boards[s]
  BY <1>5 DEF Stopped
<1>6. CASE boards'[s] = Perform(boards[s], drivers[s], Head(todo).transfer)
  BY <1>2, <1>4, <1>6 DEF Stopped
<1>7. QED
  BY <1>1, <1>5, <1>6

(* A bus once open stays open.                                             *)
LEMMA NoteOpens ==
  ASSUME NEW board \in Boards, NEW driver \in Drivers, NEW t \in Transfers,
         driver.open \/ t.op = "Open"
  PROVE  Note(driver, board, t).open
BY DEF Note, Drivers, Transfers, Operations

LEMMA OpenStays ==
  ASSUME TypeOK, Succeed, NEW s \in Sides
  PROVE  drivers[s].open \/ Head(todo) = Opens(s) => drivers'[s].open
<1>1. Head(todo) \in Steps /\ Head(todo).transfer \in Transfers
  BY BusStep DEF Steps
<1>2. boards[s] \in Boards /\ drivers[s] \in Drivers
  BY DEF TypeOK
<1>3. IF s = Head(todo).side
      THEN drivers'[s] = Note(drivers[s], boards[s], Head(todo).transfer)
      ELSE drivers'[s] = drivers[s]
  BY SuccessStep
<1>4. \A t \in Transfers : drivers[s].open \/ t.op = "Open" =>
        Note(drivers[s], boards[s], t).open
  BY <1>2, NoteOpens
<1>5. Head(todo) = Opens(s) =>
        Head(todo).side = s /\ Head(todo).transfer.op = "Open"
  BY StepFields DEF Opens, Bus
<1>6. QED
  BY <1>1, <1>3, <1>4, <1>5

LEMMA ParkSucceed ==
  ASSUME TypeOK, ParkInv, Succeed PROVE ParkInv'
<1>1. /\ todo \in Seq(Steps) /\ todo # <<>> /\ todo' = Tail(todo)
      /\ phase' = phase /\ unparked' = unparked
  BY BusStep DEF TypeOK, Succeed
<1>2. \A s \in Sides : drivers[s].open \/ Head(todo) = Opens(s) => drivers'[s].open
  BY OpenStays
<1>3. phase = "constructing" =>
        \A s \in Sides : drivers'[s].open \/ Awaits(todo', Opens(s))
  <2> SUFFICES ASSUME phase = "constructing", NEW s \in Sides, ~ drivers'[s].open
               PROVE  Awaits(Tail(todo), Opens(s))
    BY <1>1
  <2>1. Awaits(todo, Opens(s)) /\ Head(todo) # Opens(s)
    BY <1>2 DEF ParkInv
  <2>2. QED
    BY <1>1, <2>1, AwaitsTail
<1>4. phase \in {"testing", "spinning"} => \A s \in Sides : drivers'[s].open
  BY <1>2 DEF ParkInv
<1>5. phase = "destroying" => InParkOrder(todo') /\ ParkedOrWillBe'
  <2> SUFFICES ASSUME phase = "destroying"
               PROVE  InParkOrder(todo') /\ ParkedOrWillBe'
    OBVIOUS
  <2>1. InParkOrder(todo) /\ ParkedOrWillBe
    BY DEF ParkInv
  <2>2. InParkOrder(todo')
    BY <1>1, <2>1, OrderTail
  <2>3. ASSUME NEW s \in Sides \ unparked
        PROVE  /\ drivers'[s].open
               /\ Stopped(boards'[s]) \/ Awaits(todo', Stops(s))
               /\ boards'[s].asleep \/ Awaits(todo', Sleeps(s))
    <3>1. /\ drivers'[s].open
          /\ Stopped(boards[s]) => Stopped(boards'[s])
          /\ boards[s].asleep => boards'[s].asleep
      BY <1>2, <2>1, ParkTransferKeeps DEF ParkedOrWillBe
    <3>2. boards[s] \in Boards /\ drivers[s] \in Drivers
      BY DEF TypeOK
    <3>3. s = Head(todo).side =>
            boards'[s] = Perform(boards[s], drivers[s], Head(todo).transfer)
      BY SuccessStep
    <3>4. Head(todo).transfer \in ParkTransfers
      BY <1>1, <2>1, OrderHead
    <3>5. \A t \in ParkTransfers :
            /\ t = OffHigh(Channels, FullOff) =>
                 Stopped(Perform(boards[s], drivers[s], t))
            /\ t = Bus("WriteMode1", Asleep) =>
                 Perform(boards[s], drivers[s], t).asleep
      BY <3>2, PerformParks
    <3>6. Head(todo) = Stops(s) => Stopped(boards'[s])
      <4>1. SUFFICES ASSUME Head(todo) = Stops(s) PROVE Stopped(boards'[s])
        OBVIOUS
      <4>2. s = Head(todo).side /\ Head(todo).transfer = OffHigh(Channels, FullOff)
        BY <4>1, StepFields DEF Stops
      <4>3. QED
        BY <3>3, <3>4, <3>5, <4>2 DEF Stopped
    <3>7. Head(todo) = Sleeps(s) => boards'[s].asleep
      BY <3>3, <3>4, <3>5, StepFields DEF Sleeps
    <3>8. Stopped(boards'[s]) \/ Awaits(todo', Stops(s))
      BY <1>1, <2>1, <3>1, <3>6, AwaitsTail DEF ParkedOrWillBe
    <3>9. boards'[s].asleep \/ Awaits(todo', Sleeps(s))
      BY <1>1, <2>1, <3>1, <3>7, AwaitsTail DEF ParkedOrWillBe
    <3>10. QED
      BY <3>1, <3>8, <3>9
  <2>4. QED
    BY <1>1, <2>2, <2>3 DEF ParkedOrWillBe
<1>6. ParkedOnExit'
  <2>1. phase # "down"
    BY <1>1 DEF ParkInv
  <2>2. QED
    BY <1>1, <2>1 DEF ParkedOnExit
<1>7. QED
  BY <1>1, <1>3, <1>4, <1>5, <1>6 DEF ParkInv

LEMMA ParkFail ==
  ASSUME TypeOK, ParkInv, Fail PROVE ParkInv'
<1>1. /\ todo \in Seq(Steps) /\ todo # <<>>
      /\ \A s \in Sides : s # Head(todo).side => boards'[s] = boards[s]
  BY BusStep DEF TypeOK
<1>2. drivers' = drivers
  BY FailStep
<1>3. CASE Throw
  BY <1>1, <1>2, <1>3, ParkThrow
<1>4. CASE UNCHANGED <<phase, todo, topic, pending, latest, unparked>>
  <2>1. \A s \in Sides : InParkOrder(todo) =>
          /\ Stopped(boards[s]) => Stopped(boards'[s])
          /\ boards[s].asleep => boards'[s].asleep
    BY ParkTransferKeeps
  <2>2. phase # "down"
    BY <1>1 DEF ParkInv
  <2>3. phase = "destroying" => InParkOrder(todo') /\ ParkedOrWillBe'
    BY <1>2, <1>4, <2>1 DEF ParkInv, ParkedOrWillBe
  <2>4. QED
    BY <1>2, <1>4, <2>2, <2>3 DEF ParkInv, ParkedOnExit
<1>5. QED
  BY <1>3, <1>4, FailStep

Quiet == {step \in Steps : step.kind # "transfer"}

LEMMA QuietType ==
  /\ RestoreDefaultPosition \in Seq(Quiet)
  /\ PerformTest \in Seq(Quiet)
  /\ \A i \in Motors :
       [a \in DOMAIN SweepAngles |-> SetTo(i, SweepAngles[a])] \in Seq(Quiet)
<1>1. /\ \A what \in Checks : Check(what) \in Quiet
      /\ \A i \in Motors : Home(i) \in Quiet /\ Sweep(i) \in Quiet
      /\ \A i \in Motors : \A degree \in Int : SetTo(i, degree) \in Quiet
  BY StepType, StepFields DEF Quiet
<1>2. Len(MotorTable) \in Nat /\ Motors = 1 .. Len(MotorTable)
  BY MotorsType, ServoAssumption, LenProperties
<1>3. /\ [i \in Motors |-> Home(i)] \in Seq(Quiet)
      /\ [i \in Motors |-> Sweep(i)] \in Seq(Quiet)
  BY <1>1, <1>2
<1>4. <<Check("homing script")>> \in Seq(Quiet)
  BY <1>1, ListType DEF Checks
<1>5. RestoreDefaultPosition \in Seq(Quiet)
  BY <1>3, <1>4, ConcatType DEF RestoreDefaultPosition
<1>6. PerformTest \in Seq(Quiet)
  <2>1. <<>> \in Seq(Quiet)
    OBVIOUS
  <2>2. QED
    BY <1>3, <1>5, <2>1, ConcatType DEF PerformTest
<1>7. ASSUME NEW i \in Motors
      PROVE  [a \in DOMAIN SweepAngles |-> SetTo(i, SweepAngles[a])] \in Seq(Quiet)
  <2>1. 180 \div TestStep + 1 \in Nat
    BY ServoAssumption
  <2>2. DOMAIN SweepAngles = 1 .. 180 \div TestStep + 1
    BY DEF SweepAngles
  <2>3. \A a \in DOMAIN SweepAngles : SweepAngles[a] \in Int
    BY <2>1, ServoAssumption DEF SweepAngles
  <2>4. \A a \in DOMAIN SweepAngles : SetTo(i, SweepAngles[a]) \in Quiet
    BY <1>1, <2>3
  <2>5. QED
    BY <2>1, <2>2, <2>4
<1>8. QED
  BY <1>5, <1>6, <1>7

(* A step that is no transfer throws, moves a motor, or puts steps that    *)
(* are no transfers before the others.                                     *)
MoveOf(step, i, degree) ==
  \/ /\ step.kind = "home" /\ i = step.motor
     /\ degree = configuration.homing[i] /\ degree # Missing
  \/ step.kind = "set" /\ i = step.motor /\ degree = step.degree
  \/ /\ step.kind = "write" /\ Named(step.name) # {}
     /\ i = FindMotor(step.name) /\ degree = step.degree

SweepOf(i) ==
  [a \in DOMAIN SweepAngles |-> SetTo(i, SweepAngles[a])]
  \o RestoreDefaultPosition

(* What a step that moves nothing puts before the others.                  *)
PutsFirst(step, p) ==
  \/ step.kind = "check" /\ p = <<>>
  \/ step.kind = "sweep" /\ step.motor \in Motors /\ p = SweepOf(step.motor)
  \/ step.kind = "write" /\ Named(step.name) = {} /\ p = <<>>

LEMMA OtherSteps ==
  ASSUME TypeOK,
         \/ Inspect \/ HomeMotor \/ SweepMotor \/ SetMotor \/ WriteEntry
  PROVE  /\ todo # <<>> /\ Head(todo) \in Quiet
         /\ UNCHANGED <<configuration, boards, drivers>>
         /\ \/ Throw /\ UNCHANGED <<motorAngle, driven>>
            \/ /\ UNCHANGED <<phase, motorAngle, driven, unparked, topic,
                              pending, latest>>
               /\ \E p \in Seq(Quiet) : /\ todo' = p \o Tail(todo)
                                        /\ PutsFirst(Head(todo), p)
            \/ \E i \in Motors, degree \in Int :
                 Move(i, degree) /\ MoveOf(Head(todo), i, degree)
<1>1. todo \in Seq(Steps)
  BY DEF TypeOK
<1>2. CASE Inspect
  <2>1. todo # <<>> /\ Head(todo) \in Steps /\ Head(todo).kind = "check"
    BY <1>1, <1>2, AtStepType DEF Inspect, AtStep
  <2>2. <<>> \in Seq(Quiet) /\ <<>> \o Tail(todo) = Tail(todo)
    BY <1>1, <2>1, HeadTail, ConcatEmptySeq
  <2>3. QED
    BY <1>2, <2>1, <2>2 DEF Inspect, Quiet, PutsFirst
<1>3. ASSUME NEW i \in Motors, NEW degree \in Int, Move(i, degree)
      PROVE  UNCHANGED <<configuration, boards, drivers>>
  BY <1>3 DEF Move
<1>4. CASE HomeMotor
  <2>1. /\ todo # <<>> /\ Head(todo) \in Steps /\ Head(todo).kind = "home"
        /\ Head(todo).motor \in Motors
    BY <1>1, <1>4, AtStepType DEF HomeMotor, AtStep, Steps
  <2> DEFINE i == Head(todo).motor
  <2>2. CASE configuration.homing[i] = Missing
    BY <1>4, <2>1, <2>2 DEF HomeMotor, Quiet
  <2>3. CASE configuration.homing[i] # Missing
    <3>1. Move(i, configuration.homing[i]) /\ configuration.homing[i] \in Int
      BY <1>4, <2>1, <2>3, ServoAssumption DEF HomeMotor, TypeOK
    <3>2. QED
      BY <1>3, <2>1, <2>3, <3>1 DEF Quiet, MoveOf
  <2>4. QED
    BY <2>2, <2>3
<1>5. CASE SweepMotor
  <2>1. /\ todo # <<>> /\ Head(todo) \in Steps /\ Head(todo).kind = "sweep"
        /\ Head(todo).motor \in Motors
    BY <1>1, <1>5, AtStepType DEF SweepMotor, AtStep, Steps
  <2> DEFINE p == SweepOf(Head(todo).motor)
  <2>2. p \in Seq(Quiet)
    BY <2>1, QuietType, ConcatType DEF SweepOf
  <2>3. todo' = p \o Tail(todo) /\ PutsFirst(Head(todo), p)
    BY <1>5, <2>1 DEF SweepMotor, SweepOf, PutsFirst
  <2>4. UNCHANGED <<configuration, boards, drivers, phase, motorAngle, driven,
                    unparked, topic, pending, latest>>
    BY <1>5 DEF SweepMotor
  <2> HIDE DEF p
  <2>5. QED
    BY <2>1, <2>2, <2>3, <2>4 DEF Quiet
<1>6. CASE SetMotor
  <2>1. /\ todo # <<>> /\ Head(todo) \in Steps /\ Head(todo).kind = "set"
        /\ Head(todo).motor \in Motors /\ Head(todo).degree \in Int
    BY <1>1, <1>6, AtStepType DEF SetMotor, AtStep, Steps
  <2>2. QED
    BY <1>3, <1>6, <2>1 DEF SetMotor, Quiet, MoveOf
<1>7. CASE WriteEntry
  <2>1. /\ todo # <<>> /\ Head(todo) \in Steps /\ Head(todo).kind = "write"
        /\ Head(todo).degree \in Int
    BY <1>1, <1>7, AtStepType DEF WriteEntry, AtStep, Steps
  <2>2. CASE Named(Head(todo).name) # {}
    <3>1. /\ FindMotor(Head(todo).name) \in Motors
          /\ Move(FindMotor(Head(todo).name), Head(todo).degree)
      BY <1>7, <2>2, FindMotorSpec DEF WriteEntry
    <3>2. QED
      BY <1>3, <2>1, <2>2, <3>1 DEF Quiet, MoveOf
  <2>3. CASE Named(Head(todo).name) = {}
    <3>1. <<>> \in Seq(Quiet) /\ <<>> \o Tail(todo) = Tail(todo)
      BY <1>1, <2>1, HeadTail, ConcatEmptySeq
    <3>2. QED
      BY <1>7, <2>1, <2>3, <3>1 DEF WriteEntry, Quiet, PutsFirst
  <2>4. QED
    BY <2>2, <2>3
<1>8. QED
  BY <1>2, <1>4, <1>5, <1>6, <1>7

(* The steps that send a motor the given count.                            *)
PulseSteps(i, ticks) ==
  Do(MotorTable[i].side, SetSinglePWM(MotorTable[i].pin, ticks))

LowByte(ticks)  == ticks % 256
HighByte(ticks) == ticks \div 256

LEMMA PulseStepsSpec ==
  ASSUME NEW i \in Motors, NEW ticks \in Counts
  PROVE  /\ PulseSteps(i, ticks) \in Seq(Steps)
         /\ DOMAIN PulseSteps(i, ticks) = 1 .. 3
         /\ MotorTable[i].side \in Sides /\ MotorTable[i].pin \in Channels
         /\ PulseSteps(i, ticks)[1] =
              Transfer(MotorTable[i].side, On({MotorTable[i].pin}))
         /\ PulseSteps(i, ticks)[2] =
              Transfer(MotorTable[i].side,
                       OffLow({MotorTable[i].pin}, LowByte(ticks)))
         /\ PulseSteps(i, ticks)[3] =
              Transfer(MotorTable[i].side,
                       OffHigh({MotorTable[i].pin}, HighByte(ticks)))
<1> DEFINE side == MotorTable[i].side
           pin  == MotorTable[i].pin
           method == SetSinglePWM(pin, ticks)
           a == On({pin})
           b == OffLow({pin}, LowByte(ticks))
           c == OffHigh({pin}, HighByte(ticks))
<1>1. side \in Sides /\ pin \in Channels
  BY MotorsType
<1>2. method \in Seq(Transfers)
  BY <1>1, SetSinglePWMType
<1>3. method = <<a, b, c>>
  BY DEF SetSinglePWM, LowByte, HighByte
<1> HIDE DEF a, b, c
<1>4. /\ DOMAIN method = 1 .. 3
      /\ method[1] = a /\ method[2] = b /\ method[3] = c
  BY <1>3
<1>5. PulseSteps(i, ticks) = Do(side, method)
  BY DEF PulseSteps
<1> HIDE DEF method, side
<1>6. /\ Do(side, method) \in Seq(Steps)
      /\ DOMAIN Do(side, method) = 1 .. 3
      /\ Do(side, method)[1] = Transfer(side, a)
      /\ Do(side, method)[2] = Transfer(side, b)
      /\ Do(side, method)[3] = Transfer(side, c)
  BY <1>1, <1>2, <1>4, DoSteps
<1>7. QED
  BY <1>1, <1>5, <1>6 DEF a, b, c, side

(* Moving a motor puts its pulse before the other steps.                   *)
LEMMA MoveSteps ==
  ASSUME TypeOK, NEW i \in Motors, NEW degree \in Int, Move(i, degree)
  PROVE  /\ UNCHANGED <<configuration, boards, drivers, phase, unparked, topic,
                        pending, latest>>
         /\ ValidateAngle(degree) \in Travel
         /\ motorAngle' = [motorAngle EXCEPT ![i] = ValidateAngle(degree)]
         /\ driven' = driven \cup {<<MotorTable[i].side, MotorTable[i].pin>>}
         /\ PulseWidth(ValidateAngle(degree)) \in Counts
         /\ todo' = PulseSteps(i, PulseWidth(ValidateAngle(degree))) \o Tail(todo)
<1>1. ValidateAngle(degree) \in Travel
  BY ValidateAngleType
<1>2. drivers["L"].prescale \in Byte
  BY DEF TypeOK, Drivers, Sides
<1>3. \A angle \in Travel, prescale \in Byte : Ticks(angle, prescale) \in Counts
  BY TicksType
<1>4. PulseWidth(ValidateAngle(degree)) \in Counts
  BY <1>1, <1>2, <1>3 DEF PulseWidth
<1>5. QED
  BY <1>1, <1>4 DEF Move, PulseSteps

-----------------------------------------------------------------------------
(* What the constructor does, in three parts: it opens and clears the      *)
(* boards, sets their frequency, and brings the motors to rest.            *)

Opening ==
  << Check("parameters"), Check("left address") >> \o Do("L", Initialize)
  \o << Check("right address") >> \o Do("R", Initialize)
  \o << Check("frequency") >>

Tuning == Do("L", SetPrescale(Prescale)) \o Do("R", SetPrescale(Prescale))

Homing == << Check("motors script") >> \o RestoreDefaultPosition

(* What Initialize may send, apart from its last transfer.                 *)
OpenTransfers ==
  {Bus("Open", 0), On(Channels), OffLow(Channels, 0), OffHigh(Channels, 0),
   Bus("WriteMode2", 4), Bus("WriteMode1", Awake), Bus("ReadMode1", 0)}

ReadPrescale == Bus("ReadPreScale", 0)

LEMMA InitializeParts ==
  /\ Initialize \in Seq(OpenTransfers \cup {ReadPrescale})
  /\ Awaits(Initialize, Bus("Open", 0))
  /\ Awaits(Initialize, Bus("WriteMode1", Awake))
  /\ Awaits(Initialize, OffLow(Channels, 0))
  /\ Awaits(Initialize, OffHigh(Channels, 0))
  /\ Guarded(Initialize, OffLow(Channels, 0), {ReadPrescale})
  /\ Guarded(Initialize, OffHigh(Channels, 0), {ReadPrescale})
<1> DEFINE t == Bus("Open", 0)
           l == OffLow(Channels, 0)
           h == OffHigh(Channels, 0)
           w == Bus("WriteMode2", 4)
           x == Bus("WriteMode1", Awake)
           y == ReadPrescale
           S == OpenTransfers \cup {ReadPrescale}
           a == <<t>>
           d == <<w, x>>
           e == <<y>>
<1>1. /\ t \in OpenTransfers /\ l \in OpenTransfers /\ h \in OpenTransfers
      /\ w \in OpenTransfers /\ x \in OpenTransfers
      /\ On(Channels) \in OpenTransfers /\ Bus("ReadMode1", 0) \in OpenTransfers
  BY DEF OpenTransfers
<1>2. \A u \in OpenTransfers : u # y
  BY DEF OpenTransfers, ReadPrescale, Bus, On, OffLow, OffHigh
<1>3. Initialize = a \o ClearAll \o d \o Wake \o e
  BY DEF Initialize, ReadPrescale
<1>4. /\ ClearAll = <<On(Channels), l, h>>
      /\ Wake = <<Bus("ReadMode1", 0), x>>
  BY DEF ClearAll, Wake
<1> HIDE DEF t, l, h, w, x, y
<1>5. /\ a \in Seq(OpenTransfers) /\ ClearAll \in Seq(OpenTransfers)
      /\ d \in Seq(OpenTransfers) /\ Wake \in Seq(OpenTransfers)
  BY <1>1, <1>4, ListType
<1>6. Awaits(a, t) /\ Awaits(d, x) /\ Awaits(ClearAll, l) /\ Awaits(ClearAll, h)
  <2>1. 1 \in DOMAIN a /\ a[1] = t
    OBVIOUS
  <2>2. 2 \in DOMAIN d /\ d[2] = x
    OBVIOUS
  <2>3. /\ 2 \in DOMAIN ClearAll /\ ClearAll[2] = l
        /\ 3 \in DOMAIN ClearAll /\ ClearAll[3] = h
    BY <1>4
  <2>4. QED
    BY <2>1, <2>2, <2>3 DEF Awaits
<1>7. ASSUME NEW q \in Seq(OpenTransfers), NEW need PROVE Guarded(q, need, {y})
  <2>1. \A k \in DOMAIN q : q[k] \in OpenTransfers
    BY LenProperties, ElementOfSeq
  <2>2. QED
    BY <1>2, <2>1 DEF Guarded
<1>8. e \in Seq(S) /\ OpenTransfers \subseteq S
  BY DEF y
<1> HIDE DEF a, d, e, S
<1>9. /\ a \in Seq(S) /\ ClearAll \in Seq(S) /\ d \in Seq(S) /\ Wake \in Seq(S)
  BY <1>5, <1>8, SeqMonotonic
<1>10. /\ Initialize \in Seq(S)
       /\ Awaits(Initialize, t) /\ Awaits(Initialize, x)
       /\ Awaits(Initialize, l) /\ Awaits(Initialize, h)
  BY <1>3, <1>6, <1>8, <1>9, Chain
<1>11. \A need : Awaits(ClearAll, need) => Guarded(Initialize, need, {y})
  BY <1>3, <1>5, <1>7, <1>8, <1>9, Chain
<1>12. QED
  BY <1>6, <1>10, <1>11 DEF t, x, l, h, y, S

(* A method's transfers, in the order of the method.                       *)
LEMMA DoOrder ==
  ASSUME NEW side \in Sides, NEW method \in Seq(Transfers)
  PROVE  /\ \A t : Awaits(method, t) => Awaits(Do(side, method), Transfer(side, t))
         /\ \A T : method \in Seq(T) =>
              \A k \in DOMAIN Do(side, method) :
                \E t \in T : Do(side, method)[k] = Transfer(side, t)
         /\ \A need, use, steps :
              /\ Guarded(method, need, use)
              /\ \A t : Transfer(side, t) \in steps => t \in use
              => Guarded(Do(side, method), Transfer(side, need), steps)
<1>1. /\ DOMAIN Do(side, method) = DOMAIN method
      /\ DOMAIN method = 1 .. Len(method) /\ Len(method) \in Nat
      /\ \A k \in DOMAIN method : Do(side, method)[k] = Transfer(side, method[k])
  BY DoSteps, LenProperties
<1>2. \A t : Awaits(method, t) => Awaits(Do(side, method), Transfer(side, t))
  BY <1>1 DEF Awaits
<1>3. \A T : method \in Seq(T) =>
        \A k \in DOMAIN Do(side, method) :
          \E t \in T : Do(side, method)[k] = Transfer(side, t)
  BY <1>1, ElementOfSeq
<1>4. ASSUME NEW need, NEW use, NEW steps, Guarded(method, need, use),
             \A t : Transfer(side, t) \in steps => t \in use,
             NEW k \in DOMAIN Do(side, method), Do(side, method)[k] \in steps
      PROVE  \E j \in 1 .. k - 1 : Do(side, method)[j] = Transfer(side, need)
  <2>1. k \in DOMAIN method /\ method[k] \in use
    BY <1>1, <1>4
  <2>2. PICK j \in 1 .. k - 1 : method[j] = need
    BY <2>1, <1>4 DEF Guarded
  <2>3. j \in DOMAIN method
    BY <1>1, <2>1, <2>2
  <2>4. QED
    BY <1>1, <2>2, <2>3
<1>5. QED
  BY <1>2, <1>3, <1>4 DEF Guarded

Initialising(s) ==
  {step \in Steps : /\ step.kind = "transfer"
                    /\ step.side = s
                    /\ step.transfer.op \in {"ReadPreScale", "Restart"}}

OpeningSteps ==
  {Check(what) : what \in Checks}
  \cup {Transfer(s, t) : s \in Sides, t \in OpenTransfers \cup {ReadPrescale}}

Clears(s) == {Transfer(s, OffLow(Channels, 0)), Transfer(s, OffHigh(Channels, 0))}

LEMMA OpeningParts ==
  /\ Opening \in Seq(OpeningSteps) /\ Opening \in Seq(Steps)
  /\ \A s \in Sides : /\ Awaits(Opening, Opens(s))
                      /\ Awaits(Opening, Transfer(s, Bus("WriteMode1", Awake)))
                      /\ \A need \in Clears(s) :
                           /\ Awaits(Opening, need)
                           /\ Guarded(Opening, need, Initialising(s))
<1> DEFINE T == OpenTransfers \cup {ReadPrescale}
           a == << Check("parameters"), Check("left address") >>
           b == Do("L", Initialize)
           c == << Check("right address") >>
           d == Do("R", Initialize)
           e == << Check("frequency") >>
<1>1. \A what \in Checks : Check(what) \in OpeningSteps /\ Check(what) \in Steps
  BY StepType DEF OpeningSteps
<1>2. /\ a \in Seq(OpeningSteps) /\ c \in Seq(OpeningSteps) /\ e \in Seq(OpeningSteps)
      /\ a \in Seq(Steps) /\ c \in Seq(Steps) /\ e \in Seq(Steps)
  BY <1>1, ListType DEF Checks
<1>3. \A s \in Sides : Do(s, Initialize) \in Seq(Steps)
  BY InitializeType, DoType
<1>4. ASSUME NEW s \in Sides PROVE Do(s, Initialize) \in Seq(OpeningSteps)
  <2>1. Initialize \in Seq(T)
    BY InitializeParts
  <2>2. /\ DOMAIN Do(s, Initialize) = 1 .. Len(Do(s, Initialize))
        /\ Len(Do(s, Initialize)) \in Nat
    BY <1>3, LenProperties
  <2>3. \A k \in DOMAIN Do(s, Initialize) :
          \E t \in T : Do(s, Initialize)[k] = Transfer(s, t)
    BY <2>1, InitializeType, DoOrder
  <2>4. \A k \in DOMAIN Do(s, Initialize) : Do(s, Initialize)[k] \in OpeningSteps
    BY <2>3 DEF OpeningSteps
  <2>5. Do(s, Initialize) = [k \in 1 .. Len(Do(s, Initialize)) |-> Do(s, Initialize)[k]]
    BY <1>3, LenProperties
  <2> DEFINE q == Do(s, Initialize)
  <2> HIDE DEF q
  <2>6. q \in Seq(OpeningSteps)
    BY <2>2, <2>4, <2>5 DEF q
  <2>7. QED
    BY <2>6 DEF q
<1>5. Opening = a \o b \o c \o d \o e
  BY DEF Opening
<1>6. "L" \in Sides /\ "R" \in Sides /\ \A s \in Sides : s = "L" \/ s = "R"
  BY DEF Sides
<1>7. \A s \in Sides :
        /\ Awaits(Do(s, Initialize), Opens(s))
        /\ Awaits(Do(s, Initialize), Transfer(s, Bus("WriteMode1", Awake)))
        /\ \A need \in Clears(s) : Awaits(Do(s, Initialize), need)
  BY InitializeParts, InitializeType, DoOrder DEF Opens, Clears
<1>8. ASSUME NEW s \in Sides, NEW r \in Sides, NEW need \in Clears(s)
      PROVE  Guarded(Do(r, Initialize), need, Initialising(s))
  <2>1. CASE r # s
    <3>1. \A k \in DOMAIN Do(r, Initialize) : Do(r, Initialize)[k].side = r
      BY InitializeType, DoSteps, StepFields
    <3>2. QED
      BY <2>1, <3>1 DEF Guarded, Initialising
  <2>2. CASE r = s
    <3>1. PICK t : need = Transfer(s, t) /\ t \in {OffLow(Channels, 0), OffHigh(Channels, 0)}
      BY DEF Clears
    <3>2. Guarded(Initialize, t, {ReadPrescale})
      BY <3>1, InitializeParts
    <3>3. \A u \in OpenTransfers : u.op \notin {"ReadPreScale", "Restart"}
      BY DEF OpenTransfers, Bus, On, OffLow, OffHigh
    <3>4. \A k \in DOMAIN Initialize : Initialize[k] \in T
      BY InitializeParts, LenProperties, ElementOfSeq
    <3>5. ASSUME NEW k \in DOMAIN Do(s, Initialize),
                 Do(s, Initialize)[k] \in Initialising(s)
          PROVE  \E j \in 1 .. k - 1 : Do(s, Initialize)[j] = need
      <4>1. /\ k \in DOMAIN Initialize /\ DOMAIN Initialize = DOMAIN Do(s, Initialize)
            /\ \A i \in DOMAIN Initialize :
                 Do(s, Initialize)[i] = Transfer(s, Initialize[i])
        BY <3>5, InitializeType, DoSteps
      <4>2. Initialize[k].op \in {"ReadPreScale", "Restart"}
        BY <3>5, <4>1, StepFields DEF Initialising
      <4>3. Initialize[k] \in {ReadPrescale}
        BY <3>3, <3>4, <4>1, <4>2
      <4>4. PICK j \in 1 .. k - 1 : Initialize[j] = t
        BY <3>2, <4>1, <4>3 DEF Guarded
      <4>5. j \in DOMAIN Initialize
        BY <4>1, <4>4, InitializeType, LenProperties
      <4>6. QED
        BY <3>1, <4>1, <4>4, <4>5
    <3>6. QED
      BY <2>2, <3>5 DEF Guarded
  <2>3. QED
    BY <2>1, <2>2
<1>9. ASSUME NEW s, NEW need
      PROVE  /\ Guarded(a, need, Initialising(s))
             /\ Guarded(c, need, Initialising(s))
             /\ Guarded(e, need, Initialising(s))
  <2>1. /\ \A k \in DOMAIN a : a[k].kind = "check"
        /\ \A k \in DOMAIN c : c[k].kind = "check"
        /\ \A k \in DOMAIN e : e[k].kind = "check"
    <3> DEFINE v == Check("parameters")
               w == Check("left address")
               x == Check("right address")
               y == Check("frequency")
    <3>1. v.kind = "check" /\ w.kind = "check" /\ x.kind = "check" /\ y.kind = "check"
      BY StepFields
    <3> HIDE DEF v, w, x, y
    <3>2. /\ \A k \in DOMAIN <<v, w>> : <<v, w>>[k].kind = "check"
          /\ \A k \in DOMAIN <<x>> : <<x>>[k].kind = "check"
          /\ \A k \in DOMAIN <<y>> : <<y>>[k].kind = "check"
      BY <3>1
    <3>3. QED
      BY <3>2 DEF v, w, x, y
  <2>2. QED
    BY <2>1 DEF Guarded, Initialising
<1> HIDE DEF a, b, c, d, e
<1>10. b \in Seq(Steps) /\ d \in Seq(Steps) /\ b \in Seq(OpeningSteps) /\ d \in Seq(OpeningSteps)
  BY <1>3, <1>4, <1>6 DEF b, d
<1>11. Opening \in Seq(OpeningSteps) /\ Opening \in Seq(Steps)
  BY <1>2, <1>5, <1>10, Chain
<1>12. \A x : Awaits(b, x) \/ Awaits(d, x) => Awaits(Opening, x)
  BY <1>2, <1>5, <1>10, Chain
<1>13. \A s \in Sides : /\ Awaits(Opening, Opens(s))
                        /\ Awaits(Opening, Transfer(s, Bus("WriteMode1", Awake)))
                        /\ \A need \in Clears(s) : Awaits(Opening, need)
  BY <1>6, <1>7, <1>12 DEF b, d
<1>14. ASSUME NEW s \in Sides, NEW need \in Clears(s)
       PROVE  Guarded(Opening, need, Initialising(s))
  <2>1. Guarded(b, need, Initialising(s)) /\ Guarded(d, need, Initialising(s))
    BY <1>6, <1>8 DEF b, d
  <2>2. QED
    BY <1>2, <1>5, <1>9, <1>10, <2>1, Chain
<1>15. QED
  BY <1>11, <1>13, <1>14

LEMMA ConstructParts ==
  /\ Tuning \in Seq(Steps) /\ Homing \in Seq(Steps)
  /\ Tuning \o Homing \in Seq(Steps)
  /\ Construct = Opening \o (Tuning \o Homing)
<1> DEFINE o == Opening
           f == Do("L", SetPrescale(Prescale))
           g == Do("R", SetPrescale(Prescale))
           h == << Check("motors script") >>
           r == RestoreDefaultPosition
<1>1. o \in Seq(Steps)
  BY OpeningParts
<1>2. f \in Seq(Steps) /\ g \in Seq(Steps) /\ r \in Seq(Steps)
  BY SetPrescaleType, DoType, RestoreType DEF Sides
<1>3. h \in Seq(Steps)
  BY StepType, ListType DEF Checks
<1>4. Construct = o \o f \o g \o h \o r
  BY DEF Construct, Opening
<1>5. Tuning = f \o g /\ Homing = h \o r
  BY DEF Tuning, Homing
<1> HIDE DEF o, f, g, h, r
<1>6. Tuning \in Seq(Steps) /\ Homing \in Seq(Steps) /\ Tuning \o Homing \in Seq(Steps)
  BY <1>2, <1>3, <1>5, ConcatType
<1>7. o \o f \o g = o \o Tuning
  BY <1>1, <1>2, <1>5, ConcatAssociative, SMTT(30)
<1>8. (o \o Tuning) \o h \o r = (o \o Tuning) \o Homing
  <2> DEFINE x == o \o Tuning
  <2>1. x \in Seq(Steps)
    BY <1>1, <1>6, ConcatType
  <2>2. h \in Seq(Steps) /\ r \in Seq(Steps)
    BY <1>2, <1>3
  <2> HIDE DEF x
  <2>3. (x \o h) \o r = x \o (h \o r)
    BY <2>1, <2>2, ConcatAssociative
  <2>4. QED
    BY <1>5, <2>3 DEF x
<1>9. (o \o Tuning) \o Homing = o \o (Tuning \o Homing)
  BY <1>1, <1>6, ConcatAssociative
<1>10. QED
  BY <1>4, <1>6, <1>7, <1>8, <1>9 DEF o

-----------------------------------------------------------------------------
LEMMA ParkInit == Init => ParkInv
BY DEF Init, ParkInv, ParkedOnExit

LEMMA ParkNext == TypeOK /\ ParkInv /\ [Next]_vars => ParkInv'
<1> SUFFICES ASSUME TypeOK, ParkInv, [Next]_vars PROVE ParkInv'
  OBVIOUS
<1>1. CASE Respawn
  <2>1. /\ phase' = "constructing" /\ todo' = Construct
    BY <1>1 DEF Respawn
  <2>2. \A s \in Sides : Awaits(Opening \o (Tuning \o Homing), Opens(s))
    BY OpeningParts, ConstructParts, AwaitsConcat
  <2>3. QED
    BY <2>1, <2>2, ConstructParts DEF ParkInv, ParkedOnExit
<1>2. CASE Constructed
  <2>1. \A s \in Sides : ~ Awaits(todo, Opens(s))
    BY <1>2 DEF Constructed, Awaits
  <2>2. QED
    BY <1>2, <2>1 DEF Constructed, ParkInv, ParkedOnExit
<1>3. CASE Spin
  BY <1>3 DEF Spin, ParkInv, ParkedOnExit
<1>4. CASE Shutdown
  <2>1. /\ phase' = "destroying" /\ todo' = Destruct
        /\ UNCHANGED <<drivers, unparked>>
    BY <1>4 DEF Shutdown, Destroy
  <2>2. \A s \in Sides : drivers[s].open
    BY <1>4 DEF Shutdown, ParkInv
  <2>3. InParkOrder(todo') /\ ParkedOrWillBe'
    BY <2>1, <2>2, DestructSteps DEF ParkedOrWillBe
  <2>4. QED
    BY <2>1, <2>3 DEF ParkInv, ParkedOnExit
<1>5. CASE Exit
  <2>1. \A s \in Sides : ~ Awaits(todo, Stops(s)) /\ ~ Awaits(todo, Sleeps(s))
    BY <1>5 DEF Exit, Awaits
  <2>2. \A s \in Sides \ unparked : Stopped(boards[s]) /\ boards[s].asleep
    BY <1>5, <2>1 DEF Exit, ParkInv, ParkedOrWillBe
  <2>3. QED
    BY <1>5, <2>2 DEF Exit, ParkInv, ParkedOnExit, Parked, Stopped
<1>6. CASE Kill
  BY <1>6 DEF Kill, ParkInv, ParkedOnExit
<1>7. CASE Succeed
  BY <1>7, ParkSucceed
<1>8. CASE Fail
  BY <1>8, ParkFail
<1>9. CASE Inspect \/ HomeMotor \/ SweepMotor \/ SetMotor \/ WriteEntry
  <2>1. /\ todo # <<>> /\ todo \in Seq(Steps) /\ Head(todo).kind # "transfer"
        /\ UNCHANGED <<boards, drivers>>
    BY <1>9, OtherSteps DEF Quiet, TypeOK
  <2>2. CASE Throw
    BY <2>1, <2>2, ParkThrow
  <2>3. CASE /\ UNCHANGED <<phase, unparked>>
             /\ \E p \in Seq(Quiet) : todo' = p \o Tail(todo)
    <3>1. \A p \in Seq(Quiet) : p \in Seq(Steps)
      BY SeqMonotonic DEF Quiet
    <3>2. QED
      BY <2>1, <2>3, <3>1, ParkAdvance
  <2>4. CASE \E i \in Motors, degree \in Int : Move(i, degree)
    <3>1. PICK i \in Motors, degree \in Int : Move(i, degree)
      BY <2>4
    <3>2. \A ticks \in Counts : PulseSteps(i, ticks) \in Seq(Steps)
      BY PulseStepsSpec
    <3>3. QED
      BY <2>1, <3>1, <3>2, MoveSteps, ParkAdvance
  <2>5. QED
    BY <1>9, <2>2, <2>3, <2>4, OtherSteps
<1>10. CASE OnJointCommand
  BY <1>10 DEF OnJointCommand, ParkInv, ParkedOnExit
<1>11. CASE WritePendingPose
  BY <1>11 DEF WritePendingPose, ParkInv, ParkedOnExit
<1>12. CASE Publish
  BY <1>12 DEF Publish, ParkInv, ParkedOnExit
<1>13. CASE UNCHANGED vars
  BY <1>13 DEF vars, ParkInv, ParkedOrWillBe, ParkedOnExit
<1>14. QED
  BY <1>1, <1>2, <1>3, <1>4, <1>5, <1>6, <1>7, <1>8, <1>9, <1>10, <1>11,
     <1>12, <1>13 DEF Next, Process

(* A process that ends by itself leaves a board moving only if it never    *)
(* opened it, or if that board's own transfers failed on the way out:      *)
(* whatever fails on the other board, and at whatever transfer an          *)
(* exception interrupts the node.                                          *)
THEOREM ServoParksOnExit == Spec => []ParkedOnExit
<1>1. TypeOK /\ ParkInv => ParkedOnExit
  BY DEF ParkInv
<1>2. QED
  BY InitType, NextType, ParkInit, ParkNext, <1>1, PTL DEF Spec

-----------------------------------------------------------------------------
(* No pulse of a process before this one. *)

Counters == {"WriteOffLow", "WriteOffHigh"}

(* What clears one byte of every counter of a board.                       *)
Clear(op) == [op |-> op, channels |-> Channels, value |-> 0]

(* Steps that leave the counters of the other channels at no pulse.        *)
Harmless(channels) ==
  {step \in Steps : step.kind = "transfer" =>
     LET t    == step.transfer
         ours == \A c \in t.channels : <<step.side, c>> \in channels
     IN  /\ t.op = "WriteOffLow" => t.value = 0 \/ ours
         /\ t.op = "WriteOffHigh" => t.value \in {0, FullOff} \/ ours}

(* The counters of the other channels hold no pulse, in this byte.         *)
Zeroed(board, s, channels, op) ==
  \A c \in Channels : <<s, c>> \notin channels =>
    /\ op = "WriteOffLow" => board.low[c] = 0
    /\ op = "WriteOffHigh" => board.high[c] \in {0, FullOff}

StaleInv ==
  phase # "down" =>
    /\ todo \in Seq(Harmless(driven))
    /\ \A s \in Sides, op \in Counters :
         \/ Zeroed(boards[s], s, driven, op)
         \/ /\ ~ Initialised(drivers[s])
            /\ Guarded(todo, Transfer(s, Clear(op)), Initialising(s))

(* A list whose steps are in a set is a list over that set.                *)
LEMMA SeqOver ==
  ASSUME NEW S, NEW T, NEW q \in Seq(S), \A k \in DOMAIN q : q[k] \in T
  PROVE  q \in Seq(T)
<1>1. DOMAIN q = 1 .. Len(q) /\ Len(q) \in Nat /\ q = [k \in 1 .. Len(q) |-> q[k]]
  BY LenProperties
<1>2. QED
  BY <1>1

(* A list over a set that avoids `use` is guarded.                         *)
LEMMA NoUse ==
  ASSUME NEW S, NEW q \in Seq(S), NEW need, NEW use, S \cap use = {}
  PROVE  Guarded(q, need, use)
<1>1. \A k \in DOMAIN q : q[k] \in S
  BY LenProperties, ElementOfSeq
<1>2. QED
  BY <1>1 DEF Guarded

LEMMA ClearIs ==
  /\ Clear("WriteOffLow") = OffLow(Channels, 0)
  /\ Clear("WriteOffHigh") = OffHigh(Channels, 0)
  /\ \A s \in Sides, op \in Counters : Transfer(s, Clear(op)) \in Clears(s)
BY DEF Clear, OffLow, OffHigh, Counters, Clears

(* What is safe for the channels driven so far stays safe for more.        *)
LEMMA HarmlessGrows ==
  ASSUME NEW A, NEW B, A \subseteq B
  PROVE  /\ Harmless(A) \subseteq Harmless(B)
         /\ \A board, s, op : Zeroed(board, s, A, op) => Zeroed(board, s, B, op)
BY DEF Harmless, Zeroed

LEMMA QuietIsHarmless ==
  ASSUME NEW A, NEW s
  PROVE  Quiet \subseteq Harmless(A) /\ Quiet \cap Initialising(s) = {}
BY DEF Quiet, Harmless, Initialising

(* What destructors do is harmless, and initialises nothing.               *)
LEMMA ParkingIsHarmless ==
  ASSUME NEW A, NEW s, NEW side \in Sides
  PROVE  ParkSteps(side) \subseteq Harmless(A)
         /\ ParkSteps(side) \cap Initialising(s) = {}
<1>1. ASSUME NEW step \in ParkSteps(side)
      PROVE  step \in Harmless(A) /\ step \notin Initialising(s)
  <2>1. PICK t \in ParkTransfers : step = Transfer(side, t)
    BY DEF ParkSteps
  <2>2. t \in Transfers
    BY CounterType, BusType DEF ParkTransfers, Operations, Byte, FullOff, Asleep
  <2>3. step \in Steps /\ step.transfer = t
    BY <2>1, <2>2, StepType, StepFields
  <2>4. /\ t.op \notin {"ReadPreScale", "Restart"}
        /\ t.op = "WriteOffLow" => t.value = 0
        /\ t.op = "WriteOffHigh" => t.value = FullOff
    BY DEF ParkTransfers, On, OffLow, OffHigh, Bus
  <2>5. QED
    BY <2>3, <2>4 DEF Harmless, Initialising
<1>2. QED
  BY <1>1

(* What is left to do after an exception, or a shutdown.                   *)
LEMMA DestructIsHarmless ==
  ASSUME NEW A
  PROVE  /\ \A side \in Sides :
              /\ ParkOpen(side) \in Seq(Harmless(A))
              /\ \A s, need : Guarded(ParkOpen(side), need, Initialising(s))
         /\ Destruct \in Seq(Harmless(A))
         /\ \A s, need : Guarded(Destruct, need, Initialising(s))
<1>1. ASSUME NEW side \in Sides PROVE ParkOpen(side) \in Seq(ParkSteps(side))
  BY ParkOpenSteps, SeqOver
<1>2. ASSUME NEW side \in Sides
      PROVE  /\ ParkOpen(side) \in Seq(Harmless(A))
             /\ \A s, need : Guarded(ParkOpen(side), need, Initialising(s))
  <2>1. ParkSteps(side) \subseteq Harmless(A)
    BY ParkingIsHarmless
  <2>2. ParkOpen(side) \in Seq(Harmless(A))
    BY <1>1, <2>1, SeqMonotonic
  <2>3. ASSUME NEW s, NEW need PROVE Guarded(ParkOpen(side), need, Initialising(s))
    <3>1. ParkSteps(side) \cap Initialising(s) = {}
      BY ParkingIsHarmless
    <3>2. QED
      BY <1>1, <3>1, NoUse
  <2>4. QED
    BY <2>2, <2>3
<1>3. "R" \in Sides /\ "L" \in Sides
  BY DEF Sides
<1> DEFINE r == ParkOpen("R")
           l == ParkOpen("L")
<1>4. /\ r \in Seq(Harmless(A)) /\ l \in Seq(Harmless(A))
      /\ \A s, need : /\ Guarded(r, need, Initialising(s))
                      /\ Guarded(l, need, Initialising(s))
  BY <1>2, <1>3
<1>5. Destruct = r \o l
  BY DEF Destruct
<1> HIDE DEF r, l
<1>6. Destruct \in Seq(Harmless(A))
  BY <1>4, <1>5, ConcatProperties
<1>7. \A s, need : Guarded(Destruct, need, Initialising(s))
  BY <1>4, <1>5, GuardedConcat
<1>8. QED
  BY <1>2, <1>6, <1>7

(* A step that is harmless for the channels driven does no harm, and the   *)
(* clearing of a byte clears it.                                           *)
LEMMA PerformHarmless ==
  ASSUME NEW board \in Boards, NEW driver \in Drivers, NEW channels,
         NEW step \in Harmless(channels), step.kind = "transfer",
         NEW op \in Counters,
         Zeroed(board, step.side, channels, op) \/ step.transfer = Clear(op)
  PROVE  Zeroed(Perform(board, driver, step.transfer), step.side, channels, op)
<1> DEFINE t == step.transfer
           s == step.side
           after == Perform(board, driver, t)
<1>1. t \in Transfers /\ t.value \in Byte
  BY DEF Harmless, Steps, Transfers
<1>2. CASE op = "WriteOffLow"
  <2>1. ASSUME NEW c \in Channels, <<s, c>> \notin channels
        PROVE  after.low[c] = 0
    <3>1. CASE t.op = "WriteOffLow"
      <4>1. after.low[c] = IF c \in t.channels THEN t.value ELSE board.low[c]
        BY <3>1 DEF Perform, Boards
      <4>2. t = Clear(op) => c \in t.channels /\ t.value = 0
        BY DEF Clear
      <4>3. c \in t.channels => t.value = 0
        BY <2>1, <3>1 DEF Harmless
      <4>4. QED
        BY <1>2, <2>1, <4>1, <4>2, <4>3 DEF Zeroed
    <3>2. CASE t.op # "WriteOffLow"
      <4>1. after.low = board.low
        BY <3>2, <1>1 DEF Perform, Boards, Transfers, Operations
      <4>2. t # Clear(op)
        BY <1>2, <3>2 DEF Clear
      <4>3. QED
        BY <1>2, <2>1, <4>1, <4>2 DEF Zeroed
    <3>3. QED
      BY <3>1, <3>2
  <2>2. QED
    BY <1>2, <2>1 DEF Zeroed
<1>3. CASE op = "WriteOffHigh"
  <2>1. ASSUME NEW c \in Channels, <<s, c>> \notin channels
        PROVE  after.high[c] \in {0, FullOff}
    <3>1. CASE t.op = "WriteOffHigh"
      <4>1. after.high[c] = IF c \in t.channels THEN t.value ELSE board.high[c]
        BY <3>1 DEF Perform, Boards
      <4>2. t = Clear(op) => c \in t.channels /\ t.value = 0
        BY DEF Clear
      <4>3. c \in t.channels => t.value \in {0, FullOff}
        BY <2>1, <3>1 DEF Harmless
      <4>4. QED
        BY <1>3, <2>1, <4>1, <4>2, <4>3 DEF Zeroed
    <3>2. CASE t.op # "WriteOffHigh"
      <4>1. after.high = board.high
        BY <3>2, <1>1 DEF Perform, Boards, Transfers, Operations
      <4>2. t # Clear(op)
        BY <1>3, <3>2 DEF Clear
      <4>3. QED
        BY <1>3, <2>1, <4>1, <4>2 DEF Zeroed
    <3>3. QED
      BY <3>1, <3>2
  <2>2. QED
    BY <1>3, <2>1 DEF Zeroed
<1>4. QED
  BY <1>2, <1>3 DEF Counters

(* The constructor sets the left board's frequency, then the right one's.  *)
LEMMA TuningSteps ==
  /\ Len(Tuning) = 10 /\ DOMAIN Tuning = 1 .. 10
  /\ \A k \in 1 .. 5 : /\ Tuning[k] = Transfer("L", SetPrescale(Prescale)[k])
                       /\ Tuning[k + 5] = Transfer("R", SetPrescale(Prescale)[k])
  /\ SetPrescale(Prescale)[1] = Bus("ReadMode1", 0)
  /\ SetPrescale(Prescale)[2] = Bus("WriteMode1", Asleep)
  /\ SetPrescale(Prescale)[3] = Bus("WritePreScale", Prescale)
  /\ SetPrescale(Prescale)[4] = Bus("RestoreMode1", 0)
  /\ SetPrescale(Prescale)[5] = Bus("Restart", Prescale)
<1> DEFINE m == SetPrescale(Prescale)
           a == Bus("ReadMode1", 0)
           b == Bus("WriteMode1", Asleep)
           c == Bus("WritePreScale", Prescale)
           d == Bus("RestoreMode1", 0)
           e == Bus("Restart", Prescale)
<1>1. m = <<a, b, c, d, e>>
  BY DEF SetPrescale
<1> HIDE DEF a, b, c, d, e
<1>2. /\ Len(m) = 5 /\ DOMAIN m = 1 .. 5
      /\ m[1] = a /\ m[2] = b /\ m[3] = c /\ m[4] = d /\ m[5] = e
  BY <1>1
<1>3. m \in Seq(Transfers)
  BY SetPrescaleType
<1> DEFINE l == Do("L", m)
           r == Do("R", m)
<1>4. Tuning = l \o r
  BY DEF Tuning
<1> HIDE DEF m
<1>5. /\ l \in Seq(Steps) /\ Len(l) = 5 /\ DOMAIN l = 1 .. 5
      /\ \A k \in 1 .. 5 : l[k] = Transfer("L", m[k])
  BY <1>2, <1>3, DoSteps DEF Sides
<1>6. /\ r \in Seq(Steps) /\ Len(r) = 5 /\ DOMAIN r = 1 .. 5
      /\ \A k \in 1 .. 5 : r[k] = Transfer("R", m[k])
  BY <1>2, <1>3, DoSteps DEF Sides
<1> HIDE DEF l, r
<1>7. Len(Tuning) = 10 /\ DOMAIN Tuning = 1 .. 10
  <2>1. l \o r \in Seq(Steps) /\ Len(l \o r) = Len(l) + Len(r)
    BY <1>5, <1>6, ConcatProperties
  <2>2. Len(l) + Len(r) = 10
    BY <1>5, <1>6
  <2>3. QED
    BY <1>4, <2>1, <2>2, LenProperties
<1>8. ASSUME NEW k \in 1 .. 5
      PROVE  Tuning[k] = l[k] /\ Tuning[k + 5] = r[k]
  <2>1. k \in DOMAIN l /\ k \in DOMAIN r
    BY <1>5, <1>6
  <2>2. l \in Seq(Steps) /\ r \in Seq(Steps)
    BY <1>5, <1>6
  <2>3. /\ \A i \in DOMAIN l : (l \o r)[i] = l[i]
        /\ \A i \in DOMAIN r : (l \o r)[i + Len(l)] = r[i]
    BY <2>2, Concat
  <2>4. QED
    BY <1>4, <1>5, <2>1, <2>3
<1>9. QED
  BY <1>2, <1>5, <1>6, <1>7, <1>8 DEF a, b, c, d, e, m

LEMMA ConstructIsHarmless ==
  ASSUME NEW A
  PROVE  /\ Construct \in Seq(Harmless(A))
         /\ \A s \in Sides, op \in Counters :
              Guarded(Construct, Transfer(s, Clear(op)), Initialising(s))
<1>1. OpeningSteps \subseteq Harmless(A)
  <2>1. ASSUME NEW what \in Checks PROVE Check(what) \in Harmless(A)
    BY StepType, StepFields DEF Harmless
  <2>2. ASSUME NEW s \in Sides, NEW t \in OpenTransfers \cup {ReadPrescale}
        PROVE  Transfer(s, t) \in Harmless(A)
    <3>1. t \in Transfers
      BY CounterType, BusType
      DEF OpenTransfers, ReadPrescale, Operations, Byte, Awake
    <3>2. /\ t.op = "WriteOffLow" => t.value = 0
          /\ t.op = "WriteOffHigh" => t.value = 0
      BY DEF OpenTransfers, ReadPrescale, On, OffLow, OffHigh, Bus
    <3>3. Transfer(s, t) \in Steps /\ Transfer(s, t).transfer = t
      BY <3>1, StepType, StepFields
    <3>4. QED
      BY <3>2, <3>3 DEF Harmless
  <2>3. QED
    BY <2>1, <2>2 DEF OpeningSteps
<1>2. Opening \in Seq(Harmless(A))
  BY <1>1, OpeningParts, SeqMonotonic
<1>3. Tuning \in Seq(Harmless(A))
  <2>1. Tuning \in Seq(Steps)
    BY ConstructParts
  <2>2. ASSUME NEW k \in 1 .. 5
        PROVE  SetPrescale(Prescale)[k].op \notin Counters
    <3>1. k = 1 \/ k = 2 \/ k = 3 \/ k = 4 \/ k = 5
      OBVIOUS
    <3>2. QED
      BY <3>1, TuningSteps DEF Bus, Counters
  <2>3. ASSUME NEW k \in 1 .. 10
        PROVE  /\ k \in DOMAIN Tuning /\ Tuning[k] \in Steps
               /\ Tuning[k].transfer.op \notin Counters
    <3>1. k \in DOMAIN Tuning /\ Tuning[k] \in Steps
      BY <2>1, TuningSteps, ElementOfSeq
    <3>2. CASE k \in 1 .. 5
      BY <2>2, <3>1, <3>2, TuningSteps, StepFields
    <3>3. CASE k \notin 1 .. 5
      <4>1. k - 5 \in 1 .. 5 /\ (k - 5) + 5 = k
        BY <3>3
      <4>2. Tuning[k] = Transfer("R", SetPrescale(Prescale)[k - 5])
        BY <4>1, TuningSteps
      <4>3. QED
        BY <2>2, <3>1, <4>1, <4>2, StepFields
    <3>4. QED
      BY <3>2, <3>3
  <2>4. \A k \in DOMAIN Tuning : Tuning[k] \in Harmless(A)
    BY <2>3, TuningSteps DEF Harmless, Counters
  <2>5. QED
    BY <2>1, <2>4, SeqOver
<1>4. Homing \in Seq(Quiet)
  <2>1. Check("motors script") \in Quiet
    BY StepType, StepFields DEF Quiet, Checks
  <2>2. QED
    BY <2>1, QuietType, ListType, ConcatType DEF Homing
<1>5. Homing \in Seq(Harmless(A))
  <2>1. Quiet \subseteq Harmless(A)
    BY QuietIsHarmless
  <2>2. QED
    BY <1>4, <2>1, SeqMonotonic
<1>6. Construct \in Seq(Harmless(A))
  BY <1>2, <1>3, <1>5, ConstructParts, ConcatProperties
<1>7. ASSUME NEW s \in Sides, NEW op \in Counters
      PROVE  Guarded(Construct, Transfer(s, Clear(op)), Initialising(s))
  <2>1. Transfer(s, Clear(op)) \in Clears(s)
    BY ClearIs
  <2>2. /\ Guarded(Opening, Transfer(s, Clear(op)), Initialising(s))
        /\ Awaits(Opening, Transfer(s, Clear(op)))
    BY <2>1, OpeningParts
  <2>3. Opening \in Seq(Steps) /\ Tuning \o Homing \in Seq(Steps)
    BY OpeningParts, ConstructParts
  <2> DEFINE x == Tuning \o Homing
             o == Opening
             need == Transfer(s, Clear(op))
  <2>4. Construct = o \o x
    BY ConstructParts
  <2> HIDE DEF x, o, need
  <2>5. QED
    <3>1. o \in Seq(Steps) /\ x \in Seq(Steps)
      BY <2>3 DEF o, x
    <3>2. Guarded(o, need, Initialising(s)) /\ Awaits(o, need)
      BY <2>2 DEF o, need
    <3>3. Guarded(o \o x, need, Initialising(s))
      BY <3>1, <3>2, GuardedConcat
    <3>4. QED
      BY <2>4, <3>3 DEF need
<1>8. QED
  BY <1>6, <1>7

(* An exception, or the end of a destructor, leaves harmless steps.        *)
LEMMA ThrowIsHarmless ==
  ASSUME TypeOK, todo # <<>>, Throw
  PROVE  /\ todo' \in Seq(Harmless(driven))
         /\ \A s, need : Guarded(todo', need, Initialising(s))
<1>1. CASE phase = "destroying"
  <2>1. todo' = ParkOpen("L") \/ todo' = <<>>
    BY <1>1 DEF Throw, SkipParking
  <2>2. /\ <<>> \in Seq(Harmless(driven))
        /\ \A s, need : Guarded(<<>>, need, Initialising(s))
    BY DEF Guarded
  <2>3. "L" \in Sides
    BY DEF Sides
  <2>4. /\ ParkOpen("L") \in Seq(Harmless(driven))
        /\ \A s, need : Guarded(ParkOpen("L"), need, Initialising(s))
    BY <2>3, DestructIsHarmless
  <2>5. QED
    BY <2>1, <2>2, <2>4
<1>2. CASE phase # "destroying"
  BY <1>2, DestructIsHarmless DEF Throw, Destroy
<1>3. QED
  BY <1>1, <1>2

(* A transfer keeps what is cleared cleared, and clears what it clears.    *)
LEMMA ZeroedStays ==
  ASSUME TypeOK, todo \in Seq(Harmless(driven)), Succeed \/ Fail,
         NEW s \in Sides, NEW op \in Counters, Zeroed(boards[s], s, driven, op)
  PROVE  Zeroed(boards'[s], s, driven, op)
<1>1. /\ todo # <<>> /\ Head(todo).kind = "transfer"
      /\ \/ boards'[s] = boards[s]
         \/ /\ s = Head(todo).side
            /\ boards'[s] = Perform(boards[s], drivers[s], Head(todo).transfer)
  BY BusStep
<1>2. Head(todo) \in Harmless(driven)
  BY <1>1, HeadTail
<1>3. boards[s] \in Boards /\ drivers[s] \in Drivers
  BY DEF TypeOK
<1>4. \A step \in Harmless(driven) :
        step.kind = "transfer" /\ Zeroed(boards[s], step.side, driven, op)
        => Zeroed(Perform(boards[s], drivers[s], step.transfer), step.side,
                  driven, op)
  BY <1>3, PerformHarmless
<1>5. CASE boards'[s] = boards[s]
  BY <1>5 DEF Zeroed
<1>6. CASE /\ s = Head(todo).side
           /\ boards'[s] = Perform(boards[s], drivers[s], Head(todo).transfer)
  BY <1>1, <1>2, <1>4, <1>6 DEF Zeroed
<1>7. QED
  BY <1>1, <1>5, <1>6

(* Only two transfers tell the driver its frequency.                       *)
LEMMA NoteInitialises ==
  ASSUME TypeOK, Succeed, NEW s \in Sides, Head(todo) \notin Initialising(s)
  PROVE  drivers'[s].prescale = drivers[s].prescale
<1>1. /\ Head(todo) \in Steps /\ Head(todo).kind = "transfer"
      /\ Head(todo).transfer \in Transfers
  BY BusStep DEF Steps
<1>2. boards[s] \in Boards /\ drivers[s] \in Drivers
  BY DEF TypeOK
<1>3. IF s = Head(todo).side
      THEN drivers'[s] = Note(drivers[s], boards[s], Head(todo).transfer)
      ELSE drivers'[s] = drivers[s]
  BY SuccessStep
<1>4. \A t \in Transfers : t.op \notin {"ReadPreScale", "Restart"} =>
        Note(drivers[s], boards[s], t).prescale = drivers[s].prescale
  BY <1>2 DEF Note, Drivers, Transfers, Operations
<1>5. CASE s = Head(todo).side
  <2>1. Head(todo).transfer.op \notin {"ReadPreScale", "Restart"}
    BY <1>1, <1>5 DEF Initialising
  <2>2. QED
    BY <1>1, <1>3, <1>4, <1>5, <2>1
<1>6. CASE s # Head(todo).side
  BY <1>3, <1>6
<1>7. QED
  BY <1>5, <1>6

LEMMA StaleSucceed ==
  ASSUME TypeOK, StaleInv, phase # "down", Succeed PROVE StaleInv'
<1>1. /\ todo \in Seq(Harmless(driven)) /\ todo \in Seq(Steps) /\ todo # <<>>
      /\ Head(todo).kind = "transfer"
      /\ todo' = Tail(todo) /\ driven' = driven
  BY BusStep DEF StaleInv, TypeOK, Succeed
<1>2. Head(todo) \in Harmless(driven) /\ todo' \in Seq(Harmless(driven'))
  BY <1>1, HeadTail
<1>3. ASSUME NEW s \in Sides, NEW op \in Counters
      PROVE  \/ Zeroed(boards'[s], s, driven', op)
             \/ /\ ~ Initialised(drivers'[s])
                /\ Guarded(todo', Transfer(s, Clear(op)), Initialising(s))
  <2>1. CASE Zeroed(boards[s], s, driven, op)
    <3>1. Zeroed(boards'[s], s, driven, op)
      BY <1>1, <2>1, ZeroedStays
    <3>2. QED
      BY <1>1, <3>1
  <2>2. CASE ~ Zeroed(boards[s], s, driven, op)
    <3>1. /\ ~ Initialised(drivers[s])
          /\ Guarded(todo, Transfer(s, Clear(op)), Initialising(s))
      BY <2>2 DEF StaleInv
    <3>2. Head(todo) \notin Initialising(s)
      BY <1>1, <3>1, GuardedTail
    <3>3. ~ Initialised(drivers'[s])
      BY <3>1, <3>2, NoteInitialises DEF Initialised
    <3>4. CASE Head(todo) = Transfer(s, Clear(op))
      <4>1. Head(todo).side = s /\ Head(todo).transfer = Clear(op)
        BY <3>4, StepFields
      <4>2. boards[s] \in Boards /\ drivers[s] \in Drivers
        BY DEF TypeOK
      <4>3. boards'[s] = Perform(boards[s], drivers[s], Head(todo).transfer)
        BY <4>1, SuccessStep
      <4>4. \A step \in Harmless(driven) :
              step.kind = "transfer" /\ step.transfer = Clear(op)
              => Zeroed(Perform(boards[s], drivers[s], step.transfer), step.side,
                        driven, op)
        BY <4>2, PerformHarmless
      <4>5. Zeroed(boards'[s], s, driven, op)
        BY <1>1, <1>2, <4>1, <4>3, <4>4
      <4>6. QED
        BY <1>1, <4>5
    <3>5. CASE Head(todo) # Transfer(s, Clear(op))
      <4>1. Guarded(Tail(todo), Transfer(s, Clear(op)), Initialising(s))
        BY <1>1, <3>1, <3>5, GuardedTail
      <4>2. QED
        BY <1>1, <3>3, <4>1
    <3>6. QED
      BY <3>4, <3>5
  <2>3. QED
    BY <2>1, <2>2
<1>4. QED
  BY <1>2, <1>3 DEF StaleInv

LEMMA StaleFail ==
  ASSUME TypeOK, StaleInv, phase # "down", Fail PROVE StaleInv'
<1>1. /\ todo \in Seq(Harmless(driven)) /\ todo # <<>>
      /\ UNCHANGED <<drivers, driven>>
  BY BusStep, FailStep DEF StaleInv
<1>2. /\ todo' \in Seq(Harmless(driven))
      /\ \A s, need : Guarded(todo, need, Initialising(s)) =>
           Guarded(todo', need, Initialising(s))
  <2>1. CASE todo' = todo
    BY <1>1, <2>1
  <2>2. CASE Throw
    BY <1>1, <2>2, ThrowIsHarmless
  <2>3. QED
    BY <2>1, <2>2, FailStep
<1>3. \A s \in Sides, op \in Counters :
        Zeroed(boards[s], s, driven, op) => Zeroed(boards'[s], s, driven, op)
  BY <1>1, ZeroedStays
<1>4. ASSUME NEW s \in Sides, NEW op \in Counters
      PROVE  \/ Zeroed(boards'[s], s, driven', op)
             \/ /\ ~ Initialised(drivers'[s])
                /\ Guarded(todo', Transfer(s, Clear(op)), Initialising(s))
  BY <1>1, <1>2, <1>3 DEF StaleInv
<1>5. QED
  BY <1>1, <1>2, <1>4 DEF StaleInv

(* Steps that are harmless and initialise nothing may be put before the    *)
(* others.                                                                 *)
LEMMA StaleAdvance ==
  ASSUME TypeOK, StaleInv, phase # "down", todo # <<>>, Head(todo) \in Quiet,
         UNCHANGED <<boards, drivers>>, driven \subseteq driven',
         \E p \in Seq(Harmless(driven')) :
           /\ todo' = p \o Tail(todo)
           /\ \A s, need : Guarded(p, need, Initialising(s))
  PROVE  StaleInv'
<1>1. PICK p \in Seq(Harmless(driven')) :
        /\ todo' = p \o Tail(todo)
        /\ \A s, need : Guarded(p, need, Initialising(s))
  OBVIOUS
<1>2. todo \in Seq(Harmless(driven)) /\ todo \in Seq(Harmless(driven'))
  BY HarmlessGrows, SeqMonotonic DEF StaleInv
<1>3. Tail(todo) \in Seq(Harmless(driven'))
  BY <1>2, HeadTail
<1>4. todo' \in Seq(Harmless(driven'))
  BY <1>1, <1>3, ConcatProperties
<1>5. ASSUME NEW s \in Sides, NEW op \in Counters
      PROVE  \/ Zeroed(boards'[s], s, driven', op)
             \/ /\ ~ Initialised(drivers'[s])
                /\ Guarded(todo', Transfer(s, Clear(op)), Initialising(s))
  <2>1. CASE Zeroed(boards[s], s, driven, op)
    BY <2>1, HarmlessGrows
  <2>2. CASE ~ Zeroed(boards[s], s, driven, op)
    <3>1. /\ ~ Initialised(drivers[s])
          /\ Guarded(todo, Transfer(s, Clear(op)), Initialising(s))
      BY <2>2 DEF StaleInv
    <3>2. Transfer(s, Clear(op)) # Head(todo)
      BY StepFields DEF Quiet
    <3>3. Guarded(Tail(todo), Transfer(s, Clear(op)), Initialising(s))
      BY <1>2, <3>1, <3>2, GuardedTail
    <3>4. Guarded(p \o Tail(todo), Transfer(s, Clear(op)), Initialising(s))
      BY <1>1, <1>3, <3>3, GuardedConcat
    <3>5. QED
      BY <1>1, <3>1, <3>4
  <2>3. QED
    BY <2>1, <2>2
<1>6. QED
  BY <1>4, <1>5 DEF StaleInv

LEMMA MoveIsHarmless ==
  ASSUME NEW A, NEW i \in Motors, NEW ticks \in Counts,
         <<MotorTable[i].side, MotorTable[i].pin>> \in A
  PROVE  /\ PulseSteps(i, ticks) \in Seq(Harmless(A))
         /\ \A s, need : Guarded(PulseSteps(i, ticks), need, Initialising(s))
<1> DEFINE side == MotorTable[i].side
           pin  == MotorTable[i].pin
           q    == PulseSteps(i, ticks)
<1>1. /\ q \in Seq(Steps) /\ DOMAIN q = 1 .. 3
      /\ side \in Sides
      /\ q[1] = Transfer(side, On({pin}))
      /\ q[2] = Transfer(side, OffLow({pin}, LowByte(ticks)))
      /\ q[3] = Transfer(side, OffHigh({pin}, HighByte(ticks)))
  BY PulseStepsSpec
<1> HIDE DEF q
<1>2. ASSUME NEW k \in DOMAIN q
      PROVE  q[k] \in Harmless(A) /\ \A s : q[k] \notin Initialising(s)
  <2>1. k \in 1 .. 3 /\ q[k] \in Steps
    BY <1>1, LenProperties, ElementOfSeq
  <2>2. /\ q[k].side = side
        /\ q[k].transfer.op \in {"WriteOn", "WriteOffLow", "WriteOffHigh"}
        /\ q[k].transfer.channels = {pin}
    <3>1. CASE k = 1
      BY <1>1, <3>1, StepFields DEF On
    <3>2. CASE k = 2
      BY <1>1, <3>2, StepFields DEF OffLow
    <3>3. CASE k = 3
      BY <1>1, <3>3, StepFields DEF OffHigh
    <3>4. QED
      BY <2>1, <3>1, <3>2, <3>3
  <2>3. \A c \in q[k].transfer.channels : <<q[k].side, c>> \in A
    BY <2>2
  <2>4. q[k] \in Harmless(A)
    BY <2>1, <2>3 DEF Harmless
  <2>5. \A s : q[k] \notin Initialising(s)
    BY <2>2 DEF Initialising
  <2>6. QED
    BY <2>4, <2>5
<1>3. q \in Seq(Harmless(A))
  BY <1>1, <1>2, SeqOver
<1>4. \A s, need : Guarded(q, need, Initialising(s))
  BY <1>2 DEF Guarded
<1>5. QED
  BY <1>3, <1>4 DEF q

(* Steps that are no transfers are put in the place of all others.         *)
LEMMA StaleQuiet ==
  ASSUME StaleInv, phase # "down", todo' \in Seq(Quiet),
         UNCHANGED <<boards, drivers, driven>>
  PROVE  StaleInv'
<1>1. todo' \in Seq(Harmless(driven'))
  BY QuietIsHarmless, SeqMonotonic
<1>2. \A s, need : Guarded(todo', need, Initialising(s))
  BY QuietIsHarmless, NoUse
<1>3. QED
  BY <1>1, <1>2 DEF StaleInv

LEMMA StaleInit == Init => StaleInv
BY DEF Init, StaleInv

LEMMA StaleNext == TypeOK /\ ParkInv /\ StaleInv /\ [Next]_vars => StaleInv'
<1> SUFFICES ASSUME TypeOK, ParkInv, StaleInv, [Next]_vars, phase' # "down"
             PROVE  StaleInv'
  BY DEF StaleInv
<1>1. CASE Respawn
  <2>1. /\ todo' = Construct /\ driven' = {}
        /\ drivers' = [s \in Sides |-> NewDriver]
    BY <1>1 DEF Respawn
  <2>2. \A s \in Sides : ~ Initialised(drivers'[s])
    BY <2>1 DEF NewDriver, Initialised
  <2>3. QED
    BY <2>1, <2>2, ConstructIsHarmless DEF StaleInv
<1>2. CASE Constructed
  BY <1>2, QuietType, StaleQuiet DEF Constructed
<1>3. CASE Spin
  BY <1>3 DEF Spin, StaleInv
<1>4. CASE Shutdown
  <2>1. /\ todo' = Destruct /\ UNCHANGED <<boards, drivers, driven>>
        /\ phase # "down"
    BY <1>4 DEF Shutdown, Destroy
  <2>2. /\ todo' \in Seq(Harmless(driven'))
        /\ \A s, need : Guarded(todo', need, Initialising(s))
    BY <2>1, DestructIsHarmless
  <2>3. QED
    BY <2>1, <2>2 DEF StaleInv
<1>5. CASE Exit
  BY <1>5 DEF Exit
<1>6. CASE Kill
  BY <1>6 DEF Kill
<1>7. CASE Succeed
  <2>1. phase # "down"
    BY <1>7 DEF Succeed
  <2>2. QED
    BY <1>7, <2>1, StaleSucceed
<1>8. CASE Fail
  <2>1. phase # "down"
    BY <1>8, BusStep DEF ParkInv
  <2>2. QED
    BY <1>8, <2>1, StaleFail
<1>9. CASE Inspect \/ HomeMotor \/ SweepMotor \/ SetMotor \/ WriteEntry
  <2>1. /\ todo # <<>> /\ Head(todo) \in Quiet /\ phase # "down"
        /\ UNCHANGED <<boards, drivers>>
    BY <1>9, OtherSteps DEF ParkInv
  <2>2. CASE Throw /\ driven' = driven
    <3>1. /\ todo' \in Seq(Harmless(driven))
          /\ \A s, need : Guarded(todo', need, Initialising(s))
      BY <2>1, <2>2, ThrowIsHarmless
    <3>2. QED
      BY <2>1, <2>2, <3>1 DEF StaleInv
  <2>3. CASE driven' = driven /\ \E p \in Seq(Quiet) : todo' = p \o Tail(todo)
    <3>1. \A p \in Seq(Quiet) : p \in Seq(Harmless(driven'))
      BY QuietIsHarmless, SeqMonotonic
    <3>2. \A p \in Seq(Quiet) : \A s, need : Guarded(p, need, Initialising(s))
      BY QuietIsHarmless, NoUse
    <3>3. QED
      BY <2>1, <2>3, <3>1, <3>2, StaleAdvance
  <2>4. CASE \E i \in Motors, degree \in Int : Move(i, degree)
    <3>1. PICK i \in Motors, degree \in Int : Move(i, degree)
      BY <2>4
    <3> DEFINE ticks == PulseWidth(ValidateAngle(degree))
               p == PulseSteps(i, ticks)
    <3>2. /\ driven' = driven \cup {<<MotorTable[i].side, MotorTable[i].pin>>}
          /\ ticks \in Counts
          /\ todo' = p \o Tail(todo)
      BY <3>1, MoveSteps
    <3>3. driven \subseteq driven' /\ <<MotorTable[i].side, MotorTable[i].pin>> \in driven'
      BY <3>2
    <3> HIDE DEF ticks
    <3>4. /\ p \in Seq(Harmless(driven'))
          /\ \A s, need : Guarded(p, need, Initialising(s))
      BY <3>2, <3>3, MoveIsHarmless
    <3> HIDE DEF p
    <3>5. QED
      BY <2>1, <3>2, <3>3, <3>4, StaleAdvance
  <2>5. QED
    BY <1>9, <2>2, <2>3, <2>4, OtherSteps
<1>10. CASE OnJointCommand
  BY <1>10 DEF OnJointCommand, StaleInv
<1>11. CASE WritePendingPose
  <2>1. \A k \in DOMAIN pending : Write(pending[k]) \in Quiet
    <3>1. \A k \in DOMAIN pending : pending[k] \in PoseEntries
      BY LenProperties, ElementOfSeq DEF TypeOK
    <3>2. QED
      BY <3>1, StepType, StepFields DEF Quiet
  <2>2. Len(pending) \in Nat /\ DOMAIN pending = 1 .. Len(pending)
    BY LenProperties DEF TypeOK
  <2>3. [k \in DOMAIN pending |-> Write(pending[k])] \in Seq(Quiet)
    BY <2>1, <2>2
  <2>4. QED
    BY <1>11, <2>3, StaleQuiet DEF WritePendingPose
<1>12. CASE Publish
  BY <1>12 DEF Publish, StaleInv
<1>13. CASE UNCHANGED vars
  BY <1>13 DEF vars, StaleInv
<1>14. QED
  BY <1>1, <1>2, <1>3, <1>4, <1>5, <1>6, <1>7, <1>8, <1>9, <1>10, <1>11,
     <1>12, <1>13 DEF Next, Process

(* A channel whose counters hold no pulse produces none.                   *)
LEMMA ZeroedIsSilent ==
  ASSUME NEW board \in Boards, NEW c \in Channels, board.low[c] = 0,
         board.high[c] \in {0, FullOff}
  PROVE  Pulse(board, c) = 0
BY DEF Pulse, FullOff

(* Once a board is initialised nothing drives a joint that this process    *)
(* has not written: whatever a process before it was killed in the middle  *)
(* of, and whichever transfers were retried since.                         *)
THEOREM ServoLeavesNoStalePulse == Spec => []NoStalePulse
<1>1. TypeOK /\ StaleInv => NoStalePulse
  <2> SUFFICES ASSUME TypeOK, StaleInv, phase # "down", NEW s \in Sides,
                      Initialised(drivers[s]), NEW c \in Channels,
                      <<s, c>> \notin driven
               PROVE  Pulse(boards[s], c) = 0
    BY DEF NoStalePulse
  <2>1. \A op \in Counters : Zeroed(boards[s], s, driven, op)
    BY DEF StaleInv
  <2>2. boards[s].low[c] = 0
    BY <2>1 DEF Zeroed, Counters
  <2>3. boards[s].high[c] \in {0, FullOff}
    BY <2>1 DEF Zeroed, Counters
  <2>4. boards[s] \in Boards
    BY DEF TypeOK
  <2>5. QED
    BY <2>2, <2>3, <2>4, ZeroedIsSilent
<1>2. Init => TypeOK /\ ParkInv /\ StaleInv
  BY InitType, ParkInit, StaleInit
<1>3. TypeOK /\ ParkInv /\ StaleInv /\ [Next]_vars => (TypeOK /\ ParkInv /\ StaleInv)'
  BY NextType, ParkNext, StaleNext
<1>4. QED
  BY <1>1, <1>2, <1>3, PTL DEF Spec

=============================================================================

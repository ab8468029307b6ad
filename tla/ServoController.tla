--------------------------- MODULE ServoController ---------------------------
(***************************************************************************)
(* hexapod_servomotor/src/servocontroller.cc: the node that drives the     *)
(* servos, from the start of its process to its end and into the next one. *)
(*                                                                         *)
(* The process is one thread.  `todo` is what it has still to do in the    *)
(* constructor, callback or destructor it is in, down to the single I2C    *)
(* transfer: at any transfer the bus may fail, and at any moment the       *)
(* process may be killed.  The boards outlive the process, which the       *)
(* launch file starts again whenever it ends.                              *)
(*                                                                         *)
(* Angles are in degrees.                                                  *)
(***************************************************************************)
EXTENDS PCA9685

CONSTANTS
  Names,           \* the joint names scripts and commands may carry
  MotorTable,      \* motors_, as motors.lua generates them: a sequence of
                   \* [name, side, pin]; the name's first letter is the side
  Prescale,        \* what pwm_frequency comes to
  MinPulse,        \* min_pulse_width_us
  MaxPulse,        \* max_pulse_width_us
  TestStep,        \* kTestStepDegree
  StartupTest,     \* perform_startup_test
  MaxAttempts,     \* I2cPeripheral::kMaxAttempts
  Configurations,  \* the parameters and scripts the node may be given
  Commands,        \* the messages that may arrive: [names, positions]
  NotFinite,       \* a position that is no finite number of degrees
  Missing          \* what homing.lua says of a motor it does not list

Sides == {"L", "R"}

Motors == DOMAIN MotorTable

(* What start-up checks, in this order, and stops on. *)
Checks == {"parameters", "left address", "right address", "frequency",
           "motors script", "homing script"}

ASSUME ServoAssumption ==
  /\ MotorTable \in Seq([name : Names, side : Sides, pin : Channels])
  /\ \A i, j \in Motors : i # j =>
       <<MotorTable[i].side, MotorTable[i].pin>>
         # <<MotorTable[j].side, MotorTable[j].pin>>
  /\ Prescale \in 3 .. 255
  /\ MinPulse \in Nat /\ MaxPulse \in Nat /\ MinPulse < MaxPulse
  /\ TestStep \in Nat \ {0}
  /\ StartupTest \in BOOLEAN
  /\ MaxAttempts \in Nat \ {0}
  /\ Configurations \subseteq
       [passes : SUBSET Checks, homing : [Motors -> Int \cup {Missing}]]
  /\ Commands \subseteq
       [names : Seq(Names), positions : Seq(Int \cup {NotFinite})]
  /\ NotFinite \notin Int /\ Missing \notin Int

VARIABLES
  configuration,  \* the parameters and scripts installed
  boards,         \* the two boards on the bus
  phase,          \* where main() is
  todo,           \* what is left of the current method
  attempt,        \* of the transfer at the head of todo
  drivers,        \* servo_driver_left_ and servo_driver_right_
  motorAngle,     \* the angle_ of every motor
  topic,          \* the command topic, of depth one
  pending,        \* pending_names_ and pending_degrees_
  (* History. *)
  driven,         \* the channels this process has started to write
  unparked,       \* the sides the last process left unparked as it ended
  latest          \* the last command accepted and not lost

vars == <<configuration, boards, phase, todo, attempt, drivers, motorAngle,
          topic, pending, driven, unparked, latest>>

-----------------------------------------------------------------------------
(* Steps of a method. *)

Step == [kind |-> "return", side |-> "L", name |-> "none", motor |-> 0,
         degree |-> 0, transfer |-> Bus("Open", 0)]

Transfer(side, t) ==
  [Step EXCEPT !.kind = "transfer", !.side = side, !.transfer = t]
Check(what)        == [Step EXCEPT !.kind = "check", !.name = what]
Home(i)            == [Step EXCEPT !.kind = "home", !.motor = i]
Sweep(i)           == [Step EXCEPT !.kind = "sweep", !.motor = i]
SetTo(i, degree)   ==
  [Step EXCEPT !.kind = "set", !.motor = i, !.degree = degree]
Write(entry)       ==
  [Step EXCEPT !.kind = "write", !.name = entry.name, !.degree = entry.degree]

Do(side, method) == [i \in DOMAIN method |-> Transfer(side, method[i])]

RestoreDefaultPosition ==
  << Check("homing script") >> \o [i \in Motors |-> Home(i)]

Construct ==
  << Check("parameters"), Check("left address") >> \o Do("L", Initialize)
  \o << Check("right address") >> \o Do("R", Initialize)
  \o << Check("frequency") >>
  \o Do("L", SetPrescale(Prescale)) \o Do("R", SetPrescale(Prescale))
  \o << Check("motors script") >> \o RestoreDefaultPosition

PerformTest ==
  IF StartupTest THEN [i \in Motors |-> Sweep(i)] \o RestoreDefaultPosition
                 ELSE <<>>

SweepAngles ==
  [i \in 1 .. 180 \div TestStep + 1 |-> (i - 1) * TestStep]

(* The boards are destroyed in the reverse order of their declaration, and *)
(* one whose bus was never opened does nothing.                            *)
ParkOpen(side) == IF drivers[side].open THEN Do(side, Park) ELSE <<>>

Destruct == ParkOpen("R") \o ParkOpen("L")

-----------------------------------------------------------------------------
(* Angles and pulses. *)

(* Mutant: only the lower end is clamped. *)
ValidateAngleFromBelow(degree) == IF degree < 0 THEN 0 ELSE degree

(* Motor::ValidateAngle. *)
ValidateAngle(degree) ==
  IF degree >= 180 THEN 179 ELSE IF degree < 0 THEN 0 ELSE degree

(* lround of a non-negative ratio. *)
Rounded(numerator, denominator) ==
  (2 * numerator + denominator) \div (2 * denominator)

(* The ticks that make an angle's pulse on a board with this prescale: one *)
(* tick lasts (prescale + 1) / 25 microseconds.                            *)
Ticks(angle, prescale) ==
  LET ticks == Rounded(25 * (180 * MinPulse + angle * (MaxPulse - MinPulse)),
                       180 * (prescale + 1))
  IN  IF ticks > 4095 THEN 4095 ELSE ticks

(* Both boards' pulses are computed from the left one's frequency. *)
PulseWidth(angle) == Ticks(angle, drivers["L"].prescale)

Named(name) == {i \in Motors : MotorTable[i].name = name}

(* FindMotor: the first motor of that name. *)
FindMotor(name) == CHOOSE i \in Named(name) : \A j \in Named(name) : i <= j

-----------------------------------------------------------------------------
(* The life of the process. *)

Init ==
  /\ configuration \in Configurations
  /\ boards = [s \in Sides |-> PoweredOn]
  /\ phase = "down"
  /\ todo = <<>>
  /\ attempt = 1
  /\ drivers = [s \in Sides |-> NewDriver]
  /\ motorAngle = [i \in Motors |-> 0]
  /\ topic = <<>>
  /\ pending = <<>>
  /\ driven = {}
  /\ unparked = Sides
  /\ latest = <<>>

(* The launch file starts the process, again and again. *)
Respawn ==
  /\ phase = "down"
  /\ phase' = "constructing"
  /\ todo' = Construct
  /\ drivers' = [s \in Sides |-> NewDriver]
  /\ motorAngle' = [i \in Motors |-> 0]
  /\ driven' = {}
  /\ unparked' = {}
  /\ UNCHANGED <<configuration, boards, attempt, topic, pending, latest>>

(* The constructor is done and has subscribed to the command topic. *)
Constructed ==
  /\ phase = "constructing"
  /\ todo = <<>>
  /\ phase' = "testing"
  /\ todo' = PerformTest
  /\ UNCHANGED <<configuration, boards, attempt, drivers, motorAngle, topic,
                 pending, driven, unparked, latest>>

Spin ==
  /\ phase = "testing"
  /\ todo = <<>>
  /\ phase' = "spinning"
  /\ UNCHANGED <<configuration, boards, todo, attempt, drivers, motorAngle,
                 topic, pending, driven, unparked, latest>>

(* The node is destroyed: its subscription ends, its boards are parked. *)
Destroy ==
  /\ phase' = "destroying"
  /\ todo' = Destruct
  /\ topic' = <<>>
  /\ pending' = <<>>
  /\ latest' = <<>>

(* SIGINT or SIGTERM: spin returns once the callback it is in is done.  One*)
(* that comes during start-up is seen when start-up is over.               *)
Shutdown ==
  /\ phase = "spinning"
  /\ todo = <<>>
  /\ Destroy
  /\ UNCHANGED <<configuration, boards, attempt, drivers, motorAngle,
                 driven, unparked>>

Exit ==
  /\ phase = "destroying"
  /\ todo = <<>>
  /\ phase' = "down"
  /\ UNCHANGED <<configuration, boards, todo, attempt, drivers, motorAngle,
                 topic, pending, driven, unparked, latest>>

(* SIGKILL, a segmentation fault: no destructor runs. *)
Kill ==
  /\ phase # "down"
  /\ phase' = "down"
  /\ todo' = <<>>
  /\ attempt' = 1
  /\ topic' = <<>>
  /\ pending' = <<>>
  /\ latest' = <<>>
  /\ unparked' = Sides
  /\ UNCHANGED <<configuration, boards, drivers, motorAngle, driven>>

(* Mutant: a board that fails to park keeps the other one from parking. *)
AbandonParking(side) == todo' = <<>>

(* The destructor of this board gives up; the other board's still runs. *)
SkipParking(side) == todo' = IF side = "R" THEN ParkOpen("L") ELSE <<>>

(* An exception.  Outside the destructors it reaches main(), and the node  *)
(* is destroyed on the way.                                                *)
Throw ==
  /\ attempt' = 1
  /\ IF phase = "destroying"
     THEN /\ SkipParking(Head(todo).side)
          /\ unparked' = unparked \cup {Head(todo).side}
          /\ UNCHANGED <<phase, topic, pending, latest>>
     ELSE /\ Destroy
          /\ unparked' = {s \in Sides : ~drivers[s].open}

-----------------------------------------------------------------------------
(* The steps. *)

AtStep(kind) == todo # <<>> /\ Head(todo).kind = kind

(* A transfer the bus carries out. *)
Succeed ==
  /\ AtStep("transfer")
  /\ LET side == Head(todo).side
         t    == Head(todo).transfer
     IN  /\ boards' = [boards EXCEPT
               ![side] = Perform(boards[side], drivers[side], t)]
         /\ drivers' = [drivers EXCEPT
               ![side] = Note(drivers[side], boards[side], t)]
  /\ todo' = Tail(todo)
  /\ attempt' = 1
  /\ UNCHANGED <<configuration, phase, motorAngle, topic, pending, driven,
                 unparked, latest>>

(* A transfer reported as failed.  It may have reached the board all the   *)
(* same: the bus can time out after the last byte.  A transient error is   *)
(* retried, opening the bus is not.                                        *)
Fail ==
  /\ AtStep("transfer")
  /\ LET side == Head(todo).side
         t    == Head(todo).transfer
     IN  /\ boards' \in {boards, [boards EXCEPT
               ![side] = Perform(boards[side], drivers[side], t)]}
         /\ \/ /\ t.op # "Open"
               /\ attempt < MaxAttempts
               /\ attempt' = attempt + 1
               /\ UNCHANGED <<phase, todo, topic, pending, latest, unparked>>
            \/ Throw
  /\ UNCHANGED <<configuration, drivers, motorAngle, driven>>

(* A parameter, a script or an address is looked at. *)
Inspect ==
  /\ AtStep("check")
  /\ IF Head(todo).name \in configuration.passes
     THEN /\ todo' = Tail(todo)
          /\ UNCHANGED <<phase, attempt, topic, pending, latest, unparked>>
     ELSE Throw
  /\ UNCHANGED <<configuration, boards, drivers, motorAngle, driven>>

(* SetAngle, then WriteOnMotor. *)
Move(i, degree) ==
  LET motor == MotorTable[i]
      angle == ValidateAngle(degree)
  IN  /\ motorAngle' = [motorAngle EXCEPT ![i] = angle]
      /\ todo' = Do(motor.side, SetSinglePWM(motor.pin, PulseWidth(angle)))
                 \o Tail(todo)
      /\ driven' = driven \cup {<<motor.side, motor.pin>>}
      /\ UNCHANGED <<configuration, boards, phase, attempt, drivers, topic,
                     pending, unparked, latest>>

(* One iteration of RestoreDefaultPosition. *)
HomeMotor ==
  /\ AtStep("home")
  /\ LET i == Head(todo).motor
         angle == configuration.homing[i]
     IN  IF angle # Missing THEN Move(i, angle)
         ELSE /\ Throw
              /\ UNCHANGED <<configuration, boards, drivers, motorAngle,
                             driven>>

(* One motor of PerformTest: its sweep, and every motor back home. *)
SweepMotor ==
  /\ AtStep("sweep")
  /\ todo' = [a \in DOMAIN SweepAngles |->
                SetTo(Head(todo).motor, SweepAngles[a])]
             \o RestoreDefaultPosition \o Tail(todo)
  /\ UNCHANGED <<configuration, boards, phase, attempt, drivers, motorAngle,
                 topic, pending, driven, unparked, latest>>

SetMotor == AtStep("set") /\ Move(Head(todo).motor, Head(todo).degree)

(* Mutant: the loop stops at a name no motor has. *)
WriteEntryOrStop ==
  /\ AtStep("write")
  /\ IF Named(Head(todo).name) # {}
     THEN Move(FindMotor(Head(todo).name), Head(todo).degree)
     ELSE /\ todo' = <<>>
          /\ UNCHANGED <<configuration, boards, phase, attempt, drivers,
                         motorAngle, topic, pending, driven, unparked, latest>>

(* One iteration of WritePendingPose: a name no motor has is skipped. *)
WriteEntry ==
  /\ AtStep("write")
  /\ IF Named(Head(todo).name) # {}
     THEN Move(FindMotor(Head(todo).name), Head(todo).degree)
     ELSE /\ todo' = Tail(todo)
          /\ UNCHANGED <<configuration, boards, phase, attempt, drivers,
                         motorAngle, topic, pending, driven, unparked, latest>>

-----------------------------------------------------------------------------
(* The callbacks. *)

Entries(command) ==
  [i \in DOMAIN command.names |->
     [name |-> command.names[i], degree |-> command.positions[i]]]

Accepted(command) ==
  /\ Len(command.names) = Len(command.positions)
  /\ command.names # <<>>
  /\ \A i \in DOMAIN command.positions : command.positions[i] # NotFinite

(* Mutant: a pose that waits is not overtaken. *)
OnJointCommandInOrder ==
  /\ phase = "spinning"
  /\ todo = <<>>
  /\ topic # <<>>
  /\ topic' = <<>>
  /\ IF Accepted(Head(topic))
     THEN /\ latest' = Entries(Head(topic))
          /\ pending' = IF pending = <<>> THEN latest' ELSE pending
     ELSE UNCHANGED <<pending, latest>>
  /\ UNCHANGED <<configuration, boards, phase, todo, attempt, drivers,
                 motorAngle, driven, unparked>>

OnJointCommand ==
  /\ phase = "spinning"
  /\ todo = <<>>
  /\ topic # <<>>
  /\ topic' = <<>>
  /\ IF Accepted(Head(topic))
     THEN pending' = Entries(Head(topic)) /\ latest' = pending'
     ELSE UNCHANGED <<pending, latest>>
  /\ UNCHANGED <<configuration, boards, phase, todo, attempt, drivers,
                 motorAngle, driven, unparked>>

(* Mutant: the pose is copied instead of taken. *)
WritePendingPoseAgain ==
  /\ phase = "spinning"
  /\ todo = <<>>
  /\ pending # <<>>
  /\ todo' = [i \in DOMAIN pending |-> Write(pending[i])]
  /\ UNCHANGED <<configuration, boards, phase, attempt, drivers, motorAngle,
                 topic, pending, driven, unparked, latest>>

(* The write timer: the pose is taken, and written entry by entry. *)
WritePendingPose ==
  /\ phase = "spinning"
  /\ todo = <<>>
  /\ pending # <<>>
  /\ todo' = [i \in DOMAIN pending |-> Write(pending[i])]
  /\ pending' = <<>>
  /\ UNCHANGED <<configuration, boards, phase, attempt, drivers, motorAngle,
                 topic, driven, unparked, latest>>

(* Anyone publishes a command; it reaches the node once it has subscribed. *)
Publish ==
  /\ phase \in {"testing", "spinning"}
  /\ \E command \in Commands : topic' = <<command>>
  /\ UNCHANGED <<configuration, boards, phase, todo, attempt, drivers,
                 motorAngle, pending, driven, unparked, latest>>

-----------------------------------------------------------------------------

Process ==
  \/ Constructed \/ Spin \/ Exit
  \/ Succeed \/ Inspect \/ HomeMotor \/ SweepMotor \/ SetMotor \/ WriteEntry
  \/ OnJointCommand \/ WritePendingPose

Next == Process \/ Respawn \/ Shutdown \/ Kill \/ Fail \/ Publish

Spec == Init /\ [][Next]_vars

(* The process runs, a timer that is due fires, a message that waits is    *)
(* delivered, and the launch file starts a process that has ended.         *)
Fairness ==
  /\ WF_vars(Respawn)
  /\ WF_vars(Process)
  /\ SF_vars(OnJointCommand)
  /\ SF_vars(WritePendingPose)

FairSpec == Spec /\ Fairness

-----------------------------------------------------------------------------
(* Properties. *)

Steps ==
  {step \in [kind : {"transfer", "check", "home", "sweep", "set", "write"},
             side : Sides, name : Names \cup Checks \cup {"none"},
             motor : Motors \cup {0}, degree : Int, transfer : Transfers] :
     step.kind \in {"home", "sweep", "set"} => step.motor \in Motors}

PoseEntries == [name : Names, degree : Int]

TypeOK ==
  /\ configuration \in Configurations
  /\ boards \in [Sides -> Boards]
  /\ phase \in {"down", "constructing", "testing", "spinning", "destroying"}
  /\ todo \in Seq(Steps)
  /\ attempt \in 1 .. MaxAttempts
  /\ drivers \in [Sides -> Drivers]
  /\ motorAngle \in [Motors -> 0 .. 179]
  /\ topic \in Seq(Commands)
  /\ pending \in Seq(PoseEntries)
  /\ driven \subseteq Sides \X Channels
  /\ unparked \subseteq Sides
  /\ latest \in Seq(PoseEntries)

(* A process that ends by itself parks the boards: only one it never       *)
(* opened, or one whose own transfers failed, is left as it was.           *)
ParkedOnExit ==
  phase = "down" => \A s \in Sides \ unparked : Parked(boards[s])

AtRest == phase = "spinning" /\ todo = <<>>

(* Between callbacks every joint is driven with the pulse of the angle the *)
(* node believes it is at, at the frequency its own board really has:      *)
(* retries, boards left in any state by a killed process, and pulses       *)
(* computed from the other board's frequency notwithstanding.              *)
PulsesMatchAngles ==
  AtRest => \A i \in Motors :
    LET board == boards[MotorTable[i].side] IN
    Pulse(board, MotorTable[i].pin) = Ticks(motorAngle[i], board.prescale)

(* Once a board is initialised, nothing drives a joint that this process   *)
(* has not written: what a killed process left behind is gone.             *)
NoStalePulse ==
  phase # "down" => \A s \in Sides : Initialised(drivers[s]) =>
    \A c \in Channels : Pulse(boards[s], c) # 0 => <<s, c>> \in driven

(* When nothing is left to write, every joint the last accepted command    *)
(* names is where that command wants it, whatever was refused, overtaken   *)
(* or unknown in between.                                                  *)
ShowsLatest ==
  AtRest /\ pending = <<>> => \A k \in DOMAIN latest :
    LET name == latest[k].name IN
    /\ Named(name) # {}
    /\ \A l \in DOMAIN latest : l > k => latest[l].name # name
    => motorAngle[FindMotor(name)] = ValidateAngle(latest[k].degree)

(* The poses behind the commands: motors for names, angles within the     *)
(* travel, and zero for a name no motor has.                               *)
PoseOf(entries) ==
  [k \in DOMAIN entries |->
     [joint |-> IF Named(entries[k].name) # {}
                THEN FindMotor(entries[k].name) ELSE 0,
      angle |-> ValidateAngle(entries[k].degree)]]

(* The entries a callback has still to write come last.                    *)
Unwritten ==
  LET others == {0} \cup {k \in DOMAIN todo : todo[k].kind # "write"}
      n == CHOOSE k \in others : \A l \in others : l <= k
  IN  SubSeq(todo, n + 1, Len(todo))

Writer == INSTANCE JointWriter
  WITH Joints    <- Motors,
       Angles    <- 0 .. 179,
       Poses     <- {PoseOf(Entries(command)) :
                       command \in {c \in Commands : Accepted(c)}},
       listening <- phase = "spinning",
       home      <- [i \in Motors |->
                       IF configuration.homing[i] = Missing THEN 0
                       ELSE ValidateAngle(configuration.homing[i])],
       waiting   <- PoseOf(pending),
       writing   <- IF phase = "spinning" THEN PoseOf(Unwritten) ELSE <<>>,
       joints    <- motorAngle

(* The node implements the joint writer: it listens only once every joint  *)
(* is at rest, writes whole poses, newest first, and loses a pose only     *)
(* when its process ends.                                                  *)
ImplementsWriter == Writer!Spec

Valid ==
  /\ configuration.passes = Checks
  /\ \A i \in Motors : configuration.homing[i] # Missing

FaultsEnd == <>[][~Fail /\ ~Kill /\ ~Shutdown]_vars

(* Once the bus works and nobody stops the process, the robot comes back,  *)
(* whatever state the boards were left in, and writes what it is sent      *)
(* until nothing is pending.                                               *)
Recovers ==
  Valid /\ FaultsEnd => []<>(AtRest /\ pending = <<>>)

(* README.md:278: the node validates its configuration and the I2C bus     *)
(* before moving anything.                                                 *)
ValidatedBeforeMoving == driven # {} => Valid

(* README.md:279: on exit, including a crash, both boards switch their     *)
(* outputs off.                                                            *)
OffHoweverItEnds ==
  phase = "down" =>
    \A s \in Sides : \A c \in Channels : Pulse(boards[s], c) = 0

(* PCA9685_driver.cc:98: a board that a previous run left driving servos   *)
(* does not twitch while it is configured: its pulses stay, or stop.       *)
NoTwitch ==
  [][\A s \in Sides : phase = "constructing" /\ ~Initialised(drivers[s]) =>
       \A c \in Channels :
         Pulse(boards'[s], c) \in {Pulse(boards[s], c), 0}]_vars

=============================================================================

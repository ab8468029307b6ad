# hexapod_ws in TLA+

A formal model of the software that moves the hexapod: TLA+ modules, TLC
configurations that check small instances of them, and theorems that TLAPS
proves for every value of the constants. Paths below are relative to the
repository's `src/<package>` directories unless they start with `doc/` or
`tools/`.

## 1. The system

A ROS 2 workspace. Every C++ node is one process with one thread
(`rclcpp::spin`), so two callbacks of a node never overlap, while nodes, their
topics and the network run against each other in any order.

```
tools/hexapod_pose_sender.py ──ZeroMQ PUB/SUB──▶ hexapod_bridge ──joint_command (depth 1)──▶ hexapod_servomotor ──I²C──▶ 2 × PCA9685
joy ─▶ hexapod_joypad ──joypad/button, joypad/thumbstick (depth 10)──▶ hexapod_bridge
camera ─▶ stream_topic.py ─▶ ffmpeg
```

| Component | State | Operations | What makes it correct |
|---|---|---|---|
| `hexapod_bridge` node | socket, override policy, last owner logged, last sequence number, counters | poll timer (loop of receives), button and thumbstick callbacks | the joypad wins and is not forgotten; nothing stale is published; the log is right about gaps and owners; the stream comes back |
| override policy | engaged, last activity | note, active?, may drive? | the timeout restarts with every touch, to the tick |
| wire format | none | decode, encode | exactly the documented payloads decode; nothing is narrowed on the way |
| pose sender | sequence counter | validate, encode, send | counts every pose, never blocks |
| `hexapod_joypad` node | button table, sticks, triggers | one callback per joypad message | the bridge sees a touch exactly when the pad is touched |
| `hexapod_servomotor` node | motor table with angles, pending pose, two drivers | construct, home, test, take a command, write a pose, destroy | listens only at rest; writes whole poses, newest first; boards agree with the angles; boards are parked at exit; comes back after faults |
| PCA9685 driver | device, prescale, frequency | initialise, set frequency, set one or all outputs, wake, sleep, park | register order; survives any state a killed process left |
| I²C peripheral | bus descriptor | write, read, each with three attempts | a retry does no harm |
| `motors.lua`, `homing.lua` | name counters | generate the table, rest angles | names are distinct, every motor has a rest angle |
| bring-up (launch files) | – | start, restart the servo node after it ends | – |
| `stream_topic.py` | ffmpeg child | start on first frame, write frames, stop | ends when told to, its child with it if anything can end that, and with a status that says why |
| `hexapod_model` | the legs' measurements, loaded once | load a script, joints to feet and back, Jacobian, stability margin | only a complete script is loaded; inverse and forward kinematics invert each other; the margin's sign says whether the robot stands, whatever the order of the feet |
| `hexapod_msgs`, `hexapod_description`, containers, `src/adafruit` | data, scripts, unused code | – | – |

The behaviours that are hard to test: presses that queue behind a poll while
poses arrive; a freeze that stops the bridge but not what is already on its way
to the joints; lost, overtaken and malformed payloads and a sender that starts
again; bus transfers that fail, or fail after they have reached the board;
processes killed between two bytes of a pulse width, and the process that then
finds the boards as they were left; commands that arrive while a pose is being
written; arms that are stretched, folded or bent the other way; scripts with
more than one mistake. `PROJECT.json` lists them with their lines under `hazards`.

## 2. The modules

| Module | Models | Lines up with |
|---|---|---|
| `OverridePolicy` | the policy class as a record and operators that take the time | `override_policy.cc` |
| `Bridge` | the bridge node and its environment | `bridge_node.cc`, `main.cc`, `joypad.cc`, `hexapod_pose_sender.py` |
| `JoypadFreeze` | what the bridge promises: an owner and a target pose | abstract |
| `PCA9685` | a board's registers, and the driver's methods as sequences of transfers | `PCA9685_driver.cc`, `PCA9685_register.h` |
| `ServoController` | the servo node's process, transfer by transfer, and its next incarnations | `servocontroller.cc`, `i2c-peripheral.cc`, `motor.cc`, `main.cc` |
| `JointWriter` | what the servo node promises to those who command it | abstract |
| `HexapodSystem` | bridge and servo node, connected by the command topic | `hexapod.launch.py` |
| `Joypad` | a message of the joystick driver on its way through the joypad node to the override policy | `joypad.cc`, `joypad_thumbstick.cc`, `bridge_node.cc` |
| `WireFormat` | both encoders and the decoder, over documents whose values carry their JSON kind | `wire_format.cc`, `hexapod_pose_sender.py` |
| `LegModel` | the kinematics of one leg, in exact arithmetic | `leg_model.cc`, `leg_model.h` |
| `HexapodModel` | loading the legs, the node's start, and the robot's joints and feet | `configuration_loader.cc`, `model.cc`, `main.cc`, `body_pose.h`, `hip_mount.h` |
| `SupportPolygon` | the stability margin and its convex hull, in exact integers | `model.cc` |
| `StreamTopic` | the streaming process, its ffmpeg, and SIGTERM at every point | `stream_topic.py` |
| `MCBridge`, `MCServo`, `MCSystem`, `MCWire`, `MCInputs`, `MCModel` | small instances for TLC | – |
| `SystemProofs`, `ServoProofs`, `ServoWriterProofs`, `InputProofs`, `LegProofs`, `ModelProofs`, `PolygonProofs`, `StreamProofs` | theorems | – |

`ServoController` is shown to implement `JointWriter` (`ImplementsWriter`), and
`HexapodSystem` composes `Bridge` with `JointWriter` in its place: that is what
lets the end-to-end properties be checked without I²C transfers in the state.
`Bridge` is shown to implement `JoypadFreeze` (`ImplementsFreeze`).

### Bridge

One action per callback, except for the poll timer: `PollSocket` enters its
loop, each iteration is `Receive`, and `EndPoll` or `ReceiveFails` leaves it.
The executor is `"polling"` in between, so that time, poses and joypad samples
may arrive between iterations while no other callback runs. `HandlePayload` is
atomic: it does not wait for anything. Names follow the code: `policy` is
`policy_`, `lastSequence` is `last_sequence_`, and so on. Poses are model
values, a payload is a record that decodes or does not, a stick sample is at
rest, pushed or not finite. `commanded`, `newest`, `pressedAt`, `lost` and
`restarted` are history and influence nothing.

### ServoController and PCA9685

The driver's methods are fixed lists of transfers, so the process is modelled
as a list, `todo`, of what it has still to do: transfers, checks, motors to
home, sweep or write. Every transfer succeeds (`Succeed`) or fails (`Fail`);
one that fails may or may not have reached the board, is retried up to
`MaxAttempts` times if the error is transient, and then throws (`Throw`). An
exception takes the node through its destructors, right board first, as
members are destroyed in reverse order. `Kill` ends the process at any point
with none of that. `Respawn` starts the next one, on boards as they are.
What the constructor checks in one place (`Inspect`) is a set of names in the
configuration: a configuration passes a check or it does not. A board keeps
its SLEEP bit, PRE_SCALE and the OFF counters; the driver writes zero to the ON
counters always, and the two ON bytes are one transfer of the model. How a
board reacts to a transfer (`Perform`, `Pulse`) is external: it is taken from
the data sheet as `doc/pca9685.md` sums it up. Pulses are integers: `Ticks` is
the code's rounding in exact arithmetic.

### HexapodSystem

`BridgeStep` is the bridge with its joypad and sender; `Deliver` hands the one
command of the topic to the servo node, `HaltServo` ends that node with
whatever it has not written, `HomeJoint` and `ListenAgain` bring it back. The
angle of a joint is the pose it comes from, which makes a mixture of two poses
visible.

### WireFormat

A payload is the document a JSON parser makes of its bytes: no object at all,
or an object whose four fields are absent or a value of some kind. `Wrong`
lists what `Decode` throws at, field by field, and `Checks` the order in which
it looks, so that `Decode` names the first wrong field. `Validate` and
`EncodeInPython` are the sender's; what each encoder makes of an angle that is
not finite is modelled by what the other side reads (no JSON at all from
Python, `null` from C++). The schema number is kept modulo `SchemaModulus`,
which is 2^32 in the code.
A payload that repeats a joint, of which a parser keeps the last, and strings
that are not UTF-8 are left out.

### Joypad

`Bridge` takes what the joypad node publishes for granted; `Joypad` does not.
`PublishPad` is the driver, which reports the whole pad when it changes and
again every `RepeatEvery` ticks while it does not; `ControllerCallback` is the
joypad node, `OnPress` and `OnDeflection` the bridge's callbacks. What the
operator means by a touch (`Touched`) is stated on the pad; the code computes
its answer from axes picked by number, mirrored and squared, and from presses
whose releases nobody sends. A message is through both nodes before the clock
ticks: queues that fill while the bridge is busy are in `Bridge`. Positions are
integers, and a position or a dead zone may be no number at all.

### LegModel and HexapodModel

Nothing is rounded: an angle is its direction, a point with rational
coordinates on the unit circle, so that adding angles is complex
multiplication, `WrapToPi` is what forgetting whole turns does, and `acos` and
`atan2` are square roots. Points are integers over a denominator. What cannot
be expressed this way are targets whose square roots are irrational; a planner
of the model therefore starts from joints and asks for the joints of the feet
they produce (`Pose`), or asks for one of a few points (`Aim`, with `WholeRoots`
excluding those whose joints are irrational). `Expressible` excludes the legs
that are folded back across the coxa's axis: their feet are reached by another
arm, stretched the other way, whose angles may be irrational. Femur and
tibia differ in length in every robot, so that the foot is never in the femur's
pivot, where `atan2(0, 0)` decides. The doubles of the code do round: how close
to a limit a joint is still called inside is not modelled.

A script is the `Legs` table that running it leaves behind, of which any key may
be missing and any number not finite. `Complaint` is the first thing
`LoadRobotConfiguration` throws at, in the order in which it reads; `Mend` is an
operator who repairs what the message names and starts the node again. That the
coxa's length is not checked (it may be zero or negative) is as in the code, and
so is `Complete`, by which `NamesTheFault` judges a script.

### SupportPolygon

`StabilityMargin` is a pure function; the actions put one foot down after the
other, in every order, and ask for the margin each time. A distance is a
numerator over the root of a denominator and is compared squared, so that
nothing is rounded; the doubles of the code do round. `std::ranges::sort` is an
insertion: points the order does not tell apart are the same, so every sort
leaves the same sequence. The properties define the polygon by the lines that have every foot on one side, with no hull. Outside
the polygon and near a corner the margin is the distance to an edge's line and
not to the polygon: `MarginIsClearance` states what does hold there, that the
centre of mass is at least that far away.

### StreamTopic

`pc` is where the Python process is; the steps are cut where an exception
raised by the signal handler would find another state: between `Popen` and the
assignment of its result, in the write that blocks on a full pipe, and in each
step of the clean-up. ffmpeg runs, stalls, closes its input (`input`), ends or
is wedged as it likes; a wedged one sits in the encoder's driver, as
`doc/camera-streaming.md:176-179` describes, and `kill` does not end it.

`ffmpeg.stdin` is a buffered file, and `unsent` says that its buffer is not
empty. A frame larger than the buffer goes to the pipe whole (`WriteThrough`),
unless ffmpeg closes its input in the middle of it: then the call returns and
an end that fits in the buffer stays there (`WriteCutShort`). Frames that fit in
the buffer may stay there anyway (`WriteIntoBuffer`); `SmallFrames` says whether
such frames arrive. `Close` is `stdin.close()`, which writes that rest first: it
waits while a child with an open input does not read, and raises when nobody is
there to read, in which case the except clause passes over `wait` and `kill`.
`Wait` is `wait(timeout=5)` and what follows when the time is over.

A signal of the model is a run of its handler, between any two bytecodes. While
`rclpy.spin` waits for a frame Python runs no handler, so a signal that comes
then counts from the moment the wait returns, at the latest with the next
frame. A signal before the node exists (imports, `rclpy.init`, the node's
constructor) is outside the model, as are SIGINT and MediaMTX, which starts the
command again.

## 3. What the runs check

| Run | Instance | Shows |
|---|---|---|
| `bridge_freeze` | two poses, timeout 2, clock to 3, queues of 1, at most 1 arrival per poll | the freeze: `FreezeInv`, `StreamYieldsToPress`, `NoReplay`, `PressTakesHold`, `StreamResumes`, `ImplementsFreeze` |
| `bridge_gaps` | one pose, sequence numbers to 3, one malformed payload, restarts of the sender | `TypeOK`, `GapReportSound`, `HandoverReported` |
| `servo_safety` | three motors on two boards, every faulty configuration, three commands (one to refuse, one with an unknown joint), startup test on, three attempts | `TypeOK`, `ParkedOnExit`, `PulsesMatchAngles`, `NoStalePulse`, `ShowsLatest`, `ImplementsWriter`, `Recovers` |
| `system_freeze` | two joints, two poses, timeout 1, clock to 2, one restart of the servo node | `FreezeLag`, `StandsInOnePose`, `FreezeHolds`, `FreezeSettles` |
| `bridge_inputs` | three names (one empty), angles one beyond either end of the travel, a schema number modulo four; every position of a stick on a scale of ±2 or no number, with and without buttons, every dead zone | `AcceptsTheFormat`, `SenderIsUnderstood`, `OtherVersionIsNamed`, `FrozenIffTouched` |
| `hexapod_model` | three robots of two legs, nine angles per joint, three body poses, five points to aim at, every script with up to two mistakes; four feet and a centre of mass on a grid of 3 × 3 points, and an index out of range | `FeetLandOnTarget`, `JointsComeBack`, `JacobianIsVelocity`, `NamesTheFault`, `SignIsStability`, `MarginIsClearance`, `AnotherFootHelps` |
| `stream_lifetime` | three signals, frames of every size | `StreamInv`, `NoChildLeftBehind`, `HonestExit`, `StopsWhenAsked` |
| `servo_homing`, `servo_crash`, `servo_twitch`, `system_touch`, `wire_schema` | as small as they can be | what the documentation says and the code does not do (section 6) |

Bounds, and why they are enough:

- `MaxTime`: the clock stops there. It exceeds the timeout by one tick, enough
  for a press, a second press that restarts the timeout, the last frozen tick
  and the first free one. Time passes beyond `Horizon` only when no joypad
  input waits, so that the override can always lapse.
- `ReleaseAfter` of two ticks has an inner tick, at which a policy that lets go
  too early is caught. In the composed run one tick does.
- `JoypadDepth` 1 is the harshest queue: the second sample already displaces
  the first.
- `CounterModulus` 2 makes the counters wrap at once; they are compared for
  change only.
- `MaxSeq` 3 allows a gap of two between two poses that arrive; `MaxMalformed`
  1 puts a payload that does not decode on either side of a gap.
- `MaxBurst` bounds the payloads that arrive during one poll, and is what
  `PressTakesHold` depends on: the code's loop has no bound of its own, so a
  sender faster than the loop would keep the executor there, which no property
  covers. 0 means that
  payloads arrive between polls only.
- `MaxHalts` 1: one restart of the servo node per behaviour.
- Three motors, two of them on one board, distinguish the boards and the
  channels; `TestStep` is 90 degrees instead of 5, so that a sweep still has a
  start, a middle and an end.
- The safety run of the servo node has no bound on faults, kills, restarts or
  commands: its state space is finite as it is.

- `SchemaModulus` 4 instead of 2^32, with the numbers 0, 1, 2 and 5: the known
  version, its neighbours, and the first that is the known one when narrowed.
  `MaxAngle` 1 keeps the ends of the travel and a value beyond each. `Decode`
  keeps nothing from one payload to the next.
- Four feet suffice for every case of the hull: a triangle with a foot inside,
  on an edge or on a corner, a quadrilateral, feet on one line. `MCInit` places
  the feet in one order, as they are put down in every order.
- `QueueDepth` 2 holds both sticks of one message and makes the presses of the
  third button displace the first. `RepeatEvery` 2 is less than `ReleaseAfter` 3,
  as 50 ms is less than the timeout; `LastTick` 7 lets two repetitions pass and
  the override lapse. `FullScale` 2 puts positions on, inside and outside the
  disc of every dead zone, and outside the unit disc (the corners).
- One leg on each side has both signs of `sigma_coxa` and both mounts; legs
  share nothing but the body pose, so that six add no case. The angles are the
  quarter turns and one between each two, in every combination of femur and
  tibia: arms stretched, folded, bent either way, reaching across the coxa's
  axis. The coxa goes to four of them. A behaviour of the run uses either the
  kinematics or the margin, and one of `bridge_inputs` either way into the
  bridge: they share no state.
- Two mistakes in a script are enough for the order in which they are named.
- `MaxSignals` 3 allows a signal before the handler is installed, one in
  `spin` and one in the clean-up.
- `SmallFrames` is TRUE: frames that fit in the buffer of `ffmpeg.stdin` may
  arrive beside larger ones. A frame of the camera has hundreds of kilobytes and
  the buffer eight, but nothing in the code enforces it.

Deadlock is checked in every run but `stream_lifetime`, whose process ends for
good.

## 4. Fairness

- The bridge (`NodeFairness`): an executor runs what is ready. `PollSocket` and
  `EndPoll` are weakly fair; callbacks, which the poll disables again and
  again, are strongly fair, as the executor serves every ready callback before
  it waits again; `Receive` is strongly fair, which says that receives do not
  fail for ever.
- `StreamFairness`, for `StreamResumes`: the clock moves, and the animation
  keeps streaming, if need be after a restart.
- The servo node (`Fairness`): its process runs, the launch file starts it
  again (`respawn=True`), and a command that waits and a timer that is due are
  served in the end. `Recovers` further assumes, in its own statement, that the
  configuration is valid and that faults, kills and shutdowns stop.
- The composition (`SystemFairness`): weak fairness of the servo node's
  actions and of delivery, strong fairness of the timer, which competes with
  deliveries. `FreezeSettles` needs nothing of the bridge.
- `StreamTopic`: the interpreter goes on whenever it can. Nothing is assumed of
  ffmpeg, of the camera or of signals. `wait(timeout=5)` followed by `kill` is
  one step, `Wait`, that is always possible: the timeout is what makes it so.
  `Write` and `Close` have no timeout and are possible only when the pipe or the
  buffer takes what there is, or when nobody is left to read it.

## 5. What is proved

Assumptions are those named in the modules: `ReleaseAfterAssumption`,
`BridgeAssumption`, `SystemAssumption`, `ChannelsAssumption`, `ServoAssumption`,
`StreamAssumption`, `WireAssumption`, `FieldsAssumption`, `JoypadAssumption`,
`ModelAssumption`, `GroundAssumption`. They are the parameter checks of the constructors, what the scripts are required to
return, what a JSON parser can produce, and what a message of the joystick
driver is (sequences of positions and of button values, of any length; the pad
nobody touches has no button down and its sticks centred). `ModelAssumption`
says that what a script puts where a number is asked for is one, finite or not,
that the operator has a sound script to copy from, and that bodies, joints and
points are of their types; `GroundAssumption`, that there are legs and that the
points on the ground have whole coordinates (any doubles are multiples of one
unit, in which they are whole).

`SystemProofs`, first on the bridge alone, for all poses, timeouts, queue depths and bounds:

- `TypeCorrect`: `Spec => []TypeOK`.
- `FreezeInvariant`: `Spec => []FreezeInv`. `StreamYieldsToPress` speaks of
  the time of the press, which the node never sees: between the press and the
  policy lies a queue that may drop samples. The invariant says that a press
  either still waits in some sample of the queue or is remembered by the policy
  with a time no earlier; and that the socket holds the newest payload only.
- `PressFreezes`, `NothingReplayed`, `HandoversReported`: the action
  properties of the same names in the runs, from that invariant.
- `BridgeImplementsFreeze`: initial states map to initial states, and every
  step to a step of `JoypadFreeze` or a stutter. The interesting step is
  `Receive`: it publishes only while the stream owns the robot, and leaves the
  owner alone. `Tick` may hand the robot back, a joypad callback may take it,
  and neither moves the target.

- `GapReportsSound`: `GapReportSound`, from a second invariant, `GapInv`. What
  was dropped is counted up to one more than any gap there can be; the
  invariant keeps an account of it, from the last pose handled to the one
  that waits and from there to the sender's counter: either the numbers in
  between are exactly those of the dropped poses, or the sender has started
  again and at least as many were dropped as it has sent since. Every lost,
  overtaken or malformed payload and every restart keeps both accounts, and
  `StampAccounts` shows that they add up when one payload replaces another.

and on the two nodes together, for any number of joints, poses and restarts of
the servo node:

- `SystemContainsBridge`: the composition's steps are the bridge's or leave it
  alone, so everything proved of `Bridge` holds in it.
- `FreezeLags`: `FreezeLag`, from `LagInv`: while the joypad holds, the poses
  begun so far, the one that waits in the servo node and the one in the topic
  are at most two together. A frozen bridge publishes nothing, so the sum can
  only fall.
- `RestUnderJoypad`: `FreezeHolds`.
- `RestsInOnePose`: `StandsInOnePose`, from `StandInv`: what is being written is
  the tail of one pose whose head the joints show already, and the newest of
  topic, node and joints is what the bridge commanded last.

`ServoProofs`, for all motor tables, configurations, commands and pulse ranges:

- `ServoTypeCorrect`: `Spec => []TypeOK`. The pulse widths of every motor fit
  their two bytes and every angle the travel; only finite degrees wait to be
  written; every step left to do concerns a motor there is. It rests on
  lemmas about the driver's methods (each a sequence of transfers), about
  `FindMotor` (it returns the first motor of the name) and about rounding.

The other properties of the servo node speak of a process at rest or at its
end, and are not inductive: in between, boards, angles and pose are half
written. Their invariants say what `todo` still holds in each phase: a board
is as it should be, or a step that makes it so is still to come (`Awaits`) and
nothing between now and then relies on it or undoes it. Retries and transfers
that fail after they have reached the board keep them all, as a transfer that
is performed twice leaves the board as once; an exception replaces `todo`, and
`Kill` needs nothing.

And on what the boards are left at:

- `ServoParksOnExit`: `ParkedOnExit`, from `ParkInv`. From the moment the
  constructor has returned both drivers are open; a process being destroyed has
  nothing left but the parking transfers, the right board's before the left
  one's, and each board it answers for is stopped and asleep or the transfer
  that does it is still in the list.
- `ServoLeavesNoStalePulse`: `NoStalePulse`, from `StaleInv`. Whatever a killed
  process left, each byte of the counters that this process has not written is
  clear, or the transfer that clears it is still to come before the one that
  makes the driver count as initialised (`Guarded`); and no step left to do
  writes a pulse to a channel not in `driven`.

`ServoWriterProofs`, on pulses, angles and commands:

- `ServoPulsesMatchAngles`: `PulsesMatchAngles`, from `PulseInv`. The
  constructor is opening the boards, at one of the ten transfers that set the
  two frequencies, or done with that; from then on both boards are awake at
  the frequency computed for, at most one motor is between two bytes of its
  pulse width, and every other motor shows its angle or is still to be homed.
- `ServoShowsLatest`: `ShowsLatest`, from `LatestInv`. What is left to do while
  a pose is written is the rest of one motor's transfers and then the entries
  after some `n`; those up to `n` show, the last of several for one joint.
- `ServoImplementsWriter`: `ImplementsWriter`, from `TypeOK`, `LatestInv` and
  `HomeInv` (before the node listens, every motor is at its rest angle or on
  its way there, whatever the startup test still moves). Initial states map to
  initial states; taking a command, writing an entry, ending and starting to
  listen map to the steps of `JointWriter` of those names, every other step to
  a stutter. It is what allows `HexapodSystem`, and `SystemProofs` with it, to
  have `JointWriter` in the place of the servo node; the composition of the
  bridge with the transfers themselves is not stated.

`InputProofs`, on the two ways into the bridge. For every pad, dead zone, queue
depth, period and timeout:

- `JoypadFreezesIffTouched`: `FrozenIffTouched`, from `TouchInv`. A touch of the
  pad published last is in one of the three topics or noted by the policy at a
  time no earlier; whatever is in the bridge's topics, if it counts, comes of a
  touch; and what the policy noted is no later than the last touch. The
  depth of two is enough for both sticks, and a queue that drops presses
  keeps at least one if there was one, which is all the proof needs of it.

And for every set of names and angles, every modulus of the schema number and
all fields other programs may send:

- `WireInvariant`: what is on the wire is a document a parser can produce, a
  pose is what `Decode` makes of it, and a pose the Python sender let through is
  on the wire as `EncodeInPython` writes it.
- `FormatAccepted`, `SenderUnderstood`, `VersionNamed`: `AcceptsTheFormat`,
  `SenderIsUnderstood`, `OtherVersionIsNamed`. The lemmas about `Decode` go field
  by field: it accepts if and only if nothing is wrong with any.

`StreamProofs`, for any number of signals and frames of every size:

- `StreamInvariant`: `Spec => []StreamInv`, which says which child is
  remembered or being started at each point of the process, which the clean-up
  has spared once it is past `stop_ffmpeg`, and for whom the buffer may keep
  something. `NoChildLeftBehind` alone is not inductive: it speaks of the end
  only.
- `ChildrenEnd`: `NoChildLeftBehind`. It does not say that ffmpeg always ends,
  which is not so; it says which one may outlive the process, if no signal came
  inside `Popen` or the clean-up: one that is wedged, or one that had
  closed its input before all was written.
- `ExitsHonestly`: `HonestExit`.

`LegProofs` holds the lemmas about the kinematics of one leg, for all lengths,
offsets, signs and angles:

- What recursion computes. `gcd` and `Root` are recursive functions, and the
  library's induction theorems cannot be instantiated. The sets of arguments
  at which such a function obeys its equation, and at which it has the value it
  should have, are sets like any other, though: a set of natural numbers that
  is not empty has a least element, and one that would not obey cannot be it.
  `gcd` is a common divisor that every other one divides, `Root` the integer root.
- What an angle is. A `Direction` is primitive and has a whole radius; it depends
  on nothing but the ratio of the two numbers it is made of; adding, subtracting
  and changing signs stay among the `Angles` and undo each other.
- Points are equal when their coordinates are, over whatever denominator (`At`,
  `PointUnique`): every statement about points becomes one about integers.
- `LandsOnTarget`: forward kinematics of what inverse kinematics return is the
  target, on every branch and whatever the status, if the roots are whole. The
  law of cosines puts the second link's end at the target's distance, `Between`
  turns it into the target's direction, and the coxa's offset cancels.
- `JointsReturn`: inverse kinematics of a foot return the joints it came of, if
  the elbow is bent the negative way and the foot is on the outer side.

`ModelProofs`, for every list of legs, set of scripts, body and plan:

- `ModelNamesTheFault`: `NamesTheFault`, from `FaultInv`. That no message comes
  twice is not a matter of one step: between two starts of the node lies the
  operator. The invariant says that while the node is down after a mend, what
  the last message named no longer throws in the script as it is now.
- `ModelFeetLand`, `ModelJointsComeBack`, `ModelJacobian`: `FeetLandOnTarget`,
  `JointsComeBack` and `JacobianIsVelocity`, from `ConfiguredInv` (a node that
  spins has legs whose numbers are finite and which `IsUsable` accepts) and
  `PlanInv` (a target is what the joints tried give, or a point with whole roots,
  and results are `SolveJoints`'s for that target). Between the leg and the world
  lie a mount and a body pose: both are rotations with an inverse, the conjugate
  of the quaternion and the transpose of the mount's matrix (`RotatedBack`,
  `QuaternionTurns`, `MountTurns`). For the Jacobian, the levers from each pivot
  to the foot are put in coordinates of the leg's plane (`LeversAre`) and crossed
  with the joint's axis.

`PolygonProofs`, for any number of legs and all points with whole coordinates:

- `PolygonSign`, `PolygonClearance`, `PolygonAnotherFoot`: `SignIsStability`,
  `MarginIsClearance` and `AnotherFootHelps`, from `Planned`, which says that
  the margin is `StabilityMargin`'s for the feet at hand. The rest is geometry:
  - `SortedIs`: sorting leaves the same points, none of them before an earlier one.
  - `LowerChain`, `UpperChain`: one way along the sorted points, the chain turns
    left at every corner and no point met so far is to the right of an edge
    (`IsChain`). A point that is popped lies on or to the left of the edge that
    passes it by (`GoesOn`), which is where the order of the points is needed.
  - `RoundIs`: the two chains join into a round of strict left turns. If the feet
    enclose an area it has three corners or more and its edges are those of a
    `Polygon`: closed, each with a length, every foot to their left
    (`WideRound`, `RoundIsPolygon`); if not, it has at most two points (`NarrowRound`).
  - `SupportLine`, `BeyondCorner`: every line through two feet with all feet to
    its left has the centre of mass to its left if all edges have, and none is
    nearer than all edges. So the sides that the properties speak of, which
    know of no hull, and the edges the code goes through decide the same.
  - `SmallestIs`, `MarginIs`: of the distances a least one is returned, although
    they are quotients by roots.
  - `MarginGrows`: with more feet, the wider polygon's edges have the narrower
    polygon to their left, and what is a distance inside the one is within the other.

Model-checked only: liveness (`StopsWhenAsked`, `PressTakesHold`,
`StreamResumes`, `Recovers`, `FreezeSettles`), as the prover has no ENABLED.

## 6. Where the documentation and the code disagree

- README.md:278, validated before anything moves: homing reads the rest angles
  one by one and moves as it goes (`servo_homing`).
- README.md:279, doc/architecture.md:80, boards off after a crash: only a
  destructor parks them (`servo_crash`).
- `PCA9685_driver.cc:98`, no twitch: the low bytes are cleared before the high
  ones, and outputs follow each byte (`servo_twitch`).
- README.md:9, a touch freezes the joints where the last pose left them: up to
  two poses already on their way are still written (`system_touch`; the bound
  of two is `FreezeLag`).
- doc/zeromq-bridge.md:86, an unknown version is refused outright: the number
  is narrowed to 32 bits before it is compared (`wire_schema`).

Disagreements met on the way that no run of its own shows:

- `leg_model.h:135-145` says that the angle at the elbow is in (−π, 0) for every
  pose within the travel, and that folded poses lie beyond the coxa's. With the
  numbers of `config/legs.lua` (a tibia offset of −1.634 and a travel of ±π/2)
  the elbow reaches −3.2, beyond −π, and a leg can fold back across the coxa's
  axis within its travel: the inverse kinematics then return other joints, a
  `LimitViolation` or `Unreachable`. `JointsComeBack` is stated for the branch
  itself (`OnBranch`), which is what the code guarantees.
- `configuration_loader.h:35-37` says that a link length that is not positive
  raises an error; the coxa's is not looked at. `Complete` is the code's notion.
- `stream_topic.py:208-210` says that a signal takes the path of a broken pipe, on
  which ffmpeg is shut down once, in one place. If ffmpeg closes its input in the
  last bytes of a frame, `close()` raises, and `stop_ffmpeg` neither waits nor
  kills: the exception in `NoChildLeftBehind`.
- `stream_topic.py:190` says that ffmpeg may flush before the clean-up insists.
  With something in the buffer and an ffmpeg that does not read, `close()` itself
  waits for ever and nothing insists: the exception in `StopsWhenAsked`. It takes
  a frame that fits in the buffer (`StreamInv`).
- `joypad.cc:46-49` names the left stick's button right and the right one's left
  compared with `buttonsname.h`. Nothing reads the names.

## 7. What is not modelled, and why

- `hexapod_description`, containers and scripts: data and I/O. `src/adafruit` is
  never built. Methods without a caller: `Release`, `SetPWMms`, `SetChannelOff`.
- `motors.lua`: it runs once, in the constructor, before anything moves, and its
  result is the constant `MotorTable`. Its counters run on from the left side to
  the right, which the names of its result show.
- The board addresses, which `servocontroller.cc:114` narrows to eight bits
  between two of its checks: a check of start-up passes or fails as a whole.
- Of the joypad node, the names of buttons, which nothing reads, and the trigger
  topic, which nothing subscribes to.
- Time inside the servo node (settle time, write rate): its timer may be due at
  any moment. The override timeout against the driver's repetition is an
  assumption inside `FrozenIffTouched`, as nothing in the code relates the two.
- A restart of the bridge, file descriptors, log throttling, the conversion of
  camera frames, MediaMTX, and a SIGTERM before the streaming node exists.
- Rounding: pulses and lengths are exact.

Worth doing next: the bridge composed with the servo node's transfers, in the
place of `JointWriter`; and a bound on what rounding does to a pulse and to a
joint next to its limit.

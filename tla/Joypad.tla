------------------------------- MODULE Joypad -------------------------------
(***************************************************************************)
(* hexapod_joypad/src/joypad.cc between the joystick driver and the        *)
(* bridge: what the operator does with the pad, and whether the bridge     *)
(* takes it for a touch that freezes the stream.                           *)
(*                                                                         *)
(* The driver publishes the whole pad whenever it changes, and repeats it  *)
(* while it does not (autorepeat_rate in hexapod.launch.py).  The node     *)
(* splits such a message into presses, sticks and triggers.  Every message *)
(* is through both nodes before the clock ticks: queues that fill while    *)
(* the bridge is busy are the business of Bridge.tla.  What the node keeps *)
(* in its members is overwritten before it is read, except for the names   *)
(* of buttons, and nothing in the repository reads a name or a trigger.    *)
(*                                                                         *)
(* A position of an axis is an integer, FullScale standing for 1.0.        *)
(***************************************************************************)
EXTENDS Sequences, FiniteSets, OverridePolicy

CONSTANTS
  Pads,          \* what the driver may report, a pad nobody touches included
  Released,      \* that pad
  NotANumber,    \* a position, or a parameter, that is not a number
  FullScale,     \* the position of a fully deflected axis
  DeadZones,     \* values thumbstick_deadzone may be given
  QueueDepth,    \* kQueueDepth and kJoypadQueueDepth
  RepeatEvery,   \* ticks between repetitions of the driver
  LastTick       \* bound: the clock stops here

(* A released pad is none that freezes the stream, whatever the dead zone. *)
ASSUME JoypadAssumption ==
  /\ NotANumber \notin Int
  /\ Pads \subseteq [axes : Seq(Int \cup {NotANumber}), buttons : Seq(Int)]
  /\ DeadZones \subseteq Int \cup {NotANumber}
  /\ Released \in Pads
  /\ \A b \in DOMAIN Released.buttons : Released.buttons[b] = 0
  /\ \A i \in {1, 2, 4, 5} \cap DOMAIN Released.axes : Released.axes[i] = 0
  /\ FullScale \in Nat \ {0}
  /\ QueueDepth \in Nat \ {0, 1}
  /\ RepeatEvery \in Nat \ {0}
  /\ LastTick \in Nat

VARIABLES
  deadZone,    \* thumbstick_deadzone_ of the bridge
  pad,         \* what the driver last published
  publishedAt, \* and when
  clock,       \* the steady clock of the bridge
  joy,         \* the message on its way to the joypad node, if there is one
  presses,     \* joypad/button samples on their way to the bridge
  deflections, \* joypad/thumbstick samples, by their position on the two axes
  policy,      \* policy_ of the bridge
  touchedAt    \* history: when the pad was last published with a touch

joypadVars == <<deadZone, pad, publishedAt, clock, joy, presses, deflections,
                policy, touchedAt>>

-----------------------------------------------------------------------------
(* The node *)

RequiredAxes == 6

(* Mutant: the right stick is read from its x axis and the R2 trigger,     *)
(* which rests at 1.0.                                                     *)
SticksOverTrigger == <<<<0, 1>>, <<3, 5>>>>

(* The axes of the left and of the right stick (buttonsmap_ps3joy.h); axis *)
(* i of a message is element i + 1 of the sequence.                        *)
Sticks == <<<<0, 1>>, <<3, 4>>>>

(* ThumbStick::normalize: to the right is positive from here on. *)
Mirrored(x) == IF x = NotANumber THEN x ELSE -x

(* ThumbStick::setAxes *)
Deflection(axes, stick) ==
  [x |-> Mirrored(axes[stick[1] + 1]), y |-> axes[stick[2] + 1]]

(* A topic whose history is KEEP_LAST. *)
LastOf(samples) ==
  IF Len(samples) <= QueueDepth THEN samples
  ELSE SubSeq(samples, Len(samples) - QueueDepth + 1, Len(samples))

-----------------------------------------------------------------------------
(* The bridge's two callbacks *)

(* The magnitude, squared. *)
Magnitude(d) == d.x * d.x + d.y * d.y

IsFinite(d) == d.x # NotANumber /\ d.y # NotANumber

(* Nothing is greater than a dead zone that is not a number. *)
IsPush(d) ==
  /\ IsFinite(d)
  /\ deadZone # NotANumber
  /\ Magnitude(d) > deadZone * deadZone

(* DeclareParameters refuses a dead zone below 0 or above 1; what is not a *)
(* number is neither.                                                      *)
Permitted(zone) ==
  zone = NotANumber \/ ~(zone < 0 \/ zone > FullScale)

-----------------------------------------------------------------------------

JoyInit ==
  /\ deadZone \in {zone \in DeadZones : Permitted(zone)}
  /\ pad = Released
  /\ publishedAt = 0
  /\ clock = 0
  /\ joy = <<>>
  /\ presses = <<>>
  /\ deflections = <<>>
  /\ policy = NewPolicy
  /\ touchedAt = -1

Through == joy = <<>> /\ presses = <<>> /\ deflections = <<>>

(* What the operator means by a touch: a button down, or a stick outside   *)
(* the disc of the dead zone, on a pad that has all the axes.              *)
Outside(axes, i, j) ==
  /\ {axes[i], axes[j]} \cap {NotANumber} = {}
  /\ axes[i] * axes[i] + axes[j] * axes[j] > deadZone * deadZone

Touched(p) ==
  /\ Len(p.axes) >= 6
  /\ \/ \E b \in DOMAIN p.buttons : p.buttons[b] # 0
     \/ deadZone # NotANumber /\ (Outside(p.axes, 1, 2) \/ Outside(p.axes, 4, 5))

(* The driver publishes a pad that changed, and repeats one that did not. *)
PublishPad(p) ==
  /\ Through
  /\ p # pad \/ clock - publishedAt = RepeatEvery
  /\ pad' = p
  /\ joy' = <<p>>
  /\ publishedAt' = clock
  /\ touchedAt' = IF Touched(p) THEN clock ELSE touchedAt
  /\ UNCHANGED <<deadZone, clock, presses, deflections, policy>>

Down(buttons) == {b \in DOMAIN buttons : buttons[b] # 0}

(* The orders in which a loop over the buttons meets those that are down:  *)
(* there is one.                                                           *)
Orders(buttons) ==
  {order \in [1 .. Cardinality(Down(buttons)) -> Down(buttons)] :
     \A k, l \in DOMAIN order : k < l => order[k] < order[l]}

(* Joypad::controllerCallback: a message of too few axes is dropped with   *)
(* the presses it carries.  Releases are not published, both sticks always *)
(* are.                                                                    *)
ControllerCallback ==
  /\ joy # <<>>
  /\ joy' = <<>>
  /\ LET message == Head(joy) IN
       IF Len(message.axes) < RequiredAxes
       THEN UNCHANGED <<presses, deflections>>
       ELSE /\ \E order \in Orders(message.buttons) :
                 presses' = LastOf([k \in DOMAIN order |->
                                      message.buttons[order[k]]])
            /\ deflections' =
                 LastOf([i \in 1 .. 2 |-> Deflection(message.axes, Sticks[i])])
  /\ UNCHANGED <<deadZone, pad, publishedAt, clock, policy, touchedAt>>

OnPress ==
  /\ presses # <<>>
  /\ presses' = Tail(presses)
  /\ policy' = IF Head(presses) # 0 THEN NoteJoypadActivity(policy, clock)
                                    ELSE policy
  /\ UNCHANGED <<deadZone, pad, publishedAt, clock, joy, deflections, touchedAt>>

OnDeflection ==
  /\ deflections # <<>>
  /\ deflections' = Tail(deflections)
  /\ policy' = IF IsPush(Head(deflections))
               THEN NoteJoypadActivity(policy, clock) ELSE policy
  /\ UNCHANGED <<deadZone, pad, publishedAt, clock, joy, presses, touchedAt>>

(* The clock does not pass the moment of a repetition. *)
PassTime ==
  /\ Through
  /\ clock < LastTick
  /\ clock - publishedAt < RepeatEvery
  /\ clock' = clock + 1
  /\ UNCHANGED <<deadZone, pad, publishedAt, joy, presses, deflections, policy,
                 touchedAt>>

JoyNext ==
  \/ \E p \in Pads : PublishPad(p)
  \/ ControllerCallback
  \/ OnPress
  \/ OnDeflection
  \/ PassTime

JoySpec == JoyInit /\ [][JoyNext]_joypadVars

-----------------------------------------------------------------------------
(* Property *)

(* The stream is frozen for as long as the operator holds the pad, however *)
(* still it is held, provided the driver repeats more often than the       *)
(* override lapses (nothing checks that: bridge_node.cc:114-118 asks only  *)
(* for a positive timeout); and never by a worn stick, a trigger, a        *)
(* release or an incomplete message: while it is frozen the last touch is  *)
(* less than the timeout ago (override_policy.h, joypad.cc:60-121,         *)
(* bridge_node.cc:210-224).                                                *)
FrozenIffTouched ==
  Through =>
    /\ Touched(pad) /\ RepeatEvery < ReleaseAfter => OverrideActive(policy, clock)
    /\ OverrideActive(policy, clock) =>
         touchedAt >= 0 /\ clock - touchedAt < ReleaseAfter

=============================================================================

------------------------------- MODULE Bridge -------------------------------
(***************************************************************************)
(* hexapod_bridge/src/bridge_node.cc: the node that takes poses from a     *)
(* ZeroMQ socket and passes them on as joint commands, unless the operator *)
(* holds the joypad.                                                       *)
(*                                                                         *)
(* The node runs under rclcpp::spin, which executes one callback at a time *)
(* (src/main.cc).  The two joypad callbacks are single steps.  The poll    *)
(* timer's callback is a loop around a non-blocking receive, so time may   *)
(* pass, poses may arrive and joypad samples may queue up between two of   *)
(* its iterations: each iteration is a step, and `executor` says whether   *)
(* the executor is inside the loop.                                        *)
(*                                                                         *)
(* The environment is the pose sender (tools/hexapod_pose_sender.py), the  *)
(* network, the joypad node and the reader of the output topic.            *)
(***************************************************************************)
EXTENDS Sequences, OverridePolicy

CONSTANTS
  Poses,           \* the contents a pose may have
  NoPose,          \* what has been commanded before the first pose
  JoypadDepth,     \* kJoypadQueueDepth
  CounterModulus,  \* the counters wrap here (2^64 in the code)
  MaxSeq,          \* bound: sequence numbers of one run of the sender
  MaxTime,         \* bound: the clock stops here
  MaxMalformed,    \* bound: payloads that do not decode
  MaxBurst         \* bound: payloads that arrive during one poll

ASSUME BridgeAssumption ==
  /\ NoPose \notin Poses
  /\ JoypadDepth \in Nat \ {0}
  /\ CounterModulus \in Nat \ {0, 1}
  /\ MaxSeq \in Nat
  /\ MaxTime \in Nat
  /\ MaxMalformed \in Nat
  /\ MaxBurst \in Nat

VARIABLES
  now,                 \* the steady clock
  executor,            \* "idle", or "polling" inside PollSocket
  socket,              \* payloads waiting in the SUB socket
  policy,              \* policy_
  streamWasDriving,    \* stream_was_driving_, the side last logged
  lastSequence,        \* last_sequence_
  seenSequence,        \* seen_sequence_
  rejected,            \* rejected_
  forwarded,           \* forwarded_
  jointCommand,        \* the output topic, of depth one
  buttons,             \* joypad/button samples waiting for the callback
  sticks,              \* joypad/thumbstick samples waiting for the callback
  sequence,            \* the sender's _sequence
  malformed,           \* payloads sent so far that do not decode
  burst,               \* payloads that arrived during this poll
  (* History: what the environment did and what the node put out. *)
  commanded,           \* the last pose published
  newest,              \* the pose of the last payload that arrived
  pressedAt,           \* when the operator last pressed a button
  lost,                \* poses dropped since the waiting payload arrived, or
                       \* since the last pose was handled if none waits
  restarted            \* whether the sender restarted since then

nodeVars    == <<policy, streamWasDriving, lastSequence, seenSequence,
                 rejected, forwarded, jointCommand, commanded>>
joypadVars  == <<buttons, sticks, pressedAt>>
senderVars  == <<sequence, malformed>>
dropVars    == <<lost, restarted>>
socketVars  == <<socket, newest, burst>>
vars == <<now, executor, nodeVars, joypadVars, senderVars, dropVars,
          socketVars>>

-----------------------------------------------------------------------------
(* Data. *)

(* What a payload decodes to.  Its last two fields are history: how many   *)
(* poses were dropped between the last one handled and this payload, and   *)
(* whether the sender restarted there.                                     *)
Payloads ==
  {p \in [wellFormed : BOOLEAN, seq : Nat, pose : Poses \cup {NoPose},
          dropped : Nat, restart : BOOLEAN] :
     p.wellFormed => p.pose \in Poses}

(* WireFormat::Decode throws on a payload that is not well formed;         *)
(* WireFormat.tla says when.                                               *)
Malformed == [wellFormed |-> FALSE, seq |-> 0, pose |-> NoPose,
              dropped |-> 0, restart |-> FALSE]

(* "rest" lies within the dead zone, "push" beyond it; "infinite" is a     *)
(* magnitude that is not finite.                                           *)
StickSamples == {"rest", "push", "infinite"}

(* Mutant: a magnitude that is not finite counts as a push. *)
DeliberateUnlessRest(sample) == sample # "rest"

Deliberate(sample) == sample = "push"

Never == -1

(* A count of dropped poses, which stops at one that no gap can exceed. *)
Count(n) == IF n > MaxSeq THEN MaxSeq + 1 ELSE n

(* A topic whose history is KEEP_LAST. *)
KeepLast(queue, sample, depth) ==
  IF Len(queue) < depth THEN Append(queue, sample)
                        ELSE Append(Tail(queue), sample)

(* Mutant: the option is not set, and payloads queue up. *)
QueueUp(queue, payload) == Append(queue, payload)

(* ZMQ_CONFLATE: a payload that arrives replaces the one waiting. *)
Conflate(queue, payload) == <<payload>>

(* The largest time at which the operator may still touch the joypad: the  *)
(* override then lapses before the clock stops.                            *)
Horizon == MaxTime - ReleaseAfter

-----------------------------------------------------------------------------
(* The node. *)

Init ==
  /\ now = 0
  /\ executor = "idle"
  /\ socket = <<>>
  /\ policy = NewPolicy
  /\ streamWasDriving = TRUE
  /\ lastSequence = 0
  /\ seenSequence = FALSE
  /\ rejected = 0
  /\ forwarded = 0
  /\ jointCommand = <<>>
  /\ buttons = <<>>
  /\ sticks = <<>>
  /\ sequence = 0
  /\ malformed = 0
  /\ burst = 0
  /\ commanded = NoPose
  /\ newest = NoPose
  /\ pressedAt = Never
  /\ lost = 0
  /\ restarted = FALSE

(* The poll timer fires. *)
PollSocket ==
  /\ executor = "idle"
  /\ executor' = "polling"
  /\ burst' = 0
  /\ UNCHANGED <<now, nodeVars, joypadVars, senderVars, dropVars,
                 socket, newest>>

(* How many poses the node says were dropped in flight before this one. *)
ReportedGap(payload) ==
  IF seenSequence /\ payload.seq > lastSequence + 1
  THEN payload.seq - lastSequence - 1
  ELSE 0

(* Mutant: the report comes after the early return of a frozen pose. *)
ReportWhenPublished(streamMayDrive) ==
  streamWasDriving' = (streamWasDriving \/ streamMayDrive)

(* The owner the log names once this payload is handled: the stream or the *)
(* joypad, reported on a change only.                                      *)
ReportOwnership(streamMayDrive) == streamWasDriving' = streamMayDrive

Publish(pose) ==
  /\ jointCommand' = KeepLast(jointCommand, pose, 1)
  /\ commanded' = pose
  /\ forwarded' = (forwarded + 1) % CounterModulus

HandleMalformed(payload) ==
  /\ rejected' = (rejected + 1) % CounterModulus
  /\ lost' = Count(lost + payload.dropped)
  /\ restarted' = (restarted \/ payload.restart)
  /\ UNCHANGED <<policy, streamWasDriving, lastSequence, seenSequence,
                 forwarded, jointCommand, commanded>>

(* Mutant: a pose dropped by the freeze does not move last_sequence_. *)
HandlePoseForgetting(payload) ==
  LET streamMayDrive == StreamMayDrive(policy, now) IN
  /\ lastSequence' = IF streamMayDrive THEN payload.seq ELSE lastSequence
  /\ seenSequence' = TRUE
  /\ ReportOwnership(streamMayDrive)
  /\ IF streamMayDrive
     THEN Publish(payload.pose)
     ELSE UNCHANGED <<jointCommand, commanded, forwarded>>
  /\ UNCHANGED <<policy, rejected, dropVars>>

HandlePose(payload) ==
  LET streamMayDrive == StreamMayDrive(policy, now) IN
  /\ lastSequence' = payload.seq
  /\ seenSequence' = TRUE
  /\ ReportOwnership(streamMayDrive)
  /\ IF streamMayDrive
     THEN Publish(payload.pose)
     ELSE UNCHANGED <<jointCommand, commanded, forwarded>>
  /\ UNCHANGED <<policy, rejected, dropVars>>

(* Mutant: a payload that does not decode is handled all the same. *)
HandleRegardless(payload) == HandlePose(payload)

HandlePayload(payload) ==
  IF payload.wellFormed THEN HandlePose(payload) ELSE HandleMalformed(payload)

(* One iteration of the loop that finds a payload. *)
Receive ==
  /\ executor = "polling"
  /\ socket # <<>>
  /\ HandlePayload(Head(socket))
  /\ socket' = Tail(socket)
  /\ UNCHANGED <<now, executor, joypadVars, senderVars, newest, burst>>

(* The receive finds nothing: the loop ends. *)
EndPoll ==
  /\ executor = "polling"
  /\ socket = <<>>
  /\ executor' = "idle"
  /\ UNCHANGED <<now, nodeVars, joypadVars, senderVars, dropVars,
                 socketVars>>

(* The receive throws zmq::error_t: what waits stays for the next poll. *)
ReceiveFails ==
  /\ executor = "polling"
  /\ socket # <<>>
  /\ executor' = "idle"
  /\ UNCHANGED <<now, nodeVars, joypadVars, senderVars, dropVars,
                 socketVars>>

OnJoypadButton ==
  /\ executor = "idle"
  /\ buttons # <<>>
  /\ policy' = IF Head(buttons) # 0 THEN NoteJoypadActivity(policy, now)
                                    ELSE policy
  /\ buttons' = Tail(buttons)
  /\ UNCHANGED <<now, executor, streamWasDriving, lastSequence, seenSequence,
                 rejected, forwarded, jointCommand, commanded, sticks,
                 pressedAt, senderVars, dropVars,
                 socketVars>>

OnJoypadThumbstick ==
  /\ executor = "idle"
  /\ sticks # <<>>
  /\ policy' = IF Deliberate(Head(sticks))
               THEN NoteJoypadActivity(policy, now) ELSE policy
  /\ sticks' = Tail(sticks)
  /\ UNCHANGED <<now, executor, streamWasDriving, lastSequence, seenSequence,
                 rejected, forwarded, jointCommand, commanded, buttons,
                 pressedAt, senderVars, dropVars,
                 socketVars>>

Node ==
  \/ PollSocket \/ Receive \/ EndPoll \/ ReceiveFails
  \/ OnJoypadButton \/ OnJoypadThumbstick

-----------------------------------------------------------------------------
(* The environment. *)

InputWaiting == buttons # <<>> \/ \E i \in DOMAIN sticks : sticks[i] = "push"

(* Past the horizon time passes only while no input waits, so that the     *)
(* override always has the time to lapse.                                  *)
Tick ==
  /\ now < MaxTime
  /\ now < Horizon \/ ~InputWaiting
  /\ now' = now + 1
  /\ UNCHANGED <<executor, nodeVars, joypadVars, senderVars, dropVars,
                 socketVars>>

(* Mutant: releases are published as well. *)
ButtonSamplesWithReleases == {0, 1}

(* hexapod_joypad publishes a button while it is down and never when it is *)
(* up, so every sample is a press.                                         *)
ButtonSamples == {1}

PressButton ==
  /\ now <= Horizon
  /\ \E value \in ButtonSamples :
       buttons' = KeepLast(buttons, value, JoypadDepth)
  /\ pressedAt' = now
  /\ UNCHANGED <<now, executor, nodeVars, sticks, senderVars, dropVars,
                 socketVars>>

(* The sticks are published with every sample of the joypad. *)
MoveStick(sample) ==
  /\ sample = "push" => now <= Horizon
  /\ sticks' = KeepLast(sticks, sample, JoypadDepth)
  /\ UNCHANGED <<now, executor, nodeVars, buttons, pressedAt, senderVars, dropVars,
                 socketVars>>

(* What was dropped before a payload that arrives now. *)
DroppedBefore ==
  IF socket = <<>> THEN lost
  ELSE lost + Head(socket).dropped + (IF Head(socket).wellFormed THEN 1 ELSE 0)

RestartBefore == restarted \/ (socket # <<>> /\ Head(socket).restart)

Stamped(payload) == [payload EXCEPT !.dropped = Count(DroppedBefore),
                                    !.restart = RestartBefore]

Arrive(payload) ==
  /\ executor = "polling" => burst < MaxBurst
  /\ burst' = IF executor = "polling" THEN burst + 1 ELSE burst
  /\ socket' = Conflate(socket, Stamped(payload))
  /\ newest' = payload.pose
  /\ lost' = 0
  /\ restarted' = FALSE

(* PoseSender.send: the counter moves on whether or not anyone listens. *)
SendPose(pose) ==
  /\ sequence <= MaxSeq
  /\ Arrive([wellFormed |-> TRUE, seq |-> sequence, pose |-> pose,
             dropped |-> 0, restart |-> FALSE])
  /\ sequence' = sequence + 1
  /\ UNCHANGED <<now, executor, nodeVars, joypadVars, malformed>>

(* A PUB socket discards what it cannot deliver. *)
LosePose ==
  /\ sequence <= MaxSeq
  /\ sequence' = sequence + 1
  /\ lost' = Count(lost + 1)
  /\ UNCHANGED <<now, executor, nodeVars, joypadVars, malformed, restarted,
                 socketVars>>

SendMalformed ==
  /\ malformed < MaxMalformed
  /\ malformed' = malformed + 1
  /\ Arrive(Malformed)
  /\ UNCHANGED <<now, executor, nodeVars, joypadVars, sequence>>

(* The sender is started again and counts from zero. *)
RestartSender ==
  /\ sequence > 0
  /\ sequence' = 0
  /\ restarted' = TRUE
  /\ UNCHANGED <<now, executor, nodeVars, joypadVars, malformed, lost,
                 socketVars>>

(* The subscriber of the output topic takes the command. *)
TakeCommand ==
  /\ jointCommand # <<>>
  /\ jointCommand' = <<>>
  /\ UNCHANGED <<now, executor, policy, streamWasDriving, lastSequence,
                 seenSequence, rejected, forwarded, commanded, joypadVars,
                 senderVars, dropVars,
                 socketVars>>

Environment ==
  \/ Tick \/ PressButton \/ \E sample \in StickSamples : MoveStick(sample)
  \/ \E pose \in Poses : SendPose(pose)
  \/ LosePose \/ SendMalformed \/ RestartSender \/ TakeCommand

Next == Node \/ Environment

Spec == Init /\ [][Next]_vars

(* The executor runs every callback that is ready before it waits again,   *)
(* and the poll ends when the socket is empty or fails; none of these can  *)
(* be put off for ever.  Receives do not fail for ever either.             *)
NodeFairness ==
  /\ WF_vars(PollSocket)
  /\ SF_vars(Receive)
  /\ WF_vars(EndPoll)
  /\ SF_vars(OnJoypadButton)
  /\ SF_vars(OnJoypadThumbstick)

(* Time passes, and the animation keeps streaming: a sender that dies is   *)
(* started again, and not every pose is lost on the way.                   *)
StreamFairness ==
  /\ WF_vars(Tick)
  /\ SF_vars(\E pose \in Poses : SendPose(pose))
  /\ WF_vars(RestartSender)

FairSpec == Spec /\ NodeFairness /\ StreamFairness

-----------------------------------------------------------------------------
(* Properties. *)

TypeOK ==
  /\ now \in Nat
  /\ executor \in {"idle", "polling"}
  /\ socket \in Seq(Payloads)
  /\ policy \in Policies
  /\ streamWasDriving \in BOOLEAN
  /\ lastSequence \in Nat
  /\ seenSequence \in BOOLEAN
  /\ rejected \in 0 .. CounterModulus - 1
  /\ forwarded \in 0 .. CounterModulus - 1
  /\ jointCommand \in Seq(Poses)
  /\ buttons \in Seq(ButtonSamples)
  /\ sticks \in Seq(StickSamples)
  /\ sequence \in Nat
  /\ malformed \in Nat
  /\ burst \in Nat
  /\ commanded \in Poses \cup {NoPose}
  /\ newest \in Poses \cup {NoPose}
  /\ pressedAt \in Nat \cup {Never}
  /\ lost \in Nat
  /\ restarted \in BOOLEAN

(* The strengthening from which the freeze is proved.  A press the node    *)
(* has not yet seen still waits in its queue, and one it has seen is       *)
(* remembered by the policy with a time no earlier than the press; what    *)
(* waits in the socket is one payload, the newest.                         *)
FreezeInv ==
  /\ pressedAt # Never =>
       /\ pressedAt <= now
       /\ \/ buttons # <<>>
          \/ policy.engaged /\ pressedAt <= policy.lastActivity
  /\ socket # <<>> =>
       /\ Tail(socket) = <<>>
       /\ Head(socket).pose = newest

Published == forwarded' # forwarded

(* Once the operator has pressed a button, no pose goes out until          *)
(* ReleaseAfter ticks have passed since the press, except while a press    *)
(* still waits for its callback: the queues, the executor and a full       *)
(* button queue may delay the freeze but never lose it.                    *)
StreamYieldsToPress ==
  [][Published => \/ pressedAt = Never
                  \/ now - pressedAt >= ReleaseAfter
                  \/ buttons # <<>>]_vars

(* A published pose is the newest one that arrived: neither a stalled poll *)
(* nor a long freeze leaves a backlog that is replayed in a burst.         *)
NoReplay == [][Published => commanded' = newest]_vars

(* The log names the right owner: when a pose is passed on or dropped, the *)
(* last handover reported is to the side that won.                         *)
HandoverReported ==
  [][/\ Published => streamWasDriving'
     /\ lastSequence' # lastSequence /\ ~Published => ~streamWasDriving']_vars

(* The gap in the log never claims more poses than were dropped, not even  *)
(* across a restart of the sender or a payload that did not decode, and    *)
(* within one run of the sender it counts exactly the dropped ones.        *)
GapReportSound ==
  [][Receive /\ Head(socket).wellFormed /\ seenSequence =>
       LET payload == Head(socket) IN
       /\ ReportedGap(payload) <= payload.dropped
       /\ ~payload.restart => ReportedGap(payload) = payload.dropped]_vars

(* A button press takes the joints within the poll that is under way: the  *)
(* stream cannot keep the executor from the joypad callbacks for ever.     *)
PressTakesHold == buttons # <<>> ~> OverrideActive(policy, now)

(* An operator who lets go does not leave the robot frozen: poses flow     *)
(* again, whatever noise the sticks make.                                  *)
StreamResumes == <>[]~InputWaiting => []<><<Published>>_vars

(* The joypad owns the robot while the override holds, and the target is   *)
(* the last pose published.                                                *)
Freeze == INSTANCE JoypadFreeze
  WITH owner  <- IF OverrideActive(policy, now) THEN "joypad" ELSE "stream",
       target <- commanded

(* The node implements the freeze: no step that leaves the joypad in       *)
(* charge, takes hold of it or lets go of it moves the target pose.        *)
ImplementsFreeze == Freeze!Spec

=============================================================================

---------------------------- MODULE SystemProofs ----------------------------
(***************************************************************************)
(* Theorems about Bridge, for all poses, timeouts and depths of queues;    *)
(* and about HexapodSystem: how many poses may still begin once the joypad *)
(* has the robot, and that the robot comes to rest in one pose, for any    *)
(* number of joints, poses and restarts of the servo node.                 *)
(***************************************************************************)
EXTENDS HexapodSystem, SequenceTheorems, TLAPS

(* Putting a sample into a KEEP_LAST topic gives a topic that is not empty *)
(* and holds samples only.                                                 *)
LEMMA KeepLastType ==
  ASSUME NEW S, NEW queue \in Seq(S), NEW sample \in S,
         NEW depth \in Nat \ {0}
  PROVE  /\ KeepLast(queue, sample, depth) \in Seq(S)
         /\ KeepLast(queue, sample, depth) # <<>>
<1>1. CASE Len(queue) < depth
  BY <1>1, AppendProperties DEF KeepLast
<1>2. CASE ~(Len(queue) < depth)
  <2>1. queue # <<>>
    BY <1>2, EmptySeq
  <2>2. Tail(queue) \in Seq(S)
    BY <2>1, HeadTailProperties
  <2>3. Append(Tail(queue), sample) \in Seq(S)
    BY <2>2
  <2>4. Append(Tail(queue), sample) # <<>>
    BY <2>2, AppendProperties, SMTT(30)
  <2>5. QED
    BY <1>2, <2>3, <2>4 DEF KeepLast
<1>3. QED
  BY <1>1, <1>2

(* The count of dropped poses is a natural number.                         *)
LEMMA CountType == ASSUME NEW n \in Nat PROVE Count(n) \in Nat
BY BridgeAssumption DEF Count

(* An arrival keeps the types of what it changes, whatever arrives.        *)
LEMMA ArriveType ==
  ASSUME TypeOK, NEW payload \in Payloads, Arrive(payload)
  PROVE  /\ socket' \in Seq(Payloads)
         /\ newest' \in Poses \cup {NoPose}
         /\ burst' \in Nat
         /\ lost' \in Nat
         /\ restarted' \in BOOLEAN
<1>1. DroppedBefore \in Nat
  <2>1. socket # <<>> => Head(socket) \in Payloads
    BY HeadTailProperties DEF TypeOK
  <2>2. ASSUME NEW p \in Payloads
        PROVE  lost + p.dropped + (IF p.wellFormed THEN 1 ELSE 0) \in Nat
    BY DEF TypeOK, Payloads
  <2>3. QED
    BY <2>1, <2>2 DEF DroppedBefore, TypeOK
<1>2. Count(DroppedBefore) \in Nat
  BY <1>1, CountType
<1>3. RestartBefore \in BOOLEAN
  BY DEF TypeOK, RestartBefore, Payloads
<1>4. Stamped(payload) \in Payloads
  BY <1>2, <1>3 DEF Stamped, Payloads
<1>5. socket' \in Seq(Payloads)
  BY <1>4 DEF Arrive, Conflate
<1>6. burst' \in Nat /\ lost' \in Nat
  BY DEF Arrive, TypeOK
<1>7. newest' \in Poses \cup {NoPose}
  BY DEF Arrive, Payloads
<1>8. restarted' \in BOOLEAN
  BY DEF Arrive
<1>9. QED
  BY <1>5, <1>6, <1>7, <1>8

(* Handling a payload keeps the types of what it changes.                  *)
LEMMA HandlePayloadType ==
  ASSUME TypeOK, NEW payload \in Payloads, HandlePayload(payload)
  PROVE  /\ policy' \in Policies
         /\ streamWasDriving' \in BOOLEAN
         /\ lastSequence' \in Nat
         /\ seenSequence' \in BOOLEAN
         /\ rejected' \in 0 .. CounterModulus - 1
         /\ forwarded' \in 0 .. CounterModulus - 1
         /\ jointCommand' \in Seq(Poses)
         /\ commanded' \in Poses \cup {NoPose}
         /\ lost' \in Nat
         /\ restarted' \in BOOLEAN
<1>1. ASSUME NEW n \in Nat PROVE (n + 1) % CounterModulus \in 0 .. CounterModulus - 1
  BY BridgeAssumption
<1>2. CASE payload.wellFormed
  <2>1. HandlePose(payload)
    BY <1>2 DEF HandlePayload
  <2>2. StreamMayDrive(policy, now) \in BOOLEAN
    BY DEF StreamMayDrive, OverrideActive
  <2>3. KeepLast(jointCommand, payload.pose, 1) \in Seq(Poses)
    <3>1. /\ jointCommand \in Seq(Poses)
          /\ payload.pose \in Poses
          /\ 1 \in Nat \ {0}
      BY <1>2 DEF TypeOK, Payloads
    <3>2. QED
      BY <3>1, KeepLastType, Zenon
  <2>4. QED
    BY <1>1, <2>1, <2>2, <2>3
    DEF HandlePose, ReportOwnership, Publish, TypeOK, Payloads, dropVars
<1>3. CASE ~payload.wellFormed
  <2>1. HandleMalformed(payload)
    BY <1>3 DEF HandlePayload
  <2>2. lost + payload.dropped \in Nat
    BY DEF TypeOK, Payloads
  <2>3. Count(lost + payload.dropped) \in Nat
    BY <2>2, CountType
  <2>4. QED
    BY <1>1, <2>1, <2>3 DEF HandleMalformed, TypeOK, Payloads
<1>4. QED
  BY <1>2, <1>3

-----------------------------------------------------------------------------
(* Init establishes the types and every step keeps them.                   *)
LEMMA InitType == Init => TypeOK
<1> SUFFICES ASSUME Init PROVE TypeOK
  OBVIOUS
<1>1. 0 \in 0 .. CounterModulus - 1
  BY BridgeAssumption
<1>2. NewPolicy \in Policies
  BY DEF NewPolicy, Policies
<1>3. \A S : <<>> \in Seq(S)
  BY EmptySeq
<1>4. streamWasDriving \in BOOLEAN /\ seenSequence \in BOOLEAN
  BY DEF Init
<1>5. QED
  BY <1>1, <1>2, <1>3, <1>4 DEF Init, TypeOK, Never

LEMMA NodeType == ASSUME TypeOK, Node PROVE TypeOK'
<1>1. CASE PollSocket
  BY <1>1 DEF PollSocket, TypeOK, nodeVars, joypadVars, senderVars, dropVars
<1>2. CASE Receive
  <2>1. Head(socket) \in Payloads /\ Tail(socket) \in Seq(Payloads)
    BY <1>2, HeadTailProperties DEF Receive, TypeOK
  <2>2. HandlePayload(Head(socket))
    BY <1>2 DEF Receive
  <2>3. QED
    BY <1>2, <2>1, <2>2, HandlePayloadType
    DEF Receive, TypeOK, joypadVars, senderVars
<1>3. CASE EndPoll
  BY <1>3 DEF EndPoll, TypeOK, nodeVars, joypadVars, senderVars, dropVars,
              socketVars
<1>4. CASE ReceiveFails
  BY <1>4 DEF ReceiveFails, TypeOK, nodeVars, joypadVars, senderVars, dropVars,
              socketVars
<1>5. ASSUME NEW time \in Nat PROVE NoteJoypadActivity(policy, time) \in Policies
  BY DEF NoteJoypadActivity, TypeOK, Policies
<1>6. CASE OnJoypadButton
  <2>1. Tail(buttons) \in Seq(ButtonSamples)
    BY <1>6, HeadTailProperties DEF OnJoypadButton, TypeOK
  <2>2. policy' \in Policies
    BY <1>5, <1>6 DEF OnJoypadButton, TypeOK
  <2>3. QED
    BY <1>6, <2>1, <2>2
    DEF OnJoypadButton, TypeOK, senderVars, dropVars, socketVars
<1>7. CASE OnJoypadThumbstick
  <2>1. Tail(sticks) \in Seq(StickSamples)
    BY <1>7, HeadTailProperties DEF OnJoypadThumbstick, TypeOK
  <2>2. policy' \in Policies
    BY <1>5, <1>7 DEF OnJoypadThumbstick, TypeOK
  <2>3. QED
    BY <1>7, <2>1, <2>2
    DEF OnJoypadThumbstick, TypeOK, senderVars, dropVars, socketVars
<1>8. QED
  BY <1>1, <1>2, <1>3, <1>4, <1>6, <1>7 DEF Node

LEMMA EnvironmentType == ASSUME TypeOK, Environment PROVE TypeOK'
<1>1. CASE Tick
  BY <1>1 DEF Tick, TypeOK, nodeVars, joypadVars, senderVars, dropVars,
              socketVars
<1>2. CASE PressButton
  <2>1. PICK value \in ButtonSamples :
          buttons' = KeepLast(buttons, value, JoypadDepth)
    BY <1>2 DEF PressButton
  <2>2. buttons' \in Seq(ButtonSamples)
    BY <2>1, KeepLastType, BridgeAssumption DEF TypeOK
  <2>3. QED
    BY <1>2, <2>2
    DEF PressButton, TypeOK, nodeVars, senderVars, dropVars, socketVars
<1>3. ASSUME NEW sample \in StickSamples, MoveStick(sample) PROVE TypeOK'
  <2>1. sticks' \in Seq(StickSamples)
    BY <1>3, KeepLastType, BridgeAssumption DEF MoveStick, TypeOK
  <2>2. QED
    BY <1>3, <2>1
    DEF MoveStick, TypeOK, nodeVars, senderVars, dropVars, socketVars
<1>4. ASSUME NEW pose \in Poses, SendPose(pose) PROVE TypeOK'
  <2> DEFINE payload == [wellFormed |-> TRUE, seq |-> sequence, pose |-> pose,
                         dropped |-> 0, restart |-> FALSE]
  <2>1. payload \in Payloads
    BY DEF Payloads, TypeOK
  <2>2. Arrive(payload)
    BY <1>4 DEF SendPose
  <2>3. QED
    BY <1>4, <2>1, <2>2, ArriveType
    DEF SendPose, TypeOK, nodeVars, joypadVars
<1>5. CASE LosePose
  <2>1. lost + 1 \in Nat
    BY DEF TypeOK
  <2>2. Count(lost + 1) \in Nat
    BY <2>1, CountType
  <2>3. QED
    BY <1>5, <2>2 DEF LosePose, TypeOK, nodeVars, joypadVars, socketVars
<1>6. CASE SendMalformed
  <2>1. Malformed \in Payloads
    BY DEF Malformed, Payloads
  <2>2. Arrive(Malformed)
    BY <1>6 DEF SendMalformed
  <2>3. QED
    BY <1>6, <2>1, <2>2, ArriveType
    DEF SendMalformed, TypeOK, nodeVars, joypadVars
<1>7. CASE RestartSender
  BY <1>7 DEF RestartSender, TypeOK, nodeVars, joypadVars, socketVars
<1>8. CASE TakeCommand
  BY <1>8
  DEF TakeCommand, TypeOK, joypadVars, senderVars, dropVars, socketVars
<1>9. QED
  BY <1>1, <1>2, <1>3, <1>4, <1>5, <1>6, <1>7, <1>8 DEF Environment

(* The types of the bridge's state hold in every reachable state.          *)
THEOREM TypeCorrect == Spec => []TypeOK
<1>1. TypeOK /\ [Next]_vars => TypeOK'
  <2> SUFFICES ASSUME TypeOK, [Next]_vars PROVE TypeOK'
    OBVIOUS
  <2>1. CASE UNCHANGED vars
    BY <2>1 DEF vars, TypeOK, nodeVars, joypadVars, senderVars, dropVars,
                socketVars
  <2>2. QED
    BY <2>1, NodeType, EnvironmentType DEF Next
<1>2. QED
  BY <1>1, InitType, PTL DEF Spec

-----------------------------------------------------------------------------
(* The press part of the invariant: a press is either waiting or noted.    *)
PressInv ==
  pressedAt # Never =>
    /\ pressedAt <= now
    /\ \/ buttons # <<>>
       \/ policy.engaged /\ pressedAt <= policy.lastActivity

(* The socket part: what waits is one payload, the newest.                 *)
SocketInv ==
  socket # <<>> =>
    /\ Tail(socket) = <<>>
    /\ Head(socket).pose = newest

LEMMA FreezeInvParts == FreezeInv <=> PressInv /\ SocketInv
BY DEF FreezeInv, PressInv, SocketInv

(* Only a well-formed payload handled while the stream may drive publishes *)
(* a pose; everything else leaves the topic, the counter and the target.   *)
LEMMA OnlyReceivePublishes ==
  ASSUME TypeOK, [Next]_vars
  PROVE  \/ /\ Receive
            /\ HandlePose(Head(socket))
            /\ Head(socket).wellFormed
            /\ StreamMayDrive(policy, now)
            /\ Publish(Head(socket).pose)
         \/ UNCHANGED <<forwarded, commanded>>
<1>1. CASE Receive
  BY <1>1 DEF Receive, HandlePayload, HandlePose, HandleMalformed
<1>2. CASE UNCHANGED vars
  BY <1>2 DEF vars, nodeVars
<1>3. CASE Environment
  BY <1>3 DEF Environment, Tick, PressButton, MoveStick, SendPose, LosePose,
    SendMalformed, RestartSender, TakeCommand, nodeVars
<1>4. CASE PollSocket \/ EndPoll \/ ReceiveFails \/ OnJoypadButton
           \/ OnJoypadThumbstick
  BY <1>4 DEF PollSocket, EndPoll, ReceiveFails, OnJoypadButton,
    OnJoypadThumbstick, nodeVars
<1>5. QED
  BY <1>1, <1>2, <1>3, <1>4 DEF Next, Node

LEMMA PressStep == ASSUME TypeOK, PressInv, [Next]_vars PROVE PressInv'
<1>1. CASE PressButton
  <2>1. PICK value \in ButtonSamples :
          buttons' = KeepLast(buttons, value, JoypadDepth)
    BY <1>1 DEF PressButton
  <2>2. buttons' # <<>>
    BY <2>1, KeepLastType, BridgeAssumption DEF TypeOK
  <2>3. QED
    BY <1>1, <2>2 DEF PressButton, PressInv, TypeOK
<1>2. CASE OnJoypadButton
  <2>1. Head(buttons) = 1
    BY <1>2, HeadTailProperties DEF OnJoypadButton, TypeOK, ButtonSamples
  <2>2. policy' = NoteJoypadActivity(policy, now)
    BY <1>2, <2>1 DEF OnJoypadButton
  <2>3. policy'.engaged /\ policy'.lastActivity = now
    BY <2>2 DEF NoteJoypadActivity, TypeOK, Policies
  <2>4. QED
    BY <1>2, <2>3 DEF OnJoypadButton, PressInv, TypeOK
<1>3. CASE OnJoypadThumbstick
  <2>1. CASE Deliberate(Head(sticks))
    <3>1. policy'.engaged /\ policy'.lastActivity = now
      BY <1>3, <2>1
      DEF OnJoypadThumbstick, NoteJoypadActivity, TypeOK, Policies
    <3>2. QED
      BY <1>3, <3>1 DEF OnJoypadThumbstick, PressInv, TypeOK
  <2>2. CASE ~Deliberate(Head(sticks))
    BY <1>3, <2>2 DEF OnJoypadThumbstick, PressInv
  <2>3. QED
    BY <2>1, <2>2
<1>4. CASE Tick
  BY <1>4 DEF Tick, PressInv, TypeOK, Never, Policies, nodeVars, joypadVars
<1>5. CASE Receive
  BY <1>5 DEF Receive, HandlePayload, HandlePose, HandleMalformed, PressInv,
    joypadVars
<1>6. CASE PollSocket \/ EndPoll \/ ReceiveFails
  BY <1>6 DEF PollSocket, EndPoll, ReceiveFails, PressInv, nodeVars, joypadVars
<1>7. CASE Environment /\ ~Tick /\ ~PressButton
  BY <1>7 DEF Environment, MoveStick, SendPose, LosePose, SendMalformed,
    RestartSender, TakeCommand, PressInv, nodeVars, joypadVars
<1>8. CASE UNCHANGED vars
  BY <1>8 DEF vars, PressInv, nodeVars, joypadVars
<1>9. QED
  BY <1>1, <1>2, <1>3, <1>4, <1>5, <1>6, <1>7, <1>8 DEF Next, Node, Environment

LEMMA ArriveSocket ==
  ASSUME TypeOK, NEW payload \in Payloads, Arrive(payload)
  PROVE  SocketInv'
<1>1. socket' = <<Stamped(payload)>> /\ newest' = payload.pose
  BY DEF Arrive, Conflate
<1>2. Stamped(payload).pose = payload.pose
  BY DEF Stamped, Payloads
<1>3. Head(socket') = Stamped(payload) /\ Tail(socket') = <<>>
  BY <1>1
<1>4. QED
  BY <1>1, <1>2, <1>3 DEF SocketInv

LEMMA SocketStep == ASSUME TypeOK, SocketInv, [Next]_vars PROVE SocketInv'
<1>1. CASE Receive
  BY <1>1 DEF Receive, SocketInv
<1>2. ASSUME NEW pose \in Poses, SendPose(pose) PROVE SocketInv'
  <2> DEFINE payload == [wellFormed |-> TRUE, seq |-> sequence, pose |-> pose,
                         dropped |-> 0, restart |-> FALSE]
  <2>1. payload \in Payloads
    BY DEF Payloads, TypeOK
  <2>2. Arrive(payload)
    BY <1>2 DEF SendPose
  <2>3. QED
    BY <2>1, <2>2, ArriveSocket
<1>3. CASE SendMalformed
  <2>1. Malformed \in Payloads
    BY DEF Malformed, Payloads
  <2>2. Arrive(Malformed)
    BY <1>3 DEF SendMalformed
  <2>3. QED
    BY <2>1, <2>2, ArriveSocket
<1>4. CASE UNCHANGED <<socket, newest>>
  BY <1>4 DEF SocketInv
<1>5. CASE Node /\ ~Receive
  BY <1>4, <1>5 DEF Node, PollSocket, EndPoll, ReceiveFails, OnJoypadButton,
    OnJoypadThumbstick, socketVars
<1>6. CASE Tick \/ PressButton \/ (\E sample \in StickSamples : MoveStick(sample))
           \/ LosePose \/ RestartSender \/ TakeCommand
  BY <1>4, <1>6 DEF Tick, PressButton, MoveStick, LosePose, RestartSender,
    TakeCommand, socketVars
<1>7. CASE UNCHANGED vars
  BY <1>4, <1>7 DEF vars, socketVars
<1>8. QED
  BY <1>1, <1>2, <1>3, <1>5, <1>6, <1>7 DEF Next, Environment

(* In every reachable state a press is waiting or noted, and the socket    *)
(* holds at most the newest payload.                                       *)
THEOREM FreezeInvariant == Spec => []FreezeInv
<1>1. Init => FreezeInv
  BY DEF Init, FreezeInv
<1>2. TypeOK /\ FreezeInv /\ [Next]_vars => FreezeInv'
  <2> SUFFICES ASSUME TypeOK, FreezeInv, [Next]_vars PROVE FreezeInv'
    OBVIOUS
  <2>1. PressInv' /\ SocketInv'
    BY PressStep, SocketStep, FreezeInvParts
  <2>2. QED
    BY <2>1 DEF FreezeInv, PressInv, SocketInv
<1>3. QED
  BY <1>1, <1>2, TypeCorrect, PTL DEF Spec

(* No pose is published within ReleaseAfter ticks of a press the node has  *)
(* seen: the freeze survives every interleaving of presses, polls, stick   *)
(* noise and the clock.                                                    *)
THEOREM PressFreezes == Spec => StreamYieldsToPress
<1>1. TypeOK /\ FreezeInv /\ [Next]_vars =>
        [Published => \/ pressedAt = Never
                      \/ now - pressedAt >= ReleaseAfter
                      \/ buttons # <<>>]_vars
  <2> SUFFICES ASSUME TypeOK, FreezeInv, [Next]_vars, Published,
                      pressedAt # Never, buttons = <<>>
               PROVE  now - pressedAt >= ReleaseAfter
    OBVIOUS
  <2>1. StreamMayDrive(policy, now)
    BY OnlyReceivePublishes DEF Published
  <2>2. policy.engaged /\ pressedAt <= policy.lastActivity
    BY DEF FreezeInv
  <2>3. QED
    BY <2>1, <2>2, ReleaseAfterAssumption
    DEF StreamMayDrive, OverrideActive, TypeOK, Policies, Never
<1>2. QED
  BY <1>1, TypeCorrect, FreezeInvariant, PTL DEF Spec, StreamYieldsToPress

(* A published pose is the newest that arrived.                            *)
THEOREM NothingReplayed == Spec => NoReplay
<1>1. TypeOK /\ FreezeInv /\ [Next]_vars =>
        [Published => commanded' = newest]_vars
  <2> SUFFICES ASSUME TypeOK, FreezeInv, [Next]_vars, Published
               PROVE  commanded' = newest
    OBVIOUS
  <2>1. Receive /\ Publish(Head(socket).pose)
    BY OnlyReceivePublishes DEF Published
  <2>2. QED
    BY <2>1 DEF Publish, Receive, FreezeInv
<1>2. QED
  BY <1>1, TypeCorrect, FreezeInvariant, PTL DEF Spec, NoReplay

(* The handover last reported is to the side that won.                     *)
THEOREM HandoversReported == Spec => HandoverReported
<1>1. TypeOK /\ [Next]_vars =>
        [/\ Published => streamWasDriving'
         /\ lastSequence' # lastSequence /\ ~Published =>
              ~streamWasDriving']_vars
  <2> SUFFICES ASSUME TypeOK, [Next]_vars
               PROVE  /\ Published => streamWasDriving'
                      /\ lastSequence' # lastSequence /\ ~Published =>
                           ~streamWasDriving'
    OBVIOUS
  <2>1. ASSUME Published PROVE streamWasDriving'
    BY <2>1, OnlyReceivePublishes DEF Published, HandlePose, ReportOwnership
  <2>2. ASSUME lastSequence' # lastSequence, ~Published
        PROVE  ~streamWasDriving'
    <3>1. Receive
      BY <2>2 DEF Next, Node, PollSocket, EndPoll, ReceiveFails,
        OnJoypadButton, OnJoypadThumbstick, Environment, Tick, PressButton,
        MoveStick, SendPose, LosePose, SendMalformed, RestartSender,
        TakeCommand, vars, nodeVars
    <3>2. HandlePose(Head(socket))
      BY <2>2, <3>1 DEF Receive, HandlePayload, HandleMalformed
    <3>3. ASSUME NEW n \in 0 .. CounterModulus - 1
          PROVE  (n + 1) % CounterModulus # n
      BY BridgeAssumption
    <3>4. ~StreamMayDrive(policy, now)
      BY <2>2, <3>2, <3>3 DEF HandlePose, Publish, Published, TypeOK
    <3>5. QED
      BY <3>2, <3>4 DEF HandlePose, ReportOwnership
  <2>3. QED
    BY <2>1, <2>2
<1>2. QED
  BY <1>1, TypeCorrect, PTL DEF Spec, HandoverReported

-----------------------------------------------------------------------------
(* The gap report *)

(* Between the pose numbered `last` and the sender's number `next` so many *)
(* poses were dropped; or the sender has started again in between, and     *)
(* everything it has sent since then was.                                  *)
Accounted(last, dropped, restart, next) ==
  IF restart THEN dropped >= next ELSE next = last + 1 + dropped

AccountFrom(last) == seenSequence => Accounted(last, lost, restarted, sequence)

(* A pose that waits splits the account in two, any other payload does not.*)
AccountAround(head) ==
  IF head.wellFormed
  THEN /\ Accounted(head.seq, lost, restarted, sequence)
       /\ seenSequence =>
            Accounted(lastSequence, head.dropped, head.restart, head.seq)
  ELSE seenSequence =>
         Accounted(lastSequence, head.dropped + lost,
                   head.restart \/ restarted, sequence)

GapInv ==
  /\ sequence <= MaxSeq + 1
  /\ socket = <<>> => AccountFrom(lastSequence)
  /\ socket # <<>> => AccountAround(Head(socket))

LEMMA GapTypes ==
  ASSUME TypeOK
  PROVE  /\ sequence \in Nat /\ lost \in Nat /\ lastSequence \in Nat
         /\ restarted \in BOOLEAN /\ seenSequence \in BOOLEAN
         /\ MaxSeq \in Nat
         /\ socket # <<>> => /\ Head(socket).seq \in Nat
                             /\ Head(socket).dropped \in Nat
                             /\ Head(socket).restart \in BOOLEAN
                             /\ Head(socket).wellFormed \in BOOLEAN
<1>1. socket # <<>> => Head(socket) \in Payloads
  BY HeadTailProperties DEF TypeOK
<1> QED
  BY <1>1, BridgeAssumption DEF TypeOK, Payloads

(* What a count does to an account: it stops at one no gap exceeds, and    *)
(* one more pose dropped is one more number used.                          *)
LEMMA AccountSaturates ==
  ASSUME NEW last \in Nat, NEW dropped \in Nat, NEW restart \in BOOLEAN,
         NEW next \in Nat, next <= MaxSeq + 1,
         Accounted(last, dropped, restart, next)
  PROVE  Accounted(last, Count(dropped), restart, next)
<1> USE BridgeAssumption
<1>1. CASE restart
  BY <1>1 DEF Accounted, Count
<1>2. CASE ~restart
  BY <1>2 DEF Accounted, Count
<1> QED
  BY <1>1, <1>2

LEMMA AccountDrops ==
  ASSUME NEW last \in Nat, NEW dropped \in Nat, NEW restart \in BOOLEAN,
         NEW next \in Nat, next <= MaxSeq,
         Accounted(last, dropped, restart, next)
  PROVE  Accounted(last, Count(dropped + 1), restart, next + 1)
<1>1. Accounted(last, dropped + 1, restart, next + 1)
  BY DEF Accounted
<1> QED
  BY <1>1, AccountSaturates, BridgeAssumption

(* Whatever arrives now carries the whole account since the last pose.     *)
LEMMA StampAccounts ==
  ASSUME TypeOK, GapInv, seenSequence
  PROVE  Accounted(lastSequence, Count(DroppedBefore), RestartBefore, sequence)
<1>1. /\ DroppedBefore \in Nat /\ RestartBefore \in BOOLEAN
      /\ lastSequence \in Nat /\ sequence \in Nat
      /\ sequence <= MaxSeq + 1
  BY GapTypes DEF DroppedBefore, RestartBefore, GapInv
<1>2. Accounted(lastSequence, DroppedBefore, RestartBefore, sequence)
  <2>1. CASE socket = <<>>
    <3>1. DroppedBefore = lost /\ RestartBefore = restarted
      BY <2>1, GapTypes DEF DroppedBefore, RestartBefore
    <3> QED
      BY <2>1, <3>1 DEF GapInv, AccountFrom
  <2>2. CASE socket # <<>> /\ Head(socket).wellFormed
    <3>1. /\ DroppedBefore = lost + Head(socket).dropped + 1
          /\ RestartBefore = (restarted \/ Head(socket).restart)
      BY <2>2, GapTypes DEF DroppedBefore, RestartBefore
    <3>2. /\ Accounted(Head(socket).seq, lost, restarted, sequence)
          /\ Accounted(lastSequence, Head(socket).dropped, Head(socket).restart,
                       Head(socket).seq)
      BY <2>2 DEF GapInv, AccountAround
    <3>3. /\ lastSequence \in Nat /\ Head(socket).seq \in Nat
          /\ sequence \in Nat /\ Head(socket).dropped \in Nat /\ lost \in Nat
          /\ Head(socket).restart \in BOOLEAN /\ restarted \in BOOLEAN
      BY <2>2, GapTypes
    <3>4. Accounted(lastSequence, lost + Head(socket).dropped + 1,
                    restarted \/ Head(socket).restart, sequence)
      (* Two accounts in a row, with a pose between them, are one. *)
      <4>1. CASE restarted
        BY <3>2, <3>3, <4>1 DEF Accounted
      <4>2. CASE ~restarted /\ Head(socket).restart
        BY <3>2, <3>3, <4>2 DEF Accounted
      <4>3. CASE ~restarted /\ ~Head(socket).restart
        BY <3>2, <3>3, <4>3 DEF Accounted
      <4> QED
        BY <4>1, <4>2, <4>3
    <3> QED
      BY <3>1, <3>4
  <2>3. CASE socket # <<>> /\ ~Head(socket).wellFormed
    <3>1. /\ DroppedBefore = Head(socket).dropped + lost
          /\ RestartBefore = (Head(socket).restart \/ restarted)
      BY <2>3, GapTypes DEF DroppedBefore, RestartBefore
    <3> QED
      BY <2>3, <3>1 DEF GapInv, AccountAround
  <2> QED
    BY <2>1, <2>2, <2>3
<1> HIDE DEF DroppedBefore, RestartBefore
<1> QED
  BY <1>1, <1>2, AccountSaturates

LEMMA ArriveKeepsGap ==
  ASSUME TypeOK, GapInv, NEW payload \in Payloads, Arrive(payload),
         UNCHANGED <<seenSequence, lastSequence>>,
         \/ /\ payload.wellFormed
            /\ payload.seq = sequence
            /\ sequence <= MaxSeq
            /\ sequence' = sequence + 1
         \/ ~payload.wellFormed /\ sequence' = sequence
  PROVE  GapInv'
<1>1. /\ Stamped(payload).wellFormed = payload.wellFormed
      /\ Stamped(payload).seq = payload.seq
      /\ Stamped(payload).dropped = Count(DroppedBefore)
      /\ Stamped(payload).restart = RestartBefore
  BY DEF Stamped, Payloads
<1>2. socket' # <<>> /\ Head(socket') = Stamped(payload)
  BY DEF Arrive, Conflate
<1>3. lost' = 0 /\ restarted' = FALSE
  BY DEF Arrive
<1>4. Stamped(payload) \in Payloads
  BY <1>2, ArriveType, HeadTailProperties
<1>5. PICK head \in Payloads : head = Stamped(payload)
  BY <1>4
<1>6. /\ head.wellFormed = payload.wellFormed
      /\ head.seq = payload.seq
      /\ head.dropped = Count(DroppedBefore)
      /\ head.restart = RestartBefore
      /\ head.dropped \in Nat /\ head.restart \in BOOLEAN
  BY <1>1, <1>5 DEF Payloads
<1>7. seenSequence => Accounted(lastSequence, head.dropped, head.restart, sequence)
  BY <1>6, StampAccounts, Zenon
<1>8. AccountAround(head)'
  <2>1. CASE payload.wellFormed
    <3>1. /\ sequence' = sequence + 1 /\ head.seq = sequence /\ head.wellFormed
      BY <1>6, <2>1
    <3>2. Accounted(head.seq, lost', restarted', sequence')
      BY <1>3, <3>1, GapTypes DEF Accounted
    <3>3. seenSequence' => Accounted(lastSequence', head.dropped, head.restart, head.seq)
      BY <1>7, <3>1
    <3> QED
      BY <3>1, <3>2, <3>3 DEF AccountAround
  <2>2. CASE ~payload.wellFormed
    <3>1. sequence' = sequence /\ ~head.wellFormed
      BY <1>6, <2>2
    <3>2. head.dropped + lost' = head.dropped
      BY <1>3, <1>6
    <3>3. (head.restart \/ restarted') = head.restart
      BY <1>3, <1>6
    <3>4. seenSequence' =>
            Accounted(lastSequence', head.dropped + lost',
                      head.restart \/ restarted', sequence')
      BY <1>7, <3>1, <3>2, <3>3
    <3> QED
      BY <3>1, <3>4 DEF AccountAround
  <2> QED
    BY <2>1, <2>2
<1>9. sequence' <= MaxSeq + 1
  BY GapTypes DEF GapInv
<1>10. AccountAround(Head(socket))'
  BY <1>2, <1>5, <1>8 DEF AccountAround
<1> QED
  BY <1>2, <1>9, <1>10 DEF GapInv

LEMMA GapStep == ASSUME TypeOK, SocketInv, GapInv, [Next]_vars PROVE GapInv'
<1> USE GapTypes
<1>1. CASE Receive
  <2>1. socket # <<>> /\ socket' = <<>> /\ sequence' = sequence
    BY <1>1 DEF Receive, SocketInv, senderVars
  <2>2. CASE Head(socket).wellFormed
    BY <1>1, <2>1, <2>2
    DEF Receive, HandlePayload, HandlePose, dropVars, GapInv, AccountAround,
        AccountFrom
  <2>3. CASE ~Head(socket).wellFormed
    BY <1>1, <2>1, <2>3, SMTT(30)
    DEF Receive, HandlePayload, HandleMalformed, GapInv, AccountAround,
        AccountFrom, Accounted, Count
  <2> QED
    BY <2>2, <2>3
<1>2. ASSUME NEW pose \in Poses, SendPose(pose) PROVE GapInv'
  <2> DEFINE payload == [wellFormed |-> TRUE, seq |-> sequence, pose |-> pose,
                         dropped |-> 0, restart |-> FALSE]
  <2>1. payload \in Payloads
    BY DEF Payloads, TypeOK
  <2>2. Arrive(payload) /\ UNCHANGED <<seenSequence, lastSequence>>
    BY <1>2 DEF SendPose, nodeVars
  <2>3. /\ payload.wellFormed /\ payload.seq = sequence
        /\ sequence <= MaxSeq /\ sequence' = sequence + 1
    BY <1>2 DEF SendPose
  <2> QED
    BY <2>1, <2>2, <2>3, ArriveKeepsGap
<1>3. CASE SendMalformed
  <2>1. Malformed \in Payloads /\ ~Malformed.wellFormed
    BY DEF Malformed, Payloads
  <2>2. /\ Arrive(Malformed) /\ UNCHANGED <<seenSequence, lastSequence>>
        /\ sequence' = sequence
    BY <1>3 DEF SendMalformed, nodeVars
  <2> QED
    BY <2>1, <2>2, ArriveKeepsGap
<1>4. CASE LosePose
  <2>1. /\ sequence <= MaxSeq /\ sequence' = sequence + 1
        /\ lost' = Count(lost + 1)
        /\ UNCHANGED <<restarted, socket, seenSequence, lastSequence>>
    BY <1>4 DEF LosePose, nodeVars, socketVars
  <2>2. ASSUME socket = <<>> PROVE AccountFrom(lastSequence)'
    BY <2>1, <2>2 DEF GapInv, AccountFrom, Accounted, Count
  <2>3. ASSUME socket # <<>> PROVE AccountAround(Head(socket))'
    <3>1. /\ lost' = Count(lost + 1) /\ sequence' = sequence + 1
          /\ Head(socket)' = Head(socket) /\ restarted' = restarted
          /\ seenSequence' = seenSequence /\ lastSequence' = lastSequence
          /\ sequence <= MaxSeq
      BY <2>1
    <3>2. AccountAround(Head(socket))
      BY <2>3 DEF GapInv
    <3>3. CASE Head(socket).wellFormed
      <4>1. Accounted(Head(socket).seq, Count(lost + 1), restarted, sequence + 1)
        BY <2>3, <3>1, <3>2, <3>3, AccountDrops DEF AccountAround
      <4> QED
        BY <3>1, <3>2, <3>3, <4>1 DEF AccountAround
    <3>4. CASE ~Head(socket).wellFormed
      <4>1. ASSUME seenSequence
            PROVE  Accounted(lastSequence, Head(socket).dropped + Count(lost + 1),
                             Head(socket).restart \/ restarted, sequence + 1)
        <5>1. Accounted(lastSequence, Head(socket).dropped + lost,
                        Head(socket).restart \/ restarted, sequence)
          BY <3>2, <3>4, <4>1 DEF AccountAround
        <5>2. CASE Head(socket).restart \/ restarted
          BY <2>3, <3>1, <5>1, <5>2 DEF Accounted, Count
        <5>3. CASE ~(Head(socket).restart \/ restarted)
          BY <2>3, <3>1, <5>1, <5>3, SMTT(30) DEF Accounted, Count
        <5> QED
          BY <5>2, <5>3
      <4> QED
        BY <3>1, <3>4, <4>1 DEF AccountAround
    <3> QED
      BY <3>3, <3>4
  <2> QED
    BY <2>1, <2>2, <2>3 DEF GapInv
<1>5. CASE RestartSender
  <2>1. /\ sequence' = 0 /\ restarted' = TRUE
        /\ UNCHANGED <<lost, socket, seenSequence, lastSequence>>
    BY <1>5 DEF RestartSender, nodeVars, socketVars
  <2>2. ASSUME socket = <<>> PROVE AccountFrom(lastSequence)'
    BY <2>1 DEF AccountFrom, Accounted
  <2>3. ASSUME socket # <<>> PROVE AccountAround(Head(socket))'
    BY <2>1, <2>3 DEF GapInv, AccountAround, Accounted
  <2> QED
    BY <2>1, <2>2, <2>3 DEF GapInv
<1>6. CASE UNCHANGED <<socket, sequence, lost, restarted, seenSequence, lastSequence>>
  BY <1>6 DEF GapInv, AccountFrom, AccountAround
<1>7. CASE Node /\ ~Receive
  BY <1>6, <1>7 DEF Node, PollSocket, EndPoll, ReceiveFails, OnJoypadButton,
    OnJoypadThumbstick, nodeVars, senderVars, dropVars, socketVars
<1>8. CASE Tick \/ PressButton \/ (\E sample \in StickSamples : MoveStick(sample))
           \/ TakeCommand
  BY <1>6, <1>8 DEF Tick, PressButton, MoveStick, TakeCommand, nodeVars,
    senderVars, dropVars, socketVars
<1>9. CASE UNCHANGED vars
  BY <1>6, <1>9 DEF vars, nodeVars, senderVars, dropVars, socketVars
<1> QED
  BY <1>1, <1>2, <1>3, <1>4, <1>5, <1>7, <1>8, <1>9 DEF Next, Environment

(* The gap in the log never claims more poses than were dropped, and       *)
(* within one run of the sender exactly those (bridge_node.cc:179-184).    *)
THEOREM GapReportsSound == Spec => GapReportSound
<1>1. Init => GapInv
  BY BridgeAssumption DEF Init, GapInv, AccountFrom
<1>2. TypeOK /\ SocketInv /\ GapInv /\ [Next]_vars => GapInv'
  BY GapStep
<1>3. FreezeInv => SocketInv
  BY DEF FreezeInv, SocketInv
<1>4. TypeOK /\ GapInv =>
        [Receive /\ Head(socket).wellFormed /\ seenSequence =>
           LET payload == Head(socket) IN
           /\ ReportedGap(payload) <= payload.dropped
           /\ ~payload.restart => ReportedGap(payload) = payload.dropped]_vars
  <2> SUFFICES ASSUME TypeOK, GapInv, Receive, Head(socket).wellFormed, seenSequence
               PROVE  /\ ReportedGap(Head(socket)) <= Head(socket).dropped
                      /\ ~Head(socket).restart =>
                           ReportedGap(Head(socket)) = Head(socket).dropped
    OBVIOUS
  <2>1. Accounted(lastSequence, Head(socket).dropped, Head(socket).restart,
                  Head(socket).seq)
    BY DEF Receive, GapInv, AccountAround
  <2>2. /\ lastSequence \in Nat /\ Head(socket).seq \in Nat
        /\ Head(socket).dropped \in Nat
    BY GapTypes DEF Receive
  <2>3. CASE Head(socket).restart
    BY <2>1, <2>2, <2>3 DEF Accounted, ReportedGap
  <2>4. CASE ~Head(socket).restart
    BY <2>1, <2>2, <2>4 DEF Accounted, ReportedGap
  <2> QED
    BY <2>3, <2>4
<1> QED
  BY <1>1, <1>2, <1>3, <1>4, TypeCorrect, FreezeInvariant, PTL DEF Spec, GapReportSound

-----------------------------------------------------------------------------
(* The bridge implements JoypadFreeze.                                     *)

(* Every step of the bridge is a step of the freeze or leaves its state.   *)
THEOREM BridgeImplementsFreeze == Spec => ImplementsFreeze
<1>1. Init => Freeze!Init
  BY DEF Init, Freeze!Init, OverrideActive, NewPolicy
<1>2. TypeOK /\ FreezeInv /\ [Next]_vars => [Freeze!Next]_Freeze!freezeVars
  <2> SUFFICES ASSUME TypeOK, FreezeInv, [Next]_vars
               PROVE  [Freeze!Next]_Freeze!freezeVars
    OBVIOUS
  <2>1. CASE UNCHANGED commanded
    BY <2>1 DEF Freeze!Next, Freeze!Seize, Freeze!Lapse, Freeze!freezeVars
  <2>2. CASE commanded' # commanded
    <3>1. /\ Receive
          /\ HandlePose(Head(socket))
          /\ Head(socket).wellFormed
          /\ StreamMayDrive(policy, now)
          /\ Publish(Head(socket).pose)
      BY <2>2, OnlyReceivePublishes
    <3>2. commanded' \in Poses
      <4>1. Head(socket) \in Payloads
        BY <3>1, HeadTailProperties DEF Receive, TypeOK
      <4>2. QED
        BY <3>1, <4>1 DEF Publish, Payloads
    <3>3. UNCHANGED <<policy, now>>
      BY <3>1 DEF Receive, HandlePose
    <3>4. QED
      BY <3>1, <3>2, <3>3
      DEF Freeze!Next, Freeze!Drive, Freeze!freezeVars, StreamMayDrive
  <2>3. QED
    BY <2>1, <2>2
<1>3. QED
  BY <1>1, <1>2, TypeCorrect, FreezeInvariant, PTL
  DEF Spec, ImplementsFreeze, Freeze!Spec

-----------------------------------------------------------------------------
(* The bridge and the servo node together *)

(* Every step of the system is a step of the bridge or leaves it alone:    *)
(* what is proved of the bridge on its own holds of it in the system.      *)
LEMMA SystemStepIsBridgeStep ==
  ASSUME [SystemNext]_systemVars PROVE [Next]_vars
<1>1. CASE BridgeStep
  BY <1>1 DEF BridgeStep, Next, Environment, StickSamples
<1>2. CASE Deliver \/ MissCommand
  BY <1>2 DEF Deliver, MissCommand, Next, Environment
<1>3. CASE BeginPose \/ WriteJoint \/ HomeJoint \/ ListenAgain
  BY <1>3 DEF BeginPose, WriteJoint, HomeJoint, ListenAgain
<1>4. CASE HaltServo
  <2>1. CASE jointCommand = <<>>
    BY <1>4, <2>1 DEF HaltServo, vars, nodeVars
  <2>2. CASE jointCommand # <<>>
    BY <1>4, <2>2 DEF HaltServo, Next, Environment, TakeCommand
  <2> QED
    BY <2>1, <2>2
<1>5. CASE UNCHANGED systemVars
  BY <1>5 DEF systemVars
<1> QED
  BY <1>1, <1>2, <1>3, <1>4, <1>5 DEF SystemNext, ServoStep

THEOREM SystemContainsBridge == SystemSpec => Spec
<1>1. SystemInit => Init
  BY DEF SystemInit
<1>2. [SystemNext]_systemVars => [Next]_vars
  BY SystemStepIsBridgeStep
<1> QED
  BY <1>1, <1>2, PTL DEF SystemSpec, Spec

-----------------------------------------------------------------------------
(* The lag of the freeze *)

Slot(queue) == IF queue = <<>> THEN 0 ELSE 1

(* A pose that may still begin waits in the servo node or in the topic,    *)
(* which hold one each; nothing fills the topic while the joypad holds.    *)
LagInv ==
  /\ begun \in Nat
  /\ Frozen => begun + Slot(waiting) + Slot(jointCommand) <= 2

(* A step of the bridge that leaves the joypad in charge publishes nothing.*)
LEMMA FrozenBridgeIsSilent ==
  ASSUME BridgeStep, Frozen PROVE jointCommand' = jointCommand
<1>1. CASE Receive
  BY <1>1 DEF Receive, HandlePayload, HandlePose, HandleMalformed, StreamMayDrive,
    Frozen
<1>2. CASE PollSocket \/ EndPoll \/ ReceiveFails \/ OnJoypadButton
           \/ OnJoypadThumbstick
  BY <1>2 DEF PollSocket, EndPoll, ReceiveFails, OnJoypadButton,
    OnJoypadThumbstick, nodeVars
<1>3. CASE Tick \/ PressButton \/ MoveStick("push") \/ RestartSender
           \/ \E pose \in Poses : SendPose(pose)
  BY <1>3 DEF Tick, PressButton, MoveStick, RestartSender, SendPose, nodeVars
<1> QED
  BY <1>1, <1>2, <1>3 DEF BridgeStep, Node

(* The servo node's steps neither hand over the robot nor take it.         *)
LEMMA ServoStepKeepsOwner == ASSUME ServoStep PROVE Frozen' = Frozen
BY DEF ServoStep, Deliver, BeginPose, WriteJoint, HaltServo, MissCommand,
  HomeJoint, ListenAgain, TakeCommand, vars, nodeVars, Frozen, OverrideActive

LEMMA LagStep == ASSUME LagInv, [SystemNext]_systemVars PROVE LagInv'
<1>1. CASE BridgeStep
  <2>1. waiting' = waiting /\ begun' = IF Frozen' /\ ~Frozen THEN 0 ELSE begun
    BY <1>1 DEF BridgeStep, servoVars
  <2>2. CASE Frozen' /\ ~Frozen
    BY <2>1, <2>2 DEF LagInv, Slot
  <2>3. CASE Frozen' /\ Frozen
    BY <1>1, <2>1, <2>3, FrozenBridgeIsSilent DEF LagInv, Slot
  <2>4. CASE ~Frozen'
    BY <2>1, <2>4 DEF LagInv
  <2> QED
    BY <2>2, <2>3, <2>4
<1>2. CASE ServoStep
  <2>1. Frozen' = Frozen
    BY <1>2, ServoStepKeepsOwner
  <2> HIDE DEF Frozen
  <2>2. CASE Deliver
    BY <2>1, <2>2 DEF Deliver, TakeCommand, LagInv, Slot
  <2>3. CASE BeginPose
    BY <2>1, <2>3 DEF BeginPose, Servo!Begin, vars, nodeVars, LagInv, Slot
  <2>4. CASE HaltServo
    BY <2>1, <2>4 DEF HaltServo, Servo!Halt, LagInv, Slot
  <2>5. CASE MissCommand
    BY <2>1, <2>5 DEF MissCommand, TakeCommand, servoVars, LagInv, Slot
  <2>6. CASE WriteJoint \/ HomeJoint \/ ListenAgain
    BY <2>1, <2>6 DEF WriteJoint, HomeJoint, ListenAgain, Servo!WriteNext,
      Servo!Listen, vars, nodeVars, LagInv, Slot
  <2> QED
    BY <1>2, <2>2, <2>3, <2>4, <2>5, <2>6 DEF ServoStep
<1>3. CASE UNCHANGED systemVars
  BY <1>3 DEF systemVars, vars, nodeVars, servoVars, LagInv, Slot, Frozen,
    OverrideActive
<1> QED
  BY <1>1, <1>2, <1>3 DEF SystemNext

(* At most two poses begin after the joypad has taken the robot            *)
(* (bridge_node.cc:200-207, servocontroller.cc:283-285).                   *)
THEOREM FreezeLags == SystemSpec => []FreezeLag
<1>1. SystemInit => LagInv
  BY DEF SystemInit, Init, LagInv, Slot
<1>2. LagInv /\ [SystemNext]_systemVars => LagInv'
  BY LagStep
<1>3. LagInv => FreezeLag
  BY DEF LagInv, FreezeLag, Slot
<1> QED
  BY <1>1, <1>2, <1>3, PTL DEF SystemSpec

(* Joints that have come to rest under the joypad stay where they are:     *)
(* nothing is left that the servo node could begin or write, and nothing   *)
(* new is published.                                                       *)
THEOREM RestUnderJoypad == SystemSpec => FreezeHolds
<1>1. [SystemNext]_systemVars =>
        [Settled /\ Frozen /\ Frozen' /\ listening' =>
           Settled' /\ joints' = joints]_systemVars
  <2> SUFFICES ASSUME [SystemNext]_systemVars, Settled, Frozen, listening'
               PROVE  Settled' /\ joints' = joints
    OBVIOUS
  <2>1. CASE BridgeStep
    BY <2>1, FrozenBridgeIsSilent DEF BridgeStep, servoVars, Settled, Idle
  <2>2. CASE ServoStep
    BY <2>2 DEF ServoStep, Deliver, BeginPose, WriteJoint, HaltServo, MissCommand,
      HomeJoint, ListenAgain, TakeCommand, Servo!Begin, Servo!WriteNext,
      Servo!Halt, Servo!Listen, Settled, Idle
  <2>3. CASE UNCHANGED systemVars
    BY <2>3 DEF systemVars, servoVars, vars, nodeVars, Settled, Idle
  <2> QED
    BY <2>1, <2>2, <2>3 DEF SystemNext
<1> QED
  BY <1>1, PTL DEF SystemSpec, FreezeHolds

-----------------------------------------------------------------------------
(* One pose at a time *)

Angles == Poses \cup {Rest}

(* The servo node is part of the way through this pose: the joints before  *)
(* the rest of it are there, and the rest is what it still has to write.   *)
Writing(pose) ==
  /\ Len(writing) <= JointCount
  /\ \A i \in 1 .. Len(writing) :
       writing[i] = [joint |-> JointCount - Len(writing) + i, angle |-> pose]
  /\ \A j \in Joints : j <= JointCount - Len(writing) => joints[j] = pose

TopicInv ==
  jointCommand # <<>> => jointCommand = <<commanded>> /\ commanded \in Poses

WaitingInv ==
  waiting # <<>> =>
    \E pose \in Poses : waiting = Pose(pose) /\ (current => pose = commanded)

WritingInv ==
  writing # <<>> =>
    /\ waiting = <<>>
    /\ \E pose \in Poses : Writing(pose) /\ (current => pose = commanded)

RestingInv ==
  listening /\ writing = <<>> =>
    \E angle \in Angles :
      joints = AllAt(angle) /\ (current /\ waiting = <<>> => angle = commanded)

(* Between the topic and the joints one pose follows the other whole, and  *)
(* the newest of them is the one the bridge commanded last.                *)
StandInv ==
  /\ writing \in Seq([joint : Joints, angle : Poses])
  /\ joints \in [Joints -> Angles]
  /\ home = AllAt(Rest)
  /\ current \in BOOLEAN
  /\ ~listening => waiting = <<>> /\ writing = <<>> /\ ~current
  /\ TopicInv /\ WaitingInv /\ WritingInv /\ RestingInv

LEMMA PoseType ==
  ASSUME NEW p \in Poses
  PROVE  /\ Pose(p) \in Seq([joint : Joints, angle : Poses])
         /\ Len(Pose(p)) = JointCount /\ Pose(p) # <<>>
         /\ \A k \in 1 .. JointCount : Pose(p)[k] = [joint |-> k, angle |-> p]
<1>1. JointCount \in Nat \ {0}
  BY SystemAssumption
<1> DEFINE Entry == [joint : Joints, angle : Poses]
<1>2. \A k \in 1 .. JointCount : [joint |-> k, angle |-> p] \in Entry
  BY DEF Joints
<1>3. /\ DOMAIN Pose(p) = 1 .. JointCount
      /\ \A k \in 1 .. JointCount : Pose(p)[k] = [joint |-> k, angle |-> p]
  BY DEF Pose, Joints
<1> HIDE DEF Entry
<1>4. Pose(p) \in Seq(Entry)
  BY <1>1, <1>2 DEF Pose, Joints
<1>5. Len(Pose(p)) = JointCount /\ Pose(p) # <<>>
  BY <1>1, <1>3, <1>4, LenProperties
<1> USE DEF Entry
<1> QED
  BY <1>3, <1>4, <1>5

LEMMA InitStands == SystemInit => StandInv
<1> SUFFICES ASSUME SystemInit PROVE StandInv
  OBVIOUS
<1>1. AllAt(Rest) \in [Joints -> Angles] /\ Rest \in Angles
  BY DEF AllAt, Angles
<1>2. /\ listening /\ ~current /\ current \in BOOLEAN /\ writing = <<>>
      /\ waiting = <<>> /\ jointCommand = <<>>
      /\ joints = AllAt(Rest) /\ home = AllAt(Rest)
  BY DEF SystemInit, Init
<1>3. RestingInv
  BY <1>1, <1>2 DEF RestingInv
<1>4. writing \in Seq([joint : Joints, angle : Poses])
  BY <1>2
<1>5. TopicInv /\ WaitingInv /\ WritingInv
  BY <1>2 DEF TopicInv, WaitingInv, WritingInv
<1> QED
  BY <1>1, <1>2, <1>3, <1>4, <1>5 DEF StandInv

(* What the bridge does to the servo node's account: it publishes a pose,  *)
(* which the servo node has then yet to take, or it changes nothing there. *)
LEMMA BridgeStands ==
  ASSUME TypeOK, StandInv, BridgeStep PROVE StandInv'
<1>1. UNCHANGED <<listening, home, waiting, writing, joints>>
  BY DEF BridgeStep, servoVars
<1>2. CASE Published
  <2>1. ~current'
    BY <1>2 DEF BridgeStep
  <2>2. PICK pose \in Poses : Publish(pose)
    <3>1. [Next]_vars
      BY SystemStepIsBridgeStep DEF SystemNext
    <3>2. Receive /\ Head(socket).wellFormed /\ Publish(Head(socket).pose)
      BY <1>2, <3>1, OnlyReceivePublishes DEF Published
    <3>3. Head(socket) \in Payloads
      BY <3>2, HeadTailProperties DEF Receive, TypeOK
    <3> QED
      BY <3>2, <3>3 DEF Payloads
  <2>3. jointCommand' = <<commanded'>> /\ commanded' \in Poses
    <3>1. CASE jointCommand = <<>>
      BY <2>2, <3>1 DEF Publish, KeepLast
    <3>2. CASE jointCommand # <<>>
      <4>1. jointCommand = <<commanded>>
        BY <3>2 DEF StandInv, TopicInv
      <4>2. jointCommand' = Append(Tail(<<commanded>>), pose)
        BY <2>2, <4>1 DEF Publish, KeepLast
      <4>3. Append(Tail(<<commanded>>), pose) = <<pose>>
        OBVIOUS
      <4> QED
        BY <2>2, <4>2, <4>3 DEF Publish
    <3> QED
      BY <3>1, <3>2
  <2>4. current' \in BOOLEAN
    BY DEF BridgeStep, StandInv
  <2>5. TopicInv' /\ WaitingInv'
    BY <1>1, <2>1, <2>3 DEF StandInv, TopicInv, WaitingInv
  <2>6. WritingInv' /\ RestingInv'
    BY <1>1, <2>1 DEF StandInv, WritingInv, RestingInv, Writing
  <2> QED
    BY <1>1, <2>1, <2>4, <2>5, <2>6 DEF StandInv
<1>3. CASE ~Published
  <2>1. current' = current
    <3>1. current' = (current /\ ~Published) /\ current \in BOOLEAN
      BY DEF BridgeStep, StandInv
    <3> QED
      BY <1>3, <3>1
  <2>2. UNCHANGED <<jointCommand, commanded>>
    <3>1. CASE Receive
      <4>1. forwarded \in 0 .. CounterModulus - 1 /\ CounterModulus \in Nat \ {0, 1}
        BY BridgeAssumption DEF TypeOK
      <4>2. (forwarded + 1) % CounterModulus # forwarded
        BY <4>1
      <4>3. ~ \E pose : Publish(pose)
        BY <1>3, <4>2 DEF Published, Publish
      <4> QED
        BY <3>1, <4>3 DEF Receive, HandlePayload, HandlePose, HandleMalformed
    <3>2. CASE PollSocket \/ EndPoll \/ ReceiveFails \/ OnJoypadButton
               \/ OnJoypadThumbstick
      BY <3>2 DEF PollSocket, EndPoll, ReceiveFails, OnJoypadButton,
        OnJoypadThumbstick, nodeVars
    <3>3. CASE Tick \/ PressButton \/ MoveStick("push") \/ RestartSender
               \/ \E pose \in Poses : SendPose(pose)
      BY <3>3 DEF Tick, PressButton, MoveStick, RestartSender, SendPose, nodeVars
    <3> QED
      BY <3>1, <3>2, <3>3 DEF BridgeStep, Node
  <2> QED
    BY <1>1, <2>1, <2>2
    DEF StandInv, TopicInv, WaitingInv, WritingInv, RestingInv, Writing
<1> QED
  BY <1>2, <1>3

LEMMA DeliverStands == ASSUME StandInv, Deliver PROVE StandInv'
<1>1. /\ writing = <<>> /\ jointCommand' = <<>> /\ current'
      /\ waiting' = Pose(Head(jointCommand))
      /\ UNCHANGED <<listening, home, writing, joints, commanded>>
      /\ jointCommand # <<>> /\ listening
  BY DEF Deliver, TakeCommand, Servo!Accept
<1>2. commanded \in Poses /\ waiting' = Pose(commanded) /\ Pose(commanded) # <<>>
  BY <1>1, PoseType DEF StandInv, TopicInv
<1>3. WaitingInv'
  BY <1>1, <1>2 DEF WaitingInv
<1>4. RestingInv' /\ WritingInv' /\ TopicInv'
  BY <1>1, <1>2 DEF StandInv, RestingInv, WritingInv, TopicInv
<1> QED
  BY <1>1, <1>3, <1>4 DEF StandInv

LEMMA BeginStands == ASSUME StandInv, BeginPose PROVE StandInv'
<1>1. /\ listening /\ waiting # <<>> /\ writing' = waiting /\ waiting' = <<>>
      /\ UNCHANGED <<listening, home, joints, current, jointCommand, commanded>>
  BY DEF BeginPose, Servo!Begin, vars, nodeVars
<1>2. PICK pose \in Poses : waiting = Pose(pose) /\ (current => pose = commanded)
  BY <1>1 DEF StandInv, WaitingInv
<1>3. /\ Pose(pose) \in Seq([joint : Joints, angle : Poses])
      /\ Len(Pose(pose)) = JointCount /\ Pose(pose) # <<>>
      /\ \A k \in 1 .. JointCount : Pose(pose)[k] = [joint |-> k, angle |-> pose]
      /\ JointCount \in Nat \ {0}
  BY PoseType, SystemAssumption
<1> HIDE DEF Pose
<1>4. Writing(pose)'
  <2>1. writing' = Pose(pose) /\ Len(writing') = JointCount
    BY <1>1, <1>2, <1>3
  <2>2. \A i \in 1 .. Len(writing') :
          writing'[i] = [joint |-> JointCount - Len(writing') + i, angle |-> pose]
    <3> SUFFICES ASSUME NEW i \in 1 .. JointCount
                 PROVE  Pose(pose)[i] = [joint |-> JointCount - JointCount + i,
                                         angle |-> pose]
      BY <2>1
    <3>1. JointCount - JointCount + i = i
      BY <1>3
    <3> QED
      BY <1>3, <3>1
  <2>3. \A j \in Joints : ~(j <= JointCount - Len(writing'))
    BY <1>3, <2>1 DEF Joints
  <2> QED
    BY <1>3, <2>1, <2>2, <2>3 DEF Writing
<1>5. WritingInv'
  BY <1>1, <1>2, <1>4 DEF WritingInv
<1> QED
  BY <1>1, <1>2, <1>3, <1>5 DEF StandInv, TopicInv, WaitingInv, RestingInv

LEMMA WriteStands == ASSUME StandInv, WriteJoint PROVE StandInv'
<1>1. /\ listening /\ writing # <<>> /\ writing' = Tail(writing)
      /\ UNCHANGED <<listening, home, waiting, current, jointCommand, commanded>>
  BY DEF WriteJoint, Servo!WriteNext, vars, nodeVars
<1>2. PICK pose \in Poses : Writing(pose) /\ (current => pose = commanded)
  BY <1>1 DEF StandInv, WritingInv
<1> DEFINE n == Len(writing)
           next == JointCount - n + 1
<1>3. /\ n \in Nat \ {0} /\ n <= JointCount /\ JointCount \in Nat
      /\ Len(writing') = n - 1
      /\ writing' \in Seq([joint : Joints, angle : Poses])
      /\ \A i \in 1 .. n - 1 : writing'[i] = writing[i + 1]
      /\ Head(writing) = writing[1]
  BY <1>1, <1>2, SystemAssumption, HeadTailProperties DEF StandInv, Writing
<1>4. next \in Joints /\ writing[1] = [joint |-> next, angle |-> pose]
  BY <1>2, <1>3 DEF Writing, Joints
<1>5. joints' = [joints EXCEPT ![next] = pose]
  <2>1. Head(writing).joint = next /\ Head(writing).angle = pose
    BY <1>3, <1>4
  <2> HIDE DEF next
  <2> QED
    BY <1>4, <2>1 DEF WriteJoint, Servo!WriteNext
<1>6. /\ joints' \in [Joints -> Angles] /\ joints \in [Joints -> Angles]
      /\ pose \in Angles
  BY <1>4, <1>5 DEF StandInv, Angles
<1>7. \A j \in Joints : j <= JointCount - (n - 1) => joints'[j] = pose
  <2> SUFFICES ASSUME NEW j \in Joints, j <= next PROVE joints'[j] = pose
    BY <1>3
  <2>1. CASE j = next
    BY <1>5, <1>6, <2>1
  <2>2. CASE j # next
    <3>1. j <= JointCount - n
      <4>1. j \in Int /\ n \in Int /\ JointCount \in Int
        BY <1>3 DEF Joints
      <4> HIDE DEF n
      <4> QED
        BY <2>2, <4>1
    <3> QED
      BY <1>2, <1>5, <1>6, <2>2, <3>1 DEF Writing
  <2> QED
    BY <2>1, <2>2
<1>8. Writing(pose)'
  <2>1. \A i \in 1 .. n - 1 :
          writing'[i] = [joint |-> JointCount - (n - 1) + i, angle |-> pose]
    <3> SUFFICES ASSUME NEW i \in 1 .. n - 1
                 PROVE  writing'[i] = [joint |-> JointCount - (n - 1) + i, angle |-> pose]
      OBVIOUS
    <3>1. /\ i + 1 \in 1 .. n
          /\ JointCount - n + (i + 1) = JointCount - (n - 1) + i
      BY <1>3
    <3>2. writing[i + 1] = [joint |-> JointCount - n + (i + 1), angle |-> pose]
      BY <1>2, <3>1 DEF Writing
    <3> QED
      BY <1>3, <3>1, <3>2
  <2>2. n - 1 <= JointCount
    BY <1>3
  <2> HIDE DEF n
  <2> QED
    BY <1>3, <1>7, <2>1, <2>2 DEF Writing
<1>9. WritingInv'
  BY <1>1, <1>2, <1>8 DEF StandInv, WritingInv
<1>10. RestingInv'
  <2> SUFFICES ASSUME writing' = <<>>
               PROVE  joints' = AllAt(pose) /\ (current => pose = commanded)
    BY <1>1, <1>6 DEF RestingInv
  <2>1. n = 1
    BY <1>3
  <2>2. \A j \in Joints : joints'[j] = pose
    BY <1>3, <1>7, <2>1 DEF Joints
  <2> QED
    BY <1>2, <1>6, <2>2 DEF AllAt
<1> QED
  BY <1>1, <1>3, <1>6, <1>9, <1>10 DEF StandInv, TopicInv, WaitingInv

LEMMA StandStep ==
  ASSUME TypeOK, StandInv, [SystemNext]_systemVars PROVE StandInv'
<1>1. CASE HaltServo
  <2>1. /\ ~listening' /\ waiting' = <<>> /\ writing' = <<>> /\ ~current'
        /\ current' \in BOOLEAN /\ jointCommand' = <<>>
        /\ UNCHANGED <<home, joints>>
    BY <1>1 DEF HaltServo, Servo!Halt
  <2>2. writing' \in Seq([joint : Joints, angle : Poses])
    BY <2>1
  <2>3. TopicInv' /\ WaitingInv' /\ WritingInv' /\ RestingInv'
    BY <2>1 DEF TopicInv, WaitingInv, WritingInv, RestingInv
  <2> QED
    BY <2>1, <2>2, <2>3 DEF StandInv
<1>2. CASE MissCommand
  BY <1>2 DEF MissCommand, TakeCommand, servoVars, StandInv, TopicInv, WaitingInv,
    WritingInv, RestingInv, Writing
<1>3. CASE HomeJoint
  <2>1. joints' \in [Joints -> Angles]
    BY <1>3 DEF HomeJoint, StandInv, Angles
  <2>2. ~listening /\ UNCHANGED <<vars, listening, home, waiting, writing, current>>
    BY <1>3 DEF HomeJoint
  <2> QED
    BY <2>1, <2>2 DEF vars, nodeVars, StandInv, TopicInv, WaitingInv, WritingInv,
      RestingInv
<1>4. CASE ListenAgain
  <2>1. /\ ~listening /\ joints = home
        /\ UNCHANGED <<vars, home, waiting, writing, joints, current>>
    BY <1>4 DEF ListenAgain, Servo!Listen
  <2>2. Rest \in Angles
    BY DEF Angles
  <2> QED
    BY <2>1, <2>2 DEF vars, nodeVars, StandInv, TopicInv, WaitingInv, WritingInv,
      RestingInv
<1>5. CASE UNCHANGED systemVars
  BY <1>5 DEF systemVars, vars, nodeVars, servoVars, StandInv, TopicInv, WaitingInv,
    WritingInv, RestingInv, Writing
<1> QED
  BY <1>1, <1>2, <1>3, <1>4, <1>5, BridgeStands, DeliverStands, BeginStands,
     WriteStands DEF SystemNext, ServoStep

(* At rest the joints show one pose, and the one commanded last once the   *)
(* servo node has taken it (servocontroller.cc:253-288).                   *)
THEOREM RestsInOnePose == SystemSpec => []StandsInOnePose
<1>1. StandInv => StandsInOnePose
  BY DEF StandInv, RestingInv, StandsInOnePose, Idle, Angles
<1>2. TypeOK /\ StandInv /\ [SystemNext]_systemVars => StandInv'
  BY StandStep
<1> QED
  BY <1>1, <1>2, InitStands, SystemContainsBridge, TypeCorrect, PTL DEF SystemSpec

=============================================================================

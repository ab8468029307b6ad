---------------------------- MODULE StreamProofs ----------------------------
(***************************************************************************)
(* Theorems about StreamTopic: which ffmpeg may outlive the process, and   *)
(* that the exit status says why it ended.                                 *)
(***************************************************************************)
EXTENDS StreamTopic, TLAPS

LEMMA InitStreamInv == Init => StreamInv
<1> SUFFICES ASSUME Init PROVE StreamInv
  OBVIOUS
<1>1. TypeOK
  <2>1. 0 \in 0 .. MaxSignals
    BY StreamAssumption
  <2> QED
    BY <2>1 DEF Init, TypeOK, InSpin, InFinally
<1>2. /\ child \notin Alive /\ ~input /\ ~unsent
      /\ pc \notin {"checking", "writing", "leaving", "dead"} \cup InFinally
  BY DEF Init, Alive, InFinally
<1> QED
  BY <1>1, <1>2 DEF StreamInv, InFinally

(* The end of a frame stays in the buffer only where such frames arrive. *)
LEMMA KeptEnd == \A e \in {FALSE, SmallFrames} : e \in BOOLEAN /\ (e => SmallFrames)
<1> SUFFICES ASSUME NEW e \in {FALSE, SmallFrames} PROVE e \in BOOLEAN /\ (e => SmallFrames)
  OBVIOUS
<1>1. CASE e = FALSE
  BY <1>1
<1>2. CASE e = SmallFrames
  BY <1>2, StreamAssumption
<1> QED
  BY <1>1, <1>2

(* Every step of the interpreter, of whoever sends signals and of ffmpeg   *)
(* preserves the invariant.                                                *)
LEMMA NextStreamInv == StreamInv /\ [Next]_vars => StreamInv'
<1> SUFFICES ASSUME StreamInv, [Next]_vars PROVE StreamInv'
  OBVIOUS
<1> USE StreamAssumption DEF StreamInv, TypeOK, Alive, InSpin, InFinally
<1>1. CASE Install
  BY <1>1 DEF Install
<1>2. CASE Callback
  <2>1. CASE SpinEnds
    BY <2>1 DEF SpinEnds, LeaveSpin
  <2>2. CASE ImageFails
    BY <2>2 DEF ImageFails, LeaveSpin
  <2>3. CASE OnImage
    <3>1. CASE ffmpeg
      BY <2>3, <3>1 DEF OnImage
    <3>2. CASE ~ffmpeg
      <4>1. /\ pc' = "popen" /\ child' = "running" /\ input' = TRUE /\ ~unsent /\ pc = "spinning"
            /\ UNCHANGED <<ffmpeg, unsent, context, status, signals, cause, interrupted>>
        BY <2>3, <3>2 DEF OnImage
      <4>2. TypeOK'
        BY <4>1
      <4> QED
        BY <4>1, <4>2
    <3> QED
      BY <3>1, <3>2
  <2>4. CASE Remember
    BY <2>4 DEF Remember
  <2>5. CASE Poll
    BY <2>5 DEF Poll, LeaveSpin
  <2>6. CASE Write
    <3>1. CASE WriteThrough /\ pc' = "spinning" /\ UNCHANGED <<status, cause>>
      <4>1. /\ pc = "writing" /\ ffmpeg /\ unsent' \in {FALSE, SmallFrames}
            /\ UNCHANGED <<ffmpeg, child, input, context, signals, interrupted>>
        BY <2>6, <3>1 DEF Write, WriteThrough
      <4>2. unsent' \in BOOLEAN /\ (unsent' => SmallFrames)
        BY <4>1, KeptEnd
      <4> HIDE DEF StreamInv
      <4>3. TypeOK'
        BY <3>1, <4>1, <4>2 DEF StreamInv
      <4> QED
        BY <3>1, <4>1, <4>2, <4>3 DEF StreamInv
    <3>2. CASE WriteIntoBuffer /\ pc' = "spinning" /\ UNCHANGED <<status, cause>>
      BY <2>6, <3>2 DEF Write, WriteIntoBuffer
    <3>3. CASE WriteCutShort /\ pc' = "spinning" /\ UNCHANGED <<status, cause>>
      BY <2>6, <3>3 DEF Write, WriteCutShort, ClosesInput, Ends
    <3>4. CASE WriteFails /\ LeaveSpin("failed")
      BY <2>6, <3>4 DEF Write, WriteFails, LeaveSpin
    <3> QED
      BY <2>6, <3>1, <3>2, <3>3, <3>4 DEF Write
  <2> QED
    BY <1>2, <2>1, <2>2, <2>3, <2>4, <2>5, <2>6 DEF Callback
<1>3. CASE CleanUp
  <2>1. CASE Stop
    BY <2>1 DEF Stop
  <2>2. CASE Close
    BY <2>2 DEF Close, Reads
  <2>3. CASE Wait
    BY <2>3 DEF Wait
  <2>4. CASE Leave
    BY <2>4 DEF Leave
  <2> QED
    BY <1>3, <2>1, <2>2, <2>3, <2>4 DEF CleanUp
<1>4. CASE Sigterm
  <2>1. signals' \in 0 .. MaxSignals
    BY <1>4 DEF Sigterm
  <2>2. CASE EarlySigterm
    BY <2>1, <2>2 DEF EarlySigterm
  <2>3. CASE SigtermInSpin
    BY <2>1, <2>3 DEF SigtermInSpin, LeaveSpin
  <2>4. CASE SigtermInFinally
    BY <2>1, <2>4 DEF SigtermInFinally
  <2> QED
    BY <1>4, <2>2, <2>3, <2>4 DEF Sigterm
<1>5. CASE ChildStep
  <2>1. UNCHANGED <<pc, ffmpeg, unsent, context, status, signals, cause, interrupted>>
    BY <1>5 DEF ChildStep
  <2>2. CASE ClosesInput
    BY <2>1, <2>2 DEF ClosesInput
  <2>3. CASE Ends
    BY <2>1, <2>3 DEF Ends
  <2>4. CASE child = "running" /\ child' \in {"stalled", "wedged"} /\ UNCHANGED input
    BY <2>1, <2>4
  <2>5. CASE child = "stalled" /\ child' \in {"running", "wedged"} /\ UNCHANGED input
    BY <2>1, <2>5
  <2> QED
    BY <1>5, <2>2, <2>3, <2>4, <2>5 DEF ChildStep
<1>6. CASE UNCHANGED vars
  BY <1>6 DEF vars
<1> QED
  BY <1>1, <1>2, <1>3, <1>4, <1>5, <1>6 DEF Next

(* The inductive invariant of the process and its child. *)
THEOREM StreamInvariant == Spec => []StreamInv
  BY InitStreamInv, NextStreamInv, PTL DEF Spec

(* The process leaves no ffmpeg behind but one that no signal reaches or   *)
(* one that had closed its input too early, for any number of signals and  *)
(* frames of every size, unless a signal broke into the clean-up or into   *)
(* Popen.                                                                  *)
THEOREM ChildrenEnd == Spec => []NoChildLeftBehind
<1>1. StreamInv => NoChildLeftBehind
  BY DEF StreamInv, NoChildLeftBehind
<1> QED
  BY <1>1, StreamInvariant, PTL

(* The exit status is zero exactly when the process was asked to stop. *)
THEOREM ExitsHonestly == Spec => []HonestExit
<1>1. StreamInv => HonestExit
  BY DEF StreamInv, HonestExit
<1> QED
  BY <1>1, StreamInvariant, PTL
=============================================================================

----------------------------- MODULE StreamTopic -----------------------------
(***************************************************************************)
(* hexapod_perception/scripts/stream_topic.py: one image topic fed into    *)
(* one ffmpeg, told to stop by SIGTERM when nobody watches any more.       *)
(*                                                                         *)
(* Python runs a signal handler between any two bytecodes, so the steps    *)
(* of the process are cut wherever an exception would find another state.  *)
(* A signal is the run of its handler: while rclpy waits, Python runs it   *)
(* when that wait returns, at the latest with the next frame.  What a      *)
(* signal does before the node exists is left out.                         *)
(***************************************************************************)
EXTENDS Integers

CONSTANTS
  MaxSignals,   \* bound: signals handled by the process
  SmallFrames   \* whether frames that fit in the buffer of stdin may arrive

ASSUME StreamAssumption == MaxSignals \in Nat /\ SmallFrames \in BOOLEAN

VARIABLES
  pc,          \* where the process is
  ffmpeg,      \* self.ffmpeg is not None
  child,       \* the process that Popen started
  input,       \* the child's end of the pipe is open
  unsent,      \* the buffer of ffmpeg.stdin is not empty
  context,     \* rclpy.ok()
  status,      \* the exit status this process is going to have
  signals,     \* how many it has handled
  cause,       \* history: what made it leave rclpy.spin
  interrupted  \* history: a signal broke into Popen or into the clean-up

vars == <<pc, ffmpeg, child, input, unsent, context, status, signals, cause,
          interrupted>>

(* Inside rclpy.spin, that is, inside main's try. *)
InSpin == {"spinning", "popen", "checking", "writing"}
InFinally == {"stopping", "closing", "waiting", "leaving"}

(* A running child encodes; a stalled one does not even read; a wedged one *)
(* sits in its driver, where no signal reaches it.  Each may or may not    *)
(* have its input open.                                                    *)
Alive == {"running", "stalled", "wedged"}

TypeOK ==
  /\ pc \in {"starting", "dead"} \cup InSpin \cup InFinally
  /\ child \in {"none", "exited"} \cup Alive
  /\ cause \in {"none", "asked", "failed"}
  /\ input \in BOOLEAN /\ unsent \in BOOLEAN
  /\ ffmpeg \in BOOLEAN /\ context \in BOOLEAN /\ interrupted \in BOOLEAN
  /\ status \in {0, 1}
  /\ signals \in 0 .. MaxSignals

Init ==
  /\ pc = "starting" /\ ffmpeg = FALSE /\ context = TRUE
  /\ child = "none" /\ input = FALSE /\ unsent = FALSE
  /\ status = 0 /\ signals = 0 /\ cause = "none" /\ interrupted = FALSE

-----------------------------------------------------------------------------
(* main and the callback *)

(* SIGTERM's handler is installed once the node exists. *)
Install ==
  /\ pc = "starting"
  /\ pc' = "spinning"
  /\ UNCHANGED <<ffmpeg, child, input, unsent, context, status, signals, cause,
                 interrupted>>

(* Mutant: the text that says why ffmpeg failed counts as no status. *)
LeaveSpinSilently(why) ==
  /\ pc' = "stopping"
  /\ cause' = why
  /\ UNCHANGED status

(* The end of spin, or an exception, leads into the finally clause.        *)
(* SystemExit carries 0 when asked to stop and a text when ffmpeg failed;  *)
(* any other exception goes on after the clause, as a traceback.           *)
LeaveSpin(why) ==
  /\ pc' = "stopping"
  /\ cause' = why
  /\ status' = IF why = "asked" THEN 0 ELSE 1

(* rclpy.spin returns when the context has been shut down. *)
SpinEnds ==
  /\ pc = "spinning" /\ ~context
  /\ LeaveSpin("asked")
  /\ UNCHANGED <<ffmpeg, child, input, unsent, context, signals, interrupted>>

(* on_image, with a frame that to_frame refuses or no ffmpeg to execute. *)
ImageFails ==
  /\ pc = "spinning" /\ context
  /\ LeaveSpin("failed")
  /\ UNCHANGED <<ffmpeg, child, input, unsent, context, signals, interrupted>>

(* on_image: the first frame starts ffmpeg, which is remembered only when  *)
(* Popen has returned.                                                     *)
OnImage ==
  /\ pc = "spinning" /\ context
  /\ \/ ffmpeg /\ pc' = "checking" /\ UNCHANGED <<child, input>>
     \/ ~ffmpeg /\ pc' = "popen" /\ child' = "running" /\ input' = TRUE
  /\ UNCHANGED <<ffmpeg, unsent, context, status, signals, cause, interrupted>>

Remember ==
  /\ pc = "popen"
  /\ ffmpeg' = TRUE
  /\ pc' = "checking"
  /\ UNCHANGED <<child, input, unsent, context, status, signals, cause, interrupted>>

(* ffmpeg.poll() *)
Poll ==
  /\ pc = "checking"
  /\ \/ child = "exited" /\ LeaveSpin("failed")
     \/ child # "exited" /\ pc' = "writing" /\ UNCHANGED <<status, cause>>
  /\ UNCHANGED <<ffmpeg, child, input, unsent, context, signals, interrupted>>

-----------------------------------------------------------------------------
(* ffmpeg.stdin, a buffered file over the pipe *)

Reads == child = "running" /\ input

ClosesInput ==
  /\ child = "running" /\ input
  /\ input' = FALSE
  /\ UNCHANGED child

Ends ==
  /\ child \in Alive
  /\ child' = "exited"
  /\ input' = FALSE

(* What is in the buffer goes first and the frame follows; an end that     *)
(* fits in the buffer is kept there.                                       *)
WriteThrough ==
  /\ Reads
  /\ unsent' \in {FALSE, SmallFrames}
  /\ UNCHANGED <<child, input>>

(* The frame fits in what is free of the buffer: nothing is written. *)
WriteIntoBuffer ==
  /\ SmallFrames
  /\ unsent' = TRUE
  /\ UNCHANGED <<child, input>>

(* ffmpeg closes its input in the middle of the frame.  The call returns   *)
(* what was written, and an end that fits in the buffer is kept there, as  *)
(* if all were well.                                                       *)
WriteCutShort ==
  /\ input
  /\ ClosesInput \/ Ends
  /\ unsent' = TRUE

(* BrokenPipeError; the buffer keeps what it holds. *)
WriteFails == ~input /\ UNCHANGED <<child, input, unsent>>

(* The write blocks while a child that does not read leaves the pipe full. *)
Write ==
  /\ pc = "writing"
  /\ \/ /\ WriteThrough \/ WriteIntoBuffer \/ WriteCutShort
        /\ pc' = "spinning"
        /\ UNCHANGED <<status, cause>>
     \/ WriteFails /\ LeaveSpin("failed")
  /\ UNCHANGED <<ffmpeg, context, signals, interrupted>>

-----------------------------------------------------------------------------
(* The finally clause *)

(* stop_ffmpeg knows of no child that was not remembered. *)
Stop ==
  /\ pc = "stopping"
  /\ pc' = IF ffmpeg THEN "closing" ELSE "leaving"
  /\ UNCHANGED <<ffmpeg, child, input, unsent, context, status, signals, cause,
                 interrupted>>

(* stdin.close() writes what is left in the buffer first, which blocks as  *)
(* any write does.  If nobody is there to read it, BrokenPipeError goes    *)
(* past wait and kill.                                                     *)
Close ==
  /\ pc = "closing"
  /\ \/ /\ ~unsent \/ Reads
        /\ pc' = "waiting"
        /\ unsent' = FALSE
     \/ /\ unsent /\ ~input
        /\ pc' = "leaving"
        /\ UNCHANGED unsent
  /\ UNCHANGED <<ffmpeg, child, input, context, status, signals, cause, interrupted>>

(* Mutant: the child that does not end in time is not killed. *)
WaitWithoutKill ==
  /\ pc = "waiting"
  /\ pc' = "leaving"
  /\ UNCHANGED <<ffmpeg, child, input, unsent, context, status, signals, cause,
                 interrupted>>

(* Mutant: the wait has no timeout. *)
WaitForever ==
  /\ pc = "waiting" /\ child = "exited"
  /\ pc' = "leaving"
  /\ UNCHANGED <<ffmpeg, child, input, unsent, context, status, signals, cause,
                 interrupted>>

(* wait(timeout=5) returns when the child has ended.  When the five        *)
(* seconds are over, kill() ends it, unless no signal reaches it; whether  *)
(* it did is not looked at.                                                *)
Wait ==
  /\ pc = "waiting"
  /\ pc' = "leaving"
  /\ IF child = "wedged" THEN UNCHANGED <<child, input>>
     ELSE child' = "exited" /\ input' = FALSE
  /\ UNCHANGED <<ffmpeg, unsent, context, status, signals, cause, interrupted>>

(* Mutant: shutdown() is called without asking rclpy.ok(). *)
LeaveTwice ==
  /\ pc = "leaving"
  /\ pc' = "dead"
  /\ status' = IF context THEN status ELSE 1
  /\ context' = FALSE
  /\ UNCHANGED <<ffmpeg, child, input, unsent, signals, cause, interrupted>>

(* destroy_node(), and shutdown() unless the context is down already. *)
Leave ==
  /\ pc = "leaving"
  /\ pc' = "dead"
  /\ context' = FALSE
  /\ UNCHANGED <<ffmpeg, child, input, unsent, status, signals, cause, interrupted>>

-----------------------------------------------------------------------------
(* Signals and ffmpeg *)

(* Before the handler is installed rclpy's own shuts the context down. *)
EarlySigterm ==
  /\ pc = "starting"
  /\ context' = FALSE
  /\ UNCHANGED <<pc, ffmpeg, child, input, unsent, status, cause, interrupted>>

(* SystemExit(0) is raised where the process is, and rclpy may have shut   *)
(* the context down too.  What a write had not yet written is lost.        *)
SigtermInSpin ==
  /\ pc \in InSpin
  /\ LeaveSpin("asked")
  /\ context' \in {context, FALSE}
  /\ interrupted' = (interrupted \/ pc = "popen")
  /\ UNCHANGED <<ffmpeg, child, input, unsent>>

(* Raised in the finally clause it skips what is left of it, and the rest  *)
(* of the process; raised in the except clause before it, it does not.     *)
SigtermInFinally ==
  /\ pc \in InFinally
  /\ pc' \in {"dead"} \cup ({pc} \cap {"stopping"})
  /\ status' = 0
  /\ interrupted' = TRUE
  /\ UNCHANGED <<ffmpeg, child, input, unsent, context, cause>>

Sigterm ==
  /\ signals < MaxSignals
  /\ signals' = signals + 1
  /\ EarlySigterm \/ SigtermInSpin \/ SigtermInFinally

(* ffmpeg stalls, recovers, closes its input, ends or wedges in its        *)
(* driver, where it stays until somebody reloads that.                     *)
ChildStep ==
  /\ \/ ClosesInput
     \/ Ends
     \/ child = "running" /\ child' \in {"stalled", "wedged"} /\ UNCHANGED input
     \/ child = "stalled" /\ child' \in {"running", "wedged"} /\ UNCHANGED input
  /\ UNCHANGED <<pc, ffmpeg, unsent, context, status, signals, cause, interrupted>>

Callback == SpinEnds \/ ImageFails \/ OnImage \/ Remember \/ Poll \/ Write
CleanUp == Stop \/ Close \/ Wait \/ Leave
Next == Install \/ Callback \/ CleanUp \/ Sigterm \/ ChildStep

(* The interpreter goes on whenever it can; nothing is asked of ffmpeg,    *)
(* of the camera or of whoever sends signals.                              *)
Spec == Init /\ [][Next]_vars /\ WF_vars(Install \/ Callback \/ CleanUp)

-----------------------------------------------------------------------------
(* What the process leaves behind: when it has ended its ffmpeg has, or    *)
(* sits in its driver where the kill of stop_ffmpeg did not reach it, or   *)
(* had closed its input before all was written to it, so that stop_ffmpeg  *)
(* neither waited for it nor killed it (stream_topic.py:196); unless a     *)
(* signal came between Popen and the assignment of its result or broke     *)
(* into the clean-up.                                                      *)
NoChildLeftBehind ==
  pc = "dead" /\ ~interrupted /\ child \in Alive =>
    child = "wedged" \/ (unsent /\ ~input)

(* The exit status tells a stop that was asked for from a failure, also    *)
(* when rclpy had shut its context down before the clean-up got there      *)
(* ("raising here would replace whatever actually went wrong").            *)
HonestExit ==
  pc = "dead" /\ ~interrupted => (status = 0 <=> cause = "asked")

(* What the two above rest on, at every step: a child nobody interrupted   *)
(* is either remembered or being started, and the clean-up, once it is     *)
(* past stop_ffmpeg, has spared none but those; the status and the reason  *)
(* for leaving belong together as soon as spin has been left.  The buffer  *)
(* keeps something only for a child that is remembered and, if all frames  *)
(* are larger than it, that has closed its input.                          *)
StreamInv ==
  /\ TypeOK
  /\ input => child \in Alive
  /\ pc \in {"checking", "writing", "closing", "waiting"} => ffmpeg
  /\ unsent => ffmpeg /\ (input => SmallFrames)
  /\ ~interrupted =>
       /\ child \in Alive => ffmpeg \/ pc = "popen"
       /\ pc \in {"leaving", "dead"} /\ child \in Alive =>
            child = "wedged" \/ (unsent /\ ~input)
       /\ pc \in InFinally \cup {"dead"} => (status = 0 <=> cause = "asked")

(* Once the handler has run the process does end: a pipe that is full, an  *)
(* ffmpeg that never reads and never ends, a signal before the handler was *)
(* installed: none of them holds it (wait(timeout=5), kill()).  One thing  *)
(* does: an ffmpeg that does not read what close() has still to write to   *)
(* it, which StreamInv excludes if all frames are larger than the buffer.  *)
StopsWhenAsked ==
  signals > 0 ~> pc = "dead" \/ [](pc = "closing" /\ unsent /\ input)
=============================================================================

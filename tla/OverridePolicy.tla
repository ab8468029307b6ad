--------------------------- MODULE OverridePolicy ---------------------------
(***************************************************************************)
(* hexapod_bridge/src/override_policy.cc: who may command the joints.      *)
(*                                                                         *)
(* The class keeps two members and holds no clock of its own: every method *)
(* is handed the current time.  A policy is therefore a record, and every  *)
(* method an operator on it.  Times are ticks of std::chrono::steady_clock.*)
(* Release() is left out: nothing in the repository calls it.              *)
(***************************************************************************)
EXTENDS Integers

CONSTANT ReleaseAfter   \* how long the joypad must be quiet, in ticks

(* The constructor throws on a timeout that is zero or negative. *)
ASSUME ReleaseAfterAssumption == ReleaseAfter \in Nat \ {0}

Policies == [engaged : BOOLEAN, lastActivity : Nat]

NewPolicy == [engaged |-> FALSE, lastActivity |-> 0]

(* Mutant: only the first touch is noted, so holding on does not extend it.*)
NoteFirstTouchOnly(p, now) ==
  IF p.engaged THEN p ELSE [p EXCEPT !.engaged = TRUE, !.lastActivity = now]

(* Mutant: the time is noted, engaged_ is forgotten. *)
NoteTimeOnly(p, now) == [p EXCEPT !.lastActivity = now]

(* Both members are overwritten: every touch restarts the timeout. *)
NoteJoypadActivity(p, now) ==
  [p EXCEPT !.engaged = TRUE, !.lastActivity = now]

(* A sample older than the last activity counts as "still active". *)
OverrideActive(p, now) ==
  /\ p.engaged
  /\ \/ now < p.lastActivity
     \/ now - p.lastActivity < ReleaseAfter

(* Mutant: the stream is let back one tick early. *)
StreamMayDriveEarly(p, now) ==
  ~p.engaged \/ now - p.lastActivity >= ReleaseAfter - 1

StreamMayDrive(p, now) == ~OverrideActive(p, now)

=============================================================================

------------------------------ MODULE MCBridge ------------------------------
(* Small instances of Bridge for TLC.  Two poses tell a replayed pose from *)
(* the newest one; the gap report looks at sequence numbers only.          *)
EXTENDS Bridge

CONSTANTS p1, p2

MCTwoPoses == {p1, p2}
MCOnePose == {p1}
=============================================================================

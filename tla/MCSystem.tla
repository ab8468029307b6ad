------------------------------ MODULE MCSystem ------------------------------
(* Small instances of HexapodSystem for TLC: two joints, three poses so    *)
(* that one can be written while one waits and one is in the topic.        *)
EXTENDS HexapodSystem

CONSTANTS p1, p2, p3

MCTwoPoses == {p1, p2}
MCThreePoses == {p1, p2, p3}
=============================================================================

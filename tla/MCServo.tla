------------------------------- MODULE MCServo -------------------------------
(* Small instances of ServoController for TLC: two joints on the left      *)
(* board, one on the right.                                                *)
EXTENDS ServoController

MCNames == {"L_coxaA", "L_femurA", "R_coxaA", "tail"}

MCMotors ==
  << [name |-> "L_coxaA", side |-> "L", pin |-> 0],
     [name |-> "L_femurA", side |-> "L", pin |-> 1],
     [name |-> "R_coxaA", side |-> "R", pin |-> 0] >>

MCTwoMotors == << MCMotors[1], MCMotors[3] >>

MCHoming == <<45, 90, 45>>

Good == [passes |-> Checks, homing |-> [i \in Motors |-> MCHoming[i]]]

MCGood == {Good}

(* The last motor is missing from homing.lua. *)
MCUnlisted ==
  {[Good EXCEPT !.homing = [@ EXCEPT ![Len(MotorTable)] = Missing]]}

MCAny ==
  {Good} \cup MCUnlisted
  \cup {[Good EXCEPT !.passes = @ \ {what}] : what \in Checks}

(* A pose in another order than the motors', one beyond the travel that    *)
(* names a joint there is not, and one command to refuse.                  *)
MCCommands ==
  { [names |-> <<"R_coxaA", "L_coxaA">>, positions |-> <<90, 10>>],
    [names |-> <<"tail", "L_coxaA">>, positions |-> <<90, 200>>],
    [names |-> <<"R_coxaA">>, positions |-> <<NotFinite>>] }

MCNoCommands == {}
=============================================================================

------------------------------ MODULE MCInputs ------------------------------
(* The two ways into the bridge on small instances: the wire format and    *)
(* the joypad.  A behaviour exercises one of them; the other one rests.    *)
EXTENDS MCWire, Joypad

VARIABLE channel   \* "wire" or "joypad"

NoButtons == [b \in 1 .. 3 |-> 0]
Rest == <<0, 0, FullScale, 0, 0, FullScale>>

MCReleased == [axes |-> Rest, buttons |-> NoButtons]

MCPositions == -FullScale .. FullScale \cup {NotANumber}

(* Either stick anywhere, with no button or with all of them; a press      *)
(* alone, on a pad with all its axes, with more, and with too few.         *)
MCPads ==
  {[axes |-> [Rest EXCEPT ![i] = x, ![i + 1] = y], buttons |-> bs] :
     i \in {1, 4}, x \in MCPositions, y \in MCPositions,
     bs \in {NoButtons, <<1, 1, 1>>}}
  \cup {[axes |-> axes, buttons |-> <<0, 1, 0>>] :
          axes \in {Rest, Append(Rest, FullScale), SubSeq(Rest, 1, 5)}}

MCDeadZones == -1 .. FullScale + 1 \cup {NotANumber}

InputsInit ==
  /\ channel \in {"wire", "joypad"}
  /\ Init
  /\ JoyInit
  /\ channel = "wire" => deadZone = 0

InputsNext ==
  /\ UNCHANGED channel
  /\ \/ channel = "wire" /\ Next /\ UNCHANGED joypadVars
     \/ channel = "joypad" /\ JoyNext /\ UNCHANGED vars

InputsSpec == InputsInit /\ [][InputsNext]_<<channel, vars, joypadVars>>
=============================================================================

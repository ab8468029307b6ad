------------------------------ MODULE PCA9685 ------------------------------
(***************************************************************************)
(* hexapod_servomotor/src/PCA9685_driver.cc: the driver of one servo board.*)
(*                                                                         *)
(* Every method of the driver is a fixed list of transfers on the I2C bus, *)
(* and the bus may fail at any of them.  A method is therefore a sequence  *)
(* of transfers, which ServoController.tla carries out one by one.         *)
(*                                                                         *)
(* A board is a record of the registers the driver uses.  The ON counters  *)
(* are left out, the driver only ever writes zero to them, and MODE1 is    *)
(* reduced to its SLEEP bit: its other bits select addresses or resume     *)
(* outputs.  How a board reacts is external (NXP's data sheet, as          *)
(* doc/pca9685.md sums it up).                                             *)
(***************************************************************************)
EXTENDS Integers, Sequences

CONSTANT Channels   \* the outputs of a board, 0 .. 15

ASSUME ChannelsAssumption == Channels \subseteq 0 .. 15

Byte == 0 .. 255

(* Full-OFF as the high byte of an OFF counter sees it. *)
FullOff == 16

-----------------------------------------------------------------------------
(* The board. *)

Boards == [asleep : BOOLEAN, prescale : Byte,
           low : [Channels -> Byte], high : [Channels -> Byte]]

(* After power-on: asleep, at 200 Hz, every output full-OFF. *)
PoweredOn == [asleep |-> TRUE, prescale |-> 30,
              low |-> [c \in Channels |-> 0],
              high |-> [c \in Channels |-> FullOff]]

(* The width of the pulse an output produces, in ticks of its counter.  The*)
(* pulse starts at tick zero, and outputs follow each byte as it arrives.  *)
Pulse(board, channel) ==
  IF board.asleep \/ board.high[channel] >= FullOff THEN 0
  ELSE 256 * board.high[channel] + board.low[channel]

Parked(board) ==
  board.asleep /\ \A c \in Channels : board.high[c] = FullOff

-----------------------------------------------------------------------------
(* The driver: whether i2c_device_ is set, the MODE1 byte a method has     *)
(* read (its SLEEP bit), and the prescale_ it computes pulses from.        *)

Drivers == [open : BOOLEAN, mode : BOOLEAN, prescale : Byte]

NewDriver == [open |-> FALSE, mode |-> FALSE, prescale |-> 0]

(* prescale_ is zero until Initialize has read it, and never again: the    *)
(* hardware keeps PRE_SCALE at three or more.                              *)
Initialised(driver) == driver.prescale # 0

Operations ==
  {"Open", "WriteOn", "WriteOffLow", "WriteOffHigh", "WriteMode2",
   "WriteMode1", "ReadMode1", "WritePreScale", "ReadPreScale",
   "RestoreMode1", "Restart"}

(* A transfer concerns one channel, all of them (ALL_LED) or none; its     *)
(* value is the byte written, or for MODE1 the SLEEP bit.                  *)
Transfers == [op : Operations, channels : SUBSET Channels, value : Byte]

On(channels)         == [op |-> "WriteOn", channels |-> channels, value |-> 0]
OffLow(channels, v)  == [op |-> "WriteOffLow", channels |-> channels, value |-> v]
OffHigh(channels, v) == [op |-> "WriteOffHigh", channels |-> channels, value |-> v]
Bus(op, v)           == [op |-> op, channels |-> {}, value |-> v]

Awake == 0
Asleep == 1

(* What a transfer that reaches the board does to it.  PRE_SCALE is        *)
(* writable only while the oscillator is stopped.                          *)
Perform(board, driver, t) ==
  CASE t.op = "WriteOffLow" ->
         [board EXCEPT !.low = [c \in Channels |->
            IF c \in t.channels THEN t.value ELSE board.low[c]]]
    [] t.op = "WriteOffHigh" ->
         [board EXCEPT !.high = [c \in Channels |->
            IF c \in t.channels THEN t.value ELSE board.high[c]]]
    [] t.op = "WriteMode1" -> [board EXCEPT !.asleep = (t.value = Asleep)]
    [] t.op \in {"RestoreMode1", "Restart"} ->
         [board EXCEPT !.asleep = driver.mode]
    [] t.op = "WritePreScale" /\ board.asleep ->
         [board EXCEPT !.prescale = t.value]
    [] OTHER -> board

(* What the driver keeps of a transfer that succeeded.  SetPWMFrequency    *)
(* updates prescale_ after its last transfer, the restart.                 *)
Note(driver, board, t) ==
  CASE t.op = "Open"         -> [driver EXCEPT !.open = TRUE]
    [] t.op = "ReadMode1"    -> [driver EXCEPT !.mode = board.asleep]
    [] t.op = "ReadPreScale" -> [driver EXCEPT !.prescale = board.prescale]
    [] t.op = "Restart"      -> [driver EXCEPT !.prescale = t.value]
    [] OTHER -> driver

-----------------------------------------------------------------------------
(* The methods. *)

(* SetSinglePWM(channel, 0, ticks). *)
SetSinglePWM(channel, ticks) ==
  << On({channel}),
     OffLow({channel}, ticks % 256), OffHigh({channel}, ticks \div 256) >>

(* SetAllPWM(0, 0). *)
ClearAll == << On(Channels), OffLow(Channels, 0), OffHigh(Channels, 0) >>

Wake == << Bus("ReadMode1", 0), Bus("WriteMode1", Awake) >>

Sleep == << Bus("ReadMode1", 0), Bus("WriteMode1", Asleep) >>

(* Mutant: the outputs of a previous run are left as they are. *)
InitializeUncleared ==
  << Bus("Open", 0), Bus("WriteMode2", 4),
     Bus("WriteMode1", Awake) >> \o Wake
  \o << Bus("ReadPreScale", 0) >>

(* MODE1 is set to ALLCALL, which clears SLEEP, and woken once more. *)
Initialize ==
  << Bus("Open", 0) >> \o ClearAll
  \o << Bus("WriteMode2", 4), Bus("WriteMode1", Awake) >> \o Wake
  \o << Bus("ReadPreScale", 0) >>

(* Mutant: PRE_SCALE is written before the board sleeps. *)
SetPrescaleAwake(prescale) ==
  << Bus("ReadMode1", 0), Bus("WritePreScale", prescale),
     Bus("WriteMode1", Asleep), Bus("RestoreMode1", 0),
     Bus("Restart", prescale) >>

(* SetPWMFrequency for the frequency this prescale produces. *)
SetPrescale(prescale) ==
  << Bus("ReadMode1", 0), Bus("WriteMode1", Asleep),
     Bus("WritePreScale", prescale), Bus("RestoreMode1", 0),
     Bus("Restart", prescale) >>

AllOutputsOff ==
  << On(Channels), OffLow(Channels, 0), OffHigh(Channels, FullOff) >>

(* The destructor of a board whose bus was opened. *)
Park == AllOutputsOff \o Sleep

=============================================================================

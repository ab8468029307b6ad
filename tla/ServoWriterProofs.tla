-------------------------- MODULE ServoWriterProofs --------------------------
(***************************************************************************)
(* Theorems about ServoController: every joint is driven with the pulse of *)
(* its angle, ends up where the last command wants it, and the node is the *)
(* joint writer that JointWriter promises.                                 *)
(***************************************************************************)
EXTENDS ServoProofs

-----------------------------------------------------------------------------
(* Suffixes of a list. *)

LEMMA SuffixStep ==
  ASSUME NEW S, NEW p \in Seq(S), NEW h \in Seq(S), NEW n \in Nat, n = Len(p),
         NEW m \in Nat, 1 <= m, m <= n
  PROVE  /\ SubSeq(p, m, n) \o h # <<>>
         /\ Head(SubSeq(p, m, n) \o h) = p[m]
         /\ Tail(SubSeq(p, m, n) \o h) = SubSeq(p, m + 1, n) \o h
<1> DEFINE q == SubSeq(p, m, n)
<1>1. m \in 1 .. Len(p) /\ n \in m .. Len(p)
  OBVIOUS
<1>2. Head(q) = p[m] /\ Tail(q) = SubSeq(p, m + 1, n)
  BY <1>1, HeadTailOfSubSeq
<1>3. \A i \in m .. n : p[i] \in S
  BY <1>1, ElementOfSeq
<1>4. q \in Seq(S) /\ Len(q) = IF m <= n THEN n - m + 1 ELSE 0
  BY <1>3, SubSeqProperties
<1> HIDE DEF q
<1>5. q # <<>>
  <2>1. Len(q) # 0
    BY <1>4
  <2>2. QED
    BY <2>1, EmptySeq
<1>6. q \o h # <<>> /\ Head(q \o h) = Head(q) /\ Tail(q \o h) = Tail(q) \o h
  BY <1>4, <1>5, ConcatTail
<1>7. QED
  BY <1>2, <1>6 DEF q

LEMMA SuffixEnds ==
  ASSUME NEW S, NEW p \in Seq(S), NEW h \in Seq(S), NEW n \in Nat, n = Len(p)
  PROVE  /\ SubSeq(p, 1, n) \o h = p \o h
         /\ SubSeq(p, n + 1, n) \o h = h
<1>1. SubSeq(p, 1, n) = p
  BY SubSeqFull
<1>2. SubSeq(p, n + 1, n) = <<>>
  BY SubSeqEmpty
<1>3. <<>> \o h = h
  BY ConcatEmptySeq
<1>4. QED
  BY <1>1, <1>2, <1>3

-----------------------------------------------------------------------------
(* Every joint is driven with the pulse of its angle. *)

(* A board that is setting its frequency, before transfer n of the method. *)
At(board, driver, n) ==
  /\ n \in {1, 5, 6} => ~ board.asleep
  /\ n = 3 => board.asleep
  /\ n \in 2 .. 5 => ~ driver.mode
  /\ n >= 4 => board.prescale = Prescale
  /\ n = 6 => driver.prescale = Prescale

(* The constructor has yet to set the frequency of the boards.             *)
Starting ==
  \E p \in Seq(OpeningSteps) :
    /\ p # <<>> /\ todo = p \o (Tuning \o Homing)
    /\ \A s \in Sides :
         ~ boards[s].asleep \/ Awaits(p, Transfer(s, Bus("WriteMode1", Awake)))

(* It is setting it, at transfer m of the two boards' ten.                 *)
TuningAt(m) ==
  /\ todo = SubSeq(Tuning, m, 10) \o Homing
  /\ At(boards["L"], drivers["L"], IF m <= 5 THEN m ELSE 6)
  /\ At(boards["R"], drivers["R"], IF m <= 5 THEN 1 ELSE m - 5)

(* The count of the angle a motor is at, and whether the board holds it:   *)
(* its low byte before transfer three of the method that writes it, both   *)
(* bytes after that.                                                       *)
Target(i) == Ticks(motorAngle[i], Prescale)

Showing(i, n) ==
  /\ n >= 3 => boards[MotorTable[i].side].low[MotorTable[i].pin] = LowByte(Target(i))
  /\ n >= 4 => boards[MotorTable[i].side].high[MotorTable[i].pin] = HighByte(Target(i))

(* A motor is where it should be, or has yet to be brought to rest.        *)
Rests(rest, i) ==
  Showing(i, 4) \/ (phase = "constructing" /\ Awaits(rest, Home(i)))

Writing(i, n, rest) ==
  /\ todo = SubSeq(PulseSteps(i, Target(i)), n, 3) \o rest
  /\ Showing(i, n)
  /\ \A j \in Motors : j # i => Rests(rest, j)

Ready ==
  /\ \A s \in Sides : ~ boards[s].asleep /\ boards[s].prescale = Prescale
  /\ drivers["L"].prescale = Prescale

(* The boards are set, and one motor at a time is written.                 *)
Tuned ==
  /\ Ready
  /\ \/ todo \in Seq(Quiet) /\ \A j \in Motors : Rests(todo, j)
     \/ \E i \in Motors, n \in 1 .. 3, rest \in Seq(Quiet) : Writing(i, n, rest)

PulseInv ==
  /\ phase = "constructing" => Starting \/ Tuned \/ \E m \in 1 .. 10 : TuningAt(m)
  /\ phase \in {"testing", "spinning"} => Tuned

(* Each transfer of SetPWMFrequency does its part, twice if it is retried. *)
LEMMA TunePosition ==
  ASSUME NEW board \in Boards, NEW driver \in Drivers, NEW n \in 1 .. 5,
         At(board, driver, n)
  PROVE  LET t == SetPrescale(Prescale)[n] IN
         /\ At(Perform(board, driver, t), driver, n)
         /\ At(Perform(board, driver, t), Note(driver, board, t), n + 1)
<1> DEFINE t == SetPrescale(Prescale)[n]
<1>1. board.asleep \in BOOLEAN /\ driver.mode \in BOOLEAN
  BY DEF Boards, Drivers
<1>2. CASE n = 1
  <2>1. t = Bus("ReadMode1", 0)
    BY <1>2, TuningSteps
  <2>2. Perform(board, driver, t) = board /\ Note(driver, board, t) = [driver EXCEPT !.mode = board.asleep]
    BY <2>1 DEF Perform, Note, Bus
  <2>3. Note(driver, board, t).mode = board.asleep
    BY <2>2 DEF Drivers
  <2>4. QED
    BY <1>2, <2>2, <2>3 DEF At
<1>3. CASE n = 2
  <2>1. t = Bus("WriteMode1", Asleep)
    BY <1>3, TuningSteps
  <2>2. /\ Perform(board, driver, t) = [board EXCEPT !.asleep = (t.value = Asleep)]
        /\ Note(driver, board, t) = driver
        /\ t.value = Asleep
    BY <2>1 DEF Perform, Note, Bus
  <2>3. Perform(board, driver, t).asleep
    BY <2>2 DEF Boards
  <2>4. QED
    BY <1>3, <2>2, <2>3 DEF At
<1>4. CASE n = 3
  <2>1. t = Bus("WritePreScale", Prescale)
    BY <1>4, TuningSteps
  <2>2. board.asleep /\ ~ driver.mode
    BY <1>4 DEF At
  <2>3. /\ Perform(board, driver, t) = [board EXCEPT !.prescale = t.value]
        /\ Note(driver, board, t) = driver
        /\ t.value = Prescale
    BY <2>1, <2>2 DEF Perform, Note, Bus
  <2>4. /\ Perform(board, driver, t).prescale = Prescale
        /\ Perform(board, driver, t).asleep = board.asleep
    BY <2>3 DEF Boards
  <2>5. QED
    BY <1>4, <2>2, <2>3, <2>4 DEF At
<1>5. CASE n = 4
  <2>1. t = Bus("RestoreMode1", 0)
    BY <1>5, TuningSteps
  <2>2. ~ driver.mode /\ board.prescale = Prescale
    BY <1>5 DEF At
  <2>3. /\ Perform(board, driver, t) = [board EXCEPT !.asleep = driver.mode]
        /\ Note(driver, board, t) = driver
    BY <2>1 DEF Perform, Note, Bus
  <2>4. /\ Perform(board, driver, t).prescale = Prescale
        /\ Perform(board, driver, t).asleep = driver.mode
    BY <2>2, <2>3 DEF Boards
  <2>5. QED
    BY <1>5, <2>2, <2>3, <2>4 DEF At
<1>6. CASE n = 5
  <2>1. t = Bus("Restart", Prescale)
    BY <1>6, TuningSteps
  <2>2. ~ driver.mode /\ board.prescale = Prescale
    BY <1>6 DEF At
  <2>3. /\ Perform(board, driver, t) = [board EXCEPT !.asleep = driver.mode]
        /\ Note(driver, board, t) = [driver EXCEPT !.prescale = t.value]
        /\ t.value = Prescale
    BY <2>1 DEF Perform, Note, Bus
  <2>4. /\ Perform(board, driver, t).prescale = Prescale
        /\ Perform(board, driver, t).asleep = driver.mode
        /\ Note(driver, board, t).prescale = Prescale
    BY <2>2, <2>3 DEF Boards, Drivers
  <2>5. QED
    BY <1>6, <2>2, <2>4 DEF At
<1>7. QED
  BY <1>2, <1>3, <1>4, <1>5, <1>6

LEMMA TuningHead ==
  ASSUME NEW m \in 1 .. 10, TuningAt(m)
  PROVE  /\ todo # <<>>
         /\ Head(todo).kind = "transfer"
         /\ Head(todo).side = IF m <= 5 THEN "L" ELSE "R"
         /\ Head(todo).transfer = SetPrescale(Prescale)[IF m <= 5 THEN m ELSE m - 5]
         /\ Tail(todo) = SubSeq(Tuning, m + 1, 10) \o Homing
<1>1. todo = SubSeq(Tuning, m, 10) \o Homing
  BY DEF TuningAt
<1>2. /\ m \in Nat /\ 1 <= m /\ m <= 10 /\ 10 \in Nat /\ 10 = Len(Tuning)
      /\ Tuning \in Seq(Steps) /\ Homing \in Seq(Steps)
  BY ConstructParts, TuningSteps
<1>3. /\ todo # <<>> /\ Head(todo) = Tuning[m]
      /\ Tail(todo) = SubSeq(Tuning, m + 1, 10) \o Homing
  <2> DEFINE p == Tuning
             h == Homing
             n == 10
  <2>1. /\ p \in Seq(Steps) /\ h \in Seq(Steps) /\ n \in Nat /\ n = Len(p)
        /\ m \in Nat /\ 1 <= m /\ m <= n
    BY <1>2
  <2> HIDE DEF p, h, n
  <2>2. /\ SubSeq(p, m, n) \o h # <<>>
        /\ Head(SubSeq(p, m, n) \o h) = p[m]
        /\ Tail(SubSeq(p, m, n) \o h) = SubSeq(p, m + 1, n) \o h
    BY <2>1, SuffixStep, ZenonT(60)
  <2>3. todo = SubSeq(p, m, n) \o h
    BY <1>1 DEF p, h, n
  <2>4. todo # <<>> /\ Head(todo) = p[m] /\ Tail(todo) = SubSeq(p, m + 1, n) \o h
    BY <2>2, <2>3
  <2>5. QED
    BY <2>4 DEF p, h, n
<1>4. Tuning[m] = Transfer(IF m <= 5 THEN "L" ELSE "R",
                           SetPrescale(Prescale)[IF m <= 5 THEN m ELSE m - 5])
  <2>1. CASE m <= 5
    BY <2>1, TuningSteps
  <2>2. CASE ~ (m <= 5)
    <3>1. m - 5 \in 1 .. 5 /\ (m - 5) + 5 = m
      BY <2>2
    <3>2. QED
      BY <2>2, <3>1, TuningSteps
  <2>3. QED
    BY <2>1, <2>2
<1>5. QED
  <2> DEFINE side == IF m <= 5 THEN "L" ELSE "R"
             t == SetPrescale(Prescale)[IF m <= 5 THEN m ELSE m - 5]
  <2>1. Head(todo) = Transfer(side, t)
    BY <1>3, <1>4
  <2> HIDE DEF side, t
  <2>2. /\ Head(todo).kind = "transfer" /\ Head(todo).side = side
        /\ Head(todo).transfer = t
    BY <2>1, StepFields
  <2>3. QED
    BY <1>3, <2>2 DEF side, t

LEMMA HomingType ==
  /\ Homing \in Seq(Quiet) /\ Homing \in Seq(Steps)
  /\ \A j \in Motors : Awaits(Homing, Home(j))
<1>1. Check("motors script") \in Quiet /\ Check("homing script") \in Quiet
  BY StepType, StepFields DEF Quiet, Checks
<1>2. Homing \in Seq(Quiet)
  BY <1>1, QuietType, ListType, ConcatType DEF Homing
<1>3. Homing \in Seq(Steps)
  BY ConstructParts
<1> DEFINE a == <<Check("motors script")>>
           b == <<Check("homing script")>>
           h == [i \in Motors |-> Home(i)]
<1>4. a \in Seq(Steps) /\ b \in Seq(Steps) /\ h \in Seq(Steps)
  <2>1. Check("motors script") \in Steps /\ Check("homing script") \in Steps
    BY <1>1 DEF Quiet
  <2>2. h \in Seq(Steps)
    BY MotorsType, StepType, LenProperties, ServoAssumption
  <2>3. QED
    BY <2>1, <2>2, ListType
<1>5. \A j \in Motors : Awaits(h, Home(j))
  BY DEF Awaits
<1>6. Homing = a \o (b \o h)
  BY DEF Homing, RestoreDefaultPosition
<1> HIDE DEF a, b, h
<1>7. \A j \in Motors : Awaits(a \o (b \o h), Home(j))
  BY <1>4, <1>5, AwaitsConcat, ConcatType
<1>8. QED
  BY <1>2, <1>3, <1>6, <1>7

LEMMA TuningSucceed ==
  ASSUME TypeOK, NEW m \in 1 .. 10, TuningAt(m), Succeed,
         phase = "constructing"
  PROVE  Tuned' \/ \E n \in 1 .. 10 : TuningAt(n)'
<1> DEFINE side == IF m <= 5 THEN "L" ELSE "R"
           other == IF m <= 5 THEN "R" ELSE "L"
           n == IF m <= 5 THEN m ELSE m - 5
           t == SetPrescale(Prescale)[n]
<1>1. /\ Head(todo).side = side /\ Head(todo).transfer = t
      /\ todo' = SubSeq(Tuning, m + 1, 10) \o Homing /\ phase' = phase
  BY TuningHead DEF Succeed
<1>2. /\ side \in Sides /\ other \in Sides /\ side # other /\ n \in 1 .. 5
      /\ boards[side] \in Boards /\ drivers[side] \in Drivers
  BY DEF TypeOK, Sides
<1>3. /\ boards'[side] = Perform(boards[side], drivers[side], t)
      /\ drivers'[side] = Note(drivers[side], boards[side], t)
      /\ boards'[other] = boards[other] /\ drivers'[other] = drivers[other]
  BY <1>1, <1>2, SuccessStep
<1>4. At(boards[side], drivers[side], n)
  BY DEF TuningAt
<1>5. At(boards'[side], drivers'[side], n + 1)
  <2>1. \A board \in Boards, driver \in Drivers, k \in 1 .. 5 :
          At(board, driver, k) =>
            At(Perform(board, driver, SetPrescale(Prescale)[k]),
               Note(driver, board, SetPrescale(Prescale)[k]), k + 1)
    BY TunePosition
  <2>2. QED
    BY <1>2, <1>3, <1>4, <2>1
<1>6. CASE m < 10
  <2>1. At(boards'["L"], drivers'["L"], IF m + 1 <= 5 THEN m + 1 ELSE 6)
    <3>1. CASE m <= 5
      <4>1. side = "L" /\ n = m
        BY <3>1
      <4>2. At(boards'["L"], drivers'["L"], m + 1)
        BY <1>5, <4>1
      <4>3. (IF m + 1 <= 5 THEN m + 1 ELSE 6) = m + 1
        BY <3>1
      <4>4. QED
        BY <4>2, <4>3
    <3>2. CASE ~ (m <= 5)
      <4>1. At(boards["L"], drivers["L"], 6)
        BY <3>2 DEF TuningAt
      <4>2. boards'["L"] = boards["L"] /\ drivers'["L"] = drivers["L"]
        BY <1>3, <3>2
      <4>3. (IF m + 1 <= 5 THEN m + 1 ELSE 6) = 6
        BY <3>2
      <4>4. QED
        BY <4>1, <4>2, <4>3
    <3>3. QED
      BY <3>1, <3>2
  <2>2. At(boards'["R"], drivers'["R"], IF m + 1 <= 5 THEN 1 ELSE (m + 1) - 5)
    <3>1. CASE m <= 5
      <4>1. At(boards["R"], drivers["R"], 1)
        BY <3>1 DEF TuningAt
      <4>2. boards'["R"] = boards["R"] /\ drivers'["R"] = drivers["R"]
        BY <1>3, <3>1
      <4>3. (IF m + 1 <= 5 THEN 1 ELSE (m + 1) - 5) = 1
        BY <3>1
      <4>4. QED
        BY <4>1, <4>2, <4>3
    <3>2. CASE ~ (m <= 5)
      <4>1. side = "R" /\ n = m - 5
        BY <3>2
      <4>2. At(boards'["R"], drivers'["R"], (m - 5) + 1)
        BY <1>5, <4>1
      <4>3. (IF m + 1 <= 5 THEN 1 ELSE (m + 1) - 5) = (m - 5) + 1
        BY <3>2
      <4>4. QED
        BY <4>2, <4>3
    <3>3. QED
      BY <3>1, <3>2
  <2>3. m + 1 \in 1 .. 10
    BY <1>6
  <2>4. PICK k \in 1 .. 10 : k = m + 1
    BY <2>3
  <2>5. TuningAt(k)'
    BY <1>1, <2>1, <2>2, <2>4 DEF TuningAt
  <2>6. QED
    BY <2>5
<1>7. CASE m = 10
  <2>1. /\ At(boards'["R"], drivers'["R"], 6)
        /\ At(boards'["L"], drivers'["L"], 6)
    <3>1. At(boards["L"], drivers["L"], 6)
      BY <1>7 DEF TuningAt
    <3>2. boards'["L"] = boards["L"] /\ drivers'["L"] = drivers["L"]
      BY <1>3, <1>7
    <3>3. side = "R" /\ n + 1 = 6
      BY <1>7
    <3>4. QED
      BY <1>5, <3>1, <3>2, <3>3
  <2>2. Ready'
    BY <2>1 DEF At, Ready, Sides
  <2>3. todo' = Homing
    <3>1. /\ 10 \in Nat /\ 10 = Len(Tuning)
          /\ Tuning \in Seq(Steps) /\ Homing \in Seq(Steps)
      BY ConstructParts, TuningSteps
    <3>2. SubSeq(Tuning, 10 + 1, 10) \o Homing = Homing
      BY <3>1, SuffixEnds
    <3>3. QED
      BY <1>1, <1>7, <3>2
  <2>4. todo' \in Seq(Quiet) /\ \A j \in Motors : Rests(todo, j)'
    BY <1>1, <2>3, HomingType DEF Rests
  <2>5. QED
    BY <2>2, <2>4 DEF Tuned
<1>8. QED
  BY <1>6, <1>7

(* A transfer that fails may have done its part.                           *)
LEMMA TuningFail ==
  ASSUME TypeOK, NEW m \in 1 .. 10, TuningAt(m), Fail, todo' = todo
  PROVE  TuningAt(m)'
<1> DEFINE side == IF m <= 5 THEN "L" ELSE "R"
           other == IF m <= 5 THEN "R" ELSE "L"
           n == IF m <= 5 THEN m ELSE m - 5
           t == SetPrescale(Prescale)[n]
<1>1. Head(todo).side = side /\ Head(todo).transfer = t
  BY TuningHead
<1>2. /\ side \in Sides /\ other \in Sides /\ side # other /\ n \in 1 .. 5
      /\ boards[side] \in Boards /\ drivers[side] \in Drivers
  BY DEF TypeOK, Sides
<1>3. /\ \/ boards'[side] = boards[side]
         \/ boards'[side] = Perform(boards[side], drivers[side], t)
      /\ boards'[other] = boards[other]
      /\ drivers' = drivers
  BY <1>1, <1>2, BusStep, FailStep
<1>4. At(boards[side], drivers[side], n)
  BY DEF TuningAt
<1>5. At(boards'[side], drivers'[side], n)
  <2>1. \A board \in Boards, driver \in Drivers, k \in 1 .. 5 :
          At(board, driver, k) =>
            At(Perform(board, driver, SetPrescale(Prescale)[k]), driver, k)
    BY TunePosition
  <2>2. At(Perform(boards[side], drivers[side], t), drivers[side], n)
    BY <1>2, <1>4, <2>1
  <2>3. QED
    BY <1>3, <1>4, <2>2
<1>6. CASE m <= 5
  <2>1. boards'["R"] = boards["R"] /\ drivers'["R"] = drivers["R"]
    BY <1>3, <1>6
  <2>2. side = "L" /\ n = m
    BY <1>6
  <2>3. At(boards'["L"], drivers'["L"], m)
    BY <1>5, <2>2
  <2>4. QED
    BY <1>6, <2>1, <2>3 DEF TuningAt
<1>7. CASE ~ (m <= 5)
  <2>1. boards'["L"] = boards["L"] /\ drivers'["L"] = drivers["L"]
    BY <1>3, <1>7
  <2>2. side = "R" /\ n = m - 5
    BY <1>7
  <2>3. At(boards'["R"], drivers'["R"], m - 5)
    BY <1>5, <2>2
  <2>4. QED
    BY <1>7, <2>1, <2>3 DEF TuningAt
<1>8. QED
  BY <1>6, <1>7


(* What is left while the boards are opened and cleared.                   *)
Wakes(s) == Transfer(s, Bus("WriteMode1", Awake))

LEMMA StartingHead ==
  ASSUME NEW p \in Seq(OpeningSteps), p # <<>>, todo = p \o (Tuning \o Homing)
  PROVE  /\ todo # <<>> /\ Head(todo) \in OpeningSteps /\ Head(todo) = Head(p)
         /\ Tail(p) \in Seq(OpeningSteps)
         /\ Tail(todo) = Tail(p) \o (Tuning \o Homing)
<1> DEFINE S == OpeningSteps \cup Steps
           q == Tuning \o Homing
<1>1. q \in Seq(Steps)
  BY ConstructParts, ConcatType
<1> HIDE DEF q
<1>2. p \in Seq(S) /\ q \in Seq(S)
  BY <1>1, SeqMonotonic
<1> HIDE DEF S
<1>3. p \o q # <<>> /\ Head(p \o q) = Head(p) /\ Tail(p \o q) = Tail(p) \o q
  BY <1>2, ConcatTail
<1>4. Head(p) \in OpeningSteps /\ Tail(p) \in Seq(OpeningSteps)
  BY HeadTail
<1>5. QED
  BY <1>3, <1>4 DEF q

LEMMA StartingEnds ==
  ASSUME NEW q, q \in Seq(OpeningSteps), todo' = q \o (Tuning \o Homing),
         \A s \in Sides : ~ boards'[s].asleep \/ Awaits(q, Wakes(s))
  PROVE  Starting' \/ TuningAt(1)'
<1>1. CASE q # <<>>
  BY <1>1 DEF Starting, Wakes
<1>2. CASE q = <<>>
  <2> DEFINE p == Tuning
             h == Homing
             n == 10
  <2>1. /\ p \in Seq(Steps) /\ h \in Seq(Steps) /\ n \in Nat /\ n = Len(p)
    BY ConstructParts, TuningSteps
  <2> HIDE DEF p, h, n
  <2>2. p \o h \in Seq(Steps)
    BY <2>1, ConcatType
  <2>3. <<>> \o (p \o h) = p \o h
    BY <2>2, ConcatEmptySeq
  <2>4. SubSeq(p, 1, n) \o h = p \o h
    BY <2>1, SuffixEnds, ZenonT(60)
  <2>5. todo' = p \o h
    BY <1>2, <2>3 DEF p, h
  <2>6. todo' = SubSeq(p, 1, n) \o h
    BY <2>4, <2>5
  <2>7. todo' = SubSeq(Tuning, 1, 10) \o Homing
    BY <2>6 DEF p, h, n
  <2>8. \A s \in Sides : ~ boards'[s].asleep
    BY <1>2 DEF Awaits
  <2>9. QED
    BY <2>7, <2>8 DEF TuningAt, At, Sides
<1>3. QED
  BY <1>1, <1>2

(* Opening a board never puts it to sleep.                                 *)
LEMMA PerformOpens ==
  ASSUME NEW board \in Boards, NEW driver \in Drivers,
         NEW t \in OpenTransfers \cup {ReadPrescale},
         ~ board.asleep \/ t = Bus("WriteMode1", Awake)
  PROVE  ~ Perform(board, driver, t).asleep
<1>1. CASE t = Bus("WriteMode1", Awake)
  <2>1. Perform(board, driver, t) = [board EXCEPT !.asleep = (t.value = Asleep)]
    BY <1>1 DEF Perform, Bus
  <2>2. ~ (t.value = Asleep)
    BY <1>1 DEF Bus, Awake, Asleep
  <2>3. QED
    BY <2>1, <2>2 DEF Boards
<1>2. CASE t \in {OffLow(Channels, 0), OffHigh(Channels, 0)}
  BY <1>2, <1>1 DEF Perform, OffLow, OffHigh, Boards
<1>3. CASE t \in {Bus("Open", 0), On(Channels), Bus("WriteMode2", 4),
                  Bus("ReadMode1", 0), ReadPrescale}
  <2>1. Perform(board, driver, t) = board
    BY <1>3 DEF Perform, Bus, On, ReadPrescale
  <2>2. QED
    BY <1>1, <2>1
<1>4. QED
  BY <1>1, <1>2, <1>3 DEF OpenTransfers

LEMMA StartingTransfer ==
  ASSUME TypeOK, NEW p \in Seq(OpeningSteps), p # <<>>,
         todo = p \o (Tuning \o Homing), Succeed \/ Fail, NEW s \in Sides
  PROVE  /\ ~ boards[s].asleep => ~ boards'[s].asleep
         /\ Succeed /\ Head(p) = Wakes(s) => ~ boards'[s].asleep
<1>1. /\ Head(todo) = Head(p) /\ Head(todo) \in OpeningSteps
      /\ Head(todo).kind = "transfer"
      /\ \/ boards'[s] = boards[s]
         \/ /\ s = Head(todo).side
            /\ boards'[s] = Perform(boards[s], drivers[s], Head(todo).transfer)
  BY BusStep, StartingHead
<1>2. Head(todo).transfer \in OpenTransfers \cup {ReadPrescale}
  BY <1>1, StepFields DEF OpeningSteps
<1>3. boards[s] \in Boards /\ drivers[s] \in Drivers
  BY DEF TypeOK
<1>4. \A t \in OpenTransfers \cup {ReadPrescale} :
        ~ boards[s].asleep \/ t = Bus("WriteMode1", Awake)
        => ~ Perform(boards[s], drivers[s], t).asleep
  BY <1>3, PerformOpens
<1>5. ~ boards[s].asleep => ~ boards'[s].asleep
  BY <1>1, <1>2, <1>4
<1>6. ASSUME Succeed, Head(p) = Wakes(s) PROVE ~ boards'[s].asleep
  <2>1. Head(todo).side = s /\ Head(todo).transfer = Bus("WriteMode1", Awake)
    BY <1>1, <1>6, StepFields DEF Wakes
  <2>2. boards'[s] = Perform(boards[s], drivers[s], Head(todo).transfer)
    BY <1>6, <2>1, SuccessStep
  <2>3. QED
    BY <1>2, <1>4, <2>1, <2>2
<1>7. QED
  BY <1>5, <1>6

LEMMA StartingSucceed ==
  ASSUME TypeOK, Starting, Succeed PROVE Starting' \/ TuningAt(1)'
<1>1. PICK p \in Seq(OpeningSteps) :
        /\ p # <<>> /\ todo = p \o (Tuning \o Homing)
        /\ \A s \in Sides : ~ boards[s].asleep \/ Awaits(p, Wakes(s))
  BY DEF Starting, Wakes
<1>2. Tail(p) \in Seq(OpeningSteps) /\ todo' = Tail(p) \o (Tuning \o Homing)
  BY <1>1, StartingHead DEF Succeed
<1>3. \A s \in Sides : /\ ~ boards[s].asleep => ~ boards'[s].asleep
                       /\ Head(p) = Wakes(s) => ~ boards'[s].asleep
  BY <1>1, StartingTransfer
<1>4. \A s \in Sides : Awaits(p, Wakes(s)) =>
        Head(p) = Wakes(s) \/ Awaits(Tail(p), Wakes(s))
  BY <1>1, AwaitsTail
<1>5. \A s \in Sides : ~ boards'[s].asleep \/ Awaits(Tail(p), Wakes(s))
  BY <1>1, <1>3, <1>4
<1>6. QED
  BY <1>2, <1>5, StartingEnds

LEMMA StartingFail ==
  ASSUME TypeOK, Starting, Fail, todo' = todo PROVE Starting'
<1>1. PICK p \in Seq(OpeningSteps) :
        /\ p # <<>> /\ todo = p \o (Tuning \o Homing)
        /\ \A s \in Sides : ~ boards[s].asleep \/ Awaits(p, Wakes(s))
  BY DEF Starting, Wakes
<1>2. \A s \in Sides : ~ boards[s].asleep => ~ boards'[s].asleep
  BY <1>1, StartingTransfer
<1>3. QED
  BY <1>1, <1>2 DEF Starting, Wakes

LEMMA StartingInspect ==
  ASSUME TypeOK, Starting, boards' = boards, Head(todo) \in Quiet,
         \/ \E p \in Seq(Quiet) : todo' = p \o Tail(todo) /\ PutsFirst(Head(todo), p)
         \/ \E i \in Motors, degree \in Int : MoveOf(Head(todo), i, degree)
  PROVE  Starting' \/ TuningAt(1)'
<1>1. PICK p \in Seq(OpeningSteps) :
        /\ p # <<>> /\ todo = p \o (Tuning \o Homing)
        /\ \A s \in Sides : ~ boards[s].asleep \/ Awaits(p, Wakes(s))
  BY DEF Starting, Wakes
<1>2. /\ todo # <<>> /\ Head(todo) = Head(p) /\ Head(todo) \in OpeningSteps
      /\ Tail(p) \in Seq(OpeningSteps)
      /\ Tail(todo) = Tail(p) \o (Tuning \o Homing)
  BY <1>1, StartingHead
<1>3. Head(todo).kind = "check"
  BY <1>2, StepFields DEF OpeningSteps, Quiet
<1>4. PICK q \in Seq(Quiet) : todo' = q \o Tail(todo) /\ q = <<>>
  BY <1>3 DEF PutsFirst, MoveOf
<1>5. todo' = Tail(p) \o (Tuning \o Homing)
  <2>1. Tail(todo) \in Seq(Steps)
    BY <1>2, HeadTail DEF TypeOK
  <2>2. QED
    BY <1>2, <1>4, <2>1, ConcatEmptySeq
<1>6. \A s \in Sides : Head(p) # Wakes(s)
  BY <1>2, <1>3, StepFields DEF Wakes
<1>7. \A s \in Sides : ~ boards'[s].asleep \/ Awaits(Tail(p), Wakes(s))
  BY <1>1, <1>6, AwaitsTail
<1>8. QED
  BY <1>2, <1>5, <1>7, StartingEnds


-----------------------------------------------------------------------------
(* Writing a motor. *)

LEMMA TargetType ==
  ASSUME TypeOK, NEW i \in Motors PROVE Target(i) \in Counts
<1>1. motorAngle[i] \in Travel /\ Prescale \in Byte
  BY ServoAssumption DEF TypeOK, Travel, Byte
<1>2. \A angle \in Travel, prescale \in Byte : Ticks(angle, prescale) \in Counts
  BY TicksType
<1>3. QED
  BY <1>1, <1>2 DEF Target

(* The three transfers of a pulse, whatever follows them.                  *)
LEMMA PulseHead ==
  ASSUME NEW i \in Motors, NEW ticks \in Counts, NEW n \in 1 .. 3,
         NEW rest \in Seq(Steps)
  PROVE  LET q == SubSeq(PulseSteps(i, ticks), n, 3) \o rest IN
         /\ q # <<>> /\ Head(q) = PulseSteps(i, ticks)[n]
         /\ Tail(q) = SubSeq(PulseSteps(i, ticks), n + 1, 3) \o rest
<1> DEFINE p == PulseSteps(i, ticks)
           m == 3
<1>1. p \in Seq(Steps) /\ DOMAIN p = 1 .. 3
  BY PulseStepsSpec
<1>2. Len(p) = 3
  BY <1>1, LenProperties
<1>3. m \in Nat /\ m = Len(p) /\ n \in Nat /\ 1 <= n /\ n <= m
  BY <1>2
<1> HIDE DEF p, m
<1>4. /\ SubSeq(p, n, m) \o rest # <<>>
      /\ Head(SubSeq(p, n, m) \o rest) = p[n]
      /\ Tail(SubSeq(p, n, m) \o rest) = SubSeq(p, n + 1, m) \o rest
  BY <1>1, <1>3, SuffixStep, ZenonT(60)
<1>5. QED
  BY <1>4 DEF p, m

LEMMA PulseEnds ==
  ASSUME NEW i \in Motors, NEW ticks \in Counts, NEW rest \in Seq(Steps)
  PROVE  /\ SubSeq(PulseSteps(i, ticks), 1, 3) \o rest = PulseSteps(i, ticks) \o rest
         /\ SubSeq(PulseSteps(i, ticks), 4, 3) \o rest = rest
<1> DEFINE p == PulseSteps(i, ticks)
           m == 3
<1>1. p \in Seq(Steps) /\ DOMAIN p = 1 .. 3
  BY PulseStepsSpec
<1>2. Len(p) = 3
  BY <1>1, LenProperties
<1>3. p \in Seq(Steps) /\ m \in Nat /\ m = Len(p)
  BY <1>1, <1>2
<1>4. m + 1 = 4
  OBVIOUS
<1>5. p \in Seq(Steps) /\ rest \in Seq(Steps)
  BY <1>3
<1> HIDE DEF p, m
<1>6. \A k \in Nat : k = Len(p) =>
        /\ SubSeq(p, 1, k) \o rest = p \o rest
        /\ SubSeq(p, k + 1, k) \o rest = rest
  BY <1>5, SuffixEnds, ZenonT(60)
<1>7. /\ SubSeq(p, 1, m) \o rest = p \o rest
      /\ SubSeq(p, m + 1, m) \o rest = rest
  BY <1>3, <1>6
<1>8. QED
  BY <1>4, <1>7 DEF p, m

(* What a board holds of a count, before transfer n of its three.          *)
Holds(board, pin, ticks, n) ==
  /\ n >= 3 => board.low[pin] = LowByte(ticks)
  /\ n >= 4 => board.high[pin] = HighByte(ticks)

(* Transfer n of a motor changes nothing else on its board, and leaves it  *)
(* holding one byte more.                                                  *)
Positions(board, driver, i, ticks, n) ==
  LET step  == PulseSteps(i, ticks)[n]
      after == Perform(board, driver, step.transfer)
      pin   == MotorTable[i].pin
  IN  /\ step.kind = "transfer" /\ step.side = MotorTable[i].side
      /\ Note(driver, board, step.transfer) = driver
      /\ after.asleep = board.asleep /\ after.prescale = board.prescale
      /\ \A c \in Channels \ {pin} :
           after.low[c] = board.low[c] /\ after.high[c] = board.high[c]
      /\ Holds(board, pin, ticks, n) =>
           /\ Holds(after, pin, ticks, n)
           /\ Holds(after, pin, ticks, n + 1)

LEMMA PulsePosition ==
  ASSUME NEW board \in Boards, NEW driver \in Drivers, NEW i \in Motors,
         NEW ticks \in Counts, NEW n \in 1 .. 3
  PROVE  Positions(board, driver, i, ticks, n)
<1> DEFINE pin  == MotorTable[i].pin
           side == MotorTable[i].side
           step == PulseSteps(i, ticks)[n]
           low  == LowByte(ticks)
           high == HighByte(ticks)
<1>1. /\ pin \in Channels
      /\ n = 1 => step = Transfer(side, On({pin}))
      /\ n = 2 => step = Transfer(side, OffLow({pin}, low))
      /\ n = 3 => step = Transfer(side, OffHigh({pin}, high))
  BY PulseStepsSpec
<1> HIDE DEF pin, side, step, low, high
<1>2. step.kind = "transfer" /\ step.side = side
  BY <1>1, StepFields
<1>3. CASE n = 1
  <2>1. step.transfer = On({pin})
    BY <1>1, <1>3, StepFields
  <2>2. Perform(board, driver, step.transfer) = board
        /\ Note(driver, board, step.transfer) = driver
    BY <2>1 DEF On, Perform, Note
  <2>3. QED
    BY <1>2, <1>3, <2>2 DEF Positions, Holds, pin, side, step
<1>4. CASE n = 2
  <2>1. step.transfer = OffLow({pin}, low)
    BY <1>1, <1>4, StepFields
  <2>2. /\ Perform(board, driver, step.transfer) =
             [board EXCEPT !.low = [c \in Channels |->
                IF c \in {pin} THEN low ELSE board.low[c]]]
        /\ Note(driver, board, step.transfer) = driver
    BY <2>1 DEF OffLow, Perform, Note
  <2> DEFINE after == Perform(board, driver, step.transfer)
  <2>3. /\ after.asleep = board.asleep /\ after.prescale = board.prescale
        /\ after.low = [c \in Channels |->
                          IF c \in {pin} THEN low ELSE board.low[c]]
        /\ after.high = board.high
    BY <2>2 DEF Boards
  <2> HIDE DEF after
  <2>4. /\ after.low[pin] = low
        /\ \A c \in Channels \ {pin} : after.low[c] = board.low[c]
    BY <1>1, <2>3
  <2>5. Holds(after, pin, ticks, n) /\ Holds(after, pin, ticks, n + 1)
    BY <1>4, <2>4 DEF Holds, low
  <2>6. QED
    BY <1>2, <2>2, <2>3, <2>4, <2>5 DEF Positions, after, pin, side, step
<1>5. CASE n = 3
  <2>1. step.transfer = OffHigh({pin}, high)
    BY <1>1, <1>5, StepFields
  <2>2. /\ Perform(board, driver, step.transfer) =
             [board EXCEPT !.high = [c \in Channels |->
                IF c \in {pin} THEN high ELSE board.high[c]]]
        /\ Note(driver, board, step.transfer) = driver
    BY <2>1 DEF OffHigh, Perform, Note
  <2> DEFINE after == Perform(board, driver, step.transfer)
  <2>3. /\ after.asleep = board.asleep /\ after.prescale = board.prescale
        /\ after.high = [c \in Channels |->
                          IF c \in {pin} THEN high ELSE board.high[c]]
        /\ after.low = board.low
    BY <2>2 DEF Boards
  <2> HIDE DEF after
  <2>4. /\ after.high[pin] = high
        /\ \A c \in Channels \ {pin} : after.high[c] = board.high[c]
    BY <1>1, <2>3
  <2>5. Holds(board, pin, ticks, n) =>
          Holds(after, pin, ticks, n) /\ Holds(after, pin, ticks, n + 1)
    BY <1>5, <2>3, <2>4 DEF Holds, high
  <2>6. QED
    BY <1>2, <2>2, <2>3, <2>4, <2>5 DEF Positions, after, pin, side, step
<1>6. QED
  BY <1>3, <1>4, <1>5

(* Where a motor's transfer leaves the boards.                             *)
LEMMA WritingTransfer ==
  ASSUME TypeOK, Ready, NEW i \in Motors, NEW n \in 1 .. 3, NEW rest \in Seq(Quiet),
         Writing(i, n, rest), Succeed \/ Fail, motorAngle' = motorAngle,
         phase' = phase
  PROVE  /\ Tail(todo) = SubSeq(PulseSteps(i, Target(i)), n + 1, 3) \o rest
         /\ Succeed => Ready'
         /\ Fail => Ready'
         /\ Showing(i, n)'
         /\ Succeed => Showing(i, n + 1)'
         /\ \A j \in Motors : j # i /\ Rests(rest, j) => Rests(rest, j)'
<1> DEFINE side == MotorTable[i].side
           pin == MotorTable[i].pin
           ticks == Target(i)
           step == PulseSteps(i, ticks)[n]
<1>1. ticks \in Counts
  BY TargetType
<1>2. rest \in Seq(Steps)
  BY SeqMonotonic DEF Quiet
<1>3. /\ Head(todo) = step
      /\ Tail(todo) = SubSeq(PulseSteps(i, Target(i)), n + 1, 3) \o rest
  <2> HIDE DEF ticks
  <2>1. \A t \in Counts : LET q == SubSeq(PulseSteps(i, t), n, 3) \o rest IN
         /\ q # <<>> /\ Head(q) = PulseSteps(i, t)[n]
         /\ Tail(q) = SubSeq(PulseSteps(i, t), n + 1, 3) \o rest
    BY <1>2, PulseHead
  <2>2. todo = SubSeq(PulseSteps(i, ticks), n, 3) \o rest
    BY DEF Writing, ticks
  <2>3. QED
    BY <1>1, <2>1, <2>2 DEF ticks
<1>4. /\ side \in Sides /\ boards[side] \in Boards /\ drivers[side] \in Drivers
      /\ pin \in Channels
  BY MotorsType DEF TypeOK
<1> DEFINE after == Perform(boards[side], drivers[side], step.transfer)
<1>5. /\ step.kind = "transfer" /\ step.side = side
      /\ Note(drivers[side], boards[side], step.transfer) = drivers[side]
      /\ after.asleep = boards[side].asleep
      /\ after.prescale = boards[side].prescale
      /\ \A c \in Channels \ {pin} : /\ after.low[c] = boards[side].low[c]
                                     /\ after.high[c] = boards[side].high[c]
      /\ Holds(boards[side], pin, ticks, n) =>
           Holds(after, pin, ticks, n) /\ Holds(after, pin, ticks, n + 1)
  <2> DEFINE board == boards[side]
             driver == drivers[side]
  <2>1. board \in Boards /\ driver \in Drivers
    BY <1>4
  <2> HIDE DEF ticks, board, driver
  <2>2. Positions(board, driver, i, ticks, n)
    BY <1>1, <2>1, PulsePosition
  <2>3. QED
    BY <2>2 DEF Positions, board, driver
<1>6. \A s \in Sides : \/ boards'[s] = boards[s]
                       \/ s = side /\ boards'[s] = after
  BY <1>3, <1>5, BusStep
<1>7. Succeed => boards'[side] = after
  BY <1>3, <1>4, <1>5, SuccessStep
<1>8. drivers'["L"].prescale = drivers["L"].prescale
  <2>1. CASE Fail
    BY <2>1, FailStep
  <2>2. CASE Succeed
    <3>1. "L" \in Sides
      BY DEF Sides
    <3>2. drivers'["L"] = drivers["L"]
      BY <1>3, <1>5, <2>2, <3>1, SuccessStep, SMTT(30)
    <3>3. QED
      BY <3>2
  <2>3. QED
    BY <2>1, <2>2
<1> HIDE DEF after, step
<1>9. Ready'
  BY <1>5, <1>6, <1>8 DEF Ready
<1>10. Target(i)' = ticks /\ \A j \in Motors : Target(j)' = Target(j)
  BY DEF Target
<1>11. Holds(boards[side], pin, ticks, n)
  BY DEF Writing, Showing, Holds
<1>12. Holds(boards'[side], pin, ticks, n)
  BY <1>4, <1>5, <1>6, <1>11
<1>13. Succeed => Holds(boards'[side], pin, ticks, n + 1)
  BY <1>5, <1>7, <1>11
<1>14. Showing(i, n)' /\ (Succeed => Showing(i, n + 1)')
  BY <1>10, <1>12, <1>13 DEF Showing, Holds
<1>15. ASSUME NEW j \in Motors, j # i, Rests(rest, j) PROVE Rests(rest, j)'
  <2>1. /\ MotorTable[j].side \in Sides /\ MotorTable[j].pin \in Channels
        /\ MotorTable[j].side = side => MotorTable[j].pin # pin
    BY <1>15, MotorsType, ServoAssumption
  <2>2. /\ boards'[MotorTable[j].side].low[MotorTable[j].pin]
             = boards[MotorTable[j].side].low[MotorTable[j].pin]
        /\ boards'[MotorTable[j].side].high[MotorTable[j].pin]
             = boards[MotorTable[j].side].high[MotorTable[j].pin]
    BY <1>5, <1>6, <2>1
  <2>3. Showing(j, 4) => Showing(j, 4)'
    BY <1>10, <2>2 DEF Showing
  <2>4. QED
    BY <1>15, <2>3 DEF Rests
<1>16. QED
  BY <1>3, <1>9, <1>14, <1>15


LEMMA TargetStays ==
  ASSUME NEW i, motorAngle'[i] = motorAngle[i]
  PROVE  Target(i)' = Target(i)
BY DEF Target

LEMMA WritingSucceed ==
  ASSUME TypeOK, Ready, NEW i \in Motors, NEW n \in 1 .. 3, NEW rest \in Seq(Quiet),
         Writing(i, n, rest), Succeed
  PROVE  Tuned'
<1>1. motorAngle' = motorAngle /\ phase' = phase /\ todo' = Tail(todo)
  BY DEF Succeed
<1>2. /\ todo' = SubSeq(PulseSteps(i, Target(i)), n + 1, 3) \o rest
      /\ Ready' /\ Showing(i, n + 1)'
      /\ \A j \in Motors : j # i => Rests(rest, j)'
  <2>1. \A j \in Motors : j # i => Rests(rest, j)
    BY DEF Writing
  <2>2. QED
    BY <1>1, <2>1, WritingTransfer
<1>3. Target(i)' = Target(i)
  BY <1>1, TargetStays
<1>4. CASE n < 3
  <2>1. n + 1 \in 1 .. 3
    BY <1>4
  <2>2. PICK k \in 1 .. 3 : k = n + 1
    BY <2>1
  <2>3. Writing(i, k, rest)'
    BY <1>2, <1>3, <2>2 DEF Writing
  <2>4. QED
    BY <1>2, <2>3 DEF Tuned
<1>5. CASE n = 3
  <2>1. rest \in Seq(Steps) /\ Target(i) \in Counts
    BY SeqMonotonic, TargetType DEF Quiet
  <2>2. n + 1 = 4
    BY <1>5
  <2>3. todo' = rest
    <3>1. \A ticks \in Counts : SubSeq(PulseSteps(i, ticks), 4, 3) \o rest = rest
      BY <2>1, PulseEnds
    <3>2. QED
      BY <1>2, <2>1, <2>2, <3>1
  <2>4. Showing(i, 4)'
    BY <1>2, <2>2
  <2>5. \A j \in Motors : Rests(todo, j)'
    BY <1>2, <2>3, <2>4 DEF Rests
  <2>6. QED
    BY <1>2, <2>3, <2>5 DEF Tuned
<1>6. QED
  BY <1>4, <1>5

LEMMA TunedHead ==
  ASSUME TypeOK, Tuned, todo # <<>>, Head(todo).kind = "transfer"
  PROVE  \E i \in Motors, n \in 1 .. 3, rest \in Seq(Quiet) : Writing(i, n, rest)
<1>1. todo \notin Seq(Quiet)
  BY HeadTail DEF Quiet
<1>2. QED
  BY <1>1 DEF Tuned

LEMMA TunedFail ==
  ASSUME TypeOK, Tuned, Fail, todo' = todo, phase' = phase
  PROVE  Tuned'
<1>1. PICK i \in Motors, n \in 1 .. 3, rest \in Seq(Quiet) : Writing(i, n, rest)
  BY BusStep, TunedHead
<1>2. Ready /\ motorAngle' = motorAngle
  BY FailStep DEF Tuned
<1>3. /\ Ready' /\ Showing(i, n)'
      /\ \A j \in Motors : j # i => Rests(rest, j)'
  <2>1. \A j \in Motors : j # i => Rests(rest, j)
    BY <1>1 DEF Writing
  <2>2. QED
    BY <1>1, <1>2, <2>1, WritingTransfer
<1>4. Target(i)' = Target(i)
  BY <1>2, TargetStays
<1>5. Writing(i, n, rest)'
  BY <1>1, <1>3, <1>4 DEF Writing
<1>6. QED
  BY <1>3, <1>5 DEF Tuned

(* A motor that is not written keeps its pulse.                            *)
LEMMA ShowingStays ==
  ASSUME NEW j, NEW n, boards' = boards, motorAngle'[j] = motorAngle[j], Showing(j, n)
  PROVE  Showing(j, n)'
<1>1. Target(j)' = Target(j)
  BY TargetStays
<1>2. QED
  BY <1>1 DEF Showing

(* The head of a list is a step of a kind that brings no motor to rest, or *)
(* brings another one.                                                     *)
LEMMA RestsAdvance ==
  ASSUME todo \in Seq(Steps), todo # <<>>, NEW j \in Motors, Rests(todo, j),
         boards' = boards, phase' = phase, motorAngle'[j] = motorAngle[j],
         Head(todo) # Home(j), NEW p, p \in Seq(Steps)
  PROVE  /\ Showing(j, 4)' \/ (phase' = "constructing" /\ Awaits(Tail(todo), Home(j)))
         /\ Showing(j, 4)' \/ (phase' = "constructing" /\ Awaits(p \o Tail(todo), Home(j)))
<1>1. Showing(j, 4) => Showing(j, 4)'
  BY ShowingStays
<1>2. Awaits(todo, Home(j)) => Awaits(Tail(todo), Home(j))
  BY AwaitsTail
<1>3. Tail(todo) \in Seq(Steps)
  BY HeadTail
<1>4. Awaits(Tail(todo), Home(j)) => Awaits(p \o Tail(todo), Home(j))
  BY <1>3, AwaitsConcat
<1>5. QED
  BY <1>1, <1>2, <1>4 DEF Rests

LEMMA TunedQuiet ==
  ASSUME TypeOK, Tuned, todo # <<>>, Head(todo) \in Quiet
  PROVE  /\ todo \in Seq(Quiet) /\ Tail(todo) \in Seq(Quiet)
         /\ \A j \in Motors : Rests(todo, j)
<1>1. ASSUME NEW i \in Motors, NEW n \in 1 .. 3, NEW rest \in Seq(Quiet),
             Writing(i, n, rest)
      PROVE  FALSE
  <2>1. rest \in Seq(Steps) /\ Target(i) \in Counts
    BY SeqMonotonic, TargetType DEF Quiet
  <2>2. \A ticks \in Counts :
          Head(SubSeq(PulseSteps(i, ticks), n, 3) \o rest) = PulseSteps(i, ticks)[n]
    BY <2>1, PulseHead
  <2>3. Head(todo) = PulseSteps(i, Target(i))[n]
    BY <1>1, <2>1, <2>2 DEF Writing
  <2>4. ASSUME NEW ticks \in Counts PROVE PulseSteps(i, ticks)[n].kind = "transfer"
    <3> DEFINE step == PulseSteps(i, ticks)[n]
               side == MotorTable[i].side
    <3>1. /\ n = 1 => step = Transfer(side, On({MotorTable[i].pin}))
          /\ n = 2 => step = Transfer(side, OffLow({MotorTable[i].pin}, LowByte(ticks)))
          /\ n = 3 => step = Transfer(side, OffHigh({MotorTable[i].pin}, HighByte(ticks)))
      BY PulseStepsSpec
    <3> HIDE DEF step, side
    <3>2. \E t : step = Transfer(side, t)
      BY <3>1
    <3>3. QED
      BY <3>2, StepFields DEF step
  <2>5. QED
    BY <2>1, <2>3, <2>4 DEF Quiet
<1>2. todo \in Seq(Quiet) /\ \A j \in Motors : Rests(todo, j)
  BY <1>1 DEF Tuned
<1>3. QED
  BY <1>2, HeadTail

LEMMA TunedAdvance ==
  ASSUME TypeOK, Tuned, todo # <<>>, Head(todo) \in Quiet,
         UNCHANGED <<boards, drivers, phase, motorAngle>>,
         \E p \in Seq(Quiet) : todo' = p \o Tail(todo) /\ PutsFirst(Head(todo), p)
  PROVE  Tuned'
<1>1. /\ Tail(todo) \in Seq(Quiet) /\ todo \in Seq(Steps)
      /\ \A j \in Motors : Rests(todo, j)
  BY TunedQuiet DEF TypeOK
<1>2. PICK p \in Seq(Quiet) : todo' = p \o Tail(todo) /\ PutsFirst(Head(todo), p)
  OBVIOUS
<1>3. todo' \in Seq(Quiet)
  BY <1>1, <1>2, ConcatType
<1>4. p \in Seq(Steps)
  BY SeqMonotonic DEF Quiet
<1>5. \A j \in Motors : Head(todo) # Home(j)
  BY <1>2, StepFields DEF PutsFirst
<1>6. \A j \in Motors : Rests(todo, j)'
  <2> SUFFICES ASSUME NEW j \in Motors PROVE Rests(todo, j)'
    OBVIOUS
  <2>1. Showing(j, 4)' \/ (phase' = "constructing" /\ Awaits(p \o Tail(todo), Home(j)))
    BY <1>1, <1>4, <1>5, RestsAdvance
  <2>2. QED
    BY <1>2, <2>1 DEF Rests
<1>7. Ready'
  BY DEF Tuned, Ready
<1>8. QED
  BY <1>3, <1>6, <1>7 DEF Tuned

LEMMA TunedMove ==
  ASSUME TypeOK, Tuned, todo # <<>>, Head(todo) \in Quiet,
         NEW i \in Motors, NEW degree \in Int, Move(i, degree),
         MoveOf(Head(todo), i, degree)
  PROVE  Tuned'
<1> DEFINE angle == ValidateAngle(degree)
<1>1. /\ UNCHANGED <<boards, drivers, phase>>
      /\ angle \in Travel
      /\ motorAngle' = [motorAngle EXCEPT ![i] = angle]
      /\ todo' = PulseSteps(i, PulseWidth(angle)) \o Tail(todo)
  BY MoveSteps
<1> HIDE DEF angle
<1>2. /\ Tail(todo) \in Seq(Quiet) /\ todo \in Seq(Steps)
      /\ \A j \in Motors : Rests(todo, j)
  BY TunedQuiet DEF TypeOK
<1>3. PICK rest \in Seq(Quiet) : rest = Tail(todo)
  BY <1>2
<1>4. /\ motorAngle'[i] = angle
      /\ \A j \in Motors : j # i => motorAngle'[j] = motorAngle[j]
  BY <1>1 DEF TypeOK
<1>5. Target(i)' = PulseWidth(angle)
  BY <1>4 DEF Target, PulseWidth, Tuned, Ready
<1>6. todo' = SubSeq(PulseSteps(i, Target(i)'), 1, 3) \o rest
  <2>1. \A a \in Travel, prescale \in Byte : Ticks(a, prescale) \in Counts
    BY TicksType
  <2>2. drivers["L"].prescale \in Byte
    BY DEF TypeOK, Drivers, Sides
  <2>3. PulseWidth(angle) \in Counts
    BY <1>1, <2>1, <2>2 DEF PulseWidth
  <2>4. rest \in Seq(Steps)
    BY SeqMonotonic DEF Quiet
  <2>5. \A ticks \in Counts :
          SubSeq(PulseSteps(i, ticks), 1, 3) \o rest = PulseSteps(i, ticks) \o rest
    BY <2>4, PulseEnds
  <2>6. QED
    BY <1>1, <1>3, <1>5, <2>3, <2>5
<1>7. ASSUME NEW j \in Motors, j # i PROVE Rests(rest, j)'
  <2>1. Head(todo) # Home(j)
    BY <1>7, StepFields DEF MoveOf
  <2>2. <<>> \in Seq(Steps) /\ motorAngle'[j] = motorAngle[j]
    BY <1>4, <1>7
  <2>3. Showing(j, 4)' \/ (phase' = "constructing" /\ Awaits(Tail(todo), Home(j)))
    BY <1>1, <1>2, <2>1, <2>2, RestsAdvance
  <2>4. QED
    BY <1>3, <2>3 DEF Rests
<1>8. Showing(i, 1)'
  BY DEF Showing
<1>9. Writing(i, 1, rest)'
  BY <1>6, <1>7, <1>8 DEF Writing
<1>10. Ready'
  BY <1>1 DEF Tuned, Ready
<1>11. 1 \in 1 .. 3
  OBVIOUS
<1>12. QED
  BY <1>9, <1>10, <1>11 DEF Tuned

(* A process with nothing left to do has written every motor.              *)
LEMMA RestingShows ==
  ASSUME TypeOK, Tuned, todo = <<>>
  PROVE  \A j \in Motors : Showing(j, 4)
<1>1. ASSUME NEW i \in Motors, NEW n \in 1 .. 3, NEW rest \in Seq(Quiet),
             Writing(i, n, rest)
      PROVE  FALSE
  <2>1. rest \in Seq(Steps) /\ Target(i) \in Counts
    BY SeqMonotonic, TargetType DEF Quiet
  <2>2. \A ticks \in Counts : SubSeq(PulseSteps(i, ticks), n, 3) \o rest # <<>>
    BY <2>1, PulseHead
  <2>3. QED
    BY <1>1, <2>1, <2>2 DEF Writing
<1>2. \A j \in Motors : Rests(todo, j)
  BY <1>1 DEF Tuned
<1>3. QED
  BY <1>2 DEF Rests, Awaits

LEMMA TunedStarts ==
  ASSUME TypeOK, Tuned, todo = <<>>, UNCHANGED <<boards, drivers, motorAngle>>,
         todo' \in Seq(Quiet)
  PROVE  Tuned'
<1>1. \A j \in Motors : Showing(j, 4)
  BY RestingShows
<1>2. \A j \in Motors : Showing(j, 4)'
  BY <1>1, ShowingStays
<1>3. QED
  BY <1>2 DEF Tuned, Ready, Rests


LEMMA PulseStays ==
  ASSUME PulseInv, UNCHANGED <<boards, drivers, motorAngle, todo, phase>>
  PROVE  PulseInv'
<1>1. Starting' <=> Starting
  BY DEF Starting
<1>2. \A m \in 1 .. 10 : TuningAt(m)' <=> TuningAt(m)
  BY DEF TuningAt, At
<1>3. Tuned => Tuned'
  <2>1. Ready => Ready'
    BY DEF Ready
  <2>2. \A i \in Motors : Target(i)' = Target(i)
    BY DEF Target
  <2>3. \A i \in Motors, n \in 1 .. 4 : Showing(i, n) => Showing(i, n)'
    BY <2>2 DEF Showing
  <2>4. \A i \in Motors : Rests(todo, i) => Rests(todo, i)'
    BY <2>3 DEF Rests
  <2>5. ASSUME NEW i \in Motors, NEW n \in 1 .. 3, NEW rest \in Seq(Quiet),
               Writing(i, n, rest)
        PROVE  Writing(i, n, rest)'
    <3>1. \A j \in Motors : Rests(rest, j) => Rests(rest, j)'
      BY <2>3 DEF Rests
    <3>2. n \in 1 .. 4
      OBVIOUS
    <3>3. QED
      BY <2>2, <2>3, <2>5, <3>1, <3>2 DEF Writing
  <2>6. QED
    BY <2>1, <2>4, <2>5 DEF Tuned
<1>4. QED
  BY <1>1, <1>2, <1>3 DEF PulseInv

(* A process with nothing left to do has set its boards.                   *)
LEMMA TunedWhenDone ==
  ASSUME PulseInv, todo = <<>>, phase \in {"constructing", "testing", "spinning"}
  PROVE  Tuned
<1>1. ~ Starting
  BY StartingHead DEF Starting
<1>2. \A m \in 1 .. 10 : ~ TuningAt(m)
  BY TuningHead
<1>3. QED
  BY <1>1, <1>2 DEF PulseInv

LEMMA ThrowEnds == ASSUME Throw PROVE phase' = "destroying"
BY DEF Throw, Destroy

LEMMA PulseInit == Init => PulseInv
BY DEF Init, PulseInv

LEMMA PulseNext == TypeOK /\ PulseInv /\ [Next]_vars => PulseInv'
<1> SUFFICES ASSUME TypeOK, PulseInv, [Next]_vars,
                    phase' \in {"constructing", "testing", "spinning"}
             PROVE  PulseInv'
  BY DEF PulseInv
<1>1. CASE Respawn
  <2>1. phase' = "constructing" /\ todo' = Opening \o (Tuning \o Homing)
    BY <1>1, ConstructParts DEF Respawn
  <2>2. /\ Opening \in Seq(OpeningSteps)
        /\ \A s \in Sides : Awaits(Opening, Transfer(s, Bus("WriteMode1", Awake)))
    BY OpeningParts
  <2>3. Opening # <<>>
    <3>1. "L" \in Sides
      BY DEF Sides
    <3>2. QED
      BY <2>2, <3>1 DEF Awaits
  <2>4. Starting'
    BY <2>1, <2>2, <2>3 DEF Starting
  <2>5. QED
    BY <2>1, <2>4 DEF PulseInv
<1>2. CASE Constructed \/ Spin \/ WritePendingPose
  <2>1. /\ todo = <<>> /\ UNCHANGED <<boards, drivers, motorAngle>>
        /\ phase \in {"constructing", "testing", "spinning"}
        /\ phase' \in {"testing", "spinning"}
    BY <1>2 DEF Constructed, Spin, WritePendingPose
  <2>2. todo' \in Seq(Quiet)
    <3>1. CASE Constructed
      BY <3>1, QuietType DEF Constructed
    <3>2. CASE Spin
      BY <3>2 DEF Spin
    <3>3. CASE WritePendingPose
      <4>1. \A k \in DOMAIN pending : Write(pending[k]) \in Quiet
        <5>1. \A k \in DOMAIN pending : pending[k] \in PoseEntries
          BY LenProperties, ElementOfSeq DEF TypeOK
        <5>2. QED
          BY <5>1, StepType, StepFields DEF Quiet
      <4>2. Len(pending) \in Nat /\ DOMAIN pending = 1 .. Len(pending)
        BY LenProperties DEF TypeOK
      <4>3. [k \in DOMAIN pending |-> Write(pending[k])] \in Seq(Quiet)
        BY <4>1, <4>2
      <4>4. QED
        BY <3>3, <4>3 DEF WritePendingPose
    <3>4. QED
      BY <1>2, <3>1, <3>2, <3>3
  <2>3. Tuned'
    BY <2>1, <2>2, TunedWhenDone, TunedStarts
  <2>4. QED
    BY <2>1, <2>3 DEF PulseInv
<1>3. CASE Shutdown \/ Exit \/ Kill
  BY <1>3 DEF Shutdown, Destroy, Exit, Kill
<1>4. CASE Succeed
  <2>1. phase' = phase /\ todo # <<>> /\ Head(todo).kind = "transfer"
    BY <1>4, BusStep DEF Succeed
  <2>2. Tuned => Tuned'
    <3>1. Tuned => Ready
      BY DEF Tuned
    <3>2. QED
      BY <1>4, <2>1, <3>1, TunedHead, WritingSucceed
  <2>3. CASE phase = "constructing"
    <3>1. Starting => Starting' \/ TuningAt(1)'
      BY <1>4, StartingSucceed
    <3>2. \A m \in 1 .. 10 : TuningAt(m) =>
            Tuned' \/ \E n \in 1 .. 10 : TuningAt(n)'
      BY <1>4, <2>3, TuningSucceed
    <3>3. 1 \in 1 .. 10
      OBVIOUS
    <3>4. QED
      BY <2>1, <2>2, <2>3, <3>1, <3>2, <3>3 DEF PulseInv
  <2>4. CASE phase \in {"testing", "spinning"}
    BY <2>1, <2>2, <2>4 DEF PulseInv
  <2>5. QED
    BY <2>1, <2>3, <2>4
<1>5. CASE Fail
  <2>1. UNCHANGED <<phase, todo>>
    BY <1>5, FailStep, ThrowEnds
  <2>2. Tuned => Tuned'
    BY <1>5, <2>1, TunedFail
  <2>3. Starting => Starting'
    BY <1>5, <2>1, StartingFail
  <2>4. \A m \in 1 .. 10 : TuningAt(m) => TuningAt(m)'
    BY <1>5, <2>1, TuningFail
  <2>5. QED
    BY <2>1, <2>2, <2>3, <2>4 DEF PulseInv
<1>6. CASE Inspect \/ HomeMotor \/ SweepMotor \/ SetMotor \/ WriteEntry
  <2>1. /\ todo # <<>> /\ Head(todo) \in Quiet
        /\ UNCHANGED <<boards, drivers>>
    BY <1>6, OtherSteps
  <2>2. ~ Throw
    BY ThrowEnds
  <2>3. \A m \in 1 .. 10 : ~ TuningAt(m)
    BY <2>1, TuningHead DEF Quiet
  <2>4. CASE /\ UNCHANGED <<phase, motorAngle>>
             /\ \E p \in Seq(Quiet) : todo' = p \o Tail(todo) /\ PutsFirst(Head(todo), p)
    <3>1. Tuned => Tuned'
      BY <2>1, <2>4, TunedAdvance
    <3>2. Starting => Starting' \/ TuningAt(1)'
      BY <2>1, <2>4, StartingInspect
    <3>3. 1 \in 1 .. 10
      OBVIOUS
    <3>4. QED
      BY <2>3, <2>4, <3>1, <3>2, <3>3 DEF PulseInv
  <2>5. CASE \E i \in Motors, degree \in Int :
               Move(i, degree) /\ MoveOf(Head(todo), i, degree)
    <3>1. PICK i \in Motors, degree \in Int :
            Move(i, degree) /\ MoveOf(Head(todo), i, degree)
      BY <2>5
    <3>2. phase' = phase
      BY <3>1, MoveSteps
    <3>3. Tuned => Tuned'
      BY <2>1, <3>1, TunedMove
    <3>4. Starting => Starting' \/ TuningAt(1)'
      BY <2>1, <3>1, StartingInspect
    <3>5. 1 \in 1 .. 10
      OBVIOUS
    <3>6. QED
      BY <2>3, <3>2, <3>3, <3>4, <3>5 DEF PulseInv
  <2>6. QED
    BY <1>6, <2>2, <2>4, <2>5, OtherSteps
<1>7. CASE OnJointCommand \/ Publish \/ UNCHANGED vars
  <2>1. UNCHANGED <<boards, drivers, motorAngle, todo, phase>>
    BY <1>7 DEF OnJointCommand, Publish, vars
  <2>2. QED
    BY <2>1, PulseStays
<1>8. QED
  BY <1>1, <1>2, <1>3, <1>4, <1>5, <1>6, <1>7 DEF Next, Process

(* Two bytes make the count they are the bytes of.                         *)
LEMMA BytesOf ==
  ASSUME NEW ticks \in Counts
  PROVE  /\ HighByte(ticks) \in Nat /\ HighByte(ticks) < FullOff
         /\ 256 * HighByte(ticks) + LowByte(ticks) = ticks
BY DEF Counts, HighByte, LowByte, FullOff

(* Between callbacks every joint is driven with the pulse of the angle the *)
(* node believes it is at, at the frequency its own board really has: for  *)
(* every motor table, whatever state a killed process left the boards in,  *)
(* and however often a transfer had to be tried again.                     *)
THEOREM ServoPulsesMatchAngles == Spec => []PulsesMatchAngles
<1>1. TypeOK /\ PulseInv => PulsesMatchAngles
  <2> SUFFICES ASSUME TypeOK, PulseInv, AtRest, NEW i \in Motors
               PROVE  Pulse(boards[MotorTable[i].side], MotorTable[i].pin)
                        = Ticks(motorAngle[i], boards[MotorTable[i].side].prescale)
    BY DEF PulsesMatchAngles
  <2>1. Tuned
    BY TunedWhenDone DEF AtRest
  <2> DEFINE board == boards[MotorTable[i].side]
             pin == MotorTable[i].pin
  <2>2. Showing(i, 4)
    BY <2>1, RestingShows DEF AtRest
  <2>3. /\ board.low[pin] = LowByte(Target(i)) /\ board.high[pin] = HighByte(Target(i))
    BY <2>2 DEF Showing
  <2>4. ~ board.asleep /\ board.prescale = Prescale
    BY <2>1, MotorsType DEF Tuned, Ready
  <2>5. Target(i) \in Counts
    BY TargetType
  <2>6. Target(i) = Ticks(motorAngle[i], board.prescale)
    BY <2>4 DEF Target
  <2> HIDE DEF board, pin
  <2>7. HighByte(Target(i)) < FullOff /\ 256 * HighByte(Target(i)) + LowByte(Target(i)) = Target(i)
    BY <2>5, BytesOf
  <2>8. HighByte(Target(i)) \in Nat
    BY <2>5, BytesOf
  <2>9. ~ (HighByte(Target(i)) >= FullOff)
    BY <2>7, <2>8 DEF FullOff
  <2>10. Pulse(board, pin) = Target(i)
    BY <2>3, <2>4, <2>7, <2>9 DEF Pulse
  <2>11. QED
    BY <2>6, <2>10 DEF board, pin
<1>2. QED
  BY InitType, NextType, PulseInit, PulseNext, <1>1, PTL DEF Spec


-----------------------------------------------------------------------------
(* The joints end up where the last command wants them. *)

TransferSteps == {step \in Steps : step.kind = "transfer"}

Writes == [k \in DOMAIN latest |-> Write(latest[k])]

(* The entries up to n are written: of those for the same joint, the last. *)
WrittenUpTo(n) ==
  \A k \in 1 .. n :
    /\ Named(latest[k].name) # {}
    /\ \A l \in k + 1 .. n : latest[l].name # latest[k].name
    => motorAngle[FindMotor(latest[k].name)] = ValidateAngle(latest[k].degree)

(* The rest of one motor's transfers, then the entries after n.            *)
WritingFrom(n) ==
  /\ WrittenUpTo(n)
  /\ \E b \in Seq(TransferSteps) : todo = b \o SubSeq(Writes, n + 1, Len(latest))

LatestInv ==
  /\ phase # "spinning" => pending = <<>> /\ latest = <<>>
  /\ phase = "spinning" /\ pending # <<>> => pending = latest /\ todo = <<>>
  /\ phase = "spinning" /\ pending = <<>> =>
       \E n \in 0 .. Len(latest) : WritingFrom(n)

LEMMA WritesType ==
  ASSUME TypeOK
  PROVE  /\ Writes \in Seq(Steps) /\ Writes \in Seq(Quiet)
         /\ Len(latest) \in Nat /\ Len(Writes) = Len(latest)
         /\ DOMAIN latest = 1 .. Len(latest)
         /\ \A k \in 1 .. Len(latest) : /\ latest[k] \in PoseEntries
                                        /\ Writes[k] = Write(latest[k])
<1>1. /\ Len(latest) \in Nat /\ DOMAIN latest = 1 .. Len(latest)
      /\ \A k \in 1 .. Len(latest) : latest[k] \in PoseEntries
  BY LenProperties, ElementOfSeq DEF TypeOK
<1>2. \A k \in DOMAIN latest : Write(latest[k]) \in Steps /\ Write(latest[k]) \in Quiet
  BY <1>1, StepType, StepFields DEF Quiet
<1>3. Writes \in Seq(Steps) /\ Writes \in Seq(Quiet)
  BY <1>1, <1>2 DEF Writes
<1>4. /\ DOMAIN Writes = 1 .. Len(latest)
      /\ \A k \in 1 .. Len(latest) : Writes[k] = Write(latest[k])
  BY <1>1 DEF Writes
<1>5. Len(Writes) = Len(latest)
  BY <1>1, <1>3, <1>4, LenProperties
<1>6. QED
  BY <1>1, <1>3, <1>4, <1>5

(* What is left of the entries after n.                                    *)
LEMMA WritesLeft ==
  ASSUME TypeOK, NEW n \in Nat, n <= Len(latest)
  PROVE  LET q == SubSeq(Writes, n + 1, Len(latest)) IN
         /\ q \in Seq(Steps)
         /\ n = Len(latest) => q = <<>>
         /\ n < Len(latest) =>
              /\ q # <<>> /\ Head(q) = Write(latest[n + 1])
              /\ Tail(q) = SubSeq(Writes, (n + 1) + 1, Len(latest))
         /\ n = 0 => q = Writes
<1> DEFINE w == Writes
           m == Len(latest)
           q == SubSeq(w, n + 1, m)
<1>1. /\ w \in Seq(Steps) /\ m \in Nat /\ m = Len(w)
      /\ \A k \in 1 .. m : w[k] = Write(latest[k])
  BY WritesType
<1> HIDE DEF w, m
<1>2. \A i \in n + 1 .. m : w[i] \in Steps
  BY <1>1, ElementOfSeq
<1>3. q \in Seq(Steps) /\ Len(q) = IF n + 1 <= m THEN m - (n + 1) + 1 ELSE 0
  BY <1>1, <1>2, SubSeqProperties
<1>4. n = m => q = <<>>
  BY <1>1, <1>3, EmptySeq
<1>5. ASSUME n < m
      PROVE  /\ q # <<>> /\ Head(q) = w[n + 1] /\ n + 1 \in 1 .. m
             /\ Tail(q) = SubSeq(w, (n + 1) + 1, m)
  <2>1. n + 1 \in 1 .. Len(w) /\ m \in n + 1 .. Len(w)
    BY <1>1, <1>5
  <2>2. Head(q) = w[n + 1] /\ Tail(q) = SubSeq(w, (n + 1) + 1, m)
    BY <2>1, <1>1, HeadTailOfSubSeq
  <2>3. Len(q) # 0
    BY <1>1, <1>3, <1>5
  <2>4. q # <<>>
    BY <2>3, EmptySeq
  <2>5. QED
    BY <1>1, <2>1, <2>2, <2>4
<1>6. n = 0 => q = w
  BY <1>1, SubSeqFull
<1>7. QED
  BY <1>1, <1>3, <1>4, <1>5, <1>6 DEF w, m

(* A callback that is writing is at a transfer or at an entry.             *)
LEMMA WritingHead ==
  ASSUME TypeOK, NEW n \in Nat, n <= Len(latest), NEW b \in Seq(TransferSteps),
         todo = b \o SubSeq(Writes, n + 1, Len(latest)), todo # <<>>
  PROVE  \/ /\ b # <<>> /\ Head(todo).kind = "transfer"
            /\ Tail(b) \in Seq(TransferSteps)
            /\ Tail(todo) = Tail(b) \o SubSeq(Writes, n + 1, Len(latest))
         \/ /\ b = <<>> /\ n < Len(latest) /\ Head(todo) = Write(latest[n + 1])
            /\ Tail(todo) = SubSeq(Writes, (n + 1) + 1, Len(latest))
<1> DEFINE q == SubSeq(Writes, n + 1, Len(latest))
<1>1. /\ q \in Seq(Steps) /\ Len(latest) \in Nat
      /\ n = Len(latest) => q = <<>>
      /\ n < Len(latest) => /\ Head(q) = Write(latest[n + 1])
                            /\ Tail(q) = SubSeq(Writes, (n + 1) + 1, Len(latest))
  BY WritesLeft, WritesType
<1>2. b \in Seq(Steps)
  BY SeqMonotonic DEF TransferSteps
<1> HIDE DEF q
<1>3. todo = b \o q
  BY DEF q
<1>4. CASE b # <<>>
  <2>1. Head(todo) = Head(b) /\ Tail(todo) = Tail(b) \o q
    BY <1>1, <1>2, <1>3, <1>4, ConcatTail, ZenonT(60)
  <2>2. Head(b) \in TransferSteps /\ Tail(b) \in Seq(TransferSteps)
    BY <1>4, HeadTail
  <2>3. QED
    BY <1>4, <2>1, <2>2 DEF q, TransferSteps
<1>5. CASE b = <<>>
  <2>1. todo = q
    BY <1>1, <1>3, <1>5, ConcatEmptySeq
  <2>2. n # Len(latest)
    BY <1>1, <2>1
  <2>3. n < Len(latest)
    BY <1>1, <2>2
  <2>4. QED
    BY <1>1, <1>5, <2>1, <2>3
<1>6. QED
  BY <1>4, <1>5

(* An entry that is written does not undo those before it.                 *)
LEMMA WrittenNext ==
  ASSUME TypeOK, NEW n \in Nat, n < Len(latest), WrittenUpTo(n), latest' = latest,
         \/ Named(latest[n + 1].name) = {} /\ motorAngle' = motorAngle
         \/ /\ Named(latest[n + 1].name) # {}
            /\ motorAngle' = [motorAngle EXCEPT ![FindMotor(latest[n + 1].name)] =
                                ValidateAngle(latest[n + 1].degree)]
  PROVE  WrittenUpTo(n + 1)'
<1> DEFINE m == n + 1
           name == latest[m].name
<1> SUFFICES ASSUME NEW k \in 1 .. m, Named(latest[k].name) # {},
                    \A l \in k + 1 .. m : latest[l].name # latest[k].name
             PROVE  motorAngle'[FindMotor(latest[k].name)]
                      = ValidateAngle(latest[k].degree)
  BY DEF WrittenUpTo
<1>1. /\ FindMotor(latest[k].name) \in Motors
      /\ MotorTable[FindMotor(latest[k].name)].name = latest[k].name
  BY FindMotorSpec
<1>2. CASE k = m
  BY <1>1, <1>2 DEF TypeOK
<1>3. CASE k # m
  <2>1. k \in 1 .. n /\ m \in k + 1 .. m /\ \A l \in k + 1 .. n : l \in k + 1 .. m
    BY <1>3
  <2>2. motorAngle[FindMotor(latest[k].name)] = ValidateAngle(latest[k].degree)
    BY <2>1 DEF WrittenUpTo
  <2>3. latest[k].name # name
    BY <2>1
  <2>4. Named(name) # {} => FindMotor(name) # FindMotor(latest[k].name)
    BY <1>1, <2>3, FindMotorSpec
  <2>5. QED
    BY <1>1, <2>2, <2>4 DEF TypeOK
<1>4. QED
  BY <1>2, <1>3

LEMMA PulseIsTransfers ==
  ASSUME NEW i \in Motors, NEW ticks \in Counts
  PROVE  PulseSteps(i, ticks) \in Seq(TransferSteps)
<1> DEFINE p == PulseSteps(i, ticks)
           side == MotorTable[i].side
<1>1. /\ p \in Seq(Steps) /\ DOMAIN p = 1 .. 3
      /\ p[1] = Transfer(side, On({MotorTable[i].pin}))
      /\ p[2] = Transfer(side, OffLow({MotorTable[i].pin}, LowByte(ticks)))
      /\ p[3] = Transfer(side, OffHigh({MotorTable[i].pin}, HighByte(ticks)))
  BY PulseStepsSpec
<1> HIDE DEF p, side
<1>2. p[1].kind = "transfer" /\ p[2].kind = "transfer" /\ p[3].kind = "transfer"
  BY <1>1, StepFields
<1>3. \A k \in DOMAIN p : p[k] \in TransferSteps
  <2>1. \A k \in DOMAIN p : p[k] \in Steps /\ (k = 1 \/ k = 2 \/ k = 3)
    BY <1>1, LenProperties, ElementOfSeq, SMTT(30)
  <2>2. QED
    BY <1>2, <2>1 DEF TransferSteps
<1>4. QED
  BY <1>1, <1>3, SeqOver DEF p

(* A callback that is at a step that is no transfer writes an entry.       *)
LEMMA EntryHead ==
  ASSUME TypeOK, LatestInv, phase = "spinning", todo # <<>>, Head(todo) \in Quiet
  PROVE  \E n \in 0 .. Len(latest) :
           /\ WrittenUpTo(n) /\ n \in Nat /\ n < Len(latest) /\ pending = <<>>
           /\ Head(todo) = Write(latest[n + 1])
           /\ Tail(todo) = SubSeq(Writes, (n + 1) + 1, Len(latest))
<1>1. pending = <<>>
  BY DEF LatestInv
<1>2. PICK n \in 0 .. Len(latest) : WritingFrom(n)
  BY <1>1 DEF LatestInv
<1>3. PICK b \in Seq(TransferSteps) :
        todo = b \o SubSeq(Writes, n + 1, Len(latest))
  BY <1>2 DEF WritingFrom
<1>4. n \in Nat /\ n <= Len(latest)
  BY WritesType
<1>5. Head(todo).kind # "transfer"
  BY DEF Quiet
<1>6. /\ n < Len(latest) /\ Head(todo) = Write(latest[n + 1])
      /\ Tail(todo) = SubSeq(Writes, (n + 1) + 1, Len(latest))
  BY <1>3, <1>4, <1>5, WritingHead
<1>7. QED
  BY <1>1, <1>2, <1>4, <1>6 DEF WritingFrom

LEMMA LatestStays ==
  ASSUME LatestInv,
         UNCHANGED <<phase, pending, latest, todo, motorAngle>>
  PROVE  LatestInv'
<1>1. \A n \in 0 .. Len(latest) : WritingFrom(n) => WritingFrom(n)'
  BY DEF WritingFrom, WrittenUpTo, Writes
<1>2. QED
  BY <1>1 DEF LatestInv

(* Outside the callbacks nothing waits.                                    *)
LEMMA LatestElsewhere ==
  ASSUME LatestInv, phase # "spinning", UNCHANGED <<phase, pending, latest>>
  PROVE  LatestInv'
BY DEF LatestInv

LEMMA LatestThrow ==
  ASSUME LatestInv, Throw PROVE LatestInv'
BY DEF LatestInv, Throw, Destroy

LEMMA LatestInit == Init => LatestInv
BY DEF Init, LatestInv

(* A pose that is taken is written from its first entry.                   *)
LEMMA LatestBegins ==
  ASSUME TypeOK, phase' = "spinning", pending' = <<>>, latest' = latest,
         todo' = Writes
  PROVE  LatestInv'
<1> DEFINE w == Writes
           m == Len(latest)
<1>1. Writes' = Writes
  BY DEF Writes
<1>2. SubSeq(w, 0 + 1, m) = w /\ w \in Seq(Steps) /\ 0 \in 0 .. m
  BY WritesLeft, WritesType
<1>3. <<>> \in Seq(TransferSteps) /\ <<>> \o w = w
  BY <1>2, ConcatEmptySeq
<1>4. \E b \in Seq(TransferSteps) : todo' = b \o SubSeq(Writes', 0 + 1, Len(latest'))
  BY <1>1, <1>2, <1>3
<1>5. WritingFrom(0)'
  BY <1>4, SMTT(30) DEF WritingFrom, WrittenUpTo
<1>6. QED
  BY <1>2, <1>5 DEF LatestInv

LEMMA LatestNext == TypeOK /\ LatestInv /\ [Next]_vars => LatestInv'
<1> SUFFICES ASSUME TypeOK, LatestInv, [Next]_vars PROVE LatestInv'
  OBVIOUS
<1>1. CASE Respawn \/ Constructed \/ Exit
  BY <1>1 DEF Respawn, Constructed, Exit, LatestInv
<1>2. CASE Spin
  <2>1. /\ todo' = <<>> /\ latest = <<>> /\ phase' = "spinning" /\ pending' = <<>>
        /\ latest' = latest
    BY <1>2 DEF Spin, LatestInv
  <2>2. Writes = <<>>
    <3>1. Writes \in Seq(Steps) /\ Len(Writes) = Len(latest)
      BY WritesType
    <3>2. Len(Writes) = 0
      BY <2>1, <3>1
    <3>3. QED
      BY <3>1, <3>2, EmptySeq
  <2>3. QED
    BY <2>1, <2>2, LatestBegins
<1>3. CASE Shutdown \/ Kill
  BY <1>3 DEF Shutdown, Destroy, Kill, LatestInv
<1>4. CASE Succeed
  <2>1. /\ todo # <<>> /\ Head(todo).kind = "transfer" /\ todo' = Tail(todo)
        /\ UNCHANGED <<phase, pending, latest, motorAngle>>
    BY <1>4, BusStep DEF Succeed
  <2>2. CASE phase # "spinning"
    BY <2>1, <2>2, LatestElsewhere
  <2>3. CASE phase = "spinning"
    <3>1. pending = <<>>
      BY <2>1, <2>3 DEF LatestInv
    <3>2. PICK n \in 0 .. Len(latest) : WritingFrom(n)
      BY <2>3, <3>1 DEF LatestInv
    <3>3. PICK b \in Seq(TransferSteps) :
            todo = b \o SubSeq(Writes, n + 1, Len(latest))
      BY <3>2 DEF WritingFrom
    <3>4. n \in Nat /\ n <= Len(latest)
      BY WritesType
    <3>5. Write(latest[n + 1]).kind # "transfer"
      BY StepFields
    <3>6. /\ Tail(b) \in Seq(TransferSteps)
          /\ todo' = Tail(b) \o SubSeq(Writes, n + 1, Len(latest))
      BY <2>1, <3>3, <3>4, <3>5, WritingHead
    <3>7. Writes' = Writes
      BY <2>1 DEF Writes
    <3>8. WritingFrom(n)'
      BY <2>1, <3>2, <3>6, <3>7 DEF WritingFrom, WrittenUpTo
    <3>9. QED
      BY <2>1, <2>3, <3>1, <3>8 DEF LatestInv
  <2>4. QED
    BY <2>2, <2>3
<1>5. CASE Fail
  <2>1. UNCHANGED <<phase, todo, pending, latest, motorAngle>> \/ Throw
    BY <1>5, FailStep
  <2>2. QED
    BY <2>1, LatestStays, LatestThrow
<1>6. CASE Inspect \/ HomeMotor \/ SweepMotor \/ SetMotor \/ WriteEntry
  <2>1. /\ todo # <<>> /\ todo \in Seq(Steps) /\ Head(todo) \in Quiet
    BY <1>6, OtherSteps DEF TypeOK
  <2>2. CASE Throw
    BY <2>2, LatestThrow
  <2>3. ASSUME phase = "spinning"
        PROVE  \E n \in 0 .. Len(latest) :
                 /\ WrittenUpTo(n) /\ n \in Nat /\ n < Len(latest) /\ pending = <<>>
                 /\ Head(todo) = Write(latest[n + 1])
                 /\ Tail(todo) = SubSeq(Writes, (n + 1) + 1, Len(latest))
    BY <2>1, <2>3, EntryHead
  <2>4. ASSUME UNCHANGED <<phase, pending, latest>>, phase = "spinning",
               NEW b \in Seq(TransferSteps), todo' = b \o Tail(todo),
               \/ Named(Head(todo).name) = {} /\ motorAngle' = motorAngle
               \/ /\ Named(Head(todo).name) # {}
                  /\ motorAngle' = [motorAngle EXCEPT ![FindMotor(Head(todo).name)] =
                                      ValidateAngle(Head(todo).degree)]
        PROVE  LatestInv'
    <3>1. PICK n \in 0 .. Len(latest) :
            /\ WrittenUpTo(n) /\ n \in Nat /\ n < Len(latest) /\ pending = <<>>
            /\ Head(todo) = Write(latest[n + 1])
            /\ Tail(todo) = SubSeq(Writes, (n + 1) + 1, Len(latest))
      BY <2>3, <2>4
    <3>2. /\ Head(todo).name = latest[n + 1].name
          /\ Head(todo).degree = latest[n + 1].degree
      BY <3>1, StepFields
    <3>3. WrittenUpTo(n + 1)'
      BY <2>4, <3>1, <3>2, WrittenNext
    <3>4. n + 1 \in 0 .. Len(latest)
      BY <3>1, WritesType
    <3>5. PICK m \in 0 .. Len(latest) : m = n + 1
      BY <3>4
    <3>6. Writes' = Writes
      BY <2>4 DEF Writes
    <3>7. todo' = b \o SubSeq(Writes', m + 1, Len(latest'))
      BY <2>4, <3>1, <3>5, <3>6
    <3>8. WritingFrom(m)'
      BY <3>3, <3>5, <3>7 DEF WritingFrom
    <3>9. QED
      BY <2>4, <3>1, <3>8 DEF LatestInv
  <2>5. CASE /\ UNCHANGED <<phase, pending, latest, motorAngle>>
             /\ \E p \in Seq(Quiet) : todo' = p \o Tail(todo) /\ PutsFirst(Head(todo), p)
    <3>1. CASE phase # "spinning"
      BY <2>5, <3>1, LatestElsewhere
    <3>2. CASE phase = "spinning"
      <4>1. Head(todo).kind = "write"
        BY <2>3, <3>2, StepFields
      <4>2. todo' = <<>> \o Tail(todo) /\ Named(Head(todo).name) = {}
        BY <2>5, <4>1 DEF PutsFirst
      <4>3. <<>> \in Seq(TransferSteps)
        OBVIOUS
      <4>4. QED
        BY <2>4, <2>5, <3>2, <4>2, <4>3
    <3>3. QED
      BY <3>1, <3>2
  <2>6. CASE \E i \in Motors, degree \in Int :
               Move(i, degree) /\ MoveOf(Head(todo), i, degree)
    <3>1. PICK i \in Motors, degree \in Int :
            Move(i, degree) /\ MoveOf(Head(todo), i, degree)
      BY <2>6
    <3>2. /\ UNCHANGED <<phase, pending, latest>>
          /\ motorAngle' = [motorAngle EXCEPT ![i] = ValidateAngle(degree)]
          /\ PulseWidth(ValidateAngle(degree)) \in Counts
          /\ todo' = PulseSteps(i, PulseWidth(ValidateAngle(degree))) \o Tail(todo)
      BY <3>1, MoveSteps
    <3>3. CASE phase # "spinning"
      BY <3>2, <3>3, LatestElsewhere
    <3>4. CASE phase = "spinning"
      <4>1. Head(todo).kind = "write"
        BY <2>3, <3>4, StepFields
      <4>2. /\ Named(Head(todo).name) # {}
            /\ i = FindMotor(Head(todo).name) /\ degree = Head(todo).degree
        BY <3>1, <4>1 DEF MoveOf
      <4>3. \A ticks \in Counts : PulseSteps(i, ticks) \in Seq(TransferSteps)
        BY PulseIsTransfers
      <4>4. QED
        BY <2>4, <3>2, <3>4, <4>2, <4>3
    <3>5. QED
      BY <3>3, <3>4
  <2>7. QED
    BY <1>6, <2>2, <2>5, <2>6, OtherSteps
<1>7. CASE OnJointCommand
  <2>1. CASE UNCHANGED <<pending, latest>>
    BY <1>7, <2>1, LatestStays DEF OnJointCommand
  <2>2. CASE /\ Accepted(Head(topic))
             /\ pending' = Entries(Head(topic)) /\ latest' = pending'
    <3>1. phase' = "spinning" /\ todo' = <<>>
      BY <1>7 DEF OnJointCommand
    <3>2. pending' # <<>>
      <4>1. Head(topic).names # <<>> /\ Head(topic) \in Commands
        BY <1>7, <2>2, HeadTailProperties DEF OnJointCommand, Accepted, TypeOK
      <4>2. Head(topic).names \in Seq(Names)
        BY <4>1, ServoAssumption
      <4>3. 1 \in DOMAIN Head(topic).names
        BY <4>1, <4>2, HeadTail
      <4>4. QED
        BY <2>2, <4>3 DEF Entries
    <3>3. QED
      BY <2>2, <3>1, <3>2 DEF LatestInv
  <2>3. QED
    BY <1>7, <2>1, <2>2 DEF OnJointCommand
<1>8. CASE WritePendingPose
  <2>1. /\ pending = latest /\ phase' = "spinning" /\ pending' = <<>>
        /\ latest' = latest
    BY <1>8 DEF WritePendingPose, LatestInv
  <2>2. todo' = Writes
    BY <1>8, <2>1 DEF WritePendingPose, Writes
  <2>3. QED
    BY <2>1, <2>2, LatestBegins
<1>9. CASE Publish \/ UNCHANGED vars
  <2>1. UNCHANGED <<phase, pending, latest, todo, motorAngle>>
    BY <1>9 DEF Publish, vars
  <2>2. QED
    BY <2>1, LatestStays
<1>10. QED
  BY <1>1, <1>2, <1>3, <1>4, <1>5, <1>6, <1>7, <1>8, <1>9 DEF Next, Process

(* When nothing is left to write, every joint the last accepted command    *)
(* names is where that command wants it, whatever was refused, overtaken   *)
(* or unknown in between: the last entry of a name wins, and no entry      *)
(* reaches another name's motor.                                           *)
THEOREM ServoShowsLatest == Spec => []ShowsLatest
<1>1. TypeOK /\ LatestInv => ShowsLatest
  <2> SUFFICES ASSUME TypeOK, LatestInv, AtRest, pending = <<>>,
                      NEW k \in DOMAIN latest, Named(latest[k].name) # {},
                      \A l \in DOMAIN latest : l > k => latest[l].name # latest[k].name
               PROVE  motorAngle[FindMotor(latest[k].name)]
                        = ValidateAngle(latest[k].degree)
    BY DEF ShowsLatest
  <2>1. PICK n \in 0 .. Len(latest) : WritingFrom(n)
    BY DEF LatestInv, AtRest
  <2>2. PICK b \in Seq(TransferSteps) :
          todo = b \o SubSeq(Writes, n + 1, Len(latest))
    BY <2>1 DEF WritingFrom
  <2>3. n = Len(latest)
    <3>1. n \in Nat /\ n <= Len(latest) /\ Len(latest) \in Nat
      BY WritesType
    <3>2. SUFFICES ASSUME n < Len(latest) PROVE FALSE
      BY <3>1
    <3> DEFINE q == SubSeq(Writes, n + 1, Len(latest))
    <3>3. q \in Seq(Steps) /\ q # <<>>
      BY <3>1, <3>2, WritesLeft
    <3>4. b \in Seq(Steps)
      BY SeqMonotonic DEF TransferSteps
    <3>5. b \o q = <<>>
      BY <2>2 DEF AtRest
    <3> HIDE DEF q
    <3>6. Len(b) \in Nat /\ Len(q) \in Nat \ {0} /\ Len(b \o q) = Len(b) + Len(q)
      BY <3>3, <3>4, HeadTail, LenProperties, ConcatProperties
    <3>7. QED
      BY <3>5, <3>6
  <2>4. k \in 1 .. n /\ \A l \in k + 1 .. n : l \in DOMAIN latest /\ l > k
    BY <2>3, WritesType
  <2>5. QED
    BY <2>1, <2>4 DEF WritingFrom, WrittenUpTo
<1>2. QED
  BY InitType, NextType, LatestInit, LatestNext, <1>1, PTL DEF Spec


-----------------------------------------------------------------------------
(* Every joint is at rest when the node starts to listen. *)

(* No step of the list writes a pose, and one that moves a motor to a test *)
(* angle is followed by every motor's way home.                            *)
ReturnsAt(q, k) ==
  /\ q[k].kind # "write"
  /\ q[k].kind = "set" =>
       \A i \in Motors : \E l \in DOMAIN q : l > k /\ q[l] = Home(i)

Returns(q) == \A k \in DOMAIN q : ReturnsAt(q, k)

AtHome(i) ==
  /\ configuration.homing[i] # Missing
  /\ motorAngle[i] = ValidateAngle(configuration.homing[i])

HomeInv ==
  phase \in {"constructing", "testing"} =>
    Returns(todo) /\ \A i \in Motors : AtHome(i) \/ Awaits(todo, Home(i))

LEMMA ReturnsTail ==
  ASSUME NEW q \in Seq(Steps), q # <<>>, Returns(q)
  PROVE  /\ Head(q).kind # "write"
         /\ Head(q).kind = "set" => \A i \in Motors : Awaits(Tail(q), Home(i))
         /\ Returns(Tail(q))
<1>1. ReturnsAt(q, 1) /\ Head(q) = q[1] /\ 1 \in DOMAIN q
  BY HeadTail DEF Returns
<1>2. ASSUME NEW k \in DOMAIN q, NEW i \in Motors,
             \E l \in DOMAIN q : l > k /\ q[l] = Home(i)
      PROVE  \E l \in DOMAIN Tail(q) : l > k - 1 /\ Tail(q)[l] = Home(i)
  <2>1. PICK l \in DOMAIN q : l > k /\ q[l] = Home(i)
    BY <1>2
  <2>2. l - 1 \in DOMAIN Tail(q) /\ l - 1 > k - 1 /\ (l - 1) + 1 = l
    BY <2>1, HeadTail
  <2>3. Tail(q)[l - 1] = Home(i)
    BY <2>1, <2>2, HeadTail
  <2>4. QED
    BY <2>2, <2>3
<1>3. Head(q).kind = "set" => \A i \in Motors : Awaits(Tail(q), Home(i))
  BY <1>1, <1>2 DEF ReturnsAt, Awaits
<1>4. ASSUME NEW k \in DOMAIN Tail(q) PROVE ReturnsAt(Tail(q), k)
  <2>1. k + 1 \in DOMAIN q /\ Tail(q)[k] = q[k + 1] /\ (k + 1) - 1 = k
    BY HeadTail
  <2>2. ReturnsAt(q, k + 1)
    BY <2>1 DEF Returns
  <2>3. QED
    BY <1>2, <2>1, <2>2 DEF ReturnsAt
<1>5. QED
  BY <1>1, <1>3, <1>4 DEF Returns, ReturnsAt

LEMMA ReturnsConcat ==
  ASSUME NEW p \in Seq(Steps), NEW q \in Seq(Steps), Returns(q),
         Returns(p) \/ /\ \A k \in DOMAIN p : p[k].kind # "write"
                       /\ \A i \in Motors : Awaits(q, Home(i))
  PROVE  Returns(p \o q)
<1> DEFINE r == p \o q
<1> SUFFICES ASSUME NEW k \in DOMAIN r PROVE ReturnsAt(r, k)
  BY DEF Returns
<1>1. CASE k \notin DOMAIN p
  <2>1. k - Len(p) \in DOMAIN q /\ r[k] = q[k - Len(p)] /\ Len(p) \in Nat /\ k \in Nat
    BY <1>1, Concat
  <2>2. ReturnsAt(q, k - Len(p))
    BY <2>1 DEF Returns
  <2>3. ASSUME NEW i \in Motors, NEW l \in DOMAIN q, l > k - Len(p), q[l] = Home(i)
        PROVE  \E m \in DOMAIN r : m > k /\ r[m] = Home(i)
    <3>1. l + Len(p) \in DOMAIN r /\ r[l + Len(p)] = q[l] /\ DOMAIN q = 1 .. Len(q)
      BY Concat
    <3>2. l \in Nat
      BY <3>1, LenProperties
    <3>3. l + Len(p) > k
      BY <2>1, <2>3, <3>2
    <3>4. QED
      BY <2>3, <3>1, <3>3
  <2>4. QED
    BY <2>1, <2>2, <2>3 DEF ReturnsAt
<1>2. CASE k \in DOMAIN p /\ Returns(p)
  <2>1. r[k] = p[k] /\ ReturnsAt(p, k)
    BY <1>2, Concat DEF Returns
  <2>2. \A l \in DOMAIN p : l \in DOMAIN r /\ r[l] = p[l]
    BY Concat
  <2>3. QED
    BY <2>1, <2>2 DEF ReturnsAt
<1>3. CASE /\ k \in DOMAIN p /\ \A l \in DOMAIN p : p[l].kind # "write"
           /\ \A i \in Motors : Awaits(q, Home(i))
  <2>1. r[k] = p[k] /\ k \in 1 .. Len(p) /\ Len(p) \in Nat
    BY <1>3, Concat
  <2>2. ASSUME NEW i \in Motors PROVE \E m \in DOMAIN r : m > k /\ r[m] = Home(i)
    <3>1. PICK l \in DOMAIN q : q[l] = Home(i)
      BY <1>3 DEF Awaits
    <3>2. l + Len(p) \in DOMAIN r /\ r[l + Len(p)] = Home(i) /\ l \in 1 .. Len(q)
      BY <3>1, Concat
    <3>3. l + Len(p) > k
      BY <2>1, <3>2, LenProperties
    <3>4. QED
      BY <3>2, <3>3
  <2>3. QED
    BY <1>3, <2>1, <2>2 DEF ReturnsAt
<1>4. QED
  BY <1>1, <1>2, <1>3

(* A list that sets and writes nothing.                                    *)
StillSteps == {step \in Steps : step.kind \notin {"write", "set"}}

LEMMA StillReturns ==
  ASSUME NEW q \in Seq(StillSteps)
  PROVE  q \in Seq(Steps) /\ Returns(q)
<1>1. \A k \in DOMAIN q : q[k] \in StillSteps
  BY LenProperties, ElementOfSeq
<1>2. q \in Seq(Steps)
  BY SeqMonotonic DEF StillSteps
<1>3. QED
  BY <1>1, <1>2 DEF StillSteps, Returns, ReturnsAt

(* Every way home, and what the constructor and the test do, return.       *)
LEMMA RestoreReturns ==
  /\ RestoreDefaultPosition \in Seq(StillSteps)
  /\ \A j \in Motors : Awaits(RestoreDefaultPosition, Home(j))
<1>1. Check("homing script") \in StillSteps
  BY StepType, StepFields DEF StillSteps, Checks
<1> DEFINE a == <<Check("homing script")>>
           h == [i \in Motors |-> Home(i)]
<1>2. a \in Seq(StillSteps)
  BY <1>1, ListType
<1>3. h \in Seq(StillSteps)
  <2>1. \A i \in Motors : Home(i) \in StillSteps
    BY StepType, StepFields DEF StillSteps
  <2>2. QED
    BY <2>1, MotorsType, LenProperties, ServoAssumption
<1>4. \A j \in Motors : Awaits(h, Home(j))
  BY DEF Awaits
<1>5. RestoreDefaultPosition = a \o h
  BY DEF RestoreDefaultPosition
<1> HIDE DEF a, h
<1>6. QED
  BY <1>2, <1>3, <1>4, <1>5, ConcatType, AwaitsConcat

LEMMA PerformTestReturns ==
  PerformTest \in Seq(StillSteps)
<1>1. \A i \in Motors : Sweep(i) \in StillSteps
  BY StepType, StepFields DEF StillSteps
<1>2. [i \in Motors |-> Sweep(i)] \in Seq(StillSteps)
  BY <1>1, MotorsType, LenProperties, ServoAssumption
<1>3. <<>> \in Seq(StillSteps)
  OBVIOUS
<1>4. QED
  BY <1>2, <1>3, RestoreReturns, ConcatType DEF PerformTest

LEMMA SweepReturns ==
  ASSUME NEW i \in Motors
  PROVE  /\ SweepOf(i) \in Seq(Steps) /\ Returns(SweepOf(i))
         /\ \A j \in Motors : Awaits(SweepOf(i), Home(j))
<1> DEFINE s == [a \in DOMAIN SweepAngles |-> SetTo(i, SweepAngles[a])]
           r == RestoreDefaultPosition
<1>1. s \in Seq(Steps)
  BY SweepType
<1>2. \A k \in DOMAIN s : s[k].kind # "write"
  BY StepFields
<1>3. r \in Seq(Steps) /\ Returns(r) /\ \A j \in Motors : Awaits(r, Home(j))
  BY RestoreReturns, StillReturns
<1>4. SweepOf(i) = s \o r
  BY DEF SweepOf
<1> HIDE DEF s, r
<1>5. Returns(s \o r)
  BY <1>1, <1>2, <1>3, ReturnsConcat
<1>6. \A j \in Motors : Awaits(s \o r, Home(j))
  BY <1>1, <1>3, AwaitsConcat
<1>7. s \o r \in Seq(Steps)
  BY <1>1, <1>3, ConcatType
<1>8. QED
  BY <1>4, <1>5, <1>6, <1>7

LEMMA ConstructReturns ==
  /\ Returns(Construct)
  /\ \A j \in Motors : Awaits(Construct, Home(j))
<1> DEFINE o == Opening
           t == Tuning
           h == Homing
<1>1. o \in Seq(StillSteps)
  <2>1. o \in Seq(Steps) /\ o \in Seq(OpeningSteps)
    BY OpeningParts
  <2>2. \A k \in DOMAIN o : o[k] \in Steps /\ o[k] \in OpeningSteps
    BY <2>1, LenProperties, ElementOfSeq
  <2>3. \A step \in OpeningSteps : step.kind \in {"check", "transfer"}
    BY StepFields DEF OpeningSteps
  <2>4. \A k \in DOMAIN o : o[k] \in StillSteps
    BY <2>2, <2>3 DEF StillSteps
  <2> HIDE DEF o
  <2>5. QED
    BY <2>1, <2>4, SeqOver
<1>2. t \in Seq(StillSteps)
  <2>1. ASSUME NEW side \in Sides PROVE Do(side, SetPrescale(Prescale)) \in Seq(StillSteps)
    <3> DEFINE q == Do(side, SetPrescale(Prescale))
    <3>1. q \in Seq(Steps) /\ \A k \in DOMAIN q : q[k].kind = "transfer"
      BY SetPrescaleType, DoSteps, StepFields
    <3> HIDE DEF q
    <3>2. \A k \in DOMAIN q : q[k] \in StillSteps
      BY <3>1, LenProperties, ElementOfSeq DEF StillSteps
    <3>3. q \in Seq(StillSteps)
      BY <3>1, <3>2, SeqOver
    <3>4. QED
      BY <3>3 DEF q
  <2>2. QED
    BY <2>1, ConcatType DEF Tuning, Sides
<1>3. h \in Seq(StillSteps)
  <2>1. Check("motors script") \in StillSteps
    BY StepType, StepFields DEF StillSteps, Checks
  <2>2. QED
    BY <2>1, RestoreReturns, ListType, ConcatType DEF Homing
<1>4. \A j \in Motors : Awaits(h, Home(j))
  BY HomingType
<1>5. Construct = o \o (t \o h)
  BY ConstructParts
<1> HIDE DEF o, t, h
<1>6. t \o h \in Seq(StillSteps)
  BY <1>2, <1>3, ConcatType
<1>7. \A j \in Motors : Awaits(t \o h, Home(j))
  BY <1>2, <1>3, <1>4, AwaitsConcat
<1>8. o \o (t \o h) \in Seq(StillSteps) /\ \A j \in Motors : Awaits(o \o (t \o h), Home(j))
  <2> DEFINE u == t \o h
  <2>1. u \in Seq(StillSteps) /\ \A j \in Motors : Awaits(u, Home(j))
    BY <1>6, <1>7
  <2> HIDE DEF u
  <2>2. o \o u \in Seq(StillSteps) /\ \A j \in Motors : Awaits(o \o u, Home(j))
    BY <1>1, <2>1, ConcatType, AwaitsConcat
  <2>3. QED
    BY <2>2 DEF u
<1>9. QED
  BY <1>5, <1>8, StillReturns


LEMMA HomeInit == Init => HomeInv
BY DEF Init, HomeInv

(* What is left after a step that is neither a way home nor a test angle.  *)
LEMMA HomeTail ==
  ASSUME TypeOK, HomeInv, phase \in {"constructing", "testing"}, todo # <<>>
  PROVE  /\ Tail(todo) \in Seq(Steps) /\ Returns(Tail(todo))
         /\ Head(todo).kind # "write"
         /\ Head(todo).kind = "set" => \A i \in Motors : Awaits(Tail(todo), Home(i))
         /\ \A i \in Motors : Head(todo) # Home(i) =>
              AtHome(i) \/ Awaits(Tail(todo), Home(i))
<1>1. todo \in Seq(Steps) /\ Returns(todo)
  BY DEF TypeOK, HomeInv
<1>2. ASSUME NEW i \in Motors, Head(todo) # Home(i), ~ AtHome(i)
      PROVE  Awaits(Tail(todo), Home(i))
  BY <1>1, <1>2, AwaitsTail DEF HomeInv
<1>3. Tail(todo) \in Seq(Steps)
  BY <1>1, HeadTail
<1>4. QED
  BY <1>1, <1>2, <1>3, ReturnsTail

LEMMA HomeNext == TypeOK /\ HomeInv /\ [Next]_vars => HomeInv'
<1> SUFFICES ASSUME TypeOK, HomeInv, [Next]_vars,
                    phase' \in {"constructing", "testing"}
             PROVE  HomeInv'
  BY DEF HomeInv
<1>1. CASE Respawn
  BY <1>1, ConstructReturns DEF Respawn, HomeInv
<1>2. CASE Constructed
  <2>1. /\ phase = "constructing" /\ todo = <<>> /\ todo' = PerformTest
        /\ UNCHANGED <<configuration, motorAngle>>
    BY <1>2 DEF Constructed
  <2>2. \A i \in Motors : AtHome(i)
    BY <2>1 DEF HomeInv, Awaits
  <2>3. \A i \in Motors : AtHome(i)'
    BY <2>1, <2>2 DEF AtHome
  <2>4. QED
    BY <2>1, <2>3, PerformTestReturns, StillReturns DEF HomeInv
<1>3. CASE Spin \/ Shutdown \/ Exit \/ Kill \/ OnJointCommand \/ WritePendingPose
  BY <1>3 DEF Spin, Shutdown, Destroy, Exit, Kill, OnJointCommand, WritePendingPose
<1>4. CASE Succeed
  <2>1. /\ todo # <<>> /\ Head(todo).kind = "transfer" /\ todo' = Tail(todo)
        /\ UNCHANGED <<configuration, phase, motorAngle>>
    BY <1>4, BusStep DEF Succeed
  <2>2. \A i \in Motors : Head(todo) # Home(i)
    BY <2>1, StepFields
  <2>3. /\ Returns(todo')
        /\ \A i \in Motors : AtHome(i) \/ Awaits(todo', Home(i))
    BY <2>1, <2>2, HomeTail
  <2>4. QED
    BY <2>1, <2>3 DEF HomeInv, AtHome
<1>5. CASE Fail
  <2>1. UNCHANGED <<phase, todo, configuration, motorAngle>>
    BY <1>5, FailStep, ThrowEnds
  <2>2. QED
    BY <2>1 DEF HomeInv, AtHome, Returns, ReturnsAt
<1>6. CASE Inspect \/ HomeMotor \/ SweepMotor \/ SetMotor \/ WriteEntry
  <2>1. /\ todo # <<>> /\ Head(todo) \in Quiet /\ configuration' = configuration
    BY <1>6, OtherSteps
  <2>2. ~ Throw
    BY ThrowEnds
  <2>3. CASE /\ UNCHANGED <<phase, motorAngle>>
             /\ \E p \in Seq(Quiet) : todo' = p \o Tail(todo) /\ PutsFirst(Head(todo), p)
    <3>1. PICK p \in Seq(Quiet) : todo' = p \o Tail(todo) /\ PutsFirst(Head(todo), p)
      BY <2>3
    <3>2. /\ Tail(todo) \in Seq(Steps) /\ Returns(Tail(todo))
          /\ Head(todo).kind # "write"
          /\ \A i \in Motors : Head(todo) # Home(i) =>
               AtHome(i) \/ Awaits(Tail(todo), Home(i))
      BY <2>1, <2>3, HomeTail
    <3>3. p \in Seq(Steps) /\ Returns(p)
      <4>1. <<>> \in Seq(StillSteps)
        OBVIOUS
      <4>2. QED
        BY <3>1, <3>2, <4>1, StillReturns, SweepReturns DEF PutsFirst
    <3>4. Returns(todo')
      BY <3>1, <3>2, <3>3, ReturnsConcat
    <3>5. \A i \in Motors : Head(todo) # Home(i)
      BY <3>1, StepFields DEF PutsFirst
    <3>6. \A i \in Motors : AtHome(i) \/ Awaits(todo', Home(i))
      BY <3>1, <3>2, <3>3, <3>5, AwaitsConcat
    <3>7. QED
      BY <2>1, <2>3, <3>4, <3>6 DEF HomeInv, AtHome
  <2>4. CASE \E i \in Motors, degree \in Int :
               Move(i, degree) /\ MoveOf(Head(todo), i, degree)
    <3>1. PICK i \in Motors, degree \in Int :
            Move(i, degree) /\ MoveOf(Head(todo), i, degree)
      BY <2>4
    <3> DEFINE p == PulseSteps(i, PulseWidth(ValidateAngle(degree)))
    <3>2. /\ phase' = phase /\ todo' = p \o Tail(todo)
          /\ motorAngle' = [motorAngle EXCEPT ![i] = ValidateAngle(degree)]
          /\ PulseWidth(ValidateAngle(degree)) \in Counts
      BY <3>1, MoveSteps
    <3>3. p \in Seq(Steps) /\ Returns(p)
      <4>1. \A ticks \in Counts : PulseSteps(i, ticks) \in Seq(TransferSteps)
        BY PulseIsTransfers
      <4>2. p \in Seq(TransferSteps)
        BY <3>2, <4>1
      <4> HIDE DEF p
      <4>3. p \in Seq(StillSteps)
        BY <4>2, SeqMonotonic DEF TransferSteps, StillSteps
      <4>4. QED
        BY <4>3, StillReturns
    <3> HIDE DEF p
    <3>4. /\ Tail(todo) \in Seq(Steps) /\ Returns(Tail(todo))
          /\ Head(todo).kind # "write"
          /\ Head(todo).kind = "set" => \A j \in Motors : Awaits(Tail(todo), Home(j))
          /\ \A j \in Motors : Head(todo) # Home(j) =>
               AtHome(j) \/ Awaits(Tail(todo), Home(j))
      BY <2>1, <3>2, HomeTail
    <3>5. Returns(todo')
      BY <3>2, <3>3, <3>4, ReturnsConcat
    <3>6. \A j \in Motors : Awaits(Tail(todo), Home(j)) => Awaits(todo', Home(j))
      BY <3>2, <3>3, <3>4, AwaitsConcat
    <3>7. CASE Head(todo).kind = "set"
      BY <3>2, <3>4, <3>5, <3>6, <3>7 DEF HomeInv
    <3>8. CASE Head(todo).kind = "home"
      <4>1. i = Head(todo).motor /\ degree = configuration.homing[i] /\ degree # Missing
        BY <3>1, <3>8 DEF MoveOf
      <4>2. AtHome(i)'
        BY <2>1, <3>2, <4>1 DEF AtHome, TypeOK
      <4>3. ASSUME NEW j \in Motors, j # i PROVE AtHome(j)' \/ Awaits(todo', Home(j))
        <5>1. Head(todo) # Home(j)
          BY <4>1, <4>3, StepFields
        <5>2. AtHome(j) => AtHome(j)'
          BY <2>1, <3>2, <4>3 DEF AtHome, TypeOK
        <5>3. QED
          BY <3>4, <3>6, <5>1, <5>2
      <4>4. QED
        BY <3>5, <4>2, <4>3 DEF HomeInv
    <3>9. QED
      BY <3>1, <3>4, <3>7, <3>8 DEF MoveOf
  <2>5. QED
    BY <1>6, <2>2, <2>3, <2>4, OtherSteps
<1>7. CASE Publish \/ UNCHANGED vars
  <2>1. UNCHANGED <<phase, todo, configuration, motorAngle>>
    BY <1>7 DEF Publish, vars
  <2>2. QED
    BY <2>1 DEF HomeInv, AtHome, Returns, ReturnsAt
<1>8. QED
  BY <1>1, <1>2, <1>3, <1>4, <1>5, <1>6, <1>7 DEF Next, Process


-----------------------------------------------------------------------------
(* The node implements the joint writer. *)

WriteSteps == {step \in Steps : step.kind = "write"}

(* What a list has still to write.                                         *)
Remaining(q) ==
  LET others == {0} \cup {k \in DOMAIN q : q[k].kind # "write"}
      n == CHOOSE k \in others : \A l \in others : l <= k
  IN  SubSeq(q, n + 1, Len(q))

LEMMA RemainingIs ==
  ASSUME NEW b \in Seq(TransferSteps), NEW w \in Seq(WriteSteps)
  PROVE  Remaining(b \o w) = w
<1> DEFINE q == b \o w
           others == {0} \cup {k \in DOMAIN q : q[k].kind # "write"}
           n == CHOOSE k \in others : \A l \in others : l <= k
           m == Len(b)
<1>1. b \in Seq(Steps) /\ w \in Seq(Steps)
  BY SeqMonotonic DEF TransferSteps, WriteSteps
<1>2. /\ q \in Seq(Steps)
      /\ DOMAIN b = 1 .. m /\ m \in Nat
      /\ DOMAIN w = 1 .. Len(w) /\ Len(w) \in Nat
      /\ DOMAIN q = 1 .. m + Len(w)
      /\ \A k \in DOMAIN b : k \in DOMAIN q /\ q[k] = b[k]
      /\ \A k \in DOMAIN q : k \notin DOMAIN b =>
           k - m \in DOMAIN w /\ q[k] = w[k - m]
  BY <1>1, Concat
<1>3. Len(q) = m + Len(w)
  BY <1>1, ConcatProperties
<1>4. /\ \A k \in DOMAIN b : b[k].kind = "transfer"
      /\ \A k \in DOMAIN w : w[k].kind = "write"
  BY <1>2, ElementOfSeq DEF TransferSteps, WriteSteps
<1> HIDE DEF q
<1>5. m \in others
  <2>1. CASE m = 0
    BY <2>1
  <2>2. CASE m # 0
    <3>1. m \in DOMAIN b
      BY <1>2, <2>2
    <3>2. q[m].kind = "transfer" /\ m \in DOMAIN q
      BY <1>2, <1>4, <3>1
    <3>3. QED
      BY <3>2
  <2>3. QED
    BY <2>1, <2>2
<1>6. ASSUME NEW l \in others PROVE l <= m
  <2>1. SUFFICES ASSUME l \in DOMAIN q, q[l].kind # "write" PROVE l \in DOMAIN b
    BY <1>2
  <2>2. QED
    BY <1>2, <1>4, <2>1
<1>7. others \subseteq Nat
  BY <1>2
<1>8. n = m
  <2> HIDE DEF others
  <2>1. n \in others /\ \A l \in others : l <= n
    BY <1>5, <1>6
  <2>2. n <= m /\ m <= n /\ n \in Nat /\ m \in Nat
    BY <1>5, <1>6, <1>7, <2>1
  <2>3. QED
    BY <2>2
<1>9. SubSeq(q, m + 1, Len(q)) = w
  <2>1. CASE Len(w) = 0
    <3>1. w = <<>>
      BY <1>1, <2>1, EmptySeq
    <3>2. Len(q) < m + 1 /\ m + 1 \in Int /\ Len(q) \in Int
      BY <1>2, <1>3, <2>1
    <3>3. QED
      BY <3>1, <3>2, SubSeqEmpty
  <2>2. CASE Len(w) # 0
    <3>1. /\ m + 1 \in m + 1 .. m + Len(w) /\ m + Len(w) \in m + 1 .. m + Len(w)
          /\ (m + 1) - m = 1 /\ (m + Len(w)) - m = Len(w)
      BY <1>2, <2>2
    <3>2. \A i, j \in m + 1 .. m + Len(w) :
            SubSeq(b \o w, i, j) = SubSeq(w, i - m, j - m)
      BY <1>1, SubSeqOfConcat2
    <3>3. SubSeq(b \o w, m + 1, m + Len(w)) = SubSeq(w, (m + 1) - m, (m + Len(w)) - m)
      BY <3>1, <3>2
    <3>4. SubSeq(w, 1, Len(w)) = w
      BY <1>1, SubSeqFull
    <3>5. QED
      BY <1>3, <3>1, <3>3, <3>4 DEF q
  <2>3. QED
    BY <2>1, <2>2
<1>10. Remaining(q) = SubSeq(q, n + 1, Len(q))
  BY DEF Remaining
<1>11. QED
  BY <1>8, <1>9, <1>10 DEF q

(* The rest of the writes, and what is still to write of a list that ends  *)
(* in them.                                                                *)
LEMMA WritesRemain ==
  ASSUME TypeOK, NEW n \in Nat, n <= Len(latest)
  PROVE  LET q == SubSeq(Writes, n + 1, Len(latest)) IN
         /\ q \in Seq(WriteSteps)
         /\ \A b \in Seq(TransferSteps) : Remaining(b \o q) = q
<1> DEFINE w == Writes
           m == Len(latest)
           q == SubSeq(w, n + 1, m)
<1>1. w \in Seq(Steps) /\ m \in Nat /\ m = Len(w) /\ DOMAIN w = 1 .. m
  BY WritesType, LenProperties
<1>2. \A k \in DOMAIN w : w[k].kind = "write"
  <2>1. \A k \in 1 .. m : w[k] = Write(latest[k])
    BY WritesType
  <2>2. QED
    BY <1>1, <2>1, StepFields
<1> HIDE DEF w, m
<1>3. \A i \in n + 1 .. m : w[i] \in WriteSteps
  BY <1>1, <1>2, ElementOfSeq DEF WriteSteps
<1>4. q \in Seq(WriteSteps)
  BY <1>1, <1>3, SubSeqProperties
<1> HIDE DEF q
<1>5. \A b \in Seq(TransferSteps) : Remaining(b \o q) = q
  BY <1>4, RemainingIs
<1>6. QED
  BY <1>4, <1>5 DEF q, w, m

(* A list that is not empty begins with its head.                          *)
LEMMA HeadFirst ==
  ASSUME NEW S, NEW q \in Seq(S), q # <<>>
  PROVE  <<Head(q)>> \o Tail(q) = q
<1> DEFINE a == <<Head(q)>>
           t == Tail(q)
<1>1. /\ Head(q) = q[1] /\ Head(q) \in S /\ t \in Seq(S)
      /\ Len(q) \in Nat \ {0} /\ Len(t) = Len(q) - 1
      /\ \A i \in 1 .. Len(t) : t[i] = q[i + 1]
  BY HeadTail, HeadTailProperties
<1>2. a \in Seq(S) /\ Len(a) = 1 /\ a[1] = q[1]
  BY <1>1
<1> HIDE DEF a, t
<1>3. /\ a \o t \in Seq(S) /\ Len(a \o t) = Len(a) + Len(t)
      /\ \A i \in 1 .. Len(a) + Len(t) :
           (a \o t)[i] = IF i <= Len(a) THEN a[i] ELSE t[i - Len(a)]
  BY <1>1, <1>2, ConcatProperties
<1>4. Len(a \o t) = Len(q)
  BY <1>1, <1>2, <1>3
<1>5. ASSUME NEW i \in 1 .. Len(a \o t) PROVE (a \o t)[i] = q[i]
  <2>1. CASE i = 1
    BY <1>1, <1>2, <1>3, <2>1
  <2>2. CASE i # 1
    <3>1. i - 1 \in 1 .. Len(t) /\ (i - 1) + 1 = i /\ ~ (i <= Len(a))
      BY <1>1, <1>2, <1>4, <2>2
    <3>2. t[i - 1] = q[i]
      BY <1>1, <3>1
    <3>3. QED
      BY <1>2, <1>3, <3>1, <3>2
  <2>3. QED
    BY <2>1, <2>2
<1>6. QED
  BY <1>3, <1>4, <1>5, SeqEqual DEF a, t

(* A spinning node's transfers leave what it has still to write, and an    *)
(* entry it is at is the next it has to write.                             *)
LEMMA SpinningRemains ==
  ASSUME TypeOK, LatestInv, phase = "spinning"
  PROVE  /\ Remaining(todo) \in Seq(WriteSteps)
         /\ todo = <<>> => Remaining(todo) = <<>>
         /\ pending # <<>> => todo = <<>>
         /\ todo # <<>> /\ Head(todo).kind = "transfer" =>
              Remaining(Tail(todo)) = Remaining(todo)
         /\ todo # <<>> /\ Head(todo) \in Quiet =>
              /\ Remaining(todo) # <<>> /\ Head(Remaining(todo)) = Head(todo)
              /\ Head(todo).kind = "write"
              /\ \A b \in Seq(TransferSteps) :
                   Remaining(b \o Tail(todo)) = Tail(Remaining(todo))
<1>1. <<>> \in Seq(TransferSteps) /\ <<>> \in Seq(WriteSteps)
  OBVIOUS
<1>2. Remaining(<<>>) = <<>>
  <2>1. Remaining(<<>> \o <<>>) = <<>>
    BY <1>1, RemainingIs
  <2>2. QED
    BY <1>1, <2>1, ConcatEmptySeq
<1>3. pending # <<>> => todo = <<>>
  BY DEF LatestInv
<1>4. CASE todo = <<>>
  BY <1>1, <1>2, <1>4
<1>5. CASE todo # <<>> /\ Head(todo).kind = "transfer"
  <2>1. PICK n \in 0 .. Len(latest) : WritingFrom(n)
    BY <1>3, <1>5 DEF LatestInv
  <2> DEFINE q == SubSeq(Writes, n + 1, Len(latest))
  <2>2. PICK b \in Seq(TransferSteps) : todo = b \o q
    BY <2>1 DEF WritingFrom
  <2>3. n \in Nat /\ n <= Len(latest)
    BY WritesType
  <2>4. q \in Seq(WriteSteps) /\ \A a \in Seq(TransferSteps) : Remaining(a \o q) = q
    BY <2>3, WritesRemain
  <2>5. Write(latest[n + 1]).kind # "transfer"
    BY StepFields
  <2>6. Tail(b) \in Seq(TransferSteps) /\ Tail(todo) = Tail(b) \o q
    BY <1>5, <2>2, <2>3, <2>5, WritingHead
  <2> HIDE DEF q
  <2>7. Remaining(todo) = q /\ Remaining(Tail(todo)) = q
    BY <2>2, <2>4, <2>6
  <2>8. QED
    BY <1>3, <1>5, <2>4, <2>7 DEF Quiet
<1>6. CASE todo # <<>> /\ Head(todo).kind # "transfer"
  <2>1. Head(todo) \in Quiet
    BY <1>6, HeadTail DEF TypeOK, Quiet
  <2>2. PICK n \in 0 .. Len(latest) :
          /\ n \in Nat /\ n < Len(latest)
          /\ Head(todo) = Write(latest[n + 1])
          /\ Tail(todo) = SubSeq(Writes, (n + 1) + 1, Len(latest))
    BY <1>6, <2>1, EntryHead
  <2> DEFINE q == SubSeq(Writes, n + 1, Len(latest))
             m == n + 1
             r == SubSeq(Writes, m + 1, Len(latest))
  <2>3. n <= Len(latest) /\ m \in Nat /\ m <= Len(latest)
    BY <2>2, WritesType
  <2>4. /\ q \in Seq(Steps) /\ q # <<>>
        /\ Head(q) = Write(latest[n + 1]) /\ Tail(q) = SubSeq(Writes, (n + 1) + 1, Len(latest))
    BY <2>2, <2>3, WritesLeft
  <2>5. q \in Seq(WriteSteps) /\ \A b \in Seq(TransferSteps) : Remaining(b \o q) = q
    BY <2>2, <2>3, WritesRemain
  <2>6. \A j \in Nat : j <= Len(latest) => \A b \in Seq(TransferSteps) :
          Remaining(b \o SubSeq(Writes, j + 1, Len(latest))) = SubSeq(Writes, j + 1, Len(latest))
    BY WritesRemain
  <2>7. \A b \in Seq(TransferSteps) : Remaining(b \o r) = r
    BY <2>3, <2>6
  <2>8. Tail(todo) = r /\ Tail(q) = r /\ Head(todo) = Head(q)
    BY <2>2, <2>4
  <2> HIDE DEF q, r, m
  <2>9. todo = q
    <3>1. todo \in Seq(Steps)
      BY DEF TypeOK
    <3>2. <<Head(todo)>> \o Tail(todo) = todo /\ <<Head(q)>> \o Tail(q) = q
      BY <1>6, <2>4, <3>1, HeadFirst
    <3>3. QED
      BY <2>8, <3>2
  <2>10. Remaining(todo) = q
    <3>1. Remaining(<<>> \o q) = q /\ <<>> \o q = q
      BY <1>1, <2>4, <2>5, ConcatEmptySeq
    <3>2. QED
      BY <2>9, <3>1
  <2>11. Head(todo).kind = "write"
    BY <2>2, StepFields
  <2>12. QED
    BY <1>3, <1>6, <2>4, <2>5, <2>7, <2>8, <2>10, <2>11
<1>7. QED
  BY <1>4, <1>5, <1>6


(* The pose of a list, entry by entry.                                     *)
JointOf(entry) ==
  [joint |-> IF Named(entry.name) # {} THEN FindMotor(entry.name) ELSE 0,
   angle |-> ValidateAngle(entry.degree)]

LEMMA PoseOfList ==
  ASSUME NEW S, NEW q \in Seq(S)
  PROVE  /\ q = <<>> <=> PoseOf(q) = <<>>
         /\ q # <<>> => /\ Head(PoseOf(q)) = JointOf(Head(q))
                        /\ Tail(PoseOf(q)) = PoseOf(Tail(q))
<1> DEFINE T == {JointOf(q[k]) : k \in DOMAIN q}
           p == PoseOf(q)
<1>1. /\ DOMAIN q = 1 .. Len(q) /\ Len(q) \in Nat
      /\ p = [k \in 1 .. Len(q) |-> JointOf(q[k])]
  BY LenProperties DEF PoseOf, JointOf
<1>2. \A k \in 1 .. Len(q) : JointOf(q[k]) \in T
  BY <1>1
<1> HIDE DEF T, p
<1>3. p \in Seq(T) /\ DOMAIN p = 1 .. Len(q)
  BY <1>1, <1>2
<1>4. Len(p) = Len(q)
  BY <1>1, <1>3, LenProperties
<1>5. q = <<>> <=> p = <<>>
  <2>1. q = <<>> => Len(q) = 0
    BY EmptySeq
  <2>2. Len(q) = 0 => q = <<>>
    BY EmptySeq
  <2>3. p = <<>> => Len(p) = 0
    BY EmptySeq
  <2>4. Len(p) = 0 => p = <<>>
    BY <1>3, EmptySeq
  <2>5. QED
    BY <1>4, <2>1, <2>2, <2>3, <2>4
<1>6. ASSUME q # <<>>
      PROVE  Head(p) = JointOf(Head(q)) /\ Tail(p) = PoseOf(Tail(q))
  <2>1. /\ Head(q) = q[1] /\ Tail(q) \in Seq(S) /\ Len(q) \in Nat \ {0}
        /\ DOMAIN Tail(q) = 1 .. Len(q) - 1
        /\ \A k \in DOMAIN Tail(q) : k + 1 \in DOMAIN q /\ Tail(q)[k] = q[k + 1]
    BY <1>6, HeadTail
  <2>2. /\ Head(p) = p[1] /\ Tail(p) \in Seq(T)
        /\ DOMAIN Tail(p) = 1 .. Len(p) - 1
        /\ \A k \in DOMAIN Tail(p) : k + 1 \in DOMAIN p /\ Tail(p)[k] = p[k + 1]
    BY <1>3, <1>5, <1>6, HeadTail
  <2>3. Head(p) = JointOf(Head(q))
    BY <1>1, <2>1, <2>2
  <2>4. PoseOf(Tail(q)) = [k \in DOMAIN Tail(q) |-> JointOf(Tail(q)[k])]
    BY DEF PoseOf, JointOf
  <2>5. Tail(p) = [k \in DOMAIN Tail(p) |-> Tail(p)[k]]
    BY <2>2, LenProperties
  <2>6. \A k \in DOMAIN Tail(q) : Tail(p)[k] = JointOf(Tail(q)[k])
    BY <1>1, <1>3, <1>4, <2>1, <2>2
  <2>7. Tail(p) = [k \in DOMAIN Tail(q) |-> JointOf(Tail(q)[k])]
    BY <1>4, <2>1, <2>2, <2>5, <2>6
  <2>8. QED
    BY <2>3, <2>4, <2>7
<1>7. QED
  BY <1>5, <1>6 DEF p

(* The writes of a list of entries are its pose.                           *)
LEMMA PoseOfWrites ==
  ASSUME NEW q
  PROVE  PoseOf([k \in DOMAIN q |-> Write(q[k])]) = PoseOf(q)
<1> DEFINE w == [k \in DOMAIN q |-> Write(q[k])]
<1>1. DOMAIN w = DOMAIN q /\ \A k \in DOMAIN q : w[k] = Write(q[k])
  OBVIOUS
<1> HIDE DEF w
<1>2. \A k \in DOMAIN q : w[k].name = q[k].name /\ w[k].degree = q[k].degree
  BY <1>1, StepFields
<1>3. PoseOf(w) = PoseOf(q)
  BY <1>1, <1>2 DEF PoseOf
<1>4. QED
  BY <1>3 DEF w

-----------------------------------------------------------------------------
(* Each kind of step, as the joint writer sees it. *)

WritingNow == IF phase = "spinning" THEN PoseOf(Remaining(todo)) ELSE <<>>

RestPosition ==
  [i \in Motors |-> IF configuration.homing[i] = Missing THEN 0
                    ELSE ValidateAngle(configuration.homing[i])]

(* The writer, with its state spelled out.                                 *)
LEMMA WriterIs ==
  /\ Unwritten = Remaining(todo)
  /\ Writer!Prepare <=>
       /\ phase # "spinning" /\ motorAngle' \in [Motors -> 0 .. 179]
       /\ (phase = "spinning")' = (phase = "spinning")
       /\ UNCHANGED <<RestPosition, PoseOf(pending), WritingNow>>
  /\ Writer!Listen <=>
       /\ phase # "spinning" /\ motorAngle = RestPosition
       /\ (phase = "spinning")' = TRUE
       /\ UNCHANGED <<RestPosition, PoseOf(pending), WritingNow, motorAngle>>
  /\ Writer!Begin <=>
       /\ phase = "spinning" /\ WritingNow = <<>> /\ PoseOf(pending) # <<>>
       /\ WritingNow' = PoseOf(pending) /\ PoseOf(pending)' = <<>>
       /\ (phase = "spinning")' = (phase = "spinning")
       /\ UNCHANGED <<RestPosition, motorAngle>>
  /\ Writer!WriteNext <=>
       /\ phase = "spinning" /\ WritingNow # <<>>
       /\ WritingNow' = Tail(WritingNow)
       /\ motorAngle' = IF Head(WritingNow).joint \in Motors
                        THEN [motorAngle EXCEPT ![Head(WritingNow).joint] =
                                                  Head(WritingNow).angle]
                        ELSE motorAngle
       /\ (phase = "spinning")' = (phase = "spinning")
       /\ UNCHANGED <<RestPosition, PoseOf(pending)>>
  /\ Writer!Halt <=>
       /\ phase = "spinning" /\ (phase = "spinning")' = FALSE
       /\ PoseOf(pending)' = <<>> /\ WritingNow' = <<>>
       /\ UNCHANGED <<RestPosition, motorAngle>>
<1>1. Unwritten = Remaining(todo)
  BY DEF Unwritten, Remaining
<1>2. Unwritten' = Remaining(todo)'
  BY DEF Unwritten, Remaining
<1>3. QED
  BY <1>1, <1>2 DEF Writer!Prepare, Writer!Listen, Writer!Begin,
     Writer!WriteNext, Writer!Halt, WritingNow, RestPosition


LEMMA EmptyPose == PoseOf(<<>>) = <<>>
<1>1. <<>> \in Seq(Nat)
  OBVIOUS
<1>2. QED
  BY <1>1, PoseOfList

(* A node that does not spin prepares, whatever it does.                   *)
LEMMA WriterPrepares ==
  ASSUME TypeOK', phase # "spinning", phase' # "spinning",
         pending = <<>>, pending' = <<>>, configuration' = configuration
  PROVE  Writer!Prepare
<1>1. motorAngle' \in [Motors -> 0 .. 179]
  BY DEF TypeOK
<1>2. (phase = "spinning")' = (phase = "spinning")
  OBVIOUS
<1>3. UNCHANGED RestPosition
  BY DEF RestPosition
<1>4. UNCHANGED PoseOf(pending) /\ UNCHANGED WritingNow
  BY DEF WritingNow
<1>5. QED
  BY <1>1, <1>2, <1>3, <1>4, WriterIs

(* A spinning node stops with nothing left to write.                       *)
LEMMA WriterHalts ==
  ASSUME phase = "spinning", phase' # "spinning", pending' = <<>>,
         UNCHANGED <<configuration, motorAngle>>
  PROVE  Writer!Halt
<1>1. (phase = "spinning")' = FALSE
  OBVIOUS
<1>2. UNCHANGED RestPosition
  BY DEF RestPosition
<1>3. PoseOf(pending)' = <<>> /\ WritingNow' = <<>>
  BY EmptyPose DEF WritingNow
<1>4. QED
  BY <1>1, <1>2, <1>3, WriterIs

(* Nothing the writer knows of changes.                                    *)
LEMMA WriterStutters ==
  ASSUME phase' = phase, UNCHANGED <<configuration, pending, motorAngle>>,
         phase = "spinning" => Remaining(todo') = Remaining(todo)
  PROVE  UNCHANGED Writer!writerVars
<1>1. UNCHANGED RestPosition
  BY DEF RestPosition
<1>2. UNCHANGED PoseOf(pending) /\ UNCHANGED WritingNow
  BY DEF WritingNow
<1>3. WritingNow = IF phase = "spinning" THEN PoseOf(Unwritten) ELSE <<>>
  BY DEF WritingNow, Unwritten, Remaining
<1>4. (phase = "spinning")' = (phase = "spinning")
  OBVIOUS
<1>5. UNCHANGED (IF phase = "spinning" THEN PoseOf(Unwritten) ELSE <<>>)
  BY <1>2 DEF WritingNow, Unwritten, Remaining
<1>6. QED
  BY <1>1, <1>2, <1>4, <1>5 DEF Writer!writerVars, RestPosition

(* A spinning node at an entry writes the next of the pose.                *)
LEMMA WriterWrites ==
  ASSUME TypeOK, LatestInv, phase = "spinning", todo # <<>>, Head(todo) \in Quiet,
         UNCHANGED <<configuration, phase, pending>>,
         NEW b \in Seq(TransferSteps), todo' = b \o Tail(todo),
         \/ Named(Head(todo).name) = {} /\ motorAngle' = motorAngle
         \/ /\ Named(Head(todo).name) # {}
            /\ motorAngle' = [motorAngle EXCEPT ![FindMotor(Head(todo).name)] =
                                ValidateAngle(Head(todo).degree)]
  PROVE  Writer!WriteNext
<1> DEFINE q == Remaining(todo)
<1>1. /\ q \in Seq(WriteSteps) /\ q # <<>> /\ Head(q) = Head(todo)
      /\ Remaining(todo') = Tail(q)
  BY SpinningRemains
<1> HIDE DEF q
<1>2. /\ PoseOf(q) # <<>> /\ Head(PoseOf(q)) = JointOf(Head(todo))
      /\ Tail(PoseOf(q)) = PoseOf(Tail(q))
  BY <1>1, PoseOfList
<1>3. WritingNow = PoseOf(q) /\ WritingNow' = PoseOf(Tail(q))
  BY <1>1 DEF WritingNow, q
<1>4. /\ Head(WritingNow).joint = IF Named(Head(todo).name) # {}
                                  THEN FindMotor(Head(todo).name) ELSE 0
      /\ Head(WritingNow).angle = ValidateAngle(Head(todo).degree)
  BY <1>2, <1>3 DEF JointOf
<1>5. 0 \notin Motors
  BY MotorsType, ServoAssumption, LenProperties
<1>6. Named(Head(todo).name) # {} => FindMotor(Head(todo).name) \in Motors
  BY FindMotorSpec
<1>7. motorAngle' = IF Head(WritingNow).joint \in Motors
                    THEN [motorAngle EXCEPT ![Head(WritingNow).joint] =
                                              Head(WritingNow).angle]
                    ELSE motorAngle
  BY <1>4, <1>5, <1>6
<1>8. (phase = "spinning")' = (phase = "spinning")
  OBVIOUS
<1>9. UNCHANGED RestPosition /\ UNCHANGED PoseOf(pending)
  BY DEF RestPosition
<1>10. WritingNow # <<>> /\ WritingNow' = Tail(WritingNow)
  BY <1>2, <1>3
<1>11. QED
  BY <1>7, <1>8, <1>9, <1>10, WriterIs

(* A node that starts to spin has every motor at rest.                     *)
LEMMA WriterListens ==
  ASSUME TypeOK, LatestInv, HomeInv, Spin
  PROVE  Writer!Listen
<1>1. /\ phase = "testing" /\ todo = <<>> /\ phase' = "spinning" /\ todo' = <<>>
      /\ UNCHANGED <<configuration, motorAngle, pending>>
  BY DEF Spin
<1>2. \A i \in Motors : AtHome(i)
  BY <1>1 DEF HomeInv, Awaits
<1>3. motorAngle = RestPosition
  <2>1. \A i \in Motors : motorAngle[i] = RestPosition[i]
    BY <1>2 DEF AtHome, RestPosition
  <2>2. motorAngle = [i \in Motors |-> motorAngle[i]]
    BY DEF TypeOK
  <2>3. QED
    BY <2>1, <2>2 DEF RestPosition
<1>4. TypeOK' /\ LatestInv'
  BY NextType, LatestNext DEF Next, Process
<1>5. Remaining(todo') = <<>>
  <2>1. <<>> \in Seq(TransferSteps) /\ <<>> \in Seq(WriteSteps)
    OBVIOUS
  <2>2. Remaining(<<>> \o <<>>) = <<>>
    BY <2>1, RemainingIs
  <2>3. QED
    BY <1>1, <2>1, <2>2, ConcatEmptySeq
<1>6. WritingNow = <<>> /\ WritingNow' = <<>>
  BY <1>1, <1>5, EmptyPose DEF WritingNow
<1>7. UNCHANGED RestPosition /\ UNCHANGED PoseOf(pending)
  BY <1>1 DEF RestPosition
<1>8. (phase = "spinning")' = TRUE
  BY <1>1
<1>9. QED
  BY <1>1, <1>3, <1>6, <1>7, <1>8, WriterIs

(* The write timer takes the pose that waits, whole.                       *)
LEMMA WriterBegins ==
  ASSUME TypeOK, LatestInv, WritePendingPose
  PROVE  Writer!Begin
<1>1. /\ phase = "spinning" /\ todo = <<>> /\ pending # <<>> /\ pending' = <<>>
      /\ todo' = [k \in DOMAIN pending |-> Write(pending[k])]
      /\ UNCHANGED <<configuration, phase, motorAngle>>
  BY DEF WritePendingPose
<1>2. todo' = Writes
  BY <1>1 DEF LatestInv, Writes
<1>3. Remaining(Writes) = Writes
  <2> DEFINE m == Len(latest)
             w == Writes
  <2>1. 0 \in Nat /\ 0 <= m
    BY WritesType
  <2>2. SubSeq(w, 0 + 1, m) = w /\ w \in Seq(Steps)
    BY <2>1, WritesLeft, WritesType
  <2>3. \A n \in Nat : n <= m => \A b \in Seq(TransferSteps) :
          Remaining(b \o SubSeq(w, n + 1, m)) = SubSeq(w, n + 1, m)
    BY WritesRemain
  <2> HIDE DEF m, w
  <2>4. <<>> \in Seq(TransferSteps) /\ <<>> \o w = w
    BY <2>2, ConcatEmptySeq
  <2>5. Remaining(<<>> \o SubSeq(w, 0 + 1, m)) = SubSeq(w, 0 + 1, m)
    BY <2>1, <2>3, <2>4
  <2>6. QED
    BY <2>2, <2>4, <2>5 DEF w
<1>4. WritingNow' = PoseOf(pending)
  <2>1. PoseOf([k \in DOMAIN pending |-> Write(pending[k])]) = PoseOf(pending)
    BY PoseOfWrites
  <2>2. WritingNow' = PoseOf(Remaining(todo'))
    BY <1>1 DEF WritingNow
  <2>3. QED
    BY <1>1, <1>2, <1>3, <2>1, <2>2
<1>5. PoseOf(pending) # <<>>
  BY <1>1, PoseOfList DEF TypeOK
<1>6. WritingNow = <<>>
  BY <1>1, SpinningRemains, EmptyPose DEF WritingNow
<1>7. PoseOf(pending)' = <<>>
  BY <1>1, EmptyPose
<1>8. UNCHANGED RestPosition
  BY <1>1 DEF RestPosition
<1>9. (phase = "spinning")' = (phase = "spinning")
  BY <1>1
<1>10. QED
  BY <1>1, <1>4, <1>5, <1>6, <1>7, <1>8, <1>9, WriterIs

(* A command that is accepted replaces the pose that waits.                *)
LEMMA WriterAccepts ==
  ASSUME TypeOK, LatestInv, OnJointCommand
  PROVE  [Writer!Next]_Writer!writerVars
<1>1. /\ phase = "spinning" /\ todo = <<>> /\ topic # <<>>
      /\ UNCHANGED <<configuration, phase, todo, motorAngle>>
  BY DEF OnJointCommand
<1> DEFINE command == Head(topic)
           pose == PoseOf(Entries(command))
<1>2. CASE Accepted(command)
  <2>1. command \in Commands /\ pending' = Entries(command)
    BY <1>1, <1>2, HeadTail DEF OnJointCommand, TypeOK
  <2>2. pose \in {PoseOf(Entries(c)) : c \in {d \in Commands : Accepted(d)}}
    BY <1>2, <2>1
  <2>3. PoseOf(pending)' = pose
    BY <2>1
  <2> HIDE DEF command, pose
  <2>4. Remaining(todo) = <<>>
    BY <1>1, SpinningRemains
  <2>5. PoseOf(Unwritten) = <<>> /\ PoseOf(Unwritten)' = <<>>
    BY <1>1, <2>4, EmptyPose DEF Unwritten, Remaining
  <2>6. UNCHANGED RestPosition
    BY <1>1 DEF RestPosition
  <2>7. Writer!Accept(pose)
    BY <1>1, <2>3, <2>5, <2>6 DEF Writer!Accept, RestPosition
  <2>8. QED
    BY <2>2, <2>7 DEF Writer!Next
<1>3. CASE ~ Accepted(command)
  <2>1. pending' = pending
    BY <1>3 DEF OnJointCommand
  <2>2. QED
    BY <1>1, <2>1, WriterStutters
<1>4. QED
  BY <1>2, <1>3


LEMMA WriterInit == TypeOK /\ Init => Writer!Init
<1> SUFFICES ASSUME TypeOK, Init PROVE Writer!Init
  OBVIOUS
<1>1. RestPosition \in [Motors -> 0 .. 179]
  <2>1. configuration.homing \in [Motors -> Int \cup {Missing}]
    BY ServoAssumption DEF TypeOK
  <2>2. \A degree \in Int : ValidateAngle(degree) \in 0 .. 179
    BY DEF ValidateAngle
  <2>3. \A i \in Motors :
          (IF configuration.homing[i] = Missing THEN 0
           ELSE ValidateAngle(configuration.homing[i])) \in 0 .. 179
    BY <2>1, <2>2
  <2>4. QED
    BY <2>3 DEF RestPosition
<1>2. motorAngle \in [Motors -> 0 .. 179]
  BY DEF TypeOK
<1>3. (phase = "spinning") = FALSE
  BY DEF Init
<1>4. PoseOf(pending) = <<>>
  BY EmptyPose DEF Init
<1>5. QED
  BY <1>1, <1>2, <1>3, <1>4 DEF Writer!Init, RestPosition

LEMMA WriterNext ==
  ASSUME TypeOK, TypeOK', LatestInv, LatestInv', HomeInv, [Next]_vars
  PROVE  [Writer!Next]_Writer!writerVars
<1>1. CASE Spin
  BY <1>1, WriterListens DEF Writer!Next
<1>2. CASE OnJointCommand
  BY <1>2, WriterAccepts
<1>3. CASE WritePendingPose
  BY <1>3, WriterBegins DEF Writer!Next
<1>4. CASE Publish \/ UNCHANGED vars
  <2>1. UNCHANGED <<phase, configuration, pending, motorAngle, todo>>
    BY <1>4 DEF Publish, vars
  <2>2. QED
    BY <2>1, WriterStutters
<1>5. CASE phase = "spinning" /\ (Shutdown \/ Kill)
  <2>1. phase' # "spinning" /\ pending' = <<>> /\ UNCHANGED <<configuration, motorAngle>>
    BY <1>5 DEF Shutdown, Destroy, Kill
  <2>2. QED
    BY <1>5, <2>1, WriterHalts DEF Writer!Next
<1>6. ASSUME phase = "spinning", Throw, UNCHANGED <<configuration, motorAngle>>
      PROVE  Writer!Halt
  <2>1. phase' # "spinning" /\ pending' = <<>>
    BY <1>6 DEF Throw, Destroy
  <2>2. QED
    BY <1>6, <2>1, WriterHalts
<1>7. CASE phase = "spinning" /\ Succeed
  <2>1. /\ todo # <<>> /\ Head(todo).kind = "transfer" /\ todo' = Tail(todo)
        /\ UNCHANGED <<configuration, phase, pending, motorAngle>>
    BY <1>7, BusStep DEF Succeed
  <2>2. Remaining(todo') = Remaining(todo)
    BY <1>7, <2>1, SpinningRemains
  <2>3. QED
    BY <2>1, <2>2, WriterStutters
<1>8. CASE phase = "spinning" /\ Fail
  <2>1. /\ UNCHANGED <<configuration, motorAngle>>
        /\ UNCHANGED <<phase, todo, pending>> \/ Throw
    BY <1>8, FailStep
  <2>2. QED
    BY <1>6, <1>8, <2>1, WriterStutters DEF Writer!Next
<1>9. CASE /\ phase = "spinning"
           /\ Inspect \/ HomeMotor \/ SweepMotor \/ SetMotor \/ WriteEntry
  <2>1. todo # <<>> /\ Head(todo) \in Quiet /\ configuration' = configuration
    BY <1>9, OtherSteps
  <2>2. Head(todo).kind = "write"
    BY <1>9, <2>1, SpinningRemains
  <2>3. CASE Throw /\ motorAngle' = motorAngle
    BY <1>6, <1>9, <2>1, <2>3 DEF Writer!Next
  <2>4. CASE /\ UNCHANGED <<phase, motorAngle, pending>>
             /\ \E p \in Seq(Quiet) : todo' = p \o Tail(todo) /\ PutsFirst(Head(todo), p)
    <3>1. todo' = <<>> \o Tail(todo) /\ Named(Head(todo).name) = {}
      BY <2>2, <2>4 DEF PutsFirst
    <3>2. <<>> \in Seq(TransferSteps)
      OBVIOUS
    <3>3. Writer!WriteNext
      BY <1>9, <2>1, <2>4, <3>1, <3>2, WriterWrites
    <3>4. QED
      BY <3>3 DEF Writer!Next
  <2>5. CASE \E i \in Motors, degree \in Int :
               Move(i, degree) /\ MoveOf(Head(todo), i, degree)
    <3>1. PICK i \in Motors, degree \in Int :
            Move(i, degree) /\ MoveOf(Head(todo), i, degree)
      BY <2>5
    <3>2. /\ UNCHANGED <<phase, pending>>
          /\ motorAngle' = [motorAngle EXCEPT ![i] = ValidateAngle(degree)]
          /\ PulseWidth(ValidateAngle(degree)) \in Counts
          /\ todo' = PulseSteps(i, PulseWidth(ValidateAngle(degree))) \o Tail(todo)
      BY <3>1, MoveSteps
    <3>3. /\ Named(Head(todo).name) # {}
          /\ i = FindMotor(Head(todo).name) /\ degree = Head(todo).degree
      BY <2>2, <3>1 DEF MoveOf
    <3>4. \A ticks \in Counts : PulseSteps(i, ticks) \in Seq(TransferSteps)
      BY PulseIsTransfers
    <3>5. \E b \in Seq(TransferSteps) : todo' = b \o Tail(todo)
      BY <3>2, <3>4
    <3>6. Writer!WriteNext
      BY <1>9, <2>1, <3>2, <3>3, <3>5, WriterWrites
    <3>7. QED
      BY <3>6 DEF Writer!Next
  <2>6. QED
    BY <1>9, <2>3, <2>4, <2>5, OtherSteps
<1>10. CASE phase = "spinning" /\ (Constructed \/ Exit \/ Respawn)
  BY <1>10 DEF Constructed, Exit, Respawn
<1>11. CASE phase # "spinning" /\ ~ Spin
  <2>1. phase' # "spinning" /\ configuration' = configuration
    <3>1. CASE Succeed \/ Fail \/ Publish \/ UNCHANGED vars
      BY <1>11, <3>1 DEF Succeed, Fail, Throw, Destroy, Publish, vars
    <3>2. CASE Inspect \/ HomeMotor \/ SweepMotor \/ SetMotor \/ WriteEntry
      BY <1>11, <3>2 DEF Inspect, HomeMotor, SweepMotor, SetMotor, WriteEntry,
         Move, Throw, Destroy
    <3>3. CASE Constructed \/ Exit \/ Respawn \/ Shutdown \/ Kill
      BY <1>11, <3>3 DEF Constructed, Exit, Respawn, Shutdown, Destroy, Kill
    <3>4. CASE OnJointCommand \/ WritePendingPose
      BY <1>11, <3>4 DEF OnJointCommand, WritePendingPose
    <3>5. QED
      BY <1>11, <3>1, <3>2, <3>3, <3>4 DEF Next, Process
  <2>2. pending = <<>> /\ pending' = <<>>
    BY <1>11, <2>1 DEF LatestInv
  <2>3. Writer!Prepare
    BY <1>11, <2>1, <2>2, WriterPrepares
  <2>4. QED
    BY <2>3 DEF Writer!Next
<1>12. QED
  BY <1>1, <1>2, <1>3, <1>4, <1>5, <1>7, <1>8, <1>9, <1>10, <1>11 DEF Next, Process

(* The node implements the joint writer, for every motor table, command    *)
(* and configuration: it listens only once every joint is at rest, a pose  *)
(* that is taken is written whole and in order, the newest one wins, and a *)
(* pose is lost only when its process ends.                                *)
THEOREM ServoImplementsWriter == Spec => ImplementsWriter
<1>1. TypeOK /\ LatestInv /\ HomeInv /\ TypeOK' /\ LatestInv' /\ [Next]_vars
        => [Writer!Next]_Writer!writerVars
  BY WriterNext
<1>2. QED
  BY InitType, NextType, LatestInit, LatestNext, HomeInit, HomeNext, WriterInit,
     <1>1, PTL DEF Spec, ImplementsWriter, Writer!Spec

=============================================================================

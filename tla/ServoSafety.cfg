SPECIFICATION FairSpec
CONSTANTS
  Channels = {0, 1}
  Names <- MCNames
  MotorTable <- MCMotors
  Prescale = 121
  MinPulse = 650
  MaxPulse = 2350
  TestStep = 90
  StartupTest = TRUE
  MaxAttempts = 3
  Configurations <- MCAny
  Commands <- MCCommands
  NotFinite = NotFinite
  Missing = Missing
INVARIANTS
  TypeOK
  ParkedOnExit
  PulsesMatchAngles
  NoStalePulse
  ShowsLatest
PROPERTIES
  ImplementsWriter
  Recovers

SPECIFICATION Spec
CONSTANTS
  Channels = {0, 1}
  Names <- MCNames
  MotorTable <- MCTwoMotors
  Prescale = 121
  MinPulse = 650
  MaxPulse = 2350
  TestStep = 90
  StartupTest = FALSE
  MaxAttempts = 1
  Configurations <- MCGood
  Commands <- MCNoCommands
  NotFinite = NotFinite
  Missing = Missing
PROPERTY NoTwitch

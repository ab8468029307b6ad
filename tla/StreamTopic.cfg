\* Three signals: one before the handler, one in spin, one in the clean-up.
\* Frames of every size.
CONSTANTS
  MaxSignals = 3
  SmallFrames = TRUE
SPECIFICATION Spec
INVARIANTS StreamInv NoChildLeftBehind HonestExit
PROPERTY StopsWhenAsked
\* The process ends, and its child may have ended too.
CHECK_DEADLOCK FALSE

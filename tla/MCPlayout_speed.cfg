\* The rates of CD and DAT, their halves, and 8 kHz; any filling; narrow counters.
SPECIFICATION Spec
CONSTANTS
  Rates = {8000, 22050, 24000, 44100, 48000}
  Half = 16
  Period = 2
  Fills = {"low", "mid", "full"}
  MaxDrift = 17
  Restarts = 1
INVARIANTS
  TypeOK
  RateExact
  RightUntilWrap
CHECK_DEADLOCK FALSE

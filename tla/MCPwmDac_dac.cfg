\* Samples at the ends of the scale, at the borders of the words and around silence.
SPECIFICATION PwmSpec
CONSTANTS
  Samples <- MCSamples
  MaxOwed = 800
INVARIANTS
  PwmTypeOK
  NothingLost
PROPERTIES
  ClipLosesLittle

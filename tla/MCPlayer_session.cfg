\* One console: start, restart and close, with a fault of each kind at any point.
SPECIFICATION FairSpec
CONSTANTS
  Controllers = {console}
  Readers = {r1}
  Mads = {m1, m2}
  Cap = 4
  Need = 2
  Commands = 3
  NetFaults = 1
  HeapFaults = 1
  FeedKeepsUp = TRUE
  console = console
  r1 = r1
  m1 = m1
  m2 = m2
PROPERTIES
  CloseReturns
  StartPlays
CHECK_DEADLOCK FALSE

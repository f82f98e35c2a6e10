\* No fault at all, but the decoder may outrun the network.
SPECIFICATION FairSpec
CONSTANTS
  Controllers = {console}
  Readers = {r1, r2}
  Mads = {m1, m2}
  Cap = 4
  Need = 2
  Commands = 2
  NetFaults = 0
  HeapFaults = 0
  FeedKeepsUp = FALSE
  console = console
  r1 = r1
  r2 = r2
  m1 = m1
  m2 = m2
PROPERTIES
  CloseReturns
CHECK_DEADLOCK FALSE

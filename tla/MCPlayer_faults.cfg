\* Two tasks that give commands, failing connections and allocations, a decoder that may starve.
SPECIFICATION Spec
CONSTANTS
  Controllers = {console, wifi}
  Readers = {r1}
  Mads = {m1, m2}
  Cap = 4
  Need = 2
  Commands = 3
  NetFaults = 2
  HeapFaults = 1
  FeedKeepsUp = FALSE
  console = console
  wifi = wifi
  r1 = r1
  m1 = m1
  m2 = m2
SYMMETRY Symmetry
INVARIANTS
  TypeOK
  NoUseAfterClose
  OneDecoder
  ClosedMeansDown
  NothingLeft
  SocketPerFault
CHECK_DEADLOCK FALSE

\* Three access points for a list of two; memory for two lists and two timers.
CONSTANTS
  Macs = {a1, a2, a3}
  Signals = {1, 2}
  MaxAp = 2
  Lists = {l1, l2}
  Timers = {m1, m2}
  a1 = a1
  a2 = a2
  a3 = a3
  l1 = l1
  l2 = l2
  m1 = m1
  m2 = m2
  Hasty = FALSE
  NULL = NULL
SPECIFICATION FairSpec
INVARIANTS
  TypeOK
  NoStaleList
  NothingLost
  TimerAlive
  StrongestKept
PROPERTIES
  ScanEnds

\* The four pages of the code; the player is closed and opened again; malloc fails once.
SPECIFICATION FairSpec
CONSTANTS
  PageNum = 4
  PageSize = 2
  MaxSema = 3
  Skew = 1
  HeapFaults = 1
  Closes = 1
INVARIANTS
  PageExclusive
  OwnedInTurn
  PlayedInOrder
PROPERTIES
  Resumes

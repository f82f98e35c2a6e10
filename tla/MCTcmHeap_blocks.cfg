\* A heap of seven grains and three sizes, one of them nothing at all.
CONSTANTS
  Size = 56
  Requests = {0, 5, 13}
  NULL = NULL
SPECIFICATION Spec
INVARIANTS
  Coalesced
  NothingLost
PROPERTIES
  ImplementsHeap

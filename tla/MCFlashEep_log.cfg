\* A log that takes a few saves and is then packed, more than once; power and
\* malloc may fail.
SPECIFICATION Spec
CONSTANTS
  BitAnd <- BitwiseAnd
  FieldBits = 3
  Bank = 7
  MaxObj = 1
  Ids = {3, 5}
  Values = {10, 53}
  Writes = 5
  Crashes = 1
  HeapFaults = 1
INVARIANTS
  TypeOK
  DurableUntilPack
  LastSaveReadable
  PackInvisible
  PackMakesRoom
CHECK_DEADLOCK FALSE

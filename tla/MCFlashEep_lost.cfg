\* A pack, without any failure.
SPECIFICATION Spec
CONSTANTS
  BitAnd <- BitwiseAnd
  FieldBits = 3
  Bank = 8
  MaxObj = 2
  Ids = {3, 5}
  Values = {10, 53}
  Writes = 3
  Crashes = 0
  HeapFaults = 0
INVARIANTS
  Durable
CHECK_DEADLOCK FALSE

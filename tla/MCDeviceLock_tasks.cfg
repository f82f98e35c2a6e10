\* Three tasks and two of the three devices, every lock taken and given back for ever.
CONSTANTS
  Tasks = {t1, t2, t3}
  Devices = {flash, efuse}
  t1 = t1
  t2 = t2
  t3 = t3
  flash = flash
  efuse = efuse
  NULL = NULL
SPECIFICATION FairSpec
INVARIANTS
  MutualExclusion
  WaitsForTheMutex
PROPERTIES
  LockHandedOn

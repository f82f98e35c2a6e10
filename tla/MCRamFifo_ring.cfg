\* Requests longer than half the ring, so that every wait, the spin of
\* RamFifoRead and several wraps occur.
SPECIFICATION FairSpec
CONSTANTS
  Size = 4
  Rez = 2
  MaxRead = 3
  MaxWrite = 2
  MaxStream = 6
INVARIANTS
  DeliveredInOrder
  NoLostWakeup
  PolledReadNeverWaits
PROPERTIES
  ImplementsByteQueue
  StreamDelivered

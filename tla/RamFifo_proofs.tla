--------------------------- MODULE RamFifo_proofs ---------------------------
(***************************************************************************)
(* The safety properties of RamFifo and its refinement of ByteQueue, for   *)
(* every buffer size, request size and length of the stream.               *)
(***************************************************************************)
EXTENDS MCRamFifo, TLAPS

Max(t) == IF t = Reader THEN MaxRead ELSE MaxWrite

\* A task is inside a critical section exactly when it holds the mutex.
MutexInv == \A t \in Task : pc[t] \in {"test", "store", "filled"} <=> mux = t

\* A call has bytes left to move, and its chunk fits before the end of the
\* buffer although it was sized without the mutex.
ChunkInv == \A t \in Task :
  /\ pc[t] \in {"chunk", "lock", "test", "store", "room", "wait"}
       => len[t] \in 1..Max(t)
  /\ pc[t] = "signal" => len[t] \in 0..Max(t)
  /\ pc[t] \in {"lock", "test", "store", "room", "wait"}
       => n[t] \in 1..len[t] /\ n[t] <= Size - Pos(t)

\* Between its memcpy and its store a task still sees the fill it loaded, and
\* its chunk is still available.
StoreInv == \A t \in Task :
  pc[t] = "store" => reg[t] = fifoFill /\ n[t] <= Avail(t)

RoomInv == pc[Writer] # "room"

\* A chunk copied into the ring waits in the cells after the write position.
CopiedInv == pc[Writer] = "store" =>
  \A i \in 0..(n[Writer] - 1) : buf[fifoWpos + i] = sent + i + 1

OutInv ==
  /\ pc[Reader] = "store" => Len(out) = n[Reader]

\* What RamFifoFill reported stays a lower bound of the fill until it is used.
PollInv ==
  /\ pc[Reader] \notin {"idle", "fill", "filled"} => seen = 0
  /\ seen <= fifoFill
  /\ polled => /\ pc[Reader] \in {"chunk", "lock", "test", "store", "signal"}
                    => len[Reader] <= fifoFill
               /\ pc[Reader] \notin {"room", "wait"}

IInv ==
  /\ TypeOK /\ MutexInv /\ ChunkInv /\ StoreInv /\ RoomInv /\ RingConsistent
  /\ ContentsInOrder /\ CopiedInv /\ OutInv /\ DeliveredInOrder
  /\ NoLostWakeup /\ PollInv

-----------------------------------------------------------------------------
(* Each action preserves the invariant.  In every lemma the steps take the    *)
(* conjuncts of IInv in turn.                                                  *)

USE SizeAssumption DEF Task, Reader, Writer, Free, Other, Goto, Labels

\* The initial state of the ring after RamFifoInit satisfies the invariant.
LEMMA InitInv == Init => IInv
<1>. SUFFICES ASSUME Init PROVE IInv
  OBVIOUS
<1>. USE DEF Init, TypeOK
<1>1. TypeOK
  OBVIOUS
<1>2. MutexInv /\ ChunkInv /\ StoreInv /\ RoomInv /\ RingConsistent
  BY DEF MutexInv, ChunkInv, StoreInv, RoomInv, RingConsistent, Wrap
<1>3. ContentsInOrder /\ CopiedInv /\ OutInv /\ DeliveredInOrder
  BY DEF ContentsInOrder, CopiedInv, OutInv, DeliveredInOrder
<1>4. NoLostWakeup /\ PollInv
  BY DEF NoLostWakeup, PollInv
<1>. QED  BY <1>1, <1>2, <1>3, <1>4 DEF IInv

\* Entering RamFifoRead touches no shared state.
LEMMA CallReadInv == ASSUME IInv, NEW k \in 1..MaxRead, CallRead(k) PROVE IInv'
<1>1. TypeOK'
  BY DEF IInv, TypeOK, RoomInv, CallRead, fifo
<1>2. MutexInv'
  BY DEF IInv, TypeOK, RoomInv, MutexInv, CallRead, fifo
<1>3. ChunkInv'
  BY DEF IInv, TypeOK, RoomInv, ChunkInv, Pos, Max, CallRead, fifo
<1>4. StoreInv'
  BY DEF IInv, TypeOK, RoomInv, MutexInv, StoreInv, Avail, CallRead, fifo
<1>5. RoomInv'
  BY DEF IInv, TypeOK, RoomInv, CallRead, fifo
<1>6. RingConsistent'
  BY DEF IInv, TypeOK, RoomInv, RingConsistent, Wrap, CallRead, fifo
<1>7. ContentsInOrder'
  BY DEF IInv, TypeOK, RoomInv, ContentsInOrder, Wrap, CallRead, fifo
<1>8. CopiedInv'
  BY DEF IInv, TypeOK, RoomInv, CopiedInv, CallRead, fifo
<1>9. OutInv'
  BY DEF IInv, TypeOK, RoomInv, OutInv, CallRead, fifo
<1>10. DeliveredInOrder'
  BY DEF IInv, TypeOK, RoomInv, DeliveredInOrder, CallRead, fifo
<1>11. NoLostWakeup'
  BY DEF IInv, TypeOK, RoomInv, MutexInv, NoLostWakeup, Avail, CallRead, fifo
<1>12. PollInv'
  <2>1. /\ pc'[Reader] = "chunk" /\ seen' = 0 /\ len'[Reader] = k
        /\ fifoFill' = fifoFill /\ fifoFill \in Nat
    BY DEF IInv, TypeOK, CallRead, fifo
  <2>2. seen \in Nat /\ seen <= fifoFill
    BY DEF IInv, TypeOK, PollInv
  <2>3. polled' => k <= fifoFill
    <3>1. polled' => k <= seen
      BY DEF CallRead
    <3>. QED  BY <2>1, <2>2, <3>1
  <2>. QED  BY <2>1, <2>3 DEF PollInv
<1>. QED  BY <1>1, <1>2, <1>3, <1>4, <1>5, <1>6,
             <1>7, <1>8, <1>9, <1>10, <1>11, <1>12 DEF IInv

\* Entering RamFifoWrite touches no shared state.
LEMMA CallWriteInv == ASSUME IInv, NEW k \in 1..MaxWrite, CallWrite(k) PROVE IInv'
<1>1. TypeOK'
  BY DEF IInv, TypeOK, RoomInv, CallWrite, fifo
<1>2. MutexInv'
  BY DEF IInv, TypeOK, RoomInv, MutexInv, CallWrite, fifo
<1>3. ChunkInv'
  BY DEF IInv, TypeOK, RoomInv, ChunkInv, Pos, Max, CallWrite, fifo
<1>4. StoreInv'
  BY DEF IInv, TypeOK, RoomInv, MutexInv, StoreInv, Avail, CallWrite, fifo
<1>5. RoomInv'
  BY DEF IInv, TypeOK, RoomInv, CallWrite, fifo
<1>6. RingConsistent'
  BY DEF IInv, TypeOK, RoomInv, RingConsistent, Wrap, CallWrite, fifo
<1>7. ContentsInOrder'
  BY DEF IInv, TypeOK, RoomInv, ContentsInOrder, Wrap, CallWrite, fifo
<1>8. CopiedInv'
  BY DEF IInv, TypeOK, RoomInv, CopiedInv, CallWrite, fifo
<1>9. OutInv'
  BY DEF IInv, TypeOK, RoomInv, OutInv, CallWrite, fifo
<1>10. DeliveredInOrder'
  BY DEF IInv, TypeOK, RoomInv, DeliveredInOrder, CallWrite, fifo
<1>11. NoLostWakeup'
  BY DEF IInv, TypeOK, RoomInv, MutexInv, NoLostWakeup, Avail, CallWrite, fifo
<1>12. PollInv'
  BY DEF IInv, TypeOK, RoomInv, PollInv, Avail, CallWrite, fifo
<1>. QED  BY <1>1, <1>2, <1>3, <1>4, <1>5, <1>6,
             <1>7, <1>8, <1>9, <1>10, <1>11, <1>12 DEF IInv

\* Entering RamFifoFill touches no shared state.
LEMMA CallFillInv == ASSUME IInv, NEW t \in Task, CallFill(t) PROVE IInv'
<1>1. TypeOK'
  BY DEF IInv, TypeOK, RoomInv, CallFill, fifo, calls
<1>2. MutexInv'
  BY DEF IInv, TypeOK, RoomInv, MutexInv, CallFill, fifo, calls
<1>3. ChunkInv'
  BY DEF IInv, TypeOK, RoomInv, ChunkInv, Pos, Max, CallFill, fifo, calls
<1>4. StoreInv'
  BY DEF IInv, TypeOK, RoomInv, MutexInv, StoreInv, Avail, CallFill, fifo, calls
<1>5. RoomInv'
  BY DEF IInv, TypeOK, RoomInv, CallFill, fifo, calls
<1>6. RingConsistent'
  BY DEF IInv, TypeOK, RoomInv, RingConsistent, Wrap, CallFill, fifo, calls
<1>7. ContentsInOrder'
  BY DEF IInv, TypeOK, RoomInv, ContentsInOrder, Wrap, CallFill, fifo, calls
<1>8. CopiedInv'
  BY DEF IInv, TypeOK, RoomInv, CopiedInv, CallFill, fifo, calls
<1>9. OutInv'
  BY DEF IInv, TypeOK, RoomInv, OutInv, CallFill, fifo, calls
<1>10. DeliveredInOrder'
  BY DEF IInv, TypeOK, RoomInv, DeliveredInOrder, CallFill, fifo, calls
<1>11. NoLostWakeup'
  BY DEF IInv, TypeOK, RoomInv, MutexInv, NoLostWakeup, Avail, CallFill, fifo, calls
<1>12. PollInv'
  BY DEF IInv, TypeOK, RoomInv, PollInv, Avail, CallFill, fifo, calls
<1>. QED  BY <1>1, <1>2, <1>3, <1>4, <1>5, <1>6,
             <1>7, <1>8, <1>9, <1>10, <1>11, <1>12 DEF IInv

\* The chunk sized without the mutex fits before the end of the buffer.
LEMMA ChunkInvariant == ASSUME IInv, NEW t \in Task, Chunk(t) PROVE IInv'
<1>1. TypeOK'
  BY DEF IInv, TypeOK, RoomInv, Chunk, fifo, ChunkInv, Pos
<1>2. MutexInv'
  BY DEF IInv, TypeOK, RoomInv, MutexInv, Chunk, fifo, ChunkInv, Pos
<1>3. ChunkInv'
  BY DEF IInv, TypeOK, RoomInv, ChunkInv, Pos, Max, Chunk, fifo, ChunkInv, Pos
<1>4. StoreInv'
  BY DEF IInv, TypeOK, RoomInv, MutexInv, StoreInv, Avail, Chunk, fifo, ChunkInv, Pos
<1>5. RoomInv'
  BY DEF IInv, TypeOK, RoomInv, Chunk, fifo, ChunkInv, Pos
<1>6. RingConsistent'
  BY DEF IInv, TypeOK, RoomInv, RingConsistent, Wrap, Chunk, fifo, ChunkInv, Pos
<1>7. ContentsInOrder'
  BY DEF IInv, TypeOK, RoomInv, ContentsInOrder, Wrap, Chunk, fifo, ChunkInv, Pos
<1>8. CopiedInv'
  BY DEF IInv, TypeOK, RoomInv, CopiedInv, Chunk, fifo, ChunkInv, Pos
<1>9. OutInv'
  BY DEF IInv, TypeOK, RoomInv, OutInv, Chunk, fifo, ChunkInv, Pos
<1>10. DeliveredInOrder'
  BY DEF IInv, TypeOK, RoomInv, DeliveredInOrder, Chunk, fifo, ChunkInv, Pos
<1>11. NoLostWakeup'
  BY DEF IInv, TypeOK, RoomInv, MutexInv, NoLostWakeup, Avail, Chunk, fifo, ChunkInv, Pos
<1>12. PollInv'
  BY DEF IInv, TypeOK, RoomInv, PollInv, Avail, Chunk, fifo, ChunkInv, Pos
<1>. QED  BY <1>1, <1>2, <1>3, <1>4, <1>5, <1>6,
             <1>7, <1>8, <1>9, <1>10, <1>11, <1>12 DEF IInv

\* The mutex is taken when nobody holds it.
LEMMA LockInv == ASSUME IInv, NEW t \in Task, Lock(t) PROVE IInv'
<1>1. TypeOK'
  BY DEF IInv, TypeOK, RoomInv, Lock, fifo, calls
<1>2. MutexInv'
  BY DEF IInv, TypeOK, RoomInv, MutexInv, Lock, fifo, calls
<1>3. ChunkInv'
  BY DEF IInv, TypeOK, RoomInv, ChunkInv, Pos, Max, Lock, fifo, calls
<1>4. StoreInv'
  BY DEF IInv, TypeOK, RoomInv, MutexInv, StoreInv, Avail, Lock, fifo, calls
<1>5. RoomInv'
  BY DEF IInv, TypeOK, RoomInv, Lock, fifo, calls
<1>6. RingConsistent'
  BY DEF IInv, TypeOK, RoomInv, RingConsistent, Wrap, Lock, fifo, calls
<1>7. ContentsInOrder'
  BY DEF IInv, TypeOK, RoomInv, ContentsInOrder, Wrap, Lock, fifo, calls
<1>8. CopiedInv'
  BY DEF IInv, TypeOK, RoomInv, CopiedInv, Lock, fifo, calls
<1>9. OutInv'
  BY DEF IInv, TypeOK, RoomInv, OutInv, Lock, fifo, calls
<1>10. DeliveredInOrder'
  BY DEF IInv, TypeOK, RoomInv, DeliveredInOrder, Lock, fifo, calls
<1>11. NoLostWakeup'
  BY DEF IInv, TypeOK, RoomInv, MutexInv, NoLostWakeup, Avail, Lock, fifo, calls
<1>12. PollInv'
  BY DEF IInv, TypeOK, RoomInv, PollInv, Avail, Lock, fifo, calls
<1>. QED  BY <1>1, <1>2, <1>3, <1>4, <1>5, <1>6,
             <1>7, <1>8, <1>9, <1>10, <1>11, <1>12 DEF IInv

\* A failed test gives the mutex back and leaves the ring alone.
LEMMA ShortInv == ASSUME IInv, NEW t \in Task, Short(t) PROVE IInv'
<1>1. TypeOK'
  BY DEF IInv, TypeOK, RoomInv, Short, fifo, calls
<1>2. MutexInv'
  BY DEF IInv, TypeOK, RoomInv, MutexInv, Short, fifo, calls
<1>3. ChunkInv'
  BY DEF IInv, TypeOK, RoomInv, ChunkInv, Pos, Max, Short, fifo, calls
<1>4. StoreInv'
  BY DEF IInv, TypeOK, RoomInv, MutexInv, StoreInv, Avail, Short, fifo, calls
<1>5. RoomInv'
  BY DEF IInv, TypeOK, RoomInv, Short, fifo, calls
<1>6. RingConsistent'
  BY DEF IInv, TypeOK, RoomInv, RingConsistent, Wrap, Short, fifo, calls
<1>7. ContentsInOrder'
  BY DEF IInv, TypeOK, RoomInv, ContentsInOrder, Wrap, Short, fifo, calls
<1>8. CopiedInv'
  BY DEF IInv, TypeOK, RoomInv, CopiedInv, Short, fifo, calls
<1>9. OutInv'
  BY DEF IInv, TypeOK, RoomInv, OutInv, Short, fifo, calls
<1>10. DeliveredInOrder'
  BY DEF IInv, TypeOK, RoomInv, DeliveredInOrder, Short, fifo, calls
<1>11. NoLostWakeup'
  BY DEF IInv, TypeOK, RoomInv, MutexInv, NoLostWakeup, Avail, Short, fifo, calls
<1>12. PollInv'
  <2>1. polled => t # Reader
    BY DEF IInv, TypeOK, ChunkInv, PollInv, Avail, Short
  <2>. QED  BY <2>1 DEF IInv, TypeOK, RoomInv, PollInv, Short, fifo, calls
<1>. QED  BY <1>1, <1>2, <1>3, <1>4, <1>5, <1>6,
             <1>7, <1>8, <1>9, <1>10, <1>11, <1>12 DEF IInv

\* The unlocked room test only chooses between waiting and trying again.
LEMMA RoomInvariant == ASSUME IInv, Room PROVE IInv'
<1>1. TypeOK'
  BY DEF IInv, TypeOK, RoomInv, Room, fifo, calls
<1>2. MutexInv'
  BY DEF IInv, TypeOK, RoomInv, MutexInv, Room, fifo, calls
<1>3. ChunkInv'
  BY DEF IInv, TypeOK, RoomInv, ChunkInv, Pos, Max, Room, fifo, calls
<1>4. StoreInv'
  BY DEF IInv, TypeOK, RoomInv, MutexInv, StoreInv, Avail, Room, fifo, calls
<1>5. RoomInv'
  BY DEF IInv, TypeOK, RoomInv, Room, fifo, calls
<1>6. RingConsistent'
  BY DEF IInv, TypeOK, RoomInv, RingConsistent, Wrap, Room, fifo, calls
<1>7. ContentsInOrder'
  BY DEF IInv, TypeOK, RoomInv, ContentsInOrder, Wrap, Room, fifo, calls
<1>8. CopiedInv'
  BY DEF IInv, TypeOK, RoomInv, CopiedInv, Room, fifo, calls
<1>9. OutInv'
  BY DEF IInv, TypeOK, RoomInv, OutInv, Room, fifo, calls
<1>10. DeliveredInOrder'
  BY DEF IInv, TypeOK, RoomInv, DeliveredInOrder, Room, fifo, calls
<1>11. NoLostWakeup'
  BY DEF IInv, TypeOK, RoomInv, MutexInv, NoLostWakeup, Avail, Room, fifo, calls
<1>12. PollInv'
  BY DEF IInv, TypeOK, RoomInv, PollInv, Avail, Room, fifo, calls
<1>. QED  BY <1>1, <1>2, <1>3, <1>4, <1>5, <1>6,
             <1>7, <1>8, <1>9, <1>10, <1>11, <1>12 DEF IInv

\* A task that takes its semaphore goes back to size a chunk.
LEMMA WaitInv == ASSUME IInv, NEW t \in Task, Wait(t) PROVE IInv'
<1>1. TypeOK'
  BY DEF IInv, TypeOK, RoomInv, Wait, fifo, calls
<1>2. MutexInv'
  BY DEF IInv, TypeOK, RoomInv, MutexInv, Wait, fifo, calls
<1>3. ChunkInv'
  BY DEF IInv, TypeOK, RoomInv, ChunkInv, Pos, Max, Wait, fifo, calls
<1>4. StoreInv'
  BY DEF IInv, TypeOK, RoomInv, MutexInv, StoreInv, Avail, Wait, fifo, calls
<1>5. RoomInv'
  BY DEF IInv, TypeOK, RoomInv, Wait, fifo, calls
<1>6. RingConsistent'
  BY DEF IInv, TypeOK, RoomInv, RingConsistent, Wrap, Wait, fifo, calls
<1>7. ContentsInOrder'
  BY DEF IInv, TypeOK, RoomInv, ContentsInOrder, Wrap, Wait, fifo, calls
<1>8. CopiedInv'
  BY DEF IInv, TypeOK, RoomInv, CopiedInv, Wait, fifo, calls
<1>9. OutInv'
  BY DEF IInv, TypeOK, RoomInv, OutInv, Wait, fifo, calls
<1>10. DeliveredInOrder'
  BY DEF IInv, TypeOK, RoomInv, DeliveredInOrder, Wait, fifo, calls
<1>11. NoLostWakeup'
  BY DEF IInv, TypeOK, RoomInv, MutexInv, NoLostWakeup, Avail, Wait, fifo, calls
<1>12. PollInv'
  BY DEF IInv, TypeOK, RoomInv, PollInv, Avail, Wait, fifo, calls
<1>. QED  BY <1>1, <1>2, <1>3, <1>4, <1>5, <1>6,
             <1>7, <1>8, <1>9, <1>10, <1>11, <1>12 DEF IInv

\* Giving the other task its semaphore keeps every promised wakeup.
LEMMA SignalInv == ASSUME IInv, NEW t \in Task, Signal(t) PROVE IInv'
<1>1. TypeOK'
  BY DEF IInv, TypeOK, RoomInv, Signal, fifo, calls, ChunkInv
<1>2. MutexInv'
  BY DEF IInv, TypeOK, RoomInv, MutexInv, Signal, fifo, calls, ChunkInv
<1>3. ChunkInv'
  BY DEF IInv, TypeOK, RoomInv, ChunkInv, Pos, Max, Signal, fifo, calls, ChunkInv
<1>4. StoreInv'
  BY DEF IInv, TypeOK, RoomInv, MutexInv, StoreInv, Avail, Signal, fifo, calls, ChunkInv
<1>5. RoomInv'
  BY DEF IInv, TypeOK, RoomInv, Signal, fifo, calls, ChunkInv
<1>6. RingConsistent'
  BY DEF IInv, TypeOK, RoomInv, RingConsistent, Wrap, Signal, fifo, calls, ChunkInv
<1>7. ContentsInOrder'
  BY DEF IInv, TypeOK, RoomInv, ContentsInOrder, Wrap, Signal, fifo, calls, ChunkInv
<1>8. CopiedInv'
  BY DEF IInv, TypeOK, RoomInv, CopiedInv, Signal, fifo, calls, ChunkInv
<1>9. OutInv'
  BY DEF IInv, TypeOK, RoomInv, OutInv, Signal, fifo, calls, ChunkInv
<1>10. DeliveredInOrder'
  BY DEF IInv, TypeOK, RoomInv, DeliveredInOrder, Signal, fifo, calls, ChunkInv
<1>11. NoLostWakeup'
  BY DEF IInv, TypeOK, RoomInv, MutexInv, NoLostWakeup, Avail, Signal, fifo, calls, ChunkInv
<1>12. PollInv'
  BY DEF IInv, TypeOK, RoomInv, PollInv, Avail, Signal, fifo, calls, ChunkInv
<1>. QED  BY <1>1, <1>2, <1>3, <1>4, <1>5, <1>6,
             <1>7, <1>8, <1>9, <1>10, <1>11, <1>12 DEF IInv

\* RamFifoFill takes the mutex.
LEMMA FillLockInv == ASSUME IInv, NEW t \in Task, FillLock(t) PROVE IInv'
<1>1. TypeOK'
  BY DEF IInv, TypeOK, RoomInv, FillLock, fifo, calls
<1>2. MutexInv'
  BY DEF IInv, TypeOK, RoomInv, MutexInv, FillLock, fifo, calls
<1>3. ChunkInv'
  BY DEF IInv, TypeOK, RoomInv, ChunkInv, Pos, Max, FillLock, fifo, calls
<1>4. StoreInv'
  BY DEF IInv, TypeOK, RoomInv, MutexInv, StoreInv, Avail, FillLock, fifo, calls
<1>5. RoomInv'
  BY DEF IInv, TypeOK, RoomInv, FillLock, fifo, calls
<1>6. RingConsistent'
  BY DEF IInv, TypeOK, RoomInv, RingConsistent, Wrap, FillLock, fifo, calls
<1>7. ContentsInOrder'
  BY DEF IInv, TypeOK, RoomInv, ContentsInOrder, Wrap, FillLock, fifo, calls
<1>8. CopiedInv'
  BY DEF IInv, TypeOK, RoomInv, CopiedInv, FillLock, fifo, calls
<1>9. OutInv'
  BY DEF IInv, TypeOK, RoomInv, OutInv, FillLock, fifo, calls
<1>10. DeliveredInOrder'
  BY DEF IInv, TypeOK, RoomInv, DeliveredInOrder, FillLock, fifo, calls
<1>11. NoLostWakeup'
  BY DEF IInv, TypeOK, RoomInv, MutexInv, NoLostWakeup, Avail, FillLock, fifo, calls
<1>12. PollInv'
  BY DEF IInv, TypeOK, RoomInv, PollInv, Avail, FillLock, fifo, calls
<1>. QED  BY <1>1, <1>2, <1>3, <1>4, <1>5, <1>6,
             <1>7, <1>8, <1>9, <1>10, <1>11, <1>12 DEF IInv

\* RamFifoFill reports the fill it read under the mutex.
LEMMA FillReturnInv == ASSUME IInv, NEW t \in Task, FillReturn(t) PROVE IInv'
<1>1. TypeOK'
  BY DEF IInv, TypeOK, RoomInv, FillReturn, fifo, RingConsistent
<1>2. MutexInv'
  BY DEF IInv, TypeOK, RoomInv, MutexInv, FillReturn, fifo, RingConsistent
<1>3. ChunkInv'
  BY DEF IInv, TypeOK, RoomInv, ChunkInv, Pos, Max, FillReturn, fifo, RingConsistent
<1>4. StoreInv'
  BY DEF IInv, TypeOK, RoomInv, MutexInv, StoreInv, Avail, FillReturn, fifo, RingConsistent
<1>5. RoomInv'
  BY DEF IInv, TypeOK, RoomInv, FillReturn, fifo, RingConsistent
<1>6. RingConsistent'
  BY DEF IInv, TypeOK, RoomInv, RingConsistent, Wrap, FillReturn, fifo, RingConsistent
<1>7. ContentsInOrder'
  BY DEF IInv, TypeOK, RoomInv, ContentsInOrder, Wrap, FillReturn, fifo, RingConsistent
<1>8. CopiedInv'
  BY DEF IInv, TypeOK, RoomInv, CopiedInv, FillReturn, fifo, RingConsistent
<1>9. OutInv'
  BY DEF IInv, TypeOK, RoomInv, OutInv, FillReturn, fifo, RingConsistent
<1>10. DeliveredInOrder'
  BY DEF IInv, TypeOK, RoomInv, DeliveredInOrder, FillReturn, fifo, RingConsistent
<1>11. NoLostWakeup'
  BY DEF IInv, TypeOK, RoomInv, MutexInv, NoLostWakeup, Avail, FillReturn, fifo, RingConsistent
<1>12. PollInv'
  BY DEF IInv, TypeOK, RoomInv, PollInv, Avail, FillReturn, fifo, RingConsistent
<1>. QED  BY <1>1, <1>2, <1>3, <1>4, <1>5, <1>6,
             <1>7, <1>8, <1>9, <1>10, <1>11, <1>12 DEF IInv

\* The memcpy of a read takes the oldest unread bytes.
LEMMA ReadCopyInv == ASSUME IInv, ReadCopy PROVE IInv'
<1>a. /\ n[Reader] \in Nat \ {0} /\ n[Reader] <= fifoFill
      /\ n[Reader] <= Size - fifoRpos
  BY DEF IInv, TypeOK, ChunkInv, Max, Pos, ReadCopy
<1>b. out' = [i \in 1..n[Reader] |-> buf[fifoRpos + i - 1]]
  BY DEF ReadCopy
<1>c. out' \in Seq(Nat) /\ Len(out') = n[Reader]
  <2>1. \A i \in 1..n[Reader] : buf[fifoRpos + i - 1] \in Nat
    BY <1>a DEF IInv, TypeOK
  <2>. QED  BY <1>a, <1>b, <2>1
<1>1. TypeOK'
  BY <1>c DEF IInv, TypeOK, ReadCopy, calls
<1>2. MutexInv'
  BY DEF IInv, TypeOK, RoomInv, MutexInv, ReadCopy, calls
<1>3. ChunkInv'
  BY DEF IInv, TypeOK, RoomInv, ChunkInv, Pos, Max, ReadCopy, calls
<1>4. StoreInv'
  BY DEF IInv, TypeOK, RoomInv, MutexInv, StoreInv, Avail, ReadCopy, calls
<1>5. RoomInv'
  BY DEF IInv, TypeOK, RoomInv, ReadCopy, calls
<1>6. RingConsistent'
  BY DEF IInv, TypeOK, RoomInv, RingConsistent, Wrap, ReadCopy, calls
<1>7. ContentsInOrder'
  BY DEF IInv, TypeOK, RoomInv, ContentsInOrder, Wrap, ReadCopy, calls
<1>8. CopiedInv'
  BY DEF IInv, TypeOK, RoomInv, CopiedInv, ReadCopy, calls
<1>9. OutInv'
  BY <1>c DEF IInv, OutInv, TypeOK, ReadCopy, calls
<1>10. DeliveredInOrder'
  <2>. SUFFICES ASSUME NEW i \in 1..Len(out')
                PROVE  out'[i] = recvd + i
    BY DEF IInv, TypeOK, DeliveredInOrder, ReadCopy
  <2>1. i \in 1..n[Reader] /\ i - 1 \in 0..(fifoFill - 1) /\ fifoRpos + i - 1 < Size
    BY <1>a, <1>c DEF IInv, TypeOK
  <2>2. out'[i] = buf[fifoRpos + i - 1]
    BY <1>b, <2>1
  <2>3. buf[Wrap(fifoRpos + (i - 1))] = recvd + (i - 1) + 1
    BY <2>1 DEF IInv, ContentsInOrder
  <2>4. Wrap(fifoRpos + (i - 1)) = fifoRpos + i - 1
    BY <2>1 DEF Wrap, IInv, TypeOK
  <2>. QED  BY <2>1, <2>2, <2>3, <2>4 DEF IInv, TypeOK
<1>11. NoLostWakeup'
  BY DEF IInv, TypeOK, RoomInv, MutexInv, NoLostWakeup, Avail, ReadCopy, calls
<1>12. PollInv'
  BY DEF IInv, TypeOK, RoomInv, PollInv, Avail, ReadCopy, calls
<1>. QED  BY <1>1, <1>2, <1>3, <1>4, <1>5, <1>6,
             <1>7, <1>8, <1>9, <1>10, <1>11, <1>12 DEF IInv

\* The memcpy of a write fills free cells only, with the next bytes of the stream.
LEMMA WriteCopyInv == ASSUME IInv, WriteCopy PROVE IInv'
<1>a. /\ n[Writer] \in Nat \ {0} /\ n[Writer] <= Size - fifoFill
      /\ n[Writer] <= Size - fifoWpos
  BY DEF IInv, TypeOK, ChunkInv, Max, Pos, WriteCopy
<1>b. \A i \in 0..(Size - 1) :
        buf'[i] = IF i \in fifoWpos..(fifoWpos + n[Writer] - 1)
                    THEN sent + i - fifoWpos + 1 ELSE buf[i]
  BY DEF WriteCopy
<1>1. TypeOK'
  <2>1. ASSUME NEW i \in 0..(Size - 1) PROVE buf'[i] \in Nat
    <3>1. CASE i \in fifoWpos..(fifoWpos + n[Writer] - 1)
      <4>1. sent \in Nat /\ fifoWpos \in Nat /\ i \in Nat /\ i >= fifoWpos
        BY <1>a, <3>1 DEF IInv, TypeOK
      <4>. QED  BY <1>b, <3>1, <4>1
    <3>2. CASE i \notin fifoWpos..(fifoWpos + n[Writer] - 1)
      BY <1>b, <3>2 DEF IInv, TypeOK
    <3>. QED  BY <3>1, <3>2
  <2>2. buf' \in [0..(Size - 1) -> Nat]
    BY <2>1 DEF WriteCopy
  <2>. QED  BY <2>2 DEF IInv, TypeOK, WriteCopy, calls
<1>2. MutexInv'
  BY DEF IInv, TypeOK, RoomInv, MutexInv, WriteCopy, calls
<1>3. ChunkInv'
  BY DEF IInv, TypeOK, RoomInv, ChunkInv, Pos, Max, WriteCopy, calls
<1>4. StoreInv'
  BY DEF IInv, TypeOK, RoomInv, MutexInv, StoreInv, Avail, WriteCopy, calls
<1>5. RoomInv'
  BY DEF IInv, TypeOK, RoomInv, WriteCopy, calls
<1>6. RingConsistent'
  BY DEF IInv, TypeOK, RoomInv, RingConsistent, Wrap, WriteCopy, calls
<1>7. ContentsInOrder'
  <2>. SUFFICES ASSUME NEW i \in 0..(fifoFill - 1)
                PROVE  buf'[Wrap(fifoRpos + i)] = recvd + i + 1
    BY DEF WriteCopy, ContentsInOrder, Wrap
  <2>1. /\ Wrap(fifoRpos + i) \in 0..(Size - 1)
        /\ Wrap(fifoRpos + i) \notin fifoWpos..(fifoWpos + n[Writer] - 1)
    BY <1>a DEF IInv, TypeOK, RingConsistent, Wrap
  <2>. QED  BY <1>b, <2>1 DEF IInv, ContentsInOrder
<1>8. CopiedInv'
  <2>. SUFFICES ASSUME NEW i \in 0..(n[Writer] - 1)
                PROVE  buf'[fifoWpos + i] = sent + i + 1
    BY DEF WriteCopy, calls, CopiedInv
  <2>1. fifoWpos + i \in 0..(Size - 1) /\ fifoWpos + i \in fifoWpos..(fifoWpos + n[Writer] - 1)
    BY <1>a DEF IInv, TypeOK
  <2>. QED  BY <1>b, <2>1 DEF IInv, TypeOK
<1>9. OutInv'
  BY DEF IInv, TypeOK, RoomInv, OutInv, WriteCopy, calls
<1>10. DeliveredInOrder'
  BY DEF IInv, TypeOK, RoomInv, DeliveredInOrder, WriteCopy, calls
<1>11. NoLostWakeup'
  BY DEF IInv, TypeOK, RoomInv, MutexInv, NoLostWakeup, Avail, WriteCopy, calls
<1>12. PollInv'
  BY DEF IInv, TypeOK, RoomInv, PollInv, Avail, WriteCopy, calls
<1>. QED  BY <1>1, <1>2, <1>3, <1>4, <1>5, <1>6,
             <1>7, <1>8, <1>9, <1>10, <1>11, <1>12 DEF IInv

\* The store of a read removes exactly the bytes that were copied.
LEMMA ReadStoreInv == ASSUME IInv, ReadStore PROVE IInv'
<1>t. /\ Size \in Nat /\ fifoRpos \in 0..(Size - 1) /\ fifoWpos \in 0..(Size - 1)
      /\ fifoFill \in 0..Size /\ sent \in Nat /\ recvd \in Nat
  BY DEF IInv, TypeOK
<1>a. /\ n[Reader] \in Nat \ {0} /\ n[Reader] <= fifoFill /\ n[Reader] <= len[Reader]
      /\ n[Reader] <= Size - fifoRpos /\ reg[Reader] = fifoFill /\ len[Reader] <= MaxRead
      /\ len[Reader] \in Nat
  BY DEF IInv, TypeOK, ChunkInv, StoreInv, Max, Pos, Avail, ReadStore
<1>b. /\ fifoRpos' = IF fifoRpos + n[Reader] >= Size THEN 0 ELSE fifoRpos + n[Reader]
      /\ fifoFill' = fifoFill - n[Reader]
      /\ recvd' = recvd + n[Reader]
      /\ fifoWpos' = fifoWpos /\ sent' = sent
  BY <1>a DEF ReadStore, Advance
<1>c. fifoFill' \in 0..Size /\ fifoRpos' \in 0..(Size - 1) /\ recvd' \in Nat
  BY <1>a, <1>b, <1>t
<1>d. /\ len[Reader] - n[Reader] \in 0..MaxRead
      /\ len' = [len EXCEPT ![Reader] = len[Reader] - n[Reader]]
  BY <1>a DEF ReadStore
<1>1. TypeOK'
  <2>1. len' \in [Task -> Nat]
    BY <1>d DEF IInv, TypeOK
  <2>. QED  BY <1>c, <2>1 DEF IInv, TypeOK, ReadStore
<1>2. MutexInv'
  BY DEF IInv, TypeOK, RoomInv, MutexInv, ReadStore, Advance
<1>3. ChunkInv'
  <2>1. /\ pc'[Reader] = "signal" /\ pc'[Writer] = pc[Writer]
        /\ len'[Reader] \in 0..MaxRead /\ len'[Writer] = len[Writer]
        /\ n' = n /\ fifoWpos' = fifoWpos
    BY <1>d DEF IInv, TypeOK, ReadStore
  <2>. QED  BY <2>1 DEF IInv, ChunkInv, Max, Pos
<1>4. StoreInv'
  BY DEF IInv, TypeOK, RoomInv, MutexInv, StoreInv, Avail, ReadStore, Advance
<1>5. RoomInv'
  BY DEF IInv, TypeOK, RoomInv, ReadStore, Advance
<1>6. RingConsistent'
  <2>1. fifoWpos = Wrap(fifoRpos + fifoFill) /\ sent = recvd + fifoFill
    BY DEF IInv, RingConsistent
  <2>2. fifoWpos' = Wrap(fifoRpos' + fifoFill')
    BY <1>a, <1>b, <1>t, <2>1 DEF Wrap
  <2>3. sent' = recvd' + fifoFill'
    BY <1>a, <1>b, <1>t, <2>1
  <2>. QED  BY <2>2, <2>3 DEF RingConsistent, Wrap
<1>7. ContentsInOrder'
  <2>. SUFFICES ASSUME NEW i \in 0..(fifoFill' - 1)
                PROVE  buf[Wrap(fifoRpos' + i)] = recvd' + i + 1
    BY DEF ReadStore, ContentsInOrder, Wrap
  <2>1. i + n[Reader] \in 0..(fifoFill - 1)
    BY <1>a, <1>b, <1>t
  <2>2. Wrap(fifoRpos' + i) = Wrap(fifoRpos + (i + n[Reader]))
    BY <1>a, <1>b, <1>t, <2>1 DEF Wrap
  <2>3. buf[Wrap(fifoRpos + (i + n[Reader]))] = recvd + (i + n[Reader]) + 1
    BY <2>1 DEF IInv, ContentsInOrder
  <2>4. recvd' + i + 1 = recvd + (i + n[Reader]) + 1
    BY <1>a, <1>b, <1>c, <1>t
  <2>. QED  BY <2>2, <2>3, <2>4
<1>8. CopiedInv'
  BY DEF IInv, TypeOK, RoomInv, CopiedInv, ReadStore, Advance
<1>9. OutInv'
  BY DEF IInv, TypeOK, RoomInv, OutInv, ReadStore, Advance
<1>10. DeliveredInOrder'
  <2>1. /\ pc[Reader] = "store" /\ pc'[Reader] = "signal" /\ out' = out
        /\ Len(out) = n[Reader]
    BY DEF IInv, TypeOK, OutInv, ReadStore
  <2>2. \A i \in 1..Len(out) : out[i] = recvd + i
    BY <2>1 DEF IInv, DeliveredInOrder
  <2>3. recvd' - Len(out) = recvd
    BY <1>a, <1>b, <1>t, <2>1
  <2>. QED  BY <2>1, <2>2, <2>3 DEF DeliveredInOrder
<1>11. NoLostWakeup'
  <2>1. /\ pc'[Reader] = "signal" /\ pc'[Writer] = pc[Writer]
    BY DEF IInv, TypeOK, ReadStore
  <2>. QED  BY <2>1 DEF NoLostWakeup
<1>12. PollInv'
  <2>1. /\ pc[Reader] = "store" /\ pc'[Reader] = "signal" /\ seen' = seen
        /\ polled' = polled /\ len'[Reader] = len[Reader] - n[Reader]
    BY <1>d DEF IInv, TypeOK, ReadStore
  <2>2. seen = 0 /\ (polled => len[Reader] <= fifoFill)
    BY <2>1 DEF IInv, PollInv
  <2>3. seen' <= fifoFill' /\ (polled' => len'[Reader] <= fifoFill')
    BY <1>a, <1>b, <1>c, <1>t, <2>1, <2>2
  <2>. QED  BY <2>1, <2>2, <2>3 DEF PollInv
<1>. QED  BY <1>1, <1>2, <1>3, <1>4, <1>5, <1>6,
             <1>7, <1>8, <1>9, <1>10, <1>11, <1>12 DEF IInv

\* The store of a write publishes exactly the bytes that were copied.
LEMMA WriteStoreInv == ASSUME IInv, WriteStore PROVE IInv'
<1>t. /\ Size \in Nat /\ fifoRpos \in 0..(Size - 1) /\ fifoWpos \in 0..(Size - 1)
      /\ fifoFill \in 0..Size /\ sent \in Nat /\ recvd \in Nat
  BY DEF IInv, TypeOK
<1>a. /\ n[Writer] \in Nat \ {0} /\ n[Writer] <= Size - fifoFill /\ n[Writer] <= len[Writer]
      /\ n[Writer] <= Size - fifoWpos /\ reg[Writer] = fifoFill /\ len[Writer] <= MaxWrite
      /\ len[Writer] \in Nat
  BY DEF IInv, TypeOK, ChunkInv, StoreInv, Max, Pos, Avail, WriteStore
<1>b. /\ fifoWpos' = IF fifoWpos + n[Writer] >= Size THEN 0 ELSE fifoWpos + n[Writer]
      /\ fifoFill' = fifoFill + n[Writer]
      /\ sent' = sent + n[Writer]
      /\ fifoRpos' = fifoRpos /\ recvd' = recvd
  BY <1>a DEF WriteStore, Advance
<1>c. fifoFill' \in 0..Size /\ fifoWpos' \in 0..(Size - 1) /\ sent' \in Nat
  BY <1>a, <1>b, <1>t
<1>d. /\ len[Writer] - n[Writer] \in 0..MaxWrite
      /\ len' = [len EXCEPT ![Writer] = len[Writer] - n[Writer]]
  BY <1>a DEF WriteStore
<1>e. pc[Writer] = "store" /\ pc'[Writer] = "signal" /\ pc'[Reader] = pc[Reader]
  BY DEF IInv, TypeOK, WriteStore
<1>1. TypeOK'
  <2>1. len' \in [Task -> Nat]
    BY <1>d DEF IInv, TypeOK
  <2>. QED  BY <1>c, <2>1 DEF IInv, TypeOK, WriteStore
<1>2. MutexInv'
  BY DEF IInv, TypeOK, RoomInv, MutexInv, WriteStore, Advance
<1>3. ChunkInv'
  <2>1. /\ len'[Writer] \in 0..MaxWrite /\ len'[Reader] = len[Reader] /\ n' = n
    BY <1>d DEF IInv, TypeOK, WriteStore
  <2>. QED  BY <1>b, <1>e, <2>1 DEF IInv, ChunkInv, Max, Pos
<1>4. StoreInv'
  BY DEF IInv, TypeOK, RoomInv, MutexInv, StoreInv, Avail, WriteStore, Advance
<1>5. RoomInv'
  BY DEF IInv, TypeOK, RoomInv, WriteStore, Advance
<1>6. RingConsistent'
  <2>1. fifoWpos = Wrap(fifoRpos + fifoFill) /\ sent = recvd + fifoFill
    BY DEF IInv, RingConsistent
  <2>2. fifoWpos' = Wrap(fifoRpos' + fifoFill')
    BY <1>a, <1>b, <1>t, <2>1 DEF Wrap
  <2>3. sent' = recvd' + fifoFill'
    BY <1>a, <1>b, <1>t, <2>1
  <2>. QED  BY <2>2, <2>3 DEF RingConsistent, Wrap
<1>7. ContentsInOrder'
  <2>. SUFFICES ASSUME NEW i \in 0..(fifoFill' - 1)
                PROVE  buf[Wrap(fifoRpos + i)] = recvd + i + 1
    BY DEF WriteStore, ContentsInOrder, Wrap
  <2>1. CASE i < fifoFill
    <3>1. i \in 0..(fifoFill - 1)
      BY <1>a, <1>b, <1>t, <2>1
    <3>. QED  BY <3>1 DEF IInv, ContentsInOrder
  <2>2. CASE i >= fifoFill
    <3>1. i - fifoFill \in 0..(n[Writer] - 1)
      BY <1>a, <1>b, <1>t, <2>2
    <3>2. fifoWpos = Wrap(fifoRpos + fifoFill) /\ sent = recvd + fifoFill
      BY DEF IInv, RingConsistent
    <3>3. Wrap(fifoRpos + i) = fifoWpos + (i - fifoFill)
      BY <1>a, <1>t, <2>2, <3>1, <3>2 DEF Wrap
    <3>4. buf[fifoWpos + (i - fifoFill)] = sent + (i - fifoFill) + 1
      BY <1>e, <3>1 DEF IInv, CopiedInv
    <3>5. sent + (i - fifoFill) + 1 = recvd + i + 1
      BY <1>t, <2>2, <3>1, <3>2
    <3>. QED  BY <3>3, <3>4, <3>5
  <2>. QED  BY <1>c, <1>t, <2>1, <2>2
<1>8. CopiedInv'
  BY DEF IInv, TypeOK, RoomInv, CopiedInv, WriteStore, Advance
<1>9. OutInv'
  BY DEF IInv, TypeOK, RoomInv, OutInv, WriteStore, Advance
<1>10. DeliveredInOrder'
  BY DEF IInv, TypeOK, RoomInv, DeliveredInOrder, WriteStore, Advance
<1>11. NoLostWakeup'
  <2>. QED  BY <1>e DEF NoLostWakeup, IInv, TypeOK, RoomInv
<1>12. PollInv'
  <2>1. seen' = seen /\ polled' = polled /\ len'[Reader] = len[Reader] /\ fifoFill <= fifoFill'
    BY <1>a, <1>b, <1>d, <1>t DEF IInv, TypeOK, WriteStore
  <2>2. seen \in Nat /\ len[Reader] \in Nat
    BY DEF IInv, TypeOK
  <2>. QED  BY <1>c, <1>e, <1>t, <2>1, <2>2 DEF IInv, PollInv
<1>. QED  BY <1>1, <1>2, <1>3, <1>4, <1>5, <1>6,
             <1>7, <1>8, <1>9, <1>10, <1>11, <1>12 DEF IInv

-----------------------------------------------------------------------------
\* Every step of the two tasks preserves the invariant.
LEMMA StepInv == IInv /\ [Next]_vars => IInv'
<1>. SUFFICES ASSUME IInv, [Next]_vars PROVE IInv'
  OBVIOUS
<1>1. CASE Read
  BY <1>1, CallReadInv DEF Read
<1>2. CASE Write
  BY <1>2, CallWriteInv DEF Write
<1>3. ASSUME NEW t \in Task, CallFill(t) PROVE IInv'
  BY <1>3, CallFillInv
<1>4. ASSUME NEW t \in Task, Step(t) PROVE IInv'
  <2>1. CASE Chunk(t) \/ Lock(t) \/ Short(t) \/ (t = Reader /\ Room) \/ Wait(t)
    BY <2>1, ChunkInvariant, LockInv, ShortInv, RoomInvariant, WaitInv
  <2>2. CASE Copy(t)
    BY <2>2, ReadCopyInv, WriteCopyInv DEF Copy
  <2>3. CASE Store(t)
    BY <2>3, ReadStoreInv, WriteStoreInv DEF Store
  <2>4. CASE Signal(t) \/ FillLock(t) \/ FillReturn(t)
    BY <2>4, SignalInv, FillLockInv, FillReturnInv
  <2>. QED  BY <1>4, <2>1, <2>2, <2>3, <2>4 DEF Step
<1>5. CASE UNCHANGED vars
  BY <1>5 DEF vars, fifo, calls, IInv, TypeOK, MutexInv, ChunkInv, StoreInv, RoomInv,
     RingConsistent, ContentsInOrder, CopiedInv, OutInv, DeliveredInOrder, NoLostWakeup,
     PollInv, Pos, Avail, Wrap, Max
<1>. QED  BY <1>1, <1>2, <1>3, <1>4, <1>5 DEF Next

\* The invariant holds in every reachable state.
THEOREM Invariance == Spec => []IInv
<1>. QED  BY InitInv, StepInv, PTL DEF Spec

\* The variables keep their types: in particular the positions stay inside
\* the buffer and the fill never exceeds it.
THEOREM TypeCorrect == Spec => []TypeOK
<1>1. IInv => TypeOK
  BY DEF IInv
<1>. QED  BY <1>1, Invariance, PTL

\* Positions, fill and byte counts agree in every state: no update of
\* fifoFill is lost although both tasks change it.
THEOREM RingStaysConsistent == Spec => []RingConsistent
<1>1. IInv => RingConsistent
  BY DEF IInv
<1>. QED  BY <1>1, Invariance, PTL

\* The unread cells always hold the next bytes of the stream in order.
THEOREM NothingOverwritten == Spec => []ContentsInOrder
<1>1. IInv => ContentsInOrder
  BY DEF IInv
<1>. QED  BY <1>1, Invariance, PTL

\* RamFifoRead delivers the bytes of the stream in order, without gap or
\* repetition.
THEOREM StreamOrder == Spec => []DeliveredInOrder
<1>1. IInv => DeliveredInOrder
  BY DEF IInv
<1>. QED  BY <1>1, Invariance, PTL

\* The signals given after the mutex is released are enough.
THEOREM WakeupsKept == Spec => []NoLostWakeup
<1>1. IInv => NoLostWakeup
  BY DEF IInv
<1>. QED  BY <1>1, Invariance, PTL

\* The two tasks are never both blocked for good: this is where the request
\* sizes against the buffer size (SizeAssumption) matter.
THEOREM NeverBothBlocked == Spec => []NoMutualWait
<1>1. IInv => NoMutualWait
  <2>. SUFFICES ASSUME IInv, pc[Reader] = "wait", pc[Writer] = "wait",
                       ~ sem[Reader], ~ sem[Writer]
                PROVE  FALSE
    BY DEF NoMutualWait
  <2>1. fifoFill < n[Reader] /\ Size - fifoFill < n[Writer]
    BY DEF IInv, TypeOK, NoLostWakeup, Avail
  <2>2. n[Reader] <= MaxRead /\ n[Writer] <= MaxWrite
    BY DEF IInv, TypeOK, ChunkInv, Max
  <2>. QED  BY <2>1, <2>2 DEF IInv, TypeOK
<1>. QED  BY <1>1, Invariance, PTL

\* The decoder, which asks only for what RamFifoFill reported, never waits
\* inside RamFifoRead.
THEOREM DecoderNeverWaits == Spec => []PolledReadNeverWaits
<1>1. IInv => PolledReadNeverWaits
  BY DEF IInv, PollInv, PolledReadNeverWaits
<1>. QED  BY <1>1, Invariance, PTL

-----------------------------------------------------------------------------
(* The ring buffer implements the byte queue: the unread bytes are the     *)
(* numbers between what was read and what was written, a read takes the    *)
(* first of them, and a write appends the next ones.                       *)

\* The bytes a+1 .. b of the stream.
Stretch(a, b) == [i \in 1..(b - a) |-> a + i]

\* A stretch is a sequence of numbers.
LEMMA StretchSeq ==
  ASSUME NEW a \in Nat, NEW b \in Nat, a <= b
  PROVE  /\ Stretch(a, b) \in Seq(Nat) /\ Len(Stretch(a, b)) = b - a
         /\ \A i \in 1..(b - a) : Stretch(a, b)[i] = a + i
BY DEF Stretch

\* Two stretches that meet are one.
LEMMA StretchConcat ==
  ASSUME NEW a \in Nat, NEW b \in Nat, NEW c \in Nat, a <= b, b <= c
  PROVE  Stretch(a, c) = Stretch(a, b) \o Stretch(b, c)
<1>1. PICK s \in Seq(Nat) :
        s = Stretch(a, c) /\ Len(s) = c - a /\ \A i \in 1..(c - a) : s[i] = a + i
  <2>1. a <= c
    OBVIOUS
  <2> QED BY <2>1, StretchSeq
<1>2. PICK x \in Seq(Nat) :
        x = Stretch(a, b) /\ Len(x) = b - a /\ \A i \in 1..(b - a) : x[i] = a + i
  BY StretchSeq
<1>3. PICK y \in Seq(Nat) :
        y = Stretch(b, c) /\ Len(y) = c - b /\ \A i \in 1..(c - b) : y[i] = b + i
  BY StretchSeq
<1>4. PICK t \in Seq(Nat) :
        /\ t = x \o y /\ Len(t) = Len(x) + Len(y)
        /\ \A i \in 1..Len(x) : t[i] = x[i]
        /\ \A i \in 1..Len(y) : t[Len(x) + i] = y[i]
  <2>1. x \o y \in Seq(Nat) /\ Len(x \o y) = Len(x) + Len(y)
    OBVIOUS
  <2>2. \A i \in 1..Len(x) : (x \o y)[i] = x[i]
    OBVIOUS
  <2>3. \A i \in 1..Len(y) : (x \o y)[Len(x) + i] = y[i]
    OBVIOUS
  <2> QED BY <2>1, <2>2, <2>3
<1>5. Len(t) = c - a
  BY <1>2, <1>3, <1>4
<1>6. ASSUME NEW i \in 1..(c - a) PROVE t[i] = a + i
  <2>1. CASE i <= b - a
    BY <1>2, <1>4, <2>1
  <2>2. CASE i > b - a
    <3>1. PICK j \in 1..(c - b) : i = (b - a) + j
      <4>1. i - (b - a) \in 1..(c - b) /\ i = (b - a) + (i - (b - a))
        BY <2>2
      <4> QED BY <4>1
    <3>2. t[i] = y[j]
      BY <1>2, <1>3, <1>4, <3>1
    <3> QED BY <1>3, <3>1, <3>2
  <2>3. i <= b - a \/ i > b - a
    OBVIOUS
  <2> QED BY ONLY <2>1, <2>2, <2>3
<1>7. s = t
  BY <1>1, <1>5, <1>6
<1> QED BY <1>1, <1>2, <1>3, <1>4, <1>7

\* A stretch is a prefix of a longer one with the same beginning.
LEMMA StretchPrefix ==
  ASSUME NEW a \in Nat, NEW b \in Nat, NEW c \in Nat, a <= b, b < c
  PROVE  Queue!IsStrictPrefix(Stretch(a, b), Stretch(a, c))
<1> DEFINE s == Stretch(a, b)
           t == Stretch(a, c)
<1>1. s \in Seq(Nat) /\ Len(s) = b - a /\ \A i \in 1..(b - a) : s[i] = a + i
  BY StretchSeq
<1>2. t \in Seq(Nat) /\ Len(t) = c - a /\ \A i \in 1..(c - a) : t[i] = a + i
  <2>1. a <= c
    OBVIOUS
  <2> QED BY <2>1, StretchSeq
<1> HIDE DEF s, t
<1>3. SubSeq(s, 1, Len(s)) = SubSeq(t, 1, Len(s))
  BY <1>1, <1>2
<1>4. s # t
  BY <1>1, <1>2
<1>5. Len(s) <= Len(t)
  BY <1>1, <1>2
<1> QED BY <1>3, <1>4, <1>5 DEF Queue!IsStrictPrefix, Queue!IsPrefix, s, t

\* The abstract queue in terms of the counts of bytes.
Consistent ==
  /\ recvd \in Nat /\ sent \in Nat /\ UnreadFrom \in Nat
  /\ recvd + UnreadFrom <= sent /\ sent <= recvd + Size
  /\ Unread = Stretch(recvd + UnreadFrom, sent)

\* The unread bytes are the stretch between what was read and what was written.
LEMMA UnreadIs == IInv => Consistent
<1> SUFFICES ASSUME IInv PROVE Consistent
  OBVIOUS
<1>1. /\ recvd \in Nat /\ sent = recvd + fifoFill /\ fifoFill \in 0..Size
      /\ fifoRpos \in Nat
  BY DEF IInv, TypeOK, RingConsistent
<1>2. UnreadFrom \in 0..fifoFill
  <2>1. CASE pc[Reader] = "store"
    <3>1. n[Reader] <= Avail(Reader)
      BY <2>1 DEF IInv, StoreInv, Task
    <3>2. n[Reader] \in Nat
      BY DEF IInv, TypeOK, Task
    <3> QED BY <1>1, <2>1, <3>1, <3>2 DEF Avail, UnreadFrom
  <2>2. CASE pc[Reader] # "store"
    BY <1>1, <2>2 DEF UnreadFrom
  <2> QED BY <2>1, <2>2
<1>3. ASSUME NEW i \in 1..(fifoFill - UnreadFrom)
      PROVE  buf[Wrap(fifoRpos + UnreadFrom + i - 1)] = recvd + UnreadFrom + i
  <2>1. UnreadFrom + i - 1 \in 0..(fifoFill - 1)
    BY <1>1, <1>2
  <2>2. buf[Wrap(fifoRpos + (UnreadFrom + i - 1))] = recvd + (UnreadFrom + i - 1) + 1
    BY <2>1 DEF IInv, ContentsInOrder
  <2>3. /\ fifoRpos + (UnreadFrom + i - 1) = fifoRpos + UnreadFrom + i - 1
        /\ recvd + (UnreadFrom + i - 1) + 1 = recvd + UnreadFrom + i
    BY <1>1, <1>2
  <2> QED BY <2>2, <2>3
<1>4. sent - (recvd + UnreadFrom) = fifoFill - UnreadFrom
  BY <1>1, <1>2
<1>5. Unread = Stretch(recvd + UnreadFrom, sent)
  BY <1>3, <1>4 DEF Unread, Stretch
<1>6. recvd + UnreadFrom <= sent /\ sent <= recvd + Size /\ UnreadFrom \in Nat
  BY <1>1, <1>2, SizeAssumption
<1> QED BY <1>1, <1>5, <1>6 DEF Consistent

\* The same in the next state.
LEMMA UnreadIsNext == IInv' => Consistent'
BY UnreadIs, PTL

\* An empty ring is an empty queue.
LEMMA InitRefines == Init => Queue!Init
<1> SUFFICES ASSUME Init PROVE Unread = <<>> /\ out = <<>>
  BY DEF Queue!Init
<1>1. pc[Reader] = "idle" /\ fifoFill = 0
  BY DEF Init, Task
<1>2. fifoFill - UnreadFrom = 0
  BY <1>1 DEF UnreadFrom
<1> QED BY <1>2 DEF Init, Unread

\* While no byte is read or written and no memcpy of the reader begins or ends,
\* the queue stays as it is.
LEMMA SameQueue ==
  ASSUME IInv, IInv', UNCHANGED <<recvd, sent, out>>, UnreadFrom' = UnreadFrom
  PROVE  UNCHANGED <<Unread, out>>
BY UnreadIs, UnreadIsNext DEF Consistent

\* The memcpy of a read takes the oldest bytes.
LEMMA ReadCopyTakes == ASSUME IInv, IInv', ReadCopy PROVE Queue!Take
<1>1. /\ pc[Reader] = "test" /\ pc'[Reader] = "store" /\ n'[Reader] = n[Reader]
      /\ recvd' = recvd /\ sent' = sent
  BY DEF ReadCopy, IInv, TypeOK, Task, Goto, calls
<1>2. n[Reader] \in Nat \ {0} /\ n[Reader] <= fifoFill
  BY <1>1 DEF ReadCopy, IInv, TypeOK, ChunkInv, Task
<1>3. UnreadFrom = 0 /\ UnreadFrom' = n[Reader]
  BY <1>1 DEF UnreadFrom
<1>4. /\ Unread = Stretch(recvd, sent) /\ recvd \in Nat /\ sent \in Nat
      /\ Unread' = Stretch(recvd + n[Reader], sent) /\ recvd + n[Reader] <= sent
  BY <1>1, <1>2, <1>3, UnreadIs, UnreadIsNext DEF Consistent
<1>5. out' = Stretch(recvd, recvd + n[Reader])
  <2>1. out' = [i \in 1..n[Reader] |-> buf[fifoRpos + i - 1]]
    BY DEF ReadCopy
  <2>2. Len(out') = n[Reader]
    BY <1>2, <2>1
  <2>3. \A i \in 1..n[Reader] : out'[i] = recvd + i
    BY <1>1, <2>2 DEF IInv, DeliveredInOrder
  <2>4. (recvd + n[Reader]) - recvd = n[Reader]
    BY <1>2, <1>4
  <2> QED BY <2>1, <2>3, <2>4 DEF Stretch
<1>6. out' # <<>>
  <2>1. Len(out') = n[Reader]
    BY <1>2 DEF ReadCopy
  <2> QED BY <1>2, <2>1
<1>7. Unread = out' \o Unread'
  <2>1. recvd + n[Reader] \in Nat /\ recvd <= recvd + n[Reader]
    BY <1>2, <1>4
  <2>2. PICK k \in Nat : k = recvd + n[Reader]
    BY <2>1
  <2>3. recvd <= k /\ k <= sent
    BY <1>4, <2>1, <2>2
  <2>4. Stretch(recvd, sent) = Stretch(recvd, k) \o Stretch(k, sent)
    <3>1. recvd \in Nat /\ sent \in Nat
      BY <1>4
    <3> QED BY ONLY <2>3, <3>1, k \in Nat, StretchConcat
  <2> QED BY <1>4, <1>5, <2>2, <2>4
<1> QED BY <1>6, <1>7 DEF Queue!Take

\* The updates after it are invisible.
LEMMA ReadStoreHidden == ASSUME IInv, IInv', ReadStore PROVE UNCHANGED <<Unread, out>>
<1>1. /\ pc[Reader] = "store" /\ pc'[Reader] = "signal"
      /\ recvd' = recvd + n[Reader] /\ sent' = sent /\ out' = out
  BY DEF ReadStore, IInv, TypeOK, Task, Goto
<1>2. UnreadFrom = n[Reader] /\ UnreadFrom' = 0 /\ n[Reader] \in Nat
  BY <1>1 DEF UnreadFrom, IInv, TypeOK, Task
<1>3. Unread = Stretch(recvd + n[Reader], sent) /\ recvd \in Nat
  BY <1>2, UnreadIs DEF Consistent
<1>4. Unread' = Stretch(recvd' + 0, sent)
  BY <1>1, <1>2, UnreadIsNext DEF Consistent
<1>5. recvd' + 0 = recvd + n[Reader]
  BY <1>1, <1>2, <1>3
<1> QED BY <1>1, <1>3, <1>4, <1>5

\* Storing fifoFill publishes the bytes of a write.
LEMMA WriteStorePuts == ASSUME IInv, IInv', WriteStore PROVE Queue!Put
<1>1. /\ pc[Writer] = "store" /\ pc'[Reader] = pc[Reader] /\ n' = n
      /\ recvd' = recvd /\ sent' = sent + n[Writer] /\ out' = out
  BY DEF WriteStore, IInv, TypeOK, Task, Reader, Writer, Goto
<1>2. UnreadFrom' = UnreadFrom
  BY <1>1 DEF UnreadFrom
<1>3. n[Writer] \in Nat \ {0}
  BY <1>1 DEF IInv, TypeOK, ChunkInv, Task
<1>4. PICK a \in Nat : a = recvd + UnreadFrom
  BY UnreadIs DEF Consistent
<1>5. PICK b \in Nat : b = sent + n[Writer]
  BY <1>3, UnreadIs DEF Consistent
<1>6. /\ sent \in Nat /\ a <= sent /\ Unread = Stretch(a, sent) /\ Unread' = Stretch(a, b)
  BY <1>1, <1>2, <1>4, <1>5, UnreadIs, UnreadIsNext DEF Consistent
<1>7. sent < b /\ a <= b /\ b <= recvd + Size /\ recvd \in Nat /\ UnreadFrom \in Nat
  BY <1>1, <1>3, <1>5, <1>6, UnreadIs, UnreadIsNext DEF Consistent
<1>8. b - a <= Size
  BY <1>4, <1>7, SizeAssumption
<1>9. Queue!IsStrictPrefix(Unread, Unread')
  BY <1>6, <1>7, StretchPrefix
<1>10. Len(Unread') <= Size
  <2>1. Len(Stretch(a, b)) = b - a
    BY <1>7, StretchSeq
  <2> QED BY <1>6, <1>8, <2>1
<1> QED BY <1>1, <1>9, <1>10 DEF Queue!Put

\* Every other step is invisible.
LEMMA OtherHidden ==
  ASSUME IInv, IInv', [Next]_vars, ~ ReadCopy, ~ ReadStore, ~ WriteStore
  PROVE  UNCHANGED <<Unread, out>>
<1> USE DEF fifo, calls, Task, Reader, Writer, Goto
<1> DEFINE Quiet == /\ UNCHANGED <<recvd, sent, out>>
                    /\ \/ pc[Reader] # "store" /\ pc'[Reader] # "store"
                       \/ pc'[Reader] = pc[Reader] /\ n'[Reader] = n[Reader]
<1>1. pc \in [Task -> Labels] /\ n \in [Task -> Nat]
  BY DEF IInv, TypeOK
<1>2. ASSUME NEW k \in Nat, CallRead(k) \/ CallWrite(k) PROVE Quiet
  BY <1>1, <1>2 DEF CallRead, CallWrite
<1>3. ASSUME NEW t \in Task, CallFill(t) \/ Lock(t) \/ Short(t) PROVE Quiet
  BY <1>1, <1>3 DEF CallFill, Lock, Short
<1>4. ASSUME NEW t \in Task, Chunk(t) PROVE Quiet
  <2>1. /\ pc' = [pc EXCEPT ![t] = "lock"] /\ pc[t] = "chunk" /\ UNCHANGED <<recvd, sent, out>>
        /\ \E k : n' = [n EXCEPT ![t] = k]
    BY <1>4 DEF Chunk
  <2>2. CASE t = Reader
    BY <1>1, <2>1, <2>2
  <2>3. CASE t = Writer
    BY <1>1, <2>1, <2>3
  <2> QED BY <2>2, <2>3
<1>5. ASSUME NEW t \in Task, Wait(t) \/ Signal(t) \/ FillLock(t) \/ FillReturn(t) PROVE Quiet
  BY <1>1, <1>5 DEF Wait, Signal, FillLock, FillReturn
<1>6. ASSUME Room \/ WriteCopy PROVE Quiet
  BY <1>1, <1>6 DEF Room, WriteCopy
<1>7. ASSUME UNCHANGED vars PROVE Quiet
  BY <1>7 DEF vars
<1>8. Quiet
  <2> HIDE DEF Quiet
  <2>1. ASSUME Read \/ Write PROVE Quiet
    BY <1>2, <2>1 DEF Read, Write
  <2>2. ASSUME NEW t \in Task, Step(t) PROVE Quiet
    BY <1>3, <1>4, <1>5, <1>6, <2>2 DEF Step, Copy, Store
  <2> QED BY <1>3, <1>7, <2>1, <2>2 DEF Next
<1>9. UnreadFrom' = UnreadFrom
  BY <1>8 DEF UnreadFrom
<1> QED BY <1>8, <1>9, SameQueue

\* Every step of the ring is a step of the queue, or invisible.
LEMMA StepRefines ==
  ASSUME IInv, IInv', [Next]_vars PROVE [Queue!Next]_<<Unread, out>>
BY ReadCopyTakes, ReadStoreHidden, WriteStorePuts, OtherHidden DEF Queue!Next

\* The ring buffer of spiram_fifo.c is a bounded queue of bytes.
THEOREM RingIsQueue == Spec => ImplementsByteQueue
<1>1. IInv /\ IInv' /\ [Next]_vars => [Queue!Next]_<<Unread, out>>
  BY StepRefines
<1> QED
  BY <1>1, InitRefines, Invariance, PTL DEF Spec, ImplementsByteQueue, Queue!Spec
=============================================================================

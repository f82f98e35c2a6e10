------------------------------ MODULE RamFifo ------------------------------
(***************************************************************************)
(* spiram_fifo.c: the ring buffer that carries the MP3 stream from the     *)
(* network task (tskreader, here Writer) to the decoder (tskmad, here      *)
(* Reader).  The two tasks run at the same priority and are time-sliced,   *)
(* so every access to the shared structure is a step of its own: the       *)
(* chunk is sized before the mutex is taken, tests and copies happen under *)
(* the mutex, and the room test of RamFifoRead and all the semaphore calls *)
(* happen after it was given back.                                         *)
(*                                                                         *)
(* The bytes of the stream are numbered 1, 2, 3, ... in the order they are *)
(* written; a cell of the buffer holds the number of its byte.             *)
(***************************************************************************)
EXTENDS Integers, Sequences

CONSTANTS Size,       \* fifoSize
          Rez,        \* FIFO_REZSIZE
          MaxRead,    \* largest request of RamFifoRead (READBUFSZ)
          MaxWrite,   \* largest request of RamFifoWrite (SOCK_READ_BUF)
          MaxStream   \* bound: bytes written in one behaviour

\* RamFifoInit refuses a size below 2*FIFO_REZSIZE; the callers' buffers
\* (2106 and 256 bytes against at least 4096) satisfy the last conjunct.
ASSUME SizeAssumption ==
  /\ Size \in Nat /\ Rez \in Nat \ {0} /\ 2 * Rez <= Size
  /\ MaxRead \in Nat \ {0} /\ MaxWrite \in Nat \ {0}
  /\ MaxRead + MaxWrite <= Size + 1
  /\ MaxStream \in Nat

Reader == "reader"    \* tskmad, in input()
Writer == "writer"    \* tskreader and http_head_read
Task   == {Reader, Writer}
Free   == "free"      \* nobody holds the mutex

VARIABLES fifoRpos, fifoWpos, fifoFill,
          buf,        \* number of the byte in each cell, 0 when never written
          mux,        \* holder of the mutex, or Free
          sem,        \* sem[Reader] is semCanRead, sem[Writer] is semCanWrite
          pc,         \* where each task is
          len,        \* len of the call in progress: bytes still to move
          n,          \* size of the chunk the task is working on
          reg,        \* fifoFill as loaded for its update under the mutex
          seen,       \* what RamFifoFill last returned to the reader
          polled,     \* history: the reader's call asks for no more than that
          out,        \* bytes of the last memcpy to the reader's buffer
          sent, recvd \* history: bytes written and bytes read so far

fifo  == <<fifoRpos, fifoWpos, fifoFill, buf, out, sent, recvd, reg>>
calls == <<len, n, seen, polled>>
vars  == <<fifo, mux, sem, pc, calls>>

Other(t) == IF t = Reader THEN Writer ELSE Reader
Pos(t)   == IF t = Reader THEN fifoRpos ELSE fifoWpos
Wrap(p)  == IF p >= Size THEN p - Size ELSE p

\* pos += k; if(pos >= fifoSize) pos = 0;
Advance(p, k) == IF p + k >= Size THEN 0 ELSE p + k

\* What the task's side of the ring offers it: data to read, room to write.
Avail(t) == IF t = Reader THEN fifoFill ELSE Size - fifoFill

Goto(t, from, to) == pc[t] = from /\ pc' = [pc EXCEPT ![t] = to]

\* After RamFifoInit; vSemaphoreCreateBinary leaves both semaphores given.
Init ==
  /\ fifoRpos = 0 /\ fifoWpos = 0 /\ fifoFill = 0
  /\ buf = [i \in 0..(Size - 1) |-> 0]
  /\ mux = Free
  /\ sem = [t \in Task |-> TRUE]
  /\ pc = [t \in Task |-> "idle"]
  /\ len = [t \in Task |-> 0] /\ n = [t \in Task |-> 0] /\ reg = [t \in Task |-> 0]
  /\ seen = 0 /\ polled = FALSE /\ out = <<>>
  /\ sent = 0 /\ recvd = 0

---------------------------------------------------------------------------
(* The calls.                                                              *)

\* RamFifoRead(buff, k), for any k; input() asks for min(READBUFSZ - rem,
\* RamFifoFill()), which is what `polled' remembers.
CallRead(k) ==
  /\ recvd + k <= MaxStream
  /\ Goto(Reader, "idle", "chunk")
  /\ len' = [len EXCEPT ![Reader] = k]
  /\ polled' = (k <= seen) /\ seen' = 0
  /\ UNCHANGED <<fifo, mux, sem, n>>

CallWrite(k) ==
  /\ sent + k <= MaxStream
  /\ Goto(Writer, "idle", "chunk")
  /\ len' = [len EXCEPT ![Writer] = k]
  /\ UNCHANGED <<fifo, mux, sem, n, seen, polled>>

CallFill(t) ==
  /\ Goto(t, "idle", "fill")
  /\ UNCHANGED <<fifo, mux, sem, calls>>

---------------------------------------------------------------------------
(* One turn of the loop of RamFifoRead and RamFifoWrite.                   *)

\* n = len, cut so that it does not run past the end of the buffer.  The
\* position is read before the mutex is taken.
Chunk(t) ==
  /\ Goto(t, "chunk", "lock")
  /\ n' = [n EXCEPT ![t] = IF len[t] > Size - Pos(t) THEN Size - Pos(t) ELSE len[t]]
  /\ UNCHANGED <<fifo, mux, sem, len, seen, polled>>

LockIgnored(t) ==
  /\ Goto(t, "lock", "test")
  /\ mux' = t
  /\ UNCHANGED <<fifo, sem, calls>>

Lock(t) ==
  /\ mux = Free
  /\ Goto(t, "lock", "test")
  /\ mux' = t
  /\ UNCHANGED <<fifo, sem, calls>>

\* fifoUdrCnt++ or fifoOvfCnt++ (counters nobody reads), and the mutex is given.
Short(t) ==
  /\ Avail(t) < n[t]
  /\ Goto(t, "test", IF t = Reader THEN "room" ELSE "wait")
  /\ mux' = Free
  /\ UNCHANGED <<fifo, sem, calls>>

\* RamFifoRead waits only if the ring is not nearly full; this test of
\* fifoFill is made without the mutex.
Room ==
  /\ Goto(Reader, "room", IF fifoFill < Size - Rez THEN "wait" ELSE "chunk")
  /\ UNCHANGED <<fifo, mux, sem, calls>>

Wait(t) ==
  /\ sem[t]
  /\ sem' = [sem EXCEPT ![t] = FALSE]
  /\ Goto(t, "wait", "chunk")
  /\ UNCHANGED <<fifo, mux, calls>>

\* memcpy of a chunk that never crosses the end of the buffer; fifoFill is
\* loaded to be updated.
ReadCopy ==
  /\ fifoFill >= n[Reader]
  /\ Goto(Reader, "test", "store")
  /\ out' = [i \in 1..n[Reader] |-> buf[fifoRpos + i - 1]]
  /\ reg' = [reg EXCEPT ![Reader] = fifoFill]
  /\ UNCHANGED <<fifoRpos, fifoWpos, fifoFill, buf, sent, recvd, mux, sem, calls>>

WriteCopy ==
  /\ Size - fifoFill >= n[Writer]
  /\ Goto(Writer, "test", "store")
  /\ buf' = [i \in 0..(Size - 1) |->
               IF i \in fifoWpos..(fifoWpos + n[Writer] - 1)
                 THEN sent + i - fifoWpos + 1 ELSE buf[i]]
  /\ reg' = [reg EXCEPT ![Writer] = fifoFill]
  /\ UNCHANGED <<fifoRpos, fifoWpos, fifoFill, out, sent, recvd, mux, sem, calls>>

\* The updates of length, fill and position, and the mutex is given.
ReadStore ==
  /\ Goto(Reader, "store", "signal")
  /\ len' = [len EXCEPT ![Reader] = @ - n[Reader]]
  /\ fifoFill' = reg[Reader] - n[Reader]
  /\ fifoRpos' = Advance(fifoRpos, n[Reader])
  /\ recvd' = recvd + n[Reader]
  /\ mux' = Free
  /\ UNCHANGED <<fifoWpos, buf, out, sent, reg, sem, n, seen, polled>>

WriteStore ==
  /\ Goto(Writer, "store", "signal")
  /\ len' = [len EXCEPT ![Writer] = @ - n[Writer]]
  /\ fifoFill' = reg[Writer] + n[Writer]
  /\ fifoWpos' = Advance(fifoWpos, n[Writer])
  /\ sent' = sent + n[Writer]
  /\ mux' = Free
  /\ UNCHANGED <<fifoRpos, buf, out, recvd, reg, sem, n, seen, polled>>

\* Giving a binary semaphore that is already given changes nothing.
SignalIfWasEmpty(t) ==
  /\ sem' = [sem EXCEPT ![Other(t)] = sem[Other(t)] \/ Avail(Other(t)) = n[t]]
  /\ Goto(t, "signal", IF len[t] > 0 THEN "chunk" ELSE "idle")
  /\ UNCHANGED <<fifo, mux, calls>>

Signal(t) ==
  /\ sem' = [sem EXCEPT ![Other(t)] = TRUE]
  /\ Goto(t, "signal", IF len[t] > 0 THEN "chunk" ELSE "idle")
  /\ UNCHANGED <<fifo, mux, calls>>

---------------------------------------------------------------------------
(* RamFifoFill, which RamFifoFree also calls.                              *)

FillLock(t) ==
  /\ mux = Free
  /\ Goto(t, "fill", "filled")
  /\ mux' = t
  /\ UNCHANGED <<fifo, sem, calls>>

FillReturnFree(t) ==
  /\ Goto(t, "filled", "idle")
  /\ mux' = Free
  /\ seen' = IF t = Reader THEN Size - fifoFill ELSE seen
  /\ UNCHANGED <<fifo, sem, len, n, polled>>

FillReturn(t) ==
  /\ Goto(t, "filled", "idle")
  /\ mux' = Free
  /\ seen' = IF t = Reader THEN fifoFill ELSE seen
  /\ UNCHANGED <<fifo, sem, len, n, polled>>

---------------------------------------------------------------------------
Copy(t)  == IF t = Reader THEN ReadCopy ELSE WriteCopy
Store(t) == IF t = Reader THEN ReadStore ELSE WriteStore

\* The code of a call in progress: what a scheduled task does next.
Step(t) ==
  \/ Chunk(t) \/ Lock(t) \/ Short(t) \/ (t = Reader /\ Room) \/ Wait(t)
  \/ Copy(t) \/ Store(t) \/ Signal(t) \/ FillLock(t) \/ FillReturn(t)

Read  == \E k \in 1..MaxRead : CallRead(k)
Write == \E k \in 1..MaxWrite : CallWrite(k)

Next ==
  \/ Read \/ Write
  \/ \E t \in Task : CallFill(t) \/ Step(t)

Spec == Init /\ [][Next]_vars

\* FreeRTOS time-slices tasks of one priority and queues those that wait for
\* the mutex, and neither task stops calling for good.
Fairness ==
  /\ \A t \in Task : WF_vars(Step(t)) /\ SF_vars(Lock(t)) /\ SF_vars(FillLock(t))
  /\ SF_vars(Read) /\ SF_vars(Write)

FairSpec == Spec /\ Fairness

---------------------------------------------------------------------------
(* Properties.                                                             *)

Labels == {"idle", "chunk", "lock", "test", "store", "signal", "room", "wait",
           "fill", "filled"}

TypeOK ==
  /\ fifoRpos \in 0..(Size - 1) /\ fifoWpos \in 0..(Size - 1)
  /\ fifoFill \in 0..Size
  /\ buf \in [0..(Size - 1) -> Nat]
  /\ mux \in Task \cup {Free}
  /\ sem \in [Task -> BOOLEAN]
  /\ pc \in [Task -> Labels]
  /\ len \in [Task -> Nat] /\ n \in [Task -> Nat] /\ reg \in [Task -> Nat]
  /\ seen \in Nat /\ polled \in BOOLEAN /\ sent \in Nat /\ recvd \in Nat
  /\ out \in Seq(Nat)

\* The three counters of the ring, each updated by a different task or by
\* both, always describe the same bytes: what was written and not yet read
\* lies between the read and the write position (no lost update of fifoFill).
RingConsistent ==
  /\ fifoWpos = Wrap(fifoRpos + fifoFill)
  /\ sent = recvd + fifoFill

\* The cells between the positions hold the unread bytes in stream order:
\* no write overwrites a byte the reader has yet to take.
ContentsInOrder ==
  \A i \in 0..(fifoFill - 1) : buf[Wrap(fifoRpos + i)] = recvd + i + 1

\* The bytes the decoder got last are those that were next in the stream.
DeliveredInOrder ==
  LET before == IF pc[Reader] = "store" THEN recvd ELSE recvd - Len(out)
  IN \A i \in 1..Len(out) : out[i] = before + i

\* A task that found the ring short and whose chunk has become available has
\* its semaphore given, or is about to get it: no wakeup is lost between the
\* test under the mutex and the wait after it (lines 104-109, 132-137).
NoLostWakeup ==
  \A t \in Task :
    pc[t] \in {"room", "wait"} /\ Avail(t) >= n[t]
      => sem[t] \/ pc[Other(t)] = "signal"

\* The decoder never waits for data while the network task waits for room.
NoMutualWait ==
  pc[Reader] = "wait" /\ pc[Writer] = "wait" => \E t \in Task : sem[t]

\* A reader that asks for no more than RamFifoFill reported never waits in
\* RamFifoRead, however late it reads and wherever the ring wraps (input(),
\* main.c 138-157).
PolledReadNeverWaits == polled => pc[Reader] \notin {"room", "wait"}

\* Every byte of the stream reaches the decoder: neither task hangs in a call.
StreamDelivered == <>(recvd = MaxStream)
=============================================================================

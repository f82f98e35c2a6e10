----------------------------- MODULE MCRamFifo -----------------------------
(***************************************************************************)
(* TLC instances of RamFifo, and its refinement of ByteQueue.              *)
(***************************************************************************)
EXTENDS RamFifo

\* A read takes effect at its memcpy, a write when fifoFill is stored.
UnreadFrom == IF pc[Reader] = "store" THEN n[Reader] ELSE 0

Unread == [i \in 1..(fifoFill - UnreadFrom) |->
             buf[Wrap(fifoRpos + UnreadFrom + i - 1)]]

Queue == INSTANCE ByteQueue WITH
           Capacity <- Size, taken <- out, queue <- Unread

\* The ring buffer with its two tasks is a bounded FIFO queue of bytes:
\* whatever RamFifoRead copies out is the oldest unread part of what
\* RamFifoWrite copied in.
ImplementsByteQueue == Queue!Spec
=============================================================================

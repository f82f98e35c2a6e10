----------------------------- MODULE ByteQueue -----------------------------
(***************************************************************************)
(* What the stream FIFO between the network task and the decoder task      *)
(* promises, without positions, locks or semaphores: a queue of at most    *)
(* Capacity bytes, fed at one end and drained at the other, that neither   *)
(* loses, repeats nor reorders a byte.  RamFifo implements it.             *)
(***************************************************************************)
EXTENDS Naturals, Sequences, SequencesExt

CONSTANT Capacity       \* fifoSize

VARIABLES queue,        \* the bytes in the FIFO, oldest first
          taken         \* the bytes the last transfer handed to the reader

Init == queue = <<>> /\ taken = <<>>

\* Some bytes are appended, as many as fit.
Put ==
  /\ IsStrictPrefix(queue, queue')
  /\ Len(queue') <= Capacity
  /\ UNCHANGED taken

\* The oldest bytes leave the queue for the reader's buffer.
Take ==
  /\ taken' # <<>>
  /\ queue = taken' \o queue'

Next == Put \/ Take

Spec == Init /\ [][Next]_<<queue, taken>>
=============================================================================

-------------------------------- MODULE Heap --------------------------------
(***************************************************************************)
(* What a heap promises its callers: blocks that do not overlap, and a     *)
(* refusal only when no run of free bytes is long enough.  TcmHeap is      *)
(* shown to implement it.                                                  *)
(***************************************************************************)
EXTENDS Integers

CONSTANTS Size, Requests, NULL

Round(n) == ((n + 7) \div 8) * 8        \* whole MemChunks, of 8 bytes

VARIABLES blocks,    \* the blocks handed out: header address and size asked
          answer     \* what the last malloc was asked for and returned

vars == <<blocks, answer>>

\* The bytes from a to a + n - 1 belong to the heap and to no block.
Unused(a, n) ==
  /\ 0 <= a /\ a + n <= Size
  /\ \A b \in blocks : a + n <= b.addr \/ b.addr + Round(b.size) <= a

Init == blocks = {} /\ answer = [size |-> 0, addr |-> NULL]

Grant(n) ==
  \E a \in 0..Size :
    /\ Unused(a, Round(n + 4))
    /\ blocks' = blocks \cup {[addr |-> a, size |-> n + 4]}
    /\ answer' = [size |-> n + 4, addr |-> a]

Refuse(n) ==
  /\ \A a \in 0..Size : ~Unused(a, Round(n + 4))
  /\ answer' = [size |-> n + 4, addr |-> NULL]
  /\ UNCHANGED blocks

Release(b) == blocks' = blocks \ {b} /\ UNCHANGED answer

Next == \/ \E n \in Requests : Grant(n) \/ Refuse(n)
        \/ \E b \in blocks : Release(b)

Spec == Init /\ [][Next]_vars
=============================================================================

------------------------------ MODULE TcmHeap -------------------------------
(***************************************************************************)
(* os_dep/tcm_heap.c: the heap in the tightly coupled memory, which holds  *)
(* the stacks of the network threads and of the console, and the large     *)
(* buffers of the Wi-Fi driver.  Its free list is singly linked, kept in   *)
(* address order, and lives in the free memory itself.  Every operation    *)
(* runs in a critical section and is one step; the interesting part is     *)
(* what long sequences of them do to the list.                             *)
(*                                                                         *)
(* Addresses are byte offsets in the heap.  The list is a sequence of      *)
(* chunks in the order of the links.                                       *)
(***************************************************************************)
EXTENDS Integers, Sequences, SequencesExt, FiniteSetsExt

CONSTANTS Size,        \* tcm_heap_size: bytes of the heap
          Requests,    \* the sizes callers ask for
          NULL

\* tcm_heap_size is a whole number of MemChunks.
ASSUME SizeAssumption == Size \in Nat /\ Size > 0 /\ Size % 8 = 0
ASSUME RequestsAssumption == Requests \subseteq Nat
ASSUME NULLAssumption == NULL \notin Nat

VARIABLES inited,      \* g_heap_inited
          FreeList,    \* g_tcm_heap.FreeList and its links
          blocks,      \* blocks in use, with the size stored in their header
          answer       \* what the last tcm_heap_malloc returned

vars == <<inited, FreeList, blocks, answer>>

Grain == 8             \* sizeof(MemChunk)
Header == 4            \* sizeof(int)

\* ROUND_UP2 and the special case of 0 bytes.
RoundUp(n) == ((n + (Grain - 1)) \div Grain) * Grain
Rounded(n) == IF RoundUp(n) = 0 THEN Grain ELSE RoundUp(n)

Chunk(a, n) == [addr |-> a, size |-> n]
End(c) == c.addr + c.size

\* tcm_heap_init: one big chunk.  It runs at the first use.
HeapInit == <<Chunk(0, Size)>>
List == IF inited THEN FreeList ELSE HeapInit

-----------------------------------------------------------------------------
\* The walk of tcm_heap_allocmem: the first chunk that is large enough.
FirstFit(fl, i, n) ==
  /\ i \in 1..Len(fl)
  /\ fl[i].size >= n
  /\ \A j \in 1..(i - 1) : fl[j].size < n

\* An exact fit leaves the list, any other gives up its end.
Take(fl, i, n) ==
  IF fl[i].size = n THEN RemoveAt(fl, i)
                    ELSE [fl EXCEPT ![i].size = @ - n]

\* Mutant: the start of the chunk is handed out.
TakenAtFront(fl, i, n) == fl[i].addr

TakenAt(fl, i, n) == End(fl[i]) - n

\* The walk of tcm_heap_freemem: behind which chunk the memory belongs, 0
\* for the head of the list.
Before(fl, p, mem) ==
  IF fl = <<>> \/ mem < fl[1].addr
  THEN p = 0
  ELSE /\ p \in 1..Len(fl)
       /\ \A j \in 2..p : fl[j].addr < mem
       /\ p < Len(fl) => mem <= fl[p + 1].addr

\* The memory grows the chunk before it when they touch, or becomes a chunk.
Touches(fl, p, mem) == p > 0 /\ End(fl[p]) = mem
Insert(fl, p, c) ==
  IF Touches(fl, p, c.addr) THEN [fl EXCEPT ![p].size = @ + c.size]
                            ELSE InsertAt(fl, p + 1, c)
Inserted(fl, p, c) == IF Touches(fl, p, c.addr) THEN p ELSE p + 1

\* Mutant: the second merge is missing.
MergeNextNot(fl, q) == fl

\* Then the chunk swallows the next one when they touch.
MergeNext(fl, q) ==
  IF q < Len(fl) /\ End(fl[q]) = fl[q + 1].addr
  THEN RemoveAt([fl EXCEPT ![q].size = @ + fl[q + 1].size], q + 1)
  ELSE fl

-----------------------------------------------------------------------------
Init ==
  /\ inited = FALSE
  /\ FreeList = <<>>
  /\ blocks = {}
  /\ answer = [size |-> 0, addr |-> NULL]

\* tcm_heap_malloc and tcm_heap_allocmem.  The size with the header, not yet
\* rounded, is what the header stores.
Malloc(n) ==
  LET stored == n + Header
      m == Rounded(stored)
  IN /\ inited' = TRUE
     /\ \E i \in 1..Len(List) :
          /\ FirstFit(List, i, m)
          /\ FreeList' = Take(List, i, m)
          /\ blocks' = blocks \cup {Chunk(TakenAt(List, i, m), stored)}
          /\ answer' = [size |-> stored, addr |-> TakenAt(List, i, m)]

MallocFails(n) ==
  /\ inited' = TRUE
  /\ FreeList' = List
  /\ \A i \in 1..Len(List) : List[i].size < Rounded(n + Header)
  /\ answer' = [size |-> n + Header, addr |-> NULL]
  /\ UNCHANGED blocks

\* tcm_heap_free and tcm_heap_freemem: the size comes from the header.
Free(b) ==
  LET c == Chunk(b.addr, Rounded(b.size))
  IN /\ \E p \in 0..Len(FreeList) :
          /\ Before(FreeList, p, c.addr)
          /\ FreeList' = MergeNext(Insert(FreeList, p, c), Inserted(FreeList, p, c))
     /\ blocks' = blocks \ {b}
     /\ UNCHANGED <<inited, answer>>

\* tcm_heap_freeSpace, from the console, only reads the list.
FreeSpace ==
  /\ inited' = TRUE
  /\ FreeList' = List
  /\ UNCHANGED <<blocks, answer>>

Next ==
  \/ \E n \in Requests : Malloc(n) \/ MallocFails(n)
  \/ \E b \in blocks : Free(b)
  \/ FreeSpace

Spec == Init /\ [][Next]_vars

-----------------------------------------------------------------------------
\* TYPE INVARIANT.  Chunks and blocks lie in the heap on whole grains, so
\* that every chunk has room for its link and its size.
InHeap(c, n) == /\ c.addr \in 0..(Size - 1) /\ c.addr % Grain = 0
                /\ n > 0 /\ n % Grain = 0 /\ c.addr + n <= Size
TypeOK ==
  /\ inited \in BOOLEAN
  /\ FreeList \in Seq([addr : Nat, size : Nat])
  /\ blocks \subseteq [addr : Nat, size : Nat]
  /\ answer \in [size : Nat, addr : Nat \cup {NULL}]
  /\ \A i \in 1..Len(FreeList) : InHeap(FreeList[i], FreeList[i].size)
  /\ \A b \in blocks : InHeap(b, Rounded(b.size))

\* The list stays in address order and no two free chunks touch: the code
\* merges at most twice per free and its comment claims that this is enough.
Coalesced ==
  \A i, j \in 1..Len(FreeList) : i < j => End(FreeList[i]) < FreeList[j].addr

\* Every byte of the heap is either free or in exactly one block: no call
\* loses memory and none hands out memory twice, whatever sizes are rounded
\* to on the way in and on the way out.
Covers(fl, x) == \E i \in 1..Len(fl) : fl[i].addr <= x /\ x < End(fl[i])
Holds(b, x) == b.addr <= x /\ x < b.addr + Rounded(b.size)
NothingLost ==
  \A x \in 0..(Size - 1) :
    /\ Covers(List, x) <=> \A b \in blocks : ~Holds(b, x)
    /\ \A b1, b2 \in blocks : Holds(b1, x) /\ Holds(b2, x) => b1 = b2

\* REFINEMENT.  A block never overlaps another one, and a request is refused
\* only when no run of free bytes is long enough: fragmentation inside the
\* list, two free neighbours left unmerged, never causes a refusal.
Promise == INSTANCE Heap
ImplementsHeap == Promise!Spec
=============================================================================

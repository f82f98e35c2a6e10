--------------------------- MODULE TcmHeap_proofs ---------------------------
(***************************************************************************)
(* The free list of TcmHeap, for every heap size and every set of          *)
(* requests: it stays sorted and coalesced, loses nothing, and implements  *)
(* the promise of module Heap.                                             *)
(***************************************************************************)
EXTENDS TcmHeap, SequenceTheorems, TLAPS

\* A list as it is between two operations: chunks in the heap, in address
\* order, never touching.
Chunks == [addr : Nat, size : Nat]
Placed(fl) ==
  /\ fl \in Seq(Chunks)
  /\ \A i \in 1..Len(fl) : InHeap(fl[i], fl[i].size)
Apart(fl) ==
  \A i, j \in 1..Len(fl) : i < j => End(fl[i]) < fl[j].addr
Sound(fl) == Placed(fl) /\ Apart(fl)

\* A list after the insertion of a chunk, which may touch the next one.
OpenAt(fl, q) ==
  /\ Placed(fl)
  /\ q \in 1..Len(fl)
  /\ \A i, j \in 1..Len(fl) : i < j =>
       \/ End(fl[i]) < fl[j].addr
       \/ i = q /\ j = q + 1 /\ End(fl[i]) = fl[j].addr

\* Rounding goes to the next multiple of 8.
LEMMA Rounding ==
  ASSUME NEW n \in Nat
  PROVE  /\ Rounded(n) \in Nat
         /\ Rounded(n) >= n
         /\ Rounded(n) >= 8
         /\ Rounded(n) % 8 = 0
         /\ n > 0 => Rounded(n) = ((n + 7) \div 8) * 8
  BY DEF Rounded, RoundUp, Grain

\* Cutting whole grains off a place on a whole grain leaves such a place.
LEMMA CutGrains ==
  ASSUME NEW a \in Nat, NEW n \in Nat, NEW m \in Nat,
         a % 8 = 0, n % 8 = 0, m % 8 = 0, m <= n
  PROVE  /\ n - m \in Nat /\ (n - m) % 8 = 0
         /\ a + n - m \in Nat /\ (a + n - m) % 8 = 0
  OBVIOUS

\* Sums and differences of whole grains are whole grains.
LEMMA AddGrains ==
  ASSUME NEW a \in Nat, NEW n \in Nat, a % 8 = 0, n % 8 = 0
  PROVE  (a + n) % 8 = 0
  OBVIOUS

\* What RemoveAt and InsertAt leave at each place of a sequence.
LEMMA RemoveAtFacts ==
  ASSUME NEW S, NEW s \in Seq(S), NEW i \in 1..Len(s)
  PROVE  /\ RemoveAt(s, i) \in Seq(S)
         /\ Len(RemoveAt(s, i)) = Len(s) - 1
         /\ \A j \in 1..(Len(s) - 1) :
              RemoveAt(s, i)[j] = IF j < i THEN s[j] ELSE s[j + 1]
<1> DEFINE a == SubSeq(s, 1, i - 1)
           b == SubSeq(s, i + 1, Len(s))
<1>1. /\ a \in Seq(S)
      /\ Len(a) = i - 1
      /\ \A j \in 1..(i - 1) : a[j] = s[j]
  OBVIOUS
<1>2. /\ b \in Seq(S)
      /\ Len(b) = Len(s) - i
      /\ \A j \in 1..(Len(s) - i) : b[j] = s[j + i]
  OBVIOUS
<1>3. RemoveAt(s, i) = a \o b
  BY DEF RemoveAt
<1> HIDE DEF a, b
<1>4. /\ a \o b \in Seq(S)
      /\ Len(a \o b) = Len(a) + Len(b)
      /\ \A j \in 1..(Len(a) + Len(b)) :
           (a \o b)[j] = IF j <= Len(a) THEN a[j] ELSE b[j - Len(a)]
  BY <1>1, <1>2, ConcatProperties
<1>5. Len(a) + Len(b) = Len(s) - 1
  BY <1>1, <1>2
<1>6. ASSUME NEW j \in 1..(Len(s) - 1)
      PROVE  (a \o b)[j] = IF j < i THEN s[j] ELSE s[j + 1]
  <2>1. CASE j < i
    BY <1>1, <1>4, <1>5, <2>1
  <2>2. CASE j >= i
    <3>1. (a \o b)[j] = b[j - i + 1]
      BY <1>1, <1>4, <1>5, <2>2
    <3>2. b[j - i + 1] = s[j + 1]
      BY <1>2, <2>2
    <3>3. QED
      BY <2>2, <3>1, <3>2
  <2>3. Len(s) \in Nat
    OBVIOUS
  <2>4. j < i \/ j >= i
    BY <2>3
  <2>5. QED
    BY <2>1, <2>2, <2>4
<1>7. QED
  BY <1>3, <1>4, <1>5, <1>6

\* A list with a chunk inserted: its length, the chunk, and the others in order.
LEMMA InsertAtFacts ==
  ASSUME NEW S, NEW s \in Seq(S), NEW i \in 1..(Len(s) + 1), NEW e \in S
  PROVE  /\ InsertAt(s, i, e) \in Seq(S)
         /\ Len(InsertAt(s, i, e)) = Len(s) + 1
         /\ \A j \in 1..(Len(s) + 1) :
              InsertAt(s, i, e)[j] = IF j < i THEN s[j]
                                     ELSE IF j = i THEN e ELSE s[j - 1]
<1> DEFINE a == SubSeq(s, 1, i - 1)
           b == SubSeq(s, i, Len(s))
<1>1. /\ a \in Seq(S)
      /\ Len(a) = i - 1
      /\ \A j \in 1..(i - 1) : a[j] = s[j]
  OBVIOUS
<1>2. /\ b \in Seq(S)
      /\ Len(b) = Len(s) - i + 1
      /\ \A j \in 1..(Len(s) - i + 1) : b[j] = s[j + i - 1]
  OBVIOUS
<1>3. InsertAt(s, i, e) = a \o <<e>> \o b
  BY DEF InsertAt
<1> DEFINE c == a \o <<e>>
<1>4. /\ c \in Seq(S)
      /\ Len(c) = i
      /\ \A j \in 1..i : c[j] = IF j < i THEN s[j] ELSE e
  BY <1>1
<1>5. InsertAt(s, i, e) = c \o b
  BY <1>3
<1> HIDE DEF a, b, c
<1>6. /\ c \o b \in Seq(S)
      /\ Len(c \o b) = Len(c) + Len(b)
      /\ \A j \in 1..(Len(c) + Len(b)) :
           (c \o b)[j] = IF j <= Len(c) THEN c[j] ELSE b[j - Len(c)]
  BY <1>2, <1>4, ConcatProperties
<1>7. Len(c) + Len(b) = Len(s) + 1
  BY <1>2, <1>4
<1>8. ASSUME NEW j \in 1..(Len(s) + 1)
      PROVE  (c \o b)[j] = IF j < i THEN s[j] ELSE IF j = i THEN e ELSE s[j - 1]
  <2>1. CASE j <= i
    BY <1>4, <1>6, <1>7, <2>1
  <2>2. CASE j > i
    <3>1. (c \o b)[j] = b[j - i]
      BY <1>4, <1>6, <1>7, <2>2
    <3>2. b[j - i] = s[j - 1]
      BY <1>2, <2>2
    <3>3. QED
      BY <2>2, <3>1, <3>2
  <2>3. Len(s) \in Nat
    OBVIOUS
  <2>4. j <= i \/ j > i
    BY <2>3
  <2>5. QED
    BY <2>1, <2>2, <2>4
<1>9. QED
  BY <1>5, <1>6, <1>7, <1>8

\* What changing the size of one chunk leaves.
LEMMA ResizeFacts ==
  ASSUME NEW fl \in Seq(Chunks), NEW i \in 1..Len(fl), NEW n \in Nat
  PROVE  /\ [fl EXCEPT ![i].size = n] \in Seq(Chunks)
         /\ Len([fl EXCEPT ![i].size = n]) = Len(fl)
         /\ \A j \in 1..Len(fl) : j # i => [fl EXCEPT ![i].size = n][j] = fl[j]
         /\ [fl EXCEPT ![i].size = n][i].addr = fl[i].addr
         /\ [fl EXCEPT ![i].size = n][i].size = n
<1> DEFINE c == [fl[i] EXCEPT !.size = n]
<1>1. fl[i] \in Chunks
  OBVIOUS
<1>2. c \in Chunks /\ c.addr = fl[i].addr /\ c.size = n
  BY <1>1 DEF Chunks
<1>3. [fl EXCEPT ![i].size = n] = [fl EXCEPT ![i] = c]
  OBVIOUS
<1> HIDE DEF c
<1>4. /\ [fl EXCEPT ![i] = c] \in Seq(Chunks)
      /\ Len([fl EXCEPT ![i] = c]) = Len(fl)
      /\ \A j \in 1..Len(fl) : [fl EXCEPT ![i] = c][j] = IF j = i THEN c ELSE fl[j]
  BY <1>2
<1>5. QED
  BY <1>2, <1>3, <1>4

-----------------------------------------------------------------------------
\* tcm_heap_allocmem: the block is cut out of one chunk, and the rest of the
\* list is as free as before.
LEMMA TakeSound ==
  ASSUME NEW fl, Sound(fl), NEW m \in Nat, m > 0, m % Grain = 0,
         NEW i, FirstFit(fl, i, m)
  PROVE  /\ Sound(Take(fl, i, m))
         /\ TakenAt(fl, i, m) \in 0..(Size - 1)
         /\ TakenAt(fl, i, m) % Grain = 0
         /\ TakenAt(fl, i, m) + m <= Size
         /\ \A x \in Nat : Covers(Take(fl, i, m), x) <=>
              Covers(fl, x) /\ ~(TakenAt(fl, i, m) <= x /\ x < TakenAt(fl, i, m) + m)
         /\ \A x \in Nat : TakenAt(fl, i, m) <= x /\ x < TakenAt(fl, i, m) + m
                           => Covers(fl, x)
<1> USE SizeAssumption
<1>1. /\ fl \in Seq(Chunks)
      /\ Len(fl) \in Nat
      /\ i \in 1..Len(fl)
      /\ fl[i].size >= m
      /\ \A j \in 1..Len(fl) : fl[j] \in Chunks /\ InHeap(fl[j], fl[j].size)
      /\ \A j, k \in 1..Len(fl) : j < k => End(fl[j]) < fl[k].addr
  BY DEF Sound, Placed, Apart, FirstFit
<1>2. /\ TakenAt(fl, i, m) \in 0..(Size - 1)
      /\ TakenAt(fl, i, m) % Grain = 0
      /\ TakenAt(fl, i, m) + m = End(fl[i])
      /\ TakenAt(fl, i, m) >= fl[i].addr
      /\ End(fl[i]) <= Size
  <2>1. /\ fl[i].addr \in Nat /\ fl[i].size \in Nat
        /\ fl[i].addr % 8 = 0 /\ fl[i].size % 8 = 0 /\ m % 8 = 0
        /\ m <= fl[i].size /\ fl[i].addr + fl[i].size <= Size
    BY <1>1 DEF InHeap, Chunks, Grain
  <2>2. TakenAt(fl, i, m) = fl[i].addr + fl[i].size - m
    BY <2>1 DEF TakenAt, End
  <2>3. TakenAt(fl, i, m) \in Nat /\ TakenAt(fl, i, m) % 8 = 0
    <3>1. /\ fl[i].addr + fl[i].size - m \in Nat
          /\ (fl[i].addr + fl[i].size - m) % 8 = 0
      BY <2>1, CutGrains
    <3>2. QED
      BY <2>2, <3>1
  <2>4. QED
    BY <2>1, <2>2, <2>3 DEF End, Grain
<1>3. ASSUME NEW x \in Nat, TakenAt(fl, i, m) <= x, x < TakenAt(fl, i, m) + m
      PROVE  /\ Covers(fl, x)
             /\ \A j \in 1..Len(fl) : j # i => ~(fl[j].addr <= x /\ x < End(fl[j]))
  <2>1. fl[i].addr <= x /\ x < End(fl[i])
    BY <1>1, <1>2, <1>3 DEF Chunks, End
  <2>2. Covers(fl, x)
    BY <1>1, <2>1 DEF Covers
  <2>3. \A j \in 1..Len(fl) : j # i => ~(fl[j].addr <= x /\ x < End(fl[j]))
    BY <1>1, <2>1 DEF Chunks, End
  <2>4. QED
    BY <2>2, <2>3
<1>4. CASE fl[i].size = m
  <2> DEFINE r == RemoveAt(fl, i)
  <2>1. Take(fl, i, m) = r
    BY <1>4 DEF Take
  <2>2. /\ r \in Seq(Chunks)
        /\ Len(r) = Len(fl) - 1
        /\ \A j \in 1..(Len(fl) - 1) : r[j] = IF j < i THEN fl[j] ELSE fl[j + 1]
    <3>1. fl \in Seq(Chunks) /\ i \in 1..Len(fl)
      BY <1>1
    <3>2. QED
      BY ONLY <3>1, RemoveAtFacts
  <2> HIDE DEF r
  <2>3. Placed(r)
    BY <1>1, <2>2 DEF Placed
  <2>4. Apart(r)
    BY <1>1, <2>2 DEF Apart
  <2>5. fl[i].addr = TakenAt(fl, i, m)
    BY <1>1, <1>4 DEF TakenAt, End, Chunks
  <2>6. ASSUME NEW x \in Nat
        PROVE  Covers(r, x) <=>
                 Covers(fl, x) /\ ~(TakenAt(fl, i, m) <= x /\ x < TakenAt(fl, i, m) + m)
    <3>1. ASSUME Covers(r, x) PROVE Covers(fl, x)
      BY <1>1, <2>2, <3>1 DEF Covers
    <3>2. ASSUME Covers(r, x), TakenAt(fl, i, m) <= x, x < TakenAt(fl, i, m) + m
          PROVE  FALSE
      <4>1. PICK j \in 1..Len(r) : r[j].addr <= x /\ x < End(r[j])
        BY <3>2 DEF Covers
      <4>2. \A k \in 1..Len(fl) : k # i => ~(fl[k].addr <= x /\ x < End(fl[k]))
        BY <1>3, <3>2
      <4>3. QED
        BY <1>1, <2>2, <4>1, <4>2
    <3>3. ASSUME Covers(fl, x), ~(TakenAt(fl, i, m) <= x /\ x < TakenAt(fl, i, m) + m)
          PROVE  Covers(r, x)
      <4>1. PICK j \in 1..Len(fl) : fl[j].addr <= x /\ x < End(fl[j])
        BY <3>3 DEF Covers
      <4>2. j # i
        BY <1>2, <2>5, <3>3, <4>1
      <4>3. CASE j < i
        <5>1. j \in 1..Len(r) /\ r[j] = fl[j]
          BY <1>1, <2>2, <4>3
        <5>2. QED
          BY <4>1, <5>1 DEF Covers
      <4>4. CASE j > i
        <5>1. j - 1 \in 1..Len(r) /\ r[j - 1] = fl[j]
          BY <1>1, <2>2, <4>4
        <5>2. QED
          BY <4>1, <5>1 DEF Covers
      <4>5. QED
        BY <1>1, <4>2, <4>3, <4>4
    <3>4. QED
      BY <3>1, <3>2, <3>3
  <2>7. QED
    BY <1>2, <1>3, <2>1, <2>3, <2>4, <2>6 DEF Sound
<1>5. CASE fl[i].size # m
  <2> DEFINE r == [fl EXCEPT ![i].size = fl[i].size - m]
  <2>1. Take(fl, i, m) = r
    BY <1>5 DEF Take
  <2>2. fl[i].size - m \in Nat /\ fl[i].size - m > 0
    BY <1>1, <1>5 DEF Chunks
  <2>3. /\ r \in Seq(Chunks)
        /\ Len(r) = Len(fl)
        /\ \A j \in 1..Len(fl) : j # i => r[j] = fl[j]
        /\ r[i].addr = fl[i].addr
        /\ r[i].size = fl[i].size - m
    BY <1>1, <2>2, ResizeFacts
  <2> HIDE DEF r
  <2>4. Placed(r)
    <3>0. (fl[i].size - m) % 8 = 0
      BY <1>1, CutGrains DEF InHeap, Chunks, Grain
    <3>1. InHeap(r[i], r[i].size)
      <4>1. /\ fl[i].addr \in 0..(Size - 1) /\ fl[i].addr % 8 = 0
            /\ fl[i].addr + fl[i].size <= Size
            /\ fl[i].size \in Nat
        BY <1>1 DEF InHeap, Chunks, Grain
      <4>2. fl[i].addr + (fl[i].size - m) <= Size
        BY <4>1
      <4>3. QED
        BY <2>2, <2>3, <3>0, <4>1, <4>2 DEF InHeap, Grain
    <3>2. QED
      BY <1>1, <2>3, <3>1 DEF Placed
  <2>5. End(r[i]) = TakenAt(fl, i, m)
    BY <1>1, <2>3 DEF TakenAt, End, Chunks
  <2>6. Apart(r)
    <3>1. SUFFICES ASSUME NEW j \in 1..Len(r), NEW k \in 1..Len(r), j < k
                   PROVE  End(r[j]) < r[k].addr
      BY DEF Apart
    <3>2. r[k].addr = fl[k].addr
      BY <1>1, <2>3
    <3>3. End(fl[j]) < fl[k].addr
      BY <1>1, <2>3, <3>1
    <3>4. CASE j = i
      BY <1>1, <1>2, <2>3, <2>5, <3>2, <3>3, <3>4 DEF Chunks
    <3>5. CASE j # i
      BY <2>3, <3>2, <3>3, <3>5
    <3>6. QED
      BY <3>4, <3>5
  <2>7. ASSUME NEW x \in Nat
        PROVE  Covers(r, x) <=>
                 Covers(fl, x) /\ ~(TakenAt(fl, i, m) <= x /\ x < TakenAt(fl, i, m) + m)
    <3>1. ASSUME Covers(r, x)
          PROVE  Covers(fl, x) /\ ~(TakenAt(fl, i, m) <= x /\ x < TakenAt(fl, i, m) + m)
      <4>1. PICK j \in 1..Len(fl) : r[j].addr <= x /\ x < End(r[j])
        BY <2>3, <3>1 DEF Covers
      <4>2. CASE j = i
        <5>1. fl[i].addr <= x /\ x < TakenAt(fl, i, m)
          BY <2>3, <2>5, <4>1, <4>2
        <5>3. x < End(fl[i])
          BY <1>2, <5>1
        <5>2. QED
          BY <1>1, <1>2, <5>1, <5>3 DEF Covers
      <4>3. CASE j # i
        <5>1. fl[j].addr <= x /\ x < End(fl[j])
          BY <2>3, <4>1, <4>3
        <5>2. QED
          BY <1>3, <4>3, <5>1 DEF Covers
      <4>4. QED
        BY <4>2, <4>3
    <3>2. ASSUME Covers(fl, x), ~(TakenAt(fl, i, m) <= x /\ x < TakenAt(fl, i, m) + m)
          PROVE  Covers(r, x)
      <4>1. PICK j \in 1..Len(fl) : fl[j].addr <= x /\ x < End(fl[j])
        BY <3>2 DEF Covers
      <4>2. CASE j = i
        <5>1. r[i].addr <= x /\ x < End(r[i])
          BY <1>2, <2>3, <2>5, <3>2, <4>1, <4>2
        <5>2. QED
          BY <1>1, <2>3, <5>1 DEF Covers
      <4>3. CASE j # i
        BY <2>3, <4>1, <4>3 DEF Covers
      <4>4. QED
        BY <4>2, <4>3
    <3>3. QED
      BY <3>1, <3>2
  <2>8. QED
    BY <1>2, <1>3, <2>1, <2>4, <2>6, <2>7 DEF Sound
<1>6. QED
  BY <1>4, <1>5

-----------------------------------------------------------------------------
\* The last part of tcm_heap_freemem: after the merge with the next chunk no
\* two chunks touch, and the same bytes are free.
LEMMA MergeSound ==
  ASSUME NEW fl, NEW q, OpenAt(fl, q)
  PROVE  /\ Sound(MergeNext(fl, q))
         /\ \A x \in Nat : Covers(MergeNext(fl, q), x) <=> Covers(fl, x)
<1> USE SizeAssumption
<1>1. /\ fl \in Seq(Chunks)
      /\ Len(fl) \in Nat
      /\ q \in 1..Len(fl)
      /\ \A j \in 1..Len(fl) : fl[j] \in Chunks /\ InHeap(fl[j], fl[j].size)
      /\ \A j, k \in 1..Len(fl) : j < k =>
           \/ End(fl[j]) < fl[k].addr
           \/ j = q /\ k = q + 1 /\ End(fl[j]) = fl[k].addr
  BY DEF OpenAt, Placed
<1>2. CASE ~(q < Len(fl) /\ End(fl[q]) = fl[q + 1].addr)
  <2>1. MergeNext(fl, q) = fl
    BY <1>2 DEF MergeNext
  <2>2. Apart(fl)
    BY <1>1, <1>2 DEF Apart
  <2>3. QED
    BY <1>1, <2>1, <2>2 DEF Sound, OpenAt
<1>3. CASE q < Len(fl) /\ End(fl[q]) = fl[q + 1].addr
  <2> DEFINE n == fl[q].size + fl[q + 1].size
             w == [fl EXCEPT ![q].size = n]
             r == RemoveAt(w, q + 1)
  <2>1. MergeNext(fl, q) = r
    BY <1>3 DEF MergeNext
  <2>2. /\ q + 1 \in 1..Len(fl)
        /\ fl[q].addr \in Nat /\ fl[q].size \in Nat
        /\ fl[q + 1].addr \in Nat /\ fl[q + 1].size \in Nat
        /\ n \in Nat
        /\ fl[q].addr + n = End(fl[q + 1])
    BY <1>1, <1>3 DEF Chunks, End
  <2>3. /\ w \in Seq(Chunks)
        /\ Len(w) = Len(fl)
        /\ \A j \in 1..Len(fl) : j # q => w[j] = fl[j]
        /\ w[q].addr = fl[q].addr
        /\ w[q].size = n
    <3>1. fl \in Seq(Chunks) /\ q \in 1..Len(fl) /\ n \in Nat
      BY <1>1, <2>2
    <3> HIDE DEF n
    <3>2. QED
      BY ONLY <3>1, ResizeFacts
  <2>4. InHeap(w[q], w[q].size)
    <3>1. /\ fl[q].addr \in 0..(Size - 1) /\ fl[q].addr % 8 = 0
          /\ fl[q].size % 8 = 0 /\ fl[q].size > 0
          /\ fl[q + 1].size % 8 = 0 /\ End(fl[q + 1]) <= Size
      BY <1>1, <2>2 DEF InHeap, Grain, End
    <3> DEFINE a == fl[q].size
               b == fl[q + 1].size
    <3>2. n = a + b /\ a \in Nat /\ b \in Nat /\ a % 8 = 0 /\ b % 8 = 0 /\ a > 0
      BY <2>2, <3>1
    <3> HIDE DEF n, a, b
    <3>4. n % 8 = 0 /\ n > 0
      BY ONLY <3>2, AddGrains
    <3>3. QED
      BY <2>2, <2>3, <3>1, <3>4 DEF InHeap, Grain
  <2>5. End(w[q]) = End(fl[q + 1])
    BY <2>2, <2>3 DEF End
  <2>6. /\ r \in Seq(Chunks)
        /\ Len(r) = Len(fl) - 1
        /\ \A j \in 1..(Len(fl) - 1) : r[j] = IF j < q + 1 THEN w[j] ELSE w[j + 1]
    <3>1. w \in Seq(Chunks) /\ q + 1 \in 1..Len(w)
      BY <2>2, <2>3
    <3> HIDE DEF w
    <3>2. /\ r \in Seq(Chunks)
          /\ Len(r) = Len(w) - 1
          /\ \A j \in 1..(Len(w) - 1) : r[j] = IF j < q + 1 THEN w[j] ELSE w[j + 1]
      BY ONLY <3>1, RemoveAtFacts
    <3>3. QED
      BY <2>3, <3>2
  <2> HIDE DEF n, w, r
  <2>7. \A j \in 1..(Len(fl) - 1) :
          /\ j < q => r[j] = fl[j]
          /\ j > q => r[j] = fl[j + 1]
          /\ j = q => r[j] = w[q]
    BY <1>1, <2>3, <2>6
  <2>8. Placed(r)
    <3>1. ASSUME NEW j \in 1..Len(r) PROVE InHeap(r[j], r[j].size)
      <4>1. CASE j < q
        BY <1>1, <2>6, <2>7, <4>1
      <4>2. CASE j > q
        BY <1>1, <2>6, <2>7, <4>2
      <4>3. CASE j = q
        BY <2>4, <2>6, <2>7, <4>3
      <4>4. QED
        BY <1>1, <2>6, <4>1, <4>2, <4>3
    <3>2. QED
      BY <2>6, <3>1 DEF Placed
  <2>9. Apart(r)
    <3>1. SUFFICES ASSUME NEW j \in 1..Len(r), NEW k \in 1..Len(r), j < k
                   PROVE  End(r[j]) < r[k].addr
      BY DEF Apart
    <3>2. CASE k < q
      BY <1>1, <2>6, <2>7, <3>1, <3>2
    <3>3. CASE k = q
      BY <1>1, <2>3, <2>6, <2>7, <3>1, <3>3
    <3>4. CASE k > q /\ j = q
      <4>1. /\ k + 1 \in 1..Len(fl) /\ q + 1 \in 1..Len(fl) /\ q + 1 < k + 1
            /\ q + 1 # q
        BY <1>1, <2>2, <2>6, <3>1, <3>4
      <4>2. End(fl[q + 1]) < fl[k + 1].addr
        BY <1>1, <4>1
      <4>3. QED
        BY <2>5, <2>6, <2>7, <3>4, <4>2
    <3>5. CASE k > q /\ j < q
      <4>1. k + 1 \in 1..Len(fl) /\ j \in 1..Len(fl) /\ j < k + 1 /\ j # q
        BY <1>1, <2>6, <3>1, <3>5
      <4>2. End(fl[j]) < fl[k + 1].addr
        BY <1>1, <4>1
      <4>3. QED
        BY <2>6, <2>7, <3>5, <4>2
    <3>6. CASE k > q /\ j > q
      <4>1. /\ k + 1 \in 1..Len(fl) /\ j + 1 \in 1..Len(fl)
            /\ j + 1 < k + 1 /\ j + 1 # q
        BY <1>1, <2>6, <3>1, <3>6
      <4>2. End(fl[j + 1]) < fl[k + 1].addr
        BY <1>1, <4>1
      <4>3. QED
        BY <2>6, <2>7, <3>6, <4>2
    <3>7. k \in Int /\ j \in Int /\ q \in Int
      BY <1>1, <2>6
    <3>8. QED
      BY <3>2, <3>3, <3>4, <3>5, <3>6, <3>7
  <2>10. ASSUME NEW x \in Nat PROVE Covers(r, x) <=> Covers(fl, x)
    <3>1. ASSUME Covers(r, x) PROVE Covers(fl, x)
      <4>1. PICK j \in 1..Len(r) : r[j].addr <= x /\ x < End(r[j])
        BY <3>1 DEF Covers
      <4>2. CASE j < q
        BY <1>1, <2>6, <2>7, <4>1, <4>2 DEF Covers
      <4>3. CASE j > q
        <5>1. j + 1 \in 1..Len(fl) /\ r[j] = fl[j + 1]
          BY <1>1, <2>6, <2>7, <4>3
        <5>2. QED
          BY <4>1, <5>1 DEF Covers
      <4>4. CASE j = q
        <5>1. fl[q].addr <= x /\ x < End(fl[q + 1])
          BY <2>3, <2>5, <2>6, <2>7, <4>1, <4>4
        <5>2. \/ fl[q].addr <= x /\ x < End(fl[q])
              \/ fl[q + 1].addr <= x /\ x < End(fl[q + 1])
          BY <1>3, <2>2, <5>1
        <5>3. QED
          BY <1>1, <2>2, <5>2 DEF Covers
      <4>5. j \in Int /\ q \in Int
        BY <1>1, <2>6
      <4>6. QED
        BY <4>2, <4>3, <4>4, <4>5
    <3>2. ASSUME Covers(fl, x) PROVE Covers(r, x)
      <4>1. PICK j \in 1..Len(fl) : fl[j].addr <= x /\ x < End(fl[j])
        BY <3>2 DEF Covers
      <4>2. CASE j < q
        <5>1. j \in 1..Len(r) /\ r[j] = fl[j]
          BY <1>1, <2>6, <2>7, <4>2
        <5>2. QED
          BY <4>1, <5>1 DEF Covers
      <4>3. CASE j > q + 1
        <5>1. j - 1 \in 1..Len(r) /\ r[j - 1] = fl[j]
          BY <1>1, <2>6, <2>7, <4>3
        <5>2. QED
          BY <4>1, <5>1 DEF Covers
      <4>4. CASE j = q \/ j = q + 1
        <5>1. q \in 1..Len(r) /\ r[q] = w[q]
          BY <1>1, <2>2, <2>6, <2>7
        <5>2. w[q].addr <= x /\ x < End(w[q])
          <6>1. End(fl[q]) \in Nat /\ End(fl[q + 1]) \in Nat
            <7>1. /\ fl[q].addr \in Nat /\ fl[q].size \in Nat
                  /\ fl[q + 1].addr \in Nat /\ fl[q + 1].size \in Nat
              BY <2>2
            <7>2. \A a, b \in Nat : a + b \in Nat
              OBVIOUS
            <7>3. fl[q].addr + fl[q].size \in Nat /\ fl[q + 1].addr + fl[q + 1].size \in Nat
              BY ONLY <7>1, <7>2, Zenon
            <7>4. QED
              BY ONLY <7>3 DEF End
          <6>2. fl[q].addr <= fl[q + 1].addr /\ End(fl[q]) <= End(fl[q + 1])
            BY <1>3, <2>2, <6>1 DEF End
          <6>3. QED
            BY <2>2, <2>3, <2>5, <4>1, <4>4, <6>1, <6>2
        <5>3. QED
          BY <5>1, <5>2 DEF Covers
      <4>5. j \in Int /\ q \in Int
        BY <1>1
      <4>6. QED
        BY <4>2, <4>3, <4>4, <4>5
    <3>3. QED
      BY <3>1, <3>2
  <2>11. QED
    BY <2>1, <2>8, <2>9, <2>10 DEF Sound
<1>4. QED
  BY <1>2, <1>3

-----------------------------------------------------------------------------
\* The bytes of a chunk that lies in the heap.
LEMMA ChunkFacts ==
  ASSUME NEW c \in Chunks, InHeap(c, c.size)
  PROVE  /\ c.addr \in 0..(Size - 1) /\ c.addr \in Nat /\ c.addr % 8 = 0
         /\ c.size \in Nat /\ c.size > 0 /\ c.size % 8 = 0
         /\ End(c) \in Nat /\ End(c) = c.addr + c.size
         /\ c.addr < End(c) /\ End(c) <= Size
<1>1. c.addr \in Nat /\ c.size \in Nat
  BY DEF Chunks
<1>2. QED
  BY <1>1, SizeAssumption DEF InHeap, End, Grain

\* The first part of tcm_heap_freemem: memory that was in no chunk is linked
\* in between its neighbours.
LEMMA InsertOpen ==
  ASSUME NEW fl, Sound(fl), NEW c \in Chunks, InHeap(c, c.size),
         \A x \in Nat : c.addr <= x /\ x < End(c) => ~Covers(fl, x),
         NEW p \in 0..Len(fl), Before(fl, p, c.addr)
  PROVE  /\ OpenAt(Insert(fl, p, c), Inserted(fl, p, c))
         /\ \A x \in Nat : Covers(Insert(fl, p, c), x) <=>
              Covers(fl, x) \/ (c.addr <= x /\ x < End(c))
<1> USE SizeAssumption
<1>1. /\ fl \in Seq(Chunks)
      /\ Len(fl) \in Nat
      /\ p \in 0..Len(fl)
      /\ \A j \in 1..Len(fl) :
           /\ InHeap(fl[j], fl[j].size)
           /\ fl[j].addr \in Nat /\ End(fl[j]) \in Nat /\ fl[j].addr < End(fl[j])
      /\ \A j, k \in 1..Len(fl) : j < k => End(fl[j]) < fl[k].addr
      /\ c.addr \in Nat /\ End(c) \in Nat /\ c.addr < End(c)
  <2>1. /\ fl \in Seq(Chunks)
        /\ \A j \in 1..Len(fl) : fl[j] \in Chunks /\ InHeap(fl[j], fl[j].size)
        /\ \A j, k \in 1..Len(fl) : j < k => End(fl[j]) < fl[k].addr
    BY DEF Sound, Placed, Apart
  <2>2. QED
    BY <2>1, ChunkFacts
<1>2. ASSUME NEW j \in 1..Len(fl)
      PROVE  End(fl[j]) <= c.addr \/ End(c) <= fl[j].addr
  <2>1. ASSUME fl[j].addr <= c.addr, c.addr < End(fl[j]) PROVE FALSE
    <3>1. ~Covers(fl, c.addr)
      BY <1>1
    <3>2. QED
      BY <2>1, <3>1 DEF Covers
  <2>2. ASSUME c.addr <= fl[j].addr, fl[j].addr < End(c) PROVE FALSE
    <3>1. fl[j].addr <= fl[j].addr /\ fl[j].addr < End(fl[j])
      BY <1>1
    <3>2. Covers(fl, fl[j].addr)
      BY <1>1, <3>1 DEF Covers
    <3>3. QED
      BY <1>1, <2>2, <3>2
  <2>3. QED
    BY <1>1, <2>1, <2>2
<1>3. ASSUME NEW j \in 1..Len(fl), j <= p PROVE End(fl[j]) <= c.addr
  <2>1. fl[j].addr <= c.addr
    BY <1>1, <1>3 DEF Before
  <2>2. QED
    BY <1>1, <1>2, <2>1
<1>4. ASSUME NEW j \in 1..Len(fl), j > p PROVE End(c) <= fl[j].addr
  <2>1. p + 1 \in 1..Len(fl) /\ p < Len(fl)
    BY <1>1, <1>4
  <2>2. c.addr <= fl[p + 1].addr
    BY <1>1, <2>1 DEF Before
  <2>3. fl[p + 1].addr <= fl[j].addr
    BY <1>1, <1>4, <2>1
  <2>4. QED
    BY <1>1, <1>2, <2>1, <2>2, <2>3
<1>5. CASE Touches(fl, p, c.addr)
  <2> DEFINE n == fl[p].size + c.size
             w == [fl EXCEPT ![p].size = n]
  <2>1. p \in 1..Len(fl) /\ End(fl[p]) = c.addr
    BY <1>1, <1>5 DEF Touches
  <2>0. /\ fl[p] \in Chunks /\ InHeap(fl[p], fl[p].size)
    BY <1>1, <2>1
  <2>2. n \in Nat /\ fl[p].addr + n = End(c)
    <3>1. /\ fl[p].addr \in Nat /\ fl[p].size \in Nat
          /\ End(fl[p]) = fl[p].addr + fl[p].size
      BY <2>0, ChunkFacts
    <3>2. c.size \in Nat /\ End(c) = c.addr + c.size
      BY ChunkFacts
    <3>3. fl[p].addr + (fl[p].size + c.size) = (fl[p].addr + fl[p].size) + c.size
      BY <3>1, <3>2
    <3>4. fl[p].addr + fl[p].size = c.addr
      BY <2>1, <3>1
    <3>5. fl[p].size + c.size \in Nat
      BY <3>1, <3>2
    <3>6. QED
      BY <3>2, <3>3, <3>4, <3>5
  <2>3. Insert(fl, p, c) = w /\ Inserted(fl, p, c) = p
    BY <1>5 DEF Insert, Inserted
  <2>4. /\ w \in Seq(Chunks)
        /\ Len(w) = Len(fl)
        /\ \A j \in 1..Len(fl) : j # p => w[j] = fl[j]
        /\ w[p].addr = fl[p].addr
        /\ w[p].size = n
    <3>1. fl \in Seq(Chunks) /\ p \in 1..Len(fl) /\ n \in Nat
      BY <1>1, <2>1, <2>2
    <3> HIDE DEF n
    <3>2. QED
      BY ONLY <3>1, ResizeFacts
  <2>5. InHeap(w[p], w[p].size)
    <3>1. /\ fl[p].addr \in 0..(Size - 1) /\ fl[p].addr % 8 = 0
          /\ fl[p].size % 8 = 0 /\ c.size % 8 = 0 /\ End(c) <= Size
          /\ fl[p].size \in Nat /\ c.size \in Nat /\ c.size > 0
      BY <2>0, ChunkFacts
    <3> DEFINE a == fl[p].size
               b == c.size
    <3>2. n = a + b /\ a \in Nat /\ b \in Nat /\ a % 8 = 0 /\ b % 8 = 0 /\ b > 0
      BY <3>1
    <3> HIDE DEF n, a, b
    <3>4. n % 8 = 0 /\ n > 0
      BY ONLY <3>2, AddGrains
    <3>3. QED
      BY <2>2, <2>4, <3>1, <3>4 DEF InHeap, Grain
  <2>6. End(w[p]) = End(c)
    BY <2>2, <2>4 DEF End
  <2> HIDE DEF n, w
  <2>7. Placed(w)
    BY <1>1, <2>4, <2>5 DEF Placed
  <2>8. ASSUME NEW j \in 1..Len(w), NEW k \in 1..Len(w), j < k
        PROVE  \/ End(w[j]) < w[k].addr
               \/ j = p /\ k = p + 1 /\ End(w[j]) = w[k].addr
    <3>1. CASE j = p
      <4>1. w[k] = fl[k] /\ End(w[j]) = End(c) /\ End(c) <= fl[k].addr
        BY <1>4, <2>1, <2>4, <2>6, <2>8, <3>1
      <4>2. CASE k = p + 1
        BY <1>1, <2>4, <3>1, <4>1, <4>2
      <4>3. CASE k # p + 1
        <5>1. /\ p + 1 \in 1..Len(fl) /\ p + 1 > p /\ p + 1 < k
          BY <1>1, <2>1, <2>4, <2>8, <3>1, <4>3
        <5>2. End(c) <= fl[p + 1].addr /\ End(fl[p + 1]) < fl[k].addr
          BY <1>1, <1>4, <2>4, <5>1
        <5>3. fl[p + 1].addr < End(fl[p + 1])
          BY <1>1, <5>1
        <5>4. QED
          BY <1>1, <2>4, <4>1, <5>1, <5>2, <5>3
      <4>4. QED
        BY <4>2, <4>3
    <3>2. CASE j # p
      <4>1. w[j] = fl[j] /\ w[k].addr = fl[k].addr
        BY <2>4, <3>2
      <4>2. QED
        BY <1>1, <2>4, <2>8, <4>1
    <3>3. QED
      BY <3>1, <3>2
  <2>9. OpenAt(w, p)
    BY <2>1, <2>4, <2>7, <2>8 DEF OpenAt
  <2>10. ASSUME NEW x \in Nat
         PROVE  Covers(w, x) <=> Covers(fl, x) \/ (c.addr <= x /\ x < End(c))
    <3>1. (w[p].addr <= x /\ x < End(w[p])) <=>
            \/ fl[p].addr <= x /\ x < End(fl[p])
            \/ c.addr <= x /\ x < End(c)
      BY <1>1, <2>1, <2>4, <2>6
    <3>2. \A j \in 1..Len(fl) : j # p => w[j] = fl[j]
      BY <2>4
    <3>3. QED
      BY <2>1, <2>4, <3>1, <3>2 DEF Covers
  <2>11. QED
    BY <2>3, <2>9, <2>10
<1>6. CASE ~Touches(fl, p, c.addr)
  <2> DEFINE w == InsertAt(fl, p + 1, c)
  <2>1. Insert(fl, p, c) = w /\ Inserted(fl, p, c) = p + 1
    BY <1>6 DEF Insert, Inserted
  <2>2. /\ w \in Seq(Chunks)
        /\ Len(w) = Len(fl) + 1
        /\ \A j \in 1..(Len(fl) + 1) :
             w[j] = IF j < p + 1 THEN fl[j] ELSE IF j = p + 1 THEN c ELSE fl[j - 1]
    <3> DEFINE i == p + 1
    <3>1. fl \in Seq(Chunks) /\ i \in 1..(Len(fl) + 1) /\ c \in Chunks
      BY <1>1
    <3> HIDE DEF i
    <3>2. /\ InsertAt(fl, i, c) \in Seq(Chunks)
          /\ Len(InsertAt(fl, i, c)) = Len(fl) + 1
          /\ \A j \in 1..(Len(fl) + 1) :
               InsertAt(fl, i, c)[j] = IF j < i THEN fl[j]
                                       ELSE IF j = i THEN c ELSE fl[j - 1]
      BY ONLY <3>1, InsertAtFacts
    <3>3. QED
      BY ONLY <3>2 DEF i
  <2> HIDE DEF w
  <2>3. \A j \in 1..Len(w) :
          /\ j <= p => j \in 1..Len(fl) /\ w[j] = fl[j]
          /\ j = p + 1 => w[j] = c
          /\ j > p + 1 => j - 1 \in 1..Len(fl) /\ w[j] = fl[j - 1]
    BY <1>1, <2>2
  <2>4. Placed(w)
    <3>1. ASSUME NEW j \in 1..Len(w) PROVE InHeap(w[j], w[j].size)
      <4>1. CASE j <= p
        BY <1>1, <2>3, <4>1
      <4>2. CASE j = p + 1
        BY <2>3, <4>2
      <4>3. CASE j > p + 1
        BY <1>1, <2>3, <4>3
      <4>4. j \in Int /\ p \in Int
        BY <1>1, <2>2
      <4>5. QED
        BY <4>1, <4>2, <4>3, <4>4
    <3>2. QED
      BY <2>2, <3>1 DEF Placed
  <2>5. p > 0 => End(fl[p]) < c.addr
    BY <1>1, <1>3, <1>6 DEF Touches
  <2>6. ASSUME NEW j \in 1..Len(w), NEW k \in 1..Len(w), j < k
        PROVE  \/ End(w[j]) < w[k].addr
               \/ j = p + 1 /\ k = p + 2 /\ End(w[j]) = w[k].addr
    <3>0. j \in Int /\ k \in Int /\ p \in Int
      BY <1>1, <2>2
    <3>1. CASE j <= p /\ k <= p
      BY <1>1, <2>3, <2>6, <3>1
    <3>2. CASE j <= p /\ k = p + 1
      <4>1. w[j] = fl[j] /\ w[k] = c /\ j \in 1..Len(fl)
        BY <2>3, <3>2
      <4>2. p \in 1..Len(fl) /\ End(fl[p]) < c.addr
        BY <1>1, <2>5, <3>0, <3>2, <4>1
      <4>3. CASE j = p
        BY <4>1, <4>2, <4>3
      <4>4. CASE j # p
        <5>1. End(fl[j]) < fl[p].addr /\ fl[p].addr < End(fl[p])
          BY <1>1, <3>0, <3>2, <4>1, <4>2, <4>4
        <5>2. QED
          BY <1>1, <4>1, <4>2, <5>1
      <4>5. QED
        BY <4>3, <4>4
    <3>3. CASE j <= p /\ k > p + 1
      <4>1. /\ w[j] = fl[j] /\ w[k] = fl[k - 1]
            /\ j \in 1..Len(fl) /\ k - 1 \in 1..Len(fl) /\ j < k - 1
        BY <2>3, <3>0, <3>3
      <4>2. QED
        BY <1>1, <4>1
    <3>4. CASE j = p + 1
      <4>1. k > p + 1
        BY <2>6, <3>0, <3>4
      <4>2. /\ w[j] = c /\ w[k] = fl[k - 1] /\ k - 1 \in 1..Len(fl) /\ k - 1 > p
        BY <2>3, <3>0, <3>4, <4>1
      <4>3. End(c) <= fl[k - 1].addr
        BY <1>4, <4>2
      <4>4. CASE k = p + 2
        BY <1>1, <3>4, <4>2, <4>3, <4>4
      <4>5. CASE k # p + 2
        <5>1. p + 1 \in 1..Len(fl) /\ p + 1 > p /\ p + 1 < k - 1
          BY <1>1, <3>0, <4>1, <4>2, <4>5
        <5>2. End(c) <= fl[p + 1].addr /\ End(fl[p + 1]) < fl[k - 1].addr
          BY <1>1, <1>4, <4>2, <5>1
        <5>3. fl[p + 1].addr < End(fl[p + 1])
          BY <1>1, <5>1
        <5>4. End(c) < fl[k - 1].addr
          <6>1. /\ fl[k - 1].addr \in Nat /\ fl[p + 1].addr \in Nat
                /\ End(fl[p + 1]) \in Nat /\ End(c) \in Nat
            BY <1>1, <4>2, <5>1
          <6>2. QED
            BY <5>2, <5>3, <6>1
        <5>5. QED
          BY <4>2, <5>4
      <4>6. QED
        BY <4>4, <4>5
    <3>5. CASE j > p + 1
      <4>1. /\ w[j] = fl[j - 1] /\ w[k] = fl[k - 1]
            /\ j - 1 \in 1..Len(fl) /\ k - 1 \in 1..Len(fl) /\ j - 1 < k - 1
        BY <2>3, <2>6, <3>0, <3>5
      <4>2. QED
        BY <1>1, <4>1
    <3>6. QED
      BY <3>0, <3>1, <3>2, <3>3, <3>4, <3>5
  <2>7. OpenAt(w, p + 1)
    <3>1. p + 1 \in 1..Len(w)
      BY <1>1, <2>2
    <3>2. (p + 1) + 1 = p + 2
      BY <1>1
    <3>3. QED
      BY <2>4, <2>6, <3>1, <3>2 DEF OpenAt
  <2>8. ASSUME NEW x \in Nat
        PROVE  Covers(w, x) <=> Covers(fl, x) \/ (c.addr <= x /\ x < End(c))
    <3>1. ASSUME Covers(w, x) PROVE Covers(fl, x) \/ (c.addr <= x /\ x < End(c))
      <4>1. PICK j \in 1..Len(w) : w[j].addr <= x /\ x < End(w[j])
        BY <3>1 DEF Covers
      <4>2. j \in Int /\ p \in Int
        BY <1>1, <2>2
      <4>3. j <= p \/ j = p + 1 \/ j > p + 1
        BY <4>2
      <4>4. QED
        BY <2>3, <4>1, <4>3 DEF Covers
    <3>2. ASSUME c.addr <= x, x < End(c) PROVE Covers(w, x)
      <4>1. p + 1 \in 1..Len(w) /\ w[p + 1] = c
        BY <1>1, <2>2, <2>3
      <4>2. QED
        BY <3>2, <4>1 DEF Covers
    <3>3. ASSUME Covers(fl, x) PROVE Covers(w, x)
      <4>1. PICK j \in 1..Len(fl) : fl[j].addr <= x /\ x < End(fl[j])
        BY <3>3 DEF Covers
      <4>2. CASE j <= p
        <5>1. j \in 1..Len(w) /\ w[j] = fl[j]
          BY <1>1, <2>2, <2>3, <4>2
        <5>2. QED
          BY <4>1, <5>1 DEF Covers
      <4>3. CASE j > p
        <5>1. j + 1 \in 1..Len(w) /\ w[j + 1] = fl[j]
          BY <1>1, <2>2, <4>3
        <5>2. QED
          BY <4>1, <5>1 DEF Covers
      <4>4. j \in Int /\ p \in Int
        BY <1>1
      <4>5. QED
        BY <4>2, <4>3, <4>4
    <3>4. QED
      BY <3>1, <3>2, <3>3
  <2>9. QED
    BY <2>1, <2>7, <2>8
<1>7. QED
  BY <1>5, <1>6

-----------------------------------------------------------------------------
\* List and blocks divide the heap between them.
Divided(fl, bs) ==
  /\ Sound(fl)
  /\ \A b \in bs : b \in Chunks /\ b.size > 0 /\ InHeap(b, Rounded(b.size))
  /\ \A b1, b2 \in bs : b1 # b2 =>
       \/ b1.addr + Rounded(b1.size) <= b2.addr
       \/ b2.addr + Rounded(b2.size) <= b1.addr
  /\ \A x \in 0..(Size - 1) : Covers(fl, x) <=> \A b \in bs : ~Holds(b, x)

\* The heap begins as one chunk that holds every byte.
LEMMA InitDivided == Divided(HeapInit, {})
<1> USE SizeAssumption
<1>1. /\ HeapInit \in Seq(Chunks)
      /\ Len(HeapInit) = 1
      /\ HeapInit[1].addr = 0
      /\ HeapInit[1].size = Size
  BY DEF HeapInit, Chunk, Chunks
<1>2. InHeap(HeapInit[1], HeapInit[1].size)
  BY <1>1 DEF InHeap, Grain
<1>3. Sound(HeapInit)
  BY <1>1, <1>2 DEF Sound, Placed, Apart
<1>4. ASSUME NEW x \in 0..(Size - 1) PROVE Covers(HeapInit, x)
  <2>1. HeapInit[1].addr <= x /\ x < End(HeapInit[1])
    BY <1>1 DEF End
  <2>2. QED
    BY <1>1, <2>1 DEF Covers
<1>5. QED
  BY <1>3, <1>4 DEF Divided

\* A block just cut out of the list does not overlap any other.
LEMMA MallocDivided ==
  ASSUME NEW fl, NEW bs, Divided(fl, bs), NEW k \in Nat, k > 0,
         NEW i, FirstFit(fl, i, Rounded(k))
  PROVE  /\ Divided(Take(fl, i, Rounded(k)),
                     bs \cup {Chunk(TakenAt(fl, i, Rounded(k)), k)})
         /\ TakenAt(fl, i, Rounded(k)) \in 0..(Size - 1)
         /\ TakenAt(fl, i, Rounded(k)) + Rounded(k) <= Size
         /\ \A b \in bs :
              \/ TakenAt(fl, i, Rounded(k)) + Rounded(k) <= b.addr
              \/ b.addr + Rounded(b.size) <= TakenAt(fl, i, Rounded(k))
<1> USE SizeAssumption
<1> DEFINE m == Rounded(k)
           a == TakenAt(fl, i, m)
           r == Take(fl, i, m)
           c == Chunk(a, k)
<1>1. m \in Nat /\ m > 0 /\ m % Grain = 0
  BY Rounding DEF Grain
<1>2. /\ Sound(r)
      /\ a \in 0..(Size - 1)
      /\ a % Grain = 0
      /\ a + m <= Size
      /\ \A x \in Nat : Covers(r, x) <=> Covers(fl, x) /\ ~(a <= x /\ x < a + m)
      /\ \A x \in Nat : a <= x /\ x < a + m => Covers(fl, x)
  BY <1>1, TakeSound DEF Divided
<1>3. /\ c \in Chunks /\ c.addr = a /\ c.size = k
      /\ \A x : Holds(c, x) <=> a <= x /\ x < a + m
      /\ InHeap(c, Rounded(c.size))
  BY <1>1, <1>2 DEF Chunk, Chunks, Holds, InHeap
<1> HIDE DEF a, r, c
<1>4. ASSUME NEW b \in bs
      PROVE  a + m <= b.addr \/ b.addr + Rounded(b.size) <= a
  <2>1. /\ b.addr \in 0..(Size - 1) /\ Rounded(b.size) \in Nat /\ Rounded(b.size) > 0
    BY Rounding DEF Divided, InHeap, Chunks
  <2>2. ASSUME a <= b.addr, b.addr < a + m PROVE FALSE
    <3>1. Covers(fl, b.addr)
      BY <1>2, <2>1, <2>2
    <3>2. Holds(b, b.addr)
      BY <2>1 DEF Holds
    <3>3. QED
      BY <2>1, <3>1, <3>2 DEF Divided
  <2>3. ASSUME b.addr <= a, a < b.addr + Rounded(b.size) PROVE FALSE
    <3>1. Covers(fl, a)
      BY <1>1, <1>2
    <3>2. Holds(b, a)
      BY <2>3 DEF Holds
    <3>3. QED
      BY <1>2, <3>1, <3>2 DEF Divided
  <2>4. QED
    BY <1>1, <1>2, <2>1, <2>2, <2>3
<1>5. \A b \in bs \cup {c} : b \in Chunks /\ b.size > 0 /\ InHeap(b, Rounded(b.size))
  BY <1>3 DEF Divided
<1>6. \A b1, b2 \in bs \cup {c} : b1 # b2 =>
        \/ b1.addr + Rounded(b1.size) <= b2.addr
        \/ b2.addr + Rounded(b2.size) <= b1.addr
  BY <1>3, <1>4 DEF Divided
<1>7. \A x \in 0..(Size - 1) : Covers(r, x) <=> \A b \in bs \cup {c} : ~Holds(b, x)
  BY <1>2, <1>3 DEF Divided
<1>8. Divided(r, bs \cup {c})
  BY <1>2, <1>5, <1>6, <1>7 DEF Divided
<1>9. QED
  BY <1>2, <1>4, <1>8 DEF a, r, c

\* A block put back is free, and everything else is as it was.
LEMMA FreeDivided ==
  ASSUME NEW fl, NEW bs, Divided(fl, bs), NEW b \in bs,
         NEW p \in 0..Len(fl), Before(fl, p, b.addr)
  PROVE  LET c == Chunk(b.addr, Rounded(b.size))
         IN  Divided(MergeNext(Insert(fl, p, c), Inserted(fl, p, c)), bs \ {b})
<1> USE SizeAssumption
<1> DEFINE c == Chunk(b.addr, Rounded(b.size))
           w == Insert(fl, p, c)
           q == Inserted(fl, p, c)
           r == MergeNext(w, q)
<1>1. /\ b \in Chunks /\ InHeap(b, Rounded(b.size))
      /\ Rounded(b.size) \in Nat
      /\ b.addr \in Nat
  BY Rounding DEF Divided, Chunks
<1>2. /\ c \in Chunks /\ c.addr = b.addr /\ c.size = Rounded(b.size)
      /\ InHeap(c, c.size)
      /\ End(c) = b.addr + Rounded(b.size)
  BY <1>1 DEF Chunk, Chunks, InHeap, End
<1>3. \A x \in Nat : Holds(b, x) <=> c.addr <= x /\ x < End(c)
  BY <1>2 DEF Holds
<1>4. \A x \in Nat : c.addr <= x /\ x < End(c) => x \in 0..(Size - 1)
  BY <1>1, <1>2 DEF InHeap
<1>5. \A x \in Nat : c.addr <= x /\ x < End(c) => ~Covers(fl, x)
  BY <1>3, <1>4 DEF Divided
<1>6. /\ OpenAt(w, q)
      /\ \A x \in Nat : Covers(w, x) <=> Covers(fl, x) \/ Holds(b, x)
  <2>1. Sound(fl) /\ Before(fl, p, c.addr)
    BY <1>2 DEF Divided
  <2> HIDE DEF c
  <2>2. QED
    BY <1>2, <1>3, <1>5, <2>1, InsertOpen
<1> HIDE DEF c, w, q
<1>7. /\ Sound(r)
      /\ \A x \in Nat : Covers(r, x) <=> Covers(fl, x) \/ Holds(b, x)
  BY <1>6, MergeSound
<1>8. ASSUME NEW x \in 0..(Size - 1), Holds(b, x), NEW b2 \in bs \ {b}
      PROVE  ~Holds(b2, x)
  <2>1. /\ b2.addr \in Nat /\ Rounded(b2.size) \in Nat
    BY Rounding DEF Divided, Chunks
  <2>2. \/ b.addr + Rounded(b.size) <= b2.addr
        \/ b2.addr + Rounded(b2.size) <= b.addr
    BY DEF Divided
  <2>3. QED
    BY <1>1, <1>8, <2>1, <2>2 DEF Holds
<1>9. \A x \in 0..(Size - 1) : Covers(r, x) <=> \A b2 \in bs \ {b} : ~Holds(b2, x)
  <2>1. ASSUME NEW x \in 0..(Size - 1)
        PROVE  Covers(r, x) <=> \A b2 \in bs \ {b} : ~Holds(b2, x)
    <3>1. Covers(r, x) <=> Covers(fl, x) \/ Holds(b, x)
      BY <1>7
    <3>2. Covers(fl, x) <=> \A b2 \in bs : ~Holds(b2, x)
      BY DEF Divided
    <3>3. QED
      BY <1>8, <3>1, <3>2
  <2>2. QED
    BY <2>1
<1>10. Divided(r, bs \ {b})
  BY <1>7, <1>9 DEF Divided
<1>11. QED
  BY <1>10 DEF c, w, q, r

-----------------------------------------------------------------------------
\* THE INDUCTIVE INVARIANT.  Nothing of the heap is used before its first
\* call sets it up; from then on list and blocks divide the heap.
Inv ==
  /\ inited \in BOOLEAN
  /\ ~inited => FreeList = <<>> /\ blocks = {}
  /\ answer \in [size : Nat, addr : Nat \cup {NULL}]
  /\ Divided(List, blocks)

\* The heap begins as one free chunk.
LEMMA InvInit == Init => Inv
<1> SUFFICES ASSUME Init PROVE Inv
  OBVIOUS
<1>1. List = HeapInit /\ blocks = {}
  BY DEF Init, List
<1>2. Divided(List, blocks)
  BY <1>1, InitDivided
<1>3. QED
  BY <1>2 DEF Init, Inv

\* One case per call.
LEMMA InvNext == Inv /\ [Next]_vars => Inv'
<1> SUFFICES ASSUME Inv, [Next]_vars PROVE Inv'
  OBVIOUS
<1> USE SizeAssumption, RequestsAssumption
<1>1. ASSUME NEW n \in Requests, Malloc(n) PROVE Inv'
  <2> DEFINE k == n + Header
  <2>1. k \in Nat /\ k > 0
    BY DEF Header
  <2>2. PICK i \in 1..Len(List) :
          /\ FirstFit(List, i, Rounded(k))
          /\ FreeList' = Take(List, i, Rounded(k))
          /\ blocks' = blocks \cup {Chunk(TakenAt(List, i, Rounded(k)), k)}
          /\ answer' = [size |-> k, addr |-> TakenAt(List, i, Rounded(k))]
    BY <1>1 DEF Malloc
  <2>3. inited' = TRUE /\ List' = FreeList'
    BY <1>1 DEF Malloc, List
  <2> HIDE DEF k
  <2>4. Divided(List, blocks)
    BY DEF Inv
  <2>5. /\ Divided(Take(List, i, Rounded(k)),
                   blocks \cup {Chunk(TakenAt(List, i, Rounded(k)), k)})
        /\ TakenAt(List, i, Rounded(k)) \in 0..(Size - 1)
    BY <2>1, <2>2, <2>4, MallocDivided
  <2>6. answer' \in [size : Nat, addr : Nat \cup {NULL}]
    BY <2>1, <2>2, <2>5
  <2>7. Divided(List', blocks')
    BY <2>2, <2>3, <2>5
  <2>8. QED
    BY <2>3, <2>6, <2>7 DEF Inv
<1>2. ASSUME NEW n \in Requests, MallocFails(n) PROVE Inv'
  <2>1. inited' = TRUE /\ List' = List /\ blocks' = blocks
    BY <1>2 DEF MallocFails, List
  <2>2. answer' \in [size : Nat, addr : Nat \cup {NULL}]
    BY <1>2 DEF MallocFails, Header
  <2>3. QED
    BY <2>1, <2>2 DEF Inv
<1>3. ASSUME NEW b \in blocks, Free(b) PROVE Inv'
  <2>1. inited = TRUE /\ inited' = TRUE /\ List = FreeList /\ List' = FreeList'
    BY <1>3 DEF Free, Inv, List
  <2>2. PICK p \in 0..Len(FreeList) :
          /\ Before(FreeList, p, Chunk(b.addr, Rounded(b.size)).addr)
          /\ FreeList' = MergeNext(Insert(FreeList, p, Chunk(b.addr, Rounded(b.size))),
                                   Inserted(FreeList, p, Chunk(b.addr, Rounded(b.size))))
    BY <1>3 DEF Free
  <2>3. Before(FreeList, p, b.addr)
    BY <2>2 DEF Chunk
  <2>4. blocks' = blocks \ {b} /\ answer' = answer
    BY <1>3 DEF Free
  <2>5. Divided(FreeList, blocks)
    BY <2>1 DEF Inv
  <2>6. Divided(FreeList', blocks')
    BY <2>2, <2>3, <2>4, <2>5, FreeDivided
  <2>7. QED
    BY <2>1, <2>4, <2>6 DEF Inv
<1>4. ASSUME FreeSpace PROVE Inv'
  BY <1>4 DEF FreeSpace, Inv, List
<1>5. ASSUME UNCHANGED vars PROVE Inv'
  BY <1>5 DEF vars, Inv, List
<1>6. QED
  BY <1>1, <1>2, <1>3, <1>4, <1>5 DEF Next

\* The inductive invariant holds in every state, for every heap size and all requests.
THEOREM InvAlways == Spec => []Inv
  BY InvInit, InvNext, PTL DEF Spec

\* THEOREM.  Every chunk and every block lies on whole grains inside the heap.
THEOREM TypeCorrect == Spec => []TypeOK
<1>1. Inv => TypeOK
  <2> SUFFICES ASSUME Inv PROVE TypeOK
    OBVIOUS
  <2>1. FreeList = <<>> \/ Sound(FreeList)
    BY DEF Inv, List, Divided
  <2>2. /\ FreeList \in Seq([addr : Nat, size : Nat])
        /\ \A i \in 1..Len(FreeList) : InHeap(FreeList[i], FreeList[i].size)
    <3>1. CASE FreeList = <<>>
      <4>1. FreeList \in Seq(Chunks) /\ Len(FreeList) = 0
        BY <3>1
      <4>2. QED
        BY <4>1 DEF Chunks
    <3>2. CASE Sound(FreeList)
      BY <3>2 DEF Sound, Placed, Chunks
    <3>3. QED
      BY <2>1, <3>1, <3>2
  <2>3. /\ blocks \subseteq [addr : Nat, size : Nat]
        /\ \A b \in blocks : InHeap(b, Rounded(b.size))
    BY DEF Inv, Divided, Chunks
  <2>4. QED
    BY <2>2, <2>3 DEF Inv, TypeOK
<1>2. QED
  BY <1>1, InvAlways, PTL

\* THEOREM.  The one merge with each neighbour that tcm_heap_freemem does
\* keeps the whole list coalesced, after every sequence of calls.
THEOREM StaysCoalesced == Spec => []Coalesced
<1>1. Inv => Coalesced
  <2> SUFFICES ASSUME Inv PROVE Coalesced
    OBVIOUS
  <2>1. FreeList = <<>> \/ Apart(FreeList)
    BY DEF Inv, List, Divided, Sound
  <2>2. QED
    BY <2>1 DEF Apart, Coalesced
<1>2. QED
  BY <1>1, InvAlways, PTL

\* THEOREM.  No byte of the heap is lost and none is handed out twice.
THEOREM NothingIsLost == Spec => []NothingLost
<1>1. Inv => NothingLost
  <2> SUFFICES ASSUME Inv, NEW x \in 0..(Size - 1)
               PROVE  /\ Covers(List, x) <=> \A b \in blocks : ~Holds(b, x)
                      /\ \A b1, b2 \in blocks : Holds(b1, x) /\ Holds(b2, x) => b1 = b2
    BY DEF NothingLost
  <2>1. Covers(List, x) <=> \A b \in blocks : ~Holds(b, x)
    BY DEF Inv, Divided
  <2>2. ASSUME NEW b1 \in blocks, NEW b2 \in blocks, Holds(b1, x), Holds(b2, x), b1 # b2
        PROVE  FALSE
    <3>1. /\ b1.addr \in Nat /\ Rounded(b1.size) \in Nat
          /\ b2.addr \in Nat /\ Rounded(b2.size) \in Nat
      BY Rounding DEF Inv, Divided, Chunks
    <3>2. \/ b1.addr + Rounded(b1.size) <= b2.addr
          \/ b2.addr + Rounded(b2.size) <= b1.addr
      BY <2>2 DEF Inv, Divided
    <3>3. QED
      BY <2>2, <3>1, <3>2, SizeAssumption DEF Holds
  <2>3. QED
    BY <2>1, <2>2
<1>2. QED
  BY <1>1, InvAlways, PTL

-----------------------------------------------------------------------------
\* A run of free bytes lies in a single chunk: the byte behind a chunk is
\* never free.
LEMMA RunInOneChunk ==
  ASSUME NEW fl, NEW bs, Divided(fl, bs), NEW a \in Nat, NEW m \in Nat, m > 0,
         a + m <= Size,
         \A b \in bs : a + m <= b.addr \/ b.addr + Rounded(b.size) <= a
  PROVE  \E i \in 1..Len(fl) : fl[i].size >= m
<1> USE SizeAssumption
<1>1. ASSUME NEW x \in Nat, a <= x, x < a + m PROVE Covers(fl, x)
  <2>1. ASSUME NEW b \in bs PROVE ~Holds(b, x)
    <3>1. b.addr \in Nat /\ Rounded(b.size) \in Nat
      BY Rounding DEF Divided, Chunks
    <3>2. QED
      BY <1>1, <3>1 DEF Holds
  <2>2. x \in 0..(Size - 1)
    BY <1>1
  <2>3. QED
    BY <2>1, <2>2 DEF Divided
<1>2. PICK i \in 1..Len(fl) : fl[i].addr <= a /\ a < End(fl[i])
  <2>1. Covers(fl, a)
    BY <1>1
  <2>2. QED
    BY <2>1 DEF Covers
<1>3. /\ \A j \in 1..Len(fl) :
           /\ fl[j].addr \in Nat /\ fl[j].size \in Nat /\ End(fl[j]) \in Nat
           /\ End(fl[j]) = fl[j].addr + fl[j].size /\ fl[j].addr < End(fl[j])
      /\ \A j, k \in 1..Len(fl) : j < k => End(fl[j]) < fl[k].addr
      /\ Len(fl) \in Nat
  BY ChunkFacts DEF Divided, Sound, Placed, Apart
<1>4. CASE fl[i].size < m
  <2>1. a <= End(fl[i]) /\ End(fl[i]) < a + m /\ End(fl[i]) \in Nat
    BY <1>2, <1>3, <1>4
  <2>2. Covers(fl, End(fl[i]))
    BY <1>1, <2>1
  <2>3. PICK j \in 1..Len(fl) : fl[j].addr <= End(fl[i]) /\ End(fl[i]) < End(fl[j])
    BY <2>2 DEF Covers
  <2>4. j # i /\ ~(j < i) /\ ~(i < j)
    BY <1>3, <2>3
  <2>5. QED
    BY <1>3, <2>4
<1>5. QED
  BY <1>3, <1>4

\* One step of TcmHeap is a step of Heap or leaves its variables alone.
LEMMA StepRefines == Inv /\ [Next]_vars => [Promise!Next]_(Promise!vars)
<1> SUFFICES ASSUME Inv, [Next]_vars PROVE [Promise!Next]_(Promise!vars)
  OBVIOUS
<1> USE SizeAssumption, RequestsAssumption
<1>1. Divided(List, blocks)
  BY DEF Inv
<1>2. \A n \in Requests : Promise!Round(n + 4) = Rounded(n + Header)
  BY Rounding DEF Promise!Round, Header
<1>3. \A b \in blocks : Promise!Round(b.size) = Rounded(b.size)
  BY <1>1, Rounding DEF Promise!Round, Divided, Chunks
<1>4. ASSUME NEW n \in Requests, Malloc(n) PROVE Promise!Grant(n)
  <2> DEFINE k == n + Header
  <2>1. k \in Nat /\ k > 0 /\ k = n + 4
    BY DEF Header
  <2>2. PICK i \in 1..Len(List) :
          /\ FirstFit(List, i, Rounded(k))
          /\ blocks' = blocks \cup {Chunk(TakenAt(List, i, Rounded(k)), k)}
          /\ answer' = [size |-> k, addr |-> TakenAt(List, i, Rounded(k))]
    BY <1>4 DEF Malloc
  <2> DEFINE a == TakenAt(List, i, Rounded(k))
  <2> HIDE DEF k
  <2>3. /\ a \in 0..(Size - 1)
        /\ a + Rounded(k) <= Size
        /\ \A b \in blocks : a + Rounded(k) <= b.addr \/ b.addr + Rounded(b.size) <= a
    BY <1>1, <2>1, <2>2, MallocDivided
  <2>4. blocks' = blocks \cup {[addr |-> a, size |-> k]} /\ answer' = [size |-> k, addr |-> a]
    BY <2>2 DEF Chunk
  <2> HIDE DEF a
  <2>5. Rounded(k) = Promise!Round(n + 4)
    BY <1>2 DEF k
  <2>6. Promise!Unused(a, Promise!Round(n + 4))
    BY <1>3, <2>3, <2>5 DEF Promise!Unused
  <2>7. a \in 0..Size
    BY <2>3
  <2>8. QED
    BY <2>1, <2>4, <2>6, <2>7 DEF Promise!Grant
<1>5. ASSUME NEW n \in Requests, MallocFails(n) PROVE Promise!Refuse(n)
  <2> DEFINE k == n + Header
  <2>1. k \in Nat /\ Rounded(k) \in Nat /\ Rounded(k) > 0 /\ k = n + 4
    BY Rounding DEF Header
  <2>2. ASSUME NEW a \in 0..Size, Promise!Unused(a, Promise!Round(n + 4)) PROVE FALSE
    <3>1. Promise!Round(n + 4) = Rounded(k)
      BY <1>2
    <3> HIDE DEF k
    <3>2. /\ a + Rounded(k) <= Size
          /\ \A b \in blocks : a + Rounded(k) <= b.addr \/ b.addr + Rounded(b.size) <= a
      BY <1>3, <2>2, <3>1 DEF Promise!Unused
    <3> DEFINE m == Rounded(k)
    <3>7. m \in Nat /\ m > 0 /\ a \in Nat
      BY <2>1
    <3>8. /\ a + m <= Size
          /\ \A b \in blocks : a + m <= b.addr \/ b.addr + Rounded(b.size) <= a
      BY <3>2
    <3> HIDE DEF m
    <3>9. \E i \in 1..Len(List) : List[i].size >= m
      BY ONLY <1>1, <3>7, <3>8, RunInOneChunk
    <3>3. PICK i \in 1..Len(List) : List[i].size >= Rounded(k)
      BY <3>9 DEF m
    <3>4. List[i].size < Rounded(k)
      BY <1>5 DEF MallocFails, k
    <3>10. List \in Seq(Chunks)
      BY <1>1 DEF Divided, Sound, Placed
    <3>11. List[i] \in Chunks
      BY <3>10
    <3>5. List[i].size \in Nat
      BY <3>11 DEF Chunks
    <3>6. QED
      BY <2>1, <3>3, <3>4, <3>5
  <2>3. QED
    BY <1>5, <2>1, <2>2 DEF MallocFails, Promise!Refuse
<1>6. ASSUME NEW b \in blocks, Free(b) PROVE Promise!Release(b)
  BY <1>6 DEF Free, Promise!Release
<1>7. ASSUME FreeSpace PROVE UNCHANGED Promise!vars
  BY <1>7 DEF FreeSpace, Promise!vars
<1>8. ASSUME UNCHANGED vars PROVE UNCHANGED Promise!vars
  BY <1>8 DEF vars, Promise!vars
<1>9. QED
  BY <1>4, <1>5, <1>6, <1>7, <1>8 DEF Next, Promise!Next

\* THEOREM.  TcmHeap keeps the promise of a heap: blocks never overlap and a
\* request is refused only when no free run of bytes is long enough.
THEOREM KeepsThePromise == Spec => ImplementsHeap
<1>1. Init => Promise!Init
  BY DEF Init, Promise!Init
<1>2. QED
  BY <1>1, StepRefines, InvAlways, PTL DEF Spec, ImplementsHeap, Promise!Spec
=============================================================================

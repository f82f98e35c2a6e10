-------------------------- MODULE I2sOutput_proofs --------------------------
(***************************************************************************)
(* Proofs about the I2S output.  I2sDma, for every number of pages, page   *)
(* size and limit of the semaphore: the page that is filled is never the   *)
(* hardware's, driver, hardware and interrupt handler agree on the ring.   *)
(* PwmDac, for every set of 16-bit samples and every length of the piece:  *)
(* the bits sent sum to the samples.                                       *)
(***************************************************************************)
EXTENDS I2sDma, PwmDac, TLAPS

\* The page j pages after p.
Plus(p, j) == IF p + j < PageNum THEN p + j ELSE p + j - PageNum

\* A sum within one turn of the ring is at most one turn too large.
LEMMA PlusIsMod ==
  ASSUME NEW p \in Pages, NEW j \in 0..PageNum
  PROVE  (p + j) % PageNum = Plus(p, j) /\ Plus(p, j) \in Pages
<1>1. PageNum \in 2..4 /\ p \in Int /\ j \in Int /\ 0 <= p /\ p < PageNum /\ 0 <= j /\ j <= PageNum
  BY I2sAssumption, SMT DEF Pages
<1>2. CASE PageNum = 2
  BY <1>1, <1>2, SMT DEF Plus, Pages
<1>3. CASE PageNum = 3
  BY <1>1, <1>3, SMT DEF Plus, Pages
<1>4. CASE PageNum = 4
  BY <1>1, <1>4, SMT DEF Plus, Pages
<1> QED
  BY <1>1, <1>2, <1>3, <1>4, SMT

\* The pages of a ring.
LEMMA PagesAre ==
  /\ PageNum \in Nat /\ PageNum > 1
  /\ \A p : p \in Pages <=> p \in Int /\ 0 <= p /\ p < PageNum
  /\ None \notin Pages
  BY I2sAssumption, SMT DEF Pages, None

\* The next page is one further.
LEMMA NextIsPlus ==
  ASSUME NEW p \in Pages
  PROVE  NextPage(p) = Plus(p, 1) /\ NextPage(p) \in Pages
<1>1. 1 \in 0..PageNum
  BY PagesAre, SMT
<1> QED
  BY <1>1, PlusIsMod DEF NextPage

---------------------------------------------------------------------------
(* The inductive invariant.                                                *)

\* k pages from a on.
Run(a, k) == {Plus(a, j) : j \in 0..(k - 1)}

Owned(i) == {p \in Pages : own[i][p]}

\* The ring of object i: c pages whose interrupts are pending lie behind the
\* hardware, k pages it owns before it; all are different.
RingAt(i, k, c) ==
  /\ k + c <= PageNum
  /\ I2STxIdx[i] = Plus(hw[i], k) /\ Owned(i) = Run(hw[i], k)
  /\ hw[i] = Plus(I2SHWTxIdx[i], c) /\ irq[i] = Run(I2SHWTxIdx[i], c)

RingInv == \A i \in Objs : open[i] => \E k, c \in 0..PageNum : RingAt(i, k, c)

\* The page being filled is the next one of the driver, and free.
BuffInv ==
  \A i \in Objs : open[i] /\ currDMABuff[i] # None =>
    currDMABuff[i] = I2STxIdx[i] /\ currDMABuff[i] \notin Owned(i)

Pushing == {"page", "take", "write", "send"}

PcInv ==
  /\ pc \in Pushing => open[0] /\ open[1]
  /\ pc = "init" /\ obj = 1 => open[0] /\ currDMABuff[0] = None
  /\ pc = "write" => currDMABuff[obj] # None
  /\ pc = "send" => obj = 0 /\ currDMABuff[0] # None /\ currDMABuff[1] # None
  /\ pc \in {"page", "take", "write"} /\ obj = 1 => currDMABuff[0] # None

\* A page is full only from its last sample to the critical section.
PosInv ==
  \A i \in Objs : pc \in Pushing /\ currDMABuff[i] # None =>
    currDMABuffPos[i] < PageSize \/ pc = "send" \/ (obj = 1 /\ i = 0)

HistInv == pushed \in [Objs -> 0..(Turn - 1)] /\ played \in [Objs -> 0..(Turn - 1)]
           /\ last \in [Objs -> 0..(Turn - 1)]

\* A closed object raises no interrupt.
QuietInv == \A i \in Objs : ~ open[i] => irq[i] = {}

IInv == TypeOK /\ HistInv /\ PcInv /\ PosInv /\ BuffInv /\ RingInv /\ QuietInv

---------------------------------------------------------------------------
(* Lemmas about runs of pages.                                             *)

\* A run of no pages is empty.
LEMMA RunEmpty ==
  ASSUME NEW a \in Pages
  PROVE  Run(a, 0) = {} /\ Plus(a, 0) = a
  BY PagesAre, SMT DEF Run, Plus

\* A run shorter than the ring ends before the page after it.
LEMMA RunLast ==
  ASSUME NEW a \in Pages, NEW k \in 0..(PageNum - 1)
  PROVE  /\ Plus(a, k) \in Pages /\ Plus(a, k) \notin Run(a, k)
         /\ Run(a, k + 1) = Run(a, k) \cup {Plus(a, k)}
         /\ Plus(a, k + 1) = Plus(Plus(a, k), 1)
<1>1. Plus(a, k) \in Pages /\ Plus(a, k + 1) = Plus(Plus(a, k), 1)
  BY PagesAre, SMT DEF Plus
<1>2. Plus(a, k) \notin Run(a, k)
  BY PagesAre, SMT DEF Run, Plus
<1>3. Run(a, k + 1) = Run(a, k) \cup {Plus(a, k)}
  <2>1. 0..((k + 1) - 1) = (0..(k - 1)) \cup {k}
    BY PagesAre, SMT
  <2> QED
    BY <2>1, Zenon DEF Run
<1> QED
  BY <1>1, <1>2, <1>3

\* A run that is not empty is its first page and the run after it.
LEMMA RunFirst ==
  ASSUME NEW a \in Pages, NEW k \in 1..PageNum
  PROVE  /\ a \in Run(a, k) /\ Plus(a, 1) \in Pages
         /\ Run(Plus(a, 1), k - 1) = Run(a, k) \ {a}
         /\ Plus(Plus(a, 1), k - 1) = Plus(a, k)
<1>1. Plus(a, 1) \in Pages /\ Plus(Plus(a, 1), k - 1) = Plus(a, k)
  BY PagesAre, SMT DEF Plus
<1>2. Plus(a, 0) = a /\ 0 \in 0..(k - 1)
  BY PagesAre, SMT DEF Plus
<1>3. \A j \in 0..(k - 2) : Plus(Plus(a, 1), j) = Plus(a, j + 1) /\ Plus(a, j + 1) # a
  BY PagesAre, SMT DEF Plus
<1>4. ASSUME NEW p \in Run(Plus(a, 1), k - 1) PROVE p \in Run(a, k) \ {a}
  <2>1. PICK j \in 0..((k - 1) - 1) : p = Plus(Plus(a, 1), j)
    BY <1>4 DEF Run
  <2>2. j \in 0..(k - 2) /\ j + 1 \in 0..(k - 1)
    BY <2>1, PagesAre, SMT
  <2> QED
    BY <1>3, <2>1, <2>2 DEF Run
<1>5. ASSUME NEW p \in Run(a, k) \ {a} PROVE p \in Run(Plus(a, 1), k - 1)
  <2>1. PICK j \in 0..(k - 1) : p = Plus(a, j)
    BY <1>5 DEF Run
  <2>2. j # 0
    BY <1>2, <1>5, <2>1
  <2>3. j - 1 \in 0..((k - 1) - 1) /\ j - 1 \in 0..(k - 2) /\ (j - 1) + 1 = j
    BY <2>1, <2>2, PagesAre, SMT
  <2>4. p = Plus(Plus(a, 1), j - 1)
    BY <1>3, <2>1, <2>3
  <2> QED
    BY <2>3, <2>4 DEF Run
<1> QED
  BY <1>1, <1>2, <1>4, <1>5, Zenon DEF Run


---------------------------------------------------------------------------
(* Every step keeps the invariant.                                         *)

\* Nothing is initialised yet.
LEMMA InitInv == Init => IInv
<1> SUFFICES ASSUME Init PROVE IInv
  OBVIOUS
<1>1. 0 \in Pages /\ 0 \in 0..(Turn - 1) /\ 0 \in 0..PageSize /\ 0 \in 0..MaxSema
  BY I2sAssumption, SMT DEF Pages, Turn
<1>2. TypeOK /\ HistInv
  BY <1>1 DEF Init, TypeOK, HistInv, Objs
<1>3. PcInv /\ PosInv /\ BuffInv /\ RingInv /\ QuietInv
  BY DEF Init, PcInv, PosInv, BuffInv, RingInv, QuietInv, Pushing
<1> QED
  BY <1>2, <1>3 DEF IInv

\* i2sInit sets driver, handler and hardware to page 0.
LEMMA InitObjInv == IInv /\ InitObj => IInv'
<1> SUFFICES ASSUME IInv, InitObj PROVE IInv'
  OBVIOUS
<1>0. 0 \in Pages /\ 0 \in 0..(Turn - 1) /\ 0 \in 0..PageSize /\ 1 \in 0..MaxSema
      /\ obj \in Objs /\ 0 \in 0..PageNum
  BY I2sAssumption, SMT DEF Pages, Turn, IInv, TypeOK
<1>1. TypeOK'
  BY <1>0 DEF IInv, TypeOK, InitObj, Objs
<1>2. HistInv'
  BY <1>0 DEF IInv, HistInv, InitObj, Objs
<1>3. PcInv'
  BY <1>0 DEF IInv, TypeOK, PcInv, InitObj, Pushing, Objs
<1>4. PosInv'
  BY <1>0 DEF IInv, TypeOK, PcInv, PosInv, InitObj, Pushing, Objs
<1>5. BuffInv'
  BY <1>0 DEF IInv, TypeOK, BuffInv, InitObj, Owned, Objs
<1>6. RingInv'
  <2> SUFFICES ASSUME NEW i \in Objs, open'[i]
               PROVE  \E k, c \in 0..PageNum : RingAt(i, k, c)'
    BY DEF RingInv
  <2>1. CASE i = obj
    <3>1. /\ I2STxIdx'[i] = 0 /\ hw'[i] = 0 /\ I2SHWTxIdx'[i] = 0 /\ irq'[i] = {}
          /\ Owned(i)' = {}
      BY <2>1 DEF IInv, TypeOK, InitObj, Owned
    <3>2. RingAt(i, 0, 0)'
      BY <1>0, <3>1, RunEmpty, PagesAre DEF RingAt
    <3> QED
      BY <1>0, <3>2
  <2>2. CASE i # obj
    <3>1. /\ I2STxIdx'[i] = I2STxIdx[i] /\ hw'[i] = hw[i] /\ I2SHWTxIdx'[i] = I2SHWTxIdx[i]
          /\ irq'[i] = irq[i] /\ open[i] /\ Owned(i)' = Owned(i)
      BY <2>2 DEF IInv, TypeOK, InitObj, Owned
    <3> QED
      BY <3>1 DEF IInv, RingInv, RingAt
  <2> QED
    BY <2>1, <2>2
<1>7. QuietInv'
  BY DEF IInv, TypeOK, QuietInv, InitObj
<1> QED
  BY <1>1, <1>2, <1>3, <1>4, <1>5, <1>6, <1>7 DEF IInv

\* i2sClose leaves no page and no interrupt of the object.
LEMMA CloseObjInv == IInv /\ CloseObj => IInv'
<1> SUFFICES ASSUME IInv, CloseObj PROVE IInv'
  OBVIOUS
<1>1. TypeOK'
  BY DEF IInv, TypeOK, CloseObj, Objs, buf
<1>2. HistInv'
  BY DEF IInv, HistInv, CloseObj, buf
<1>3. PcInv' /\ PosInv'
  BY DEF IInv, TypeOK, PcInv, PosInv, CloseObj, Pushing, Objs
<1>4. \A i \in Objs : open'[i] =>
        /\ open[i] /\ Owned(i)' = Owned(i) /\ irq'[i] = irq[i]
        /\ UNCHANGED <<I2STxIdx, hw, I2SHWTxIdx, currDMABuff>>
  BY DEF IInv, TypeOK, CloseObj, Owned, buf
<1>5. BuffInv' /\ RingInv'
  BY <1>4 DEF IInv, BuffInv, RingInv, RingAt
<1>6. QuietInv'
  BY DEF IInv, TypeOK, QuietInv, CloseObj
<1> QED
  BY <1>1, <1>2, <1>3, <1>5, <1>6 DEF IInv

\* Steps of the task that do not touch the ring.
LEMMA RingKept ==
  ASSUME RingInv, QuietInv, UNCHANGED <<open, own, irq, hw, I2STxIdx, I2SHWTxIdx>>
  PROVE  RingInv' /\ QuietInv'
  BY DEF RingInv, RingAt, Owned, QuietInv

\* Failing or closing as a whole touches no ring.
LEMMA StopInv == IInv /\ (InitFail \/ Close) => IInv'
<1> SUFFICES ASSUME IInv, InitFail \/ Close PROVE IInv'
  OBVIOUS
<1>1. /\ UNCHANGED <<open, hard, buf, I2STxIdx, I2SHWTxIdx, I2sTxSema>>
      /\ pc' = "close" /\ obj' = 0
  BY DEF InitFail, Close
<1>2. TypeOK' /\ HistInv'
  BY <1>1 DEF IInv, TypeOK, HistInv, hard, buf, Objs
<1>3. PcInv' /\ PosInv'
  BY <1>1 DEF PcInv, PosInv, Pushing
<1>4. BuffInv'
  BY <1>1 DEF IInv, BuffInv, Owned, hard, buf
<1>5. RingInv' /\ QuietInv'
  BY <1>1, RingKept DEF IInv, hard
<1> QED
  BY <1>2, <1>3, <1>4, <1>5 DEF IInv

\* A page is taken when its own bit says the CPU owns it.
LEMMA GetPageInv == IInv /\ GetPage => IInv'
<1> SUFFICES ASSUME IInv, GetPage PROVE IInv'
  OBVIOUS
<1>1. TypeOK' /\ HistInv'
  <2>1. 0 \in 0..PageSize /\ I2STxIdx[obj] \in Pages
    BY I2sAssumption, SMT DEF IInv, TypeOK
  <2>2. currDMABuffPos' \in [Objs -> 0..PageSize] /\ pc' \in {"write", "take"}
    BY <2>1 DEF IInv, TypeOK, GetPage
  <2>3. currDMABuff' \in [Objs -> Pages \cup {None}]
    BY <2>1 DEF IInv, TypeOK, GetPage
  <2> QED
    BY <2>2, <2>3 DEF IInv, TypeOK, HistInv, GetPage, hard
<1>2. PcInv'
  BY PagesAre DEF IInv, TypeOK, PcInv, GetPage, Pushing, Objs
<1>3. PosInv'
  BY I2sAssumption DEF IInv, TypeOK, PcInv, PosInv, GetPage, Pushing, Objs
<1>4. BuffInv'
  BY DEF IInv, TypeOK, BuffInv, GetPage, Owned, hard
<1>5. RingInv' /\ QuietInv'
  BY RingKept DEF IInv, GetPage, hard
<1> QED
  BY <1>1, <1>2, <1>3, <1>4, <1>5 DEF IInv

\* Taking the semaphore touches no ring.
LEMMA TakeInv == IInv /\ Take => IInv'
<1> SUFFICES ASSUME IInv, Take PROVE IInv'
  OBVIOUS
<1>1. TypeOK' /\ HistInv'
  BY I2sAssumption DEF IInv, TypeOK, HistInv, Take, hard, buf
<1>2. PcInv' /\ PosInv'
  BY DEF IInv, PcInv, PosInv, Take, Pushing, buf
<1>3. BuffInv'
  BY DEF IInv, BuffInv, Take, Owned, hard, buf
<1>4. RingInv' /\ QuietInv'
  BY RingKept DEF IInv, Take, hard
<1> QED
  BY <1>1, <1>2, <1>3, <1>4 DEF IInv

\* The remainder of a number within the page.
LEMMA ModTurn ==
  ASSUME NEW x \in Nat
  PROVE  x % Turn \in 0..(Turn - 1)
  BY I2sAssumption, SMT DEF Turn

\* A sample goes to the page being filled.
LEMMA PutSampleInv == IInv /\ PutSample => IInv'
<1> SUFFICES ASSUME IInv, PutSample PROVE IInv'
  OBVIOUS
<1>1. /\ pc = "write" /\ obj \in {0, 1} /\ currDMABuff[obj] \in Pages
      /\ currDMABuffPos[obj] \in 0..(PageSize - 1)
  BY I2sAssumption DEF IInv, TypeOK, PcInv, PosInv, PutSample, Objs, Pushing
<1>2. currDMABuffPos' = [currDMABuffPos EXCEPT ![obj] = @ + 1]
      /\ currDMABuffPos[obj] + 1 \in 0..PageSize
  BY <1>1, I2sAssumption DEF PutSample
<1> DEFINE new == IF currDMABuffPos[obj] = 0 THEN (pushed[obj] + 1) % Turn ELSE pushed[obj]
<1>3. new \in 0..(Turn - 1)
  <2>1. pushed[obj] \in 0..(Turn - 1) /\ pushed[obj] + 1 \in Nat
    BY I2sAssumption DEF IInv, TypeOK, HistInv, Turn
  <2> QED
    BY <2>1, ModTurn
<1>4. pushed' = [pushed EXCEPT ![obj] = new]
      /\ page' = [page EXCEPT ![obj] = [@ EXCEPT ![currDMABuff[obj]] = new]]
  BY DEF PutSample
<1> HIDE DEF new
<1>5. pushed' \in [Objs -> 0..(Turn - 1)] /\ page' \in [Objs -> [Pages -> 0..(Turn - 1)]]
  BY <1>1, <1>3, <1>4 DEF IInv, TypeOK, HistInv, Objs
<1>6. TypeOK' /\ HistInv'
  BY <1>1, <1>2, <1>5 DEF IInv, TypeOK, HistInv, PutSample, hard, Objs
<1>7. PcInv'
  BY <1>1 DEF IInv, PcInv, PutSample, Pushing
<1>8. PosInv'
  BY <1>1, <1>2 DEF IInv, TypeOK, PosInv, PutSample, Pushing, Objs
<1>9. BuffInv'
  BY DEF IInv, BuffInv, PutSample, Owned, hard
<1>10. RingInv' /\ QuietInv'
  BY RingKept DEF IInv, PutSample, hard
<1> QED
  BY <1>6, <1>7, <1>8, <1>9, <1>10 DEF IInv

\* A page sent lengthens the run of the hardware at its end.
LEMMA SendPageInv == IInv /\ SendPage => IInv'
<1> SUFFICES ASSUME IInv, SendPage PROVE IInv'
  OBVIOUS
<1>1. /\ pc = "send" /\ open[0] /\ open[1] /\ obj = 0
      /\ \A i \in Objs : open[i] /\ irq[i] = {} /\ currDMABuff[i] \in Pages
                       /\ currDMABuff[i] = I2STxIdx[i] /\ currDMABuff[i] \notin Owned(i)
  BY DEF IInv, TypeOK, PcInv, BuffInv, SendPage, Running, Pushing, Objs
<1>2. TypeOK' /\ HistInv'
  BY <1>1, NextIsPlus DEF IInv, TypeOK, HistInv, SendPage
<1>3. PcInv'
  BY <1>1 DEF PcInv, SendPage, Pushing
<1>4. PosInv'
  BY I2sAssumption DEF IInv, TypeOK, PosInv, SendPage, Full
<1>5. ASSUME NEW i \in Objs, ~ Full(i)
      PROVE  Owned(i)' = Owned(i) /\ I2STxIdx'[i] = I2STxIdx[i] /\ currDMABuff'[i] = currDMABuff[i]
  BY <1>5 DEF IInv, TypeOK, SendPage, Owned
<1>6. ASSUME NEW i \in Objs, Full(i)
      PROVE  Owned(i)' = Owned(i) \cup {I2STxIdx[i]} /\ I2STxIdx'[i] = NextPage(I2STxIdx[i])
             /\ currDMABuff'[i] = None
  BY <1>1, <1>6 DEF IInv, TypeOK, SendPage, Owned
<1>7. BuffInv'
  BY <1>1, <1>5, <1>6 DEF BuffInv, SendPage
<1>8. ASSUME NEW i \in Objs
      PROVE  \E k, c \in 0..PageNum : RingAt(i, k, c)'
  <2>1. PICK k \in 0..PageNum, c \in 0..PageNum : RingAt(i, k, c)
    BY <1>1 DEF IInv, RingInv
  <2>2. UNCHANGED <<hw, irq, I2SHWTxIdx>>
    BY DEF SendPage
  <2>3. CASE ~ Full(i)
    BY <1>5, <2>1, <2>2, <2>3 DEF RingAt
  <2>4. CASE Full(i)
    <3>1. hw[i] \in Pages /\ I2SHWTxIdx[i] \in Pages
      BY DEF IInv, TypeOK
    <3>2. c = 0
      <4>1. irq[i] = {} /\ irq[i] = Run(I2SHWTxIdx[i], c)
        BY <1>1, <2>1 DEF RingAt
      <4>2. c \in 1..PageNum => I2SHWTxIdx[i] \in Run(I2SHWTxIdx[i], c)
        BY <3>1, RunFirst
      <4> QED
        BY <4>1, <4>2, PagesAre, SMT
    <3>3. k # PageNum
      <4>1. I2STxIdx[i] = Plus(hw[i], k) /\ I2STxIdx[i] \notin Run(hw[i], k)
        BY <1>1, <2>1 DEF RingAt
      <4>2. PageNum \in 1..PageNum /\ Plus(hw[i], PageNum) = hw[i]
        BY <3>1, PagesAre, SMT DEF Plus
      <4>3. hw[i] \in Run(hw[i], PageNum)
        BY <3>1, <4>2, RunFirst
      <4> QED
        BY <4>1, <4>2, <4>3
    <3>4. k \in 0..(PageNum - 1) /\ k + 1 \in 0..PageNum /\ (k + 1) + c <= PageNum
      BY <3>2, <3>3, PagesAre, SMT
    <3>5. Owned(i)' = Run(hw[i], k + 1) /\ I2STxIdx'[i] = Plus(hw[i], k + 1)
      <4>1. /\ Plus(hw[i], k) \in Pages
            /\ Run(hw[i], k + 1) = Run(hw[i], k) \cup {Plus(hw[i], k)}
            /\ Plus(hw[i], k + 1) = Plus(Plus(hw[i], k), 1)
        BY <3>1, <3>4, RunLast
      <4>2. Owned(i) = Run(hw[i], k) /\ I2STxIdx[i] = Plus(hw[i], k)
        BY <2>1 DEF RingAt
      <4>3. NextPage(I2STxIdx[i]) = Plus(Plus(hw[i], k), 1)
        BY <4>1, <4>2, NextIsPlus
      <4> QED
        BY <1>6, <2>4, <4>1, <4>2, <4>3
    <3>6. RingAt(i, k + 1, c)'
      BY <2>1, <2>2, <3>4, <3>5 DEF RingAt
    <3> QED
      BY <3>4, <3>6
  <2> QED
    BY <2>3, <2>4
<1>9. RingInv' /\ QuietInv'
  BY <1>1, <1>8 DEF RingInv, QuietInv, SendPage
<1> QED
  BY <1>2, <1>3, <1>4, <1>7, <1>9 DEF IInv

\* A page played shortens the run at its beginning.
LEMMA PlayInv ==
  ASSUME IInv, NEW i \in Objs, Play(i)
  PROVE  IInv'
<1>1. open[i] /\ hw[i] \in Pages /\ hw[i] \in Owned(i) /\ I2SHWTxIdx[i] \in Pages
  BY DEF IInv, TypeOK, Play, Owned
<1>2. /\ Owned(i)' = Owned(i) \ {hw[i]} /\ irq'[i] = irq[i] \cup {hw[i]}
      /\ hw'[i] = Plus(hw[i], 1) /\ hw'[i] \in Pages
  BY <1>1, NextIsPlus DEF IInv, TypeOK, Play, Owned
<1>3. ASSUME NEW j \in Objs, j # i
      PROVE  Owned(j)' = Owned(j) /\ irq'[j] = irq[j] /\ hw'[j] = hw[j]
  BY <1>3 DEF IInv, TypeOK, Play, Owned
<1>4. TypeOK'
  BY <1>1, NextIsPlus DEF IInv, TypeOK, Play, buf
<1>5. HistInv'
  <2>1. played[i] + 1 \in Nat /\ page[i][hw[i]] \in 0..(Turn - 1)
    BY <1>1, I2sAssumption DEF IInv, TypeOK, HistInv, Turn
  <2>2. (played[i] + 1) % Turn \in 0..(Turn - 1)
    BY <2>1, ModTurn
  <2>3. last' = [last EXCEPT ![i] = page[i][hw[i]]]
        /\ played' = [played EXCEPT ![i] = (played[i] + 1) % Turn]
        /\ UNCHANGED pushed
    BY DEF Play, buf
  <2> QED
    BY <2>1, <2>2, <2>3 DEF IInv, HistInv
<1>6. PcInv' /\ PosInv'
  BY DEF IInv, PcInv, PosInv, Play, buf
<1>7. BuffInv'
  BY <1>2, <1>3 DEF IInv, BuffInv, Play, buf
<1>8. QuietInv'
  BY <1>1, <1>3 DEF IInv, QuietInv, Play
<1>9. \E k, c \in 0..PageNum : RingAt(i, k, c)'
  <2>1. PICK k \in 0..PageNum, c \in 0..PageNum : RingAt(i, k, c)
    BY <1>1 DEF IInv, RingInv
  <2>2. k # 0
    BY <1>1, <2>1, RunEmpty DEF RingAt
  <2>3. /\ k \in 1..PageNum /\ k - 1 \in 0..PageNum
        /\ c \in 0..(PageNum - 1) /\ c + 1 \in 0..PageNum /\ (k - 1) + (c + 1) <= PageNum
    BY <2>1, <2>2, PagesAre, SMT DEF RingAt
  <2>4. /\ Run(Plus(hw[i], 1), k - 1) = Run(hw[i], k) \ {hw[i]}
        /\ Plus(Plus(hw[i], 1), k - 1) = Plus(hw[i], k)
    BY <1>1, <2>3, RunFirst
  <2>5. /\ Run(I2SHWTxIdx[i], c + 1) = Run(I2SHWTxIdx[i], c) \cup {Plus(I2SHWTxIdx[i], c)}
        /\ Plus(I2SHWTxIdx[i], c + 1) = Plus(Plus(I2SHWTxIdx[i], c), 1)
    BY <1>1, <2>3, RunLast
  <2>6. /\ I2STxIdx[i] = Plus(hw[i], k) /\ Owned(i) = Run(hw[i], k)
        /\ hw[i] = Plus(I2SHWTxIdx[i], c) /\ irq[i] = Run(I2SHWTxIdx[i], c)
        /\ UNCHANGED <<I2STxIdx, I2SHWTxIdx>>
    BY <2>1 DEF RingAt, Play
  <2>7. /\ I2STxIdx'[i] = Plus(hw'[i], k - 1) /\ Owned(i)' = Run(hw'[i], k - 1)
        /\ hw'[i] = Plus(I2SHWTxIdx'[i], c + 1) /\ irq'[i] = Run(I2SHWTxIdx'[i], c + 1)
    BY <1>2, <2>4, <2>5, <2>6
  <2>8. RingAt(i, k - 1, c + 1)'
    BY <2>3, <2>7 DEF RingAt
  <2> QED
    BY <2>3, <2>8
<1>10. ASSUME NEW j \in Objs, open'[j], j # i
       PROVE  \E k, c \in 0..PageNum : RingAt(j, k, c)'
  <2>1. open[j] /\ UNCHANGED <<I2STxIdx, I2SHWTxIdx>>
    BY <1>10 DEF Play
  <2>2. PICK k \in 0..PageNum, c \in 0..PageNum : RingAt(j, k, c)
    BY <2>1 DEF IInv, RingInv
  <2>3. RingAt(j, k, c)'
    BY <1>3, <1>10, <2>1, <2>2 DEF RingAt
  <2> QED
    BY <2>3
<1>11. RingInv'
  BY <1>9, <1>10 DEF RingInv
<1> QED
  BY <1>4, <1>5, <1>6, <1>7, <1>8, <1>11 DEF IInv

\* The handler serves exactly the pages whose interrupts are pending.
LEMMA ServesAll ==
  ASSUME TypeOK, NEW i \in Objs, NEW k \in 0..PageNum, NEW c \in 0..PageNum, RingAt(i, k, c)
  PROVE  Served(i) = c
<1> DEFINE a == I2SHWTxIdx[i]
           Follows(n) == /\ \A j \in 0..(n - 1) : (a + j) % PageNum \in irq[i]
                         /\ n < PageNum => (a + n) % PageNum \notin irq[i]
<1>1. a \in Pages /\ irq[i] = Run(a, c)
  BY DEF TypeOK, RingAt
<1>2. \A j \in 0..PageNum : (a + j) % PageNum = Plus(a, j)
  BY <1>1, PlusIsMod
<1>3. c < PageNum => Plus(a, c) \notin Run(a, c)
  <2>1. c < PageNum => c \in 0..(PageNum - 1)
    BY PagesAre, SMT
  <2> QED
    BY <1>1, <2>1, RunLast
<1>4. Follows(c)
  <2>1. ASSUME NEW j \in 0..(c - 1) PROVE (a + j) % PageNum \in irq[i]
    <3>1. j \in 0..PageNum
      BY PagesAre, SMT
    <3> QED
      BY <1>1, <1>2, <3>1 DEF Run
  <2> QED
    BY <1>1, <1>2, <1>3, <2>1
<1>5. ASSUME NEW n \in 0..PageNum, Follows(n) PROVE n = c
  <2>1. CASE n < c
    <3>1. n < PageNum /\ n \in 0..(c - 1)
      BY <2>1, PagesAre, SMT
    <3>2. Plus(a, n) \in irq[i]
      BY <1>1, <3>1 DEF Run
    <3> QED
      BY <1>2, <1>5, <3>1, <3>2
  <2>2. CASE n > c
    <3>1. c < PageNum /\ c \in 0..(n - 1)
      BY <2>2, PagesAre, SMT
    <3> QED
      BY <1>1, <1>2, <1>3, <1>5, <3>1
  <2> QED
    BY <2>1, <2>2, PagesAre, SMT
<1>6. Served(i) = CHOOSE n \in 0..PageNum : Follows(n)
  BY DEF Served
<1> HIDE DEF Follows
<1> QED
  BY <1>4, <1>5, <1>6, Zenon

\* The handler goes on by the interrupts it serves.
LEMMA HandleInv ==
  ASSUME IInv, NEW i \in Objs, I2SISRHandle(i)
  PROVE  IInv'
<1>1. irq[i] # {} /\ open[i] /\ I2SHWTxIdx[i] \in Pages
  BY DEF IInv, TypeOK, QuietInv, I2SISRHandle
<1>2. PICK k \in 0..PageNum, c \in 0..PageNum : RingAt(i, k, c)
  BY <1>1 DEF IInv, RingInv
<1>3. Served(i) = c
  BY <1>2, ServesAll DEF IInv
<1>4. (I2SHWTxIdx[i] + c) % PageNum = hw[i] /\ hw[i] \in Pages
  BY <1>1, <1>2, PlusIsMod DEF RingAt
<1>5. /\ I2SHWTxIdx' = [I2SHWTxIdx EXCEPT ![i] = hw[i]]
      /\ irq' = [irq EXCEPT ![i] = {}]
      /\ UNCHANGED <<open, own, hw, played, last, buf, I2STxIdx, pc, obj>>
  BY <1>3, <1>4 DEF I2SISRHandle
<1>6. I2sTxSema' \in 0..MaxSema
  BY <1>3, I2sAssumption, SMT DEF I2SISRHandle, AtMost, IInv, TypeOK
<1>7. TypeOK' /\ HistInv'
  BY <1>4, <1>5, <1>6 DEF IInv, TypeOK, HistInv, buf
<1>8. PcInv' /\ PosInv' /\ QuietInv'
  BY <1>5 DEF IInv, TypeOK, PcInv, PosInv, QuietInv, buf
<1>9. BuffInv'
  BY <1>5 DEF IInv, BuffInv, Owned, buf
<1>10. RingInv'
  <2>1. \A j \in Objs : Owned(j)' = Owned(j)
    BY <1>5 DEF Owned
  <2>2. RingAt(i, k, 0)' /\ 0 \in 0..PageNum
    <3>1. I2SHWTxIdx'[i] = hw[i] /\ irq'[i] = {} /\ hw'[i] = hw[i]
      BY <1>5 DEF IInv, TypeOK
    <3>2. k + 0 <= PageNum /\ 0 \in 0..PageNum
      BY PagesAre, SMT
    <3> QED
      BY <1>2, <1>4, <1>5, <2>1, <3>1, <3>2, RunEmpty DEF RingAt
  <2>3. ASSUME NEW j \in Objs, open'[j], j # i
        PROVE  \E m, d \in 0..PageNum : RingAt(j, m, d)'
    <3>1. PICK m \in 0..PageNum, d \in 0..PageNum : RingAt(j, m, d)
      BY <1>5, <2>3 DEF IInv, RingInv
    <3>2. I2SHWTxIdx'[j] = I2SHWTxIdx[j] /\ irq'[j] = irq[j]
      BY <1>5, <2>3 DEF IInv, TypeOK
    <3> QED
      BY <1>5, <2>1, <3>1, <3>2 DEF RingAt
  <2> QED
    BY <2>2, <2>3 DEF RingInv
<1> QED
  BY <1>7, <1>8, <1>9, <1>10 DEF IInv

---------------------------------------------------------------------------

\* The inductive invariant holds in every state.
THEOREM Invariance == Spec => []IInv
<1>1. IInv /\ UNCHANGED vars => IInv'
  BY RingKept DEF IInv, TypeOK, HistInv, PcInv, PosInv, BuffInv, Owned, vars, hard, buf, bound
<1>2. IInv /\ [Next]_vars => IInv'
  BY <1>1, InitObjInv, CloseObjInv, StopInv, GetPageInv, TakeInv, PutSampleInv, SendPageInv,
     PlayInv, HandleInv DEF Next, Task
<1> QED
  BY <1>2, InitInv, PTL DEF Spec

\* Indices stay in the ring, positions in the page.
THEOREM TypeCorrect == Spec => []TypeOK
  BY Invariance, PTL DEF IInv

\* The decoder never writes to a page the hardware is playing.
THEOREM PagesExclusive == Spec => []PageExclusive
<1>1. IInv => PageExclusive
  BY DEF IInv, TypeOK, PcInv, BuffInv, PageExclusive, Owned, Pushing, Objs
<1> QED
  BY <1>1, Invariance, PTL

\* What the hardware owns is the stretch of the ring up to the driver's index.
THEOREM RingInTurn == Spec => []OwnedInTurn
<1>1. ASSUME IInv PROVE OwnedInTurn
  <2> SUFFICES ASSUME NEW i \in Objs, open[i]
               PROVE  \E k \in 0..PageNum :
                        /\ (hw[i] + k) % PageNum = I2STxIdx[i]
                        /\ \A p \in Pages :
                             own[i][p] <=> \E j \in 0..(k - 1) : p = (hw[i] + j) % PageNum
    BY DEF OwnedInTurn
  <2>1. PICK k \in 0..PageNum, c \in 0..PageNum : RingAt(i, k, c)
    BY <1>1 DEF IInv, RingInv
  <2>2. hw[i] \in Pages
    BY <1>1 DEF IInv, TypeOK
  <2>3. \A j \in 0..PageNum : (hw[i] + j) % PageNum = Plus(hw[i], j)
    BY <2>2, PlusIsMod
  <2>4. \A j \in 0..(k - 1) : (hw[i] + j) % PageNum = Plus(hw[i], j)
    <3>1. \A j \in 0..(k - 1) : j \in 0..PageNum
      BY PagesAre, SMT
    <3> QED
      BY <2>3, <3>1
  <2>5. (hw[i] + k) % PageNum = I2STxIdx[i]
    BY <2>1, <2>3 DEF RingAt
  <2>6. ASSUME NEW p \in Pages
        PROVE  own[i][p] <=> \E j \in 0..(k - 1) : p = (hw[i] + j) % PageNum
    <3>1. own[i][p] <=> p \in Owned(i)
      BY DEF Owned
    <3>2. p \in Owned(i) <=> \E j \in 0..(k - 1) : p = Plus(hw[i], j)
      BY <2>1 DEF RingAt, Run
    <3> QED
      BY <2>4, <3>1, <3>2, Zenon
  <2> QED
    BY <2>5, <2>6
<1> QED
  BY <1>1, Invariance, PTL

\* The interrupt handler never loses count of the pages.
THEOREM HandlerKeepsUp == Spec => []HandlerInStep
<1>1. ASSUME IInv PROVE HandlerInStep
  <2> SUFFICES ASSUME NEW i \in Objs, open[i], irq[i] = {} PROVE I2SHWTxIdx[i] = hw[i]
    BY DEF HandlerInStep
  <2>1. PICK k \in 0..PageNum, c \in 0..PageNum : RingAt(i, k, c)
    BY <1>1 DEF IInv, RingInv
  <2>2. I2SHWTxIdx[i] \in Pages /\ Run(I2SHWTxIdx[i], c) = {}
    BY <1>1, <2>1 DEF IInv, TypeOK, RingAt
  <2>3. c \in 1..PageNum => I2SHWTxIdx[i] \in Run(I2SHWTxIdx[i], c)
    BY <2>2, RunFirst
  <2>4. c = 0
    BY <2>2, <2>3, PagesAre, SMT
  <2> QED
    BY <2>1, <2>2, <2>4, RunEmpty DEF RingAt
<1> QED
  BY <1>1, Invariance, PTL

---------------------------------------------------------------------------
(* The order of the blocks.                                                *)

\* Whether the page being filled has a sample, and so counts as a block begun.
Begun(i) == IF currDMABuff[i] # None /\ currDMABuffPos[i] > 0 THEN 1 ELSE 0

\* k owned pages hold the k blocks after the last one played, and the block
\* being filled is the one after them.
OrderAt(i, k) ==
  /\ \A j \in 0..(k - 1) : page[i][Plus(hw[i], j)] = (played[i] + (j + 1)) % Turn
  /\ pushed[i] = (played[i] + (k + Begun(i))) % Turn
  /\ Begun(i) = 1 => page[i][currDMABuff[i]] = pushed[i]

OrderInv ==
  /\ PlayedInOrder
  /\ \A i \in Objs : open[i] =>
       \A k \in 0..PageNum : Owned(i) = Run(hw[i], k) => OrderAt(i, k)

\* Block numbers wrap once in the numbers a ring can hold.
LEMMA TurnAdds ==
  ASSUME NEW x \in 0..(Turn - 1), NEW n \in 0..(PageNum + 1)
  PROVE  /\ (x + n) % Turn = IF x + n < Turn THEN x + n ELSE x + n - Turn
         /\ (x + n) % Turn \in 0..(Turn - 1)
<1>1. /\ PageNum \in {2, 3, 4} /\ Skew \in {1, 2, 3} /\ Skew < PageNum
      /\ Turn = 2 * PageNum + 2 * Skew
  BY I2sAssumption, SMT DEF Turn
<1>2. Turn \in {6, 8, 10, 12, 14} /\ PageNum + 1 < Turn
  BY <1>1, SMT
<1>3. x \in Int /\ n \in Int /\ 0 <= x /\ x < Turn /\ 0 <= n /\ n < Turn
  BY <1>1, <1>2, SMT
<1>4. CASE Turn = 6
  BY <1>3, <1>4, SMT
<1>5. CASE Turn = 8
  BY <1>3, <1>5, SMT
<1>6. CASE Turn = 10
  BY <1>3, <1>6, SMT
<1>7. CASE Turn = 12
  BY <1>3, <1>7, SMT
<1>8. CASE Turn = 14
  BY <1>3, <1>8, SMT
<1> QED
  BY <1>2, <1>4, <1>5, <1>6, <1>7, <1>8

\* One block more is played: the others are one block nearer.
LEMMA TurnMoves ==
  ASSUME NEW x \in 0..(Turn - 1), NEW n \in 0..PageNum
  PROVE  /\ (((x + 1) % Turn) + n) % Turn = (x + (n + 1)) % Turn
         /\ (((x + n) % Turn) + 1) % Turn = (x + (n + 1)) % Turn
         /\ (x + 1) % Turn \in 0..(Turn - 1)
<1>1. Turn \in Int /\ Turn > PageNum + 1 /\ 1 \in 0..(PageNum + 1)
      /\ n \in 0..(PageNum + 1) /\ n + 1 \in 0..(PageNum + 1)
  BY I2sAssumption, SMT DEF Turn
<1>2. /\ (x + 1) % Turn = IF x + 1 < Turn THEN x + 1 ELSE x + 1 - Turn
      /\ (x + 1) % Turn \in 0..(Turn - 1)
  BY <1>1, TurnAdds
<1>3. /\ (x + n) % Turn = IF x + n < Turn THEN x + n ELSE x + n - Turn
      /\ (x + n) % Turn \in 0..(Turn - 1)
  BY <1>1, TurnAdds
<1>4. (x + (n + 1)) % Turn = IF x + (n + 1) < Turn THEN x + (n + 1) ELSE x + (n + 1) - Turn
  BY <1>1, TurnAdds
<1> DEFINE y == (x + 1) % Turn
           z == (x + n) % Turn
<1>5. (y + n) % Turn = IF y + n < Turn THEN y + n ELSE y + n - Turn
  BY <1>1, <1>2, TurnAdds
<1>6. (z + 1) % Turn = IF z + 1 < Turn THEN z + 1 ELSE z + 1 - Turn
  BY <1>1, <1>3, TurnAdds
<1> HIDE DEF y, z
<1>7. y \in 0..(Turn - 1) /\ y = (IF x + 1 < Turn THEN x + 1 ELSE x + 1 - Turn)
      /\ z \in 0..(Turn - 1) /\ z = (IF x + n < Turn THEN x + n ELSE x + n - Turn)
  BY <1>2, <1>3 DEF y, z
<1>8. (y + n) % Turn = (x + (n + 1)) % Turn
  BY <1>1, <1>4, <1>5, <1>7, PagesAre, SMT
<1>9. (z + 1) % Turn = (x + (n + 1)) % Turn
  BY <1>1, <1>4, <1>6, <1>7, PagesAre, SMT
<1> QED
  BY <1>2, <1>8, <1>9 DEF y, z

\* The length of a run is determined by its pages.
LEMMA RunUnique ==
  ASSUME NEW a \in Pages, NEW k \in 0..PageNum, NEW m \in 0..PageNum, Run(a, k) = Run(a, m)
  PROVE  k = m
<1>1. ASSUME NEW n \in 0..PageNum, NEW l \in 0..PageNum, n < l PROVE Run(a, n) # Run(a, l)
  <2>1. n \in 0..(PageNum - 1) /\ n \in 0..(l - 1)
    BY <1>1, PagesAre, SMT
  <2>2. Plus(a, n) \notin Run(a, n)
    BY <2>1, RunLast
  <2>3. Plus(a, n) \in Run(a, l)
    BY <2>1 DEF Run
  <2> QED
    BY <2>2, <2>3
<1>2. ~ k < m /\ ~ m < k
  BY <1>1
<1> QED
  BY <1>2, PagesAre, SMT

\* A step that leaves the blocks of object i alone keeps their order.
LEMMA OrderKept ==
  ASSUME NEW i \in Objs, NEW k, OrderAt(i, k), Begun(i)' = Begun(i),
         Begun(i) = 1 => currDMABuff'[i] = currDMABuff[i],
         page'[i] = page[i], hw'[i] = hw[i], played'[i] = played[i], pushed'[i] = pushed[i]
  PROVE  OrderAt(i, k)'
  BY DEF OrderAt

\* The order needs only the pages, their owners and what was played.
LEMMA OrderSame ==
  ASSUME OrderInv, UNCHANGED <<open, own, hw, played, last, page, pushed>>,
         \A i \in Objs : open'[i] => Begun(i)' = Begun(i),
         \A i \in Objs : Begun(i) = 1 => currDMABuff'[i] = currDMABuff[i]
  PROVE  OrderInv'
<1>1. PlayedInOrder'
  BY DEF OrderInv, PlayedInOrder
<1>2. ASSUME NEW i \in Objs, open'[i], NEW k \in 0..PageNum, Owned(i)' = Run(hw'[i], k)
      PROVE  OrderAt(i, k)'
  <2>1. open[i] /\ Owned(i) = Run(hw[i], k)
    BY <1>2 DEF Owned
  <2>2. OrderAt(i, k)
    BY <2>1 DEF OrderInv
  <2>3. /\ Begun(i)' = Begun(i) /\ (Begun(i) = 1 => currDMABuff'[i] = currDMABuff[i])
        /\ page'[i] = page[i] /\ hw'[i] = hw[i] /\ played'[i] = played[i] /\ pushed'[i] = pushed[i]
    BY <1>2
  <2> QED
    BY <2>2, <2>3 DEF OrderAt
<1> QED
  BY <1>1, <1>2 DEF OrderInv

\* Nothing is played yet.
LEMMA OrderInit == Init => OrderInv
  BY DEF Init, OrderInv, PlayedInOrder

\* A ring initialised has nothing to play.
LEMMA OrderInitObj ==
  ASSUME IInv, OrderInv, InitObj PROVE OrderInv'
<1>1. PlayedInOrder'
  BY DEF IInv, HistInv, OrderInv, PlayedInOrder, InitObj
<1>2. ASSUME NEW i \in Objs, open'[i], NEW k \in 0..PageNum, Owned(i)' = Run(hw'[i], k)
      PROVE  OrderAt(i, k)'
  <2>1. CASE i = obj
    <3>0. 0 \in Pages /\ 0 \in 0..PageNum
      BY PagesAre, SMT
    <3>1. /\ hw'[i] = 0 /\ Owned(i)' = {}
          /\ pushed'[i] = 0 /\ played'[i] = 0 /\ currDMABuff'[i] = None
      BY <2>1 DEF IInv, TypeOK, HistInv, InitObj, Owned
    <3>2. k = 0
      BY <1>2, <3>0, <3>1, RunEmpty, RunUnique
    <3>3. Begun(i)' = 0
      BY <3>1 DEF Begun
    <3>4. 0 \in 0..(Turn - 1) /\ 0 \in 0..(PageNum + 1) /\ 0..(0 - 1) = {} /\ Turn > 0
      BY I2sAssumption, SMT DEF Turn
    <3>5. (0 + 0) % Turn = 0
      BY <3>4, TurnAdds
    <3> QED
      BY <3>1, <3>2, <3>3, <3>4, <3>5 DEF OrderAt
  <2>2. CASE i # obj
    <3>1. /\ open[i] /\ Owned(i)' = Owned(i) /\ hw'[i] = hw[i] /\ page'[i] = page[i]
          /\ pushed'[i] = pushed[i] /\ played'[i] = played[i]
          /\ currDMABuff'[i] = currDMABuff[i] /\ currDMABuffPos'[i] = currDMABuffPos[i]
      BY <1>2, <2>2 DEF IInv, TypeOK, HistInv, InitObj, Owned
    <3>2. OrderAt(i, k)
      BY <1>2, <3>1 DEF OrderInv
    <3> QED
      BY <3>1, <3>2 DEF OrderAt, Begun
  <2> QED
    BY <2>1, <2>2
<1> QED
  BY <1>1, <1>2 DEF OrderInv

\* A ring closed has nothing to play.
LEMMA OrderCloseObj ==
  ASSUME IInv, OrderInv, CloseObj PROVE OrderInv'
<1>1. PlayedInOrder'
  BY DEF OrderInv, PlayedInOrder, CloseObj
<1>2. ASSUME NEW i \in Objs, open'[i], NEW k \in 0..PageNum, Owned(i)' = Run(hw'[i], k)
      PROVE  OrderAt(i, k)'
  <2>1. open[i] /\ Owned(i)' = Owned(i) /\ UNCHANGED <<hw, played, buf>>
    BY <1>2 DEF IInv, TypeOK, CloseObj, Owned
  <2>2. OrderAt(i, k)
    BY <1>2, <2>1 DEF OrderInv
  <2> QED
    BY <2>1, <2>2 DEF OrderAt, Begun, buf
<1> QED
  BY <1>1, <1>2 DEF OrderInv

\* Taking a page plays nothing.
LEMMA OrderGetPage ==
  ASSUME IInv, OrderInv, GetPage PROVE OrderInv'
<1>1. ASSUME NEW i \in Objs
      PROVE  Begun(i)' = Begun(i) /\ (Begun(i) = 1 => currDMABuff'[i] = currDMABuff[i])
  <2>1. obj \in Objs /\ currDMABuff \in [Objs -> Pages \cup {None}]
        /\ currDMABuffPos \in [Objs -> 0..PageSize]
    BY DEF IInv, TypeOK
  <2>2. CASE currDMABuff[obj] # None
    BY <2>2 DEF GetPage, Begun
  <2>3. CASE currDMABuff[obj] = None
    <3>1. /\ currDMABuffPos' = [currDMABuffPos EXCEPT ![obj] = 0]
          /\ \A j \in Objs : j # obj => currDMABuff'[j] = currDMABuff[j]
      BY <2>1, <2>3 DEF GetPage
    <3> QED
      BY <2>1, <2>3, <3>1 DEF Begun
  <2> QED
    BY <2>2, <2>3
<1> QED
  BY <1>1, OrderSame DEF GetPage, hard

\* A block gets its number with its first sample.
LEMMA OrderPutSample ==
  ASSUME IInv, OrderInv, PutSample PROVE OrderInv'
<1> DEFINE new == IF currDMABuffPos[obj] = 0 THEN (pushed[obj] + 1) % Turn ELSE pushed[obj]
<1>1. /\ obj \in Objs /\ open[obj] /\ currDMABuff[obj] \in Pages /\ currDMABuff[obj] # None
      /\ currDMABuff[obj] \notin Owned(obj) /\ currDMABuffPos[obj] \in Nat
  BY I2sAssumption DEF IInv, TypeOK, PcInv, BuffInv, PutSample, Objs, Pushing
<1>2. /\ pushed' = [pushed EXCEPT ![obj] = new]
      /\ page' = [page EXCEPT ![obj] = [@ EXCEPT ![currDMABuff[obj]] = new]]
      /\ currDMABuffPos' = [currDMABuffPos EXCEPT ![obj] = @ + 1]
      /\ UNCHANGED <<open, own, hw, played, last, currDMABuff>>
  BY DEF PutSample, hard
<1>3. PlayedInOrder'
  BY <1>2 DEF OrderInv, PlayedInOrder
<1>4. ASSUME NEW i \in Objs, open'[i], NEW k \in 0..PageNum, Owned(i)' = Run(hw'[i], k)
      PROVE  OrderAt(i, k)'
  <2>1. Owned(i) = Run(hw[i], k) /\ OrderAt(i, k)
    BY <1>2, <1>4 DEF Owned, OrderInv
  <2>2. CASE i # obj
    <3>1. /\ page'[i] = page[i] /\ pushed'[i] = pushed[i] /\ currDMABuffPos'[i] = currDMABuffPos[i]
      BY <1>2, <2>2 DEF IInv, TypeOK, HistInv
    <3> QED
      BY <1>2, <2>1, <3>1 DEF OrderAt, Begun
  <2>3. CASE i = obj
    <3>1. /\ pushed'[i] = new /\ page'[i] = [page[i] EXCEPT ![currDMABuff[i]] = new]
          /\ currDMABuffPos'[i] = currDMABuffPos[i] + 1
      BY <1>2, <2>3 DEF IInv, TypeOK, HistInv
    <3>2. Begun(i)' = 1
      BY <1>1, <1>2, <2>3, <3>1 DEF Begun
    <3>3. page[i] \in [Pages -> 0..(Turn - 1)] /\ hw[i] \in Pages /\ played[i] \in 0..(Turn - 1)
      BY DEF IInv, TypeOK, HistInv
    <3>4. page'[i][currDMABuff[i]] = new
      BY <1>1, <2>3, <3>1, <3>3
    <3>5. ASSUME NEW j \in 0..(k - 1) PROVE page'[i][Plus(hw[i], j)] = (played[i] + (j + 1)) % Turn
      <4>1. Plus(hw[i], j) \in Owned(i)
        BY <2>1 DEF Run
      <4>2. Plus(hw[i], j) # currDMABuff[i] /\ Plus(hw[i], j) \in Pages
        BY <1>1, <2>3, <4>1 DEF Owned
      <4>3. page'[i][Plus(hw[i], j)] = page[i][Plus(hw[i], j)]
        BY <3>1, <3>3, <4>2
      <4> QED
        BY <2>1, <4>3 DEF OrderAt
    <3>6. new = (played[i] + (k + 1)) % Turn
      <4>1. CASE currDMABuffPos[i] = 0
        <5>1. Begun(i) = 0
          BY <4>1 DEF Begun
        <5>2. pushed[i] = (played[i] + (k + 0)) % Turn
          BY <2>1, <5>1 DEF OrderAt
        <5>3. k + 0 = k
          BY PagesAre, SMT
        <5>4. new = (((played[i] + k) % Turn) + 1) % Turn
          BY <2>3, <4>1, <5>2, <5>3
        <5> QED
          BY <3>3, <5>4, TurnMoves
      <4>2. CASE currDMABuffPos[i] # 0
        <5>1. Begun(i) = 1
          BY <1>1, <2>3, <4>2, SMT DEF Begun
        <5> QED
          BY <2>1, <2>3, <4>2, <5>1 DEF OrderAt
      <4> QED
        BY <4>1, <4>2
    <3> HIDE DEF new
    <3>7. hw'[i] = hw[i] /\ played'[i] = played[i] /\ currDMABuff'[i] = currDMABuff[i]
      BY <1>2
    <3> QED
      BY <3>1, <3>2, <3>4, <3>5, <3>6, <3>7 DEF OrderAt
  <2> QED
    BY <2>2, <2>3
<1> QED
  BY <1>3, <1>4 DEF OrderInv

\* The block sent is the successor of the last one in the ring.
LEMMA OrderSendPage ==
  ASSUME IInv, IInv', OrderInv, SendPage PROVE OrderInv'
<1>1. UNCHANGED <<open, hw, played, last, page, currDMABuffPos, pushed>>
  BY DEF SendPage
<1>2. PlayedInOrder'
  BY <1>1 DEF OrderInv, PlayedInOrder
<1>3. ASSUME NEW i \in Objs
      PROVE  /\ open[i] /\ hw[i] \in Pages /\ currDMABuff[i] \in Pages /\ currDMABuff[i] # None
             /\ currDMABuff[i] = I2STxIdx[i] /\ currDMABuff[i] \notin Owned(i)
             /\ currDMABuffPos[i] \in Nat
  BY I2sAssumption DEF IInv, TypeOK, PcInv, BuffInv, SendPage, Pushing, Objs
<1>4. ASSUME NEW i \in Objs, NEW m \in 0..PageNum, Owned(i)' = Run(hw'[i], m)
      PROVE  OrderAt(i, m)'
  <2>1. PICK k \in 0..PageNum, c \in 0..PageNum : RingAt(i, k, c)
    BY <1>3 DEF IInv, RingInv
  <2>2. Owned(i) = Run(hw[i], k) /\ OrderAt(i, k) /\ I2STxIdx[i] = Plus(hw[i], k)
    BY <1>3, <2>1 DEF RingAt, OrderInv
  <2>3. CASE ~ Full(i)
    <3>1. Owned(i)' = Owned(i) /\ currDMABuff'[i] = currDMABuff[i]
      BY <2>3 DEF IInv, TypeOK, SendPage, Owned
    <3>2. m = k
      BY <1>1, <1>3, <1>4, <2>2, <3>1, RunUnique
    <3>3. Begun(i)' = Begun(i)
      BY <1>1, <3>1 DEF Begun
    <3> QED
      BY <1>1, <2>2, <3>1, <3>2, <3>3, OrderKept
  <2>4. CASE Full(i)
    <3>1. Owned(i)' = Owned(i) \cup {I2STxIdx[i]} /\ currDMABuff'[i] = None
      BY <1>3, <2>4 DEF IInv, TypeOK, SendPage, Owned
    <3>2. Begun(i) = 1 /\ Begun(i)' = 0
      <4>1. currDMABuffPos[i] > 0
        BY <1>3, <2>4, I2sAssumption, SMT DEF Full
      <4> QED
        BY <1>3, <3>1, <4>1 DEF Begun
    <3>3. k # PageNum
      <4>1. PageNum \in 1..PageNum /\ Plus(hw[i], PageNum) = hw[i]
        BY <1>3, PagesAre, SMT DEF Plus
      <4>2. hw[i] \in Run(hw[i], PageNum)
        BY <1>3, <4>1, RunFirst
      <4> QED
        BY <1>3, <2>2, <4>1, <4>2
    <3>4. k \in 0..(PageNum - 1) /\ k + 1 \in 0..PageNum
      BY <3>3, PagesAre, SMT
    <3>5. Owned(i)' = Run(hw[i], k + 1)
      BY <1>3, <2>2, <3>1, <3>4, RunLast
    <3>6. m = k + 1
      BY <1>1, <1>3, <1>4, <3>4, <3>5, RunUnique
    <3>7. page[i][Plus(hw[i], k)] = pushed[i] /\ pushed[i] = (played[i] + (k + 1)) % Turn
      BY <1>3, <2>2, <3>2 DEF OrderAt
    <3>8. ASSUME NEW j \in 0..(m - 1) PROVE page[i][Plus(hw[i], j)] = (played[i] + (j + 1)) % Turn
      <4>1. j = k \/ j \in 0..(k - 1)
        BY <3>4, <3>6, PagesAre, SMT
      <4> QED
        BY <2>2, <3>7, <4>1 DEF OrderAt
    <3>9. m + 0 = k + 1
      BY <3>4, <3>6, PagesAre, SMT
    <3> QED
      BY <1>1, <3>2, <3>7, <3>8, <3>9 DEF OrderAt
  <2> QED
    BY <2>3, <2>4
<1> QED
  BY <1>1, <1>2, <1>4 DEF OrderInv

\* The block played is the oldest one in the ring.
LEMMA OrderPlay ==
  ASSUME IInv, OrderInv, NEW i \in Objs, Play(i) PROVE OrderInv'
<1>1. /\ open[i] /\ hw[i] \in Pages /\ hw[i] \in Owned(i) /\ played[i] \in 0..(Turn - 1)
      /\ UNCHANGED <<open, page, currDMABuff, currDMABuffPos, pushed>>
  BY DEF IInv, TypeOK, HistInv, Play, Owned, buf
<1>2. /\ Owned(i)' = Owned(i) \ {hw[i]} /\ hw'[i] = Plus(hw[i], 1)
      /\ played'[i] = (played[i] + 1) % Turn /\ last'[i] = page[i][hw[i]]
  BY <1>1, NextIsPlus DEF IInv, TypeOK, HistInv, Play, Owned
<1>3. ASSUME NEW j \in Objs, j # i
      PROVE  Owned(j)' = Owned(j) /\ hw'[j] = hw[j] /\ played'[j] = played[j] /\ last'[j] = last[j]
  BY <1>3 DEF IInv, TypeOK, HistInv, Play, Owned
<1>4. PICK k \in 0..PageNum, c \in 0..PageNum : RingAt(i, k, c)
  BY <1>1 DEF IInv, RingInv
<1>5. Owned(i) = Run(hw[i], k) /\ OrderAt(i, k)
  BY <1>1, <1>4 DEF RingAt, OrderInv
<1>6. k \in 1..PageNum /\ k - 1 \in 0..PageNum /\ 0 \in 0..(k - 1)
  <2>1. k # 0
    BY <1>1, <1>5, RunEmpty
  <2> QED
    BY <2>1, PagesAre, SMT
<1>7. last'[i] = played'[i]
  <2>1. Plus(hw[i], 0) = hw[i] /\ 0 + 1 = 1
    BY <1>1, RunEmpty
  <2>2. page[i][Plus(hw[i], 0)] = (played[i] + (0 + 1)) % Turn
    BY <1>5, <1>6 DEF OrderAt
  <2> QED
    BY <1>2, <2>1, <2>2
<1>8. PlayedInOrder'
  BY <1>3, <1>7 DEF OrderInv, PlayedInOrder
<1>9. /\ Plus(hw[i], 1) \in Pages /\ Run(Plus(hw[i], 1), k - 1) = Run(hw[i], k) \ {hw[i]}
  BY <1>1, <1>6, RunFirst
<1>10. OrderAt(i, k - 1)'
  <2>1. ASSUME NEW j \in 0..((k - 1) - 1)
        PROVE  page[i][Plus(hw'[i], j)] = (played'[i] + (j + 1)) % Turn
    <3>1. j + 1 \in 0..(k - 1) /\ j + 1 \in 0..PageNum /\ j \in 0..PageNum
      BY <1>6, PagesAre, SMT
    <3>2. Plus(Plus(hw[i], 1), j) = Plus(hw[i], j + 1)
      BY <1>1, <1>6, <3>1, PagesAre, SMT DEF Plus
    <3>3. page[i][Plus(hw[i], j + 1)] = (played[i] + ((j + 1) + 1)) % Turn
      BY <1>5, <3>1 DEF OrderAt
    <3>4. (((played[i] + 1) % Turn) + (j + 1)) % Turn = (played[i] + ((j + 1) + 1)) % Turn
      BY <1>1, <3>1, TurnMoves
    <3> QED
      BY <1>2, <3>2, <3>3, <3>4
  <2>2. Begun(i)' = Begun(i)
    BY <1>1 DEF Begun
  <2>3. Begun(i) \in {0, 1}
    BY DEF Begun
  <2>4. (k - 1) + Begun(i) \in 0..PageNum /\ ((k - 1) + Begun(i)) + 1 = k + Begun(i)
    BY <1>6, <2>3, PagesAre, SMT
  <2>5. (((played[i] + 1) % Turn) + ((k - 1) + Begun(i))) % Turn = (played[i] + (k + Begun(i))) % Turn
    BY <1>1, <2>4, TurnMoves
  <2>6. pushed[i] = (played'[i] + ((k - 1) + Begun(i))) % Turn
    BY <1>2, <1>5, <2>5 DEF OrderAt
  <2> QED
    BY <1>1, <1>5, <2>1, <2>2, <2>6 DEF OrderAt
<1>11. ASSUME NEW j \in Objs, open'[j], NEW m \in 0..PageNum, Owned(j)' = Run(hw'[j], m)
       PROVE  OrderAt(j, m)'
  <2>1. CASE j = i
    <3>1. m = k - 1
      BY <1>2, <1>5, <1>6, <1>9, <1>11, <2>1, RunUnique
    <3> QED
      BY <1>10, <2>1, <3>1
  <2>2. CASE j # i
    <3>1. Owned(j) = Run(hw[j], m) /\ open[j]
      BY <1>1, <1>3, <1>11, <2>2
    <3>2. OrderAt(j, m)
      BY <3>1 DEF OrderInv
    <3>3. Begun(j)' = Begun(j)
      BY <1>1 DEF Begun
    <3> QED
      BY <1>1, <1>3, <2>2, <3>2, <3>3, OrderKept
  <2> QED
    BY <2>1, <2>2
<1> QED
  BY <1>8, <1>11 DEF OrderInv

\* The hardware plays the blocks in the order the decoder made them, each once.
THEOREM BlocksInOrder == Spec => []PlayedInOrder
<1>1. ASSUME IInv, OrderInv,
             Take \/ InitFail \/ Close \/ (\E i \in Objs : I2SISRHandle(i)) \/ UNCHANGED vars
      PROVE  OrderInv'
  <2>1. UNCHANGED <<open, own, hw, played, last, page, pushed, currDMABuff, currDMABuffPos>>
    BY <1>1 DEF Take, InitFail, Close, I2SISRHandle, vars, hard, buf
  <2> QED
    BY <1>1, <2>1, OrderSame DEF Begun
<1>2. IInv /\ IInv' /\ OrderInv /\ [Next]_vars => OrderInv'
  BY <1>1, OrderInitObj, OrderCloseObj, OrderGetPage, OrderPutSample, OrderSendPage, OrderPlay
     DEF Next, Task
<1>3. Spec => []OrderInv
  BY <1>2, OrderInit, Invariance, PTL DEF Spec
<1> QED
  BY <1>3, PTL DEF OrderInv

---------------------------------------------------------------------------
(* The converter (PwmDac).  The lemmas state ranges as inequalities over   *)
(* Int.                                                                    *)

\* What one bit is worth.
LEMMA StepIs675 == Step = 675
  BY SMT DEF Step

\* What all bits are worth.
LEMMA FullScaleIs == FullScale = 65535
  BY DEF FullScale

\* The same as a type.
LEMMA FullIsInt == FullScale \in Int
  BY FullScaleIs, SMT

\* A level is a number of 16 bits.
LEMMA LevelRange ==
  ASSUME NEW half \in Int, 0 <= half, half <= 65535
  PROVE  Level(half) \in Int /\ 0 <= Level(half) /\ Level(half) <= 65535
  BY SMT DEF Level

\* An encoded sample has x ones, but never more than the 96 bits there are.
LEMMA EncodeHasThatMany ==
  ASSUME NEW x \in Int, 0 <= x, x <= 97
  PROVE  Ones(Encode(x)) = IF x > 96 THEN 96 ELSE x
<1>1. CASE x < 24
  BY <1>1, SMT DEF Ones, Encode
<1>2. CASE x >= 24 /\ x < 48
  BY <1>2, SMT DEF Ones, Encode
<1>3. CASE x >= 48 /\ x < 72
  BY <1>3, SMT DEF Ones, Encode
<1>4. CASE x >= 72 /\ x < 96
  BY <1>4, SMT DEF Ones, Encode
<1>5. CASE x >= 96
  BY <1>5, SMT DEF Ones, Encode
<1> QED
  BY <1>1, <1>2, <1>3, <1>4, <1>5, SMT

\* Clipping leaves a value of the scale.
LEMMA ClipValue ==
  ASSUME NEW raw \in Int, 0 <= raw
  PROVE  Clip(raw) = IF raw > 65535 THEN 65535 ELSE raw
  BY FullScaleIs, SMT DEF Clip

\* Quotient and remainder of the division by Step.
LEMMA DivideByStep ==
  ASSUME NEW smp \in Int, 0 <= smp, smp <= 65535
  PROVE  LET x == smp \div 675
         IN  x \in Int /\ 0 <= x /\ x <= 97 /\ 0 <= smp - x * 675 /\ smp - x * 675 <= 674
  BY SMT

\* The numbers of one sample: what is asked for and the error before are what
\* is sent, the error after, and a loss of less than two bits that only a
\* sample of more than 96 ones has.
LEMMA Balance ==
  ASSUME NEW level \in Int, 0 <= level, level <= 65535,
         NEW err \in Int, 0 <= err, err <= 674,
         NEW smp \in Int, smp = (IF level + err > 65535 THEN 65535 ELSE level + err),
         NEW x \in Int, 0 <= x, x <= 97,
         NEW rest \in Int, rest = smp - x * 675, 0 <= rest, rest <= 674,
         NEW sent \in Int, sent = 675 * (IF x > 96 THEN 96 ELSE x)
  PROVE  /\ 0 <= (level + err) - (rest + sent) /\ (level + err) - (rest + sent) <= 1349
         /\ level <= 64800 => level + err = rest + sent
  BY SMT

---------------------------------------------------------------------------

\* What has not been sent is at least the error kept.
NeverAhead == \A i \in Channels : owed[i] >= sampl_err[i]

PwmInv == PwmTypeOK /\ NothingLost /\ NeverAhead

\* Before the first sample no error is kept.
LEMMA PwmInitInv == PwmInit => PwmInv
  <1>1. 0 \in 0..(Step - 1)
    BY StepIs675, SMT
  <1> QED
    BY <1>1, SMT DEF PwmInit, PwmInv, PwmTypeOK, NothingLost, NeverAhead

\* Opening the output anew forgets the error.
LEMMA ResetInv == PwmInv /\ Reset => PwmInv'
  <1>1. 0 \in 0..(Step - 1)
    BY StepIs675, SMT
  <1> QED
    BY <1>1, SMT DEF Reset, PwmInv, PwmTypeOK, NothingLost, NeverAhead

\* The same for what is owed.
LEMMA StillOwed ==
  ASSUME NEW level \in Int, NEW err \in Int, NEW sent \in Int, NEW rest \in Int,
         NEW before \in Int, before >= err,
         NEW now \in Int, now = before + level - sent,
         0 <= (level + err) - (rest + sent), (level + err) - (rest + sent) <= 1349,
         level <= 64800 => level + err = rest + sent
  PROVE  /\ now >= rest
         /\ 0 <= (now - rest) - (before - err) /\ (now - rest) - (before - err) <= 1349
         /\ (level <= 64800 /\ before = err) => now = rest
  BY SMT

\* What Push does to one channel.
LEMMA PushChannel ==
  ASSUME PwmInv, NEW halves \in Samples, Push(halves), NEW i \in Channels
  PROVE  /\ sampl_err'[i] \in 0..(Step - 1)
         /\ owed'[i] \in Nat
         /\ loud'[i] \in BOOLEAN
         /\ ~ loud'[i] => owed'[i] = sampl_err'[i]
         /\ owed'[i] >= sampl_err'[i]
         /\ (owed'[i] - sampl_err'[i]) - (owed[i] - sampl_err[i]) \in 0..(2 * Step - 1)
<1>1. PICK level \in Int : level = Level(halves[i]) /\ 0 <= level /\ level <= 65535
  <2>1. halves[i] \in 0..FullScale
    BY SampleAssumption
  <2>2. halves[i] \in Int /\ 0 <= halves[i] /\ halves[i] <= FullScale
    BY <2>1, FullIsInt, SMT
  <2>3. halves[i] <= 65535
    BY <2>2, FullScaleIs, SMT
  <2> QED
    BY <2>2, <2>3, LevelRange
<1>2. PICK err \in Int : err = sampl_err[i] /\ 0 <= err /\ err <= 674
  <2>1. sampl_err[i] \in 0..(Step - 1)
    BY DEF PwmInv, PwmTypeOK
  <2> QED
    BY <2>1, StepIs675, SMT
<1>3. PICK smp \in Int :
        /\ smp = Clip(level + err)
        /\ smp = (IF level + err > 65535 THEN 65535 ELSE level + err)
        /\ 0 <= smp /\ smp <= 65535
  <2>1. Clip(level + err) = IF level + err > 65535 THEN 65535 ELSE level + err
    BY <1>1, <1>2, ClipValue, SMT
  <2> QED
    BY <1>1, <1>2, <2>1, SMT
<1>4. PICK x \in Int : /\ x = smp \div Step /\ 0 <= x /\ x <= 97
                       /\ 0 <= smp - x * 675 /\ smp - x * 675 <= 674
  BY <1>3, DivideByStep, StepIs675
<1>5. PICK sent \in Int :
        /\ sent = Step * Ones(Encode(x))
        /\ sent = 675 * (IF x > 96 THEN 96 ELSE x)
  <2>1. Ones(Encode(x)) = IF x > 96 THEN 96 ELSE x
    BY <1>4, EncodeHasThatMany
  <2> HIDE DEF Ones, Encode
  <2> QED
    BY <1>4, <2>1, StepIs675, SMT
<1>6. PICK rest \in Int : /\ rest = Remainder(smp, x) /\ rest = smp - x * 675
                          /\ 0 <= rest /\ rest <= 674
  BY <1>4, StepIs675 DEF Remainder
<1>7. PICK before \in Int : before = owed[i] /\ 0 <= before /\ before >= err
  BY <1>2 DEF PwmInv, PwmTypeOK, NeverAhead
<1>8. sampl_err'[i] = rest /\ owed'[i] = before + level - sent
  <2> DEFINE clip == Clip(Level(halves[i]) + sampl_err[i])
  <2>1. /\ sampl_err'[i] = Remainder(clip, clip \div Step)
        /\ owed'[i] = owed[i] + Level(halves[i]) - Step * Ones(Encode(clip \div Step))
    BY Zenon DEF Push
  <2>2. clip = smp /\ clip \div Step = x
    BY <1>1, <1>2, <1>3, <1>4, SMT
  <2> HIDE DEF clip
  <2>3. sampl_err'[i] = rest
    BY <1>6, <2>1, <2>2
  <2>4. owed'[i] = before + level - sent
    BY <1>1, <1>5, <1>7, <2>1, <2>2
  <2> QED
    BY <2>3, <2>4
<1>9. PICK now \in Int : now = owed'[i] /\ now = before + level - sent
  BY <1>8
<1>10. /\ 0 <= (level + err) - (rest + sent) /\ (level + err) - (rest + sent) <= 1349
       /\ level <= 64800 => level + err = rest + sent
  BY ONLY <1>1, <1>2, <1>3, <1>4, <1>5, <1>6, Balance
<1>11. /\ now >= rest
       /\ 0 <= (now - rest) - (before - err) /\ (now - rest) - (before - err) <= 1349
       /\ (level <= 64800 /\ before = err) => now = rest
  <2>1. before >= err
    BY <1>7
  <2>2. now = before + level - sent
    BY <1>9
  <2>3. 0 <= (level + err) - (rest + sent) /\ (level + err) - (rest + sent) <= 1349
    BY <1>10
  <2>4. level <= 64800 => level + err = rest + sent
    BY <1>10
  <2> QED
    BY ONLY <2>1, <2>2, <2>3, <2>4, StillOwed
<1>12. rest \in 0..(Step - 1) /\ now \in Nat
  BY <1>6, <1>11, StepIs675, SMT
<1>13. (now - rest) - (before - err) \in 0..(2 * Step - 1)
  BY ONLY <1>11, StepIs675, SMT
<1> DEFINE tooLoud == Level(halves[i]) > 96 * Step
<1>14. tooLoud \/ level <= 64800
  BY <1>1, StepIs675, SMT
<1>15. loud'[i] = (loud[i] \/ tooLoud)
  BY Zenon DEF Push
<1> HIDE DEF tooLoud
<1>16. loud'[i] \in BOOLEAN
  BY <1>15, Zenon
<1>17. ~ loud'[i] => ~ loud[i] /\ ~ tooLoud
  BY <1>15, Zenon
<1>18. ~ loud[i] => before = err
  BY <1>2, <1>7 DEF PwmInv, NothingLost
<1>19. ~ loud'[i] => now = rest
  <2> SUFFICES ASSUME ~ loud'[i] PROVE now = rest
    OBVIOUS
  <2>1. level <= 64800
    BY <1>14, <1>17
  <2>2. before = err
    BY <1>17, <1>18, Zenon
  <2> QED
    BY <1>11, <2>1, <2>2
<1>20. sampl_err'[i] \in 0..(Step - 1) /\ owed'[i] \in Nat
  BY <1>8, <1>9, <1>12
<1>21. owed'[i] >= sampl_err'[i]
  BY <1>8, <1>9, <1>11
<1>22. (owed'[i] - sampl_err'[i]) - (owed[i] - sampl_err[i]) \in 0..(2 * Step - 1)
  BY <1>2, <1>7, <1>8, <1>9, <1>13
<1>23. ~ loud'[i] => owed'[i] = sampl_err'[i]
  BY <1>8, <1>9, <1>19, Zenon
<1> QED
  BY <1>16, <1>20, <1>21, <1>22, <1>23

\* One sample sent.
LEMMA PushInv ==
  ASSUME PwmInv, NEW halves \in Samples, Push(halves)
  PROVE  PwmInv'
<1>1. /\ sampl_err' = [i \in Channels |-> sampl_err'[i]]
      /\ owed' = [i \in Channels |-> owed'[i]]
      /\ loud' = [i \in Channels |-> loud'[i]]
  BY DEF Push
<1>2. PwmTypeOK'
  BY <1>1, PushChannel DEF PwmTypeOK
<1>3. NothingLost' /\ NeverAhead'
  BY PushChannel DEF NothingLost, NeverAhead
<1> QED
  BY <1>2, <1>3 DEF PwmInv

---------------------------------------------------------------------------

\* The inductive invariant holds in every state.
THEOREM PwmInvariance == PwmSpec => []PwmInv
<1>1. PwmInv /\ [PwmNext]_pwmVars => PwmInv'
  <2>1. PwmInv /\ UNCHANGED pwmVars => PwmInv'
    BY DEF PwmInv, PwmTypeOK, NothingLost, NeverAhead, pwmVars
  <2> QED
    BY <2>1, PushInv, ResetInv DEF PwmNext
<1> QED
  BY <1>1, PwmInitInv, PTL DEF PwmSpec

\* The error kept for the next sample is less than one bit is worth.
THEOREM ErrorBounded == PwmSpec => []PwmTypeOK
  BY PwmInvariance, PTL DEF PwmInv

\* The ones sent are linear in the samples: nothing but the error is missing.
THEOREM LinearInTheLongRun == PwmSpec => []NothingLost
  BY PwmInvariance, PTL DEF PwmInv

\* A sample that is too loud loses less than two bits, at once and for good.
THEOREM ClippingForgotten == PwmSpec => ClipLosesLittle
<1> DEFINE Lost == \A halves \in Samples : Push(halves) =>
                     \A i \in Channels :
                       (owed'[i] - sampl_err'[i]) - (owed[i] - sampl_err[i])
                         \in 0..(2 * Step - 1)
<1>1. PwmInv /\ [PwmNext]_pwmVars => [Lost]_pwmVars
  BY PushChannel
<1> HIDE DEF Lost
<1>2. PwmSpec => [][Lost]_pwmVars
  BY <1>1, PwmInvariance, PTL DEF PwmSpec
<1> QED
  BY <1>2 DEF ClipLosesLittle, Lost
=============================================================================

------------------------------- MODULE I2sDma -------------------------------
(***************************************************************************)
(* i2s_freertos.c with the page functions of rtl8195a_i2s.c and the        *)
(* interrupt handler of hal_i2s.c: the decoder task pushes each sample     *)
(* into the current DMA page of both I2S objects, left and right; a full   *)
(* page is handed to the hardware by its own bit, the hardware plays its   *)
(* pages in turn and gives them back with an interrupt, and a task that    *)
(* finds no page free waits for a semaphore that only the interrupt of     *)
(* object 0 gives.                                                         *)
(*                                                                         *)
(* Interrupts preempt the task: it runs only when none is pending, except  *)
(* in its critical section, which is one step here.  The hardware runs at  *)
(* any time.  A block of samples, one page long, is identified by its      *)
(* number modulo Turn, which tells it from all others in the ring.         *)
(***************************************************************************)
EXTENDS Integers, FiniteSets

CONSTANTS PageNum,     \* I2S_DMA_PAGE_NUM
          PageSize,    \* samples in a page
          MaxSema,     \* MAX_SEMA_COUNT
          Skew,        \* bound: pages one object may be ahead of the other
          HeapFaults,  \* bound: failed allocations
          Closes       \* bound: calls of i2sClose

Turn == 2 * PageNum + 2 * Skew

\* "Valid number is 2~4".  The objects run on one clock and get their pages
\* together, so neither gets more than a page ahead.
ASSUME I2sAssumption ==
  /\ PageNum \in 2..4 /\ PageSize \in Nat \ {0} /\ MaxSema \in Nat \ {0}
  /\ Skew \in 1..(PageNum - 1) /\ HeapFaults \in Nat /\ Closes \in Nat

Objs  == {0, 1}
Pages == 0..(PageNum - 1)
None  == -1

VARIABLES open,        \* open[i]: pi2s[i] # NULL and enabled
          own,         \* own[i][p]: the own bit, the hardware has page p
          page,        \* page[i][p]: number of the block in the page
          I2STxIdx,    \* next page the driver takes
          hw,          \* next page the hardware plays
          I2SHWTxIdx,  \* next page the interrupt handler expects
          irq,         \* irq[i]: pages whose interrupt is pending
          currDMABuff, currDMABuffPos,   \* page being filled and samples in it
          I2sTxSema,   \* count of the semaphore
          pc, obj,     \* where the decoder task is, for which object
          pushed,      \* history: blocks begun, for each object, modulo Turn
          played, last,\* history: pages played; the last block played
          heapFaults, closes

hard  == <<own, hw, irq, played, last>>
buf   == <<page, currDMABuff, currDMABuffPos, pushed>>
bound == <<heapFaults, closes>>
vars  == <<open, hard, buf, I2STxIdx, I2SHWTxIdx, I2sTxSema, pc, obj, bound>>

NextPage(p) == (p + 1) % PageNum
AtMost(x, m) == IF x > m THEN m ELSE x

Init ==
  /\ open = [i \in Objs |-> FALSE]
  /\ own = [i \in Objs |-> [p \in Pages |-> FALSE]]
  /\ page = [i \in Objs |-> [p \in Pages |-> 0]]
  /\ I2STxIdx = [i \in Objs |-> 0] /\ hw = [i \in Objs |-> 0]
  /\ I2SHWTxIdx = [i \in Objs |-> 0] /\ irq = [i \in Objs |-> {}]
  /\ currDMABuff = [i \in Objs |-> None] /\ currDMABuffPos = [i \in Objs |-> 0]
  /\ I2sTxSema = 0 /\ pc = "init" /\ obj = 0
  /\ pushed = [i \in Objs |-> 0] /\ played = [i \in Objs |-> 0]
  /\ last = [i \in Objs |-> 0]
  /\ heapFaults = HeapFaults /\ closes = Closes

\* The task has the processor: no interrupt is pending.
Running == \A i \in Objs : irq[i] = {}

---------------------------------------------------------------------------
(* i2sInit and i2sClose, an object at a time.                              *)

InitKeepsIndex ==
  /\ pc = "init"
  /\ open' = [open EXCEPT ![obj] = TRUE]
  /\ own' = [own EXCEPT ![obj] = [p \in Pages |-> FALSE]]
  /\ irq' = [irq EXCEPT ![obj] = {}]
  /\ hw' = [hw EXCEPT ![obj] = 0]
  /\ pushed' = [pushed EXCEPT ![obj] = 0] /\ played' = [played EXCEPT ![obj] = 0]
  /\ last' = [last EXCEPT ![obj] = 0]
  /\ currDMABuff' = [currDMABuff EXCEPT ![obj] = None]
  /\ currDMABuffPos' = [currDMABuffPos EXCEPT ![obj] = 0]
  /\ I2sTxSema' = IF obj = 0 THEN 1 ELSE I2sTxSema
  /\ pc' = IF obj = 0 THEN "init" ELSE "page"
  /\ obj' = 1 - obj
  /\ UNCHANGED <<page, I2STxIdx, I2SHWTxIdx, bound>>

\* The indices of driver and handler restart with the hardware.
InitObj ==
  /\ pc = "init"
  /\ open' = [open EXCEPT ![obj] = TRUE]
  /\ own' = [own EXCEPT ![obj] = [p \in Pages |-> FALSE]]
  /\ irq' = [irq EXCEPT ![obj] = {}]
  /\ hw' = [hw EXCEPT ![obj] = 0]
  /\ I2STxIdx' = [I2STxIdx EXCEPT ![obj] = 0]
  /\ I2SHWTxIdx' = [I2SHWTxIdx EXCEPT ![obj] = 0]
  /\ pushed' = [pushed EXCEPT ![obj] = 0] /\ played' = [played EXCEPT ![obj] = 0]
  /\ last' = [last EXCEPT ![obj] = 0]
  /\ currDMABuff' = [currDMABuff EXCEPT ![obj] = None]
  /\ currDMABuffPos' = [currDMABuffPos EXCEPT ![obj] = 0]
  /\ I2sTxSema' = IF obj = 0 THEN 1 ELSE I2sTxSema
  /\ pc' = IF obj = 0 THEN "init" ELSE "page"
  /\ obj' = 1 - obj
  /\ UNCHANGED <<page, bound>>

\* An allocation fails: the object stays closed, and tskmad closes the other.
InitFail ==
  /\ pc = "init" /\ heapFaults > 0 /\ heapFaults' = heapFaults - 1
  /\ pc' = "close" /\ obj' = 0
  /\ UNCHANGED <<open, hard, buf, I2STxIdx, I2SHWTxIdx, I2sTxSema, closes>>

\* tskmad ends between two samples.
Close ==
  /\ pc = "page" /\ obj = 0 /\ closes > 0 /\ closes' = closes - 1
  /\ Running
  /\ pc' = "close"
  /\ UNCHANGED <<open, hard, buf, I2STxIdx, I2SHWTxIdx, I2sTxSema, obj, heapFaults>>

\* The hardware stops, its own bits are cleared, its interrupt is disabled,
\* the pages are freed.
CloseObj ==
  /\ pc = "close"
  /\ open' = [open EXCEPT ![obj] = FALSE]
  /\ own' = [own EXCEPT ![obj] = [p \in Pages |-> FALSE]]
  /\ irq' = [irq EXCEPT ![obj] = {}]
  /\ pc' = IF obj = 0 THEN "close" ELSE "init"
  /\ obj' = 1 - obj
  /\ UNCHANGED <<hw, played, last, buf, I2STxIdx, I2SHWTxIdx, I2sTxSema, bound>>

---------------------------------------------------------------------------
(* i2sPushPWMSamples: pages, samples, and the full pages sent.             *)

GetPageOwned ==
  /\ pc = "page" /\ Running
  /\ IF currDMABuff[obj] # None
       THEN UNCHANGED <<currDMABuff, currDMABuffPos>>
       ELSE /\ currDMABuff' = [currDMABuff EXCEPT ![obj] = I2STxIdx[obj]]
            /\ currDMABuffPos' = [currDMABuffPos EXCEPT ![obj] = 0]
  /\ pc' = "write"
  /\ UNCHANGED <<open, hard, page, pushed, I2STxIdx, I2SHWTxIdx, I2sTxSema, obj, bound>>

\* HalI2SGetTxPage gives the page at I2STxIdx unless the hardware has it.
GetPage ==
  /\ pc = "page" /\ Running
  /\ \/ /\ currDMABuff[obj] # None
        /\ pc' = "write" /\ UNCHANGED <<currDMABuff, currDMABuffPos>>
     \/ /\ currDMABuff[obj] = None /\ ~ own[obj][I2STxIdx[obj]]
        /\ pc' = "write"
        /\ currDMABuff' = [currDMABuff EXCEPT ![obj] = I2STxIdx[obj]]
        /\ currDMABuffPos' = [currDMABuffPos EXCEPT ![obj] = 0]
     \/ /\ currDMABuff[obj] = None /\ own[obj][I2STxIdx[obj]]
        /\ pc' = "take"
        /\ currDMABuffPos' = [currDMABuffPos EXCEPT ![obj] = 0]
        /\ UNCHANGED currDMABuff
  /\ UNCHANGED <<open, hard, page, pushed, I2STxIdx, I2SHWTxIdx, I2sTxSema, obj, bound>>

\* xSemaphoreTake(I2sTxSema), and the own bit is looked at again.
Take ==
  /\ pc = "take" /\ Running
  /\ I2sTxSema > 0 /\ I2sTxSema' = I2sTxSema - 1
  /\ pc' = "page"
  /\ UNCHANGED <<open, hard, buf, I2STxIdx, I2SHWTxIdx, obj, bound>>

\* One sample, encoded into the page; the first one makes it a new block.
PutSample ==
  /\ pc = "write" /\ Running
  /\ LET new == IF currDMABuffPos[obj] = 0 THEN (pushed[obj] + 1) % Turn ELSE pushed[obj]
     IN /\ pushed' = [pushed EXCEPT ![obj] = new]
        /\ page' = [page EXCEPT ![obj][currDMABuff[obj]] = new]
  /\ currDMABuffPos' = [currDMABuffPos EXCEPT ![obj] = @ + 1]
  /\ pc' = IF obj = 0 THEN "page" ELSE "send"
  /\ obj' = 1 - obj
  /\ UNCHANGED <<open, hard, currDMABuff, I2STxIdx, I2SHWTxIdx, I2sTxSema, bound>>

\* The critical section: every object whose page is full sends it.
Full(i) == currDMABuffPos[i] >= PageSize

SendPage ==
  /\ pc = "send" /\ Running
  /\ own' = [i \in Objs |-> [p \in Pages |-> own[i][p] \/ (Full(i) /\ p = currDMABuff[i])]]
  /\ I2STxIdx' = [i \in Objs |-> IF Full(i) THEN NextPage(currDMABuff[i]) ELSE I2STxIdx[i]]
  /\ currDMABuff' = [i \in Objs |-> IF Full(i) THEN None ELSE currDMABuff[i]]
  /\ pc' = "page"
  /\ UNCHANGED <<open, hw, irq, played, last, page, currDMABuffPos, pushed, I2SHWTxIdx,
                 I2sTxSema, obj, bound>>

---------------------------------------------------------------------------
(* The hardware, and the interrupt handler with its callback.              *)

\* The hardware finishes a page, clears its own bit and raises its interrupt.
Play(i) ==
  /\ open[i] /\ own[i][hw[i]]
  /\ (played[i] - played[1 - i]) % Turn # Skew
  /\ own' = [own EXCEPT ![i][hw[i]] = FALSE]
  /\ irq' = [irq EXCEPT ![i] = @ \cup {hw[i]}]
  /\ last' = [last EXCEPT ![i] = page[i][hw[i]]]
  /\ played' = [played EXCEPT ![i] = (@ + 1) % Turn]
  /\ hw' = [hw EXCEPT ![i] = NextPage(@)]
  /\ UNCHANGED <<open, buf, I2STxIdx, I2SHWTxIdx, I2sTxSema, pc, obj, bound>>

\* The handler clears every pending bit, and serves those that follow each
\* other from I2SHWTxIdx on.
Served(i) ==
  CHOOSE k \in 0..PageNum :
    /\ \A j \in 0..(k - 1) : (I2SHWTxIdx[i] + j) % PageNum \in irq[i]
    /\ k < PageNum => (I2SHWTxIdx[i] + k) % PageNum \notin irq[i]

I2SISRNoClear(i) ==
  /\ irq[i] # {}
  /\ I2SHWTxIdx' = [I2SHWTxIdx EXCEPT ![i] = (@ + Served(i)) % PageNum]
  /\ I2sTxSema' = IF i = 0 THEN AtMost(I2sTxSema + Served(i), MaxSema) ELSE I2sTxSema
  /\ UNCHANGED <<open, own, hw, irq, played, last, buf, I2STxIdx, pc, obj, bound>>

I2SISRHandle(i) ==
  /\ irq[i] # {} /\ irq' = [irq EXCEPT ![i] = {}]
  /\ I2SHWTxIdx' = [I2SHWTxIdx EXCEPT ![i] = (@ + Served(i)) % PageNum]
  /\ I2sTxSema' = IF i = 0 THEN AtMost(I2sTxSema + Served(i), MaxSema) ELSE I2sTxSema
  /\ UNCHANGED <<open, own, hw, played, last, buf, I2STxIdx, pc, obj, bound>>

Task == InitObj \/ CloseObj \/ GetPage \/ Take \/ PutSample \/ SendPage

Next == Task \/ InitFail \/ Close \/ \E i \in Objs : Play(i) \/ I2SISRHandle(i)

Spec == Init /\ [][Next]_vars

\* The decoder goes on producing samples, the hardware plays what it owns and
\* interrupts are served.
Fairness ==
  /\ WF_vars(Task) /\ \A i \in Objs : WF_vars(Play(i)) /\ WF_vars(I2SISRHandle(i))

FairSpec == Spec /\ Fairness

---------------------------------------------------------------------------
(* Properties.                                                             *)

TypeOK ==
  /\ open \in [Objs -> BOOLEAN] /\ own \in [Objs -> [Pages -> BOOLEAN]]
  /\ page \in [Objs -> [Pages -> 0..(Turn - 1)]]
  /\ I2STxIdx \in [Objs -> Pages] /\ hw \in [Objs -> Pages] /\ I2SHWTxIdx \in [Objs -> Pages]
  /\ irq \in [Objs -> SUBSET Pages]
  /\ currDMABuff \in [Objs -> Pages \cup {None}]
  /\ currDMABuffPos \in [Objs -> 0..PageSize]
  /\ I2sTxSema \in 0..MaxSema /\ obj \in Objs
  /\ pc \in {"init", "page", "take", "write", "send", "close"}

\* The page a sample is written to is not one the hardware is playing.
PageExclusive == pc = "write" => ~ own[obj][currDMABuff[obj]]

\* Driver and hardware agree on the ring: what the hardware owns are the pages
\* from its position up to the driver's, so that the next page to be filled is
\* the first one the hardware gives back.
OwnedInTurn ==
  \A i \in Objs : open[i] =>
    \E k \in 0..PageNum :
      /\ (hw[i] + k) % PageNum = I2STxIdx[i]
      /\ \A p \in Pages : own[i][p] <=> \E j \in 0..(k - 1) : p = (hw[i] + j) % PageNum

\* The hardware plays the blocks in the order the decoder made them, each once.
PlayedInOrder == \A i \in Objs : last[i] = played[i]

\* The handler has not lost count: without a pending interrupt it expects the
\* page the hardware plays next.
HandlerInStep == \A i \in Objs : open[i] /\ irq[i] = {} => I2SHWTxIdx[i] = hw[i]

\* A task suspended in i2sPushPWMSamples resumes when there is room again.
Resumes == pc = "take" ~> pc = "write"
=============================================================================

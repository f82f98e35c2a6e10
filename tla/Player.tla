------------------------------- MODULE Player -------------------------------
(***************************************************************************)
(* main.c: the life cycle of the player.  connect_start creates tskreader, *)
(* which opens the FIFO and the connection and, when the FIFO is half      *)
(* full, creates tskmad; connect_close asks them to stop.  All of it is    *)
(* coordinated by two volatile flags that several tasks test and set       *)
(* without a lock:                                                         *)
(*   1  run,   0  stop please,   -1  stopped.                              *)
(* Each access to a flag is a step of its own.  The FIFO is abstracted to  *)
(* whether it exists and to its fill, counted in socket reads: RamFifo     *)
(* shows that a transfer is atomic.                                        *)
(***************************************************************************)
EXTENDS Integers, FiniteSets

CONSTANTS Controllers,   \* tasks that call connect_start and connect_close
          Readers, Mads, \* slots for instances of tskreader and tskmad
          Cap,           \* RamFifoLen()
          Need,          \* READBUFSZ: what input() collects at most
          Commands,      \* bound: calls of connect_start and connect_close
          NetFaults,     \* bound: refused, failed or ended connections
          HeapFaults,    \* bound: failed allocations
          FeedKeepsUp    \* TRUE: the decoder never outruns the network

ASSUME PlayerAssumption ==
  /\ Cap \in Nat /\ Need \in 1..((Cap \div 2) + 1)
  /\ Commands \in Nat /\ NetFaults \in Nat /\ HeapFaults \in Nat
  /\ FeedKeepsUp \in BOOLEAN
\* A task has one kind, and memory is finite.
ASSUME SlotsAssumption ==
  /\ IsFiniteSet(Readers)
  /\ Controllers \cap Readers = {} /\ Controllers \cap Mads = {}
  /\ Readers \cap Mads = {}

VARIABLES tskreader_enable, tskmad_enable,
          fifoOpen, fill,   \* pbuf_fifo # NULL, and RamFifoFill()
          i2sOpen,          \* some I2S object is initialised
          sockets,          \* sockets open
          pc,               \* where each task is; "none": the task does not exist
          cmd,              \* what each controller is doing
          got,              \* got[r]: the last read() returned data
          need, take,       \* input(): bytes missing, bytes about to be read
          commands, netFaults, heapFaults,  \* what is left of the bounds
          wanted,           \* history: a start succeeded, and no command or
                            \* fault came since
          crossed           \* history: a command came while another one was under
                            \* way, or a start found a reader ending by itself

flags  == <<tskreader_enable, tskmad_enable>>
res    == <<fifoOpen, fill, i2sOpen, sockets>>
data   == <<cmd, got, need, take>>
budget == <<commands, netFaults, heapFaults, wanted, crossed>>
vars   == <<flags, res, pc, data, budget>>

Goto(t, from, to) == pc[t] = from /\ pc' = [pc EXCEPT ![t] = to]
NoTask(S) == \A t \in S : pc[t] = "none"
HalfFull == Cap - fill < Cap \div 2

NetFault ==
  /\ netFaults > 0 /\ netFaults' = netFaults - 1
  /\ wanted' = FALSE /\ UNCHANGED <<commands, heapFaults, crossed>>
HeapFault ==
  /\ heapFaults > 0 /\ heapFaults' = heapFaults - 1
  /\ wanted' = FALSE /\ UNCHANGED <<commands, netFaults, crossed>>

\* An assignment to one of the flags is a step by itself.
SetReader(t, v, from, to) ==
  /\ Goto(t, from, to)
  /\ tskreader_enable' = v
  /\ UNCHANGED <<tskmad_enable, res, data, budget>>
SetMad(t, v, from, to) ==
  /\ Goto(t, from, to)
  /\ tskmad_enable' = v
  /\ UNCHANGED <<tskreader_enable, res, data, budget>>
\* A step that only decides where to go on.
Branch(t, from, to) ==
  Goto(t, from, to) /\ UNCHANGED <<flags, res, data, budget>>

Init ==
  /\ tskreader_enable = 0 /\ tskmad_enable = 0
  /\ fifoOpen = FALSE /\ fill = 0 /\ i2sOpen = FALSE /\ sockets = 0
  /\ pc = [t \in Controllers \cup Readers \cup Mads |->
             IF t \in Controllers THEN "idle" ELSE "none"]
  /\ cmd = [c \in Controllers |-> "none"] /\ got = [r \in Readers |-> FALSE]
  /\ need = [m \in Mads |-> 0] /\ take = [m \in Mads |-> 0]
  /\ commands = Commands /\ netFaults = NetFaults /\ heapFaults = HeapFaults
  /\ wanted = FALSE /\ crossed = FALSE

---------------------------------------------------------------------------
(* connect_close and connect_start.                                        *)

Command(c, what) ==
  /\ commands > 0 /\ commands' = commands - 1
  /\ Goto(c, "idle", "check")
  /\ cmd' = [cmd EXCEPT ![c] = what]
  /\ wanted' = FALSE
  /\ crossed' = (crossed \/ \E d \in Controllers : pc[d] # "idle")
  /\ UNCHANGED <<flags, res, got, need, take, netFaults, heapFaults>>

CloseCheck(c) ==
  /\ Goto(c, "check", IF tskreader_enable = 1 THEN "clear" ELSE "closed")
  /\ crossed' = \/ crossed
                \/ cmd[c] = "start" /\ tskreader_enable # 1 /\ ~ NoTask(Readers)
  /\ UNCHANGED <<flags, res, data, commands, netFaults, heapFaults, wanted>>
CloseClear(c) == SetReader(c, 0, "clear", "wait")
CloseWaitNot(c) == Branch(c, "wait", "reset")
CloseWait(c) == tskreader_enable # 0 /\ Branch(c, "wait", "reset")
CloseReset(c) == SetReader(c, 0, "reset", "closed")
CloseReturn(c) == cmd[c] = "close" /\ Branch(c, "closed", "idle")

StartEnable(c) == cmd[c] = "start" /\ SetReader(c, 1, "closed", "create")

\* xTaskCreate(tskreader) succeeds, or fails and the flag is cleared.
StartCreate(c) ==
  /\ \E r \in Readers :
       /\ pc[r] = "none"
       /\ pc[c] = "create" /\ pc' = [pc EXCEPT ![c] = "idle", ![r] = "init"]
  /\ wanted' = TRUE
  /\ UNCHANGED <<flags, res, data, commands, netFaults, heapFaults, crossed>>
StartFail(c) ==
  /\ HeapFault /\ Goto(c, "create", "failed")
  /\ UNCHANGED <<flags, res, data>>
StartFailed(c) == SetReader(c, 0, "failed", "idle")

Controller(c) ==
  \/ CloseCheck(c) \/ CloseClear(c) \/ CloseWait(c) \/ CloseReset(c)
  \/ CloseReturn(c) \/ StartEnable(c) \/ StartCreate(c) \/ StartFailed(c)

---------------------------------------------------------------------------
(* tskreader.                                                              *)

\* RamFifoInit empties an existing FIFO or allocates one.
FifoInit(r) ==
  /\ Goto(r, "init", "loop")
  /\ fifoOpen' = TRUE /\ fill' = 0
  /\ UNCHANGED <<flags, i2sOpen, sockets, data, budget>>
\* It fails before it touches a FIFO that exists, or leaves one that has no
\* buffer, which is as good as none.
FifoInitFail(r) ==
  /\ HeapFault /\ Goto(r, "init", "end")
  /\ \/ UNCHANGED <<fifoOpen, fill>>
     \/ fifoOpen' = FALSE /\ fill' = 0
  /\ UNCHANGED <<flags, i2sOpen, sockets, data>>

ReaderLoop(r) ==
  Branch(r, "loop", IF tskreader_enable = 1 THEN "open" ELSE "end")

\* openConn gives a socket, or fails: because of the url, the name server,
\* the server, or because the flag was cleared while it tried.
OpenConn(r) ==
  /\ tskreader_enable = 1 /\ Goto(r, "open", "head")
  /\ sockets' = sockets + 1
  /\ UNCHANGED <<flags, fifoOpen, fill, i2sOpen, data, budget>>
OpenCleared(r) == tskreader_enable # 1 /\ Branch(r, "open", "stop")
OpenFail(r) ==
  /\ NetFault /\ Goto(r, "open", "stop")
  /\ UNCHANGED <<flags, res, data>>

\* http_head_read: 200, with the part of the body that came with the head,
\* or another answer; one that is not HTTP goes into the FIFO all the same.
HeadOk(r) == \E to \in {"read", "body"} : Branch(r, "head", to)
HeadError(r) ==
  /\ NetFault /\ \E to \in {"stop", "raw"} : Goto(r, "head", to)
  /\ UNCHANGED <<flags, res, data>>
ReaderStop(r) == SetReader(r, 0, "stop", "end")

ReadSocket(r) ==
  /\ Goto(r, "read", "write")
  /\ got' = [got EXCEPT ![r] = TRUE]
  /\ UNCHANGED <<flags, res, cmd, need, take, budget>>
\* read() returns 0 or an error: the server has gone, and the loop reconnects.
ReadEnd(r) ==
  /\ NetFault /\ Goto(r, "read", "spawn?")
  /\ got' = [got EXCEPT ![r] = FALSE]
  /\ UNCHANGED <<flags, res, cmd, need, take>>

FifoWriteOver(r) ==
  /\ \/ Goto(r, "body", "read") \/ Goto(r, "raw", "stop") \/ Goto(r, "write", "spawn?")
  /\ fifoOpen
  /\ fill' = fill + 1
  /\ UNCHANGED <<flags, fifoOpen, i2sOpen, sockets, data, budget>>

FifoWrite(r) ==
  /\ \/ Goto(r, "body", "read") \/ Goto(r, "raw", "stop") \/ Goto(r, "write", "spawn?")
  /\ fifoOpen /\ fill < Cap
  /\ fill' = fill + 1
  /\ UNCHANGED <<flags, fifoOpen, i2sOpen, sockets, data, budget>>

SpawnCheckAny(r) ==
  fifoOpen /\ Branch(r, "spawn?", IF HalfFull THEN "spawn" ELSE "more?")
SpawnCheckZero(r) ==
  fifoOpen /\ Branch(r, "spawn?",
                     IF tskmad_enable = 0 /\ HalfFull THEN "spawn" ELSE "more?")
SpawnCheck(r) ==
  fifoOpen /\ Branch(r, "spawn?",
                     IF tskmad_enable # 1 /\ HalfFull THEN "spawn" ELSE "more?")
SpawnEnable(r) == SetMad(r, 1, "spawn", "create")
SpawnCreate(r) ==
  /\ \E m \in Mads :
       /\ pc[m] = "none"
       /\ pc[r] = "create" /\ pc' = [pc EXCEPT ![r] = "more?", ![m] = "init"]
  /\ UNCHANGED <<flags, res, data, budget>>
SpawnFail(r) ==
  /\ HeapFault /\ Goto(r, "create", "nomad")
  /\ UNCHANGED <<flags, res, data>>
SpawnFailedMad(r)    == SetMad(r, 0, "nomad", "noread")
SpawnFailedReader(r) == SetReader(r, 0, "noread", "closefd")

ReadMoreAlways(r) == Branch(r, "more?", IF got[r] THEN "read" ELSE "closefd")
ReadMore(r) ==
  Branch(r, "more?", IF got[r] /\ tskreader_enable = 1 THEN "read" ELSE "closefd")
LeaveSocket(r) == Branch(r, "closefd", "loop")
CloseSocket(r) ==
  /\ Goto(r, "closefd", "loop")
  /\ sockets' = sockets - 1
  /\ UNCHANGED <<flags, fifoOpen, fill, i2sOpen, data, budget>>

\* The end of tskreader: stop the decoder, wait for it, close the FIFO.
StopMadCheck(r) ==
  Branch(r, "end", IF tskmad_enable = 1 THEN "stopmad" ELSE "closefifo")
StopMad(r)      == SetMad(r, 0, "stopmad", "waitmad")
WaitMadNot(r) == Branch(r, "waitmad", "closefifo")
WaitMad(r) == tskmad_enable # 0 /\ Branch(r, "waitmad", "closefifo")
FifoClose(r) ==
  /\ Goto(r, "closefifo", "ack")
  /\ fifoOpen' = FALSE /\ fill' = 0
  /\ UNCHANGED <<flags, i2sOpen, sockets, data, budget>>
ReaderAck(r) == SetReader(r, -1, "ack", "none")

Reader(r) ==
  \/ FifoInit(r) \/ ReaderLoop(r) \/ OpenConn(r) \/ OpenCleared(r) \/ HeadOk(r)
  \/ ReaderStop(r) \/ ReadSocket(r) \/ FifoWrite(r) \/ SpawnCheck(r)
  \/ SpawnEnable(r) \/ SpawnCreate(r) \/ SpawnFailedMad(r) \/ SpawnFailedReader(r)
  \/ ReadMore(r) \/ CloseSocket(r) \/ StopMadCheck(r) \/ StopMad(r) \/ WaitMad(r)
  \/ FifoClose(r) \/ ReaderAck(r)

---------------------------------------------------------------------------
(* tskmad.                                                                 *)

I2sInit(m) ==
  /\ Goto(m, "init", "alloc")
  /\ i2sOpen' = TRUE
  /\ UNCHANGED <<flags, fifoOpen, fill, sockets, data, budget>>
\* The first object may be initialised when the second one fails.
I2sInitFail(m) ==
  /\ HeapFault /\ Goto(m, "init", "exit")
  /\ i2sOpen' \in BOOLEAN
  /\ UNCHANGED <<flags, fifoOpen, fill, sockets, data>>
MadAlloc(m) == Branch(m, "alloc", "loop")
MadAllocFail(m) ==
  /\ HeapFault /\ Goto(m, "alloc", "exit")
  /\ UNCHANGED <<flags, res, data>>

\* while (tskmad_enable == 1) input(stream) ...: the flag is tested outside
\* input() only.
MadLoop(m) ==
  /\ \E k \in 1..Need :
       need' = [need EXCEPT ![m] = IF tskmad_enable = 1 THEN k ELSE 0]
  /\ Goto(m, "loop", IF tskmad_enable = 1 THEN "poll" ELSE "exit")
  /\ UNCHANGED <<flags, res, cmd, got, take, budget>>

\* input(): n = min(missing, RamFifoFill()); when that is 0 silence is played
\* and nothing changes.
InputPoll(m) ==
  /\ fifoOpen /\ fill > 0
  /\ Goto(m, "poll", "take")
  /\ take' = [take EXCEPT ![m] = IF fill < need[m] THEN fill ELSE need[m]]
  /\ UNCHANGED <<flags, res, cmd, got, need, budget>>
InputRead(m) ==
  /\ fifoOpen /\ fill >= take[m]
  /\ Goto(m, "take", IF need[m] = take[m] THEN "decode" ELSE "poll")
  /\ fill' = fill - take[m]
  /\ need' = [need EXCEPT ![m] = @ - take[m]]
  /\ UNCHANGED <<flags, fifoOpen, i2sOpen, sockets, cmd, got, take, budget>>

\* The frames of the buffer are decoded; with FeedKeepsUp that takes until the
\* FIFO holds another buffer, or until the flag is cleared.
Decode(m) ==
  /\ FeedKeepsUp => tskmad_enable # 1 \/ fill >= Need
  /\ Branch(m, "decode", "loop")

I2sLeave(m) == Branch(m, "exit", "noread")
I2sClose(m) ==
  /\ Goto(m, "exit", "noread")
  /\ i2sOpen' = FALSE
  /\ UNCHANGED <<flags, fifoOpen, fill, sockets, data, budget>>
MadStopReader(m) == SetReader(m, 0, "noread", "ack")
MadAck(m) == SetMad(m, -1, "ack", "none")

Mad(m) ==
  \/ I2sInit(m) \/ MadAlloc(m) \/ MadLoop(m) \/ InputPoll(m) \/ InputRead(m)
  \/ Decode(m) \/ I2sClose(m) \/ MadStopReader(m) \/ MadAck(m)

---------------------------------------------------------------------------
Fault ==
  \/ \E c \in Controllers : StartFail(c)
  \/ \E r \in Readers :
       FifoInitFail(r) \/ OpenFail(r) \/ HeadError(r) \/ ReadEnd(r) \/ SpawnFail(r)
  \/ \E m \in Mads : I2sInitFail(m) \/ MadAllocFail(m)

Next ==
  \/ \E c \in Controllers : Controller(c) \/ \E what \in {"start", "close"} : Command(c, what)
  \/ \E r \in Readers : Reader(r)
  \/ \E m \in Mads : Mad(m)
  \/ Fault

Spec == Init /\ [][Next]_vars

\* Every task gets the processor again and again, the polls of vTaskDelay(2)
\* included; the server answers and sends.
Fairness ==
  /\ \A c \in Controllers : WF_vars(Controller(c))
  /\ \A r \in Readers : WF_vars(Reader(r))
  /\ \A m \in Mads : WF_vars(Mad(m))

FairSpec == Spec /\ Fairness

---------------------------------------------------------------------------
(* Properties.                                                             *)

Flag == {-1, 0, 1}

TypeOK ==
  /\ tskreader_enable \in Flag /\ tskmad_enable \in Flag
  /\ fifoOpen \in BOOLEAN /\ i2sOpen \in BOOLEAN
  /\ fill \in 0..Cap /\ sockets \in Nat
  /\ \A c \in Controllers : cmd[c] \in {"none", "start", "close"}
  /\ \A r \in Readers : got[r] \in BOOLEAN
  /\ \A m \in Mads : need[m] \in 0..Need /\ take[m] \in 0..Need
  /\ commands \in 0..Commands /\ netFaults \in 0..NetFaults
  /\ heapFaults \in 0..HeapFaults /\ wanted \in BOOLEAN /\ crossed \in BOOLEAN

\* RamFifoWrite, RamFifoFree, RamFifoFill and RamFifoRead dereference
\* pbuf_fifo, whatever has become of it.
FifoUse == {"body", "raw", "write", "spawn?", "poll", "take"}

\* The flags say who runs as long as commands come one after another, from
\* whichever task, and none starts the player while it is ending by itself.  A
\* restart of a player that runs is in order, and so is any fault.
InOrder == ~ crossed

\* tskreader closes the FIFO (line 471) only when no decoder is left that
\* could still read from it, and no reader that could still write to it.
NoUseAfterClose ==
  InOrder => \A t \in Readers \cup Mads : pc[t] \in FifoUse => fifoOpen

\* The flag tskmad_enable speaks of one decoder: a second tskmad is created
\* (line 434) only when the first has reported its end.
OneDecoder ==
  InOrder => \A m1, m2 \in Mads : pc[m1] # "none" /\ pc[m2] # "none" => m1 = m2

\* When the wait of connect_close is over (line 486) the player is down: both
\* tasks ended, FIFO and I2S closed.
Down == NoTask(Readers) /\ NoTask(Mads) /\ ~ fifoOpen /\ ~ i2sOpen
ClosedMeansDown ==
  InOrder => \A c \in Controllers : pc[c] = "reset" => Down

\* However the two tasks ended, they left neither the FIFO nor the I2S objects
\* behind, and no flag that would make the next start believe one of them runs.
NothingLeft ==
  InOrder /\ NoTask(Readers) /\ NoTask(Mads) =>
    /\ ~ fifoOpen /\ ~ i2sOpen /\ tskmad_enable # 1
    /\ tskreader_enable = 1 => \E c \in Controllers : pc[c] \in {"create", "failed"}

\* Whoever started and closed the player, and in whatever order: when the last
\* tskreader has ended, each fault has cost one open connection at most, and
\* without a fault there is none.
SocketPerFault == NoTask(Readers) => sockets <= NetFaults - netFaults

\* The three ways in which a task of the player waits for ever.  tskreader cleared
\* its flag between the test of connect_close and its assignment (lines 483, 484);
\* tskmad did so between the two of tskreader (467, 468); or tskmad gave up with
\* the FIFO full, and tskreader is inside RamFifoWrite.
Unanswered(c) ==
  \/ pc[c] = "wait" /\ tskreader_enable = 0 /\ NoTask(Readers)
  \/ NoTask(Mads) /\ \E r \in Readers :
       \/ pc[r] = "waitmad" /\ tskmad_enable = 0
       \/ pc[r] \in {"body", "raw", "write"} /\ fill = Cap

\* A call of connect_close, and so the console command that made it, returns,
\* whatever fails: there is no other way to make it wait for ever.
CloseReturns ==
  \A c \in Controllers : pc[c] \in {"check", "clear", "wait", "reset"}
     ~> pc[c] \in {"closed", "idle"} \/ Unanswered(c) \/ ~ InOrder

\* After a successful connect_start the decoder comes to decode, unless a
\* command or a fault comes in between.
StartPlays == wanted ~> ~ wanted \/ ~ InOrder \/ \E m \in Mads : pc[m] = "decode"
=============================================================================

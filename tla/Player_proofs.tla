---------------------------- MODULE Player_proofs ----------------------------
(***************************************************************************)
(* Safety of the life cycle for any number of controllers, slots, commands *)
(* and faults, and any sizes of the FIFO.  What the flags have to do with  *)
(* the tasks (Life) is an invariant until commands cross or a start finds  *)
(* a reader ending by itself; the values of the variables and the number   *)
(* of open sockets are bounded even then.                                  *)
(***************************************************************************)
EXTENDS Player, FiniteSetTheorems, TLAPS

Tasks == Controllers \cup Readers \cup Mads

---------------------------------------------------------------------------
(* The sockets.  Each reader closes the socket that it has opened, except  *)
(* after a fault.                                                          *)

\* A reader with a connection.
Connected == {"head", "body", "raw", "read", "write", "spawn?", "spawn",
              "create", "nomad", "noread", "more?", "closefd"}
\* The readers that will close a socket: an answer that is not HTTP ("raw")
\* is the fault after which openConn's socket is forgotten.
Closing == Connected \ {"raw"}
Holders == {r \in Readers : pc[r] \in Closing}
Leaked == NetFaults - netFaults

SocketsInv ==
  /\ DOMAIN pc = Tasks
  /\ sockets \in Nat /\ netFaults \in Nat /\ netFaults <= NetFaults
  /\ Cardinality(Holders) <= sockets
  /\ sockets <= Cardinality(Holders) + Leaked

\* A step that opens no socket and closes none, one that opens one, one that
\* closes one, and one that forgets one.
Quiet == Holders' = Holders /\ sockets' = sockets /\ netFaults' \in {netFaults, netFaults - 1}
Opens == /\ \E r \in Readers \ Holders : Holders' = Holders \cup {r}
         /\ sockets' = sockets + 1 /\ netFaults' = netFaults
Closes == /\ \E r \in Holders : Holders' = Holders \ {r}
          /\ sockets' = sockets - 1 /\ netFaults' = netFaults
Forgets == /\ \E r \in Holders : Holders' = Holders \ {r}
           /\ sockets' = sockets /\ netFaults' = netFaults - 1
Accounted == /\ DOMAIN pc' = DOMAIN pc
             /\ netFaults' # netFaults => netFaults > 0
             /\ Quiet \/ Opens \/ Closes \/ Forgets

\* A reader's own steps and its failures; the creation of a decoder is apart.
ReaderFault(r) ==
  FifoInitFail(r) \/ OpenFail(r) \/ HeadError(r) \/ ReadEnd(r) \/ SpawnFail(r)
\* The same of a decoder.
MadFault(m) == I2sInitFail(m) \/ MadAllocFail(m)

\* The readers that hold a socket, when one task moves.
LEMMA HoldersMove ==
  ASSUME NEW t, NEW from, NEW to, DOMAIN pc = Tasks, Goto(t, from, to)
  PROVE  /\ DOMAIN pc' = DOMAIN pc
         /\ \/ t \notin Readers
            \/ from \in Closing <=> to \in Closing
            => Holders' = Holders
         /\ t \in Readers /\ from \notin Closing /\ to \in Closing
            => t \notin Holders /\ Holders' = Holders \cup {t}
         /\ t \in Readers /\ from \in Closing /\ to \notin Closing
            => t \in Holders /\ Holders' = Holders \ {t}
<1>1. pc[t] = from /\ pc' = [pc EXCEPT ![t] = to]
  BY DEF Goto
<1>2. /\ DOMAIN pc' = DOMAIN pc
      /\ \A r \in Readers : pc'[r] = IF r = t THEN to ELSE pc[r]
  BY <1>1 DEF Tasks
<1> QED BY <1>1, <1>2 DEF Holders

\* A reader moves and neither its socket nor the number of faults changes.
LEMMA ReaderQuiet ==
  ASSUME NEW r \in Readers, DOMAIN pc = Tasks, Reader(r) \/ ReaderFault(r),
         ~ OpenConn(r), ~ CloseSocket(r), ~ HeadError(r), ~ SpawnCreate(r)
  PROVE  Accounted
<1> USE DEF Branch, SetReader, SetMad, NetFault, HeapFault, flags, res, data, budget,
            Closing, Connected
<1> DEFINE Stays == /\ DOMAIN pc' = DOMAIN pc /\ Holders' = Holders
<1>1. CASE \/ FifoInit(r) \/ ReaderLoop(r) \/ OpenCleared(r) \/ HeadOk(r)
  <2>1. Stays
    BY <1>1, HoldersMove DEF FifoInit, ReaderLoop, OpenCleared, HeadOk
  <2>2. UNCHANGED <<sockets, netFaults>>
    BY <1>1 DEF FifoInit, ReaderLoop, OpenCleared, HeadOk
  <2> QED BY <2>1, <2>2 DEF Accounted, Quiet
<1>2. CASE \/ ReaderStop(r) \/ ReadSocket(r) \/ FifoWrite(r) \/ SpawnCheck(r)
           \/ SpawnEnable(r)
  <2>1. Stays
    BY <1>2, HoldersMove DEF ReaderStop, ReadSocket, FifoWrite, SpawnCheck, SpawnEnable
  <2>2. UNCHANGED <<sockets, netFaults>>
    BY <1>2 DEF ReaderStop, ReadSocket, FifoWrite, SpawnCheck, SpawnEnable
  <2> QED BY <2>1, <2>2 DEF Accounted, Quiet
<1>3. CASE \/ SpawnFailedMad(r) \/ SpawnFailedReader(r) \/ ReadMore(r)
           \/ StopMadCheck(r)
  <2>1. Stays
    BY <1>3, HoldersMove DEF SpawnFailedMad, SpawnFailedReader, ReadMore, StopMadCheck
  <2>2. UNCHANGED <<sockets, netFaults>>
    BY <1>3 DEF SpawnFailedMad, SpawnFailedReader, ReadMore, StopMadCheck
  <2> QED BY <2>1, <2>2 DEF Accounted, Quiet
<1>4. CASE StopMad(r) \/ WaitMad(r) \/ FifoClose(r) \/ ReaderAck(r)
  <2>1. Stays
    BY <1>4, HoldersMove DEF StopMad, WaitMad, FifoClose, ReaderAck
  <2>2. UNCHANGED <<sockets, netFaults>>
    BY <1>4 DEF StopMad, WaitMad, FifoClose, ReaderAck
  <2> QED BY <2>1, <2>2 DEF Accounted, Quiet
<1>5. CASE FifoInitFail(r) \/ OpenFail(r) \/ ReadEnd(r) \/ SpawnFail(r)
  <2>1. Stays
    BY <1>5, HoldersMove DEF FifoInitFail, OpenFail, ReadEnd, SpawnFail
  <2>2. sockets' = sockets
    BY <1>5 DEF FifoInitFail, OpenFail, ReadEnd, SpawnFail
  <2>3. netFaults' = netFaults \/ (netFaults > 0 /\ netFaults' = netFaults - 1)
    <3>1. HeapFault \/ NetFault
      BY <1>5 DEF FifoInitFail, OpenFail, ReadEnd, SpawnFail
    <3> QED BY ONLY <3>1 DEF HeapFault, NetFault
  <2> QED BY <2>1, <2>2, <2>3 DEF Accounted, Quiet
<1> QED BY <1>1, <1>2, <1>3, <1>4, <1>5 DEF Reader, ReaderFault

\* The steps of a reader that open a socket, close it or forget it, and the
\* one that creates a decoder.
LEMMA ReaderSocket ==
  ASSUME NEW r \in Readers, DOMAIN pc = Tasks,
         OpenConn(r) \/ CloseSocket(r) \/ HeadError(r) \/ SpawnCreate(r)
  PROVE  Accounted
<1> USE DEF NetFault, data, budget, flags, res
<1>1. CASE OpenConn(r)
  <2>1. /\ DOMAIN pc' = DOMAIN pc /\ r \notin Holders
        /\ Holders' = Holders \cup {r}
    BY <1>1, HoldersMove DEF OpenConn, Closing, Connected
  <2>2. sockets' = sockets + 1 /\ netFaults' = netFaults
    BY <1>1 DEF OpenConn
  <2> QED BY <2>1, <2>2 DEF Accounted, Opens
<1>2. CASE CloseSocket(r)
  <2>1. /\ DOMAIN pc' = DOMAIN pc /\ r \in Holders
        /\ Holders' = Holders \ {r}
    BY <1>2, HoldersMove DEF CloseSocket, Closing, Connected
  <2>2. sockets' = sockets - 1 /\ netFaults' = netFaults
    BY <1>2 DEF CloseSocket
  <2> QED BY <2>1, <2>2 DEF Accounted, Closes
<1>3. CASE HeadError(r)
  <2>1. /\ DOMAIN pc' = DOMAIN pc /\ r \in Holders
        /\ Holders' = Holders \ {r}
    BY <1>3, HoldersMove DEF HeadError, Closing, Connected
  <2>2. sockets' = sockets /\ netFaults > 0 /\ netFaults' = netFaults - 1
    BY <1>3 DEF HeadError
  <2> QED BY <2>1, <2>2 DEF Accounted, Forgets
<1>4. CASE SpawnCreate(r)
  <2>1. PICK m \in Mads : /\ pc[r] = "create"
                          /\ pc' = [pc EXCEPT ![r] = "more?", ![m] = "init"]
    BY <1>4 DEF SpawnCreate
  <2>2. /\ DOMAIN pc' = DOMAIN pc
        /\ \A q \in Readers : pc'[q] = IF q = r THEN "more?" ELSE pc[q]
    BY <2>1, SlotsAssumption DEF Tasks
  <2>3. Holders' = Holders
    <3>1. "create" \in Closing /\ "more?" \in Closing
      BY DEF Closing, Connected
    <3>2. \A q \in Readers : pc'[q] \in Closing <=> pc[q] \in Closing
      BY <2>1, <2>2, <3>1
    <3> QED BY <3>2 DEF Holders
  <2>4. UNCHANGED <<sockets, netFaults>>
    BY <1>4 DEF SpawnCreate
  <2> QED BY <2>2, <2>3, <2>4 DEF Accounted, Quiet
<1> QED BY <1>1, <1>2, <1>3, <1>4

\* The decoders have nothing to do with the sockets.
LEMMA MadQuiet ==
  ASSUME NEW m \in Mads, DOMAIN pc = Tasks, Mad(m) \/ MadFault(m)
  PROVE  Accounted
<1> USE DEF Branch, SetReader, SetMad, HeapFault, flags, res, data, budget
<1>1. \E from, to : Goto(m, from, to)
  BY DEF Mad, MadFault, I2sInit, MadAlloc, MadLoop, InputPoll, InputRead, Decode,
         I2sClose, MadStopReader, MadAck, I2sInitFail, MadAllocFail
<1>2. UNCHANGED <<sockets, netFaults>>
  BY DEF Mad, MadFault, I2sInit, MadAlloc, MadLoop, InputPoll, InputRead, Decode,
         I2sClose, MadStopReader, MadAck, I2sInitFail, MadAllocFail
<1>3. DOMAIN pc' = DOMAIN pc /\ Holders' = Holders
  BY <1>1, HoldersMove, SlotsAssumption
<1> QED BY <1>2, <1>3 DEF Accounted, Quiet

\* Neither have those who start and close.
LEMMA ControllerQuiet ==
  ASSUME NEW c \in Controllers, DOMAIN pc = Tasks,
         \/ Controller(c) \/ StartFail(c)
         \/ \E what \in {"start", "close"} : Command(c, what)
  PROVE  Accounted
<1> USE DEF Branch, SetReader, SetMad, HeapFault, flags, res, data, budget
<1>1. CASE StartCreate(c)
  <2>1. PICK r \in Readers : /\ pc[r] = "none"
                             /\ pc' = [pc EXCEPT ![c] = "idle", ![r] = "init"]
    BY <1>1 DEF StartCreate
  <2>2. /\ DOMAIN pc' = DOMAIN pc
        /\ \A q \in Readers : pc'[q] = IF q = r THEN "init" ELSE pc[q]
    BY <2>1, SlotsAssumption DEF Tasks
  <2>3. Holders' = Holders
    <3>1. "none" \notin Closing /\ "init" \notin Closing
      BY DEF Closing, Connected
    <3>2. \A q \in Readers : pc'[q] \in Closing <=> pc[q] \in Closing
      BY <2>1, <2>2, <3>1
    <3> QED BY <3>2 DEF Holders
  <2>4. UNCHANGED <<sockets, netFaults>>
    BY <1>1 DEF StartCreate
  <2> QED BY <2>2, <2>3, <2>4 DEF Accounted, Quiet
<1>2. CASE ~ StartCreate(c)
  <2>1. \E from, to : Goto(c, from, to)
    BY <1>2 DEF Controller, StartFail, Command, CloseCheck, CloseClear, CloseWait,
                CloseReset, CloseReturn, StartEnable, StartFailed
  <2>2. UNCHANGED <<sockets, netFaults>>
    BY <1>2 DEF Controller, StartFail, Command, CloseCheck, CloseClear, CloseWait,
                CloseReset, CloseReturn, StartEnable, StartFailed
  <2>3. DOMAIN pc' = DOMAIN pc /\ Holders' = Holders
    BY <2>1, HoldersMove, SlotsAssumption
  <2> QED BY <2>2, <2>3 DEF Accounted, Quiet
<1> QED BY <1>1, <1>2

\* What a step does to the number of sockets, it does to their holders or it
\* uses up a fault.
LEMMA AccountedInv ==
  ASSUME SocketsInv, Accounted PROVE SocketsInv'
<1>1. Holders \in SUBSET Readers
  BY DEF Holders
<1>2. IsFiniteSet(Holders) /\ Cardinality(Holders) \in Nat
  BY <1>1, SlotsAssumption, FS_Subset, FS_CardinalityType
<1>3. /\ sockets \in Nat /\ netFaults \in Nat /\ netFaults <= NetFaults /\ NetFaults \in Nat
      /\ Cardinality(Holders) <= sockets
      /\ sockets <= Cardinality(Holders) + (NetFaults - netFaults)
  BY PlayerAssumption DEF SocketsInv, Leaked
<1>4. DOMAIN pc' = Tasks
  BY DEF SocketsInv, Accounted
<1>5. CASE Quiet
  <2>1. Cardinality(Holders') = Cardinality(Holders)
    BY <1>5 DEF Quiet
  <2>2. sockets' = sockets /\ (netFaults' = netFaults \/ (netFaults > 0 /\ netFaults' = netFaults - 1))
    BY <1>3, <1>5 DEF Quiet, Accounted
  <2> QED BY <1>2, <1>3, <1>4, <2>1, <2>2 DEF SocketsInv, Leaked
<1>6. CASE Opens
  <2>1. PICK r \in Readers \ Holders : Holders' = Holders \cup {r}
    BY <1>6 DEF Opens
  <2>2. Cardinality(Holders') = Cardinality(Holders) + 1
    BY <1>2, <2>1, FS_AddElement
  <2>3. sockets' = sockets + 1 /\ netFaults' = netFaults
    BY <1>6 DEF Opens
  <2> QED BY <1>2, <1>3, <1>4, <2>2, <2>3 DEF SocketsInv, Leaked
<1>7. CASE Closes \/ Forgets
  <2>1. PICK r \in Holders : Holders' = Holders \ {r}
    BY <1>7 DEF Closes, Forgets
  <2>2. Cardinality(Holders') = Cardinality(Holders) - 1
    BY <1>2, <2>1, FS_RemoveElement
  <2>3. Cardinality(Holders) # 0
    BY <1>2, <2>1, FS_EmptySet
  <2>4. \/ sockets' = sockets - 1 /\ netFaults' = netFaults
        \/ sockets' = sockets /\ netFaults > 0 /\ netFaults' = netFaults - 1
    BY <1>3, <1>7 DEF Closes, Forgets, Accounted
  <2> QED BY <1>2, <1>3, <1>4, <2>2, <2>3, <2>4 DEF SocketsInv, Leaked
<1> QED BY <1>5, <1>6, <1>7 DEF Accounted

\* SocketsInv is inductive by itself.
LEMMA SocketsStep ==
  ASSUME SocketsInv, [Next]_vars PROVE SocketsInv'
<1>1. DOMAIN pc = Tasks
  BY DEF SocketsInv
<1>2. CASE UNCHANGED vars
  BY <1>2 DEF vars, res, budget, SocketsInv, Holders, Leaked
<1>3. CASE Next
  <2>1. Accounted
    BY <1>1, <1>3, ControllerQuiet, ReaderQuiet, ReaderSocket, MadQuiet
    DEF Next, Fault, ReaderFault, MadFault
  <2> QED BY <2>1, AccountedInv
<1> QED BY <1>2, <1>3

\* It holds throughout, whatever the controllers and the readers do.
THEOREM SocketsCounted == Spec => []SocketsInv
<1>1. Init => SocketsInv
  <2> SUFFICES ASSUME Init PROVE SocketsInv
    OBVIOUS
  <2>1. /\ pc = [t \in Tasks |-> IF t \in Controllers THEN "idle" ELSE "none"]
        /\ sockets = 0 /\ netFaults = NetFaults
    BY DEF Init, Tasks
  <2>2. \A r \in Readers : pc[r] = "none"
    BY <2>1, SlotsAssumption DEF Tasks
  <2>3. Holders = {}
    BY <2>2 DEF Holders, Closing, Connected
  <2>4. Cardinality(Holders) = 0
    BY <2>3, FS_EmptySet
  <2> QED BY <2>1, <2>4, PlayerAssumption DEF SocketsInv, Leaked
<1>2. SocketsInv /\ [Next]_vars => SocketsInv'
  BY SocketsStep
<1> QED BY <1>1, <1>2, PTL DEF Spec

\* This holds for any number of controllers, readers and faults: a connection
\* that is still open after the last reader has ended was lost in one of them.
THEOREM SocketsAccounted == Spec => []SocketPerFault
<1>1. SocketsInv => SocketPerFault
  <2> SUFFICES ASSUME SocketsInv, NoTask(Readers) PROVE sockets <= Leaked
    BY DEF SocketPerFault, Leaked
  <2>1. Holders = {}
    BY DEF NoTask, Holders, Closing, Connected
  <2>2. Cardinality(Holders) = 0
    BY <2>1, FS_EmptySet
  <2> QED BY <2>2, PlayerAssumption DEF SocketsInv, Leaked
<1> QED BY <1>1, SocketsCounted, PTL

---------------------------------------------------------------------------
(* The invariant.                                                          *)

\* The variables that are functions, and where a reader may be.
ReaderAt == {"none", "init", "loop", "open", "head", "body", "raw", "read",
             "write", "spawn?", "spawn", "create", "nomad", "noread", "more?",
             "closefd", "stop", "end", "stopmad", "waitmad", "closefifo", "ack"}
FunInv ==
  /\ DOMAIN pc = Tasks /\ \A r \in Readers : pc[r] \in ReaderAt
  /\ cmd \in [Controllers -> {"none", "start", "close"}]
  /\ got \in [Readers -> BOOLEAN]
  /\ need \in [Mads -> 0..Need] /\ take \in [Mads -> 0..Need]

\* input() never takes more than is missing.
TakeInv == \A m \in Mads : pc[m] = "take" => take[m] <= need[m]

\* One command at a time.
OneCommand ==
  \A c1, c2 \in Controllers : pc[c1] # "idle" /\ pc[c2] # "idle" => c1 = c2

\* Generations do not overlap: the one that is started waits for the last.
OneReader == \A r1, r2 \in Readers : pc[r1] # "none" /\ pc[r2] # "none" => r1 = r2
OneMad == \A m1, m2 \in Mads : pc[m1] # "none" /\ pc[m2] # "none" => m1 = m2

\* When connect_close is over there is no reader, and until the start has made
\* one there is none.
StartInv ==
  \A c \in Controllers :
    /\ cmd[c] = "start" /\ pc[c] \in {"closed", "create", "failed"} => NoTask(Readers)
    /\ pc[c] \in {"create", "failed"} => cmd[c] = "start"
    /\ pc[c] = "create" => tskreader_enable # -1
    /\ pc[c] = "wait" => tskreader_enable # 1
    /\ pc[c] = "reset" => NoTask(Readers)

\* -1 is the answer of a reader that is gone, 1 speaks of one that exists.
ReaderFlagInv ==
  /\ tskreader_enable = -1 => NoTask(Readers)
  /\ tskreader_enable = 1 => \/ ~ NoTask(Readers)
                             \/ \E c \in Controllers : pc[c] \in {"create", "failed"}

\* A decoder exists only under a reader that has not yet begun to close, and
\* while the flag says so, or while the reader waits for it.
Feeding == {"loop", "open", "head", "body", "raw", "read", "write", "spawn?",
            "more?", "closefd", "stop", "end", "stopmad"}
MadInv ==
  \A m \in Mads : pc[m] # "none" =>
    /\ fifoOpen
    /\ \E r \in Readers : \/ tskmad_enable = 1 /\ pc[r] \in Feeding
                          \/ tskmad_enable = 0 /\ pc[r] = "waitmad"
MadFlagInv ==
  /\ tskmad_enable = 1 => \/ ~ NoTask(Mads)
                          \/ \E r \in Readers : pc[r] \in {"create", "nomad"}
  /\ \A r \in Readers : pc[r] = "create" => tskmad_enable = 1

\* From its allocation to its release by the reader the FIFO is there.
Holding == {"loop", "open", "head", "body", "raw", "read", "write", "spawn?",
            "spawn", "create", "nomad", "noread", "more?", "closefd", "stop"}
FifoInv ==
  /\ \A r \in Readers : pc[r] \in Holding => fifoOpen
  /\ \A r \in Readers : pc[r] = "ack" => ~ fifoOpen
  /\ NoTask(Readers) => ~ fifoOpen

\* The I2S objects belong to a decoder.
Decoding == {"alloc", "loop", "poll", "take", "decode", "exit"}
I2sInv == i2sOpen => \E m \in Mads : pc[m] \in Decoding

\* What speaks of values, and what speaks of where the tasks are.
Data == TypeOK /\ FunInv /\ TakeInv
Life == /\ OneCommand /\ OneReader /\ OneMad /\ StartInv /\ ReaderFlagInv
        /\ MadInv /\ MadFlagInv /\ FifoInv /\ I2sInv
IInv == Data /\ (InOrder => Life)

---------------------------------------------------------------------------
(* Data: the values.  Where other tasks are does not matter.               *)

\* One task goes on and no other.
Moved(t, to) ==
  /\ DOMAIN pc' = Tasks /\ pc'[t] = to
  /\ \A u \in Tasks : u # t => pc'[u] = pc[u]
LEMMA TaskMoves ==
  ASSUME Data, NEW t \in Tasks, NEW from, NEW to, Goto(t, from, to)
  PROVE  pc[t] = from /\ Moved(t, to)
<1>1. pc[t] = from /\ pc' = [pc EXCEPT ![t] = to] /\ DOMAIN pc = Tasks
  BY DEF Goto, Data, FunInv
<1> QED BY <1>1 DEF Moved

\* The three ways in which a step treats the bounds and the histories.
Spent ==
  /\ commands' \in 0..Commands /\ netFaults' \in 0..NetFaults
  /\ heapFaults' \in 0..HeapFaults /\ wanted' \in BOOLEAN /\ crossed' \in BOOLEAN
LEMMA BudgetSpent ==
  ASSUME Data, UNCHANGED budget \/ NetFault \/ HeapFault
  PROVE  Spent
<1>1. wanted' \in BOOLEAN /\ crossed' \in BOOLEAN
  BY DEF Data, TypeOK, budget, NetFault, HeapFault
<1>2. /\ commands \in 0..Commands /\ netFaults \in 0..NetFaults
      /\ heapFaults \in 0..HeapFaults
  BY DEF Data, TypeOK
<1>3. /\ commands' = commands
      /\ netFaults' = netFaults \/ (netFaults > 0 /\ netFaults' = netFaults - 1)
      /\ heapFaults' = heapFaults \/ (heapFaults > 0 /\ heapFaults' = heapFaults - 1)
  BY DEF budget, NetFault, HeapFault
<1> QED BY <1>1, <1>2, <1>3, PlayerAssumption DEF Spent

\* What a step of a reader does to the values.
LEMMA ReaderData ==
  ASSUME Data, sockets' \in Nat, NEW r \in Readers,
         Reader(r) \/ ReaderFault(r), ~ SpawnCreate(r)
  PROVE  Data'
<1> USE DEF Branch, SetReader, SetMad, flags, res, data
<1>1. \E from, to : to \in ReaderAt /\ Goto(r, from, to)
  <2>1. CASE \/ FifoInit(r) \/ ReaderLoop(r) \/ OpenConn(r) \/ OpenCleared(r) \/ HeadOk(r)
             \/ ReaderStop(r) \/ ReadSocket(r) \/ FifoWrite(r) \/ SpawnCheck(r)
    BY <2>1 DEF FifoInit, ReaderLoop, OpenConn, OpenCleared, HeadOk, ReaderStop, ReadSocket,
                FifoWrite, SpawnCheck, ReaderAt
  <2>2. CASE \/ SpawnEnable(r) \/ SpawnFailedMad(r) \/ SpawnFailedReader(r) \/ ReadMore(r)
             \/ CloseSocket(r) \/ StopMadCheck(r) \/ StopMad(r) \/ WaitMad(r)
    BY <2>2 DEF SpawnEnable, SpawnFailedMad, SpawnFailedReader, ReadMore, CloseSocket,
                StopMadCheck, StopMad, WaitMad, ReaderAt
  <2>3. CASE FifoClose(r) \/ ReaderAck(r) \/ ReaderFault(r)
    BY <2>3 DEF FifoClose, ReaderAck, ReaderFault, FifoInitFail, OpenFail, HeadError,
                ReadEnd, SpawnFail, ReaderAt
  <2> QED BY <2>1, <2>2, <2>3 DEF Reader
<1>2. /\ DOMAIN pc' = Tasks /\ \A q \in Readers : pc'[q] \in ReaderAt
      /\ \A m \in Mads : pc'[m] = pc[m]
  BY <1>1, TaskMoves, SlotsAssumption DEF Moved, Tasks, Data, FunInv
<1>3. /\ UNCHANGED <<cmd, need, take, i2sOpen>>
      /\ got' = got \/ \E b \in BOOLEAN : got' = [got EXCEPT ![r] = b]
  BY DEF Reader, ReaderFault, FifoInit, ReaderLoop, OpenConn, OpenCleared, HeadOk, ReaderStop,
         ReadSocket, FifoWrite, SpawnCheck, SpawnEnable, SpawnFailedMad, SpawnFailedReader,
         ReadMore, CloseSocket, StopMadCheck, StopMad, WaitMad, FifoClose, ReaderAck,
         FifoInitFail, OpenFail, HeadError, ReadEnd, SpawnFail
<1>4. \/ UNCHANGED <<fifoOpen, fill>>
      \/ fifoOpen' \in BOOLEAN /\ fill' = 0
      \/ fifoOpen' = fifoOpen /\ fill < Cap /\ fill' = fill + 1
  BY DEF Reader, ReaderFault, FifoInit, ReaderLoop, OpenConn, OpenCleared, HeadOk, ReaderStop,
         ReadSocket, FifoWrite, SpawnCheck, SpawnEnable, SpawnFailedMad, SpawnFailedReader,
         ReadMore, CloseSocket, StopMadCheck, StopMad, WaitMad, FifoClose, ReaderAck,
         FifoInitFail, OpenFail, HeadError, ReadEnd, SpawnFail
<1>5. /\ tskreader_enable' \in {tskreader_enable, -1, 0, 1}
      /\ tskmad_enable' \in {tskmad_enable, -1, 0, 1}
  BY DEF Reader, ReaderFault, FifoInit, ReaderLoop, OpenConn, OpenCleared, HeadOk, ReaderStop,
         ReadSocket, FifoWrite, SpawnCheck, SpawnEnable, SpawnFailedMad, SpawnFailedReader,
         ReadMore, CloseSocket, StopMadCheck, StopMad, WaitMad, FifoClose, ReaderAck,
         FifoInitFail, OpenFail, HeadError, ReadEnd, SpawnFail
<1>6. UNCHANGED budget \/ NetFault \/ HeapFault
  BY DEF Reader, ReaderFault, FifoInit, ReaderLoop, OpenConn, OpenCleared, HeadOk, ReaderStop,
         ReadSocket, FifoWrite, SpawnCheck, SpawnEnable, SpawnFailedMad, SpawnFailedReader,
         ReadMore, CloseSocket, StopMadCheck, StopMad, WaitMad, FifoClose, ReaderAck,
         FifoInitFail, OpenFail, HeadError, ReadEnd, SpawnFail
<1>7. Spent
  BY <1>6, BudgetSpent
<1>8. got' \in [Readers -> BOOLEAN] /\ \A q \in Readers : got'[q] \in BOOLEAN
  BY <1>3 DEF Data, FunInv
<1>9. fill' \in 0..Cap /\ fifoOpen' \in BOOLEAN
  <2>1. fill \in 0..Cap /\ Cap \in Nat
    BY PlayerAssumption DEF Data, TypeOK
  <2>2. fill' \in 0..Cap
    BY ONLY <1>4, <2>1
  <2>3. fifoOpen' \in BOOLEAN
    BY <1>4 DEF Data, TypeOK
  <2> QED BY <2>2, <2>3
<1>10. tskreader_enable' \in Flag /\ tskmad_enable' \in Flag
  BY <1>5 DEF Data, TypeOK, Flag
<1>11. (FunInv /\ TakeInv)'
  BY <1>2, <1>3, <1>8 DEF Data, FunInv, TakeInv
<1>12. TypeOK'
  BY <1>3, <1>7, <1>8, <1>9, <1>10 DEF Data, TypeOK, Spent
<1> QED BY <1>11, <1>12 DEF Data

\* What a step of a decoder does to them.
LEMMA MadData ==
  ASSUME Data, sockets' \in Nat, NEW m \in Mads, Mad(m) \/ MadFault(m)
  PROVE  Data'
<1> USE DEF Branch, SetReader, SetMad, flags, res, data
<1>1. \E from, to : Goto(m, from, to)
  BY DEF Mad, MadFault, I2sInit, MadAlloc, MadLoop, InputPoll, InputRead, Decode,
         I2sClose, MadStopReader, MadAck, I2sInitFail, MadAllocFail
<1>2. /\ DOMAIN pc' = Tasks /\ m \in Tasks
      /\ \A u \in Tasks : u # m => pc'[u] = pc[u]
  BY <1>1, TaskMoves DEF Moved, Tasks
<1>3. UNCHANGED <<cmd, got, fifoOpen>>
  BY DEF Mad, MadFault, I2sInit, MadAlloc, MadLoop, InputPoll, InputRead, Decode,
         I2sClose, MadStopReader, MadAck, I2sInitFail, MadAllocFail
<1>4. i2sOpen' \in BOOLEAN
  BY DEF Mad, MadFault, I2sInit, MadAlloc, MadLoop, InputPoll, InputRead, Decode,
         I2sClose, MadStopReader, MadAck, I2sInitFail, MadAllocFail, Data, TypeOK
<1>5. tskreader_enable' \in Flag /\ tskmad_enable' \in Flag
  BY DEF Mad, MadFault, I2sInit, MadAlloc, MadLoop, InputPoll, InputRead, Decode,
         I2sClose, MadStopReader, MadAck, I2sInitFail, MadAllocFail, Data, TypeOK, Flag
<1>6. Spent
  <2>1. UNCHANGED budget \/ NetFault \/ HeapFault
    BY DEF Mad, MadFault, I2sInit, MadAlloc, MadLoop, InputPoll, InputRead, Decode,
           I2sClose, MadStopReader, MadAck, I2sInitFail, MadAllocFail
  <2> QED BY <2>1, BudgetSpent
<1>7. /\ fill \in 0..Cap /\ Cap \in Nat /\ Need \in Nat
      /\ need \in [Mads -> 0..Need] /\ take \in [Mads -> 0..Need]
      /\ need[m] \in 0..Need /\ take[m] \in 0..Need
      /\ pc[m] = "take" => take[m] <= need[m]
  BY PlayerAssumption DEF Data, TypeOK, FunInv, TakeInv
<1>8. /\ fill' \in 0..Cap
      /\ need' \in [Mads -> 0..Need] /\ take' \in [Mads -> 0..Need]
      /\ \A n \in Mads : n # m => need'[n] = need[n] /\ take'[n] = take[n]
      /\ pc'[m] = "take" => take'[m] <= need'[m]
  <2>1. CASE MadLoop(m)
    <3>1. PICK k \in 0..Need : need' = [need EXCEPT ![m] = k]
      <4>1. PICK k \in 1..Need :
              need' = [need EXCEPT ![m] = IF tskmad_enable = 1 THEN k ELSE 0]
        BY <2>1 DEF MadLoop
      <4>2. (IF tskmad_enable = 1 THEN k ELSE 0) \in 0..Need
        BY <1>7
      <4> QED BY ONLY <4>1, <4>2
    <3>2. take' = take /\ fill' = fill /\ pc'[m] # "take"
      BY <1>2, <2>1, TaskMoves DEF MadLoop, Moved
    <3> QED BY <1>7, <3>1, <3>2
  <2>2. CASE InputPoll(m)
    <3>1. PICK k \in 0..Need : k <= need[m] /\ take' = [take EXCEPT ![m] = k]
      <4>1. take' = [take EXCEPT ![m] = IF fill < need[m] THEN fill ELSE need[m]]
        BY <2>2 DEF InputPoll
      <4>2. /\ (IF fill < need[m] THEN fill ELSE need[m]) \in 0..Need
            /\ (IF fill < need[m] THEN fill ELSE need[m]) <= need[m]
        BY <1>7
      <4> QED BY ONLY <4>1, <4>2
    <3>2. need' = need /\ fill' = fill
      BY <2>2 DEF InputPoll
    <3> QED BY <1>7, <3>1, <3>2
  <2>3. CASE InputRead(m)
    <3>1. /\ take[m] <= need[m] /\ take[m] <= fill /\ fill' = fill - take[m]
          /\ need' = [need EXCEPT ![m] = need[m] - take[m]] /\ take' = take
      BY <1>7, <2>3 DEF InputRead, Goto
    <3>2. pc'[m] # "take"
      BY <1>2, <2>3, TaskMoves DEF InputRead, Moved
    <3>3. need[m] - take[m] \in 0..Need /\ fill - take[m] \in 0..Cap
      BY <1>7, <3>1
    <3> QED BY <1>7, <3>1, <3>2, <3>3
  <2>4. CASE ~ MadLoop(m) /\ ~ InputPoll(m) /\ ~ InputRead(m)
    <3>1. UNCHANGED <<need, take, fill>>
      BY <2>4 DEF Mad, MadFault, I2sInit, MadAlloc, Decode, I2sClose, MadStopReader, MadAck,
                  I2sInitFail, MadAllocFail
    <3>2. pc'[m] # "take"
      BY <1>2, <2>4, TaskMoves
      DEF Mad, MadFault, I2sInit, MadAlloc, Decode, I2sClose, MadStopReader, MadAck,
          I2sInitFail, MadAllocFail, Moved
    <3> QED BY <1>7, <3>1, <3>2
  <2> QED BY <2>1, <2>2, <2>3, <2>4
<1>9. (FunInv /\ TakeInv)'
  BY <1>2, <1>3, <1>8, SlotsAssumption DEF Data, FunInv, TakeInv, Tasks
<1>10. TypeOK'
  <2>1. \A n \in Mads : need'[n] \in 0..Need /\ take'[n] \in 0..Need
    BY <1>8
  <2> QED BY <1>3, <1>4, <1>5, <1>6, <1>8, <2>1 DEF Data, TypeOK, Spent
<1> QED BY <1>9, <1>10 DEF Data

\* What a step of a controller does to them, a new command included.
LEMMA ControllerData ==
  ASSUME Data, sockets' \in Nat, NEW c \in Controllers, ~ StartCreate(c),
         \/ Controller(c) \/ StartFail(c)
         \/ \E what \in {"start", "close"} : Command(c, what)
  PROVE  Data'
<1> USE DEF Branch, SetReader, SetMad, flags, res, data
<1>1. \E from, to : Goto(c, from, to)
  BY DEF Controller, StartFail, Command, CloseCheck, CloseClear, CloseWait, CloseReset,
         CloseReturn, StartEnable, StartFailed
<1>2. /\ DOMAIN pc' = Tasks /\ \A r \in Readers : pc'[r] = pc[r]
      /\ \A m \in Mads : pc'[m] = pc[m]
  BY <1>1, TaskMoves, SlotsAssumption DEF Moved, Tasks
<1>3. /\ UNCHANGED <<fifoOpen, fill, i2sOpen, got, need, take, tskmad_enable>>
      /\ tskreader_enable' \in {tskreader_enable, 0, 1}
  BY DEF Controller, StartFail, Command, CloseCheck, CloseClear, CloseWait, CloseReset,
         CloseReturn, StartEnable, StartFailed
<1>4. /\ cmd' \in [Controllers -> {"none", "start", "close"}]
      /\ \A d \in Controllers : cmd'[d] \in {"none", "start", "close"}
  <2>1. cmd' = cmd \/ \E what \in {"start", "close"} : cmd' = [cmd EXCEPT ![c] = what]
    BY DEF Controller, StartFail, Command, CloseCheck, CloseClear, CloseWait, CloseReset,
           CloseReturn, StartEnable, StartFailed
  <2> QED BY <2>1 DEF Data, FunInv
<1>5. Spent
  <2>1. CASE UNCHANGED budget \/ HeapFault
    BY <2>1, BudgetSpent
  <2>2. CASE CloseCheck(c)
    <3>1. crossed' \in BOOLEAN
      BY <2>2 DEF CloseCheck
    <3> QED BY <2>2, <3>1 DEF CloseCheck, Data, TypeOK, Spent
  <2>3. ASSUME NEW what, Command(c, what) PROVE Spent
    <3>1. crossed' \in BOOLEAN /\ wanted' \in BOOLEAN
      BY <2>3 DEF Command
    <3>2. commands' \in 0..Commands
      BY <2>3, PlayerAssumption DEF Command, Data, TypeOK
    <3> QED BY <2>3, <3>1, <3>2 DEF Command, Data, TypeOK, Spent
  <2> QED
    BY <2>1, <2>2, <2>3
    DEF Controller, StartFail, CloseClear, CloseWait, CloseReset, CloseReturn, StartEnable,
        StartFailed
<1>6. (FunInv /\ TakeInv)'
  BY <1>2, <1>3, <1>4 DEF Data, FunInv, TakeInv
<1>7. TypeOK'
  BY <1>3, <1>4, <1>5 DEF Data, TypeOK, Spent, Flag
<1> QED BY <1>6, <1>7 DEF Data

\* The two creations move two tasks.
LEMMA CreateData ==
  ASSUME Data, sockets' \in Nat, \/ \E r \in Readers : SpawnCreate(r)
                                 \/ \E c \in Controllers : StartCreate(c)
  PROVE  Data'
<1> USE DEF flags, res, data, budget
<1>1. /\ DOMAIN pc' = Tasks /\ \A q \in Readers : pc'[q] \in ReaderAt
      /\ \A n \in Mads : pc'[n] = "take" => pc[n] = "take"
  <2>1. CASE \E r \in Readers : SpawnCreate(r)
    <3>1. PICK r \in Readers, m \in Mads : pc' = [pc EXCEPT ![r] = "more?", ![m] = "init"]
      BY <2>1 DEF SpawnCreate
    <3>2. /\ DOMAIN pc' = Tasks
          /\ \A q \in Readers : pc'[q] = IF q = r THEN "more?" ELSE pc[q]
          /\ \A n \in Mads : pc'[n] = IF n = m THEN "init" ELSE pc[n]
      BY <3>1, SlotsAssumption DEF Data, FunInv, Tasks
    <3> QED BY <3>2 DEF Data, FunInv, ReaderAt
  <2>2. CASE \E c \in Controllers : StartCreate(c)
    <3>1. PICK c \in Controllers, r \in Readers :
            pc' = [pc EXCEPT ![c] = "idle", ![r] = "init"]
      BY <2>2 DEF StartCreate
    <3>2. /\ DOMAIN pc' = Tasks
          /\ \A q \in Readers : pc'[q] = IF q = r THEN "init" ELSE pc[q]
          /\ \A n \in Mads : pc'[n] = pc[n]
      BY <3>1, SlotsAssumption DEF Data, FunInv, Tasks
    <3> QED BY <3>2 DEF Data, FunInv, ReaderAt
  <2> QED BY <2>1, <2>2
<1>2. /\ UNCHANGED <<flags, fifoOpen, fill, i2sOpen, data, commands, netFaults, heapFaults, crossed>>
      /\ wanted' = wanted \/ wanted' = TRUE
  BY DEF SpawnCreate, StartCreate
<1>3. (FunInv /\ TakeInv)'
  BY <1>1, <1>2 DEF Data, FunInv, TakeInv
<1>4. wanted' \in BOOLEAN
  BY <1>2 DEF Data, TypeOK
<1>5. TypeOK'
  BY <1>2, <1>4 DEF Data, TypeOK
<1> QED BY <1>3, <1>5 DEF Data

\* No step leaves the bounds of the values, whatever the tasks are doing.
LEMMA DataStep == ASSUME SocketsInv', Data, [Next]_vars PROVE Data'
<1>1. sockets' \in Nat
  BY DEF SocketsInv
<1>2. CASE UNCHANGED vars
  BY <1>2 DEF vars, flags, res, data, budget, Data, TypeOK, FunInv, TakeInv
<1> QED
  BY <1>1, <1>2, ReaderData, MadData, ControllerData, CreateData
  DEF Next, Fault, ReaderFault, MadFault, Reader, Controller

---------------------------------------------------------------------------
(* Life: what a step of one task leaves alone.                             *)

\* The reader r goes on; it is the only one, and no other task moves.
ReaderMoved(r, from, to) ==
  /\ pc[r] = from /\ pc'[r] = to
  /\ \A q \in Readers : q # r => pc[q] = "none" /\ pc'[q] = "none"
  /\ \A c \in Controllers : pc'[c] = pc[c]
  /\ \A m \in Mads : pc'[m] = pc[m]

\* Readers come one at a time, so the one that moves is the only one.
LEMMA ReaderMoves ==
  ASSUME Data, Life, NEW r \in Readers,
         NEW from, from # "none", NEW to, Goto(r, from, to)
  PROVE  ReaderMoved(r, from, to)
<1>1. pc[r] = from /\ Moved(r, to)
  BY TaskMoves DEF Tasks
<1>2. \A q \in Readers : q # r => pc[q] = "none"
  BY <1>1 DEF Life, OneReader
<1> QED
  BY <1>1, <1>2, SlotsAssumption DEF Moved, ReaderMoved, Tasks

\* The same of a decoder.
MadMoved(m, from, to) ==
  /\ pc[m] = from /\ pc'[m] = to
  /\ \A n \in Mads : n # m => pc[n] = "none" /\ pc'[n] = "none"
  /\ \A c \in Controllers : pc'[c] = pc[c]
  /\ \A r \in Readers : pc'[r] = pc[r]

\* Decoders come one at a time as well.
LEMMA MadMoves ==
  ASSUME Data, Life, NEW m \in Mads,
         NEW from, NEW to, from # "none", Goto(m, from, to)
  PROVE  MadMoved(m, from, to)
<1>1. pc[m] = from /\ Moved(m, to)
  BY TaskMoves DEF Tasks
<1>2. \A n \in Mads : n # m => pc[n] = "none"
  BY <1>1 DEF Life, OneMad
<1> QED
  BY <1>1, <1>2, SlotsAssumption DEF Moved, MadMoved, Tasks

\* The same of a controller.
ControllerMoved(c, from, to) ==
  /\ pc[c] = from /\ pc'[c] = to
  /\ \A d \in Controllers : d # c => pc[d] = "idle" /\ pc'[d] = "idle"
  /\ \A r \in Readers : pc'[r] = pc[r]
  /\ \A m \in Mads : pc'[m] = pc[m]

\* Commands come one at a time.
LEMMA ControllerMoves ==
  ASSUME Data, Life, NEW c \in Controllers,
         NEW from, NEW to, from # "idle", Goto(c, from, to)
  PROVE  ControllerMoved(c, from, to)
<1>1. pc[c] = from /\ Moved(c, to)
  BY TaskMoves DEF Tasks
<1>2. \A d \in Controllers : d # c => pc[d] = "idle"
  BY <1>1 DEF Life, OneCommand
<1> QED
  BY <1>1, <1>2, SlotsAssumption DEF Moved, ControllerMoved, Tasks

---------------------------------------------------------------------------
(* Life: the steps of a reader, of a decoder and of a controller.          *)

\* Every step of tskreader preserves it, faults included.
LEMMA ReaderLife ==
  ASSUME Data, Life, NEW r \in Readers, Reader(r) \/ ReaderFault(r), ~ SpawnCreate(r)
  PROVE  Life'
<1> USE DEF flags, res, data, budget, Branch, SetReader, SetMad, ReaderMoved,
            Life, OneReader, OneMad, OneCommand, StartInv, NoTask, ReaderFlagInv, MadInv,
            MadFlagInv, FifoInv, Holding, Feeding, I2sInv, Decoding
<1>1. Life /\ tskreader_enable \in Flag /\ tskmad_enable \in Flag
  BY DEF Data, TypeOK
<1>2. CASE FifoInit(r)
  <2>1. ReaderMoved(r, "init", "loop")
    BY <1>2, ReaderMoves DEF FifoInit
  <2> QED
    BY <1>1, <1>2, <2>1 DEF FifoInit
<1>3. CASE ReaderLoop(r)
  <2>1. ReaderMoved(r, "loop", "open") \/ ReaderMoved(r, "loop", "end")
    BY <1>3, ReaderMoves DEF ReaderLoop
  <2> QED
    BY <1>1, <1>3, <2>1 DEF ReaderLoop
<1>4. CASE OpenConn(r)
  <2>1. ReaderMoved(r, "open", "head")
    BY <1>4, ReaderMoves DEF OpenConn
  <2> QED
    BY <1>1, <1>4, <2>1 DEF OpenConn
<1>5. CASE OpenCleared(r)
  <2>1. ReaderMoved(r, "open", "stop")
    BY <1>5, ReaderMoves DEF OpenCleared
  <2> QED
    BY <1>1, <1>5, <2>1 DEF OpenCleared
<1>6. CASE HeadOk(r)
  <2>1. ReaderMoved(r, "head", "read") \/ ReaderMoved(r, "head", "body")
    <3>1. PICK to \in {"read", "body"} : Goto(r, "head", to)
      BY <1>6 DEF HeadOk
    <3>2. ReaderMoved(r, "head", to)
      BY <3>1, ReaderMoves
    <3> QED BY <3>2
  <2> QED
    BY <1>1, <1>6, <2>1 DEF HeadOk
<1>7. CASE ReaderStop(r)
  <2>1. ReaderMoved(r, "stop", "end")
    BY <1>7, ReaderMoves DEF ReaderStop
  <2> QED
    BY <1>1, <1>7, <2>1 DEF ReaderStop
<1>8. CASE ReadSocket(r)
  <2>1. ReaderMoved(r, "read", "write")
    BY <1>8, ReaderMoves DEF ReadSocket
  <2> QED
    BY <1>1, <1>8, <2>1 DEF ReadSocket
<1>9. CASE FifoWrite(r)
  <2>1. \/ ReaderMoved(r, "body", "read")
        \/ ReaderMoved(r, "raw", "stop")
        \/ ReaderMoved(r, "write", "spawn?")
    BY <1>9, ReaderMoves DEF FifoWrite
  <2> QED
    BY <1>1, <1>9, <2>1 DEF FifoWrite
<1>10. CASE SpawnCheck(r)
  <2>1. ReaderMoved(r, "spawn?", "spawn") \/ ReaderMoved(r, "spawn?", "more?")
    BY <1>10, ReaderMoves DEF SpawnCheck
  <2>3. tskmad_enable # 1 => NoTask(Mads)
    BY <1>1, <2>1
  <2>4. tskmad_enable = 1 => ReaderMoved(r, "spawn?", "more?")
    BY <1>10, <2>1 DEF SpawnCheck, HalfFull, Goto
  <2> QED
    BY <1>1, <2>1, <2>3, <2>4, <1>10 DEF SpawnCheck, HalfFull
<1>11. CASE SpawnEnable(r)
  <2>1. ReaderMoved(r, "spawn", "create")
    BY <1>11, ReaderMoves DEF SpawnEnable
  <2> QED
    BY <1>1, <1>11, <2>1 DEF SpawnEnable
<1>12. CASE SpawnFailedMad(r)
  <2>1. ReaderMoved(r, "nomad", "noread")
    BY <1>12, ReaderMoves DEF SpawnFailedMad
  <2> QED
    BY <1>1, <1>12, <2>1 DEF SpawnFailedMad
<1>13. CASE SpawnFailedReader(r)
  <2>1. ReaderMoved(r, "noread", "closefd")
    BY <1>13, ReaderMoves DEF SpawnFailedReader
  <2> QED
    BY <1>1, <1>13, <2>1 DEF SpawnFailedReader
<1>14. CASE ReadMore(r)
  <2>1. ReaderMoved(r, "more?", "read") \/ ReaderMoved(r, "more?", "closefd")
    BY <1>14, ReaderMoves DEF ReadMore
  <2> QED
    BY <1>1, <1>14, <2>1 DEF ReadMore
<1>15. CASE CloseSocket(r)
  <2>1. ReaderMoved(r, "closefd", "loop")
    BY <1>15, ReaderMoves DEF CloseSocket
  <2> QED
    BY <1>1, <1>15, <2>1 DEF CloseSocket
<1>16. CASE StopMadCheck(r)
  <2>1. ReaderMoved(r, "end", "stopmad") \/ ReaderMoved(r, "end", "closefifo")
    BY <1>16, ReaderMoves DEF StopMadCheck
  <2>3. tskmad_enable # 1 => NoTask(Mads)
    BY <1>1, <2>1
  <2>4. tskmad_enable = 1 => ReaderMoved(r, "end", "stopmad")
    BY <1>16, <2>1 DEF StopMadCheck, Goto
  <2> QED
    BY <1>1, <2>1, <2>3, <2>4, <1>16 DEF StopMadCheck
<1>17. CASE StopMad(r)
  <2>1. ReaderMoved(r, "stopmad", "waitmad")
    BY <1>17, ReaderMoves DEF StopMad
  <2> QED
    BY <1>1, <1>17, <2>1 DEF StopMad
<1>18. CASE WaitMad(r)
  <2>1. ReaderMoved(r, "waitmad", "closefifo")
    BY <1>18, ReaderMoves DEF WaitMad
  <2> QED
    BY <1>1, <1>18, <2>1 DEF WaitMad
<1>19. CASE FifoClose(r)
  <2>1. ReaderMoved(r, "closefifo", "ack")
    BY <1>19, ReaderMoves DEF FifoClose
  <2> QED
    BY <1>1, <1>19, <2>1 DEF FifoClose
<1>20. CASE ReaderAck(r)
  <2>1. ReaderMoved(r, "ack", "none")
    BY <1>20, ReaderMoves DEF ReaderAck
  <2> QED
    BY <1>1, <1>20, <2>1 DEF ReaderAck
<1>21. CASE FifoInitFail(r)
  <2>1. ReaderMoved(r, "init", "end")
    BY <1>21, ReaderMoves DEF FifoInitFail
  <2> QED
    BY <1>1, <1>21, <2>1 DEF FifoInitFail, HeapFault
<1>22. CASE OpenFail(r)
  <2>1. ReaderMoved(r, "open", "stop")
    BY <1>22, ReaderMoves DEF OpenFail
  <2> QED
    BY <1>1, <1>22, <2>1 DEF OpenFail, NetFault
<1>23. CASE HeadError(r)
  <2>1. ReaderMoved(r, "head", "stop") \/ ReaderMoved(r, "head", "raw")
    <3>1. PICK to \in {"stop", "raw"} : Goto(r, "head", to)
      BY <1>23 DEF HeadError
    <3>2. ReaderMoved(r, "head", to)
      BY <3>1, ReaderMoves
    <3> QED BY <3>2
  <2> QED
    BY <1>1, <1>23, <2>1 DEF HeadError, NetFault
<1>24. CASE ReadEnd(r)
  <2>1. ReaderMoved(r, "read", "spawn?")
    BY <1>24, ReaderMoves DEF ReadEnd
  <2> QED
    BY <1>1, <1>24, <2>1 DEF ReadEnd, NetFault
<1>25. CASE SpawnFail(r)
  <2>1. ReaderMoved(r, "create", "nomad")
    BY <1>25, ReaderMoves DEF SpawnFail
  <2> QED
    BY <1>1, <1>25, <2>1 DEF SpawnFail, HeapFault
<1> QED
  BY <1>2, <1>3, <1>4, <1>5, <1>6, <1>7, <1>8, <1>9, <1>10, <1>11, <1>12, <1>13, <1>14,
     <1>15, <1>16, <1>17, <1>18, <1>19, <1>20, <1>21, <1>22, <1>23, <1>24, <1>25
   DEF Reader, ReaderFault

\* So does every step of tskmad.
LEMMA MadLife ==
  ASSUME Data, Life, NEW m \in Mads, Mad(m) \/ MadFault(m)
  PROVE  Life'
<1> USE DEF flags, res, data, budget, Branch, SetReader, SetMad, MadMoved,
            Life, OneReader, OneMad, OneCommand, StartInv, NoTask, ReaderFlagInv, MadInv,
            MadFlagInv, FifoInv, Holding, Feeding, I2sInv, Decoding
<1>1. Life /\ tskreader_enable \in Flag /\ tskmad_enable \in Flag
  BY DEF Data, TypeOK
<1>2. CASE I2sInit(m)
  <2>1. MadMoved(m, "init", "alloc")
    BY <1>2, MadMoves DEF I2sInit
  <2> QED
    BY <1>1, <1>2, <2>1 DEF I2sInit
<1>3. CASE MadAlloc(m)
  <2>1. MadMoved(m, "alloc", "loop")
    BY <1>3, MadMoves DEF MadAlloc
  <2> QED
    BY <1>1, <1>3, <2>1 DEF MadAlloc
<1>4. CASE MadLoop(m)
  <2>1. MadMoved(m, "loop", "poll") \/ MadMoved(m, "loop", "exit")
    BY <1>4, MadMoves DEF MadLoop
  <2> QED
    BY <1>1, <1>4, <2>1 DEF MadLoop
<1>5. CASE InputPoll(m)
  <2>1. MadMoved(m, "poll", "take")
    BY <1>5, MadMoves DEF InputPoll
  <2> QED
    BY <1>1, <1>5, <2>1 DEF InputPoll
<1>6. CASE InputRead(m)
  <2>1. MadMoved(m, "take", "decode") \/ MadMoved(m, "take", "poll")
    BY <1>6, MadMoves DEF InputRead
  <2> QED
    BY <1>1, <1>6, <2>1 DEF InputRead
<1>7. CASE Decode(m)
  <2>1. MadMoved(m, "decode", "loop")
    BY <1>7, MadMoves DEF Decode
  <2> QED
    BY <1>1, <1>7, <2>1 DEF Decode
<1>8. CASE I2sClose(m)
  <2>1. MadMoved(m, "exit", "noread")
    BY <1>8, MadMoves DEF I2sClose
  <2> QED
    BY <1>1, <1>8, <2>1 DEF I2sClose
<1>9. CASE MadStopReader(m)
  <2>1. MadMoved(m, "noread", "ack")
    BY <1>9, MadMoves DEF MadStopReader
  <2> QED
    BY <1>1, <1>9, <2>1 DEF MadStopReader
<1>10. CASE MadAck(m)
  <2>1. MadMoved(m, "ack", "none")
    BY <1>10, MadMoves DEF MadAck
  <2> QED
    BY <1>1, <1>10, <2>1 DEF MadAck
<1>11. CASE I2sInitFail(m)
  <2>1. MadMoved(m, "init", "exit")
    BY <1>11, MadMoves DEF I2sInitFail
  <2> QED
    BY <1>1, <1>11, <2>1 DEF I2sInitFail, HeapFault
<1>12. CASE MadAllocFail(m)
  <2>1. MadMoved(m, "alloc", "exit")
    BY <1>12, MadMoves DEF MadAllocFail
  <2> QED
    BY <1>1, <1>12, <2>1 DEF MadAllocFail, HeapFault
<1> QED
  BY <1>2, <1>3, <1>4, <1>5, <1>6, <1>7, <1>8, <1>9, <1>10, <1>11, <1>12 DEF Mad,
     MadFault

\* So does a controller's, as long as no start finds a reader ending by itself.
LEMMA ControllerLife ==
  ASSUME Data, Life, ~ crossed', NEW c \in Controllers,
         Controller(c) \/ StartFail(c), ~ StartCreate(c)
  PROVE  Life'
<1> USE DEF flags, res, data, budget, Branch, SetReader, SetMad, ControllerMoved,
            Life, OneReader, OneMad, OneCommand, StartInv, NoTask, ReaderFlagInv, MadInv,
            MadFlagInv, FifoInv, Holding, Feeding, I2sInv, Decoding
<1>1. Life /\ tskreader_enable \in Flag /\ tskmad_enable \in Flag
  BY DEF Data, TypeOK
<1>2. CASE CloseCheck(c)
  <2>1. CASE tskreader_enable = 1
    <3>1. ControllerMoved(c, "check", "clear")
      BY <1>2, <2>1, ControllerMoves DEF CloseCheck
    <3> QED
      BY <1>1, <1>2, <3>1 DEF CloseCheck
  <2>2. CASE tskreader_enable # 1
    <3>1. ControllerMoved(c, "check", "closed")
      BY <1>2, <2>2, ControllerMoves DEF CloseCheck
    <3>2. cmd[c] = "start" => NoTask(Readers)
      BY <1>2, <2>2 DEF CloseCheck
    <3> QED
      BY <1>1, <1>2, <3>1, <3>2 DEF CloseCheck
  <2> QED BY <2>1, <2>2
<1>3. CASE CloseClear(c)
  <2>1. ControllerMoved(c, "clear", "wait")
    BY <1>3, ControllerMoves DEF CloseClear
  <2> QED
    BY <1>1, <1>3, <2>1 DEF CloseClear
<1>4. CASE CloseWait(c)
  <2>1. ControllerMoved(c, "wait", "reset")
    BY <1>4, ControllerMoves DEF CloseWait
  <2>2. tskreader_enable # 0 /\ UNCHANGED <<flags, res, data, budget>>
    BY <1>4 DEF CloseWait
  <2>3. NoTask(Readers)
    BY <1>1, <2>1, <2>2 DEF Flag
  <2> QED
    BY <1>1, <2>1, <2>2, <2>3
<1>5. CASE CloseReset(c)
  <2>1. ControllerMoved(c, "reset", "closed")
    BY <1>5, ControllerMoves DEF CloseReset
  <2> QED
    BY <1>1, <1>5, <2>1 DEF CloseReset
<1>6. CASE CloseReturn(c)
  <2>1. ControllerMoved(c, "closed", "idle")
    BY <1>6, ControllerMoves DEF CloseReturn
  <2> QED
    BY <1>1, <1>6, <2>1 DEF CloseReturn
<1>7. CASE StartEnable(c)
  <2>1. ControllerMoved(c, "closed", "create")
    BY <1>7, ControllerMoves DEF StartEnable
  <2> QED
    BY <1>1, <1>7, <2>1 DEF StartEnable
<1>8. CASE StartFailed(c)
  <2>1. ControllerMoved(c, "failed", "idle")
    BY <1>8, ControllerMoves DEF StartFailed
  <2> QED
    BY <1>1, <1>8, <2>1 DEF StartFailed
<1>9. CASE StartFail(c)
  <2>1. ControllerMoved(c, "create", "failed")
    BY <1>9, ControllerMoves DEF StartFail
  <2> QED
    BY <1>1, <1>9, <2>1 DEF StartFail, HeapFault
<1> QED
  BY <1>2, <1>3, <1>4, <1>5, <1>6, <1>7, <1>8, <1>9 DEF Controller

\* tskreader creates a decoder: while it is at "create" there is none.
LEMMA SpawnCreateLife ==
  ASSUME Data, Life, NEW r \in Readers, SpawnCreate(r) PROVE Life'
<1> USE DEF flags, res, data, budget
<1>1. PICK m \in Mads :
        /\ pc[m] = "none" /\ pc[r] = "create"
        /\ pc' = [pc EXCEPT ![r] = "more?", ![m] = "init"]
  BY DEF SpawnCreate
<1>2. r \in Tasks /\ m \in Tasks /\ r # m /\ DOMAIN pc = Tasks
  BY SlotsAssumption DEF Tasks, Data, FunInv
<1>3. /\ pc'[r] = "more?" /\ pc'[m] = "init"
      /\ \A t \in Tasks : t # r /\ t # m => pc'[t] = pc[t]
  BY <1>1, <1>2
<1>4. \A q \in Readers : q # r => pc[q] = "none" /\ pc'[q] = "none"
  BY <1>1, <1>3, SlotsAssumption DEF Life, OneReader, Tasks
<1>5. \A n \in Mads : pc[n] = "none"
  BY <1>1, <1>4 DEF Life, MadInv, Feeding
<1>6. \A n \in Mads : n # m => pc'[n] = "none"
  BY <1>3, <1>5, SlotsAssumption DEF Tasks
<1>7. \A c \in Controllers : pc'[c] = pc[c]
  BY <1>3, SlotsAssumption DEF Tasks
<1>8. UNCHANGED <<flags, res, data, budget>>
  BY DEF SpawnCreate
<1>9. (OneCommand /\ OneReader /\ OneMad)'
  BY <1>3, <1>4, <1>6, <1>7 DEF Life, OneCommand, OneReader, OneMad
<1>10. ~ NoTask(Readers) /\ tskreader_enable # -1
  BY <1>1 DEF Life, NoTask, ReaderFlagInv
<1>11. ~ NoTask(Readers)'
  BY <1>3 DEF NoTask
<1>12. (StartInv /\ ReaderFlagInv)'
  BY <1>7, <1>8, <1>10, <1>11 DEF Life, StartInv, ReaderFlagInv
<1>13. fifoOpen /\ tskmad_enable = 1 /\ ~ i2sOpen
  BY <1>1, <1>5 DEF Life, FifoInv, Holding, MadFlagInv, I2sInv, Decoding
<1>14. (MadInv /\ MadFlagInv /\ FifoInv /\ I2sInv)'
  BY <1>3, <1>4, <1>6, <1>8, <1>13
  DEF NoTask, MadInv, MadFlagInv, FifoInv, Feeding, I2sInv
<1> QED BY <1>9, <1>12, <1>14 DEF Life

\* connect_start creates a reader: while it is at "create" there is none.
LEMMA StartCreateLife ==
  ASSUME Data, Life, NEW c \in Controllers, StartCreate(c) PROVE Life'
<1> USE DEF flags, res, data
<1>1. PICK r \in Readers :
        /\ pc[r] = "none" /\ pc[c] = "create"
        /\ pc' = [pc EXCEPT ![c] = "idle", ![r] = "init"]
  BY DEF StartCreate
<1>2. r \in Tasks /\ c \in Tasks /\ r # c /\ DOMAIN pc = Tasks
  BY SlotsAssumption DEF Tasks, Data, FunInv
<1>3. /\ pc'[r] = "init" /\ pc'[c] = "idle"
      /\ \A t \in Tasks : t # r /\ t # c => pc'[t] = pc[t]
  BY <1>1, <1>2
<1>4. \A d \in Controllers : pc'[d] = "idle"
  BY <1>1, <1>3, SlotsAssumption DEF Life, OneCommand, Tasks
<1>5. NoTask(Readers) /\ tskreader_enable # -1
  BY <1>1 DEF Life, StartInv
<1>6. \A m \in Mads : pc[m] = "none" /\ pc'[m] = "none"
  BY <1>3, <1>5, SlotsAssumption DEF Life, MadInv, NoTask, Feeding, Tasks
<1>7. \A q \in Readers : q # r => pc'[q] = "none"
  BY <1>3, <1>5, SlotsAssumption DEF NoTask, Tasks
<1>8. UNCHANGED <<flags, res, data>>
  BY DEF StartCreate
<1>9. (OneCommand /\ OneReader /\ OneMad)'
  BY <1>4, <1>6, <1>7 DEF OneCommand, OneReader, OneMad
<1>10. (StartInv /\ ReaderFlagInv)'
  BY <1>3, <1>4, <1>5, <1>8 DEF StartInv, NoTask, ReaderFlagInv
<1>11. ~ fifoOpen /\ ~ i2sOpen /\ tskmad_enable # 1
  BY <1>5, <1>6 DEF Life, FifoInv, MadFlagInv, I2sInv, Decoding, NoTask
<1>12. (MadInv /\ MadFlagInv /\ FifoInv /\ I2sInv)'
  BY <1>3, <1>6, <1>7, <1>8, <1>11
  DEF NoTask, MadInv, MadFlagInv, FifoInv, Holding, I2sInv
<1> QED BY <1>9, <1>10, <1>12 DEF Life

\* A command given while no other one is under way changes nothing else.
LEMMA CommandLife ==
  ASSUME Data, Life, ~ crossed', NEW c \in Controllers, NEW what, Command(c, what)
  PROVE  Life'
<1> USE DEF flags, res
<1>1. pc[c] = "idle" /\ Moved(c, "check")
  BY TaskMoves DEF Command, Tasks
<1>2. \A d \in Controllers : pc[d] = "idle"
  BY DEF Command
<1>3. /\ pc'[c] = "check" /\ \A d \in Controllers : d # c => pc'[d] = "idle"
      /\ \A r \in Readers : pc'[r] = pc[r]
      /\ \A m \in Mads : pc'[m] = pc[m]
  BY <1>1, <1>2, SlotsAssumption DEF Moved, Tasks
<1>4. UNCHANGED <<flags, res>>
  BY DEF Command
<1> QED
  BY <1>2, <1>3, <1>4
  DEF Life, OneCommand, OneReader, OneMad, StartInv, NoTask, ReaderFlagInv,
      MadInv, MadFlagInv, FifoInv, Holding, Feeding, I2sInv

\* The flags keep to the tasks until crossed becomes true.
LEMMA LifeStep == ASSUME Data, Life, ~ crossed', [Next]_vars PROVE Life'
<1>1. CASE UNCHANGED vars
  BY <1>1
  DEF vars, flags, res, data, budget, Life, OneCommand, OneReader, OneMad, StartInv, NoTask,
      ReaderFlagInv, MadInv, MadFlagInv, FifoInv, I2sInv
<1>2. ASSUME NEW c \in Controllers, Controller(c) \/ StartFail(c) PROVE Life'
  BY <1>2, ControllerLife, StartCreateLife
<1>3. ASSUME NEW c \in Controllers, NEW what, Command(c, what) PROVE Life'
  BY <1>3, CommandLife
<1>4. ASSUME NEW r \in Readers, Reader(r) \/ ReaderFault(r) PROVE Life'
  BY <1>4, ReaderLife, SpawnCreateLife
<1>5. ASSUME NEW m \in Mads, Mad(m) \/ MadFault(m) PROVE Life'
  BY <1>5, MadLife
<1> QED
  BY <1>1, <1>2, <1>3, <1>4, <1>5 DEF Next, Fault, ReaderFault, MadFault

\* Commands that have crossed stay so.
LEMMA CrossedStays == ASSUME [Next]_vars, crossed PROVE crossed'
<1> USE DEF flags, res, data, budget, vars, Branch, SetReader, SetMad, NetFault, HeapFault
<1>1. ASSUME NEW c \in Controllers,
             \/ Controller(c) \/ StartFail(c) \/ \E what \in {"start", "close"} : Command(c, what)
      PROVE  crossed'
  BY <1>1 DEF Controller, StartFail, Command, CloseCheck, CloseClear, CloseWait, CloseReset,
              CloseReturn, StartEnable, StartCreate, StartFailed
<1>2. ASSUME NEW r \in Readers, Reader(r) \/ ReaderFault(r) PROVE crossed'
  BY <1>2 DEF Reader, ReaderFault, FifoInit, ReaderLoop, OpenConn, OpenCleared, HeadOk,
              ReaderStop, ReadSocket, FifoWrite, SpawnCheck, SpawnEnable, SpawnCreate,
              SpawnFailedMad, SpawnFailedReader, ReadMore, CloseSocket, StopMadCheck, StopMad,
              WaitMad, FifoClose, ReaderAck, FifoInitFail, OpenFail, HeadError, ReadEnd, SpawnFail
<1>3. ASSUME NEW m \in Mads, Mad(m) \/ MadFault(m) PROVE crossed'
  BY <1>3 DEF Mad, MadFault, I2sInit, MadAlloc, MadLoop, InputPoll, InputRead, Decode,
              I2sClose, MadStopReader, MadAck, I2sInitFail, MadAllocFail
<1> QED BY <1>1, <1>2, <1>3 DEF Next, Fault, ReaderFault, MadFault

---------------------------------------------------------------------------
(* The theorems.                                                           *)

\* In the initial state nothing exists.
LEMMA InitInv == ASSUME Init PROVE IInv
<1>1. pc = [t \in Tasks |-> IF t \in Controllers THEN "idle" ELSE "none"]
  BY DEF Init, Tasks
<1>2. DOMAIN pc = Tasks
      /\ (\A r \in Readers : pc[r] = "none") /\ (\A m \in Mads : pc[m] = "none")
      /\ \A c \in Controllers : pc[c] = "idle"
  BY <1>1, SlotsAssumption DEF Tasks
<1>3. /\ fifoOpen \in BOOLEAN /\ i2sOpen \in BOOLEAN
      /\ wanted \in BOOLEAN /\ crossed \in BOOLEAN
  BY DEF Init
<1>4. TypeOK
  BY <1>3, PlayerAssumption DEF Init, TypeOK, Flag
<1>5. FunInv /\ TakeInv
  BY <1>2, PlayerAssumption DEF Init, FunInv, ReaderAt, TakeInv
<1>6. Life
  BY <1>2
   DEF Init, Life, OneCommand, OneReader, OneMad, StartInv, NoTask, ReaderFlagInv,
       MadInv, MadFlagInv, FifoInv, Holding, I2sInv
<1> QED BY <1>4, <1>5, <1>6 DEF IInv, Data

\* IInv holds throughout, for any number of controllers, whatever fails and
\* however often, and whether or not commands cross.
THEOREM Invariance == Spec => []IInv
<1>1. SocketsInv' /\ IInv /\ [Next]_vars => IInv'
  <2> SUFFICES ASSUME SocketsInv', IInv, [Next]_vars PROVE IInv'
    OBVIOUS
  <2>1. Data'
    BY DataStep DEF IInv
  <2>2. ASSUME ~ crossed' PROVE Life'
    <3>1. Life
      BY <2>2, CrossedStays DEF IInv, InOrder
    <3> QED BY <2>2, <3>1, LifeStep DEF IInv
  <2> QED BY <2>1, <2>2 DEF IInv, InOrder
<1> QED BY <1>1, InitInv, SocketsCounted, PTL DEF Spec

\* The flags keep their three values, the fill its bounds, and no socket is
\* closed that was not opened.
THEOREM TypeCorrect == Spec => []TypeOK
<1>1. IInv => TypeOK
  BY DEF IInv, Data
<1> QED BY <1>1, Invariance, PTL

\* No task uses the FIFO after tskreader has closed it, unless commands crossed
\* or a start found a reader ending by itself.
THEOREM FifoSafe == Spec => []NoUseAfterClose
<1>1. ASSUME Data, Life, NEW t \in Readers \cup Mads, pc[t] \in FifoUse PROVE fifoOpen
  <2>1. CASE t \in Readers
    BY <1>1, <2>1 DEF Data, Life, FunInv, ReaderAt, FifoInv, Holding, FifoUse
  <2>2. CASE t \in Mads
    BY <1>1, <2>2 DEF Life, MadInv, FifoUse
  <2> QED BY <2>1, <2>2
<1>2. IInv => NoUseAfterClose
  BY <1>1 DEF IInv, NoUseAfterClose
<1> QED BY <1>2, Invariance, PTL

\* On the same condition there is never a second decoder.
THEOREM DecoderUnique == Spec => []OneDecoder
<1>1. IInv => OneDecoder
  BY DEF IInv, Life, OneMad, OneDecoder
<1> QED BY <1>1, Invariance, PTL

\* On the same condition connect_close does not return before the player is
\* down, be it a close or the first half of a restart.
THEOREM CloseCloses == Spec => []ClosedMeansDown
<1>1. ASSUME Life, NEW c \in Controllers, pc[c] = "reset" PROVE Down
  <2>1. NoTask(Readers)
    BY <1>1 DEF Life, StartInv
  <2>2. NoTask(Mads)
    BY <1>1, <2>1 DEF Life, MadInv, NoTask, Feeding
  <2>3. ~ fifoOpen /\ ~ i2sOpen
    BY <1>1, <2>1, <2>2 DEF Life, FifoInv, I2sInv, NoTask, Decoding
  <2> QED BY <2>1, <2>2, <2>3 DEF Down
<1>2. IInv => ClosedMeansDown
  BY <1>1 DEF IInv, ClosedMeansDown
<1> QED BY <1>2, Invariance, PTL

\* On the same condition the tasks leave nothing behind, however they end.
THEOREM EndsClean == Spec => []NothingLeft
<1>1. IInv => NothingLeft
  BY DEF IInv, Life, NothingLeft, FifoInv, I2sInv, MadFlagInv, ReaderFlagInv, NoTask, Decoding
<1> QED BY <1>1, Invariance, PTL
=============================================================================

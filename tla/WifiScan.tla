------------------------------ MODULE WifiScan ------------------------------
(***************************************************************************)
(* api/wifi_api_scan.c and the handler of wifi_conf.c that it registers: a *)
(* scan for access points.  Three threads end it:                          *)
(*   the Wi-Fi driver's, which calls the handlers and has the highest      *)
(*     priority, so that a handler runs between any two steps of the       *)
(*     others and is not interrupted by them;                              *)
(*   the caller of api_wifi_scan, when something fails;                    *)
(*   the timer daemon, the lowest of the three, which gives up 2.5 s after *)
(*     the start, or 5 s after the end when the list is kept for a reader. *)
(* They share the record of the scan, the record of the reader and the     *)
(* queue of timer commands, without a lock.  memset of a record is one     *)
(* step: its flag is its last byte.                                        *)
(***************************************************************************)
EXTENDS Integers, Sequences, SequencesExt

CONSTANTS Macs,      \* the access points around
          Signals,   \* their signal strengths
          MaxAp,     \* MAX_AP_SIZE
          Lists,     \* memory for lists of access points
          Timers,    \* memory for timers
          Hasty,     \* the caller may start a scan while the daemon is inside
                     \* wifi_close_scan; else it blocks that long between two
          NULL

ASSUME SignalsAssumption == Signals \subseteq Nat \ {0}
ASSUME MaxApAssumption == MaxAp \in Nat \ {0}
ASSUME HastyAssumption == Hasty \in BOOLEAN
ASSUME NullAssumption == NULL \notin Lists \cup Timers

Caller == "caller"
Daemon == "daemon"
Threads == {Caller, Daemon}

VARIABLES
  scan,     \* scan_result_handler_ptr: [running, show, list, ap, pap]; show:
            \* there is a result handler; ap: the entries of the list,
            \* pap: their indices, strongest first
  web,      \* web_scan_handler_ptr: [flg, timer, list]
  handlers, \* the events with a handler: "report", "done"
  lists,    \* lists in use
  timers,   \* per timer "free", "dormant" or "active"
  tq,       \* xTimerQueue
  scanning, \* the driver scans
  pc,       \* where the caller and the daemon are
  cb,       \* api_wifi_scan was given a result handler
  closes,   \* calls of wifi_close_scan the caller still has to make
  heard     \* history: the best signal of each access point in this scan

vars == <<scan, web, handlers, lists, timers, tq, scanning, pc, cb, closes,
          heard>>
memory == <<lists, timers, tq>>
local == <<cb, closes>>

NoScan == [running |-> FALSE, show |-> FALSE, list |-> NULL,
           ap |-> [i \in 1..MaxAp |-> NULL], pap |-> <<>>]
NoWeb == [flg |-> 0, timer |-> NULL, list |-> NULL]

Init ==
  /\ scan = NoScan /\ web = NoWeb
  /\ handlers = {} /\ lists = {} /\ tq = <<>>
  /\ timers = [t \in Timers |-> "free"]
  /\ scanning = FALSE
  /\ pc = [a \in Threads |-> "idle"]
  /\ cb = FALSE /\ closes = 0
  /\ heard = [m \in Macs |-> 0]

Goto(a, l) == pc' = [pc EXCEPT ![a] = l]
Command(c, t) == [cmd |-> c, timer |-> t]

-----------------------------------------------------------------------------
\* wifi_scan_each_report_hdl: an access point enters the list in the order of
\* the signals.  Signal(i) is the signal of the i-th pointer.
Signal(i) == scan.ap[scan.pap[i]].signal
Count == Len(scan.pap)
Known(m) == {i \in 1..Count : scan.ap[scan.pap[i]].mac = m}

\* It is known: a stronger signal moves it towards the head.
AboveAll(i, s) == 1..(i - 1)
Above(i, s) == {j \in 1..(i - 1) : Signal(j) >= s}
Raised(i, s) ==
  LET k == scan.pap[i]
      rest == RemoveAt(scan.pap, i)
  IN [scan EXCEPT !.ap[k].signal = s,
                  !.pap = InsertAt(rest, Max({0} \cup Above(i, s)) + 1, k)]

\* It is new: it takes the next entry, or that of the weakest one.
Entry(m, s) == [mac |-> m, signal |-> s]
Weaker(rest, s) == {i \in 1..Len(rest) : s > scan.ap[rest[i]].signal}
Place(rest, s) == Min(Weaker(rest, s) \cup {Len(rest) + 1})
Entered(k, rest, m, s) ==
  [scan EXCEPT !.ap[k] = Entry(m, s), !.pap = InsertAt(rest, Place(rest, s), k)]

OthersAndLast == scan.pap
Others == Front(scan.pap)

Reported(m, s) ==
  IF Known(m) # {}
  THEN LET i == CHOOSE i \in Known(m) : TRUE
       IN IF s > Signal(i) THEN Raised(i, s) ELSE scan
  ELSE IF Count < MaxAp THEN Entered(Count + 1, scan.pap, m, s)
  ELSE IF s > Signal(MaxAp) THEN Entered(scan.pap[MaxAp], Others, m, s)
  ELSE scan

Report(m, s) ==
  /\ scanning /\ "report" \in handlers
  /\ scan' = Reported(m, s)
  /\ heard' = [heard EXCEPT ![m] = Max({@, s})]
  /\ UNCHANGED <<web, handlers, memory, scanning, pc, local>>

-----------------------------------------------------------------------------
\* wifi_close_scan, step by step in the caller and in the daemon.
StillRegistered(event) == handlers
Unregistered(event) == handlers \ {event}

Scheduled(a) == a = Daemon => pc[Caller] \in {"idle", "wait"}
At(a, l) == pc[a] = l /\ Scheduled(a)

CloseScan(a) ==
  /\ At(a, "close")
  /\ Goto(a, IF scan.running THEN "unregReport" ELSE "closeWeb")
  /\ UNCHANGED <<scan, web, handlers, memory, scanning, local, heard>>

UnregReport(a) ==
  /\ At(a, "unregReport") /\ Goto(a, "unregDone")
  /\ handlers' = Unregistered("report")
  /\ UNCHANGED <<scan, web, memory, scanning, local, heard>>

UnregDone(a) ==
  /\ At(a, "unregDone") /\ Goto(a, "freeList")
  /\ handlers' = Unregistered("done")
  /\ UNCHANGED <<scan, web, memory, scanning, local, heard>>

FreeList(a) ==
  /\ At(a, "freeList") /\ Goto(a, "clearScan")
  /\ lists' = lists \ {scan.list}
  /\ UNCHANGED <<scan, web, handlers, timers, tq, scanning, local, heard>>

ClearScan(a) ==
  /\ At(a, "clearScan") /\ Goto(a, "closeWeb")
  /\ scan' = NoScan
  /\ UNCHANGED <<web, handlers, memory, scanning, local, heard>>

\* The end of wifi_close_scan; the caller may have called it twice.
Returned(a) ==
  IF a = Caller /\ closes > 1 THEN Goto(a, "close") /\ closes' = closes - 1
                              ELSE Goto(a, "idle") /\ closes' = IF a = Caller THEN 0 ELSE closes

CloseWeb(a) ==
  /\ At(a, "closeWeb")
  /\ IF web.flg # 0 THEN Goto(a, "delete") /\ UNCHANGED closes ELSE Returned(a)
  /\ UNCHANGED <<scan, web, handlers, memory, scanning, cb, heard>>

\* xTimerDelete sends a command, also from the daemon itself.
WithoutDelete(q) == q
WithDeleteFirst(q) == IF web.timer = NULL THEN q ELSE <<Command("delete", web.timer)>> \o q
WithDelete(q) == IF web.timer = NULL THEN q ELSE Append(q, Command("delete", web.timer))

DeleteTimer(a) ==
  /\ At(a, "delete") /\ Goto(a, "freeWeb")
  /\ tq' = WithDelete(tq)
  /\ UNCHANGED <<scan, web, handlers, lists, timers, scanning, local, heard>>

FreeWeb(a) ==
  /\ At(a, "freeWeb") /\ Goto(a, "clearWeb")
  /\ lists' = lists \ {web.list}
  /\ UNCHANGED <<scan, web, handlers, timers, tq, scanning, local, heard>>

ClearWeb(a) ==
  /\ At(a, "clearWeb")
  /\ web' = NoWeb
  /\ Returned(a)
  /\ UNCHANGED <<scan, handlers, memory, scanning, cb, heard>>

Close(a) == \/ CloseScan(a) \/ UnregReport(a) \/ UnregDone(a) \/ FreeList(a)
            \/ ClearScan(a) \/ CloseWeb(a) \/ DeleteTimer(a) \/ FreeWeb(a)
            \/ ClearWeb(a)

-----------------------------------------------------------------------------
\* _wifi_scan_done_hdl, in the driver's thread.  With a result handler, or
\* without results, the scan is closed on the spot.
Keeps == ~ scan.show /\ web.flg # 0 /\ Count > 0
DoneCloses ==
  /\ scanning /\ "done" \in handlers /\ ~ Keeps
  /\ IF scan.running
     THEN handlers' = {} /\ scan' = NoScan
     ELSE UNCHANGED <<handlers, scan>>
  /\ IF web.flg # 0
     THEN web' = NoWeb /\ tq' = WithDelete(tq)
     ELSE UNCHANGED <<web, tq>>
  /\ lists' = lists \ ((IF scan.running THEN {scan.list} ELSE {})
                       \cup (IF web.flg # 0 THEN {web.list} ELSE {}))
  /\ scanning' = FALSE
  /\ UNCHANGED <<timers, pc, local, heard>>

\* Otherwise the list passes to the reader for 5 s more.
Kept(list) == [web EXCEPT !.list = list, !.flg = 2]
DoneKeeps ==
  /\ scanning /\ "done" \in handlers /\ Keeps
  /\ tq' = Append(tq, Command("period", web.timer))
  /\ lists' = lists \ {web.list}
  /\ web' = Kept(scan.list)
  /\ handlers' = {}
  /\ scan' = NoScan
  /\ scanning' = FALSE
  /\ UNCHANGED <<timers, pc, local, heard>>

\* The driver's scan may go on after the list was closed.
DoneUnheard ==
  /\ scanning /\ "done" \notin handlers
  /\ scanning' = FALSE
  /\ UNCHANGED <<scan, web, handlers, memory, pc, local, heard>>

-----------------------------------------------------------------------------
\* api_wifi_scan: only one scan at a time, and none before the list of the
\* last one was freed.
MayStart == ~ scan.running /\ web.flg = 0
Fail(n) == Goto(Caller, "close") /\ closes' = n

\* The timer is made and started; the daemon will see it when the caller waits.
Start(withCb) ==
  /\ pc[Caller] = "idle" /\ MayStart
  /\ Hasty \/ pc[Daemon] = "idle"
  /\ cb' = withCb
  /\ scan' = [scan EXCEPT !.running = TRUE]
  /\ \/ \E t \in Timers :
          /\ timers[t] = "free"
          /\ timers' = [timers EXCEPT ![t] = "dormant"]
          /\ web' = [NoWeb EXCEPT !.flg = 1, !.timer = t]
          /\ tq' = Append(tq, Command("start", t))
          /\ Goto(Caller, "prepare") /\ UNCHANGED closes
     \/ /\ web' = [NoWeb EXCEPT !.flg = 1]
        /\ Fail(1)
        /\ UNCHANGED <<timers, tq>>
  /\ UNCHANGED <<handlers, lists, scanning, heard>>

\* wext_set_pscan_channels, and the list of _wifi_scan_networks.  When the
\* latter fails both functions close the scan.
Prepare ==
  /\ pc[Caller] = "prepare"
  /\ \/ Fail(1) /\ UNCHANGED <<scan, lists, heard>>
     \/ /\ Fail(2)
        /\ scan' = [scan EXCEPT !.show = cb]
        /\ UNCHANGED <<lists, heard>>
     \/ \E l \in Lists \ lists :
          /\ lists' = lists \cup {l}
          /\ scan' = [scan EXCEPT !.show = cb, !.list = l]
          /\ heard' = [m \in Macs |-> 0]
          /\ Goto(Caller, "regReport") /\ UNCHANGED closes
  /\ UNCHANGED <<web, handlers, timers, tq, scanning, cb>>

RegReport ==
  /\ pc[Caller] = "regReport" /\ Goto(Caller, "regDone")
  /\ handlers' = handlers \cup {"report"}
  /\ UNCHANGED <<scan, web, memory, scanning, local, heard>>

RegDone ==
  /\ pc[Caller] = "regDone" /\ Goto(Caller, "setScan")
  /\ handlers' = handlers \cup {"done"}
  /\ UNCHANGED <<scan, web, memory, scanning, local, heard>>

\* wext_set_scan.  The driver may still be busy with the scan before.
SetScan ==
  /\ pc[Caller] = "setScan"
  /\ \/ /\ scanning' = TRUE
        /\ Goto(Caller, IF cb THEN "wait" ELSE "idle") /\ UNCHANGED closes
     \/ Fail(2) /\ UNCHANGED scanning
  /\ UNCHANGED <<scan, web, handlers, memory, cb, heard>>

\* At most 3 s, in steps of 10 ms, and less when the scan is over.
WaitEnds ==
  /\ pc[Caller] = "wait" /\ Goto(Caller, "idle")
  /\ UNCHANGED <<scan, web, handlers, memory, scanning, local, heard>>

-----------------------------------------------------------------------------
\* The timer daemon: an expired timer calls wifi_close_scan.  Whether time or
\* a command comes first is open.
Expire(t) ==
  /\ At(Daemon, "idle") /\ Goto(Daemon, "close")
  /\ timers[t] = "active"
  /\ timers' = [timers EXCEPT ![t] = "dormant"]
  /\ UNCHANGED <<scan, web, handlers, lists, tq, scanning, local, heard>>

AppliedUnstarted(c) == CASE c.cmd = "delete" -> "free"
                         [] c.cmd = "start" -> "dormant"
                         [] c.cmd = "period" -> "active"
Applied(c) == IF c.cmd = "delete" THEN "free" ELSE "active"
Apply ==
  /\ At(Daemon, "idle")
  /\ tq # <<>> /\ tq' = Tail(tq)
  /\ timers' = [timers EXCEPT ![Head(tq).timer] = Applied(Head(tq))]
  /\ UNCHANGED <<scan, web, handlers, lists, scanning, pc, local, heard>>

CallerStep == Prepare \/ RegReport \/ RegDone \/ SetScan \/ WaitEnds \/ Close(Caller)
DaemonStep == (\E t \in Timers : Expire(t)) \/ Apply \/ Close(Daemon)
DriverStep == \/ \E m \in Macs, s \in Signals : Report(m, s)
              \/ DoneCloses \/ DoneKeeps \/ DoneUnheard

Next == \/ \E withCb \in BOOLEAN : Start(withCb)
        \/ CallerStep \/ DaemonStep \/ DriverStep

Spec == Init /\ [][Next]_vars
\* Both tasks run in the end; nothing is asked of the driver, which may never
\* report that its scan is done.
FairSpec == Spec /\ WF_vars(CallerStep) /\ WF_vars(DaemonStep)

-----------------------------------------------------------------------------
Labels == {"idle", "prepare", "regReport", "regDone", "setScan", "wait", "close",
           "unregReport", "unregDone", "freeList", "clearScan", "closeWeb",
           "delete", "freeWeb", "clearWeb"}
Entries == [mac : Macs, signal : Signals]

\* TYPE INVARIANT.  The pointers are a permutation of the entries in use.
TypeOK ==
  /\ scan \in [running : BOOLEAN, show : BOOLEAN, list : Lists \cup {NULL},
              ap : [1..MaxAp -> Entries \cup {NULL}], pap : Seq(1..MaxAp)]
  /\ web \in [flg : 0..2, timer : Timers \cup {NULL}, list : Lists \cup {NULL}]
  /\ handlers \subseteq {"report", "done"}
  /\ lists \subseteq Lists
  /\ timers \in [Timers -> {"free", "dormant", "active"}]
  /\ tq \in Seq([cmd : {"start", "period", "delete"}, timer : Timers])
  /\ scanning \in BOOLEAN
  /\ pc \in [Threads -> Labels]
  /\ cb \in BOOLEAN /\ closes \in 0..2
  /\ heard \in [Macs -> Signals \cup {0}]
  /\ ToSet(scan.pap) = 1..Count

\* Whenever the driver may call a handler, and wherever a thread is about to
\* free, the memory it will use is still allocated, although each of three
\* threads may have closed the scan in the meantime.
NoStaleList ==
  /\ "report" \in handlers => scan.list \in lists
  /\ \A a \in Threads :
       /\ pc[a] = "freeList" => scan.list \in lists \cup {NULL}
       /\ pc[a] = "freeWeb" => web.list \in lists \cup {NULL}

\* The other way round: memory in use is known to somebody who will free it,
\* a timer also when the command that frees it is on its way.
Deleted(t) == \E i \in 1..Len(tq) : tq[i] = Command("delete", t)
NothingLost ==
  /\ lists \subseteq {scan.list, web.list}
  /\ \A t \in Timers : timers[t] # "free" => web.timer = t \/ Deleted(t)

\* No command reaches a timer after the one that freed it, and none that
\* was freed can expire.
TimerAlive ==
  \A i \in 1..Len(tq) :
    /\ timers[tq[i].timer] # "free"
    /\ tq[i].cmd = "delete" => \A j \in (i + 1)..Len(tq) : tq[j].timer # tq[i].timer

\* The list keeps the strongest access points heard, each once with its best
\* signal and in order: one that is missing has only been pushed out, or
\* turned away, by MaxAp stronger ones.
StrongestKept ==
  "report" \in handlers =>
    /\ \A i, j \in 1..Count : i < j => Signal(i) >= Signal(j)
    /\ \A m \in Macs :
         \/ heard[m] = 0 /\ Known(m) = {}
         \/ \E i \in 1..Count : Known(m) = {i} /\ Signal(i) = heard[m]
         \/ Known(m) = {} /\ Count = MaxAp /\ heard[m] <= Signal(MaxAp)

\* Every scan comes to an end, with all its memory free and its handlers
\* gone, also when the driver never answers: the next one can start.
ScanEnds == scan.running ~> (MayStart /\ lists = {} /\ handlers = {})
=============================================================================

----------------------------- MODULE DeviceLock -----------------------------
(***************************************************************************)
(* os_dep/device_lock.c: one mutex per device, which the tasks that use    *)
(* the flash (the settings, the console, the update) take around every     *)
(* access.  The mutexes are made at the first use, by whichever task comes *)
(* first; a bit per device says that its mutex exists.                     *)
(*                                                                         *)
(* A task is interrupted between any two of the steps below, except in a   *)
(* critical section (interrupts off), where it runs alone.  The mutexes    *)
(* are the kernel's; a device's n-th mutex is <<device, n>>.  That one can *)
(* be made at all is assumed: the code does not look at the result.        *)
(***************************************************************************)
EXTENDS Naturals

CONSTANTS Tasks, Devices, NULL

ASSUME NULLAssumption == NULL \notin Tasks

VARIABLES mutex_init,      \* the devices whose bit is set
          device_mutex,    \* per device: how many mutexes were made for it,
                           \* the entry of the table is the last one
          taken,           \* the kernel's mutexes that are taken
          critical,        \* the task inside the critical section
          pc, device,      \* where a task is and the device it locks
          unlocking,       \* it is in device_mutex_unlock
          old, handle      \* registers: the bits, the mutex it waits for

vars == <<mutex_init, device_mutex, taken, critical, pc, device, unlocking,
          old, handle>>
table == <<mutex_init, device_mutex>>
registers == <<old, handle>>

Init ==
  /\ mutex_init = {}
  /\ device_mutex = [d \in Devices |-> 0]
  /\ taken = {}
  /\ critical = NULL
  /\ pc = [t \in Tasks |-> "idle"]
  /\ device \in [Tasks -> Devices]
  /\ unlocking = [t \in Tasks |-> FALSE]
  /\ old = [t \in Tasks |-> {}]
  /\ handle = [t \in Tasks |-> 0]

\* With the interrupts off no other task runs.
AloneIgnored(t) == TRUE
Alone(t) == critical \in {NULL, t}

At(t, l) == pc[t] = l /\ Alone(t)
GoTo(t, l) == pc' = [pc EXCEPT ![t] = l]

\* Where device_mutex_init returns to.
Returns(t) == IF unlocking[t] THEN "put" ELSE "get"

-----------------------------------------------------------------------------
\* device_mutex_lock
Lock(t, d) ==
  /\ At(t, "idle") /\ GoTo(t, "check")
  /\ device' = [device EXCEPT ![t] = d]
  /\ UNCHANGED <<table, taken, critical, unlocking, registers>>

\* device_mutex_unlock, by the task that holds the lock
Unlock(t) ==
  /\ At(t, "held") /\ GoTo(t, "check")
  /\ unlocking' = [unlocking EXCEPT ![t] = TRUE]
  /\ UNCHANGED <<table, taken, critical, device, registers>>

\* device_mutex_init: a look without protection,
Check(t) ==
  /\ At(t, "check")
  /\ GoTo(t, IF device[t] \in mutex_init THEN Returns(t) ELSE "enter")
  /\ UNCHANGED <<table, taken, critical, device, unlocking, registers>>

Enter(t) ==
  /\ At(t, "enter") /\ GoTo(t, "recheck")
  /\ critical' = t
  /\ UNCHANGED <<table, taken, device, unlocking, registers>>

\* and one that counts.
Missing(d) == d \notin mutex_init
Recheck(t) ==
  /\ At(t, "recheck")
  /\ GoTo(t, IF Missing(device[t]) THEN "create" ELSE "exit")
  /\ UNCHANGED <<table, taken, critical, device, unlocking, registers>>

Create(t) ==
  /\ At(t, "create") /\ GoTo(t, "load")
  /\ device_mutex' = [device_mutex EXCEPT ![device[t]] = @ + 1]
  /\ UNCHANGED <<mutex_init, taken, critical, device, unlocking, registers>>

\* mutex_init |= (1 << device): a load, and a store later.
LoadBits(t) ==
  /\ At(t, "load") /\ GoTo(t, "store")
  /\ old' = [old EXCEPT ![t] = mutex_init]
  /\ UNCHANGED <<table, taken, critical, device, unlocking, handle>>

StoreBits(t) ==
  /\ At(t, "store") /\ GoTo(t, "exit")
  /\ mutex_init' = old[t] \cup {device[t]}
  /\ UNCHANGED <<device_mutex, taken, critical, device, unlocking, registers>>

InterruptsLeftOff == critical
InterruptsOn == NULL
Exit(t) ==
  /\ At(t, "exit") /\ GoTo(t, Returns(t))
  /\ critical' = InterruptsOn
  /\ UNCHANGED <<table, taken, device, unlocking, registers>>

-----------------------------------------------------------------------------
\* rtw_mutex_get_timeout(&device_mutex[device], 10000)
Get(t) ==
  /\ At(t, "get") /\ GoTo(t, "wait")
  /\ handle' = [handle EXCEPT ![t] = device_mutex[device[t]]]
  /\ UNCHANGED <<table, taken, critical, device, unlocking, old>>

Mutex(t) == <<device[t], handle[t]>>

Take(t) ==
  /\ At(t, "wait") /\ GoTo(t, "held")
  /\ Mutex(t) \notin taken
  /\ taken' = taken \cup {Mutex(t)}
  /\ UNCHANGED <<table, critical, device, unlocking, registers>>

\* 10 s without the mutex: a message, and once more.
Timeout(t) ==
  /\ At(t, "wait") /\ GoTo(t, "get")
  /\ Mutex(t) \in taken
  /\ UNCHANGED <<table, taken, critical, device, unlocking, registers>>

\* rtw_mutex_put(&device_mutex[device]): whatever mutex the table holds now
Put(t) ==
  /\ At(t, "put") /\ GoTo(t, "idle")
  /\ unlocking' = [unlocking EXCEPT ![t] = FALSE]
  /\ taken' = taken \ {<<device[t], device_mutex[device[t]]>>}
  /\ UNCHANGED <<table, critical, device, registers>>

Step(t) ==
  \/ Unlock(t) \/ Check(t) \/ Enter(t) \/ Recheck(t) \/ Create(t)
  \/ LoadBits(t) \/ StoreBits(t) \/ Exit(t)
  \/ Get(t) \/ Take(t) \/ Timeout(t) \/ Put(t)

Next == \E t \in Tasks : Step(t) \/ \E d \in Devices : Lock(t, d)

Spec == Init /\ [][Next]_vars
\* Every task is scheduled in the end.  Which of several waiting tasks gets
\* a mutex is the kernel's choice, by priority: no fairness among them.
FairSpec == Spec /\ \A t \in Tasks : WF_vars(Step(t))

-----------------------------------------------------------------------------
Labels == {"idle", "check", "enter", "recheck", "create", "load", "store",
           "exit", "get", "wait", "held", "put"}

\* TYPE INVARIANT.  Exactly the task between Enter and Exit has the
\* interrupts off, and the bits it loaded are still the bits when it stores.
Section == {"recheck", "create", "load", "store", "exit"}
TypeOK ==
  /\ mutex_init \subseteq Devices
  /\ device_mutex \in [Devices -> Nat]
  /\ taken \subseteq Devices \X Nat
  /\ critical \in Tasks \cup {NULL}
  /\ pc \in [Tasks -> Labels]
  /\ device \in [Tasks -> Devices]
  /\ unlocking \in [Tasks -> BOOLEAN]
  /\ old \in [Tasks -> SUBSET Devices]
  /\ handle \in [Tasks -> Nat]
  /\ \A t \in Tasks : pc[t] \in Section <=> critical = t
  /\ \A t \in Tasks : pc[t] = "store" => old[t] = mutex_init

\* From the take to the give, a second mutex_init on the way included, the
\* device belongs to one task: two tasks that both found the mutex missing
\* never end up with one each.
Owns(t) == pc[t] = "held" \/ unlocking[t]
MutualExclusion ==
  \A t, u \in Tasks : Owns(t) /\ Owns(u) /\ device[t] = device[u] => t = u

\* No task ever waits for a mutex that was not made, or that is no longer
\* the one in the table: it could not be woken by the unlock.
WaitsForTheMutex ==
  \A t \in Tasks : pc[t] = "wait" => handle[t] # 0 /\ handle[t] = device_mutex[device[t]]

\* A device gets one mutex, and its bit is never lost to a task that sets
\* the bit of another device.
MadeOnce ==
  [][\A d \in Devices : /\ device_mutex[d] # 0 => device_mutex'[d] = device_mutex[d]
                        /\ d \in mutex_init => d \in mutex_init']_vars

\* A task waits for ever only while others keep taking the mutex: none is
\* left waiting for a mutex nobody will give.
Trying(t) == pc[t] \notin {"idle", "held"} /\ ~unlocking[t]
LockHandedOn ==
  \A t \in Tasks :
    <>[]Trying(t) => []<><<\E u \in Tasks : Take(u) /\ device[u] = device[t]>>_vars
=============================================================================

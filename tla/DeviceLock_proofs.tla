------------------------- MODULE DeviceLock_proofs --------------------------
(***************************************************************************)
(* The safety properties of DeviceLock, proved for every set of tasks and  *)
(* devices.                                                                *)
(*                                                                         *)
(* The unprotected look at the bit is harmless because a bit is set after  *)
(* its mutex is in the table and is never cleared: BitInv says so, PathInv *)
(* carries it to the places where a task relies on it.                     *)
(***************************************************************************)
EXTENDS DeviceLock, TLAPS

\* The one mutex of a device exists when its bit is set, and a moment before.
Making(d) == \E t \in Tasks : pc[t] \in {"load", "store"} /\ device[t] = d
BitInv ==
  \A d \in Devices : /\ d \in mutex_init => device_mutex[d] = 1
                     /\ d \notin mutex_init /\ Making(d) => device_mutex[d] = 1
                     /\ d \notin mutex_init /\ ~ Making(d) => device_mutex[d] = 0

\* What a task knows of its device where it is.
PathInv ==
  \A t \in Tasks :
    /\ pc[t] \in {"create", "load", "store"} => device[t] \notin mutex_init
    /\ pc[t] \in {"exit", "get", "wait", "held", "put"} => device[t] \in mutex_init
    /\ pc[t] = "wait" => handle[t] = 1
    /\ unlocking[t] => pc[t] \in {"check", "put"} /\ device[t] \in mutex_init
    /\ pc[t] = "put" => unlocking[t]

\* The owner of a device has taken its mutex.
TakenInv == \A t \in Tasks : Owns(t) => <<device[t], 1>> \in taken

IInv == TypeOK /\ BitInv /\ PathInv /\ TakenInv /\ MutualExclusion

USE NULLAssumption

-----------------------------------------------------------------------------
\* No device has a mutex and no task is in a call.
LEMMA InitInv == Init => IInv
<1>. SUFFICES ASSUME Init PROVE IInv
  OBVIOUS
<1>1. TypeOK
  BY DEF Init, TypeOK, Labels, Section
<1>2. BitInv
  BY DEF Init, BitInv, Making
<1>3. PathInv
  BY DEF Init, PathInv
<1>4. TakenInv /\ MutualExclusion
  BY DEF Init, TakenInv, MutualExclusion, Owns
<1>. QED  BY <1>1, <1>2, <1>3, <1>4 DEF IInv

\* The steps that change neither the table nor the mutexes.
QuietStep(t) == \/ \E d \in Devices : Lock(t, d)
                \/ Unlock(t) \/ Check(t) \/ Enter(t) \/ Recheck(t)
                \/ LoadBits(t) \/ Exit(t) \/ Get(t) \/ Timeout(t)

\* Steps that neither make, take nor give a mutex.
LEMMA QuietInv == ASSUME IInv, NEW t \in Tasks, QuietStep(t) PROVE IInv'
<1>. USE DEF IInv, At, GoTo, Alone, Returns, Missing, InterruptsOn,
             table, registers, QuietStep,
             Lock, Unlock, Check, Enter, Recheck, LoadBits, Exit, Get, Timeout
<1>1. TypeOK'
  <2>. USE DEF TypeOK, Labels, Section
  <2>1. CASE \E d \in Devices : Lock(t, d)
    BY <2>1
  <2>2. CASE Unlock(t) \/ Check(t) \/ Get(t) \/ Timeout(t)
    BY <2>2
  <2>3. CASE Enter(t)
    BY <2>3
  <2>4. CASE Recheck(t) \/ LoadBits(t)
    BY <2>4
  <2>5. CASE Exit(t)
    BY <2>5
  <2>. QED  BY <2>1, <2>2, <2>3, <2>4, <2>5
<1>2. BitInv'
  <2>1. UNCHANGED <<mutex_init, device_mutex, taken>>
    OBVIOUS
  <2>2. ASSUME NEW d \in Devices PROVE d \notin mutex_init => (Making(d)' <=> Making(d))
    BY DEF TypeOK, Making, PathInv, Section
  <2>. QED  BY <2>1, <2>2 DEF BitInv
<1>3. PathInv'
  BY DEF TypeOK, PathInv, Section, BitInv
<1>4. TakenInv'
  BY DEF TypeOK, TakenInv, PathInv, Owns, Section
<1>5. MutualExclusion'
  BY DEF TypeOK, MutualExclusion, PathInv, Owns, Section
<1>. QED  BY <1>1, <1>2, <1>3, <1>4, <1>5

\* With interrupts off no other task creates the same mutex.
LEMMA CreateInv == ASSUME IInv, NEW t \in Tasks, Create(t) PROVE IInv'
<1>. USE DEF IInv, At, GoTo, Alone, table, registers, Create
<1>1. TypeOK'
  BY DEF TypeOK, Labels, Section
<1>2. BitInv'
  <2>1. \A u \in Tasks : u # t => pc[u] \notin Section
    BY DEF TypeOK, Section
  <2>2. ~ Making(device[t]) /\ Making(device[t])'
    BY <2>1 DEF TypeOK, Making, Section
  <2>3. \A d \in Devices : d # device[t] => (Making(d)' <=> Making(d))
    BY <2>1 DEF TypeOK, Making, Section
  <2>4. device_mutex[device[t]] = 0
    BY <2>2 DEF BitInv, PathInv, TypeOK
  <2>. QED  BY <2>2, <2>3, <2>4 DEF BitInv, TypeOK, PathInv
<1>3. PathInv' /\ TakenInv' /\ MutualExclusion'
  BY DEF TypeOK, PathInv, TakenInv, MutualExclusion, Owns, Section
<1>. QED  BY <1>1, <1>2, <1>3

\* The word of bits stored is the one loaded plus the own bit.
LEMMA StoreInv == ASSUME IInv, NEW t \in Tasks, StoreBits(t) PROVE IInv'
<1>. USE DEF IInv, At, GoTo, Alone, table, registers, StoreBits
<1>0. mutex_init' = mutex_init \cup {device[t]} /\ UNCHANGED <<device_mutex, taken>>
  BY DEF TypeOK
<1>1. TypeOK'
  BY <1>0 DEF TypeOK, Labels, Section
<1>2. BitInv'
  <2>1. \A u \in Tasks : u # t => pc[u] \notin Section
    BY DEF TypeOK, Section
  <2>2. Making(device[t]) /\ \A d \in Devices : d # device[t] => (Making(d)' <=> Making(d))
    BY <2>1 DEF TypeOK, Making, Section
  <2>. QED  BY <1>0, <2>1, <2>2 DEF BitInv, TypeOK, PathInv
<1>3. PathInv'
  BY <1>0 DEF TypeOK, PathInv, Section
<1>4. TakenInv' /\ MutualExclusion'
  BY <1>0 DEF TypeOK, TakenInv, MutualExclusion, PathInv, Owns, Section
<1>. QED  BY <1>1, <1>2, <1>3, <1>4

\* The semaphore was given, so nobody holds the device.
LEMMA TakeInv == ASSUME IInv, NEW t \in Tasks, Take(t) PROVE IInv'
<1>. USE DEF IInv, At, GoTo, Alone, table, registers, Take, Mutex
<1>0. <<device[t], 1>> \notin taken /\ taken' = taken \cup {<<device[t], 1>>}
  BY DEF PathInv
<1>1. TypeOK'
  BY <1>0 DEF TypeOK, Labels, Section
<1>2. BitInv'
  BY DEF BitInv, Making, TypeOK
<1>3. PathInv'
  BY DEF TypeOK, PathInv
<1>4. TakenInv'
  BY <1>0 DEF TypeOK, TakenInv, PathInv, Owns
<1>5. MutualExclusion'
  BY <1>0 DEF TypeOK, TakenInv, PathInv, MutualExclusion, Owns
<1>. QED  BY <1>1, <1>2, <1>3, <1>4, <1>5

\* The unlock gives the mutex that the waiters wait for.
LEMMA PutInv == ASSUME IInv, NEW t \in Tasks, Put(t) PROVE IInv'
<1>. USE DEF IInv, At, GoTo, Alone, table, registers, Put
<1>0. taken' = taken \ {<<device[t], 1>>} /\ Owns(t)
  BY DEF PathInv, BitInv, TypeOK, Owns
<1>1. TypeOK'
  BY <1>0 DEF TypeOK, Labels, Section
<1>2. BitInv'
  BY DEF BitInv, Making, TypeOK
<1>3. PathInv'
  BY DEF TypeOK, PathInv
<1>4. MutualExclusion'
  BY DEF TypeOK, PathInv, MutualExclusion, Owns
<1>5. TakenInv'
  <2>. SUFFICES ASSUME NEW u \in Tasks, Owns(u)' PROVE <<device[u], 1>> \in taken'
    BY DEF TakenInv
  <2>1. u # t /\ Owns(u)
    BY DEF TypeOK, Owns
  <2>2. device[u] # device[t]
    BY <2>1, <1>0 DEF MutualExclusion
  <2>. QED  BY <1>0, <2>1, <2>2 DEF TakenInv
<1>. QED  BY <1>1, <1>2, <1>3, <1>4, <1>5

\* One case per step of a task.
LEMMA NextInv == IInv /\ [Next]_vars => IInv'
<1>. SUFFICES ASSUME IInv, [Next]_vars PROVE IInv'
  OBVIOUS
<1>1. ASSUME NEW t \in Tasks, Step(t) \/ \E d \in Devices : Lock(t, d)
      PROVE  QuietStep(t) \/ Create(t) \/ StoreBits(t) \/ Take(t) \/ Put(t)
  BY <1>1 DEF Step, QuietStep
<1>2. CASE Next
  BY <1>1, <1>2, QuietInv, CreateInv, StoreInv, TakeInv, PutInv DEF Next
<1>3. CASE UNCHANGED vars
  BY <1>3 DEF vars, IInv, TypeOK, BitInv, Making, PathInv, TakenInv,
              MutualExclusion, Owns
<1>. QED  BY <1>2, <1>3

\* The inductive invariant holds in every state, for any tasks and devices.
THEOREM Invariance == Spec => []IInv
<1>. QED  BY InitInv, NextInv, PTL DEF Spec

-----------------------------------------------------------------------------
\* The variables keep their types, and the load and the store of the bits are
\* never separated by another task's store.
THEOREM TypeCorrect == Spec => []TypeOK
<1>1. IInv => TypeOK
  BY DEF IInv
<1>. QED  BY <1>1, Invariance, PTL

\* A device belongs to at most one task, however many tasks race to make its
\* mutex at its first use.
THEOREM OneOwner == Spec => []MutualExclusion
<1>1. IInv => MutualExclusion
  BY DEF IInv
<1>. QED  BY <1>1, Invariance, PTL

\* A waiting task waits for the mutex that the owner will give.
THEOREM WaitersAreReached == Spec => []WaitsForTheMutex
<1>1. IInv => WaitsForTheMutex
  BY DEF IInv, TypeOK, BitInv, PathInv, WaitsForTheMutex
<1>. QED  BY <1>1, Invariance, PTL

\* No mutex is made twice and no bit is lost.
THEOREM MutexMadeOnce == Spec => MadeOnce
<1>. DEFINE Kept == \A d \in Devices :
              /\ device_mutex[d] # 0 => device_mutex'[d] = device_mutex[d]
              /\ d \in mutex_init => d \in mutex_init'
<1>1. ASSUME IInv, NEW t \in Tasks, Create(t) PROVE Kept
  <2>1. ~ Making(device[t])
    BY <1>1 DEF IInv, TypeOK, Making, Section, Create, At
  <2>. QED  BY <1>1, <2>1 DEF IInv, TypeOK, BitInv, PathInv, Create, At
<1>2. ASSUME IInv, NEW t \in Tasks, StoreBits(t) PROVE Kept
  BY <1>2 DEF IInv, TypeOK, StoreBits, At
<1>3. ASSUME NEW t \in Tasks, QuietStep(t) \/ Take(t) \/ Put(t) PROVE Kept
  BY <1>3 DEF table, registers, QuietStep, Lock, Unlock, Check, Enter, Recheck,
              LoadBits, Exit, Get, Timeout, Take, Put
<1>4. ASSUME IInv, [Next]_vars PROVE [Kept]_vars
  BY <1>1, <1>2, <1>3, <1>4 DEF Next, Step, QuietStep
<1>. QED  BY <1>4, Invariance, PTL DEF Spec, MadeOnce
=============================================================================

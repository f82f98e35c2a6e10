--------------------------- MODULE WifiScan_proofs ---------------------------
(***************************************************************************)
(* Any number of access points, signals, lists and timers: the three       *)
(* threads that may end a scan free every list and every timer, each once, *)
(* and the list that is collected holds the strongest access points, if a  *)
(* scan is not started while the daemon is inside wifi_close_scan.         *)
(***************************************************************************)
EXTENDS WifiScan, SequenceTheorems, WellFoundedInduction, TLAPS

\* One of the two tasks at most is inside the functions of the scan: what it does.
Stage == IF pc[Daemon] # "idle" THEN pc[Daemon] ELSE pc[Caller]

Types ==
  /\ scan \in [running : BOOLEAN, show : BOOLEAN, list : Lists \cup {NULL},
              ap : [1..MaxAp -> Entries \cup {NULL}], pap : Seq(1..MaxAp)]
  /\ web \in [flg : 0..2, timer : Timers \cup {NULL}, list : Lists \cup {NULL}]
  /\ handlers \subseteq {"report", "done"}
  /\ lists \subseteq Lists
  /\ timers \in [Timers -> {"free", "dormant", "active"}]
  /\ tq \in Seq([cmd : {"start", "period", "delete"}, timer : Timers])
  /\ scanning \in BOOLEAN
  /\ pc \in [Threads -> Labels]
  /\ cb \in BOOLEAN /\ closes \in 0..2
  /\ heard \in [Macs -> Signals \cup {0}]

Alone ==
  /\ pc[Daemon] # "idle" => pc[Caller] \in {"idle", "wait"}
  /\ pc[Daemon] \notin {"prepare", "regReport", "regDone", "setScan", "wait"}

\* A scan that does not run has no record and no handlers; one that does has
\* a record of its reader, who has no list yet.
ScanInv ==
  /\ ~ scan.running => scan = NoScan /\ handlers = {}
  /\ scan.running => web.flg = 1
  /\ web.flg = 0 => web = NoWeb
  /\ web.flg = 1 => web.list = NULL

\* Who holds which list: it is in use until somebody has freed it, and then the
\* record is cleared before anything else can happen to it.
ListInv ==
  /\ lists \subseteq {scan.list, web.list}
  /\ IF Stage = "clearScan" THEN scan.list \notin lists ELSE scan.list \in lists \cup {NULL}
  /\ IF Stage = "clearWeb" THEN web.list \notin lists ELSE web.list \in lists \cup {NULL}
  /\ web.flg = 2 => web.list # NULL
  /\ handlers # {} => scan.list # NULL

\* The starting caller: the handlers come last, and the driver finds a list and
\* a timer.
StartInv ==
  /\ handlers # {} => web.timer # NULL
  /\ Stage \in {"prepare", "regReport", "regDone"} => scan.running /\ web.timer # NULL
  /\ Stage \in {"prepare", "regReport"} => handlers = {} /\ scan.pap = <<>>
  /\ Stage = "prepare" => scan.list = NULL
  /\ Stage \in {"regReport", "regDone"} => scan.list # NULL
  /\ Stage = "regReport" => heard = [m \in Macs |-> 0]
  /\ Stage = "regDone" => "done" \notin handlers

\* How far wifi_close_scan has come.
CloseInv ==
  /\ Stage = "unregDone" => "report" \notin handlers
  /\ Stage \in {"freeList", "clearScan", "closeWeb", "delete", "freeWeb", "clearWeb"}
       => handlers = {}
  /\ Stage \in {"closeWeb", "delete", "freeWeb", "clearWeb"} => ~ scan.running
  /\ Stage \in {"delete", "freeWeb", "clearWeb"} => web.flg # 0

\* The timer of the record lives, and no command to delete it is on its way,
\* until wifi_close_scan has sent it.
TimerKept == \A t \in Timers : timers[t] # "free" => web.timer = t \/ Deleted(t)
TimerInv ==
  /\ TimerAlive
  /\ TimerKept
  /\ web.timer # NULL =>
       IF Stage \in {"freeWeb", "clearWeb"} THEN Deleted(web.timer)
       ELSE timers[web.timer] # "free" /\ ~ Deleted(web.timer)

\* The pointers are a permutation of the entries in use.
PointerInv ==
  /\ \A i, j \in 1..Count : scan.pap[i] = scan.pap[j] => i = j
  /\ ToSet(scan.pap) = 1..Count
  /\ \A k \in 1..Count : scan.ap[k] \in Entries

\* StrongestKept, told of the entries instead of the pointers.
Absent(a, n, m) == \A k \in 1..n : a[k].mac # m
Told(a, n, h) ==
  \A m \in Macs :
    \/ h[m] = 0 /\ Absent(a, n, m)
    \/ \E k \in 1..n : /\ a[k].mac = m /\ a[k].signal = h[m]
                       /\ \A l \in 1..n : a[l].mac = m => l = k
    \/ /\ Absent(a, n, m) /\ n = MaxAp
       /\ \A k \in 1..n : h[m] <= a[k].signal
SortedInv == \A i, j \in 1..Count : i < j => Signal(i) >= Signal(j)
EntryInv == Told(scan.ap, Count, heard)
StrongInv == "report" \in handlers => SortedInv /\ EntryInv

\* SafeInv is what the memory and the timers depend on, IInv adds the list.
SafeInv == /\ Types /\ Alone /\ ScanInv /\ ListInv /\ StartInv /\ CloseInv
           /\ TimerInv
IInv == SafeInv /\ PointerInv /\ StrongInv


\* What RemoveAt and InsertAt leave at each place of a sequence.
LEMMA RemoveAtFacts ==
  ASSUME NEW S, NEW s \in Seq(S), NEW i \in 1..Len(s)
  PROVE  /\ RemoveAt(s, i) \in Seq(S)
         /\ Len(RemoveAt(s, i)) = Len(s) - 1
         /\ \A j \in 1..(Len(s) - 1) :
              RemoveAt(s, i)[j] = IF j < i THEN s[j] ELSE s[j + 1]
<1> DEFINE a == SubSeq(s, 1, i - 1)
           b == SubSeq(s, i + 1, Len(s))
<1>1. /\ a \in Seq(S)
      /\ Len(a) = i - 1
      /\ \A j \in 1..(i - 1) : a[j] = s[j]
  OBVIOUS
<1>2. /\ b \in Seq(S)
      /\ Len(b) = Len(s) - i
      /\ \A j \in 1..(Len(s) - i) : b[j] = s[j + i]
  OBVIOUS
<1>3. RemoveAt(s, i) = a \o b
  BY DEF RemoveAt
<1> HIDE DEF a, b
<1>4. /\ a \o b \in Seq(S)
      /\ Len(a \o b) = Len(a) + Len(b)
      /\ \A j \in 1..(Len(a) + Len(b)) :
           (a \o b)[j] = IF j <= Len(a) THEN a[j] ELSE b[j - Len(a)]
  BY <1>1, <1>2, ConcatProperties
<1>5. Len(a) + Len(b) = Len(s) - 1
  BY <1>1, <1>2
<1>6. ASSUME NEW j \in 1..(Len(s) - 1)
      PROVE  (a \o b)[j] = IF j < i THEN s[j] ELSE s[j + 1]
  <2>1. CASE j < i
    BY <1>1, <1>4, <1>5, <2>1
  <2>2. CASE j >= i
    <3>1. (a \o b)[j] = b[j - i + 1]
      BY <1>1, <1>4, <1>5, <2>2
    <3>2. b[j - i + 1] = s[j + 1]
      BY <1>2, <2>2
    <3>3. QED
      BY <2>2, <3>1, <3>2
  <2>3. Len(s) \in Nat
    OBVIOUS
  <2>4. j < i \/ j >= i
    BY <2>3
  <2>5. QED
    BY <2>1, <2>2, <2>4
<1>7. QED
  BY <1>3, <1>4, <1>5, <1>6

\* A list with a chunk inserted: its length, the chunk, and the others in order.
LEMMA InsertAtFacts ==
  ASSUME NEW S, NEW s \in Seq(S), NEW i \in 1..(Len(s) + 1), NEW e \in S
  PROVE  /\ InsertAt(s, i, e) \in Seq(S)
         /\ Len(InsertAt(s, i, e)) = Len(s) + 1
         /\ \A j \in 1..(Len(s) + 1) :
              InsertAt(s, i, e)[j] = IF j < i THEN s[j]
                                     ELSE IF j = i THEN e ELSE s[j - 1]
<1> DEFINE a == SubSeq(s, 1, i - 1)
           b == SubSeq(s, i, Len(s))
<1>1. /\ a \in Seq(S)
      /\ Len(a) = i - 1
      /\ \A j \in 1..(i - 1) : a[j] = s[j]
  OBVIOUS
<1>2. /\ b \in Seq(S)
      /\ Len(b) = Len(s) - i + 1
      /\ \A j \in 1..(Len(s) - i + 1) : b[j] = s[j + i - 1]
  OBVIOUS
<1>3. InsertAt(s, i, e) = a \o <<e>> \o b
  BY DEF InsertAt
<1> DEFINE c == a \o <<e>>
<1>4. /\ c \in Seq(S)
      /\ Len(c) = i
      /\ \A j \in 1..i : c[j] = IF j < i THEN s[j] ELSE e
  BY <1>1
<1>5. InsertAt(s, i, e) = c \o b
  BY <1>3
<1> HIDE DEF a, b, c
<1>6. /\ c \o b \in Seq(S)
      /\ Len(c \o b) = Len(c) + Len(b)
      /\ \A j \in 1..(Len(c) + Len(b)) :
           (c \o b)[j] = IF j <= Len(c) THEN c[j] ELSE b[j - Len(c)]
  BY <1>2, <1>4, ConcatProperties
<1>7. Len(c) + Len(b) = Len(s) + 1
  BY <1>2, <1>4
<1>8. ASSUME NEW j \in 1..(Len(s) + 1)
      PROVE  (c \o b)[j] = IF j < i THEN s[j] ELSE IF j = i THEN e ELSE s[j - 1]
  <2>1. CASE j <= i
    BY <1>4, <1>6, <1>7, <2>1
  <2>2. CASE j > i
    <3>1. (c \o b)[j] = b[j - i]
      BY <1>4, <1>6, <1>7, <2>2
    <3>2. b[j - i] = s[j - 1]
      BY <1>2, <2>2
    <3>3. QED
      BY <2>2, <3>1, <3>2
  <2>3. Len(s) \in Nat
    OBVIOUS
  <2>4. j <= i \/ j > i
    BY <2>3
  <2>5. QED
    BY <2>1, <2>2, <2>4
<1>9. QED
  BY <1>5, <1>6, <1>7, <1>8

\* A set of numbers that is not empty has a least element.
LEMMA Least ==
  ASSUME NEW S \in SUBSET Nat, S # {}
  PROVE  \E m \in S : \A n \in S : m <= n
<1>1. PICK m \in S : \A n \in S : ~ (<<n, m>> \in OpToRel(<, Nat))
  BY NatLessThanWellFounded, WFMin
<1>2. ASSUME NEW n \in S PROVE m <= n
  <2>1. n \in Nat /\ m \in Nat OBVIOUS
  <2>2. ~ (n < m)
    <3>1. n < m => <<n, m>> \in OpToRel(<, Nat)
      BY <2>1 DEF OpToRel
    <3> QED BY <1>1, <3>1
  <2> QED BY ONLY <2>1, <2>2
<1> QED BY <1>2

\* If it is bounded it has a greatest one.
LEMMA Greatest ==
  ASSUME NEW S \in SUBSET Nat, S # {}, NEW b \in Nat, \A n \in S : n <= b
  PROVE  \E m \in S : \A n \in S : m >= n
<1>1. \A n \in S : n \in Nat /\ b - n \in Nat
  OBVIOUS
<1>2. PICK T \in SUBSET Nat : T = {b - n : n \in S}
  <2>1. {b - n : n \in S} \in SUBSET Nat
    BY <1>1
  <2> QED BY <2>1
<1>3. T # {}
  BY <1>2
<1>4. PICK k \in T : \A n \in T : k <= n
  BY <1>3, Least
<1>5. PICK m \in S : k = b - m
  BY <1>2, <1>4
<1>6. ASSUME NEW n \in S PROVE m >= n
  <2>1. b - n \in T
    BY <1>2
  <2>2. k <= b - n
    BY <1>4, <2>1
  <2>3. m \in Nat /\ n \in Nat
    OBVIOUS
  <2> QED BY ONLY <2>2, <2>3, <1>5, b \in Nat
<1> QED BY <1>5, <1>6

-----------------------------------------------------------------------------
(* A list of pointers from which one is taken, and into which one is put.  *)

OneToOne(q) == \A i, j \in 1..Len(q) : q[i] = q[j] => i = j
Ordered(f, q) == \A i, j \in 1..Len(q) : i < j => f[q[i]] >= f[q[j]]

\* r is q without its i-th element; q is r with k in the p-th place.
Without(r, q, i, n) ==
  /\ r \in Seq(1..n) /\ Len(r) = Len(q) - 1
  /\ \A j \in 1..(Len(q) - 1) : r[j] = IF j < i THEN q[j] ELSE q[j + 1]
With(q, r, p, k, n) ==
  /\ q \in Seq(1..n) /\ Len(q) = Len(r) + 1
  /\ \A j \in 1..(Len(r) + 1) :
       q[j] = IF j < p THEN r[j] ELSE IF j = p THEN k ELSE r[j - 1]

\* What is left is in the same order, and without the element.
LEMMA RestFacts ==
  ASSUME NEW n \in Nat, NEW q \in Seq(1..n), OneToOne(q), NEW i \in 1..Len(q), NEW r,
         Without(r, q, i, n)
  PROVE  /\ OneToOne(r) /\ \A j \in 1..Len(r) : r[j] # q[i]
         /\ ToSet(q) = ToSet(r) \cup {q[i]}
         /\ \A f : Ordered(f, q) => Ordered(f, r)
<1>1. Len(q) \in Nat /\ Len(r) = Len(q) - 1
  BY DEF Without
<1> DEFINE at(j) == IF j < i THEN j ELSE j + 1
<1>2. \A j \in 1..Len(r) : at(j) \in 1..Len(q) /\ at(j) # i /\ r[j] = q[at(j)]
  <2>1. \A j \in 1..Len(r) : at(j) \in 1..Len(q) /\ at(j) # i
    BY <1>1
  <2>2. \A j \in 1..Len(r) : r[j] = IF j < i THEN q[j] ELSE q[j + 1]
    BY <1>1 DEF Without
  <2> QED BY <2>1, <2>2
<1>3. \A j, l \in 1..Len(r) : (at(j) = at(l) => j = l) /\ (j < l => at(j) < at(l))
  BY <1>1
<1>4. \A l \in 1..Len(q) : l = i \/ \E j \in 1..Len(r) : at(j) = l
  <2>1. ASSUME NEW l \in 1..Len(q), l < i PROVE \E j \in 1..Len(r) : at(j) = l
    <3>1. l \in 1..Len(r) /\ at(l) = l
      BY <1>1, <2>1
    <3> QED BY <3>1
  <2>2. ASSUME NEW l \in 1..Len(q), l > i PROVE \E j \in 1..Len(r) : at(j) = l
    <3>1. l - 1 \in 1..Len(r) /\ at(l - 1) = l
      BY <1>1, <2>2
    <3> QED BY <3>1
  <2> QED BY <1>1, <2>1, <2>2
<1>5. DOMAIN q = 1..Len(q) /\ DOMAIN r = 1..Len(r)
  BY DEF Without
<1> HIDE DEF at
<1>6. OneToOne(r) /\ \A j \in 1..Len(r) : r[j] # q[i]
  BY <1>2, <1>3 DEF OneToOne
<1>7. ToSet(q) = ToSet(r) \cup {q[i]}
  <2>1. ASSUME NEW x \in ToSet(q) PROVE x \in ToSet(r) \cup {q[i]}
    <3>1. PICK l \in 1..Len(q) : x = q[l]
      BY <1>5 DEF ToSet
    <3> QED BY <1>2, <1>4, <1>5, <3>1 DEF ToSet
  <2>2. ASSUME NEW x \in ToSet(r) \cup {q[i]} PROVE x \in ToSet(q)
    <3>1. x = q[i] \/ \E l \in 1..Len(r) : x = r[l]
      BY <1>5 DEF ToSet
    <3> QED BY <1>2, <1>5, <3>1 DEF ToSet
  <2> QED BY <2>1, <2>2
<1>8. \A f : Ordered(f, q) => Ordered(f, r)
  BY <1>2, <1>3 DEF Ordered
<1> QED BY <1>6, <1>7, <1>8

\* A pointer that is put between larger and smaller ones keeps the order.
LEMMA PutFacts ==
  ASSUME NEW n \in Nat, NEW r \in Seq(1..n), OneToOne(r), NEW p \in 1..(Len(r) + 1),
         NEW k \in 1..n, \A j \in 1..Len(r) : r[j] # k, NEW q, With(q, r, p, k, n),
         NEW f, Ordered(f, r), f[k] \in Nat, \A j \in 1..Len(r) : f[r[j]] \in Nat,
         \A j \in 1..Len(r) : IF j < p THEN f[r[j]] >= f[k] ELSE f[k] >= f[r[j]]
  PROVE  OneToOne(q) /\ ToSet(q) = ToSet(r) \cup {k} /\ Ordered(f, q)
<1>1. Len(r) \in Nat /\ Len(q) = Len(r) + 1
  BY DEF With
<1> DEFINE at(j) == IF j < p THEN j ELSE j - 1
<1>2. /\ \A j \in 1..Len(q) : j # p => at(j) \in 1..Len(r) /\ q[j] = r[at(j)]
      /\ p \in 1..Len(q) /\ q[p] = k
  BY <1>1 DEF With
<1>3. \A j, l \in 1..Len(q) : j # p /\ l # p =>
        (at(j) = at(l) => j = l) /\ (j < l => at(j) < at(l))
  BY <1>1
<1>4. \A l \in 1..Len(r) : \E j \in 1..Len(q) : j # p /\ at(j) = l
  <2>1. ASSUME NEW l \in 1..Len(r), l < p PROVE \E j \in 1..Len(q) : j # p /\ at(j) = l
    <3>1. l \in 1..Len(q) /\ at(l) = l /\ l # p
      BY <1>1, <2>1
    <3> QED BY <3>1
  <2>2. ASSUME NEW l \in 1..Len(r), l >= p PROVE \E j \in 1..Len(q) : j # p /\ at(j) = l
    <3>1. l + 1 \in 1..Len(q) /\ at(l + 1) = l /\ l + 1 # p
      BY <1>1, <2>2
    <3> QED BY <3>1
  <2> QED BY <1>1, <2>1, <2>2
<1>5. /\ \A j \in 1..Len(q) : j < p => at(j) < p
      /\ \A j \in 1..Len(q) : j > p => at(j) >= p
  BY <1>1
<1>6. DOMAIN q = 1..Len(q) /\ DOMAIN r = 1..Len(r)
  BY DEF With
<1> HIDE DEF at
<1>7. OneToOne(q)
  BY <1>2, <1>3 DEF OneToOne
<1>8. ToSet(q) = ToSet(r) \cup {k}
  <2>1. ASSUME NEW x \in ToSet(q) PROVE x \in ToSet(r) \cup {k}
    BY <1>2, <1>6 DEF ToSet
  <2>2. ASSUME NEW x \in ToSet(r) \cup {k} PROVE x \in ToSet(q)
    <3>1. x = k \/ \E l \in 1..Len(r) : x = r[l]
      BY <1>6 DEF ToSet
    <3> QED BY <1>2, <1>4, <1>6, <3>1 DEF ToSet
  <2> QED BY <2>1, <2>2
<1>9. ASSUME NEW i \in 1..Len(q), NEW j \in 1..Len(q), i < j PROVE f[q[i]] >= f[q[j]]
  <2>1. CASE i # p /\ j # p
    BY <1>2, <1>3, <1>9, <2>1 DEF Ordered
  <2>2. CASE i = p
    <3>1. j # p /\ j > p
      BY <1>9, <2>2
    <3>2. at(j) \in 1..Len(r) /\ at(j) >= p /\ q[j] = r[at(j)]
      BY <1>2, <1>5, <3>1
    <3>3. ~ (at(j) < p)
      BY ONLY <3>2, <1>1, p \in 1..(Len(r) + 1)
    <3>4. f[k] >= f[r[at(j)]]
      BY <3>2, <3>3
    <3> QED BY <1>2, <2>2, <3>2, <3>4
  <2>3. CASE j = p
    <3>1. i # p /\ i < p
      BY <1>9, <2>3
    <3>2. at(i) \in 1..Len(r) /\ at(i) < p /\ q[i] = r[at(i)]
      BY <1>2, <1>5, <3>1
    <3> QED BY <1>2, <2>3, <3>2
  <2> QED BY <2>1, <2>2, <2>3
<1> QED BY <1>7, <1>8, <1>9 DEF Ordered

\* Max and Min of FiniteSetsExt, where they exist.
LEMMA MaxFacts ==
  ASSUME NEW S \in SUBSET Nat, S # {}, NEW b \in Nat, \A x \in S : x <= b
  PROVE  Max(S) \in S /\ \A x \in S : Max(S) >= x
<1>1. \E m \in S : \A x \in S : m >= x
  BY Greatest
<1> QED BY <1>1 DEF Max

\* The least one.
LEMMA MinFacts ==
  ASSUME NEW S \in SUBSET Nat, S # {}
  PROVE  Min(S) \in S /\ \A x \in S : Min(S) <= x
<1>1. \E m \in S : \A x \in S : m <= x
  BY Least
<1> QED BY <1>1 DEF Min

-----------------------------------------------------------------------------
(* What the list tells of what was heard, after each kind of report.       *)

Best(g, h, m, s) ==
  /\ g[m] = IF h[m] >= s THEN h[m] ELSE s
  /\ \A x \in Macs : x # m => g[x] = h[x]

\* A known access point with a stronger signal.
LEMMA ToldRaised ==
  ASSUME NEW n \in Nat, NEW a, NEW b, NEW h, NEW g, NEW m \in Macs, NEW s \in Nat,
         NEW k \in 1..n, \A x \in 1..n : a[x].signal \in Nat, \A x \in Macs : h[x] \in Nat,
         Told(a, n, h), Best(g, h, m, s), a[k].mac = m, s > a[k].signal,
         b[k].mac = m, b[k].signal = s, \A x \in 1..n : x # k => b[x] = a[x]
  PROVE  Told(b, n, g)
<1>1. h[m] = a[k].signal /\ \A l \in 1..n : a[l].mac = m => l = k
  BY DEF Told, Absent
<1>2. g[m] = s
  BY <1>1 DEF Best
<1>3. ASSUME NEW x \in Macs
      PROVE  \/ g[x] = 0 /\ Absent(b, n, x)
             \/ \E i \in 1..n : /\ b[i].mac = x /\ b[i].signal = g[x]
                                /\ \A l \in 1..n : b[l].mac = x => l = i
             \/ /\ Absent(b, n, x) /\ n = MaxAp
                /\ \A i \in 1..n : g[x] <= b[i].signal
  <2>1. CASE x = m
    BY <1>1, <1>2, <2>1
  <2>2. CASE x # m
    <3>1. g[x] = h[x] /\ h[x] \in Nat
      BY <2>2 DEF Best
    <3>2. \A i \in 1..n : (b[i].mac = x <=> a[i].mac = x) /\ (a[i].mac = x => b[i] = a[i])
      BY <2>2
    <3>3. \A i \in 1..n : h[x] <= a[i].signal => h[x] <= b[i].signal
      BY <3>1
    <3>4. CASE h[x] = 0 /\ Absent(a, n, x)
      BY <3>1, <3>2, <3>4 DEF Absent
    <3>5. CASE \E i \in 1..n : /\ a[i].mac = x /\ a[i].signal = h[x]
                               /\ \A l \in 1..n : a[l].mac = x => l = i
      BY <3>1, <3>2, <3>5
    <3>6. CASE Absent(a, n, x) /\ n = MaxAp /\ \A i \in 1..n : h[x] <= a[i].signal
      BY <3>1, <3>2, <3>3, <3>6 DEF Absent
    <3> QED BY <3>4, <3>5, <3>6 DEF Told
  <2> QED BY <2>1, <2>2
<1> QED BY <1>3 DEF Told

\* A known one with a signal that is not stronger.
LEMMA ToldHeard ==
  ASSUME NEW n \in Nat, NEW a, NEW h, NEW g, NEW m \in Macs, NEW s \in Nat,
         NEW k \in 1..n, a[k].signal \in Nat, \A x \in Macs : h[x] \in Nat,
         Told(a, n, h), Best(g, h, m, s), a[k].mac = m, s <= a[k].signal
  PROVE  Told(a, n, g)
<1>1. h[m] = a[k].signal
  BY DEF Told, Absent
<1>2. \A x \in Macs : g[x] = h[x]
  BY <1>1 DEF Best
<1> QED BY <1>2 DEF Told

\* A new one, while there is room.
LEMMA ToldNew ==
  ASSUME NEW n \in Nat, NEW a, NEW b, NEW h, NEW g, NEW m \in Macs, NEW s \in Nat,
         n # MaxAp, \A x \in Macs : h[x] \in Nat, s > 0,
         Told(a, n, h), Best(g, h, m, s), Absent(a, n, m),
         b[n + 1].mac = m, b[n + 1].signal = s, \A x \in 1..n : b[x] = a[x]
  PROVE  Told(b, n + 1, g)
<1>1. h[m] = 0
  BY DEF Told, Absent
<1>2. g[m] = s
  BY <1>1 DEF Best
<1>3. \A i \in 1..(n + 1) : i \in 1..n \/ i = n + 1
  OBVIOUS
<1>4. \A i \in 1..n : i \in 1..(n + 1) /\ i # n + 1
  OBVIOUS
<1>5. n + 1 \in 1..(n + 1)
  OBVIOUS
<1>6. ASSUME NEW x \in Macs
      PROVE  \/ g[x] = 0 /\ Absent(b, n + 1, x)
             \/ \E i \in 1..(n + 1) : /\ b[i].mac = x /\ b[i].signal = g[x]
                                      /\ \A l \in 1..(n + 1) : b[l].mac = x => l = i
  <2>1. CASE x = m
    BY <1>2, <1>3, <1>5, <2>1 DEF Absent
  <2>2. CASE x # m
    <3>1. g[x] = h[x]
      BY <2>2 DEF Best
    <3>2. CASE h[x] = 0 /\ Absent(a, n, x)
      BY <1>3, <2>2, <3>1, <3>2 DEF Absent
    <3>3. CASE \E i \in 1..n : /\ a[i].mac = x /\ a[i].signal = h[x]
                               /\ \A l \in 1..n : a[l].mac = x => l = i
      <4>1. PICK i \in 1..n : /\ a[i].mac = x /\ a[i].signal = h[x]
                              /\ \A l \in 1..n : a[l].mac = x => l = i
        BY <3>3
      <4>2. i \in 1..(n + 1) /\ b[i].mac = x /\ b[i].signal = g[x]
        BY <1>4, <3>1, <4>1
      <4>3. \A l \in 1..(n + 1) : b[l].mac = x => l = i
        BY <1>3, <2>2, <4>1
      <4> QED BY <4>2, <4>3
    <3> QED BY <3>2, <3>3 DEF Told
  <2> QED BY <2>1, <2>2
<1> QED BY <1>6 DEF Told

\* A new one that takes the entry of the weakest.
LEMMA ToldReplaced ==
  ASSUME NEW a, NEW b, NEW h, NEW g, NEW m \in Macs, NEW s \in Nat,
         NEW k \in 1..MaxAp, \A x \in 1..MaxAp : a[x].mac \in Macs /\ a[x].signal \in Nat,
         \A x \in Macs : h[x] \in Nat,
         Told(a, MaxAp, h), Best(g, h, m, s), Absent(a, MaxAp, m),
         \A x \in 1..MaxAp : a[k].signal <= a[x].signal, s > a[k].signal,
         b[k].mac = m, b[k].signal = s, \A x \in 1..MaxAp : x # k => b[x] = a[x]
  PROVE  Told(b, MaxAp, g)
<1>1. h[m] < s
  <2>1. h[m] = 0 \/ h[m] <= a[k].signal
    BY DEF Told, Absent
  <2>2. h[m] \in Nat /\ a[k].signal \in Nat
    OBVIOUS
  <2> QED BY <2>1, <2>2
<1>2. g[m] = s
  BY <1>1 DEF Best
<1>3. ASSUME NEW x \in Macs
      PROVE  \/ g[x] = 0 /\ Absent(b, MaxAp, x)
             \/ \E i \in 1..MaxAp : /\ b[i].mac = x /\ b[i].signal = g[x]
                                    /\ \A l \in 1..MaxAp : b[l].mac = x => l = i
             \/ /\ Absent(b, MaxAp, x)
                /\ \A i \in 1..MaxAp : g[x] <= b[i].signal
  <2>1. CASE x = m
    BY <1>2, <2>1 DEF Absent
  <2>2. CASE x # m
    <3>1. g[x] = h[x] /\ h[x] \in Nat
      BY <2>2 DEF Best
    <3>2. ASSUME h[x] <= a[k].signal, NEW i \in 1..MaxAp PROVE h[x] <= b[i].signal
      <4>1. a[k].signal <= a[i].signal /\ a[k].signal \in Nat /\ a[i].signal \in Nat
        OBVIOUS
      <4>2. b[i].signal = s \/ b[i].signal = a[i].signal
        OBVIOUS
      <4> QED BY <3>1, <3>2, <4>1, <4>2
    <3>3. CASE h[x] = 0 /\ Absent(a, MaxAp, x)
      BY <2>2, <3>1, <3>3 DEF Absent
    <3>4. CASE \E i \in 1..MaxAp : /\ a[i].mac = x /\ a[i].signal = h[x]
                                   /\ \A l \in 1..MaxAp : a[l].mac = x => l = i
      <4>1. PICK i \in 1..MaxAp : /\ a[i].mac = x /\ a[i].signal = h[x]
                                  /\ \A l \in 1..MaxAp : a[l].mac = x => l = i
        BY <3>4
      <4>2. CASE i = k
        <5>1. Absent(b, MaxAp, x)
          BY <2>2, <4>1, <4>2 DEF Absent
        <5>2. h[x] <= a[k].signal
          BY <3>1, <4>1, <4>2
        <5> QED BY <3>1, <3>2, <5>1, <5>2
      <4>3. CASE i # k
        BY <2>2, <3>1, <4>1, <4>3
      <4> QED BY <4>2, <4>3
    <3>5. CASE Absent(a, MaxAp, x) /\ \A i \in 1..MaxAp : h[x] <= a[i].signal
      <4>1. Absent(b, MaxAp, x)
        BY <2>2, <3>5 DEF Absent
      <4> QED BY <3>1, <3>2, <3>5, <4>1
    <3> QED BY <3>3, <3>4, <3>5 DEF Told
  <2> QED BY <2>1, <2>2
<1> QED BY <1>3 DEF Told

\* A new one that is not stronger than the weakest.
LEMMA ToldWeak ==
  ASSUME NEW a, NEW h, NEW g, NEW m \in Macs, NEW s \in Nat,
         \A x \in 1..MaxAp : a[x].signal \in Nat, \A x \in Macs : h[x] \in Nat,
         Told(a, MaxAp, h), Best(g, h, m, s), Absent(a, MaxAp, m),
         \A x \in 1..MaxAp : s <= a[x].signal
  PROVE  Told(a, MaxAp, g)
<1>1. \A x \in 1..MaxAp : g[m] <= a[x].signal
  <2>1. h[m] = 0 \/ \A x \in 1..MaxAp : h[m] <= a[x].signal
    BY DEF Told, Absent
  <2> QED BY <2>1 DEF Best
<1>2. ASSUME NEW x \in Macs
      PROVE  \/ g[x] = 0 /\ Absent(a, MaxAp, x)
             \/ \E i \in 1..MaxAp : /\ a[i].mac = x /\ a[i].signal = g[x]
                                    /\ \A l \in 1..MaxAp : a[l].mac = x => l = i
             \/ /\ Absent(a, MaxAp, x)
                /\ \A i \in 1..MaxAp : g[x] <= a[i].signal
  <2>1. CASE x = m
    BY <1>1, <2>1
  <2>2. CASE x # m
    BY <2>2 DEF Best, Told
  <2> QED BY <2>1, <2>2
<1> QED BY <1>2 DEF Told

-----------------------------------------------------------------------------
(* Where the two tasks are.                                                *)

Closing == {"close", "unregReport", "unregDone", "freeList", "clearScan",
            "closeWeb", "delete", "freeWeb", "clearWeb"}

\* A step of wifi_close_scan is the step of the one thread inside it.
LEMMA CloseStage ==
  ASSUME Types, Alone, NEW a \in Threads, NEW l \in Closing,
         NEW k \in Closing \cup {"idle"}, At(a, l), Goto(a, k)
  PROVE  /\ Stage = l /\ Alone' /\ pc' \in [Threads -> Labels]
         /\ Stage' = k \/ (k = "idle" /\ Stage' = "wait")
<1> USE DEF Closing, Threads, Caller, Daemon, Labels, At, Scheduled, Goto, Types, Alone, Stage
<1>1. CASE a = "caller"
  BY <1>1
<1>2. CASE a = "daemon"
  BY <1>2
<1> QED BY <1>1, <1>2

\* A step of api_wifi_scan is taken while the daemon is idle.
LEMMA StartStage ==
  ASSUME Types, Alone, NEW l \in {"prepare", "regReport", "regDone", "setScan"},
         NEW k \in Labels, pc[Caller] = l, Goto(Caller, k)
  PROVE  Stage = l /\ Stage' = k /\ Alone' /\ pc' \in [Threads -> Labels]
BY DEF Threads, Caller, Daemon, Labels, Goto, Types, Alone, Stage

\* A handler runs wherever they are.
LEMMA SameStage ==
  ASSUME Types, Alone, pc' = pc PROVE Stage' = Stage /\ Alone' /\ pc' \in [Threads -> Labels]
BY DEF Types, Alone, Stage

-----------------------------------------------------------------------------
(* The queue of the timer commands.                                        *)

Commands == [cmd : {"start", "period", "delete"}, timer : Timers]

\* What Append does.
LEMMA Appended ==
  ASSUME NEW q \in Seq(Commands), NEW c \in Commands
  PROVE  /\ Append(q, c) \in Seq(Commands) /\ Len(Append(q, c)) = Len(q) + 1
         /\ \A i \in 1..Len(q) : Append(q, c)[i] = q[i]
         /\ Append(q, c)[Len(q) + 1] = c
OBVIOUS

\* A command is a record.
LEMMA CommandType ==
  ASSUME NEW t \in Timers, NEW c \in {"start", "period", "delete"}
  PROVE  Command(c, t) \in Commands /\ Command(c, t).cmd = c /\ Command(c, t).timer = t
BY DEF Command, Commands

\* A command for a timer that was not deleted may be sent, and only a delete
\* makes it deleted.
LEMMA Sent ==
  ASSUME Types, TimerAlive, NEW t \in Timers, NEW c \in {"start", "period", "delete"},
         tq' = Append(tq, Command(c, t)), ~ Deleted(t), timers' \in [Timers -> {"free", "dormant", "active"}],
         timers'[t] # "free", \A u \in Timers : timers[u] # "free" => timers'[u] # "free"
  PROVE  /\ tq' \in Seq(Commands) /\ TimerAlive'
         /\ \A u \in Timers : Deleted(u)' <=> Deleted(u) \/ (c = "delete" /\ u = t)
<1>1. Command(c, t) \in Commands /\ Command(c, t).cmd = c /\ Command(c, t).timer = t
  BY CommandType
<1>2. tq \in Seq(Commands) /\ Len(tq) \in Nat
  BY DEF Types, Commands
<1>3. /\ tq' \in Seq(Commands) /\ Len(tq') = Len(tq) + 1
      /\ \A i \in 1..Len(tq) : tq'[i] = tq[i]
      /\ tq'[Len(tq) + 1] = Command(c, t)
  BY <1>1, <1>2, Appended
<1>4. \A i \in 1..Len(tq) : tq[i] \in Commands
  BY <1>2
<1>5. \A i \in 1..Len(tq') : i \in 1..Len(tq) \/ i = Len(tq) + 1
  BY <1>2, <1>3
<1>6. \A i \in 1..Len(tq) : ~ (tq[i].cmd = "delete" /\ tq[i].timer = t)
  <2>1. ASSUME NEW i \in 1..Len(tq), tq[i].cmd = "delete", tq[i].timer = t PROVE FALSE
    <3>1. tq[i] = Command("delete", t)
      BY <1>4, <2>1 DEF Commands, Command
    <3> QED BY <2>1, <3>1 DEF Deleted
  <2> QED BY <2>1
<1>7. TimerAlive'
  <2>1. ASSUME NEW i \in 1..Len(tq') PROVE timers'[tq'[i].timer] # "free"
    <3>1. CASE i \in 1..Len(tq)
      BY <3>1, <1>3, <1>4 DEF TimerAlive, Commands
    <3>2. CASE i = Len(tq) + 1
      BY <3>2, <1>1, <1>3
    <3> QED BY <1>5, <3>1, <3>2
  <2>2. ASSUME NEW i \in 1..Len(tq'), tq'[i].cmd = "delete", NEW j \in (i + 1)..Len(tq')
        PROVE  tq'[j].timer # tq'[i].timer
    <3>1. i \in 1..Len(tq) /\ tq'[i] = tq[i]
      BY <1>2, <1>3
    <3>2. CASE j = Len(tq) + 1
      BY <3>1, <3>2, <1>1, <1>3, <1>6, <2>2
    <3>3. CASE j \in (i + 1)..Len(tq)
      <4>1. j \in 1..Len(tq)
        BY <1>2, <3>1, <3>3
      <4>2. tq'[j] = tq[j]
        BY <4>1, <1>3
      <4> QED BY <2>2, <3>1, <3>3, <4>2 DEF TimerAlive
    <3> QED BY <1>2, <1>3, <3>1, <3>2, <3>3
  <2> QED BY <2>1, <2>2 DEF TimerAlive
<1>8. ASSUME NEW u \in Timers PROVE Deleted(u)' <=> Deleted(u) \/ (c = "delete" /\ u = t)
  <2>1. Deleted(u) => Deleted(u)'
    BY <1>2, <1>3 DEF Deleted
  <2>2. c = "delete" /\ u = t => Deleted(u)'
    <3>1. Len(tq) + 1 \in 1..Len(tq')
      BY <1>2, <1>3
    <3> QED BY <1>3, <3>1 DEF Deleted
  <2>3. ASSUME Deleted(u)' PROVE Deleted(u) \/ (c = "delete" /\ u = t)
    <3>1. PICK i \in 1..Len(tq') : tq'[i] = Command("delete", u)
      BY <2>3 DEF Deleted
    <3>2. CASE i \in 1..Len(tq)
      BY <3>1, <3>2, <1>3 DEF Deleted
    <3>3. CASE i = Len(tq) + 1
      BY <3>1, <3>3, <1>3 DEF Command
    <3> QED BY <1>5, <3>2, <3>3
  <2> QED BY <2>1, <2>2, <2>3
<1> QED BY <1>3, <1>7, <1>8

\* The timers and their queue are left alone.
LEMMA SameTimers ==
  ASSUME TimerInv, UNCHANGED <<timers, tq>>, web'.timer = web.timer,
         Stage \in {"freeWeb", "clearWeb"} <=> Stage' \in {"freeWeb", "clearWeb"}
  PROVE  TimerInv'
BY DEF TimerInv, TimerAlive, TimerKept, Deleted

\* What has to be shown of the timer of the record after a step.
LEMMA TimerInvNext ==
  ASSUME TimerAlive', TimerKept',
         web'.timer # NULL =>
           \E t \in Timers :
             /\ web'.timer = t
             /\ IF Stage' \in {"freeWeb", "clearWeb"} THEN Deleted(t)'
                ELSE timers'[t] # "free" /\ ~ Deleted(t)'
  PROVE  TimerInv'
BY DEF TimerInv, Deleted

\* xTimerDelete: every timer in use is now known to be deleted.
LEMMA DeleteSent ==
  ASSUME Types, TimerInv, Stage \notin {"freeWeb", "clearWeb"},
         tq' = WithDelete(tq), timers' = timers
  PROVE  /\ tq' \in Seq(Commands) /\ TimerAlive'
         /\ \A t \in Timers : timers[t] # "free" => Deleted(t)'
<1> USE DEF TimerInv
<1>1. CASE web.timer = NULL
  <2>1. tq' = tq /\ NULL \notin Timers
    BY <1>1, NullAssumption DEF WithDelete
  <2>2. TimerAlive' /\ \A t \in Timers : Deleted(t) => Deleted(t)'
    BY <2>1 DEF TimerAlive, Deleted
  <2> QED BY <1>1, <2>1, <2>2 DEF Types, Commands, TimerKept
<1>2. CASE web.timer # NULL
  <2>1. web.timer \in Timers /\ tq' = Append(tq, Command("delete", web.timer))
    BY <1>2 DEF Types, WithDelete
  <2>2. timers' \in [Timers -> {"free", "dormant", "active"}]
    BY DEF Types
  <2>3. timers[web.timer] # "free" /\ ~ Deleted(web.timer)
    BY <1>2
  <2>4. /\ tq' \in Seq(Commands) /\ TimerAlive'
        /\ \A u \in Timers : Deleted(u)' <=> Deleted(u) \/ u = web.timer
    BY <2>1, <2>2, <2>3, Sent
  <2> QED BY <2>1, <2>4 DEF TimerKept
<1> QED BY <1>1, <1>2

-----------------------------------------------------------------------------
(* wifi_close_scan.                                                        *)

\* CloseScan only looks at the flag and chooses the way.
LEMMA CloseScanSafe == ASSUME SafeInv, NEW a \in Threads, CloseScan(a) PROVE SafeInv'
<1>1. PICK k \in {"unregReport", "closeWeb"} :
        At(a, "close") /\ Goto(a, k) /\ (k = "closeWeb" => ~ scan.running)
  BY DEF CloseScan
<1>2. Stage = "close" /\ Stage' = k /\ Alone' /\ pc' \in [Threads -> Labels]
  BY <1>1, CloseStage DEF Closing, SafeInv
<1>3. UNCHANGED <<scan, web, handlers, lists, timers, tq, scanning, cb, closes, heard>>
  BY DEF CloseScan, memory, local
<1>4. Types'
  BY <1>2, <1>3 DEF SafeInv, Types
<1>5. ScanInv' /\ ListInv' /\ StartInv' /\ CloseInv'
  BY <1>1, <1>2, <1>3 DEF SafeInv, ScanInv, ListInv, StartInv, CloseInv
<1>6. TimerInv'
  BY <1>1, <1>2, <1>3, SameTimers DEF SafeInv
<1> QED BY <1>2, <1>4, <1>5, <1>6 DEF SafeInv

\* No report is called from now on.
LEMMA UnregReportSafe == ASSUME SafeInv, NEW a \in Threads, UnregReport(a) PROVE SafeInv'
<1>1. Stage = "unregReport" /\ Stage' = "unregDone" /\ Alone' /\ pc' \in [Threads -> Labels]
  BY CloseStage DEF Closing, SafeInv, UnregReport
<1>2. /\ UNCHANGED <<scan, web, lists, timers, tq, scanning, cb, closes, heard>>
      /\ handlers' = handlers \ {"report"}
  BY DEF UnregReport, memory, local, Unregistered
<1>3. Types'
  BY <1>1, <1>2 DEF SafeInv, Types
<1>4. ScanInv' /\ ListInv' /\ StartInv' /\ CloseInv'
  BY <1>1, <1>2 DEF SafeInv, ScanInv, ListInv, StartInv, CloseInv
<1>5. TimerInv'
  BY <1>1, <1>2, SameTimers DEF SafeInv
<1> QED BY <1>1, <1>3, <1>4, <1>5 DEF SafeInv

\* No end is called from now on; the list is still in use.
LEMMA UnregDoneSafe == ASSUME SafeInv, NEW a \in Threads, UnregDone(a) PROVE SafeInv'
<1>1. Stage = "unregDone" /\ Stage' = "freeList" /\ Alone' /\ pc' \in [Threads -> Labels]
  BY CloseStage DEF Closing, SafeInv, UnregDone
<1>2. /\ UNCHANGED <<scan, web, lists, timers, tq, scanning, cb, closes, heard>>
      /\ handlers' = {}
  <2>1. "report" \notin handlers /\ handlers \subseteq {"report", "done"}
    BY <1>1 DEF SafeInv, CloseInv, Types
  <2> QED BY <2>1 DEF UnregDone, memory, local, Unregistered
<1>3. Types'
  BY <1>1, <1>2 DEF SafeInv, Types
<1>4. ScanInv' /\ ListInv' /\ StartInv' /\ CloseInv'
  BY <1>1, <1>2 DEF SafeInv, ScanInv, ListInv, StartInv, CloseInv
<1>5. TimerInv'
  BY <1>1, <1>2, SameTimers DEF SafeInv
<1> QED BY <1>1, <1>3, <1>4, <1>5 DEF SafeInv

\* The list is freed once: nobody else frees while this thread does.
LEMMA FreeListSafe == ASSUME SafeInv, NEW a \in Threads, FreeList(a) PROVE SafeInv'
<1>1. Stage = "freeList" /\ Stage' = "clearScan" /\ Alone' /\ pc' \in [Threads -> Labels]
  BY CloseStage DEF Closing, SafeInv, FreeList
<1>2. /\ UNCHANGED <<scan, web, handlers, timers, tq, scanning, cb, closes, heard>>
      /\ lists' = lists \ {scan.list}
  BY DEF FreeList, local
<1>3. Types'
  BY <1>1, <1>2 DEF SafeInv, Types
<1>4. ScanInv' /\ StartInv' /\ CloseInv'
  BY <1>1, <1>2 DEF SafeInv, ScanInv, StartInv, CloseInv
<1>5. web.list # NULL => web.list # scan.list
  BY <1>1 DEF SafeInv, ScanInv, NoScan, Types
<1>6. ListInv'
  BY <1>1, <1>2, <1>5 DEF SafeInv, ListInv
<1>7. TimerInv'
  BY <1>1, <1>2, SameTimers DEF SafeInv
<1> QED BY <1>1, <1>3, <1>4, <1>6, <1>7 DEF SafeInv

\* The empty record.
LEMMA NoScanType ==
  /\ NoScan.list = NULL /\ NoScan.pap = <<>> /\ NoScan.running = FALSE
  /\ NoScan \in [running : BOOLEAN, show : BOOLEAN, list : Lists \cup {NULL},
                ap : [1..MaxAp -> Entries \cup {NULL}], pap : Seq(1..MaxAp)]
BY DEF NoScan

\* The empty record of the reader.
LEMMA NoWebType ==
  /\ NoWeb.list = NULL /\ NoWeb.timer = NULL /\ NoWeb.flg = 0
  /\ NoWeb \in [flg : 0..2, timer : Timers \cup {NULL}, list : Lists \cup {NULL}]
BY DEF NoWeb

\* The record forgets the list that was freed before.
LEMMA ClearScanSafe == ASSUME SafeInv, NEW a \in Threads, ClearScan(a) PROVE SafeInv'
<1>1. Stage = "clearScan" /\ Stage' = "closeWeb" /\ Alone' /\ pc' \in [Threads -> Labels]
  BY CloseStage DEF Closing, SafeInv, ClearScan
<1>2. /\ UNCHANGED <<web, handlers, lists, timers, tq, scanning, cb, closes, heard>>
      /\ scan' = NoScan
  BY DEF ClearScan, memory, local
<1>3. Types'
  BY <1>1, <1>2, NoScanType DEF SafeInv, Types
<1>4. ScanInv' /\ StartInv' /\ CloseInv'
  BY <1>1, <1>2, NoScanType DEF SafeInv, ScanInv, StartInv, CloseInv
<1>5. ListInv'
  BY <1>1, <1>2, NoScanType DEF SafeInv, ListInv, CloseInv
<1>6. TimerInv'
  BY <1>1, <1>2, SameTimers DEF SafeInv
<1> QED BY <1>1, <1>3, <1>4, <1>5, <1>6 DEF SafeInv

\* wifi_close_scan returns: to its second call, or to the caller of api_wifi_scan.
LEMMA ReturnedStage ==
  ASSUME Types, Alone, NEW a \in Threads, NEW l \in Closing, At(a, l), Returned(a)
  PROVE  /\ Stage = l /\ Alone' /\ pc' \in [Threads -> Labels] /\ closes' \in 0..2
         /\ Stage' \in {"close", "idle", "wait"}
<1>1. PICK k \in {"close", "idle"} : Goto(a, k)
  BY DEF Returned
<1>2. /\ Stage = l /\ Alone' /\ pc' \in [Threads -> Labels]
      /\ Stage' = k \/ (k = "idle" /\ Stage' = "wait")
  BY <1>1, CloseStage DEF Closing
<1>3. closes' \in 0..2
  BY DEF Returned, Types
<1> QED BY <1>2, <1>3

\* CloseWeb only looks at the flag, or returns.
LEMMA CloseWebSafe == ASSUME SafeInv, NEW a \in Threads, CloseWeb(a) PROVE SafeInv'
<1>1. /\ UNCHANGED <<scan, web, handlers, lists, timers, tq, scanning, cb, heard>>
      /\ At(a, "closeWeb")
  BY DEF CloseWeb, memory
<1>2. /\ Stage = "closeWeb" /\ Alone' /\ pc' \in [Threads -> Labels] /\ closes' \in 0..2
      /\ Stage' \in {"close", "idle", "wait"} \/ (Stage' = "delete" /\ web.flg # 0)
  <2>1. CASE web.flg # 0
    BY <2>1, <1>1, CloseStage DEF Closing, SafeInv, CloseWeb, Types
  <2>2. CASE web.flg = 0
    BY <2>2, <1>1, ReturnedStage DEF Closing, SafeInv, CloseWeb
  <2> QED BY <2>1, <2>2
<1>3. Types'
  BY <1>1, <1>2 DEF SafeInv, Types
<1>4. ScanInv' /\ ListInv' /\ StartInv' /\ CloseInv'
  BY <1>1, <1>2 DEF SafeInv, ScanInv, ListInv, StartInv, CloseInv
<1>5. TimerInv'
  BY <1>1, <1>2, SameTimers DEF SafeInv
<1> QED BY <1>2, <1>3, <1>4, <1>5 DEF SafeInv

\* The delete command is the last one for the timer of the reader.
LEMMA DeleteTimerSafe == ASSUME SafeInv, NEW a \in Threads, DeleteTimer(a) PROVE SafeInv'
<1>1. Stage = "delete" /\ Stage' = "freeWeb" /\ Alone' /\ pc' \in [Threads -> Labels]
  BY CloseStage DEF Closing, SafeInv, DeleteTimer
<1>2. /\ UNCHANGED <<scan, web, handlers, lists, timers, scanning, cb, closes, heard>>
      /\ tq' = WithDelete(tq)
  BY DEF DeleteTimer, local
<1>3. /\ tq' \in Seq(Commands) /\ TimerAlive'
      /\ \A t \in Timers : timers[t] # "free" => Deleted(t)'
  BY <1>1, <1>2, DeleteSent DEF SafeInv
<1>4. Types'
  BY <1>1, <1>2, <1>3 DEF SafeInv, Types, Commands
<1>5. ScanInv' /\ ListInv' /\ StartInv' /\ CloseInv'
  BY <1>1, <1>2 DEF SafeInv, ScanInv, ListInv, StartInv, CloseInv
<1>6. TimerInv'
  <2>1. TimerKept'
    BY <1>2, <1>3 DEF TimerKept
  <2>2. ASSUME web'.timer # NULL PROVE Deleted(web.timer)'
    <3>1. web'.timer \in Timers /\ timers[web'.timer] # "free"
      BY <1>1, <1>2, <2>2 DEF SafeInv, TimerInv, Types
    <3> QED BY <1>3, <3>1
  <2> QED BY <1>1, <1>2, <1>3, <2>1, <2>2 DEF TimerInv, Deleted
<1> QED BY <1>1, <1>4, <1>5, <1>6 DEF SafeInv

\* The list of the reader is freed once.
LEMMA FreeWebSafe == ASSUME SafeInv, NEW a \in Threads, FreeWeb(a) PROVE SafeInv'
<1>1. Stage = "freeWeb" /\ Stage' = "clearWeb" /\ Alone' /\ pc' \in [Threads -> Labels]
  BY CloseStage DEF Closing, SafeInv, FreeWeb
<1>2. /\ UNCHANGED <<scan, web, handlers, timers, tq, scanning, cb, closes, heard>>
      /\ lists' = lists \ {web.list}
  BY DEF FreeWeb, local
<1>3. Types'
  BY <1>1, <1>2 DEF SafeInv, Types
<1>4. ScanInv' /\ StartInv' /\ CloseInv'
  BY <1>1, <1>2 DEF SafeInv, ScanInv, StartInv, CloseInv
<1>5. scan.list = NULL
  BY <1>1, NoScanType DEF SafeInv, ScanInv, CloseInv
<1>6. ListInv'
  BY <1>1, <1>2, <1>5 DEF SafeInv, ListInv
<1>7. TimerInv'
  BY <1>1, <1>2, SameTimers DEF SafeInv
<1> QED BY <1>1, <1>3, <1>4, <1>6, <1>7 DEF SafeInv

\* The record of the reader forgets a timer whose delete command is sent.
LEMMA ClearWebSafe == ASSUME SafeInv, NEW a \in Threads, ClearWeb(a) PROVE SafeInv'
<1>1. /\ Stage = "clearWeb" /\ Alone' /\ pc' \in [Threads -> Labels] /\ closes' \in 0..2
      /\ Stage' \in {"close", "idle", "wait"}
  BY ReturnedStage DEF Closing, SafeInv, ClearWeb
<1>2. /\ UNCHANGED <<scan, handlers, lists, timers, tq, scanning, cb, heard>>
      /\ web' = NoWeb
  BY DEF ClearWeb, memory
<1>3. Types'
  BY <1>1, <1>2, NoWebType DEF SafeInv, Types
<1>4. ~ scan.running /\ scan = NoScan /\ handlers = {}
  BY <1>1 DEF SafeInv, CloseInv, ScanInv
<1>5. ScanInv' /\ StartInv' /\ CloseInv'
  BY <1>1, <1>2, <1>4, NoWebType DEF SafeInv, ScanInv, StartInv, CloseInv
<1>6. ListInv'
  BY <1>1, <1>2, <1>4, NoWebType, NoScanType, NullAssumption DEF SafeInv, ListInv, Types
<1>7. TimerInv'
  <2>1. \A t \in Timers : timers[t] # "free" => Deleted(t)
    BY <1>1, NullAssumption DEF SafeInv, TimerInv, TimerKept
  <2>2. TimerKept' /\ TimerAlive'
    BY <1>2, <2>1 DEF SafeInv, TimerInv, TimerKept, TimerAlive, Deleted
  <2> QED BY <1>2, <2>2, NoWebType DEF TimerInv
<1> QED BY <1>1, <1>3, <1>5, <1>6, <1>7 DEF SafeInv

-----------------------------------------------------------------------------
(* The driver.                                                             *)

\* When its scan is done and a handler is told, nobody has begun to free.
LEMMA Heard ==
  ASSUME SafeInv, handlers # {}
  PROVE  /\ scan.running /\ web.flg = 1 /\ web.list = NULL
         /\ Stage \notin {"freeList", "clearScan", "closeWeb", "delete", "freeWeb",
                          "clearWeb", "prepare", "regReport"}
         /\ scan.list \in lists /\ scan.list # NULL /\ lists = {scan.list}
         /\ web.timer \in Timers /\ timers[web.timer] # "free" /\ ~ Deleted(web.timer)
<1>1. scan.running /\ web.flg = 1 /\ web.list = NULL
  BY DEF SafeInv, ScanInv
<1>2. Stage \notin {"freeList", "clearScan", "closeWeb", "delete", "freeWeb",
                    "clearWeb", "prepare", "regReport"}
  BY DEF SafeInv, CloseInv, StartInv
<1>3. scan.list \in lists /\ scan.list # NULL
  BY <1>2 DEF SafeInv, ListInv
<1>4. lists = {scan.list}
  BY <1>1, <1>3, NullAssumption DEF SafeInv, ListInv, Types
<1>5. web.timer \in Timers /\ timers[web.timer] # "free" /\ ~ Deleted(web.timer)
  BY <1>2 DEF SafeInv, StartInv, TimerInv, Types
<1> QED BY <1>1, <1>2, <1>3, <1>4, <1>5

\* The end of a scan frees both lists, in one step of the driver.
LEMMA DoneClosesSafe == ASSUME SafeInv, DoneCloses PROVE SafeInv'
<1>1. "done" \in handlers /\ handlers # {}
  BY DEF DoneCloses
<1>2. /\ scan.running /\ web.flg = 1 /\ web.list = NULL /\ lists = {scan.list}
      /\ Stage \notin {"freeList", "clearScan", "closeWeb", "delete", "freeWeb",
                       "clearWeb", "prepare", "regReport"}
  BY <1>1, Heard
<1>3. /\ scan' = NoScan /\ web' = NoWeb /\ handlers' = {} /\ lists' = {}
      /\ tq' = WithDelete(tq) /\ scanning' = FALSE
      /\ UNCHANGED <<timers, pc, cb, closes, heard>>
  BY <1>2 DEF DoneCloses, local
<1>4. Stage' = Stage /\ Alone' /\ pc' \in [Threads -> Labels]
  BY <1>3, SameStage DEF SafeInv
<1>5. Stage # "regDone"
  BY <1>1 DEF SafeInv, StartInv
<1>6. /\ tq' \in Seq(Commands) /\ TimerAlive'
      /\ \A t \in Timers : timers[t] # "free" => Deleted(t)'
  BY <1>2, <1>3, DeleteSent DEF SafeInv
<1>7. Types'
  BY <1>3, <1>4, <1>6, NoScanType, NoWebType DEF SafeInv, Types, Commands
<1>8. ScanInv' /\ ListInv' /\ StartInv' /\ CloseInv'
  BY <1>2, <1>3, <1>4, <1>5, NoScanType, NoWebType DEF ScanInv, ListInv, StartInv, CloseInv
<1>9. TimerInv'
  BY <1>3, <1>6, NoWebType DEF TimerInv, TimerKept
<1> QED BY <1>4, <1>7, <1>8, <1>9 DEF SafeInv

\* The list of the scan becomes the list of the reader.
LEMMA DoneKeepsSafe == ASSUME SafeInv, DoneKeeps PROVE SafeInv'
<1>1. "done" \in handlers /\ handlers # {}
  BY DEF DoneKeeps
<1>2. /\ scan.running /\ web.flg = 1 /\ web.list = NULL /\ lists = {scan.list}
      /\ Stage \notin {"freeList", "clearScan", "closeWeb", "delete", "freeWeb",
                       "clearWeb", "prepare", "regReport"}
      /\ scan.list \in lists /\ scan.list # NULL
      /\ web.timer \in Timers /\ timers[web.timer] # "free" /\ ~ Deleted(web.timer)
  BY <1>1, Heard
<1>3. /\ scan' = NoScan /\ handlers' = {} /\ lists' = lists
      /\ tq' = Append(tq, Command("period", web.timer)) /\ scanning' = FALSE
      /\ UNCHANGED <<timers, pc, cb, closes, heard>>
  BY <1>2 DEF DoneKeeps, local
<1>4. /\ web' \in [flg : 0..2, timer : Timers \cup {NULL}, list : Lists \cup {NULL}]
      /\ web'.flg = 2 /\ web'.list = scan.list /\ web'.timer = web.timer
  <2>1. /\ web \in [flg : 0..2, timer : Timers \cup {NULL}, list : Lists \cup {NULL}]
        /\ scan.list \in Lists \cup {NULL}
    BY DEF SafeInv, Types
  <2>2. web' = [web EXCEPT !.list = scan.list, !.flg = 2]
    BY DEF DoneKeeps, Kept
  <2>3. web' = [flg |-> 2, timer |-> web.timer, list |-> scan.list]
    BY ONLY <2>1, <2>2
  <2> QED BY ONLY <2>1, <2>3
<1>5. Stage' = Stage /\ Alone' /\ pc' \in [Threads -> Labels]
  BY <1>3, SameStage DEF SafeInv
<1>6. Stage # "regDone"
  BY <1>1 DEF SafeInv, StartInv
<1>7. /\ tq' \in Seq(Commands) /\ TimerAlive'
      /\ \A u \in Timers : Deleted(u)' <=> Deleted(u)
  <2>1. /\ tq' \in Seq(Commands) /\ TimerAlive'
        /\ \A u \in Timers : Deleted(u)' <=> Deleted(u) \/ ("period" = "delete" /\ u = web.timer)
    <3>1. timers' \in [Timers -> {"free", "dormant", "active"}] /\ timers' = timers
      BY <1>3 DEF SafeInv, Types
    <3> QED BY <1>2, <1>3, <3>1, Sent DEF SafeInv, TimerInv
  <2> QED BY <2>1
<1>8. Types'
  BY <1>3, <1>4, <1>5, <1>7, NoScanType DEF SafeInv, Types, Commands
<1>9. ScanInv' /\ ListInv' /\ StartInv' /\ CloseInv'
  BY <1>2, <1>3, <1>4, <1>5, <1>6, NoScanType DEF ScanInv, ListInv, StartInv, CloseInv
<1>10. TimerInv'
  <2>1. TimerKept'
    BY <1>3, <1>4, <1>7 DEF SafeInv, TimerInv, TimerKept
  <2>2. PICK t \in Timers : t = web.timer
    BY <1>2
  <2>3. web'.timer = t /\ timers'[t] # "free" /\ ~ Deleted(t)'
    BY <1>2, <1>3, <1>4, <1>7, <2>2
  <2> QED BY <1>2, <1>5, <1>7, <2>1, <2>3, TimerInvNext
<1> QED BY <1>5, <1>8, <1>9, <1>10 DEF SafeInv

\* An end that nobody hears changes the flag of the driver only.
LEMMA DoneUnheardSafe == ASSUME SafeInv, DoneUnheard PROVE SafeInv'
<1>1. /\ UNCHANGED <<scan, web, handlers, lists, timers, tq, pc, cb, closes, heard>>
      /\ scanning' = FALSE
  BY DEF DoneUnheard, memory, local
<1>2. Stage' = Stage /\ Alone' /\ pc' \in [Threads -> Labels]
  BY <1>1, SameStage DEF SafeInv
<1>3. Types' /\ ScanInv' /\ ListInv' /\ StartInv' /\ CloseInv'
  BY <1>1, <1>2 DEF SafeInv, Types, ScanInv, ListInv, StartInv, CloseInv
<1>4. TimerInv'
  BY <1>1, <1>2, SameTimers DEF SafeInv
<1> QED BY <1>2, <1>3, <1>4 DEF SafeInv

-----------------------------------------------------------------------------
(* api_wifi_scan.                                                          *)

\* A scan starts from two empty records, with a timer nobody else knows.
LEMMA StartSafe == ASSUME SafeInv, ~ Hasty, NEW w \in BOOLEAN, Start(w) PROVE SafeInv'
<1>1. /\ pc[Caller] = "idle" /\ pc[Daemon] = "idle" /\ ~ scan.running /\ web.flg = 0
      /\ scan' = [scan EXCEPT !.running = TRUE]
      /\ UNCHANGED <<handlers, lists, scanning, heard>> /\ cb' \in BOOLEAN
  BY DEF Start, MayStart
<1>2. /\ scan = NoScan /\ web = NoWeb /\ handlers = {} /\ Stage = "idle"
  BY <1>1 DEF SafeInv, ScanInv, Stage
<1>3. /\ scan' \in [running : BOOLEAN, show : BOOLEAN, list : Lists \cup {NULL},
                   ap : [1..MaxAp -> Entries \cup {NULL}], pap : Seq(1..MaxAp)]
      /\ scan'.running /\ scan'.list = NULL /\ scan'.pap = <<>>
  BY <1>1, <1>2, NoScanType
<1>4. lists = {}
  BY <1>2, NoScanType, NoWebType, NullAssumption DEF SafeInv, ListInv, Types
<1>5. ASSUME NEW t \in Timers, timers[t] = "free",
             timers' = [timers EXCEPT ![t] = "dormant"],
             web' = [NoWeb EXCEPT !.flg = 1, !.timer = t],
             tq' = Append(tq, Command("start", t)), Goto(Caller, "prepare"), UNCHANGED closes
      PROVE  SafeInv'
  <2>1. Stage' = "prepare" /\ Alone' /\ pc' \in [Threads -> Labels]
    BY <1>1, <1>5 DEF SafeInv, Types, Alone, Stage, Goto, Threads, Caller, Daemon, Labels
  <2>2. /\ web' \in [flg : 0..2, timer : Timers \cup {NULL}, list : Lists \cup {NULL}]
        /\ web'.flg = 1 /\ web'.list = NULL /\ web'.timer = t
    <3>1. web' = [flg |-> 1, timer |-> t, list |-> NULL]
      BY <1>5 DEF NoWeb
    <3> QED BY ONLY <3>1, t \in Timers
  <2>3. ~ Deleted(t)
    <3>1. ASSUME NEW i \in 1..Len(tq), tq[i] = Command("delete", t) PROVE FALSE
      <4>1. timers[tq[i].timer] # "free"
        BY DEF SafeInv, TimerInv, TimerAlive
      <4> QED BY <1>5, <3>1, <4>1, CommandType
    <3> QED BY <3>1 DEF Deleted
  <2>4. /\ timers' \in [Timers -> {"free", "dormant", "active"}] /\ timers'[t] # "free"
        /\ \A u \in Timers : timers[u] # "free" => timers'[u] # "free"
        /\ \A u \in Timers : u # t => timers'[u] = timers[u]
    BY <1>5 DEF SafeInv, Types
  <2>5. /\ tq' \in Seq(Commands) /\ TimerAlive'
        /\ \A u \in Timers : Deleted(u)' <=> Deleted(u) \/ ("start" = "delete" /\ u = t)
    BY <1>5, <2>3, <2>4, Sent DEF SafeInv, TimerInv
  <2>6. Types'
    BY <1>1, <1>3, <1>5, <2>1, <2>2, <2>4, <2>5 DEF SafeInv, Types, Commands
  <2>7. ScanInv' /\ ListInv' /\ StartInv' /\ CloseInv'
    BY <1>1, <1>2, <1>3, <1>4, <2>1, <2>2, NullAssumption DEF ScanInv, ListInv, StartInv, CloseInv
  <2>8. TimerInv'
    <3>1. TimerKept'
      BY <1>2, <2>2, <2>4, <2>5, NoWebType, NullAssumption DEF SafeInv, TimerInv, TimerKept
    <3>2. web'.timer = t /\ timers'[t] # "free" /\ ~ Deleted(t)'
      BY <2>2, <2>3, <2>4, <2>5
    <3> QED BY <2>1, <2>5, <3>1, <3>2, TimerInvNext
  <2> QED BY <2>1, <2>6, <2>7, <2>8 DEF SafeInv
<1>6. ASSUME web' = [NoWeb EXCEPT !.flg = 1], Fail(1), UNCHANGED <<timers, tq>> PROVE SafeInv'
  <2>1. Stage' = "close" /\ Alone' /\ pc' \in [Threads -> Labels] /\ closes' = 1
    BY <1>1, <1>6 DEF SafeInv, Types, Alone, Stage, Goto, Fail, Threads, Caller, Daemon, Labels
  <2>2. /\ web' \in [flg : 0..2, timer : Timers \cup {NULL}, list : Lists \cup {NULL}]
        /\ web'.flg = 1 /\ web'.list = NULL /\ web'.timer = NULL
    BY <1>6 DEF NoWeb
  <2>3. Types'
    BY <1>1, <1>3, <1>6, <2>1, <2>2 DEF SafeInv, Types
  <2>4. ScanInv' /\ ListInv' /\ StartInv' /\ CloseInv'
    BY <1>1, <1>2, <1>3, <1>4, <2>1, <2>2 DEF ScanInv, ListInv, StartInv, CloseInv
  <2>5. TimerInv'
    BY <1>2, <1>6, <2>1, <2>2, NoWebType, SameTimers DEF SafeInv
  <2> QED BY <2>1, <2>3, <2>4, <2>5 DEF SafeInv
<1> QED BY <1>5, <1>6 DEF Start

\* The list of a scan is one that is not in use.
LEMMA PrepareSafe == ASSUME SafeInv, Prepare PROVE SafeInv'
<1>1. /\ pc[Caller] = "prepare" /\ UNCHANGED <<web, handlers, timers, tq, scanning, cb>>
  BY DEF Prepare
<1> DEFINE Prepared(k) ==
        /\ Goto(Caller, k) /\ closes' \in 0..2
        /\ k = "close" => lists' = lists /\ heard' = heard
                          /\ (scan' = scan \/ scan' = [scan EXCEPT !.show = cb])
        /\ k = "regReport" => /\ heard' = [m \in Macs |-> 0]
                              /\ \E l \in Lists \ lists :
                                   /\ lists' = lists \cup {l}
                                   /\ scan' = [scan EXCEPT !.show = cb, !.list = l]
<1>2. PICK k \in {"close", "regReport"} : Prepared(k)
  <2>1. ASSUME NEW n \in {1, 2}, Fail(n), lists' = lists, heard' = heard,
               scan' = scan \/ scan' = [scan EXCEPT !.show = cb]
        PROVE  \E k \in {"close", "regReport"} : Prepared(k)
    <3>1. Goto(Caller, "close") /\ closes' = n
      BY <2>1 DEF Fail
    <3>2. Prepared("close")
      BY <2>1, <3>1
    <3> QED BY <3>2
  <2>2. ASSUME NEW l \in Lists \ lists, lists' = lists \cup {l},
               scan' = [scan EXCEPT !.show = cb, !.list = l],
               heard' = [m \in Macs |-> 0],
               Goto(Caller, "regReport"), closes' = closes
        PROVE  \E k \in {"close", "regReport"} : Prepared(k)
    <3>1. closes' \in 0..2
      BY <2>2 DEF SafeInv, Types
    <3> QED BY <2>2, <3>1
  <2> QED BY <2>1, <2>2 DEF Prepare
<1>3. Stage = "prepare" /\ Stage' = k /\ Alone' /\ pc' \in [Threads -> Labels]
  BY <1>1, <1>2, StartStage DEF SafeInv, Labels
<1>4. /\ scan.running /\ web.flg = 1 /\ web.list = NULL /\ handlers = {} /\ scan.list = NULL
      /\ web.timer # NULL /\ scan.pap = <<>> /\ lists = {}
  <2>1. /\ scan.running /\ web.flg = 1 /\ web.list = NULL /\ handlers = {} /\ scan.list = NULL
        /\ web.timer # NULL /\ scan.pap = <<>>
    BY <1>3 DEF SafeInv, ScanInv, StartInv
  <2> QED BY <2>1, NullAssumption DEF SafeInv, ListInv, Types
<1>5. /\ scan' \in [running : BOOLEAN, show : BOOLEAN, list : Lists \cup {NULL},
                   ap : [1..MaxAp -> Entries \cup {NULL}], pap : Seq(1..MaxAp)]
      /\ scan'.running = scan.running /\ scan'.pap = scan.pap
      /\ k = "close" => scan'.list = NULL /\ lists' = {}
      /\ k = "regReport" => /\ lists' = {scan'.list} /\ scan'.list # NULL
                            /\ scan'.list \in Lists
  <2>1. CASE k = "close"
    BY <2>1, <1>2, <1>4 DEF SafeInv, Types
  <2>2. CASE k = "regReport"
    <3>1. PICK l \in Lists : lists' = {l} /\ scan' = [scan EXCEPT !.show = cb, !.list = l]
      BY <2>2, <1>2, <1>4
    <3>2. /\ scan'.list = l /\ scan'.running = scan.running /\ scan'.pap = scan.pap
          /\ scan' \in [running : BOOLEAN, show : BOOLEAN, list : Lists \cup {NULL},
                   ap : [1..MaxAp -> Entries \cup {NULL}], pap : Seq(1..MaxAp)]
      BY <3>1 DEF SafeInv, Types
    <3> QED BY <2>2, <3>1, <3>2, NullAssumption
  <2> QED BY <2>1, <2>2
<1>6. Types'
  <2>1. heard \in [Macs -> Signals \cup {0}] /\ lists \subseteq Lists
    BY DEF SafeInv, Types
  <2>2. heard' \in [Macs -> Signals \cup {0}] /\ lists' \subseteq Lists
    <3>1. CASE k = "close"
      BY <1>2, <1>5, <2>1, <3>1
    <3>2. CASE k = "regReport"
      BY <1>2, <1>5, <3>2
    <3> QED BY <3>1, <3>2
  <2> QED BY <1>1, <1>2, <1>3, <1>5, <2>2 DEF SafeInv, Types
<1>7. ScanInv'
  BY <1>1, <1>4, <1>5 DEF ScanInv
<1>8. ListInv'
  BY <1>1, <1>3, <1>4, <1>5 DEF ListInv
<1>9. StartInv' /\ CloseInv'
  BY <1>1, <1>2, <1>3, <1>4, <1>5 DEF StartInv, CloseInv
<1>10. TimerInv'
  BY <1>1, <1>3, SameTimers DEF SafeInv
<1> QED BY <1>3, <1>6, <1>7, <1>8, <1>9, <1>10 DEF SafeInv

\* Reports come when the list is there.
LEMMA RegReportSafe == ASSUME SafeInv, RegReport PROVE SafeInv'
<1>1. Stage = "regReport" /\ Stage' = "regDone" /\ Alone' /\ pc' \in [Threads -> Labels]
  BY StartStage DEF SafeInv, Labels, RegReport
<1>2. /\ UNCHANGED <<scan, web, lists, timers, tq, scanning, cb, closes, heard>>
      /\ handlers' = {"report"}
  BY <1>1 DEF RegReport, memory, local, SafeInv, StartInv
<1>3. Types'
  BY <1>1, <1>2 DEF SafeInv, Types
<1>4. ScanInv' /\ ListInv' /\ StartInv' /\ CloseInv'
  BY <1>1, <1>2 DEF SafeInv, ScanInv, ListInv, StartInv, CloseInv
<1>5. TimerInv'
  BY <1>1, <1>2, SameTimers DEF SafeInv
<1> QED BY <1>1, <1>3, <1>4, <1>5 DEF SafeInv

\* The end comes when the list is there.
LEMMA RegDoneSafe == ASSUME SafeInv, RegDone PROVE SafeInv'
<1>1. Stage = "regDone" /\ Stage' = "setScan" /\ Alone' /\ pc' \in [Threads -> Labels]
  BY StartStage DEF SafeInv, Labels, RegDone
<1>2. /\ UNCHANGED <<scan, web, lists, timers, tq, scanning, cb, closes, heard>>
      /\ handlers' = handlers \cup {"done"}
  BY DEF RegDone, memory, local
<1>3. Types'
  BY <1>1, <1>2 DEF SafeInv, Types
<1>4. ScanInv' /\ ListInv' /\ StartInv' /\ CloseInv'
  BY <1>1, <1>2 DEF SafeInv, ScanInv, ListInv, StartInv, CloseInv
<1>5. TimerInv'
  BY <1>1, <1>2, SameTimers DEF SafeInv
<1> QED BY <1>1, <1>3, <1>4, <1>5 DEF SafeInv

\* The driver scans when both handlers are there, or the scan is closed.
LEMMA SetScanSafe == ASSUME SafeInv, SetScan PROVE SafeInv'
<1>1. PICK k \in {"wait", "idle", "close"} : Goto(Caller, k)
  BY DEF SetScan, Fail
<1>2. Stage = "setScan" /\ Stage' = k /\ Alone' /\ pc' \in [Threads -> Labels]
  BY <1>1, StartStage DEF SafeInv, Labels, SetScan
<1>3. /\ UNCHANGED <<scan, web, handlers, lists, timers, tq, cb, heard>>
      /\ scanning' \in BOOLEAN /\ closes' \in 0..2
  <2>1. closes' \in 0..2
    <3>1. closes \in 0..2
      BY DEF SafeInv, Types
    <3>2. closes' = closes \/ closes' = 2
      BY DEF SetScan, Fail
    <3> QED BY ONLY <3>1, <3>2
  <2>2. scanning' \in BOOLEAN
    <3>1. scanning \in BOOLEAN
      BY DEF SafeInv, Types
    <3> QED BY <3>1 DEF SetScan
  <2>3. UNCHANGED <<scan, web, handlers, lists, timers, tq, cb, heard>>
    BY DEF SetScan, memory
  <2> QED BY <2>1, <2>2, <2>3
<1>4. Types'
  BY <1>2, <1>3 DEF SafeInv, Types
<1>5. ScanInv' /\ ListInv' /\ StartInv' /\ CloseInv'
  BY <1>2, <1>3 DEF SafeInv, ScanInv, ListInv, StartInv, CloseInv
<1>6. TimerInv'
  BY <1>2, <1>3, SameTimers DEF SafeInv
<1> QED BY <1>2, <1>4, <1>5, <1>6 DEF SafeInv

\* The caller of a scan with a result handler returns.
LEMMA WaitEndsSafe == ASSUME SafeInv, WaitEnds PROVE SafeInv'
<1>1. /\ UNCHANGED <<scan, web, handlers, lists, timers, tq, scanning, cb, closes, heard>>
      /\ pc[Caller] = "wait" /\ pc' = [pc EXCEPT ![Caller] = "idle"]
  BY DEF WaitEnds, memory, local, Goto
<1>2. /\ Alone' /\ pc' \in [Threads -> Labels]
      /\ Stage' = Stage \/ (Stage = "wait" /\ Stage' = "idle")
  BY <1>1 DEF SafeInv, Types, Alone, Stage, Threads, Caller, Daemon, Labels
<1>3. Types'
  BY <1>1, <1>2 DEF SafeInv, Types
<1>4. ScanInv' /\ ListInv' /\ StartInv' /\ CloseInv'
  BY <1>1, <1>2 DEF SafeInv, ScanInv, ListInv, StartInv, CloseInv
<1>5. TimerInv'
  BY <1>1, <1>2, SameTimers DEF SafeInv
<1> QED BY <1>2, <1>3, <1>4, <1>5 DEF SafeInv

-----------------------------------------------------------------------------
(* The timer daemon.                                                       *)

\* An expired timer brings the daemon to wifi_close_scan.
LEMMA ExpireSafe == ASSUME SafeInv, NEW t \in Timers, Expire(t) PROVE SafeInv'
<1>1. /\ UNCHANGED <<scan, web, handlers, lists, tq, scanning, cb, closes, heard>>
      /\ pc[Daemon] = "idle" /\ pc[Caller] \in {"idle", "wait"}
      /\ pc' = [pc EXCEPT ![Daemon] = "close"]
      /\ timers[t] = "active" /\ timers' = [timers EXCEPT ![t] = "dormant"]
  BY DEF Expire, local, At, Scheduled, Goto
<1>2. /\ Alone' /\ pc' \in [Threads -> Labels] /\ Stage' = "close"
      /\ Stage \in {"idle", "wait"}
  BY <1>1 DEF SafeInv, Types, Alone, Stage, Threads, Caller, Daemon, Labels
<1>3. /\ timers' \in [Timers -> {"free", "dormant", "active"}]
      /\ \A u \in Timers : timers'[u] = "free" <=> timers[u] = "free"
  BY <1>1 DEF SafeInv, Types
<1>4. Types'
  BY <1>1, <1>2, <1>3 DEF SafeInv, Types
<1>5. ScanInv' /\ ListInv' /\ StartInv' /\ CloseInv'
  BY <1>1, <1>2 DEF SafeInv, ScanInv, ListInv, StartInv, CloseInv
<1>6. TimerInv'
  <2>1. \A i \in 1..Len(tq) : tq[i].timer \in Timers
    <3>1. tq \in Seq(Commands)
      BY DEF SafeInv, Types, Commands
    <3>2. \A i \in 1..Len(tq) : tq[i] \in Commands
      BY ONLY <3>1
    <3> QED BY <3>2 DEF Commands
  <2>2. TimerAlive'
    BY <1>1, <1>3, <2>1 DEF SafeInv, TimerInv, TimerAlive
  <2>3. TimerKept'
    BY <1>1, <1>3 DEF SafeInv, TimerInv, TimerKept, Deleted
  <2>4. web'.timer # NULL =>
          \E u \in Timers : web'.timer = u /\ timers'[u] # "free" /\ ~ Deleted(u)'
    <3>1. web.timer # NULL => web.timer \in Timers /\ timers[web.timer] # "free" /\ ~ Deleted(web.timer)
      BY <1>2 DEF SafeInv, TimerInv, Types
    <3> QED BY <1>1, <1>3, <3>1 DEF Deleted
  <2> QED BY <1>2, <2>2, <2>3, <2>4, TimerInvNext
<1> QED BY <1>2, <1>4, <1>5, <1>6 DEF SafeInv

\* The head of the queue is applied.
LEMMA ApplySafe == ASSUME SafeInv, Apply PROVE SafeInv'
<1>1. /\ UNCHANGED <<scan, web, handlers, lists, scanning, pc, cb, closes, heard>>
      /\ pc[Daemon] = "idle" /\ pc[Caller] \in {"idle", "wait"}
      /\ tq # <<>> /\ tq' = Tail(tq)
      /\ timers' = [timers EXCEPT ![Head(tq).timer] = Applied(Head(tq))]
  BY DEF Apply, local, At, Scheduled
<1>2. /\ Alone' /\ pc' \in [Threads -> Labels] /\ Stage' = Stage
      /\ Stage \in {"idle", "wait"}
  BY <1>1 DEF SafeInv, Types, Alone, Stage, Threads, Caller, Daemon, Labels
<1>3. tq \in Seq(Commands)
  BY DEF SafeInv, Types, Commands
<1>4. PICK c \in Commands : c = tq[1] /\ c = Head(tq)
  BY <1>1, <1>3
<1>5. /\ tq' \in Seq(Commands) /\ Len(tq) \in Nat /\ Len(tq) > 0 /\ Len(tq') = Len(tq) - 1
      /\ \A i \in 1..Len(tq') : i + 1 \in 1..Len(tq) /\ tq'[i] = tq[i + 1]
  BY <1>1, <1>3
<1>6. /\ c.timer \in Timers /\ c.cmd \in {"start", "period", "delete"}
      /\ timers' \in [Timers -> {"free", "dormant", "active"}]
      /\ c.cmd = "delete" => timers'[c.timer] = "free"
      /\ c.cmd # "delete" => timers'[c.timer] # "free"
      /\ \A u \in Timers : u # c.timer => timers'[u] = timers[u]
  BY <1>1, <1>4 DEF SafeInv, Types, Commands, Applied
<1>7. 1 \in 1..Len(tq) /\ timers[c.timer] # "free"
      /\ (c.cmd = "delete" => \A j \in 2..Len(tq) : tq[j].timer # c.timer)
  <2>1. 1 \in 1..Len(tq)
    BY <1>5
  <2>2. /\ timers[tq[1].timer] # "free"
        /\ tq[1].cmd = "delete" => \A j \in (1 + 1)..Len(tq) : tq[j].timer # tq[1].timer
    BY <2>1 DEF SafeInv, TimerInv, TimerAlive
  <2> QED BY <1>4, <2>1, <2>2
<1>8. Types'
  BY <1>1, <1>2, <1>5, <1>6 DEF SafeInv, Types, Commands
<1>9. ScanInv' /\ ListInv' /\ StartInv' /\ CloseInv'
  BY <1>1, <1>2 DEF SafeInv, ScanInv, ListInv, StartInv, CloseInv
<1>10. TimerAlive'
  <2>1. ASSUME NEW i \in 1..Len(tq') PROVE timers'[tq'[i].timer] # "free"
    <3>1. i + 1 \in 1..Len(tq) /\ i + 1 \in 2..Len(tq) /\ tq'[i] = tq[i + 1]
      BY <1>5
    <3>2. timers[tq[i + 1].timer] # "free" /\ tq[i + 1].timer \in Timers
      <4>1. tq[i + 1] \in Commands
        BY ONLY <3>1, <1>3
      <4> QED BY <3>1, <4>1 DEF SafeInv, TimerInv, TimerAlive, Commands
    <3> QED BY <1>6, <1>7, <3>1, <3>2
  <2>2. ASSUME NEW i \in 1..Len(tq'), tq'[i].cmd = "delete", NEW j \in (i + 1)..Len(tq')
        PROVE  tq'[j].timer # tq'[i].timer
    <3>1. j \in 1..Len(tq')
      BY <1>5
    <3>2. /\ i + 1 \in 1..Len(tq) /\ tq'[i] = tq[i + 1] /\ tq'[j] = tq[j + 1]
          /\ j + 1 \in (i + 1 + 1)..Len(tq)
      BY <1>5, <3>1
    <3> QED BY <2>2, <3>2 DEF SafeInv, TimerInv, TimerAlive
  <2> QED BY <2>1, <2>2 DEF TimerAlive
<1>11. ASSUME NEW u \in Timers
       PROVE  /\ Deleted(u)' => Deleted(u)
              /\ Deleted(u) => Deleted(u)' \/ (c.cmd = "delete" /\ u = c.timer)
  <2>1. ASSUME Deleted(u)' PROVE Deleted(u)
    <3>1. PICK i \in 1..Len(tq') : tq'[i] = Command("delete", u)
      BY <2>1 DEF Deleted
    <3> QED BY <3>1, <1>5 DEF Deleted
  <2>2. ASSUME Deleted(u) PROVE Deleted(u)' \/ (c.cmd = "delete" /\ u = c.timer)
    <3>1. PICK i \in 1..Len(tq) : tq[i] = Command("delete", u)
      BY <2>2 DEF Deleted
    <3>2. CASE i = 1
      BY <3>1, <3>2, <1>4, CommandType
    <3>3. CASE i # 1
      <4>1. PICK j \in 1..Len(tq') : i = j + 1
        <5>1. i - 1 \in 1..Len(tq') /\ i = (i - 1) + 1
          BY <3>3, <1>5
        <5> QED BY <5>1
      <4> QED BY <3>1, <4>1, <1>5 DEF Deleted
    <3> QED BY <3>2, <3>3
  <2> QED BY <2>1, <2>2
<1>12. TimerInv'
  <2>1. TimerKept'
    BY <1>1, <1>6, <1>7, <1>11 DEF SafeInv, TimerInv, TimerKept
  <2>2. ASSUME NEW u \in Timers, web.timer = u PROVE timers'[u] # "free" /\ ~ Deleted(u)'
    <3>1. timers[u] # "free" /\ ~ Deleted(u)
      BY <1>2, <2>2, NullAssumption DEF SafeInv, TimerInv
    <3>2. ~ (c.cmd = "delete" /\ c.timer = u)
      <4>1. ASSUME c.cmd = "delete", c.timer = u PROVE FALSE
        <5>1. tq[1] = Command("delete", u)
          BY <1>4, <4>1 DEF Commands, Command
        <5> QED BY <1>7, <3>1, <5>1 DEF Deleted
      <4> QED BY <4>1
    <3>3. timers'[u] # "free"
      BY <1>6, <3>1, <3>2
    <3> QED BY <1>11, <3>1, <3>3
  <2>3. web'.timer # NULL => \E u \in Timers : web'.timer = u /\ web.timer = u
    BY <1>1 DEF SafeInv, Types
  <2> QED BY <1>2, <1>10, <2>1, <2>2, <2>3, TimerInvNext
<1> QED BY <1>2, <1>8, <1>9, <1>12 DEF SafeInv

-----------------------------------------------------------------------------
(* A report, in the driver's thread.                                       *)

\* What is known of the list while it is collected.
LEMMA ListFacts ==
  ASSUME IInv, "report" \in handlers
  PROVE  /\ scan.pap \in Seq(1..MaxAp) /\ MaxAp \in Nat /\ Count \in 0..MaxAp
         /\ scan.ap \in [1..MaxAp -> Entries \cup {NULL}]
         /\ OneToOne(scan.pap) /\ ToSet(scan.pap) = 1..Count
         /\ \A k \in 1..Count : scan.pap[k] \in 1..Count
         /\ \A k \in 1..Count : \E i \in 1..Count : scan.pap[i] = k
         /\ \A k \in 1..Count : /\ scan.ap[k] \in Entries /\ scan.ap[k].signal \in Nat
                                /\ scan.ap[k].mac \in Macs
         /\ \A i, j \in 1..Count : i < j => scan.ap[scan.pap[i]].signal >= scan.ap[scan.pap[j]].signal
         /\ EntryInv /\ \A m \in Macs : heard[m] \in Nat
<1>1. scan.pap \in Seq(1..MaxAp) /\ MaxAp \in Nat /\ scan.ap \in [1..MaxAp -> Entries \cup {NULL}]
  BY MaxApAssumption DEF IInv, SafeInv, Types
<1>2. Count \in Nat /\ DOMAIN scan.pap = 1..Count
  BY <1>1 DEF Count
<1>3. OneToOne(scan.pap) /\ ToSet(scan.pap) = 1..Count
  BY DEF IInv, PointerInv, OneToOne, Count
<1>4. /\ \A k \in 1..Count : scan.pap[k] \in 1..Count
      /\ \A k \in 1..Count : \E i \in 1..Count : scan.pap[i] = k
  BY <1>2, <1>3 DEF ToSet
<1>5. Count <= MaxAp
  <2>1. CASE Count = 0
    BY <1>1, <2>1
  <2>2. CASE Count # 0
    <3>1. Count \in 1..Count
      BY <1>2, <2>2
    <3>2. PICK i \in 1..Count : scan.pap[i] = Count
      BY <1>4, <3>1
    <3>3. scan.pap[i] \in 1..MaxAp
      BY <1>1, <1>2, <3>2
    <3> QED BY <1>1, <1>2, <3>2, <3>3
  <2> QED BY <2>1, <2>2
<1>6. \A k \in 1..Count : /\ scan.ap[k] \in Entries /\ scan.ap[k].signal \in Nat
                          /\ scan.ap[k].mac \in Macs
  BY SignalsAssumption DEF IInv, PointerInv, Entries
<1>7. /\ EntryInv
      /\ \A i, j \in 1..Count : i < j => scan.ap[scan.pap[i]].signal >= scan.ap[scan.pap[j]].signal
  BY DEF IInv, StrongInv, SortedInv, Signal
<1>8. \A m \in Macs : heard[m] \in Nat
  <2>1. heard \in [Macs -> Signals \cup {0}]
    BY DEF IInv, SafeInv, Types
  <2>2. Signals \cup {0} \subseteq Nat
    BY SignalsAssumption
  <2> QED BY ONLY <2>1, <2>2
<1>9. Count \in 0..MaxAp
  BY ONLY <1>1, <1>2, <1>5
<1> QED BY ONLY <1>1, <1>3, <1>4, <1>6, <1>7, <1>8, <1>9, Zenon

\* An entry is written and its pointer put in its place.
LEMMA PutInv ==
  ASSUME NEW k \in 1..MaxAp, NEW e \in Entries, NEW r \in Seq(1..MaxAp),
         NEW p \in 1..(Len(r) + 1), OneToOne(r), \A j \in 1..Len(r) : r[j] # k,
         ToSet(r) \cup {k} = 1..(Len(r) + 1),
         scan.ap \in [1..MaxAp -> Entries \cup {NULL}],
         \A j \in 1..Len(r) : scan.ap[r[j]] \in Entries,
         \A i, j \in 1..Len(r) : i < j => scan.ap[r[i]].signal >= scan.ap[r[j]].signal,
         \A j \in 1..Len(r) : IF j < p THEN scan.ap[r[j]].signal >= e.signal
                              ELSE e.signal >= scan.ap[r[j]].signal,
         scan'.ap = [scan.ap EXCEPT ![k] = e], scan'.pap = InsertAt(r, p, k)
  PROVE  /\ scan'.ap \in [1..MaxAp -> Entries \cup {NULL}]
         /\ scan'.pap \in Seq(1..MaxAp) /\ Count' = Len(r) + 1
         /\ scan'.ap[k] = e /\ \A x \in 1..MaxAp : x # k => scan'.ap[x] = scan.ap[x]
         /\ PointerInv' /\ SortedInv'
<1>1. MaxAp \in Nat /\ \A e1 \in Entries : e1.signal \in Nat
  BY MaxApAssumption, SignalsAssumption DEF Entries
<1>2. /\ scan'.ap \in [1..MaxAp -> Entries \cup {NULL}]
      /\ scan'.ap[k] = e /\ \A x \in 1..MaxAp : x # k => scan'.ap[x] = scan.ap[x]
  OBVIOUS
<1>3. PICK q : q = scan'.pap
  OBVIOUS
<1>4. With(q, r, p, k, MaxAp)
  <2>1. /\ InsertAt(r, p, k) \in Seq(1..MaxAp) /\ Len(InsertAt(r, p, k)) = Len(r) + 1
        /\ \A j \in 1..(Len(r) + 1) :
             InsertAt(r, p, k)[j] = IF j < p THEN r[j] ELSE IF j = p THEN k ELSE r[j - 1]
    <3>1. PICK S : S = 1..MaxAp
      OBVIOUS
    <3>2. r \in Seq(S) /\ k \in S
      BY <3>1
    <3>3. /\ InsertAt(r, p, k) \in Seq(S) /\ Len(InsertAt(r, p, k)) = Len(r) + 1
          /\ \A j \in 1..(Len(r) + 1) :
               InsertAt(r, p, k)[j] = IF j < p THEN r[j] ELSE IF j = p THEN k ELSE r[j - 1]
      BY ONLY <3>2, InsertAtFacts, p \in 1..(Len(r) + 1)
    <3> QED BY <3>1, <3>3
  <2> QED BY <1>3, <2>1 DEF With
<1>5. PICK f : f = [x \in 1..MaxAp |-> scan'.ap[x].signal]
  OBVIOUS
<1>6. \A j \in 1..Len(r) : r[j] \in 1..MaxAp /\ f[r[j]] = scan.ap[r[j]].signal /\ f[r[j]] \in Nat
  BY <1>1, <1>2, <1>5
<1>7. f[k] = e.signal /\ f[k] \in Nat
  BY <1>1, <1>2, <1>5
<1>8. Ordered(f, r)
  BY <1>6 DEF Ordered
<1>9. \A j \in 1..Len(r) : IF j < p THEN f[r[j]] >= f[k] ELSE f[k] >= f[r[j]]
  BY <1>6, <1>7
<1>10. OneToOne(q) /\ ToSet(q) = ToSet(r) \cup {k} /\ Ordered(f, q)
  <2>1. MaxAp \in Nat /\ (\A j \in 1..Len(r) : f[r[j]] \in Nat) /\ f[k] \in Nat
    BY <1>1, <1>6, <1>7
  <2>2. \A j \in 1..Len(r) : r[j] # k
    OBVIOUS
  <2> QED BY ONLY <2>1, <2>2, <1>4, <1>8, <1>9, PutFacts, r \in Seq(1..MaxAp),
              p \in 1..(Len(r) + 1), k \in 1..MaxAp, OneToOne(r)
<1>11. q \in Seq(1..MaxAp) /\ Len(q) = Len(r) + 1 /\ Count' = Len(r) + 1
  BY <1>3, <1>4 DEF With, Count
<1>12. \A x \in 1..Count' : x = k \/ \E j \in 1..Len(r) : x = r[j]
  <2>1. DOMAIN r = 1..Len(r)
    OBVIOUS
  <2> QED BY <1>11, <2>1 DEF ToSet
<1>13. \A x \in 1..Count' : scan'.ap[x] \in Entries
  BY <1>2, <1>6, <1>12
<1>14. PointerInv'
  BY <1>3, <1>10, <1>11, <1>13 DEF PointerInv, OneToOne
<1>15. SortedInv'
  <2>1. \A i \in 1..Count' : q[i] \in 1..MaxAp /\ f[q[i]] = scan'.ap[q[i]].signal
    <3>1. q \in Seq(1..MaxAp) /\ MaxAp \in Nat
      BY <1>1, <1>11
    <3>2. \A i \in 1..Len(q) : q[i] \in 1..MaxAp
      BY ONLY <3>1
    <3> QED BY <1>5, <1>11, <3>2
  <2> QED BY <1>3, <1>10, <1>11, <2>1 DEF SortedInv, Signal, Ordered
<1> QED BY <1>2, <1>3, <1>11, <1>14, <1>15

\* It is known, with a weaker signal: its pointer moves towards the head.
LEMMA RaisedInv ==
  ASSUME IInv, "report" \in handlers, NEW m \in Macs, NEW s \in Signals,
         NEW i \in 1..Count, scan.ap[scan.pap[i]].mac = m, s > Signal(i),
         scan' = Raised(i, s), Best(heard', heard, m, s)
  PROVE  /\ scan'.ap \in [1..MaxAp -> Entries \cup {NULL}] /\ scan'.pap \in Seq(1..MaxAp)
         /\ PointerInv' /\ SortedInv' /\ EntryInv'
<1>1. PICK q \in Seq(1..MaxAp) : q = scan.pap
  BY ListFacts
<1>2. PICK k \in 1..Count : k = scan.pap[i]
  BY ListFacts
<1>0. i \in 1..Len(q) /\ Count = Len(q) /\ q[i] = k /\ OneToOne(q) /\ MaxAp \in Nat
  BY <1>1, <1>2, ListFacts DEF Count
<1>3. PICK r : r = RemoveAt(q, i) /\ Without(r, q, i, MaxAp)
  <2>1. /\ RemoveAt(q, i) \in Seq(1..MaxAp) /\ Len(RemoveAt(q, i)) = Len(q) - 1
        /\ \A j \in 1..(Len(q) - 1) : RemoveAt(q, i)[j] = IF j < i THEN q[j] ELSE q[j + 1]
    BY ONLY RemoveAtFacts, <1>0, q \in Seq(1..MaxAp)
  <2> QED BY <2>1 DEF Without
<1>4. /\ OneToOne(r) /\ \A j \in 1..Len(r) : r[j] # k
      /\ ToSet(q) = ToSet(r) \cup {k} /\ r \in Seq(1..MaxAp)
      /\ Len(r) = Count - 1 /\ Count \in Nat /\ Count <= MaxAp /\ s \in Nat /\ MaxAp \in Nat
  <2>1. OneToOne(r) /\ (\A j \in 1..Len(r) : r[j] # k) /\ ToSet(q) = ToSet(r) \cup {k}
    BY ONLY <1>0, <1>3, RestFacts, q \in Seq(1..MaxAp)
  <2>2. r \in Seq(1..MaxAp) /\ Len(r) = Count - 1
    BY <1>0, <1>3 DEF Without
  <2> QED BY <2>1, <2>2, ListFacts, SignalsAssumption
<1>5. \A j \in 1..Len(r) : r[j] = IF j < i THEN q[j] ELSE q[j + 1]
  BY <1>1, <1>3 DEF Without, Count
<1>6. PICK p \in 1..(Len(r) + 1) :
        /\ p = Max({0} \cup Above(i, s)) + 1 /\ p <= i
        /\ p > 1 => p - 1 \in 1..(i - 1) /\ Signal(p - 1) >= s
        /\ \A j \in 1..(i - 1) : j >= p => ~ (Signal(j) >= s)
  <2>1. /\ {0} \cup Above(i, s) \in SUBSET Nat /\ i \in Nat
        /\ \A x \in {0} \cup Above(i, s) : x <= i - 1
    BY <1>4 DEF Above
  <2>2. PICK M \in {0} \cup Above(i, s) :
          M = Max({0} \cup Above(i, s)) /\ \A x \in {0} \cup Above(i, s) : M >= x
    <3>1. i - 1 \in Nat /\ {0} \cup Above(i, s) # {}
      BY <1>4
    <3>2. /\ Max({0} \cup Above(i, s)) \in {0} \cup Above(i, s)
          /\ \A x \in {0} \cup Above(i, s) : Max({0} \cup Above(i, s)) >= x
      BY <2>1, <3>1, MaxFacts
    <3> QED BY <3>2
  <2>3. M + 1 \in 1..(Len(r) + 1) /\ M + 1 <= i /\ M \in Nat
    BY <1>4, <2>1
  <2>4. M + 1 > 1 => M \in 1..(i - 1) /\ Signal(M) >= s
    <3>1. M > 0 => M \in Above(i, s)
      BY <2>3
    <3> QED BY <2>3, <3>1 DEF Above
  <2>5. ASSUME NEW j \in 1..(i - 1), j >= M + 1 PROVE ~ (Signal(j) >= s)
    <3>1. j \notin Above(i, s)
      <4>1. j \in Above(i, s) => M >= j
        BY <2>2
      <4> QED BY ONLY <4>1, <2>1, <2>3, <2>5, j \in 1..(i - 1)
    <3> QED BY <3>1 DEF Above
  <2>6. (M + 1) - 1 = M
    BY <2>3
  <2> QED BY <2>2, <2>3, <2>4, <2>5, <2>6
<1>7. PICK e \in Entries : e.mac = m /\ e.signal = s
      /\ scan'.ap = [scan.ap EXCEPT ![k] = e] /\ scan'.pap = InsertAt(r, p, k)
  <2>1. scan.ap[k] \in Entries /\ scan.ap[k].mac = m /\ k \in 1..MaxAp
    <3>1. k \in 1..MaxAp
      BY ONLY <1>4, k \in 1..Count
    <3>2. scan.ap[k] \in Entries
      BY ListFacts
    <3> QED BY <1>2, <3>1, <3>2
  <2>2. PICK e \in Entries : e = [scan.ap[k] EXCEPT !.signal = s]
    BY <2>1 DEF Entries
  <2>3. e.mac = m /\ e.signal = s
    BY <2>1, <2>2 DEF Entries
  <2>4. scan' = [scan EXCEPT !.ap[k].signal = s, !.pap = InsertAt(r, p, k)]
    BY <1>1, <1>2, <1>3, <1>6 DEF Raised
  <2>5. scan'.pap = InsertAt(r, p, k) /\ scan'.ap = [scan.ap EXCEPT ![k].signal = s]
    BY <2>4 DEF IInv, SafeInv, Types
  <2>6. scan'.ap = [scan.ap EXCEPT ![k] = e]
    BY <2>2, <2>5
  <2> QED BY <2>3, <2>5, <2>6
<1>8. \A j \in 1..Count : scan.ap[q[j]] \in Entries /\ scan.ap[q[j]].signal \in Nat
  BY <1>1, ListFacts
<1>9. \A j \in 1..Len(r) : scan.ap[r[j]] \in Entries /\ scan.ap[r[j]].signal \in Nat
  <2>1. \A j \in 1..Len(r) : \E l \in 1..Count : r[j] = q[l]
    <3>1. \A j \in 1..Len(r) : j \in 1..Count /\ j + 1 \in 1..Count
      BY ONLY <1>4
    <3> QED BY <1>5, <3>1
  <2> QED BY <1>8, <2>1
<1>10. \A j, l \in 1..Len(r) : j < l => scan.ap[r[j]].signal >= scan.ap[r[l]].signal
  <2>1. PICK f : f = [x \in 1..MaxAp |-> scan.ap[x].signal]
    OBVIOUS
  <2>2. \A j \in 1..Len(q) : f[q[j]] = scan.ap[q[j]].signal
    BY ONLY <1>0, <2>1, q \in Seq(1..MaxAp)
  <2>3. Ordered(f, q)
    BY <1>1, <2>2, ListFacts DEF Ordered, Count
  <2>4. Ordered(f, r)
    BY ONLY <1>0, <1>3, <2>3, RestFacts, q \in Seq(1..MaxAp)
  <2>5. \A j \in 1..Len(r) : f[r[j]] = scan.ap[r[j]].signal
    BY <1>4, <2>1
  <2> QED BY <2>4, <2>5 DEF Ordered
<1>11. ASSUME NEW j \in 1..Len(r)
       PROVE  IF j < p THEN scan.ap[r[j]].signal >= e.signal ELSE e.signal >= scan.ap[r[j]].signal
  <2>1. CASE j < p
    <3>1. r[j] = q[j] /\ j \in 1..Count /\ p - 1 \in 1..Count /\ p > 1
      BY <1>4, <1>5, <1>6, <2>1
    <3>2. scan.ap[q[j]].signal >= scan.ap[q[p - 1]].signal
      <4>1. CASE j = p - 1
        BY <1>8, <3>1, <4>1
      <4>2. CASE j < p - 1
        BY <1>1, <3>1, <4>2, ListFacts
      <4> QED BY <2>1, <3>1, <4>1, <4>2
    <3>3. scan.ap[q[p - 1]].signal >= s
      BY <1>1, <1>6, <3>1 DEF Signal
    <3>4. scan.ap[r[j]].signal >= s
      <4>1. PICK x \in Nat, y \in Nat : x = scan.ap[q[j]].signal /\ y = scan.ap[q[p - 1]].signal
        BY <1>8, <3>1
      <4>2. x >= y /\ y >= s
        BY <3>2, <3>3, <4>1
      <4>3. x >= s
        BY ONLY <1>4, <4>2, x \in Nat, y \in Nat
      <4> QED BY <3>1, <4>1, <4>3
    <3> QED BY <1>7, <2>1, <3>4
  <2>2. CASE ~ (j < p)
    <3>1. CASE j < i
      <4>1. j \in 1..(i - 1) /\ j >= p /\ r[j] = q[j] /\ j \in 1..Count
        BY <1>4, <1>5, <2>2, <3>1
      <4>2. ~ (scan.ap[q[j]].signal >= s)
        BY <1>1, <1>6, <4>1 DEF Signal
      <4>3. s >= scan.ap[r[j]].signal
        <5>1. PICK x \in Nat : x = scan.ap[q[j]].signal
          BY <1>8, <4>1
        <5>2. s >= x
          BY ONLY <1>4, <4>2, <5>1
        <5> QED BY <4>1, <5>1, <5>2
      <4> QED BY <1>7, <2>2, <4>3
    <3>2. CASE ~ (j < i)
      <4>0. j + 1 \in 1..Count /\ i < j + 1
        <5>1. PICK n \in Nat : n = Len(r) /\ n = Count - 1
          BY <1>4
        <5>2. j \in 1..n /\ i \in 1..Count /\ Count \in Nat
          BY <1>4, <5>1
        <5> QED BY ONLY <3>2, <5>1, <5>2
      <4>1. r[j] = q[j + 1] /\ j + 1 \in 1..Count /\ i < j + 1
        BY <1>5, <3>2, <4>0
      <4>2. scan.ap[q[i]].signal >= scan.ap[q[j + 1]].signal
        BY <1>1, <4>1, ListFacts
      <4>3. s > scan.ap[q[i]].signal
        BY <1>1 DEF Signal
      <4>4. s >= scan.ap[r[j]].signal
        <5>1. PICK x \in Nat, y \in Nat : x = scan.ap[q[i]].signal /\ y = scan.ap[q[j + 1]].signal
          BY <1>8, <4>1
        <5>2. x >= y /\ s > x
          BY <4>2, <4>3, <5>1
        <5>3. s >= y
          BY ONLY <1>4, <5>2, x \in Nat, y \in Nat
        <5> QED BY <4>1, <5>1, <5>3
      <4> QED BY <1>7, <2>2, <4>4
    <3> QED BY <3>1, <3>2
  <2> QED BY <2>1, <2>2
<1>12. k \in 1..MaxAp /\ ToSet(r) \cup {k} = 1..(Len(r) + 1) /\ Len(r) + 1 = Count
  <2>1. k \in 1..MaxAp /\ Len(r) + 1 = Count
    BY ONLY <1>4, k \in 1..Count
  <2>2. ToSet(q) = 1..Count
    BY <1>1, ListFacts
  <2> QED BY <1>4, <2>1, <2>2
<1>13. /\ scan'.ap \in [1..MaxAp -> Entries \cup {NULL}]
       /\ scan'.pap \in Seq(1..MaxAp) /\ Count' = Len(r) + 1
       /\ scan'.ap[k] = e /\ \A x \in 1..MaxAp : x # k => scan'.ap[x] = scan.ap[x]
       /\ PointerInv' /\ SortedInv'
  <2>1. scan.ap \in [1..MaxAp -> Entries \cup {NULL}]
    BY ListFacts
  <2> QED BY <1>4, <1>6, <1>7, <1>9, <1>10, <1>11, <1>12, <2>1, PutInv
<1>14. EntryInv'
  <2>1. Told(scan.ap, Count, heard) /\ \A x \in Macs : heard[x] \in Nat
    BY ListFacts DEF EntryInv
  <2>2. \A x \in 1..Count : scan.ap[x].signal \in Nat
    BY ListFacts
  <2>3. scan.ap[k].mac = m /\ s > scan.ap[k].signal
    BY <1>2 DEF Signal
  <2>4. \A x \in 1..Count : x # k => scan'.ap[x] = scan.ap[x]
    BY <1>4, <1>13
  <2>5. Told(scan'.ap, Count, heard')
    <3>1. Count \in Nat /\ s \in Nat /\ scan'.ap[k].mac = m /\ scan'.ap[k].signal = s
      BY <1>4, <1>7, <1>13
    <3> QED BY ONLY <3>1, <2>1, <2>2, <2>3, <2>4, ToldRaised, k \in 1..Count, m \in Macs,
                Best(heard', heard, m, s)
  <2> QED BY <1>12, <1>13, <2>5 DEF EntryInv
<1> QED BY <1>13, <1>14

\* Where a new entry goes: behind all that are at least as strong.
LEMMA PlaceFacts ==
  ASSUME NEW r \in Seq(1..MaxAp), NEW s \in Nat,
         \A j \in 1..Len(r) : scan.ap[r[j]].signal \in Nat,
         \A i, j \in 1..Len(r) : i < j => scan.ap[r[i]].signal >= scan.ap[r[j]].signal
  PROVE  /\ Place(r, s) \in 1..(Len(r) + 1)
         /\ \A j \in 1..Len(r) : IF j < Place(r, s) THEN scan.ap[r[j]].signal >= s
                                 ELSE s >= scan.ap[r[j]].signal
<1>1. Len(r) \in Nat
  OBVIOUS
<1>2. /\ Weaker(r, s) \cup {Len(r) + 1} \in SUBSET Nat
      /\ Weaker(r, s) \cup {Len(r) + 1} # {}
      /\ \A x \in Weaker(r, s) \cup {Len(r) + 1} : x \in 1..(Len(r) + 1)
  BY <1>1 DEF Weaker
<1>3. PICK p \in Weaker(r, s) \cup {Len(r) + 1} :
        p = Place(r, s) /\ \A x \in Weaker(r, s) \cup {Len(r) + 1} : p <= x
  <2>1. /\ Min(Weaker(r, s) \cup {Len(r) + 1}) \in Weaker(r, s) \cup {Len(r) + 1}
        /\ \A x \in Weaker(r, s) \cup {Len(r) + 1} : Min(Weaker(r, s) \cup {Len(r) + 1}) <= x
    BY <1>2, MinFacts
  <2> QED BY <2>1 DEF Place
<1>4. p \in 1..(Len(r) + 1)
  BY <1>2
<1>5. ASSUME NEW j \in 1..Len(r)
      PROVE  IF j < p THEN scan.ap[r[j]].signal >= s ELSE s >= scan.ap[r[j]].signal
  <2>1. PICK x \in Nat : x = scan.ap[r[j]].signal
    OBVIOUS
  <2>2. CASE j < p
    <3>1. j \notin Weaker(r, s)
      <4>1. j \in Weaker(r, s) => p <= j
        BY <1>3
      <4> QED BY ONLY <4>1, <2>2, <1>1, <1>4, j \in 1..Len(r)
    <3>2. ~ (s > x)
      BY <2>1, <3>1 DEF Weaker
    <3>3. x >= s
      BY ONLY <3>2, x \in Nat, s \in Nat
    <3> QED BY <2>1, <2>2, <3>3
  <2>3. CASE ~ (j < p)
    <3>1. p \in 1..Len(r) /\ (p = j \/ p < j)
      BY ONLY <1>1, <1>4, <2>3, j \in 1..Len(r)
    <3>2. p \in Weaker(r, s)
      BY ONLY <1>3, <1>1, <3>1
    <3>3. PICK y \in Nat : y = scan.ap[r[p]].signal
      BY <3>1
    <3>4. s > y
      BY <3>2, <3>3 DEF Weaker
    <3>5. y >= x
      BY <2>1, <3>1, <3>3
    <3>6. s >= x
      BY ONLY <3>4, <3>5, x \in Nat, y \in Nat, s \in Nat
    <3> QED BY <2>1, <2>3, <3>6
  <2> QED BY <2>2, <2>3
<1> QED BY <1>3, <1>4, <1>5

\* The entry k can be filled: r points to the others.
Fits(k, r) ==
  /\ k \in 1..MaxAp /\ r \in Seq(1..MaxAp) /\ OneToOne(r)
  /\ \A j \in 1..Len(r) : r[j] # k
  /\ ToSet(r) \cup {k} = 1..(Len(r) + 1)
  /\ \A j \in 1..Len(r) : r[j] \in 1..Count
  /\ \A i, j \in 1..Len(r) : i < j => scan.ap[r[i]].signal >= scan.ap[r[j]].signal

\* An entry is filled.
LEMMA EnteredInv ==
  ASSUME IInv, "report" \in handlers, NEW m \in Macs, NEW s \in Signals,
         NEW k, NEW r, Fits(k, r), scan' = Entered(k, r, m, s)
  PROVE  /\ scan'.ap \in [1..MaxAp -> Entries \cup {NULL}] /\ scan'.pap \in Seq(1..MaxAp)
         /\ PointerInv' /\ SortedInv' /\ Count' = Len(r) + 1
         /\ scan'.ap[k].mac = m /\ scan'.ap[k].signal = s
         /\ \A x \in 1..MaxAp : x # k => scan'.ap[x] = scan.ap[x]
<1>0. /\ k \in 1..MaxAp /\ r \in Seq(1..MaxAp)
      /\ \A i, j \in 1..Len(r) : i < j => scan.ap[r[i]].signal >= scan.ap[r[j]].signal
  BY DEF Fits
<1>1. s \in Nat /\ \A j \in 1..Len(r) : scan.ap[r[j]] \in Entries /\ scan.ap[r[j]].signal \in Nat
  BY ListFacts, SignalsAssumption DEF Fits
<1>2. PICK p \in 1..(Len(r) + 1) :
        /\ p = Place(r, s)
        /\ \A j \in 1..Len(r) : IF j < p THEN scan.ap[r[j]].signal >= s
                                ELSE s >= scan.ap[r[j]].signal
  BY <1>0, <1>1, PlaceFacts
<1>3. PICK e \in Entries : e = Entry(m, s) /\ e.mac = m /\ e.signal = s
  <2>1. Entry(m, s) \in Entries /\ Entry(m, s).mac = m /\ Entry(m, s).signal = s
    BY DEF Entry, Entries
  <2> QED BY <2>1
<1>4. scan'.ap = [scan.ap EXCEPT ![k] = e] /\ scan'.pap = InsertAt(r, p, k)
  <2>1. scan' = [scan EXCEPT !.ap[k] = e, !.pap = InsertAt(r, p, k)]
    BY <1>2, <1>3 DEF Entered
  <2> QED BY <2>1 DEF IInv, SafeInv, Types
<1>5. scan.ap \in [1..MaxAp -> Entries \cup {NULL}]
  BY ListFacts
<1>6. \A j \in 1..Len(r) : IF j < p THEN scan.ap[r[j]].signal >= e.signal
                           ELSE e.signal >= scan.ap[r[j]].signal
  BY <1>2, <1>3
<1>7. /\ \A j \in 1..Len(r) : scan.ap[r[j]] \in Entries /\ r[j] # k
      /\ \A i, j \in 1..Len(r) : i < j => scan.ap[r[i]].signal >= scan.ap[r[j]].signal
      /\ OneToOne(r) /\ ToSet(r) \cup {k} = 1..(Len(r) + 1)
  BY <1>1 DEF Fits
<1>8. /\ scan'.ap \in [1..MaxAp -> Entries \cup {NULL}]
      /\ scan'.pap \in Seq(1..MaxAp) /\ Count' = Len(r) + 1
      /\ scan'.ap[k] = e /\ \A x \in 1..MaxAp : x # k => scan'.ap[x] = scan.ap[x]
      /\ PointerInv' /\ SortedInv'
  BY ONLY <1>0, <1>4, <1>5, <1>6, <1>7, PutInv, e \in Entries, p \in 1..(Len(r) + 1)
<1> QED BY <1>3, <1>8

\* A report, whatever it says: the list keeps its invariants.
LEMMA ReportList ==
  ASSUME IInv, NEW m \in Macs, NEW s \in Signals, Report(m, s)
  PROVE  /\ scan'.ap \in [1..MaxAp -> Entries \cup {NULL}] /\ scan'.pap \in Seq(1..MaxAp)
         /\ PointerInv' /\ SortedInv' /\ EntryInv' /\ heard' \in [Macs -> Signals \cup {0}]
<1>1. "report" \in handlers /\ scan' = Reported(m, s)
  BY DEF Report
<1>2. s \in Nat /\ s > 0 /\ \A x \in Macs : heard[x] \in Nat
  BY <1>1, ListFacts, SignalsAssumption
<1>3. Best(heard', heard, m, s) /\ heard' \in [Macs -> Signals \cup {0}]
  <2>1. heard \in [Macs -> Signals \cup {0}]
    BY DEF IInv, SafeInv, Types
  <2>2. heard' = [heard EXCEPT ![m] = Max({heard[m], s})]
    BY DEF Report
  <2>3. Max({heard[m], s}) = IF heard[m] >= s THEN heard[m] ELSE s
    <3>1. PICK h \in Nat : h = heard[m]
      BY <1>2
    <3>2. PICK S \in SUBSET Nat : S = {h, s}
      BY <1>2
    <3>3. PICK b \in Nat : b = h + s
      BY <1>2, <3>1
    <3>4. (\A x \in S : x <= b) /\ S # {}
      BY <1>2, <3>1, <3>2, <3>3
    <3>5. Max(S) \in S /\ \A x \in S : Max(S) >= x
      BY <3>4, MaxFacts
    <3>6. PICK M : M = Max(S)
      OBVIOUS
    <3>7. M = IF h >= s THEN h ELSE s
      BY ONLY <1>2, <3>1, <3>2, <3>5, <3>6, h \in Nat
    <3> QED BY <3>1, <3>2, <3>6, <3>7
  <2>4. heard' \in [Macs -> Signals \cup {0}]
    BY <2>1, <2>2, <2>3
  <2> QED BY <2>1, <2>2, <2>3, <2>4 DEF Best
<1>4. /\ EntryInv /\ scan.ap \in [1..MaxAp -> Entries \cup {NULL}]
      /\ scan.pap \in Seq(1..MaxAp) /\ PointerInv /\ SortedInv
  BY <1>1, ListFacts DEF IInv, StrongInv
<1>5. /\ Count \in 0..MaxAp /\ MaxAp \in Nat /\ Len(scan.pap) = Count
      /\ \A x \in 1..Count : /\ scan.ap[x] \in Entries /\ scan.ap[x].signal \in Nat
                             /\ scan.ap[x].mac \in Macs
  BY <1>1, ListFacts DEF Count
<1>6. ASSUME scan' = scan, EntryInv'
      PROVE  /\ scan'.ap \in [1..MaxAp -> Entries \cup {NULL}] /\ scan'.pap \in Seq(1..MaxAp)
             /\ PointerInv' /\ SortedInv' /\ EntryInv'
  BY <1>4, <1>6 DEF PointerInv, SortedInv, Signal, Count
<1>7. CASE Known(m) # {}
  <2>1. PICK i \in 1..Count :
          /\ scan.ap[scan.pap[i]].mac = m
          /\ scan' = IF s > Signal(i) THEN Raised(i, s) ELSE scan
    <3>1. PICK i : i = CHOOSE j \in Known(m) : TRUE
      OBVIOUS
    <3>2. i \in Known(m)
      BY <1>7, <3>1
    <3> QED BY <1>1, <1>7, <3>1, <3>2 DEF Reported, Known
  <2>2. CASE s > Signal(i)
    BY <1>1, <1>3, <2>1, <2>2, RaisedInv
  <2>3. CASE ~ (s > Signal(i))
    <3>1. PICK k \in 1..Count : k = scan.pap[i]
      BY <1>1, ListFacts
    <3>2. scan.ap[k].mac = m /\ scan.ap[k].signal \in Nat /\ s <= scan.ap[k].signal
      <4>1. PICK x \in Nat : x = scan.ap[k].signal
        BY <1>5
      <4>2. ~ (s > x)
        BY <2>3, <3>1, <4>1 DEF Signal
      <4>3. s <= x
        BY ONLY <1>2, <4>2, x \in Nat
      <4> QED BY <2>1, <3>1, <4>1, <4>3
    <3>3. Told(scan.ap, Count, heard) /\ Count \in Nat
      BY <1>4, <1>5 DEF EntryInv
    <3>4. Told(scan.ap, Count, heard')
      BY ONLY <1>2, <1>3, <3>2, <3>3, ToldHeard, m \in Macs, k \in 1..Count
    <3>5. scan' = scan
      BY <2>1, <2>3
    <3> QED BY <1>3, <1>6, <3>4, <3>5 DEF EntryInv, Count
  <2> QED BY <1>3, <2>2, <2>3
<1>8. CASE Known(m) = {}
  <2>1. Absent(scan.ap, Count, m) /\ Told(scan.ap, Count, heard)
    BY <1>1, <1>4, <1>8, ListFacts DEF Absent, Known, EntryInv
  <2>2. CASE Count < MaxAp
    <3>1. scan' = Entered(Count + 1, scan.pap, m, s)
      BY <1>1, <1>8, <2>2 DEF Reported
    <3>2. PICK k \in 1..MaxAp : k = Count + 1
      BY <1>5, <2>2
    <3>3. PICK r \in Seq(1..MaxAp) : r = scan.pap
      BY <1>4
    <3>4. /\ OneToOne(r) /\ (\A j \in 1..Len(r) : r[j] \in 1..Count)
          /\ (\A i, j \in 1..Len(r) : i < j => scan.ap[r[i]].signal >= scan.ap[r[j]].signal)
          /\ ToSet(r) = 1..Count /\ Len(r) = Count
      BY <1>1, <1>5, <3>3, ListFacts
    <3>5. \A j \in 1..Len(r) : r[j] # k
      BY <1>5, <3>2, <3>4
    <3>6. ToSet(r) \cup {k} = 1..(Len(r) + 1)
      BY <1>5, <3>2, <3>4
    <3>7. /\ scan'.ap \in [1..MaxAp -> Entries \cup {NULL}] /\ scan'.pap \in Seq(1..MaxAp)
          /\ PointerInv' /\ SortedInv' /\ Count' = Len(r) + 1
          /\ scan'.ap[k].mac = m /\ scan'.ap[k].signal = s
          /\ \A x \in 1..MaxAp : x # k => scan'.ap[x] = scan.ap[x]
      <4>1. scan' = Entered(k, r, m, s) /\ "report" \in handlers
        BY <1>1, <3>1, <3>2, <3>3
      <4>2. Fits(k, r)
        BY <3>4, <3>5, <3>6 DEF Fits
      <4> QED BY <4>1, <4>2, EnteredInv
    <3>8. PICK n \in Nat : n = Count /\ n # MaxAp /\ n + 1 = k /\ Count' = n + 1
      BY <1>5, <2>2, <3>2, <3>4, <3>7
    <3>9. \A x \in 1..n : scan'.ap[x] = scan.ap[x]
      BY <1>5, <3>2, <3>7, <3>8
    <3>10. Told(scan'.ap, n + 1, heard')
      <4>1. scan'.ap[n + 1].mac = m /\ scan'.ap[n + 1].signal = s
        BY <3>7, <3>8
      <4>2. Told(scan.ap, n, heard) /\ Absent(scan.ap, n, m) /\ n # MaxAp
        BY <2>1, <3>8
      <4> QED BY ONLY <1>2, <1>3, <3>9, <4>1, <4>2, ToldNew, m \in Macs, n \in Nat
    <3> QED BY <1>3, <3>7, <3>8, <3>10 DEF EntryInv
  <2>3. CASE ~ (Count < MaxAp)
    <3>1. Count = MaxAp /\ MaxAp \in 1..Count
      BY <1>5, <2>3, MaxApAssumption
    <3>2. PICK k \in 1..MaxAp : k = scan.pap[MaxAp]
      BY <1>1, <3>1, ListFacts
    <3>3. \A x \in 1..MaxAp : scan.ap[k].signal <= scan.ap[x].signal
      <4>1. ASSUME NEW x \in 1..MaxAp PROVE scan.ap[k].signal <= scan.ap[x].signal
        <5>1. PICK i \in 1..MaxAp : scan.pap[i] = x
          BY <1>1, <3>1, ListFacts
        <5>2. i = MaxAp \/ i < MaxAp
          BY <1>5
        <5>3. PICK y \in Nat, z \in Nat : y = scan.ap[k].signal /\ z = scan.ap[x].signal
          BY <1>5, <3>1
        <5>4. i < MaxAp => z >= y
          BY <1>1, <3>1, <3>2, <5>1, <5>3, ListFacts
        <5>5. i = MaxAp => z = y
          BY <3>2, <5>1, <5>3
        <5>6. y <= z
          BY ONLY <5>2, <5>4, <5>5, y \in Nat, z \in Nat
        <5> QED BY <5>3, <5>6
      <4> QED BY <4>1
    <3>4. CASE s > Signal(MaxAp)
      <4>1. scan' = Entered(k, Others, m, s)
        BY <1>1, <1>8, <2>3, <3>1, <3>2, <3>4 DEF Reported
      <4>2. PICK q \in Seq(1..MaxAp) : q = scan.pap /\ Len(q) = MaxAp /\ q[MaxAp] = k /\ OneToOne(q)
        BY <1>1, <1>4, <1>5, <3>1, <3>2, ListFacts
      <4>3. PICK r : r = Others /\ Without(r, q, MaxAp, MaxAp)
        <5>1. Others = SubSeq(q, 1, MaxAp - 1)
          BY <4>2 DEF Others, Front
        <5>2. PICK S : S = 1..MaxAp
          OBVIOUS
        <5>3. q \in Seq(S) /\ MaxAp \in Nat /\ MaxAp >= 1 /\ Len(q) = MaxAp
          BY <1>5, <3>1, <4>2, <5>2
        <5>4. /\ SubSeq(q, 1, MaxAp - 1) \in Seq(S) /\ Len(SubSeq(q, 1, MaxAp - 1)) = MaxAp - 1
              /\ \A j \in 1..(MaxAp - 1) : SubSeq(q, 1, MaxAp - 1)[j] = q[j] /\ j < MaxAp
          BY ONLY <5>3
        <5> QED BY <4>2, <5>1, <5>2, <5>4 DEF Without
      <4>4. MaxAp \in 1..Len(q)
        BY <3>1, <4>2
      <4>5. /\ OneToOne(r) /\ (\A j \in 1..Len(r) : r[j] # k) /\ ToSet(q) = ToSet(r) \cup {k}
            /\ \A f : Ordered(f, q) => Ordered(f, r)
        <5>1. /\ OneToOne(r) /\ (\A j \in 1..Len(r) : r[j] # q[MaxAp])
              /\ ToSet(q) = ToSet(r) \cup {q[MaxAp]}
              /\ \A f : Ordered(f, q) => Ordered(f, r)
          BY ONLY <1>5, <4>2, <4>3, <4>4, RestFacts, q \in Seq(1..MaxAp)
        <5> QED BY <4>2, <5>1
      <4>6. r \in Seq(1..MaxAp) /\ Len(r) = MaxAp - 1 /\ Len(r) + 1 = MaxAp
        BY <1>5, <4>2, <4>3 DEF Without
      <4>7. \A j \in 1..Len(r) : r[j] \in 1..Count
        BY ONLY <1>5, <3>1, <4>6
      <4>8. ToSet(r) \cup {k} = 1..(Len(r) + 1)
        <5>1. ToSet(q) = 1..MaxAp
          BY <1>1, <3>1, <4>2, ListFacts
        <5> QED BY <4>5, <4>6, <5>1
      <4>9. \A i, j \in 1..Len(r) : i < j => scan.ap[r[i]].signal >= scan.ap[r[j]].signal
        <5>1. PICK f : f = [x \in 1..MaxAp |-> scan.ap[x].signal]
          OBVIOUS
        <5>2. \A j \in 1..Len(q) : f[q[j]] = scan.ap[q[j]].signal
          BY ONLY <1>5, <5>1, q \in Seq(1..MaxAp)
        <5>3. Ordered(f, q)
          BY <1>1, <4>2, <5>2, <3>1, ListFacts DEF Ordered
        <5>4. Ordered(f, r)
          BY <4>5, <5>3
        <5>5. \A j \in 1..Len(r) : f[r[j]] = scan.ap[r[j]].signal
          BY <3>1, <4>7, <5>1
        <5> QED BY <5>4, <5>5 DEF Ordered
      <4>10. /\ scan'.ap \in [1..MaxAp -> Entries \cup {NULL}] /\ scan'.pap \in Seq(1..MaxAp)
             /\ PointerInv' /\ SortedInv' /\ Count' = Len(r) + 1
             /\ scan'.ap[k].mac = m /\ scan'.ap[k].signal = s
             /\ \A x \in 1..MaxAp : x # k => scan'.ap[x] = scan.ap[x]
        <5>1. scan' = Entered(k, r, m, s) /\ "report" \in handlers
          BY <1>1, <4>1, <4>3
        <5>2. OneToOne(r) /\ \A j \in 1..Len(r) : r[j] # k
          BY <4>5
        <5>3. Fits(k, r)
          BY <5>2, <4>6, <4>7, <4>8, <4>9 DEF Fits
        <5> QED BY <5>1, <5>3, EnteredInv
      <4>11. Told(scan'.ap, MaxAp, heard')
        <5>1. \A x \in 1..MaxAp : scan.ap[x].mac \in Macs /\ scan.ap[x].signal \in Nat
          BY <1>5, <3>1
        <5>2. Told(scan.ap, MaxAp, heard) /\ Absent(scan.ap, MaxAp, m)
          BY <2>1, <3>1
        <5>3. s > scan.ap[k].signal
          BY <3>2, <3>4 DEF Signal
        <5>4. /\ scan'.ap[k].mac = m /\ scan'.ap[k].signal = s
              /\ \A x \in 1..MaxAp : x # k => scan'.ap[x] = scan.ap[x]
          BY <4>10
        <5> QED BY ONLY <1>2, <1>3, <3>3, <5>1, <5>2, <5>3, <5>4, ToldReplaced, m \in Macs, k \in 1..MaxAp
      <4> QED BY <1>3, <4>6, <4>10, <4>11 DEF EntryInv
    <3>5. CASE ~ (s > Signal(MaxAp))
      <4>1. scan' = scan
        BY <1>1, <1>8, <2>3, <3>1, <3>5 DEF Reported
      <4>2. \A x \in 1..MaxAp : scan.ap[x].signal \in Nat /\ s <= scan.ap[x].signal
        <5>1. ASSUME NEW x \in 1..MaxAp PROVE scan.ap[x].signal \in Nat /\ s <= scan.ap[x].signal
          <6>1. PICK y \in Nat, z \in Nat : y = scan.ap[k].signal /\ z = scan.ap[x].signal
            BY <1>5, <3>1
          <6>2. ~ (s > y) /\ y <= z
            BY <3>2, <3>3, <3>5, <6>1 DEF Signal
          <6>3. s <= z
            BY ONLY <1>2, <6>2, y \in Nat, z \in Nat
          <6> QED BY <6>1, <6>3
        <5> QED BY <5>1
      <4>3. Told(scan.ap, MaxAp, heard) /\ Absent(scan.ap, MaxAp, m)
        BY <2>1, <3>1
      <4>4. Told(scan.ap, MaxAp, heard')
        BY ONLY <1>2, <1>3, <4>2, <4>3, ToldWeak, m \in Macs
      <4> QED BY <1>3, <1>6, <3>1, <4>1, <4>4 DEF EntryInv, Count
    <3> QED BY <3>4, <3>5
  <2> QED BY <2>2, <2>3
<1> QED BY <1>7, <1>8

\* A report changes the entries and the pointers only.
LEMMA ReportSafe ==
  ASSUME IInv, NEW m \in Macs, NEW s \in Signals, Report(m, s) PROVE SafeInv'
<1>1. /\ UNCHANGED <<web, handlers, lists, timers, tq, scanning, pc, cb, closes>>
      /\ "report" \in handlers /\ handlers # {} /\ scan' = Reported(m, s)
  BY DEF Report, memory, local
<1>2. /\ scan'.ap \in [1..MaxAp -> Entries \cup {NULL}] /\ scan'.pap \in Seq(1..MaxAp)
      /\ heard' \in [Macs -> Signals \cup {0}]
  BY ReportList
<1>3. \E a, q : scan' = [scan EXCEPT !.ap = a, !.pap = q] \/ scan' = scan
  <2>1. ASSUME NEW i PROVE \E a, q : Raised(i, s) = [scan EXCEPT !.ap = a, !.pap = q]
    <3>1. Raised(i, s) = [scan EXCEPT !.ap = [scan.ap EXCEPT ![scan.pap[i]].signal = s],
                  !.pap = InsertAt(RemoveAt(scan.pap, i), Max({0} \cup Above(i, s)) + 1, scan.pap[i])]
      BY DEF Raised
    <3> QED BY <3>1
  <2>2. ASSUME NEW k, NEW r PROVE \E a, q : Entered(k, r, m, s) = [scan EXCEPT !.ap = a, !.pap = q]
    <3>1. Entered(k, r, m, s) = [scan EXCEPT !.ap = [scan.ap EXCEPT ![k] = Entry(m, s)],
                                             !.pap = InsertAt(r, Place(r, s), k)]
      BY DEF Entered
    <3> QED BY <3>1
  <2>3. \/ scan' = scan \/ (\E i : scan' = Raised(i, s))
        \/ (\E k, r : scan' = Entered(k, r, m, s))
    BY <1>1 DEF Reported
  <2>4. ASSUME NEW i, scan' = Raised(i, s)
        PROVE  \E a, q : scan' = [scan EXCEPT !.ap = a, !.pap = q]
    <3>1. \E a, q : Raised(i, s) = [scan EXCEPT !.ap = a, !.pap = q]
      BY <2>1
    <3> QED BY ONLY <3>1, <2>4
  <2>5. ASSUME NEW k, NEW r, scan' = Entered(k, r, m, s)
        PROVE  \E a, q : scan' = [scan EXCEPT !.ap = a, !.pap = q]
    <3>1. \E a, q : Entered(k, r, m, s) = [scan EXCEPT !.ap = a, !.pap = q]
      BY <2>2
    <3> QED BY ONLY <3>1, <2>5
  <2>6. scan' = scan \/ (\E a, q : scan' = [scan EXCEPT !.ap = a, !.pap = q])
    BY ONLY <2>3, <2>4, <2>5
  <2> QED BY ONLY <2>6
<1>4. /\ scan'.running = scan.running /\ scan'.list = scan.list
      /\ scan' \in [running : BOOLEAN, show : BOOLEAN, list : Lists \cup {NULL},
                   ap : [1..MaxAp -> Entries \cup {NULL}], pap : Seq(1..MaxAp)]
  <2>1. scan \in [running : BOOLEAN, show : BOOLEAN, list : Lists \cup {NULL},
                  ap : [1..MaxAp -> Entries \cup {NULL}], pap : Seq(1..MaxAp)]
    BY DEF IInv, SafeInv, Types
  <2>2. CASE scan' = scan
    BY <2>1, <2>2
  <2>3. ASSUME NEW a, NEW q, scan' = [scan EXCEPT !.ap = a, !.pap = q] PROVE <1>4
    <3>1. /\ scan' = [running |-> scan.running, show |-> scan.show, list |-> scan.list,
                      ap |-> a, pap |-> q]
      BY ONLY <2>1, <2>3
    <3>2. a \in [1..MaxAp -> Entries \cup {NULL}] /\ q \in Seq(1..MaxAp)
      BY <1>2, <3>1
    <3>3. scan.running \in BOOLEAN /\ scan.show \in BOOLEAN /\ scan.list \in Lists \cup {NULL}
      BY ONLY <2>1
    <3>4. scan'.running = scan.running /\ scan'.list = scan.list
      BY ONLY <3>1
    <3>5. scan' \in [running : BOOLEAN, show : BOOLEAN, list : Lists \cup {NULL},
                   ap : [1..MaxAp -> Entries \cup {NULL}], pap : Seq(1..MaxAp)]
      BY ONLY <3>1, <3>2, <3>3
    <3> QED BY <3>4, <3>5
  <2> QED BY <1>3, <2>2, <2>3
<1>5. scan.running /\ Stage \notin {"prepare", "regReport"}
  BY <1>1, Heard DEF IInv
<1>6. Stage' = Stage /\ Alone' /\ pc' \in [Threads -> Labels]
  BY <1>1, SameStage DEF IInv, SafeInv
<1>7. Types'
  BY <1>1, <1>2, <1>4, <1>6 DEF IInv, SafeInv, Types
<1>8. ScanInv' /\ ListInv' /\ CloseInv'
  BY <1>1, <1>4, <1>5, <1>6 DEF IInv, SafeInv, ScanInv, ListInv, CloseInv
<1>9. StartInv'
  BY <1>1, <1>4, <1>5, <1>6 DEF IInv, SafeInv, StartInv
<1>10. TimerInv'
  BY <1>1, <1>6, SameTimers DEF IInv, SafeInv
<1> QED BY <1>6, <1>7, <1>8, <1>9, <1>10 DEF SafeInv

-----------------------------------------------------------------------------
(* All steps.                                                              *)

\* The list is left alone.
LEMMA SameList ==
  ASSUME IInv, scan'.ap = scan.ap, scan'.pap = scan.pap,
         "report" \in handlers' => "report" \in handlers /\ heard' = heard
  PROVE  PointerInv' /\ StrongInv'
<1>1. PointerInv'
  BY DEF IInv, PointerInv, Count
<1>2. StrongInv'
  BY DEF IInv, StrongInv, SortedInv, EntryInv, Signal, Count
<1> QED BY <1>1, <1>2

\* The list is empty, and so is what was heard while there is a handler.
LEMMA EmptyList ==
  ASSUME scan'.pap = <<>>,
         "report" \in handlers' => heard' = [m \in Macs |-> 0]
  PROVE  PointerInv' /\ StrongInv'
<1>1. Count' = 0 /\ ToSet(scan'.pap) = {}
  BY DEF Count, ToSet
<1>2. \A i \in 1..Count' : FALSE
  BY <1>1
<1>3. PointerInv'
  BY <1>1, <1>2 DEF PointerInv
<1>4. SortedInv'
  BY <1>2 DEF SortedInv
<1>5. "report" \in handlers' => EntryInv'
  BY <1>2 DEF EntryInv, Told, Absent
<1> QED BY <1>3, <1>4, <1>5 DEF StrongInv

\* The disjuncts of Next.
LEMMA Steps ==
  ASSUME Next
  PROVE  \/ \E w \in BOOLEAN : Start(w)
         \/ Prepare \/ RegReport \/ RegDone \/ SetScan \/ WaitEnds
         \/ \E a \in Threads : Close(a)
         \/ (\E t \in Timers : Expire(t)) \/ Apply
         \/ \E m \in Macs, s \in Signals : Report(m, s)
         \/ DoneCloses \/ DoneKeeps \/ DoneUnheard
BY DEF Next, CallerStep, DaemonStep, DriverStep, Threads

\* IInv is inductive, unless the caller starts a scan while the daemon closes one.
LEMMA StepInv == ASSUME IInv, ~ Hasty, [Next]_vars PROVE IInv'
<1>1. ASSUME NEW w \in BOOLEAN, Start(w) PROVE IInv'
  <2>1. scan'.ap = scan.ap /\ scan'.pap = scan.pap /\ UNCHANGED <<handlers, heard>>
    BY <1>1 DEF Start, IInv, SafeInv, Types
  <2> QED BY <1>1, <2>1, SameList, StartSafe DEF IInv
<1>2. CASE Prepare
  <2>1. /\ scan'.ap = scan.ap /\ scan'.pap = scan.pap /\ handlers' = handlers
    BY <1>2 DEF Prepare, Fail, IInv, SafeInv, Types
  <2>2. Stage = "prepare"
    BY <1>2 DEF Prepare, Stage, Alone, IInv, SafeInv
  <2>3. handlers = {}
    BY <2>2 DEF IInv, SafeInv, StartInv
  <2> QED BY <1>2, <2>1, <2>3, SameList, PrepareSafe DEF IInv
<1>3. CASE RegReport
  <2>1. Stage = "regReport"
    BY <1>3 DEF RegReport, Stage, Alone, IInv, SafeInv
  <2>2. scan.pap = <<>> /\ heard = [m \in Macs |-> 0] /\ UNCHANGED <<scan, heard>>
    BY <1>3, <2>1 DEF IInv, SafeInv, StartInv, RegReport
  <2> QED BY <1>3, <2>2, EmptyList, RegReportSafe DEF IInv
<1>4. CASE RegDone
  <2>1. UNCHANGED <<scan, heard>> /\ ("report" \in handlers' => "report" \in handlers)
    BY <1>4 DEF RegDone
  <2> QED BY <1>4, <2>1, SameList, RegDoneSafe DEF IInv
<1>5. CASE SetScan
  <2>1. UNCHANGED <<scan, heard, handlers>>
    BY <1>5 DEF SetScan
  <2> QED BY <1>5, <2>1, SameList, SetScanSafe DEF IInv
<1>6. CASE WaitEnds
  <2>1. UNCHANGED <<scan, heard, handlers>>
    BY <1>6 DEF WaitEnds
  <2> QED BY <1>6, <2>1, SameList, WaitEndsSafe DEF IInv
<1>7. ASSUME NEW a \in Threads, Close(a) PROVE IInv'
  <2>1. SafeInv'
    BY <1>7, CloseScanSafe, UnregReportSafe, UnregDoneSafe, FreeListSafe, ClearScanSafe,
       CloseWebSafe, DeleteTimerSafe, FreeWebSafe, ClearWebSafe DEF Close, IInv
  <2>2. CASE ClearScan(a)
    <3>1. Stage = "clearScan" /\ scan' = NoScan /\ handlers' = handlers
      <4>1. pc[a] = "clearScan" /\ Scheduled(a) /\ scan' = NoScan /\ handlers' = handlers
        BY <2>2 DEF ClearScan, At
      <4> QED BY <4>1 DEF Stage, Scheduled, Threads, Caller, Daemon, IInv, SafeInv, Alone
    <3>2. handlers' = {}
      BY <3>1 DEF IInv, SafeInv, CloseInv
    <3> QED BY <2>1, <3>1, <3>2, EmptyList, NoScanType DEF IInv
  <2>3. CASE ~ ClearScan(a)
    <3>1. UNCHANGED <<scan, heard>> /\ ("report" \in handlers' => "report" \in handlers)
      BY <1>7, <2>3 DEF Close, CloseScan, UnregReport, UnregDone, FreeList, CloseWeb,
         DeleteTimer, FreeWeb, ClearWeb, Unregistered
    <3> QED BY <2>1, <3>1, SameList DEF IInv
  <2> QED BY <2>2, <2>3
<1>8. ASSUME NEW t \in Timers, Expire(t) PROVE IInv'
  <2>1. UNCHANGED <<scan, heard, handlers>>
    BY <1>8 DEF Expire
  <2> QED BY <1>8, <2>1, SameList, ExpireSafe DEF IInv
<1>9. CASE Apply
  <2>1. UNCHANGED <<scan, heard, handlers>>
    BY <1>9 DEF Apply
  <2> QED BY <1>9, <2>1, SameList, ApplySafe DEF IInv
<1>10. ASSUME NEW m \in Macs, NEW s \in Signals, Report(m, s) PROVE IInv'
  BY <1>10, ReportList, ReportSafe DEF IInv, StrongInv
<1>11. CASE DoneCloses
  <2>1. scan' = NoScan /\ handlers' = {}
    BY <1>11, Heard DEF DoneCloses, IInv
  <2> QED BY <1>11, <2>1, EmptyList, NoScanType, DoneClosesSafe DEF IInv
<1>12. CASE DoneKeeps
  <2>1. scan' = NoScan /\ handlers' = {}
    BY <1>12 DEF DoneKeeps
  <2> QED BY <1>12, <2>1, EmptyList, NoScanType, DoneKeepsSafe DEF IInv
<1>13. CASE DoneUnheard
  <2>1. UNCHANGED <<scan, heard, handlers>>
    BY <1>13 DEF DoneUnheard
  <2> QED BY <1>13, <2>1, SameList, DoneUnheardSafe DEF IInv
<1>14. CASE UNCHANGED vars
  <2>1. UNCHANGED <<scan, web, handlers, lists, timers, tq, scanning, pc, cb, closes, heard>>
    BY <1>14 DEF vars
  <2>2. Stage' = Stage
    BY <2>1 DEF Stage
  <2>3. Types' /\ Alone' /\ ScanInv' /\ ListInv' /\ StartInv' /\ CloseInv'
    BY <2>1, <2>2 DEF IInv, SafeInv, Types, Alone, ScanInv, ListInv, StartInv, CloseInv
  <2>4. TimerInv'
    BY <2>1, <2>2, SameTimers DEF IInv, SafeInv
  <2> QED BY <2>1, <2>3, <2>4, SameList DEF IInv, SafeInv
<1> QED BY <1>1, <1>2, <1>3, <1>4, <1>5, <1>6, <1>7, <1>8, <1>9, <1>10, <1>11, <1>12,
           <1>13, <1>14, Steps

\* Nothing runs yet.
LEMMA InitInv == Init => IInv
<1> SUFFICES ASSUME Init PROVE IInv
  OBVIOUS
<1>1. /\ scan = NoScan /\ web = NoWeb /\ handlers = {} /\ lists = {} /\ tq = <<>>
      /\ timers = [t \in Timers |-> "free"] /\ scanning = FALSE
      /\ pc = [a \in Threads |-> "idle"] /\ cb = FALSE /\ closes = 0
      /\ heard = [m \in Macs |-> 0]
  BY DEF Init
<1>2. Types
  <2>1. scan = NoScan /\ web = NoWeb
    BY <1>1
  <2>2. /\ scan \in [running : BOOLEAN, show : BOOLEAN, list : Lists \cup {NULL},
                     ap : [1..MaxAp -> Entries \cup {NULL}], pap : Seq(1..MaxAp)]
        /\ web \in [flg : 0..2, timer : Timers \cup {NULL}, list : Lists \cup {NULL}]
    BY <2>1, NoScanType, NoWebType
  <2>3. handlers \subseteq {"report", "done"} /\ lists \subseteq Lists
    BY <1>1
  <2>4. timers \in [Timers -> {"free", "dormant", "active"}]
    BY <1>1
  <2>5. tq \in Seq([cmd : {"start", "period", "delete"}, timer : Timers])
    <3>1. PICK S : S = [cmd : {"start", "period", "delete"}, timer : Timers]
      OBVIOUS
    <3>2. tq = <<>> /\ <<>> \in Seq(S)
      BY <1>1
    <3> QED BY ONLY <3>1, <3>2
  <2>6. closes \in 0..2
    BY <1>1
  <2>8. scanning \in BOOLEAN /\ cb \in BOOLEAN
    BY <1>1, Zenon
  <2>7. pc \in [Threads -> Labels]
    BY <1>1 DEF Labels
  <2>9. heard \in [Macs -> Signals \cup {0}]
    BY <1>1
  <2> QED BY ONLY <2>2, <2>3, <2>4, <2>5, <2>6, <2>7, <2>8, <2>9, Zenon DEF Types
<1>3. Stage = "idle" /\ Alone
  BY <1>1 DEF Stage, Alone, Threads, Caller, Daemon
<1>4. ScanInv /\ ListInv /\ StartInv /\ CloseInv
  BY <1>1, <1>3, NoScanType, NoWebType DEF ScanInv, ListInv, StartInv, CloseInv
<1>5. TimerInv
  BY <1>1, NoWebType DEF TimerInv, TimerAlive, TimerKept
<1>6. Count = 0 /\ ToSet(scan.pap) = {}
  BY <1>1, NoScanType DEF Count, ToSet
<1>7. PointerInv /\ StrongInv
  BY <1>1, <1>6 DEF PointerInv, StrongInv
<1> QED BY <1>2, <1>3, <1>4, <1>5, <1>7 DEF IInv, SafeInv

\* IInv holds in every state.
THEOREM Invariance == ASSUME ~ Hasty PROVE Spec => []IInv
<1>1. IInv /\ [Next]_vars => IInv'
  BY StepInv
<1> QED BY <1>1, InitInv, PTL DEF Spec

\* Every record, pointer and command has its type, and the pointers are a
\* permutation of the entries in use.
THEOREM TypeCorrect == ASSUME ~ Hasty PROVE Spec => []TypeOK
<1>1. IInv => TypeOK
  BY DEF IInv, SafeInv, Types, PointerInv, TypeOK
<1> QED BY <1>1, Invariance, PTL

\* No handler of the driver and no thread that frees finds a list that another
\* one of the three has freed.
THEOREM ListsAreThere == ASSUME ~ Hasty PROVE Spec => []NoStaleList
<1>1. IInv => NoStaleList
  <2> SUFFICES ASSUME IInv PROVE NoStaleList
    OBVIOUS
  <2>1. "report" \in handlers => scan.list \in lists
    BY Heard DEF IInv
  <2>2. ASSUME NEW a \in Threads, pc[a] \in {"freeList", "freeWeb"} PROVE Stage = pc[a]
    BY <2>2 DEF IInv, SafeInv, Alone, Stage, Threads, Caller, Daemon
  <2>3. \A a \in Threads : /\ pc[a] = "freeList" => scan.list \in lists \cup {NULL}
                           /\ pc[a] = "freeWeb" => web.list \in lists \cup {NULL}
    BY <2>2 DEF IInv, SafeInv, ListInv
  <2> QED BY <2>1, <2>3 DEF NoStaleList
<1> QED BY <1>1, Invariance, PTL

\* Memory in use is known to somebody who will free it.
THEOREM NothingIsLost == ASSUME ~ Hasty PROVE Spec => []NothingLost
<1>1. IInv => NothingLost
  BY DEF IInv, SafeInv, ListInv, TimerInv, TimerKept, NothingLost
<1> QED BY <1>1, Invariance, PTL

\* No command reaches a timer after the one that freed it.
THEOREM CommandsReachTimers == ASSUME ~ Hasty PROVE Spec => []TimerAlive
<1>1. IInv => TimerAlive
  BY DEF IInv, SafeInv, TimerInv
<1> QED BY <1>1, Invariance, PTL

\* What wifi_scan_each_report_hdl keeps are the strongest access points, in
\* order, each once and with its best signal.
THEOREM StrongestAreListed == ASSUME ~ Hasty PROVE Spec => []StrongestKept
<1>1. IInv => StrongestKept
  <2> SUFFICES ASSUME IInv, "report" \in handlers PROVE StrongestKept
    BY DEF StrongestKept
  <2>1. SortedInv /\ EntryInv /\ Count \in Nat /\ MaxAp \in Nat \ {0}
    BY ListFacts, MaxApAssumption DEF IInv, StrongInv
  <2>2. /\ \A i \in 1..Count : scan.pap[i] \in 1..Count
        /\ \A k \in 1..Count : \E i \in 1..Count : scan.pap[i] = k
        /\ \A i, j \in 1..Count : scan.pap[i] = scan.pap[j] => i = j
    BY ListFacts DEF IInv, PointerInv
  <2>3. ASSUME NEW m \in Macs
        PROVE  \/ heard[m] = 0 /\ Known(m) = {}
               \/ \E i \in 1..Count : Known(m) = {i} /\ Signal(i) = heard[m]
               \/ Known(m) = {} /\ Count = MaxAp /\ heard[m] <= Signal(MaxAp)
    <3>1. Absent(scan.ap, Count, m) => Known(m) = {}
      BY <2>2 DEF Absent, Known
    <3>2. CASE heard[m] = 0 /\ Absent(scan.ap, Count, m)
      BY <3>1, <3>2
    <3>3. CASE \E k \in 1..Count : /\ scan.ap[k].mac = m /\ scan.ap[k].signal = heard[m]
                                   /\ \A l \in 1..Count : scan.ap[l].mac = m => l = k
      <4>1. PICK k \in 1..Count : /\ scan.ap[k].mac = m /\ scan.ap[k].signal = heard[m]
                                  /\ \A l \in 1..Count : scan.ap[l].mac = m => l = k
        BY <3>3
      <4>2. PICK i \in 1..Count : scan.pap[i] = k
        BY <2>2
      <4>3. \A j \in 1..Count : scan.ap[scan.pap[j]].mac = m <=> j = i
        BY <2>2, <4>1, <4>2
      <4>4. Known(m) = {i}
        BY <4>3 DEF Known
      <4>5. Signal(i) = heard[m]
        BY <4>1, <4>2 DEF Signal
      <4> QED BY <4>4, <4>5
    <3>4. CASE /\ Absent(scan.ap, Count, m) /\ Count = MaxAp
               /\ \A k \in 1..Count : heard[m] <= scan.ap[k].signal
      <4>1. MaxAp \in 1..Count
        BY <2>1, <3>4
      <4>2. heard[m] <= Signal(MaxAp)
        BY <2>2, <3>4, <4>1 DEF Signal
      <4> QED BY <3>1, <3>4, <4>2
    <3> QED BY <2>1, <3>2, <3>3, <3>4 DEF EntryInv, Told
  <2> QED BY <2>1, <2>3 DEF StrongestKept, SortedInv
<1> QED BY <1>1, Invariance, PTL
=============================================================================

-------------------------- MODULE FlashEep_proofs --------------------------
(***************************************************************************)
(* Proofs about FlashEep, for sectors and objects of any size that leave   *)
(* room for two of the largest objects, any ids and values, any number of  *)
(* power failures and failed mallocs, and as many saves as the segment     *)
(* number can count.                                                       *)
(***************************************************************************)
EXTENDS FlashEep, WellFoundedInduction, TLAPS

\* A sector: words of the flash.
Sector == [0..(Bank - 1) -> 0..Free]

---------------------------------------------------------------------------
(* Numbers.                                                                *)

\* The sizes as numbers.
LEMMA Sizes ==
  /\ Unit \in Nat /\ Unit >= 3 /\ Free \in Nat /\ Free >= 8
  /\ MaxObj \in Nat /\ MaxObj >= 1 /\ MaxObj <= Unit - 2
  /\ Bank \in Nat /\ Bank > 2 * MaxObj + 3
<1>1. /\ Unit \in Nat /\ Unit >= 3
      /\ MaxObj \in Nat /\ MaxObj >= 1 /\ MaxObj <= Unit - 2
      /\ Bank \in Nat /\ Bank > 2 * MaxObj + 3
  <2> HIDE DEF Unit, Free
  <2> QED BY FlashAssumption
<1>2. Free \in Nat /\ Free >= 8
  <2> SUFFICES ASSUME NEW u \in Nat, u >= 3 PROVE u * u - 1 \in Nat /\ u * u - 1 >= 8
    <3> HIDE DEF Unit
    <3> QED BY <1>1 DEF Free
  <2> QED OBVIOUS
<1> QED BY <1>1, <1>2

\* A header gives back the id and the size it was made from, and is no erased word.
LEMMA HeaderWord ==
  ASSUME NEW id \in 0..(Unit - 2), NEW size \in 0..MaxObj
  PROVE  /\ FobjHead(id, size) \in 0..Free /\ FobjHead(id, size) # Free
         /\ IdOf(FobjHead(id, size)) = id /\ SizeOf(FobjHead(id, size)) = size
<1> SUFFICES ASSUME NEW u \in Nat, u >= 3, NEW i \in Nat, i <= u - 2,
                    NEW z \in Nat, z <= u - 2
             PROVE  /\ i * u + z \in Nat /\ i * u + z < u * u - 1
                    /\ (i * u + z) \div u = i /\ (i * u + z) % u = z
  <2>1. size \in Nat /\ size <= Unit - 2 /\ id \in Nat /\ id <= Unit - 2
    <3> HIDE DEF Unit
    <3> QED BY Sizes
  <2> HIDE DEF Unit
  <2>2. /\ id * Unit + size \in Nat /\ id * Unit + size < Unit * Unit - 1
        /\ (id * Unit + size) \div Unit = id /\ (id * Unit + size) % Unit = size
    BY <2>1, Sizes
  <2> QED BY <2>2, Sizes DEF FobjHead, IdOf, SizeOf, Free
<1>1. i * u \in Nat /\ u * u \in Nat
  OBVIOUS
<1>2. i * u <= (u - 2) * u
  OBVIOUS
<1>3. (u - 2) * u = u * u - 2 * u
  OBVIOUS
<1>4. i * u + z \in Nat /\ i * u + z < u * u - 1
  BY <1>1, <1>2, <1>3
<1>5. (i * u + z) \div u = i /\ (i * u + z) % u = z
  BY <1>1
<1> QED BY <1>4, <1>5

\* An object takes at least the word of its header and at most that of the largest.
LEMMA SpanOf ==
  ASSUME NEW w \in 0..Free
  PROVE  /\ SizeOf(w) \in Nat /\ SizeOf(w) <= Unit - 1
         /\ Span(w) \in Nat /\ Span(w) >= 1 /\ Span(w) <= MaxObj + 1
         /\ SizeOf(w) <= MaxObj => Span(w) = SizeOf(w) + 1
<1> HIDE DEF Unit, Free
<1>1. PICK u \in Nat : u = Unit /\ u >= 3
  BY Sizes
<1>2. w \in Nat
  BY Sizes
<1>3. w % u \in Nat /\ w % u <= u - 1
  BY <1>1, <1>2
<1>4. SizeOf(w) \in Nat /\ SizeOf(w) <= Unit - 1
  BY <1>1, <1>3 DEF SizeOf
<1> QED
  BY <1>4, Sizes DEF Span

\* A set of numbers that is not empty has a least element.
LEMMA Least ==
  ASSUME NEW S \in SUBSET Nat, S # {}
  PROVE  \E m \in S : \A n \in S : m <= n
<1>1. PICK m \in S : \A n \in S : ~ (<<n, m>> \in OpToRel(<, Nat))
  BY NatLessThanWellFounded, WFMin
<1>2. ASSUME NEW n \in S PROVE m <= n
  <2>1. n \in Nat /\ m \in Nat
    OBVIOUS
  <2>2. ~ (n < m)
    <3>1. n < m => <<n, m>> \in OpToRel(<, Nat)
      BY <2>1 DEF OpToRel
    <3> QED BY <1>1, <3>1
  <2> QED BY ONLY <2>1, <2>2
<1> QED BY <1>2

\* If it is bounded it has a greatest one.
LEMMA Greatest ==
  ASSUME NEW S \in SUBSET Nat, S # {}, NEW b \in Nat, \A n \in S : n <= b
  PROVE  \E m \in S : \A n \in S : n <= m
<1>1. \A n \in S : n \in Nat /\ b - n \in Nat
  OBVIOUS
<1>2. PICK T \in SUBSET Nat : T = {b - n : n \in S}
  <2>1. {b - n : n \in S} \in SUBSET Nat
    BY <1>1
  <2> QED BY <2>1
<1>3. T # {}
  BY <1>2
<1>4. PICK t \in T : \A n \in T : t <= n
  BY <1>3, Least
<1>5. PICK m \in S : t = b - m
  BY <1>2, <1>4
<1>6. ASSUME NEW n \in S PROVE n <= m
  <2>1. b - n \in T
    BY <1>2
  <2>2. t <= b - n
    BY <1>4, <2>1
  <2>3. m \in Nat /\ n \in Nat
    OBVIOUS
  <2> QED BY ONLY <2>2, <2>3, <1>5, b \in Nat
<1> QED BY <1>5, <1>6

---------------------------------------------------------------------------
(* The walk from header to header.                                         *)

\* The addresses it may look at.
Reach == 1..(Bank + MaxObj + 1)

\* One step: what the walk from a finds, when it finds f[b] from a later b.
Stops(s, end, a) == (a > 1 /\ a >= end) \/ s[a] = Free
Onward(s, end, f, a) ==
  IF Stops(s, end, a) THEN {} ELSE {a} \cup f[a + Span(s[a])]

\* Where the walk does not stop it goes on to a later address within reach.
LEMMA StepOn ==
  ASSUME NEW s \in Sector, NEW end \in 2..Bank, NEW a \in Reach, ~ Stops(s, end, a)
  PROVE  /\ a \in Nat /\ a >= 1 /\ a < end /\ a \in 0..(Bank - 1)
         /\ s[a] \in 0..Free /\ s[a] # Free
         /\ a + Span(s[a]) \in Reach /\ a + Span(s[a]) > a
<1>1. a \in Nat /\ a >= 1 /\ a < end /\ end \in Nat /\ end <= Bank /\ a \in 0..(Bank - 1)
  BY Sizes DEF Stops, Reach
<1>2. s[a] \in 0..Free /\ s[a] # Free
  BY <1>1 DEF Sector, Stops
<1>3. PICK n \in Nat : n = Span(s[a]) /\ n >= 1 /\ n <= MaxObj + 1
  BY <1>2, SpanOf
<1>4. a + n \in Reach /\ a + n > a
  BY <1>1, <1>3, Sizes DEF Reach
<1> QED BY <1>1, <1>2, <1>3, <1>4

\* There is a function that satisfies the recursion from every address on.
LEMMA WalkExists ==
  ASSUME NEW s \in Sector, NEW end \in 2..Bank
  PROVE  \E f : f = [a \in Reach |-> Onward(s, end, f, a)]
<1> DEFINE Last == Bank + MaxObj + 1
           From(n) == \E f : f = [a \in n..Last |-> Onward(s, end, f, a)]
<1>1. Last \in Nat /\ Last >= 1
  BY Sizes
<1> HIDE DEF Last
<1>2. PICK N \in SUBSET Nat : N = {n \in 1..(Last + 1) : From(n)}
  <2>1. {n \in 1..(Last + 1) : From(n)} \in SUBSET Nat
    BY <1>1
  <2> QED BY <2>1
<1>3. Last + 1 \in N
  <2>1. From(Last + 1)
    <3>1. (Last + 1)..Last = {}
      BY <1>1
    <3> DEFINE f == [a \in {} |-> 0]
    <3>2. f = [a \in (Last + 1)..Last |-> Onward(s, end, f, a)]
      BY <3>1
    <3> QED BY <3>2
  <2> QED BY <1>1, <1>2, <2>1
<1>4. PICK m \in N : \A n \in N : m <= n
  BY <1>3, Least
<1>5. m \in Nat /\ m >= 1 /\ m <= Last + 1 /\ From(m)
  BY <1>1, <1>2, <1>4
<1>6. CASE m = 1
  <2>1. Reach = 1..Last
    BY DEF Reach, Last
  <2> QED BY <1>5, <1>6, <2>1
<1>7. CASE m > 1
  <2>1. PICK f : f = [a \in m..Last |-> Onward(s, end, f, a)]
    BY <1>5
  <2> DEFINE l == m - 1
             g == [a \in l..Last |-> Onward(s, end, f, a)]
  <2>2. l \in Nat /\ l >= 1 /\ l <= Last /\ l < m
    BY <1>1, <1>5, <1>7
  <2> HIDE DEF l
  <2>3. ASSUME NEW a \in l..Last
        PROVE  Onward(s, end, f, a) = Onward(s, end, g, a)
    <3>1. CASE Stops(s, end, a)
      BY <3>1 DEF Onward
    <3>2. CASE ~ Stops(s, end, a)
      <4>1. a \in Reach
        BY <2>2, <1>1 DEF Reach, Last
      <4>2. PICK b \in Reach : b = a + Span(s[a]) /\ b > a
        BY <3>2, <4>1, StepOn
      <4>3. b \in m..Last /\ b \in l..Last
        BY <4>1, <4>2, <2>2, <1>1, <1>5 DEF Reach, Last, l
      <4>4. f[b] = Onward(s, end, f, b)
        BY <2>1, <4>3
      <4>5. g[b] = f[b]
        BY <4>3, <4>4
      <4> QED BY <3>2, <4>2, <4>5 DEF Onward
    <3> QED BY <3>1, <3>2
  <2>4. g = [a \in l..Last |-> Onward(s, end, g, a)]
    BY <2>3
  <2>5. From(l)
    BY <2>4
  <2>6. l \in N
    BY <1>1, <1>2, <2>2, <2>5
  <2> QED BY <1>4, <1>5, <2>2, <2>6
<1> QED BY <1>5, <1>6, <1>7

\* The recursion that defines the walk.
LEMMA WalkIs ==
  ASSUME NEW s \in Sector, NEW end \in 2..Bank
  PROVE  Walk(s, end) = [a \in Reach |-> Onward(s, end, Walk(s, end), a)]
<1> DEFINE Is(f) == f = [a \in Reach |-> Onward(s, end, f, a)]
<1>1. Walk(s, end) = CHOOSE f : Is(f)
  BY DEF Walk, Is, Reach, Onward, Stops
<1>2. \E f : Is(f)
  BY WalkExists
<1> HIDE DEF Is
<1>3. Is(Walk(s, end))
  BY <1>1, <1>2
<1> QED BY <1>3 DEF Is

\* What is found has not stopped the walk.
LEMMA HeadersGoOn ==
  ASSUME NEW s \in Sector, NEW end \in 2..Bank
  PROVE  \A a \in Headers(s, end) : a \in Reach /\ ~ Stops(s, end, a)
<1> DEFINE W == Walk(s, end)
           Good(n) == \A a \in W[n] : a \in Reach /\ ~ Stops(s, end, a)
           Last == Bank + MaxObj + 1
<1>1. W = [a \in Reach |-> Onward(s, end, W, a)]
  BY WalkIs
<1> HIDE DEF W
<1>2. Last \in Nat /\ Reach = 1..Last /\ 1 \in Reach
  BY Sizes DEF Reach
<1> HIDE DEF Last
<1>3. ASSUME NEW n0 \in Reach, ~ Good(n0) PROVE FALSE
  <2>1. PICK N \in SUBSET Nat : N = {n \in Reach : ~ Good(n)}
    <3>1. {n \in Reach : ~ Good(n)} \in SUBSET Nat
      BY <1>2
    <3> QED BY <3>1
  <2>2. PICK m \in N : \A n \in N : n <= m
    <3>1. \A n \in N : n <= Last
      BY <2>1, <1>2
    <3> QED BY <2>1, <1>2, <1>3, <3>1, Greatest
  <2>3. m \in Reach /\ ~ Good(m)
    BY <2>1
  <2>4. W[m] = Onward(s, end, W, m)
    BY <1>1, <2>3
  <2>5. CASE Stops(s, end, m)
    BY <2>3, <2>4, <2>5 DEF Onward
  <2>6. CASE ~ Stops(s, end, m)
    <3>1. PICK b \in Reach : b = m + Span(s[m]) /\ b > m
      BY <2>3, <2>6, StepOn
    <3>2. Good(b)
      <4>1. ~ (b <= m)
        BY <3>1, <2>3, <1>2
      <4> QED BY <4>1, <2>1, <2>2
    <3>3. W[m] = {m} \cup W[b]
      BY <2>4, <2>6, <3>1 DEF Onward
    <3> QED BY <2>3, <2>6, <3>2, <3>3
  <2> QED BY <2>5, <2>6
<1>4. Good(1)
  BY <1>2, <1>3
<1> QED BY <1>4 DEF Headers, W

\* The first header is found, and the one after a header that was found.
LEMMA HeadersClosed ==
  ASSUME NEW s \in Sector, NEW end \in 2..Bank
  PROVE  /\ s[1] # Free => 1 \in Headers(s, end)
         /\ \A a \in Headers(s, end) :
              a + Span(s[a]) < end /\ s[a + Span(s[a])] # Free
                => a + Span(s[a]) \in Headers(s, end)
<1> DEFINE W == Walk(s, end)
           Good(n) == \A a \in W[n] :
                        (a + Span(s[a]) < end /\ s[a + Span(s[a])] # Free)
                          => a + Span(s[a]) \in W[n]
           Last == Bank + MaxObj + 1
<1>1. W = [a \in Reach |-> Onward(s, end, W, a)]
  BY WalkIs
<1> HIDE DEF W
<1>2. Last \in Nat /\ Reach = 1..Last /\ 1 \in Reach
  BY Sizes DEF Reach
<1> HIDE DEF Last
<1>3. ASSUME NEW n0 \in Reach, ~ Good(n0) PROVE FALSE
  <2>1. PICK N \in SUBSET Nat : N = {n \in Reach : ~ Good(n)}
    <3>1. {n \in Reach : ~ Good(n)} \in SUBSET Nat
      BY <1>2
    <3> QED BY <3>1
  <2>2. PICK m \in N : \A n \in N : n <= m
    <3>1. \A n \in N : n <= Last
      BY <2>1, <1>2
    <3> QED BY <2>1, <1>2, <1>3, <3>1, Greatest
  <2>3. m \in Reach /\ ~ Good(m)
    BY <2>1
  <2>4. W[m] = Onward(s, end, W, m)
    BY <1>1, <2>3
  <2>5. CASE Stops(s, end, m)
    BY <2>3, <2>4, <2>5 DEF Onward
  <2>6. CASE ~ Stops(s, end, m)
    <3>1. PICK b \in Reach : b = m + Span(s[m]) /\ b > m
      BY <2>3, <2>6, StepOn
    <3>2. Good(b)
      <4>1. ~ (b <= m)
        BY <3>1, <2>3, <1>2
      <4> QED BY <4>1, <2>1, <2>2
    <3>3. W[m] = {m} \cup W[b]
      BY <2>4, <2>6, <3>1 DEF Onward
    <3>4. (b < end /\ s[b] # Free) => b \in W[b]
      <4> SUFFICES ASSUME b < end, s[b] # Free PROVE b \in W[b]
        OBVIOUS
      <4>1. ~ Stops(s, end, b)
        <5>1. ~ (b >= end)
          BY <3>1, <1>2
        <5> QED BY <5>1 DEF Stops
      <4> QED BY <1>1, <4>1 DEF Onward
    <3>5. Good(m)
      BY <3>1, <3>2, <3>3, <3>4
    <3> QED BY <2>3, <3>5
  <2> QED BY <2>5, <2>6
<1>4. Good(1)
  BY <1>2, <1>3
<1>5. s[1] # Free => 1 \in W[1]
  <2> SUFFICES ASSUME s[1] # Free PROVE 1 \in W[1]
    OBVIOUS
  <2>1. ~ Stops(s, end, 1)
    BY DEF Stops
  <2> QED BY <1>1, <1>2, <2>1 DEF Onward
<1> QED BY <1>4, <1>5 DEF Headers, W

\* Nothing else is found.
LEMMA HeadersLeast ==
  ASSUME NEW s \in Sector, NEW end \in 2..Bank, NEW T,
         s[1] # Free => 1 \in T,
         \A a \in T : (~ Stops(s, end, a) /\ a + Span(s[a]) < end /\ s[a + Span(s[a])] # Free)
                       => a + Span(s[a]) \in T
  PROVE  Headers(s, end) \subseteq T
<1> DEFINE W == Walk(s, end)
           Good(n) == (Stops(s, end, n) \/ n \in T) => W[n] \subseteq T
           Last == Bank + MaxObj + 1
<1>1. W = [a \in Reach |-> Onward(s, end, W, a)]
  BY WalkIs
<1> HIDE DEF W
<1>2. Last \in Nat /\ Reach = 1..Last /\ 1 \in Reach
  BY Sizes DEF Reach
<1> HIDE DEF Last
<1>3. ASSUME NEW n0 \in Reach, ~ Good(n0) PROVE FALSE
  <2>1. PICK N \in SUBSET Nat : N = {n \in Reach : ~ Good(n)}
    <3>1. {n \in Reach : ~ Good(n)} \in SUBSET Nat
      BY <1>2
    <3> QED BY <3>1
  <2>2. PICK m \in N : \A n \in N : n <= m
    <3>1. \A n \in N : n <= Last
      BY <2>1, <1>2
    <3> QED BY <2>1, <1>2, <1>3, <3>1, Greatest
  <2>3. m \in Reach /\ ~ Good(m)
    BY <2>1
  <2>4. W[m] = Onward(s, end, W, m)
    BY <1>1, <2>3
  <2>5. CASE Stops(s, end, m)
    BY <2>3, <2>4, <2>5 DEF Onward
  <2>6. CASE ~ Stops(s, end, m)
    <3>1. PICK b \in Reach : b = m + Span(s[m]) /\ b > m
      BY <2>3, <2>6, StepOn
    <3>2. Good(b)
      <4>1. ~ (b <= m)
        BY <3>1, <2>3, <1>2
      <4> QED BY <4>1, <2>1, <2>2
    <3>3. W[m] = {m} \cup W[b]
      BY <2>4, <2>6, <3>1 DEF Onward
    <3>4. m \in T
      BY <2>3, <2>6
    <3>5. Stops(s, end, b) \/ b \in T
      <4> SUFFICES ASSUME ~ Stops(s, end, b) PROVE b \in T
        OBVIOUS
      <4>1. b < end /\ s[b] # Free
        BY StepOn
      <4> QED BY <2>6, <3>1, <3>4, <4>1
    <3>6. W[m] \subseteq T
      BY <3>2, <3>3, <3>4, <3>5
    <3> QED BY <2>3, <3>6
  <2> QED BY <2>5, <2>6
<1>4. Good(1)
  BY <1>2, <1>3
<1>5. Stops(s, end, 1) \/ 1 \in T
  BY DEF Stops
<1> QED BY <1>4, <1>5 DEF Headers, W

\* What is known of an address in Headers.
LEMMA HeaderAt ==
  ASSUME NEW s \in Sector, NEW end \in 2..Bank, NEW a \in Headers(s, end)
  PROVE  /\ a \in Nat /\ a >= 1 /\ a < end /\ a \in 0..(Bank - 1)
         /\ s[a] \in 0..Free /\ s[a] # Free
         /\ Span(s[a]) \in Nat /\ Span(s[a]) >= 1 /\ Span(s[a]) <= MaxObj + 1
         /\ SizeOf(s[a]) \in Nat /\ (SizeOf(s[a]) <= MaxObj => Span(s[a]) = SizeOf(s[a]) + 1)
<1>1. a \in Reach /\ ~ Stops(s, end, a)
  BY HeadersGoOn
<1>2. /\ a \in Nat /\ a >= 1 /\ a < end /\ a \in 0..(Bank - 1)
      /\ s[a] \in 0..Free /\ s[a] # Free
  BY <1>1, StepOn
<1> QED BY <1>2, SpanOf

\* A walk that ends earlier finds no more.
LEMMA HeadersGrow ==
  ASSUME NEW s \in Sector, NEW end \in 2..Bank, NEW e \in 2..Bank, end <= e
  PROVE  Headers(s, end) \subseteq Headers(s, e)
<1> DEFINE T == Headers(s, e)
<1>1. s[1] # Free => 1 \in T
  BY HeadersClosed
<1>2. ASSUME NEW a \in T, a + Span(s[a]) < end, s[a + Span(s[a])] # Free
      PROVE  a + Span(s[a]) \in T
  <2>1. PICK n \in Nat : n = a + Span(s[a])
    BY HeaderAt
  <2>2. n < e
    BY <1>2, <2>1, Sizes
  <2> QED BY <1>2, <2>1, <2>2, HeadersClosed
<1> HIDE DEF T
<1> QED BY <1>1, <1>2, HeadersLeast DEF T

---------------------------------------------------------------------------
(* A sector as a log.                                                      *)

\* No object reaches over the end, and what none covers or precedes is erased.
LogTail(s) ==
  /\ \A p \in Headers(s, Bank) : p + Span(s[p]) < Bank
  /\ \A a \in 1..(Bank - 1) :
       (\A p \in Headers(s, Bank) : p + Span(s[p]) <= a) => s[a] = Free

\* A sector with one word more.
Put(s, a, w) == [s EXCEPT ![a] = w]

\* The log may be continued at addr.
Slot(s, addr) ==
  /\ addr \in 1..(Bank - 2)
  /\ \A a \in addr..(Bank - 1) : s[a] = Free
  /\ \A p \in Headers(s, Bank) : p + Span(s[p]) <= addr
  /\ addr = 1 \/ \E p \in Headers(s, Bank - 1) : p + Span(s[p]) = addr

\* The end of the last object exists.
LEMMA LastEndIs ==
  ASSUME NEW s \in Sector, NEW end \in 2..Bank
  PROVE  /\ LastEnd(s, end) \in Ends(s, end) /\ LastEnd(s, end) \in Nat
         /\ \A x \in Ends(s, end) : x <= LastEnd(s, end)
<1>1. PICK E \in SUBSET Nat : E = Ends(s, end)
  <2>1. Ends(s, end) \in SUBSET Nat
    <3>1. \A a \in Headers(s, end) : a + Span(s[a]) \in Nat
      BY HeaderAt
    <3> QED BY <3>1 DEF Ends
  <2> QED BY <2>1
<1>2. E # {}
  BY <1>1 DEF Ends
<1>3. \A n \in E : n <= Bank + MaxObj
  <2> SUFFICES ASSUME NEW n \in E PROVE n <= Bank + MaxObj
    OBVIOUS
  <2>1. CASE n = 1
    BY <2>1, Sizes
  <2>2. CASE n # 1
    <3>1. PICK a \in Headers(s, end) : n = a + Span(s[a])
      BY <1>1, <2>2 DEF Ends
    <3>2. PICK z \in Nat : z = Span(s[a]) /\ z <= MaxObj + 1
      BY HeaderAt
    <3>3. a \in Nat /\ a < end
      BY HeaderAt
    <3> QED BY <3>1, <3>2, <3>3, Sizes
  <2> QED BY <2>1, <2>2
<1>4. Bank + MaxObj \in Nat
  BY Sizes
<1>5. \E m \in E : \A n \in E : n <= m
  BY <1>2, <1>3, <1>4, Greatest
<1>6. LastEnd(s, end) = CHOOSE a \in E : \A x \in E : x <= a
  BY <1>1 DEF LastEnd
<1> QED BY <1>1, <1>5, <1>6

\* What get_addr_fobj_save gives is the end of the log, and the object fits there.
LEMMA SaveSlot ==
  ASSUME NEW s \in Sector, LogTail(s), NEW size \in 0..MaxObj, SaveAddr(s, size) # 0
  PROVE  /\ SaveAddr(s, size) \in Nat /\ SaveAddr(s, size) + size + 1 < Bank
         /\ Slot(s, SaveAddr(s, size))
<1>1. PICK end \in 2..Bank : end = Bank - (size + 1) /\ end <= Bank - 1
  <2>1. size \in Nat /\ size <= MaxObj
    BY Sizes
  <2> QED BY <2>1, Sizes
<1>2. PICK addr \in Nat : addr = LastEnd(s, end)
  BY LastEndIs
<1>3. addr < end /\ s[addr] = Free /\ SaveAddr(s, size) = addr
  BY <1>1, <1>2 DEF SaveAddr
<1>4. \A p \in Headers(s, end) : p + Span(s[p]) <= addr
  BY <1>2, LastEndIs DEF Ends
<1>5. Headers(s, Bank) \subseteq Headers(s, end)
  <2> DEFINE T == Headers(s, end)
  <2>1. s[1] # Free => 1 \in T
    BY HeadersClosed
  <2>2. ASSUME NEW p \in T, p + Span(s[p]) < Bank, s[p + Span(s[p])] # Free
        PROVE  p + Span(s[p]) \in T
    <3>1. PICK n \in Nat : n = p + Span(s[p])
      BY HeaderAt
    <3>2. n <= addr /\ n # addr
      BY <1>3, <1>4, <2>2, <3>1
    <3>3. n < end
      BY <1>3, <3>2, <1>1, Sizes
    <3> QED BY <2>2, <3>1, <3>3, HeadersClosed
  <2>3. Bank \in 2..Bank
    BY Sizes
  <2> HIDE DEF T
  <2> QED BY <2>1, <2>2, <2>3, HeadersLeast DEF T
<1>6. addr >= 1 /\ (addr = 1 \/ \E p \in Headers(s, end) : p + Span(s[p]) = addr)
  <2>1. addr \in Ends(s, end) /\ 1 <= addr
    BY <1>2, LastEndIs DEF Ends
  <2> QED BY <2>1 DEF Ends
<1>7. \A a \in addr..(Bank - 1) : s[a] = Free
  <2> SUFFICES ASSUME NEW a \in addr..(Bank - 1) PROVE s[a] = Free
    OBVIOUS
  <2>1. a \in 1..(Bank - 1) /\ addr <= a
    BY <1>6, Sizes
  <2>2. ASSUME NEW p \in Headers(s, Bank) PROVE p + Span(s[p]) <= a
    <3>1. p + Span(s[p]) <= addr
      BY <1>4, <1>5
    <3>2. PICK n \in Nat : n = p + Span(s[p])
      BY <1>5, HeaderAt
    <3> QED BY <2>1, <3>1, <3>2, Sizes
  <2> QED BY <2>1, <2>2 DEF LogTail
<1>8. Headers(s, end) \subseteq Headers(s, Bank - 1)
  <2>1. Bank - 1 \in 2..Bank
    BY Sizes
  <2> QED BY <1>1, <2>1, HeadersGrow
<1>9. addr \in 1..(Bank - 2) /\ addr + size + 1 < Bank
  BY <1>1, <1>3, <1>6, Sizes
<1> QED BY <1>3, <1>4, <1>5, <1>6, <1>7, <1>8, <1>9 DEF Slot

\* A header written to the end of the log becomes its last one.
LEMMA HeadWritten ==
  ASSUME NEW s \in Sector, NEW addr, Slot(s, addr), NEW w \in 0..Free, w # Free,
         addr + Span(w) < Bank, NEW end \in {Bank - 1, Bank},
         NEW t, t = Put(s, addr, w)
  PROVE  t \in Sector /\ Headers(t, end) = Headers(s, end) \cup {addr}
<1>1. addr \in Nat /\ addr >= 1 /\ addr <= Bank - 2 /\ addr \in 0..(Bank - 1)
  BY Sizes DEF Slot
<1>2. t \in Sector /\ t[addr] = w /\ \A a \in 0..(Bank - 1) : a # addr => t[a] = s[a]
  BY <1>1 DEF Sector, Put
<1>3. end \in 2..Bank /\ end \in Nat /\ end >= Bank - 1 /\ end <= Bank
  BY Sizes
<1>4. s[addr] = Free
  BY <1>1, Sizes DEF Slot
<1>5. Headers(s, end) \subseteq Headers(s, Bank) /\ Headers(s, Bank - 1) \subseteq Headers(s, end)
  <2>1. Bank \in 2..Bank /\ Bank - 1 \in 2..Bank
    BY Sizes
  <2> QED BY <1>3, <2>1, HeadersGrow, Sizes
<1>6. ASSUME NEW p \in Headers(s, end) PROVE p # addr /\ t[p] = s[p] /\ p + Span(s[p]) <= addr
  <2>1. p \in 0..(Bank - 1) /\ s[p] # Free
    BY <1>3, HeaderAt
  <2> QED BY <1>2, <1>4, <1>5, <2>1 DEF Slot
<1>7. Headers(t, end) \subseteq Headers(s, end) \cup {addr}
  <2> DEFINE T == Headers(s, end) \cup {addr}
  <2>1. t[1] # Free => 1 \in T
    <3>1. 1 \in 0..(Bank - 1)
      BY Sizes
    <3> QED BY <1>2, <1>3, <3>1, HeadersClosed
  <2>2. ASSUME NEW a \in T, a + Span(t[a]) < end, t[a + Span(t[a])] # Free
        PROVE  a + Span(t[a]) \in T
    <3>1. CASE a = addr
      <4>1. PICK n \in Nat : n = Span(w) /\ n >= 1
        BY SpanOf
      <4>2. addr + n \in addr..(Bank - 1) /\ addr + n \in 0..(Bank - 1) /\ addr + n # addr
        BY <1>1, <4>1, Sizes
      <4>3. t[addr + n] = Free
        BY <1>2, <4>2 DEF Slot
      <4> QED BY <1>2, <2>2, <3>1, <4>1, <4>3
    <3>2. CASE a \in Headers(s, end)
      <4>1. PICK n \in Nat : n = a + Span(s[a])
        BY <1>3, <3>2, HeaderAt
      <4>2. t[a] = s[a] /\ n < end /\ t[n] # Free
        BY <1>6, <2>2, <3>2, <4>1
      <4>3. n # addr => s[n] # Free
        <5>1. n \in 0..(Bank - 1)
          BY <1>3, <4>2, Sizes
        <5> QED BY <1>2, <4>2, <5>1
      <4> QED BY <1>3, <3>2, <4>1, <4>2, <4>3, HeadersClosed
    <3> QED BY <3>1, <3>2
  <2> HIDE DEF T
  <2>3. Headers(t, end) \subseteq T
    BY <1>2, <1>3, <2>1, <2>2, HeadersLeast
  <2> QED BY <2>3 DEF T
<1>8. Headers(s, end) \subseteq Headers(t, end)
  <2> DEFINE T == Headers(t, end) \cap {p \in 0..(Bank - 1) : p # addr}
  <2>1. s[1] # Free => 1 \in T
    <3>1. 1 \in 0..(Bank - 1)
      BY Sizes
    <3> QED BY <1>2, <1>3, <1>4, <3>1, HeadersClosed
  <2>2. ASSUME NEW a \in T, a + Span(s[a]) < end, s[a + Span(s[a])] # Free
        PROVE  a + Span(s[a]) \in T
    <3>1. t[a] = s[a]
      BY <1>2
    <3>2. PICK n \in Nat : n = a + Span(t[a]) /\ n \in 0..(Bank - 1)
      <4>1. a \in Headers(t, end)
        OBVIOUS
      <4>2. a \in Nat /\ Span(t[a]) \in Nat
        BY <1>2, <1>3, <4>1, HeaderAt
      <4> QED BY <1>3, <2>2, <3>1, <4>2, Sizes
    <3>3. n # addr /\ t[n] # Free /\ n < end
      BY <1>2, <1>4, <2>2, <3>1, <3>2
    <3> QED BY <1>2, <1>3, <3>1, <3>2, <3>3, HeadersClosed
  <2> HIDE DEF T
  <2>3. Headers(s, end) \subseteq T
    BY <1>3, <2>1, <2>2, HeadersLeast
  <2> QED BY <2>3 DEF T
<1>9. addr \in Headers(t, end)
  <2>1. CASE addr = 1
    BY <1>2, <1>3, <2>1, HeadersClosed
  <2>2. CASE addr # 1
    <3>1. PICK p \in Headers(s, Bank - 1) : p + Span(s[p]) = addr
      BY <2>2 DEF Slot
    <3>2. p \in Headers(t, end) /\ t[p] = s[p]
      BY <3>1, <1>5, <1>6, <1>8
    <3>3. addr < end
      BY <1>1, <1>3, Sizes
    <3> QED BY <1>2, <1>3, <3>1, <3>2, <3>3, HeadersClosed
  <2> QED BY <2>1, <2>2
<1> QED BY <1>2, <1>7, <1>8, <1>9

\* A word that is neither a header nor the end of an object may change.
LEMMA HeadersSame ==
  ASSUME NEW s \in Sector, NEW x \in 0..(Bank - 1), NEW w \in 0..Free, x # 1,
         NEW end \in 2..Bank,
         \A p \in Headers(s, end) : p # x /\ p + Span(s[p]) # x,
         NEW t, t = Put(s, x, w)
  PROVE  t \in Sector /\ Headers(t, end) = Headers(s, end)
<1>1. t \in Sector /\ \A a \in 0..(Bank - 1) : a # x => t[a] = s[a]
  BY DEF Sector, Put
<1>2. 1 \in 0..(Bank - 1) /\ end \in Nat /\ end <= Bank
  BY Sizes
<1>3. ASSUME NEW p \in Headers(s, end)
      PROVE  /\ t[p] = s[p] /\ p + Span(s[p]) \in Nat
             /\ p + Span(s[p]) < end => t[p + Span(s[p])] = s[p + Span(s[p])]
  <2>1. p \in 0..(Bank - 1) /\ p + Span(s[p]) \in Nat
    BY HeaderAt
  <2>2. ASSUME p + Span(s[p]) < end PROVE p + Span(s[p]) \in 0..(Bank - 1)
    BY <1>2, <2>1, <2>2, Sizes
  <2> QED BY <1>1, <2>1, <2>2
<1>4. Headers(t, end) \subseteq Headers(s, end)
  <2> DEFINE T == Headers(s, end)
  <2>1. t[1] # Free => 1 \in T
    BY <1>1, <1>2, HeadersClosed
  <2>2. ASSUME NEW a \in T, a + Span(t[a]) < end, t[a + Span(t[a])] # Free
        PROVE  a + Span(t[a]) \in T
    BY <1>3, <2>2, HeadersClosed
  <2> HIDE DEF T
  <2> QED BY <1>1, <2>1, <2>2, HeadersLeast DEF T
<1>5. Headers(s, end) \subseteq Headers(t, end)
  <2> DEFINE T == Headers(t, end)
  <2>1. s[1] # Free => 1 \in T
    BY <1>1, <1>2, HeadersClosed
  <2>2. ASSUME NEW a \in T, a + Span(s[a]) < end, s[a + Span(s[a])] # Free
        PROVE  a + Span(s[a]) \in T
    <3>1. t[a] = s[a] /\ t[a + Span(s[a])] = s[a + Span(s[a])]
      BY <1>3, <1>4, <2>2
    <3> QED BY <1>1, <2>2, <3>1, HeadersClosed
  <2> HIDE DEF T
  <2> QED BY <2>1, <2>2, HeadersLeast DEF T
<1> QED BY <1>1, <1>4, <1>5

\* The log of a sector that holds nothing behind its first header ends there.
LEMMA PackedTail ==
  ASSUME NEW s \in Sector, \A a \in 2..(Bank - 1) : s[a] = Free
  PROVE  LogTail(s)
<1>1. Bank \in 2..Bank
  BY Sizes
<1>2. ASSUME NEW p \in Headers(s, Bank)
      PROVE  p = 1 /\ p + Span(s[p]) < Bank /\ ~ (p + Span(s[p]) <= 1)
  <2>1. /\ p \in Nat /\ p >= 1 /\ p < Bank /\ s[p] # Free
        /\ Span(s[p]) \in Nat /\ Span(s[p]) >= 1 /\ Span(s[p]) <= MaxObj + 1
    BY <1>1, HeaderAt
  <2>2. p = 1
    <3>1. p # 1 => p \in 2..(Bank - 1)
      BY <2>1, Sizes
    <3> QED BY <2>1, <3>1
  <2> QED BY <2>1, <2>2, Sizes
<1>3. ASSUME NEW a \in 1..(Bank - 1), \A p \in Headers(s, Bank) : p + Span(s[p]) <= a
      PROVE  s[a] = Free
  <2>1. CASE a = 1
    <3>1. s[1] # Free => 1 \in Headers(s, Bank)
      BY <1>1, HeadersClosed
    <3> QED BY <1>2, <1>3, <2>1, <3>1
  <2>2. CASE a # 1
    <3>1. a \in 2..(Bank - 1)
      BY <2>2, Sizes
    <3> QED BY <3>1
  <2> QED BY <2>1, <2>2
<1> QED BY <1>2, <1>3 DEF LogTail

\* Such a sector has room for any object.
LEMMA PackedRoom ==
  ASSUME NEW s \in Sector, \A a \in 2..(Bank - 1) : s[a] = Free, NEW size \in 0..MaxObj
  PROVE  SaveAddr(s, size) # 0
<1>1. PICK end \in 2..Bank : end = Bank - (size + 1) /\ end > MaxObj + 2
  <2>1. size \in Nat /\ size <= MaxObj
    BY Sizes
  <2> QED BY <2>1, Sizes
<1>2. PICK addr \in Nat : addr = LastEnd(s, end)
  BY LastEndIs
<1>3. \A p \in Headers(s, end) : p = 1
  <2> SUFFICES ASSUME NEW p \in Headers(s, end), p # 1 PROVE FALSE
    OBVIOUS
  <2>1. p \in Nat /\ p >= 1 /\ p < end /\ s[p] # Free
    BY HeaderAt
  <2>2. p \in 2..(Bank - 1)
    BY <2>1, Sizes
  <2> QED BY <2>1, <2>2
<1>4. addr \in Ends(s, end) /\ \A x \in Ends(s, end) : x <= addr
  BY <1>2, LastEndIs
<1>5. CASE addr = 1
  <2>1. s[1] = Free
    <3> SUFFICES ASSUME s[1] # Free PROVE FALSE
      OBVIOUS
    <3>1. 1 \in Headers(s, end)
      BY HeadersClosed
    <3>2. 1 + Span(s[1]) <= 1
      BY <1>4, <1>5, <3>1 DEF Ends
    <3>3. Span(s[1]) \in Nat /\ Span(s[1]) >= 1
      BY <3>1, HeaderAt
    <3> QED BY <3>2, <3>3
  <2>2. addr < end
    BY <1>1, <1>5, Sizes
  <2> QED BY <1>1, <1>2, <1>5, <2>1, <2>2 DEF SaveAddr
<1>6. CASE addr # 1
  <2>1. 1 \in Headers(s, end) /\ addr = 1 + Span(s[1])
    BY <1>3, <1>4, <1>6 DEF Ends
  <2>2. PICK n \in Nat : n = Span(s[1]) /\ n >= 1 /\ n <= MaxObj + 1
    BY <2>1, HeaderAt
  <2>3. addr < end /\ addr \in 2..(Bank - 1) /\ addr # 0
    BY <1>1, <2>1, <2>2, Sizes
  <2> QED BY <1>1, <1>2, <2>3 DEF SaveAddr
<1> QED BY <1>5, <1>6

---------------------------------------------------------------------------
(* What a sector reads as.                                                 *)

\* What get_addr_fobj looks for.
LEMMA FoundAt ==
  ASSUME NEW s \in Sector, NEW id, NEW a \in Found(s, id)
  PROVE  /\ a \in Headers(s, Bank - 1) /\ a \in Headers(s, Bank)
         /\ a \in Nat /\ a >= 1 /\ a < Bank - 1 /\ a \in 0..(Bank - 1)
         /\ IdOf(s[a]) = id
         /\ SizeOf(s[a]) \in Nat /\ SizeOf(s[a]) <= MaxObj /\ Span(s[a]) = SizeOf(s[a]) + 1
<1>1. Bank - 1 \in 2..Bank /\ Bank \in 2..Bank /\ Bank - 1 <= Bank
  BY Sizes
<1>2. a \in Headers(s, Bank - 1) /\ IdOf(s[a]) = id /\ SizeOf(s[a]) <= MaxObj
  BY DEF Found
<1>3. a \in Headers(s, Bank)
  BY <1>1, <1>2, HeadersGrow
<1> QED BY <1>1, <1>2, <1>3, HeaderAt

\* The last object of an id is the one that no other follows.
LEMMA FindLast ==
  ASSUME NEW s \in Sector, NEW id, NEW a \in Found(s, id), \A x \in Found(s, id) : x <= a
  PROVE  Find(s, id) = a
<1> DEFINE Is(m) == m \in Found(s, id) /\ \A x \in Found(s, id) : x <= m
<1>1. Find(s, id) = CHOOSE m \in Found(s, id) : \A x \in Found(s, id) : x <= m
  BY DEF Find
<1>2. ASSUME NEW m \in Found(s, id), \A x \in Found(s, id) : x <= m PROVE m = a
  <2>1. m \in Nat /\ a \in Nat
    BY FoundAt
  <2>2. m <= a /\ a <= m
    BY <1>2
  <2> QED BY ONLY <2>1, <2>2
<1> QED BY <1>1, <1>2

\* An address that is found is one of a header.
LEMMA FindIs ==
  ASSUME NEW s \in Sector, NEW id
  PROVE  /\ Find(s, id) \in Found(s, id) \cup {0} /\ Find(s, id) \in 0..(Bank - 2)
         /\ Found(s, id) # {} => Find(s, id) \in Found(s, id)
<1>1. CASE Found(s, id) = {}
  <2>1. Find(s, id) = 0 /\ 0 \in 0..(Bank - 2)
    BY <1>1, Sizes DEF Find
  <2> QED BY <1>1, <2>1
<1>2. CASE Found(s, id) # {}
  <2>1. PICK F \in SUBSET Nat : F = Found(s, id)
    <3>1. Found(s, id) \in SUBSET Nat
      BY FoundAt
    <3> QED BY <3>1
  <2>2. \A n \in F : n <= Bank
    <3> SUFFICES ASSUME NEW n \in F PROVE n <= Bank
      OBVIOUS
    <3>1. n \in Nat /\ n < Bank - 1
      BY <2>1, FoundAt
    <3> QED BY <3>1, Sizes
  <2>3. PICK m \in F : \A n \in F : n <= m
    BY <1>2, <2>1, <2>2, Greatest, Sizes
  <2>4. Find(s, id) = m /\ m \in Found(s, id)
    BY <2>1, <2>3, FindLast
  <2>5. m \in 0..(Bank - 2)
    <3>1. m \in Nat /\ m < Bank - 1
      BY <2>4, FoundAt
    <3> QED BY <3>1, Sizes
  <2> QED BY <2>4, <2>5
<1> QED BY <1>1, <1>2

\* Two sectors with the same objects of an id read the same.
LEMMA ReadSame ==
  ASSUME NEW s \in Sector, NEW t \in Sector, NEW id, Found(t, id) = Found(s, id),
         \A a \in Found(s, id) : t[a] = s[a] /\ \A i \in 1..SizeOf(s[a]) : t[a + i] = s[a + i]
  PROVE  ReadObj(t, id) = ReadObj(s, id)
<1>1. Find(t, id) = Find(s, id)
  BY DEF Find
<1>2. CASE Find(s, id) = 0
  BY <1>1, <1>2 DEF ReadObj
<1>3. CASE Find(s, id) # 0
  <2>1. PICK a \in Found(s, id) : a = Find(s, id)
    BY <1>3, FindIs
  <2>2. t[a] = s[a] /\ \A i \in 1..SizeOf(s[a]) : t[a + i] = s[a + i]
    OBVIOUS
  <2>3. ReadObj(s, id) = [i \in 1..SizeOf(s[a]) |-> s[a + i]]
    BY <1>3, <2>1 DEF ReadObj
  <2>4. ReadObj(t, id) = [i \in 1..SizeOf(t[a]) |-> t[a + i]]
    BY <1>1, <1>3, <2>1 DEF ReadObj
  <2> QED BY <2>2, <2>3, <2>4
<1> QED BY <1>2, <1>3

\* A header written to the end of the log leaves the objects of other ids alone.
LEMMA HeadKeepsOthers ==
  ASSUME NEW s \in Sector, NEW addr, Slot(s, addr),
         NEW own \in 0..(Unit - 2), NEW size \in 0..MaxObj, addr + size + 1 < Bank,
         NEW t, t = Put(s, addr, FobjHead(own, size))
  PROVE  /\ t \in Sector /\ t[addr] = FobjHead(own, size)
         /\ \A end \in {Bank - 1, Bank} : Headers(t, end) = Headers(s, end) \cup {addr}
         /\ \A id : id # own => ReadObj(t, id) = ReadObj(s, id)
<1>1. PICK w \in 0..Free : /\ w = FobjHead(own, size) /\ w # Free
                           /\ IdOf(w) = own /\ SizeOf(w) = size
  BY HeaderWord
<1>2. addr \in Nat /\ addr \in 0..(Bank - 1)
  BY Sizes DEF Slot
<1>3. addr + Span(w) < Bank
  <2>1. Span(w) = size + 1 /\ size \in Nat
    BY <1>1, Sizes DEF Span
  <2> QED BY <1>2, <2>1, Sizes
<1>4. t \in Sector /\ \A end \in {Bank - 1, Bank} : Headers(t, end) = Headers(s, end) \cup {addr}
  <2>1. t = Put(s, addr, w)
    BY <1>1
  <2> QED BY <1>1, <1>3, <2>1, HeadWritten
<1>5. t[addr] = w /\ \A a \in 0..(Bank - 1) : a # addr => t[a] = s[a]
  BY <1>1, <1>2 DEF Sector, Put
<1>6. ASSUME NEW id, id # own PROVE ReadObj(t, id) = ReadObj(s, id)
  <2>1. ASSUME NEW a \in Headers(s, Bank - 1)
        PROVE  t[a] = s[a] /\ \A i \in 1..SizeOf(s[a]) : i < Span(s[a]) => t[a + i] = s[a + i]
    <3>1. Bank - 1 \in 2..Bank /\ Bank \in 2..Bank /\ Bank - 1 <= Bank
      BY Sizes
    <3>2. a \in Headers(s, Bank) /\ a \in Nat /\ a \in 0..(Bank - 1)
      BY <3>1, HeadersGrow, HeaderAt
    <3>3. PICK z \in Nat : z = Span(s[a]) /\ z >= 1 /\ SizeOf(s[a]) \in Nat
      BY <3>1, HeaderAt
    <3>4. a + z <= addr
      BY <3>2, <3>3 DEF Slot
    <3>5. t[a] = s[a]
      BY <1>2, <1>5, <3>2, <3>3, <3>4
    <3>6. ASSUME NEW i \in 1..SizeOf(s[a]), i < z PROVE t[a + i] = s[a + i]
      <4>1. i \in Nat /\ a + i < addr
        BY <1>2, <3>2, <3>3, <3>4, <3>6
      <4>2. a + i \in 0..(Bank - 1) /\ a + i # addr
        BY <1>2, <3>2, <4>1, Sizes
      <4> QED BY <1>5, <4>2
    <3> QED BY <3>3, <3>5, <3>6
  <2>2. Headers(t, Bank - 1) = Headers(s, Bank - 1) \cup {addr}
    BY <1>4
  <2>3. Found(t, id) = Found(s, id)
    <3>1. addr \notin Found(t, id)
      BY <1>1, <1>5, <1>6 DEF Found
    <3>2. addr \notin Headers(s, Bank - 1)
      <4>1. s[addr] = Free
        BY <1>2, Sizes DEF Slot
      <4>2. Bank - 1 \in 2..Bank
        BY Sizes
      <4> QED BY <4>1, <4>2, HeaderAt
    <3> QED BY <2>1, <2>2, <3>1, <3>2 DEF Found
  <2>4. ASSUME NEW a \in Found(s, id)
        PROVE  t[a] = s[a] /\ \A i \in 1..SizeOf(s[a]) : t[a + i] = s[a + i]
    <3>1. PICK z \in Nat : z = SizeOf(s[a]) /\ Span(s[a]) = z + 1
      BY FoundAt
    <3>2. \A i \in 1..z : i < z + 1
      OBVIOUS
    <3> QED BY <2>1, <3>1, <3>2, FoundAt
  <2> QED BY <1>4, <2>3, <2>4, ReadSame
<1> QED BY <1>1, <1>4, <1>5, <1>6

\* A word of the data of the last object leaves the others alone.
LEMMA DataKeepsOthers ==
  ASSUME NEW s \in Sector, NEW addr \in Headers(s, Bank),
         \A p \in Headers(s, Bank) : p = addr \/ p + Span(s[p]) <= addr,
         NEW x \in 0..(Bank - 1), addr < x, x < addr + Span(s[addr]),
         NEW w \in 0..Free, NEW t, t = Put(s, x, w)
  PROVE  /\ t \in Sector
         /\ \A end \in {Bank - 1, Bank} : Headers(t, end) = Headers(s, end)
         /\ \A id : id # IdOf(s[addr]) => ReadObj(t, id) = ReadObj(s, id)
<1>1. Bank \in 2..Bank /\ Bank - 1 \in 2..Bank /\ Bank - 1 <= Bank
  BY Sizes
<1>2. addr \in Nat /\ addr >= 1 /\ Span(s[addr]) \in Nat
  BY <1>1, HeaderAt
<1>3. x \in Nat /\ x # 1
  BY <1>2, Sizes
<1>4. ASSUME NEW p \in Headers(s, Bank) PROVE p # x /\ p + Span(s[p]) # x
  <2>1. p \in Nat /\ Span(s[p]) \in Nat /\ Span(s[p]) >= 1
    BY <1>1, HeaderAt
  <2>2. CASE p = addr
    BY <1>2, <1>3, <2>2
  <2>3. CASE p + Span(s[p]) <= addr
    BY <1>2, <1>3, <2>1, <2>3
  <2> QED BY <2>2, <2>3
<1>5. Headers(s, Bank - 1) \subseteq Headers(s, Bank)
  BY <1>1, HeadersGrow
<1>6. t \in Sector /\ Headers(t, Bank) = Headers(s, Bank)
  BY <1>1, <1>3, <1>4, HeadersSame
<1>7. Headers(t, Bank - 1) = Headers(s, Bank - 1)
  BY <1>1, <1>3, <1>4, <1>5, HeadersSame
<1>8. \A a \in 0..(Bank - 1) : a # x => t[a] = s[a]
  BY DEF Sector, Put
<1>9. ASSUME NEW id, id # IdOf(s[addr]) PROVE ReadObj(t, id) = ReadObj(s, id)
  <2>1. \A a \in Headers(s, Bank - 1) : t[a] = s[a]
    <3> SUFFICES ASSUME NEW a \in Headers(s, Bank - 1) PROVE t[a] = s[a]
      OBVIOUS
    <3>1. a \in 0..(Bank - 1)
      BY <1>1, HeaderAt
    <3> QED BY <1>4, <1>5, <1>8, <3>1
  <2>2. Found(t, id) = Found(s, id)
    BY <1>7, <2>1 DEF Found
  <2>3. ASSUME NEW a \in Found(s, id), NEW i \in 1..SizeOf(s[a]) PROVE t[a + i] = s[a + i]
    <3>1. /\ a \in Headers(s, Bank) /\ a \in Nat /\ a # addr
          /\ SizeOf(s[a]) \in Nat /\ Span(s[a]) = SizeOf(s[a]) + 1
      BY <1>9, FoundAt
    <3>2. a + Span(s[a]) <= addr
      BY <3>1
    <3>3. PICK z \in Nat : z = SizeOf(s[a]) /\ a + (z + 1) <= addr /\ i <= z /\ i \in Nat
      BY <3>1, <3>2
    <3>4. a + i \in 0..(Bank - 1) /\ a + i # x
      BY <1>2, <1>3, <3>1, <3>3, Sizes
    <3> QED BY <1>8, <3>4
  <2>4. \A a \in Found(s, id) : t[a] = s[a]
    BY <2>1, FoundAt
  <2> QED BY <1>6, <2>2, <2>3, <2>4, ReadSame
<1> QED BY <1>6, <1>7, <1>9

\* The segment number is no part of the log.
LEMMA NumberKeeps ==
  ASSUME NEW s \in Sector, LogTail(s), NEW w \in 0..Free, NEW t, t = Put(s, 0, w)
  PROVE  t \in Sector /\ LogTail(t) /\ \A id : ReadObj(t, id) = ReadObj(s, id)
<1>1. Bank \in 2..Bank /\ Bank - 1 \in 2..Bank /\ 0 \in 0..(Bank - 1) /\ 0 # 1
  BY Sizes
<1>2. \A a \in 0..(Bank - 1) : a # 0 => t[a] = s[a]
  BY DEF Sector, Put
<1>3. ASSUME NEW end \in 2..Bank, NEW p \in Headers(s, end)
      PROVE  p # 0 /\ p + Span(s[p]) # 0 /\ t[p] = s[p]
  <2>1. p \in Nat /\ p >= 1 /\ Span(s[p]) \in Nat /\ p \in 0..(Bank - 1)
    BY HeaderAt
  <2>2. p # 0 /\ p + Span(s[p]) # 0
    BY <2>1
  <2> QED BY <1>2, <2>1, <2>2
<1>4. ASSUME NEW end \in 2..Bank PROVE t \in Sector /\ Headers(t, end) = Headers(s, end)
  BY <1>1, <1>3, HeadersSame
<1>5. LogTail(t)
  <2>1. \A p \in Headers(t, Bank) : p + Span(t[p]) < Bank
    BY <1>1, <1>3, <1>4 DEF LogTail
  <2>2. ASSUME NEW a \in 1..(Bank - 1), \A p \in Headers(t, Bank) : p + Span(t[p]) <= a
        PROVE  t[a] = Free
    <3>1. a \in 0..(Bank - 1) /\ a # 0
      BY Sizes
    <3>2. \A p \in Headers(s, Bank) : p + Span(s[p]) <= a
      BY <1>1, <1>3, <1>4, <2>2
    <3> QED BY <1>2, <3>1, <3>2 DEF LogTail
  <2> QED BY <2>1, <2>2 DEF LogTail
<1>6. ASSUME NEW id PROVE ReadObj(t, id) = ReadObj(s, id)
  <2>1. Found(t, id) = Found(s, id)
    BY <1>1, <1>3, <1>4 DEF Found
  <2>2. ASSUME NEW a \in Found(s, id), NEW i \in 1..SizeOf(s[a]) PROVE t[a + i] = s[a + i]
    <3>1. /\ a \in Headers(s, Bank) /\ a \in Nat /\ SizeOf(s[a]) \in Nat
          /\ Span(s[a]) = SizeOf(s[a]) + 1
      BY FoundAt
    <3>2. a + Span(s[a]) < Bank
      BY <3>1 DEF LogTail
    <3>3. PICK z \in Nat : z = SizeOf(s[a]) /\ a + (z + 1) < Bank /\ i \in 1..z
      BY <3>1, <3>2
    <3>4. a + i \in 0..(Bank - 1) /\ a + i # 0
      BY <3>1, <3>3, Sizes
    <3> QED BY <1>2, <3>4
  <2>3. \A a \in Found(s, id) : t[a] = s[a]
    BY <1>1, <1>3, FoundAt
  <2> QED BY <1>1, <1>4, <2>1, <2>2, <2>3, ReadSame
<1> QED BY <1>1, <1>4, <1>5, <1>6

---------------------------------------------------------------------------
(* The inductive invariant.                                                *)

\* The contents of the current sector.
Live == flash[Current]

Types ==
  /\ flash \in [Banks -> Sector]
  /\ pc \in {"idle", "start", "copy", "place", "head", "data"}
  /\ op \in [id : Ids \cup {-1}, data : Object] /\ (pc # "idle" => op.id \in Ids)
  /\ at \in [bank : Banks, addr : 0..(Bank - 1)]
  /\ k \in 0..MaxObj /\ scan \in 0..(Bank + MaxObj) /\ stray \in BOOLEAN
  /\ doubt \in SUBSET [id : Ids, data : Object] /\ last \in Ids \cup {-1}
  /\ stored \in [Ids -> Object \cup {None}] /\ writes \in 0..Writes

\* The segment numbers: each call packs once at most, and a sector that is not
\* current is blank or was so before the last pack.
NumbersInv ==
  /\ pc # "idle" => writes < Writes
  /\ Blank => pc \in {"idle", "start"}
  /\ ~ Blank =>
       /\ Live[0] + (Writes - writes) + (IF pc \in {"start", "copy"} THEN 0 ELSE 1) >= Free
       /\ flash[1 - Current][0] \in {Free, Live[0] + 1}

\* The current sector is a log, even where a save was cut short.
LogInv == LogTail(Live)

\* The new sector holds one word at most, and the old one is scanned by headers.
CopyInv ==
  pc = "copy" =>
    /\ at.bank = 1 - Current /\ at.addr = 1
    /\ flash[at.bank][0] = Free
    /\ \A a \in 2..(Bank - 1) : flash[at.bank][a] = Free
    /\ scan < Bank - 2 /\ Live[scan] # Free => scan \in Headers(Live, Bank - 1)

PlaceInv ==
  pc = "place" => at.bank = Current /\ \A a \in 2..(Bank - 1) : Live[a] = Free

HeadInv ==
  pc = "head" =>
    at.bank = Current /\ Slot(Live, at.addr) /\ at.addr + Len(op.data) + 1 < Bank

\* The object being written is the last one, and its data are there up to k.
Written(s, addr) ==
  /\ addr + Len(op.data) + 1 < Bank
  /\ addr \in Headers(s, Bank - 1) /\ s[addr] = FobjHead(op.id, Len(op.data))
  /\ \A p \in Headers(s, Bank) : p = addr \/ p + Span(s[p]) <= addr
  /\ k <= Len(op.data)
  /\ \A i \in 1..k : s[addr + i] = op.data[i]
  /\ \A a \in (addr + k + 1)..(Bank - 1) : s[a] = Free

DataInv == pc = "data" => at.bank = Current /\ Written(Live, at.addr)

\* Until the first pack every object reads as saved, but for the one being written.
KeptInv ==
  ~ stray /\ Live[0] >= Free - 1 =>
    \A id \in Ids :
      (\A d \in doubt : d.id # id) /\ ~ (pc = "data" /\ id = op.id) => Lookup(id) = stored[id]

BeforeInv == pc \in {"start", "copy"} => \A id \in Ids : Lookup(id) = before[id]

IInv ==
  /\ Types /\ NumbersInv /\ LogInv
  /\ CopyInv /\ PlaceInv /\ HeadInv /\ DataInv
  /\ KeptInv /\ BeforeInv /\ LastSaveReadable

\* An object has a length, and its words are words.
LEMMA ObjectIs ==
  ASSUME NEW d \in Object
  PROVE  Len(d) \in 0..MaxObj /\ d \in [1..Len(d) -> Values]
<1>1. PICK n \in 0..MaxObj : d \in [1..n -> Values]
  BY DEF Object
<1>2. n \in Nat
  BY Sizes
<1>3. d \in Seq(Values) /\ Len(d) = n
  BY <1>1, <1>2
<1> QED BY <1>1, <1>3

\* The current sector is one of the two.
LEMMA CurrentIs == Current \in Banks /\ 1 - Current \in Banks /\ 1 - Current # Current
  BY DEF Current, Banks

\* What programming a word does to the two sectors.
LEMMA ProgramIs ==
  ASSUME flash \in [Banks -> Sector], NEW b \in Banks, NEW a \in 0..(Bank - 1),
         NEW w \in 0..Free, Program(b, a, w)
  PROVE  /\ flash' \in [Banks -> Sector] /\ BitAnd(flash[b][a], w) \in 0..Free
         /\ flash'[b] = Put(flash[b], a, BitAnd(flash[b][a], w))
         /\ flash[b][a] = Free => flash'[b] = Put(flash[b], a, w)
         /\ \A c \in Banks : c # b => flash'[c] = flash[c]
<1>1. flash[b] \in Sector /\ flash[b][a] \in 0..Free
  BY DEF Sector
<1>2. BitAnd(flash[b][a], w) \in 0..Free /\ (flash[b][a] = Free => BitAnd(flash[b][a], w) = w)
  <2>1. Free \in 0..Free
    BY Sizes
  <2> QED BY <1>1, <2>1, AndAssumption
<1>3. flash' = [flash EXCEPT ![b] = Put(flash[b], a, BitAnd(flash[b][a], w))]
  BY DEF Program, Put
<1>4. Put(flash[b], a, BitAnd(flash[b][a], w)) \in Sector
  BY <1>1, <1>2 DEF Put, Sector
<1> QED BY <1>2, <1>3, <1>4

\* Which sector is current depends on the two numbers alone.
LEMMA CurrentSame ==
  ASSUME \A b \in Banks : flash'[b][0] = flash[b][0]
  PROVE  Current' = Current /\ Blank' = Blank
  BY DEF Current, Blank, Banks

\* The types are those that the runs check.
LEMMA TypesImply == IInv => TypeOK
<1> SUFFICES ASSUME IInv PROVE TypeOK
  OBVIOUS
<1>1. pc \in {"head", "data"} => at.addr + Len(op.data) < Bank
  <2> SUFFICES ASSUME pc \in {"head", "data"} PROVE at.addr + Len(op.data) < Bank
    OBVIOUS
  <2>1. at.addr + Len(op.data) + 1 < Bank
    BY DEF IInv, HeadInv, DataInv, Written
  <2>2. PICK z \in Nat : z = Len(op.data)
    BY ObjectIs, Sizes DEF IInv, Types
  <2>3. at.addr \in Nat
    BY Sizes DEF IInv, Types
  <2> QED BY <2>1, <2>2, <2>3, Sizes
<1> QED BY <1>1 DEF IInv, Types, TypeOK, Sector

---------------------------------------------------------------------------
(* The steps.                                                              *)

\* Two erased sectors.
LEMMA InitInv == Init => IInv
<1> SUFFICES ASSUME Init PROVE IInv
  OBVIOUS
<1>1. Free \in 0..Free /\ 0 \in 0..(Bank - 1) /\ 0 \in 0..MaxObj /\ 0 \in 0..(Bank + MaxObj)
  BY Sizes
<1>2. flash \in [Banks -> Sector] /\ \A b \in Banks : \A a \in 0..(Bank - 1) : flash[b][a] = Free
  BY <1>1 DEF Init, Sector
<1>3. Current = 0 /\ Blank /\ Live = flash[0] /\ Live \in Sector
  <2>1. flash[0][0] = Free /\ flash[1][0] = Free
    BY <1>1, <1>2 DEF Banks
  <2>2. ~ (Free < Free)
    BY Sizes
  <2> QED BY <1>1, <1>2, <2>1, <2>2 DEF Current, Blank, Live, Banks
<1>4. Types
  <2>1. <<>> \in Object
    <3>1. <<>> \in [1..0 -> Values]
      OBVIOUS
    <3> QED BY <1>1, <3>1 DEF Object
  <2>2. writes \in 0..Writes
    <3>1. Writes \in Nat
      BY FlashAssumption, Sizes
    <3> QED BY <3>1 DEF Init
  <2> QED BY <1>1, <1>2, <2>1, <2>2 DEF Init, Types, Banks
<1>5. LogInv
  <2>1. \A a \in 2..(Bank - 1) : Live[a] = Free
    <3>1. \A a \in 2..(Bank - 1) : a \in 0..(Bank - 1)
      BY Sizes
    <3> QED BY <1>2, <1>3, <3>1 DEF Banks
  <2> QED BY <1>3, <2>1, PackedTail DEF LogInv
<1>6. KeptInv
  <2>1. \A id : Lookup(id) = None
    <3>1. Headers(Live, Bank - 1) = {}
      <4> SUFFICES ASSUME NEW p \in Headers(Live, Bank - 1) PROVE FALSE
        OBVIOUS
      <4>1. Bank - 1 \in 2..Bank
        BY Sizes
      <4>2. p \in 0..(Bank - 1) /\ Live[p] # Free
        BY <1>3, <4>1, HeaderAt
      <4> QED BY <1>2, <1>3, <4>2 DEF Banks
    <3> QED BY <3>1 DEF Lookup, Live, ReadObj, Find, Found
  <2> QED BY <2>1 DEF KeptInv, Init
<1>7. NumbersInv
  BY <1>3 DEF NumbersInv, Init
<1> QED
  BY <1>4, <1>5, <1>6, <1>7 DEF Init, IInv, CopyInv, PlaceInv, HeadInv, DataInv, BeforeInv,
     LastSaveReadable

\* A call begins.
LEMMA WriteCfgInv ==
  ASSUME IInv, NEW id \in Ids, NEW data \in Object, WriteCfg(id, data)
  PROVE  IInv'
<1>1. /\ flash' = flash /\ Current' = Current /\ Live' = Live /\ Blank' = Blank
      /\ \A i : Lookup(i)' = Lookup(i)
  BY DEF WriteCfg, Current, Live, Blank, Lookup
<1>2. Types' /\ writes' \in Nat /\ writes' + 1 = writes
  <2>1. Writes \in Nat
    BY FlashAssumption, Sizes
  <2>2. writes' \in 0..Writes /\ writes' \in Nat /\ writes' + 1 = writes
    BY <2>1 DEF WriteCfg, IInv, Types
  <2> QED BY <2>2 DEF WriteCfg, Step, IInv, Types, hist
<1>3. NumbersInv'
  <2>0. writes' < Writes
    <3>1. PICK w \in Nat : w = Writes /\ writes \in 0..w
      BY FlashAssumption, Sizes DEF IInv, Types
    <3>2. PICK m \in Nat : m = writes' /\ m + 1 = writes
      BY <1>2
    <3>3. m < w
      <4>1. m + 1 \in 0..w
        BY <3>1, <3>2
      <4> QED BY <4>1
    <3> QED BY <3>1, <3>2, <3>3
  <2> SUFFICES ASSUME ~ Blank
               PROVE  /\ Live[0] + (Writes - writes') + 0 >= Free
                      /\ flash[1 - Current][0] \in {Free, Live[0] + 1}
    BY <1>1, <2>0 DEF NumbersInv, WriteCfg, Step
  <2>1. /\ Live[0] + (Writes - writes) + 1 >= Free
        /\ flash[1 - Current][0] \in {Free, Live[0] + 1}
    BY DEF IInv, NumbersInv, WriteCfg, Step
  <2>2. Writes \in Nat /\ Live[0] \in Nat
    BY CurrentIs, FlashAssumption, Sizes DEF IInv, Types, Sector, Live
  <2> QED BY <1>2, <2>1, <2>2, Sizes
<1>4. KeptInv'
  BY <1>1 DEF IInv, KeptInv, WriteCfg, Step, hist
<1>5. BeforeInv'
  BY <1>1 DEF BeforeInv, WriteCfg
<1> QED
  BY <1>1, <1>2, <1>3, <1>4, <1>5 DEF IInv, LogInv, CopyInv, PlaceInv, HeadInv, DataInv,
     LastSaveReadable, WriteCfg, Step

\* The first sector gets its number.
LEMMA FormatInv ==
  ASSUME IInv, Format
  PROVE  IInv'
<1>1. flash \in [Banks -> Sector] /\ Blank /\ 0 \in Banks /\ 1 \in Banks /\ 0 \in 0..(Bank - 1)
  BY Sizes DEF Format, IInv, Types, Banks
<1>2. flash[0][0] = Free /\ flash[1][0] = Free /\ Free - 1 \in 0..Free /\ Free - 1 < Free
      /\ ~ (Free < Free) /\ ~ (Free < Free - 1)
  BY <1>1, Sizes DEF Blank
<1>3. flash' \in [Banks -> Sector] /\ flash'[0] = Put(flash[0], 0, Free - 1) /\ flash'[1] = flash[1]
  BY <1>1, <1>2, ProgramIs DEF Format
<1>4. flash'[0][0] = Free - 1 /\ flash'[1][0] = Free
  BY <1>1, <1>2, <1>3 DEF Put, Sector
<1>5. Current = 0 /\ Current' = 0 /\ ~ Blank' /\ Live = flash[0] /\ Live' = flash'[0]
  <2>1. Free - 1 # Free
    BY Sizes
  <2> QED BY <1>1, <1>2, <1>4, <2>1 DEF Current, Blank, Live
<1>6. LogTail(Live') /\ \A id : Lookup(id)' = Lookup(id)
  <2>1. flash[0] \in Sector /\ LogTail(flash[0])
    BY <1>1, <1>5 DEF IInv, LogInv
  <2>2. LogTail(flash'[0]) /\ \A id : ReadObj(flash'[0], id) = ReadObj(flash[0], id)
    BY <1>2, <1>3, <2>1, NumberKeeps
  <2> QED BY <1>5, <2>2 DEF Lookup, Live
<1>7. Types'
  BY <1>3 DEF Format, IInv, Types, job, hist, left
<1>8. NumbersInv'
  <2>1. PICK n \in Nat : n = Writes - writes' /\ (pc' # "idle" => n >= 1)
    <3>1. writes' = writes /\ pc' = pc /\ writes \in 0..Writes /\ Writes \in Nat
      BY FlashAssumption, Sizes DEF Format, left, IInv, Types
    <3>2. pc # "idle" => writes < Writes
      BY DEF IInv, NumbersInv
    <3> QED BY <3>1, <3>2
  <2>2. Live'[0] + n + 1 >= Free /\ (pc' # "idle" => Live'[0] + n + 0 >= Free)
    BY <1>4, <1>5, <2>1, Sizes
  <2>3. flash'[1 - Current'][0] = Free
    BY <1>4, <1>5
  <2>4. pc' # "idle" => writes' < Writes
    BY DEF Format, left, IInv, NumbersInv
  <2> QED BY <1>5, <2>1, <2>2, <2>3, <2>4 DEF NumbersInv
<1>9. KeptInv'
  <2>1. ~ stray => \A id \in Ids : (\A d \in doubt : d.id # id) => Lookup(id) = stored[id]
    <3>1. Live[0] >= Free - 1
      BY <1>2, <1>5, Sizes
    <3> QED BY <3>1 DEF IInv, KeptInv, Format
  <2> QED BY <1>6, <2>1 DEF KeptInv, Format, hist
<1>10. BeforeInv' /\ LastSaveReadable'
  BY <1>6 DEF Format, hist, IInv, BeforeInv, LastSaveReadable
<1>11. CopyInv' /\ PlaceInv' /\ HeadInv' /\ DataInv'
  BY DEF Format, CopyInv, PlaceInv, HeadInv, DataInv
<1> QED BY <1>6, <1>7, <1>8, <1>9, <1>10, <1>11 DEF IInv, LogInv

\* Steps that leave the flash alone leave what is read alone.
LEMMA FlashSame ==
  ASSUME flash' = flash
  PROVE  /\ Current' = Current /\ Live' = Live /\ Blank' = Blank
         /\ \A id : Lookup(id)' = Lookup(id)
  BY DEF Current, Live, Blank, Lookup

\* The current sector while a call is under way.
LEMMA LiveIs ==
  ASSUME IInv
  PROVE  Live \in Sector /\ LogTail(Live) /\ Live[0] \in Nat /\ Live[0] <= Free
<1>1. Live \in Sector /\ LogTail(Live)
  BY CurrentIs DEF IInv, Types, LogInv, Live
<1>2. 0 \in 0..(Bank - 1)
  BY Sizes
<1> QED BY <1>1, <1>2, Sizes DEF Sector

\* A call that changes neither sector numbers nor budget.
LEMMA NumbersKept ==
  ASSUME IInv, \A b \in Banks : flash'[b][0] = flash[b][0], writes' = writes,
         ~ Blank, pc # "idle", pc' \in {"start", "copy"} => pc \in {"start", "copy"}
  PROVE  NumbersInv'
<1>1. Current' = Current /\ Blank' = Blank
  BY CurrentSame
<1>2. Live'[0] = Live[0] /\ flash'[1 - Current'][0] = flash[1 - Current][0]
  BY <1>1, CurrentIs DEF Live
<1>3. Writes \in Nat /\ Live[0] \in Nat /\ writes \in Nat /\ writes < Writes
  BY LiveIs, FlashAssumption, Sizes DEF IInv, Types, NumbersInv
<1>4. /\ Live[0] + (Writes - writes) + (IF pc \in {"start", "copy"} THEN 0 ELSE 1) >= Free
      /\ flash[1 - Current][0] \in {Free, Live[0] + 1}
  BY DEF IInv, NumbersInv
<1>5. Live[0] + (Writes - writes) + (IF pc' \in {"start", "copy"} THEN 0 ELSE 1) >= Free
  BY <1>3, <1>4, Sizes
<1> QED BY <1>1, <1>2, <1>3, <1>4, <1>5 DEF NumbersInv

\* The object is there already.
LEMMA IdenticalInv ==
  ASSUME IInv, Identical
  PROVE  IInv'
<1>1. flash' = flash /\ pc = "start" /\ pc' = "idle" /\ op.id \in Ids /\ op.data \in Object
  BY DEF Identical, Step, IInv, Types
<1>2. stored' = [stored EXCEPT ![op.id] = op.data] /\ Lookup(op.id) = op.data /\ last' = op.id
  BY DEF Identical, Done
<1>3. Types'
  BY <1>1, <1>2 DEF Identical, Done, IInv, Types, job, left
<1>4. NumbersInv'
  BY <1>1, NumbersKept DEF Identical, left
<1>5. KeptInv'
  <2> SUFFICES ASSUME ~ stray, Live[0] >= Free - 1, NEW id \in Ids, \A d \in doubt' : d.id # id
               PROVE  Lookup(id) = stored'[id]
    BY <1>1, FlashSame DEF KeptInv, Identical
  <2>1. CASE id = op.id
    BY <1>1, <1>2, <2>1 DEF IInv, Types
  <2>2. CASE id # op.id
    <3>1. \A d \in doubt : d.id # id
      BY <2>2 DEF Identical, Done
    <3> QED BY <1>1, <1>2, <2>2, <3>1 DEF IInv, KeptInv, Types
  <2> QED BY <2>1, <2>2
<1>6. LastSaveReadable'
  <2>1. PICK id \in Ids : id = op.id
    BY <1>1
  <2>2. ReadObj(flash'[Current'], id) = op.data /\ stored'[id] = op.data /\ last' = id
    BY <1>1, <1>2, <2>1, FlashSame DEF IInv, Types, Lookup
  <2> QED BY <2>2 DEF LastSaveReadable, Lookup
<1>7. CopyInv' /\ PlaceInv' /\ HeadInv' /\ DataInv' /\ BeforeInv'
  BY <1>1 DEF CopyInv, PlaceInv, HeadInv, DataInv, BeforeInv
<1>8. LogInv'
  BY <1>1, FlashSame DEF IInv, LogInv
<1> QED BY <1>3, <1>4, <1>5, <1>6, <1>7, <1>8 DEF IInv

\* The place for the object is found in the current sector.
LEMMA AppendObjInv ==
  ASSUME IInv, AppendObj
  PROVE  IInv'
<1> DEFINE addr == SaveAddr(Live, Len(op.data))
<1>1. flash' = flash /\ pc = "start" /\ pc' = "head" /\ op.data \in Object /\ ~ Blank
  BY DEF AppendObj, Step, IInv, Types
<1>2. addr \in Nat /\ addr + Len(op.data) + 1 < Bank /\ Slot(Live, addr)
  <2>1. addr # 0
    BY DEF AppendObj, Live
  <2> QED BY <1>1, <2>1, LiveIs, ObjectIs, SaveSlot
<1>3. at' = [bank |-> Current, addr |-> addr] /\ addr \in 0..(Bank - 1)
  <2>1. PICK z \in Nat : z = Len(op.data)
    BY <1>1, ObjectIs, Sizes
  <2> QED BY <1>2, <2>1, Sizes DEF AppendObj, Live
<1> HIDE DEF addr
<1>4. Types'
  BY <1>1, <1>3, CurrentIs DEF AppendObj, IInv, Types, hist, left
<1>5. NumbersInv'
  BY <1>1, NumbersKept DEF AppendObj, left
<1>6. HeadInv'
  BY <1>1, <1>2, <1>3, FlashSame DEF HeadInv, AppendObj
<1>7. KeptInv'
  BY <1>1, FlashSame DEF KeptInv, IInv, AppendObj, hist
<1>8. CopyInv' /\ PlaceInv' /\ DataInv' /\ BeforeInv' /\ LastSaveReadable'
  BY <1>1 DEF CopyInv, PlaceInv, DataInv, BeforeInv, LastSaveReadable
<1>9. LogInv'
  BY <1>1, FlashSame DEF IInv, LogInv
<1> QED BY <1>4, <1>5, <1>6, <1>7, <1>8, <1>9 DEF IInv

\* Segment numbers are words.
LEMMA MarkRange ==
  ASSUME IInv, NEW b \in Banks
  PROVE  flash[b] \in Sector /\ flash[b][0] \in Nat /\ flash[b][0] <= Free
<1>1. flash[b] \in Sector /\ 0 \in 0..(Bank - 1)
  BY Sizes DEF IInv, Types
<1>2. flash[b][0] \in 0..Free
  BY <1>1 DEF Sector
<1> QED BY <1>1, <1>2, Sizes

\* The sector that pack_cfg_fmem takes is the other one.
LEMMA NextBankIs ==
  ASSUME IInv, ~ Blank
  PROVE  NextBank = 1 - Current
<1>1. Live[0] \in Nat /\ Live[0] <= Free /\ flash[1 - Current][0] \in {Free, Live[0] + 1}
  BY LiveIs DEF IInv, NumbersInv
<1>2. CASE Current = 0
  <2>1. Live[0] = flash[0][0] /\ flash[1][0] \in {Free, Live[0] + 1}
    BY <1>1, <1>2 DEF Live
  <2>2. flash[1][0] > flash[0][0] \/ flash[1][0] = Free
    <3>1. PICK n \in Nat : n = flash[0][0]
      BY <1>1, <2>1
    <3>2. flash[1][0] = Free \/ flash[1][0] = n + 1
      BY <2>1, <3>1
    <3> QED BY <3>1, <3>2
  <2> QED BY <1>2, <2>2 DEF NextBank
<1>3. CASE Current = 1
  <2>1. Live[0] = flash[1][0] /\ flash[1][0] < flash[0][0] /\ flash[0][0] \in {Free, Live[0] + 1}
    BY <1>1, <1>3 DEF Live, Current
  <2>2. ~ (flash[1][0] > flash[0][0]) /\ flash[1][0] # Free
    <3>1. PICK n \in Nat : n = flash[1][0] /\ n <= Free
      BY <1>1, <2>1
    <3>2. PICK m \in Nat : m = flash[0][0] /\ m <= Free
      BY MarkRange DEF Banks
    <3> QED BY <2>1, <3>1, <3>2, Sizes
  <2> QED BY <1>3, <2>2 DEF NextBank
<1> QED BY <1>2, <1>3, CurrentIs DEF Banks

\* A pack begins: the other sector is erased.
LEMMA EraseInv ==
  ASSUME IInv, Erase
  PROVE  IInv'
<1>1. /\ flash \in [Banks -> Sector] /\ pc = "start" /\ pc' = "copy" /\ ~ Blank
      /\ op.id \in Ids /\ Free \in 0..Free /\ 0 \in 0..(Bank - 1) /\ 1 \in 0..(Bank - 1)
      /\ 1 \in 0..(Bank + MaxObj)
  BY Sizes DEF Erase, PackNeeded, Step, IInv, Types
<1>2. PICK new \in Banks : new = 1 - Current /\ new # Current /\ new = NextBank
  BY <1>1, CurrentIs, NextBankIs
<1>3. /\ flash' \in [Banks -> Sector] /\ flash'[Current] = flash[Current]
      /\ \A a \in 0..(Bank - 1) : flash'[new][a] = Free
  BY <1>1, <1>2, CurrentIs DEF Erase, Sector
<1>4. at' = [bank |-> new, addr |-> 1] /\ scan' = 1
  BY <1>2 DEF Erase
<1>5. Live[0] \in Nat /\ Live[0] <= Free /\ Live[0] # Free
  <2>1. Live[0] # Free
    <3>1. /\ flash[0][0] \in Nat /\ flash[0][0] <= Free
          /\ flash[1][0] \in Nat /\ flash[1][0] <= Free
      BY MarkRange DEF Banks
    <3>2. flash[0][0] # Free \/ flash[1][0] # Free
      BY <1>1 DEF Blank, Banks
    <3>3. CASE flash[1][0] < flash[0][0]
      <4>1. Live[0] = flash[1][0]
        BY <3>3 DEF Live, Current
      <4> QED BY <3>1, <3>3, <4>1, Sizes
    <3>4. CASE ~ (flash[1][0] < flash[0][0])
      <4>1. Live[0] = flash[0][0]
        BY <3>4 DEF Live, Current
      <4> QED BY <3>1, <3>2, <3>4, <4>1, Sizes
    <3> QED BY <3>3, <3>4
  <2> QED BY <2>1, LiveIs
<1>6. Current' = Current /\ Live' = Live /\ ~ Blank'
  <2>1. Current = 0 => flash'[0][0] = Live[0] /\ flash'[1][0] = Free
    BY <1>1, <1>2, <1>3 DEF Live
  <2>2. Current = 1 => flash'[1][0] = Live[0] /\ flash'[0][0] = Free
    BY <1>1, <1>2, <1>3 DEF Live
  <2>3. Current' = Current
    <3>1. Live[0] < Free /\ ~ (Free < Live[0])
      BY <1>5, Sizes
    <3> QED BY <2>1, <2>2, <3>1, CurrentIs DEF Current, Banks
  <2> QED BY <1>2, <1>3, <1>5, <2>1, <2>2, <2>3, CurrentIs DEF Live, Blank, Banks
<1>7. \A id : Lookup(id)' = Lookup(id)
  BY <1>6 DEF Lookup, Live
<1>8. Types'
  BY <1>1, <1>3, <1>4 DEF Erase, IInv, Types, hist, left
<1>9. NumbersInv'
  <2>1. flash'[1 - Current'][0] = Free
    BY <1>1, <1>2, <1>3, <1>6
  <2>2. Live'[0] + (Writes - writes') + 0 >= Free /\ writes' < Writes
    BY <1>1, <1>6 DEF Erase, left, IInv, NumbersInv
  <2> QED BY <1>1, <1>6, <2>1, <2>2 DEF NumbersInv
<1>10. CopyInv'
  <2>1. \A a \in 2..(Bank - 1) : a \in 0..(Bank - 1)
    BY Sizes
  <2>2. Live[1] # Free => 1 \in Headers(Live, Bank - 1)
    <3>1. Bank - 1 \in 2..Bank
      BY Sizes
    <3> QED BY <3>1, LiveIs, HeadersClosed
  <2> QED BY <1>1, <1>2, <1>3, <1>4, <1>6, <2>1, <2>2 DEF CopyInv
<1>11. KeptInv'
  BY <1>1, <1>6, <1>7 DEF KeptInv, IInv, Erase, hist
<1>12. BeforeInv'
  BY <1>1, <1>7 DEF BeforeInv, IInv, Erase
<1>13. PlaceInv' /\ HeadInv' /\ DataInv' /\ LastSaveReadable'
  BY <1>1 DEF PlaceInv, HeadInv, DataInv, LastSaveReadable
<1> QED BY <1>6, <1>8, <1>9, <1>10, <1>11, <1>12, <1>13 DEF IInv, LogInv

\* A pack gets no memory.
LEMMA PackNoMemoryInv ==
  ASSUME IInv, PackNoMemory
  PROVE  IInv'
<1>1. flash' = flash /\ pc = "start" /\ pc' = "idle" /\ op.id \in Ids /\ op.data \in Object
      /\ stray' /\ stray' \in BOOLEAN /\ ~ Blank
  BY DEF PackNoMemory, PackNeeded, Step, IInv, Types
<1>2. Types'
  BY <1>1 DEF PackNoMemory, Done, IInv, Types, job
<1>3. NumbersInv'
  BY <1>1, NumbersKept DEF PackNoMemory
<1>4. CopyInv' /\ PlaceInv' /\ HeadInv' /\ DataInv' /\ BeforeInv' /\ KeptInv' /\ LastSaveReadable'
  BY <1>1 DEF CopyInv, PlaceInv, HeadInv, DataInv, BeforeInv, KeptInv, LastSaveReadable
<1>5. LogInv'
  BY <1>1, FlashSame DEF IInv, LogInv
<1> QED BY <1>2, <1>3, <1>4, <1>5 DEF IInv

\* The words that a copy reads are words, even past the end of the sector.
LEMMA WordAtIs ==
  ASSUME flash \in [Banks -> Sector], NEW b \in Banks, NEW from \in 0..(Bank - 2),
         NEW i \in 0..MaxObj, NEW x \in Values
  PROVE  WordAt(b, from + i, x) \in 0..Free
<1>1. PICK n \in Nat : n = from + i /\ n < Bank + MaxObj
  BY Sizes
<1>2. flash[b] \in Sector /\ flash[1] \in Sector
  BY DEF Banks
<1>3. CASE n < Bank
  <2>1. n \in 0..(Bank - 1) /\ ~ (n >= Bank)
    BY <1>1, <1>3, Sizes
  <2>2. WordAt(b, n, x) = flash[b][n]
    BY <1>3, <2>1 DEF WordAt
  <2> QED BY <1>1, <1>2, <2>1, <2>2 DEF Sector
<1>4. CASE ~ (n < Bank)
  <2>1. n >= Bank /\ n - Bank \in 0..(Bank - 1)
    BY <1>1, <1>4, Sizes
  <2>2. CASE b = 0
    <3>1. WordAt(b, n, x) = flash[1][n - Bank]
      BY <1>4, <2>1, <2>2 DEF WordAt
    <3> QED BY <1>1, <1>2, <2>1, <3>1 DEF Sector
  <2>3. CASE b = 1
    <3>1. WordAt(b, n, x) = x
      BY <1>4, <2>1, <2>3 DEF WordAt
    <3> QED BY <1>1, <3>1, FlashAssumption
  <2> QED BY <2>2, <2>3 DEF Banks
<1> QED BY <1>3, <1>4

\* What they leave in one place is a word.
LEMMA OverlaidIs ==
  ASSUME flash \in [Banks -> Sector], at.bank \in Banks, NEW from \in 0..(Bank - 2),
         NEW size \in 1..(MaxObj + 1), NEW x \in Values
  PROVE  Overlaid(from, size, x) \in 0..Free
<1> DEFINE V(i) == WordAt(OldBank, from + i, x)
           Upto(f, n) == f = [i \in 0..n |-> BitAnd(V(i), IF i = 0 THEN Free ELSE f[i - 1])]
<1>1. \A i \in 0..MaxObj : V(i) \in 0..Free
  <2>1. OldBank \in Banks
    BY DEF OldBank, Banks
  <2> QED BY <2>1, WordAtIs
<1> HIDE DEF V
<1>2. \A n \in 0..MaxObj : \E f : Upto(f, n)
  <2> SUFFICES ASSUME NEW n0 \in 0..MaxObj, ~ \E f : Upto(f, n0) PROVE FALSE
    OBVIOUS
  <2>1. PICK N \in SUBSET Nat : N = {n \in 0..MaxObj : ~ \E f : Upto(f, n)}
    <3>1. {n \in 0..MaxObj : ~ \E f : Upto(f, n)} \in SUBSET Nat
      BY Sizes
    <3> QED BY <3>1
  <2>2. PICK m \in N : \A n \in N : m <= n
    BY <2>1, Least
  <2>3. m \in 0..MaxObj /\ m \in Nat /\ ~ \E f : Upto(f, m)
    BY <2>1
  <2>4. CASE m = 0
    <3> DEFINE f == [i \in 0..0 |-> BitAnd(V(i), Free)]
    <3>1. \A i \in 0..0 : i = 0
      OBVIOUS
    <3>2. f = [i \in 0..0 |-> BitAnd(V(i), IF i = 0 THEN Free ELSE f[i - 1])]
      BY <3>1
    <3> HIDE DEF f
    <3>3. Upto(f, m)
      BY <2>4, <3>2
    <3> QED BY <2>3, <3>3
  <2>5. CASE m # 0
    <3>1. m - 1 \in Nat /\ m - 1 \in 0..MaxObj /\ ~ (m <= m - 1)
      BY <2>3, <2>5, Sizes
    <3>2. PICK f : Upto(f, m - 1)
      BY <2>1, <2>2, <3>1
    <3> DEFINE g == [i \in 0..m |-> BitAnd(V(i), IF i = 0 THEN Free ELSE f[i - 1])]
    <3>3. ASSUME NEW i \in 0..m, i # 0 PROVE g[i - 1] = f[i - 1]
      <4>1. i - 1 \in 0..(m - 1) /\ i - 1 \in 0..m
        BY <2>3, <3>3
      <4>2. f[i - 1] = BitAnd(V(i - 1), IF i - 1 = 0 THEN Free ELSE f[(i - 1) - 1])
        BY <3>2, <4>1
      <4> QED BY <4>1, <4>2
    <3>4. g = [i \in 0..m |-> BitAnd(V(i), IF i = 0 THEN Free ELSE g[i - 1])]
      BY <3>3
    <3> HIDE DEF g
    <3>5. Upto(g, m)
      BY <3>4
    <3> QED BY <2>3, <3>5
  <2> QED BY <2>4, <2>5
<1>3. PICK all : Upto(all, MaxObj) /\ Overlaid(from, size, x) = all[size - 1]
  <2> DEFINE all == CHOOSE f : Upto(f, MaxObj)
  <2>1. Overlaid(from, size, x) = all[size - 1]
    BY DEF Overlaid, V
  <2>2. MaxObj \in 0..MaxObj
    BY Sizes
  <2>3. Upto(all, MaxObj)
    BY <1>2, <2>2
  <2> QED BY <2>1, <2>3
<1>4. \A n \in 0..MaxObj : all[n] \in 0..Free
  <2> SUFFICES ASSUME NEW n0 \in 0..MaxObj, all[n0] \notin 0..Free PROVE FALSE
    OBVIOUS
  <2>1. PICK N \in SUBSET Nat : N = {n \in 0..MaxObj : all[n] \notin 0..Free}
    <3>1. {n \in 0..MaxObj : all[n] \notin 0..Free} \in SUBSET Nat
      BY Sizes
    <3> QED BY <3>1
  <2>2. PICK m \in N : \A n \in N : m <= n
    BY <2>1, Least
  <2>3. m \in 0..MaxObj /\ m \in Nat /\ all[m] \notin 0..Free
    BY <2>1
  <2>4. all[m] = BitAnd(V(m), IF m = 0 THEN Free ELSE all[m - 1])
    BY <1>3, <2>3
  <2>5. (IF m = 0 THEN Free ELSE all[m - 1]) \in 0..Free
    <3>1. CASE m = 0
      <4>1. Free \in 0..Free
        BY Sizes
      <4> QED BY <3>1, <4>1
    <3>2. CASE m # 0
      <4>1. m - 1 \in 0..MaxObj /\ m - 1 \in Nat /\ ~ (m <= m - 1)
        BY <2>3, <3>2, Sizes
      <4>2. m - 1 \notin N
        BY <2>2, <4>1
      <4> QED BY <2>1, <3>2, <4>1, <4>2
    <3> QED BY <3>1, <3>2
  <2>6. BitAnd(V(m), IF m = 0 THEN Free ELSE all[m - 1]) \in 0..Free
    BY <1>1, <2>3, <2>5, AndAssumption
  <2> QED BY <2>3, <2>4, <2>6
<1>5. size - 1 \in 0..MaxObj
  BY Sizes
<1> QED BY <1>3, <1>4, <1>5

\* Where the sectors are during a pack.
LEMMA PackingIs ==
  ASSUME IInv, pc = "copy"
  PROVE  /\ ~ Blank /\ at.bank \in Banks /\ at.bank = 1 - Current /\ at.addr = 1
         /\ OldBank = Current /\ OldBank # at.bank /\ at.addr \in 0..(Bank - 1)
<1>1. ~ Blank /\ at.bank = 1 - Current /\ at.addr = 1 /\ at.bank \in Banks
  BY DEF IInv, CopyInv, NumbersInv, Types
<1>2. OldBank = Current /\ OldBank # at.bank
  BY <1>1, CurrentIs DEF OldBank, Banks
<1> QED BY <1>1, <1>2, Sizes

\* One turn of the copy loop touches one word of the new sector.
LEMMA CopyInvariant ==
  ASSUME IInv, Copy
  PROVE  IInv'
<1>1. /\ pc = "copy" /\ pc' = "copy" /\ flash \in [Banks -> Sector]
      /\ scan \in 0..(Bank + MaxObj) /\ scan \in Nat /\ scan < Bank - 2 /\ Live[scan] # Free
  BY PackingIs, Sizes DEF Copy, Scanning, IInv, Types, Live
<1>2. /\ ~ Blank /\ at.bank \in Banks /\ at.bank = 1 - Current /\ at.addr = 1
      /\ OldBank = Current /\ OldBank # at.bank /\ at.addr \in 0..(Bank - 1)
  BY <1>1, PackingIs
<1>3. /\ scan \in Headers(Live, Bank - 1)
      /\ flash[at.bank][0] = Free
      /\ \A a \in 2..(Bank - 1) : flash[at.bank][a] = Free
  BY <1>1 DEF IInv, CopyInv
<1>4. PICK n \in Nat : n = Span(Live[scan]) /\ n >= 1 /\ n <= MaxObj + 1
  <2>1. Bank - 1 \in 2..Bank
    BY Sizes
  <2> QED BY <1>3, <2>1, LiveIs, HeaderAt
<1>5. scan' = scan + n
  BY <1>2, <1>4 DEF Copy, Live
<1>6. /\ flash' \in [Banks -> Sector] /\ flash'[Current] = flash[Current]
      /\ \A a \in 0..(Bank - 1) : a # 1 => flash'[at.bank][a] = flash[at.bank][a]
  <2>1. CASE UNCHANGED flash
    BY <1>1, <2>1
  <2>2. CASE ~ UNCHANGED flash
    <3>1. PICK x \in Values :
            Program(at.bank, at.addr,
              Overlaid(Find(flash[OldBank], IdOf(flash[OldBank][scan])), Span(flash[OldBank][scan]), x))
      BY <2>2 DEF Copy
    <3> DEFINE from == Find(flash[OldBank], IdOf(flash[OldBank][scan]))
               w == Overlaid(from, n, x)
    <3>2. from \in 0..(Bank - 2)
      BY <1>2, LiveIs, FindIs DEF Live
    <3>3. n \in 1..(MaxObj + 1)
      BY <1>4, Sizes
    <3> HIDE DEF from
    <3>4. w \in 0..Free
      BY <1>1, <1>2, <3>2, <3>3, OverlaidIs
    <3>5. Program(at.bank, at.addr, w)
      BY <1>2, <1>4, <3>1 DEF from, Live
    <3> HIDE DEF w
    <3>6. /\ flash' \in [Banks -> Sector]
          /\ flash'[at.bank] = Put(flash[at.bank], at.addr, BitAnd(flash[at.bank][at.addr], w))
          /\ \A c \in Banks : c # at.bank => flash'[c] = flash[c]
      BY <1>1, <1>2, <3>4, <3>5, ProgramIs
    <3>7. flash[at.bank] \in Sector
      BY <1>1, <1>2
    <3>8. \A a \in 0..(Bank - 1) : a # 1 => flash'[at.bank][a] = flash[at.bank][a]
      BY <1>2, <3>6, <3>7 DEF Put, Sector
    <3> QED BY <1>2, <3>6, <3>8, CurrentIs
  <2> QED BY <2>1, <2>2
<1>7. /\ \A b \in Banks : flash'[b][0] = flash[b][0]
      /\ Current' = Current /\ Live' = Live /\ \A id : Lookup(id)' = Lookup(id)
  <2>1. flash'[at.bank][0] = flash[at.bank][0]
    <3>1. 0 \in 0..(Bank - 1) /\ 0 # 1
      BY Sizes
    <3> QED BY <1>6, <3>1
  <2>2. \A b \in Banks : flash'[b][0] = flash[b][0]
    BY <1>2, <1>6, <2>1, CurrentIs DEF Banks
  <2>3. Current' = Current
    BY <2>2, CurrentSame
  <2> QED BY <1>6, <2>2, <2>3 DEF Live, Lookup
<1>8. scan' \in 0..(Bank + MaxObj)
  BY <1>1, <1>4, <1>5, Sizes
<1>9. Types'
  BY <1>1, <1>6, <1>8 DEF Copy, IInv, Types, hist, left
<1>10. NumbersInv'
  BY <1>1, <1>2, <1>7, NumbersKept DEF Copy, left
<1>11. CopyInv'
  <2>1. \A a \in 2..(Bank - 1) : flash'[at.bank][a] = Free
    <3> SUFFICES ASSUME NEW a \in 2..(Bank - 1) PROVE flash'[at.bank][a] = Free
      OBVIOUS
    <3>1. a \in 0..(Bank - 1) /\ a # 1
      BY Sizes
    <3> QED BY <1>3, <1>6, <3>1
  <2>2. scan' < Bank - 2 /\ Live[scan'] # Free => scan' \in Headers(Live, Bank - 1)
    <3> SUFFICES ASSUME scan' < Bank - 2, Live[scan'] # Free
                 PROVE  scan' \in Headers(Live, Bank - 1)
      OBVIOUS
    <3>1. scan + n < Bank - 1 /\ Bank - 1 \in 2..Bank
      BY <1>1, <1>4, <1>5, Sizes
    <3> QED BY <1>3, <1>4, <1>5, <3>1, LiveIs, HeadersClosed
  <2> QED BY <1>2, <1>3, <1>7, <2>1, <2>2 DEF CopyInv, Copy
<1>12. KeptInv' /\ BeforeInv'
  BY <1>1, <1>7 DEF KeptInv, BeforeInv, IInv, Copy, hist
<1>13. PlaceInv' /\ HeadInv' /\ DataInv' /\ LastSaveReadable'
  BY <1>1 DEF PlaceInv, HeadInv, DataInv, LastSaveReadable
<1> QED BY <1>7, <1>9, <1>10, <1>11, <1>12, <1>13 DEF IInv, LogInv

\* The new sector becomes current.
LEMMA CommitInv ==
  ASSUME IInv, Commit
  PROVE  IInv'
<1>1. pc = "copy" /\ pc' = "place" /\ flash \in [Banks -> Sector] /\ 0 \in 0..(Bank - 1)
  BY Sizes DEF Commit, Step, IInv, Types
<1>2. /\ ~ Blank /\ at.bank \in Banks /\ at.bank = 1 - Current /\ OldBank = Current /\ OldBank # at.bank
  BY <1>1, PackingIs
<1>3. /\ flash[at.bank][0] = Free /\ flash[at.bank] \in Sector
      /\ \A a \in 2..(Bank - 1) : flash[at.bank][a] = Free
  BY <1>1, <1>2 DEF IInv, CopyInv
<1>4. PICK d \in Nat : d = Writes - writes /\ d >= 1 /\ d <= Free - 1
  <2>1. PICK f \in Nat, w \in Nat : f = Free /\ w = Writes /\ w <= f - 1
    BY FlashAssumption, Sizes
  <2>2. PICK m \in Nat : m = writes /\ m < w
    <3>1. writes < Writes /\ writes \in 0..Writes
      BY <1>1 DEF IInv, NumbersInv, Types
    <3> QED BY <2>1, <3>1
  <2>3. PICK d \in Nat : d = w - m /\ d >= 1 /\ d <= f - 1
    BY <2>1, <2>2
  <2> QED BY <2>1, <2>2, <2>3
<1>5. PICK n \in Nat : n = Live[0] /\ n <= Free /\ n + d >= Free
  <2>1. Live[0] + (Writes - writes) + 0 >= Free
    BY <1>1, <1>2 DEF IInv, NumbersInv
  <2>2. Live[0] + d + 0 >= Free
    BY <1>4, <2>1
  <2> QED BY <2>2, LiveIs, Sizes
<1>6. n # Free
  <2>1. flash[Current][0] # Free
    BY <1>2, <1>3, CurrentIs, MarkRange DEF Blank, Current, Banks
  <2> QED BY <1>5, <2>1 DEF Live
<1>7. n >= 1 /\ n - 1 \in 0..Free /\ n - 1 \in Nat
  BY <1>4, <1>5, Sizes
<1>8. /\ flash' \in [Banks -> Sector] /\ flash'[at.bank] = Put(flash[at.bank], 0, n - 1)
      /\ flash'[OldBank] = flash[OldBank]
  <2>1. Program(at.bank, 0, n - 1)
    BY <1>2, <1>5 DEF Commit, Live
  <2>2. OldBank \in Banks
    BY <1>2, CurrentIs
  <2> QED BY <1>1, <1>2, <1>3, <1>7, <2>1, <2>2, ProgramIs
<1>9. /\ flash'[at.bank][0] = n - 1 /\ flash'[OldBank][0] = n
      /\ \A a \in 2..(Bank - 1) : flash'[at.bank][a] = Free
  <2>1. \A a \in 0..(Bank - 1) : a # 0 => flash'[at.bank][a] = flash[at.bank][a]
    BY <1>3, <1>8 DEF Put, Sector
  <2>2. flash'[at.bank][0] = n - 1
    BY <1>1, <1>3, <1>8 DEF Put, Sector
  <2>3. \A a \in 2..(Bank - 1) : a \in 0..(Bank - 1) /\ a # 0
    BY Sizes
  <2> QED BY <1>2, <1>3, <1>5, <1>8, <2>1, <2>2, <2>3 DEF Live
<1>10. Current' = at.bank /\ 1 - Current' = OldBank /\ ~ Blank' /\ Live' = flash'[at.bank]
  <2>1. n - 1 < n /\ ~ (n < n - 1) /\ n # Free
    BY <1>5, <1>6
  <2>2. at.bank = 0 => flash'[0][0] = n - 1 /\ flash'[1][0] = n
    BY <1>2, <1>9 DEF OldBank
  <2>3. at.bank = 1 => flash'[1][0] = n - 1 /\ flash'[0][0] = n
    BY <1>2, <1>9 DEF OldBank
  <2>4. Current' = at.bank
    BY <1>2, <2>1, <2>2, <2>3 DEF Current, Banks
  <2>5. OldBank \in Banks
    BY <1>2, CurrentIs
  <2>6. ~ Blank'
    BY <1>9, <2>1, <2>5 DEF Blank
  <2> QED BY <2>4, <2>6 DEF Live, OldBank
<1>11. LogInv'
  <2>1. flash'[at.bank] \in Sector
    BY <1>2, <1>8
  <2> QED BY <1>9, <1>10, <2>1, PackedTail DEF LogInv
<1>12. Types'
  BY <1>1, <1>8 DEF Commit, IInv, Types, job, hist, left
<1>13. NumbersInv'
  <2>1. Live'[0] = n - 1 /\ flash'[1 - Current'][0] = n
    BY <1>9, <1>10
  <2>2. (n - 1) + d + 1 >= Free /\ n = (n - 1) + 1
    BY <1>4, <1>5, Sizes
  <2>3. writes' = writes /\ writes' < Writes
    BY <1>1 DEF Commit, left, IInv, NumbersInv
  <2> QED BY <1>1, <1>4, <1>10, <2>1, <2>2, <2>3 DEF NumbersInv
<1>14. KeptInv'
  <2>1. ~ (Live'[0] >= Free - 1)
    BY <1>5, <1>6, <1>9, <1>10, Sizes
  <2> QED BY <2>1 DEF KeptInv
<1>15. PlaceInv'
  BY <1>9, <1>10 DEF PlaceInv, Commit, job
<1>16. CopyInv' /\ HeadInv' /\ DataInv' /\ BeforeInv' /\ LastSaveReadable'
  BY <1>1 DEF CopyInv, HeadInv, DataInv, BeforeInv, LastSaveReadable
<1> QED BY <1>11, <1>12, <1>13, <1>14, <1>15, <1>16 DEF IInv

\* The place in the new sector is found.
LEMMA PlaceInvariant ==
  ASSUME IInv, Place
  PROVE  IInv'
<1> DEFINE addr == SaveAddr(Live, Len(op.data))
<1>1. /\ flash' = flash /\ pc = "place" /\ pc' = "head" /\ op.data \in Object /\ ~ Blank
      /\ at.bank = Current
  BY DEF Place, Step, IInv, Types, NumbersInv, PlaceInv
<1>2. addr \in Nat /\ addr + Len(op.data) + 1 < Bank /\ Slot(Live, addr)
  <2>1. addr # 0
    BY <1>1 DEF Place, Live
  <2> QED BY <1>1, <2>1, LiveIs, ObjectIs, SaveSlot
<1>3. at' = [bank |-> Current, addr |-> addr] /\ addr \in 0..(Bank - 1)
  <2>1. PICK z \in Nat : z = Len(op.data)
    BY <1>1, ObjectIs, Sizes
  <2>2. addr \in 0..(Bank - 1)
    BY <1>2, <2>1, Sizes
  <2>3. at' = [at EXCEPT !.addr = addr] /\ at \in [bank : Banks, addr : 0..(Bank - 1)]
    BY <1>1 DEF Place, Live, IInv, Types
  <2> HIDE DEF addr
  <2> QED BY <1>1, <2>2, <2>3
<1> HIDE DEF addr
<1>4. Types'
  BY <1>1, <1>3, CurrentIs DEF Place, IInv, Types, hist, left
<1>5. NumbersInv'
  BY <1>1, NumbersKept DEF Place, left
<1>6. HeadInv'
  BY <1>1, <1>2, <1>3, FlashSame DEF HeadInv, Place
<1>7. KeptInv'
  BY <1>1, FlashSame DEF KeptInv, IInv, Place, hist
<1>8. CopyInv' /\ PlaceInv' /\ DataInv' /\ BeforeInv' /\ LastSaveReadable'
  BY <1>1 DEF CopyInv, PlaceInv, DataInv, BeforeInv, LastSaveReadable
<1>9. LogInv'
  BY <1>1, FlashSame DEF IInv, LogInv
<1> QED BY <1>4, <1>5, <1>6, <1>7, <1>8, <1>9 DEF IInv

\* A header written to the end of the log: an object without its data.
LEMMA HeadStep ==
  ASSUME NEW s \in Sector, NEW addr, Slot(s, addr),
         NEW own \in 0..(Unit - 2), NEW size \in 0..MaxObj, addr + size + 1 < Bank,
         NEW t, t = Put(s, addr, FobjHead(own, size))
  PROVE  /\ LogTail(t) /\ t[0] = s[0] /\ addr \in Headers(t, Bank - 1)
         /\ \A p \in Headers(t, Bank) : p = addr \/ p + Span(t[p]) <= addr
         /\ \A a \in (addr + 1)..(Bank - 1) : t[a] = Free
<1>1. /\ t \in Sector /\ t[addr] = FobjHead(own, size)
      /\ Headers(t, Bank - 1) = Headers(s, Bank - 1) \cup {addr}
      /\ Headers(t, Bank) = Headers(s, Bank) \cup {addr}
  BY HeadKeepsOthers
<1>2. addr \in Nat /\ addr >= 1 /\ addr <= Bank - 2 /\ addr \in 0..(Bank - 1) /\ 0 \in 0..(Bank - 1)
  BY Sizes DEF Slot
<1>3. \A a \in 0..(Bank - 1) : a # addr => t[a] = s[a]
  BY <1>2 DEF Put, Sector
<1>4. t[0] = s[0]
  BY <1>2, <1>3
<1>5. PICK z \in Nat : z = size /\ Span(t[addr]) = z + 1 /\ addr + (z + 1) < Bank
  <2>1. SizeOf(t[addr]) = size
    BY <1>1, HeaderWord
  <2>2. size \in Nat /\ size <= MaxObj
    BY Sizes
  <2> QED BY <1>2, <2>1, <2>2, Sizes DEF Span
<1>6. \A a \in (addr + 1)..(Bank - 1) : t[a] = Free
  <2> SUFFICES ASSUME NEW a \in (addr + 1)..(Bank - 1) PROVE t[a] = Free
    OBVIOUS
  <2>1. a \in addr..(Bank - 1) /\ a \in 0..(Bank - 1) /\ a # addr
    BY <1>2, Sizes
  <2> QED BY <1>3, <2>1 DEF Slot
<1>7. ASSUME NEW p \in Headers(s, Bank) PROVE p + Span(t[p]) <= addr /\ p + Span(t[p]) < Bank
  <2>1. Bank \in 2..Bank
    BY Sizes
  <2>2. PICK n \in Nat : n = Span(s[p]) /\ n >= 1
    BY <2>1, HeaderAt
  <2>3. p \in Nat /\ p \in 0..(Bank - 1)
    BY <2>1, HeaderAt
  <2>4. p + n <= addr
    BY <2>2 DEF Slot
  <2>5. t[p] = s[p]
    BY <1>2, <1>3, <2>2, <2>3, <2>4
  <2> QED BY <1>2, <2>2, <2>3, <2>4, <2>5, Sizes
<1>8. LogTail(t)
  <2>1. \A p \in Headers(t, Bank) : p + Span(t[p]) < Bank
    BY <1>1, <1>5, <1>7
  <2>2. ASSUME NEW a \in 1..(Bank - 1), \A p \in Headers(t, Bank) : p + Span(t[p]) <= a
        PROVE  t[a] = Free
    <3>1. addr + (z + 1) <= a
      BY <1>1, <1>5, <2>2
    <3>2. a \in (addr + 1)..(Bank - 1)
      BY <1>2, <1>5, <3>1, Sizes
    <3> QED BY <1>6, <3>2
  <2> QED BY <2>1, <2>2 DEF LogTail
<1> QED BY <1>1, <1>4, <1>6, <1>7, <1>8

\* The header is written.
LEMMA WriteHeadInv ==
  ASSUME IInv, WriteHead
  PROVE  IInv'
<1>1. /\ pc = "head" /\ pc' = "data" /\ flash \in [Banks -> Sector] /\ ~ Blank
      /\ op.id \in Ids /\ op.data \in Object /\ k' = 0
      /\ at.bank = Current /\ Slot(Live, at.addr) /\ at.addr + Len(op.data) + 1 < Bank
  BY DEF WriteHead, Step, IInv, Types, NumbersInv, HeadInv
<1>2. PICK size \in 0..MaxObj : size = Len(op.data)
  BY <1>1, ObjectIs
<1>3. PICK own \in 0..(Unit - 2) : own = op.id
  BY <1>1, FlashAssumption
<1>4. PICK addr \in 0..(Bank - 1) : addr = at.addr /\ addr \in Nat /\ addr >= 1
  BY <1>1, Sizes DEF Slot
<1>5. Live[addr] = Free
  BY <1>1, <1>4, Sizes DEF Slot
<1>6. /\ flash' \in [Banks -> Sector] /\ flash'[Current] = Put(Live, addr, FobjHead(own, size))
      /\ \A c \in Banks : c # Current => flash'[c] = flash[c]
  <2>1. FobjHead(own, size) \in 0..Free
    BY HeaderWord
  <2>2. Program(Current, addr, FobjHead(own, size))
    BY <1>1, <1>2, <1>3, <1>4 DEF WriteHead
  <2> QED BY <1>1, <1>5, <2>1, <2>2, ProgramIs, CurrentIs DEF Live
<1>7. PICK t \in Sector : t = flash'[Current]
  BY <1>6, CurrentIs
<1>8. /\ t[addr] = FobjHead(own, size)
      /\ \A id : id # own => ReadObj(t, id) = ReadObj(Live, id)
      /\ LogTail(t) /\ t[0] = Live[0] /\ addr \in Headers(t, Bank - 1)
      /\ \A p \in Headers(t, Bank) : p = addr \/ p + Span(t[p]) <= addr
      /\ \A a \in (addr + 1)..(Bank - 1) : t[a] = Free
  <2>1. Live \in Sector /\ Slot(Live, addr) /\ addr + size + 1 < Bank
    BY <1>1, <1>2, <1>4, LiveIs
  <2>2. t = Put(Live, addr, FobjHead(own, size))
    BY <1>6, <1>7
  <2> HIDE DEF Live
  <2> QED BY <2>1, <2>2, HeadKeepsOthers, HeadStep
<1>9. /\ \A b \in Banks : flash'[b][0] = flash[b][0]
      /\ Current' = Current /\ Live' = t /\ Live'[0] = Live[0]
      /\ \A id : id # own => Lookup(id)' = Lookup(id)
  <2>1. \A b \in Banks : flash'[b][0] = flash[b][0]
    BY <1>6, <1>7, <1>8 DEF Live
  <2>2. Current' = Current
    BY <2>1, CurrentSame
  <2> QED BY <1>7, <1>8, <2>1, <2>2 DEF Live, Lookup
<1>10. Types'
  BY <1>1, <1>6, Sizes DEF WriteHead, IInv, Types, hist, left
<1>11. NumbersInv'
  BY <1>1, <1>9, NumbersKept DEF WriteHead, left
<1>12. DataInv'
  <2>1. op' = op /\ at' = at /\ k' = 0
    BY DEF WriteHead
  <2>2. addr + 0 + 1 = addr + 1 /\ 1..0 = {} /\ 0 <= size
    BY <1>4, Sizes
  <2>3. Written(t, addr)'
    BY <1>1, <1>2, <1>3, <1>4, <1>8, <2>1, <2>2 DEF Written
  <2> QED BY <1>1, <1>4, <1>9, <2>1, <2>3 DEF DataInv, Written
<1>13. KeptInv'
  <2> SUFFICES ASSUME ~ stray, Live[0] >= Free - 1, NEW id \in Ids, \A d \in doubt : d.id # id, id # own
               PROVE  Lookup(id) = stored[id]
    BY <1>1, <1>3, <1>9 DEF KeptInv, WriteHead, hist
  <2> QED BY <1>1 DEF IInv, KeptInv
<1>14. CopyInv' /\ PlaceInv' /\ HeadInv' /\ BeforeInv' /\ LastSaveReadable'
  BY <1>1 DEF CopyInv, PlaceInv, HeadInv, BeforeInv, LastSaveReadable
<1> QED BY <1>8, <1>9, <1>10, <1>11, <1>12, <1>13, <1>14 DEF IInv, LogInv

\* A word of data written behind the last header.
LEMMA DataStep ==
  ASSUME NEW s \in Sector, LogTail(s), NEW addr, Written(s, addr),
         op.data \in Object, op.id \in Ids, k \in 0..MaxObj, k < Len(op.data),
         NEW x, x = addr + k + 1, NEW t, t = Put(s, x, op.data[k + 1])
  PROVE  /\ x \in 0..(Bank - 1) /\ s[x] = Free /\ op.data[k + 1] \in 0..Free
         /\ t \in Sector /\ LogTail(t) /\ t[0] = s[0]
         /\ \A id : id # op.id => ReadObj(t, id) = ReadObj(s, id)
         /\ addr \in Headers(t, Bank - 1) /\ t[addr] = s[addr]
         /\ \A p \in Headers(t, Bank) : p = addr \/ p + Span(t[p]) <= addr
         /\ \A i \in 1..(k + 1) : t[addr + i] = op.data[i]
         /\ \A a \in (addr + (k + 1) + 1)..(Bank - 1) : t[a] = Free
<1>1. Bank \in 2..Bank /\ Bank - 1 \in 2..Bank /\ Bank - 1 <= Bank
  BY Sizes
<1>2. addr \in Headers(s, Bank - 1) /\ addr \in Headers(s, Bank) /\ addr \in Nat /\ addr >= 1
      /\ addr \in 0..(Bank - 1)
  BY <1>1, HeadersGrow, HeaderAt DEF Written
<1>3. PICK z \in 0..MaxObj : z = Len(op.data) /\ z \in Nat /\ op.data \in [1..z -> Values]
  BY ObjectIs, Sizes
<1>4. PICK n \in Nat : n = k /\ n < z
  BY <1>3, Sizes
<1>5. addr + z + 1 < Bank /\ s[addr] = FobjHead(op.id, z)
  BY <1>3 DEF Written
<1>6. IdOf(s[addr]) = op.id /\ SizeOf(s[addr]) = z /\ Span(s[addr]) = z + 1
  <2>1. op.id \in 0..(Unit - 2)
    BY FlashAssumption
  <2>2. IdOf(s[addr]) = op.id /\ SizeOf(s[addr]) = z
    BY <1>5, <2>1, HeaderWord
  <2>3. z <= MaxObj
    BY Sizes
  <2> QED BY <2>2, <2>3 DEF Span
<1>7. x = addr + n + 1 /\ x \in 0..(Bank - 1) /\ x \in Nat /\ addr < x /\ x < addr + (z + 1)
  BY <1>2, <1>3, <1>4, <1>5, Sizes
<1>8. s[x] = Free
  <2>1. x \in (addr + k + 1)..(Bank - 1)
    BY <1>4, <1>7, Sizes
  <2> QED BY <2>1 DEF Written
<1>9. PICK w \in 0..Free : w = op.data[k + 1]
  <2>1. n + 1 \in 1..z
    BY <1>3, <1>4
  <2>2. op.data[n + 1] \in Values
    BY <1>3, <2>1
  <2> QED BY <1>4, <2>2, FlashAssumption
<1>10. \A p \in Headers(s, Bank) : p = addr \/ p + Span(s[p]) <= addr
  BY DEF Written
<1>11. /\ t \in Sector /\ Headers(t, Bank) = Headers(s, Bank)
       /\ Headers(t, Bank - 1) = Headers(s, Bank - 1)
       /\ \A id : id # op.id => ReadObj(t, id) = ReadObj(s, id)
  <2>1. t = Put(s, x, w)
    BY <1>9
  <2>2. x < addr + Span(s[addr])
    BY <1>6, <1>7
  <2> QED BY <1>2, <1>6, <1>7, <1>10, <2>1, <2>2, DataKeepsOthers
<1>12. t[x] = w /\ \A a \in 0..(Bank - 1) : a # x => t[a] = s[a]
  BY <1>7, <1>9 DEF Put, Sector
<1>13. \A p \in Headers(s, Bank) : t[p] = s[p] /\ p # 0
  <2> SUFFICES ASSUME NEW p \in Headers(s, Bank) PROVE t[p] = s[p] /\ p # 0
    OBVIOUS
  <2>1. p \in 0..(Bank - 1) /\ p >= 1 /\ p \in Nat /\ Span(s[p]) \in Nat
    BY <1>1, HeaderAt
  <2>2. p # x
    BY <1>2, <1>7, <1>10, <2>1
  <2> QED BY <1>12, <2>1, <2>2
<1>14. \A a \in (addr + (k + 1) + 1)..(Bank - 1) : t[a] = Free
  <2> SUFFICES ASSUME NEW a \in (addr + (k + 1) + 1)..(Bank - 1) PROVE t[a] = Free
    OBVIOUS
  <2>1. a \in (addr + k + 1)..(Bank - 1) /\ a \in 0..(Bank - 1) /\ a # x
    BY <1>2, <1>4, <1>7, Sizes
  <2> QED BY <1>12, <2>1 DEF Written
<1>15. LogTail(t)
  <2>1. \A p \in Headers(t, Bank) : p + Span(t[p]) < Bank
    BY <1>11, <1>13 DEF LogTail
  <2>2. ASSUME NEW a \in 1..(Bank - 1), \A p \in Headers(t, Bank) : p + Span(t[p]) <= a
        PROVE  t[a] = Free
    <3>1. addr + (z + 1) <= a
      BY <1>2, <1>6, <1>11, <1>13, <2>2
    <3>2. a # x /\ a \in 0..(Bank - 1)
      BY <1>2, <1>3, <1>7, <3>1, Sizes
    <3>3. \A p \in Headers(s, Bank) : p + Span(s[p]) <= a
      BY <1>11, <1>13, <2>2
    <3>4. s[a] = Free
      BY <3>3 DEF LogTail
    <3> QED BY <1>12, <3>2, <3>4
  <2> QED BY <2>1, <2>2 DEF LogTail
<1>16. \A i \in 1..(k + 1) : t[addr + i] = op.data[i]
  <2> SUFFICES ASSUME NEW i \in 1..(k + 1) PROVE t[addr + i] = op.data[i]
    OBVIOUS
  <2>1. i \in Nat /\ i >= 1 /\ i <= n + 1
    BY <1>4
  <2>2. CASE i = n + 1
    BY <1>2, <1>4, <1>7, <1>9, <1>12, <2>2
  <2>3. CASE i # n + 1
    <3>1. i \in 1..k
      BY <1>4, <2>1, <2>3
    <3>2. addr + i \in 0..(Bank - 1) /\ addr + i # x
      BY <1>2, <1>3, <1>4, <1>5, <1>7, <2>1, <2>3, Sizes
    <3> QED BY <1>12, <3>1, <3>2 DEF Written
  <2> QED BY <2>2, <2>3
<1>17. t[0] = s[0]
  <2>1. 0 \in 0..(Bank - 1) /\ 0 # x
    BY <1>2, <1>7, Sizes
  <2> QED BY <1>12, <2>1
<1> QED BY <1>2, <1>7, <1>8, <1>9, <1>10, <1>11, <1>13, <1>14, <1>15, <1>16, <1>17

\* A word of the data is written.
LEMMA WriteDataInv ==
  ASSUME IInv, WriteData
  PROVE  IInv'
<1>1. /\ pc = "data" /\ pc' = "data" /\ flash \in [Banks -> Sector] /\ ~ Blank
      /\ op.id \in Ids /\ op.data \in Object /\ k \in 0..MaxObj /\ k < Len(op.data) /\ k' = k + 1
      /\ at.bank = Current /\ Written(Live, at.addr)
  BY DEF WriteData, IInv, Types, NumbersInv, DataInv
<1>2. PICK addr : addr = at.addr
  OBVIOUS
<1>3. PICK x : x = addr + k + 1
  OBVIOUS
<1>4. PICK t : t = Put(Live, x, op.data[k + 1])
  OBVIOUS
<1>5. /\ x \in 0..(Bank - 1) /\ Live[x] = Free /\ op.data[k + 1] \in 0..Free
      /\ t \in Sector /\ LogTail(t) /\ t[0] = Live[0]
      /\ \A id : id # op.id => ReadObj(t, id) = ReadObj(Live, id)
      /\ addr \in Headers(t, Bank - 1) /\ t[addr] = Live[addr]
      /\ \A p \in Headers(t, Bank) : p = addr \/ p + Span(t[p]) <= addr
      /\ \A i \in 1..(k + 1) : t[addr + i] = op.data[i]
      /\ \A a \in (addr + (k + 1) + 1)..(Bank - 1) : t[a] = Free
  BY <1>1, <1>2, <1>3, <1>4, LiveIs, DataStep
<1>6. /\ flash' \in [Banks -> Sector] /\ flash'[Current] = t
      /\ \A c \in Banks : c # Current => flash'[c] = flash[c]
  <2>1. Program(Current, x, op.data[k + 1])
    BY <1>1, <1>2, <1>3 DEF WriteData
  <2> QED BY <1>1, <1>4, <1>5, <2>1, ProgramIs, CurrentIs DEF Live
<1>7. /\ \A b \in Banks : flash'[b][0] = flash[b][0]
      /\ Current' = Current /\ Live' = t /\ Live'[0] = Live[0]
      /\ \A id : id # op.id => Lookup(id)' = Lookup(id)
  <2>1. \A b \in Banks : flash'[b][0] = flash[b][0]
    BY <1>5, <1>6 DEF Live
  <2>2. Current' = Current
    BY <2>1, CurrentSame
  <2> QED BY <1>5, <1>6, <2>1, <2>2 DEF Live, Lookup
<1>8. k' \in 0..MaxObj /\ k' <= Len(op.data)
  BY <1>1, ObjectIs, Sizes
<1>9. Types'
  BY <1>1, <1>6, <1>8 DEF WriteData, IInv, Types, hist, left
<1>10. NumbersInv'
  BY <1>1, <1>7, NumbersKept DEF WriteData, left
<1>11. DataInv'
  <2>1. op' = op /\ at' = at
    BY DEF WriteData
  <2>2. Written(t, addr)'
    BY <1>1, <1>2, <1>5, <1>8, <2>1 DEF Written
  <2> QED BY <1>1, <1>2, <1>7, <2>1, <2>2 DEF DataInv, Written
<1>12. KeptInv'
  <2> SUFFICES ASSUME ~ stray, Live[0] >= Free - 1, NEW id \in Ids, \A d \in doubt : d.id # id, id # op.id
               PROVE  Lookup(id) = stored[id]
    BY <1>1, <1>7 DEF KeptInv, WriteData, hist
  <2> QED BY <1>1 DEF IInv, KeptInv
<1>13. CopyInv' /\ PlaceInv' /\ HeadInv' /\ BeforeInv' /\ LastSaveReadable'
  BY <1>1 DEF CopyInv, PlaceInv, HeadInv, BeforeInv, LastSaveReadable
<1> QED BY <1>5, <1>7, <1>9, <1>10, <1>11, <1>12, <1>13 DEF IInv, LogInv

\* An object that is written completely reads as it is.
LEMMA WrittenReads ==
  ASSUME NEW s \in Sector, NEW addr, Written(s, addr), k = Len(op.data),
         op.data \in Object, op.id \in Ids
  PROVE  ReadObj(s, op.id) = op.data
<1>1. Bank \in 2..Bank /\ Bank - 1 \in 2..Bank /\ Bank - 1 <= Bank
  BY Sizes
<1>2. PICK z \in 0..MaxObj : z = Len(op.data) /\ z \in Nat /\ op.data \in [1..z -> Values]
  BY ObjectIs, Sizes
<1>3. op.id \in 0..(Unit - 2)
  BY FlashAssumption
<1>4. addr \in Headers(s, Bank - 1) /\ IdOf(s[addr]) = op.id /\ SizeOf(s[addr]) = z
  BY <1>2, <1>3, HeaderWord DEF Written
<1>5. addr \in Found(s, op.id)
  <2>1. z <= MaxObj
    BY Sizes
  <2> QED BY <1>4, <2>1 DEF Found
<1>6. ASSUME NEW p \in Found(s, op.id) PROVE p <= addr
  <2>1. p \in Headers(s, Bank) /\ p \in Nat /\ Span(s[p]) = SizeOf(s[p]) + 1 /\ SizeOf(s[p]) \in Nat
    BY FoundAt
  <2>2. addr \in Nat
    BY <1>5, FoundAt
  <2>3. p = addr \/ p + Span(s[p]) <= addr
    BY <2>1 DEF Written
  <2> QED BY <2>1, <2>2, <2>3
<1>7. Find(s, op.id) = addr /\ addr # 0
  <2>1. addr >= 1 /\ addr \in Nat
    BY <1>5, FoundAt
  <2> QED BY <1>5, <1>6, <2>1, FindLast
<1>8. ReadObj(s, op.id) = [i \in 1..z |-> s[addr + i]]
  BY <1>4, <1>7 DEF ReadObj
<1>9. \A i \in 1..z : s[addr + i] = op.data[i]
  BY <1>2 DEF Written
<1> QED BY <1>2, <1>8, <1>9

\* The call returns.
LEMMA ReturnInv ==
  ASSUME IInv, Return
  PROVE  IInv'
<1>1. /\ flash' = flash /\ pc = "data" /\ pc' = "idle" /\ op.id \in Ids /\ op.data \in Object
      /\ ~ Blank /\ Written(Live, at.addr) /\ k = Len(op.data)
  BY DEF Return, Step, IInv, Types, NumbersInv, DataInv
<1>2. stored' = [stored EXCEPT ![op.id] = op.data] /\ last' = op.id
  BY DEF Return, Done
<1>3. Lookup(op.id) = op.data
  <2>1. ReadObj(Live, op.id) = op.data
    BY <1>1, LiveIs, WrittenReads
  <2> QED BY <2>1 DEF Lookup, Live
<1>4. Types'
  BY <1>1, <1>2 DEF Return, Done, IInv, Types, job, left
<1>5. NumbersInv'
  BY <1>1, NumbersKept DEF Return, left
<1>6. KeptInv'
  <2> SUFFICES ASSUME ~ stray, Live[0] >= Free - 1, NEW id \in Ids, \A d \in doubt' : d.id # id
               PROVE  Lookup(id) = stored'[id]
    BY <1>1, FlashSame DEF KeptInv, Return
  <2>1. CASE id = op.id
    BY <1>1, <1>2, <1>3, <2>1 DEF IInv, Types
  <2>2. CASE id # op.id
    <3>1. \A d \in doubt : d.id # id
      BY <2>2 DEF Return, Done
    <3> QED BY <1>1, <1>2, <2>2, <3>1 DEF IInv, KeptInv, Types
  <2> QED BY <2>1, <2>2
<1>7. LastSaveReadable'
  <2>1. PICK id \in Ids : id = op.id
    BY <1>1
  <2>2. ReadObj(flash'[Current'], id) = op.data /\ stored'[id] = op.data /\ last' = id
    BY <1>1, <1>2, <1>3, <2>1, FlashSame DEF IInv, Types, Lookup
  <2> QED BY <2>2 DEF LastSaveReadable, Lookup
<1>8. CopyInv' /\ PlaceInv' /\ HeadInv' /\ DataInv' /\ BeforeInv'
  BY <1>1 DEF CopyInv, PlaceInv, HeadInv, DataInv, BeforeInv
<1>9. LogInv'
  BY <1>1, FlashSame DEF IInv, LogInv
<1> QED BY <1>4, <1>5, <1>6, <1>7, <1>8, <1>9 DEF IInv

\* Power fails: what was being saved is in doubt.
LEMMA CrashInv ==
  ASSUME IInv, Crash
  PROVE  IInv'
<1>1. flash' = flash /\ pc # "idle" /\ pc' = "idle" /\ op \in [id : Ids, data : Object]
      /\ op \in doubt' /\ doubt' = doubt \cup {op}
  BY DEF Crash, IInv, Types
<1>2. Types'
  BY <1>1 DEF Crash, IInv, Types, job
<1>3. NumbersInv'
  <2>1. CASE Blank
    BY <1>1, <2>1, FlashSame DEF NumbersInv
  <2>2. CASE ~ Blank
    BY <1>1, <2>2, NumbersKept DEF Crash
  <2> QED BY <2>1, <2>2
<1>4. KeptInv'
  <2> SUFFICES ASSUME ~ stray, Live[0] >= Free - 1, NEW id \in Ids, \A d \in doubt' : d.id # id
               PROVE  Lookup(id) = stored[id]
    BY <1>1, FlashSame DEF KeptInv, Crash
  <2>1. op.id # id /\ \A d \in doubt : d.id # id
    BY <1>1
  <2> QED BY <2>1 DEF IInv, KeptInv
<1>5. CopyInv' /\ PlaceInv' /\ HeadInv' /\ DataInv' /\ BeforeInv' /\ LastSaveReadable'
  BY <1>1 DEF CopyInv, PlaceInv, HeadInv, DataInv, BeforeInv, LastSaveReadable
<1>6. LogInv'
  BY <1>1, FlashSame DEF IInv, LogInv
<1> QED BY <1>2, <1>3, <1>4, <1>5, <1>6 DEF IInv

\* Nothing happens.
LEMMA StutterInv ==
  ASSUME IInv, UNCHANGED vars
  PROVE  IInv'
<1>1. /\ flash' = flash /\ pc' = pc /\ op' = op /\ at' = at /\ scan' = scan /\ k' = k
      /\ stray' = stray /\ stored' = stored /\ doubt' = doubt /\ last' = last
      /\ before' = before /\ writes' = writes
  BY DEF vars, job, hist, left
<1>2. Current' = Current /\ Live' = Live /\ Blank' = Blank /\ \A id : Lookup(id)' = Lookup(id)
  BY <1>1, FlashSame
<1>3. Types' /\ NumbersInv' /\ LogInv'
  BY <1>1, <1>2 DEF IInv, Types, NumbersInv, LogInv
<1>4. CopyInv' /\ PlaceInv' /\ HeadInv'
  BY <1>1, <1>2 DEF IInv, CopyInv, PlaceInv, HeadInv
<1>5. DataInv'
  BY <1>1, <1>2 DEF IInv, DataInv, Written
<1>6. KeptInv' /\ BeforeInv'
  BY <1>1, <1>2 DEF IInv, KeptInv, BeforeInv
<1>7. LastSaveReadable'
  <2> SUFFICES ASSUME pc = "idle", last # -1, doubt = {}, ~ stray
               PROVE  ReadObj(flash'[Current'], last') = stored'[last']
    BY <1>1 DEF LastSaveReadable, Lookup
  <2> QED BY <1>1, <1>2 DEF IInv, LastSaveReadable, Lookup
<1> QED BY <1>3, <1>4, <1>5, <1>6, <1>7 DEF IInv

---------------------------------------------------------------------------
(* The theorems.                                                           *)

\* Every step of flash_write_cfg, of a pack and of a power failure keeps the
\* current sector a log whose objects read as they should.
THEOREM Invariance == Spec => []IInv
<1>1. Init => IInv
  BY InitInv
<1>2. IInv /\ [Next]_vars => IInv'
  <2> SUFFICES ASSUME IInv, [Next]_vars PROVE IInv'
    OBVIOUS
  <2>1. ASSUME NEW id \in Ids, NEW data \in Object, WriteCfg(id, data) PROVE IInv'
    BY <2>1, WriteCfgInv
  <2>2. CASE Format
    BY <2>2, FormatInv
  <2>3. CASE Identical \/ AppendObj
    BY <2>3, IdenticalInv, AppendObjInv
  <2>4. CASE Erase \/ PackNoMemory
    BY <2>4, EraseInv, PackNoMemoryInv
  <2>5. CASE Copy \/ Commit \/ Place
    BY <2>5, CopyInvariant, CommitInv, PlaceInvariant
  <2>6. CASE WriteHead \/ WriteData \/ Return
    BY <2>6, WriteHeadInv, WriteDataInv, ReturnInv
  <2>7. CASE Crash
    BY <2>7, CrashInv
  <2>8. CASE UNCHANGED vars
    BY <2>8, StutterInv
  <2> QED BY <2>1, <2>2, <2>3, <2>4, <2>5, <2>6, <2>7, <2>8 DEF Next
<1> QED BY <1>1, <1>2, PTL DEF Spec

\* Every address written and scanned lies where it may: an object never runs
\* over the end of its sector, and a pack's scan stops within one object of it.
THEOREM TypeCorrect == Spec => []TypeOK
<1> QED BY Invariance, TypesImply, PTL

\* Until the first pack a save is durable: flash_read_cfg gives what was saved
\* last, whatever was saved, cut short or packed in part for the other ids.
THEOREM KeptUntilPack == Spec => []DurableUntilPack
<1>1. IInv => DurableUntilPack
  <2> SUFFICES ASSUME IInv, ~ stray, flash[Current][0] >= Free - 1, pc = "idle",
                      NEW id \in Ids, \A d \in doubt : d.id # id
               PROVE  Lookup(id) = stored[id]
    BY DEF DurableUntilPack, Durable
  <2> QED BY DEF IInv, KeptInv, Live
<1> QED BY <1>1, Invariance, PTL

\* A save that returned with memory for its pack reads back, the pack included.
THEOREM LastSaveIsRead == Spec => []LastSaveReadable
<1>1. IInv => LastSaveReadable
  BY DEF IInv
<1> QED BY <1>1, Invariance, PTL

\* A power failure during a pack, up to the write of the new segment number,
\* leaves every id as it was before the call.
THEOREM PackIsInvisible == Spec => []PackInvisible
<1>1. IInv => PackInvisible
  BY DEF IInv, BeforeInv, PackInvisible
<1> QED BY <1>1, Invariance, PTL

\* pack_cfg_fmem never gives its caller the address zero: after a pack there is
\* room for the object.
THEOREM PackHasRoom == Spec => []PackMakesRoom
<1>1. IInv => PackMakesRoom
  <2> SUFFICES ASSUME IInv, pc = "place" PROVE SaveAddr(Live, Len(op.data)) # 0
    BY DEF PackMakesRoom, IInv, PlaceInv, Live
  <2>1. Live \in Sector /\ \A a \in 2..(Bank - 1) : Live[a] = Free
    BY LiveIs DEF IInv, PlaceInv
  <2>2. Len(op.data) \in 0..MaxObj
    BY ObjectIs DEF IInv, Types
  <2> QED BY <2>1, <2>2, PackedRoom
<1> QED BY <1>1, Invariance, PTL

\* flash_read_cfg reads within the sector, even behind a save that was cut short.
THEOREM ReadsInSector ==
  Spec => [](\A id \in Ids :
               Find(flash[Current], id) + SizeOf(flash[Current][Find(flash[Current], id)]) < Bank
               \/ Find(flash[Current], id) = 0)
<1>1. ASSUME IInv, NEW id \in Ids, Find(Live, id) # 0
      PROVE  Find(Live, id) + SizeOf(Live[Find(Live, id)]) < Bank
  <2>1. Find(Live, id) \in Found(Live, id)
    BY <1>1, LiveIs, FindIs
  <2> DEFINE a == Find(Live, id)
  <2>2. /\ a \in Headers(Live, Bank) /\ a \in Nat
        /\ SizeOf(Live[a]) \in Nat /\ Span(Live[a]) = SizeOf(Live[a]) + 1
    BY <1>1, <2>1, LiveIs, FoundAt
  <2>3. a + Span(Live[a]) < Bank
    BY <1>1, <2>2, LiveIs DEF LogTail
  <2> HIDE DEF a
  <2>4. PICK z \in Nat : z = SizeOf(Live[a])
    BY <2>2
  <2>5. a + (z + 1) < Bank
    BY <2>2, <2>3, <2>4
  <2>6. a + z < Bank
    BY <2>2, <2>5, Sizes
  <2> QED BY <2>4, <2>6 DEF a
<1>2. IInv => \A id \in Ids :
               Find(flash[Current], id) + SizeOf(flash[Current][Find(flash[Current], id)]) < Bank
               \/ Find(flash[Current], id) = 0
  BY <1>1 DEF Live
<1> QED BY <1>2, Invariance, PTL

\* What a turn of a pack copies is there, and fits behind wraddr.
CopySource ==
  Scanning /\ CopyThis =>
    LET w == flash[OldBank][scan]
    IN /\ Find(flash[OldBank], IdOf(w)) \in Found(flash[OldBank], IdOf(w))
       /\ at.addr + Span(w) < Bank

\* The two early returns of the copy loop (lines 343 to 349), which the model
\* leaves out, are never taken: get_addr_fobj finds the object in the old sector,
\* and the new one does not overflow.
THEOREM CopyNeverReturns == Spec => []CopySource
<1>1. ASSUME IInv, Scanning, CopyThis PROVE CopySource
  <2>1. /\ flash[OldBank] = Live /\ scan < Bank - 2 /\ Live[scan] # Free /\ pc = "copy"
        /\ at.addr = 1
    BY <1>1, PackingIs DEF Scanning, Live
  <2>2. scan \in Headers(Live, Bank - 1)
    BY <1>1, <2>1 DEF IInv, CopyInv
  <2>3. scan \in Found(Live, IdOf(Live[scan]))
    BY <1>1, <2>1, <2>2 DEF CopyThis, Found
  <2>4. Find(Live, IdOf(Live[scan])) \in Found(Live, IdOf(Live[scan]))
    BY <1>1, <2>3, LiveIs, FindIs
  <2>5. PICK n \in Nat : n = Span(Live[scan]) /\ n <= MaxObj + 1
    <3>1. Bank - 1 \in 2..Bank
      BY Sizes
    <3> QED BY <1>1, <2>2, <3>1, LiveIs, HeaderAt
  <2>6. at.addr + Span(Live[scan]) < Bank
    BY <2>1, <2>5, Sizes
  <2> QED BY <2>1, <2>4, <2>6 DEF CopySource
<1>2. IInv => CopySource
  BY <1>1 DEF CopySource
<1> QED BY <1>2, Invariance, PTL
=============================================================================

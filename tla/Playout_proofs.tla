--------------------------- MODULE Playout_proofs ---------------------------
(***************************************************************************)
(* Any rates, any width of the counters, any period and any filling: the   *)
(* correction has the right sign until its counter wraps, and a stream is  *)
(* played at its own rate when the clock has the rate that is asked of it. *)
(***************************************************************************)
EXTENDS Playout, WellFoundedInduction, TLAPS

\* The history grows at least as fast as the counter moves.
DriftInv ==
  /\ drift \in Nat /\ sampDelCnt \in Int /\ sampCntAdd \in Int
  /\ oversampling \in Nat /\ out \in Nat
  /\ drift < Half => sampDelCnt <= drift /\ - sampDelCnt <= drift

\* While the FIFO was always full the counter only fell, while it was always
\* nearly empty it only grew.
SignInv ==
  drift < Half =>
    /\ always \in {"none", "full"} => sampDelCnt <= 0 /\ out <= oversampling
    /\ always \in {"none", "low"} => sampDelCnt >= 0 /\ out >= oversampling

IInv == DriftInv /\ SignInv

\* A set of numbers that is not empty has a least element.
LEMMA Least ==
  ASSUME NEW S \in SUBSET Nat, S # {}
  PROVE  \E m \in S : \A n \in S : m <= n
<1>1. PICK m \in S : \A n \in S : ~ (<<n, m>> \in OpToRel(<, Nat))
  BY NatLessThanWellFounded, WFMin
<1>2. ASSUME NEW n \in S PROVE m <= n
  <2>1. n \in Nat /\ m \in Nat OBVIOUS
  <2>2. ~ (n < m)
    <3>1. n < m => <<n, m>> \in OpToRel(<, Nat)
      BY <2>1 DEF OpToRel
    <3> QED BY <1>1, <3>1
  <2> QED BY ONLY <2>1, <2>2
<1> QED BY <1>2

\* If it is bounded it has a greatest one.
LEMMA Greatest ==
  ASSUME NEW S \in SUBSET Nat, S # {}, NEW b \in Nat, \A n \in S : n <= b
  PROVE  \E m \in S : \A n \in S : m >= n
<1>1. \A n \in S : n \in Nat /\ b - n \in Nat
  OBVIOUS
<1>2. PICK T \in SUBSET Nat : T = {b - n : n \in S}
  <2>1. {b - n : n \in S} \in SUBSET Nat
    BY <1>1
  <2> QED BY <2>1
<1>3. T # {}
  BY <1>2
<1>4. PICK k \in T : \A n \in T : k <= n
  BY <1>3, Least
<1>5. PICK m \in S : k = b - m
  BY <1>2, <1>4
<1>6. ASSUME NEW n \in S PROVE m >= n
  <2>1. b - n \in T
    BY <1>2
  <2>2. k <= b - n
    BY <1>4, <2>1
  <2>3. m \in Nat /\ n \in Nat
    OBVIOUS
  <2> QED BY ONLY <2>2, <2>3, <1>5, b \in Nat
<1> QED BY <1>5, <1>6

---------------------------------------------------------------------------
(* The clock.                                                              *)

\* A rate is doubled k times.
Twice(k) == 2^k

\* The powers of two that i2sSetRate can reach.
LEMMA TwiceFacts ==
  /\ Twice(1) = 2 /\ Twice(2) = 4 /\ Twice(3) = 8 /\ Twice(16) = 65536
  /\ \A k \in 1..16 : Twice(k) \in Nat \ {0} /\ (k > 2 => Twice(k) >= 8)
<1>1. /\ Twice(1) = 2 /\ Twice(2) = 4 /\ Twice(3) = 8 /\ Twice(4) = 16
      /\ Twice(5) = 32 /\ Twice(6) = 64 /\ Twice(7) = 128 /\ Twice(8) = 256
      /\ Twice(9) = 512 /\ Twice(10) = 1024 /\ Twice(11) = 2048
      /\ Twice(12) = 4096 /\ Twice(13) = 8192 /\ Twice(14) = 16384
      /\ Twice(15) = 32768 /\ Twice(16) = 65536
  BY DEF Twice
<1>2. ASSUME NEW k \in 1..16 PROVE Twice(k) \in Nat \ {0} /\ (k > 2 => Twice(k) >= 8)
  <2>1. \/ k = 1 \/ k = 2 \/ k = 3 \/ k = 4 \/ k = 5 \/ k = 6 \/ k = 7 \/ k = 8
        \/ k = 9 \/ k = 10 \/ k = 11 \/ k = 12 \/ k = 13 \/ k = 14 \/ k = 15 \/ k = 16
    OBVIOUS
  <2> QED BY ONLY <1>1, <2>1
<1> QED BY ONLY <1>1, <1>2

\* The limit as a number.
LEMMA MaxRateType == MaxRate \in Nat
BY DEF MaxRate

\* No rate needs more than 16 doublings to exceed it, and the loop of
\* i2sSetRate ends at the first that does.
LEMMA Doublings ==
  ASSUME NEW r \in 1..MaxRate
  PROVE  /\ Oversampled(r) \in 1..16 /\ r * Twice(Oversampled(r)) \in Nat
         /\ r * Twice(Oversampled(r)) > MaxRate
         /\ Oversampled(r) > 1 => r * Twice(Oversampled(r) - 1) <= MaxRate
<1> DEFINE Enough(k) == r * Twice(k) > MaxRate /\ (k > 1 => r * Twice(k - 1) <= MaxRate)
<1>1. \A k \in 1..16 : r * Twice(k) \in Nat
  <2>1. \A x, y \in Nat : x * y \in Nat
    OBVIOUS
  <2>2. r \in Nat /\ \A k \in 1..16 : Twice(k) \in Nat
    BY TwiceFacts, MaxRateType, SMT
  <2> QED BY ONLY <2>1, <2>2, SMT
<1> DEFINE S == {k \in 1..16 : r * Twice(k) > MaxRate}
<1>2. S \in SUBSET Nat
  BY SMT
<1>3. 16 \in S
  <2>1. r * 65536 > MaxRate
    BY SMT DEF MaxRate
  <2> QED BY <2>1, TwiceFacts, SMT
<1>0. \A j : j \in S <=> j \in 1..16 /\ r * Twice(j) > MaxRate
  BY SMT
<1> HIDE DEF S
<1>4. PICK k \in S : \A j \in S : k <= j
  BY <1>2, <1>3, Least, SMT
<1>5. k \in 1..16 /\ r * Twice(k) > MaxRate
  BY <1>0, <1>4, SMT
<1>6. ASSUME k > 1 PROVE r * Twice(k - 1) <= MaxRate
  <2>1. k - 1 \in 1..16 /\ ~ (k <= k - 1)
    BY ONLY <1>5, <1>6
  <2>2. k - 1 \notin S
    BY <1>4, <2>1, SMT
  <2>3. PICK x \in Nat : x = r * Twice(k - 1)
    BY <1>1, <2>1, SMT
  <2>4. ~ (x > MaxRate)
    BY <1>0, <2>1, <2>2, <2>3, SMT
  <2>5. x <= MaxRate
    BY ONLY <2>4, x \in Nat, MaxRateType
  <2> QED BY <2>3, <2>5
<1>7. Oversampled(r) = CHOOSE j \in 1..16 : Enough(j)
  BY DEF Oversampled, Twice
<1>8. Enough(k)
  BY <1>5, <1>6
<1> HIDE DEF Enough
<1>9. Oversampled(r) \in 1..16 /\ Enough(Oversampled(r))
  BY <1>5, <1>7, <1>8
<1> QED BY <1>1, <1>9 DEF Enough

\* Any rate is rounded to one that the clock can have.
LEMMA ClockType == ASSUME NEW x \in Int PROVE I2sClock(x) \in Clocks \cup {7350}
<1> DEFINE S == {c \in Clocks : c <= x} \cup {7350}
<1>1. \A c \in Clocks : c \in Nat /\ c <= 96000
  BY SMT DEF Clocks
<1>2. PICK b \in Nat : b = 96000
  BY SMT
<1>3. S \in SUBSET Nat
  BY <1>1, SMT
<1>4. S # {} /\ \A c \in S : c <= b
  BY <1>1, <1>2, SMT
<1>5. I2sClock(x) = Max(S) /\ S \subseteq Clocks \cup {7350}
  BY SMT DEF I2sClock
<1> HIDE DEF S
<1>6. \E m \in S : \A c \in S : m >= c
  <2>1. PICK T \in SUBSET Nat : T = S
    BY ONLY <1>3
  <2>2. T # {} /\ \A c \in T : c <= b
    BY ONLY <1>4, <2>1
  <2>3. \E m \in T : \A c \in T : m >= c
    BY ONLY <2>2, Greatest, T \in SUBSET Nat, b \in Nat
  <2> QED BY ONLY <2>1, <2>3
<1>7. Max(S) \in S
  BY ONLY <1>6, SMT DEF Max
<1> QED BY ONLY <1>5, <1>7, SMT

---------------------------------------------------------------------------
(* The counters.                                                           *)

\* Within its range a signed char counts like an integer.
LEMMA WrapSmall ==
  ASSUME NEW x \in Int, - Half <= x, x < Half PROVE Wrap(x) = x
<1>1. Half \in Nat \ {0}
  BY HalfAssumption
<1> DEFINE m == 2 * Half
           y == x + Half
<1>2. m \in Nat /\ m > 0 /\ y \in Nat /\ y < m
  BY <1>1
<1>3. \A a, b \in Nat : b > 0 /\ a < b => a % b = a
  OBVIOUS
<1>4. y % m = y
  BY <1>2, <1>3
<1> QED BY <1>1, <1>4 DEF Wrap

\* A wrapped counter is still an integer.
LEMMA WrapInt == ASSUME NEW x \in Int PROVE Wrap(x) \in Int
<1>1. Half \in Nat \ {0}
  BY HalfAssumption
<1>2. \A a, b \in Int : b > 0 => a % b \in Int
  OBVIOUS
<1>3. (x + Half) % (2 * Half) \in Int
  BY <1>1, <1>2
<1> QED BY <1>1, <1>3 DEF Wrap

\* A change of the counter by d, counted in the history, does not wrap it
\* while the history is short.
LEMMA Moved ==
  ASSUME IInv, NEW d \in Int,
         sampDelCnt' = Wrap(sampDelCnt + d),
         drift' = drift + (IF d < 0 THEN - d ELSE d)
  PROVE  /\ drift' \in Nat /\ sampDelCnt' \in Int
         /\ drift' < Half => /\ drift < Half /\ sampDelCnt' = sampDelCnt + d
                            /\ sampDelCnt' <= drift' /\ - sampDelCnt' <= drift'
<1> USE DEF IInv, DriftInv
<1>1. drift' \in Nat /\ drift <= drift' /\ Half \in Nat
  <2>1. drift \in Nat /\ Half \in Nat
    BY HalfAssumption
  <2>2. PICK e \in Nat : drift' = drift + e
    <3>1. CASE d < 0
      <4>1. - d \in Nat /\ drift' = drift + (- d)
        BY ONLY <3>1, d \in Int, drift' = drift + (IF d < 0 THEN - d ELSE d)
      <4> QED BY ONLY <4>1
    <3>2. CASE d >= 0
      <4>1. d \in Nat /\ drift' = drift + d
        BY ONLY <3>2, d \in Int, drift' = drift + (IF d < 0 THEN - d ELSE d)
      <4> QED BY ONLY <4>1
    <3> QED BY <3>1, <3>2
  <2> QED BY ONLY <2>1, <2>2
<1>2. sampDelCnt' \in Int
  BY WrapInt
<1>3. ASSUME drift' < Half
      PROVE  /\ sampDelCnt + d <= drift' /\ - (sampDelCnt + d) <= drift'
             /\ - Half <= sampDelCnt + d /\ sampDelCnt + d < Half
  BY <1>1, <1>3
<1>4. drift' < Half => Wrap(sampDelCnt + d) = sampDelCnt + d
  BY <1>3, WrapSmall
<1> QED BY <1>1, <1>2, <1>3, <1>4

\* A decoder that starts has a counter of 0.
LEMMA InitInv == Init => IInv
BY HalfAssumption DEF Init, IInv, DriftInv, SignInv

\* A new rate pushes every sample as often as it asks for.
LEMMA SetRateInv ==
  ASSUME IInv, NEW r \in Rates, SetRate(r) PROVE IInv'
<1>1. oversampling' = Oversampled(r) /\ out' = oversampling'
  BY SMT DEF SetRate
<1>2. r \in 1..MaxRate
  BY PlayoutAssumption
<1>3. oversampling' \in Nat
  <2>1. Oversampled(r) \in 1..16
    BY ONLY <1>2, Doublings
  <2> QED BY <1>1, <2>1, SMT
<1> QED BY <1>1, <1>3, SMT DEF SetRate, counters, IInv, DriftInv, SignInv

\* A turn of input() moves the counter by what it found.
LEMMA TurnInv ==
  ASSUME IInv, NEW fill \in Fills, Turn(fill) PROVE IInv'
<1>1. fill \in {"low", "mid", "full"}
  BY FillsAssumption
<1>2. sampCntAdd' \in Int
  BY <1>1, WrapInt DEF Turn, IInv, DriftInv
<1>3. /\ drift' \in Nat /\ sampDelCnt' \in Int
      /\ drift' < Half => /\ drift < Half /\ sampDelCnt' = sampDelCnt + sampCntAdd'
                         /\ sampDelCnt' <= drift' /\ - sampDelCnt' <= drift'
  BY <1>2, Moved DEF Turn
<1>4. UNCHANGED <<oversampling, out>>
  BY DEF Turn, rate
<1>5. DriftInv'
  BY <1>2, <1>3, <1>4 DEF IInv, DriftInv
<1>6. always' \in {"none", "full"} => always \in {"none", "full"} /\ sampCntAdd' = -1
  BY <1>1 DEF Turn
<1>7. always' \in {"none", "low"} => always \in {"none", "low"} /\ sampCntAdd' = 10
  BY <1>1 DEF Turn
<1>8. SignInv'
  BY <1>3, <1>4, <1>6, <1>7 DEF IInv, DriftInv, SignInv
<1> QED BY <1>5, <1>8 DEF IInv

\* A correction moves the counter away from 0.
LEMMA SampleInv == ASSUME IInv, Sample PROVE IInv'
<1>1. UNCHANGED <<oversampling, sampCntAdd, always>>
  BY DEF Sample, rate
<1>2. CASE UNCHANGED <<sampDelCnt, drift>> /\ out' = oversampling
  BY <1>1, <1>2 DEF IInv, DriftInv, SignInv
<1>3. CASE sampDelCnt < 0 /\ out' = 0 /\ sampDelCnt' = Wrap(sampDelCnt - 1)
           /\ drift' = drift + 1
  <2>1. sampDelCnt' = Wrap(sampDelCnt + (-1)) /\ sampDelCnt \in Int
    BY <1>3 DEF IInv, DriftInv
  <2>2. /\ drift' \in Nat /\ sampDelCnt' \in Int
        /\ drift' < Half => /\ drift < Half /\ sampDelCnt' = sampDelCnt + (-1)
                           /\ sampDelCnt' <= drift' /\ - sampDelCnt' <= drift'
    BY <1>3, <2>1, Moved
  <2> QED BY <1>1, <1>3, <2>1, <2>2 DEF IInv, DriftInv, SignInv
<1>4. CASE sampDelCnt > 0 /\ out' = oversampling + 1 /\ sampDelCnt' = Wrap(sampDelCnt + 1)
           /\ drift' = drift + 1
  <2>1. /\ drift' \in Nat /\ sampDelCnt' \in Int
        /\ drift' < Half => /\ drift < Half /\ sampDelCnt' = sampDelCnt + 1
                           /\ sampDelCnt' <= drift' /\ - sampDelCnt' <= drift'
    BY <1>4, Moved
  <2> QED BY <1>1, <1>4, <2>1 DEF IInv, DriftInv, SignInv
<1> QED BY <1>2, <1>3, <1>4 DEF Sample, IInv, DriftInv

\* IInv is inductive.
LEMMA StepInv == ASSUME IInv, [Next]_vars PROVE IInv'
<1>1. CASE Restart
  BY <1>1, HalfAssumption DEF Restart, IInv, DriftInv, SignInv
<1>2. CASE UNCHANGED vars
  BY <1>2 DEF vars, rate, counters, IInv, DriftInv, SignInv
<1> QED BY <1>1, <1>2, SetRateInv, TurnInv, SampleInv DEF Next

\* Until sampDelCnt wraps, the correction has the right sign.
THEOREM RightSign == Spec => []RightUntilWrap
<1>1. IInv /\ [Next]_vars => IInv'
  BY StepInv
<1>2. IInv => RightUntilWrap
  BY DEF IInv, SignInv, RightUntilWrap
<1> QED BY <1>1, <1>2, InitInv, PTL DEF Spec

\* The clock can be set to the rate that is asked of it.
ClockFits == \A r \in Rates : I2sClock(r * 2^Oversampled(r)) = 2 * Oversampled(r) * r

\* Then a stream is played at its own rate: no restart and no change of rate
\* leaves a clock behind that belongs to another stream.
THEOREM OwnRate == ASSUME ClockFits PROVE Spec => []RateExact
<1>1. Init => RateExact
  BY DEF Init, RateExact
<1>2. RateExact /\ [Next]_vars => RateExact'
  <2> SUFFICES ASSUME RateExact, [Next]_vars PROVE RateExact'
    OBVIOUS
  <2>1. ASSUME NEW r \in Rates, SetRate(r) PROVE RateExact'
    BY <2>1 DEF SetRate, ClockFits, RateExact
  <2>2. ASSUME NEW fill \in Fills, Turn(fill) PROVE RateExact'
    BY <2>2 DEF Turn, rate, RateExact
  <2>3. CASE Sample \/ UNCHANGED vars
    BY <2>3 DEF Sample, vars, rate, RateExact
  <2>4. CASE Restart
    BY <2>4 DEF Restart, RateExact
  <2> QED BY <2>1, <2>2, <2>3, <2>4 DEF Next
<1> QED BY <1>1, <1>2, PTL DEF Spec
---------------------------------------------------------------------------
(* Types.                                                                  *)

\* Whatever is put into a signed char, it stays one.
LEMMA WrapChar == ASSUME NEW x \in Int PROVE Wrap(x) \in Char
<1>1. PICK m \in Nat : m = 2 * Half /\ m > 0 /\ Half \in Nat
  BY HalfAssumption
<1>2. PICK y \in Int : y = x + Half
  BY <1>1
<1>3. \A a, b \in Int : b > 0 => a % b \in 0..(b - 1)
  OBVIOUS
<1>4. y % m \in 0..(m - 1)
  BY <1>1, <1>3
<1>5. Wrap(x) = (y % m) - Half
  BY <1>1, <1>2 DEF Wrap
<1>6. PICK z \in 0..(m - 1) : z = y % m
  BY <1>4
<1> QED BY <1>1, <1>5, <1>6 DEF Char

\* What the counters of a decoder are set to.
LEMMA CharFacts ==
  0 \in Char /\ -1 \in Char /\ 10 \in Char /\ Char \subseteq Int
  /\ \A x \in Char : x <= Half /\ - x <= Half
BY HalfAssumption DEF Char

\* No counter leaves its range, the clock has one of its rates, and a sample
\* is pushed at most 17 times.
THEOREM TypeCorrect == Spec => []TypeOK
<1>1. Init => TypeOK
  BY CharFacts, PlayoutAssumption, HalfAssumption DEF Init, TypeOK, Clocks
<1>2. TypeOK /\ [Next]_vars => TypeOK'
  <2> SUFFICES ASSUME TypeOK, [Next]_vars PROVE TypeOK'
    OBVIOUS
  <2>0. /\ Half \in Nat /\ MaxDrift \in Nat /\ Period \in Nat /\ drift \in Nat
        /\ sampCntAdd \in Int /\ sampDelCnt \in Int /\ Restarts \in Nat
    BY CharFacts, PlayoutAssumption, HalfAssumption DEF TypeOK
  <2>1. ASSUME NEW r \in Rates, SetRate(r) PROVE TypeOK'
    <3>1. r \in 1..MaxRate
      BY PlayoutAssumption
    <3>2. oversampling' \in 1..16 /\ r * Twice(Oversampled(r)) \in Nat
      BY <2>1, <3>1, Doublings DEF SetRate
    <3>3. hwRate' \in Clocks \cup {7350}
      <4>1. hwRate' = I2sClock(r * Twice(Oversampled(r)))
        BY <2>1 DEF SetRate, Twice
      <4> QED BY <3>2, <4>1, ClockType
    <3>4. out' \in 0..17 /\ oldRate' \in Rates \cup {0}
      BY <2>1, <3>2 DEF SetRate
    <3> QED BY <2>1, <3>2, <3>3, <3>4 DEF SetRate, counters, TypeOK
  <2>2. ASSUME NEW fill \in Fills, Turn(fill) PROVE TypeOK'
    <3>1. fill \in {"low", "mid", "full"}
      BY FillsAssumption
    <3>2. sampCntAdd' \in Char
      BY <2>0, <2>2, <3>1, WrapChar, CharFacts DEF Turn
    <3>3. sampDelCnt' \in Char
      <4>1. sampDelCnt + sampCntAdd' \in Int
        BY <2>0, <3>2, CharFacts
      <4> QED BY <2>2, <4>1, WrapChar DEF Turn
    <3>4. drift' \in 0..(MaxDrift + Half)
      <4>1. PICK d \in Int : d = sampCntAdd' /\ d <= Half /\ - d <= Half
        BY <3>2, CharFacts
      <4>2. drift < MaxDrift /\ drift' = drift + (IF d < 0 THEN - d ELSE d)
        BY <2>2, <4>1 DEF Turn
      <4>3. PICK e \in Nat : e <= Half /\ drift' = drift + e
        <5>1. CASE d < 0
          <6>1. - d \in Nat /\ drift' = drift + (- d)
            BY ONLY <4>2, <5>1, d \in Int
          <6> QED BY <4>1, <6>1
        <5>2. CASE ~ (d < 0)
          <6>1. d \in Nat /\ drift' = drift + d
            BY ONLY <4>2, <5>2, d \in Int
          <6> QED BY <4>1, <6>1
        <5> QED BY <5>1, <5>2
      <4> QED BY ONLY <2>0, <4>2, <4>3
    <3>5. always' \in {"none", "mixed"} \cup Fills
      BY <2>2 DEF Turn
    <3>6. UNCHANGED <<oldRate, oversampling, hwRate, sampCnt, out, restarts>>
      BY <2>2 DEF Turn, rate
    <3> QED BY <3>2, <3>3, <3>4, <3>5, <3>6 DEF TypeOK
  <2>3. CASE Sample
    <3>1. UNCHANGED <<rate, sampCntAdd, always, restarts>> /\ drift < MaxDrift
      BY <2>3 DEF Sample
    <3>2. sampCnt' \in 0..Period
      BY <2>0, <2>3 DEF Sample, TypeOK
    <3>3. out' \in 0..17
      BY <2>0, <2>3 DEF Sample, TypeOK
    <3>4. sampDelCnt' \in Char
      <4>1. Wrap(sampDelCnt - 1) \in Char /\ Wrap(sampDelCnt + 1) \in Char
        BY <2>0, WrapChar
      <4> QED BY <2>0, <2>3, <4>1, CharFacts DEF Sample, TypeOK
    <3>5. drift' \in 0..(MaxDrift + Half)
      <4>1. drift' \in {drift, drift + 1}
        BY <2>3 DEF Sample
      <4>2. Half > 0
        BY HalfAssumption
      <4> QED BY ONLY <2>0, <3>1, <4>1, <4>2
    <3> QED BY <3>1, <3>2, <3>3, <3>4, <3>5 DEF rate, TypeOK
  <2>4. CASE Restart
    <3>1. restarts' \in 0..Restarts
      BY <2>0, <2>4 DEF Restart, TypeOK
    <3> QED BY <2>0, <2>4, <3>1, CharFacts DEF Restart, TypeOK, Clocks
  <2>5. CASE UNCHANGED vars
    BY <2>5 DEF vars, rate, counters, TypeOK
  <2> QED BY <2>1, <2>2, <2>3, <2>4, <2>5 DEF Next
<1> QED BY <1>1, <1>2, PTL DEF Spec

---------------------------------------------------------------------------
(* The rates for which the clock fits.                                     *)

\* The rates of CD and DAT, their halves, and the lowest one.
FittingRates == {8000, 22050, 24000, 44100, 48000}

\* The clock has the rate that is asked of it after one or two doublings; after the
\* three of 8 kHz it has three quarters of it, which is what three pushes need.
LEMMA FittingClock ==
  ASSUME NEW r \in FittingRates
  PROVE  I2sClock(r * 2^Oversampled(r)) = 2 * Oversampled(r) * r
<1>1. r \in 1..MaxRate /\ (r = 8000 \/ r = 22050 \/ r = 24000 \/ r = 44100 \/ r = 48000)
  BY SMT DEF FittingRates, MaxRate
<1>2. PICK k \in 1..16 : /\ k = Oversampled(r) /\ r * Twice(k) > MaxRate
                         /\ k > 1 => r * Twice(k - 1) <= MaxRate
  BY <1>1, Doublings
<1>3. k <= 3
  <2> SUFFICES ASSUME k > 3 PROVE FALSE
    OBVIOUS
  <2>1. k - 1 \in 1..16 /\ k - 1 > 2 /\ k > 1
    BY ONLY k \in 1..16, k > 3
  <2>2. PICK p \in Nat : p = Twice(k - 1) /\ p >= 8
    BY <2>1, TwiceFacts
  <2>3. r * p <= MaxRate
    BY <1>2, <2>1, <2>2
  <2> QED BY ONLY <1>1, <2>2, <2>3, p \in Nat, SMT DEF MaxRate
<1>4. \/ 2 * k * r = r * Twice(k) /\ r * Twice(k) \in {88200, 96000}
      \/ 2 * k * r = 48000 /\ r * Twice(k) = 64000
  <2>1. CASE k = 1
    <3>1. r * 2 > MaxRate
      BY <1>2, <2>1, TwiceFacts
    <3>2. r = 44100 \/ r = 48000
      BY ONLY <1>1, <3>1, SMT DEF MaxRate
    <3> QED BY ONLY <2>1, <3>2, TwiceFacts, SMT
  <2>2. CASE k = 2
    <3>1. r * 2 <= MaxRate /\ r * 4 > MaxRate
      <4>1. k > 1 /\ k - 1 = 1
        BY ONLY <2>2
      <4> QED BY <1>2, <2>2, <4>1, TwiceFacts
    <3>2. r = 22050 \/ r = 24000
      BY ONLY <1>1, <3>1, SMT DEF MaxRate
    <3> QED BY ONLY <2>2, <3>2, TwiceFacts, SMT
  <2>3. CASE k = 3
    <3>1. r * 4 <= MaxRate
      <4>1. k > 1 /\ k - 1 = 2
        BY ONLY <2>3
      <4> QED BY <1>2, <4>1, TwiceFacts
    <3>2. r = 8000
      BY ONLY <1>1, <3>1, SMT DEF MaxRate
    <3> QED BY ONLY <2>3, <3>2, TwiceFacts, SMT
  <2> QED BY <1>3, <2>1, <2>2, <2>3
<1>5. ASSUME NEW c, NEW d, (c = d /\ c \in {88200, 96000}) \/ (c = 64000 /\ d = 48000)
      PROVE  I2sClock(c) = d
  <2> DEFINE S == {e \in Clocks : e <= c} \cup {7350}
  <2>1. d \in S /\ \A e \in S : e \in Nat /\ d >= e
    BY <1>5, SMT DEF Clocks
  <2>2. I2sClock(c) = Max(S)
    BY SMT DEF I2sClock
  <2> HIDE DEF S
  <2>3. d \in Nat
    BY <1>5, SMT
  <2>4. Max(S) = d
    <3>1. Max(S) \in S /\ \A e \in S : Max(S) >= e
      BY ONLY <2>1 DEF Max
    <3>2. PICK m \in Nat : m = Max(S)
      BY ONLY <2>1, <3>1
    <3>3. m >= d /\ d >= m
      BY ONLY <2>1, <3>1, <3>2
    <3> QED BY ONLY <2>3, <3>2, <3>3
  <2> QED BY ONLY <2>2, <2>4
<1>6. I2sClock(r * Twice(k)) = 2 * k * r
  <2>1. PICK c, d : c = r * Twice(k) /\ d = 2 * k * r
    OBVIOUS
  <2>2. (c = d /\ c \in {88200, 96000}) \/ (c = 64000 /\ d = 48000)
    BY ONLY <1>4, <2>1
  <2>3. I2sClock(c) = d
    BY ONLY <1>5, <2>2
  <2> QED BY ONLY <2>1, <2>3
<1>7. I2sClock(r * 2^Oversampled(r)) = I2sClock(r * Twice(k))
  BY <1>2 DEF Twice
<1> QED BY ONLY <1>2, <1>6, <1>7

\* So streams of these rates are played at their own speed, across every
\* change of rate and every start of the decoder.
THEOREM FittingExact == ASSUME Rates \subseteq FittingRates PROVE Spec => []RateExact
<1>1. ClockFits
  BY FittingClock DEF ClockFits
<1> QED BY <1>1, OwnRate
=============================================================================

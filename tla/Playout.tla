------------------------------ MODULE Playout ------------------------------
(***************************************************************************)
(* The speed at which sound is played: the rate set in the I2S clock       *)
(* (set_dac_sample_rate and i2sSetRate), and the samples that the decoder  *)
(* drops or repeats to follow the clock of the server (ADD_DEL_SAMPLES in  *)
(* input() and render_sample_block).  tskmad does all of it.               *)
(*                                                                         *)
(* The counters are signed chars: Half is 128 in the code.                 *)
(***************************************************************************)
EXTENDS Integers, FiniteSets, FiniteSetsExt

CONSTANTS Rates,      \* rates of the streams, in Hz
          Half,       \* half the range of sampCntAdd and sampDelCnt
          Period,     \* 150: samples between two corrections
          Fills,      \* what input() may find in the FIFO
          MaxDrift,   \* bound: how far the history of the counter is followed
          Restarts    \* bound: starts of the decoder after the first

\* No MP3 stream has more samples a second, and no rate is doubled beyond this.
MaxRate == 48000

ASSUME PlayoutAssumption ==
  /\ Rates \subseteq 1..MaxRate /\ Period \in Nat
  /\ MaxDrift \in Nat /\ Restarts \in Nat
\* The corrections that input() asks for, at most 10, fit in a counter.
ASSUME HalfAssumption == Half \in Nat /\ Half > 10
\* input() tells three fillings apart.
ASSUME FillsAssumption == Fills \subseteq {"low", "mid", "full"}

VARIABLES oldRate, oversampling,
          hwRate,        \* the rate in the I2S clock: frames of 2 x 24 bits a second
          sampCnt, sampCntAdd, sampDelCnt,
          out,           \* how often the last sample was pushed
          always,        \* history: what input() has found so far every time
          drift,         \* history: sum of all changes of sampDelCnt
          restarts

counters == <<sampCnt, sampCntAdd, sampDelCnt>>
rate     == <<oldRate, oversampling, hwRate>>
vars     == <<rate, counters, out, always, drift, restarts>>

\* Arithmetic of a signed char.
WrapNot(x) == x
Wrap(x) == ((x + Half) % (2 * Half)) - Half

Init ==
  /\ oldRate = 0 /\ oversampling = 1 /\ hwRate = 96000
  /\ sampCnt = 0 /\ sampCntAdd = 0 /\ sampDelCnt = 0
  /\ out = 1 /\ always = "none" /\ drift = 0 /\ restarts = Restarts

---------------------------------------------------------------------------
(* i2sSetRate.  A pushed sample takes 96 bits, two frames: the rate is     *)
(* doubled once for that and then until it exceeds 48000, and each of the  *)
(* latter doublings pushes every sample once more.                         *)

Oversampled(r) == CHOOSE k \in 1..16 : r * 2^k > MaxRate /\ (k > 1 => r * 2^(k - 1) <= MaxRate)

Clocks == {96000, 88200, 48000, 44100, 32000, 24000, 22050, 16000, 11020, 8000}
I2sClock(r) == Max({c \in Clocks : c <= r} \cup {7350})

\* set_dac_sample_rate, called for every frame: only a new rate is set.
SetRate(r) ==
  /\ r # oldRate
  /\ oldRate' = r
  /\ oversampling' = Oversampled(r)
  /\ hwRate' = I2sClock(r * 2^Oversampled(r))
  /\ out' = oversampling'
  /\ UNCHANGED <<counters, always, drift, restarts>>

---------------------------------------------------------------------------
(* ADD_DEL_SAMPLES.                                                        *)

TurnSwapped(fill) ==
  /\ drift < MaxDrift
  /\ sampCntAdd' = CASE fill = "low"  -> -1
                     [] fill = "full" -> 10
                     [] fill = "mid"  -> Wrap(sampCntAdd + 1)
  /\ sampDelCnt' = Wrap(sampDelCnt + sampCntAdd')
  /\ drift' = drift + (IF sampCntAdd' < 0 THEN - sampCntAdd' ELSE sampCntAdd')
  /\ always' = IF always \in {"none", fill} THEN fill ELSE "mixed"
  /\ UNCHANGED <<rate, sampCnt, out, restarts>>

\* One turn of the loop of input(), which found the FIFO nearly empty, full,
\* or in between.
Turn(fill) ==
  /\ drift < MaxDrift
  /\ sampCntAdd' = CASE fill = "low"  -> 10
                     [] fill = "full" -> -1
                     [] fill = "mid"  -> Wrap(sampCntAdd + 1)
  /\ sampDelCnt' = Wrap(sampDelCnt + sampCntAdd')
  /\ drift' = drift + (IF sampCntAdd' < 0 THEN - sampCntAdd' ELSE sampCntAdd')
  /\ always' = IF always \in {"none", fill} THEN fill ELSE "mixed"
  /\ UNCHANGED <<rate, sampCnt, out, restarts>>

\* One sample of render_sample_block; every Period-th is dropped or pushed once
\* more, and the counter moves on by one.
Sample ==
  /\ drift < MaxDrift /\ oldRate # 0
  /\ IF sampCnt + 1 > Period
       THEN /\ sampCnt' = 0
            /\ out' = CASE sampDelCnt < 0 -> 0
                        [] sampDelCnt > 0 -> oversampling + 1
                        [] sampDelCnt = 0 -> oversampling
            /\ sampDelCnt' = CASE sampDelCnt < 0 -> Wrap(sampDelCnt - 1)
                               [] sampDelCnt > 0 -> Wrap(sampDelCnt + 1)
                               [] sampDelCnt = 0 -> 0
            /\ drift' = IF sampDelCnt = 0 THEN drift ELSE drift + 1
       ELSE /\ sampCnt' = sampCnt + 1
            /\ out' = oversampling
            /\ UNCHANGED <<sampDelCnt, drift>>
  /\ UNCHANGED <<rate, sampCntAdd, always, restarts>>

RestartKeepsRate ==
  /\ restarts > 0 /\ restarts' = restarts - 1
  /\ oversampling' = 1 /\ hwRate' = 96000
  /\ sampCnt' = 0 /\ sampCntAdd' = 0 /\ sampDelCnt' = 0
  /\ out' = 1 /\ always' = "none" /\ drift' = 0
  /\ UNCHANGED oldRate

\* tskmad starts again: i2sInit sets 96 kHz, and everything is forgotten.
Restart ==
  /\ restarts > 0 /\ restarts' = restarts - 1
  /\ oldRate' = 0 /\ oversampling' = 1 /\ hwRate' = 96000
  /\ sampCnt' = 0 /\ sampCntAdd' = 0 /\ sampDelCnt' = 0
  /\ out' = 1 /\ always' = "none" /\ drift' = 0

Next ==
  \/ \E r \in Rates : SetRate(r)
  \/ \E fill \in Fills : Turn(fill)
  \/ Sample \/ Restart

Spec == Init /\ [][Next]_vars

---------------------------------------------------------------------------
(* Properties.                                                             *)

Char == (- Half)..(Half - 1)

TypeOK ==
  /\ oldRate \in Rates \cup {0} /\ oversampling \in 1..16
  /\ hwRate \in Clocks \cup {7350}
  /\ sampCnt \in 0..Period /\ sampCntAdd \in Char /\ sampDelCnt \in Char
  /\ out \in 0..17 /\ restarts \in 0..Restarts
  /\ always \in {"none", "mixed"} \cup Fills /\ drift \in 0..(MaxDrift + Half)

\* A stream is played at its own speed: the clock makes exactly two frames for
\* each of the pushes of a sample (i2sSetRate, lines 154-171), across every
\* change of rate and every start of the decoder.
RateExact == oldRate # 0 => hwRate = 2 * oversampling * oldRate

\* Until the counter wraps the correction has the right sign: a FIFO that was
\* full every time is emptied faster, one that was nearly empty every time is
\* emptied more slowly.
RightUntilWrap ==
  drift < Half =>
    /\ always = "full" => out <= oversampling
    /\ always = "low"  => out >= oversampling

=============================================================================

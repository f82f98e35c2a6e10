------------------------------- MODULE PwmDac -------------------------------
(***************************************************************************)
(* The makeshift PWM converter of i2sPushPWMSamples (i2s_freertos.c): a    *)
(* 16-bit sample becomes 96 bits of which a linearly related number is set,*)
(* and what the 97 levels cannot express is added to the next sample of    *)
(* the same channel.                                                       *)
(*                                                                         *)
(* A pushed sample carries both channels.  A word of the page is its       *)
(* number of ones among the 24 bits that are sent: (1 << k) - 1 has k, all *)
(* ones has 24.  Where the words go is in I2sDma.                          *)
(***************************************************************************)
EXTENDS Integers

Channels == {0, 1}
FullScale == 65535

CONSTANTS Samples,   \* pushed samples: their lower and upper half, as they are in memory
          MaxOwed    \* bound: how far the history of the losses is followed

ASSUME SampleAssumption == Samples \subseteq [Channels -> 0..FullScale] /\ MaxOwed \in Nat

Step     == 65536 \div 97    \* (u16)(0x10000/97), the value of one bit

VARIABLES sampl_err,   \* sampl_err[i]: pi2s[i]->sampl_err
          owed,        \* history: asked for and not sent since the last reset
          loud         \* history: a sample asked for more than 96 ones since then

pwmVars == <<sampl_err, owed, loud>>

PwmInit ==
  /\ sampl_err = [i \in Channels |-> 0]
  /\ owed = [i \in Channels |-> 0] /\ loud = [i \in Channels |-> FALSE]

---------------------------------------------------------------------------
(* One sample.                                                             *)

\* (s16)half + 0x8000: the two's complement half from the lowest level up.
Level(half) == (IF half < 32768 THEN half ELSE half - 65536) + 32768

\* if (smp > 0xffff) smp = 0xffff; else if (smp < 0) smp = 0;
ClipNot(smp) == smp
Clip(smp) == IF smp > FullScale THEN FullScale ELSE IF smp < 0 THEN 0 ELSE smp

\* x ones, 24 to a word.  From 96 on the sample is full.
EncodeLate(x) ==
  CASE x < 24             -> <<x, 0, 0, 0>>
    [] x >= 24 /\ x < 48  -> <<24, x - 24, 0, 0>>
    [] x >= 48 /\ x <= 72 -> <<24, 24, x - 48, 0>>
    [] x > 72 /\ x < 96   -> <<24, 24, 24, x - 71>>
    [] x >= 96            -> <<24, 24, 24, 24>>

Encode(x) ==
  CASE x < 24            -> <<x, 0, 0, 0>>
    [] x >= 24 /\ x < 48 -> <<24, x - 24, 0, 0>>
    [] x >= 48 /\ x < 72 -> <<24, 24, x - 48, 0>>
    [] x >= 72 /\ x < 96 -> <<24, 24, 24, x - 72>>
    [] x >= 96           -> <<24, 24, 24, 24>>

\* The error that is kept for the next sample.
RemainderOfSent(smp, x) == smp - (IF x > 96 THEN 96 ELSE x) * Step
Remainder(smp, x) == smp - x * Step

Ones(w) == w[1] + w[2] + w[3] + w[4]

\* i2sPushPWMSamples: halves[0] goes to pi2s[0], the upper half to pi2s[1].
Push(halves) ==
  LET raw(i)   == Level(halves[i]) + sampl_err[i]
      x(i)     == Clip(raw(i)) \div Step
  IN /\ \A i \in Channels : owed[i] <= MaxOwed
     /\ sampl_err' = [i \in Channels |-> Remainder(Clip(raw(i)), x(i))]
     /\ owed' = [i \in Channels |-> owed[i] + Level(halves[i]) - Step * Ones(Encode(x(i)))]
     /\ loud' = [i \in Channels |-> loud[i] \/ Level(halves[i]) > 96 * Step]

\* i2sInit and i2sSetRate forget the error.
Reset ==
  /\ sampl_err' = [i \in Channels |-> 0]
  /\ owed' = [i \in Channels |-> 0] /\ loud' = [i \in Channels |-> FALSE]

PwmNext == Reset \/ \E halves \in Samples : Push(halves)

PwmSpec == PwmInit /\ [][PwmNext]_pwmVars

---------------------------------------------------------------------------
(* Properties.                                                             *)

\* The error is less than one bit is worth.
PwmTypeOK ==
  /\ sampl_err \in [Channels -> 0..(Step - 1)]
  /\ owed \in [Channels -> Nat] /\ loud \in [Channels -> BOOLEAN]

\* The ones sent are linear in the samples however long the piece is: as long
\* as none was too loud, all that was asked for has been sent but the error
\* kept, which is less than one bit (lines 213-217; playerconfig.h promises
\* "an amount of 1's set that's linearily related to the sound samples value").
NothingLost == \A i \in Channels : ~ loud[i] => owed[i] = sampl_err[i]

\* What a sample that is too loud loses is lost at once and is less than two
\* bits: it never comes back as an error of the samples that follow, and
\* nothing is sent that was not asked for.
ClipLosesLittle ==
  [][\A halves \in Samples : Push(halves) =>
       \A i \in Channels :
         (owed'[i] - sampl_err'[i]) - (owed[i] - sampl_err[i]) \in 0..(2 * Step - 1)]_pwmVars
=============================================================================

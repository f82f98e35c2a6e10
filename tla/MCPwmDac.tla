----------------------------- MODULE MCPwmDac -----------------------------
(***************************************************************************)
(* TLC instances of PwmDac.                                                *)
(***************************************************************************)
EXTENDS PwmDac

\* Halves: silence and the smallest steps around it, both ends of the scale, the
\* largest level that fits and the first that does not, and the borders of the
\* words.  The channels differ by some bits, or one of them is too loud.
Halves == {0, 1, 15000, 16199, 16200, 32032, 32033, 32767, 32768, 33500, 48967, 48968, 65535}

MCSamples ==
  {[i \in Channels |-> h] : h \in Halves}
    \cup {[i \in Channels |-> h + Step * (1 - i)] : h \in {1, 15000, 33500}}
    \cup {[i \in Channels |-> IF i = 0 THEN 32767 ELSE 32768]}
=============================================================================

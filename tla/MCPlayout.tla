----------------------------- MODULE MCPlayout -----------------------------
(***************************************************************************)
(* TLC instances of Playout.                                               *)
(***************************************************************************)
EXTENDS Playout
=============================================================================

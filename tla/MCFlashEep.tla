---------------------------- MODULE MCFlashEep ----------------------------
(***************************************************************************)
(* TLC instances of FlashEep: programming a word clears bits.              *)
(***************************************************************************)
EXTENDS FlashEep, Bitwise

BitwiseAnd(v, w) == v & w
=============================================================================

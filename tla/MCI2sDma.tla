----------------------------- MODULE MCI2sDma -----------------------------
(***************************************************************************)
(* TLC instances of I2sDma.                                                *)
(***************************************************************************)
EXTENDS I2sDma
=============================================================================

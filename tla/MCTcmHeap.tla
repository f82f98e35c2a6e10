----------------------------- MODULE MCTcmHeap ------------------------------
(***************************************************************************)
(* Instance of TcmHeap for TLC.                                            *)
(***************************************************************************)
EXTENDS TcmHeap
=============================================================================

---------------------------- MODULE MCDeviceLock ----------------------------
(***************************************************************************)
(* TLC instance of DeviceLock: the tasks and devices are given by the cfg. *)
(***************************************************************************)
EXTENDS DeviceLock
=============================================================================

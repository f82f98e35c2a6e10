----------------------------- MODULE MCWifiScan -----------------------------
(***************************************************************************)
(* TLC instance of WifiScan: the network and the memory are given by the   *)
(* cfg.                                                                    *)
(***************************************************************************)
EXTENDS WifiScan
=============================================================================

---------------------------- MODULE MCWifiManager ----------------------------
(* WifiManager for TLC: the threads are model values given in the cfg files. *)
EXTENDS WifiManager
=============================================================================

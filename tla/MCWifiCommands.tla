--------------------------- MODULE MCWifiCommands ---------------------------
(* WifiCommands for TLC: one network is saved, another may be added.         *)
EXTENDS WifiCommands
=============================================================================

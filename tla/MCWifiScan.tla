----------------------------- MODULE MCWifiScan -----------------------------
(* WifiScan for TLC; the configurations give the bounds.                    *)
EXTENDS WifiScan
=============================================================================

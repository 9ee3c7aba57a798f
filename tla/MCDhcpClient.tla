---------------------------- MODULE MCDhcpClient -----------------------------
(* DhcpClient for TLC: the bounds are given in the cfg files. *)
EXTENDS DhcpClient
=============================================================================

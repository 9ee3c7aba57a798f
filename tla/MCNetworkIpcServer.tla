------------------------- MODULE MCNetworkIpcServer --------------------------
(* NetworkIpcServer for TLC: two consumers, interchangeable in safety runs. *)
EXTENDS NetworkIpcInput, NetworkIpcStream, TLC

CONSTANTS hmi, tool

MCConsumers == {hmi, tool}
ConsumerSymmetry == Permutations(MCConsumers)
=============================================================================

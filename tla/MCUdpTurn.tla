----------------------------- MODULE MCUdpTurn ------------------------------
(* Values for the constants of UdpTurn. *)
EXTENDS UdpTurn, TLC

CONSTANTS a1, a2, a3, i1, i2

ClientSymmetry == Permutations(Addr) \cup Permutations(Id)
=============================================================================

------------------------------ MODULE MCPairing ------------------------------
(* Pairing on a small instance: every key is named by where it comes from. *)
EXTENDS Pairing

MCKey == [from : {"code"}, n : 1..MaxWindows] \cup [from : {"number"}, n : 1..MaxReveals]
=============================================================================

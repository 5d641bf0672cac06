------------------------------ MODULE MCReplay ------------------------------
(* Replay for TLC: a client with two records, and one whose second record  *)
(* is due before its first.                                                *)
EXTENDS Replay

MCClients == {"c1", "c2"}
MCFrail == {"c1"}
MCTimes == [c1 |-> <<0, 1>>, c2 |-> <<1, 0>>]
MCCompress == [c1 |-> "zlib2", c2 |-> "none"]
=============================================================================

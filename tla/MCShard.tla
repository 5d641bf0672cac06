------------------------------ MODULE MCShard ------------------------------
(* Shard for TLC: the solver's minima scaled to the number of users.       *)
EXTENDS Shard, TLC

Symm == Permutations(Users)
=============================================================================

------------------------------ MODULE MCServer ------------------------------
(* Server for TLC: a feeder that reconnects from its position, and a feeder  *)
(* in the next base cell.  SplitAt = 0 splits a cell at its first receiver, *)
(* so three connections reach what takes a crowded cell in the code.        *)
EXTENDS Server

CONSTANTS a1, a2, c1

Who == [c \in {a1, a2, c1} |-> IF c = c1 THEN "c" ELSE "a"]

Where == [c \in {a1, a2, c1} |-> IF c = c1 THEN <<0, 2>> ELSE <<1, 1>>]

Sites == {<<1, 1>>, <<0, 2>>}
=============================================================================

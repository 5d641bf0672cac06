------------------------------ MODULE MCRouter ------------------------------
(* Router for TLC: a strip of positions across two or three base cells,     *)
(* each base cell two units wide.                                          *)
EXTENDS Router

Strip == {<<0, 0>>, <<1, 1>>, <<0, 2>>, <<0, 3>>, <<1, 5>>}
=============================================================================

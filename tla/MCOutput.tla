------------------------------ MODULE MCOutput ------------------------------
(* Output for TLC: two neighbouring base cells and one aircraft that crosses *)
(* their border.                                                            *)
EXTENDS Output

Border == {<<0, 0>>, <<0, 1>>}
=============================================================================

----------------------------- MODULE MCGenerate -----------------------------
(* Generate for TLC: one aircraft with positions and one without.          *)
EXTENDS Generate

MCAdsb == {"a"}
MCModesOnly == {"m"}
MCNone == {}
MCBoth == {"a", "m"}
MCStarts == {60}
MCNoWrap == {0}
MCGaps == {0, 1, 11}
MCDelays == {<<3, 0, 1>>}
MCRanges == [a |-> {2, 3}, m |-> {0}]
=============================================================================

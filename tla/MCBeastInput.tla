---------------------------- MODULE MCBeastInput ----------------------------
(* BeastInput for TLC: payloads of one or two bytes.                       *)
EXTENDS BeastInput

MCWant == [ac |-> 1, short |-> 1, long |-> 2]
MCDataBytes == {"esc", "short", "x"}
=============================================================================

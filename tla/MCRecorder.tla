----------------------------- MODULE MCRecorder -----------------------------
(* Recorder for TLC: a busy connection and one that sends its handshake.   *)
EXTENDS Recorder

MCConns == {"c1", "c2"}
MCMaxUp == [c1 |-> 1, c2 |-> 0]
MCMaxDown == [c1 |-> 1, c2 |-> 0]
=============================================================================

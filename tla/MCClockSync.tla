---------------------------- MODULE MCClockSync ----------------------------
(* ClockSync for TLC: the thresholds keep their order at a small scale.    *)
EXTENDS ClockSync
=============================================================================

----------------------------- MODULE MCTraffic -----------------------------
(* Traffic for TLC: two aircraft, and queues of one message.                *)
EXTENDS Traffic

CONSTANTS p, q

Planes == {p, q}
=============================================================================

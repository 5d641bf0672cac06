--------------------------- MODULE MCMessageLoop ---------------------------
(* MessageLoop for TLC; the configurations choose the mode and the timers.   *)
EXTENDS MessageLoop
=============================================================================

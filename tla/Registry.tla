------------------------------ MODULE Registry ------------------------------
(***************************************************************************)
(* What a shard promises its connections: every user has at most one live  *)
(* handle, a handle is never issued twice, and a removal that names a      *)
(* handle which is no longer live does nothing.  How slots are reused and  *)
(* how generations tell handles apart is left to Shard.                    *)
(***************************************************************************)
CONSTANTS Users, Handles

VARIABLES
  live,  \* user -> its live handle
  used   \* every handle issued so far

regVars == <<live, used>>

RegInit == live = <<>> /\ used = {}

\* A connection of user u is answered the unused handle h, which replaces
\* the user's previous one.
Issue(u, h) ==
  /\ h \notin used
  /\ live' = [v \in DOMAIN live \cup {u} |-> IF v = u THEN h ELSE live[v]]
  /\ used' = used \cup {h}

\* The live handle of user u is given up.
Drop(u) ==
  /\ u \in DOMAIN live
  /\ live' = [v \in DOMAIN live \ {u} |-> live[v]]
  /\ UNCHANGED used

RegNext ==
  \/ \E u \in Users, h \in Handles : Issue(u, h)
  \/ \E u \in Users : Drop(u)

RegSpec == RegInit /\ [][RegNext]_regVars
=============================================================================

------------------------------- MODULE Server -------------------------------
(***************************************************************************)
(* The life of mlatd's connections (handle_client in                       *)
(* crates/mlatd/src/main.rs) over the router and the shards' message       *)
(* queues.  A connection claims a shard, asks it for a slot, answers the   *)
(* handshake, runs its message loop, and on the way out gives slot and     *)
(* count back.  Each step between two awaits is an action, so connections  *)
(* of one user overlap in every order.                                     *)
(*                                                                         *)
(* A shard is its queue and the registry it implements (module Registry):  *)
(* the handle issued to a connection is the connection itself, and live[s] *)
(* maps users to the connection that holds their slot.  Each connection    *)
(* identifier is used once; a reconnect is another identifier of the same  *)
(* user.                                                                   *)
(***************************************************************************)
EXTENDS Router, Sequences, Functions

CONSTANTS
  Conns,   \* connection identifiers
  UserOf,  \* Conns -> user name in the handshake
  PosOf    \* Conns -> position in the handshake

ASSUME ServerAssumption ==
  \A c \in Conns : c \in DOMAIN UserOf /\ c \in DOMAIN PosOf /\ PosOf[c] \in Positions

VARIABLES
  pc,      \* where handle_client is
  home,    \* the shard the connection was routed to
  queue,   \* per shard, the ShardMsg channel
  live,    \* per shard, user -> connection that holds the slot
  order    \* history: connections in the order their slots were issued

connVars == <<pc, home, queue, live, order>>
vars == <<routerVars, connVars>>

Add(c) == [op |-> "add", conn |-> c]
Remove(c) == [op |-> "remove", conn |-> c]

\* The handshake is complete and valid: shard_for counts the receiver into a
\* shard.
Claim(c) ==
  \E s \in Shards :
    /\ pc[c] = "new"
    /\ ShardFor(PosOf[c], s)
    /\ pc' = [pc EXCEPT ![c] = "claimed"]
    /\ home' = [home EXCEPT ![c] = s]
    /\ UNCHANGED <<queue, live, order>>

\* AddReceiver is queued at the shard; the channel is bounded, so the send may
\* wait while other connections are routed.
SendAdd(c) ==
  /\ pc[c] = "claimed"
  /\ pc' = [pc EXCEPT ![c] = "adding"]
  /\ queue' = [queue EXCEPT ![home[c]] = Append(@, Add(c))]
  /\ UNCHANGED <<routerVars, home, live, order>>

\* The shard takes AddReceiver: the user's previous handle is replaced and
\* the waiting connection is answered.
TakeAdd(s) ==
  LET c == Head(queue[s]).conn
      u == UserOf[c]
  IN  /\ queue[s] # <<>> /\ Head(queue[s]).op = "add"
      /\ queue' = [queue EXCEPT ![s] = Tail(@)]
      /\ live' = [live EXCEPT ![s] =
                    [v \in DOMAIN @ \cup {u} |-> IF v = u THEN c ELSE live[s][v]]]
      /\ order' = Append(order, c)
      /\ pc' = [pc EXCEPT ![c] = "replying"]
      /\ UNCHANGED <<routerVars, home>>

\* Mutation: the removal names the user, not the handle.
HoldsByUser(s, c) == UserOf[c] \in DOMAIN live[s]

\* Connection c still holds its user's slot of shard s.
Holds(s, c) == UserOf[c] \in DOMAIN live[s] /\ live[s][UserOf[c]] = c

\* The shard takes RemoveReceiver: a stale handle changes nothing.
TakeRemove(s) ==
  LET c == Head(queue[s]).conn
  IN  /\ queue[s] # <<>> /\ Head(queue[s]).op = "remove"
      /\ queue' = [queue EXCEPT ![s] = Tail(@)]
      /\ live' = IF Holds(s, c)
                 THEN [live EXCEPT ![s] = [v \in DOMAIN @ \ {UserOf[c]} |-> live[s][v]]]
                 ELSE live
      /\ UNCHANGED <<routerVars, pc, home, order>>

\* The handshake reply is written and the message loop starts.
Reply(c) ==
  /\ pc[c] = "replying"
  /\ pc' = [pc EXCEPT ![c] = "open"]
  /\ UNCHANGED <<routerVars, home, queue, live, order>>

\* The handshake reply cannot be written: handle_client returns at once.
ReplyFails(c) ==
  /\ pc[c] = "replying"
  /\ pc' = [pc EXCEPT ![c] = "failed"]
  /\ UNCHANGED <<routerVars, home, queue, live, order>>

\* The message loop ends (end of stream, read error, bad frame).
Close(c) ==
  /\ pc[c] = "open"
  /\ pc' = [pc EXCEPT ![c] = "closing"]
  /\ UNCHANGED <<routerVars, home, queue, live, order>>

\* Mutation: the slot is not given back.
NoTeardownRemove(c) ==
  /\ pc[c] = "closing"
  /\ pc' = [pc EXCEPT ![c] = "removing"]
  /\ UNCHANGED <<routerVars, home, queue, live, order>>

\* Teardown: RemoveReceiver is queued.
TeardownRemove(c) ==
  /\ pc[c] = "closing"
  /\ pc' = [pc EXCEPT ![c] = "removing"]
  /\ queue' = [queue EXCEPT ![home[c]] = Append(@, Remove(c))]
  /\ UNCHANGED <<routerVars, home, live, order>>

\* Mutation: the count is given back to the shard that owns the position now.
ReleaseByPosition(c) ==
  /\ pc[c] = "removing"
  /\ pc' = [pc EXCEPT ![c] = "gone"]
  /\ Release(OwnerAt(PosOf[c]))
  /\ UNCHANGED <<home, queue, live, order>>

\* Teardown: the shard's receiver count goes down.
TeardownRelease(c) ==
  /\ pc[c] = "removing"
  /\ pc' = [pc EXCEPT ![c] = "gone"]
  /\ Release(home[c])
  /\ UNCHANGED <<home, queue, live, order>>

Init ==
  /\ RouterInit
  /\ pc = [c \in Conns |-> "new"]
  /\ home = [c \in Conns |-> None]
  /\ queue = [s \in Shards |-> <<>>]
  /\ live = [s \in Shards |-> <<>>]
  /\ order = <<>>

ShardStep(s) == TakeAdd(s) \/ TakeRemove(s)

Teardown(c) == TeardownRemove(c) \/ TeardownRelease(c)

Next ==
  \/ \E c \in Conns :
       Claim(c) \/ SendAdd(c) \/ Reply(c) \/ ReplyFails(c) \/ Close(c) \/ Teardown(c)
  \/ \E s \in Shards : ShardStep(s)
  \/ \E s \in Shards, r \in Rates : StoreRate(s, r) /\ UNCHANGED connVars

\* The shard tasks keep taking messages and a teardown that began runs on;
\* nothing obliges a feeder to connect or to leave.
Spec ==
  /\ Init /\ [][Next]_vars
  /\ \A s \in Shards : WF_vars(ShardStep(s))
  /\ \A c \in Conns : WF_vars(Teardown(c))

-----------------------------------------------------------------------------
(* Properties.                                                             *)

\* No connection was issued c's slot after c.
Latest(c) ==
  \E i \in DOMAIN order :
    /\ order[i] = c
    /\ \A j \in DOMAIN order : j > i => home[order[j]] # home[c] \/ UserOf[order[j]] # UserOf[c]

\* The shape of the connections' state, over the router's.
TypeOK ==
  /\ RouterTypeOK
  /\ pc \in [Conns -> {"new", "claimed", "adding", "replying", "open", "failed",
                       "closing", "removing", "gone"}]
  /\ home \in [Conns -> Shards \cup {None}]
  /\ queue \in [Shards -> Seq([op: {"add", "remove"}, conn: Conns])]
  /\ DOMAIN live = Shards /\ \A s \in Shards : Range(live[s]) \subseteq Conns
  /\ order \in Seq(Conns)

\* A reconnect survives the late teardown of the connection it replaced: the
\* connection that last got a user's slot holds it until its own removal is
\* taken (main.rs: "the generation guard makes this safe against a same-user
\* reconnect that already took the slot over").
ReconnectSurvives ==
  \A c \in Conns :
    pc[c] \in {"replying", "open", "closing"} /\ Latest(c) => Holds(home[c], c)

\* A slot is held only by a connection that will still give it back: one
\* that is open or on its way, or whose removal is queued; the exception is
\* a connection whose handshake reply failed.
SlotsHaveHolders ==
  \A s \in Shards : \A c \in Range(live[s]) :
    \/ pc[c] \in {"replying", "open", "closing", "failed"}
    \/ Remove(c) \in Range(queue[s])

\* Each shard's count is the number of connections routed to it that have not
\* released it: claims and releases pair up even when a position changes
\* hands while a connection is open.
CountsPairUp ==
  \A s \in Shards :
    receivers[s] = Cardinality({c \in Conns : home[c] = s /\ pc[c] # "gone"})

\* A connection whose message loop has ended gives its slot back.
SlotsReturned ==
  \A c \in Conns : pc[c] = "closing" ~> (pc[c] = "gone" /\ \A s \in Shards : ~Holds(s, c))

\* Slots and counts are given back on every exit path (main.rs: "Free the slot
\* on every exit path"): when no connection runs and no message waits, no
\* slot is held and no receiver is counted.
QuiescentIsClean ==
  (\A c \in Conns : pc[c] \in {"new", "gone", "failed"}) /\ (\A s \in Shards : queue[s] = <<>>)
    => \A s \in Shards : live[s] = <<>> /\ receivers[s] = 0

-----------------------------------------------------------------------------
(* The registries that the connections rely on.                            *)

\* Shard s as Registry has it: the handles are the connections it answered.
Reg(s) == INSTANCE Registry
  WITH Users   <- Range(UserOf),
       Handles <- Conns,
       live    <- live[s],
       used    <- {c \in Range(order) : home[c] = s}

\* What the connections see of shard s is the abstract registry that Shard
\* implements: no step of any connection, of this shard or another, makes it
\* do more than issue an unused handle or drop a live one.
KeepsRegistry(s) == Reg(s)!RegSpec
=============================================================================

------------------------------ MODULE Replay -------------------------------
(***************************************************************************)
(* Replay of a capture against a server (crates/mlat-bench/src/runcmd.rs): *)
(* one feed_client task per capture client connects, sends the recorded    *)
(* handshake, checks the negotiated compression, then writes the client's  *)
(* records at absolute deadlines, while a reader task logs what the server *)
(* sends and competes with the other readers for the heartbeat that        *)
(* anchors the scoring.  Around them the server under test is started,     *)
(* driven until stop_at, torn down and scored.                             *)
(*                                                                         *)
(* Time is the wall clock of the replay, so a record's time is already     *)
(* divided by the speed.  The server's clock is Speed times as fast and    *)
(* off by Skew.  A task whose timer has fired runs before time advances.   *)
(***************************************************************************)
EXTENDS Integers, Sequences, FiniteSets

CONSTANTS
  Clients,    \* entries of the capture's manifest
  Frail,      \* clients that the server may stall or close
  Times,      \* times of a client's client-to-server records, in file order: a
              \* generated capture's jitter may put a later record earlier
  Compress,   \* compress of a client's entry
  Speed,      \* server seconds per unit of time
  Skew,       \* how far the server's clock is ahead at time 0
  T0,         \* start of the schedule
  Length,     \* duration_s of the capture
  ReplyWait,  \* how long a handshake reply is awaited
  Drain,      \* DRAIN_S
  Buffer,     \* bound: records in the socket towards the server
  MaxFlight,  \* bound: heartbeats on their way to one client
  MaxTime     \* bound: the clock

ASSUME ReplayAssumption ==
  /\ {Speed, Skew, T0, Length, ReplyWait, Drain, Buffer, MaxFlight, MaxTime} \subseteq Nat
  /\ Frail \subseteq Clients /\ Speed > 0 /\ Buffer > 0 /\ T0 + Length + Drain <= MaxTime
  /\ \A c \in Clients : Times[c] \in Seq(Nat)

VARIABLES
  now,        \* time
  bench,      \* "starting", "driving", "stopped", "written", "scored" or "failed"
  oracle,     \* the server's container: "off", "on", or "left" by docker
  watching,   \* some collector or sampler has not been joined
  feed,       \* progress of a client's feed task
  since,      \* when a running feed last connected, sent or shut down
  next,       \* index of the next record to send
  wire,       \* records in the socket towards the server
  closed,     \* the server has closed the connection
  stalled,    \* clients that the server does not read from now
  flight,     \* server times of the heartbeats on their way
  anchor,     \* <<>> or the heartbeat anchor <<wall time, server time>>
  least,      \* history: <<>> or the least read lag of a heartbeat
  able        \* history: the feed could have written when time last advanced

feedVars == <<feed, since, next>>
runVars == <<bench, oracle, watching>>
netVars == <<wire, closed, stalled, flight>>
vars == <<now, runVars, feedVars, netVars, anchor, least, able>>

StopAt == T0 + Length + Drain

\* A timeout has run out; at MaxTime, the far future, every one has.
Expired(t) == now >= t \/ now = MaxTime

ServerTime(t) == Speed * t + Skew

Room(c) == wire[c] < Buffer \/ closed[c]

-----------------------------------------------------------------------------
(* feed_client.                                                            *)

\* An error ends the feed, not the run.
Fails(c) ==
  feed' = [feed EXCEPT ![c] = "failed"] /\ since' = [since EXCEPT ![c] = 0]

\* Connect and write the recorded handshake; a refused connection fails the
\* feed, and so does a capture file without a connect record.
FeedConnect(c) ==
  /\ bench = "driving" /\ feed[c] = "idle"
  /\ \/ feed' = [feed EXCEPT ![c] = "reply"] /\ since' = [since EXCEPT ![c] = now]
     \/ Fails(c)
  /\ UNCHANGED <<now, runVars, next, netVars, anchor, least, able>>

\* The reply names a compression, denies, or does not come because the server
\* closed or took too long; only the compression of the entry will do, and
\* then the first record must be readable.
FeedReply(c) ==
  /\ feed[c] = "reply"
  /\ \/ \E m \in {"none", "zlib", "zlib2", "deny"} :
          /\ ~closed[c] /\ c \notin stalled
          /\ \/ m = Compress[c] /\ feed' = [feed EXCEPT ![c] = "feeding"] /\ UNCHANGED since
             \/ Fails(c)
     \/ (closed[c] \/ Expired(since[c] + ReplyWait)) /\ Fails(c)
  /\ UNCHANGED <<now, runVars, next, netVars, anchor, least, able>>

\* Mutation: records keep their distance from the one before.
DueAfterLast(c) ==
  IF next[c] = 1 THEN T0 + Times[c][1]
  ELSE since[c] + Times[c][next[c]] - Times[c][next[c] - 1]

\* The absolute deadline of the next record.
Due(c) == T0 + Times[c][next[c]]

\* The next record is due and the write would not block.
Ready(c) == feed[c] = "feeding" /\ next[c] <= Len(Times[c]) /\ now >= Due(c) /\ Room(c)

\* A record is written, after which the file of the capture must be readable
\* up to the next one, or the write fails because the server closed.
FeedSend(c) ==
  /\ Ready(c)
  /\ \/ /\ ~closed[c]
        /\ wire' = [wire EXCEPT ![c] = @ + 1]
        /\ next' = [next EXCEPT ![c] = @ + 1]
        /\ (since' = [since EXCEPT ![c] = now] /\ UNCHANGED feed) \/ Fails(c)
     \/ closed[c] /\ Fails(c) /\ UNCHANGED <<wire, next>>
  /\ UNCHANGED <<now, runVars, closed, stalled, flight, anchor, least, able>>

\* After the last record the stream is shut down and the reader given a while;
\* the shutdown may fail when the server has closed.
FeedShutdown(c) ==
  /\ feed[c] = "feeding" /\ next[c] > Len(Times[c])
  /\ \/ feed' = [feed EXCEPT ![c] = "drain"] /\ since' = [since EXCEPT ![c] = now]
     \/ closed[c] /\ Fails(c)
  /\ UNCHANGED <<now, runVars, next, netVars, anchor, least, able>>

\* The reader has come to the end of the stream, or its time is up.
FeedDone(c) ==
  /\ feed[c] = "drain"
  /\ (closed[c] /\ flight[c] = <<>>) \/ Expired(since[c] + Drain)
  /\ feed' = [feed EXCEPT ![c] = "done"]
  /\ since' = [since EXCEPT ![c] = 0]
  /\ UNCHANGED <<now, runVars, next, netVars, anchor, least, able>>

\* Mutation: the first heartbeat read stays the anchor.
BetterFirst(t, st) == anchor = <<>>

\* A heartbeat read with less lag than the anchor replaces it.
Better(t, st) == anchor = <<>> \/ st - Speed * t > anchor[2] - Speed * anchor[1]

\* The reader task takes a heartbeat; it outlives its feed.
Hear(c) ==
  /\ flight[c] # <<>> /\ bench \in {"driving", "stopped"}
  /\ LET st == Head(flight[c])
         lag == ServerTime(now) - st
     IN  /\ anchor' = IF Better(now, st) THEN <<now, st>> ELSE anchor
         /\ least' = IF least = <<>> \/ lag < least[1] THEN <<lag>> ELSE least
  /\ flight' = [flight EXCEPT ![c] = Tail(@)]
  /\ UNCHANGED <<now, runVars, feedVars, wire, closed, stalled, able>>

-----------------------------------------------------------------------------
(* The server under test (external).                                       *)

Accepted(c) == feed[c] \in {"feeding", "drain", "done"}

\* Heartbeats carry the server's own clock.
ServerBeats(c) ==
  /\ Accepted(c) /\ ~closed[c] /\ Len(flight[c]) < MaxFlight /\ bench = "driving"
  /\ flight' = [flight EXCEPT ![c] = Append(@, ServerTime(now))]
  /\ UNCHANGED <<now, runVars, feedVars, wire, closed, stalled, anchor, least, able>>

ServerReads(c) ==
  /\ wire[c] > 0 /\ c \notin stalled
  /\ wire' = [wire EXCEPT ![c] = @ - 1]
  /\ UNCHANGED <<now, runVars, feedVars, closed, stalled, flight, anchor, least, able>>

\* The server closes a connection, after which it reads no more of it.
ServerCloses(c) ==
  /\ c \in Frail /\ feed[c] \in {"reply", "feeding", "drain"} /\ ~closed[c]
  /\ closed' = [closed EXCEPT ![c] = TRUE]
  /\ wire' = [wire EXCEPT ![c] = 0]
  /\ stalled' = stalled \ {c}
  /\ UNCHANGED <<now, runVars, feedVars, flight, anchor, least, able>>

ServerStalls(c) ==
  /\ c \in Frail /\ feed[c] \in {"reply", "feeding"} /\ ~closed[c] /\ c \notin stalled
  /\ stalled' = stalled \cup {c}
  /\ UNCHANGED <<now, runVars, feedVars, wire, closed, flight, anchor, least, able>>

ServerResumes(c) ==
  /\ c \in stalled
  /\ stalled' = stalled \ {c}
  /\ UNCHANGED <<now, runVars, feedVars, wire, closed, flight, anchor, least, able>>

-----------------------------------------------------------------------------
(* The run around the feeds.                                               *)

\* docker compose up --wait: the run starts, or is given up without a teardown
\* and docker has perhaps left a container.
OracleUp ==
  /\ bench = "starting"
  /\ \/ bench' = "driving" /\ oracle' = "on" /\ watching' = TRUE
     \/ bench' = "failed" /\ oracle' \in {"off", "left"} /\ UNCHANGED watching
  /\ UNCHANGED <<now, feedVars, netVars, anchor, least, able>>

\* Mutation: the run does not wait for the feeds.
NotJoined == TRUE

\* Every feed task has been joined; failed clients do not fail the run.
Joined == \A c \in Clients : feed[c] \in {"done", "failed"}

\* The feeds are joined and stop_at has passed.
Played == bench = "driving" /\ Joined /\ now >= StopAt

\* The collectors of drive, or an external run's sampler, are joined after
\* that.  They only write files of their own, and have come to stop_at or
\* ended before it with an error that is not looked at.
CollectorsJoined ==
  /\ watching
  /\ (Played /\ oracle = "on") \/ (bench = "stopped" /\ oracle = "off")
  /\ watching' = FALSE
  /\ UNCHANGED <<now, bench, oracle, feedVars, netVars, anchor, least, able>>

\* drive returns when the collectors are joined.
DriveEnds ==
  /\ Played /\ oracle = "on" /\ ~watching
  /\ bench' = "stopped"
  /\ UNCHANGED <<now, oracle, watching, feedVars, netVars, anchor, least, able>>

\* drive_clients_only, for a server that was there already, has none.
DriveClientsOnlyEnds ==
  /\ Played /\ oracle = "off"
  /\ bench' = "stopped"
  /\ UNCHANGED <<now, oracle, watching, feedVars, netVars, anchor, least, able>>

\* Mutation: run.json is written and the container left alone.
NoTeardown == {oracle}

\* The container after docker compose down, whose failure is not looked at.
TornDown == {"off", "left"}

\* teardown, then run.json with the anchor of that moment.
Finish ==
  /\ bench = "stopped" /\ oracle = "on"
  /\ oracle' \in TornDown
  /\ bench' = "written"
  /\ UNCHANGED <<now, watching, feedVars, netVars, anchor, least, able>>

\* An external server is left as it is: run.json follows the sampler's join.
FinishExternal ==
  /\ bench = "stopped" /\ oracle = "off" /\ ~watching
  /\ bench' = "written"
  /\ UNCHANGED <<now, oracle, watching, feedVars, netVars, anchor, least, able>>

\* The server's clock at the start of the schedule, as score computes it.
EffectiveT0 == anchor[2] - (anchor[1] - T0) * Speed

\* score needs an anchor unless the run was at speed 1.
Score ==
  /\ bench = "written" /\ (anchor # <<>> \/ Speed = 1)
  /\ bench' = "scored"
  /\ UNCHANGED <<now, oracle, watching, feedVars, netVars, anchor, least, able>>

\* Time passes when no feed can write a record that is due.
Tick ==
  /\ now < MaxTime /\ ~\E c \in Clients : Ready(c)
  /\ now' = now + 1
  /\ able' = [c \in Clients |-> feed[c] = "feeding" /\ Room(c)]
  /\ UNCHANGED <<runVars, feedVars, netVars, anchor, least>>

-----------------------------------------------------------------------------
\* A run that brings its server up in a container.
Managed == bench = "starting" /\ watching = FALSE

\* A run against an external server, which is there already: no collectors but
\* a sampler of its process, or none, which is as if it had ended.
External == bench = "driving" /\ watching = TRUE

Init ==
  /\ now = 0 /\ oracle = "off" /\ (Managed \/ External)
  /\ feed = [c \in Clients |-> "idle"] /\ since = [c \in Clients |-> 0]
  /\ next = [c \in Clients |-> 1] /\ wire = [c \in Clients |-> 0]
  /\ closed = [c \in Clients |-> FALSE] /\ stalled = {}
  /\ flight = [c \in Clients |-> <<>>]
  /\ anchor = <<>> /\ least = <<>> /\ able = [c \in Clients |-> FALSE]

FeedStep(c) ==
  \/ FeedConnect(c) \/ FeedReply(c) \/ FeedSend(c)
  \/ FeedShutdown(c) \/ FeedDone(c)

ServerStep(c) ==
  ServerBeats(c) \/ ServerReads(c) \/ ServerCloses(c) \/ ServerStalls(c) \/ ServerResumes(c)

RunStep ==
  \/ OracleUp \/ DriveEnds \/ DriveClientsOnlyEnds \/ Finish \/ FinishExternal
  \/ Score \/ CollectorsJoined

Next ==
  \/ \E c \in Clients : FeedStep(c) \/ Hear(c) \/ ServerStep(c)
  \/ RunStep \/ Tick

\* Tasks that can run do, time passes, and the server reads while it is not
\* stalled.  That a stalled server goes on is not assumed.
Spec ==
  /\ Init /\ [][Next]_vars
  /\ \A c \in Clients : WF_vars(FeedStep(c)) /\ SF_vars(ServerReads(c))
  /\ WF_vars(RunStep) /\ WF_vars(Tick)

-----------------------------------------------------------------------------
(* Properties.                                                             *)

\* The schedule does not drift: a record is late only if its feed could not
\* write at the instant before, or because the file has it after a record that
\* was not due earlier than now; what delayed the records before it is not
\* carried on (runcmd.rs: "absolute deadlines - no cumulative drift").
NoDrift ==
  [][\A c \in Clients :
       next'[c] # next[c] /\ (\A i \in 1..next[c] : now > T0 + Times[c][i]) => ~able[c]]_vars

\* The error that the anchor brings into the scoring is the least read lag of
\* all the heartbeats that any client read, in whatever order, whatever the
\* skew of the server's clock (runcmd.rs: "picks the heartbeat read closest to
\* its send instant").
ScoredWithLeastLag == anchor # <<>> => ServerTime(T0) - EffectiveT0 = least[1]

\* A run that is written has replayed every client to its last record, unless
\* that client's feed failed, and has let the whole schedule pass.
ReplayedWhole ==
  bench \in {"stopped", "written", "scored"} =>
    /\ now >= StopAt
    /\ \A c \in Clients : feed[c] # "failed" => next[c] = Len(Times[c]) + 1

\* A run ends, and no container that came up goes without docker compose down,
\* although clients are refused, denied or cut off and the server stalls; only
\* a server that stalls for good keeps it from that, since write_all has no
\* timeout.  (runcmd.rs: "whatever happens below, capture logs and stop it";
\* a container that docker itself fails to stop is left.)
RunEnds ==
  (\A c \in Clients : []<>(c \notin stalled))
    => <>[](bench \in {"failed", "written", "scored"} /\ oracle # "on")
=============================================================================

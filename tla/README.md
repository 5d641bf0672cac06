# TLA+ models of mlat-bench

mlat-bench is a multilateration stack: a server (`crates/mlatd`) that locates
aircraft from the arrival times reported by many receivers, a feeder client
(`crates/mlatc`), and a bench that simulates, records, replays and scores
(`crates/mlat-bench` over the `mb-*` crates). This directory models the parts
whose correctness depends on the order of events, checks them with TLC on small
instances, and proves all but one of the safety invariants of the runs with TLAPS for
every value of the constants.

## Inventory

| Component | State | Operations | Interacts with | What is hard |
|---|---|---|---|---|
| shard (`mlatd/state.rs`, `run_shard`) | slot table with generations, free stack, user index, pair models, sync points, groups, stamp offsets, biases, tracks | add, remove, clock_reset, sync, mlat, sweep (solve), stats, sync.json | connections by a bounded queue, output task by try_send | stale handles, slot reuse, data that outlives its slot |
| router (`mlatd/shard.rs`) | cell owner, count, split set; per-shard counters | shard_for, owner_of_point, rate store, release | every connection, output task | order of claims, splits and load reports |
| connection (`handle_client`) | progress, shard, handle, requested set, writer queue | handshake, claim, add, reply, message loop, teardown | router, shard, client | overlap of a user's connections, failure between steps, select! cancellation |
| output task | recent keys, writers, broadcast | gate, dedupe, publish | shards, router, clients | arrival order of twins, lagging clients |
| pair model (`clocksync.rs`) | regression window, run of rejections | push, convert | shard | restarts of a clock, lost or late resets |
| solver, track filter | none / per-aircraft filter | solve, update | shard | floating point |
| client engine (`mlatc/engine.rs`) | per-aircraft records, last counter, pending halves, requested set | reception, tick, start/stop, resets | session, Beast input | expiry against requests, counter wrap, halves of two clocks |
| client session (`mlatc/main.rs`) | up queue, connection | connect, send, receive, back off | engine, server | lost and stale messages across sessions |
| Beast input (`beast.rs`, input task) | decoder buffer | feed, reconnect | receiver, engine | reads cut anywhere, noise, lost connections |
| wire protocol (`mb-proto`) | zlib dictionaries | encode, decode | both ends | partial reads |
| recorder (`recordcmd.rs`, `mb-capture`) | capture files, list for the manifest | tap, pump, deadline, manifest | client, server | two writers of a file, a cut at any await |
| replay (`runcmd.rs`) | feeds, collector, anchor | connect, feed, read, stop, score | server under test | races for the anchor, blocked writes, failing clients |
| simulator (`mb-sim`) | counter, pending halves, lines | receive, stamp, pair, frame | capture | arrival order against emission order, wraps and jumps |
| scoring, metrics, codecs, CLI tools | files | batch computation | - | numeric edges |

Correctness, per component: a **shard** never gives a slot to two connections,
never honours a stale handle, and keeps every derived map tied to live
receivers; the **router** keeps territory permanent and splits invisible; a
**connection** gives back exactly what it took, on every path, and never what a
successor took; the **output** publishes a fix once and by its owner; **client
and server** agree on what traffic is wanted; a **pair model** forgets a clock
that is gone and keeps one that is not; the **Beast decoder** yields what was
sent, however the stream is cut; a **capture** holds what passed, in order; a
**replay** sends it on time, always ends, and is scored with the best anchor.

`PROJECT.json` lists every component with its status and every hazard with the
properties aimed at it.

## Modules

- `Registry` - abstract: each user has at most one live handle, handles are
  never reissued, dropping a stale handle does nothing.
- `Shard` - `State` of one shard. Each `ShardMsg` handler and the sweep is one
  action, because `run_shard` takes one message at a time. Any handle ever
  issued may send any message at any time, which covers half-open sockets and
  late messages. `issued` (handles with their user) is a history variable; a
  reading carries the user whose clock made it, which the code does not store.
  A pair model is the set of reading pairs it was offered; whether it is usable,
  and how a solve turns out, is left open in `Sweep`. `quarantined` maps a slot
  to the generation that was live when the verdict fell. Refines `Registry`
  through `Reg` (live handles of the indexed slots; handles answered so far).
- `Router` - `CellMap` and the per-shard counters. `shard_for` holds one mutex,
  so it is one action; `HashMap` order where the code leaves a tie is a choice.
- `Server` - `handle_client` over `Router` and the shard queues, one action per
  step between awaits. A shard is its queue and its registry (the contract
  `Shard` is proved to implement); `Reg(s)` is shard `s` as an instance of `Registry`.
  A connection identifier is used once.
- `Traffic` - selective traffic. `known`, `announced`, `requested` are the
  engine's records, `ev` the session events waiting for it, `pc` the session
  loop, `srv_requested` the connection's set in `process_line_tx`. `up` and
  `down` are each a bounded queue together with the stream it feeds; what does
  not fit is dropped. Engine and session are separate tasks, so receptions, the
  drain of the queue and the reset of the engine interleave. `excused` is a
  history variable. `stop_sending` is left out: mlatd never sends it.
- `Output` - over `Router`: the lossy queue of the shards, the territory gate,
  the twin filter, the broadcast ring and its readers (SBS consumers, result
  forwarders). A fix is one shard's solve of a transmission, with a stamp that is
  off by at most `MaxSkew`. `solved`, `published` and the field `home` are history.
- `MessageLoop` - the select loop of `handle_client` in both modes. A message is
  two or three pieces, so that a timer can fall into a read; `wait`, `timer` and
  `silence` count units of time. `fed` and `cut` are history variables.
- `ClockSync` - one receiver's clock from its input to the pair model: `Reception`
  is the engine's counter check and its even/odd pairing, `up` the lossy queue,
  `TakeLine` the server's handlers, `Push` the acceptance control of a pair model
  (gate, run of rejections, reset). An epoch is a stretch of the counter without
  restart or wrap; the code sees raw counts only. Restarts, wraps, a reconnecting
  input and wild readings are the faults.
- `Recorder` - `tap` and its two pumps, one step per await, over a socket pair per
  connection; the deadline, which drops every task where it stands; a kill; the
  manifest. A chunk is what one read returned. `file` is what the encoder of a file
  was given; nothing is flushed before the tap drops the encoder, so a kill leaves
  any beginning of an open file, and all of one whose tap had ended.
- `Replay` - `run` around one `feed_client` and one reader per client. The server
  under test is external: it denies, answers, stalls, reads, sends heartbeats and
  closes as it likes. Time is the wall clock of the replay. A capture's times may be
  in any order, which `feed_client` does not change. The container is off, on, or left
  over: docker may fail to start or to stop it, and the replay does not look at the latter.
  A run against an external server has no container and its own ending.
- `Generate` - `build_client`: one step takes the next broadcast in emission order,
  stamps it, pairs it and appends its lines after the heartbeats that are due;
  `FrameLines` sorts the lines by arrival, frames them and delays each record by a
  drawn delay of its own. What the code draws or computes from geometry (loss, range,
  counter jump, network delay) is chosen from the constants. The counter is the wrapping
  one, without measurement jitter.
- `BeastInput` - the decoder's `feed` over bytes that are the escape, a type byte or
  anything else, the input task that replaces it at a reconnect, and the encoder of
  `beast-serve`, whose messages are what a decoder has to return. The two loops of the
  decoder are recursive functions: `Scanned` over the bytes of a payload, `Decoded` over
  the bytes left of a buffer. `sent` and `read` are history variables.
- `MC*` give the constants values for TLC; `*Proofs` hold the theorems.

`Server` and `Output` compose with `Router`, `Server` uses the contract that `Shard`
implements (`Shard` and each shard of `Server` are both shown to be a `Registry`), and `Traffic` and `ClockSync` each join the client engine, the session's
queue and the server's handlers. `Recorder`, `Generate` and
`Replay` meet in the capture: `CaptureWhole` states what `Replay` starts from when it was
recorded. A generated one is not in the order of its times (below), and `Replay` assumes
no order.

## Runs

| Run | Shows | Bounds |
|---|---|---|
| `shard_state` | slots, index, free stack, pairs, offsets, verdicts, handles, refinement | 3 users, 1 squitter that is also grouped (`MlatAdsb`), 3 adds: eviction, reuse and a two-hop conversion; solves from 2 observers (4 in the code) |
| `router_tree` | tree shape, permanent territory, invisible splits | 2 shards, 5 positions in 3 base cells, 5 claims, 2 loads |
| `server_lifecycle` | overlap of connections, counts, slots returned | 2 shards, a reconnecting user and a neighbour, split at the first receiver |
| `traffic_requests` | requests belong to the session and are lost in known ways only; the server hears of every known aircraft | 2 aircraft, queues of 1, 2 sessions: overflow, expiry and a reconnect meet |
| `output_fanout` | twin filter, gate, streams without a hole | 2 shards, 2 cells, 1 claim, 2 transmissions, a memory and a ring of 1, a queue of 2 |
| `loop_messages` | messages whole, in order, handed on | 3 messages, lines or frames; the timer is slower than the idle limit (a time scale below 0.1), so that either may win |
| `clock_epochs` | halves of two clocks are not paired, a reset is clean, spikes are tolerated, a lost clock is relearned | counter of 6 with a wrap margin of 3, pairs 2 apart, a queue of 1, models of 2 readings that reset after 3 rejections, 1 restart or wrap, 2 faults |
| `recorder` | nothing is passed on unrecorded, a kill loses tails of open files only, a finished capture can be replayed | 2 connections, one chunk each way, deadline at 1, a kill anywhere |
| `replay` | least lag, complete runs, no drift, runs end | 2 clients of 2 records each (one with a frail server side, the other's second record due before its first), speed 2, one line in flight, a socket buffer of 1, 3 units of time, the last of which stands for any later moment |
| `generator` | lines whole and in order whatever delays are drawn, heartbeats, honest sync lines | an ADS-B and a Mode S aircraft, 4 broadcasts, gaps of more than two heartbeat periods, two ranges, a wrap shortly after the start, 1 jump, network delays of 3, 0, 1 and so on |
| `generator_wire` | the counter runs backwards on the wire (below) | two Mode S aircraft, no wrap, no jump |
| `beast_input` | decoding does not depend on the reads, yields what was sent, keeps little | payloads of 1, 1 and 2 bytes, 9 bytes, 3 of them noise, 2 connections |

A bound named in the constants (`MaxAdds`, `MaxClaims`, `MaxSessions`, `MaxMsgs`,
`MaxSilence`, `MaxEpochs`, `MaxFaults`, `MaxFlight`, `MaxTime`, `MaxBroadcasts`,
`MaxJumps`, `MaxBytes`, `MaxNoise`, `MaxConns`) limits the length of a behaviour, not
what a step may do. The other numbers are the code's thresholds and lengths scaled
down so that small instances cross them. `GenMod > MaxAdds` says that a slot is not
reused 2^32 times.

Fairness. `Server`: `run_shard` keeps taking queued messages, and a teardown
that began runs on (no await in it depends on the peer before the slot and the
count are given back). `Traffic`: the engine's timer fires and it takes its
events, the session loop and an open connection's two ends go on reading; rate
reports are repeated for ever, and strong fairness says that they do not always
meet a full queue (a server that never reads would otherwise excuse everything).
`MessageLoop`: the loop reads what has arrived and its timer fires. `ClockSync`: the
server reads the connection, and two receivers in reach of common aircraft go on
hearing them: receptions close enough to be paired recur, and so do sync points
completed by a reading of the present clock. `Replay`: the tasks of the bench run
and time passes; a server that is not stalled and keeps being offered bytes reads some
in the end. Nothing is assumed of a server that stalls: `RunEnds` says itself that no
connection is stalled for good, since `write_all` has no timeout. Nothing obliges a feeder to connect, send, answer or leave. Behaviours
end when a bound is used up, a connection is closed or a task is finished, so deadlock
is checked in `Shard`, `Router` and `ClockSync` only.

## Findings

- `generator_wire`: `build_client` stamps receptions in emission order. A reception
  that arrives before the one stamped ahead of it is clamped to that one's count
  plus 1 (`mb-sim/clock.rs`: "Calls must be in nondecreasing t order per clock
  (receptions are processed sorted)"); the lines are sorted by arrival afterwards,
  and the counter runs backwards on the wire, which `clock.rs:8` says it must not.

Known disagreements. The following are stated as definitions in the modules and are
refuted by TLC when added as invariants to the configuration of their module; no run checks them,
because the code as it is does not satisfy them.

- `Shard!TrainedByOccupants` (`state.rs:358` against `:23`, "the generation tells
  stale holders apart"): sync points keep slot indexes without generations, so a
  reading of a feeder that left trains the model of the next occupant.
- `Server!QuiescentIsClean` (`main.rs:449` against `:598`, "Free the slot on every
  exit path"): a failed handshake reply leaves slot and count behind.
- `Traffic!ReportedIsRequested` (`main.rs:655`, `:673` against `:442`, "start_sending
  every aircraft the client reports"): the server never asks twice on a connection,
  but the client forgets a request when the aircraft expires, and a full line queue
  drops it.
- `MessageLoop!FedWhole` (`main.rs:572` against `mb-proto/framing.rs:106`, "Feed whole
  frames"): a timer drops a length prefix that was read in part.
- `MessageLoop!SilentIsReaped`, most plainly with a timer faster than the idle limit, as it
  is by default (`main.rs:546` against `:517`, "reap it so churned feeders do not
  accumulate"): the timeout starts anew with every heartbeat.
- `Generate!RecordsInOrder` (`mb-sim/gen.rs:442`-`449` against `mb-sim/lib.rs:64`,
  "Records are time-ordered", asserted of a scenario without jitter): every record draws
  its own jitter after the lines were sorted (4 ms in `hostile.toml`, 2 ms in
  `metro-scale.toml`), so one may be due before its predecessor. Nothing sorts them
  again, and the replay, which goes through a file in its order, sends such a record late.
- `Replay!RunEnds` without its first line (`runcmd.rs:455` against `:229`, "whatever
  happens below, capture logs and stop it"): a server that stops reading for good keeps
  the run from its teardown. A container that docker itself fails to stop, or leaves
  behind when it fails to start it, stays as well (`:600`, "Best-effort").

The models also allow the following, which no run states as a property: the
neighbour vote of `shard_for` precedes the ancestor fallback, so a split cell's
child may leave its home shard, and with it a user's reconnect while the old slot
is live; solves on unowned ground, or each on its own side of a border, are both
published when their stamps fall into adjacent buckets; and the engine may send
for an old request between the drain of the up queue and the reset, into the next
session.

Met while modelling the clients and the bench, and outside the models or left open in
them: an input that reconnects sends `input_connected`, which mlatd ignores, and no
`clock_reset` (`ClockSync` has it, and `Relearns` says that the model recovers); the
replay ignores the times of connect records, so a user that reconnected in a recording
is replayed as two overlapping sessions; the recorder keeps the offered compression,
and a replay against a server that chooses another fails for that client; a connection
cut between its connect record and its registration leaves a file outside the manifest;
`state.rs:69` says of a quarantined receiver that "its bias keeps training, so a
recovered sensor re-admits itself", but `:586` leaves it out of the solves from which
bias and scatter are learned (`:735`, `:767`), so it stays out until it reconnects; comments in `runcmd.rs` (lines 250, 280) speak of the first heartbeat, set once, where
the code keeps the one with the least lag; in the simulator a pending
half survives a counter jump, and a clamp in the counter's last tick yields 2^48;
`beast-serve` sorts by counter, so receptions after a wrap come first.

## Proofs

Each proof module extends its components and proves, for every value of the constants
that satisfies the named assumptions, what the run checks on one instance. In each
the inductive invariant is called `IInv` (`RouterInv`, `LoopInv` and `BeastInv` for the
second component of a module) and TLC has checked it on the run's instance before it was
proved. The proof that steps preserve it has one case per action.

| Module | Proves | For every |
|---|---|---|
| `ShardProofs` | `FreeListExact`, `UserIndexExact`, `PairsOfLive`, `OffsetsOfLive`, `QuarantineEarned`, `LiveHandlesOwn`, `SlotsBounded`, `StaleStaysStale`, `ImplementsRegistry`, and `TypeOK` and `ReportsAgree`, which no run checks | finite set of users, set of frames, bounds |
| `ServerProofs` (Router) | `TreeClosed`, `SplitsInvisible`, `TerritoryPermanent` | number of shards, set of positions, depth, threshold, capacity, loads |
| `ServerProofs` (Server) | `ReconnectSurvives`, `SlotsHaveHolders`, `CountsPairUp`, and `KeepsRegistry` of each shard, which no run checks | set of connections, users and positions |
| `TrafficProofs` (Traffic) | `RequestsOfThisSession`, `RequestsAccounted` | set of aircraft, queue lengths, number of sessions |
| `TrafficProofs` (MessageLoop) | `IntactUnlessCut`, and that decoding fails only after a cut | number of messages, timer, idle limit |
| `OutputProofs` | `TwinsApart`, `StreamsHaveNoGap`, `ClaimedGroundOnce` | filter memory, ring, queue, readers, skew |
| `ClockSyncProofs` | `SyncOfOneClock`, `ResetIsClean`, `SpikesTolerated` | counter width, thresholds, queue, window, number of faults |
| `RecorderProofs` | `RecordedFirst`, `CaptureWhole` | set of connections, traffic, duration |
| `ReplayProofs` | `ScoredWithLeastLag`, `ReplayedWhole`, `NoDrift` | capture, speed, skew, buffer, time limits, behaviour of the server |
| `StreamProofs` (Generate) | `NoSilence`, `SyncHonest` | aircraft, gaps, delays, clock, number of broadcasts |
| `StreamProofs` (BeastInput) | `ChunksDoNotMatter`, `HandsOnWhatWasSent`, `KeepsLessThanAMessage` | payload lengths, messages, noise, cut into reads, connections |

The assumptions are the ones the modules name. They say that numbers are naturals of
the right sign, `GenMod > MaxAdds`, and in `ClockAssumption` that the thresholds of the
engine are ordered as in the code. `DelayAssumption` (`Generate`) says that the propagation delays of
an aircraft differ by less than the two seconds in which halves are paired, since light
needs a few milliseconds for the largest range. `SideAssumption` in `Router` states two facts of the powers
of two that hold for every depth and that the provers do not know: a side is
positive, and a cell is twice as wide as its quarters.

**Shard.** `IInv` is the conjunction of the state predicates
that hold each other up, with two strengthenings: `GensBounded` (a slot's
generation never exceeds the number of adds, so it does not wrap) and
`HandlesBehind` (an issued handle's generation is at most its slot's, and equal
only for the slot's last occupant). `FreeListExact` and `UserIndexExact` need each other: the
slot popped is vacant because the stack is exact, and evicting the indexed slot
vacates the only slot of the user. `OffsetsOfLive` needs `PairsOfLive`: a removed
reference has no model left, so its group cannot reach `MinObs` observations.
`SlotsBounded` is a counting argument: when no slot is free, `user` is an injection
from the slots to the users seen other than the newcomer; it needs that every slot is
filed under a user that was seen (`OccupantsSeen`). `ReportsAgree` counts too: the pair
models of a live receiver and the names of its peers are in bijection, because models
join live slots (`PairsOfLive`) and live slots have different users (`UserIndexExact`).

**Router.** Type and `TreeClosed` are inductive together. The action properties rest on
`MappedNowhereBelow`: no cell below the leaf of a position is mapped, so the walk of
`owner_at` from the leaf up passes every mapped cell around the position, and its
result depends on the owners alone. A split adds no owner and hence moves nothing.

**Server.** The three properties need the protocol between a connection and its shard:
a message waits once, at the shard its connection was routed to, while the connection
is where it left it (`Waiting`), and a slot is held in its user's name at the holder's
own shard (`Slots`). A removal then either names the present holder, whose teardown it
is, or changes nothing; and `Latest` moves to the connection whose add is taken.
`RegistriesKept` shows that each shard, as the connections see it, is a `Registry`: an
add that is taken is of a connection that was not answered before (`Answered`, with
`Waiting`), so no handle is issued twice, and a claim moves only the home of a connection
that no shard has answered. With `RegistryRefinement` of `Shard` the two modules meet in
one contract. TLC has checked the same for both shards of the run's instance.

**Traffic.** Start requests and resets share the engine's queue, so whether a request
is of this session depends on its place: an event that no reset follows asks only
for what this connection marked (`EventsOfThisSession`), and what this connection
marked stands behind every reset still to be taken (`RequestsAfterReset`).

**Output.** `TwinsApart` needs what the filter remembers: the keys of the fixes published last,
`RecentCap` of them (`FilterMemory`). `StreamsHaveNoGap` needs where each reader stands
(`ReaderPlaces`). `ClaimedGroundOnce` needs that a solve is at one place of the pipeline
(`SolvesOnce`) and that a fix published for owned ground is its owner's (`OwnGround`). It
compares fixes published under one owner: a cell's child may be claimed by another
shard than its ancestor, and then the ground changes its voice, once, with its owner.

**MessageLoop.** As long as no timer fell into a read, the read in progress stands
exactly at the message after the last one fed, and the body still wanted is that
message's (`Aligned`). A cut is the only way out of alignment.

**ClockSync.** The invariant follows an epoch along its path: a stored half is not older than
the last restart noticed (`HalvesFresh`); what is in the queue is not newer than the
last reading the engine saw (`SeenLast`), so a restart it notices begins after all of
it; a sync message behind a `clock_reset` is of that reset's epoch or later
(`ResetsOrdered`); what reached the server since the last reset is not older than it
(`SinceReset`). `RunCounts` ties the model's rejections to the history of spikes.

**Recorder.** `Stages` says for each step of a tap what its file looks like and whether it is
registered, `Final` that a manifest exists only when every tap has ended. `Logged` is
`RecordedFirst` with the length decided: the file holds what was written and, exactly
while the pump is about to write, that chunk as well. A cut freezes either. A kill leaves
a beginning of an open file, whose chunks are then the first of those (`Lost`): cutting
a file anywhere cuts its chunks somewhere, which is shown with the least prefix for which
it fails (`LogCut`).

**Replay.** The anchor and the least lag seen so far are tied together whichever reader
takes the next heartbeat (`AnchorIsLeast`). `ReplayedWhole` needs that a feed leaves its
loop only after its last record, and that none moves once they are joined (`Places`,
`Ended`). `NoDrift` needs that a feed that could write when time last advanced has nothing
overdue (`OnTime`): unless some record of those up to the next one is not due before
now, the next one is not late. A capture that is not in the order of its times can have
a record that is late for no other reason, which is why `NoDrift` speaks of all of them.

**Generate.** Lines are made in emission order, so a reception may arrive before
heartbeats made earlier. `NoSilence` therefore needs that every instant up to the next
heartbeat, and not only every line, has a line shortly before it (`Covered`).
`SyncHonest` needs that halves that wait are of different broadcasts and in no sync line
(`HalvesApart`, `HalvesUnused`) and arrived within their aircraft's delays of the last
emission (`HalvesRecent`), so that a half cannot arrive long before its partner either.

**BeastInput.** `BeastInv` says that the decoder is where decoding everything read at once
would leave it (`InStep`), keeps only what it cannot decide (`Kept`), and that without
noise the bytes read and under way decode to what was sent with nothing left (`Carried`).
It rests on three lemmas. A step that consumes anything is not changed by bytes that
come later (`StepExtends`); hence feeding two chunks in turn is feeding both at once
(`FeedJoin`); and an encoded message is exactly one step, which yields the message
(`EncodeStep`). What the recursive functions compute is shown by strong induction over
the set of lengths for which it holds (`AllNat`, from the least element of a set of
numbers): the induction theorems of the library take a predicate, a set needs none.

Only model-checked:

- liveness (`SlotsReturned`, `OffersReachServer`, `ArrivedIsFed`, `Relearns`, `RunEnds`),
  which is out of the prover's reach;
- `FramedWhole`: that a stable sort followed by the batching of a second's lines keeps
  every line. It speaks of `SelectSeq` and `FoldLeft`, whose library definitions recurse
  over the data with an operator as a parameter; no proof was attempted.

## Not modelled

- Solver, track filter, geodesy, the regression of a pair model and the publication
  gates of a solve (backoff, error ceiling, rate and speed rules, bias learning): their
  decisions are thresholds on floating-point results. `Shard` leaves their outcome open.
- Mode S, CPR and altitude codecs, the JSON and zlib codecs, SBS: stateless conversions
  over large data; `MessageLoop` has the one thing that couples frames, the decoder's
  need for every earlier one.
- Metrics, scoring, plots, doctor, fuzzer, probe and data set conversion: batch work.
- Scenario parsing, trajectories and the truth files of the simulator: what they decide
  is a free choice in `Generate`. Its non-wrapping Radarcape counter (`clock.rs:56`-`71`,
  `133`-`135`) and the measurement jitter of a count (`:125`).
- Errors of the storage: a `record` that fails ends its pump like a failed read or write
  (`recordcmd.rs:155`), but with a file that may end anywhere. What the replay's collectors
  read, retry and write (`runcmd.rs:464`-`592`): their files and errors are not looked at
  by the run. A feed task that panics (`:327`), which ends the run early: the teardown
  and `run.json` follow, the scoring does not.
- The client's own select loop (the cut reads of `MessageLoop`, seen from the other
  side) and both loops over bounded sockets, where each may wait to write while
  neither reads.

## Plan

1. The client's loop, and both loops over bounded sockets.
2. A proof of `FramedWhole` over sorting and batching written as recursive functions.

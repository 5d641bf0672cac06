----------------------------- MODULE ClockSync -----------------------------
(***************************************************************************)
(* The way of one receiver's clock to the server: the counter of its Beast *)
(* input, the client engine that looks for restarts and pairs DF17 halves  *)
(* (crates/mlatc/src/engine.rs), the lossy up queue, and on the server the *)
(* sync points (state.rs) and the pair model that they train               *)
(* (crates/mlatd/src/clocksync.rs) against a neighbour whose clock never   *)
(* restarts.  The models of both directions get the same readings and are  *)
(* dropped together, so one stands for both.                               *)
(*                                                                         *)
(* Data abstraction.  An epoch is a stretch of the counter without restart *)
(* or wrap: readings of one epoch obey one linear relation to the          *)
(* neighbour's clock, readings of two do not (the code has no epochs; it   *)
(* sees raw counts).  A wild reading (multipath, false position) obeys     *)
(* none and is marked Wild.  A pair model is the window of readings that   *)
(* still weigh in its fit, its run of rejections, and whether they are     *)
(* spread over enough time.                                                *)
(***************************************************************************)
EXTENDS Integers, Sequences, SequencesExt

CONSTANTS
  Mod,            \* the counter wraps here (2^48)
  WrapMargin,     \* a step back of at least this is taken for a wrap (2^46)
  ResetBackward,  \* RESET_BACKWARD_S
  MaxPair,        \* MAX_PAIR_S
  Gaps,           \* counts that may pass between two receptions
  QueueCap,       \* the up queue's length (4096)
  MinWeight,      \* readings before a model is usable (8)
  Window,         \* readings that weigh in a fit (about 1 / (1 - LAMBDA))
  ResetAfter,     \* RESET_AFTER_REJECTS (8)
  MaxEpochs,      \* bound: restarts and wraps of one behaviour, plus one
  MaxFaults       \* bound: input changes, expiries and wild readings

ASSUME ClockAssumption ==
  /\ {Mod, WrapMargin, ResetBackward, MaxPair, QueueCap, MinWeight, Window,
      ResetAfter, MaxEpochs} \subseteq Nat \ {0}
  /\ ResetBackward < WrapMargin /\ MaxPair < WrapMargin /\ WrapMargin < Mod
  /\ Gaps \subseteq 0..(Mod - 1) /\ MinWeight <= Window /\ MaxFaults \in Nat

VARIABLES
  ctr, epoch,         \* the input's counter and the epoch it is in
  last_counter,       \* Engine.last_counter: a set of at most one reading
  even, odd,          \* the aircraft's stored halves, likewise
  up,                 \* the up queue and the stream it feeds
  waiting,            \* readings in sync points the neighbour has not joined
  model,              \* the pair model
  faults,             \* bound counter
  noticed,            \* history: epochs whose beginning the engine noticed
  run,                \* history: readings in a row that were not of this epoch
  told,               \* history: epoch of the last clock_reset taken, and
  leftover            \* whether older readings were waiting at that moment

engine == <<ctr, epoch, last_counter, even, odd, noticed>>
server == <<waiting, model, run, told, leftover>>
vars == <<engine, up, server, faults>>

Wild == 0
Default == [win |-> <<>>, rejects |-> 0, wide |-> FALSE]
Notice == [kind |-> "input"]
Reset(e) == [kind |-> "clock_reset", epoch |-> e]
Sync(e, o) == [kind |-> "sync", halves |-> <<e, o>>]

\* The engine never waits for a server: what does not fit is dropped.
TrySend(ms) == IF Len(up) < QueueCap THEN up \o ms ELSE up

\* A disturbance of the receiver or its input.
Fault == faults < MaxFaults /\ faults' = faults + 1

-----------------------------------------------------------------------------
(* The input and the engine.                                               *)

\* on_reception: a step back that is neither jitter nor a wrap.
Backward(n) == \E l \in last_counter : l.n - n > ResetBackward /\ l.n - n < WrapMargin

\* Mutation: input_reset drops the counter only.
HalfKept(S) == S

\* input_reset: what is left of a stored half.
HalfDropped(S) == {}

\* pair_sync: half h completes a pair if the other one is close enough.
Paired(h, others, isOdd) ==
  LET near == {x \in others : x.n - h.n <= MaxPair /\ h.n - x.n <= MaxPair}
  IN  SetToSeq({IF isOdd THEN Sync(x.epoch, h.epoch) ELSE Sync(h.epoch, x.epoch) : x \in near})

\* on_reception of a DF17 half, g counts after the input's last event: report
\* a restart of the counter, store the half and send the pair it completes.
Reception(isOdd, g) ==
  LET n   == (ctr + g) % Mod
      e   == IF ctr + g >= Mod THEN epoch + 1 ELSE epoch
      h   == [n |-> n, epoch |-> e]
      rst == Backward(n)
      ev  == IF rst THEN HalfDropped(even) ELSE even
      od  == IF rst THEN HalfDropped(odd) ELSE odd
  IN  /\ e <= MaxEpochs
      /\ ctr' = n /\ epoch' = e /\ last_counter' = {h}
      /\ even' = IF isOdd THEN ev ELSE {h}
      /\ odd' = IF isOdd THEN {h} ELSE od
      /\ up' = TrySend((IF rst THEN <<Reset(e)>> ELSE <<>>)
                         \o Paired(h, IF isOdd THEN ev ELSE od, isOdd))
      /\ noticed' = noticed \cup (IF rst THEN {e} ELSE {})
      /\ UNCHANGED <<server, faults>>

\* The receiver's counter starts again from zero.
Restart ==
  /\ epoch < MaxEpochs
  /\ ctr' = 0 /\ epoch' = epoch + 1
  /\ UNCHANGED <<last_counter, even, odd, noticed, up, server, faults>>

\* InputUp and InputDown: the engine resets and tells the server, which does
\* nothing about it.  No clock_reset is sent, and the next reading has no
\* predecessor to step back from.
InputChanged ==
  /\ Fault
  /\ last_counter' = {} /\ even' = HalfDropped(even) /\ odd' = HalfDropped(odd)
  /\ up' = TrySend(<<Notice>>)
  /\ UNCHANGED <<ctr, epoch, noticed, server>>

\* tick: an aircraft silent for LOST_AFTER_S is forgotten, with its halves.
Expire ==
  /\ even \cup odd # {} /\ Fault
  /\ even' = {} /\ odd' = {}
  /\ UNCHANGED <<ctr, epoch, last_counter, noticed, up, server>>

-----------------------------------------------------------------------------
(* The pair model.                                                         *)

Usable(m) == Len(m.win) >= MinWeight /\ m.wide

\* Whether a reading may fall inside the gate of a usable model: surely if
\* all its readings obey the same relation, surely not if they all obey
\* another one, and by chance if they are mixed.
Fits(m, x) ==
  CASE x # Wild /\ ToSet(m.win) = {x}                    -> {TRUE}
    [] \E e \in 1..epoch : ToSet(m.win) = {e} /\ x # e   -> {FALSE}
    [] OTHER                                             -> BOOLEAN

\* Mutation: rejections never reset the model.
RejectedForever(m) == [m EXCEPT !.rejects = IF @ < ResetAfter THEN @ + 1 ELSE @]

\* push of a reading outside the gate: a long enough run resets the model.
Rejected(m) == IF m.rejects + 1 >= ResetAfter THEN Default ELSE [m EXCEPT !.rejects = @ + 1]

\* Mutation: an accepted reading does not end a run of rejections.
RunGoesOn(m) == m.rejects

\* push of a reading inside the gate of a usable model ends the run.
RunAfter(m) == IF Usable(m) THEN 0 ELSE m.rejects

\* push of an accepted reading: the oldest ones lose their weight.
Ingested(m, x) ==
  {[win |-> IF Len(m.win) < Window THEN Append(m.win, x) ELSE Append(Tail(m.win), x),
    rejects |-> RunAfter(m), wide |-> b] : b \in BOOLEAN}

\* PairModel::push, with every outcome the numbers may have.
Push(m, x) ==
  IF Usable(m)
  THEN UNION {IF ok THEN Ingested(m, x) ELSE {Rejected(m)} : ok \in Fits(m, x)}
  ELSE Ingested(m, x)

\* The two pushes of one shared event: even half, then odd half.
Pushed(m, halves) == UNION {Push(k, halves[2]) : k \in Push(m, halves[1])}

-----------------------------------------------------------------------------
(* The server.                                                             *)

\* Training with a pair of readings.
Train(halves) ==
  /\ model' \in Pushed(model, halves)
  /\ run' = IF halves[2] = epoch THEN 0
            ELSE IF halves[1] = epoch THEN 1
            ELSE IF run + 2 < ResetAfter THEN run + 2 ELSE ResetAfter

\* What the numbers of a pair of readings may be: one may be wild.
TrainAny(halves) ==
  \/ Train(halves) /\ UNCHANGED faults
  \/ /\ Fault
     /\ \E i \in {1, 2} : Train([halves EXCEPT ![i] = Wild])

\* on_sync after the neighbour reported the same squitters.
SyncSecond ==
  /\ up # <<>> /\ up[1].kind = "sync"
  /\ up' = Tail(up)
  /\ TrainAny(up[1].halves)
  /\ UNCHANGED <<engine, waiting, told, leftover>>

\* on_sync before the neighbour's report: the reading waits (one at a time).
SyncFirst ==
  /\ up # <<>> /\ up[1].kind = "sync" /\ waiting = {}
  /\ up' = Tail(up) /\ waiting' = {up[1].halves}
  /\ UNCHANGED <<engine, model, faults, run, told, leftover>>

\* on_sync of the neighbour finds a reading waiting.
NeighbourReports ==
  /\ \E r \in waiting : TrainAny(r) /\ waiting' = waiting \ {r}
  /\ UNCHANGED <<engine, up, told, leftover>>

\* sweep: a sync point is forgotten after 4 s.
Sweep ==
  /\ waiting # {} /\ waiting' = {}
  /\ UNCHANGED <<engine, up, model, faults, run, told, leftover>>

\* Mutation: clock_reset leaves the models alone.
ModelKept == model

\* clock_reset: the receiver's pair models are dropped.
ModelDropped == Default

\* process_line_tx of a clock_reset.
TakeReset ==
  /\ up # <<>> /\ up[1].kind = "clock_reset"
  /\ up' = Tail(up)
  /\ model' = ModelDropped
  /\ told' = up[1].epoch /\ leftover' = (waiting # {})
  /\ UNCHANGED <<engine, waiting, faults, run>>

\* process_line_tx of an input notice: no state needed.
TakeNotice ==
  /\ up # <<>> /\ up[1].kind = "input"
  /\ up' = Tail(up)
  /\ UNCHANGED <<engine, server, faults>>

-----------------------------------------------------------------------------
Init ==
  /\ ctr = 0 /\ epoch = 1 /\ last_counter = {} /\ even = {} /\ odd = {}
  /\ up = <<>> /\ waiting = {} /\ model = Default /\ faults = 0
  /\ noticed = {} /\ run = 0 /\ told = 0 /\ leftover = FALSE

\* The server's loop takes the next line.
TakeLine == SyncSecond \/ SyncFirst \/ TakeReset \/ TakeNotice

AnyReception == \E isOdd \in BOOLEAN, g \in Gaps : Reception(isOdd, g)

Next ==
  \/ AnyReception \/ Restart \/ InputChanged \/ Expire
  \/ TakeLine \/ NeighbourReports \/ Sweep

\* The connection is read, and the two receivers go on hearing common
\* aircraft: readings of the present epoch keep meeting the neighbour's.
Fairness ==
  /\ WF_vars(TakeLine)
  /\ SF_vars(SyncSecond /\ \E i \in 1..2 : up[1].halves[i] = epoch)
  /\ \A isOdd \in BOOLEAN : SF_vars(Reception(isOdd, 0))

Spec == Init /\ [][Next]_vars /\ Fairness

-----------------------------------------------------------------------------
(* Properties.                                                             *)

\* A sync message carries two readings of one clock as far as the engine can
\* tell: none joins halves from both sides of a restart that it noticed, with
\* whatever receptions, expiries and unnoticed restarts in between
\* (engine.rs, on_reception, input_reset and pair_sync).
SyncOfOneClock ==
  \A i \in DOMAIN up : up[i].kind = "sync" =>
    LET a == up[i].halves[1]  b == up[i].halves[2]
    IN  ~ \E q \in noticed : (a < q /\ q <= b) \/ (b < q /\ q <= a)

\* Once the server has taken the clock_reset of the present epoch, no reading
\* of an earlier one weighs in the pair model, unless one was waiting in a sync
\* point when the reset came (state.rs, clock_reset).
ResetIsClean ==
  told = epoch /\ ~leftover => ToSet(model.win) \subseteq {epoch, Wild}

\* A usable model of the present clock survives readings that do not fit it
\* (wild ones, old ones from sync points, a pair that straddles a restart) as
\* long as fitting ones arrive between them: what drops it is a run of
\* RESET_AFTER_REJECTS, the last pair included (clocksync.rs, push: "Too many
\* in a row = clock jump = reset").
SpikesTolerated ==
  [][Usable(model) /\ ToSet(model.win) = {epoch} /\ told' = told
       /\ Len(model'.win) < Len(model.win)
     => run + 2 >= ResetAfter]_vars

\* However a clock was lost (a clock_reset dropped by the full queue, a wrap,
\* a restart behind a reconnecting input, an old reading in a sync point), the
\* model in the end holds readings of the present clock only.
Relearns == []<>(ToSet(model.win) \subseteq {epoch, Wild})
=============================================================================

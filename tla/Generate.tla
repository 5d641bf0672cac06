----------------------------- MODULE Generate ------------------------------
(***************************************************************************)
(* The simulator's client stream (crates/mb-sim/src/gen.rs, clock.rs): the *)
(* broadcasts of all aircraft, in emission order, are received by one      *)
(* receiver after a propagation delay, stamped with its counter, turned    *)
(* into the lines of an mlat-client and framed into the records of a       *)
(* capture (crates/mlat-bench/src/gencmd.rs).                              *)
(*                                                                         *)
(* Time is in whole units, Second of them to a second; the counter counts  *)
(* them, modulo Mod.  A step takes the next broadcast in emission order;   *)
(* what makes it heard, late or jumped is chosen where the code draws a    *)
(* random number or computes a range.  The wrapping 12 MHz counter is the  *)
(* one modelled, without the measurement noise of its readings.            *)
(***************************************************************************)
EXTENDS Integers, Sequences, SequencesExt, FiniteSets

CONSTANTS
  Adsb,           \* aircraft that broadcast DF17 positions
  ModesOnly,      \* aircraft that broadcast DF11 and DF4
  Second,         \* units of time in a second
  Period,         \* heartbeat interval
  PairWindow,     \* how far apart the halves of a sync may arrive
  Mod,            \* the counter wraps (WRAP_48)
  Starts,         \* start_count of the receiver's clock
  Gaps,           \* time between broadcasts
  Ranges,         \* of each aircraft: its propagation delays, echoes included
  Jump,           \* length of a counter jump
  Delays,         \* network delays drawn for the records of a stream, one after
                  \* the other and then again
  MaxBroadcasts,  \* bound: broadcasts
  MaxJumps        \* bound: counter jumps

Aircraft == Adsb \cup ModesOnly

ASSUME GenerateAssumption ==
  /\ Ranges \in [Aircraft -> SUBSET Nat]
  /\ Gaps \subseteq Nat /\ Starts \subseteq 0..(Mod - 1)
  /\ {Second, Period, PairWindow, Mod} \subseteq Nat \ {0}
  /\ {Jump, MaxBroadcasts, MaxJumps} \subseteq Nat
  /\ Delays \subseteq Seq(Nat) \ {<<>>}

\* The delays of an aircraft's signals differ by far less than the two seconds
\* in which halves are paired.
ASSUME DelayAssumption ==
  \A ac \in Aircraft : \A r, q \in Ranges[ac] : r - q < PairWindow

VARIABLES
  emitted,    \* broadcasts taken so far
  last,       \* emission time of the last one
  odd,        \* of each ADS-B aircraft: parity of its next position
  clock,      \* start count, last count (<<>> for none), phase and number of jumps
  lines,      \* lines so far, in the order they were made
  seen,       \* aircraft announced
  pending,    \* of each aircraft: <<>> or its half that awaits a partner
  nextHb,     \* time of the next heartbeat
  records     \* <<>>, or the compression, the delays drawn and the framed stream

vars == <<emitted, last, odd, clock, lines, seen, pending, nextHb, records>>

Line(t, kind, x) == [t |-> t, kind |-> kind, x |-> x]

-----------------------------------------------------------------------------
(* The receiver's clock.                                                   *)

NewClock(s) == [start |-> s, last |-> <<>>, phase |-> 0, jumps |-> 0]

\* The counter at time t, jumped or not, clamped so as not to run backwards.
\* A backwards step in the last second before the wrap is taken for the wrap.
CountAt(c, t) ==
  LET raw == (c.start + t + c.phase) % Mod
      wrapped == c.last[1] > Mod - Second /\ raw < c.last[1]
  IN  IF c.last # <<>> /\ ~wrapped /\ raw <= c.last[1] THEN c.last[1] + 1 ELSE raw

\* A jump moves the phase and breaks the continuity of the counter.
Jumped(c, by) == [c EXCEPT !.phase = @ + by, !.last = <<>>, !.jumps = @ + 1]

-----------------------------------------------------------------------------
(* The lines.                                                              *)

\* Mutation: one heartbeat for each broadcast at most.
OneBeat(t) == IF nextHb < t THEN 1 ELSE 0

\* How many heartbeats are due before a time.
BeatsDue(t) == IF nextHb < t THEN (t - nextHb + Period - 1) \div Period ELSE 0

Beats(t) == [i \in 1..BeatsDue(t) |-> Line(nextHb + (i - 1) * Period, "heartbeat", <<>>)]

\* Mutation: the halves may be of any age.
PairsAnyAge(p, h) == p # <<>> /\ p[1].odd # h.odd

\* A half completes the pending one of its aircraft.
MakesSync(p, h) == p # <<>> /\ p[1].odd # h.odd /\ h.t - p[1].t < PairWindow

\* The line that a reception makes, if any.
Report(ac, h) ==
  IF ac \in ModesOnly THEN <<Line(h.t, "mlat", <<h>>)>>
  ELSE IF MakesSync(pending[ac], h) THEN <<Line(h.t, "sync", <<pending[ac][1], h>>)>>
  ELSE <<>>

\* An aircraft's pending half after a reception: a partner uses it up, and a
\* half that finds none takes its place.
PendingAfter(ac, h) ==
  IF ac \in ModesOnly \/ MakesSync(pending[ac], h) THEN <<>> ELSE <<h>>

-----------------------------------------------------------------------------
(* One broadcast.                                                          *)

Emit(ac, gap) ==
  /\ records = <<>> /\ emitted < MaxBroadcasts
  /\ emitted' = emitted + 1
  /\ last' = last + gap
  /\ odd' = IF ac \in Adsb THEN [odd EXCEPT ![ac] = ~@] ELSE odd

\* Out of range, or lost.
Missed(ac, gap) ==
  /\ Emit(ac, gap)
  /\ UNCHANGED <<clock, lines, seen, pending, nextHb, records>>

\* Heard at its arrival, after the heartbeats due by then; the clock may jump,
\* which the client announces.
Heard(ac, gap, delay, jump) ==
  LET t == last + gap + delay
      c == IF jump = 0 THEN clock ELSE Jumped(clock, jump)
      h == [n |-> emitted, t |-> t, odd |-> ac \in Adsb /\ odd[ac], count |-> CountAt(c, t)]
      jumps == IF jump = 0 THEN <<>> ELSE <<Line(t, "clock_jump", <<>>)>>
      new == IF ac \in seen THEN <<>> ELSE <<Line(t, "seen", <<>>)>>
  IN  /\ Emit(ac, gap)
      /\ jump # 0 => clock.jumps < MaxJumps
      /\ clock' = [c EXCEPT !.last = <<h.count>>]
      /\ lines' = lines \o Beats(t) \o (jumps \o new \o Report(ac, h))
      /\ seen' = seen \cup {ac}
      /\ pending' = [pending EXCEPT ![ac] = PendingAfter(ac, h)]
      /\ nextHb' = nextHb + BeatsDue(t) * Period
      /\ UNCHANGED records

-----------------------------------------------------------------------------
(* Framing.                                                                *)

\* The lines in the order of arrival; lines that arrived together keep their
\* order.
Sorted(ls) ==
  LET place == [i \in DOMAIN ls |->
                  Cardinality({j \in DOMAIN ls : ls[j].t < ls[i].t \/ (ls[j].t = ls[i].t /\ j <= i)})]
  IN  [k \in DOMAIN ls |-> ls[CHOOSE i \in DOMAIN ls : place[i] = k]]

Frame(t, ls) == [t |-> t, lines |-> ls]

\* The delay of the i-th record: the latency of the client and a jitter drawn
\* for this record, which takes less off than the latency (to_nanos).
Delay(draw, i) == draw[((i - 1) % Len(draw)) + 1]

Delayed(rs, draw) == [i \in DOMAIN rs |-> [rs[i] EXCEPT !.t = @ + Delay(draw, i)]]

WindowEnd(t) == (t \div Second + 1) * Second

\* Mutation: a line of the instant at which a window ends still belongs to it.
EndsAfter(t, end) == t > end

\* A line lies beyond the window.
Beyond(t, end) == t >= end

\* One line of the batching loop: a line beyond the window first sends off
\* the batch and moves the window to its own second.
Batched(acc, l) ==
  IF Beyond(l.t, acc.end)
  THEN [out |-> IF acc.batch = <<>> THEN acc.out
                ELSE Append(acc.out, Frame(acc.end, acc.batch)),
        batch |-> <<l>>, end |-> WindowEnd(l.t)]
  ELSE [acc EXCEPT !.batch = Append(@, l)]

\* zlib2: the lines of a second go out at its end, the last batch too.
Windows(ls) ==
  LET acc == FoldLeft(Batched, [out |-> <<>>, batch |-> <<>>, end |-> WindowEnd(ls[1].t)], ls)
  IN  Append(acc.out, Frame(acc.end, acc.batch))

\* none, zlib: a record for every line.
Singly(ls) == [i \in DOMAIN ls |-> Frame(ls[i].t, <<ls[i]>>)]

\* The sorted stream is framed, and every record delayed by the network.
FrameLines(compress, draw) ==
  /\ records = <<>>
  /\ records' = <<compress, draw,
                  LET ls == Sorted(lines)
                  IN  Delayed(IF compress = "zlib2" THEN Windows(ls) ELSE Singly(ls), draw)>>
  /\ UNCHANGED <<emitted, last, odd, clock, lines, seen, pending, nextHb>>

-----------------------------------------------------------------------------
Init ==
  /\ emitted = 0 /\ last = 0 /\ odd \in [Adsb -> BOOLEAN]
  /\ \E s \in Starts : clock = NewClock(s)
  /\ lines = <<Line(0, "input_connected", <<>>)>>
  /\ seen = {} /\ pending = [ac \in Aircraft |-> <<>>]
  /\ nextHb = Period /\ records = <<>>

Next ==
  \/ \E ac \in Aircraft, gap \in Gaps :
       \/ Missed(ac, gap)
       \/ \E delay \in Ranges[ac], jump \in {-Jump, 0, Jump} : Heard(ac, gap, delay, jump)
  \/ \E compress \in {"none", "zlib", "zlib2"}, draw \in Delays : FrameLines(compress, draw)

Spec == Init /\ [][Next]_vars

-----------------------------------------------------------------------------
(* Properties.                                                             *)

\* Framing keeps every line, once and in the order of arrival (lines of one
\* instant in the order they were made), although each record is delayed by
\* its own jitter.  But for that delay a line goes out when it was heard, and
\* with zlib2 at the end of its own second (frame_lines).
FramedWhole ==
  records # <<>> =>
    LET rs == records[3]
        ls == FlattenSeq([i \in DOMAIN rs |-> rs[i].lines])
    IN  /\ Len(ls) = Len(lines)
        /\ \A l \in ToSet(lines) : LET together(m) == m.t = l.t
                                   IN  SelectSeq(ls, together) = SelectSeq(lines, together)
        /\ \A i \in DOMAIN ls : i > 1 => ls[i - 1].t <= ls[i].t
        /\ \A i \in DOMAIN rs : \A l \in ToSet(rs[i].lines) :
             rs[i].t - Delay(records[2], i) = IF records[1] = "zlib2" THEN WindowEnd(l.t) ELSE l.t

\* The records of a stream follow each other in time.  This does not hold: a
\* record that draws less delay than the one before it may be due earlier.
RecordsInOrder ==
  records # <<>> => \A i, j \in DOMAIN records[3] : i < j => records[3][i].t <= records[3][j].t

\* Up to its last reception a client is never silent for longer than the
\* heartbeat interval, however long it hears nothing (a line that is not of
\* the first instant follows another within the interval), and each heartbeat
\* is sent once.
NoSilence ==
  /\ \A i \in DOMAIN lines : lines[i].t > 0 =>
       \E j \in DOMAIN lines : lines[j].t < lines[i].t /\ lines[i].t - lines[j].t <= Period
  /\ \A i, j \in DOMAIN lines :
       lines[i].kind = "heartbeat" /\ lines[j].kind = "heartbeat" /\ i # j
         => lines[i].t # lines[j].t

\* A sync line joins an even and an odd reception that arrived close together,
\* and no reception is used by two sync lines, whatever was lost in between.
SyncHonest ==
  LET syncs == {i \in DOMAIN lines : lines[i].kind = "sync"}
      used(i) == {lines[i].x[1].n, lines[i].x[2].n}
  IN  /\ \A i \in syncs : LET a == lines[i].x[1]
                              b == lines[i].x[2]
                          IN  /\ a.odd # b.odd
                              /\ b.t - a.t < PairWindow /\ a.t - b.t < PairWindow
      /\ \A i, j \in syncs : i # j => used(i) \cap used(j) = {}

\* The counter of a line that was just stamped.
Stamp(l) == l.x[Len(l.x)].count

\* On the wire the counter runs backwards only at a wrap or after a clock jump
\* (clock.rs: "the server treats backwards jumps as resets, so we also enforce
\* per-connection monotonicity below").
WireMonotone ==
  LET ls == Sorted(lines)
  IN  \A i, j \in DOMAIN ls :
        /\ i < j /\ ls[i].kind \in {"sync", "mlat"} /\ ls[j].kind \in {"sync", "mlat"}
        /\ ~\E k \in (i + 1)..(j - 1) : ls[k].kind = "clock_jump"
        => Stamp(ls[i]) <= Stamp(ls[j]) \/ 2 * (Stamp(ls[i]) - Stamp(ls[j])) > Mod
=============================================================================

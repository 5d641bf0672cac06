---------------------------- MODULE StreamProofs ----------------------------
(***************************************************************************)
(* Proofs about the two streams that the bench makes, the event file of    *)
(* Generate and the bytes of BeastInput, for any aircraft, gaps, delays,   *)
(* clock and number of broadcasts, and for any payloads, any noise and any *)
(* cut into reads.                                                         *)
(*                                                                         *)
(* Generate: lines are made in emission order and arrive in another, so a  *)
(* reception may fall before heartbeats that were already made.  NoSilence *)
(* therefore needs that every instant up to the next heartbeat, not only   *)
(* every line, has a line shortly before it (Covered).  SyncHonest needs   *)
(* that halves that wait for a partner are of different broadcasts and in  *)
(* no sync line (HalvesUnused), and that a later broadcast arrives at most *)
(* a difference of delays earlier (HalvesRecent).                          *)
(*                                                                         *)
(* BeastInput: a step of the decoder that consumes anything is not changed *)
(* by bytes that come later (StepExtends), so feeding two chunks one after *)
(* the other is feeding both at once (FeedJoin); an encoded message is one *)
(* step (EncodeStep).  Scanned and Decoded are recursive functions; what   *)
(* they compute is shown by strong induction over a set of numbers         *)
(* (AllNat), which rests on the least element of a set of numbers.         *)
(***************************************************************************)
EXTENDS Generate, BeastInput, TLAPS, SequenceTheorems, NaturalsInduction, WellFoundedInduction

-----------------------------------------------------------------------------
(* The event file of the generator.                                        *)

Half == [n: Nat, t: Nat, odd: BOOLEAN, count: Int]
Kinds == {"input_connected", "heartbeat", "clock_jump", "seen", "mlat", "sync"}
LineRec == [t: Nat, kind: Kinds, x: Seq(Half)]
Clock == [start: Int, last: Seq(Int), phase: Int, jumps: Nat]

LineTypes ==
  /\ emitted \in Nat /\ last \in Nat /\ nextHb \in Nat
  /\ odd \in [Adsb -> BOOLEAN]
  /\ clock \in Clock
  /\ lines \in Seq(LineRec)
  /\ pending \in [Aircraft -> Seq(Half)]

\* Every instant up to the next heartbeat has a line within the interval
\* before it.
Covered ==
  \A u \in 1..nextHb : \E j \in 1..Len(lines) : lines[j].t < u /\ u - lines[j].t <= Period

\* No line is later than the next heartbeat, and every heartbeat is earlier.
Behind ==
  \A i \in 1..Len(lines) : /\ lines[i].t <= nextHb
                           /\ lines[i].kind = "heartbeat" => lines[i].t < nextHb

BeatsOnce ==
  \A i, j \in 1..Len(lines) :
    lines[i].kind = "heartbeat" /\ lines[j].kind = "heartbeat" /\ i # j => lines[i].t # lines[j].t

\* A half that waits is of an earlier broadcast and arrived within its
\* aircraft's delays of the last one.
HalvesRecent ==
  \A ac \in Aircraft : pending[ac] # <<>> =>
    /\ pending[ac][1].n < emitted
    /\ \E r \in Ranges[ac] : pending[ac][1].t <= last + r

\* Halves that wait are of different broadcasts.
HalvesApart ==
  \A ac, bc \in Aircraft :
    ac # bc /\ pending[ac] # <<>> /\ pending[bc] # <<>> => pending[ac][1].n # pending[bc][1].n

\* Sync lines use earlier broadcasts, none of which waits any more.
HalvesUnused ==
  \A i \in 1..Len(lines) : lines[i].kind = "sync" =>
    /\ lines[i].x[1].n < emitted /\ lines[i].x[2].n < emitted
    /\ \A ac \in Aircraft : pending[ac] # <<>> =>
         pending[ac][1].n # lines[i].x[1].n /\ pending[ac][1].n # lines[i].x[2].n

\* What SyncHonest says of one sync line, and of two.
Joins(l) ==
  /\ l.x[1].n \in Nat /\ l.x[2].n \in Nat
  /\ l.x[1].odd # l.x[2].odd
  /\ l.x[2].t - l.x[1].t < PairWindow /\ l.x[1].t - l.x[2].t < PairWindow
Disjoint(l, m) ==
  l.x[1].n # m.x[1].n /\ l.x[1].n # m.x[2].n /\ l.x[2].n # m.x[1].n /\ l.x[2].n # m.x[2].n

Syncs ==
  /\ \A i \in 1..Len(lines) : lines[i].kind = "sync" => Joins(lines[i])
  /\ \A i, j \in 1..Len(lines) :
       lines[i].kind = "sync" /\ lines[j].kind = "sync" /\ i # j => Disjoint(lines[i], lines[j])

IInv ==
  LineTypes /\ Covered /\ Behind /\ BeatsOnce /\ HalvesRecent /\ HalvesApart /\ HalvesUnused /\ Syncs

-----------------------------------------------------------------------------
\* A sequence behind another.
LEMMA Joined ==
  ASSUME NEW S, NEW p \in Seq(S), NEW q \in Seq(S)
  PROVE  /\ p \o q \in Seq(S) /\ Len(p) \in Nat /\ Len(q) \in Nat
         /\ Len(p \o q) = Len(p) + Len(q)
         /\ \A i \in 1..Len(p) : (p \o q)[i] = p[i]
         /\ \A i \in 1..Len(q) : (p \o q)[Len(p) + i] = q[i]
         /\ \A i \in 1..(Len(p) + Len(q)) : i \in 1..Len(p) \/ \E k \in 1..Len(q) : i = Len(p) + k
  <1>1. /\ p \o q \in Seq(S) /\ Len(p) \in Nat /\ Len(q) \in Nat /\ Len(p \o q) = Len(p) + Len(q)
        /\ \A i \in 1..(Len(p) + Len(q)) :
             (p \o q)[i] = IF i <= Len(p) THEN p[i] ELSE q[i - Len(p)]
    BY ConcatProperties, LenProperties
  <1> DEFINE a == Len(p)
             b == Len(q)
  <1>2. a \in Nat /\ b \in Nat
    BY <1>1
  <1> HIDE DEF a, b
  <1>3. \A i \in 1..(a + b) : i \in 1..a \/ (i - a \in 1..b /\ i = a + (i - a))
    BY <1>2
  <1>4. \A i \in 1..a : i \in 1..(a + b) /\ i <= a
    BY <1>2
  <1>5. \A i \in 1..b : a + i \in 1..(a + b) /\ ~(a + i <= a) /\ a + i - a = i
    BY <1>2
  <1> QED
    BY <1>1, <1>3, <1>4, <1>5 DEF a, b

\* Multiples of the heartbeat interval.
LEMMA Multiples ==
  ASSUME NEW p \in Nat \ {0}, NEW n \in Nat
  PROVE  /\ n * p \in Nat
         /\ \A i, j \in 0..n : i < j => i * p < j * p /\ i * p + p <= j * p
  <1>1. ASSUME NEW i \in 0..n, NEW j \in 0..n, i < j
        PROVE  i * p < j * p /\ i * p + p <= j * p
    <2>1. PICK k \in Nat : j = i + 1 + k
      BY <1>1
    <2>2. j * p = i * p + p + k * p
      BY <2>1
    <2>3. k * p \in Nat /\ i * p \in Nat
      BY <2>1
    <2> QED
      BY <2>2, <2>3
  <1> QED
    BY <1>1

\* The quotient by the heartbeat interval.
LEMMA Quotient ==
  ASSUME NEW p \in Nat \ {0}, NEW a \in Nat
  PROVE  a \div p \in Nat /\ (a \div p) * p <= a /\ a < (a \div p) * p + p
  OBVIOUS

\* The heartbeats before a reception fill the time up to it.
LEMMA BeatsFill ==
  ASSUME NEW t \in Nat, nextHb \in Nat
  PROVE  LET n == BeatsDue(t)
             b == Beats(t)
             hb == nextHb + n * Period
         IN  /\ n \in Nat /\ hb \in Nat /\ t <= hb /\ nextHb <= hb
             /\ b \in Seq(LineRec) /\ Len(b) = n
             /\ \A i \in 1..n : b[i].kind = "heartbeat" /\ nextHb <= b[i].t /\ b[i].t < hb
             /\ \A i, j \in 1..n : i # j => b[i].t # b[j].t
             /\ \A u \in (nextHb + 1)..hb : \E i \in 1..n : b[i].t < u /\ u - b[i].t <= Period
  <1> DEFINE n == BeatsDue(t)
             b == Beats(t)
             hb == nextHb + n * Period
  <1>1. Period \in Nat \ {0}
    BY GenerateAssumption
  <1>2. n \in Nat /\ t <= nextHb + n * Period
    <2>1. CASE nextHb < t
      <3> DEFINE a == t - nextHb + Period - 1
      <3>1. a \in Nat /\ a = t - nextHb + (Period - 1)
        BY <1>1, <2>1
      <3>2. n = a \div Period
        BY <2>1 DEF BeatsDue
      <3> HIDE DEF a, n
      <3>3. n \in Nat /\ a < n * Period + Period /\ n * Period \in Nat
        BY <1>1, <3>1, <3>2, Quotient, Multiples
      <3> QED
        BY <1>1, <2>1, <3>1, <3>3
    <2>2. CASE ~(nextHb < t)
      BY <1>1, <2>2 DEF BeatsDue
    <2> QED
      BY <2>1, <2>2
  <1>3. b = [i \in 1..n |-> Line(nextHb + (i - 1) * Period, "heartbeat", <<>>)]
    BY DEF Beats
  <1> HIDE DEF n, b
  <1>4. n * Period \in Nat /\ hb \in Nat /\ nextHb <= hb
    BY <1>1, <1>2, Multiples
  <1>5. \A i \in 1..n : /\ i - 1 \in 0..n /\ (i - 1) * Period \in Nat
                        /\ (i - 1) * Period < n * Period
    BY <1>1, <1>2, Multiples
  <1>6. \A i \in 1..n : /\ b[i].t = nextHb + (i - 1) * Period /\ b[i].kind = "heartbeat"
                        /\ b[i] \in LineRec
    <2> SUFFICES ASSUME NEW i \in 1..n
                 PROVE  /\ b[i].t = nextHb + (i - 1) * Period /\ b[i].kind = "heartbeat"
                        /\ b[i] \in LineRec
      OBVIOUS
    <2> DEFINE a == nextHb + (i - 1) * Period
    <2>1. b[i] = Line(a, "heartbeat", <<>>)
      BY <1>3
    <2>2. a \in Nat /\ <<>> \in Seq(Half) /\ "heartbeat" \in Kinds
      BY <1>5 DEF Kinds
    <2> HIDE DEF a
    <2>3. b[i].t = a /\ b[i].kind = "heartbeat" /\ b[i] \in LineRec
      <3> DEFINE l == Line(a, "heartbeat", <<>>)
      <3>1. l.t = a /\ l.kind = "heartbeat" /\ l \in LineRec
        BY <2>2 DEF Line, LineRec
      <3> HIDE DEF l
      <3>2. b[i] = l
        BY <2>1 DEF l
      <3> QED
        BY <3>1, <3>2
    <2> QED
      BY <2>3 DEF a
  <1>7. b \in Seq(LineRec) /\ Len(b) = n
    <2>1. DOMAIN b = 1..n /\ b \in [1..n -> LineRec]
      BY <1>3, <1>6
    <2>2. b \in Seq(LineRec)
      BY <1>2, <2>1, SeqDef
    <2> QED
      BY <1>2, <2>1, <2>2, LenProperties
  <1>8. \A i \in 1..n : b[i].kind = "heartbeat" /\ nextHb <= b[i].t /\ b[i].t < hb
    <2> SUFFICES ASSUME NEW i \in 1..n
                 PROVE  b[i].kind = "heartbeat" /\ nextHb <= b[i].t /\ b[i].t < hb
      OBVIOUS
    <2> DEFINE a == (i - 1) * Period
               z == n * Period
    <2>1. a \in Nat /\ z \in Nat /\ a < z /\ b[i].t = nextHb + a /\ b[i].kind = "heartbeat"
      BY <1>4, <1>5, <1>6
    <2> HIDE DEF a, z
    <2> QED
      BY <2>1 DEF z
  <1>9. \A i, j \in 1..n : i # j => b[i].t # b[j].t
    <2> SUFFICES ASSUME NEW i \in 1..n, NEW j \in 1..n, i < j PROVE b[i].t # b[j].t
      BY <1>2
    <2>1. (i - 1) * Period < (j - 1) * Period
      BY <1>1, <1>2, <1>5, Multiples
    <2> QED
      BY <1>5, <1>6, <2>1
  <1>10. ASSUME NEW u \in (nextHb + 1)..hb
         PROVE  \E i \in 1..n : b[i].t < u /\ u - b[i].t <= Period
    <2> DEFINE a == u - nextHb - 1
               q == a \div Period
    <2>1. a \in Nat /\ u = nextHb + a + 1 /\ a < n * Period
      BY <1>4
    <2>2. q \in Nat /\ q * Period <= a /\ a < q * Period + Period /\ q * Period \in Nat
      BY <1>1, <2>1, Quotient, Multiples
    <2> HIDE DEF a, q
    <2>3. q < n
      <3> SUFFICES ASSUME n <= q PROVE FALSE
        BY <1>2, <2>2
      <3>1. n * Period <= q * Period
        <4>1. CASE n = q
          BY <1>4, <4>1
        <4>2. CASE n < q
          BY <1>1, <1>2, <2>2, <4>2, Multiples
        <4> QED
          BY <1>2, <2>2, <4>1, <4>2
      <3> QED
        BY <1>4, <2>1, <2>2, <3>1
    <2>4. q + 1 \in 1..n /\ (q + 1) - 1 = q
      BY <1>2, <2>2, <2>3
    <2>5. b[q + 1].t = nextHb + q * Period
      BY <1>6, <2>4
    <2>6. b[q + 1].t < u /\ u - b[q + 1].t <= Period
      BY <1>1, <2>1, <2>2, <2>5
    <2> QED
      BY <2>4, <2>6
  <1> QED
    BY <1>2, <1>4, <1>7, <1>8, <1>9, <1>10 DEF n, b

\* A line alone.
LEMMA Alone ==
  ASSUME NEW t \in Nat, NEW k \in Kinds, NEW x \in Seq(Half)
  PROVE  LET s == <<Line(t, k, x)>>
         IN  /\ s \in Seq(LineRec) /\ Len(s) = 1
             /\ \A i \in 1..Len(s) : s[i].t = t /\ s[i].kind = k /\ s[i].x = x
  <1> DEFINE l == Line(t, k, x)
  <1>1. l \in LineRec /\ l.t = t /\ l.kind = k /\ l.x = x
    BY DEF Line, LineRec
  <1> HIDE DEF l
  <1>2. <<l>> \in Seq(LineRec) /\ Len(<<l>>) = 1 /\ \A i \in 1..1 : <<l>>[i] = l
    BY <1>1
  <1> QED
    BY <1>1, <1>2 DEF l

\* The counter is an integer.
LEMMA CountType ==
  ASSUME NEW c \in Clock, NEW t \in Nat
  PROVE  CountAt(c, t) \in Int
  <1>1. Mod \in Nat \ {0}
    BY GenerateAssumption
  <1>2. c.start + t + c.phase \in Int
    BY DEF Clock
  <1>3. (c.start + t + c.phase) % Mod \in Int
    BY <1>1, <1>2
  <1>4. c.last # <<>> => c.last[1] \in Int
    BY DEF Clock
  <1> QED
    BY <1>3, <1>4 DEF CountAt

\* What Heard does, with h for the reception and tl for the lines behind the
\* heartbeats: one report at most, at the end, and no heartbeat.
HeardAs(ac, gap, delay, h, tl) ==
  /\ gap \in Nat /\ delay \in Nat
  /\ h.n = emitted /\ h.t = last + gap + delay
  /\ emitted' = emitted + 1 /\ last' = last + gap /\ odd' \in [Adsb -> BOOLEAN]
  /\ clock' \in Clock
  /\ lines' = (lines \o Beats(h.t)) \o tl
  /\ pending' = [pending EXCEPT ![ac] = PendingAfter(ac, h)]
  /\ nextHb' = nextHb + BeatsDue(h.t) * Period
  /\ \A k \in 1..Len(tl) :
       /\ tl[k].t = h.t /\ tl[k].kind # "heartbeat"
       /\ tl[k].kind = "sync" => /\ k = Len(tl) /\ ac \notin ModesOnly
                                 /\ MakesSync(pending[ac], h)
                                 /\ tl[k].x = <<pending[ac][1], h>>

\* Heard is such a step.
LEMMA HeardFacts ==
  ASSUME LineTypes, NEW ac \in Aircraft, NEW gap \in Gaps, NEW delay \in Ranges[ac],
         NEW jump \in {-Jump, 0, Jump}, Heard(ac, gap, delay, jump)
  PROVE  \E h \in Half, tl \in Seq(LineRec) : HeardAs(ac, gap, delay, h, tl)
  <1> DEFINE t == last + gap + delay
             c == IF jump = 0 THEN clock ELSE Jumped(clock, jump)
             cnt == CountAt(c, t)
             o == ac \in Adsb /\ odd[ac]
             h == [n |-> emitted, t |-> t, odd |-> o, count |-> cnt]
             jumps == IF jump = 0 THEN <<>> ELSE <<Line(t, "clock_jump", <<>>)>>
             new == IF ac \in seen THEN <<>> ELSE <<Line(t, "seen", <<>>)>>
             rep == Report(ac, h)
             tl == jumps \o new \o rep
  <1>1. gap \in Nat /\ delay \in Nat /\ jump \in Int
    BY GenerateAssumption
  <1>2. t \in Nat
    BY <1>1 DEF LineTypes
  <1>3. c \in Clock
    <2>1. <<>> \in Seq(Int)
      OBVIOUS
    <2> QED
      <3>1. CASE jump = 0
        BY <3>1 DEF LineTypes
      <3>2. CASE jump # 0
        <4>1. clock \in Clock /\ c = [clock EXCEPT !.phase = @ + jump, !.last = <<>>, !.jumps = @ + 1]
          BY <3>2 DEF LineTypes, Jumped
        <4>2. clock.phase + jump \in Int /\ clock.jumps + 1 \in Nat
          BY <1>1, <4>1 DEF Clock
        <4> HIDE DEF c
        <4> QED
          BY <2>1, <4>1, <4>2 DEF Clock
      <3> QED
        BY <3>1, <3>2
  <1>4. cnt \in Int
    BY <1>2, <1>3, CountType
  <1>5. o \in BOOLEAN
    OBVIOUS
  <1>6. h \in Half /\ h.n = emitted /\ h.t = t /\ h.count = cnt
    <2> HIDE DEF t, cnt, o
    <2> QED
      BY <1>2, <1>4, <1>5 DEF LineTypes, Half
  <1>7. /\ Emit(ac, gap)
        /\ clock' = [c EXCEPT !.last = <<cnt>>]
        /\ lines' = (lines \o Beats(t)) \o tl
        /\ pending' = [pending EXCEPT ![ac] = PendingAfter(ac, h)]
        /\ nextHb' = nextHb + BeatsDue(t) * Period
    BY DEF Heard
  <1>8. clock' \in Clock
    <2> HIDE DEF c, cnt
    <2>1. <<cnt>> \in Seq(Int)
      BY <1>4
    <2> QED
      BY <1>3, <1>7, <2>1 DEF Clock
  <1>9. emitted' = emitted + 1 /\ last' = last + gap /\ odd' \in [Adsb -> BOOLEAN]
    BY <1>7 DEF Emit, LineTypes
  <1> HIDE DEF t, c, cnt, o, h
  <1>10. /\ jumps \in Seq(LineRec)
         /\ \A k \in 1..Len(jumps) : jumps[k].t = t /\ jumps[k].kind = "clock_jump"
    <2>1. "clock_jump" \in Kinds
      BY DEF Kinds
    <2>2. CASE jump = 0
      BY <2>2
    <2>3. CASE jump # 0
      <3> DEFINE x == <<>>
                 s == <<Line(t, "clock_jump", x)>>
      <3>2. jumps = s
        BY <2>3
      <3>0. x \in Seq(Half)
        OBVIOUS
      <3> HIDE DEF x
      <3>1. /\ s \in Seq(LineRec)
            /\ \A k \in 1..Len(s) : s[k].t = t /\ s[k].kind = "clock_jump"
        BY <1>2, <2>1, <3>0, Alone
      <3> HIDE DEF s, jumps
      <3> QED
        BY <3>1, <3>2
    <2> QED
      BY <2>2, <2>3
  <1>11. /\ new \in Seq(LineRec)
         /\ \A k \in 1..Len(new) : new[k].t = t /\ new[k].kind = "seen"
    <2>1. "seen" \in Kinds
      BY DEF Kinds
    <2>2. CASE ac \in seen
      BY <2>2
    <2>3. CASE ac \notin seen
      <3> DEFINE x == <<>>
                 s == <<Line(t, "seen", x)>>
      <3>2. new = s
        BY <2>3
      <3>0. x \in Seq(Half)
        OBVIOUS
      <3> HIDE DEF x
      <3>1. /\ s \in Seq(LineRec)
            /\ \A k \in 1..Len(s) : s[k].t = t /\ s[k].kind = "seen"
        BY <1>2, <2>1, <3>0, Alone
      <3> HIDE DEF s, new
      <3> QED
        BY <3>1, <3>2
    <2> QED
      BY <2>2, <2>3
  <1>12. /\ rep \in Seq(LineRec) /\ Len(rep) \in {0, 1}
         /\ \A k \in 1..Len(rep) :
              /\ rep[k].t = t /\ rep[k].kind # "heartbeat"
              /\ rep[k].kind = "sync" => /\ ac \notin ModesOnly /\ MakesSync(pending[ac], h)
                                         /\ rep[k].x = <<pending[ac][1], h>>
    <2>1. "mlat" \in Kinds /\ "sync" \in Kinds
      BY DEF Kinds
    <2>2. CASE ac \in ModesOnly
      <3> DEFINE x == <<h>>
                 s == <<Line(t, "mlat", x)>>
      <3>0. x \in Seq(Half)
        BY <1>6
      <3>2. rep = s
        BY <1>6, <2>2 DEF Report
      <3> HIDE DEF x
      <3>1. /\ s \in Seq(LineRec) /\ Len(s) = 1
            /\ \A k \in 1..Len(s) : s[k].t = t /\ s[k].kind = "mlat"
        BY <1>2, <2>1, <3>0, Alone
      <3> HIDE DEF s, rep
      <3> QED
        BY <3>1, <3>2
    <2>3. CASE ac \notin ModesOnly /\ MakesSync(pending[ac], h)
      <3> DEFINE x == <<pending[ac][1], h>>
                 s == <<Line(t, "sync", x)>>
      <3>0. x \in Seq(Half)
        <4>1. pending[ac] \in Seq(Half) /\ pending[ac] # <<>>
          BY <2>3 DEF LineTypes, MakesSync
        <4>2. pending[ac][1] \in Half
          BY <4>1
        <4> QED
          BY <1>6, <4>2
      <3>2. rep = s
        BY <1>6, <2>3 DEF Report
      <3> HIDE DEF x
      <3>1. /\ s \in Seq(LineRec) /\ Len(s) = 1
            /\ \A k \in 1..Len(s) : s[k].t = t /\ s[k].kind = "sync" /\ s[k].x = x
        BY <1>2, <2>1, <3>0, Alone
      <3> HIDE DEF s, rep
      <3> QED
        BY <2>3, <3>1, <3>2 DEF x
    <2>4. CASE ac \notin ModesOnly /\ ~MakesSync(pending[ac], h)
      BY <2>4 DEF Report
    <2> QED
      BY <2>2, <2>3, <2>4
  <1> DEFINE pre == jumps \o new
  <1> HIDE DEF jumps, new, rep
  <1>13. /\ pre \in Seq(LineRec)
         /\ \A k \in 1..Len(pre) : pre[k].t = t /\ pre[k].kind # "heartbeat" /\ pre[k].kind # "sync"
    BY <1>10, <1>11, Joined
  <1> HIDE DEF pre
  <1>14. /\ tl \in Seq(LineRec)
         /\ \A k \in 1..Len(tl) :
              /\ tl[k].t = t /\ tl[k].kind # "heartbeat"
              /\ tl[k].kind = "sync" => /\ k = Len(tl) /\ ac \notin ModesOnly
                                        /\ MakesSync(pending[ac], h)
                                        /\ tl[k].x = <<pending[ac][1], h>>
    <2>1. tl = pre \o rep
      BY DEF pre
    <2> HIDE DEF tl
    <2>2. /\ tl \in Seq(LineRec) /\ Len(tl) = Len(pre) + Len(rep) /\ Len(pre) \in Nat /\ Len(rep) \in Nat
          /\ \A i \in 1..Len(pre) : tl[i] = pre[i]
          /\ \A i \in 1..Len(rep) : tl[Len(pre) + i] = rep[i]
          /\ \A i \in 1..(Len(pre) + Len(rep)) :
               i \in 1..Len(pre) \/ \E k \in 1..Len(rep) : i = Len(pre) + k
      BY <1>12, <1>13, <2>1, Joined
    <2>3. \A k \in 1..Len(rep) : Len(pre) + k = Len(tl)
      <3> DEFINE r == Len(rep)
      <3>1. r \in {0, 1} /\ Len(tl) = Len(pre) + r
        BY <1>12, <2>2
      <3> HIDE DEF r
      <3>2. \A k \in 1..r : k = r
        BY <3>1
      <3> QED
        BY <3>1, <3>2 DEF r
    <2> QED
      BY <1>12, <1>13, <2>2, <2>3
  <1> HIDE DEF tl
  <1> QED
    BY <1>1, <1>6, <1>7, <1>8, <1>9, <1>14 DEF t, HeardAs

\* L holds the lines ls, then the heartbeats b, then tl.
GrownTo(L, ls, b, tl) ==
  /\ L \in Seq(LineRec)
  /\ \A i \in 1..Len(ls) : i \in 1..Len(L) /\ L[i] = ls[i]
  /\ \A k \in 1..Len(b) : \E i \in 1..Len(L) : L[i] = b[k]
  /\ \A i \in 1..Len(L) :
       \/ i \in 1..Len(ls) /\ L[i] = ls[i]
       \/ \E k \in 1..Len(b) : i = Len(ls) + k /\ L[i] = b[k]
       \/ \E k \in 1..Len(tl) : i = Len(ls) + Len(b) + k /\ L[i] = tl[k]

\* Where the lines are after more of them were put behind.
LEMMA Grown ==
  ASSUME NEW ls \in Seq(LineRec), NEW b \in Seq(LineRec), NEW tl \in Seq(LineRec)
  PROVE  GrownTo((ls \o b) \o tl, ls, b, tl)
  <1> DEFINE L == (ls \o b) \o tl
             m == ls \o b
  <1>0. m = ls \o b
    OBVIOUS
  <1>M. L = m \o tl
    OBVIOUS
  <1> HIDE DEF m, L
  <1>1. /\ m \in Seq(LineRec) /\ Len(ls) \in Nat /\ Len(b) \in Nat /\ Len(m) = Len(ls) + Len(b)
        /\ \A i \in 1..Len(ls) : m[i] = ls[i]
        /\ \A i \in 1..Len(b) : m[Len(ls) + i] = b[i]
        /\ \A i \in 1..(Len(ls) + Len(b)) : i \in 1..Len(ls) \/ \E k \in 1..Len(b) : i = Len(ls) + k
    BY <1>0, Joined
  <1>2. /\ L \in Seq(LineRec) /\ Len(tl) \in Nat /\ Len(L) = Len(m) + Len(tl)
        /\ \A i \in 1..Len(m) : L[i] = m[i]
        /\ \A i \in 1..Len(tl) : L[Len(m) + i] = tl[i]
        /\ \A i \in 1..(Len(m) + Len(tl)) : i \in 1..Len(m) \/ \E k \in 1..Len(tl) : i = Len(m) + k
    <2>1. m \in Seq(LineRec) /\ L = m \o tl
      BY <1>M, <1>1
    <2> QED
      BY <2>1, Joined
  <1> DEFINE x == Len(ls)
             y == Len(b)
             z == Len(tl)
  <1>3. x \in Nat /\ y \in Nat /\ z \in Nat /\ Len(m) = x + y /\ Len(L) = x + y + z
    BY <1>1, <1>2
  <1>4. /\ \A i \in 1..x : m[i] = ls[i] /\ i \in 1..Len(m) /\ i \in 1..Len(L)
        /\ \A k \in 1..y : m[x + k] = b[k] /\ x + k \in 1..Len(m) /\ x + k \in 1..Len(L)
    <2> HIDE DEF x, y, z
    <2>1. /\ \A i \in 1..x : i \in 1..(x + y) /\ i \in 1..(x + y + z)
          /\ \A k \in 1..y : x + k \in 1..(x + y) /\ x + k \in 1..(x + y + z)
      BY <1>3
    <2> QED
      BY <1>1, <1>3, <2>1 DEF x, y
  <1>5. /\ \A i \in 1..x : i \in 1..Len(L) /\ L[i] = ls[i]
        /\ \A k \in 1..y : x + k \in 1..Len(L) /\ L[x + k] = b[k]
    BY <1>2, <1>4
  <1> HIDE DEF x, y, z
  <1>6. ASSUME NEW i \in 1..Len(L)
        PROVE  \/ i \in 1..x /\ L[i] = ls[i]
               \/ \E k \in 1..y : i = x + k /\ L[i] = b[k]
               \/ \E k \in 1..z : i = x + y + k /\ L[i] = tl[k]
    <2>1. i \in 1..Len(m) \/ \E k \in 1..z : i = Len(m) + k
      BY <1>2, <1>3 DEF z
    <2>2. CASE i \in 1..Len(m)
      <3>1. i \in 1..x \/ \E k \in 1..y : i = x + k
        BY <1>1, <1>3, <2>2 DEF x, y
      <3> QED
        BY <1>5, <3>1
    <2>3. CASE \E k \in 1..z : i = Len(m) + k
      BY <1>2, <1>3, <2>3 DEF z
    <2> QED
      BY <2>1, <2>2, <2>3
  <1> QED
    <2>1. GrownTo(L, ls, b, tl)
      BY <1>2, <1>5, <1>6 DEF x, y, z, GrownTo
    <2> QED
      BY <2>1 DEF L

\* Heard keeps the invariant.
LEMMA HeardStep ==
  ASSUME IInv, NEW ac \in Aircraft, NEW gap \in Gaps, NEW delay \in Ranges[ac],
         NEW jump \in {-Jump, 0, Jump}, Heard(ac, gap, delay, jump)
  PROVE  IInv'
  <1>0. LineTypes
    BY DEF IInv
  <1>0a. PICK h \in Half, tl \in Seq(LineRec) : HeardAs(ac, gap, delay, h, tl)
    BY <1>0, HeardFacts
  <1>1. /\ gap \in Nat /\ delay \in Nat
        /\ h.n = emitted /\ h.t = last + gap + delay
        /\ emitted' = emitted + 1 /\ last' = last + gap /\ odd' \in [Adsb -> BOOLEAN]
        /\ clock' \in Clock
        /\ lines' = (lines \o Beats(h.t)) \o tl
        /\ pending' = [pending EXCEPT ![ac] = PendingAfter(ac, h)]
        /\ nextHb' = nextHb + BeatsDue(h.t) * Period
        /\ \A k \in 1..Len(tl) :
             /\ tl[k].t = h.t /\ tl[k].kind # "heartbeat"
             /\ tl[k].kind = "sync" => /\ k = Len(tl) /\ ac \notin ModesOnly
                                       /\ MakesSync(pending[ac], h)
                                       /\ tl[k].x = <<pending[ac][1], h>>
    BY <1>0a DEF HeardAs
  <1> DEFINE n == BeatsDue(h.t)
             b == Beats(h.t)
             t == h.t
  <1>2. /\ emitted \in Nat /\ last \in Nat /\ nextHb \in Nat /\ lines \in Seq(LineRec)
        /\ pending \in [Aircraft -> Seq(Half)] /\ t \in Nat /\ h.n \in Nat
    BY <1>0 DEF LineTypes, Half
  <1>3. /\ nextHb' \in Nat /\ t <= nextHb' /\ nextHb <= nextHb'
        /\ b \in Seq(LineRec) /\ Len(b) = n
        /\ \A i \in 1..n : b[i].kind = "heartbeat" /\ nextHb <= b[i].t /\ b[i].t < nextHb'
        /\ \A i, j \in 1..n : i # j => b[i].t # b[j].t
        /\ \A u \in (nextHb + 1)..(nextHb') : \E i \in 1..n : b[i].t < u /\ u - b[i].t <= Period
    BY <1>1, <1>2, BeatsFill
  <1> HIDE DEF n, b, t
  <1>L. lines' = (lines \o b) \o tl
    BY <1>1 DEF b
  <1>4. /\ lines' \in Seq(LineRec)
        /\ \A i \in 1..Len(lines) : i \in 1..Len(lines') /\ lines'[i] = lines[i]
        /\ \A k \in 1..n : \E i \in 1..Len(lines') : lines'[i] = b[k]
        /\ \A i \in 1..Len(lines') :
              \/ i \in 1..Len(lines) /\ lines'[i] = lines[i]
              \/ \E k \in 1..n : i = Len(lines) + k /\ lines'[i] = b[k]
              \/ \E k \in 1..Len(tl) : i = Len(lines) + Len(b) + k /\ lines'[i] = tl[k]
    <2>1. lines \in Seq(LineRec) /\ b \in Seq(LineRec) /\ Len(b) = n
      BY <1>2, <1>3
    <2>2. GrownTo(lines', lines, b, tl)
      BY <1>L, <2>1, Grown
    <2> QED
      BY <2>1, <2>2 DEF GrownTo
  <1>5. /\ \A i \in 1..Len(lines') : lines'[i].t \in Nat
        /\ \A i \in 1..Len(lines) : lines[i].t \in Nat
        /\ \A i \in 1..n : b[i].t \in Nat
    <2>1. /\ \A i \in 1..Len(lines') : lines'[i] \in LineRec
          /\ \A i \in 1..Len(lines) : lines[i] \in LineRec
          /\ \A i \in 1..n : b[i] \in LineRec
      BY <1>2, <1>3, <1>4
    <2> QED
      BY <2>1 DEF LineRec
  <1>E. \A v \in Nat : v < emitted => v < emitted' /\ v # h.n
    BY <1>1, <1>2
  <1>H. h.n < emitted' /\ h.t <= last' + delay
    BY <1>1, <1>2
  <1>R. \A v, r \in Nat : v <= last + r => v <= last' + r
    BY <1>1, <1>2
  \* A new sync line, and the half that was pending for it.
  <1> DEFINE p == pending[ac][1]
             IsNew(i) == /\ \A j \in 1..Len(lines') : j # i => j \in 1..Len(lines) \/ lines'[j].kind # "sync"
                         /\ ac \notin ModesOnly /\ MakesSync(pending[ac], h)
                         /\ lines'[i].x[1] = p /\ lines'[i].x[2] = h
  <1>6. \A i \in 1..Len(lines') : lines'[i].kind = "sync" =>
           (i \in 1..Len(lines) /\ lines'[i] = lines[i]) \/ IsNew(i)
    <2>1. \A i \in 1..Len(lines') : lines'[i].kind = "sync" =>
            \/ i \in 1..Len(lines) /\ lines'[i] = lines[i]
            \/ \E k \in 1..Len(tl) : i = Len(lines) + Len(b) + k /\ lines'[i] = tl[k] /\ tl[k].kind = "sync"
      <3> SUFFICES ASSUME NEW i \in 1..Len(lines'), lines'[i].kind = "sync",
                          ~(i \in 1..Len(lines) /\ lines'[i] = lines[i])
                   PROVE  \E k \in 1..Len(tl) : i = Len(lines) + Len(b) + k /\ lines'[i] = tl[k]
        BY Zenon
      <3>1. \A k \in 1..n : b[k].kind # "sync"
        BY <1>3
      <3>2. \/ \E k \in 1..n : lines'[i] = b[k]
            \/ \E k \in 1..Len(tl) : i = Len(lines) + Len(b) + k /\ lines'[i] = tl[k]
        BY <1>4, Zenon
      <3> QED
        BY <3>1, <3>2, Zenon
    <2>2. \A i \in 1..Len(lines') : lines'[i].kind = "sync" =>
            \/ i \in 1..Len(lines) /\ lines'[i] = lines[i]
            \/ /\ i = Len(lines) + Len(b) + Len(tl) /\ ac \notin ModesOnly /\ MakesSync(pending[ac], h)
               /\ lines'[i].x = <<p, h>>
      BY <1>1, <2>1
    <2>3. <<p, h>>[1] = p /\ <<p, h>>[2] = h
      OBVIOUS
    <2> QED
      BY <2>2, <2>3
  <1>7. pending[ac] # <<>> =>
          p.n \in Nat /\ p.t \in Nat /\ p.n < emitted /\ \E r \in Ranges[ac] : p.t <= last + r
    <2> SUFFICES ASSUME pending[ac] # <<>> PROVE p \in Half
      BY DEF IInv, HalvesRecent, Half
    <2> QED
      BY <1>2
  <1>8. \A bc \in Aircraft :
          /\ bc # ac => pending'[bc] = pending[bc]
          /\ pending'[ac] = PendingAfter(ac, h)
    BY <1>1, <1>2
  <1>9. /\ pending'[ac] # <<>> => pending'[ac][1] = h /\ ~MakesSync(pending[ac], h)
        /\ PendingAfter(ac, h) \in Seq(Half)
    <2>1. <<h>>[1] = h /\ <<h>> \in Seq(Half) /\ <<>> \in Seq(Half)
      OBVIOUS
    <2> QED
      BY <1>8, <2>1 DEF PendingAfter
  <1>10. LineTypes'
    BY <1>1, <1>2, <1>3, <1>4, <1>9 DEF LineTypes
  <1>11. Covered'
    <2> SUFFICES ASSUME NEW u \in 1..nextHb'
                 PROVE  \E j \in 1..Len(lines') : lines'[j].t < u /\ u - lines'[j].t <= Period
      BY DEF Covered
    <2>1. CASE u \in 1..nextHb
      BY <1>4, <2>1 DEF IInv, Covered
    <2>2. CASE u \in (nextHb + 1)..(nextHb')
      BY <1>3, <1>4, <2>2
    <2> QED
      BY <1>2, <1>3, <2>1, <2>2
  <1>12. Behind'
    <2> SUFFICES ASSUME NEW i \in 1..Len(lines')
                 PROVE  /\ lines'[i].t <= nextHb'
                        /\ lines'[i].kind = "heartbeat" => lines'[i].t < nextHb'
      BY DEF Behind
    <2>1. CASE i \in 1..Len(lines) /\ lines'[i] = lines[i]
      <3>1. /\ nextHb \in Nat /\ nextHb' \in Nat /\ nextHb <= nextHb'
            /\ lines[i].t \in Nat
            /\ lines[i].t <= nextHb /\ (lines[i].kind = "heartbeat" => lines[i].t < nextHb)
        BY <1>2, <1>3, <1>5, <2>1 DEF IInv, Behind
      <3> QED
        BY <2>1, <3>1
    <2>2. CASE \E k \in 1..n : i = Len(lines) + k /\ lines'[i] = b[k]
      <3>1. PICK k \in 1..n : lines'[i] = b[k]
        BY <2>2
      <3>2. nextHb' \in Nat /\ b[k].t \in Nat /\ b[k].t < nextHb'
        BY <1>2, <1>3, <1>5
      <3> QED
        BY <3>1, <3>2
    <2>3. CASE \E k \in 1..Len(tl) : i = Len(lines) + Len(b) + k /\ lines'[i] = tl[k]
      BY <1>1, <1>3, <2>3 DEF t
    <2> QED
      BY <1>4, <2>1, <2>2, <2>3
  <1>13. BeatsOnce'
    <2> SUFFICES ASSUME NEW i \in 1..Len(lines'), NEW j \in 1..Len(lines'), i # j,
                        lines'[i].kind = "heartbeat", lines'[j].kind = "heartbeat"
                 PROVE  lines'[i].t # lines'[j].t
      BY DEF BeatsOnce
    <2>1. \A q \in 1..Len(lines') : lines'[q].kind = "heartbeat" =>
            \/ q \in 1..Len(lines) /\ lines'[q] = lines[q] /\ lines'[q].t < nextHb
            \/ \E k \in 1..n : q = Len(lines) + k /\ lines'[q] = b[k] /\ nextHb <= lines'[q].t
      <3> SUFFICES ASSUME NEW q \in 1..Len(lines'), lines'[q].kind = "heartbeat"
                   PROVE  \/ q \in 1..Len(lines) /\ lines'[q] = lines[q] /\ lines'[q].t < nextHb
                          \/ \E k \in 1..n : q = Len(lines) + k /\ lines'[q] = b[k] /\ nextHb <= lines'[q].t
        OBVIOUS
      <3>1. CASE q \in 1..Len(lines) /\ lines'[q] = lines[q]
        BY <3>1 DEF IInv, Behind
      <3>2. CASE \E k \in 1..n : q = Len(lines) + k /\ lines'[q] = b[k]
        BY <1>3, <3>2
      <3>3. CASE \E k \in 1..Len(tl) : q = Len(lines) + Len(b) + k /\ lines'[q] = tl[k]
        BY <1>1, <3>3
      <3> QED
        BY <1>4, <3>1, <3>2, <3>3
    <2>2. CASE i \in 1..Len(lines) /\ lines'[i] = lines[i] /\ lines'[i].t < nextHb
      <3>1. CASE j \in 1..Len(lines) /\ lines'[j] = lines[j]
        BY <2>2, <3>1 DEF IInv, BeatsOnce
      <3>2. CASE nextHb <= lines'[j].t
        BY <1>2, <1>5, <2>2, <3>2
      <3> QED
        BY <2>1, <3>1, <3>2
    <2>3. CASE \E k \in 1..n : i = Len(lines) + k /\ lines'[i] = b[k] /\ nextHb <= lines'[i].t
      <3>1. CASE lines'[j].t < nextHb
        BY <1>2, <1>5, <2>3, <3>1
      <3>2. CASE \E k \in 1..n : j = Len(lines) + k /\ lines'[j] = b[k]
        <4>1. PICK k \in 1..n : i = Len(lines) + k /\ lines'[i] = b[k]
          BY <2>3
        <4>2. PICK m \in 1..n : j = Len(lines) + m /\ lines'[j] = b[m]
          BY <3>2
        <4>3. k # m
          BY <4>1, <4>2
        <4> QED
          BY <1>3, <4>1, <4>2, <4>3
      <3> QED
        BY <2>1, <3>1, <3>2
    <2> QED
      BY <2>1, <2>2, <2>3
  <1>14. HalvesRecent'
    <2> SUFFICES ASSUME NEW bc \in Aircraft, pending'[bc] # <<>>
                 PROVE  /\ pending'[bc][1].n < emitted'
                        /\ \E r \in Ranges[bc] : pending'[bc][1].t <= last' + r
      BY DEF HalvesRecent
    <2>1. CASE bc = ac
      <3>1. pending'[bc][1] = h
        BY <1>9, <2>1
      <3> QED
        BY <1>H, <2>1, <3>1
    <2>2. CASE bc # ac
      <3>1. pending'[bc] = pending[bc]
        BY <1>8, <2>2
      <3>2. pending[bc][1] \in Half
        BY <1>2, <3>1
      <3>3. pending[bc][1].n \in Nat /\ pending[bc][1].t \in Nat
        BY <3>2 DEF Half
      <3>4. /\ pending[bc][1].n < emitted
            /\ \E r \in Ranges[bc] : r \in Nat /\ pending[bc][1].t <= last + r
        BY <3>1, GenerateAssumption DEF IInv, HalvesRecent
      <3> QED
        BY <1>E, <1>R, <3>1, <3>3, <3>4
    <2> QED
      BY <2>1, <2>2
  <1>15. HalvesApart'
    <2>1. \A bc \in Aircraft : bc # ac /\ pending'[bc] # <<>> =>
            pending'[bc] = pending[bc] /\ pending[bc][1].n # emitted
      <3> SUFFICES ASSUME NEW bc \in Aircraft, bc # ac, pending'[bc] # <<>>
                   PROVE  pending'[bc] = pending[bc] /\ pending[bc][1].n # emitted
        OBVIOUS
      <3>1. pending'[bc] = pending[bc]
        BY <1>8
      <3>2. pending[bc][1] \in Half
        BY <1>2, <3>1
      <3> QED
        BY <1>2, <3>1, <3>2 DEF IInv, HalvesRecent, Half
    <2>2. pending'[ac] # <<>> => pending'[ac][1].n = emitted
      BY <1>1, <1>9
    <2> QED
      BY <2>1, <2>2 DEF IInv, HalvesApart
  <1>16. HalvesUnused'
    <2> SUFFICES ASSUME NEW i \in 1..Len(lines'), lines'[i].kind = "sync"
                 PROVE  /\ lines'[i].x[1].n < emitted' /\ lines'[i].x[2].n < emitted'
                        /\ \A bc \in Aircraft : pending'[bc] # <<>> =>
                             /\ pending'[bc][1].n # lines'[i].x[1].n
                             /\ pending'[bc][1].n # lines'[i].x[2].n
      BY DEF HalvesUnused
    <2>1. CASE i \in 1..Len(lines) /\ lines'[i] = lines[i]
      <3>1. /\ lines[i].x[1].n < emitted /\ lines[i].x[2].n < emitted
            /\ lines[i].x[1].n \in Nat /\ lines[i].x[2].n \in Nat
            /\ \A bc \in Aircraft : pending[bc] # <<>> =>
                 pending[bc][1].n # lines[i].x[1].n /\ pending[bc][1].n # lines[i].x[2].n
        BY <2>1 DEF IInv, HalvesUnused, Syncs, Joins
      <3>2. lines[i].x[1].n < emitted' /\ lines[i].x[2].n < emitted'
        BY <1>E, <3>1
      <3>3. ASSUME NEW bc \in Aircraft, pending'[bc] # <<>>
            PROVE  pending'[bc][1].n # lines[i].x[1].n /\ pending'[bc][1].n # lines[i].x[2].n
        <4>1. CASE bc # ac
          BY <1>8, <3>1, <3>3, <4>1
        <4>2. CASE bc = ac
          <5>1. pending'[bc][1].n = emitted
            BY <1>1, <1>9, <3>3, <4>2
          <5> QED
            BY <1>1, <1>E, <3>1, <5>1
        <4> QED
          BY <4>1, <4>2
      <3> QED
        BY <2>1, <3>2, <3>3
    <2>2. CASE IsNew(i)
      <3>1. /\ pending[ac] # <<>> /\ lines'[i].x[1] = p /\ lines'[i].x[2] = h
            /\ MakesSync(pending[ac], h)
        BY <2>2 DEF MakesSync
      <3>2. p.n < emitted' /\ h.n < emitted'
        BY <1>E, <1>H, <1>7, <3>1
      <3>3. ASSUME NEW bc \in Aircraft, pending'[bc] # <<>>
            PROVE  pending'[bc][1].n # p.n /\ pending'[bc][1].n # h.n
        <4>1. bc # ac
          BY <1>9, <3>1, <3>3
        <4>2. pending'[bc] = pending[bc]
          BY <1>8, <4>1
        <4>3. pending[bc][1].n # p.n
          BY <3>1, <3>3, <4>1, <4>2 DEF IInv, HalvesApart
        <4>4. pending[bc][1] \in Half
          BY <1>2, <3>3, <4>2
        <4>5. pending[bc][1].n < emitted /\ pending[bc][1].n \in Nat
          BY <3>3, <4>2, <4>4 DEF IInv, HalvesRecent, Half
        <4> QED
          BY <1>E, <4>2, <4>3, <4>5
      <3> QED
        BY <3>1, <3>2, <3>3
    <2> QED
      BY <1>6, <2>1, <2>2
  <1>17. Syncs'
    <2>1. ASSUME NEW i \in 1..Len(lines'), IsNew(i)
          PROVE  /\ Joins(lines'[i])
                 /\ \A j \in 1..Len(lines) : lines[j].kind = "sync" =>
                      Disjoint(lines'[i], lines[j]) /\ Disjoint(lines[j], lines'[i])
      <3>1. /\ pending[ac] # <<>> /\ lines'[i].x[1] = p /\ lines'[i].x[2] = h
            /\ p.odd # h.odd /\ h.t - p.t < PairWindow
        BY <2>1 DEF MakesSync
      <3>2. p.t - h.t < PairWindow
        <4>1. PICK r \in Ranges[ac] : p.t <= last + r
          BY <1>7, <3>1
        <4>2. r \in Nat /\ r - delay < PairWindow /\ PairWindow \in Nat
          BY GenerateAssumption, DelayAssumption
        <4> DEFINE v == p.t
                   w == h.t
        <4>3. v \in Nat /\ v <= last + r /\ w = last + gap + delay
          BY <1>1, <1>7, <3>1, <4>1
        <4> HIDE DEF v, w
        <4>4. v - w < PairWindow
          BY <1>1, <1>2, <4>2, <4>3
        <4> QED
          BY <4>4 DEF v, w
      <3>3. Joins(lines'[i])
        BY <1>2, <1>7, <3>1, <3>2 DEF Joins
      <3>4. ASSUME NEW j \in 1..Len(lines), lines[j].kind = "sync"
            PROVE  Disjoint(lines'[i], lines[j]) /\ Disjoint(lines[j], lines'[i])
        <4>1. /\ lines[j].x[1].n \in Nat /\ lines[j].x[2].n \in Nat
              /\ lines[j].x[1].n < emitted /\ lines[j].x[2].n < emitted
              /\ p.n # lines[j].x[1].n /\ p.n # lines[j].x[2].n
          BY <3>1, <3>4 DEF IInv, HalvesUnused, Syncs, Joins
        <4>2. h.n # lines[j].x[1].n /\ h.n # lines[j].x[2].n
          BY <1>E, <4>1
        <4> QED
          BY <3>1, <4>1, <4>2 DEF Disjoint
      <3> QED
        BY <3>3, <3>4
    <2>2. ASSUME NEW i \in 1..Len(lines'), lines'[i].kind = "sync"
          PROVE  Joins(lines'[i])
      BY <1>6, <2>1, <2>2 DEF IInv, Syncs
    <2>3. ASSUME NEW i \in 1..Len(lines'), NEW j \in 1..Len(lines'), i # j,
                 lines'[i].kind = "sync", lines'[j].kind = "sync"
          PROVE  Disjoint(lines'[i], lines'[j])
      <3>1. CASE i \in 1..Len(lines) /\ lines'[i] = lines[i] /\ j \in 1..Len(lines)
        BY <1>4, <2>3, <3>1 DEF IInv, Syncs
      <3>2. CASE i \in 1..Len(lines) /\ lines'[i] = lines[i] /\ IsNew(j)
        BY <2>1, <2>3, <3>2
      <3>3. CASE IsNew(i)
        BY <1>4, <2>1, <2>3, <3>3
      <3> QED
        BY <1>6, <2>3, <3>1, <3>2, <3>3
    <2> QED
      BY <2>2, <2>3 DEF Syncs
  <1> QED
    BY <1>10, <1>11, <1>12, <1>13, <1>14, <1>15, <1>16, <1>17 DEF IInv

\* A broadcast that nobody hears keeps the invariant.
LEMMA MissedStep ==
  ASSUME IInv, NEW ac \in Aircraft, NEW gap \in Gaps, Missed(ac, gap)
  PROVE  IInv'
  <1>1. /\ emitted' = emitted + 1 /\ last' = last + gap /\ odd' \in [Adsb -> BOOLEAN]
        /\ UNCHANGED <<clock, lines, pending, nextHb>>
    BY DEF Missed, Emit, IInv, LineTypes
  <1>2. emitted \in Nat /\ last \in Nat /\ gap \in Nat /\ pending \in [Aircraft -> Seq(Half)]
    BY GenerateAssumption DEF IInv, LineTypes
  <1>3. LineTypes'
    BY <1>1, <1>2 DEF IInv, LineTypes
  <1>4. Covered' /\ Behind' /\ BeatsOnce' /\ HalvesApart' /\ Syncs'
    BY <1>1 DEF IInv, Covered, Behind, BeatsOnce, HalvesApart, Syncs
  <1>5. HalvesRecent'
    <2> SUFFICES ASSUME NEW bc \in Aircraft, pending[bc] # <<>>
                 PROVE  /\ pending[bc][1].n < emitted'
                        /\ \E r \in Ranges[bc] : pending[bc][1].t <= last' + r
      BY <1>1 DEF HalvesRecent
    <2>1. pending[bc][1] \in Half
      BY <1>2
    <2>2. pending[bc][1].n \in Nat /\ pending[bc][1].t \in Nat
      BY <2>1 DEF Half
    <2>3. /\ pending[bc][1].n < emitted
          /\ \E r \in Ranges[bc] : r \in Nat /\ pending[bc][1].t <= last + r
      BY GenerateAssumption DEF IInv, HalvesRecent
    <2> QED
      BY <1>1, <1>2, <2>2, <2>3
  <1>6. HalvesUnused'
    <2> SUFFICES ASSUME NEW i \in 1..Len(lines), lines[i].kind = "sync"
                 PROVE  lines[i].x[1].n < emitted' /\ lines[i].x[2].n < emitted'
      BY <1>1 DEF IInv, HalvesUnused
    <2>1. /\ lines[i].x[1].n \in Nat /\ lines[i].x[2].n \in Nat
          /\ lines[i].x[1].n < emitted /\ lines[i].x[2].n < emitted
      BY DEF IInv, HalvesUnused, Syncs, Joins
    <2> QED
      BY <1>1, <1>2, <2>1
  <1> QED
    BY <1>3, <1>4, <1>5, <1>6 DEF IInv

-----------------------------------------------------------------------------
\* The inductive invariant of the simulator's client stream.
THEOREM GenerateInductive == Spec => []IInv
  <1>1. Init => IInv
    <2> SUFFICES ASSUME Init PROVE IInv
      OBVIOUS
    <2>0. /\ emitted = 0 /\ last = 0 /\ odd \in [Adsb -> BOOLEAN] /\ nextHb = Period
          /\ lines = <<Line(0, "input_connected", <<>>)>> /\ pending = [ac \in Aircraft |-> <<>>]
      BY DEF Init
    <2>1. Period \in Nat \ {0}
      BY GenerateAssumption
    <2>2. /\ lines \in Seq(LineRec) /\ Len(lines) = 1
          /\ \A i \in 1..Len(lines) : lines[i].t = 0 /\ lines[i].kind = "input_connected"
      <3> DEFINE x == <<>>
                 s == <<Line(0, "input_connected", x)>>
      <3>1. x \in Seq(Half) /\ "input_connected" \in Kinds /\ lines = s
        BY <2>0 DEF Kinds
      <3> HIDE DEF x
      <3>2. /\ s \in Seq(LineRec) /\ Len(s) = 1
            /\ \A k \in 1..Len(s) : s[k].t = 0 /\ s[k].kind = "input_connected"
        BY <3>1, Alone
      <3> HIDE DEF s
      <3> QED
        BY <3>1, <3>2
    <2>3. clock \in Clock
      <3>1. PICK s \in Starts : clock = NewClock(s)
        BY DEF Init
      <3>2. s \in Int /\ <<>> \in Seq(Int)
        BY GenerateAssumption
      <3> QED
        BY <3>1, <3>2 DEF NewClock, Clock
    <2>4. LineTypes
      <3>1. <<>> \in Seq(Half)
        OBVIOUS
      <3> QED
        BY <2>0, <2>1, <2>2, <2>3, <3>1 DEF LineTypes
    <2>5. Covered
      <3> SUFFICES ASSUME NEW u \in 1..Period
                   PROVE  \E j \in 1..Len(lines) : lines[j].t < u /\ u - lines[j].t <= Period
        BY <2>0 DEF Covered
      <3>1. 1 \in 1..Len(lines)
        BY <2>2
      <3>2. lines[1].t = 0
        BY <2>2, <3>1
      <3> QED
        BY <2>1, <3>1, <3>2
    <2>6. Behind /\ BeatsOnce /\ HalvesUnused /\ Syncs
      BY <2>0, <2>1, <2>2 DEF Behind, BeatsOnce, HalvesUnused, Syncs
    <2>7. HalvesRecent /\ HalvesApart
      BY <2>0 DEF HalvesRecent, HalvesApart
    <2> QED
      BY <2>4, <2>5, <2>6, <2>7 DEF IInv
  <1>2. IInv /\ [Next]_vars => IInv'
    <2> SUFFICES ASSUME IInv, [Next]_vars PROVE IInv'
      OBVIOUS
    <2>1. ASSUME NEW ac \in Aircraft, NEW gap \in Gaps, Missed(ac, gap)
          PROVE  IInv'
      BY <2>1, MissedStep
    <2>2. ASSUME NEW ac \in Aircraft, NEW gap \in Gaps, NEW delay \in Ranges[ac],
                 NEW jump \in {-Jump, 0, Jump}, Heard(ac, gap, delay, jump)
          PROVE  IInv'
      BY <2>2, HeardStep
    <2>3. ASSUME NEW compress, NEW draw, FrameLines(compress, draw)
          PROVE  IInv'
      BY <2>3 DEF FrameLines, IInv, LineTypes, Covered, Behind, BeatsOnce, HalvesRecent, HalvesApart,
                  HalvesUnused, Syncs
    <2>4. CASE UNCHANGED vars
      BY <2>4 DEF vars, IInv, LineTypes, Covered, Behind, BeatsOnce, HalvesRecent, HalvesApart,
                  HalvesUnused, Syncs
    <2> QED
      BY <2>1, <2>2, <2>3, <2>4 DEF Next
  <1> QED
    BY <1>1, <1>2, PTL DEF Spec

\* build_client never leaves a client silent for longer than the heartbeat
\* interval up to its last reception, and sends each heartbeat once, whatever
\* was lost and however the delays reorder what was sent.
THEOREM NeverSilent == Spec => []NoSilence
  <1>1. IInv => NoSilence
    <2> SUFFICES ASSUME IInv PROVE NoSilence
      OBVIOUS
    <2>0. /\ lines \in Seq(LineRec) /\ nextHb \in Nat /\ DOMAIN lines = 1..Len(lines)
          /\ \A i \in 1..Len(lines) : lines[i] \in LineRec
      BY LenProperties DEF IInv, LineTypes
    <2>1. nextHb \in Nat /\ DOMAIN lines = 1..Len(lines) /\ \A i \in 1..Len(lines) : lines[i].t \in Nat
      BY <2>0 DEF LineRec
    <2>2. ASSUME NEW i \in 1..Len(lines), lines[i].t > 0
          PROVE  lines[i].t \in 1..nextHb
      BY <2>1, <2>2 DEF IInv, Behind
    <2>3. ASSUME NEW i \in 1..Len(lines), lines[i].t > 0
          PROVE  \E j \in 1..Len(lines) : lines[j].t < lines[i].t /\ lines[i].t - lines[j].t <= Period
      BY <2>2, <2>3 DEF IInv, Covered
    <2> QED
      BY <2>1, <2>3 DEF NoSilence, IInv, BeatsOnce
  <1> QED
    BY <1>1, GenerateInductive, PTL

\* on_adsb joins an even and an odd position that arrived close together, and
\* uses no reception twice, whatever was lost, echoed or reordered in between.
THEOREM SyncsAreHonest == Spec => []SyncHonest
  <1>1. IInv => SyncHonest
    <2> SUFFICES ASSUME IInv PROVE SyncHonest
      OBVIOUS
    <2>1. DOMAIN lines = 1..Len(lines)
      BY LenProperties DEF IInv, LineTypes
    <2> QED
      BY <2>1 DEF SyncHonest, IInv, Syncs, Joins, Disjoint
  <1> QED
    BY <1>1, GenerateInductive, PTL

-----------------------------------------------------------------------------
(* The decoder of the Beast input.                                         *)

\* A set of naturals with an element has a least one.
LEMMA LeastNat ==
  ASSUME NEW T \in SUBSET Nat, NEW t \in T
  PROVE  \E m \in T : \A k \in T : m <= k
  <1> DEFINE R == OpToRel(<, Nat)
  <1>1. IsWellFoundedOn(R, Nat)
    BY NatLessThanWellFounded
  <1>2. \A x, y \in Nat : y < x => <<y, x>> \in R
    BY DEF OpToRel
  <1> HIDE DEF R
  <1>3. PICK x \in T : \A y \in T : ~ (<<y, x>> \in R)
    BY <1>1, WFMin
  <1>4. x \in Nat /\ \A k \in T : k \in Nat /\ ~(k < x)
    BY <1>2, <1>3
  <1> QED
    BY <1>4

\* A set that has every natural whose smaller ones it has, has all of them.
LEMMA AllNat ==
  ASSUME NEW T, \A n \in Nat : (\A m \in Nat : m < n => m \in T) => n \in T
  PROVE  \A n \in Nat : n \in T
  <1> SUFFICES ASSUME NEW x \in Nat, x \notin T PROVE FALSE
    OBVIOUS
  <1> DEFINE U == {n \in Nat : n \notin T}
  <1>1. x \in U /\ U \in SUBSET Nat
    OBVIOUS
  <1>2. PICK m \in U : \A k \in U : m <= k
    BY <1>1, LeastNat
  <1>3. m \in Nat /\ m \notin T
    OBVIOUS
  <1>4. \A k \in Nat : k < m => k \in T
    BY <1>2, <1>3
  <1> QED
    BY <1>3, <1>4

\* Sequences of bytes, cut and joined.
LEMMA Cut ==
  ASSUME NEW S, NEW b \in Seq(S), NEW k \in 0..Len(b)
  PROVE  /\ LastBytes(b, k) \in Seq(S) /\ Len(LastBytes(b, k)) = k
         /\ \A i \in 1..k : LastBytes(b, k)[i] = b[Len(b) - k + i]
  <1> DEFINE n == Len(b)
             a == n - k + 1
  <1>1. n \in Nat /\ k \in Nat /\ k <= n
    OBVIOUS
  <1>2. a \in Int /\ a >= 1 /\ n - a + 1 = k /\ a \in 1..(n + 1)
    BY <1>1
  <1>3. LastBytes(b, k) = SubSeq(b, a, n)
    BY DEF LastBytes
  <1> HIDE DEF a
  <1>4. /\ SubSeq(b, a, n) \in Seq(S)
        /\ Len(SubSeq(b, a, n)) = (IF a <= n THEN n - a + 1 ELSE 0)
        /\ \A i \in 1..(n - a + 1) : SubSeq(b, a, n)[i] = b[a + i - 1]
    BY <1>1, <1>2, SubSeqProperties
  <1>5. Len(SubSeq(b, a, n)) = k
    BY <1>1, <1>2, <1>4
  <1>6. \A i \in 1..k : a + i - 1 = n - k + i
    BY <1>1 DEF a
  <1> QED
    BY <1>2, <1>3, <1>4, <1>5, <1>6

LEMMA ScannedIs ==
  ASSUME NEW b, Len(b) \in Nat, Len(b) >= 2
  PROVE  LET f == Scanned(b)
         IN  /\ f[0] = Begun
             /\ \A k \in 1..(Len(b) - 2) : f[k] = Scan(Want[b[2]], f[k - 1], b[k + 2])
  <1> DEFINE w == Want[b[2]]
             Body(f, k) == IF k = 0 THEN Begun ELSE Scan(w, f[k - 1], b[k + 2])
             T == {n \in Nat : \E f : f = [k \in 0..n |-> Body(f, k)]}
  <1>1. ASSUME NEW n \in Nat, \A m \in Nat : m < n => m \in T
        PROVE  n \in T
    <2>1. CASE n = 0
      <3> DEFINE f == [k \in 0..0 |-> Begun]
      <3>1. f = [k \in 0..0 |-> Body(f, k)]
        OBVIOUS
      <3> QED
        BY <2>1, <3>1
    <2>2. CASE n # 0
      <3>1. n - 1 \in Nat /\ n - 1 < n
        BY <2>2
      <3>2. PICK f : f = [k \in 0..(n - 1) |-> Body(f, k)]
        BY <1>1, <3>1
      <3> DEFINE g == [k \in 0..n |-> IF k = n THEN Scan(w, f[n - 1], b[n + 2]) ELSE f[k]]
      <3>3. \A k \in 0..n : k # 0 => g[k - 1] = f[k - 1]
        BY <3>1
      <3>4. \A k \in 0..n : g[k] = Body(g, k)
        <4> SUFFICES ASSUME NEW k \in 0..n PROVE g[k] = Body(g, k)
          OBVIOUS
        <4>1. CASE k = n
          BY <2>2, <3>3, <4>1
        <4>2. CASE k # n
          <5>1. k \in 0..(n - 1)
            BY <4>2
          <5>2. f[k] = Body(f, k)
            BY <3>2, <5>1
          <5> QED
            BY <3>3, <4>2, <5>2
        <4> QED
          BY <4>1, <4>2
      <3>5. g = [k \in 0..n |-> Body(g, k)]
        BY <3>4
      <3> QED
        BY <3>5
    <2> QED
      BY <2>1, <2>2
  <1>2. \A n \in Nat : n \in T
    <2> HIDE DEF T
    <2> QED
      BY <1>1, AllNat
  <1>3. Len(b) - 2 \in Nat
    OBVIOUS
  <1>4. \E f : f = [k \in 0..(Len(b) - 2) |-> Body(f, k)]
    BY <1>2, <1>3
  <1>5. Scanned(b) = [k \in 0..(Len(b) - 2) |-> Body(Scanned(b), k)]
    BY <1>4 DEF Scanned
  <1> HIDE DEF w
  <1>6. \A k \in 0..(Len(b) - 2) : Scanned(b)[k] = Body(Scanned(b), k)
    BY <1>5
  <1> QED
    BY <1>3, <1>6 DEF w

-----------------------------------------------------------------------------
Acc == [payload : Seq(Bytes), esc : BOOLEAN, i : Nat, st : {"scan", "done", "cut"}]

\* A scan a of a payload of w bytes that has taken k bytes of the buffer.
ScanOK(w, a, k) ==
  /\ a \in Acc
  /\ 2 <= a.i /\ a.i <= k + 2
  /\ a.st = "scan" => /\ Len(a.payload) < w
                      /\ a.esc => a.i = k + 1 /\ k <= 2 * Len(a.payload) + 1
                      /\ ~a.esc => a.i = k + 2 /\ k <= 2 * Len(a.payload)

\* One byte more.
LEMMA ScanStep ==
  ASSUME NEW w \in Nat \ {0}, NEW k \in Nat, NEW a, ScanOK(w, a, k), NEW c \in Bytes
  PROVE  ScanOK(w, Scan(w, a, c), k + 1)
  <1> DEFINE p == a.payload
             l == Len(p)
             e == Scan(w, a, c)
             q == Append(p, c)
  <1>1. /\ a \in Acc /\ p \in Seq(Bytes) /\ a.esc \in BOOLEAN /\ a.i \in Nat /\ l \in Nat
        /\ a.st \in {"scan", "done", "cut"}
    BY DEF ScanOK, Acc
  <1>2. q \in Seq(Bytes) /\ Len(q) = l + 1
    BY <1>1
  <1>3. CASE a.st # "scan"
    <2>1. e = a
      BY <1>3 DEF Scan
    <2> HIDE DEF e
    <2> QED
      BY <1>1, <1>3, <2>1 DEF ScanOK, e
  <1>4. CASE a.st = "scan" /\ a.esc /\ c # "esc"
    <2>1. e = [a EXCEPT !.st = "cut"]
      BY <1>4 DEF Scan
    <2>2. e \in Acc /\ e.st = "cut" /\ e.i = a.i
      BY <1>1, <2>1 DEF Acc
    <2>3. 2 <= a.i /\ a.i <= k + 1 + 2
      BY <1>1 DEF ScanOK
    <2> HIDE DEF e
    <2> QED
      BY <2>2, <2>3 DEF ScanOK, e
  <1>5. CASE a.st = "scan" /\ ~a.esc /\ c = "esc"
    <2>1. e = [a EXCEPT !.esc = TRUE]
      BY <1>5 DEF Scan
    <2>2. e \in Acc /\ e.st = "scan" /\ e.i = a.i /\ e.esc = TRUE /\ e.payload = p
      BY <1>1, <1>5, <2>1 DEF Acc
    <2>3. 2 <= a.i /\ a.i = k + 2 /\ k <= 2 * l /\ l < w
      BY <1>5 DEF ScanOK
    <2>4. a.i <= k + 1 + 2 /\ a.i = (k + 1) + 1 /\ k + 1 <= 2 * l + 1
      BY <1>1, <2>3
    <2> HIDE DEF e
    <2> QED
      BY <2>2, <2>3, <2>4 DEF ScanOK, e
  <1>6. CASE a.st = "scan" /\ (a.esc <=> c = "esc")
    <2> DEFINE j == a.i + (IF a.esc THEN 2 ELSE 1)
               t == IF l + 1 = w THEN "done" ELSE "scan"
    <2>1. e = [payload |-> q, esc |-> FALSE, i |-> j, st |-> t]
      BY <1>6 DEF Scan
    <2>3. j \in Nat /\ 2 <= j /\ j = (k + 1) + 2 /\ k + 1 <= 2 * (l + 1)
      <3>1. CASE a.esc
        <4>1. j = a.i + 2 /\ 2 <= a.i /\ a.i = k + 1 /\ k <= 2 * l + 1
          BY <1>6, <3>1 DEF ScanOK
        <4> HIDE DEF l, j
        <4> QED
          BY <1>1, <4>1
      <3>2. CASE ~a.esc
        <4>1. j = a.i + 1 /\ 2 <= a.i /\ a.i = k + 2 /\ k <= 2 * l
          BY <1>6, <3>2 DEF ScanOK
        <4> HIDE DEF l, j
        <4> QED
          BY <1>1, <4>1
      <3> QED
        BY <3>1, <3>2
    <2>4. t \in {"scan", "done"} /\ (t = "scan" => l + 1 < w)
      <3>1. l < w
        BY <1>6 DEF ScanOK
      <3> QED
        BY <1>1, <3>1
    <2> HIDE DEF j, t, q, l
    <2>5. e \in Acc /\ e.payload = q /\ e.esc = FALSE /\ e.i = j /\ e.st = t
      BY <1>2, <2>1, <2>3, <2>4 DEF Acc
    <2> HIDE DEF e
    <2>6. ScanOK(w, e, k + 1)
      BY <1>1, <1>2, <2>3, <2>4, <2>5 DEF ScanOK
    <2> QED
      BY <2>6 DEF e
  <1> QED
    BY <1>1, <1>3, <1>4, <1>5, <1>6

\* Every scan of a buffer.
LEMMA ScansOK ==
  ASSUME NEW b \in Seq(Bytes), Len(b) >= 2, b[2] \in Types
  PROVE  \A k \in 0..(Len(b) - 2) : ScanOK(Want[b[2]], Scanned(b)[k], k)
  <1> DEFINE w == Want[b[2]]
             f == Scanned(b)
             n == Len(b) - 2
             T == {k \in Nat : k <= n => ScanOK(w, f[k], k)}
  <1>1. n \in Nat /\ w \in Nat \ {0}
    BY BeastAssumption
  <1>2. f[0] = Begun /\ \A k \in 1..n : f[k] = Scan(w, f[k - 1], b[k + 2])
    BY ScannedIs
  <1>3. \A k \in 1..n : b[k + 2] \in Bytes
    OBVIOUS
  <1> HIDE DEF w, f, n
  <1>4. ASSUME NEW k \in Nat, \A m \in Nat : m < k => m \in T
        PROVE  k \in T
    <2> SUFFICES ASSUME k <= n PROVE ScanOK(w, f[k], k)
      OBVIOUS
    <2>1. CASE k = 0
      <3>1. Begun \in Acc /\ Begun.i = 2 /\ Begun.esc = FALSE /\ Begun.payload = <<>> /\ Begun.st = "scan"
        BY DEF Begun, Acc
      <3>2. Len(<<>>) = 0
        OBVIOUS
      <3>3. ScanOK(w, Begun, 0)
        BY <1>1, <3>1, <3>2 DEF ScanOK
      <3> QED
        BY <1>2, <2>1, <3>3
    <2>2. CASE k # 0
      <3>1. k - 1 \in Nat /\ k - 1 < k /\ k - 1 <= n /\ (k - 1) + 1 = k /\ k \in 1..n
        BY <1>1, <2>2
      <3>2. ScanOK(w, f[k - 1], k - 1)
        BY <1>4, <3>1
      <3>3. ScanOK(w, Scan(w, f[k - 1], b[k + 2]), (k - 1) + 1)
        BY <1>1, <1>3, <3>1, <3>2, ScanStep
      <3> QED
        BY <1>2, <3>1, <3>3
    <2> QED
      BY <2>1, <2>2
  <1>5. \A k \in Nat : k \in T
    <2> HIDE DEF T
    <2> QED
      BY <1>4, AllNat
  <1> QED
    BY <1>1, <1>5 DEF w, f, n

\* More bytes behind a buffer do not change its scans, and a scan that is
\* decided stays as it is.
LEMMA ScansExtend ==
  ASSUME NEW b \in Seq(Bytes), Len(b) >= 2, NEW c \in Seq(Bytes)
  PROVE  /\ \A k \in 0..(Len(b) - 2) : Scanned(b \o c)[k] = Scanned(b)[k]
         /\ Scanned(b)[Len(b) - 2].st # "scan" =>
              Scanned(b \o c)[Len(b \o c) - 2] = Scanned(b)[Len(b) - 2]
  <1> DEFINE d == b \o c
             f == Scanned(b)
             g == Scanned(d)
             w == Want[b[2]]
             n == Len(b) - 2
             m == Len(d) - 2
  <1>1. /\ d \in Seq(Bytes) /\ Len(d) = Len(b) + Len(c) /\ Len(b) \in Nat /\ Len(c) \in Nat
        /\ \A i \in 1..Len(b) : d[i] = b[i]
    BY ConcatProperties
  <1>2. n \in Nat /\ m \in Nat /\ n <= m /\ Len(d) >= 2 /\ d[2] = b[2]
    BY <1>1
  <1>3. f[0] = Begun /\ \A k \in 1..n : f[k] = Scan(w, f[k - 1], b[k + 2])
    BY ScannedIs
  <1> HIDE DEF d
  <1>4. g[0] = Begun /\ \A k \in 1..m : g[k] = Scan(w, g[k - 1], d[k + 2])
    <2>1. Len(d) \in Nat /\ Len(d) >= 2
      BY <1>1, <1>2
    <2>2. g[0] = Begun /\ \A k \in 1..m : g[k] = Scan(Want[d[2]], g[k - 1], d[k + 2])
      BY <2>1, ScannedIs
    <2> QED
      BY <1>2, <2>2
  <1>5. \A k \in 1..n : d[k + 2] = b[k + 2] /\ k \in 1..m
    BY <1>1, <1>2
  <1> DEFINE T == {k \in Nat : k <= n => g[k] = f[k]}
             U == {k \in Nat : k <= m /\ n <= k /\ f[n].st # "scan" => g[k] = f[n]}
  <1> HIDE DEF f, g, w, n, m
  <1>6. ASSUME NEW k \in Nat, \A j \in Nat : j < k => j \in T
        PROVE  k \in T
    <2> SUFFICES ASSUME k <= n PROVE g[k] = f[k]
      OBVIOUS
    <2>1. CASE k = 0
      BY <1>3, <1>4, <2>1
    <2>2. CASE k # 0
      <3>1. k - 1 \in Nat /\ k - 1 < k /\ k - 1 <= n /\ k \in 1..n
        BY <1>2, <2>2
      <3>2. g[k - 1] = f[k - 1]
        BY <1>6, <3>1
      <3> QED
        BY <1>3, <1>4, <1>5, <3>1, <3>2
    <2> QED
      BY <2>1, <2>2
  <1>7. \A k \in Nat : k \in T
    <2> HIDE DEF T
    <2> QED
      BY <1>6, AllNat
  <1>8. ASSUME NEW k \in Nat, \A j \in Nat : j < k => j \in U
        PROVE  k \in U
    <2> SUFFICES ASSUME k <= m, n <= k, f[n].st # "scan" PROVE g[k] = f[n]
      OBVIOUS
    <2>1. CASE k = n
      BY <1>2, <1>7, <2>1
    <2>2. CASE k # n
      <3>1. k - 1 \in Nat /\ k - 1 < k /\ k - 1 <= m /\ n <= k - 1 /\ k \in 1..m
        BY <1>2, <2>2
      <3>2. g[k - 1] = f[n]
        BY <1>8, <3>1
      <3>3. g[k] = Scan(w, g[k - 1], d[k + 2])
        BY <1>4, <3>1
      <3> QED
        BY <3>2, <3>3 DEF Scan
    <2> QED
      BY <2>1, <2>2
  <1>9. \A k \in Nat : k \in U
    <2> HIDE DEF U
    <2> QED
      BY <1>8, AllNat
  <1>10. \A k \in 0..n : g[k] = f[k]
    BY <1>2, <1>7
  <1>11. f[n].st # "scan" => g[m] = f[n]
    BY <1>2, <1>9
  <1> QED
    BY <1>10, <1>11 DEF d, f, g, n, m

-----------------------------------------------------------------------------
MsgRec == [type : Types, payload : Seq(Bytes)]

\* What a step of the decoder takes and hands on; one that takes nothing
\* stands at less than a message.
LEMMA StepOK ==
  ASSUME NEW s \in Seq(Bytes), s # <<>>
  PROVE  /\ Step(s).n \in 0..Len(s) /\ Step(s).out \in Seq(MsgRec)
         /\ Step(s).n = 0 => Len(s) = 1 \/ \E k \in Types : Len(s) <= 2 * Want[k] + 1
  <1>1. Len(s) \in Nat /\ Len(s) >= 1 /\ <<>> \in Seq(MsgRec)
    OBVIOUS
  <1>2. CASE s[1] # "esc"
    <2>1. Step(s) = [n |-> 1, out |-> <<>>]
      BY <1>2 DEF Step, Consumed
    <2> QED
      BY <1>1, <2>1
  <1>3. CASE s[1] = "esc" /\ Len(s) < 2
    <2>1. Step(s) = [n |-> 0, out |-> <<>>]
      BY <1>3 DEF Step, ParseAt, NeedMore
    <2>2. Len(s) = 1
      <3> DEFINE l == Len(s)
      <3>1. l \in Nat /\ l >= 1 /\ l < 2
        BY <1>1, <1>3
      <3> HIDE DEF l
      <3>2. l = 1
        BY <3>1
      <3> QED
        BY <3>2 DEF l
    <2>3. Step(s).n = 0 /\ Step(s).out = <<>>
      BY <2>1
    <2> QED
      BY <1>1, <2>2, <2>3
  <1>4. CASE s[1] = "esc" /\ Len(s) >= 2 /\ s[2] \notin Types
    <2>1. Step(s) = [n |-> 1, out |-> <<>>]
      BY <1>1, <1>4 DEF Step, ParseAt, SkipNoise, Consumed
    <2> QED
      BY <1>1, <2>1
  <1>5. CASE s[1] = "esc" /\ Len(s) >= 2 /\ s[2] \in Types
    <2> DEFINE k == Len(s) - 2
               a == Scanned(s)[k]
               w == Want[s[2]]
               l == Len(a.payload)
               o == IF a.st = "done" /\ s[2] # "ac" THEN <<Message(s[2], a.payload)>> ELSE <<>>
    <2>1. k \in Nat /\ k \in 0..(Len(s) - 2) /\ w \in Nat
      BY <1>1, <1>5, BeastAssumption
    <2>2. ScanOK(w, a, k)
      BY <1>5, <2>1, ScansOK
    <2>3. Step(s) = IF a.st = "scan" THEN [n |-> 0, out |-> <<>>] ELSE [n |-> a.i, out |-> o]
      <3>1. ~(Len(s) < 2)
        BY <1>1, <1>5
      <3> QED
        BY <1>5, <3>1 DEF Step, ParseAt, Undecided, NeedMore, Consumed
    <2>4. a.payload \in Seq(Bytes) /\ l \in Nat /\ a.i \in Nat /\ a.esc \in BOOLEAN
      BY <2>2 DEF ScanOK, Acc
    <2>5. 2 <= a.i /\ a.i <= k + 2
      BY <2>2 DEF ScanOK
    <2>6. a.i \in 0..Len(s)
      <3> DEFINE j == a.i
      <3>1. j \in Nat /\ j <= (Len(s) - 2) + 2
        BY <2>4, <2>5
      <3> HIDE DEF j
      <3>2. j \in 0..Len(s)
        BY <1>1, <3>1
      <3> QED
        BY <3>2 DEF j
    <2>7. o \in Seq(MsgRec)
      <3>1. Message(s[2], a.payload) \in MsgRec
        BY <1>5, <2>4 DEF Message, MsgRec
      <3> QED
        BY <3>1
    <2>8. a.st = "scan" => Len(s) <= 2 * w + 1
      <3>1. a.st = "scan" => l < w /\ k <= 2 * l + 1
        BY <2>1, <2>2, <2>4 DEF ScanOK
      <3>2. Len(s) = k + 2
        BY <1>1
      <3> HIDE DEF k, l, w, a
      <3>3. a.st = "scan" => k + 2 <= 2 * w + 1
        BY <2>1, <2>4, <3>1
      <3> QED
        BY <3>2, <3>3
    <2> HIDE DEF o, a
    <2>9. CASE a.st = "scan"
      <3>1. Step(s) = [n |-> 0, out |-> <<>>]
        BY <2>3, <2>9
      <3> QED
        BY <1>1, <1>5, <2>8, <2>9, <3>1
    <2>10. CASE a.st # "scan"
      <3>1. Step(s).n = a.i /\ Step(s).out = o
        BY <2>3, <2>10
      <3>2. a.i # 0
        BY <2>4, <2>5
      <3> QED
        BY <2>6, <2>7, <3>1, <3>2
    <2> QED
      BY <2>9, <2>10
  <1> QED
    BY <1>1, <1>2, <1>3, <1>4, <1>5

\* A step that takes something takes the same whatever comes behind.
LEMMA StepExtends ==
  ASSUME NEW s \in Seq(Bytes), s # <<>>, Step(s).n # 0, NEW c \in Seq(Bytes)
  PROVE  Step(s \o c) = Step(s)
  <1> DEFINE d == s \o c
  <1>1. /\ d \in Seq(Bytes) /\ Len(d) = Len(s) + Len(c) /\ Len(s) \in Nat /\ Len(c) \in Nat
        /\ \A i \in 1..Len(s) : d[i] = s[i]
    BY ConcatProperties
  <1>2. Len(s) >= 1 /\ d[1] = s[1]
    BY <1>1
  <1>3. CASE s[1] # "esc"
    BY <1>2, <1>3 DEF Step
  <1>4. CASE s[1] = "esc"
    <2>1. Step(s) = ParseAt(s) /\ Step(d) = ParseAt(d)
      BY <1>2, <1>4 DEF Step
    <2>2. Len(s) >= 2
      <3> SUFFICES ASSUME Len(s) < 2 PROVE FALSE
        BY <1>1
      <3>1. Step(s) = [n |-> 0, out |-> <<>>]
        BY <2>1 DEF ParseAt, NeedMore
      <3> QED
        BY <3>1
    <2>3. ~(Len(s) < 2) /\ ~(Len(d) < 2) /\ d[2] = s[2]
      BY <1>1, <2>2
    <2>4. CASE s[2] \notin Types
      BY <2>1, <2>3, <2>4 DEF ParseAt
    <2>5. CASE s[2] \in Types
      <3> DEFINE a == Scanned(s)[Len(s) - 2]
                 e == Scanned(d)[Len(d) - 2]
                 P(z) == IF Undecided(z) THEN NeedMore
                         ELSE Consumed(z.i, IF z.st = "done" /\ s[2] # "ac"
                                            THEN <<Message(s[2], z.payload)>> ELSE <<>>)
      <3>1. Step(s) = P(a) /\ Step(d) = P(e)
        BY <2>1, <2>3, <2>5 DEF ParseAt
      <3>2. a.st # "scan"
        <4> SUFFICES ASSUME a.st = "scan" PROVE FALSE
          OBVIOUS
        <4>1. Step(s) = [n |-> 0, out |-> <<>>]
          BY <3>1 DEF Undecided, NeedMore
        <4> QED
          BY <4>1
      <3>3. e = a
        BY <2>2, <3>2, ScansExtend
      <3> HIDE DEF a, e, P
      <3> QED
        BY <3>1, <3>3
    <2> QED
      BY <2>4, <2>5
  <1> QED
    BY <1>3, <1>4

-----------------------------------------------------------------------------
\* The recursion of Decoded.
DecodeBody(b, f, k) ==
  LET step == Step(LastBytes(b, k))
  IN  IF k = 0 \/ step.n = 0 THEN [out |-> <<>>, rest |-> LastBytes(b, k)]
      ELSE LET more == f[k - step.n] IN [out |-> step.out \o more.out, rest |-> more.rest]

\* A step moves forward, within the bytes it is given.
LEMMA StepWithin ==
  ASSUME NEW b \in Seq(Bytes), NEW k \in 1..Len(b)
  PROVE  LET n == Step(LastBytes(b, k)).n
         IN  n \in Nat /\ n <= k /\ k - n \in 0..k /\ (n # 0 => k - n \in 0..(k - 1))
  <1> DEFINE s == LastBytes(b, k)
             n == Step(s).n
  <1>1. k \in 0..Len(b) /\ k \in Nat /\ k >= 1
    OBVIOUS
  <1>2. s \in Seq(Bytes) /\ Len(s) = k
    BY <1>1, Cut
  <1> HIDE DEF s
  <1>3. s # <<>>
    BY <1>1, <1>2
  <1>4. n \in 0..k
    BY <1>2, <1>3, StepOK
  <1> HIDE DEF n
  <1>5. n \in Nat /\ n <= k /\ k - n \in 0..k /\ (n # 0 => k - n \in 0..(k - 1))
    BY <1>1, <1>4
  <1> QED
    BY <1>5 DEF n, s

LEMMA DecodedIs ==
  ASSUME NEW b \in Seq(Bytes)
  PROVE  \A k \in 0..Len(b) : Decoded(b)[k] = DecodeBody(b, Decoded(b), k)
  <1> DEFINE N == Len(b)
             T == {n \in Nat : n <= N => \E f : f = [k \in 0..n |-> DecodeBody(b, f, k)]}
  <1>0. N \in Nat
    OBVIOUS
  <1>S. \A k \in 1..N : Step(LastBytes(b, k)).n # 0 => k - Step(LastBytes(b, k)).n \in 0..(k - 1)
    BY StepWithin
  \* The value at k depends only on smaller ones.
  <1>1. ASSUME NEW f, NEW g, NEW k \in 0..N, \A j \in 0..(k - 1) : f[j] = g[j]
        PROVE  DecodeBody(b, f, k) = DecodeBody(b, g, k)
    <2>1. CASE k = 0
      BY <2>1 DEF DecodeBody
    <2>2. CASE k # 0 /\ Step(LastBytes(b, k)).n = 0
      BY <2>2 DEF DecodeBody
    <2>3. CASE k # 0 /\ Step(LastBytes(b, k)).n # 0
      <3>1. k \in 1..N
        BY <1>0, <2>3
      <3>2. k - Step(LastBytes(b, k)).n \in 0..(k - 1)
        BY <1>S, <2>3, <3>1
      <3>3. f[k - Step(LastBytes(b, k)).n] = g[k - Step(LastBytes(b, k)).n]
        BY <1>1, <3>2
      <3> QED
        BY <3>3 DEF DecodeBody
    <2> QED
      BY <2>1, <2>2, <2>3
  <1> HIDE DEF N
  <1>2. ASSUME NEW n \in Nat, \A m \in Nat : m < n => m \in T
        PROVE  n \in T
    <2> SUFFICES ASSUME n <= N PROVE \E f : f = [k \in 0..n |-> DecodeBody(b, f, k)]
      OBVIOUS
    <2>1. CASE n = 0
      <3> DEFINE f == [k \in 0..0 |-> [out |-> <<>>, rest |-> LastBytes(b, 0)]]
      <3>1. DecodeBody(b, f, 0) = [out |-> <<>>, rest |-> LastBytes(b, 0)]
        BY DEF DecodeBody
      <3>2. \A k \in 0..0 : f[k] = DecodeBody(b, f, k)
        BY <3>1
      <3>3. f = [k \in 0..0 |-> DecodeBody(b, f, k)]
        BY <3>2
      <3> QED
        BY <2>1, <3>3
    <2>2. CASE n # 0
      <3>1. n - 1 \in Nat /\ n - 1 < n /\ n - 1 <= N
        BY <1>0, <2>2
      <3>2. PICK f : f = [k \in 0..(n - 1) |-> DecodeBody(b, f, k)]
        BY <1>2, <3>1
      <3> DEFINE g == [k \in 0..n |-> IF k = n THEN DecodeBody(b, f, n) ELSE f[k]]
      <3>3. \A k \in 0..n : \A j \in 0..(k - 1) : f[j] = g[j]
        OBVIOUS
      <3>4. \A k \in 0..n : k \in 0..N
        BY <1>0
      <3>5. \A k \in 0..n : g[k] = DecodeBody(b, f, k)
        <4> SUFFICES ASSUME NEW k \in 0..n PROVE g[k] = DecodeBody(b, f, k)
          OBVIOUS
        <4>1. CASE k = n
          BY <4>1
        <4>2. CASE k # n
          <5>1. k \in 0..(n - 1)
            BY <4>2
          <5>2. f[k] = DecodeBody(b, f, k)
            BY <3>2, <5>1
          <5> QED
            BY <4>2, <5>2
        <4> QED
          BY <4>1, <4>2
      <3>6. g = [k \in 0..n |-> g[k]]
        OBVIOUS
      <3> HIDE DEF g
      <3>7. \A k \in 0..n : DecodeBody(b, f, k) = DecodeBody(b, g, k)
        BY <1>1, <3>3, <3>4
      <3>8. g = [k \in 0..n |-> DecodeBody(b, g, k)]
        BY <3>5, <3>6, <3>7
      <3> QED
        BY <3>8
    <2> QED
      BY <2>1, <2>2
  <1>3. \A n \in Nat : n \in T
    <2> HIDE DEF T
    <2> QED
      BY <1>2, AllNat
  <1>4. \E f : f = [k \in 0..N |-> DecodeBody(b, f, k)]
    BY <1>0, <1>3
  <1>5. Decoded(b) = [k \in 0..N |-> DecodeBody(b, Decoded(b), k)]
    BY <1>4 DEF Decoded, DecodeBody, N
  <1> QED
    BY <1>5 DEF N

\* The last bytes of the last bytes.
LEMMA CutTwice ==
  ASSUME NEW b \in Seq(Bytes), NEW m \in 0..Len(b), NEW k \in 0..m
  PROVE  LastBytes(LastBytes(b, m), k) = LastBytes(b, k)
  <1> DEFINE n == Len(b)
             d == LastBytes(b, m)
             x == LastBytes(d, k)
             y == LastBytes(b, k)
  <1>1. n \in Nat /\ m \in Nat /\ m <= n /\ k \in Nat /\ k <= m /\ k \in 0..n
    OBVIOUS
  <1>2. d \in Seq(Bytes) /\ Len(d) = m /\ \A i \in 1..m : d[i] = b[n - m + i]
    BY Cut
  <1>3. y \in Seq(Bytes) /\ Len(y) = k /\ \A i \in 1..k : y[i] = b[n - k + i]
    BY <1>1, Cut
  <1> HIDE DEF d
  <1>4. k \in 0..Len(d)
    BY <1>2
  <1>5. x \in Seq(Bytes) /\ Len(x) = k /\ \A i \in 1..k : x[i] = d[m - k + i]
    BY <1>2, <1>4, Cut
  <1> HIDE DEF x, y, n
  <1>6. \A i \in 1..k : m - k + i \in 1..m /\ n - m + (m - k + i) = n - k + i
    BY <1>1
  <1>7. \A i \in 1..k : x[i] = y[i]
    BY <1>2, <1>3, <1>5, <1>6
  <1>8. x = y
    BY <1>3, <1>5, <1>7, SeqEqual
  <1> QED
    BY <1>8 DEF x, y, d

\* All of the bytes.
LEMMA CutAll ==
  ASSUME NEW b \in Seq(Bytes)
  PROVE  LastBytes(b, Len(b)) = b
  <1> DEFINE n == Len(b)
             x == LastBytes(b, n)
  <1>1. n \in Nat /\ n \in 0..Len(b)
    OBVIOUS
  <1>2. x \in Seq(Bytes) /\ Len(x) = n /\ \A i \in 1..n : x[i] = b[n - n + i]
    BY <1>1, Cut
  <1>3. \A i \in 1..n : n - n + i = i
    BY <1>1
  <1> HIDE DEF x
  <1>4. \A i \in 1..Len(b) : x[i] = b[i]
    BY <1>2, <1>3
  <1> QED
    BY <1>2, <1>4, SeqEqual DEF x

\* What the last bytes decode to does not depend on the ones before.
LEMMA DecodedLast ==
  ASSUME NEW b \in Seq(Bytes), NEW m \in 0..Len(b)
  PROVE  Feed(LastBytes(b, m)) = Decoded(b)[m]
  <1> DEFINE d == LastBytes(b, m)
             T == {k \in Nat : k <= m => Decoded(d)[k] = Decoded(b)[k]}
  <1>1. d \in Seq(Bytes) /\ Len(d) = m /\ m \in Nat /\ Len(b) \in Nat /\ m <= Len(b)
    BY Cut
  <1>2. \A k \in 0..m : LastBytes(d, k) = LastBytes(b, k)
    BY CutTwice
  <1> HIDE DEF d
  <1>3. ASSUME NEW k \in Nat, \A j \in Nat : j < k => j \in T
        PROVE  k \in T
    <2> SUFFICES ASSUME k <= m PROVE Decoded(d)[k] = Decoded(b)[k]
      OBVIOUS
    <2>1. k \in 0..m /\ k \in 0..Len(b) /\ k \in 0..Len(d)
      BY <1>1
    <2>2. /\ Decoded(d)[k] = DecodeBody(d, Decoded(d), k)
          /\ Decoded(b)[k] = DecodeBody(b, Decoded(b), k)
      BY <1>1, <2>1, DecodedIs
    <2> DEFINE st == Step(LastBytes(b, k))
               q == k - st.n
    <2>3. LastBytes(d, k) = LastBytes(b, k)
      BY <1>2, <2>1
    <2>4. CASE k = 0 \/ st.n = 0
      BY <2>2, <2>3, <2>4 DEF DecodeBody
    <2>5. CASE ~(k = 0 \/ st.n = 0)
      <3>1. k \in 1..Len(b)
        BY <1>1, <2>1, <2>5
      <3>2. q \in 0..(k - 1)
        BY <2>5, <3>1, StepWithin
      <3>3. q \in Nat /\ q < k /\ q <= m
        <4> HIDE DEF q
        <4> QED
          BY <1>1, <2>1, <3>2
      <3>4. Decoded(d)[q] = Decoded(b)[q]
        BY <1>3, <3>3
      <3> QED
        BY <2>2, <2>3, <2>5, <3>4 DEF DecodeBody
    <2> QED
      BY <2>4, <2>5
  <1>4. \A k \in Nat : k \in T
    <2> HIDE DEF T
    <2> QED
      BY <1>3, AllNat
  <1>5. Decoded(d)[m] = Decoded(b)[m]
    BY <1>1, <1>4
  <1> QED
    BY <1>1, <1>5 DEF Feed, d

\* feed, one step of its loop at a time.
LEMMA FeedStep ==
  ASSUME NEW b \in Seq(Bytes)
  PROVE  /\ b = <<>> \/ Step(b).n = 0 => Feed(b) = [out |-> <<>>, rest |-> b]
         /\ b # <<>> /\ Step(b).n # 0 =>
              LET more == Feed(LastBytes(b, Len(b) - Step(b).n))
              IN  Feed(b) = [out |-> Step(b).out \o more.out, rest |-> more.rest]
  <1> DEFINE n == Len(b)
             st == Step(b)
             q == n - st.n
  <1>1. n \in Nat /\ n \in 0..Len(b) /\ (b = <<>> <=> n = 0)
    OBVIOUS
  <1>2. LastBytes(b, n) = b
    BY CutAll
  <1>3. Feed(b) = DecodeBody(b, Decoded(b), n)
    BY <1>1, DecodedIs DEF Feed
  <1>4. CASE b = <<>> \/ st.n = 0
    BY <1>1, <1>2, <1>3, <1>4 DEF DecodeBody
  <1>5. CASE ~(b = <<>> \/ st.n = 0)
    <2>1. n \in 1..Len(b)
      BY <1>1, <1>5
    <2>2. q \in 0..n
      BY <1>2, <2>1, StepWithin
    <2>3. Decoded(b)[q] = Feed(LastBytes(b, q))
      BY <2>2, DecodedLast
    <2>4. n # 0
      BY <1>1, <1>5
    <2> QED
      BY <1>2, <1>3, <1>5, <2>3, <2>4 DEF DecodeBody
  <1> QED
    BY <1>4, <1>5

-----------------------------------------------------------------------------
\* Cutting bytes off the front, with more behind.
LEMMA CutJoined ==
  ASSUME NEW b \in Seq(Bytes), NEW c \in Seq(Bytes), NEW q \in 0..Len(b)
  PROVE  LastBytes(b \o c, q + Len(c)) = LastBytes(b, q) \o c
  <1> DEFINE n == Len(b)
             z == Len(c)
             d == b \o c
             y == LastBytes(b, q)
             l == LastBytes(d, q + z)
             r == y \o c
  <1>1. n \in Nat /\ z \in Nat /\ q \in Nat /\ q <= n
    OBVIOUS
  <1>2. /\ d \in Seq(Bytes) /\ Len(d) = n + z
        /\ \A i \in 1..(n + z) : d[i] = IF i <= n THEN b[i] ELSE c[i - n]
    BY ConcatProperties
  <1>3. y \in Seq(Bytes) /\ Len(y) = q /\ \A i \in 1..q : y[i] = b[n - q + i]
    BY Cut
  <1> HIDE DEF d, y
  <1>4. /\ r \in Seq(Bytes) /\ Len(r) = q + z
        /\ \A i \in 1..(q + z) : r[i] = IF i <= q THEN y[i] ELSE c[i - q]
    BY <1>3, ConcatProperties
  <1>5. q + z \in 0..Len(d)
    BY <1>1, <1>2
  <1>6. l \in Seq(Bytes) /\ Len(l) = q + z /\ \A i \in 1..(q + z) : l[i] = d[(n + z) - (q + z) + i]
    <2> DEFINE k == q + z
    <2>1. d \in Seq(Bytes) /\ k \in 0..Len(d) /\ Len(d) = n + z
      BY <1>2, <1>5
    <2> HIDE DEF k
    <2>2. LastBytes(d, k) \in Seq(Bytes) /\ Len(LastBytes(d, k)) = k
          /\ \A i \in 1..k : LastBytes(d, k)[i] = d[Len(d) - k + i]
      BY <2>1, Cut
    <2> QED
      BY <2>1, <2>2 DEF k
  <1> HIDE DEF l, r, n, z
  <1>7. ASSUME NEW i \in 1..(q + z) PROVE l[i] = r[i]
    <2>1. (n + z) - (q + z) + i = n - q + i /\ n - q + i \in 1..(n + z)
      BY <1>1
    <2>2. CASE i <= q
      <3>1. n - q + i <= n /\ i \in 1..q
        BY <1>1, <2>2
      <3> QED
        BY <1>2, <1>3, <1>4, <1>6, <2>1, <2>2, <3>1
    <2>3. CASE ~(i <= q)
      <3>1. ~(n - q + i <= n) /\ (n - q + i) - n = i - q
        BY <1>1, <2>3
      <3> QED
        BY <1>2, <1>4, <1>6, <2>1, <2>3, <3>1
    <2> QED
      BY <2>2, <2>3
  <1>8. l = r
    BY <1>4, <1>6, <1>7, SeqEqual
  <1> QED
    BY <1>8 DEF l, r, d, y, z

\* The two parts of an outcome.
LEMMA Outcome ==
  ASSUME NEW x, NEW y
  PROVE  [out |-> x, rest |-> y].out = x /\ [out |-> x, rest |-> y].rest = y
  OBVIOUS

\* What feed hands on and keeps.
FeedOK(b) ==
  /\ Feed(b).out \in Seq(MsgRec) /\ Feed(b).rest \in Seq(Bytes)
  /\ Feed(b).rest = <<>> \/ Step(Feed(b).rest).n = 0

LEMMA FeedTypes ==
  ASSUME NEW b \in Seq(Bytes)
  PROVE  FeedOK(b)
  <1> DEFINE T == {n \in Nat : \A s \in Seq(Bytes) : Len(s) = n => FeedOK(s)}
  <1>1. ASSUME NEW n \in Nat, \A m \in Nat : m < n => m \in T
        PROVE  n \in T
    <2> SUFFICES ASSUME NEW s \in Seq(Bytes), Len(s) = n PROVE FeedOK(s)
      OBVIOUS
    <2>1. CASE s = <<>> \/ Step(s).n = 0
      <3>1. Feed(s) = [out |-> <<>>, rest |-> s]
        BY <2>1, FeedStep
      <3>2. Feed(s).out = <<>> /\ Feed(s).rest = s
        BY <3>1
      <3>3. <<>> \in Seq(MsgRec)
        OBVIOUS
      <3> QED
        BY <2>1, <3>2, <3>3 DEF FeedOK
    <2>2. CASE ~(s = <<>> \/ Step(s).n = 0)
      <3> DEFINE j == Step(s).n
                 d == LastBytes(s, n - j)
      <3>1. j \in 0..n /\ Step(s).out \in Seq(MsgRec)
        BY <2>2, StepOK
      <3>2. n - j \in Nat /\ n - j < n /\ n - j \in 0..Len(s)
        <4>1. j # 0
          BY <2>2
        <4> HIDE DEF j
        <4> QED
          BY <3>1, <4>1
      <3>3. d \in Seq(Bytes) /\ Len(d) = n - j
        BY <3>2, Cut
      <3>4. Feed(s) = [out |-> Step(s).out \o Feed(d).out, rest |-> Feed(d).rest]
        BY <2>2, FeedStep
      <3> HIDE DEF d, j
      <3>5. FeedOK(d)
        BY <1>1, <3>2, <3>3
      <3>6. Feed(s).out = Step(s).out \o Feed(d).out /\ Feed(s).rest = Feed(d).rest
        <4> DEFINE x == Step(s).out \o Feed(d).out
                   y == Feed(d).rest
        <4>1. Feed(s) = [out |-> x, rest |-> y]
          BY <3>4
        <4> HIDE DEF x, y
        <4>2. Feed(s).out = x /\ Feed(s).rest = y
          BY <4>1
        <4> QED
          BY <4>2 DEF x, y
      <3> QED
        BY <3>1, <3>5, <3>6, ConcatProperties DEF FeedOK
    <2> QED
      BY <2>1, <2>2
  <1>2. \A n \in Nat : n \in T
    <2> HIDE DEF T
    <2> QED
      BY <1>1, AllNat
  <1>3. Len(b) \in Nat
    OBVIOUS
  <1> QED
    BY <1>2, <1>3

\* Feeding b and then c behind what is kept of it is feeding both at once.
FeedsApart(b, c) ==
  LET f == Feed(b)
      g == Feed(f.rest \o c)
  IN  Feed(b \o c).out = f.out \o g.out /\ Feed(b \o c).rest = g.rest

LEMMA FeedJoin ==
  ASSUME NEW b \in Seq(Bytes), NEW c \in Seq(Bytes)
  PROVE  FeedsApart(b, c)
  <1> DEFINE T == {n \in Nat : \A s \in Seq(Bytes) : Len(s) = n => FeedsApart(s, c)}
  <1>1. ASSUME NEW n \in Nat, \A m \in Nat : m < n => m \in T
        PROVE  n \in T
    <2> SUFFICES ASSUME NEW s \in Seq(Bytes), Len(s) = n PROVE FeedsApart(s, c)
      OBVIOUS
    <2>0. s \o c \in Seq(Bytes) /\ Len(s \o c) = n + Len(c) /\ Len(c) \in Nat
      <3>1. s \o c \in Seq(Bytes) /\ Len(s \o c) = Len(s) + Len(c) /\ Len(c) \in Nat
        BY ConcatProperties
      <3> QED
        BY <3>1
    <2>1. CASE s = <<>> \/ Step(s).n = 0
      <3>1. Feed(s) = [out |-> <<>>, rest |-> s]
        BY <2>1, FeedStep
      <3>2. Feed(s).out = <<>> /\ Feed(s).rest = s
        BY <3>1
      <3>3. Feed(s \o c).out \in Seq(MsgRec)
        BY <2>0, FeedTypes DEF FeedOK
      <3>4. <<>> \o Feed(s \o c).out = Feed(s \o c).out
        BY <3>3, ConcatEmptySeq
      <3> QED
        BY <3>2, <3>4 DEF FeedsApart
    <2>2. CASE ~(s = <<>> \/ Step(s).n = 0)
      <3> DEFINE j == Step(s).n
                 d == LastBytes(s, n - j)
                 o == Step(s).out
                 sc == s \o c
      <3>1. j \in 0..n /\ o \in Seq(MsgRec)
        BY <2>2, StepOK
      <3>2. n - j \in Nat /\ n - j < n /\ n - j \in 0..Len(s) /\ (n + Len(c)) - j = (n - j) + Len(c)
        <4>1. j # 0
          BY <2>2
        <4> HIDE DEF j
        <4> QED
          BY <2>0, <3>1, <4>1
      <3>3. d \in Seq(Bytes) /\ Len(d) = n - j
        BY <3>2, Cut
      <3>4. Feed(s) = [out |-> o \o Feed(d).out, rest |-> Feed(d).rest]
        BY <2>2, FeedStep
      <3>5. Step(sc) = Step(s)
        BY <2>2, StepExtends
      <3>6. LastBytes(sc, (n - j) + Len(c)) = d \o c
        BY <3>2, CutJoined
      <3>7. sc # <<>> /\ Step(sc).n # 0 /\ Step(sc).n = j /\ Step(sc).out = o
        <4>1. Len(s) # 0
          BY <2>2
        <4>2. sc # <<>>
          BY <2>2, ConcatEqualIffEmpty
        <4> QED
          BY <2>2, <3>5, <4>2
      <3>8. LastBytes(sc, Len(sc) - j) = d \o c
        BY <2>0, <3>2, <3>6
      <3> HIDE DEF sc, d, j, o
      <3>9. Feed(sc) = [out |-> o \o Feed(d \o c).out, rest |-> Feed(d \o c).rest]
        <4>1. sc \in Seq(Bytes)
          BY <2>0 DEF sc
        <4> QED
          BY <3>7, <3>8, <4>1, FeedStep
      <3>10. FeedsApart(d, c)
        BY <1>1, <3>2, <3>3
      <3> DEFINE fo == Feed(d).out
                 g == Feed(Feed(d).rest \o c)
                 go == g.out
      <3>11. Feed(sc).out = o \o (fo \o go) /\ Feed(sc).rest = g.rest
        <4>1. Feed(sc).out = o \o Feed(d \o c).out /\ Feed(sc).rest = Feed(d \o c).rest
          BY <3>9, Outcome
        <4>2. Feed(d \o c).out = fo \o go /\ Feed(d \o c).rest = g.rest
          BY <3>10 DEF FeedsApart
        <4> QED
          BY <4>1, <4>2
      <3>12. fo \in Seq(MsgRec) /\ go \in Seq(MsgRec)
        <4>1. FeedOK(d)
          BY <3>3, FeedTypes
        <4>2. Feed(d).rest \o c \in Seq(Bytes)
          BY <4>1, ConcatProperties DEF FeedOK
        <4>3. FeedOK(Feed(d).rest \o c)
          BY <4>2, FeedTypes
        <4> QED
          BY <4>1, <4>3 DEF FeedOK
      <3>14. Feed(s).out = o \o fo /\ Feed(s).rest = Feed(d).rest
        BY <3>4, Outcome
      <3>13. o \o (fo \o go) = (o \o fo) \o go
        <4> HIDE DEF fo, go
        <4> QED
          BY <3>1, <3>12, ConcatAssociative
      <3>15. Feed(sc).out = Feed(s).out \o go /\ go = Feed(Feed(s).rest \o c).out
             /\ Feed(sc).rest = Feed(Feed(s).rest \o c).rest
        BY <3>11, <3>13, <3>14
      <3> QED
        BY <3>15 DEF FeedsApart, sc
    <2> QED
      BY <2>1, <2>2
  <1>2. \A n \in Nat : n \in T
    <2> HIDE DEF T
    <2> QED
      BY <1>1, AllNat
  <1>3. Len(b) \in Nat
    OBVIOUS
  <1> QED
    BY <1>2, <1>3

-----------------------------------------------------------------------------
\* A byte of a payload on the wire.
LEMMA DoubledOK ==
  ASSUME NEW c \in Bytes
  PROVE  /\ Doubled(c) \in Seq(Bytes)
         /\ c = "esc" => Len(Doubled(c)) = 2 /\ Doubled(c)[1] = "esc" /\ Doubled(c)[2] = "esc"
         /\ c # "esc" => Len(Doubled(c)) = 1 /\ Doubled(c)[1] = c
  <1>1. CASE c = "esc"
    <2>1. Doubled(c) = <<c, c>>
      BY <1>1 DEF Doubled
    <2>2. <<c, c>> \in Seq(Bytes) /\ Len(<<c, c>>) = 2 /\ <<c, c>>[1] = c /\ <<c, c>>[2] = c
      OBVIOUS
    <2> QED
      BY <1>1, <2>1, <2>2
  <1>2. CASE c # "esc"
    <2>1. Doubled(c) = <<c>>
      BY <1>2 DEF Doubled
    <2> QED
      BY <1>2, <2>1
  <1> QED
    BY <1>1, <1>2

\* Escaped, byte by byte.
LEMMA EscapedIs ==
  ASSUME NEW p \in Seq(Bytes), p # <<>>
  PROVE  \E F : /\ F[1] = Doubled(p[1])
                /\ \A i \in 2..Len(p) : F[i] = F[i - 1] \o Doubled(p[i])
                /\ Escaped(p) = F[Len(p)]
  <1> DEFINE N == Len(p)
             q == [i \in 1..N |-> Doubled(p[i])]
             Body(f, i) == IF i = 1 THEN q[i] ELSE f[i - 1] \o q[i]
             T == {n \in Nat : \E f : f = [i \in 1..n |-> Body(f, i)]}
  <1>1. N \in Nat /\ N >= 1 /\ DOMAIN p = 1..N /\ \A i \in 1..N : p[i] \in Bytes
    OBVIOUS
  <1>2. q \in Seq(Seq(Bytes)) /\ Len(q) = N
    <2>1. \A i \in 1..N : Doubled(p[i]) \in Seq(Bytes)
      BY <1>1, DoubledOK
    <2>2. q \in [1..N -> Seq(Bytes)] /\ DOMAIN q = 1..N
      BY <2>1
    <2> HIDE DEF q, N
    <2>3. q \in Seq(Seq(Bytes))
      BY <1>1, <2>2, SeqDef
    <2> QED
      BY <1>1, <2>2, <2>3, LenProperties
  <1>3. \A i \in 1..N : q[i] = Doubled(p[i])
    OBVIOUS
  <1>4. Escaped(p) = FlattenSeq(q)
    BY <1>1 DEF Escaped
  <1> HIDE DEF q, N
  <1>5. ASSUME NEW n \in Nat, \A m \in Nat : m < n => m \in T
        PROVE  n \in T
    <2>1. CASE n = 0
      <3> DEFINE f == [i \in 1..0 |-> <<>>]
      <3>1. f = [i \in 1..0 |-> Body(f, i)]
        OBVIOUS
      <3> QED
        BY <2>1, <3>1
    <2>2. CASE n # 0
      <3>1. n - 1 \in Nat /\ n - 1 < n
        BY <2>2
      <3>2. PICK f : f = [i \in 1..(n - 1) |-> Body(f, i)]
        BY <1>5, <3>1
      <3> DEFINE g == [i \in 1..n |-> IF i = n THEN Body(f, n) ELSE f[i]]
      <3>3. \A i \in 1..n : i # 1 => g[i - 1] = f[i - 1]
        BY <3>1
      <3>4. \A i \in 1..n : g[i] = Body(g, i)
        <4> SUFFICES ASSUME NEW i \in 1..n PROVE g[i] = Body(g, i)
          OBVIOUS
        <4>1. CASE i = n
          BY <2>2, <3>3, <4>1
        <4>2. CASE i # n
          <5>1. i \in 1..(n - 1)
            BY <4>2
          <5>2. f[i] = Body(f, i)
            BY <3>2, <5>1
          <5> QED
            BY <3>3, <4>2, <5>2
        <4> QED
          BY <4>1, <4>2
      <3>5. g = [i \in 1..n |-> Body(g, i)]
        BY <3>4
      <3> QED
        BY <3>5
    <2> QED
      BY <2>1, <2>2
  <1>6. \A n \in Nat : n \in T
    <2> HIDE DEF T
    <2> QED
      BY <1>5, AllNat
  <1>7. \E f : f = [i \in 1..N |-> Body(f, i)]
    BY <1>1, <1>6
  <1> DEFINE F == CHOOSE f : f = [i \in 1..N |-> Body(f, i)]
  <1>8. F = [i \in 1..N |-> Body(F, i)]
    BY <1>7
  <1>9. FlattenSeq(q) = F[N]
    BY <1>1, <1>2 DEF FlattenSeq
  <1> HIDE DEF F
  <1>10. \A i \in 1..N : F[i] = Body(F, i)
    BY <1>8
  <1>11. F[1] = q[1] /\ 1 \in 1..N /\ \A i \in 2..N : i \in 1..N /\ F[i] = F[i - 1] \o q[i]
    <2>1. 1 \in 1..N /\ \A i \in 2..N : i \in 1..N /\ i # 1
      BY <1>1
    <2> QED
      BY <1>10, <2>1
  <1>12. F[1] = Doubled(p[1]) /\ \A i \in 2..N : F[i] = F[i - 1] \o Doubled(p[i])
    BY <1>3, <1>11
  <1> QED
    BY <1>4, <1>9, <1>12 DEF N

\* The scan of one more byte of a payload, as it is on the wire.
LEMMA ScanOne ==
  ASSUME NEW d \in Seq(Bytes), Len(d) >= 2, d[2] \in Types, NEW c \in Bytes,
         Scanned(d)[Len(d) - 2].st = "scan", Scanned(d)[Len(d) - 2].esc = FALSE
  PROVE  LET e == d \o Doubled(c)
             a == Scanned(d)[Len(d) - 2]
             z == Scanned(e)[Len(e) - 2]
         IN  /\ e \in Seq(Bytes) /\ Len(e) = Len(d) + Len(Doubled(c)) /\ Len(e) >= 2 /\ e[2] = d[2]
             /\ e[1] = d[1]
             /\ z.payload = Append(a.payload, c) /\ z.esc = FALSE /\ z.i = a.i + Len(Doubled(c))
             /\ z.st = IF Len(a.payload) + 1 = Want[d[2]] THEN "done" ELSE "scan"
  <1> DEFINE x == Doubled(c)
             e == d \o x
             n == Len(d)
             m == n - 2
             a == Scanned(d)[m]
             g == Scanned(e)
             w == Want[d[2]]
  <1>1. x \in Seq(Bytes) /\ n \in Nat /\ m \in Nat /\ n = m + 2 /\ m \in 0..(Len(d) - 2) /\ Len(x) \in Nat
    BY DoubledOK
  <1>2. ScanOK(w, a, m)
    BY <1>1, ScansOK
  <1>3. a \in Acc /\ a.st = "scan" /\ a.esc = FALSE
    BY <1>2 DEF ScanOK
  <1> HIDE DEF x
  <1>4. /\ e \in Seq(Bytes) /\ Len(e) = n + Len(x)
        /\ \A i \in 1..(n + Len(x)) : e[i] = IF i <= n THEN d[i] ELSE x[i - n]
    BY <1>1, ConcatProperties
  <1>5. g[m] = a
    BY <1>1, ScansExtend
  <1> HIDE DEF e, a
  <1>6. Len(e) >= 2 /\ e[1] = d[1] /\ e[2] = d[2] /\ Len(e) \in Nat
    <2> HIDE DEF n, m
    <2>1. 1 \in 1..(n + Len(x)) /\ 2 \in 1..(n + Len(x)) /\ 1 <= n /\ 2 <= n /\ n + Len(x) >= 2
      BY <1>1
    <2> QED
      BY <1>1, <1>4, <2>1
  <1>7. \A k \in 1..(Len(e) - 2) : g[k] = Scan(w, g[k - 1], e[k + 2])
    <2>1. \A k \in 1..(Len(e) - 2) : g[k] = Scan(Want[e[2]], g[k - 1], e[k + 2])
      BY <1>6, ScannedIs
    <2> QED
      BY <1>6, <2>1
  <1> HIDE DEF g, w
  <1> DEFINE st == IF Len(a.payload) + 1 = w THEN "done" ELSE "scan"
  <1>8. CASE c # "esc"
    <2>1. Len(x) = 1 /\ x[1] = c
      BY <1>8, DoubledOK DEF x
    <2>2. m + 1 \in 1..(Len(e) - 2) /\ (m + 1) - 1 = m /\ Len(e) - 2 = m + 1
      <3> HIDE DEF n, m
      <3> QED
        BY <1>1, <1>4, <2>1
    <2>3. e[(m + 1) + 2] = c
      <3> HIDE DEF n, m
      <3>1. (m + 1) + 2 = n + 1 /\ n + 1 \in 1..(n + 1) /\ ~(n + 1 <= n) /\ (n + 1) - n = 1
        BY <1>1
      <3> QED
        BY <1>4, <2>1, <3>1
    <2>4. g[m + 1] = Scan(w, a, c)
      BY <1>5, <1>7, <2>2, <2>3
    <2>5. Scan(w, a, c) = [payload |-> Append(a.payload, c), esc |-> FALSE, i |-> a.i + 1, st |-> st]
      BY <1>3, <1>8 DEF Scan
    <2> HIDE DEF st
    <2>6. /\ g[m + 1].payload = Append(a.payload, c) /\ g[m + 1].esc = FALSE
          /\ g[m + 1].i = a.i + 1 /\ g[m + 1].st = st
      BY <2>4, <2>5
    <2>7. /\ g[Len(e) - 2].payload = Append(a.payload, c) /\ g[Len(e) - 2].esc = FALSE
          /\ g[Len(e) - 2].i = a.i + Len(x) /\ g[Len(e) - 2].st = st
      BY <2>1, <2>2, <2>6
    <2> QED
      BY <1>4, <1>6, <2>7 DEF st, g, e, a, w, x
  <1>9. CASE c = "esc"
    <2>1. Len(x) = 2 /\ x[1] = "esc" /\ x[2] = "esc"
      BY <1>9, DoubledOK DEF x
    <2>2. /\ m + 1 \in 1..(Len(e) - 2) /\ (m + 1) - 1 = m
          /\ m + 2 \in 1..(Len(e) - 2) /\ (m + 2) - 1 = m + 1 /\ Len(e) - 2 = m + 2
      <3> HIDE DEF n, m
      <3> QED
        BY <1>1, <1>4, <2>1
    <2>3. e[(m + 1) + 2] = "esc" /\ e[(m + 2) + 2] = "esc"
      <3> HIDE DEF n, m
      <3>1. /\ (m + 1) + 2 = n + 1 /\ n + 1 \in 1..(n + 2) /\ ~(n + 1 <= n) /\ (n + 1) - n = 1
            /\ (m + 2) + 2 = n + 2 /\ n + 2 \in 1..(n + 2) /\ ~(n + 2 <= n) /\ (n + 2) - n = 2
        BY <1>1
      <3> QED
        BY <1>4, <2>1, <3>1
    <2> DEFINE y == [a EXCEPT !.esc = TRUE]
    <2>4. g[m + 1] = y
      <3>1. g[m + 1] = Scan(w, a, "esc")
        BY <1>5, <1>7, <2>2, <2>3
      <3> QED
        BY <1>3, <3>1 DEF Scan
    <2>5. y.payload = a.payload /\ y.i = a.i /\ y.st = "scan" /\ y.esc = TRUE
      BY <1>3 DEF Acc
    <2> HIDE DEF y
    <2>6. g[m + 2] = Scan(w, y, "esc")
      BY <1>7, <2>2, <2>3, <2>4
    <2>7. Scan(w, y, "esc") = [payload |-> Append(a.payload, "esc"), esc |-> FALSE, i |-> a.i + 2, st |-> st]
      BY <2>5 DEF Scan
    <2> HIDE DEF st
    <2>8. /\ g[m + 2].payload = Append(a.payload, c) /\ g[m + 2].esc = FALSE
          /\ g[m + 2].i = a.i + 2 /\ g[m + 2].st = st
      BY <1>9, <2>6, <2>7
    <2>9. /\ g[Len(e) - 2].payload = Append(a.payload, c) /\ g[Len(e) - 2].esc = FALSE
          /\ g[Len(e) - 2].i = a.i + Len(x) /\ g[Len(e) - 2].st = st
      BY <2>1, <2>2, <2>8
    <2> QED
      BY <1>4, <1>6, <2>9 DEF st, g, e, a, w, x
  <1> QED
    BY <1>8, <1>9

\* The buffer d is a message of type k with the first j bytes of the payload p.
Holds(d, k, p, j) ==
  LET a == Scanned(d)[Len(d) - 2]
  IN  /\ d \in Seq(Bytes) /\ Len(d) >= 2 /\ d[1] = "esc" /\ d[2] = k
      /\ a.payload \in Seq(Bytes) /\ Len(a.payload) = j
      /\ \A i \in 1..j : a.payload[i] = p[i]
      /\ a.esc = FALSE /\ a.i = Len(d)
      /\ a.st = IF j = Want[k] THEN "done" ELSE "scan"

LEMMA HoldsNone ==
  ASSUME NEW k \in Types, NEW p
  PROVE  <<"esc", k>> \in Seq(Bytes) /\ Holds(<<"esc", k>>, k, p, 0)
  <1> DEFINE d == <<"esc", k>>
  <1>1. d \in Seq(Bytes) /\ Len(d) = 2 /\ d[1] = "esc" /\ d[2] = k
    <2>1. "esc" \in Bytes /\ k \in Bytes
      BY DEF Bytes
    <2> QED
      BY <2>1
  <1> HIDE DEF d
  <1>2. Scanned(d)[0] = Begun
    <2>1. Len(d) \in Nat /\ Len(d) >= 2
      BY <1>1
    <2> QED
      BY <2>1, ScannedIs
  <1> DEFINE a == Scanned(d)[Len(d) - 2]
  <1>3. a = Begun
    <2>1. Len(d) - 2 = 0
      BY <1>1
    <2> QED
      BY <1>2, <2>1
  <1> HIDE DEF a
  <1>4. a.payload = <<>> /\ a.esc = FALSE /\ a.i = 2 /\ a.st = "scan"
    BY <1>3 DEF Begun
  <1>5. a.payload \in Seq(Bytes) /\ Len(a.payload) = 0
    BY <1>4
  <1>6. Want[k] # 0
    BY BeastAssumption
  <1>7. Holds(d, k, p, 0)
    <2>1. \A i \in 1..0 : a.payload[i] = p[i]
      OBVIOUS
    <2> QED
      BY <1>1, <1>4, <1>5, <1>6, <2>1 DEF Holds, a
  <1> QED
    BY <1>1, <1>7 DEF d

LEMMA HoldsMore ==
  ASSUME NEW k \in Types, NEW p \in Seq(Bytes), Len(p) = Want[k], NEW j \in 0..(Len(p) - 1),
         NEW d, Holds(d, k, p, j)
  PROVE  Holds(d \o Doubled(p[j + 1]), k, p, j + 1)
  <1> DEFINE c == p[j + 1]
             e == d \o Doubled(c)
             a == Scanned(d)[Len(d) - 2]
             z == Scanned(e)[Len(e) - 2]
  <1>1. /\ c \in Bytes /\ j \in Nat /\ j # Want[k] /\ Want[k] \in Nat
        /\ Len(Doubled(c)) \in Nat
    <2>1. j + 1 \in 1..Len(p) /\ j \in Nat /\ j # Len(p) /\ Len(p) \in Nat
      OBVIOUS
    <2>2. c \in Bytes
      BY <2>1
    <2> QED
      BY <2>1, <2>2, DoubledOK
  <1>2. /\ d \in Seq(Bytes) /\ Len(d) >= 2 /\ d[1] = "esc" /\ d[2] = k /\ Len(d) \in Nat
        /\ a.payload \in Seq(Bytes) /\ Len(a.payload) = j
        /\ \A i \in 1..j : a.payload[i] = p[i]
        /\ a.esc = FALSE /\ a.i = Len(d) /\ a.st = "scan"
    BY <1>1 DEF Holds
  <1>3. /\ e \in Seq(Bytes) /\ Len(e) = Len(d) + Len(Doubled(c)) /\ Len(e) >= 2 /\ e[2] = k /\ e[1] = "esc"
        /\ z.payload = Append(a.payload, c) /\ z.esc = FALSE /\ z.i = a.i + Len(Doubled(c))
        /\ z.st = IF Len(a.payload) + 1 = Want[k] THEN "done" ELSE "scan"
    <2> HIDE DEF c
    <2>1. d[2] \in Types
      BY <1>2
    <2> QED
      BY <1>1, <1>2, <2>1, ScanOne
  <1>4. z.i = Len(e) /\ z.st = IF j + 1 = Want[k] THEN "done" ELSE "scan"
    BY <1>2, <1>3
  <1>5. /\ z.payload \in Seq(Bytes) /\ Len(z.payload) = j + 1
        /\ \A i \in 1..(j + 1) : z.payload[i] = p[i]
    <2> DEFINE ap == a.payload
    <2>1. ap \in Seq(Bytes) /\ Len(ap) = j /\ z.payload = Append(ap, c) /\ \A i \in 1..j : ap[i] = p[i]
      BY <1>2, <1>3
    <2> HIDE DEF ap, z, c
    <2>2. /\ Append(ap, c) \in Seq(Bytes) /\ Len(Append(ap, c)) = j + 1 /\ Append(ap, c)[j + 1] = c
          /\ \A i \in 1..j : Append(ap, c)[i] = ap[i]
      BY <1>1, <2>1, AppendProperties
    <2>3. \A i \in 1..(j + 1) : i \in 1..j \/ i = j + 1
      BY <1>1
    <2> QED
      BY <2>1, <2>2, <2>3 DEF c
  <1> HIDE DEF e, c
  <1>6. Holds(e, k, p, j + 1)
    BY <1>3, <1>4, <1>5 DEF Holds
  <1> QED
    BY <1>6 DEF e, c

\* A message on the wire is one step of the decoder, which hands it on.
LEMMA EncodeStep ==
  ASSUME NEW m \in Messages
  PROVE  /\ m \in MsgRec /\ Encode(m) \in Seq(Bytes) /\ Encode(m) # <<>>
         /\ Step(Encode(m)).n = Len(Encode(m))
         /\ Step(Encode(m)).out = IF m.type = "ac" THEN <<>> ELSE <<m>>
  <1>K. PICK k \in Types : m \in {Message(k, p) : p \in [1..Want[k] -> DataBytes]}
    BY DEF Messages
  <1>1. PICK p \in [1..Want[k] -> DataBytes] : m = Message(k, p)
    BY <1>K
  <1> DEFINE w == Want[k]
             h == <<"esc", k>>
  <1>2. w \in Nat \ {0}
    BY BeastAssumption
  <1>3. p \in Seq(Bytes) /\ Len(p) = w /\ p # <<>>
    <2>1. p \in [1..w -> Bytes] /\ DOMAIN p = 1..w
      BY BeastAssumption
    <2> HIDE DEF w
    <2>2. p \in Seq(Bytes)
      BY <1>2, <2>1, SeqDef
    <2>3. Len(p) = w
      BY <1>2, <2>1, <2>2, LenProperties
    <2>4. Len(<<>>) = 0
      OBVIOUS
    <2> QED
      BY <1>2, <2>2, <2>3, <2>4
  <1>4. m.type = k /\ m.payload = p /\ m \in MsgRec
    BY <1>1, <1>3 DEF Message, MsgRec
  <1>5. PICK F : /\ F[1] = Doubled(p[1])
                 /\ \A i \in 2..w : F[i] = F[i - 1] \o Doubled(p[i])
                 /\ Escaped(p) = F[w]
    BY <1>3, EscapedIs
  <1> DEFINE T == {j \in Nat : j + 1 <= w => F[j + 1] \in Seq(Bytes) /\ Holds(h \o F[j + 1], k, p, j + 1)}
  <1>6. h \in Seq(Bytes) /\ Holds(h, k, p, 0)
    BY HoldsNone
  <1>P. \A i \in 1..w : Doubled(p[i]) \in Seq(Bytes)
    BY <1>3, DoubledOK
  <1> HIDE DEF h, w
  <1>7. ASSUME NEW j \in Nat, \A i \in Nat : i < j => i \in T
        PROVE  j \in T
    <2> SUFFICES ASSUME j + 1 <= w
                 PROVE  F[j + 1] \in Seq(Bytes) /\ Holds(h \o F[j + 1], k, p, j + 1)
      OBVIOUS
    <2>1. CASE j = 0
      <3>1. 0 \in 0..(Len(p) - 1) /\ 1 \in 1..w /\ Len(p) = Want[k]
        BY <1>2, <1>3 DEF w
      <3>2. Holds(h \o Doubled(p[0 + 1]), k, p, 0 + 1)
        BY <1>3, <1>6, <3>1, HoldsMore
      <3>3. F[1] \in Seq(Bytes) /\ Holds(h \o F[1], k, p, 1)
        BY <1>5, <1>P, <3>1, <3>2
      <3> QED
        BY <2>1, <3>3
    <2>2. CASE j # 0
      <3> DEFINE x == F[j]
                 y == Doubled(p[j + 1])
      <3>1. /\ j - 1 \in Nat /\ j - 1 < j /\ (j - 1) + 1 = j /\ j <= w
            /\ j + 1 \in 2..w /\ (j + 1) - 1 = j /\ j + 1 \in 1..w
        BY <1>2, <2>2
      <3>2. x \in Seq(Bytes) /\ Holds(h \o x, k, p, j)
        <4>1. j - 1 \in T
          BY <1>7, <3>1
        <4> QED
          BY <3>1, <4>1
      <3>3. F[j + 1] = x \o y /\ y \in Seq(Bytes)
        BY <1>5, <1>P, <3>1
      <3>4. j \in 0..(Len(p) - 1) /\ Len(p) = Want[k]
        BY <1>2, <1>3, <3>1 DEF w
      <3>5. Holds((h \o x) \o y, k, p, j + 1)
        BY <1>3, <3>2, <3>4, HoldsMore
      <3> HIDE DEF x, y
      <3>6. (h \o x) \o y = h \o (x \o y) /\ x \o y \in Seq(Bytes)
        BY <1>6, <3>2, <3>3, ConcatAssociative, ConcatProperties
      <3> QED
        BY <3>3, <3>5, <3>6
    <2> QED
      BY <2>1, <2>2
  <1>8. \A j \in Nat : j \in T
    <2> HIDE DEF T
    <2> QED
      BY <1>7, AllNat
  <1>9. Holds(h \o Escaped(p), k, p, w)
    <2>1. w - 1 \in Nat /\ (w - 1) + 1 = w /\ w <= w
      BY <1>2
    <2>2. w - 1 \in T
      BY <1>8, <2>1
    <2> QED
      BY <1>5, <2>1, <2>2
  <1> DEFINE d == Encode(m)
             a == Scanned(d)[Len(d) - 2]
  <1>10. d = h \o Escaped(p)
    BY <1>4 DEF Encode, h
  <1>11. /\ d \in Seq(Bytes) /\ Len(d) >= 2 /\ d[1] = "esc" /\ d[2] = k
         /\ a.payload \in Seq(Bytes) /\ Len(a.payload) = w
         /\ \A i \in 1..w : a.payload[i] = p[i]
         /\ a.i = Len(d) /\ a.st = "done"
    <2> HIDE DEF d
    <2>1. Holds(d, k, p, w)
      BY <1>9, <1>10
    <2> QED
      BY <2>1 DEF Holds, w
  <1>12. a.payload = p
    <2> DEFINE q == a.payload
    <2>1. q \in Seq(Bytes) /\ Len(q) = Len(p) /\ \A i \in 1..Len(q) : q[i] = p[i]
      BY <1>3, <1>11
    <2> HIDE DEF q
    <2>2. q = p
      BY <1>3, <2>1, SeqEqual
    <2> QED
      BY <2>2 DEF q
  <1> HIDE DEF d, a
  <1>13. d # <<>> /\ ~(Len(d) < 2)
    <2>1. Len(<<>>) = 0 /\ Len(d) \in Nat
      BY <1>11
    <2> QED
      BY <1>11, <2>1
  <1> DEFINE o == IF k # "ac" THEN <<m>> ELSE <<>>
  <1>14. Step(d) = [n |-> Len(d), out |-> o]
    <2>1. Step(d) = ParseAt(d)
      BY <1>11 DEF Step
    <2>2. ParseAt(d) = IF a.st = "scan" THEN NeedMore
                       ELSE Consumed(a.i, IF a.st = "done" /\ k # "ac" THEN <<Message(k, a.payload)>> ELSE <<>>)
      BY <1>11, <1>13 DEF ParseAt, Undecided, a
    <2> QED
      BY <1>1, <1>11, <1>12, <2>1, <2>2 DEF Consumed
  <1> HIDE DEF o
  <1>15. Step(d).n = Len(d) /\ Step(d).out = o
    BY <1>14
  <1> QED
    BY <1>4, <1>11, <1>13, <1>15 DEF d, o

\* Feeding a message to a decoder that keeps nothing.
LEMMA FeedMessage ==
  ASSUME NEW m \in Messages
  PROVE  Feed(Encode(m)).out = (IF m.type = "ac" THEN <<>> ELSE <<m>>) /\ Feed(Encode(m)).rest = <<>>
  <1> DEFINE d == Encode(m)
             n == Len(d)
             o == Step(d).out
             r == LastBytes(d, n - Step(d).n)
  <1>1. d \in Seq(Bytes) /\ d # <<>> /\ Step(d).n = n
    BY EncodeStep
  <1>2. n \in Nat /\ n # 0
    BY <1>1
  <1>3. o \in Seq(MsgRec)
    BY <1>1, StepOK
  <1>4. r \in Seq(Bytes) /\ Len(r) = 0
    <2>1. n - Step(d).n = 0 /\ 0 \in 0..Len(d)
      BY <1>1, <1>2
    <2> HIDE DEF d
    <2> QED
      BY <1>1, <2>1, Cut
  <1> HIDE DEF d
  <1>5. Feed(d) = [out |-> o \o Feed(r).out, rest |-> Feed(r).rest]
    BY <1>1, <1>2, FeedStep
  <1> HIDE DEF r, o
  <1>6. r = <<>>
    BY <1>4
  <1>7. Feed(r) = [out |-> <<>>, rest |-> r]
    BY <1>4, <1>6, FeedStep
  <1>8. Feed(r).out = <<>> /\ Feed(r).rest = <<>>
    BY <1>6, <1>7
  <1>9. o \o <<>> = o
    BY <1>3, ConcatEmptySeq
  <1>10. Feed(d) = [out |-> o, rest |-> <<>>]
    BY <1>5, <1>8, <1>9
  <1>11. Feed(d).out = o /\ Feed(d).rest = <<>>
    BY <1>10
  <1>12. o = IF m.type = "ac" THEN <<>> ELSE <<m>>
    BY EncodeStep DEF o, d
  <1> QED
    BY <1>11, <1>12 DEF d

-----------------------------------------------------------------------------
(* The connection.                                                         *)

\* What the decoder keeps is something it can not decide yet.
Kept == buf \in Seq(Bytes) /\ (buf = <<>> \/ Step(buf).n = 0)

\* The bytes of the connection are bytes, and its messages messages.
Streams == read \in Seq(Bytes) /\ wire \in Seq(Bytes) /\ sent \in Seq(MsgRec)

\* The decoder is where decoding everything read at once would leave it.
InStep == got = Feed(read).out /\ buf = Feed(read).rest

\* Without noise all that was put on the wire decodes to what was sent, and
\* nothing is left over.
Carried == noise = 0 => Feed(read \o wire).out = sent /\ Feed(read \o wire).rest = <<>>

BeastInv ==
  /\ noise \in Nat /\ Kept
  /\ up => Streams /\ InStep /\ Carried

LEMMA FeedNothing == Feed(<<>>).out = <<>> /\ Feed(<<>>).rest = <<>> /\ <<>> \o <<>> = <<>>
  <1> DEFINE e == <<>>
  <1>1. e \in Seq(Bytes) /\ e = <<>>
    OBVIOUS
  <1> HIDE DEF e
  <1>2. Feed(e) = [out |-> <<>>, rest |-> e]
    BY <1>1, FeedStep
  <1>3. Feed(e).out = <<>> /\ Feed(e).rest = e
    BY <1>2
  <1>4. <<>> \o <<>> = <<>>
    OBVIOUS
  <1> QED
    BY <1>1, <1>3, <1>4

\* Nothing has been sent on a connection that begins.
LEMMA FreshHolds ==
  ASSUME noise' = 0, read' = <<>>, wire' = <<>>, sent' = <<>>, got' = <<>>, buf' = <<>>
  PROVE  BeastInv'
  <1>1. <<>> \in Seq(Bytes) /\ <<>> \in Seq(MsgRec)
    OBVIOUS
  <1>2. Kept' /\ Streams'
    BY <1>1 DEF Kept, Streams
  <1>3. read' \o wire' = <<>>
    BY FeedNothing
  <1>4. InStep'
    BY FeedNothing DEF InStep
  <1>5. Carried'
    BY <1>3, FeedNothing DEF Carried
  <1> QED
    BY <1>2, <1>4, <1>5 DEF BeastInv

LEMMA BeastStarts == BeastInit => BeastInv
  <1> SUFFICES ASSUME BeastInit PROVE BeastInv
    OBVIOUS
  <1>1. <<>> \in Seq(Bytes)
    OBVIOUS
  <1> QED
    BY <1>1 DEF BeastInit, BeastInv, Kept

LEMMA ConnectKeeps == BeastInv /\ Connect => BeastInv'
  <1> SUFFICES ASSUME BeastInv, Connect PROVE BeastInv'
    OBVIOUS
  <1> QED
    BY FreshHolds DEF Connect, NewDecoder

LEMMA LostKeeps == BeastInv /\ Lost => BeastInv'
  BY DEF BeastInv, Lost, Kept

\* Splitting the wire at a read.
LEMMA WireSplit ==
  ASSUME NEW w \in Seq(Bytes), NEW n \in 1..Len(w)
  PROVE  /\ SubSeq(w, 1, n) \in Seq(Bytes) /\ SubSeq(w, n + 1, Len(w)) \in Seq(Bytes)
         /\ SubSeq(w, 1, n) \o SubSeq(w, n + 1, Len(w)) = w
  <1> DEFINE l == Len(w)
             x == SubSeq(w, 1, n)
             y == SubSeq(w, n + 1, l)
  <1>1. n \in Nat /\ l \in Nat /\ 1 <= n /\ n <= l
    OBVIOUS
  <1>2. /\ x \in Seq(Bytes) /\ Len(x) = n
        /\ \A i \in 1..n : x[i] = w[i]
    OBVIOUS
  <1>3. /\ y \in Seq(Bytes) /\ Len(y) = l - n
        /\ \A i \in 1..(l - n) : y[i] = w[n + i]
    OBVIOUS
  <1> DEFINE r == x \o y
  <1> HIDE DEF x, y
  <1>4. /\ r \in Seq(Bytes) /\ Len(r) = n + (l - n)
        /\ \A i \in 1..Len(r) : r[i] = IF i <= n THEN x[i] ELSE y[i - n]
    <2>1. /\ r \in Seq(Bytes) /\ Len(r) = Len(x) + Len(y)
          /\ \A i \in 1..(Len(x) + Len(y)) : r[i] = IF i <= Len(x) THEN x[i] ELSE y[i - Len(x)]
      BY <1>2, <1>3, ConcatProperties
    <2> HIDE DEF r
    <2> QED
      BY <1>2, <1>3, <2>1
  <1> HIDE DEF r
  <1>5. Len(r) = l
    BY <1>1, <1>4
  <1>6. \A i \in 1..Len(r) : r[i] = w[i]
    <2> TAKE i \in 1..Len(r)
    <2>1. CASE i <= n
      <3>1. i \in 1..n
        BY <1>1, <1>5, <2>1
      <3> QED
        BY <1>2, <1>4, <2>1, <3>1
    <2>2. CASE ~(i <= n)
      <3>1. i - n \in 1..(l - n) /\ n + (i - n) = i
        BY <1>1, <1>5, <2>2
      <3> QED
        BY <1>3, <1>4, <2>2, <3>1
    <2> QED
      BY <2>1, <2>2
  <1>7. r = w
    BY <1>4, <1>5, <1>6, SeqEqual
  <1> QED
    BY <1>2, <1>3, <1>7 DEF r, x, y

LEMMA ReadKeeps ==
  ASSUME BeastInv, NEW n, Read(n)
  PROVE  BeastInv'
  <1> DEFINE x == SubSeq(wire, 1, n)
             y == SubSeq(wire, n + 1, Len(wire))
  <1>1. /\ up /\ noise \in Nat /\ read \in Seq(Bytes) /\ wire \in Seq(Bytes) /\ sent \in Seq(MsgRec)
        /\ got = Feed(read).out /\ buf = Feed(read).rest /\ Carried
        /\ n \in 1..Len(wire)
    BY DEF BeastInv, Read, Streams, InStep
  <1>2. /\ buf' = Feed(buf \o x).rest /\ got' = got \o Feed(buf \o x).out
        /\ read' = read \o x /\ wire' = y /\ sent' = sent /\ noise' = noise
    BY DEF Read
  <1>3. x \in Seq(Bytes) /\ y \in Seq(Bytes) /\ x \o y = wire
    BY <1>1, WireSplit
  <1> HIDE DEF x, y
  <1>4. Feed(read \o x).out = got \o Feed(buf \o x).out /\ Feed(read \o x).rest = Feed(buf \o x).rest
    <2>1. FeedsApart(read, x)
      BY <1>1, <1>3, FeedJoin
    <2> QED
      BY <1>1, <2>1 DEF FeedsApart
  <1>5. InStep'
    BY <1>2, <1>4 DEF InStep
  <1>6. read \o x \in Seq(Bytes) /\ (read \o x) \o y = read \o wire
    <2>1. (read \o x) \o y = read \o (x \o y)
      <3>1. read \in Seq(Bytes) /\ x \in Seq(Bytes) /\ y \in Seq(Bytes)
        BY <1>1, <1>3
      <3> QED
        BY <3>1, ConcatAssociative
    <2>2. read \o x \in Seq(Bytes)
      BY <1>1, <1>3, ConcatProperties
    <2> QED
      BY <1>3, <2>1, <2>2
  <1>7. Streams'
    BY <1>1, <1>2, <1>3, <1>6 DEF Streams
  <1>8. Kept'
    <2>1. FeedOK(read \o x)
      BY <1>6, FeedTypes
    <2>2. buf' = Feed(read \o x).rest
      BY <1>2, <1>4
    <2> QED
      BY <2>1, <2>2 DEF FeedOK, Kept
  <1>9. Carried'
    <2>1. read' \o wire' = read \o wire
      BY <1>2, <1>6
    <2> QED
      BY <1>1, <1>2, <2>1 DEF Carried
  <1> QED
    BY <1>1, <1>2, <1>5, <1>7, <1>8, <1>9 DEF BeastInv

LEMMA SendKeeps ==
  ASSUME BeastInv, NEW m \in Messages, Send(m)
  PROVE  BeastInv'
  <1> DEFINE e == Encode(m)
             b == read \o wire
             o == IF m.type = "ac" THEN <<>> ELSE <<m>>
  <1>1. /\ up /\ noise \in Nat /\ read \in Seq(Bytes) /\ wire \in Seq(Bytes) /\ sent \in Seq(MsgRec)
        /\ InStep /\ Carried /\ Kept
    BY DEF BeastInv, Send, Streams
  <1>2. /\ wire' = wire \o e /\ sent' = (IF m.type = "ac" THEN sent ELSE Append(sent, m))
        /\ noise' = noise /\ read' = read /\ buf' = buf /\ got' = got
    BY DEF Send
  <1>3. e \in Seq(Bytes) /\ m \in MsgRec
    BY EncodeStep
  <1>4. Feed(e).out = o /\ Feed(e).rest = <<>>
    BY FeedMessage
  <1> HIDE DEF e
  <1>5. b \in Seq(Bytes) /\ wire \o e \in Seq(Bytes) /\ read \o (wire \o e) = b \o e
    BY <1>1, <1>3, ConcatProperties, ConcatAssociative
  <1>6. sent' \in Seq(MsgRec) /\ sent' = sent \o o
    <2>1. CASE m.type = "ac"
      <3>1. sent \o <<>> = sent
        BY <1>1
      <3> QED
        BY <1>1, <1>2, <2>1, <3>1
    <2>2. CASE m.type # "ac"
      <3>1. Append(sent, m) \in Seq(MsgRec) /\ Append(sent, m) = sent \o <<m>>
        BY <1>1, <1>3
      <3> QED
        BY <1>1, <1>2, <2>2, <3>1
    <2> QED
      BY <2>1, <2>2
  <1> HIDE DEF o, b
  <1>7. Streams'
    BY <1>1, <1>2, <1>5, <1>6 DEF Streams
  <1>8. InStep' /\ Kept'
    BY <1>1, <1>2 DEF InStep, Kept
  <1>9. ASSUME noise = 0
        PROVE  Feed(b \o e).out = sent \o o /\ Feed(b \o e).rest = <<>>
    <2>1. Feed(b).out = sent /\ Feed(b).rest = <<>>
      BY <1>1, <1>9 DEF Carried, b
    <2>2. FeedsApart(b, e)
      BY <1>3, <1>5, FeedJoin
    <2>3. <<>> \o e = e
      BY <1>3
    <2> QED
      BY <1>4, <2>1, <2>2, <2>3 DEF FeedsApart
  <1>10. Carried'
    <2>1. read' \o wire' = b \o e
      BY <1>2, <1>5
    <2> QED
      BY <1>2, <1>6, <1>9, <2>1 DEF Carried
  <1> QED
    BY <1>1, <1>2, <1>7, <1>8, <1>10 DEF BeastInv

LEMMA NoiseKeeps ==
  ASSUME BeastInv, NEW c \in Bytes, Noise(c)
  PROVE  BeastInv'
  <1>1. /\ up /\ noise \in Nat /\ Streams /\ InStep /\ Kept
        /\ wire' = Append(wire, c) /\ noise' = noise + 1
        /\ sent' = sent /\ read' = read /\ buf' = buf /\ got' = got
    BY DEF BeastInv, Noise
  <1>2. Streams'
    BY <1>1 DEF Streams
  <1>3. InStep' /\ Kept'
    BY <1>1 DEF InStep, Kept
  <1>4. noise' \in Nat /\ noise' # 0
    BY <1>1
  <1> QED
    BY <1>2, <1>3, <1>4 DEF BeastInv, Carried

\* On every connection the decoder is where decoding all that was read at once
\* would leave it, keeps only what it can not decide, and, without noise, the
\* bytes on their way hold exactly what was sent (BeastDecoder::feed and the
\* input task of the client).
THEOREM BeastInductive == BeastSpec => []BeastInv
  <1>1. BeastInv /\ [BeastNext]_beastVars => BeastInv'
    <2> SUFFICES ASSUME BeastInv, [BeastNext]_beastVars PROVE BeastInv'
      OBVIOUS
    <2>1. CASE Connect
      BY <2>1, ConnectKeeps
    <2>2. CASE Lost
      BY <2>2, LostKeeps
    <2>3. CASE \E n \in 1..MaxBytes : Read(n)
      BY <2>3, ReadKeeps
    <2>4. CASE \E m \in Messages : Send(m)
      BY <2>4, SendKeeps
    <2>5. CASE \E c \in Bytes : Noise(c)
      BY <2>5, NoiseKeeps
    <2>6. CASE UNCHANGED beastVars
      BY <2>6 DEF BeastInv, beastVars, Kept, Streams, InStep, Carried
    <2> QED
      BY <2>1, <2>2, <2>3, <2>4, <2>5, <2>6 DEF BeastNext
  <1> QED
    BY <1>1, BeastStarts, PTL DEF BeastSpec

\* However the stream is cut into reads, the receptions are those of its bytes
\* decoded at once, noise included (BeastDecoder::feed keeps what it can not
\* decide).
THEOREM AnyChunks == BeastSpec => []ChunksDoNotMatter
  <1>1. BeastInv => ChunksDoNotMatter
    BY DEF BeastInv, InStep, ChunksDoNotMatter
  <1> QED
    BY <1>1, BeastInductive, PTL

\* What is handed on is a prefix of the Mode S messages sent, and all of them
\* once everything is read, on every connection without noise and for every
\* payload (escapes doubled by beast-serve, undone by BeastDecoder).
THEOREM SentIsHandedOn == BeastSpec => []HandsOnWhatWasSent
  <1>1. BeastInv => HandsOnWhatWasSent
    <2> SUFFICES ASSUME BeastInv, up, noise = 0
                 PROVE  IsPrefix(got, sent) /\ (wire = <<>> => got = sent /\ buf = <<>>)
      BY DEF HandsOnWhatWasSent
    <2> DEFINE g == Feed(buf \o wire)
    <2>1. /\ read \in Seq(Bytes) /\ wire \in Seq(Bytes) /\ buf \in Seq(Bytes)
          /\ got = Feed(read).out /\ buf = Feed(read).rest
          /\ Feed(read \o wire).out = sent /\ Feed(read \o wire).rest = <<>>
      BY DEF BeastInv, Streams, InStep, Carried, Kept
    <2>2. sent = got \o g.out
      <3>1. FeedsApart(read, wire)
        BY <2>1, FeedJoin
      <3> QED
        BY <2>1, <3>1 DEF FeedsApart
    <2>3. got \in Seq(MsgRec) /\ g.out \in Seq(MsgRec)
      <3>1. buf \o wire \in Seq(Bytes)
        BY <2>1, ConcatProperties
      <3>2. FeedOK(read) /\ FeedOK(buf \o wire)
        BY <2>1, <3>1, FeedTypes
      <3> QED
        BY <2>1, <3>2 DEF FeedOK
    <2>4. IsPrefix(got, sent)
      <3> HIDE DEF g
      <3>1. /\ Len(got) <= Len(sent) /\ Len(got) \in Nat
            /\ \A i \in 1..Len(got) : sent[i] = got[i]
        BY <2>2, <2>3
      <3>2. SubSeq(sent, 1, Len(got)) = got
        <4> DEFINE q == SubSeq(sent, 1, Len(got))
        <4>1. sent \in Seq(MsgRec)
          BY <2>2, <2>3
        <4>2. q \in Seq(MsgRec) /\ Len(q) = Len(got) /\ \A i \in 1..Len(got) : q[i] = sent[i]
          BY <3>1, <4>1
        <4> HIDE DEF q
        <4>3. q = got
          BY <2>3, <3>1, <4>2, SeqEqual
        <4> QED
          BY <4>3 DEF q
      <3> QED
        BY <3>1, <3>2 DEF IsPrefix
    <2>5. ASSUME wire = <<>> PROVE got = sent /\ buf = <<>>
      <3>1. read \o wire = read
        BY <2>1, <2>5
      <3> QED
        BY <2>1, <3>1
    <2> QED
      BY <2>4, <2>5
  <1> QED
    BY <1>1, BeastInductive, PTL

\* The buffer of the decoder never holds a whole message with every byte
\* escaped, whatever is sent and wherever it is cut.
THEOREM BufferBounded == BeastSpec => []KeepsLessThanAMessage
  <1> DEFINE W == {Want[k] : k \in Types}
             top == CHOOSE n \in W : \A k \in Types : Want[k] <= n
  <1>1. top \in Nat /\ \A k \in Types : Want[k] \in Nat /\ Want[k] <= top
    <2>1. \A k \in Types : Want[k] \in Nat
      BY BeastAssumption
    <2>2. \E k \in Types : \A j \in Types : Want[j] <= Want[k]
      <3> DEFINE x == Want["ac"]
                 y == Want["short"]
                 z == Want["long"]
      <3>1. x \in Nat /\ y \in Nat /\ z \in Nat
        BY <2>1 DEF Types
      <3>2. \/ x <= x /\ y <= x /\ z <= x
            \/ x <= y /\ y <= y /\ z <= y
            \/ x <= z /\ y <= z /\ z <= z
        <4> HIDE DEF x, y, z
        <4> QED
          BY <3>1
      <3> QED
        BY <3>2 DEF Types
    <2>3. \E n \in W : \A k \in Types : Want[k] <= n
      BY <2>2
    <2>4. top \in W /\ \A k \in Types : Want[k] <= top
      BY <2>3
    <2> QED
      BY <2>1, <2>4
  <1>2. BeastInv => KeepsLessThanAMessage
    <2> SUFFICES ASSUME BeastInv PROVE Len(buf) < 2 + 2 * top
      BY DEF KeepsLessThanAMessage
    <2> HIDE DEF top
    <2>1. buf \in Seq(Bytes) /\ (buf = <<>> \/ Step(buf).n = 0) /\ Len(buf) \in Nat
      BY DEF BeastInv, Kept
    <2>2. CASE buf = <<>>
      BY <1>1, <2>2
    <2>3. CASE buf # <<>>
      <3>1. Len(buf) = 1 \/ \E k \in Types : Len(buf) <= 2 * Want[k] + 1
        BY <2>1, <2>3, StepOK
      <3>2. CASE Len(buf) = 1
        BY <1>1, <3>2
      <3>3. CASE \E k \in Types : Len(buf) <= 2 * Want[k] + 1
        <4>1. PICK k \in Types : Len(buf) <= 2 * Want[k] + 1
          BY <3>3
        <4> DEFINE w == Want[k]
                   l == Len(buf)
        <4>2. w \in Nat /\ w <= top /\ top \in Nat /\ l \in Nat /\ l <= 2 * w + 1
          BY <1>1, <2>1, <4>1
        <4> HIDE DEF w, l
        <4>3. l < 2 + 2 * top
          BY <4>2
        <4> QED
          BY <4>3 DEF l
      <3> QED
        BY <3>1, <3>2, <3>3
    <2> QED
      BY <2>2, <2>3
  <1> QED
    BY <1>2, BeastInductive, PTL
=============================================================================

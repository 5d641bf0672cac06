-------------------------- MODULE ClockSyncProofs --------------------------
(***************************************************************************)
(* Proofs about ClockSync for every counter width, threshold, queue length *)
(* and window, and any number of restarts and faults.                      *)
(*                                                                         *)
(* The inductive invariant follows an epoch along the receiver's path: a   *)
(* stored half is not older than the last restart the engine noticed       *)
(* (HalvesFresh); what is in the queue is not newer than the last reading  *)
(* the engine saw (SeenLast), so that a restart it notices begins after    *)
(* all of it; a sync message behind a clock_reset is of that reset's epoch *)
(* or a later one (ResetsOrdered); and what has reached the server since   *)
(* the last reset it took is not older than it (SinceReset).  Rejections   *)
(* of a model that holds the present clock are counted by the history run  *)
(* (RunCounts).                                                            *)
(***************************************************************************)
EXTENDS ClockSync, TLAPS, FiniteSetTheorems, SequenceTheorems

Readings == [n : 0..(Mod - 1), epoch : Nat]
Halves == Nat \X Nat
Msgs == {Notice} \cup [kind : {"clock_reset"}, epoch : Nat] \cup [kind : {"sync"}, halves : Halves]
Models == [win : Seq(Nat), rejects : Nat, wide : BOOLEAN]

\* At most one element.
Single(S) == \A x, y \in S : x = y

Types ==
  /\ ctr \in 0..(Mod - 1) /\ epoch \in Nat \ {0}
  /\ last_counter \subseteq Readings /\ even \subseteq Readings /\ odd \subseteq Readings
  /\ Single(even) /\ Single(odd)
  /\ up \in Seq(Msgs)
  /\ waiting \subseteq Halves
  /\ model \in Models
  /\ noticed \subseteq Nat
  /\ run \in Nat /\ told \in Nat /\ leftover \in BOOLEAN

\* Nothing comes from an epoch that has not begun.
NotAhead ==
  /\ \A x \in last_counter \cup even \cup odd : x.epoch <= epoch
  /\ \A q \in noticed : q <= epoch
  /\ \A i \in DOMAIN up : up[i].kind = "sync" =>
       up[i].halves[1] <= epoch /\ up[i].halves[2] <= epoch
  /\ \A r \in waiting : r[1] <= epoch /\ r[2] <= epoch
  /\ \A i \in DOMAIN model.win : model.win[i] <= epoch

\* What the engine saw last in the present epoch was not ahead of the
\* counter, and restarts and messages are not newer than what it saw last.
SeenLast ==
  \A l \in last_counter :
    /\ l.epoch = epoch => l.n <= ctr
    /\ \A q \in noticed : q <= l.epoch
    /\ \A i \in DOMAIN up : up[i].kind = "sync" =>
         up[i].halves[1] <= l.epoch /\ up[i].halves[2] <= l.epoch

\* A stored half is not older than a restart that was noticed.
HalvesFresh == \A x \in even \cup odd : \A q \in noticed : q <= x.epoch

\* The clock_resets in the queue are of different restarts, in order, later
\* than the last one taken; sync messages are not older than the resets
\* before them.
ResetsOrdered ==
  /\ told \in noticed \cup {0}
  /\ \A i \in DOMAIN up : up[i].kind = "clock_reset" =>
       /\ up[i].epoch \in noticed /\ told < up[i].epoch
       /\ \A j \in DOMAIN up : j > i =>
            /\ up[j].kind = "clock_reset" => up[i].epoch < up[j].epoch
            /\ up[j].kind = "sync" => /\ up[i].epoch <= up[j].halves[1]
                                      /\ up[i].epoch <= up[j].halves[2]
  /\ \A i \in DOMAIN up : up[i].kind = "sync" =>
       told <= up[i].halves[1] /\ told <= up[i].halves[2]

\* Nothing older than the last clock_reset taken waits in a sync point or
\* weighs in the model, unless it waited when the reset came.
SinceReset ==
  ~leftover => /\ \A r \in waiting : told <= r[1] /\ told <= r[2]
               /\ \A i \in DOMAIN model.win : model.win[i] = Wild \/ told <= model.win[i]

\* Rejections are counted in usable models only, and those of a model of the
\* present clock are part of the run.
RunCounts ==
  /\ model.rejects > 0 => Usable(model)
  /\ ToSet(model.win) = {epoch} => model.rejects <= run

IInv ==
  /\ Types
  /\ NotAhead
  /\ SeenLast
  /\ HalvesFresh
  /\ SyncOfOneClock
  /\ ResetsOrdered
  /\ SinceReset
  /\ RunCounts

-----------------------------------------------------------------------------
(* The pair model.                                                         *)

\* The three outcomes of a push: the reading is ingested, it is rejected, or
\* it is rejected and the model with it.
TookIn(m, k) == k.rejects = 0 /\ Len(k.win) >= Len(m.win)
TurnedAway(m, x, k) ==
  /\ k = [m EXCEPT !.rejects = @ + 1] /\ Usable(m)
  /\ m.rejects + 1 < ResetAfter
  /\ ~(x # Wild /\ ToSet(m.win) = {x})
GaveUp(m, k) == k = Default /\ Usable(m) /\ m.rejects + 1 >= ResetAfter

LEMMA IngestedModel ==
  ASSUME NEW m \in Models, NEW x \in Nat, NEW k \in Ingested(m, x),
         m.rejects > 0 => Usable(m)
  PROVE  /\ k \in Models
         /\ TookIn(m, k)
         /\ \A i \in DOMAIN k.win : k.win[i] = x \/ \E j \in DOMAIN m.win : k.win[i] = m.win[j]
  <1> DEFINE w == m.win
             n == Len(w)
             v == IF n < Window THEN Append(w, x) ELSE Append(Tail(w), x)
  <1> USE ClockAssumption
  <1>0. w \in Seq(Nat) /\ m.rejects \in Nat /\ Window \in Nat \ {0} /\ n \in Nat /\ DOMAIN w = 1..n
    BY DEF Models
  <1>1. PICK b \in BOOLEAN : k = [win |-> v, rejects |-> RunAfter(m), wide |-> b]
    BY DEF Ingested
  <1>2. RunAfter(m) = 0
    BY <1>0 DEF RunAfter
  <1> HIDE DEF w
  <1>3. /\ v \in Seq(Nat) /\ Len(v) >= n
        /\ \A i \in DOMAIN v : v[i] = x \/ \E j \in DOMAIN w : v[i] = w[j]
    <2>1. CASE n < Window
      <3>1. v = Append(w, x)
        BY <2>1
      <3> HIDE DEF v
      <3>2. /\ v \in Seq(Nat) /\ Len(v) = n + 1 /\ DOMAIN v = 1..(n + 1)
            /\ v[n + 1] = x /\ \A i \in 1..n : v[i] = w[i]
        BY <1>0, <3>1
      <3> HIDE DEF n
      <3>3. Len(v) >= n
        BY <1>0, <3>2
      <3>4. \A i \in 1..(n + 1) : i = n + 1 \/ i \in 1..n
        BY <1>0
      <3> QED
        BY <1>0, <3>2, <3>3, <3>4
    <2>2. CASE ~(n < Window)
      <3>0. w # <<>> /\ n >= 1
        BY <1>0, <2>2
      <3>1. v = Append(Tail(w), x)
        BY <2>2
      <3> HIDE DEF v
      <3>2. /\ Tail(w) \in Seq(Nat) /\ Len(Tail(w)) = n - 1
            /\ \A i \in 1..(n - 1) : Tail(w)[i] = w[i + 1]
        BY <1>0, <3>0
      <3> DEFINE t == Tail(w)
                 u == Len(t)
      <3>3. t \in Seq(Nat) /\ u \in Nat /\ v = Append(t, x)
        BY <3>1, <3>2
      <3> HIDE DEF t
      <3>4. /\ v \in Seq(Nat) /\ Len(v) = u + 1 /\ DOMAIN v = 1..(u + 1)
            /\ v[u + 1] = x /\ \A i \in 1..u : v[i] = t[i]
        BY <3>3
      <3>5. u = n - 1 /\ \A i \in 1..u : t[i] = w[i + 1]
        BY <3>2 DEF t
      <3> HIDE DEF u, n
      <3>6. \A i \in 1..(u + 1) : i = u + 1 \/ (i \in 1..u /\ i + 1 \in 1..n)
        BY <1>0, <3>3, <3>5
      <3>7. Len(v) >= n
        BY <1>0, <3>3, <3>4, <3>5
      <3> QED
        BY <1>0, <3>4, <3>5, <3>6, <3>7
    <2> QED
      BY <2>1, <2>2
  <1> HIDE DEF v
  <1> QED
    BY <1>1, <1>2, <1>3 DEF Models, TookIn, w, n

\* PairModel::push.
LEMMA PushModel ==
  ASSUME NEW m \in Models, NEW x \in Nat, NEW k \in Push(m, x),
         m.rejects > 0 => Usable(m)
  PROVE  /\ k \in Models
         /\ k.rejects > 0 => Usable(k)
         /\ \A i \in DOMAIN k.win : k.win[i] = x \/ \E j \in DOMAIN m.win : k.win[i] = m.win[j]
         /\ TookIn(m, k) \/ TurnedAway(m, x, k) \/ GaveUp(m, k)
  <1>0. m.rejects \in Nat /\ ResetAfter \in Nat
    BY ClockAssumption DEF Models
  <1>1. CASE k \in Ingested(m, x)
    BY <1>1, IngestedModel DEF TookIn
  <1>2. CASE k \notin Ingested(m, x)
    <2>1. Usable(m) /\ FALSE \in Fits(m, x) /\ k = Rejected(m)
      <3>1. Usable(m)
        BY <1>2 DEF Push
      <3>2. PICK ok \in Fits(m, x) : k \in IF ok THEN Ingested(m, x) ELSE {Rejected(m)}
        BY <3>1 DEF Push
      <3>3. ok \in BOOLEAN
        BY DEF Fits
      <3>4. ok = FALSE
        BY <1>2, <3>2, <3>3
      <3> QED
        BY <3>1, <3>2, <3>4
    <2>2. ~(x # Wild /\ ToSet(m.win) = {x})
      BY <2>1 DEF Fits
    <2>3. CASE m.rejects + 1 >= ResetAfter
      <3>1. k = Default
        BY <2>1, <2>3 DEF Rejected
      <3> QED
        BY <2>1, <2>3, <3>1 DEF GaveUp, Default, Models
    <2>4. CASE ~(m.rejects + 1 >= ResetAfter)
      <3>1. k = [m EXCEPT !.rejects = @ + 1]
        BY <2>1, <2>4 DEF Rejected
      <3>2. k \in Models /\ k.win = m.win /\ k.wide = m.wide
        BY <3>1 DEF Models
      <3>3. Usable(k)
        BY <2>1, <3>2 DEF Usable
      <3> QED
        BY <1>0, <2>1, <2>2, <2>4, <3>1, <3>2, <3>3 DEF TurnedAway
    <2> QED
      BY <2>3, <2>4
  <1> QED
    BY <1>1, <1>2

\* The two pushes of a shared event: the model stays well formed, keeps the
\* count of rejections, and is dropped only by a run of rejections.
LEMMA TrainModel ==
  ASSUME Types, RunCounts, NEW h \in Halves, Train(h), epoch' = epoch
  PROVE  /\ model' \in Models /\ run' \in Nat
         /\ RunCounts'
         /\ \A i \in DOMAIN model'.win :
              \/ model'.win[i] = h[1] \/ model'.win[i] = h[2]
              \/ \E j \in DOMAIN model.win : model'.win[i] = model.win[j]
         /\ ToSet(model.win) = {epoch} /\ Len(model'.win) < Len(model.win) => run + 2 >= ResetAfter
  <1> USE ClockAssumption
  <1>0. /\ model \in Models /\ run \in Nat /\ epoch \in Nat \ {0} /\ h[1] \in Nat /\ h[2] \in Nat
        /\ model.rejects > 0 => Usable(model)
        /\ ResetAfter \in Nat \ {0} /\ model.rejects \in Nat
    BY DEF Types, RunCounts, Halves, Models
  <1>1. PICK k \in Push(model, h[1]) : model' \in Push(k, h[2])
    BY DEF Train, Pushed
  <1>2. /\ k \in Models
        /\ k.rejects > 0 => Usable(k)
        /\ \A i \in DOMAIN k.win : k.win[i] = h[1] \/ \E j \in DOMAIN model.win : k.win[i] = model.win[j]
        /\ TookIn(model, k) \/ TurnedAway(model, h[1], k) \/ GaveUp(model, k)
    BY <1>0, PushModel
  <1>3. /\ model' \in Models
        /\ model'.rejects > 0 => Usable(model')
        /\ \A i \in DOMAIN model'.win : model'.win[i] = h[2] \/ \E j \in DOMAIN k.win : model'.win[i] = k.win[j]
        /\ TookIn(k, model') \/ TurnedAway(k, h[2], model') \/ GaveUp(k, model')
    BY <1>0, <1>1, <1>2, PushModel
  <1>4. /\ run' = IF h[2] = epoch THEN 0
                  ELSE IF h[1] = epoch THEN 1
                  ELSE IF run + 2 < ResetAfter THEN run + 2 ELSE ResetAfter
        /\ run' \in Nat
    BY <1>0 DEF Train
  <1>5. k.rejects \in Nat /\ model'.rejects \in Nat /\ Len(k.win) \in Nat /\ Len(model.win) \in Nat
        /\ Len(model'.win) \in Nat
    BY <1>0, <1>2, <1>3 DEF Models
  <1>6. /\ TurnedAway(model, h[1], k) => k.rejects = model.rejects + 1 /\ k.win = model.win
        /\ TurnedAway(k, h[2], model') => model'.rejects = k.rejects + 1 /\ model'.win = k.win
    BY <1>0, <1>2 DEF TurnedAway, Models
  <1>7. epoch # Wild /\ Default.rejects = 0 /\ ToSet(Default.win) # {epoch}
    BY <1>0 DEF Wild, Default, ToSet
  <1>8. ToSet(model'.win) = {epoch} => model'.rejects <= run'
    <2> SUFFICES ASSUME ToSet(model'.win) = {epoch}, model'.rejects > 0
                 PROVE  model'.rejects <= run'
      BY <1>4, <1>5
    <2>1. /\ TurnedAway(k, h[2], model') /\ h[2] # epoch
          /\ model'.rejects = k.rejects + 1 /\ ToSet(k.win) = {epoch} /\ k.rejects + 1 < ResetAfter
      BY <1>3, <1>6, <1>7 DEF TookIn, GaveUp, TurnedAway
    <2>2. CASE k.rejects = 0
      BY <1>0, <1>4, <2>1, <2>2
    <2>3. CASE k.rejects # 0
      <3>1. /\ h[1] # epoch /\ k.rejects = model.rejects + 1 /\ ToSet(model.win) = {epoch}
        BY <1>2, <1>6, <1>7, <2>1, <2>3 DEF TookIn, GaveUp, TurnedAway
      <3>2. model.rejects <= run
        BY <3>1 DEF RunCounts
      <3> QED
        BY <1>0, <1>4, <2>1, <3>1, <3>2
    <2> QED
      BY <2>2, <2>3
  <1>9. ASSUME ToSet(model.win) = {epoch}, Len(model'.win) < Len(model.win)
        PROVE  run + 2 >= ResetAfter
    <2>1. model.rejects <= run
      BY <1>9 DEF RunCounts
    <2>2. CASE GaveUp(model, k)
      BY <1>0, <2>1, <2>2 DEF GaveUp
    <2>3. CASE ~GaveUp(model, k)
      <3>1. Len(k.win) >= Len(model.win) /\ k.rejects <= model.rejects + 1
        BY <1>0, <1>2, <1>5, <1>6, <2>3 DEF TookIn
      <3>2. GaveUp(k, model')
        BY <1>3, <1>5, <1>6, <1>9, <3>1 DEF TookIn
      <3> QED
        BY <1>0, <1>5, <2>1, <3>1, <3>2 DEF GaveUp
    <2> QED
      BY <2>2, <2>3
  <1>10. RunCounts'
    BY <1>3, <1>8 DEF RunCounts, Usable
  <1>11. ASSUME NEW i \in DOMAIN model'.win
         PROVE  \/ model'.win[i] = h[1] \/ model'.win[i] = h[2]
                \/ \E j \in DOMAIN model.win : model'.win[i] = model.win[j]
    BY <1>2, <1>3
  <1> QED
    BY <1>3, <1>4, <1>9, <1>10, <1>11

-----------------------------------------------------------------------------
(* The engine.                                                             *)

\* A queue with a message at its end, and without its head.
LEMMA AppendTo ==
  ASSUME NEW S, NEW q \in Seq(S), NEW m \in S
  PROVE  /\ Len(q) \in Nat /\ DOMAIN q = 1..Len(q)
         /\ Append(q, m) \in Seq(S)
         /\ DOMAIN Append(q, m) = 1..(Len(q) + 1)
         /\ Append(q, m)[Len(q) + 1] = m
         /\ \A i \in 1..Len(q) : Append(q, m)[i] = q[i]
  OBVIOUS

LEMMA TailOf ==
  ASSUME NEW S, NEW q \in Seq(S), q # <<>>
  PROVE  /\ Len(q) \in Nat \ {0} /\ DOMAIN q = 1..Len(q) /\ q[1] \in S
         /\ Tail(q) \in Seq(S) /\ DOMAIN Tail(q) = 1..(Len(q) - 1)
         /\ \A i \in 1..(Len(q) - 1) : Tail(q)[i] = q[i + 1]
  OBVIOUS

LEMMA ConcatOne ==
  ASSUME NEW S, NEW q \in Seq(S), NEW m \in S
  PROVE  <<>> \o <<m>> = <<m>> /\ <<m>> \o <<>> = <<m>> /\ <<>> \o <<>> = <<>>
         /\ q \o <<m>> = Append(q, m) /\ q \o <<>> = q
  OBVIOUS

\* The messages of the engine.
LEMMA MessageTypes ==
  ASSUME NEW a \in Nat, NEW b \in Nat
  PROVE  /\ Notice \in Msgs /\ Reset(a) \in Msgs /\ Sync(a, b) \in Msgs
         /\ Notice.kind = "input"
         /\ Reset(a).kind = "clock_reset" /\ Reset(a).epoch = a
         /\ Sync(a, b).kind = "sync" /\ Sync(a, b).halves = <<a, b>>
  BY DEF Msgs, Notice, Reset, Sync, Halves

\* The sequence of a set of at most one element.
LEMMA SingleToSeq ==
  ASSUME NEW S, Single(S)
  PROVE  (S = {} /\ SetToSeq(S) = <<>>) \/ \E x \in S : SetToSeq(S) = <<x>>
  <1> DEFINE F == [1..Cardinality(S) -> S]
  <1>1. CASE S = {}
    <2>1. Cardinality(S) = 0
      BY <1>1, FS_EmptySet
    <2>2. <<>> \in F /\ IsInjective(<<>>)
      BY <2>1 DEF IsInjective
    <2>3. SetToSeq(S) \in F
      BY <2>2 DEF SetToSeq
    <2>4. SetToSeq(S) = <<>>
      BY <2>1, <2>3
    <2> QED
      BY <1>1, <2>4
  <1>2. CASE S # {}
    <2>1. PICK x : x \in S
      BY <1>2
    <2>2. S = {x}
      BY <2>1 DEF Single
    <2>3. Cardinality(S) = 1
      BY <2>2, FS_Singleton
    <2>4. <<x>> \in F /\ IsInjective(<<x>>)
      BY <2>2, <2>3 DEF IsInjective
    <2>5. SetToSeq(S) \in F
      BY <2>4 DEF SetToSeq
    <2>6. SetToSeq(S) = <<x>>
      BY <2>2, <2>3, <2>5
    <2> QED
      BY <2>1, <2>6
  <1> QED
    BY <1>1, <1>2

\* A reception sends at most one message: the clock_reset of a restart it
\* noticed, which leaves no half to pair with, or a pair with a stored half.
LEMMA ReceptionSends ==
  ASSUME Types, NEW isOdd \in BOOLEAN, NEW g \in Gaps, Reception(isOdd, g),
         NEW n, n = (ctr + g) % Mod,
         NEW e, e = IF ctr + g >= Mod THEN epoch + 1 ELSE epoch
  PROVE  \/ up' = up
         \/ Backward(n) /\ up' = Append(up, Reset(e))
         \/ /\ ~Backward(n)
            /\ \E x \in even \cup odd : \/ up' = Append(up, Sync(x.epoch, e))
                                        \/ up' = Append(up, Sync(e, x.epoch))
  <1> DEFINE h == [n |-> n, epoch |-> e]
             rst == Backward(n)
             others == IF rst THEN {} ELSE IF isOdd THEN even ELSE odd
             first == IF rst THEN <<Reset(e)>> ELSE <<>>
             pr == Paired(h, others, isOdd)
             near == {x \in others : x.n - h.n <= MaxPair /\ h.n - x.n <= MaxPair}
             S == {IF isOdd THEN Sync(x.epoch, h.epoch) ELSE Sync(h.epoch, x.epoch) : x \in near}
  <1>0. up \in Seq(Msgs) /\ h.epoch = e
    BY DEF Types
  <1>1. up' = TrySend(first \o pr)
    BY DEF Reception, HalfDropped
  <1>2. pr = SetToSeq(S)
    BY DEF Paired
  <1>3. Single(S)
    <2>1. Single(others)
      BY DEF Types, Single
    <2> QED
      BY <2>1 DEF Single
  <1>5. rst => S = {}
    OBVIOUS
  <1>6. \A m \in S : \E x \in even \cup odd : m = Sync(x.epoch, e) \/ m = Sync(e, x.epoch)
    BY <1>0
  <1>T. e \in Nat /\ \A x \in even \cup odd : x.epoch \in Nat
    BY DEF Types, Readings
  <1> HIDE DEF S, pr
  <1>4. \/ S = {} /\ pr = <<>>
        \/ \E m \in S : pr = <<m>>
    BY <1>2, <1>3, SingleToSeq
  <1>7. CASE rst
    <2> DEFINE r == Reset(e)
    <2>1. pr = <<>> /\ r \in Msgs /\ up' = TrySend(<<r>> \o pr)
      BY <1>T, <1>1, <1>4, <1>5, <1>7, MessageTypes
    <2> HIDE DEF r
    <2>2. <<r>> \o pr = <<r>> /\ up \o <<r>> = Append(up, r)
      BY <1>0, <2>1, ConcatOne
    <2>3. up' = up \/ up' = Append(up, r)
      BY <2>1, <2>2 DEF TrySend
    <2> QED
      BY <1>7, <2>3 DEF r
  <1>8. CASE ~rst
    <2>1. up' = TrySend(<<>> \o pr)
      BY <1>1, <1>8
    <2>2. CASE pr = <<>>
      BY <1>0, <2>1, <2>2 DEF TrySend
    <2>3. CASE \E m \in S : pr = <<m>>
      <3>1. PICK m \in S : pr = <<m>>
        BY <2>3
      <3>2. m \in Msgs
        BY <1>T, <1>6, MessageTypes
      <3>3. <<>> \o pr = <<m>> /\ up \o <<m>> = Append(up, m)
        BY <1>0, <3>1, <3>2, ConcatOne
      <3>4. up' = up \/ up' = Append(up, m)
        BY <2>1, <3>3 DEF TrySend
      <3> QED
        BY <1>6, <1>8, <3>4
    <2> QED
      BY <1>4, <2>2, <2>3
  <1> QED
    BY <1>7, <1>8

\* A reading of epoch a is not ahead of epoch e and not older than a restart
\* that was noticed.
Fresh(a, e) == a \in Nat /\ a <= e /\ \A q \in noticed : q <= a

\* A reception keeps the invariant.
LEMMA ReceptionStep ==
  ASSUME IInv, NEW isOdd \in BOOLEAN, NEW g \in Gaps, Reception(isOdd, g)
  PROVE  IInv'
  <1> DEFINE n == (ctr + g) % Mod
             e == IF ctr + g >= Mod THEN epoch + 1 ELSE epoch
             h == [n |-> n, epoch |-> e]
             rst == Backward(n)
             L == Len(up)
             New(m) == \/ rst /\ m.kind = "clock_reset" /\ m.epoch = e
                       \/ ~rst /\ m.kind = "sync" /\ Fresh(m.halves[1], e) /\ Fresh(m.halves[2], e)
  <1> USE ClockAssumption
  <1>0. /\ ctr \in 0..(Mod - 1) /\ epoch \in Nat \ {0} /\ g \in 0..(Mod - 1) /\ Mod \in Nat \ {0}
        /\ up \in Seq(Msgs) /\ noticed \subseteq Nat
    BY DEF IInv, Types
  <1>1. /\ n \in 0..(Mod - 1) /\ e \in Nat \ {0} /\ epoch <= e
        /\ e = epoch => n >= ctr
    <2>1. n \in 0..(Mod - 1)
      BY <1>0
    <2>2. CASE ctr + g >= Mod
      BY <1>0, <2>1, <2>2
    <2>3. CASE ~(ctr + g >= Mod)
      <3>1. n = ctr + g
        BY <1>0, <2>3
      <3> QED
        BY <1>0, <2>1, <2>3, <3>1
    <2> QED
      BY <2>2, <2>3
  <1>2. /\ ctr' = n /\ epoch' = e /\ last_counter' = {h}
        /\ even' = IF isOdd THEN (IF rst THEN {} ELSE even) ELSE {h}
        /\ odd' = IF isOdd THEN {h} ELSE (IF rst THEN {} ELSE odd)
        /\ noticed' = noticed \cup (IF rst THEN {e} ELSE {})
        /\ UNCHANGED <<waiting, model, run, told, leftover, faults>>
    BY DEF Reception, HalfDropped, server
  <1>3. h \in Readings /\ h.n = n /\ h.epoch = e
    BY <1>1 DEF Readings
  <1>4. \/ up' = up
        \/ rst /\ up' = Append(up, Reset(e))
        \/ /\ ~rst
           /\ \E x \in even \cup odd : \/ up' = Append(up, Sync(x.epoch, e))
                                       \/ up' = Append(up, Sync(e, x.epoch))
    BY ReceptionSends DEF IInv
  <1> HIDE DEF n, e, h
  <1>5. rst => /\ \A q \in noticed : q < e
               /\ \A i \in DOMAIN up : up[i].kind = "sync" => up[i].halves[1] < e /\ up[i].halves[2] < e
    <2> SUFFICES ASSUME rst
                 PROVE  \E l \in last_counter : l.epoch < e
      <3>1. \A i \in DOMAIN up : up[i].kind = "sync" => up[i].halves[1] \in Nat /\ up[i].halves[2] \in Nat
        BY <1>0 DEF Msgs, Halves, Notice
      <3>2. \A l \in last_counter : l.epoch \in Nat
        BY DEF IInv, Types, Readings
      <3>3. \A q \in noticed : q \in Nat
        BY <1>0
      <3> QED
        BY <1>1, <3>1, <3>2, <3>3 DEF IInv, SeenLast
    <2>1. PICK l \in last_counter : l.n - n > ResetBackward
      BY DEF Backward
    <2>2. l.n \in Nat /\ l.epoch \in Nat /\ l.epoch <= epoch /\ (l.epoch = epoch => l.n <= ctr)
      BY DEF IInv, Types, Readings, NotAhead, SeenLast
    <2>3. ~(l.epoch >= e)
      BY <1>0, <1>1, <2>1, <2>2
    <2> QED
      BY <1>1, <2>2, <2>3
  <1>6. \A x \in even \cup odd : Fresh(x.epoch, e)
    BY <1>0, <1>1 DEF IInv, Types, Readings, NotAhead, HalvesFresh, Fresh
  <1>7. Fresh(e, e)
    BY <1>0, <1>1 DEF IInv, NotAhead, Fresh
  <1>8. /\ up' \in Seq(Msgs) /\ L \in Nat /\ DOMAIN up = 1..L
        /\ \A i \in DOMAIN up' : /\ i \in 1..(L + 1)
                                 /\ i \in 1..L => up'[i] = up[i]
                                 /\ i = L + 1 => New(up'[i])
    <2>0. L \in Nat /\ DOMAIN up = 1..L
      BY <1>0
    <2>1. CASE up' = up
      BY <1>0, <2>0, <2>1
    <2>2. CASE up' # up
      <3>1. PICK m \in Msgs : up' = Append(up, m) /\ New(m)
        <4>1. CASE rst
          BY <1>1, <1>4, <2>2, <4>1, MessageTypes
        <4>2. CASE ~rst
          <5>1. PICK x \in even \cup odd : \/ up' = Append(up, Sync(x.epoch, e))
                                           \/ up' = Append(up, Sync(e, x.epoch))
            BY <1>4, <2>2, <4>2
          <5>2. x.epoch \in Nat /\ Fresh(x.epoch, e)
            BY <1>6 DEF Fresh
          <5>3. /\ Sync(x.epoch, e) \in Msgs /\ New(Sync(x.epoch, e))
                /\ Sync(e, x.epoch) \in Msgs /\ New(Sync(e, x.epoch))
            BY <1>1, <1>7, <4>2, <5>2, MessageTypes
          <5> QED
            BY <5>1, <5>3
        <4> QED
          BY <4>1, <4>2
      <3> HIDE DEF New
      <3>2. /\ up' \in Seq(Msgs) /\ DOMAIN up' = 1..(L + 1) /\ up'[L + 1] = m
            /\ \A i \in 1..L : up'[i] = up[i]
        BY <1>0, <3>1, AppendTo
      <3> QED
        BY <2>0, <3>1, <3>2
    <2> QED
      BY <2>1, <2>2
  <1> HIDE DEF rst, L
  <1>9. Types'
    <2>1. /\ last_counter' \subseteq Readings /\ even' \subseteq Readings /\ odd' \subseteq Readings
          /\ Single(even') /\ Single(odd')
      BY <1>2, <1>3 DEF IInv, Types, Single
    <2>2. noticed' \subseteq Nat
      BY <1>0, <1>1, <1>2
    <2> QED
      BY <1>1, <1>2, <1>8, <2>1, <2>2 DEF IInv, Types, Single, Readings
  <1>10. \A i \in DOMAIN up' : up'[i].kind = "sync" =>
           /\ up'[i].halves[1] \in Nat /\ up'[i].halves[1] <= e
           /\ up'[i].halves[2] \in Nat /\ up'[i].halves[2] <= e
    <2> SUFFICES ASSUME NEW i \in DOMAIN up', up'[i].kind = "sync"
                 PROVE  /\ up'[i].halves[1] \in Nat /\ up'[i].halves[1] <= e
                        /\ up'[i].halves[2] \in Nat /\ up'[i].halves[2] <= e
      OBVIOUS
    <2>0. up'[i].halves[1] \in Nat /\ up'[i].halves[2] \in Nat
      <3>1. up'[i] \in Msgs
        BY <1>8
      <3> QED
        BY <3>1 DEF Msgs, Halves, Notice
    <2>1. CASE i \in DOMAIN up
      <3>1. up'[i] = up[i]
        BY <1>8, <2>1
      <3>2. up'[i].halves[1] <= epoch /\ up'[i].halves[2] <= epoch
        BY <2>1, <3>1 DEF IInv, NotAhead
      <3> DEFINE a == up'[i].halves[1]
                 b == up'[i].halves[2]
      <3>3. a \in Nat /\ b \in Nat /\ a <= epoch /\ b <= epoch
        BY <2>0, <3>2
      <3> HIDE DEF a, b
      <3>4. a <= e /\ b <= e
        BY <1>0, <1>1, <3>3
      <3> QED
        BY <3>3, <3>4 DEF a, b
    <2>2. CASE i \notin DOMAIN up
      <3>1. New(up'[i])
        BY <1>8, <2>2
      <3> QED
        BY <3>1, <2>0 DEF Fresh
    <2> QED
      BY <2>1, <2>2
  <1>11. NotAhead'
    <2>1. \A x \in (last_counter \cup even \cup odd)' : x.epoch <= e
      BY <1>2, <1>3, <1>6, <1>7 DEF Fresh
    <2>2. \A q \in noticed' : q <= e
      BY <1>1, <1>2, <1>7 DEF Fresh
    <2>3. \A r \in waiting : r[1] \in Nat /\ r[2] \in Nat /\ r[1] <= e /\ r[2] <= e
      BY <1>0, <1>1 DEF IInv, Types, NotAhead, Halves
    <2>4. \A i \in DOMAIN model.win : model.win[i] <= e
      <3>1. model.win \in Seq(Nat)
        BY DEF IInv, Types, Models
      <3>2. \A i \in DOMAIN model.win : model.win[i] \in Nat
        BY <3>1
      <3> QED
        BY <1>0, <1>1, <3>2 DEF IInv, NotAhead
    <2> QED
      BY <1>2, <1>10, <2>1, <2>2, <2>3, <2>4 DEF NotAhead
  <1>12. SeenLast'
    <2>1. \A q \in noticed' : q <= e
      BY <1>1, <1>2, <1>7 DEF Fresh
    <2> QED
      BY <1>1, <1>2, <1>3, <1>10, <2>1 DEF SeenLast
  <1>13. HalvesFresh'
    <2> SUFFICES ASSUME NEW x \in even' \cup odd', NEW q \in noticed'
                 PROVE  q <= x.epoch
      BY DEF HalvesFresh
    <2>1. CASE rst
      BY <1>1, <1>2, <1>3, <1>7, <2>1 DEF Fresh
    <2>2. CASE ~rst
      BY <1>1, <1>2, <1>3, <1>6, <1>7, <2>2 DEF Fresh
    <2> QED
      BY <2>1, <2>2
  <1>14. SyncOfOneClock'
    <2> SUFFICES ASSUME NEW i \in DOMAIN up', up'[i].kind = "sync", NEW q \in noticed'
                 PROVE  LET a == up'[i].halves[1]  b == up'[i].halves[2]
                        IN  ~((a < q /\ q <= b) \/ (b < q /\ q <= a))
      BY DEF SyncOfOneClock
    <2> DEFINE a == up'[i].halves[1]
               b == up'[i].halves[2]
    <2>0. a \in Nat /\ b \in Nat /\ q \in Nat
      BY <1>0, <1>1, <1>2, <1>10
    <2>1. CASE i \in DOMAIN up
      <3>1. up[i].kind = "sync" /\ up'[i] = up[i]
        BY <1>8, <2>1
      <3>2. CASE q \in noticed
        BY <2>1, <3>1, <3>2 DEF IInv, SyncOfOneClock
      <3>3. CASE q \notin noticed
        <4>1. rst /\ q = e
          BY <1>2, <3>3
        <4>2. a < e /\ b < e
          BY <1>5, <2>1, <3>1, <4>1
        <4> HIDE DEF a, b
        <4>3. ~(q <= b) /\ ~(q <= a)
          BY <1>1, <2>0, <4>1, <4>2
        <4> QED
          BY <4>3 DEF a, b
      <3> QED
        BY <3>2, <3>3
    <2>2. CASE i \notin DOMAIN up
      <3>1. New(up'[i])
        BY <1>8, <2>2
      <3>2. ~rst /\ Fresh(a, e) /\ Fresh(b, e)
        BY <3>1
      <3>3. q <= a /\ q <= b
        BY <1>2, <3>2 DEF Fresh
      <3> HIDE DEF a, b
      <3>4. ~(a < q) /\ ~(b < q)
        BY <2>0, <3>3
      <3> QED
        BY <3>4 DEF a, b
    <2> QED
      BY <2>1, <2>2
  <1>15. ResetsOrdered'
    <2>0. told \in noticed \cup {0} /\ told \in Nat
      BY DEF IInv, ResetsOrdered, Types
    <2>1. told' \in noticed' \cup {0}
      BY <1>2, <2>0
    <2>2. ASSUME NEW i \in DOMAIN up', up'[i].kind = "clock_reset"
          PROVE  up'[i].epoch \in noticed' /\ told < up'[i].epoch
      <3>1. CASE i \in DOMAIN up
        BY <1>2, <1>8, <2>2, <3>1 DEF IInv, ResetsOrdered
      <3>2. CASE i \notin DOMAIN up
        <4>1. rst /\ up'[i].epoch = e
          BY <1>8, <2>2, <3>2
        <4> QED
          BY <1>1, <1>2, <1>5, <2>0, <4>1
      <3> QED
        BY <3>1, <3>2
    <2>3. ASSUME NEW i \in DOMAIN up', up'[i].kind = "clock_reset", NEW j \in DOMAIN up', j > i
          PROVE  /\ up'[j].kind = "clock_reset" => up'[i].epoch < up'[j].epoch
                 /\ up'[j].kind = "sync" => /\ up'[i].epoch <= up'[j].halves[1]
                                            /\ up'[i].epoch <= up'[j].halves[2]
      <3>1. i \in DOMAIN up /\ up'[i] = up[i]
        BY <1>8, <2>3
      <3>2. CASE j \in DOMAIN up
        BY <1>8, <2>3, <3>1, <3>2 DEF IInv, ResetsOrdered
      <3>3. CASE j \notin DOMAIN up
        <4>1. New(up'[j])
          BY <1>8, <3>3
        <4>2. up[i].epoch \in noticed
          BY <2>3, <3>1 DEF IInv, ResetsOrdered
        <4> QED
          BY <1>5, <3>1, <4>1, <4>2 DEF Fresh
      <3> QED
        BY <3>2, <3>3
    <2>4. ASSUME NEW i \in DOMAIN up', up'[i].kind = "sync"
          PROVE  told <= up'[i].halves[1] /\ told <= up'[i].halves[2]
      <3>1. CASE i \in DOMAIN up
        BY <1>8, <2>4, <3>1 DEF IInv, ResetsOrdered
      <3>2. CASE i \notin DOMAIN up
        <4>1. New(up'[i])
          BY <1>8, <3>2
        <4> QED
          BY <2>0, <2>4, <4>1 DEF Fresh
      <3> QED
        BY <3>1, <3>2
    <2> QED
      BY <1>2, <2>1, <2>2, <2>3, <2>4 DEF ResetsOrdered
  <1>16. SinceReset'
    BY <1>2 DEF IInv, SinceReset
  <1>17. RunCounts'
    <2>1. CASE e = epoch
      BY <1>2, <2>1 DEF IInv, RunCounts, Usable
    <2>2. CASE e # epoch
      <3>1. ToSet(model.win) # {e}
        <4>1. model.win \in Seq(Nat)
          BY DEF IInv, Types, Models
        <4>2. \A i \in DOMAIN model.win : model.win[i] \in Nat /\ model.win[i] <= epoch
          BY <4>1 DEF IInv, NotAhead
        <4>3. e > epoch
          BY <1>0, <1>1, <2>2
        <4>4. e \notin ToSet(model.win)
          BY <1>0, <1>1, <4>2, <4>3 DEF ToSet
        <4> QED
          BY <4>4
      <3> QED
        BY <1>2, <3>1 DEF IInv, RunCounts, Usable
    <2> QED
      BY <2>1, <2>2
  <1> QED
    BY <1>9, <1>11, <1>12, <1>13, <1>14, <1>15, <1>16, <1>17 DEF IInv

-----------------------------------------------------------------------------
(* The server.                                                             *)

\* Taking the first line of the queue.
LEMMA TakenLine ==
  ASSUME IInv, up # <<>>, up' = Tail(up), UNCHANGED engine,
         told' = told \/ (up[1].kind = "clock_reset" /\ told' = up[1].epoch)
  PROVE  /\ up' \in Seq(Msgs)
         /\ \A i \in DOMAIN up' : up'[i].kind = "sync" =>
              up'[i].halves[1] <= epoch /\ up'[i].halves[2] <= epoch
         /\ SeenLast' /\ HalvesFresh' /\ SyncOfOneClock' /\ ResetsOrdered'
  <1> DEFINE L == Len(up)
  <1>0. /\ L \in Nat \ {0} /\ DOMAIN up = 1..L /\ up' \in Seq(Msgs) /\ DOMAIN up' = 1..(L - 1)
        /\ \A i \in 1..(L - 1) : up'[i] = up[i + 1]
    BY TailOf DEF IInv, Types
  <1> HIDE DEF L
  <1>1. \A i \in DOMAIN up' : i + 1 \in DOMAIN up /\ up'[i] = up[i + 1] /\ i + 1 > 1
    BY <1>0
  <1>2. \A i, j \in DOMAIN up' : j > i => j + 1 > i + 1
    BY <1>0
  <1>3. UNCHANGED <<ctr, epoch, last_counter, even, odd, noticed>>
    BY DEF engine
  <1>4. SeenLast'
    BY <1>1, <1>3 DEF IInv, SeenLast
  <1>5. HalvesFresh'
    BY <1>3 DEF IInv, HalvesFresh
  <1>6. SyncOfOneClock'
    BY <1>1, <1>3 DEF IInv, SyncOfOneClock
  <1>7. \A i \in DOMAIN up' : up'[i].kind = "sync" =>
          up'[i].halves[1] <= epoch /\ up'[i].halves[2] <= epoch
    BY <1>1 DEF IInv, NotAhead
  <1>8. ResetsOrdered'
    <2>0. 1 \in DOMAIN up
      BY <1>0
    <2>1. told' \in noticed' \cup {0}
      BY <1>3, <2>0 DEF IInv, ResetsOrdered
    <2>2. \A i \in DOMAIN up' : up'[i].kind = "clock_reset" => up'[i].epoch \in noticed' /\ told' < up'[i].epoch
      BY <1>1, <1>3, <2>0 DEF IInv, ResetsOrdered
    <2>3. \A i \in DOMAIN up' : up'[i].kind = "clock_reset" =>
            \A j \in DOMAIN up' : j > i =>
              /\ up'[j].kind = "clock_reset" => up'[i].epoch < up'[j].epoch
              /\ up'[j].kind = "sync" => /\ up'[i].epoch <= up'[j].halves[1]
                                         /\ up'[i].epoch <= up'[j].halves[2]
      BY <1>1, <1>2 DEF IInv, ResetsOrdered
    <2>4. \A i \in DOMAIN up' : up'[i].kind = "sync" =>
            told' <= up'[i].halves[1] /\ told' <= up'[i].halves[2]
      BY <1>1, <2>0 DEF IInv, ResetsOrdered
    <2> QED
      BY <2>1, <2>2, <2>3, <2>4 DEF ResetsOrdered
  <1> QED
    BY <1>0, <1>4, <1>5, <1>6, <1>7, <1>8

\* Training with readings, one of them perhaps wild.
LEMMA TrainAnyModel ==
  ASSUME IInv, NEW h \in Halves, TrainAny(h), epoch' = epoch,
         h[1] <= epoch, h[2] <= epoch, ~leftover => told <= h[1] /\ told <= h[2]
  PROVE  /\ model' \in Models /\ run' \in Nat
         /\ RunCounts'
         /\ \A i \in DOMAIN model'.win : model'.win[i] <= epoch
         /\ ~leftover => \A i \in DOMAIN model'.win : model'.win[i] = Wild \/ told <= model'.win[i]
         /\ ToSet(model.win) = {epoch} /\ Len(model'.win) < Len(model.win) => run + 2 >= ResetAfter
  <1>1. PICK k \in Halves : /\ Train(k)
                            /\ k[1] = h[1] \/ k[1] = Wild
                            /\ k[2] = h[2] \/ k[2] = Wild
    <2>1. CASE Train(h)
      BY <2>1
    <2>2. CASE \E i \in {1, 2} : Train([h EXCEPT ![i] = Wild])
      <3>1. PICK i \in {1, 2} : Train([h EXCEPT ![i] = Wild])
        BY <2>2
      <3> DEFINE k == [h EXCEPT ![i] = Wild]
      <3>2. /\ k \in Halves
            /\ k[1] = h[1] \/ k[1] = Wild
            /\ k[2] = h[2] \/ k[2] = Wild
        BY DEF Halves, Wild
      <3> QED
        BY <3>1, <3>2
    <2> QED
      BY <2>1, <2>2 DEF TrainAny
  <1>2. Types /\ RunCounts
    BY DEF IInv
  <1>3. /\ model' \in Models /\ run' \in Nat
        /\ RunCounts'
        /\ \A i \in DOMAIN model'.win :
             \/ model'.win[i] = k[1] \/ model'.win[i] = k[2]
             \/ \E j \in DOMAIN model.win : model'.win[i] = model.win[j]
        /\ ToSet(model.win) = {epoch} /\ Len(model'.win) < Len(model.win) => run + 2 >= ResetAfter
    BY <1>1, <1>2, TrainModel
  <1>4. epoch \in Nat
    BY <1>2 DEF Types
  <1>5. Wild <= epoch
    BY <1>4 DEF Wild
  <1>6. \A i \in DOMAIN model'.win : model'.win[i] <= epoch
    BY <1>1, <1>3, <1>5 DEF IInv, NotAhead
  <1>7. ~leftover => \A i \in DOMAIN model'.win : model'.win[i] = Wild \/ told <= model'.win[i]
    BY <1>1, <1>3 DEF IInv, SinceReset
  <1> QED
    BY <1>3, <1>6, <1>7

\* A step that trains the model keeps the invariant and drops a model of the
\* present clock only for a run of rejections.
LEMMA TrainingStep ==
  ASSUME IInv, SyncSecond \/ NeighbourReports
  PROVE  IInv' /\ (ToSet(model.win) = {epoch} /\ Len(model'.win) < Len(model.win) => run + 2 >= ResetAfter)
  <1>1. CASE SyncSecond
    <2> DEFINE h == up[1].halves
    <2>1. /\ up # <<>> /\ up[1].kind = "sync" /\ up' = Tail(up) /\ TrainAny(h)
          /\ UNCHANGED engine /\ UNCHANGED <<ctr, epoch, last_counter, even, odd, noticed, waiting, told, leftover>>
      BY <1>1 DEF SyncSecond, engine
    <2>2. 1 \in DOMAIN up /\ up[1] \in Msgs
      BY <2>1, TailOf DEF IInv, Types
    <2>3. h \in Halves
      BY <2>1, <2>2 DEF Msgs, Notice
    <2>4. h[1] <= epoch /\ h[2] <= epoch /\ told <= h[1] /\ told <= h[2]
      BY <2>1, <2>2 DEF IInv, NotAhead, ResetsOrdered
    <2>5. /\ up' \in Seq(Msgs)
          /\ \A i \in DOMAIN up' : up'[i].kind = "sync" =>
               up'[i].halves[1] <= epoch /\ up'[i].halves[2] <= epoch
          /\ SeenLast' /\ HalvesFresh' /\ SyncOfOneClock' /\ ResetsOrdered'
      BY <2>1, TakenLine
    <2>6. /\ model' \in Models /\ run' \in Nat
          /\ RunCounts'
          /\ \A i \in DOMAIN model'.win : model'.win[i] <= epoch
          /\ ~leftover => \A i \in DOMAIN model'.win : model'.win[i] = Wild \/ told <= model'.win[i]
          /\ ToSet(model.win) = {epoch} /\ Len(model'.win) < Len(model.win) => run + 2 >= ResetAfter
      BY <2>1, <2>3, <2>4, TrainAnyModel
    <2>7. Types'
      BY <2>1, <2>5, <2>6 DEF IInv, Types, Single, Readings
    <2>8. NotAhead'
      BY <2>1, <2>5, <2>6 DEF IInv, NotAhead
    <2>9. SinceReset'
      BY <2>1, <2>6 DEF IInv, SinceReset
    <2> QED
      BY <2>5, <2>6, <2>7, <2>8, <2>9 DEF IInv
  <1>2. CASE NeighbourReports
    <2>1. PICK h \in waiting : TrainAny(h) /\ waiting' = waiting \ {h}
      BY <1>2 DEF NeighbourReports
    <2>2. UNCHANGED <<ctr, epoch, last_counter, even, odd, noticed, up, told, leftover>>
      BY <1>2 DEF NeighbourReports, engine
    <2>3. h \in Halves /\ h[1] <= epoch /\ h[2] <= epoch /\ (~leftover => told <= h[1] /\ told <= h[2])
      BY DEF IInv, Types, NotAhead, SinceReset
    <2>4. /\ model' \in Models /\ run' \in Nat
          /\ RunCounts'
          /\ \A i \in DOMAIN model'.win : model'.win[i] <= epoch
          /\ ~leftover => \A i \in DOMAIN model'.win : model'.win[i] = Wild \/ told <= model'.win[i]
          /\ ToSet(model.win) = {epoch} /\ Len(model'.win) < Len(model.win) => run + 2 >= ResetAfter
      BY <2>1, <2>2, <2>3, TrainAnyModel
    <2>5. Types'
      BY <2>1, <2>2, <2>4 DEF IInv, Types, Single, Readings
    <2>6. NotAhead'
      BY <2>1, <2>2, <2>4 DEF IInv, NotAhead
    <2>7. SinceReset'
      BY <2>1, <2>2, <2>4 DEF IInv, SinceReset
    <2>8. SeenLast' /\ HalvesFresh' /\ SyncOfOneClock' /\ ResetsOrdered'
      BY <2>2 DEF IInv, SeenLast, HalvesFresh, SyncOfOneClock, ResetsOrdered
    <2> QED
      BY <2>4, <2>5, <2>6, <2>7, <2>8 DEF IInv
  <1> QED
    BY <1>1, <1>2

\* Every other step keeps the invariant, too, and leaves the model alone
\* unless the server takes a clock_reset, which moves told.
LEMMA OtherStep ==
  ASSUME IInv, Next, ~SyncSecond, ~NeighbourReports
  PROVE  IInv' /\ (model' = model \/ told' # told)
  <1>1. CASE AnyReception
    BY <1>1, ReceptionStep DEF AnyReception, Reception, server
  <1>2. CASE Restart
    <2>1. /\ epoch' = epoch + 1 /\ ctr' = 0
          /\ UNCHANGED <<last_counter, even, odd, noticed, up, waiting, model, run, told, leftover>>
      BY <1>2 DEF Restart, server
    <2>2. epoch \in Nat \ {0} /\ Mod \in Nat \ {0}
      BY ClockAssumption DEF IInv, Types
    <2>3. Types'
      BY <2>1, <2>2 DEF IInv, Types, Single, Readings
    <2>4. NotAhead' /\ ToSet(model.win) # {epoch + 1} /\ \A l \in last_counter : l.epoch # epoch + 1
      <3>1. \A x \in last_counter \cup even \cup odd : x.epoch \in Nat
        BY DEF IInv, Types, Readings
      <3>2. \A q \in noticed : q \in Nat
        BY DEF IInv, Types
      <3>3. \A i \in DOMAIN up : up[i].kind = "sync" => up[i].halves[1] \in Nat /\ up[i].halves[2] \in Nat
        <4>1. \A i \in DOMAIN up : up[i] \in Msgs
          BY DEF IInv, Types
        <4> QED
          BY <4>1 DEF Msgs, Halves, Notice
      <3>4. \A r \in waiting : r[1] \in Nat /\ r[2] \in Nat
        BY DEF IInv, Types, Halves
      <3>5. \A i \in DOMAIN model.win : model.win[i] \in Nat
        BY DEF IInv, Types, Models
      <3>6. \A k \in Nat : k <= epoch => k <= epoch + 1 /\ k # epoch + 1
        BY <2>2
      <3>7. NotAhead'
        BY <2>1, <3>1, <3>2, <3>3, <3>4, <3>5, <3>6 DEF IInv, NotAhead
      <3>8. epoch + 1 \notin ToSet(model.win)
        BY <3>5, <3>6 DEF ToSet, IInv, NotAhead
      <3>9. \A l \in last_counter : l.epoch # epoch + 1
        BY <3>1, <3>6 DEF IInv, NotAhead
      <3> QED
        BY <3>7, <3>8, <3>9
    <2>5. SeenLast'
      BY <2>1, <2>4 DEF IInv, SeenLast
    <2>6. RunCounts'
      BY <2>1, <2>4 DEF IInv, RunCounts, Usable
    <2> QED
      BY <2>1, <2>3, <2>4, <2>5, <2>6
      DEF IInv, HalvesFresh, SyncOfOneClock, ResetsOrdered, SinceReset
  <1>3. CASE InputChanged
    <2>1. /\ last_counter' = {} /\ even' = {} /\ odd' = {} /\ up' = TrySend(<<Notice>>)
          /\ UNCHANGED <<ctr, epoch, noticed, waiting, model, run, told, leftover>>
      BY <1>3 DEF InputChanged, HalfDropped, server
    <2>2. up \in Seq(Msgs) /\ Notice \in Msgs /\ Notice.kind = "input"
      BY DEF IInv, Types, Msgs, Notice
    <2>3. up' = up \/ up' = Append(up, Notice)
      BY <2>1, <2>2, ConcatOne DEF TrySend
    <2>4. /\ up' \in Seq(Msgs)
          /\ \A i \in DOMAIN up' : up'[i].kind # "input" => i \in DOMAIN up /\ up'[i] = up[i]
      <3>1. CASE up' = up
        BY <2>2, <3>1
      <3>2. CASE up' = Append(up, Notice)
        <4> DEFINE m == Notice
        <4>1. m \in Msgs /\ m.kind = "input" /\ up' = Append(up, m)
          BY <2>2, <3>2
        <4> HIDE DEF m
        <4> QED
          BY <2>2, <4>1, AppendTo
      <3> QED
        BY <2>3, <3>1, <3>2
    <2>5. Types'
      BY <2>1, <2>4 DEF IInv, Types, Single, Readings
    <2>6. NotAhead' /\ SeenLast' /\ HalvesFresh'
      BY <2>1, <2>4 DEF IInv, NotAhead, SeenLast, HalvesFresh
    <2>7. SyncOfOneClock' /\ ResetsOrdered'
      BY <2>1, <2>4 DEF IInv, SyncOfOneClock, ResetsOrdered
    <2> QED
      BY <2>1, <2>5, <2>6, <2>7 DEF IInv, SinceReset, RunCounts, Usable
  <1>4. CASE Expire
    BY <1>4 DEF Expire, server, IInv, Types, Single, Readings, NotAhead, SeenLast, HalvesFresh,
                SyncOfOneClock, ResetsOrdered, SinceReset, RunCounts, Usable
  <1>5. CASE SyncFirst
    <2>1. /\ up # <<>> /\ up[1].kind = "sync" /\ up' = Tail(up) /\ waiting' = {up[1].halves}
          /\ UNCHANGED engine
          /\ UNCHANGED <<ctr, epoch, last_counter, even, odd, noticed, model, run, told, leftover>>
      BY <1>5 DEF SyncFirst, engine
    <2>2. 1 \in DOMAIN up /\ up[1] \in Msgs
      BY <2>1, TailOf DEF IInv, Types
    <2>3. up[1].halves \in Halves
      BY <2>1, <2>2 DEF Msgs, Notice
    <2>4. /\ up[1].halves[1] <= epoch /\ up[1].halves[2] <= epoch
          /\ told <= up[1].halves[1] /\ told <= up[1].halves[2]
      BY <2>1, <2>2 DEF IInv, NotAhead, ResetsOrdered
    <2>5. /\ up' \in Seq(Msgs)
          /\ \A i \in DOMAIN up' : up'[i].kind = "sync" =>
               up'[i].halves[1] <= epoch /\ up'[i].halves[2] <= epoch
          /\ SeenLast' /\ HalvesFresh' /\ SyncOfOneClock' /\ ResetsOrdered'
      BY <2>1, TakenLine
    <2>6. Types'
      BY <2>1, <2>3, <2>5 DEF IInv, Types, Single, Readings
    <2>7. NotAhead' /\ SinceReset'
      BY <2>1, <2>4, <2>5 DEF IInv, NotAhead, SinceReset
    <2> QED
      BY <2>1, <2>5, <2>6, <2>7 DEF IInv, RunCounts, Usable
  <1>6. CASE TakeReset
    <2>1. /\ up # <<>> /\ up[1].kind = "clock_reset" /\ up' = Tail(up) /\ model' = Default
          /\ told' = up[1].epoch /\ leftover' = (waiting # {})
          /\ UNCHANGED engine
          /\ UNCHANGED <<ctr, epoch, last_counter, even, odd, noticed, waiting, run>>
      BY <1>6 DEF TakeReset, engine, ModelDropped
    <2>2. 1 \in DOMAIN up /\ up[1] \in Msgs
      BY <2>1, TailOf DEF IInv, Types
    <2>3. told' \in Nat
      BY <2>1, <2>2 DEF Msgs, Notice
    <2>4. told' # told
      <3>1. told < told' /\ told \in Nat
        BY <2>1, <2>2 DEF IInv, ResetsOrdered, Types
      <3> QED
        BY <3>1, <2>3
    <2>5. /\ up' \in Seq(Msgs)
          /\ \A i \in DOMAIN up' : up'[i].kind = "sync" =>
               up'[i].halves[1] <= epoch /\ up'[i].halves[2] <= epoch
          /\ SeenLast' /\ HalvesFresh' /\ SyncOfOneClock' /\ ResetsOrdered'
      BY <2>1, TakenLine
    <2>6. model' \in Models /\ model'.win = <<>> /\ model'.rejects = 0
      BY <2>1 DEF Default, Models
    <2>7. Types'
      BY <2>1, <2>3, <2>5, <2>6 DEF IInv, Types, Single, Readings
    <2>8. NotAhead'
      BY <2>1, <2>5, <2>6 DEF IInv, NotAhead
    <2>9. SinceReset'
      <3>1. ~leftover' => waiting' = {}
        BY <2>1
      <3>2. DOMAIN model'.win = {}
        BY <2>6
      <3> QED
        BY <3>1, <3>2 DEF SinceReset
    <2>10. RunCounts'
      BY <2>6 DEF RunCounts, ToSet
    <2> QED
      BY <2>4, <2>5, <2>7, <2>8, <2>9, <2>10 DEF IInv
  <1>7. CASE TakeNotice
    <2>1. /\ up # <<>> /\ up' = Tail(up) /\ UNCHANGED engine
          /\ UNCHANGED <<ctr, epoch, last_counter, even, odd, noticed, waiting, model, run, told, leftover>>
      BY <1>7 DEF TakeNotice, engine, server
    <2>2. /\ up' \in Seq(Msgs)
          /\ \A i \in DOMAIN up' : up'[i].kind = "sync" =>
               up'[i].halves[1] <= epoch /\ up'[i].halves[2] <= epoch
          /\ SeenLast' /\ HalvesFresh' /\ SyncOfOneClock' /\ ResetsOrdered'
      BY <2>1, TakenLine
    <2> QED
      BY <2>1, <2>2 DEF IInv, Types, Single, Readings, NotAhead, SinceReset, RunCounts, Usable
  <1>8. CASE Sweep
    BY <1>8 DEF Sweep, engine, IInv, Types, Single, Readings, NotAhead, SeenLast, HalvesFresh,
                SyncOfOneClock, ResetsOrdered, SinceReset, RunCounts, Usable
  <1> QED
    BY <1>1, <1>2, <1>3, <1>4, <1>5, <1>6, <1>7, <1>8 DEF Next, TakeLine

-----------------------------------------------------------------------------
\* The inductive invariant of the clock's way to the server.
THEOREM Inductive == Spec => []IInv
  <1>1. Init => IInv
    <2> SUFFICES ASSUME Init PROVE IInv
      OBVIOUS
    <2>1. Types
      <3>1. 0 \in 0..(Mod - 1) /\ 1 \in Nat \ {0}
        BY ClockAssumption
      <3>2. model \in Models
        BY DEF Init, Default, Models
      <3>3. up \in Seq(Msgs)
        BY DEF Init
      <3> QED
        BY <3>1, <3>2, <3>3 DEF Init, Types, Single
    <2>2. model.win = <<>> /\ model.rejects = 0 /\ up = <<>>
      BY DEF Init, Default
    <2>3. RunCounts
      BY <2>2 DEF RunCounts, ToSet
    <2> QED
      BY <2>1, <2>2, <2>3 DEF Init, IInv, NotAhead, SeenLast, HalvesFresh, SyncOfOneClock,
         ResetsOrdered, SinceReset
  <1>2. IInv /\ [Next]_vars => IInv'
    <2> SUFFICES ASSUME IInv, [Next]_vars PROVE IInv'
      OBVIOUS
    <2>1. CASE Next
      BY <2>1, TrainingStep, OtherStep
    <2>2. CASE UNCHANGED vars
      BY <2>2 DEF vars, engine, server, IInv, Types, Single, Readings, NotAhead, SeenLast,
         HalvesFresh, SyncOfOneClock, ResetsOrdered, SinceReset, RunCounts, Usable
    <2> QED
      BY <2>1, <2>2
  <1> QED
    BY <1>1, <1>2, PTL DEF Spec

\* The engine never pairs halves from both sides of a restart that
\* on_reception noticed, for any counter width and thresholds.
THEOREM OneClock == Spec => []SyncOfOneClock
  <1>1. IInv => SyncOfOneClock
    BY DEF IInv
  <1> QED
    BY <1>1, Inductive, PTL

\* After clock_reset of the present epoch the pair model holds no reading of
\* an earlier one, unless one was waiting in a sync point.
THEOREM CleanReset == Spec => []ResetIsClean
  <1>1. IInv => ResetIsClean
    <2> SUFFICES ASSUME IInv, told = epoch, ~leftover, NEW i \in DOMAIN model.win
                 PROVE  model.win[i] \in {epoch, Wild}
      BY DEF ResetIsClean, ToSet
    <2>1. model.win[i] \in Nat /\ epoch \in Nat
      BY DEF IInv, Types, Models
    <2>2. model.win[i] = Wild \/ epoch <= model.win[i]
      BY DEF IInv, SinceReset
    <2>3. model.win[i] <= epoch
      BY DEF IInv, NotAhead
    <2> DEFINE w == model.win[i]
    <2> HIDE DEF w
    <2>4. w = Wild \/ w = epoch
      BY <2>1, <2>2, <2>3 DEF w
    <2> QED
      BY <2>4 DEF w
  <1> QED
    BY <1>1, Inductive, PTL

\* PairModel::push drops a usable model of the present clock only for a run
\* of RESET_AFTER_REJECTS rejections, or when a clock_reset is taken.
THEOREM Tolerated == Spec => SpikesTolerated
  <1> DEFINE A == Usable(model) /\ ToSet(model.win) = {epoch} /\ told' = told
                    /\ Len(model'.win) < Len(model.win) => run + 2 >= ResetAfter
  <1>1. IInv /\ [Next]_vars => [A]_vars
    <2> SUFFICES ASSUME IInv, [Next]_vars PROVE A \/ UNCHANGED vars
      OBVIOUS
    <2>0. ~(Len(model.win) < Len(model.win))
      <3> DEFINE w == Len(model.win)
      <3>1. w \in Nat
        BY DEF IInv, Types, Models
      <3> HIDE DEF w
      <3>2. ~(w < w)
        BY <3>1
      <3> QED
        BY <3>2 DEF w
    <2>1. CASE SyncSecond \/ NeighbourReports
      BY <2>1, TrainingStep
    <2>2. CASE Next /\ ~(SyncSecond \/ NeighbourReports)
      BY <2>0, <2>2, OtherStep
    <2> QED
      BY <2>1, <2>2
  <1> QED
    BY <1>1, Inductive, PTL DEF Spec, SpikesTolerated
=============================================================================

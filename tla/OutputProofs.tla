---------------------------- MODULE OutputProofs ----------------------------
(***************************************************************************)
(* Proofs about Output for every number of shards, every queue and ring    *)
(* length, every memory of the twin filter and any readers.                *)
(*                                                                         *)
(* None of the three properties is inductive: TwinsApart needs to know     *)
(* what the filter remembers (FilterMemory), StreamsHaveNoGap where each   *)
(* reader stands (ReaderPlaces), and ClaimedGroundOnce that a shard's      *)
(* solve is at one place of the pipeline at most (SolvesOnce) and passed   *)
(* the gate of its own shard (OwnGround).                                  *)
(***************************************************************************)
EXTENDS Output, TLAPS, SequenceTheorems

Fix == [shard: Shards, icao: Aircraft, time: Times, stamp: Nat, pos: Positions,
        home: Shards \cup {None}]

Types ==
  /\ solved \subseteq Shards \X Aircraft \X Times
  /\ out \in Seq(Fix) /\ published \in Seq(Fix)
  /\ order \in Seq(Aircraft \X Int)
  /\ reader \in [Readers -> [state: {"new", "on", "off"}, from: Nat, next: Nat, got: Seq(Fix)]]

\* The filter remembers the keys of the fixes published last, RecentCap of
\* them once there are so many.
FilterMemory ==
  /\ Len(order) <= RecentCap /\ Len(order) <= Len(published)
  /\ Len(order) < RecentCap => Len(order) = Len(published)
  /\ \A k \in 1..Len(order) : order[k] = Key(published[Len(published) - Len(order) + k])

\* A reader has got the fixes since it subscribed, up to its next one.
ReaderPlaces ==
  \A r \in Readers :
    /\ reader[r].next = reader[r].from + Len(reader[r].got) + 1
    /\ reader[r].next <= Len(published) + 1
    /\ \A k \in 1..Len(reader[r].got) : reader[r].got[k] = published[reader[r].from + k]

\* The solve a fix came from.
Solve(f) == <<f.shard, f.icao, f.time>>

\* A solve is in the queue or published at most once.
SolvesOnce ==
  /\ \A i \in 1..Len(out) : Solve(out[i]) \in solved
  /\ \A i \in 1..Len(published) : Solve(published[i]) \in solved
  /\ \A i, j \in 1..Len(out) : Solve(out[i]) = Solve(out[j]) => i = j
  /\ \A i, j \in 1..Len(published) : Solve(published[i]) = Solve(published[j]) => i = j
  /\ \A i \in 1..Len(out), j \in 1..Len(published) : Solve(out[i]) # Solve(published[j])

\* A fix published for owned ground is its owner's.
OwnGround == \A i \in 1..Len(published) : published[i].home \in {None, published[i].shard}

IInv == Types /\ FilterMemory /\ TwinsApart /\ ReaderPlaces /\ SolvesOnce /\ OwnGround

-----------------------------------------------------------------------------
\* What is left of a queue without its head.
LEMMA TailOf ==
  ASSUME NEW S, NEW q \in Seq(S), q # <<>>
  PROVE  /\ Len(q) \in Nat \ {0} /\ Head(q) = q[1] /\ q[1] \in S
         /\ Tail(q) \in Seq(S) /\ Len(Tail(q)) = Len(q) - 1
         /\ \A i \in 1..(Len(q) - 1) : Tail(q)[i] = q[i + 1]
  BY HeadTailProperties, LenProperties, EmptySeq, ElementOfSeq

\* What one more element makes of a sequence.
LEMMA AppendTo ==
  ASSUME NEW S, NEW q \in Seq(S), NEW m \in S
  PROVE  /\ Len(q) \in Nat /\ Append(q, m) \in Seq(S) /\ Len(Append(q, m)) = Len(q) + 1
         /\ Append(q, m)[Len(q) + 1] = m
         /\ \A i \in 1..Len(q) : Append(q, m)[i] = q[i]
  BY AppendProperties, LenProperties

\* Publishing a fix notes the owner of its ground and keeps the rest.
LEMMA PublishedFix ==
  ASSUME NEW f \in Fix, InTerritory(f)
  PROVE  /\ Published(f) \in Fix /\ Key(Published(f)) = Key(f)
         /\ Solve(Published(f)) = Solve(f)
         /\ Published(f).shard = f.shard /\ Published(f).home = OwnerAt(f.pos)
  <1> DEFINE h == OwnerAt(f.pos)
  <1>1. h \in Shards \cup {None}
    BY DEF Fix, InTerritory
  <1> HIDE DEF h
  <1>2. Published(f) = [f EXCEPT !.home = h]
    BY DEF Published, h
  <1> QED
    BY <1>1, <1>2 DEF Fix, Key, Solve, h

LEMMA KeyType ==
  ASSUME NEW f \in Fix
  PROVE  Key(f) \in Aircraft \X Int
  <1>1. f.icao \in Aircraft /\ f.stamp \in Nat /\ BucketLen \in Nat \ {0}
    BY OutputAssumption DEF Fix
  <1>2. f.stamp \div BucketLen \in Int
    BY <1>1
  <1> QED
    BY <1>1, <1>2 DEF Key

-----------------------------------------------------------------------------
\* A shard's solve joins the queue or is dropped.
LEMMA EmitStep ==
  ASSUME IInv, NEW s \in Shards, NEW a \in Aircraft, NEW t \in Times, NEW skew \in 0..MaxSkew,
         NEW p \in Positions, Emit(s, a, t, skew, p)
  PROVE  Types' /\ SolvesOnce'
  <1> DEFINE f == [shard |-> s, icao |-> a, time |-> t, stamp |-> t + skew, pos |-> p, home |-> None]
             n == Len(out)
  <1>1. f \in Fix /\ Solve(f) = <<s, a, t>>
    BY OutputAssumption DEF Fix, Solve
  <1>2. /\ Solve(f) \notin solved /\ solved' = solved \cup {Solve(f)}
        /\ out' = IF n < OutCap THEN Append(out, f) ELSE out
        /\ UNCHANGED <<order, published, reader>>
    BY <1>1 DEF Emit
  <1>3. solved' \subseteq Shards \X Aircraft \X Times
    BY <1>1, <1>2 DEF IInv, Types
  <1> HIDE DEF f
  <1>4. CASE n < OutCap
    <2>1. /\ n \in Nat /\ out' \in Seq(Fix) /\ Len(out') = n + 1
          /\ out'[n + 1] = f /\ \A i \in 1..n : out'[i] = out[i]
      BY <1>1, <1>2, <1>4, AppendTo DEF IInv, Types
    <2> HIDE DEF n
    <2>2. Types'
      BY <1>2, <1>3, <2>1 DEF IInv, Types
    <2>3. SolvesOnce'
      <3>1. \A i \in 1..(n + 1) : i \in 1..n \/ i = n + 1
        BY <2>1
      <3>2. /\ \A i \in 1..n : Solve(out[i]) \in solved /\ Solve(out[i]) # Solve(f)
            /\ \A j \in 1..Len(published) : Solve(published[j]) \in solved /\ Solve(published[j]) # Solve(f)
        BY <1>2 DEF IInv, SolvesOnce, n
      <3>3. \A i \in 1..(n + 1) : Solve(out'[i]) \in solved'
        BY <1>2, <2>1, <3>1, <3>2 DEF Solve
      <3>4. \A i, j \in 1..(n + 1) : Solve(out'[i]) = Solve(out'[j]) => i = j
        <4>1. \A i, j \in 1..n : Solve(out[i]) = Solve(out[j]) => i = j
          BY DEF IInv, SolvesOnce, n
        <4>2. \A i \in 1..n : Solve(out'[i]) = Solve(out[i])
          BY <2>1
        <4>3. Solve(out'[n + 1]) = Solve(f)
          BY <2>1
        <4> QED
          BY <3>1, <3>2, <4>1, <4>2, <4>3
      <3>5. \A i \in 1..(n + 1), j \in 1..Len(published) : Solve(out'[i]) # Solve(published[j])
        <4>1. \A i \in 1..n, j \in 1..Len(published) : Solve(out[i]) # Solve(published[j])
          BY DEF IInv, SolvesOnce, n
        <4> QED
          BY <2>1, <3>1, <3>2, <4>1
      <3>6. /\ \A i \in 1..Len(published) : Solve(published[i]) \in solved
            /\ \A i, j \in 1..Len(published) : Solve(published[i]) = Solve(published[j]) => i = j
        BY DEF IInv, SolvesOnce
      <3> QED
        BY <1>2, <2>1, <3>3, <3>4, <3>5, <3>6 DEF SolvesOnce, Solve
    <2> QED
      BY <2>2, <2>3
  <1>5. CASE ~(n < OutCap)
    BY <1>2, <1>3, <1>5 DEF IInv, Types, SolvesOnce
  <1> QED
    BY <1>4, <1>5

\* A fix taken and not published leaves the queue.
LEMMA DropStep ==
  ASSUME IInv, out # <<>>, out' = Tail(out), UNCHANGED <<solved, order, published, reader>>
  PROVE  Types' /\ SolvesOnce'
  <1> DEFINE n == Len(out)
  <1>1. /\ n \in Nat \ {0} /\ out' \in Seq(Fix) /\ Len(out') = n - 1
        /\ \A i \in 1..(n - 1) : out'[i] = out[i + 1]
    BY TailOf DEF IInv, Types
  <1>2. Types'
    BY <1>1 DEF IInv, Types
  <1> HIDE DEF n
  <1>3. \A i \in 1..(n - 1) : i + 1 \in 1..n
    BY <1>1
  <1>4. \A i, j \in 1..(n - 1) : i + 1 = j + 1 => i = j
    BY <1>1
  <1>5. SolvesOnce'
    BY <1>1, <1>3, <1>4 DEF IInv, SolvesOnce, n
  <1> QED
    BY <1>2, <1>5

\* A fix that passes the gate and the filter is published.
LEMMA PublishStep ==
  ASSUME IInv, out # <<>>, out' = Tail(out), InTerritory(Head(out)),
         Key(Head(out)) \notin Range(order),
         order' = Remembered(Append(order, Key(Head(out)))),
         published' = Append(published, Published(Head(out))),
         UNCHANGED <<solved, reader>>
  PROVE  /\ Types' /\ FilterMemory' /\ TwinsApart' /\ ReaderPlaces' /\ SolvesOnce' /\ OwnGround'
  <1> DEFINE f == Head(out)
             g == Published(f)
             o == Append(order, Key(f))
             n == Len(out)
             m == Len(published)
             k == Len(order)
  <1>1. /\ n \in Nat \ {0} /\ f \in Fix /\ f = out[1] /\ out' \in Seq(Fix) /\ Len(out') = n - 1
        /\ \A i \in 1..(n - 1) : out'[i] = out[i + 1]
    BY TailOf DEF IInv, Types
  <1>2. /\ g \in Fix /\ Key(g) = Key(f) /\ Solve(g) = Solve(f) /\ Key(f) \in Aircraft \X Int
        /\ g.home = OwnerAt(f.pos) /\ g.shard = f.shard
    BY <1>1, PublishedFix, KeyType DEF IInv
  <1>3. g.home \in {None, g.shard}
    BY <1>2 DEF InTerritory
  <1> HIDE DEF f, g
  <1>4. /\ m \in Nat /\ published' \in Seq(Fix) /\ Len(published') = m + 1
        /\ published'[m + 1] = g /\ \A i \in 1..m : published'[i] = published[i]
    BY <1>2, AppendTo DEF IInv, Types, f, g
  <1>5. /\ k \in Nat /\ o \in Seq(Aircraft \X Int) /\ Len(o) = k + 1
        /\ o[k + 1] = Key(f) /\ \A i \in 1..k : o[i] = order[i]
    BY <1>2, AppendTo DEF IInv, Types
  <1>6. \A i \in 1..k : order[i] # Key(f)
    <2>1. DOMAIN order = 1..k
      BY LenProperties DEF IInv, Types
    <2> QED
      BY <2>1 DEF Range, f
  <1>7. RecentCap \in Nat \ {0} /\ k <= RecentCap /\ k <= m /\ (k < RecentCap => k = m)
    BY OutputAssumption DEF IInv, FilterMemory
  <1>8. order' = IF Len(o) > RecentCap THEN Tail(o) ELSE o
    BY DEF Remembered, f
  <1>9. \A i \in 1..k : order[i] = Key(published[m - k + i])
    BY DEF IInv, FilterMemory
  <1> HIDE DEF n, m, k, o
  <1>10. \A i \in 1..(m + 1) : i \in 1..m \/ i = m + 1
    BY <1>4
  <1>11. order' \in Seq(Aircraft \X Int) /\ FilterMemory'
    <2>1. CASE k + 1 > RecentCap
      <3>1. k = RecentCap
        BY <1>5, <1>7, <2>1
      <3>2. o # <<>> /\ order' = Tail(o)
        BY <1>5, <1>8, <2>1
      <3>3. /\ order' \in Seq(Aircraft \X Int) /\ Len(order') = k
            /\ \A i \in 1..k : order'[i] = o[i + 1]
        <4>1. Tail(o) \in Seq(Aircraft \X Int) /\ Len(Tail(o)) = Len(o) - 1
              /\ \A i \in 1..(Len(o) - 1) : Tail(o)[i] = o[i + 1]
          BY <1>5, <3>2, TailOf
        <4>2. Len(o) - 1 = k
          BY <1>5
        <4> QED
          BY <3>2, <4>1, <4>2
      <3>4. \A i \in 1..k : order'[i] = Key(published'[(m + 1) - k + i])
        <4> SUFFICES ASSUME NEW i \in 1..k PROVE order'[i] = Key(published'[(m + 1) - k + i])
          OBVIOUS
        <4>1. CASE i = k
          <5>1. (m + 1) - k + i = m + 1 /\ i + 1 = k + 1
            BY <4>1, <1>4, <1>5
          <5> QED
            BY <3>3, <5>1, <1>2, <1>4, <1>5
        <4>2. CASE i # k
          <5>0. k \in Nat /\ m \in Nat /\ k <= m
            BY <1>4, <1>5, <1>7
          <5> DEFINE u == m - k + (i + 1)
          <5>1. i + 1 \in 1..k /\ (m + 1) - k + i = u /\ u \in 1..m
            BY <4>2, <5>0
          <5>2. order'[i] = order[i + 1] /\ order[i + 1] = Key(published[u])
            BY <3>3, <5>1, <1>5, <1>9
          <5> HIDE DEF u
          <5>3. published'[u] = published[u]
            BY <5>1, <1>4
          <5> QED
            BY <5>1, <5>2, <5>3
        <4> QED
          BY <4>1, <4>2
      <3> QED
        <4>1. k <= RecentCap /\ k <= m + 1 /\ ~(k < RecentCap)
          BY <1>4, <1>5, <1>7, <3>1
        <4> QED
          BY <1>4, <3>3, <3>4, <4>1 DEF FilterMemory, Key
    <2>2. CASE ~(k + 1 > RecentCap)
      <3>1. k + 1 <= RecentCap /\ k = m /\ order' = o
        BY <1>5, <1>7, <1>8, <2>2
      <3>2. \A i \in 1..(k + 1) : order'[i] = Key(published'[(m + 1) - (k + 1) + i])
        <4> SUFFICES ASSUME NEW i \in 1..(k + 1)
                     PROVE  order'[i] = Key(published'[(m + 1) - (k + 1) + i])
          OBVIOUS
        <4>1. (m + 1) - (k + 1) + i = i /\ m - k + i = i /\ (i \in 1..m \/ i = m + 1)
          BY <1>4, <1>5, <3>1
        <4> QED
          BY <4>1, <3>1, <1>2, <1>4, <1>5, <1>9
      <3> QED
        <4>1. k + 1 <= RecentCap /\ k + 1 = m + 1
          BY <3>1
        <4>2. Len(order') = k + 1 /\ order' \in Seq(Aircraft \X Int)
          BY <3>1, <1>5
        <4>3. k + 1 <= m + 1
          BY <1>5, <4>1
        <4> QED
          BY <1>4, <3>2, <4>1, <4>2, <4>3 DEF FilterMemory, Key
    <2> QED
      BY <2>1, <2>2
  <1>12. Types'
    BY <1>1, <1>4, <1>11 DEF IInv, Types
  <1>13. TwinsApart'
    <2>1. DOMAIN published = 1..m /\ DOMAIN published' = 1..(m + 1)
      BY <1>4, LenProperties DEF IInv, Types, m
    <2>2. ASSUME NEW i \in 1..m, Key(published[i]) = Key(f)
          PROVE  m + 1 - i > RecentCap
      <3>1. CASE i > m - k
        <4>1. i - (m - k) \in 1..k /\ m - k + (i - (m - k)) = i
          BY <3>1, <1>4, <1>5, <1>7
        <4> QED
          BY <4>1, <2>2, <1>6, <1>9
      <3>2. CASE ~(i > m - k)
        BY <3>2, <1>4, <1>5, <1>7
      <3> QED
        BY <3>1, <3>2
    <2> SUFFICES ASSUME NEW i \in 1..(m + 1), NEW j \in 1..(m + 1), i < j,
                        Key(published'[i]) = Key(published'[j])
                 PROVE  j - i > RecentCap
      BY <2>1 DEF TwinsApart, Key
    <2>3. i \in 1..m
      BY <1>4
    <2>4. CASE j \in 1..m
      BY <2>1, <2>3, <2>4, <1>4 DEF IInv, TwinsApart
    <2>5. CASE j = m + 1
      BY <2>2, <2>3, <2>5, <1>2, <1>4
    <2> QED
      BY <1>10, <2>4, <2>5
  <1>14. ReaderPlaces'
    <2> SUFFICES ASSUME NEW r \in Readers PROVE ReaderPlaces!(r)'
      BY DEF ReaderPlaces
    <2> DEFINE b == reader[r].from
               l == Len(reader[r].got)
    <2>1. b \in Nat /\ l \in Nat
      BY LenProperties DEF IInv, Types
    <2>2. /\ reader[r].next = b + l + 1 /\ b + l + 1 <= m + 1
          /\ \A i \in 1..l : reader[r].got[i] = published[b + i]
      BY DEF IInv, ReaderPlaces, m
    <2> HIDE DEF b, l
    <2>3. \A i \in 1..l : b + i \in 1..m
      BY <2>1, <2>2, <1>4
    <2>4. \A i \in 1..l : reader[r].got[i] = published'[b + i]
      BY <2>2, <2>3, <1>4
    <2>5. b + l + 1 <= (m + 1) + 1
      BY <2>1, <2>2, <1>4
    <2> QED
      BY <2>2, <2>4, <2>5, <1>4 DEF b, l
  <1>15. SolvesOnce'
    <2>1. \A i \in 1..(n - 1) : i + 1 \in 1..n /\ i + 1 # 1
      BY <1>1
    <2>2. \A i, j \in 1..(n - 1) : i + 1 = j + 1 => i = j
      BY <1>1
    <2>3. 1 \in 1..n
      BY <1>1
    <2>4. /\ \A i \in 1..n : Solve(out[i]) \in solved
          /\ \A i \in 1..m : Solve(published[i]) \in solved
          /\ \A i, j \in 1..n : Solve(out[i]) = Solve(out[j]) => i = j
          /\ \A i, j \in 1..m : Solve(published[i]) = Solve(published[j]) => i = j
          /\ \A i \in 1..n, j \in 1..m : Solve(out[i]) # Solve(published[j])
      BY DEF IInv, SolvesOnce, n, m
    <2>5. /\ \A i \in 1..(n - 1) : Solve(out'[i]) \in solved'
          /\ \A i \in 1..(m + 1) : Solve(published'[i]) \in solved'
      BY <1>1, <1>2, <1>4, <1>10, <2>1, <2>3, <2>4
    <2>6. \A i, j \in 1..(n - 1) : Solve(out'[i]) = Solve(out'[j]) => i = j
      BY <1>1, <2>1, <2>2, <2>4
    <2>7. \A i, j \in 1..(m + 1) : Solve(published'[i]) = Solve(published'[j]) => i = j
      BY <1>1, <1>2, <1>4, <1>10, <2>3, <2>4
    <2>8. \A i \in 1..(n - 1), j \in 1..(m + 1) : Solve(out'[i]) # Solve(published'[j])
      BY <1>1, <1>2, <1>4, <1>10, <2>1, <2>3, <2>4
    <2>9. Len(out') = n - 1 /\ Len(published') = m + 1
      BY <1>1, <1>4
    <2> QED
      BY <2>5, <2>6, <2>7, <2>8, <2>9 DEF SolvesOnce
  <1>16. OwnGround'
    BY <1>3, <1>4, <1>10 DEF IInv, OwnGround, m
  <1> QED
    BY <1>11, <1>12, <1>13, <1>14, <1>15, <1>16

-----------------------------------------------------------------------------
\* A reader subscribes, takes its next fix or gives up.
LEMMA ReaderStep ==
  ASSUME IInv, NEW r \in Readers, Subscribe(r) \/ Forward(r)
  PROVE  Types' /\ ReaderPlaces'
  <1> DEFINE m == Len(published)
             b == reader[r].from
             x == reader[r].next
             q == reader[r].got
             l == Len(q)
             Place(e) == /\ e \in [state: {"new", "on", "off"}, from: Nat, next: Nat, got: Seq(Fix)]
                         /\ e.next = e.from + Len(e.got) + 1 /\ e.next <= m + 1
                         /\ \A k \in 1..Len(e.got) : e.got[k] = published[e.from + k]
  <1>1. /\ m \in Nat /\ b \in Nat /\ x \in Nat /\ q \in Seq(Fix) /\ l \in Nat
        /\ reader[r] \in [state: {"new", "on", "off"}, from: Nat, next: Nat, got: Seq(Fix)]
    BY LenProperties DEF IInv, Types
  <1>2. /\ x = b + l + 1 /\ x <= m + 1 /\ \A k \in 1..l : q[k] = published[b + k]
    BY DEF IInv, ReaderPlaces
  <1>3. ASSUME NEW e, Place(e), reader' = [reader EXCEPT ![r] = e],
               UNCHANGED <<solved, out, order, published>>
        PROVE  Types' /\ ReaderPlaces'
    BY <1>3 DEF IInv, Types, ReaderPlaces
  <1>4. CASE Subscribe(r)
    <2> DEFINE e == [state |-> "on", from |-> m, next |-> m + 1, got |-> <<>>]
    <2>1. Place(e)
      BY <1>1
    <2> QED
      BY <1>3, <1>4, <2>1 DEF Subscribe
  <1>5. CASE Forward(r)
    <2>1. CASE Lagged(r)
      <3>1. Place(AfterLag(r))
        BY <1>1, <1>2 DEF AfterLag
      <3>2. reader' = [reader EXCEPT ![r] = AfterLag(r)]
        BY <1>5, <2>1 DEF Forward
      <3> HIDE DEF Place
      <3> QED
        BY <1>3, <1>5, <3>1, <3>2 DEF Forward
    <2>2. CASE ~Lagged(r)
      <3> DEFINE y == published[x]
                 g == Append(q, y)
                 e == [reader[r] EXCEPT !.next = x + 1, !.got = g]
      <3>1. x \in 1..m
        BY <1>1, <1>2, <1>5 DEF Forward
      <3>2. y \in Fix
        BY <3>1, ElementOfSeq DEF IInv, Types
      <3>3. /\ g \in Seq(Fix) /\ Len(g) = l + 1 /\ g[l + 1] = y
            /\ \A k \in 1..l : g[k] = q[k]
        BY <1>1, <3>2, AppendTo
      <3>4. reader' = [reader EXCEPT ![r] = e]
        <4>1. e = Passed(r)
          BY <1>1 DEF Passed
        <4> QED
          BY <1>5, <2>2, <4>1 DEF Forward
      <3>5. e.from = b /\ e.next = x + 1 /\ e.got = g
            /\ e \in [state: {"new", "on", "off"}, from: Nat, next: Nat, got: Seq(Fix)]
        <4> HIDE DEF g
        <4>1. x + 1 \in Nat /\ g \in Seq(Fix)
          BY <1>1, <3>3
        <4> QED
          BY <1>1, <4>1
      <3> HIDE DEF y, g, e, l, b, m, q
      <3>6. \A k \in 1..(l + 1) : g[k] = published[b + k]
        <4> SUFFICES ASSUME NEW k \in 1..(l + 1) PROVE g[k] = published[b + k]
          OBVIOUS
        <4>1. CASE k \in 1..l
          BY <4>1, <1>2, <3>3
        <4>2. CASE k = l + 1
          <5>1. b + k = x
            BY <4>2, <1>1, <1>2
          <5> QED
            BY <4>2, <5>1, <3>3 DEF y
        <4> QED
          BY <4>1, <4>2, <1>1
      <3>7. x + 1 = b + (l + 1) + 1 /\ x + 1 <= m + 1
        BY <1>1, <1>2, <3>1
      <3>8. Place(e)
        BY <3>3, <3>5, <3>6, <3>7
      <3> HIDE DEF Place
      <3> QED
        BY <1>3, <1>5, <3>4, <3>8 DEF Forward
    <2> QED
      BY <2>1, <2>2
  <1> QED
    BY <1>4, <1>5

-----------------------------------------------------------------------------
\* The inductive invariant holds in every state of every behaviour.
THEOREM OutputInductive == Spec => []IInv
  <1>1. Init => IInv
    <2> SUFFICES ASSUME Init PROVE IInv
      OBVIOUS
    <2>1. Types /\ FilterMemory /\ TwinsApart /\ ReaderPlaces /\ SolvesOnce /\ OwnGround
      BY OutputAssumption DEF Init, Types, FilterMemory, TwinsApart, ReaderPlaces, SolvesOnce, OwnGround
    <2> QED
      BY <2>1 DEF IInv
  <1>2. IInv /\ [Next]_vars => IInv'
    <2> SUFFICES ASSUME IInv, [Next]_vars PROVE IInv'
      OBVIOUS
    <2> DEFINE Rest == Types /\ FilterMemory /\ TwinsApart /\ ReaderPlaces /\ SolvesOnce /\ OwnGround
    <2>0. Rest
      BY DEF IInv
    <2>a. ASSUME UNCHANGED <<published, order>> PROVE FilterMemory' /\ TwinsApart' /\ OwnGround'
      BY <2>0, <2>a DEF FilterMemory, TwinsApart, OwnGround, Key
    <2>b. ASSUME UNCHANGED <<published, reader>> PROVE ReaderPlaces'
      BY <2>0, <2>b DEF ReaderPlaces
    <2>c. ASSUME UNCHANGED <<published, out, solved>> PROVE SolvesOnce'
      BY <2>0, <2>c DEF SolvesOnce, Solve
    <2>1. CASE RouterNext /\ UNCHANGED outVars
      <3>1. UNCHANGED <<solved, out, order, published, reader>>
        BY <2>1 DEF outVars
      <3>2. Types'
        BY <2>0, <3>1 DEF Types
      <3> QED
        BY <3>1, <3>2, <2>a, <2>b, <2>c DEF IInv
    <2>2. ASSUME NEW s \in Shards, NEW a \in Aircraft, NEW t \in Times, NEW skew \in 0..MaxSkew,
                 NEW p \in Positions, Emit(s, a, t, skew, p)
          PROVE  IInv'
      <3>1. UNCHANGED <<order, published, reader>>
        BY <2>2 DEF Emit
      <3>2. Types' /\ SolvesOnce'
        BY <2>2, EmitStep
      <3> QED
        BY <3>1, <3>2, <2>a, <2>b DEF IInv
    <2>3. CASE Take
      <3> DEFINE f == Head(out)
                 pass == InTerritory(f) /\ Key(f) \notin Range(order)
      <3>1. UNCHANGED <<solved, reader>> /\ out # <<>> /\ out' = Tail(out)
        BY <2>3 DEF Take
      <3>2. CASE pass
        <4>1. /\ order' = Remembered(Append(order, Key(Head(out))))
              /\ published' = Append(published, Published(Head(out)))
          BY <2>3, <3>2 DEF Take
        <4> QED
          BY <3>1, <3>2, <4>1, PublishStep DEF IInv
      <3>3. CASE ~pass
        <4>1. UNCHANGED <<order, published>>
          BY <2>3, <3>3 DEF Take
        <4>2. Types' /\ SolvesOnce'
          BY <3>1, <4>1, DropStep
        <4> QED
          BY <3>1, <4>1, <4>2, <2>a, <2>b DEF IInv
      <3> QED
        BY <3>2, <3>3
    <2>4. ASSUME NEW r \in Readers, Subscribe(r) \/ Forward(r)
          PROVE  IInv'
      <3>1. UNCHANGED <<solved, out, order, published>>
        BY <2>4 DEF Subscribe, Forward
      <3>2. Types' /\ ReaderPlaces'
        BY <2>4, ReaderStep
      <3> QED
        BY <3>1, <3>2, <2>a, <2>c DEF IInv
    <2>5. CASE UNCHANGED vars
      <3>1. UNCHANGED <<solved, out, order, published, reader>>
        BY <2>5 DEF vars, outVars
      <3>2. Types'
        BY <2>0, <3>1 DEF Types
      <3> QED
        BY <3>1, <3>2, <2>a, <2>b, <2>c DEF IInv
    <2> QED
      BY <2>1, <2>2, <2>3, <2>4, <2>5 DEF Next
  <1> QED
    BY <1>1, <1>2, PTL DEF Spec

\* Two published fixes with one key are more than the filter's memory apart.
THEOREM TwinsStayApart == Spec => []TwinsApart
  BY OutputInductive, PTL DEF IInv

\* A reader's stream is a gapless part of what was published.
THEOREM NoGap == Spec => []StreamsHaveNoGap
  <1>1. IInv => StreamsHaveNoGap
    <2> SUFFICES ASSUME IInv, NEW r \in Readers PROVE StreamsHaveNoGap!(r)
      BY DEF StreamsHaveNoGap
    <2> DEFINE b == reader[r].from
               q == reader[r].got
               l == Len(q)
               m == Len(published)
    <2>1. b \in Nat /\ l \in Nat /\ q \in Seq(Fix) /\ m \in Nat /\ published \in Seq(Fix)
      BY LenProperties DEF IInv, Types
    <2>2. b + l <= m /\ \A k \in 1..l : q[k] = published[b + k]
      <3>1. reader[r].next = b + l + 1 /\ reader[r].next <= m + 1
        BY DEF IInv, ReaderPlaces
      <3>2. \A k \in 1..l : q[k] = published[b + k]
        BY DEF IInv, ReaderPlaces
      <3> HIDE DEF b, l, m
      <3> QED
        BY <2>1, <3>1, <3>2
    <2> DEFINE t == SubSeq(published, b + 1, b + l)
    <2> HIDE DEF b, l, m, q
    <2>3. \A i \in (b + 1)..(b + l) : published[i] \in Fix
      BY <2>1, <2>2, ElementOfSeq DEF m
    <2>4. t \in Seq(Fix) /\ Len(t) = l /\ \A k \in 1..l : t[k] = published[b + k]
      <3>1. /\ t \in Seq(Fix) /\ Len(t) = (IF b + 1 <= b + l THEN (b + l) - (b + 1) + 1 ELSE 0)
            /\ \A k \in 1..((b + l) - (b + 1) + 1) : t[k] = published[(b + 1) + k - 1]
        BY <2>1, <2>3, SubSeqProperties
      <3>2. (b + l) - (b + 1) + 1 = l /\ (b + 1 <= b + l <=> l # 0)
        BY <2>1
      <3>3. \A k \in 1..l : (b + 1) + k - 1 = b + k
        BY <2>1
      <3> HIDE DEF t
      <3> QED
        BY <2>1, <3>1, <3>2, <3>3
    <2> HIDE DEF t
    <2>5. q = t
      <3>1. Len(q) = Len(t) /\ \A k \in 1..Len(q) : q[k] = t[k]
        BY <2>2, <2>4 DEF l
      <3> QED
        BY <2>1, <2>4, <3>1, SeqEqual
    <2> QED
      BY <2>5 DEF q, t, b, l
  <1> QED
    BY <1>1, OutputInductive, PTL

\* Two solves of one transmission are not both published for one owner.
THEOREM OneVoice == Spec => []ClaimedGroundOnce
  <1>1. IInv => ClaimedGroundOnce
    <2> SUFFICES ASSUME IInv, NEW i \in DOMAIN published, NEW j \in DOMAIN published,
                        published[i].icao = published[j].icao,
                        published[i].time = published[j].time,
                        published[i].home = published[j].home, published[i].home # None
                 PROVE  i = j
      BY DEF ClaimedGroundOnce
    <2>1. i \in 1..Len(published) /\ j \in 1..Len(published)
      BY LenProperties DEF IInv, Types
    <2>2. published[i].shard = published[j].shard
      BY <2>1 DEF IInv, OwnGround
    <2>3. Solve(published[i]) = Solve(published[j])
      BY <2>2 DEF Solve
    <2> QED
      BY <2>1, <2>3 DEF IInv, SolvesOnce
  <1> QED
    BY <1>1, OutputInductive, PTL
=============================================================================

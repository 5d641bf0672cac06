--------------------------- MODULE TrafficProofs ---------------------------
(***************************************************************************)
(* Proofs about Traffic, and at the end about the MessageLoop that carries *)
(* it, for every set of aircraft, every queue length and number of         *)
(* sessions, every idle limit, timer period and number of messages.        *)
(*                                                                         *)
(* Neither property of Traffic is inductive.  The start requests and the   *)
(* resets wait for the engine in one queue, so whether a request belongs   *)
(* to the present session depends on where it stands relative to the       *)
(* resets: EventsOfThisSession says that an event that no reset follows is *)
(* of this session, RequestsAfterReset that what this session asked for    *)
(* stands behind every reset that is still to be taken.                    *)
(***************************************************************************)
EXTENDS Traffic, MessageLoop, TLAPS, SequenceTheorems

Starts == [kind : {"start"}, air : SUBSET Aircraft]
Ups == [kind : {"seen", "lost", "rate", "traffic", "notice"}, air : SUBSET Aircraft]

\* What the queues hold.
QueuesOK ==
  /\ ev \in Seq(Starts \cup {Reset})
  /\ down \in Seq(Starts \cup {Notice})
  /\ up \in Seq(Ups)

\* Without a session there is nothing on the wire and nothing requested.
ClosedIsEmpty == pc # "open" => down = <<>> /\ srv_requested = {}

\* A line on the wire asks only for what the connection marked as requested.
LinesOfThisSession == \A i \in DOMAIN down : down[i].air \subseteq srv_requested

\* An event in the engine's queue asks only for what the connection marked
\* as requested, unless a reset follows it.
EventsOfThisSession ==
  pc # "ended" =>
    \A i \in DOMAIN ev :
      ev[i].air \subseteq srv_requested \/ \E j \in DOMAIN ev : j > i /\ ev[j] = Reset

\* a is asked for by a line on the wire or an event behind position i.
AskedBehind(i, a) ==
  \/ \E j \in DOMAIN down : down[j].kind = "start" /\ a \in down[j].air
  \/ \E j \in DOMAIN ev : j > i /\ ev[j].kind = "start" /\ a \in ev[j].air

\* A reset that waits for the engine takes nothing of the present connection
\* with it.
RequestsAfterReset ==
  \A i \in DOMAIN ev : ev[i] = Reset =>
    \A a \in srv_requested : a \in excused \/ AskedBehind(i, a)

\* RequestsAccounted, by positions.
RequestsFound ==
  \A a \in srv_requested : a \in requested \/ a \in excused \/ AskedBehind(0, a)

Positions ==
  /\ ClosedIsEmpty
  /\ LinesOfThisSession
  /\ EventsOfThisSession
  /\ RequestsAfterReset
  /\ RequestsFound
  /\ RequestsOfThisSession

IInv == TypeOK /\ QueuesOK /\ Positions

-----------------------------------------------------------------------------
\* The head of a queue, and what is left of the queue without it.
LEMMA TailOf ==
  ASSUME NEW S, NEW q \in Seq(S), q # <<>>
  PROVE  /\ Len(q) \in Nat \ {0} /\ DOMAIN q = 1..Len(q)
         /\ Head(q) = q[1] /\ q[1] \in S
         /\ Tail(q) \in Seq(S) /\ Len(Tail(q)) = Len(q) - 1
         /\ DOMAIN Tail(q) = 1..(Len(q) - 1)
         /\ \A i \in 1..(Len(q) - 1) : Tail(q)[i] = q[i + 1]
  OBVIOUS

\* A queue with a message at its end.
LEMMA AppendTo ==
  ASSUME NEW S, NEW q \in Seq(S), NEW m \in S
  PROVE  /\ Len(q) \in Nat /\ DOMAIN q = 1..Len(q)
         /\ Append(q, m) \in Seq(S) /\ Len(Append(q, m)) = Len(q) + 1
         /\ DOMAIN Append(q, m) = 1..(Len(q) + 1)
         /\ Append(q, m)[Len(q) + 1] = m
         /\ \A i \in 1..Len(q) : Append(q, m)[i] = q[i]
  OBVIOUS

LEMMA WhenSeq ==
  ASSUME NEW S, NEW m, NEW c \in BOOLEAN, c => m \in S
  PROVE  When(c, m) \in Seq(S)
  <1>1. CASE c
    BY <1>1 DEF When
  <1>2. CASE ~c
    BY <1>2 DEF When
  <1> QED
    BY <1>1, <1>2

\* try_send never fills a queue beyond its length.
LEMMA TrySendBounded ==
  ASSUME NEW S, NEW q \in Seq(S), NEW ms \in Seq(S), NEW cap \in Nat, Len(q) <= cap
  PROVE  TrySend(q, ms, cap) \in Seq(S) /\ Len(TrySend(q, ms, cap)) <= cap
  <1> DEFINE n == IF Len(q) + Len(ms) <= cap THEN Len(ms)
                  ELSE IF Len(q) < cap THEN cap - Len(q) ELSE 0
             t == SubSeq(ms, 1, n)
  <1>1. Len(q) \in Nat /\ Len(ms) \in Nat
    OBVIOUS
  <1>2. n \in 0..Len(ms) /\ Len(q) + n <= cap
    BY <1>1
  <1> HIDE DEF n
  <1>3. t \in Seq(S) /\ Len(t) = n
    BY <1>1, <1>2
  <1> HIDE DEF t
  <1>4. q \o t \in Seq(S) /\ Len(q \o t) = Len(q) + Len(t)
    BY <1>3
  <1> QED
    BY <1>2, <1>3, <1>4 DEF TrySend, t, n

\* try_send of one message appends it, if there is room.
LEMMA TrySendOne ==
  ASSUME NEW S, NEW q \in Seq(S), NEW m \in S, NEW cap \in Nat
  PROVE  /\ TrySend(q, <<>>, cap) = q
         /\ Len(q) < cap => TrySend(q, <<m>>, cap) = Append(q, m)
         /\ ~(Len(q) < cap) => TrySend(q, <<m>>, cap) = q
  <1>1. Len(q) \in Nat /\ q \o <<>> = q /\ q \o <<m>> = Append(q, m)
    OBVIOUS
  <1>2. <<m>> \in Seq(S) /\ Len(<<m>>) = 1 /\ Len(<<>>) = 0
    OBVIOUS
  <1>3. SubSeq(<<m>>, 1, Len(<<m>>)) = <<m>>
    BY <1>2, SubSeqFull
  <1>4. SubSeq(<<m>>, 1, 0) = <<>> /\ SubSeq(<<>>, 1, 0) = <<>>
    BY SubSeqEmpty
  <1> QED
    BY <1>1, <1>2, <1>3, <1>4 DEF TrySend

-----------------------------------------------------------------------------
\* Every step keeps the types.
LEMMA TypesStep ==
  ASSUME TypeOK, QueuesOK, Next
  PROVE  TypeOK' /\ QueuesOK'
  <1> USE TrafficAssumption
  <1>0. /\ ev \in Seq(Starts \cup {Reset}) /\ down \in Seq(Starts \cup {Notice}) /\ up \in Seq(Ups)
        /\ Len(up) \in Nat /\ Len(down) \in Nat /\ Len(up) <= UpCap /\ Len(down) <= DownCap
    BY DEF TypeOK, QueuesOK, Ups
  <1>N. Notice \in Ups /\ <<Notice>> \in Seq(Ups)
    BY DEF Notice, Ups
  <1>1. CASE AnyReception
    <2>1. PICK a \in Aircraft, checked \in BOOLEAN, sends \in BOOLEAN, jumped \in BOOLEAN :
            Reception(a, checked, sends, jumped)
      BY <1>1 DEF AnyReception
    <2> DEFINE ms == When(jumped, Notice) \o When(sends /\ a \in known \cap requested, Traffic(a))
    <2>2. Traffic(a) \in Ups
      BY DEF Traffic, Ups
    <2>3. ms \in Seq(Ups)
      <3>1. When(jumped, Notice) \in Seq(Ups)
        BY <1>N DEF When
      <3>2. When(sends /\ a \in known \cap requested, Traffic(a)) \in Seq(Ups)
        BY <2>2 DEF When
      <3> QED
        BY <3>1, <3>2
    <2>4. up' \in Seq(Ups) /\ Len(up') <= UpCap
      <3> HIDE DEF ms
      <3>1. TrySend(up, ms, UpCap) \in Seq(Ups) /\ Len(TrySend(up, ms, UpCap)) <= UpCap
        BY <1>0, <2>3, TrySendBounded
      <3> QED
        BY <2>1, <3>1 DEF Reception, ms
    <2> QED
      BY <1>0, <2>1, <2>4 DEF Reception, TypeOK, QueuesOK, Ups, linkVars
  <1>2. CASE InputChanged
    <2>1. up' \in Seq(Ups) /\ Len(up') <= UpCap
      BY <1>0, <1>2, <1>N, TrySendBounded DEF InputChanged
    <2> QED
      BY <1>0, <1>2, <2>1 DEF InputChanged, TypeOK, QueuesOK, Ups, linkVars, engineVars
  <1>3. CASE AnyTick
    <2>1. PICK silent \in SUBSET known, report \in BOOLEAN : Tick(silent, report)
      BY <1>3 DEF AnyTick
    <2> DEFINE kept == known \ silent
               seen == kept \ announced
               lost == silent \cap announced
               m1 == When(seen # {}, Offer("seen", seen))
               m2 == When(lost # {}, Offer("lost", lost))
               m3 == When(report /\ kept # {}, Offer("rate", kept))
    <2>2. known \subseteq Aircraft
      BY DEF TypeOK
    <2>3. m1 \in Seq(Ups)
      <3>1. Offer("seen", seen) \in Ups
        BY <2>2 DEF Offer, Ups
      <3> QED
        BY <3>1, WhenSeq
    <2>4. m2 \in Seq(Ups)
      <3>1. Offer("lost", lost) \in Ups
        BY <2>2 DEF Offer, Ups
      <3> QED
        BY <3>1, WhenSeq
    <2>5. m3 \in Seq(Ups)
      <3>1. Offer("rate", kept) \in Ups
        BY <2>2 DEF Offer, Ups
      <3> QED
        BY <3>1, WhenSeq
    <2>6. up' = TrySend(up, m1 \o m2 \o m3, UpCap)
      BY <2>1 DEF Tick
    <2>7. up' \in Seq(Ups) /\ Len(up') <= UpCap
      <3> HIDE DEF m1, m2, m3
      <3>1. m1 \o m2 \o m3 \in Seq(Ups)
        BY <2>3, <2>4, <2>5
      <3> QED
        BY <1>0, <2>6, <3>1, TrySendBounded
    <2> QED
      BY <1>0, <2>1, <2>7 DEF Tick, TypeOK, QueuesOK, Ups, linkVars
  <1>4. CASE TakeEvent
    <2>1. ev' \in Seq(Starts \cup {Reset})
      BY <1>0, <1>4, TailOf DEF TakeEvent
    <2> QED
      BY <1>0, <1>4, <2>1 DEF TakeEvent, TypeOK, QueuesOK, Ups, linkVars, Wanted
  <1>5. CASE Connect
    BY <1>5 DEF Connect, TypeOK, QueuesOK, engineVars
  <1>6. CASE ConnectFails
    BY <1>6 DEF ConnectFails, TypeOK, QueuesOK, engineVars
  <1>7. CASE SessionEnds
    BY <1>7 DEF SessionEnds, TypeOK, QueuesOK, engineVars
  <1>8. CASE SendReset
    <2>1. ev' \in Seq(Starts \cup {Reset})
      BY <1>0, <1>8, AppendTo DEF SendReset
    <2> QED
      BY <1>0, <1>8, <2>1 DEF SendReset, TypeOK, QueuesOK, Ups, engineVars
  <1>9. CASE Drain
    BY <1>9 DEF Drain, TypeOK, QueuesOK, engineVars
  <1>10. CASE ServerTakes
    <2> DEFINE fresh == Offered(Head(up)) \ srv_requested
    <2>1. up' \in Seq(Ups) /\ Len(up') <= UpCap /\ Head(up) \in Ups
      BY <1>0, <1>10, TailOf DEF ServerTakes
    <2>2. fresh \subseteq Aircraft
      BY <2>1 DEF Offered, Ups
    <2>3. Start(fresh) \in Starts
      BY <2>2 DEF Start, Starts
    <2>4. When(fresh # {}, Start(fresh)) \in Seq(Starts \cup {Notice})
      BY <2>3, WhenSeq
    <2>5. down' \in Seq(Starts \cup {Notice}) /\ Len(down') <= DownCap
      BY <1>0, <1>10, <2>4, TrySendBounded DEF ServerTakes
    <2> QED
      BY <1>0, <1>10, <2>1, <2>2, <2>5 DEF ServerTakes, TypeOK, QueuesOK, Ups, engineVars
  <1>11. CASE OtherLine
    <2>1. down' \in Seq(Starts \cup {Notice}) /\ Len(down') <= DownCap
      BY <1>0, <1>11, AppendTo DEF OtherLine
    <2> QED
      BY <1>0, <1>11, <2>1 DEF OtherLine, TypeOK, QueuesOK, Ups, engineVars
  <1>12. CASE ClientTakes
    <2>1. down' \in Seq(Starts \cup {Notice}) /\ Len(down') <= DownCap
          /\ Head(down) \in Starts \cup {Notice}
      BY <1>0, <1>12, TailOf DEF ClientTakes
    <2>2. When(Head(down).kind = "start", Head(down)) \in Seq(Starts \cup {Reset})
      <3>1. Head(down).kind = "start" => Head(down) \in Starts \cup {Reset}
        BY <2>1 DEF Notice
      <3> QED
        BY <3>1, WhenSeq
    <2>3. ev' \in Seq(Starts \cup {Reset})
      BY <1>0, <1>12, <2>2 DEF ClientTakes
    <2> QED
      BY <1>0, <1>12, <2>1, <2>3 DEF ClientTakes, TypeOK, QueuesOK, Ups, engineVars
  <1> QED
    BY <1>1, <1>2, <1>3, <1>4, <1>5, <1>6, <1>7, <1>8, <1>9, <1>10, <1>11, <1>12
    DEF Next, Session

-----------------------------------------------------------------------------
\* The engine takes an event: the positions of the others move up by one.
LEMMA TakeEventPositions ==
  ASSUME TypeOK, QueuesOK, Positions, TakeEvent
  PROVE  Positions'
  <1> DEFINE n == Len(ev)
             m == Head(ev)
  <1>0. ev \in Seq(Starts \cup {Reset}) /\ ev # <<>>
    BY DEF QueuesOK, TakeEvent
  <1>1. /\ n \in Nat \ {0} /\ DOMAIN ev = 1..n /\ m = ev[1] /\ m \in Starts \cup {Reset}
        /\ ev' = Tail(ev) /\ DOMAIN ev' = 1..(n - 1)
        /\ \A i \in 1..(n - 1) : ev'[i] = ev[i + 1]
    BY <1>0, TailOf DEF TakeEvent
  <1>2. /\ requested' = IF m.kind = "start" THEN requested \cup (m.air \cap known) ELSE {}
        /\ excused' = excused \cup ((m.air \ known) \cap srv_requested)
        /\ UNCHANGED <<known, up, pc, srv_requested, down, sessions>>
    BY DEF TakeEvent, linkVars, Wanted
  <1>3. m.kind = "start" <=> m # Reset
    <2>1. Reset.kind = "reset" /\ \A x \in Starts : x.kind = "start"
      BY DEF Starts, Reset
    <2>2. m = Reset \/ m \in Starts
      BY <1>1
    <2> HIDE DEF m
    <2> QED
      BY <2>1, <2>2
  <1> HIDE DEF n, m
  <1>4. ClosedIsEmpty' /\ LinesOfThisSession'
    BY <1>2 DEF Positions, ClosedIsEmpty, LinesOfThisSession
  <1>5. EventsOfThisSession'
    <2> SUFFICES ASSUME pc # "ended", NEW i \in 1..(n - 1), ~(ev[i + 1].air \subseteq srv_requested)
                 PROVE  \E j \in 1..(n - 1) : j > i /\ ev'[j] = Reset
      BY <1>1, <1>2 DEF EventsOfThisSession
    <2>1. PICK j \in 1..n : j > i + 1 /\ ev[j] = Reset
      BY <1>1 DEF Positions, EventsOfThisSession
    <2>2. j - 1 \in 1..(n - 1) /\ j - 1 > i /\ ev'[j - 1] = Reset
      BY <2>1, <1>1
    <2> QED
      BY <2>2
  <1>6. RequestsAfterReset'
    <2> SUFFICES ASSUME NEW i \in 1..(n - 1), ev[i + 1] = Reset, NEW a \in srv_requested, a \notin excused
                 PROVE  AskedBehind(i, a)'
      BY <1>1, <1>2 DEF RequestsAfterReset
    <2>1. AskedBehind(i + 1, a)
      BY <1>1 DEF Positions, RequestsAfterReset
    <2>2. CASE \E j \in DOMAIN ev : j > i + 1 /\ ev[j].kind = "start" /\ a \in ev[j].air
      <3>1. PICK j \in 1..n : j > i + 1 /\ ev[j].kind = "start" /\ a \in ev[j].air
        BY <2>2, <1>1
      <3>2. j - 1 \in 1..(n - 1) /\ j - 1 > i /\ ev'[j - 1] = ev[j]
        BY <3>1, <1>1
      <3> QED
        BY <3>1, <3>2, <1>1 DEF AskedBehind
    <2> QED
      BY <2>1, <2>2, <1>2 DEF AskedBehind
  <1>7. RequestsFound'
    <2> SUFFICES ASSUME NEW a \in srv_requested, a \notin requested', a \notin excused'
                 PROVE  AskedBehind(0, a)'
      BY <1>2 DEF RequestsFound
    <2>1. a \notin excused /\ (m.kind = "start" => a \notin m.air)
      BY <1>2
    <2>2. AskedBehind(0, a) \/ AskedBehind(1, a)
      BY <1>1, <1>2, <1>3, <2>1 DEF Positions, RequestsAfterReset, RequestsFound
    <2>3. \/ \E j \in DOMAIN down : down[j].kind = "start" /\ a \in down[j].air
          \/ \E j \in 1..n : j > 1 /\ ev[j].kind = "start" /\ a \in ev[j].air
      BY <1>1, <2>1, <2>2 DEF AskedBehind
    <2>4. CASE \E j \in 1..n : j > 1 /\ ev[j].kind = "start" /\ a \in ev[j].air
      <3>1. PICK j \in 1..n : j > 1 /\ ev[j].kind = "start" /\ a \in ev[j].air
        BY <2>4
      <3>2. j - 1 \in 1..(n - 1) /\ j - 1 > 0 /\ ev'[j - 1] = ev[j]
        BY <3>1, <1>1
      <3> QED
        BY <3>1, <3>2, <1>1 DEF AskedBehind
    <2> QED
      BY <2>3, <2>4, <1>2 DEF AskedBehind
  <1>8. RequestsOfThisSession'
    <2> SUFFICES ASSUME pc # "ended", \A j \in 1..(n - 1) : ev[j + 1] # Reset, m.kind = "start"
                 PROVE  requested' \subseteq srv_requested
      BY <1>1, <1>2 DEF RequestsOfThisSession, Messages
    <2>1. \A j \in 1..n : ev[j] # Reset
      <3> SUFFICES ASSUME NEW j \in 1..n PROVE ev[j] # Reset
        OBVIOUS
      <3>1. CASE j = 1
        BY <3>1, <1>1, <1>3
      <3>2. CASE j # 1
        <4>1. j - 1 \in 1..(n - 1) /\ (j - 1) + 1 = j
          BY <3>2, <1>1
        <4> QED
          BY <4>1
      <3> QED
        BY <3>1, <3>2
    <2>2. requested \subseteq srv_requested
      BY <2>1, <1>1 DEF Positions, RequestsOfThisSession, Messages
    <2>3. m.air \subseteq srv_requested
      BY <2>1, <1>1 DEF Positions, EventsOfThisSession
    <2> QED
      BY <2>2, <2>3, <1>2
  <1> QED
    BY <1>4, <1>5, <1>6, <1>7, <1>8 DEF Positions

\* The session passes a line on: a start request moves from the head of the
\* wire to the end of the engine's queue.
LEMMA ClientTakesPositions ==
  ASSUME TypeOK, QueuesOK, Positions, ClientTakes
  PROVE  Positions'
  <1> DEFINE n == Len(ev)
             d == Len(down)
             m == Head(down)
  <1>0. ev \in Seq(Starts \cup {Reset}) /\ down \in Seq(Starts \cup {Notice}) /\ down # <<>>
    BY DEF QueuesOK, ClientTakes
  <1>1. /\ d \in Nat \ {0} /\ DOMAIN down = 1..d /\ m = down[1] /\ m \in Starts \cup {Notice}
        /\ DOMAIN down' = 1..(d - 1)
        /\ \A i \in 1..(d - 1) : down'[i] = down[i + 1]
    BY <1>0, TailOf DEF ClientTakes
  <1>2. /\ ev' = ev \o When(m.kind = "start", m)
        /\ pc = "open"
        /\ UNCHANGED <<known, announced, requested, up, pc, srv_requested, sessions, excused>>
    BY DEF ClientTakes, engineVars
  <1>3. /\ n \in Nat /\ DOMAIN ev = 1..n
        /\ m.kind # "start" => ev' = ev
        /\ m.kind = "start" => /\ DOMAIN ev' = 1..(n + 1)
                               /\ ev'[n + 1] = m
                               /\ \A i \in 1..n : ev'[i] = ev[i]
    <2>1. m.kind # "start" => ev' = ev
      BY <1>0, <1>2 DEF When
    <2>2. m.kind = "start" => m \in Starts /\ ev' = Append(ev, m)
      BY <1>0, <1>1, <1>2 DEF When, Notice
    <2> QED
      BY <2>1, <2>2, <1>0, AppendTo
  <1>4. m.kind = "start" => m # Reset
    BY DEF Reset
  <1>5. m.air \subseteq srv_requested
    BY <1>1 DEF Positions, LinesOfThisSession
  <1> HIDE DEF n, d, m
  <1>6. ClosedIsEmpty'
    BY <1>2 DEF ClosedIsEmpty
  <1>7. LinesOfThisSession'
    <2>1. \A i \in 1..(d - 1) : i + 1 \in DOMAIN down
      BY <1>1
    <2>2. \A i \in DOMAIN down : down[i].air \subseteq srv_requested
      BY DEF Positions, LinesOfThisSession
    <2>3. \A i \in 1..(d - 1) : down'[i].air \subseteq srv_requested
      BY <1>1, <2>1, <2>2
    <2> QED
      BY <1>1, <1>2, <2>3 DEF LinesOfThisSession
  <1>8. EventsOfThisSession'
    BY <1>2, <1>3, <1>5 DEF Positions, EventsOfThisSession
  <1>9. ASSUME NEW i \in 0..n, NEW a, AskedBehind(i, a)
        PROVE  AskedBehind(i, a)'
    <2>1. CASE \E j \in DOMAIN down : down[j].kind = "start" /\ a \in down[j].air
      <3>1. PICK j \in 1..d : down[j].kind = "start" /\ a \in down[j].air
        BY <2>1, <1>1
      <3>2. CASE j = 1
        <4>1. n + 1 \in DOMAIN ev' /\ n + 1 > i /\ ev'[n + 1] = down[1]
          BY <3>1, <3>2, <1>1, <1>3
        <4> QED
          BY <4>1, <3>1, <3>2 DEF AskedBehind
      <3>3. CASE j # 1
        <4>1. j - 1 \in 1..(d - 1) /\ down'[j - 1] = down[j]
          BY <3>1, <3>3, <1>1
        <4> QED
          BY <4>1, <3>1, <1>1 DEF AskedBehind
      <3> QED
        BY <3>2, <3>3
    <2>2. CASE \E j \in DOMAIN ev : j > i /\ ev[j].kind = "start" /\ a \in ev[j].air
      <3>1. PICK j \in 1..n : j > i /\ ev[j].kind = "start" /\ a \in ev[j].air
        BY <2>2, <1>3
      <3>2. j \in DOMAIN ev' /\ ev'[j] = ev[j]
        BY <3>1, <1>3
      <3> QED
        BY <3>1, <3>2 DEF AskedBehind
    <2> QED
      BY <1>9, <2>1, <2>2 DEF AskedBehind
  <1>10. RequestsAfterReset'
    <2> SUFFICES ASSUME NEW i \in DOMAIN ev', ev'[i] = Reset, NEW a \in srv_requested, a \notin excused
                 PROVE  AskedBehind(i, a)'
      BY <1>2 DEF RequestsAfterReset
    <2>1. i \in 1..n /\ ev[i] = Reset
      BY <1>3, <1>4
    <2> QED
      BY <2>1, <1>3, <1>9 DEF Positions, RequestsAfterReset
  <1>11. RequestsFound'
    BY <1>2, <1>3, <1>9 DEF Positions, RequestsFound
  <1>12. RequestsOfThisSession'
    BY <1>2, <1>3 DEF Positions, RequestsOfThisSession, Messages
  <1> QED
    BY <1>6, <1>7, <1>8, <1>10, <1>11, <1>12 DEF Positions

\* The server takes a message: the aircraft it asks for are on the wire, or
\* excused when the wire is full.
LEMMA ServerTakesPositions ==
  ASSUME TypeOK, QueuesOK, Positions, ServerTakes
  PROVE  Positions'
  <1> DEFINE d == Len(down)
             fresh == Offered(Head(up)) \ srv_requested
  <1> USE TrafficAssumption
  <1>0. /\ down \in Seq(Starts \cup {Notice}) /\ d \in Nat /\ DOMAIN down = 1..d
        /\ up \in Seq(Ups) /\ up # <<>>
    BY DEF QueuesOK, ServerTakes, Ups
  <1>1. Start(fresh) \in Starts
    <2>1. Head(up) \in Ups
      BY <1>0, TailOf
    <2>2. fresh \subseteq Aircraft
      BY <2>1 DEF Offered, Ups
    <2> QED
      BY <2>2 DEF Start, Starts
  <1>2. /\ srv_requested' = srv_requested \cup fresh
        /\ down' = TrySend(down, When(fresh # {}, Start(fresh)), DownCap)
        /\ excused' = IF Len(down) < DownCap THEN excused ELSE excused \cup fresh
        /\ pc = "open"
        /\ UNCHANGED <<known, announced, requested, ev, pc, sessions>>
    BY DEF ServerTakes, engineVars
  <1>3. /\ fresh # {} /\ d < DownCap => down' = Append(down, Start(fresh))
        /\ ~(fresh # {} /\ d < DownCap) => down' = down
    <2> DEFINE f == Start(fresh)
    <2>1. f \in Starts \cup {Notice}
      BY <1>1
    <2> HIDE DEF f
    <2>2. /\ TrySend(down, <<>>, DownCap) = down
          /\ d < DownCap => TrySend(down, <<f>>, DownCap) = Append(down, f)
          /\ ~(d < DownCap) => TrySend(down, <<f>>, DownCap) = down
      BY <1>0, <2>1, TrySendOne
    <2>3. /\ fresh # {} => down' = TrySend(down, <<f>>, DownCap)
          /\ fresh = {} => down' = TrySend(down, <<>>, DownCap)
      BY <1>2 DEF When, f
    <2> QED
      BY <2>2, <2>3 DEF f
  <1>4. /\ fresh # {} /\ d < DownCap => /\ DOMAIN down' = 1..(d + 1)
                                        /\ down'[d + 1] = Start(fresh)
                                        /\ \A i \in 1..d : down'[i] = down[i]
        /\ ~(fresh # {} /\ d < DownCap) => down' = down
    <2> DEFINE f == Start(fresh)
    <2>1. f \in Starts \cup {Notice} /\ (fresh # {} /\ d < DownCap => down' = Append(down, f))
      BY <1>1, <1>3
    <2> HIDE DEF f
    <2>2. fresh # {} /\ d < DownCap => /\ DOMAIN down' = 1..(d + 1)
                                       /\ down'[d + 1] = f
                                       /\ \A i \in 1..d : down'[i] = down[i]
      BY <1>0, <2>1, AppendTo
    <2> QED
      BY <1>3, <2>2 DEF f
  <1>5. Start(fresh).air = fresh /\ Start(fresh).kind = "start"
    BY DEF Start
  <1> HIDE DEF d, fresh
  <1>6. ClosedIsEmpty'
    BY <1>2 DEF ClosedIsEmpty
  <1>7. LinesOfThisSession'
    BY <1>0, <1>2, <1>4, <1>5 DEF Positions, LinesOfThisSession
  <1>8. EventsOfThisSession'
    BY <1>2 DEF Positions, EventsOfThisSession
  <1>9. ASSUME NEW i \in Nat, NEW a, AskedBehind(i, a)
        PROVE  AskedBehind(i, a)'
    BY <1>0, <1>2, <1>4, <1>9 DEF AskedBehind
  <1>10. ASSUME NEW i \in Nat, NEW a \in fresh, a \notin excused'
         PROVE  AskedBehind(i, a)'
    <2>1. d < DownCap /\ fresh # {}
      BY <1>2, <1>10 DEF d
    <2>2. d + 1 \in DOMAIN down' /\ down'[d + 1] = Start(fresh)
      BY <1>0, <1>4, <2>1
    <2> QED
      BY <1>5, <2>2 DEF AskedBehind
  <1>11. RequestsAfterReset'
    <2> SUFFICES ASSUME NEW i \in DOMAIN ev, ev[i] = Reset, NEW a \in srv_requested', a \notin excused'
                 PROVE  AskedBehind(i, a)'
      BY <1>2 DEF RequestsAfterReset
    <2>1. i \in Nat
      BY DEF QueuesOK
    <2>2. CASE a \in fresh
      BY <2>1, <2>2, <1>10
    <2>3. CASE a \in srv_requested
      <3>1. AskedBehind(i, a)
        BY <2>3, <1>2 DEF Positions, RequestsAfterReset
      <3> QED
        BY <2>1, <3>1, <1>9
    <2> QED
      BY <2>2, <2>3, <1>2
  <1>12. RequestsFound'
    <2> SUFFICES ASSUME NEW a \in srv_requested', a \notin requested, a \notin excused'
                 PROVE  AskedBehind(0, a)'
      BY <1>2 DEF RequestsFound
    <2>1. CASE a \in fresh
      BY <2>1, <1>10
    <2>2. CASE a \in srv_requested
      <3>1. AskedBehind(0, a)
        BY <2>2, <1>2 DEF Positions, RequestsFound
      <3> QED
        BY <3>1, <1>9
    <2> QED
      BY <2>1, <2>2, <1>2
  <1>13. RequestsOfThisSession'
    BY <1>2 DEF Positions, RequestsOfThisSession, Messages
  <1> QED
    BY <1>6, <1>7, <1>8, <1>11, <1>12, <1>13 DEF Positions

\* The session ended: its reset stands behind everything it left in the queue.
LEMMA SendResetPositions ==
  ASSUME TypeOK, QueuesOK, Positions, SendReset
  PROVE  Positions'
  <1> DEFINE n == Len(ev)
  <1>0. /\ n \in Nat /\ DOMAIN ev = 1..n /\ DOMAIN ev' = 1..(n + 1)
        /\ ev'[n + 1] = Reset /\ \A i \in 1..n : ev'[i] = ev[i]
    BY AppendTo DEF QueuesOK, SendReset
  <1>1. /\ srv_requested = {} /\ down = <<>>
        /\ UNCHANGED <<requested, srv_requested, down, excused>>
    BY DEF SendReset, Positions, ClosedIsEmpty, engineVars
  <1> HIDE DEF n
  <1>2. ClosedIsEmpty' /\ LinesOfThisSession' /\ RequestsAfterReset' /\ RequestsFound'
    BY <1>1 DEF ClosedIsEmpty, LinesOfThisSession, RequestsAfterReset, RequestsFound
  <1>3. EventsOfThisSession'
    <2> SUFFICES ASSUME NEW i \in 1..(n + 1)
                 PROVE  ev'[i].air = {} \/ \E j \in 1..(n + 1) : j > i /\ ev'[j] = Reset
      BY <1>0 DEF EventsOfThisSession
    <2>1. CASE i = n + 1
      BY <2>1, <1>0 DEF Reset
    <2>2. CASE i # n + 1
      BY <2>2, <1>0
    <2> QED
      BY <2>1, <2>2
  <1>4. RequestsOfThisSession'
    BY <1>0 DEF RequestsOfThisSession, Messages
  <1> QED
    BY <1>2, <1>3, <1>4 DEF Positions

\* Every step keeps the positions.
LEMMA PositionsStep ==
  ASSUME TypeOK, QueuesOK, Positions, Next
  PROVE  Positions'
  <1> USE DEF Positions, ClosedIsEmpty, LinesOfThisSession, EventsOfThisSession, RequestsAfterReset,
              RequestsFound, RequestsOfThisSession, Messages, AskedBehind, linkVars, engineVars
  <1>1. CASE AnyReception
    BY <1>1 DEF AnyReception, Reception
  <1>2. CASE InputChanged
    BY <1>2 DEF InputChanged
  <1>3. CASE AnyTick
    BY <1>3 DEF AnyTick, Tick
  <1>4. CASE Connect
    BY <1>4 DEF Connect
  <1>5. CASE ConnectFails
    BY <1>5 DEF ConnectFails
  <1>6. CASE SessionEnds
    BY <1>6 DEF SessionEnds
  <1>7. CASE Drain
    BY <1>7 DEF Drain
  <1>8. CASE OtherLine
    <2>1. /\ DOMAIN down' = 1..(Len(down) + 1) /\ Len(down) \in Nat /\ DOMAIN down = 1..Len(down)
          /\ down'[Len(down) + 1] = Notice /\ \A i \in 1..Len(down) : down'[i] = down[i]
      BY <1>8, AppendTo DEF OtherLine, QueuesOK
    <2> QED
      BY <1>8, <2>1 DEF OtherLine, Notice
  <1> QED
    BY <1>1, <1>2, <1>3, <1>4, <1>5, <1>6, <1>7, <1>8, TakeEventPositions, SendResetPositions,
       ClientTakesPositions, ServerTakesPositions DEF Next, Session

-----------------------------------------------------------------------------
\* The inductive invariant of the selective traffic: queues, wire and
\* requested sets of the engine, the session and the connection.
THEOREM Inductive == Spec => []IInv
  <1>1. Init => IInv
    BY TrafficAssumption
    DEF Init, IInv, Positions, TypeOK, QueuesOK, ClosedIsEmpty, LinesOfThisSession, EventsOfThisSession,
        RequestsAfterReset, RequestsFound, RequestsOfThisSession
  <1>2. IInv /\ [Next]_vars => IInv'
    <2> SUFFICES ASSUME IInv, [Next]_vars PROVE IInv'
      OBVIOUS
    <2>1. CASE Next
      BY <2>1, TypesStep, PositionsStep DEF IInv
    <2>2. CASE UNCHANGED vars
      BY <2>2 DEF vars, engineVars, linkVars, IInv, TypeOK, QueuesOK, ClosedIsEmpty,
         LinesOfThisSession, EventsOfThisSession, RequestsAfterReset, RequestsFound, AskedBehind,
         RequestsOfThisSession, Messages, Positions
    <2> QED
      BY <2>1, <2>2
  <1> QED
    BY <1>1, <1>2, PTL DEF Spec

\* The engine's view belongs to the session it has: a start request that an
\* earlier connection of session_loop left in the engine's queue is taken
\* before that connection's reset, whatever the interleaving.
THEOREM OfThisSession == Spec => []RequestsOfThisSession
  <1>1. IInv => RequestsOfThisSession
    BY DEF IInv, Positions
  <1> QED
    BY <1>1, Inductive, PTL

\* Nothing that process_line_tx marked as requested disappears between the
\* connection and the engine, but for a full line queue or an expired
\* aircraft.
THEOREM Accounted == Spec => []RequestsAccounted
  <1>1. IInv => RequestsAccounted
    <2> SUFFICES ASSUME IInv, NEW a \in srv_requested, a \notin requested, a \notin excused
                 PROVE  a \in InFlight
      BY DEF RequestsAccounted
    <2>1. AskedBehind(0, a)
      BY DEF IInv, Positions, RequestsFound
    <2>2. PICK m \in Messages(down) \cup Messages(ev) : m.kind = "start" /\ a \in m.air
      BY <2>1 DEF AskedBehind, Messages
    <2> QED
      BY <2>2 DEF InFlight
  <1> QED
    BY <1>1, Inductive, PTL

-----------------------------------------------------------------------------
(* The message loop.  IntactUnlessCut speaks only of what was fed; it is   *)
(* inductive together with Aligned: as long as no timer fell into a read,  *)
(* the read in progress stands exactly at the message after the last one   *)
(* fed, and the body still wanted is that message's own.                   *)

Parts == Nat \X {"len1", "len2", "body", "text", "end"}

LoopTypes ==
  /\ framed \in BOOLEAN /\ cut \in BOOLEAN
  /\ state \in {"open", "idle", "closed", "bad_frame"}
  /\ arrived \in Nat /\ taken \in Nat /\ want \in Nat
  /\ part \in Seq(Parts)
  /\ fed \in Seq(Seq(Parts))

\* Where the loop stands in the client's stream.
Aligned ==
  ~cut => /\ \A k \in 1..Len(part) : part[k] = <<Len(fed) + 1, Pieces[k]>>
          /\ framed => /\ taken = Len(fed) * 3 + Len(part) /\ Len(part) < 3
                       /\ Len(part) = 2 => want = 1
                       /\ Len(part) # 2 => want = 0
          /\ ~framed => taken = Len(fed) * 2 + Len(part) /\ Len(part) < 2 /\ want = 0

\* Decoding never fails as long as no timer fell into a read.
DecodesUnlessCut == ~cut => state # "bad_frame"

LoopInv == LoopTypes /\ Aligned /\ IntactUnlessCut /\ DecodesUnlessCut

-----------------------------------------------------------------------------
\* A framed message has three pieces, a plain one two.
LEMMA PiecesOf ==
  /\ framed => Len(Pieces) = 3 /\ DOMAIN Pieces = 1..3
               /\ Pieces[1] = "len1" /\ Pieces[2] = "len2" /\ Pieces[3] = "body"
  /\ ~framed => Len(Pieces) = 2 /\ DOMAIN Pieces = 1..2
                /\ Pieces[1] = "text" /\ Pieces[2] = "end"
  BY DEF Pieces

\* The piece at offset p of the message after the f-th.
LEMMA PieceAt ==
  ASSUME NEW f \in Nat, NEW p \in Nat
  PROVE  /\ framed /\ p < 3 => Piece(f * 3 + p + 1) = <<f + 1, Pieces[p + 1]>>
         /\ ~framed /\ p < 2 => Piece(f * 2 + p + 1) = <<f + 1, Pieces[p + 1]>>
  <1>1. ASSUME framed, p < 3
        PROVE  Piece(f * 3 + p + 1) = <<f + 1, Pieces[p + 1]>>
    <2>1. ((f * 3 + p + 1) - 1) \div 3 = f /\ ((f * 3 + p + 1) - 1) % 3 = p
      BY <1>1
    <2> QED
      BY <1>1, <2>1, PiecesOf DEF Piece
  <1>2. ASSUME ~framed, p < 2
        PROVE  Piece(f * 2 + p + 1) = <<f + 1, Pieces[p + 1]>>
    <2> DEFINE x == (f * 2 + p + 1) - 1
    <2>1. x = 2 * f + p /\ p \in 0..1 /\ x \in Nat
      BY <1>2
    <2> HIDE DEF x
    <2>2. x \div 2 = f /\ x % 2 = p
      BY <2>1
    <2> QED
      BY <1>2, <2>2, PiecesOf DEF Piece, x
  <1> QED
    BY <1>1, <1>2

\* Any piece of the stream.
LEMMA PieceType ==
  ASSUME NEW k \in Nat \ {0}
  PROVE  Piece(k) \in Parts
  <1>1. CASE framed
    <2> DEFINE q == (k - 1) \div 3
               r == (k - 1) % 3
    <2>1. q \in Nat /\ (r = 0 \/ r = 1 \/ r = 2)
      OBVIOUS
    <2>2. Piece(k) = <<q + 1, Pieces[r + 1]>>
      BY <1>1, PiecesOf DEF Piece
    <2> HIDE DEF q, r
    <2>3. Pieces[r + 1] \in {"len1", "len2", "body", "text", "end"}
      BY <1>1, <2>1, PiecesOf
    <2> QED
      BY <2>1, <2>2, <2>3 DEF Parts
  <1>2. CASE ~framed
    <2> DEFINE q == (k - 1) \div 2
               r == (k - 1) % 2
    <2>1. q \in Nat /\ (r = 0 \/ r = 1)
      OBVIOUS
    <2>2. Piece(k) = <<q + 1, Pieces[r + 1]>>
      BY <1>2, PiecesOf DEF Piece
    <2> HIDE DEF q, r
    <2>3. Pieces[r + 1] \in {"len1", "len2", "body", "text", "end"}
      BY <1>2, <2>1, PiecesOf
    <2> QED
      BY <2>1, <2>2, <2>3 DEF Parts
  <1> QED
    BY <1>1, <1>2

\* What a read has after its next piece, as long as nothing was cut.
LEMMA NextPiece ==
  ASSUME LoopTypes, Aligned, NEW got, got = Append(part, Piece(taken + 1))
  PROVE  /\ got \in Seq(Parts) /\ Len(got) = Len(part) + 1
         /\ ~cut => /\ \A k \in 1..Len(got) : got[k] = <<Len(fed) + 1, Pieces[k]>>
                    /\ Len(got) = Len(Pieces) => got = Whole(Len(fed) + 1)
  <1> DEFINE n == Len(part)
             f == Len(fed)
             piece == Piece(taken + 1)
  <1>0. part \in Seq(Parts) /\ n \in Nat /\ f \in Nat /\ piece \in Parts
    BY PieceType DEF LoopTypes
  <1>1. /\ got \in Seq(Parts) /\ Len(got) = n + 1 /\ got[n + 1] = piece
        /\ \A k \in 1..n : got[k] = part[k]
    <2> HIDE DEF piece
    <2> QED
      BY <1>0 DEF piece
  <1>2. ASSUME ~cut
        PROVE  /\ \A k \in 1..(n + 1) : got[k] = <<f + 1, Pieces[k]>>
               /\ n + 1 = Len(Pieces) => got = Whole(f + 1)
    <2>1. piece = <<f + 1, Pieces[n + 1]>>
      <3>1. CASE framed
        BY <1>0, <1>2, <3>1, PieceAt DEF Aligned
      <3>2. CASE ~framed
        BY <1>0, <1>2, <3>2, PieceAt DEF Aligned
      <3> QED
        BY <3>1, <3>2
    <2>2. \A k \in 1..n : part[k] = <<f + 1, Pieces[k]>>
      BY <1>2 DEF Aligned
    <2> HIDE DEF n, f, piece
    <2>3. \A k \in 1..(n + 1) : got[k] = <<f + 1, Pieces[k]>>
      BY <1>0, <1>1, <2>1, <2>2
    <2>4. ASSUME n + 1 = Len(Pieces)
          PROVE  got = Whole(f + 1)
      <3>1. DOMAIN Pieces = 1..(n + 1)
        BY <2>4, PiecesOf
      <3>2. got = [k \in 1..(n + 1) |-> got[k]]
        BY <1>1
      <3> QED
        BY <2>3, <3>1, <3>2 DEF Whole
    <2> QED
      BY <2>3, <2>4
  <1> QED
    BY <1>1, <1>2

\* Handing on what was read keeps what was fed intact.
LEMMA FedGrows ==
  ASSUME LoopTypes, IntactUnlessCut, UNCHANGED <<framed, cut>>,
         NEW got \in Seq(Parts), fed' = Append(fed, got),
         ~cut => got = Whole(Len(fed) + 1)
  PROVE  /\ fed' \in Seq(Seq(Parts)) /\ Len(fed') = Len(fed) + 1
         /\ IntactUnlessCut'
         /\ ~cut => \A i \in DOMAIN fed' : fed'[i] = Whole(i)
  <1>1. /\ fed' \in Seq(Seq(Parts)) /\ Len(fed) \in Nat /\ Len(fed') = Len(fed) + 1
        /\ fed'[Len(fed) + 1] = got /\ DOMAIN fed' = 1..(Len(fed) + 1) /\ DOMAIN fed = 1..Len(fed)
        /\ \A i \in 1..Len(fed) : fed'[i] = fed[i]
    BY DEF LoopTypes
  <1>2. ~cut => \A i \in DOMAIN fed' : fed'[i] = Whole(i)
    BY <1>1 DEF IntactUnlessCut
  <1>3. \A i : Whole(i)' = Whole(i)
    BY DEF Whole, Pieces
  <1> QED
    BY <1>1, <1>2, <1>3 DEF IntactUnlessCut

\* The read in the select.
LEMMA ReadStep ==
  ASSUME LoopInv, Read
  PROVE  LoopInv'
  <1> DEFINE got == Append(part, Piece(taken + 1))
  <1>0. /\ want = 0 /\ taken' = taken + 1
        /\ UNCHANGED <<framed, state, arrived, timer, silence, cut>>
    BY DEF Read, InSelect
  <1>P. Pieces' = Pieces
    BY <1>0 DEF Pieces
  <1>1. /\ got \in Seq(Parts) /\ Len(got) = Len(part) + 1
        /\ ~cut => /\ \A k \in 1..Len(got) : got[k] = <<Len(fed) + 1, Pieces[k]>>
                   /\ Len(got) = Len(Pieces) => got = Whole(Len(fed) + 1)
    BY NextPiece DEF LoopInv
  <1>2. Len(part) \in Nat /\ Len(fed) \in Nat /\ taken \in Nat
    BY DEF LoopInv, LoopTypes
  <1>3. ASSUME ~cut, framed
        PROVE  Len(part) < 2 /\ taken = Len(fed) * 3 + Len(part)
    <2> DEFINE n == Len(part)
    <2>1. n \in Nat /\ n < 3 /\ (n = 2 => want = 1) /\ taken = Len(fed) * 3 + n
      BY <1>2, <1>3 DEF LoopInv, Aligned
    <2> HIDE DEF n
    <2>2. n < 2
      BY <1>0, <2>1
    <2> QED
      BY <2>1, <2>2 DEF n
  <1>9. ASSUME ~cut, ~framed
        PROVE  Len(part) < 2 /\ taken = Len(fed) * 2 + Len(part) /\ want = 0
    BY <1>9 DEF LoopInv, Aligned
  <1>4. ~cut /\ ~framed => (Complete(got) <=> Len(got) = 2)
    BY <1>1, <1>2, PiecesOf DEF Complete, LoopInv, Aligned
  <1>5. /\ \/ ~Complete(got) /\ part' = got /\ UNCHANGED <<want, wait, fed>>
           \/ Complete(got) /\ framed /\ want' \in BodyLengths(got) /\ part' = got /\ UNCHANGED <<wait, fed>>
           \/ Complete(got) /\ ~framed /\ part' = <<>> /\ fed' = Append(fed, got) /\ UNCHANGED want
    BY DEF Read
  <1> HIDE DEF got
  <1>6. CASE ~Complete(got) /\ part' = got /\ UNCHANGED <<want, wait, fed>>
    <2>1. ~cut => Len(got) < Len(Pieces) /\ (framed => Len(got) # 2)
      BY <1>1, <1>2, <1>3, <1>4, <1>6, <1>9, PiecesOf DEF Complete
    <2>2. Aligned'
      <3> SUFFICES ASSUME ~cut PROVE Aligned'
        BY <1>0 DEF Aligned
      <3>0. \A k \in 1..Len(part)' : part'[k] = <<Len(fed)' + 1, Pieces'[k]>>
        BY <1>P, <1>1, <1>6
      <3>1. CASE framed
        <4>1. Len(part)' = Len(part) + 1 /\ Len(fed)' = Len(fed) /\ Len(part) + 1 # 2
          BY <1>1, <1>6, <2>1, <3>1
        <4>2. taken' = Len(fed)' * 3 + Len(part)' /\ Len(part)' < 3
          BY <1>0, <1>2, <1>3, <3>1, <4>1
        <4> QED
          BY <1>0, <1>2, <1>6, <3>0, <3>1, <4>1, <4>2 DEF Aligned
      <3>2. CASE ~framed
        <4>1. Len(part)' = Len(part) + 1 /\ Len(fed)' = Len(fed) /\ Len(part) + 1 < 2
          BY <1>1, <1>6, <2>1, <3>2, PiecesOf
        <4>2. taken' = Len(fed)' * 2 + Len(part)' /\ Len(part)' < 2
          BY <1>0, <1>2, <1>9, <3>2, <4>1
        <4> QED
          BY <1>0, <1>6, <3>0, <3>2, <4>1, <4>2 DEF Aligned
      <3> QED
        BY <3>1, <3>2
    <2>3. IntactUnlessCut'
      BY <1>0, <1>P, <1>6 DEF LoopInv, IntactUnlessCut, Whole
    <2> QED
      BY <1>0, <1>1, <1>2, <1>6, <2>2, <2>3 DEF LoopInv, LoopTypes, DecodesUnlessCut
  <1>7. CASE Complete(got) /\ framed /\ want' \in BodyLengths(got) /\ part' = got /\ UNCHANGED <<wait, fed>>
    <2>1. Len(got) = 2
      BY <1>7 DEF Complete
    <2>2. want' \in Nat
      BY <1>7 DEF BodyLengths
    <2>3. ~cut => want' = 1
      <3> SUFFICES ASSUME ~cut PROVE want' = 1
        OBVIOUS
      <3>1. got[1] = <<Len(fed) + 1, "len1">> /\ got[2] = <<Len(fed) + 1, "len2">>
        BY <1>1, <1>7, <2>1, PiecesOf
      <3> QED
        BY <1>7, <3>1 DEF BodyLengths
    <2>4. Aligned'
      <3> SUFFICES ASSUME ~cut PROVE Aligned'
        BY <1>0 DEF Aligned
      <3>0. \A k \in 1..Len(part)' : part'[k] = <<Len(fed)' + 1, Pieces'[k]>>
        BY <1>P, <1>1, <1>7
      <3>1. Len(part)' = 2 /\ Len(part) = 1 /\ Len(fed)' = Len(fed)
        <4> DEFINE n == Len(part)
        <4>1. n \in Nat /\ n + 1 = 2 /\ Len(part)' = 2 /\ Len(fed)' = Len(fed)
          BY <1>1, <1>2, <1>7, <2>1
        <4> HIDE DEF n
        <4>2. n = 1
          BY <4>1
        <4> QED
          BY <4>1, <4>2 DEF n
      <3>2. taken' = Len(fed)' * 3 + Len(part)'
        BY <1>0, <1>2, <1>3, <1>7, <3>1
      <3> QED
        BY <1>0, <1>7, <2>3, <3>0, <3>1, <3>2 DEF Aligned
    <2>5. IntactUnlessCut'
      BY <1>0, <1>P, <1>7 DEF LoopInv, IntactUnlessCut, Whole
    <2> QED
      BY <1>0, <1>1, <1>2, <1>7, <2>2, <2>4, <2>5 DEF LoopInv, LoopTypes, DecodesUnlessCut
  <1>8. CASE Complete(got) /\ ~framed /\ part' = <<>> /\ fed' = Append(fed, got) /\ UNCHANGED want
    <2>1. ~cut => Len(got) = 2 /\ got = Whole(Len(fed) + 1)
      BY <1>1, <1>4, <1>8, PiecesOf
    <2>2. /\ fed' \in Seq(Seq(Parts)) /\ Len(fed') = Len(fed) + 1
          /\ IntactUnlessCut'
      BY <1>0, <1>1, <1>8, <2>1, FedGrows DEF LoopInv
    <2>3. part' \in Seq(Parts) /\ Len(part') = 0
      BY <1>8
    <2>4. Aligned'
      <3> SUFFICES ASSUME ~cut PROVE Aligned'
        BY <1>0 DEF Aligned
      <3>1. taken = Len(fed) * 2 + Len(part) /\ Len(part) = 1
        <4> DEFINE n == Len(part)
        <4>1. n \in Nat /\ n + 1 = 2
          BY <1>1, <1>2, <2>1
        <4> HIDE DEF n
        <4>2. n = 1
          BY <4>1
        <4> QED
          BY <1>8, <1>9, <4>2 DEF n
      <3>2. taken' = Len(fed') * 2 + Len(part')
        BY <1>0, <1>2, <2>2, <2>3, <3>1
      <3> QED
        BY <1>0, <1>8, <2>3, <3>2 DEF Aligned
    <2> QED
      BY <1>0, <1>2, <1>8, <2>2, <2>3, <2>4 DEF LoopInv, LoopTypes, DecodesUnlessCut
  <1> QED
    BY <1>5, <1>6, <1>7, <1>8

\* The read of the body.
LEMMA ReadBodyStep ==
  ASSUME LoopInv, ReadBody
  PROVE  LoopInv'
  <1> DEFINE got == Append(part, Piece(taken + 1))
  <1>0. /\ want > 0 /\ taken' = taken + 1 /\ want' = want - 1 /\ state = "open"
        /\ UNCHANGED <<framed, arrived, timer, silence, cut>>
    BY DEF ReadBody
  <1>P. Pieces' = Pieces
    BY <1>0 DEF Pieces
  <1>1. /\ got \in Seq(Parts) /\ Len(got) = Len(part) + 1
        /\ ~cut => /\ \A k \in 1..Len(got) : got[k] = <<Len(fed) + 1, Pieces[k]>>
                   /\ Len(got) = Len(Pieces) => got = Whole(Len(fed) + 1)
    BY NextPiece DEF LoopInv
  <1>2. Len(part) \in Nat /\ Len(fed) \in Nat /\ taken \in Nat /\ want \in Nat
    BY DEF LoopInv, LoopTypes
  <1>3. ~cut => framed /\ Len(part) = 2 /\ want = 1 /\ got = Whole(Len(fed) + 1)
    <2> SUFFICES ASSUME ~cut
                 PROVE  framed /\ Len(part) = 2 /\ want = 1 /\ got = Whole(Len(fed) + 1)
      OBVIOUS
    <2>1. framed /\ Len(part) = 2 /\ want = 1
      BY <1>0, <1>2 DEF LoopInv, Aligned
    <2>2. Len(Pieces) = 3
      BY <2>1, PiecesOf
    <2> HIDE DEF got
    <2> QED
      BY <1>1, <2>1, <2>2
  <1>4. CASE want > 1
    <2>1. part' = got /\ UNCHANGED <<state, wait, fed>>
      BY <1>4 DEF ReadBody
    <2>2. cut
      BY <1>2, <1>3, <1>4
    <2> HIDE DEF got
    <2> QED
      BY <1>0, <1>P, <1>1, <1>2, <2>1, <2>2 DEF LoopInv, LoopTypes, Aligned, IntactUnlessCut, DecodesUnlessCut
  <1>5. CASE ~(want > 1)
    <2>1. /\ part' = <<>> /\ fed' = Append(fed, got)
          /\ state' \in IF \A i \in DOMAIN fed' : fed'[i] = Whole(i) THEN {state}
                        ELSE {state, "bad_frame"}
      BY <1>5 DEF ReadBody
    <2> HIDE DEF got
    <2>2. /\ fed' \in Seq(Seq(Parts)) /\ Len(fed') = Len(fed) + 1
          /\ IntactUnlessCut'
          /\ ~cut => \A i \in DOMAIN fed' : fed'[i] = Whole(i)
      BY <1>0, <1>1, <1>3, <2>1, FedGrows DEF LoopInv
    <2>3. part' \in Seq(Parts) /\ Len(part') = 0
      BY <2>1
    <2>4. Aligned'
      <3> SUFFICES ASSUME ~cut PROVE Aligned'
        BY <1>0 DEF Aligned
      <3>1. taken = Len(fed) * 3 + Len(part) /\ Len(part) = 2 /\ want = 1 /\ framed
        BY <1>3 DEF LoopInv, Aligned
      <3>2. taken' = Len(fed') * 3 + Len(part') /\ want' = 0
        BY <1>0, <1>2, <2>2, <2>3, <3>1
      <3> QED
        BY <1>0, <2>3, <3>1, <3>2 DEF Aligned
    <2>5. state' \in {"open", "bad_frame"} /\ (~cut => state' = "open")
      BY <1>0, <2>1, <2>2
    <2> QED
      BY <1>0, <1>2, <2>2, <2>3, <2>4, <2>5 DEF LoopInv, LoopTypes, DecodesUnlessCut
  <1> QED
    BY <1>4, <1>5

-----------------------------------------------------------------------------
\* The inductive invariant of the message loop.
THEOREM LoopInductive == LoopSpec => []LoopInv
  <1>1. LoopInit => LoopInv
    <2> SUFFICES ASSUME LoopInit PROVE LoopInv
      OBVIOUS
    <2>1. Len(<<>>) = 0 /\ part = <<>> /\ fed = <<>> /\ taken = 0 /\ want = 0 /\ cut = FALSE
      BY DEF LoopInit
    <2>2. Aligned
      BY <2>1 DEF Aligned
    <2>3. LoopTypes
      <3>1. <<>> \in Seq(Parts) /\ <<>> \in Seq(Seq(Parts))
        OBVIOUS
      <3> QED
        BY <3>1 DEF LoopInit, LoopTypes
    <2>4. IntactUnlessCut /\ DecodesUnlessCut
      BY DEF LoopInit, IntactUnlessCut, DecodesUnlessCut
    <2> QED
      BY <2>2, <2>3, <2>4 DEF LoopInv
  <1>2. LoopInv /\ [LoopNext]_loopVars => LoopInv'
    <2> SUFFICES ASSUME LoopInv, [LoopNext]_loopVars PROVE LoopInv'
      OBVIOUS
    <2>0. UNCHANGED framed => Pieces' = Pieces /\ \A i : Whole(i)' = Whole(i)
      BY DEF Pieces, Whole
    <2> USE DEF LoopInv, LoopTypes, Aligned, IntactUnlessCut, DecodesUnlessCut
    <2>1. CASE Arrive
      BY <2>0, <2>1 DEF Arrive
    <2>2. CASE TimerFires
      <3>1. ~cut' => part = <<>> /\ part' = part /\ ~cut
        BY <2>2 DEF TimerFires
      <3>2. cut' \in BOOLEAN /\ part' \in Seq(Parts)
        BY <2>2 DEF TimerFires
      <3> QED
        BY <2>0, <2>2, <3>1, <3>2 DEF TimerFires
    <2>3. CASE IdleTimeout
      BY <2>0, <2>3 DEF IdleTimeout, timeVars
    <2>4. CASE Hangup
      BY <2>0, <2>4 DEF Hangup, timeVars
    <2>5. CASE TimePasses
      BY <2>0, <2>5 DEF TimePasses
    <2>6. CASE UNCHANGED loopVars
      BY <2>0, <2>6 DEF loopVars, timeVars
    <2> QED
      BY <2>1, <2>2, <2>3, <2>4, <2>5, <2>6, ReadStep, ReadBodyStep DEF LoopNext
  <1> QED
    BY <1>1, <1>2, PTL DEF LoopSpec

\* handle_client hands the client's messages to the decoder and the parser
\* whole, in order and each once, and decoding never fails, unless a timer
\* fell into a read: no other interleaving of arrivals, reads and timers
\* loses or mixes anything.
THEOREM Intact == LoopSpec => [](IntactUnlessCut /\ DecodesUnlessCut)
  <1>1. LoopInv => IntactUnlessCut /\ DecodesUnlessCut
    BY DEF LoopInv
  <1> QED
    BY <1>1, LoopInductive, PTL
=============================================================================

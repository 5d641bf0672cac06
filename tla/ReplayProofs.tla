---------------------------- MODULE ReplayProofs ----------------------------
(***************************************************************************)
(* Proofs about Replay for every capture, speed, clock skew, buffer and    *)
(* time limit, and whatever the server under test does.                    *)
(*                                                                         *)
(* The anchor is tied to the least lag by what the two hold                *)
(* (AnchorIsLeast).  ReplayedWhole needs that a feed shuts down after its  *)
(* last record only, and that no feed moves once they are joined           *)
(* (Places, Ended).  NoDrift needs that a feed that could write when time  *)
(* last advanced has come to a record, or passed one, that is not overdue  *)
(* (OnTime): the clock waits for records that are due, and a record that   *)
(* was not overdue is no more so when the next one's turn comes.           *)
(***************************************************************************)
EXTENDS Replay, TLAPS, SequenceTheorems

Types ==
  /\ now \in Nat
  /\ feed \in [Clients -> {"idle", "reply", "feeding", "drain", "done", "failed"}]
  /\ next \in [Clients -> Nat \ {0}]
  /\ flight \in [Clients -> Seq(Int)]
  /\ able \in [Clients -> BOOLEAN]

\* The least lag is the lag of the anchor.
AnchorIsLeast ==
  \/ anchor = <<>> /\ least = <<>>
  \/ anchor \in Int \X Int /\ least = <<Speed * anchor[1] + Skew - anchor[2]>>

\* How far a feed is in its records.
Places ==
  \A c \in Clients :
    /\ next[c] <= Len(Times[c]) + 1
    /\ feed[c] \in {"drain", "done"} => next[c] = Len(Times[c]) + 1

\* A feed has come to a record, or passed one, that is not overdue.
Punctual(c, n, t) == \E i \in 1..n : t <= T0 + Times[c][i]

\* A feed that could write when time last advanced is not late.
OnTime ==
  \A c \in Clients :
    able[c] => /\ feed[c] \notin {"idle", "reply"}
               /\ feed[c] = "feeding" /\ next[c] <= Len(Times[c]) => Punctual(c, next[c], now)

\* The run is over when the schedule is and the feeds are joined.
Ended == bench \in {"stopped", "written", "scored"} => now >= StopAt /\ Joined

IInv == Types /\ AnchorIsLeast /\ Places /\ OnTime /\ Ended

-----------------------------------------------------------------------------
\* Times and deadlines are numbers.
LEMMA Deadlines ==
  ASSUME NEW c \in Clients
  PROVE  /\ Len(Times[c]) \in Nat /\ DOMAIN Times[c] = 1..Len(Times[c])
         /\ \A i \in 1..Len(Times[c]) : Times[c][i] \in Nat
         /\ T0 \in Nat
  <1>1. Times[c] \in Seq(Nat) /\ T0 \in Nat
    BY ReplayAssumption
  <1> QED
    BY <1>1, LenProperties, ElementOfSeq

\* A step of a feed before it writes or after it has written everything.
LEMMA FeedMoves ==
  ASSUME IInv, NEW c \in Clients,
         FeedConnect(c) \/ FeedReply(c) \/ FeedShutdown(c) \/ FeedDone(c)
  PROVE  IInv'
  <1>1. PICK f : /\ f \in {"reply", "feeding", "drain", "done", "failed"}
                 /\ feed' = [feed EXCEPT ![c] = f]
                 /\ f = "reply" => feed[c] = "idle"
                 /\ f = "feeding" => feed[c] = "reply"
                 /\ f = "drain" => feed[c] = "feeding" /\ next[c] > Len(Times[c])
                 /\ f = "done" => feed[c] = "drain"
                 /\ feed[c] \in {"idle", "reply", "feeding", "drain"}
    BY DEF FeedConnect, FeedReply, FeedShutdown, FeedDone, Fails
  <1>2. UNCHANGED <<now, bench, next, flight, anchor, least, able>>
    BY DEF FeedConnect, FeedReply, FeedShutdown, FeedDone, netVars, runVars
  <1>3. feed'[c] = f /\ \A b \in Clients : b # c => feed'[b] = feed[b]
    BY <1>1 DEF IInv, Types
  <1>4. Types'
    BY <1>1, <1>2 DEF IInv, Types
  <1>5. AnchorIsLeast'
    BY <1>2 DEF IInv, AnchorIsLeast
  <1>6. Places'
    <2>1. next[c] > Len(Times[c]) => next[c] = Len(Times[c]) + 1
      BY Deadlines DEF IInv, Types, Places
    <2> QED
      BY <1>1, <1>2, <1>3, <2>1 DEF IInv, Places
  <1>7. OnTime'
    <2> SUFFICES ASSUME NEW b \in Clients, able[b]
                 PROVE  /\ feed'[b] \notin {"idle", "reply"}
                        /\ feed'[b] = "feeding" /\ next[b] <= Len(Times[b])
                             => Punctual(b, next[b], now)
      BY <1>2 DEF OnTime, Punctual
    <2>1. CASE b = c
      BY <1>1, <1>3, <2>1 DEF IInv, OnTime
    <2>2. CASE b # c
      BY <1>3, <2>2 DEF IInv, OnTime
    <2> QED
      BY <2>1, <2>2
  <1>8. Ended'
    BY <1>1, <1>2 DEF IInv, Ended, Joined, StopAt
  <1> QED
    BY <1>4, <1>5, <1>6, <1>7, <1>8 DEF IInv

\* A record is written, or cannot be.
LEMMA FeedSends ==
  ASSUME IInv, NEW c \in Clients, FeedSend(c)
  PROVE  IInv'
  <1>1. /\ feed[c] = "feeding" /\ next[c] <= Len(Times[c]) /\ now >= Due(c)
        /\ UNCHANGED <<now, bench, flight, anchor, least, able>>
        /\ UNCHANGED feed \/ feed' = [feed EXCEPT ![c] = "failed"]
        /\ next' = [next EXCEPT ![c] = @ + 1] \/ (UNCHANGED next /\ feed' = [feed EXCEPT ![c] = "failed"])
    BY DEF FeedSend, Ready, Fails, runVars
  <1>2. next[c] \in Nat \ {0}
    BY DEF IInv, Types
  <1>3. Types'
    <2>1. next[c] + 1 \in Nat \ {0}
      BY <1>2
    <2>2. next' \in [Clients -> Nat \ {0}]
      BY <1>1, <2>1 DEF IInv, Types
    <2> QED
      BY <1>1, <2>2 DEF IInv, Types
  <1>4. AnchorIsLeast'
    BY <1>1 DEF IInv, AnchorIsLeast
  <1>5. Ended'
    BY <1>1 DEF IInv, Ended, Joined, StopAt
  <1>6. CASE next' = [next EXCEPT ![c] = @ + 1] /\ UNCHANGED feed
    <2>1. next'[c] = next[c] + 1 /\ \A b \in Clients : b # c => next'[b] = next[b]
      BY <1>6 DEF IInv, Types
    <2>2. Places'
      BY <1>1, <1>2, <1>6, <2>1, Deadlines DEF IInv, Places
    <2>3. ASSUME able[c] PROVE Punctual(c, next[c] + 1, now)
      <3>1. PICK i \in 1..next[c] : now <= T0 + Times[c][i]
        BY <1>1, <2>3 DEF IInv, OnTime, Punctual
      <3>2. i \in 1..(next[c] + 1)
        BY <1>2
      <3> QED
        BY <3>1, <3>2 DEF Punctual
    <2>4. OnTime'
      <3> SUFFICES ASSUME NEW b \in Clients, able[b]
                   PROVE  /\ feed[b] \notin {"idle", "reply"}
                          /\ feed[b] = "feeding" /\ next'[b] <= Len(Times[b])
                               => Punctual(b, next'[b], now)
        BY <1>1, <1>6 DEF OnTime, Punctual
      <3>1. CASE b = c
        BY <1>1, <2>1, <2>3, <3>1
      <3>2. CASE b # c
        BY <2>1, <3>2 DEF IInv, OnTime
      <3> QED
        BY <3>1, <3>2
    <2> QED
      BY <1>3, <1>4, <1>5, <2>2, <2>4 DEF IInv
  <1>7. CASE feed' = [feed EXCEPT ![c] = "failed"]
    <2>1. /\ feed'[c] = "failed" /\ next'[c] \in {next[c], next[c] + 1}
          /\ \A b \in Clients : b # c => feed'[b] = feed[b] /\ next'[b] = next[b]
      BY <1>1, <1>7 DEF IInv, Types
    <2>2. Places'
      BY <1>1, <1>2, <2>1, Deadlines DEF IInv, Places
    <2>3. OnTime'
      BY <1>1, <2>1 DEF IInv, OnTime, Punctual
    <2> QED
      BY <1>3, <1>4, <1>5, <2>2, <2>3 DEF IInv
  <1> QED
    BY <1>1, <1>6, <1>7

\* A heartbeat replaces the anchor exactly when its lag is less.
LEMMA Hears ==
  ASSUME IInv, NEW c \in Clients, Hear(c)
  PROVE  IInv'
  <1> DEFINE st == Head(flight[c])
             lag == ServerTime(now) - st
  <1>1. /\ flight[c] # <<>>
        /\ anchor' = IF Better(now, st) THEN <<now, st>> ELSE anchor
        /\ least' = IF least = <<>> \/ lag < least[1] THEN <<lag>> ELSE least
        /\ flight' = [flight EXCEPT ![c] = Tail(@)]
        /\ UNCHANGED <<now, bench, feed, next, able>>
    BY DEF Hear, runVars, feedVars
  <1>2. st \in Int /\ Tail(flight[c]) \in Seq(Int) /\ now \in Int
    BY <1>1, HeadTailProperties DEF IInv, Types
  <1>3. Types'
    BY <1>1, <1>2 DEF IInv, Types
  <1>4. Places' /\ OnTime' /\ Ended'
    BY <1>1 DEF IInv, Places, OnTime, Punctual, Ended, Joined, StopAt
  <1>5. AnchorIsLeast'
    <2>1. PICK u \in Int : u = Speed * now
      BY <1>2, ReplayAssumption
    <2>2. lag = u + Skew - st /\ Skew \in Int
      <3>1. Skew \in Int
        BY ReplayAssumption
      <3>2. ServerTime(now) = u + Skew
        BY <2>1 DEF ServerTime
      <3>3. lag = (u + Skew) - st
        BY <3>2
      <3> HIDE DEF lag, st
      <3> QED
        BY <1>2, <3>1, <3>3
    <2> HIDE DEF st, lag
    <2>3. CASE anchor = <<>> /\ least = <<>>
      <3>1. anchor' = <<now, st>> /\ least' = <<lag>>
        BY <1>1, <2>3 DEF Better
      <3> QED
        BY <1>2, <2>1, <2>2, <3>1 DEF AnchorIsLeast
    <2>4. ASSUME NEW t \in Int, NEW s \in Int, anchor = <<t, s>>, least = <<Speed * t + Skew - s>>
          PROVE  AnchorIsLeast'
      <3>1. PICK v \in Int : v = Speed * t
        BY ReplayAssumption
      <3>2. Better(now, st) <=> st - u > s - v
        BY <2>1, <2>4, <3>1 DEF Better
      <3>3. least[1] = v + Skew - s /\ least # <<>>
        BY <2>4, <3>1
      <3>4. Better(now, st) <=> lag < least[1]
        BY <1>2, <2>2, <3>2, <3>3
      <3>5. CASE Better(now, st)
        <4>1. anchor' = <<now, st>> /\ least' = <<Speed * now + Skew - st>>
          BY <1>1, <2>1, <2>2, <3>4, <3>5
        <4> QED
          BY <1>2, <4>1 DEF AnchorIsLeast
      <3>6. CASE ~Better(now, st)
        <4>1. anchor' = anchor /\ least' = least
          BY <1>1, <3>3, <3>4, <3>6
        <4> QED
          BY <2>4, <4>1 DEF AnchorIsLeast
      <3> QED
        BY <3>5, <3>6
    <2>5. CASE anchor \in Int \X Int /\ least = <<Speed * anchor[1] + Skew - anchor[2]>>
      <3>1. anchor[1] \in Int /\ anchor[2] \in Int /\ anchor = <<anchor[1], anchor[2]>>
        BY <2>5
      <3> QED
        BY <2>4, <2>5, <3>1
    <2> QED
      BY <2>3, <2>5 DEF IInv, AnchorIsLeast
  <1> QED
    BY <1>3, <1>4, <1>5 DEF IInv

\* What the server does reaches the feeds through the sockets only.
LEMMA ServerMoves ==
  ASSUME IInv, NEW c \in Clients, ServerStep(c)
  PROVE  IInv'
  <1>1. UNCHANGED <<now, bench, feed, next, anchor, least, able>>
    BY DEF ServerStep, ServerBeats, ServerReads, ServerCloses, ServerStalls, ServerResumes, runVars, feedVars
  <1>2. flight' \in [Clients -> Seq(Int)]
    <2>1. CASE ServerBeats(c)
      <3>1. ServerTime(now) \in Int
        BY ReplayAssumption DEF ServerTime, IInv, Types
      <3>2. flight[c] \in Seq(Int) /\ flight' = [flight EXCEPT ![c] = Append(@, ServerTime(now))]
        BY <2>1 DEF ServerBeats, IInv, Types
      <3>3. Append(flight[c], ServerTime(now)) \in Seq(Int)
        BY <3>1, <3>2, AppendProperties
      <3> QED
        BY <3>2, <3>3 DEF IInv, Types
    <2>2. CASE ~ServerBeats(c)
      BY <2>2 DEF ServerStep, ServerReads, ServerCloses, ServerStalls, ServerResumes, IInv, Types
    <2> QED
      BY <2>1, <2>2
  <1> QED
    BY <1>1, <1>2 DEF IInv, Types, AnchorIsLeast, Places, OnTime, Punctual, Ended, Joined, StopAt

\* The run around the feeds.
LEMMA RunMoves ==
  ASSUME IInv, RunStep
  PROVE  IInv'
  <1>1. UNCHANGED <<now, feed, next, flight, anchor, least, able>>
    BY DEF RunStep, OracleUp, CollectorsJoined, DriveEnds, DriveClientsOnlyEnds, Finish, FinishExternal,
           Score, feedVars, netVars
  <1>2. Ended'
    BY <1>1 DEF RunStep, OracleUp, CollectorsJoined, DriveEnds, DriveClientsOnlyEnds, Finish, FinishExternal,
                Score, Played, IInv, Ended, Joined, StopAt
  <1> QED
    BY <1>1, <1>2 DEF IInv, Types, AnchorIsLeast, Places, OnTime, Punctual

\* Time passes only when no feed has a record that is due and can be written.
LEMMA Ticks ==
  ASSUME IInv, Tick
  PROVE  IInv'
  <1>1. /\ now' = now + 1 /\ \A c \in Clients : ~Ready(c)
        /\ able' = [c \in Clients |-> feed[c] = "feeding" /\ Room(c)]
        /\ UNCHANGED <<bench, feed, next, flight, anchor, least>>
    BY DEF Tick, runVars, feedVars, netVars
  <1>2. now \in Nat /\ StopAt \in Nat
    BY ReplayAssumption DEF IInv, Types, StopAt
  <1>3. Types'
    BY <1>1, <1>2 DEF IInv, Types
  <1>4. AnchorIsLeast' /\ Places'
    BY <1>1 DEF IInv, AnchorIsLeast, Places
  <1>5. Ended'
    <2>1. StopAt' = StopAt /\ (Joined <=> Joined')
      BY <1>1 DEF StopAt, Joined
    <2> QED
      BY <1>1, <1>2, <2>1 DEF IInv, Ended
  <1>6. OnTime'
    <2> SUFFICES ASSUME NEW c \in Clients, able'[c]
                 PROVE  /\ feed[c] \notin {"idle", "reply"}
                        /\ feed[c] = "feeding" /\ next[c] <= Len(Times[c])
                             => Punctual(c, next[c], now + 1)
      BY <1>1 DEF OnTime, Punctual
    <2>1. feed[c] = "feeding" /\ Room(c)
      BY <1>1
    <2>2. ASSUME next[c] <= Len(Times[c]) PROVE Punctual(c, next[c], now + 1)
      <3>1. ~(now >= Due(c))
        BY <1>1, <2>1, <2>2 DEF Ready
      <3>2. Due(c) \in Nat
        BY <2>2, Deadlines DEF Due, IInv, Types
      <3>3. now + 1 <= Due(c)
        BY <1>2, <3>1, <3>2
      <3>4. next[c] \in 1..next[c]
        BY DEF IInv, Types
      <3> QED
        BY <3>3, <3>4 DEF Due, Punctual
    <2> QED
      BY <2>1, <2>2
  <1> QED
    BY <1>3, <1>4, <1>5, <1>6 DEF IInv

-----------------------------------------------------------------------------
\* The inductive invariant holds in every state of every replay.
THEOREM ReplayInductive == Spec => []IInv
  <1>1. Init => IInv
    <2> SUFFICES ASSUME Init PROVE IInv
      OBVIOUS
    <2>1. \A c \in Clients : Len(Times[c]) \in Nat
      BY Deadlines
    <2>2. Places
      BY <2>1 DEF Init, Places
    <2> QED
      BY <2>2 DEF Init, Managed, External, IInv, Types, AnchorIsLeast, OnTime, Ended
  <1>2. IInv /\ [Next]_vars => IInv'
    <2> SUFFICES ASSUME IInv, [Next]_vars PROVE IInv'
      OBVIOUS
    <2>1. ASSUME NEW c \in Clients, FeedStep(c) \/ Hear(c) \/ ServerStep(c)
          PROVE  IInv'
      BY <2>1, FeedMoves, FeedSends, Hears, ServerMoves DEF FeedStep
    <2>2. CASE UNCHANGED vars
      BY <2>2 DEF vars, runVars, feedVars, netVars, IInv, Types, AnchorIsLeast, Places, OnTime, Punctual,
                  Ended, Joined, StopAt
    <2> QED
      BY <2>1, <2>2, RunMoves, Ticks DEF Next
  <1> QED
    BY <1>1, <1>2, PTL DEF Spec

\* The anchor that score uses has the least read lag of all heartbeats,
\* whichever reader of run took it and in whatever order.
THEOREM AnchoredBest == Spec => []ScoredWithLeastLag
  <1>1. IInv => ScoredWithLeastLag
    <2> SUFFICES ASSUME IInv, anchor # <<>> PROVE ServerTime(T0) - EffectiveT0 = least[1]
      BY DEF ScoredWithLeastLag
    <2>1. PICK t \in Int, st \in Int : anchor = <<t, st>> /\ least = <<Speed * t + Skew - st>>
      <3>1. anchor[1] \in Int /\ anchor[2] \in Int /\ anchor = <<anchor[1], anchor[2]>>
            /\ least = <<Speed * anchor[1] + Skew - anchor[2]>>
        BY DEF IInv, AnchorIsLeast
      <3> QED
        BY <3>1
    <2>2. Speed \in Int /\ Skew \in Int /\ T0 \in Int
      BY ReplayAssumption
    <2>3. (t - T0) * Speed = Speed * t - Speed * T0
      BY <2>2
    <2>4. Speed * t \in Int /\ Speed * T0 \in Int
      BY <2>2
    <2>5. anchor[1] = t /\ anchor[2] = st /\ least[1] = Speed * t + Skew - st
      BY <2>1
    <2>6. EffectiveT0 = st - (Speed * t - Speed * T0)
      BY <2>3, <2>5 DEF EffectiveT0
    <2> QED
      BY <2>2, <2>4, <2>5, <2>6 DEF ServerTime
  <1> QED
    BY <1>1, ReplayInductive, PTL

\* run writes run.json only after every client that did not fail was replayed
\* to its last record and the whole schedule has passed.
THEOREM WrittenIsWhole == Spec => []ReplayedWhole
  <1>1. IInv => ReplayedWhole
    BY DEF IInv, Ended, Joined, Places, ReplayedWhole
  <1> QED
    BY <1>1, ReplayInductive, PTL

\* feed_client's deadlines are absolute: a record is late only if its feed
\* could not write at the instant before, or waited for its turn behind a record
\* of the file that was not overdue.
THEOREM ScheduleDoesNotDrift == Spec => NoDrift
  <1> DEFINE A == \A c \in Clients :
                    next'[c] # next[c] /\ (\A i \in 1..next[c] : now > T0 + Times[c][i]) => ~able[c]
  <1>1. IInv /\ [Next]_vars => [A]_vars
    <2> SUFFICES ASSUME IInv, Next, NEW c \in Clients, next'[c] # next[c],
                        \A i \in 1..next[c] : now > T0 + Times[c][i]
                 PROVE  ~able[c]
      OBVIOUS
    <2>1. FeedSend(c)
      <3>1. ASSUME NEW b \in Clients, FeedSend(b), b # c
            PROVE  next'[c] = next[c]
        BY <3>1 DEF FeedSend, IInv, Types
      <3>2. ASSUME NEW b \in Clients, FeedStep(b), ~FeedSend(b)
            PROVE  next'[c] = next[c]
        BY <3>2 DEF FeedStep, FeedConnect, FeedReply, FeedShutdown, FeedDone
      <3>3. ASSUME NEW b \in Clients, Hear(b) \/ ServerStep(b)
            PROVE  next'[c] = next[c]
        BY <3>3 DEF Hear, ServerStep, ServerBeats, ServerReads, ServerCloses, ServerStalls, ServerResumes,
                    feedVars
      <3>4. ASSUME RunStep \/ Tick
            PROVE  next'[c] = next[c]
        BY <3>4 DEF RunStep, OracleUp, CollectorsJoined, DriveEnds, DriveClientsOnlyEnds, Finish,
                    FinishExternal, Score, Tick, feedVars
      <3> QED
        BY <3>1, <3>2, <3>3, <3>4 DEF Next
    <2>2. feed[c] = "feeding" /\ next[c] <= Len(Times[c])
      BY <2>1 DEF FeedSend, Ready
    <2>3. \A i \in 1..next[c] : T0 + Times[c][i] \in Nat
      <3>1. \A i \in 1..next[c] : i \in 1..Len(Times[c])
        BY <2>2, Deadlines DEF IInv, Types
      <3> QED
        BY <3>1, Deadlines
    <2>4. ~Punctual(c, next[c], now)
      BY <2>3 DEF Punctual, IInv, Types
    <2> QED
      BY <2>2, <2>4 DEF IInv, OnTime
  <1> QED
    BY <1>1, ReplayInductive, PTL DEF Spec, NoDrift
=============================================================================

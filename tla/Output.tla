------------------------------- MODULE Output -------------------------------
(***************************************************************************)
(* The way of a fix from the shards to its readers: the lossy queue to the *)
(* output task, its territory gate and twin filter (the output task of     *)
(* crates/mlatd/src/main.rs), and the broadcast to the SBS consumers and   *)
(* the result forwarders, over the router whose map the gate reads.        *)
(*                                                                         *)
(* A transmission is an aircraft and a time.  A fix is one shard's solve   *)
(* of a transmission: the shards place and stamp it independently, and a   *)
(* stamp is off by at most MaxSkew.  The receivers a shard has are not     *)
(* represented: any shard may solve any transmission, once.  home is a     *)
(* history field: the owner of the position when the fix was published.    *)
(***************************************************************************)
EXTENDS Router, Sequences, Functions

CONSTANTS
  Aircraft,    \* addresses
  Times,       \* transmission times
  MaxSkew,     \* bound: how far a stamp is from its transmission
  BucketLen,   \* width of a time bucket of the twin filter (100 ms)
  OutCap,      \* length of the queue to the output task (4096)
  RecentCap,   \* keys the twin filter remembers (4096)
  RingCap,     \* fixes the broadcast channel keeps (1024)
  Readers      \* SBS consumers and result forwarders

ASSUME OutputAssumption ==
  /\ Times \subseteq Nat /\ MaxSkew \in Nat
  /\ BucketLen \in Nat \ {0}
  /\ OutCap \in Nat /\ RecentCap \in Nat \ {0} /\ RingCap \in Nat \ {0}

VARIABLES
  solved,      \* history: <<shard, aircraft, time>> solved so far
  out,         \* the queue to the output task
  order,       \* keys of the twin filter, oldest first
  published,   \* history: every fix published
  reader       \* per reader: subscription point, next fix, and what it got

outVars == <<solved, out, order, published, reader>>
vars == <<routerVars, outVars>>

Key(f) == <<f.icao, f.stamp \div BucketLen>>

\* A shard accepts a solve and emits the fix: try_send drops it when the
\* queue is full.
Emit(s, a, t, skew, p) ==
  /\ <<s, a, t>> \notin solved
  /\ solved' = solved \cup {<<s, a, t>>}
  /\ out' = IF Len(out) < OutCap
            THEN Append(out, [shard |-> s, icao |-> a, time |-> t, stamp |-> t + skew,
                              pos |-> p, home |-> None])
            ELSE out
  /\ UNCHANGED <<routerVars, order, published, reader>>

\* Mutation: no territory gate.
AnyTerritory(f) == TRUE

\* The territory gate: a fix passes if its position is its shard's, or
\* nobody's.
InTerritory(f) == OwnerAt(f.pos) \in {None, f.shard}

\* Mutation: the newest key is forgotten, not the oldest.
ForgetNewest(q) == IF Len(q) > RecentCap THEN SubSeq(q, 1, RecentCap) ELSE q

\* The keys the twin filter keeps: the last RecentCap.
Remembered(q) == IF Len(q) > RecentCap THEN Tail(q) ELSE q

\* A fix as it is published.
Published(f) == [f EXCEPT !.home = OwnerAt(f.pos)]

\* The output task takes a fix.
Take ==
  LET f    == Head(out)
      pass == InTerritory(f) /\ Key(f) \notin Range(order)
  IN  /\ out # <<>>
      /\ out' = Tail(out)
      /\ order' = IF pass THEN Remembered(Append(order, Key(f))) ELSE order
      /\ published' = IF pass THEN Append(published, Published(f)) ELSE published
      /\ UNCHANGED <<routerVars, solved, reader>>

\* A reader subscribes: it gets what is published from now on.
Subscribe(r) ==
  /\ reader[r].state = "new"
  /\ reader' = [reader EXCEPT ![r] = [state |-> "on", from |-> Len(published),
                                      next |-> Len(published) + 1, got |-> <<>>]]
  /\ UNCHANGED <<routerVars, solved, out, order, published>>

\* The reader fell behind the ring: its next fix is overwritten.
Lagged(r) == Len(published) - reader[r].next >= RingCap

\* Mutation: a reader that lagged goes on with the oldest fix in the ring.
ResumeAfterLag(r) == [reader[r] EXCEPT !.next = Len(published) - RingCap + 1]

\* recv answers Lagged: the reader's loop ends.
AfterLag(r) == [reader[r] EXCEPT !.state = "off"]

\* recv answers the next fix, which is written out.
Passed(r) == [reader[r] EXCEPT !.next = @ + 1, !.got = Append(@, published[reader[r].next])]

\* A reader's recv: the next fix is passed on, or its loop ends.
Forward(r) ==
  /\ reader[r].state = "on" /\ reader[r].next <= Len(published)
  /\ reader' = [reader EXCEPT ![r] =
                  IF Lagged(r) THEN AfterLag(r) ELSE Passed(r)]
  /\ UNCHANGED <<routerVars, solved, out, order, published>>

Init ==
  /\ RouterInit
  /\ solved = {} /\ out = <<>> /\ order = <<>> /\ published = <<>>
  /\ reader = [r \in Readers |-> [state |-> "new", from |-> 0, next |-> 1, got |-> <<>>]]

Next ==
  \/ RouterNext /\ UNCHANGED outVars
  \/ \E s \in Shards, a \in Aircraft, t \in Times, skew \in 0..MaxSkew, p \in Positions :
       Emit(s, a, t, skew, p)
  \/ Take
  \/ \E r \in Readers : Subscribe(r) \/ Forward(r)

Spec == Init /\ [][Next]_vars

-----------------------------------------------------------------------------
(* Properties.                                                             *)

\* Nothing is published twice within the filter's memory: two published fixes
\* with one key are at least RecentCap other published fixes apart.
TwinsApart ==
  \A i, j \in DOMAIN published :
    i < j /\ Key(published[i]) = Key(published[j]) => j - i > RecentCap

\* A reader's stream has no gap: from its subscription on it is passed every
\* published fix in order, and when it lags it gets nothing more rather than
\* a stream with a hole.
StreamsHaveNoGap ==
  \A r \in Readers :
    reader[r].got = SubSeq(published, reader[r].from + 1, reader[r].from + Len(reader[r].got))

\* Claimed ground has one voice: two solves of one transmission at one
\* position are never both published under the same owner of that position,
\* however their stamps differ, in whatever order they reach the output task
\* and whatever is claimed around it meanwhile.
ClaimedGroundOnce ==
  \A i, j \in DOMAIN published :
    LET f == published[i]  g == published[j]
    IN  /\ f.icao = g.icao /\ f.time = g.time /\ f.pos = g.pos
        /\ f.home = g.home /\ f.home # None
        => i = j
=============================================================================

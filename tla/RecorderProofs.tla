--------------------------- MODULE RecorderProofs ---------------------------
(***************************************************************************)
(* Proofs about Recorder for any connections, any traffic and every        *)
(* duration.                                                               *)
(*                                                                         *)
(* CaptureWhole speaks of a finished capture; inductive is what holds of   *)
(* the files at every moment: their shape, how it goes with the progress   *)
(* of their taps (Stages), and that a manifest is only there when every    *)
(* tap has ended (Final).  RecordedFirst is inductive once it says which   *)
(* of the two lengths a file has: what was written and no more, or the     *)
(* very chunk the pump is about to write as well (Logged).  Of a file that *)
(* a kill left open only a beginning remains, which has neither length:    *)
(* there the file's chunks are the first of what was written (Lost).       *)
(***************************************************************************)
EXTENDS Recorder, TLAPS, SequenceTheorems, FiniteSetTheorems, WellFoundedInduction

Sock == [in: Seq(Nat), eof: BOOLEAN, out: Seq(Nat), fin: BOOLEAN]
Pump == [st: {"read", "held", "write", "end"}, x: Seq(Nat)]
Recs == [t: Nat, kind: {"connect", "c2s", "s2c", "disconnect"}, x: Nat]

SockType == sock \in [Conns -> [Directions -> Sock]]
PumpType == /\ pump \in [Conns -> [Directions -> Pump]]
            /\ \A c \in Conns, d \in Directions :
                 pump[c][d].st \in {"held", "write"} => pump[c][d].x[2] \in Nat
FileType == file \in [Conns -> Seq(Recs)]

Types ==
  /\ now \in Nat /\ phase \in {"recording", "cut", "done", "crashed"}
  /\ tap \in [Conns -> {"none", "open", "hello", "forward", "register", "pump", "ended", "cut", "killed"}]
  /\ SockType /\ PumpType /\ FileType
  /\ entries \in Seq(Conns)

-----------------------------------------------------------------------------
(* The sockets.                                                            *)

\* One direction of one connection changes, in a table of both.
LEMMA TableAt ==
  ASSUME NEW S, NEW s \in [Conns -> [Directions -> S]], NEW c \in Conns, NEW d \in Directions,
         NEW e \in S, NEW t, t = [s EXCEPT ![c] = [s[c] EXCEPT ![d] = e]]
  PROVE  /\ t \in [Conns -> [Directions -> S]] /\ t[c][d] = e
         /\ \A b \in Conns, f \in Directions : b # c \/ f # d => t[b][f] = s[b][f]
  <1>1. s[c] \in [Directions -> S]
    OBVIOUS
  <1> DEFINE g == [s[c] EXCEPT ![d] = e]
  <1>2. g \in [Directions -> S] /\ g[d] = e /\ \A f \in Directions : f # d => g[f] = s[c][f]
    BY <1>1
  <1>3. t = [s EXCEPT ![c] = g]
    OBVIOUS
  <1> HIDE DEF g
  <1>4. t \in [Conns -> [Directions -> S]] /\ t[c] = g /\ \A b \in Conns : b # c => t[b] = s[b]
    BY <1>2, <1>3
  <1>5. \A b \in Conns, f \in Directions : b # c \/ f # d => t[b][f] = s[b][f]
    BY <1>2, <1>4
  <1> QED
    BY <1>2, <1>4, <1>5

\* What a step that does not write does to a direction.
LEMMA SockKeeps ==
  ASSUME SockType, NEW c \in Conns, NEW d \in Directions, NEW q \in Seq(Nat),
         \/ sock' = [sock EXCEPT ![c][d].in = q]
         \/ sock' = [sock EXCEPT ![c][d].fin = TRUE]
         \/ sock' = [sock EXCEPT ![c][d].eof = TRUE]
  PROVE  SockType' /\ \A b \in Conns, f \in Directions : sock'[b][f].out = sock[b][f].out
  <1>1. sock[c][d] \in Sock
    BY DEF SockType
  <1>2. ASSUME NEW e \in Sock, e.out = sock[c][d].out,
               sock' = [sock EXCEPT ![c] = [sock[c] EXCEPT ![d] = e]]
        PROVE  SockType' /\ \A b \in Conns, f \in Directions : sock'[b][f].out = sock[b][f].out
    <2>1. /\ SockType' /\ sock'[c][d] = e
          /\ \A b \in Conns, f \in Directions : b # c \/ f # d => sock'[b][f] = sock[b][f]
      <3>1. sock \in [Conns -> [Directions -> Sock]]
        BY DEF SockType
      <3> QED
        BY <1>2, <3>1, TableAt DEF SockType
    <2> QED
      BY <1>2, <2>1
  <1>3. CASE sock' = [sock EXCEPT ![c][d].in = q]
    <2> DEFINE e == [sock[c][d] EXCEPT !.in = q]
    <2>1. e \in Sock /\ e.out = sock[c][d].out
      BY <1>1 DEF Sock
    <2>2. sock' = [sock EXCEPT ![c] = [sock[c] EXCEPT ![d] = e]]
      BY <1>3
    <2> QED
      BY <1>2, <2>1, <2>2
  <1>4. CASE sock' = [sock EXCEPT ![c][d].fin = TRUE]
    <2> DEFINE e == [sock[c][d] EXCEPT !.fin = TRUE]
    <2>1. e \in Sock /\ e.out = sock[c][d].out
      BY <1>1 DEF Sock
    <2>2. sock' = [sock EXCEPT ![c] = [sock[c] EXCEPT ![d] = e]]
      BY <1>4
    <2> QED
      BY <1>2, <2>1, <2>2
  <1>5. CASE sock' = [sock EXCEPT ![c][d].eof = TRUE]
    <2> DEFINE e == [sock[c][d] EXCEPT !.eof = TRUE]
    <2>1. e \in Sock /\ e.out = sock[c][d].out
      BY <1>1 DEF Sock
    <2>2. sock' = [sock EXCEPT ![c] = [sock[c] EXCEPT ![d] = e]]
      BY <1>5
    <2> QED
      BY <1>2, <2>1, <2>2
  <1> QED
    BY <1>3, <1>4, <1>5

\* A chunk is written to the far side.
LEMMA SockOut ==
  ASSUME SockType, NEW c \in Conns, NEW d \in Directions, NEW x \in Nat,
         sock' = [sock EXCEPT ![c][d].out = Append(@, x)]
  PROVE  /\ SockType' /\ sock'[c][d].out = Append(sock[c][d].out, x)
         /\ \A b \in Conns, f \in Directions :
              b # c \/ f # d => sock'[b][f].out = sock[b][f].out
  <1>1. sock[c][d] \in Sock
    BY DEF SockType
  <1>2. PICK q \in Seq(Nat) : q = Append(sock[c][d].out, x)
    BY <1>1, AppendProperties DEF Sock
  <1>3. PICK e \in Sock : e = [sock[c][d] EXCEPT !.out = q]
    BY <1>1, <1>2 DEF Sock
  <1>4. e.out = q
    BY <1>1, <1>3 DEF Sock
  <1>5. sock' = [sock EXCEPT ![c] = [sock[c] EXCEPT ![d] = e]]
    BY <1>2, <1>3
  <1>6. sock \in [Conns -> [Directions -> Sock]]
    BY DEF SockType
  <1>7. /\ sock' \in [Conns -> [Directions -> Sock]] /\ sock'[c][d] = e
        /\ \A b \in Conns, f \in Directions : b # c \/ f # d => sock'[b][f] = sock[b][f]
    <2>1. ASSUME NEW t, t = [sock EXCEPT ![c] = [sock[c] EXCEPT ![d] = e]]
          PROVE  /\ t \in [Conns -> [Directions -> Sock]] /\ t[c][d] = e
                 /\ \A b \in Conns, f \in Directions : b # c \/ f # d => t[b][f] = sock[b][f]
      BY <1>6, <2>1, TableAt
    <2> QED
      BY <1>5, <2>1
  <1> QED
    BY <1>2, <1>4, <1>7 DEF SockType

\* Both sockets of a connection are dropped.
LEMMA SockHangup ==
  ASSUME SockType, NEW c \in Conns
  PROVE  /\ Hangup(c) \in [Conns -> [Directions -> Sock]]
         /\ \A b \in Conns, f \in Directions : Hangup(c)[b][f].out = sock[b][f].out
  <1> DEFINE g == [d \in Directions |-> [sock[c][d] EXCEPT !.eof = TRUE, !.fin = TRUE]]
  <1>1. \A d \in Directions : sock[c][d] \in Sock
    BY DEF SockType
  <1>2. g \in [Directions -> Sock] /\ \A f \in Directions : g[f].out = sock[c][f].out
    BY <1>1 DEF Sock
  <1>3. Hangup(c) = [sock EXCEPT ![c] = g]
    BY DEF Hangup
  <1> HIDE DEF g
  <1> QED
    BY <1>2, <1>3 DEF SockType

\* A read returns a chunk.
LEMMA SockHead ==
  ASSUME SockType, NEW c \in Conns, NEW d \in Directions, sock[c][d].in # <<>>
  PROVE  Head(sock[c][d].in) \in Nat /\ Tail(sock[c][d].in) \in Seq(Nat)
  <1>1. sock[c][d].in \in Seq(Nat)
    BY DEF SockType, Sock
  <1> QED
    BY <1>1, HeadTailProperties

-----------------------------------------------------------------------------
(* The types.                                                              *)

\* One pump changes.
LEMMA PumpAt ==
  ASSUME PumpType, NEW c \in Conns, NEW d \in Directions, NEW e \in Pump,
         e.st \in {"held", "write"} => e.x[2] \in Nat,
         pump' = [pump EXCEPT ![c] = [pump[c] EXCEPT ![d] = e]]
  PROVE  /\ PumpType' /\ pump'[c][d] = e
         /\ \A b \in Conns, f \in Directions : b # c \/ f # d => pump'[b][f] = pump[b][f]
  <1>1. pump[c] \in [Directions -> Pump]
    BY DEF PumpType
  <1> DEFINE g == [pump[c] EXCEPT ![d] = e]
  <1>2. g \in [Directions -> Pump] /\ g[d] = e /\ \A f \in Directions : f # d => g[f] = pump[c][f]
    BY <1>1
  <1>3. pump' = [pump EXCEPT ![c] = g]
    OBVIOUS
  <1> HIDE DEF g
  <1>4. /\ pump' \in [Conns -> [Directions -> Pump]] /\ pump'[c] = g
        /\ \A b \in Conns : b # c => pump'[b] = pump[b]
    BY <1>2, <1>3 DEF PumpType
  <1>5. \A b \in Conns, f \in Directions : b # c \/ f # d => pump'[b][f] = pump[b][f]
    BY <1>2, <1>4
  <1>6. pump'[c][d] = e
    BY <1>2, <1>4
  <1> QED
    BY <1>4, <1>5, <1>6 DEF PumpType

\* A tap ends before it pumps.
Quits(c) ==
  /\ tap[c] \in {"hello", "forward"} /\ tap' = [tap EXCEPT ![c] = "ended"] /\ sock' = Hangup(c)
  /\ UNCHANGED <<now, phase, pump, file, entries, manifest>>

\* The steps that change no file and write nothing.
Quiet(c) ==
  \/ Quits(c) \/ Accept(c) \/ Upstream(c) \/ Cut(c) \/ ServerStalls(c)
  \/ \E d \in Directions : Read(c, d) \/ WriteFails(c, d) \/ Eof(c, d) \/ ReadFails(c, d)
                           \/ PeerSends(c, d) \/ PeerCloses(c, d)
  \/ Register(c)

SameLogs ==
  /\ UNCHANGED file
  /\ \A b \in Conns, f \in Directions : sock'[b][f].out = sock[b][f].out

\* The chunks of a direction are counted.
LEMMA MadeNat ==
  ASSUME Types, NEW c \in Conns, NEW d \in Directions
  PROVE  Made(c, d) \in Nat
  <1> DEFINE T == {i \in DOMAIN file[c] : file[c][i].kind = d}
             q == sock[c][d].in
             h == IF pump[c][d].st = "held" THEN 1 ELSE 0
  <1>1. file[c] \in Seq(Recs)
    BY DEF Types, FileType
  <1>2. DOMAIN file[c] = 1..Len(file[c]) /\ Len(file[c]) \in Nat
    BY <1>1, LenProperties
  <1>3. IsFiniteSet(1..Len(file[c]))
    BY <1>2, FS_Interval
  <1>4. T \subseteq 1..Len(file[c])
    BY <1>2
  <1>5. IsFiniteSet(T)
    BY <1>3, <1>4, FS_Subset
  <1>6. Cardinality(T) \in Nat
    BY <1>5, FS_CardinalityType
  <1>7. Len(q) \in Nat /\ h \in Nat
    <2>1. q \in Seq(Nat)
      BY DEF Types, SockType, Sock
    <2> QED
      BY <2>1, LenProperties
  <1>8. Made(c, d) = Len(q) + h + Cardinality(T)
    BY DEF Made
  <1> HIDE DEF T, q, h
  <1> QED
    BY <1>6, <1>7, <1>8

\* One more element of a sequence.
LEMMA RangeOfAppend ==
  ASSUME NEW S, NEW q \in Seq(S), NEW m \in S
  PROVE  Range(Append(q, m)) = Range(q) \cup {m}
  <1> DEFINE n == Len(q)
             a == Append(q, m)
  <1>1. /\ n \in Nat /\ DOMAIN q = 1..n /\ DOMAIN a = 1..(n + 1) /\ a[n + 1] = m
        /\ \A i \in 1..n : a[i] = q[i]
    BY AppendProperties, LenProperties
  <1>2. Range(q) = {q[i] : i \in 1..n} /\ Range(a) = {a[i] : i \in 1..(n + 1)}
    BY <1>1 DEF Range
  <1> HIDE DEF n, a
  <1>3. /\ \A i \in 1..(n + 1) : i \in 1..n \/ i = n + 1
        /\ 1..n \subseteq 1..(n + 1) /\ n + 1 \in 1..(n + 1)
    BY <1>1
  <1>4. Range(a) = Range(q) \cup {m}
    BY <1>1, <1>2, <1>3
  <1> QED
    BY <1>4 DEF a

\* What the pumps become.
LEMMA PumpMoves ==
  ASSUME Types, NEW c \in Conns, NEW d \in Directions,
         \/ Read(c, d) \/ Record(c, d) \/ Write(c, d) \/ WriteFails(c, d) \/ Eof(c, d) \/ ReadFails(c, d)
  PROVE  PumpType'
  <1>0. PumpType /\ pump[c][d] \in Pump
    BY DEF Types, PumpType
  <1>1. CASE Read(c, d)
    <2>1. PICK x \in Nat : x = Head(sock[c][d].in)
      BY <1>1, SockHead DEF Types, Read
    <2>2. PICK e \in Pump : e = [st |-> "held", x |-> <<now, x>>]
      <3>1. now \in Nat
        BY DEF Types
      <3>2. <<now, x>> \in Seq(Nat)
        BY <3>1
      <3> QED
        BY <3>2 DEF Pump
    <2>3. e.st = "held" /\ e.x[2] \in Nat
      BY <2>2
    <2>4. pump' = [pump EXCEPT ![c] = [pump[c] EXCEPT ![d] = e]]
      BY <1>1, <2>1, <2>2 DEF Read
    <2> QED
      BY <1>0, <2>3, <2>4, PumpAt
  <1>2. CASE Record(c, d)
    <2>1. PICK e \in Pump : e = [pump[c][d] EXCEPT !.st = "write"]
      BY <1>0 DEF Pump
    <2>2. e.x = pump[c][d].x /\ e.st = "write"
      BY <1>0, <2>1 DEF Pump
    <2>3. e.x[2] \in Nat
      BY <1>0, <1>2, <2>2 DEF PumpType, Record, PumpIs
    <2>4. pump' = [pump EXCEPT ![c] = [pump[c] EXCEPT ![d] = e]]
      BY <1>2, <2>1 DEF Record
    <2> QED
      BY <1>0, <2>3, <2>4, PumpAt
  <1>3. CASE Write(c, d) \/ WriteFails(c, d) \/ Eof(c, d) \/ ReadFails(c, d)
    <2>1. PICK e \in Pump : /\ e.st \in {"read", "end"}
                            /\ pump' = [pump EXCEPT ![c] = [pump[c] EXCEPT ![d] = e]]
      <3>1. Idle \in Pump /\ Idle.st = "read"
        BY DEF Idle, Pump
      <3>2. [st |-> "end", x |-> <<>>] \in Pump
        BY DEF Pump
      <3> QED
        BY <1>3, <3>1, <3>2 DEF Write, WriteFails, Eof, ReadFails
    <2> QED
      BY <1>0, <2>1, PumpAt
  <1> QED
    BY <1>1, <1>2, <1>3

\* A quiet step keeps the types, the files and what was written.
LEMMA QuietStep ==
  ASSUME Types, NEW c \in Conns, Quiet(c)
  PROVE  Types' /\ SameLogs
  <1>0. SockType /\ PumpType /\ FileType
    BY DEF Types
  <1>1. UNCHANGED <<now, phase, file, manifest>>
    BY DEF Quiet, Quits, Accept, Upstream, Cut, ServerStalls, Read, WriteFails, Eof, ReadFails, PeerSends, PeerCloses,
           Register
  <1>2. tap' \in [Conns -> {"none", "open", "hello", "forward", "register", "pump", "ended", "cut", "killed"}]
    BY DEF Types, Quiet, Quits, Accept, Upstream, Cut, ServerStalls, Read, WriteFails, Eof, ReadFails, PeerSends,
           PeerCloses, Register
  <1>3. PumpType'
    <2>1. ASSUME UNCHANGED pump PROVE PumpType'
      BY <1>0, <2>1 DEF PumpType
    <2>2. ASSUME NEW d \in Directions, Read(c, d) \/ WriteFails(c, d) \/ Eof(c, d) \/ ReadFails(c, d) PROVE PumpType'
      BY <2>2, PumpMoves
    <2> QED
      BY <2>1, <2>2 DEF Quiet, Quits, Accept, Upstream, Cut, ServerStalls, PeerSends, PeerCloses, Register
  <1>4. entries' \in Seq(Conns)
    <2>1. ASSUME UNCHANGED entries PROVE entries' \in Seq(Conns)
      BY <2>1 DEF Types
    <2>2. CASE Register(c)
      BY <2>2, AppendProperties DEF Types, Register, Registered
    <2> QED
      BY <2>1, <2>2 DEF Quiet, Quits, Accept, Upstream, Cut, ServerStalls, Read, WriteFails, Eof, ReadFails, PeerSends,
                        PeerCloses
  <1>5. SockType' /\ \A b \in Conns, f \in Directions : sock'[b][f].out = sock[b][f].out
    <2>0. "c2s" \in Directions /\ <<0>> \in Seq(Nat) /\ <<>> \in Seq(Nat)
      BY DEF Directions
    <2>1. CASE UNCHANGED sock
      BY <1>0, <2>1 DEF SockType
    <2>2. CASE sock' = Hangup(c)
      BY <1>0, <2>2, SockHangup DEF SockType
    <2>3. CASE Accept(c)
      BY <1>0, <2>0, <2>3, SockKeeps DEF Accept
    <2>4. ASSUME NEW d \in Directions, Read(c, d)
          PROVE  SockType' /\ \A b \in Conns, f \in Directions : sock'[b][f].out = sock[b][f].out
      <3>1. PICK q \in Seq(Nat) : q = Tail(sock[c][d].in)
        BY <1>0, <2>4, SockHead DEF Read
      <3>2. sock' = [sock EXCEPT ![c][d].in = q]
        BY <2>4, <3>1 DEF Read
      <3> QED
        BY <1>0, <3>2, SockKeeps
    <2>5. ASSUME NEW d \in Directions, WriteFails(c, d) \/ Eof(c, d) \/ ReadFails(c, d) \/ PeerCloses(c, d)
          PROVE  SockType' /\ \A b \in Conns, f \in Directions : sock'[b][f].out = sock[b][f].out
      BY <1>0, <2>0, <2>5, SockKeeps DEF WriteFails, Eof, ReadFails, PeerCloses
    <2>6. ASSUME NEW d \in Directions, PeerSends(c, d)
          PROVE  SockType' /\ \A b \in Conns, f \in Directions : sock'[b][f].out = sock[b][f].out
      <3>0. PICK k \in Nat : k = Made(c, d) + 1
        BY MadeNat
      <3>1. <<k>> \in Seq(Nat)
        OBVIOUS
      <3>2. sock' = [sock EXCEPT ![c][d].in = <<k>>]
        BY <2>6, <3>0 DEF PeerSends
      <3> QED
        BY <1>0, <3>1, <3>2, SockKeeps
    <2>7. CASE Upstream(c)
      BY <2>1, <2>2, <2>7 DEF Upstream
    <2>8. CASE Cut(c) \/ Quits(c)
      BY <2>2, <2>8 DEF Cut, Quits
    <2>9. CASE ServerStalls(c) \/ Register(c)
      BY <2>1, <2>9 DEF ServerStalls, Register
    <2> QED
      BY <2>3, <2>4, <2>5, <2>6, <2>7, <2>8, <2>9 DEF Quiet
  <1> QED
    BY <1>0, <1>1, <1>2, <1>3, <1>4, <1>5 DEF Types, SameLogs, FileType

\* A record is appended to a file.
LEMMA FileAppend ==
  ASSUME FileType, NEW c \in Conns, NEW r \in Recs, file' = [file EXCEPT ![c] = Append(@, r)]
  PROVE  /\ FileType' /\ file'[c] = Append(file[c], r)
         /\ \A b \in Conns : b # c => file'[b] = file[b]
  <1>1. file[c] \in Seq(Recs)
    BY DEF FileType
  <1>2. PICK g \in Seq(Recs) : g = Append(file[c], r)
    BY <1>1, AppendProperties
  <1>3. file' = [file EXCEPT ![c] = g]
    BY <1>2
  <1> QED
    BY <1>2, <1>3 DEF FileType

-----------------------------------------------------------------------------
(* A file f against what was written of a direction, o: settled when f     *)
(* lists o and nothing else, due when it lists p as well, and lost when it *)
(* lists a beginning of that.                                              *)

Holds(f, o, d, mode, p) ==
  \E n \in Nat : \E at :
    /\ Lists(at, n, f, d)
    /\ \A k \in 1..Len(o) : o[k] = f[at[k]].x
    /\ n = Len(o) \/ n = Len(o) + 1
    /\ mode = "settled" => n = Len(o)
    /\ mode = "due" => n = Len(o) + 1 /\ f[at[n]].x = p

Lost(f, o, d) ==
  \E n \in 0..(Len(o) + 1) : \E at :
    Lists(at, n, f, d) /\ \A k \in 1..n : k <= Len(o) => o[k] = f[at[k]].x

Log(f, o, d, mode, p) == IF mode = "lost" THEN Lost(f, o, d) ELSE Holds(f, o, d, mode, p)

\* At first both are empty.
LEMMA LogStart ==
  ASSUME NEW d, NEW mode, mode \notin {"due", "lost"}, NEW p
  PROVE  Log(<<>>, <<>>, d, mode, p)
  <1> DEFINE at == <<>>
  <1>1. Len(<<>>) = 0 /\ 1..0 = {}
    OBVIOUS
  <1>2. Lists(at, 0, <<>>, d)
    BY DEF Lists
  <1> QED
    BY <1>1, <1>2 DEF Log, Holds

\* Less may be asked of a file.
LEMMA LogWeaken ==
  ASSUME NEW f, NEW o, NEW d, NEW mode, NEW p, Log(f, o, d, mode, p), NEW m, NEW q,
         \/ m = "free" /\ mode # "lost"
         \/ m = mode /\ (m = "due" => q = p)
  PROVE  Log(f, o, d, m, q)
  BY DEF Log, Holds

\* A record of this direction makes a settled file due.
LEMMA LogRecord ==
  ASSUME NEW f \in Seq(Recs), NEW o \in Seq(Nat), NEW d, NEW p, Log(f, o, d, "settled", p),
         NEW r \in Recs, r.kind \in Kinds(d)
  PROVE  Log(Append(f, r), o, d, "due", r.x)
  <1>1. PICK n \in Nat : \E at : /\ Lists(at, n, f, d) /\ n = Len(o)
                                 /\ \A k \in 1..n : o[k] = f[at[k]].x
    BY DEF Log, Holds
  <1>2. PICK at : Lists(at, n, f, d) /\ \A k \in 1..n : o[k] = f[at[k]].x
    BY <1>1
  <1> DEFINE l == Len(f)
             g == Append(f, r)
             a == [k \in 1..(n + 1) |-> IF k = n + 1 THEN l + 1 ELSE at[k]]
  <1>3. /\ l \in Nat /\ DOMAIN f = 1..l /\ DOMAIN g = 1..(l + 1) /\ g[l + 1] = r
        /\ \A i \in 1..l : g[i] = f[i]
    BY AppendProperties, LenProperties
  <1> HIDE DEF l, g
  <1>4. /\ at \in [1..n -> 1..l] /\ \A k \in 1..n, j \in 1..n : j < k => at[j] < at[k]
        /\ \A i \in 1..l : f[i].kind \in Kinds(d) <=> \E k \in 1..n : at[k] = i
    BY <1>2, <1>3 DEF Lists
  <1>5. /\ 1..n \subseteq 1..(n + 1) /\ n + 1 \in 1..(n + 1) /\ n + 1 \notin 1..n
        /\ \A k \in 1..(n + 1) : k \in 1..n \/ k = n + 1
        /\ 1..l \subseteq 1..(l + 1) /\ l + 1 \in 1..(l + 1) /\ l + 1 \notin 1..l
        /\ \A i \in 1..(l + 1) : i \in 1..l \/ i = l + 1
    BY <1>3
  <1>6. /\ a \in [1..(n + 1) -> 1..(l + 1)] /\ a[n + 1] = l + 1 /\ \A k \in 1..n : a[k] = at[k]
    BY <1>4, <1>5
  <1> HIDE DEF a
  <1>7. \A k \in 1..(n + 1), j \in 1..(n + 1) : j < k => a[j] < a[k]
    <2> SUFFICES ASSUME NEW k \in 1..(n + 1), NEW j \in 1..(n + 1), j < k PROVE a[j] < a[k]
      OBVIOUS
    <2>1. j \in 1..n
      BY <1>1
    <2>2. CASE k \in 1..n
      BY <2>1, <2>2, <1>4, <1>6
    <2>3. CASE k = n + 1
      BY <2>1, <2>3, <1>3, <1>4, <1>6
    <2> QED
      BY <1>5, <2>2, <2>3
  <1>8. \A i \in 1..(l + 1) : g[i].kind \in Kinds(d) <=> \E k \in 1..(n + 1) : a[k] = i
    <2> SUFFICES ASSUME NEW i \in 1..(l + 1)
                 PROVE  g[i].kind \in Kinds(d) <=> \E k \in 1..(n + 1) : a[k] = i
      OBVIOUS
    <2>1. CASE i \in 1..l
      <3>1. (\E k \in 1..(n + 1) : a[k] = i) <=> (\E k \in 1..n : at[k] = i)
        BY <2>1, <1>5, <1>6
      <3> QED
        BY <2>1, <3>1, <1>3, <1>4
    <2>2. CASE i = l + 1
      BY <2>2, <1>3, <1>5, <1>6
    <2> QED
      BY <1>5, <2>1, <2>2
  <1>9. Lists(a, n + 1, g, d)
    BY <1>3, <1>6, <1>7, <1>8 DEF Lists
  <1>10. \A k \in 1..n : o[k] = g[a[k]].x
    BY <1>2, <1>3, <1>4, <1>6
  <1>11. g[a[n + 1]].x = r.x
    BY <1>3, <1>6
  <1>12. n + 1 \in Nat /\ n + 1 = Len(o) + 1
    BY <1>1
  <1> QED
    BY <1>1, <1>9, <1>10, <1>11, <1>12 DEF Log, Holds, g

\* A record of another kind changes nothing.
LEMMA LogSkip ==
  ASSUME NEW f \in Seq(Recs), NEW o \in Seq(Nat), NEW d, NEW mode, mode # "lost", NEW p,
         Log(f, o, d, mode, p), NEW r \in Recs, r.kind \notin Kinds(d)
  PROVE  Log(Append(f, r), o, d, mode, p)
  <1>1. PICK n \in Nat : \E at :
            /\ Lists(at, n, f, d) /\ \A k \in 1..Len(o) : o[k] = f[at[k]].x
            /\ n = Len(o) \/ n = Len(o) + 1
            /\ mode = "settled" => n = Len(o)
            /\ mode = "due" => n = Len(o) + 1 /\ f[at[n]].x = p
    BY DEF Log, Holds
  <1>2. PICK at : /\ Lists(at, n, f, d) /\ \A k \in 1..Len(o) : o[k] = f[at[k]].x
                  /\ n = Len(o) \/ n = Len(o) + 1
                  /\ mode = "settled" => n = Len(o)
                  /\ mode = "due" => n = Len(o) + 1 /\ f[at[n]].x = p
    BY <1>1
  <1> DEFINE l == Len(f)
             g == Append(f, r)
             b == Len(o)
  <1>3. /\ l \in Nat /\ DOMAIN f = 1..l /\ DOMAIN g = 1..(l + 1) /\ g[l + 1] = r
        /\ \A i \in 1..l : g[i] = f[i]
    BY AppendProperties, LenProperties
  <1> HIDE DEF l, g, b
  <1>4. /\ at \in [1..n -> 1..l] /\ \A k \in 1..n, j \in 1..n : j < k => at[j] < at[k]
        /\ \A i \in 1..l : f[i].kind \in Kinds(d) <=> \E k \in 1..n : at[k] = i
    BY <1>2, <1>3 DEF Lists
  <1>5. /\ 1..l \subseteq 1..(l + 1) /\ l + 1 \notin 1..l
        /\ \A i \in 1..(l + 1) : i \in 1..l \/ i = l + 1
    BY <1>3
  <1>6. Lists(at, n, g, d)
    <2>1. at \in [1..n -> 1..(l + 1)]
      BY <1>4, <1>5
    <2>2. \A i \in 1..(l + 1) : g[i].kind \in Kinds(d) <=> \E k \in 1..n : at[k] = i
      <3> SUFFICES ASSUME NEW i \in 1..(l + 1)
                   PROVE  g[i].kind \in Kinds(d) <=> \E k \in 1..n : at[k] = i
        OBVIOUS
      <3>1. CASE i \in 1..l
        BY <3>1, <1>3, <1>4
      <3>2. CASE i = l + 1
        BY <3>2, <1>3, <1>4, <1>5
      <3> QED
        BY <1>5, <3>1, <3>2
    <2> QED
      BY <1>3, <1>4, <2>1, <2>2 DEF Lists
  <1>7. \A k \in 1..n : g[at[k]] = f[at[k]]
    BY <1>3, <1>4
  <1>8. \A k \in 1..b : k \in 1..n
    <2>1. n = b \/ n = b + 1
      BY <1>2 DEF b
    <2>2. b \in Nat
      BY LenProperties DEF b
    <2> QED
      BY <2>1, <2>2
  <1>9. mode = "due" => n \in 1..n
    <2>1. CASE n = 0
      BY <2>1, <1>2
    <2>2. CASE n # 0
      BY <2>2
    <2> QED
      BY <2>1, <2>2
  <1>10. /\ \A k \in 1..Len(o) : o[k] = g[at[k]].x
         /\ mode = "due" => g[at[n]].x = p
    BY <1>2, <1>7, <1>8, <1>9 DEF b
  <1> QED
    BY <1>2, <1>6, <1>10 DEF Log, Holds, g

\* The chunk that is due is written: the file is settled.
LEMMA LogWrite ==
  ASSUME NEW f, NEW o \in Seq(Nat), NEW d, NEW p \in Nat, Log(f, o, d, "due", p), NEW q
  PROVE  Log(f, Append(o, p), d, "settled", q)
  <1> DEFINE b == Len(o)
             w == Append(o, p)
  <1>1. /\ b \in Nat /\ Len(w) = b + 1 /\ w[b + 1] = p /\ \A k \in 1..b : w[k] = o[k]
    BY AppendProperties, LenProperties
  <1> HIDE DEF b, w
  <1>2. PICK n \in Nat : \E at : /\ Lists(at, n, f, d) /\ n = b + 1 /\ f[at[n]].x = p
                                 /\ \A k \in 1..b : o[k] = f[at[k]].x
    BY DEF Log, Holds, b
  <1>3. PICK at : Lists(at, n, f, d) /\ f[at[n]].x = p /\ \A k \in 1..b : o[k] = f[at[k]].x
    BY <1>2
  <1>4. \A k \in 1..(b + 1) : k \in 1..b \/ k = b + 1
    BY <1>1
  <1>5. \A k \in 1..Len(w) : w[k] = f[at[k]].x
    BY <1>1, <1>2, <1>3, <1>4
  <1> QED
    BY <1>1, <1>2, <1>3, <1>5 DEF Log, Holds, w

\* A beginning of a file lists a beginning of what it listed.
LEMMA LogCut ==
  ASSUME NEW f \in Seq(Recs), NEW o \in Seq(Nat), NEW d, NEW mode, mode # "lost", NEW p,
         Log(f, o, d, mode, p), NEW k \in 0..Len(f)
  PROVE  Lost(SubSeq(f, 1, k), o, d)
  <1>1. PICK n \in Nat : \E at : /\ Lists(at, n, f, d) /\ \A i \in 1..Len(o) : o[i] = f[at[i]].x
                                 /\ n = Len(o) \/ n = Len(o) + 1
    BY DEF Log, Holds
  <1>2. PICK at : Lists(at, n, f, d) /\ \A i \in 1..Len(o) : o[i] = f[at[i]].x
    BY <1>1
  <1> DEFINE l == Len(f)
             g == SubSeq(f, 1, k)
             b == Len(o)
             T == {j \in Nat : j > n \/ (j > 0 /\ at[j] > k)}
  <1>3. l \in Nat /\ DOMAIN f = 1..l /\ \A i \in 1..l : f[i] \in Recs
    BY LenProperties, ElementOfSeq
  <1>4. b \in Nat /\ (n = b \/ n = b + 1)
    BY <1>1, LenProperties
  <1>5. Len(g) = k /\ DOMAIN g = 1..k /\ \A i \in 1..k : g[i] = f[i]
    <2>1. \A i \in 1..k : f[i] \in Recs
      BY <1>3
    <2>2. 1 \in Int /\ k \in Int
      BY <1>3
    <2>3. /\ g \in Seq(Recs) /\ Len(g) = (IF 1 <= k THEN k - 1 + 1 ELSE 0)
          /\ \A i \in 1..(k - 1 + 1) : g[i] = f[1 + i - 1]
      BY <2>1, <2>2, SubSeqProperties
    <2>4. Len(g) = k
      BY <1>3, <2>3
    <2> QED
      BY <1>3, <2>3, <2>4, LenProperties
  <1>6. /\ at \in [1..n -> 1..l] /\ \A i \in 1..n, j \in 1..n : j < i => at[j] < at[i]
        /\ \A i \in 1..l : f[i].kind \in Kinds(d) <=> \E j \in 1..n : at[j] = i
    BY <1>2, <1>3 DEF Lists
  <1>7. PICK m \in 0..n : /\ \A j \in 1..m : at[j] <= k
                          /\ m < n => at[m + 1] > k
    <2>1. n + 1 \in T /\ T \subseteq Nat
      OBVIOUS
    <2>2. PICK j \in T : \A i \in T : ~(<<i, j>> \in OpToRel(<, Nat))
      <3>1. T # {}
        BY <2>1
      <3> HIDE DEF T
      <3> QED
        BY <2>1, <3>1, NatLessThanWellFounded, WFMin
    <2>3. \A i \in T : ~(i < j)
      BY <2>1, <2>2 DEF OpToRel
    <2>4. j \in Nat /\ j > 0 /\ j <= n + 1 /\ (j > n \/ at[j] > k)
      BY <2>1, <2>3
    <2>5. \A i \in 1..(j - 1) : at[i] <= k
      <3> SUFFICES ASSUME NEW i \in 1..(j - 1) PROVE at[i] <= k
        OBVIOUS
      <3>1. i \in Nat /\ i < j /\ i \in 1..n
        BY <2>4
      <3>2. i \notin T
        BY <2>3, <3>1
      <3>3. at[i] \in 1..l
        BY <1>6, <3>1
      <3> QED
        BY <1>3, <3>1, <3>2, <3>3
    <2>6. j - 1 \in 0..n /\ (j - 1) + 1 = j /\ (j - 1 < n => at[j] > k)
      BY <2>4
    <2> QED
      BY <2>5, <2>6
  <1> DEFINE a == [j \in 1..m |-> at[j]]
  <1> HIDE DEF l, g, b, T
  <1>8. /\ m \in Nat /\ \A j \in 1..m : j \in 1..n /\ at[j] \in 1..k /\ a[j] = at[j]
        /\ \A j \in 1..n : at[j] \in 1..k => j \in 1..m
    <2>1. \A j \in 1..m : j \in 1..n /\ at[j] \in 1..k
      BY <1>3, <1>6, <1>7
    <2>2. ASSUME NEW j \in 1..n, j > m PROVE at[j] > k
      <3>1. m + 1 \in 1..n /\ at[m + 1] > k
        BY <1>7, <2>2
      <3>2. at[j] \in Nat /\ at[m + 1] \in Nat /\ (m + 1 < j => at[m + 1] < at[j])
        BY <1>3, <1>6, <3>1
      <3>3. k \in Nat
        BY <1>3
      <3> QED
        BY <2>2, <3>1, <3>2, <3>3
    <2>3. \A j \in 1..n : at[j] \in 1..k => j \in 1..m
      BY <1>3, <1>6, <2>2
    <2> QED
      BY <2>1, <2>3
  <1>9. Lists(a, m, g, d)
    <2>1. a \in [1..m -> DOMAIN g]
      BY <1>5, <1>8
    <2>2. \A i \in 1..m, j \in 1..m : j < i => a[j] < a[i]
      BY <1>6, <1>8
    <2>3. \A i \in 1..k : g[i].kind \in Kinds(d) <=> \E j \in 1..m : a[j] = i
      <3> SUFFICES ASSUME NEW i \in 1..k
                   PROVE  f[i].kind \in Kinds(d) <=> \E j \in 1..m : a[j] = i
        BY <1>5
      <3>1. i \in 1..l
        BY <1>3 DEF l
      <3> QED
        BY <1>6, <1>8, <3>1
    <2> QED
      BY <1>5, <2>1, <2>2, <2>3 DEF Lists
  <1>10. \A i \in 1..m : i <= b => o[i] = g[a[i]].x
    BY <1>2, <1>4, <1>5, <1>8 DEF b
  <1>11. m \in 0..(b + 1)
    BY <1>4, <1>7
  <1> HIDE DEF a
  <1> QED
    BY <1>9, <1>10, <1>11 DEF Lost, g, b

-----------------------------------------------------------------------------
(* The invariant.                                                          *)

\* What a connection's files owe to the far side of a direction.
Mode(c, d) ==
  CASE \/ tap[c] \in {"none", "open", "hello", "register"}
       \/ tap[c] = "forward" /\ d = "s2c"
       \/ tap[c] = "pump" /\ pump[c][d].st \in {"read", "held"} -> "settled"
    [] \/ tap[c] = "forward" /\ d = "c2s"
       \/ tap[c] = "pump" /\ pump[c][d].st = "write"            -> "due"
    [] tap[c] = "killed"                                        -> "lost"
    [] OTHER                                                    -> "free"

\* The chunk that is due.
Due(c, d) == IF tap[c] = "forward" THEN file[c][1].x ELSE pump[c][d].x[2]

Logged ==
  \A c \in Conns, d \in Directions :
    Log(file[c], sock[c][d].out, d, Mode(c, d), Due(c, d))

\* A pump begins with a read.
PumpsBegin ==
  \A c \in Conns, d \in Directions :
    tap[c] \in {"none", "open", "hello", "forward", "register"} => pump[c][d].st = "read"

\* A file is well formed at time t.
Whole(f, t) ==
  \A i \in 1..Len(f) :
    /\ f[i].kind = "connect" <=> i = 1
    /\ f[i].kind = "disconnect" => i = Len(f)
    /\ f[i].t <= t
    /\ \A j \in 1..i : f[j].t <= f[i].t

\* How a file goes with the progress of its tap.
Stage(c) ==
  /\ Whole(file[c], now)
  /\ tap[c] \in {"none", "open", "hello"} => file[c] = <<>>
  /\ tap[c] \in {"forward", "register"} => Len(file[c]) = 1
  /\ tap[c] = "pump" => c \in Range(entries)
  /\ Running(c) => \A i \in 1..Len(file[c]) : file[c][i].kind # "disconnect"
  /\ Len(file[c]) > 1 => c \in Range(entries)
  /\ tap[c] = "killed" => phase = "crashed"
  /\ c \in Range(entries) /\ tap[c] # "killed" => file[c] # <<>>

Stages == \A c \in Conns : Stage(c)

\* A manifest is written once every tap has ended, and lists the entries.
Final == manifest # <<>> => /\ phase = "done" /\ manifest = <<entries>>
                            /\ \A c \in Conns : ~Running(c)

IInv == Types /\ PumpsBegin /\ Stages /\ Final /\ Logged

-----------------------------------------------------------------------------
(* The files.                                                              *)

LEMMA WholeNew ==
  ASSUME NEW r \in Recs, r.kind = "connect"
  PROVE  Whole(<<r>>, r.t)
  <1>1. Len(<<r>>) = 1 /\ <<r>>[1] = r /\ 1..1 = {1} /\ r.t \in Nat
    BY DEF Recs
  <1> QED
    BY <1>1 DEF Whole

LEMMA WholeAppend ==
  ASSUME NEW f \in Seq(Recs), NEW r \in Recs, Whole(f, r.t), f # <<>>, r.kind # "connect",
         \A i \in 1..Len(f) : f[i].kind # "disconnect"
  PROVE  Whole(Append(f, r), r.t)
  <1> DEFINE l == Len(f)
             g == Append(f, r)
  <1>1. /\ l \in Nat \ {0} /\ Len(g) = l + 1 /\ g[l + 1] = r /\ \A i \in 1..l : g[i] = f[i]
    BY AppendProperties, LenProperties, EmptySeq
  <1>2. r.t \in Nat /\ \A i \in 1..l : f[i].t \in Nat
    <2>1. \A i \in 1..l : f[i] \in Recs
      BY ElementOfSeq
    <2> QED
      BY <2>1 DEF Recs
  <1>3. \A i \in 1..l : /\ f[i].kind = "connect" <=> i = 1
                        /\ f[i].t <= r.t /\ \A j \in 1..i : f[j].t <= f[i].t
    BY DEF Whole
  <1> HIDE DEF l, g
  <1>4. \A i \in 1..(l + 1) : i \in 1..l \/ i = l + 1
    BY <1>1
  <1>5. \A i \in 1..l : \A j \in 1..i : j \in 1..l
    BY <1>1
  <1>6. \A i \in 1..(l + 1) : /\ g[i].kind = "connect" <=> i = 1
                              /\ g[i].kind = "disconnect" => i = l + 1
                              /\ g[i].t <= r.t
                              /\ \A j \in 1..i : g[j].t <= g[i].t
    <2> SUFFICES ASSUME NEW i \in 1..(l + 1)
                 PROVE  /\ g[i].kind = "connect" <=> i = 1
                        /\ g[i].kind = "disconnect" => i = l + 1
                        /\ g[i].t <= r.t
                        /\ \A j \in 1..i : g[j].t <= g[i].t
      OBVIOUS
    <2>1. CASE i \in 1..l
      BY <2>1, <1>1, <1>3, <1>5 DEF l
    <2>2. CASE i = l + 1
      <3>1. i # 1
        BY <2>2, <1>1
      <3>2. \A j \in 1..i : g[j].t <= r.t
        BY <2>2, <1>1, <1>2, <1>3, <1>4
      <3> QED
        BY <2>2, <3>1, <3>2, <1>1, <1>2
    <2> QED
      BY <1>4, <2>1, <2>2
  <1> QED
    BY <1>1, <1>6 DEF Whole, g

LEMMA WholeLater ==
  ASSUME NEW f \in Seq(Recs), NEW t \in Nat, Whole(f, t)
  PROVE  Whole(f, t + 1)
  <1>1. \A i \in 1..Len(f) : f[i] \in Recs
    BY ElementOfSeq
  <1>2. \A i \in 1..Len(f) : f[i].t \in Nat
    BY <1>1 DEF Recs
  <1> QED
    BY <1>2 DEF Whole

LEMMA WholeCut ==
  ASSUME NEW f \in Seq(Recs), NEW t \in Nat, Whole(f, t), NEW k \in 0..Len(f),
         \A i \in 1..Len(f) : f[i].kind # "disconnect"
  PROVE  /\ SubSeq(f, 1, k) \in Seq(Recs) /\ Whole(SubSeq(f, 1, k), t)
         /\ Len(SubSeq(f, 1, k)) <= Len(f)
  <1> DEFINE l == Len(f)
             g == SubSeq(f, 1, k)
  <1>1. l \in Nat /\ \A i \in 1..l : f[i] \in Recs
    BY LenProperties, ElementOfSeq
  <1>2. g \in Seq(Recs) /\ Len(g) = k /\ \A i \in 1..k : g[i] = f[i]
    <2>1. \A i \in 1..k : f[i] \in Recs
      BY <1>1
    <2>2. 1 \in Int /\ k \in Int
      BY <1>1
    <2>3. /\ g \in Seq(Recs) /\ Len(g) = (IF 1 <= k THEN k - 1 + 1 ELSE 0)
          /\ \A i \in 1..(k - 1 + 1) : g[i] = f[1 + i - 1]
      BY <2>1, <2>2, SubSeqProperties
    <2> QED
      BY <1>1, <2>3
  <1>3. \A i \in 1..k : i \in 1..l /\ \A j \in 1..i : j \in 1..k
    BY <1>1
  <1>4. k <= l
    BY <1>1
  <1>5. \A i \in 1..l : /\ f[i].kind = "connect" <=> i = 1
                        /\ f[i].kind # "disconnect"
                        /\ f[i].t <= t /\ \A j \in 1..i : f[j].t <= f[i].t
    BY DEF Whole
  <1> HIDE DEF l, g
  <1>6. Whole(g, t)
    BY <1>2, <1>3, <1>5 DEF Whole
  <1> QED
    BY <1>2, <1>4, <1>6 DEF g, l

-----------------------------------------------------------------------------
(* The steps.                                                              *)

\* What a step leaves is logged, part by part or as a whole.
LEMMA LoggedThen ==
  ASSUME NEW b \in Conns, NEW f \in Directions,
         Log(file'[b], sock'[b][f].out, f, Mode(b, f)', Due(b, f)')
  PROVE  Log(file[b], sock[b][f].out, f, Mode(b, f), Due(b, f))'
  <1>1. CASE Mode(b, f)' = "lost"
    BY <1>1 DEF Log, Lost, Lists, Kinds
  <1>2. CASE Mode(b, f)' # "lost"
    BY <1>2 DEF Log, Holds, Lists, Kinds
  <1> QED
    BY <1>1, <1>2

\* The same files and what was written may be asked less.
LEMMA LoggedStays ==
  ASSUME Logged, NEW b \in Conns, NEW f \in Directions, file'[b] = file[b],
         sock'[b][f].out = sock[b][f].out,
         \/ Mode(b, f)' = "free" /\ Mode(b, f) # "lost"
         \/ Mode(b, f)' = Mode(b, f) /\ (Mode(b, f) = "due" => Due(b, f)' = Due(b, f))
  PROVE  Log(file[b], sock[b][f].out, f, Mode(b, f), Due(b, f))'
  <1>1. Log(file[b], sock[b][f].out, f, Mode(b, f), Due(b, f))
    BY DEF Logged
  <1>2. Log(file[b], sock[b][f].out, f, Mode(b, f)', Due(b, f)')
    BY <1>1, LogWeaken
  <1> QED
    BY <1>2, LoggedThen

\* A connection whose tap and pump stay owes what it owed.
LEMMA SameMode ==
  ASSUME NEW b \in Conns, NEW f \in Directions, tap'[b] = tap[b], pump'[b][f] = pump[b][f],
         file'[b] = file[b]
  PROVE  Mode(b, f)' = Mode(b, f) /\ Due(b, f)' = Due(b, f)
  BY DEF Mode, Due

\* What a quiet step changes: a tap, or a pump.
TapMoves(c) ==
  /\ \A b \in Conns : b # c => tap'[b] = tap[b]
  /\ \/ tap'[c] = tap[c]
     \/ Running(c) /\ tap'[c] \in {"ended", "cut"}
     \/ phase = "recording" /\ tap[c] = "none" /\ tap'[c] = "open"
     \/ tap[c] = "open" /\ tap'[c] = "hello"
     \/ tap[c] = "register" /\ tap'[c] = "pump"
  /\ entries' = IF tap[c] = "register" /\ tap'[c] = "pump" THEN Append(entries, c) ELSE entries

PumpMoved(c) ==
  /\ \A b \in Conns : b # c => pump'[b] = pump[b]
  /\ \A d \in Directions :
       \/ pump'[c][d] = pump[c][d]
       \/ tap[c] = "pump" /\ tap'[c] = "pump" /\ pump'[c][d].st = "end"
       \/ /\ tap[c] = "pump" /\ tap'[c] = "pump"
          /\ pump[c][d].st = "read" /\ pump'[c][d].st = "held"

LEMMA QuietTaps ==
  ASSUME Types, NEW c \in Conns, Quiet(c)
  PROVE  TapMoves(c) /\ PumpMoved(c) /\ UNCHANGED <<now, phase, file, manifest>>
  <1>1. tap \in [Conns -> {"none", "open", "hello", "forward", "register", "pump", "ended", "cut", "killed"}]
    BY DEF Types
  <1>2. pump \in [Conns -> [Directions -> Pump]]
    BY DEF Types, PumpType
  <1>3. CASE Quits(c) \/ Accept(c) \/ Upstream(c) \/ Cut(c) \/ ServerStalls(c) \/ Register(c)
    <2>1. TapMoves(c)
      BY <1>1, <1>3 DEF Quits, Accept, Upstream, Cut, ServerStalls, Register, Registered, Running, TapMoves
    <2>2. UNCHANGED pump /\ UNCHANGED <<now, phase, file, manifest>>
      BY <1>3 DEF Quits, Accept, Upstream, Cut, ServerStalls, Register
    <2> QED
      BY <2>1, <2>2 DEF PumpMoved
  <1>4. ASSUME NEW d \in Directions, PeerSends(c, d) \/ PeerCloses(c, d)
        PROVE  TapMoves(c) /\ PumpMoved(c) /\ UNCHANGED <<now, phase, file, manifest>>
    <2>1. UNCHANGED <<tap, pump, entries>> /\ UNCHANGED <<now, phase, file, manifest>>
      BY <1>4 DEF PeerSends, PeerCloses
    <2> QED
      BY <2>1 DEF TapMoves, PumpMoved
  <1>5. ASSUME NEW d \in Directions, Read(c, d) \/ WriteFails(c, d) \/ Eof(c, d) \/ ReadFails(c, d)
        PROVE  TapMoves(c) /\ PumpMoved(c) /\ UNCHANGED <<now, phase, file, manifest>>
    <2>1. UNCHANGED <<tap, entries>> /\ UNCHANGED <<now, phase, file, manifest>> /\ tap[c] = "pump"
      BY <1>5 DEF Read, WriteFails, Eof, ReadFails, PumpIs
    <2>2. TapMoves(c)
      BY <2>1 DEF TapMoves
    <2>3. PICK e : /\ pump' = [pump EXCEPT ![c][d] = e]
                   /\ e.st = "end" \/ (e.st = "held" /\ pump[c][d].st = "read")
      <3>1. CASE Read(c, d)
        <4> DEFINE h == [st |-> "held", x |-> <<now, Head(sock[c][d].in)>>]
        <4>1. pump' = [pump EXCEPT ![c][d] = h] /\ h.st = "held" /\ pump[c][d].st = "read"
          BY <3>1 DEF Read, PumpIs
        <4> QED
          BY <4>1
      <3>2. CASE WriteFails(c, d) \/ Eof(c, d) \/ ReadFails(c, d)
        <4> DEFINE h == [st |-> "end", x |-> <<>>]
        <4>1. pump' = [pump EXCEPT ![c][d] = h] /\ h.st = "end"
          BY <3>2 DEF WriteFails, Eof, ReadFails
        <4> QED
          BY <4>1
      <3> QED
        BY <1>5, <3>1, <3>2
    <2>4. /\ \A b \in Conns : b # c => pump'[b] = pump[b]
          /\ pump'[c][d] = e /\ \A f \in Directions : f # d => pump'[c][f] = pump[c][f]
      BY <1>2, <2>3
    <2>5. PumpMoved(c)
      BY <2>1, <2>3, <2>4 DEF PumpMoved
    <2> QED
      BY <2>1, <2>2, <2>5
  <1> QED
    BY <1>3, <1>4, <1>5 DEF Quiet

\* A quiet step keeps the invariant.
LEMMA QuietKeeps ==
  ASSUME IInv, NEW c \in Conns, Quiet(c)
  PROVE  IInv'
  <1>1. Types' /\ SameLogs
    BY QuietStep DEF IInv
  <1>2. TapMoves(c) /\ PumpMoved(c) /\ UNCHANGED <<now, phase, file, manifest>>
    BY QuietTaps DEF IInv
  <1>3. PumpsBegin'
    BY <1>2 DEF IInv, PumpsBegin, TapMoves, PumpMoved
  <1>4. Range(entries') = (IF tap[c] = "register" /\ tap'[c] = "pump" THEN Range(entries) \cup {c}
                           ELSE Range(entries))
    <2>1. CASE tap[c] = "register" /\ tap'[c] = "pump"
      <3>1. entries' = Append(entries, c) /\ entries \in Seq(Conns)
        BY <1>2, <2>1 DEF TapMoves, IInv, Types
      <3>2. Range(Append(entries, c)) = Range(entries) \cup {c}
        BY <3>1, RangeOfAppend
      <3> QED
        BY <2>1, <3>1, <3>2
    <2>2. CASE ~(tap[c] = "register" /\ tap'[c] = "pump")
      BY <1>2, <2>2 DEF TapMoves
    <2> QED
      BY <2>1, <2>2
  <1>5. Stages'
    <2> SUFFICES ASSUME NEW b \in Conns PROVE Stage(b)'
      BY DEF Stages
    <2>1. Stage(b) /\ file'[b] = file[b] /\ now' = now /\ phase' = phase
      BY <1>2 DEF IInv, Stages
    <2>2. CASE b # c
      <3>1. tap'[b] = tap[b] /\ (b \in Range(entries') <=> b \in Range(entries))
        BY <1>2, <1>4, <2>2 DEF TapMoves
      <3> QED
        BY <2>1, <3>1 DEF Stage, Running, Whole
    <2>3. CASE b = c
      <3>1. CASE tap'[c] = tap[c]
        <4>1. Range(entries') = Range(entries)
          BY <3>1, <1>4
        <4> QED
          BY <2>1, <2>3, <3>1, <4>1 DEF Stage, Running, Whole
      <3>2. CASE Running(c) /\ tap'[c] \in {"ended", "cut"}
        <4>1. Range(entries') = Range(entries)
          BY <3>2, <1>4
        <4> QED
          BY <2>1, <2>3, <3>2, <4>1 DEF Stage, Running, Whole
      <3>3. CASE tap[c] \in {"none", "open"} /\ tap'[c] \in {"open", "hello"}
        <4>1. Range(entries') = Range(entries)
          BY <3>3, <1>4
        <4>2. file[c] = <<>>
          BY <2>1, <2>3, <3>3 DEF Stage
        <4> QED
          BY <2>1, <2>3, <3>3, <4>1, <4>2 DEF Stage, Running, Whole
      <3>4. CASE tap[c] = "register" /\ tap'[c] = "pump"
        <4>1. c \in Range(entries')
          BY <3>4, <1>4
        <4>2. Len(file[c]) = 1 /\ Running(c)
          BY <2>1, <2>3, <3>4 DEF Stage, Running
        <4>3. file[c] # <<>>
          BY <4>2
        <4> QED
          BY <2>1, <2>3, <3>4, <4>1, <4>2, <4>3 DEF Stage, Running, Whole
      <3> QED
        BY <1>2, <3>1, <3>2, <3>3, <3>4 DEF TapMoves
    <2> QED
      BY <2>2, <2>3
  <1>6. Final'
    <2> SUFFICES ASSUME manifest # <<>> PROVE Final'
      BY <1>2 DEF Final
    <2>1. phase = "done" /\ manifest = <<entries>> /\ \A b \in Conns : ~Running(b)
      BY DEF IInv, Final
    <2>2. ~Running(c)
      BY <2>1
    <2>3. tap'[c] = tap[c] /\ entries' = entries
      BY <1>2, <2>1, <2>2 DEF TapMoves, Running
    <2> QED
      BY <1>2, <2>1, <2>3 DEF TapMoves, Running, Final
  <1>7. Logged'
    <2> SUFFICES ASSUME NEW b \in Conns, NEW f \in Directions
                 PROVE  Log(file[b], sock[b][f].out, f, Mode(b, f), Due(b, f))'
      BY DEF Logged
    <2>1. file'[b] = file[b] /\ sock'[b][f].out = sock[b][f].out
      BY <1>1 DEF SameLogs
    <2>2. \/ Mode(b, f)' = "free" /\ Mode(b, f) # "lost"
          \/ Mode(b, f)' = Mode(b, f) /\ (Mode(b, f) = "due" => Due(b, f)' = Due(b, f))
      <3>1. CASE b # c \/ (tap'[c] = tap[c] /\ pump'[c][f] = pump[c][f])
        <4>1. tap'[b] = tap[b] /\ pump'[b][f] = pump[b][f]
          BY <1>2, <3>1 DEF TapMoves, PumpMoved
        <4> QED
          BY <2>1, <4>1, SameMode
      <3>2. CASE b = c /\ tap'[c] # tap[c]
        <4>1. pump'[c][f] = pump[c][f]
          BY <1>2, <3>2 DEF PumpMoved
        <4>2. CASE tap'[c] \in {"ended", "cut"}
          BY <1>2, <3>2, <4>2 DEF Mode, TapMoves, Running
        <4>3. CASE tap[c] \in {"none", "open"} /\ tap'[c] \in {"open", "hello"}
          BY <3>2, <4>3 DEF Mode
        <4>4. CASE tap[c] = "register" /\ tap'[c] = "pump"
          <5>1. pump[c][f].st = "read"
            BY <4>4 DEF IInv, PumpsBegin
          <5> QED
            BY <3>2, <4>1, <4>4, <5>1 DEF Mode
        <4> QED
          BY <1>2, <3>2, <4>2, <4>3, <4>4 DEF TapMoves
      <3>3. CASE b = c /\ tap'[c] = tap[c] /\ pump'[c][f] # pump[c][f]
        <4>1. /\ tap[c] = "pump" /\ tap'[c] = "pump"
              /\ \/ pump'[c][f].st = "end"
                 \/ pump[c][f].st = "read" /\ pump'[c][f].st = "held"
          BY <1>2, <3>3 DEF PumpMoved
        <4> QED
          BY <3>3, <4>1 DEF Mode
      <3> QED
        BY <3>1, <3>2, <3>3
    <2> QED
      BY <2>1, <2>2, LoggedStays DEF IInv
  <1> QED
    BY <1>1, <1>3, <1>5, <1>6, <1>7 DEF IInv

\* The client's first line is filed.
LEMMA GreetKeeps ==
  ASSUME IInv, NEW c \in Conns, Greet(c), ~Quits(c)
  PROVE  IInv'
  <1>0. /\ SockType /\ FileType /\ PumpType /\ now \in Nat /\ "c2s" \in Directions
        /\ tap \in [Conns -> {"none", "open", "hello", "forward", "register", "pump", "ended", "cut", "killed"}]
    BY DEF IInv, Types, Directions
  <1>1. /\ tap[c] = "hello" /\ sock[c]["c2s"].in # <<>>
        /\ sock' = [sock EXCEPT ![c]["c2s"].in = Tail(@)]
        /\ file' = [file EXCEPT ![c] = NewFile(Head(sock[c]["c2s"].in))]
        /\ tap' = [tap EXCEPT ![c] = "forward"]
        /\ UNCHANGED <<now, phase, pump, stalled, entries, manifest>>
    BY DEF Greet, Quits
  <1>2. PICK x \in Nat, q \in Seq(Nat) : x = Head(sock[c]["c2s"].in) /\ q = Tail(sock[c]["c2s"].in)
    BY <1>0, <1>1, SockHead
  <1>3. sock' = [sock EXCEPT ![c]["c2s"].in = q]
    BY <1>1, <1>2
  <1>4. SockType' /\ \A b \in Conns, f \in Directions : sock'[b][f].out = sock[b][f].out
    BY <1>0, <1>3, SockKeeps
  <1>5. PICK r \in Recs : r = Rec(now, "connect", x)
    BY <1>0 DEF Rec, Recs
  <1>6. r.kind = "connect" /\ r.t = now /\ r.x = x
    BY <1>5 DEF Rec
  <1>7. file[c] = <<>> /\ <<r>> \in Seq(Recs) /\ Append(<<>>, r) = <<r>> /\ <<r>>[1] = r /\ Len(<<r>>) = 1
    BY <1>1 DEF IInv, Stages, Stage
  <1>8. FileType' /\ file'[c] = <<r>> /\ \A b \in Conns : b # c => file'[b] = file[b]
    BY <1>0, <1>1, <1>2, <1>5, <1>7 DEF FileType, NewFile
  <1>9. Types'
    BY <1>0, <1>1, <1>4, <1>8 DEF IInv, Types, PumpType
  <1>10. PumpsBegin'
    BY <1>0, <1>1 DEF IInv, PumpsBegin
  <1>11. Stages'
    <2> SUFFICES ASSUME NEW b \in Conns PROVE Stage(b)'
      BY DEF Stages
    <2>1. Stage(b) /\ now' = now /\ entries' = entries
      BY <1>1 DEF IInv, Stages
    <2>2. CASE b # c
      BY <2>1, <2>2, <1>0, <1>1, <1>8 DEF Stage, Running, Whole
    <2>3. CASE b = c
      <3>1. Whole(<<r>>, now) /\ tap'[c] = "forward"
        BY <1>0, <1>1, <1>6, WholeNew
      <3>2. Whole(file[c], now)'
        BY <2>1, <1>8, <3>1 DEF Whole
      <3>3. \A i \in 1..Len(file'[c]) : file'[c][i].kind # "disconnect"
        BY <1>6, <1>7, <1>8
      <3>4. ~(Len(file'[c]) > 1) /\ file'[c] # <<>> /\ Len(file'[c]) = 1
        BY <1>7, <1>8
      <3> QED
        BY <2>3, <3>1, <3>2, <3>3, <3>4 DEF Stage
    <2> QED
      BY <2>2, <2>3
  <1>12. Final'
    BY <1>0, <1>1 DEF IInv, Final, Running
  <1>13. Logged'
    <2> SUFFICES ASSUME NEW b \in Conns, NEW f \in Directions
                 PROVE  Log(file[b], sock[b][f].out, f, Mode(b, f), Due(b, f))'
      BY DEF Logged
    <2>1. CASE b # c
      <3>1. tap'[b] = tap[b] /\ pump'[b][f] = pump[b][f] /\ file'[b] = file[b]
        BY <1>0, <1>1, <1>8, <2>1
      <3>2. sock'[b][f].out = sock[b][f].out
        BY <1>4
      <3> QED
        BY <3>1, <3>2, SameMode, LoggedStays DEF IInv
    <2>2. CASE b = c
      <3> DEFINE o == sock[c][f].out
      <3>1. Log(<<>>, o, f, "settled", Due(c, f))
        <4>1. Mode(c, f) = "settled"
          BY <1>1 DEF Mode
        <4> QED
          BY <4>1, <1>7 DEF IInv, Logged
      <3>2. o \in Seq(Nat) /\ <<>> \in Seq(Recs)
        BY <1>0 DEF SockType, Sock
      <3> HIDE DEF o
      <3>3. tap'[c] = "forward" /\ sock'[c][f].out = o
        BY <1>0, <1>1, <1>4 DEF o
      <3>4. CASE f = "c2s"
        <4>1. r.kind \in Kinds(f)
          BY <1>6, <3>4 DEF Kinds
        <4>2. Log(Append(<<>>, r), o, f, "due", r.x)
          BY <3>1, <3>2, <4>1, LogRecord
        <4>3. Mode(c, f)' = "due" /\ Due(c, f)' = r.x
          BY <3>3, <3>4, <1>7, <1>8 DEF Mode, Due
        <4>4. Log(file'[c], sock'[c][f].out, f, Mode(c, f)', Due(c, f)')
          BY <1>7, <1>8, <3>3, <4>2, <4>3
        <4> QED
          BY <2>2, <4>4, LoggedThen
      <3>5. CASE f # "c2s"
        <4>1. r.kind \notin Kinds(f) /\ f = "s2c"
          BY <1>6, <3>5 DEF Kinds, Directions
        <4>2. Log(Append(<<>>, r), o, f, "settled", Due(c, f))
          BY <3>1, <3>2, <4>1, LogSkip
        <4>3. Mode(c, f)' = "settled"
          BY <3>3, <4>1 DEF Mode
        <4>4. Log(<<r>>, o, f, "settled", Due(c, f)')
          BY <1>7, <4>2, LogWeaken
        <4>5. Log(file'[c], sock'[c][f].out, f, Mode(c, f)', Due(c, f)')
          BY <1>7, <1>8, <3>3, <4>3, <4>4
        <4> QED
          BY <2>2, <4>5, LoggedThen
      <3> QED
        BY <3>4, <3>5
    <2> QED
      BY <2>1, <2>2
  <1> QED
    BY <1>9, <1>10, <1>11, <1>12, <1>13 DEF IInv

\* The handshake line goes to the server.
LEMMA ForwardKeeps ==
  ASSUME IInv, NEW c \in Conns, Forward(c), ~Quits(c)
  PROVE  IInv'
  <1>0. /\ SockType /\ FileType /\ PumpType /\ "c2s" \in Directions
        /\ tap \in [Conns -> {"none", "open", "hello", "forward", "register", "pump", "ended", "cut", "killed"}]
    BY DEF IInv, Types, Directions
  <1>1. /\ tap[c] = "forward" /\ sock' = [sock EXCEPT ![c]["c2s"].out = Append(@, file[c][1].x)]
        /\ tap' = [tap EXCEPT ![c] = "register"]
        /\ UNCHANGED <<now, phase, pump, stalled, file, entries, manifest>>
    BY DEF Forward, Quits
  <1>2. PICK x \in Nat : x = file[c][1].x
    <2>1. file[c] \in Seq(Recs) /\ Len(file[c]) = 1
      BY <1>0, <1>1 DEF FileType, IInv, Stages, Stage
    <2>2. file[c][1] \in Recs
      BY <2>1, ElementOfSeq
    <2> QED
      BY <2>2 DEF Recs
  <1>3. sock' = [sock EXCEPT ![c]["c2s"].out = Append(@, x)]
    BY <1>1, <1>2
  <1>4. /\ SockType' /\ sock'[c]["c2s"].out = Append(sock[c]["c2s"].out, x)
        /\ \A b \in Conns, f \in Directions : b # c \/ f # "c2s" => sock'[b][f].out = sock[b][f].out
    BY <1>0, <1>3, SockOut
  <1>5. tap'[c] = "register" /\ \A b \in Conns : b # c => tap'[b] = tap[b]
    BY <1>0, <1>1
  <1>6. Types'
    BY <1>0, <1>1, <1>4 DEF IInv, Types, PumpType, FileType
  <1>7. PumpsBegin'
    BY <1>1, <1>5 DEF IInv, PumpsBegin
  <1>8. Stages'
    <2> SUFFICES ASSUME NEW b \in Conns PROVE Stage(b)'
      BY DEF Stages
    <2>1. Stage(b)
      BY DEF IInv, Stages
    <2> QED
      BY <2>1, <1>1, <1>5 DEF Stage, Running, Whole
  <1>9. Final'
    BY <1>1, <1>5 DEF IInv, Final, Running
  <1>10. Logged'
    <2> SUFFICES ASSUME NEW b \in Conns, NEW f \in Directions
                 PROVE  Log(file[b], sock[b][f].out, f, Mode(b, f), Due(b, f))'
      BY DEF Logged
    <2>1. CASE b # c
      <3>1. tap'[b] = tap[b] /\ pump'[b][f] = pump[b][f] /\ file'[b] = file[b]
            /\ sock'[b][f].out = sock[b][f].out
        BY <1>1, <1>4, <1>5, <2>1
      <3> QED
        BY <3>1, SameMode, LoggedStays DEF IInv
    <2>2. CASE b = c /\ f # "c2s"
      <3>1. file'[c] = file[c] /\ sock'[c][f].out = sock[c][f].out
        BY <1>1, <1>4, <2>2
      <3>2. Mode(c, f) = "settled" /\ Mode(c, f)' = "settled"
        BY <1>1, <1>5, <2>2 DEF Mode, Directions
      <3> QED
        BY <2>2, <3>1, <3>2, LoggedStays DEF IInv
    <2>3. CASE b = c /\ f = "c2s"
      <3> DEFINE o == sock[c][f].out
      <3>1. Mode(c, f) = "due" /\ Due(c, f) = x /\ Mode(c, f)' = "settled"
        BY <1>1, <1>2, <1>5, <2>3 DEF Mode, Due
      <3>2. Log(file[c], o, f, "due", x)
        BY <3>1 DEF IInv, Logged
      <3>3. o \in Seq(Nat)
        BY <1>0 DEF SockType, Sock
      <3>4. sock'[c][f].out = Append(o, x) /\ file'[c] = file[c]
        BY <1>1, <1>4, <2>3
      <3> HIDE DEF o
      <3>5. Log(file[c], Append(o, x), f, "settled", Due(c, f)')
        BY <3>2, <3>3, LogWrite
      <3>6. Log(file'[c], sock'[c][f].out, f, Mode(c, f)', Due(c, f)')
        BY <3>1, <3>4, <3>5
      <3> QED
        BY <2>3, <3>6, LoggedThen
    <2> QED
      BY <2>1, <2>2, <2>3
  <1> QED
    BY <1>6, <1>7, <1>8, <1>9, <1>10 DEF IInv

\* A chunk that was read is filed.
LEMMA RecordKeeps ==
  ASSUME IInv, NEW c \in Conns, NEW d \in Directions, Record(c, d)
  PROVE  IInv'
  <1>0. /\ SockType /\ FileType /\ PumpType /\ now \in Nat /\ pump[c][d] \in Pump
        /\ pump \in [Conns -> [Directions -> Pump]]
    BY DEF IInv, Types, PumpType
  <1>1. /\ tap[c] = "pump" /\ pump[c][d].st = "held"
        /\ file' = [file EXCEPT ![c] = Append(@, Rec(now, d, pump[c][d].x[2]))]
        /\ pump' = [pump EXCEPT ![c][d].st = "write"]
        /\ UNCHANGED <<now, phase, tap, sock, stalled, entries, manifest>>
    BY DEF Record, PumpIs, Stamp
  <1>2. PICK r \in Recs : r = Rec(now, d, pump[c][d].x[2])
    <2>1. pump[c][d].x[2] \in Nat /\ d \in {"c2s", "s2c"}
      BY <1>0, <1>1 DEF PumpType, Directions
    <2> QED
      BY <1>0, <2>1 DEF Rec, Recs
  <1>3. r.kind = d /\ r.t = now /\ r.x = pump[c][d].x[2]
    BY <1>2 DEF Rec
  <1>4. /\ FileType' /\ file'[c] = Append(file[c], r)
        /\ \A b \in Conns : b # c => file'[b] = file[b]
    BY <1>0, <1>1, <1>2, FileAppend
  <1>5. /\ pump'[c][d].st = "write" /\ pump'[c][d].x = pump[c][d].x
        /\ \A b \in Conns, f \in Directions : b # c \/ f # d => pump'[b][f] = pump[b][f]
    <2>1. PICK e \in Pump : e = [pump[c][d] EXCEPT !.st = "write"]
      BY <1>0 DEF Pump
    <2>2. e.x = pump[c][d].x /\ e.st = "write"
      BY <1>0, <2>1 DEF Pump
    <2>3. pump' = [pump EXCEPT ![c] = [pump[c] EXCEPT ![d] = e]]
      BY <1>1, <2>1
    <2>4. e.x[2] \in Nat
      BY <1>0, <1>1, <2>2 DEF PumpType
    <2>5. /\ pump'[c][d] = e
          /\ \A b \in Conns, f \in Directions : b # c \/ f # d => pump'[b][f] = pump[b][f]
      BY <1>0, <2>3, <2>4, PumpAt
    <2> QED
      BY <2>2, <2>5
  <1>6. PumpType'
    BY PumpMoves DEF IInv
  <1>7. Types'
    BY <1>0, <1>1, <1>4, <1>6 DEF IInv, Types, SockType
  <1>8. PumpsBegin'
    BY <1>1, <1>5 DEF IInv, PumpsBegin
  <1>9. Stages'
    <2> SUFFICES ASSUME NEW b \in Conns PROVE Stage(b)'
      BY DEF Stages
    <2>1. Stage(b)
      BY DEF IInv, Stages
    <2>2. CASE b # c
      BY <2>1, <2>2, <1>1, <1>4 DEF Stage, Running, Whole
    <2>3. CASE b = c
      <3>1. /\ file[c] \in Seq(Recs) /\ file[c] # <<>> /\ Whole(file[c], now) /\ Running(c)
            /\ c \in Range(entries) /\ \A i \in 1..Len(file[c]) : file[c][i].kind # "disconnect"
        BY <2>1, <2>3, <1>0, <1>1 DEF Stage, Running, FileType
      <3>2. r.kind \notin {"connect", "disconnect"}
        BY <1>3 DEF Directions
      <3>3. Whole(Append(file[c], r), now)
        BY <1>3, <3>1, <3>2, WholeAppend
      <3>4. Whole(file[c], now)'
        BY <1>1, <1>4, <3>3 DEF Whole
      <3>5. /\ file'[c] # <<>>
            /\ \A i \in 1..Len(file'[c]) : file'[c][i].kind # "disconnect"
        <4>1. /\ Len(file'[c]) = Len(file[c]) + 1 /\ Len(file[c]) \in Nat
              /\ file'[c][Len(file[c]) + 1] = r /\ file'[c] # <<>>
              /\ \A i \in 1..Len(file[c]) : file'[c][i] = file[c][i]
          BY <1>4, <3>1, AppendProperties, LenProperties
        <4>2. \A i \in 1..(Len(file[c]) + 1) : i \in 1..Len(file[c]) \/ i = Len(file[c]) + 1
          BY <4>1
        <4> QED
          BY <3>1, <3>2, <4>1, <4>2
      <3> QED
        BY <2>3, <1>1, <3>1, <3>4, <3>5 DEF Stage
    <2> QED
      BY <2>2, <2>3
  <1>10. Final'
    BY <1>1 DEF IInv, Final, Running
  <1>11. Logged'
    <2> SUFFICES ASSUME NEW b \in Conns, NEW f \in Directions
                 PROVE  Log(file[b], sock[b][f].out, f, Mode(b, f), Due(b, f))'
      BY DEF Logged
    <2>1. CASE b # c
      <3>1. tap'[b] = tap[b] /\ pump'[b][f] = pump[b][f] /\ file'[b] = file[b]
            /\ sock'[b][f].out = sock[b][f].out
        BY <1>1, <1>4, <1>5, <2>1
      <3> QED
        BY <3>1, SameMode, LoggedStays DEF IInv
    <2>2. CASE b = c
      <3> DEFINE o == sock[c][f].out
                 g == file[c]
      <3>1. o \in Seq(Nat) /\ g \in Seq(Recs) /\ sock'[c][f].out = o /\ file'[c] = Append(g, r)
        BY <1>0, <1>1, <1>4 DEF SockType, Sock, FileType
      <3>2. Log(g, o, f, Mode(c, f), Due(c, f))
        BY DEF IInv, Logged
      <3> HIDE DEF o, g
      <3>3. CASE f = d
        <4>1. Mode(c, f) = "settled" /\ Mode(c, f)' = "due" /\ Due(c, f)' = r.x
          BY <1>1, <1>3, <1>5, <3>3 DEF Mode, Due
        <4>2. r.kind \in Kinds(f)
          BY <1>3, <3>3 DEF Kinds, Directions
        <4>3. Log(Append(g, r), o, f, "due", r.x)
          BY <3>1, <3>2, <4>1, <4>2, LogRecord
        <4>4. Log(file'[c], sock'[c][f].out, f, Mode(c, f)', Due(c, f)')
          BY <3>1, <4>1, <4>3
        <4> QED
          BY <2>2, <4>4, LoggedThen
      <3>4. CASE f # d
        <4>1. Mode(c, f)' = Mode(c, f) /\ Due(c, f)' = Due(c, f) /\ Mode(c, f) # "lost"
          BY <1>1, <1>5, <3>4 DEF Mode, Due
        <4>2. r.kind \notin Kinds(f)
          BY <1>3, <3>4 DEF Kinds, Directions
        <4>3. Log(Append(g, r), o, f, Mode(c, f), Due(c, f))
          BY <3>1, <3>2, <4>1, <4>2, LogSkip
        <4>4. Log(file'[c], sock'[c][f].out, f, Mode(c, f)', Due(c, f)')
          BY <3>1, <4>1, <4>3
        <4> QED
          BY <2>2, <4>4, LoggedThen
      <3> QED
        BY <3>3, <3>4
    <2> QED
      BY <2>1, <2>2
  <1> QED
    BY <1>7, <1>8, <1>9, <1>10, <1>11 DEF IInv

\* A filed chunk is written to the far side.
LEMMA WriteKeeps ==
  ASSUME IInv, NEW c \in Conns, NEW d \in Directions, Write(c, d)
  PROVE  IInv'
  <1>0. /\ SockType /\ FileType /\ PumpType /\ pump \in [Conns -> [Directions -> Pump]]
    BY DEF IInv, Types, PumpType
  <1>1. /\ tap[c] = "pump" /\ pump[c][d].st = "write"
        /\ sock' = [sock EXCEPT ![c][d].out = Append(@, pump[c][d].x[2])]
        /\ pump' = [pump EXCEPT ![c][d] = Idle]
        /\ UNCHANGED <<now, phase, tap, stalled, file, entries, manifest>>
    BY DEF Write, MayWrite, PumpIs
  <1>2. PICK x \in Nat : x = pump[c][d].x[2]
    BY <1>0, <1>1 DEF PumpType
  <1>3. sock' = [sock EXCEPT ![c][d].out = Append(@, x)]
    BY <1>1, <1>2
  <1>4. /\ SockType' /\ sock'[c][d].out = Append(sock[c][d].out, x)
        /\ \A b \in Conns, f \in Directions : b # c \/ f # d => sock'[b][f].out = sock[b][f].out
    BY <1>0, <1>3, SockOut
  <1>5. /\ pump'[c][d].st = "read"
        /\ \A b \in Conns, f \in Directions : b # c \/ f # d => pump'[b][f] = pump[b][f]
    BY <1>0, <1>1 DEF Idle
  <1>6. PumpType'
    BY PumpMoves DEF IInv
  <1>7. Types'
    BY <1>0, <1>1, <1>4, <1>6 DEF IInv, Types, FileType
  <1>8. PumpsBegin'
    BY <1>1, <1>5 DEF IInv, PumpsBegin
  <1>9. Stages' /\ Final'
    BY <1>1 DEF IInv, Stages, Stage, Final, Running, Whole
  <1>10. Logged'
    <2> SUFFICES ASSUME NEW b \in Conns, NEW f \in Directions
                 PROVE  Log(file[b], sock[b][f].out, f, Mode(b, f), Due(b, f))'
      BY DEF Logged
    <2>1. CASE b # c \/ f # d
      <3>1. tap'[b] = tap[b] /\ pump'[b][f] = pump[b][f] /\ file'[b] = file[b]
            /\ sock'[b][f].out = sock[b][f].out
        BY <1>1, <1>4, <1>5, <2>1
      <3> QED
        BY <3>1, SameMode, LoggedStays DEF IInv
    <2>2. CASE b = c /\ f = d
      <3> DEFINE o == sock[c][f].out
      <3>1. Mode(c, f) = "due" /\ Due(c, f) = x /\ Mode(c, f)' = "settled"
        BY <1>1, <1>2, <1>5, <2>2 DEF Mode, Due
      <3>2. Log(file[c], o, f, "due", x)
        BY <3>1 DEF IInv, Logged
      <3>3. o \in Seq(Nat)
        BY <1>0 DEF SockType, Sock
      <3>4. sock'[c][f].out = Append(o, x) /\ file'[c] = file[c]
        BY <1>1, <1>4, <2>2
      <3> HIDE DEF o
      <3>5. Log(file[c], Append(o, x), f, "settled", Due(c, f)')
        BY <3>2, <3>3, LogWrite
      <3>6. Log(file'[c], sock'[c][f].out, f, Mode(c, f)', Due(c, f)')
        BY <3>1, <3>4, <3>5
      <3> QED
        BY <2>2, <3>6, LoggedThen
    <2> QED
      BY <2>1, <2>2
  <1> QED
    BY <1>7, <1>8, <1>9, <1>10 DEF IInv

\* Both pumps have ended: the disconnect record closes the file.
LEMMA DisconnectKeeps ==
  ASSUME IInv, NEW c \in Conns, Disconnect(c)
  PROVE  IInv'
  <1>0. /\ SockType /\ FileType /\ PumpType /\ now \in Nat
        /\ tap \in [Conns -> {"none", "open", "hello", "forward", "register", "pump", "ended", "cut", "killed"}]
    BY DEF IInv, Types
  <1>1. /\ tap[c] = "pump"
        /\ file' = [file EXCEPT ![c] = Append(@, Rec(now, "disconnect", 0))]
        /\ tap' = [tap EXCEPT ![c] = "ended"] /\ sock' = Hangup(c)
        /\ UNCHANGED <<now, phase, pump, stalled, entries, manifest>>
    BY DEF Disconnect, PumpIs, Directions
  <1>2. PICK r \in Recs : r = Rec(now, "disconnect", 0)
    BY <1>0 DEF Rec, Recs
  <1>3. r.kind = "disconnect" /\ r.t = now
    BY <1>2 DEF Rec
  <1>4. /\ FileType' /\ file'[c] = Append(file[c], r)
        /\ \A b \in Conns : b # c => file'[b] = file[b]
    BY <1>0, <1>1, <1>2, FileAppend
  <1>5. SockType' /\ \A b \in Conns, f \in Directions : sock'[b][f].out = sock[b][f].out
    BY <1>0, <1>1, SockHangup DEF SockType
  <1>6. tap'[c] = "ended" /\ \A b \in Conns : b # c => tap'[b] = tap[b]
    BY <1>0, <1>1
  <1>7. Types'
    BY <1>0, <1>1, <1>4, <1>5 DEF IInv, Types, PumpType
  <1>8. PumpsBegin'
    BY <1>1, <1>6 DEF IInv, PumpsBegin
  <1>9. Stages'
    <2> SUFFICES ASSUME NEW b \in Conns PROVE Stage(b)'
      BY DEF Stages
    <2>1. Stage(b)
      BY DEF IInv, Stages
    <2>2. CASE b # c
      BY <2>1, <2>2, <1>1, <1>4, <1>6 DEF Stage, Running, Whole
    <2>3. CASE b = c
      <3>1. /\ file[c] \in Seq(Recs) /\ file[c] # <<>> /\ Whole(file[c], now)
            /\ c \in Range(entries) /\ \A i \in 1..Len(file[c]) : file[c][i].kind # "disconnect"
        BY <2>1, <2>3, <1>0, <1>1 DEF Stage, Running, FileType
      <3>2. Whole(Append(file[c], r), now) /\ Append(file[c], r) # <<>>
        BY <1>3, <3>1, WholeAppend, AppendProperties
      <3>3. Whole(file[c], now)'
        BY <1>1, <1>4, <3>2 DEF Whole
      <3> QED
        BY <2>3, <1>1, <1>4, <1>6, <3>1, <3>2, <3>3 DEF Stage, Running
    <2> QED
      BY <2>2, <2>3
  <1>10. Final'
    BY <1>1, <1>6 DEF IInv, Final, Running
  <1>11. Logged'
    <2> SUFFICES ASSUME NEW b \in Conns, NEW f \in Directions
                 PROVE  Log(file[b], sock[b][f].out, f, Mode(b, f), Due(b, f))'
      BY DEF Logged
    <2>1. CASE b # c
      <3>1. tap'[b] = tap[b] /\ pump'[b][f] = pump[b][f] /\ file'[b] = file[b]
            /\ sock'[b][f].out = sock[b][f].out
        BY <1>1, <1>4, <1>5, <1>6, <2>1
      <3> QED
        BY <3>1, SameMode, LoggedStays DEF IInv
    <2>2. CASE b = c
      <3> DEFINE o == sock[c][f].out
                 g == file[c]
      <3>1. o \in Seq(Nat) /\ g \in Seq(Recs) /\ sock'[c][f].out = o /\ file'[c] = Append(g, r)
        BY <1>0, <1>4, <1>5 DEF SockType, Sock, FileType
      <3>2. Log(g, o, f, Mode(c, f), Due(c, f))
        BY DEF IInv, Logged
      <3> HIDE DEF o, g
      <3>3. r.kind \notin Kinds(f) /\ Mode(c, f)' = "free" /\ Mode(c, f) # "lost"
        BY <1>1, <1>3, <1>6 DEF Kinds, Mode
      <3>4. Log(Append(g, r), o, f, Mode(c, f), Due(c, f))
        BY <3>1, <3>2, <3>3, LogSkip
      <3>5. Log(Append(g, r), o, f, "free", Due(c, f)')
        BY <3>3, <3>4, LogWeaken
      <3>6. Log(file'[c], sock'[c][f].out, f, Mode(c, f)', Due(c, f)')
        BY <3>1, <3>3, <3>5
      <3> QED
        BY <2>2, <3>6, LoggedThen
    <2> QED
      BY <2>1, <2>2
  <1> QED
    BY <1>7, <1>8, <1>9, <1>10, <1>11 DEF IInv

\* The recorder is killed.
LEMMA CrashKeeps ==
  ASSUME IInv, Crash
  PROVE  IInv'
  <1>0. /\ SockType /\ FileType /\ PumpType /\ now \in Nat
        /\ tap \in [Conns -> {"none", "open", "hello", "forward", "register", "pump", "ended", "cut", "killed"}]
    BY DEF IInv, Types
  <1>1. /\ phase \in {"recording", "cut"} /\ phase' = "crashed"
        /\ tap' = [c \in Conns |-> IF Running(c) THEN "killed" ELSE tap[c]]
        /\ sock' = [c \in Conns |-> IF Running(c) THEN Hangup(c)[c] ELSE sock[c]]
        /\ file' \in [Conns -> UNION {Leftovers(c) : c \in Conns}]
        /\ \A c \in Conns : file'[c] \in Leftovers(c)
        /\ UNCHANGED <<now, pump, stalled, entries, manifest>>
    BY DEF Crash
  <1>2. SockType' /\ \A b \in Conns, f \in Directions : sock'[b][f].out = sock[b][f].out
    <2>1. \A c \in Conns : /\ Hangup(c)[c] \in [Directions -> Sock]
                           /\ \A f \in Directions : Hangup(c)[c][f].out = sock[c][f].out
      BY <1>0, SockHangup
    <2> QED
      BY <1>0, <1>1, <2>1 DEF SockType
  <1>3. \A b \in Conns : tap'[b] = IF Running(b) THEN "killed" ELSE tap[b]
    BY <1>1
  <1>4. \A b \in Conns : /\ ~Running(b) => file'[b] = file[b]
                         /\ Running(b) => \E k \in 0..Len(file[b]) : file'[b] = SubSeq(file[b], 1, k)
    BY <1>1 DEF Leftovers
  <1>5. ASSUME NEW b \in Conns, Running(b)
        PROVE  file'[b] \in Seq(Recs) /\ Whole(file'[b], now) /\ Len(file'[b]) <= Len(file[b])
    <2>1. PICK k \in 0..Len(file[b]) : file'[b] = SubSeq(file[b], 1, k)
      BY <1>4, <1>5
    <2>2. /\ file[b] \in Seq(Recs) /\ Whole(file[b], now)
          /\ \A i \in 1..Len(file[b]) : file[b][i].kind # "disconnect"
      BY <1>0, <1>5 DEF FileType, IInv, Stages, Stage
    <2> QED
      BY <1>0, <2>1, <2>2, WholeCut
  <1>6. FileType'
    <2>1. \A b \in Conns : file'[b] \in Seq(Recs)
      BY <1>0, <1>4, <1>5 DEF FileType
    <2> QED
      BY <1>1, <2>1 DEF FileType
  <1>7. Types'
    BY <1>0, <1>1, <1>2, <1>6 DEF IInv, Types, PumpType
  <1>8. PumpsBegin'
    BY <1>1, <1>3 DEF IInv, PumpsBegin
  <1>9. Stages'
    <2> SUFFICES ASSUME NEW b \in Conns PROVE Stage(b)'
      BY DEF Stages
    <2>1. Stage(b) /\ tap[b] # "killed" /\ Len(file[b]) \in Nat
      BY <1>0, <1>1, LenProperties DEF IInv, Stages, Stage, FileType
    <2>2. CASE Running(b)
      <3>1. tap'[b] = "killed" /\ phase' = "crashed" /\ now' = now /\ entries' = entries
        BY <1>1, <1>3, <2>2
      <3>2. Whole(file[b], now)' /\ Len(file'[b]) \in Nat /\ Len(file'[b]) <= Len(file[b])
        BY <1>5, <2>2, <3>1, LenProperties DEF Whole
      <3> QED
        BY <2>1, <3>1, <3>2 DEF Stage, Running
    <2>3. CASE ~Running(b)
      <3>1. tap'[b] = tap[b] /\ file'[b] = file[b] /\ now' = now /\ entries' = entries
        BY <1>1, <1>3, <1>4, <2>3
      <3> QED
        BY <2>1, <3>1, <2>3 DEF Stage, Running, Whole
    <2> QED
      BY <2>2, <2>3
  <1>10. Final'
    BY <1>1 DEF IInv, Final
  <1>11. Logged'
    <2> SUFFICES ASSUME NEW b \in Conns, NEW f \in Directions
                 PROVE  Log(file[b], sock[b][f].out, f, Mode(b, f), Due(b, f))'
      BY DEF Logged
    <2>1. sock'[b][f].out = sock[b][f].out /\ pump'[b][f] = pump[b][f]
      BY <1>1, <1>2
    <2>2. CASE Running(b)
      <3>1. PICK k \in 0..Len(file[b]) : file'[b] = SubSeq(file[b], 1, k)
        BY <1>4, <2>2
      <3>2. Mode(b, f) # "lost" /\ Mode(b, f)' = "lost"
        BY <1>3, <2>2 DEF Mode, Running
      <3>3. /\ file[b] \in Seq(Recs) /\ sock[b][f].out \in Seq(Nat)
            /\ Log(file[b], sock[b][f].out, f, Mode(b, f), Due(b, f))
        BY <1>0 DEF FileType, SockType, Sock, IInv, Logged
      <3>4. Lost(SubSeq(file[b], 1, k), sock[b][f].out, f)
        BY <3>2, <3>3, LogCut
      <3>5. Log(file'[b], sock'[b][f].out, f, Mode(b, f)', Due(b, f)')
        BY <2>1, <3>1, <3>2, <3>4 DEF Log
      <3> QED
        BY <3>5, LoggedThen
    <2>3. CASE ~Running(b)
      <3>1. tap'[b] = tap[b] /\ file'[b] = file[b]
        BY <1>3, <1>4, <2>3
      <3> QED
        BY <2>1, <3>1, SameMode, LoggedStays DEF IInv
    <2> QED
      BY <2>2, <2>3
  <1> QED
    BY <1>7, <1>8, <1>9, <1>10, <1>11 DEF IInv

\* The deadline, the manifest, the clock, or nothing.
LEMMA OtherKeeps ==
  ASSUME IInv, Deadline \/ WriteManifest \/ Tick \/ UNCHANGED vars
  PROVE  IInv'
  <1>1. /\ UNCHANGED <<tap, pump, sock, file, entries>>
        /\ now' = now \/ now' = now + 1
        /\ phase' \in {phase, "cut", "done"} /\ (phase = "crashed" => phase' = phase)
        /\ \/ manifest' = manifest /\ (phase' = phase \/ phase = "recording")
           \/ manifest' = <<entries>> /\ phase' = "done" /\ \A c \in Conns : ~Running(c)
    BY DEF Deadline, WriteManifest, AllJoined, Tick, vars
  <1>2. Types'
    BY <1>1 DEF IInv, Types, SockType, PumpType, FileType
  <1>3. PumpsBegin'
    BY <1>1 DEF IInv, PumpsBegin
  <1>4. Stages'
    <2> SUFFICES ASSUME NEW b \in Conns PROVE Stage(b)'
      BY DEF Stages
    <2>1. Stage(b) /\ file[b] \in Seq(Recs) /\ now \in Nat
      BY DEF IInv, Stages, Types, FileType
    <2>2. Whole(file[b], now + 1)
      BY <2>1, WholeLater DEF Stage
    <2>3. Whole(file[b], now)'
      BY <1>1, <2>1, <2>2 DEF Stage, Whole
    <2> QED
      BY <1>1, <2>1, <2>3 DEF Stage, Running
  <1>5. Final'
    BY <1>1 DEF IInv, Final, Running
  <1>6. Logged'
    <2> SUFFICES ASSUME NEW b \in Conns, NEW f \in Directions
                 PROVE  Log(file[b], sock[b][f].out, f, Mode(b, f), Due(b, f))'
      BY DEF Logged
    <2> QED
      BY <1>1, SameMode, LoggedStays DEF IInv
  <1> QED
    BY <1>2, <1>3, <1>4, <1>5, <1>6 DEF IInv

-----------------------------------------------------------------------------
\* The inductive invariant holds in every state of every behaviour.
THEOREM RecorderInductive == Spec => []IInv
  <1>1. Init => IInv
    <2> SUFFICES ASSUME Init PROVE IInv
      OBVIOUS
    <2>1. Types
      <3>1. Closed \in Sock /\ Idle \in Pump /\ Idle.st = "read"
        BY DEF Closed, Sock, Idle, Pump
      <3>2. SockType /\ PumpType
        BY <3>1 DEF Init, SockType, PumpType
      <3>3. FileType /\ entries \in Seq(Conns)
        BY DEF Init, FileType
      <3> QED
        BY <3>2, <3>3 DEF Init, Types
    <2>2. PumpsBegin
      BY DEF Init, PumpsBegin, Idle
    <2>3. Stages
      BY DEF Init, Stages, Stage, Whole, Running, Range
    <2>4. Final
      BY DEF Init, Final
    <2>5. Logged
      <3> SUFFICES ASSUME NEW c \in Conns, NEW d \in Directions
                   PROVE  Log(file[c], sock[c][d].out, d, Mode(c, d), Due(c, d))
        BY DEF Logged
      <3>1. file[c] = <<>> /\ sock[c][d].out = <<>> /\ Mode(c, d) = "settled"
        BY DEF Init, Closed, Mode
      <3> QED
        BY <3>1, LogStart
    <2> QED
      BY <2>1, <2>2, <2>3, <2>4, <2>5 DEF IInv
  <1>2. IInv /\ [Next]_vars => IInv'
    <2> SUFFICES ASSUME IInv, [Next]_vars PROVE IInv'
      OBVIOUS
    <2>1. ASSUME NEW c \in Conns, Accept(c) \/ TapStep(c) \/ Peers(c) PROVE IInv'
      <3>1. CASE Quiet(c)
        BY <3>1, QuietKeeps
      <3>2. CASE Greet(c)
        BY <3>1, <3>2, GreetKeeps DEF Quiet
      <3>3. CASE Forward(c)
        BY <3>1, <3>3, ForwardKeeps DEF Quiet
      <3>4. CASE Disconnect(c)
        BY <3>4, DisconnectKeeps
      <3>5. ASSUME NEW d \in Directions, Record(c, d) PROVE IInv'
        BY <3>5, RecordKeeps
      <3>6. ASSUME NEW d \in Directions, Write(c, d) PROVE IInv'
        BY <3>6, WriteKeeps
      <3> QED
        BY <2>1, <3>1, <3>2, <3>3, <3>4, <3>5, <3>6 DEF TapStep, PumpStep, Peers, Quiet
    <2>2. CASE Crash
      BY <2>2, CrashKeeps
    <2>3. CASE Deadline \/ WriteManifest \/ Tick \/ UNCHANGED vars
      BY <2>3, OtherKeeps
    <2> QED
      BY <2>1, <2>2, <2>3 DEF Next
  <1> QED
    BY <1>1, <1>2, PTL DEF Spec

\* What recordcmd.rs passed on is in the file, in order, and the file is at
\* most one chunk ahead; a killed recorder has lost no more than the end of an
\* open file.
THEOREM FiledBeforeWritten == Spec => []RecordedFirst
  <1>1. IInv => RecordedFirst
    <2> SUFFICES ASSUME IInv, NEW c \in Conns, NEW d \in Directions
                 PROVE  RecordedFirst!(c, d)
      BY DEF RecordedFirst
    <2> DEFINE o == sock[c][d].out
    <2>1. DOMAIN o = 1..Len(o) /\ Len(o) \in Nat
      <3>1. o \in Seq(Nat)
        BY DEF IInv, Types, SockType, Sock
      <3> QED
        BY <3>1, LenProperties
    <2>2. Log(file[c], o, d, Mode(c, d), Due(c, d))
      BY DEF IInv, Logged
    <2> HIDE DEF o
    <2>3. \E n \in 0..(Len(o) + 1) : \E at :
            /\ tap[c] # "killed" => n >= Len(o)
            /\ Lists(at, n, file[c], d)
            /\ \A k \in 1..n : k <= Len(o) => o[k] = file[c][at[k]].x
      <3>1. CASE tap[c] = "killed"
        <4>1. Mode(c, d) = "lost"
          BY <3>1 DEF Mode
        <4> QED
          BY <2>2, <3>1, <4>1 DEF Log, Lost
      <3>2. CASE tap[c] # "killed"
        <4>1. Mode(c, d) # "lost"
          BY <3>2 DEF Mode
        <4>2. PICK n \in Nat : /\ n = Len(o) \/ n = Len(o) + 1
                              /\ \E at : /\ Lists(at, n, file[c], d)
                                         /\ \A k \in 1..Len(o) : o[k] = file[c][at[k]].x
          BY <2>2, <4>1 DEF Log, Holds
        <4>3. n \in 0..(Len(o) + 1) /\ n >= Len(o)
          <5>1. PICK b \in Nat : b = Len(o)
            BY <2>1
          <5>2. n = b \/ n = b + 1
            BY <4>2, <5>1
          <5>3. n \in 0..(b + 1) /\ n >= b
            BY <5>2
          <5> QED
            BY <5>1, <5>3
        <4>4. \A k \in 1..n : k <= Len(o) => k \in 1..Len(o)
          BY <2>1
        <4> QED
          BY <4>2, <4>3, <4>4
      <3> QED
        BY <3>1, <3>2
    <2>4. PICK n \in 0..(Len(o) + 1) : \E at :
            /\ tap[c] # "killed" => n >= Len(o)
            /\ Lists(at, n, file[c], d)
            /\ \A k \in 1..n : k <= Len(o) => o[k] = file[c][at[k]].x
      BY <2>3
    <2>5. PICK at : /\ tap[c] # "killed" => n >= Len(o)
                    /\ Lists(at, n, file[c], d)
                    /\ \A k \in 1..n : k <= Len(o) => o[k] = file[c][at[k]].x
      BY <2>4
    <2>6. at \in [1..n -> DOMAIN file[c]] /\ \A k \in (1..n) \cap DOMAIN o : o[k] = file[c][at[k]].x
      BY <2>1, <2>5 DEF Lists
    <2>7. \E m \in 0..(Len(o) + 1) :
            /\ tap[c] # "killed" => m >= Len(o)
            /\ \E a \in [1..m -> DOMAIN file[c]] :
                 Lists(a, m, file[c], d) /\ \A k \in (1..m) \cap DOMAIN o : o[k] = file[c][a[k]].x
      BY <2>5, <2>6
    <2> QED
      BY <2>7 DEF o
  <1> QED
    BY <1>1, RecorderInductive, PTL

\* A capture that has a manifest can be replayed.
THEOREM CapturesAreWhole == Spec => []CaptureWhole
  <1>1. IInv => CaptureWhole
    <2> SUFFICES ASSUME IInv, manifest # <<>> PROVE CaptureWhole
      BY DEF CaptureWhole
    <2>1. manifest[1] = entries /\ \A c \in Conns : ~Running(c)
      BY DEF IInv, Final
    <2>2. Range(entries) \subseteq Conns
      <3>1. entries \in Seq(Conns)
        BY DEF IInv, Types
      <3> QED
        BY <3>1, LenProperties DEF Range
    <2>3. \A c \in Conns : tap[c] # "killed"
      BY DEF IInv, Final, Stages, Stage
    <2>4. \A c \in Conns : /\ Len(file[c]) > 1 => c \in Range(entries)
                           /\ c \in Range(entries) => file[c] # <<>>
                           /\ Whole(file[c], now)
                           /\ DOMAIN file[c] = 1..Len(file[c])
      BY <2>3, LenProperties DEF IInv, Stages, Stage, Types, FileType
    <2> QED
      BY <2>1, <2>2, <2>4 DEF CaptureWhole, Whole
  <1> QED
    BY <1>1, RecorderInductive, PTL
=============================================================================

---------------------------- MODULE BeastInput -----------------------------
(***************************************************************************)
(* The Beast input of the client (crates/mlatc/src/beast.rs and the input  *)
(* task of main.rs) and the encoder that feeds it in the bench             *)
(* (crates/mlat-bench/src/beastcmd.rs).  The stream is cut into reads at   *)
(* arbitrary places; the decoder keeps what it cannot yet decide, resyncs  *)
(* on noise and on truncated messages, and is replaced at a reconnect.     *)
(*                                                                         *)
(* A byte is the escape 0x1a, one of the three type bytes, or "x".  Want   *)
(* gives the payload of a type its length (9, 14 and 21 bytes in the code).*)
(***************************************************************************)
EXTENDS Integers, Sequences, SequencesExt

CONSTANTS
  Want,       \* payload length of each type
  DataBytes,  \* bytes that payloads are made of
  MaxBytes,   \* bound: bytes sent on a connection
  MaxNoise,   \* bound: bytes of noise sent on a connection
  MaxConns    \* bound: connections

Types == {"ac", "short", "long"}
Bytes == Types \cup {"esc", "x"}

ASSUME BeastAssumption ==
  /\ Want \in [Types -> Nat \ {0}] /\ DataBytes \subseteq Bytes
  /\ {MaxBytes, MaxNoise, MaxConns} \subseteq Nat

VARIABLES
  up,       \* the input is connected
  conns,    \* connections so far
  sent,     \* history: Mode S messages sent on this connection
  noise,    \* bytes of noise sent on this connection
  wire,     \* bytes sent and not yet read
  read,     \* history: bytes read on this connection
  buf,      \* buffer of the decoder
  got       \* receptions handed on from this connection

beastVars == <<up, conns, sent, noise, wire, read, buf, got>>

Message(type, payload) == [type |-> type, payload |-> payload]
Messages == UNION {{Message(k, p) : p \in [1..Want[k] -> DataBytes]} : k \in Types}

-----------------------------------------------------------------------------
(* beast-serve's encoder.                                                  *)

Doubled(c) == IF c = "esc" THEN <<"esc", "esc">> ELSE <<c>>

Escaped(p) == FlattenSeq([i \in DOMAIN p |-> Doubled(p[i])])

Encode(m) == <<"esc", m.type>> \o Escaped(m.payload)

-----------------------------------------------------------------------------
(* BeastDecoder.                                                           *)

\* One byte of a payload.  An escape waits for its double; another byte in
\* that place shows that the message was truncated before the escape.
Scan(want, acc, c) ==
  IF acc.st # "scan" THEN acc
  ELSE IF acc.esc /\ c # "esc" THEN [acc EXCEPT !.st = "cut"]
  ELSE IF ~acc.esc /\ c = "esc" THEN [acc EXCEPT !.esc = TRUE]
  ELSE [payload |-> Append(acc.payload, c), esc |-> FALSE,
        i |-> acc.i + (IF acc.esc THEN 2 ELSE 1),
        st |-> IF Len(acc.payload) + 1 = want THEN "done" ELSE "scan"]

\* Mutation: an escape at the end of the buffer is a truncated message.
UndecidedUnlessEscape(acc) == acc.st = "scan" /\ ~acc.esc

\* The buffer ends before the message does.
Undecided(acc) == acc.st = "scan"

NeedMore == [n |-> 0, out |-> <<>>]
Consumed(n, out) == [n |-> n, out |-> out]

\* Mutation: an unknown type waits for more bytes.
WaitAtNoise == NeedMore

\* An unknown type: one byte is skipped.
SkipNoise == Consumed(1, <<>>)

\* The scan of a payload before its first byte.
Begun == [payload |-> <<>>, esc |-> FALSE, i |-> 2, st |-> "scan"]

\* The scans of the payload that begins a buffer, by the bytes taken of it.
Scanned(b) ==
  LET acc[k \in 0..(Len(b) - 2)] ==
        IF k = 0 THEN Begun ELSE Scan(Want[b[2]], acc[k - 1], b[k + 2])
  IN  acc

\* What can be made of a buffer that begins with an escape.
ParseAt(b) ==
  IF Len(b) < 2 THEN NeedMore
  ELSE IF b[2] \notin Types THEN SkipNoise
  ELSE LET acc == Scanned(b)[Len(b) - 2]
       IN  IF Undecided(acc) THEN NeedMore
           ELSE Consumed(acc.i, IF acc.st = "done" /\ b[2] # "ac"
                                THEN <<Message(b[2], acc.payload)>> ELSE <<>>)

\* What can be made of any buffer that is not empty.
Step(b) == IF b[1] # "esc" THEN Consumed(1, <<>>) ELSE ParseAt(b)

LastBytes(b, k) == SubSeq(b, Len(b) - k + 1, Len(b))

\* The receptions in the last bytes of a buffer and what is kept of them, by
\* their number.
Decoded(b) ==
  LET from[k \in 0..Len(b)] ==
        LET step == Step(LastBytes(b, k))
        IN  IF k = 0 \/ step.n = 0
            THEN [out |-> <<>>, rest |-> LastBytes(b, k)]
            ELSE LET more == from[k - step.n]
                 IN  [out |-> step.out \o more.out, rest |-> more.rest]
  IN  from

\* feed: the receptions that a buffer holds and what is kept of it.
Feed(b) == Decoded(b)[Len(b)]

-----------------------------------------------------------------------------
(* The input task.                                                         *)

\* Mutation: the decoder outlives its connection.
KeptDecoder == buf

\* The buffer that a new connection starts with.
NewDecoder == <<>>

Connect ==
  /\ ~up /\ conns < MaxConns
  /\ up' = TRUE /\ conns' = conns + 1
  /\ buf' = NewDecoder
  /\ sent' = <<>> /\ noise' = 0 /\ wire' = <<>> /\ read' = <<>> /\ got' = <<>>

\* A read returns some of the bytes; what they complete is handed on.
Read(n) ==
  /\ up /\ n \in 1..Len(wire)
  /\ LET f == Feed(buf \o SubSeq(wire, 1, n))
     IN  buf' = f.rest /\ got' = got \o f.out
  /\ read' = read \o SubSeq(wire, 1, n)
  /\ wire' = SubSeq(wire, n + 1, Len(wire))
  /\ UNCHANGED <<up, conns, sent, noise>>

\* The connection is lost, with what was not read of it.
Lost ==
  /\ up
  /\ up' = FALSE
  /\ sent' = <<>> /\ noise' = 0 /\ wire' = <<>> /\ read' = <<>> /\ got' = <<>>
  /\ UNCHANGED <<conns, buf>>

-----------------------------------------------------------------------------
(* The receiver (external).                                                *)

Room(n) == Len(read) + Len(wire) + n <= MaxBytes

Send(m) ==
  /\ up /\ Room(Len(Encode(m)))
  /\ wire' = wire \o Encode(m)
  /\ sent' = IF m.type = "ac" THEN sent ELSE Append(sent, m)
  /\ UNCHANGED <<up, conns, noise, read, buf, got>>

\* A byte that belongs to no message.
Noise(c) ==
  /\ up /\ Room(1) /\ noise < MaxNoise
  /\ wire' = Append(wire, c)
  /\ noise' = noise + 1
  /\ UNCHANGED <<up, conns, sent, read, buf, got>>

-----------------------------------------------------------------------------
BeastInit ==
  /\ up = FALSE /\ conns = 0 /\ buf = <<>>
  /\ sent = <<>> /\ noise = 0 /\ wire = <<>> /\ read = <<>> /\ got = <<>>

BeastNext ==
  \/ Connect \/ Lost
  \/ \E n \in 1..MaxBytes : Read(n)
  \/ \E m \in Messages : Send(m)
  \/ \E c \in Bytes : Noise(c)

BeastSpec == BeastInit /\ [][BeastNext]_beastVars

-----------------------------------------------------------------------------
(* Properties.                                                             *)

\* How a stream is cut into reads makes no difference: the receptions of a
\* connection are those of its bytes decoded at once, noise included.
ChunksDoNotMatter == up => got = Feed(read).out

\* On a connection without noise exactly the Mode S messages whose last byte
\* was read are handed on, unchanged and in order, whatever their bytes and
\* whatever was cut off when the connection before was lost.
HandsOnWhatWasSent ==
  up /\ noise = 0 =>
    /\ IsPrefix(got, sent)
    /\ wire = <<>> => got = sent /\ buf = <<>>

\* The decoder keeps less than one message, whatever it is sent.
KeepsLessThanAMessage ==
  Len(buf) < 2 + 2 * (CHOOSE n \in {Want[k] : k \in Types} : \A k \in Types : Want[k] <= n)
=============================================================================

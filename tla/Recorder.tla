----------------------------- MODULE Recorder ------------------------------
(***************************************************************************)
(* The record proxy of the bench (crates/mlat-bench/src/recordcmd.rs) and  *)
(* the capture it writes (crates/mb-capture/src/lib.rs): every connection  *)
(* has a tap, a task that reads the handshake line, files it as the        *)
(* connect record, passes it on, registers the connection for the manifest *)
(* and then pumps both directions until both have ended or the deadline    *)
(* cuts it.  The two pumps of a tap share one file.                        *)
(*                                                                         *)
(* A chunk is what one read returned.  A direction of a socket pair is the *)
(* chunks waiting to be read (in), whether their sender closed (eof), the  *)
(* chunks written on the far side (out), and whether that side was shut    *)
(* down (fin).  Steps of a tap are separated at its awaits.                *)
(*                                                                         *)
(* A file is the records its encoder was given.  The encoder and its       *)
(* BufWriter are flushed when the tap drops them, never before, so what a  *)
(* killed recorder leaves of an open file is some beginning of it.         *)
(* Writing a file does not fail here.                                      *)
(***************************************************************************)
EXTENDS Integers, Sequences, FiniteSets, Functions

CONSTANTS
  Conns,      \* connections
  Duration,   \* when the recording is cut
  MaxUp,      \* bound: chunks a connection's client sends after its handshake
  MaxDown     \* bound: chunks the server sends on a connection

Directions == {"c2s", "s2c"}

ASSUME RecorderAssumption ==
  Duration \in Nat /\ MaxUp \in [Conns -> Nat] /\ MaxDown \in [Conns -> Nat]

VARIABLES
  now,        \* time
  phase,      \* "recording", "cut", "done" or "crashed"
  tap,        \* progress of a connection's tap
  pump,       \* of each direction: what the pump is doing and holds
  sock,       \* of each direction: the sockets it joins
  stalled,    \* connections that the server does not read from now
  file,       \* records of a connection's file
  entries,    \* connections registered so far
  manifest    \* <<>>, or the manifest's entries in a sequence of their own

vars == <<now, phase, tap, pump, sock, stalled, file, entries, manifest>>

Idle == [st |-> "read", x |-> <<>>]
Closed == [in |-> <<>>, eof |-> FALSE, out |-> <<>>, fin |-> FALSE]

Rec(t, kind, x) == [t |-> t, kind |-> kind, x |-> x]

\* A tap's task exists and has not finished.
Running(c) == tap[c] \in {"open", "hello", "forward", "register", "pump"}

\* Both sockets of a connection are dropped when its tap ends.
Hangup(c) == [sock EXCEPT ![c] = [d \in Directions |->
                [@[d] EXCEPT !.eof = TRUE, !.fin = TRUE]]]

-----------------------------------------------------------------------------
(* The tap.                                                                *)

\* The accept loop spawns a tap for a client, which sends its handshake line.
Accept(c) ==
  /\ phase = "recording" /\ tap[c] = "none"
  /\ tap' = [tap EXCEPT ![c] = "open"]
  /\ sock' = [sock EXCEPT ![c]["c2s"].in = <<0>>]
  /\ UNCHANGED <<now, phase, pump, stalled, file, entries, manifest>>

\* The upstream answers, or the tap ends without a trace.
Upstream(c) ==
  /\ tap[c] = "open"
  /\ \/ tap' = [tap EXCEPT ![c] = "hello"] /\ UNCHANGED sock
     \/ tap' = [tap EXCEPT ![c] = "ended"] /\ sock' = Hangup(c)
  /\ UNCHANGED <<now, phase, pump, stalled, file, entries, manifest>>

\* client_writer: a new file, with its connect record.
NewFile(line) == <<Rec(now, "connect", line)>>

\* The client's first line becomes the connect record of a new file; a
\* client that closes before it leaves nothing.
Greet(c) ==
  /\ tap[c] = "hello"
  /\ \/ /\ sock[c]["c2s"].in # <<>>
        /\ sock' = [sock EXCEPT ![c]["c2s"].in = Tail(@)]
        /\ file' = [file EXCEPT ![c] = NewFile(Head(sock[c]["c2s"].in))]
        /\ tap' = [tap EXCEPT ![c] = "forward"]
     \/ /\ sock[c]["c2s"].in = <<>> /\ sock[c]["c2s"].eof
        /\ tap' = [tap EXCEPT ![c] = "ended"] /\ sock' = Hangup(c)
        /\ UNCHANGED file
  /\ UNCHANGED <<now, phase, pump, stalled, entries, manifest>>

\* The handshake line goes to the server, unless that has closed.
Forward(c) ==
  /\ tap[c] = "forward" /\ c \notin stalled
  /\ \/ /\ sock' = [sock EXCEPT ![c]["c2s"].out = Append(@, file[c][1].x)]
        /\ tap' = [tap EXCEPT ![c] = "register"]
     \/ /\ sock[c]["s2c"].eof
        /\ tap' = [tap EXCEPT ![c] = "ended"] /\ sock' = Hangup(c)
  /\ UNCHANGED <<now, phase, pump, stalled, file, entries, manifest>>

\* Mutation: a connection is not registered before it pumps.
NotRegistered(c) == entries

\* The entries with this connection registered.
Registered(c) == Append(entries, c)

Register(c) ==
  /\ tap[c] = "register"
  /\ entries' = Registered(c)
  /\ tap' = [tap EXCEPT ![c] = "pump"]
  /\ UNCHANGED <<now, phase, pump, sock, stalled, file, manifest>>

-----------------------------------------------------------------------------
(* The pumps.                                                              *)

PumpIs(c, d, st) == tap[c] = "pump" /\ pump[c][d].st = st

\* A read returns a chunk.
Read(c, d) ==
  /\ PumpIs(c, d, "read") /\ sock[c][d].in # <<>>
  /\ pump' = [pump EXCEPT ![c][d] = [st |-> "held", x |-> <<now, Head(sock[c][d].in)>>]]
  /\ sock' = [sock EXCEPT ![c][d].in = Tail(@)]
  /\ UNCHANGED <<now, phase, tap, stalled, file, entries, manifest>>

\* Mutation: the stamp is taken when the chunk is read, before the lock.
StampRead(c, d) == pump[c][d].x[1]

\* The stamp of a record is taken under the file's lock.
Stamp(c, d) == now

\* The chunk is recorded once the file's lock is free.
Record(c, d) ==
  /\ PumpIs(c, d, "held")
  /\ file' = [file EXCEPT ![c] = Append(@, Rec(Stamp(c, d), d, pump[c][d].x[2]))]
  /\ pump' = [pump EXCEPT ![c][d].st = "write"]
  /\ UNCHANGED <<now, phase, tap, sock, stalled, entries, manifest>>

\* Mutation: a chunk may be written without having been recorded.
WriteAtOnce(c, d) == PumpIs(c, d, "held") \/ PumpIs(c, d, "write")

\* The state in which a pump writes to the far side.
MayWrite(c, d) == PumpIs(c, d, "write")

\* The recorded chunk is written to the far side.
Write(c, d) ==
  /\ MayWrite(c, d)
  /\ d = "c2s" => c \notin stalled
  /\ sock' = [sock EXCEPT ![c][d].out = Append(@, pump[c][d].x[2])]
  /\ pump' = [pump EXCEPT ![c][d] = Idle]
  /\ UNCHANGED <<now, phase, tap, stalled, file, entries, manifest>>

\* The far side has closed: the pump ends with an error.
WriteFails(c, d) ==
  /\ PumpIs(c, d, "write") /\ \E b \in Directions \ {d} : sock[c][b].eof
  /\ sock' = [sock EXCEPT ![c][d].fin = TRUE]
  /\ pump' = [pump EXCEPT ![c][d] = [st |-> "end", x |-> <<>>]]
  /\ UNCHANGED <<now, phase, tap, stalled, file, entries, manifest>>

\* A read returns nothing: all was read and the sender closed.
AtEnd(c, d) == sock[c][d].in = <<>> /\ sock[c][d].eof

\* The sender closed: the far side is shut down and the pump ends.
Eof(c, d) ==
  /\ PumpIs(c, d, "read") /\ AtEnd(c, d)
  /\ sock' = [sock EXCEPT ![c][d].fin = TRUE]
  /\ pump' = [pump EXCEPT ![c][d] = [st |-> "end", x |-> <<>>]]
  /\ UNCHANGED <<now, phase, tap, stalled, file, entries, manifest>>

\* The sender reset the connection: the read fails, what was still to be read
\* is lost and the pump ends with an error.
ReadFails(c, d) ==
  /\ PumpIs(c, d, "read") /\ sock[c][d].eof /\ sock[c][d].in # <<>>
  /\ sock' = [sock EXCEPT ![c][d].fin = TRUE]
  /\ pump' = [pump EXCEPT ![c][d] = [st |-> "end", x |-> <<>>]]
  /\ UNCHANGED <<now, phase, tap, stalled, file, entries, manifest>>

\* When both pumps have ended the disconnect record closes the file.
Disconnect(c) ==
  /\ \A d \in Directions : PumpIs(c, d, "end")
  /\ file' = [file EXCEPT ![c] = Append(@, Rec(now, "disconnect", 0))]
  /\ tap' = [tap EXCEPT ![c] = "ended"]
  /\ sock' = Hangup(c)
  /\ UNCHANGED <<now, phase, pump, stalled, entries, manifest>>

-----------------------------------------------------------------------------
(* The end of the recording.                                               *)

\* The deadline ends the accept loop and asks every tap to stop.
Deadline ==
  /\ phase = "recording" /\ now >= Duration
  /\ phase' = "cut"
  /\ UNCHANGED <<now, tap, pump, sock, stalled, file, entries, manifest>>

\* A tap is dropped at the await it waits in; dropping its encoder flushes.
Cut(c) ==
  /\ phase = "cut" /\ Running(c)
  /\ tap' = [tap EXCEPT ![c] = "cut"]
  /\ sock' = Hangup(c)
  /\ UNCHANGED <<now, phase, pump, stalled, file, entries, manifest>>

\* Mutation: the manifest is written without waiting for the taps.
NoJoin == TRUE

\* join_next has returned for every tap.
AllJoined == \A c \in Conns : ~Running(c)

\* The manifest is the last thing written.
WriteManifest ==
  /\ phase = "cut" /\ AllJoined
  /\ manifest' = <<entries>>
  /\ phase' = "done"
  /\ UNCHANGED <<now, tap, pump, sock, stalled, file, entries>>

\* What may be left of a file when the recorder is killed: of an open one any
\* beginning, since its encoder has not been flushed.
Leftovers(c) ==
  IF Running(c) THEN {SubSeq(file[c], 1, k) : k \in 0..Len(file[c])} ELSE {file[c]}

\* The recorder is killed: every tap is gone and no manifest is written.
Crash ==
  /\ phase \in {"recording", "cut"}
  /\ phase' = "crashed"
  /\ tap' = [c \in Conns |-> IF Running(c) THEN "killed" ELSE tap[c]]
  /\ sock' = [c \in Conns |-> IF Running(c) THEN Hangup(c)[c] ELSE sock[c]]
  /\ \E left \in [Conns -> UNION {Leftovers(c) : c \in Conns}] :
       (\A c \in Conns : left[c] \in Leftovers(c)) /\ file' = left
  /\ UNCHANGED <<now, pump, stalled, entries, manifest>>

-----------------------------------------------------------------------------
(* The peers (external).  Chunks are numbered; the handshake line is 0.    *)

\* Chunks of a direction so far: waiting, held unrecorded, or recorded.
Made(c, d) == Len(sock[c][d].in) + (IF pump[c][d].st = "held" THEN 1 ELSE 0)
                + Cardinality({i \in DOMAIN file[c] : file[c][i].kind = d})

PeerSends(c, d) ==
  /\ tap[c] = "pump" /\ ~sock[c][d].eof /\ sock[c][d].in = <<>>
  /\ Made(c, d) < (IF d = "c2s" THEN MaxUp[c] ELSE MaxDown[c])
  /\ sock' = [sock EXCEPT ![c][d].in = <<Made(c, d) + 1>>]
  /\ UNCHANGED <<now, phase, tap, pump, stalled, file, entries, manifest>>

\* A peer closes, or at least its direction of the stream.
PeerCloses(c, d) ==
  /\ Running(c) /\ ~sock[c][d].eof
  /\ sock' = [sock EXCEPT ![c][d].eof = TRUE]
  /\ UNCHANGED <<now, phase, tap, pump, stalled, file, entries, manifest>>

\* The server stops reading a connection, or goes on.
ServerStalls(c) ==
  /\ Running(c)
  /\ stalled' = IF c \in stalled THEN stalled \ {c} ELSE stalled \cup {c}
  /\ UNCHANGED <<now, phase, tap, pump, sock, file, entries, manifest>>

Tick ==
  /\ now < Duration
  /\ now' = now + 1
  /\ UNCHANGED <<phase, tap, pump, sock, stalled, file, entries, manifest>>

-----------------------------------------------------------------------------
Init ==
  /\ now = 0 /\ phase = "recording" /\ stalled = {}
  /\ tap = [c \in Conns |-> "none"]
  /\ pump = [c \in Conns |-> [d \in Directions |-> Idle]]
  /\ sock = [c \in Conns |-> [d \in Directions |-> Closed]]
  /\ file = [c \in Conns |-> <<>>]
  /\ entries = <<>> /\ manifest = <<>>

PumpStep(c, d) ==
  \/ Read(c, d) \/ Record(c, d) \/ Write(c, d) \/ WriteFails(c, d) \/ Eof(c, d)
  \/ ReadFails(c, d)

TapStep(c) ==
  \/ Upstream(c) \/ Greet(c) \/ Forward(c) \/ Register(c) \/ Disconnect(c) \/ Cut(c)
  \/ \E d \in Directions : PumpStep(c, d)

Peers(c) == ServerStalls(c) \/ \E d \in Directions : PeerSends(c, d) \/ PeerCloses(c, d)

Next ==
  \/ \E c \in Conns : Accept(c) \/ TapStep(c) \/ Peers(c)
  \/ Deadline \/ WriteManifest \/ Crash \/ Tick

Spec == Init /\ [][Next]_vars

-----------------------------------------------------------------------------
(* Properties.                                                             *)

\* The kinds of records that hold what a direction carried.
Kinds(d) == IF d = "c2s" THEN {"connect", "c2s"} ELSE {"s2c"}

\* at lists, in file order, where file f holds what direction d carried.
Lists(at, n, f, d) ==
  /\ at \in [1..n -> DOMAIN f]
  /\ \A k \in 1..n, j \in 1..n : j < k => at[j] < at[k]
  /\ \A i \in DOMAIN f : f[i].kind \in Kinds(d) <=> \E k \in 1..n : at[k] = i

\* What a connection's file holds of a direction is what was written to the
\* far side, in order and at most one chunk ahead, at every moment of a
\* recording (recordcmd.rs records before it writes).  Nothing that was
\* written is missing, also when the deadline cuts the tap at any await; only
\* a killed recorder may have lost the end of an open file, never a chunk
\* before one that is there.
RecordedFirst ==
  \A c \in Conns, d \in Directions :
    LET out == sock[c][d].out
    IN  \E n \in 0..(Len(out) + 1) :
          /\ tap[c] # "killed" => n >= Len(out)
          /\ \E at \in [1..n -> DOMAIN file[c]] :
               /\ Lists(at, n, file[c], d)
               /\ \A k \in (1..n) \cap DOMAIN out : out[k] = file[c][at[k]].x

\* A finished capture is one that can be replayed: its files are no longer
\* written, the manifest lists every connection with traffic, and each
\* listed file begins with its only connect record, has nothing after a
\* disconnect and, although two pumps write it, no stamp that runs backwards
\* (recordcmd.rs takes the stamp under the file's lock, and registers at once: "so a connection
\* still open when the recording deadline hits is not lost").
CaptureWhole ==
  manifest # <<>> =>
    LET listed == Range(manifest[1])
    IN  /\ \A c \in Conns : ~Running(c)
        /\ \A c \in Conns : Len(file[c]) > 1 => c \in listed
        /\ \A c \in listed :
             /\ file[c] # <<>>
             /\ \A i \in DOMAIN file[c] : /\ file[c][i].kind = "connect" <=> i = 1
                                          /\ file[c][i].kind = "disconnect" => i = Len(file[c])
                                          /\ \A j \in 1..i : file[c][j].t <= file[c][i].t
=============================================================================

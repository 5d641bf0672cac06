---------------------------- MODULE MessageLoop ----------------------------
(***************************************************************************)
(* The message loop of a connection (handle_client in                      *)
(* crates/mlatd/src/main.rs): a select over the periodic timers and a read *)
(* with a timeout, once for plain lines and once for length-prefixed       *)
(* frames.  When a timer wins, the read in progress is dropped, and with   *)
(* it what it had taken from the socket.                                   *)
(*                                                                         *)
(* The client sends messages 1..MaxMsgs.  A framed message is the pieces   *)
(* "len1", "len2", "body" and a plain one "text", "end": enough to cut a   *)
(* read in the middle.  Time passes in units; a timer that is due fires    *)
(* before time passes.  The heartbeat and stats timers are one timer.      *)
(***************************************************************************)
EXTENDS Naturals, Sequences

CONSTANTS
  IdleLimit,   \* IDLE, 5 minutes in the code
  TimerEvery,  \* period of the timer, 30 s over the time scale
  MaxMsgs,     \* bound: messages of the client
  MaxSilence   \* bound: units without input that are counted

ASSUME LoopAssumption ==
  /\ IdleLimit \in Nat \ {0} /\ TimerEvery \in Nat \ {0}
  /\ MaxMsgs \in Nat /\ MaxSilence \in Nat

VARIABLES
  framed,   \* compression was negotiated (zlib, zlib2)
  state,    \* "open", or why the loop ended
  arrived,  \* pieces that reached the server's socket
  taken,    \* pieces the loop took from it
  part,     \* pieces the read in progress has taken
  want,     \* pieces of the body still to read; 0 while in the select
  wait,     \* time since the read in the select began
  timer,    \* time since the timer fired
  silence,  \* time since a piece arrived
  fed,      \* history: what was handed to the decoder or the parser
  cut       \* history: a timer dropped a read that had taken something

timeVars == <<wait, timer, silence>>
loopVars == <<framed, state, arrived, taken, part, want, timeVars, fed, cut>>

Pieces == IF framed THEN <<"len1", "len2", "body">> ELSE <<"text", "end">>

\* The pieces of message i.
Whole(i) == [k \in DOMAIN Pieces |-> <<i, Pieces[k]>>]

\* The k-th piece of the client's stream.
Piece(k) == <<((k - 1) \div Len(Pieces)) + 1, Pieces[((k - 1) % Len(Pieces)) + 1]>>

InSelect == state = "open" /\ want = 0

\* The client's next piece reaches the socket.
Arrive ==
  /\ state = "open" /\ arrived < MaxMsgs * Len(Pieces)
  /\ arrived' = arrived + 1
  /\ silence' = 0
  /\ UNCHANGED <<framed, state, taken, part, want, wait, timer, fed, cut>>

\* Mutation: the length counts its own prefix.
BodyOffByOne(head) == IF head[1][1] = head[2][1] /\ head[1][2] = "len1" THEN {2} ELSE 1..2

\* Pieces of body that a length prefix announces: one if it is a message's
\* own; two pieces that never formed a length mean anything (here one or two).
BodyLengths(head) == IF head[1][1] = head[2][1] /\ head[1][2] = "len1" THEN {1} ELSE 1..2

\* Mutation: a line is read on past its newline.
CompleteLate(got) == IF framed THEN Len(got) = 2 ELSE Len(got) = 3

\* The read in the select has what it waits for: a length prefix (read_exact)
\* or a line up to its newline (read_until).
Complete(got) == IF framed THEN Len(got) = 2 ELSE got[Len(got)][2] = "end"

\* The read in the select takes a piece.  A line that is complete is parsed;
\* a length prefix that is complete starts the read of the body.
Read ==
  LET got == Append(part, Piece(taken + 1))
  IN  /\ InSelect /\ taken < arrived
      /\ taken' = taken + 1
      /\ \/ /\ ~Complete(got)
            /\ part' = got
            /\ UNCHANGED <<want, wait, fed>>
         \/ /\ Complete(got) /\ framed
            /\ want' \in BodyLengths(got)
            /\ part' = got
            /\ UNCHANGED <<wait, fed>>
         \/ /\ Complete(got) /\ ~framed
            /\ part' = <<>> /\ wait' = 0
            /\ fed' = Append(fed, got)
            /\ UNCHANGED want
      /\ UNCHANGED <<framed, state, arrived, timer, silence, cut>>

\* The body is read outside the select.  The frames decode, and their lines
\* are parsed, as long as the decoder has been fed all of them in order;
\* after that decoding may fail, which ends the loop.
ReadBody ==
  LET got == Append(part, Piece(taken + 1))
  IN  /\ state = "open" /\ want > 0 /\ taken < arrived
      /\ taken' = taken + 1
      /\ want' = want - 1
      /\ IF want > 1
         THEN part' = got /\ UNCHANGED <<state, wait, fed>>
         ELSE /\ part' = <<>> /\ wait' = 0
              /\ fed' = Append(fed, got)
              /\ state' \in IF \A i \in DOMAIN fed' : fed'[i] = Whole(i) THEN {state}
                            ELSE {state, "bad_frame"}
      /\ UNCHANGED <<framed, arrived, timer, silence, cut>>

\* The timer wins the select: its line is queued, and the next turn of the
\* loop begins a new read with a new timeout.
TimerFires ==
  /\ InSelect /\ timer >= TimerEvery
  /\ timer' = 0
  /\ part' = <<>> /\ wait' = 0
  /\ cut' = (cut \/ part # <<>>)
  /\ UNCHANGED <<framed, state, arrived, taken, want, silence, fed>>

\* The read in the select times out.
IdleTimeout ==
  /\ InSelect /\ wait >= IdleLimit
  /\ state' = "idle"
  /\ UNCHANGED <<framed, arrived, taken, part, want, timeVars, fed, cut>>

\* The client closes the connection, or it breaks.
Hangup ==
  /\ state = "open"
  /\ state' = "closed"
  /\ UNCHANGED <<framed, arrived, taken, part, want, timeVars, fed, cut>>

\* A unit of time passes: in the select no due timer is left waiting.
TimePasses ==
  /\ state = "open" /\ silence < MaxSilence
  /\ InSelect => timer < TimerEvery /\ wait < IdleLimit
  /\ silence' = silence + 1
  /\ timer' = IF timer < TimerEvery THEN timer + 1 ELSE timer
  /\ wait' = IF InSelect THEN wait + 1 ELSE wait
  /\ UNCHANGED <<framed, state, arrived, taken, part, want, fed, cut>>

LoopInit ==
  /\ framed \in BOOLEAN
  /\ state = "open" /\ arrived = 0 /\ taken = 0 /\ part = <<>> /\ want = 0
  /\ wait = 0 /\ timer = 0 /\ silence = 0 /\ fed = <<>> /\ cut = FALSE

LoopNext == Arrive \/ Read \/ ReadBody \/ TimerFires \/ IdleTimeout \/ Hangup \/ TimePasses

\* The loop reads what has arrived and its timer fires.
LoopSpec ==
  /\ LoopInit /\ [][LoopNext]_loopVars
  /\ WF_loopVars(Read) /\ WF_loopVars(ReadBody) /\ WF_loopVars(TimerFires)

-----------------------------------------------------------------------------
(* Properties.                                                             *)

\* As long as no timer fell into a read, the decoder and the parser get the
\* client's messages whole, in order and each once, however the pieces and
\* the timer interleave.
IntactUnlessCut ==
  ~cut => \A i \in DOMAIN fed : fed[i] = Whole(i)

\* A message that has arrived is handed on, unless the connection ended or a
\* timer fell into a read.
ArrivedIsFed ==
  \A i \in 1..MaxMsgs :
    (state = "open" /\ arrived >= i * Len(Pieces)) ~> (Len(fed) >= i \/ cut \/ state # "open")

\* The decoder is fed whole frames (framing.rs: "Feed whole frames (with
\* length header)").
FedWhole == framed => \A i \in DOMAIN fed : \E j \in 1..MaxMsgs : fed[i] = Whole(j)

\* A silent connection is reaped (main.rs: "A connection silent for 5 minutes
\* is dead (real clients heartbeat every 30 s); reap it").
SilentIsReaped == InSelect => silence <= IdleLimit
=============================================================================

------------------------------ MODULE Traffic ------------------------------
(***************************************************************************)
(* Selective traffic between mlatc and mlatd: the client's engine          *)
(* (crates/mlatc/src/engine.rs), its session loop for one server           *)
(* (crates/mlatc/src/main.rs) and the server's per-connection set of       *)
(* requested aircraft (process_line_tx of crates/mlatd/src/main.rs).       *)
(*                                                                         *)
(* The engine is one task: receptions, its tick and queued session events  *)
(* are atomic.  The session is another task.  Receptions reach the engine  *)
(* through the event queue too, but from their own producer, so a          *)
(* reception may be handled at any moment.  A queue and the TCP stream it  *)
(* feeds are one queue here: both keep the order, and both are lost when   *)
(* the session ends.                                                       *)
(*                                                                         *)
(* The engine keeps its state per server and each server is modelled alike,*)
(* so one is enough.  Whether a squitter completes a sync pair and whether *)
(* the counter jumped back are inputs here.                                *)
(***************************************************************************)
EXTENDS Naturals, Sequences

CONSTANTS
  Aircraft,     \* 24-bit addresses
  UpCap,        \* length of the up queue (4096 in the code)
  DownCap,      \* length of the server's line queue (256 in the code)
  MaxSessions   \* bound: connection attempts in one behaviour

ASSUME TrafficAssumption == UpCap \in Nat /\ DownCap \in Nat /\ MaxSessions \in Nat

VARIABLES
  known,          \* Engine.aircraft
  announced,      \* PerServer.announced
  requested,      \* PerServer.requested
  ev,             \* session events waiting for the engine
  up,             \* messages on their way to the server
  pc,             \* where the session loop is
  srv_requested,  \* the server connection's requested set
  down,           \* lines on their way to the client
  excused,        \* history: requests of this connection that were lost or
                  \* whose aircraft expired
  sessions        \* bound counter

engineVars == <<known, announced, requested>>
linkVars == <<pc, srv_requested, down, sessions>>
vars == <<engineVars, ev, up, linkVars, excused>>

Offer(k, A) == [kind |-> k, air |-> A]
Traffic(a) == [kind |-> "traffic", air |-> {a}]
Notice == [kind |-> "notice", air |-> {}]
Start(A) == [kind |-> "start", air |-> A]
Reset == [kind |-> "reset", air |-> {}]

\* try_send of messages to a queue: what does not fit is dropped.
TrySend(q, msgs, cap) ==
  q \o SubSeq(msgs, 1, IF Len(q) + Len(msgs) <= cap THEN Len(msgs)
                       ELSE IF Len(q) < cap THEN cap - Len(q) ELSE 0)

\* The message in a sequence of its own, or none.
When(cond, m) == IF cond THEN <<m>> ELSE <<>>

-----------------------------------------------------------------------------
(* The engine.                                                             *)

\* on_reception of a frame of aircraft a: a checked address makes a known, a
\* recovered one must be known.  Traffic goes out for a requested aircraft;
\* a squitter sends it only when it completes a pair.  jumped: the counter
\* went back, which is told to the server first.
Reception(a, checked, sends, jumped) ==
  /\ known' = IF checked THEN known \cup {a} ELSE known
  /\ up' = TrySend(up, When(jumped, Notice)
                         \o When(sends /\ a \in known \cap requested, Traffic(a)), UpCap)
  /\ UNCHANGED <<announced, requested, ev, linkVars, excused>>

\* The input connected or disconnected: pairing state goes, the server is told.
InputChanged ==
  /\ up' = TrySend(up, <<Notice>>, UpCap)
  /\ UNCHANGED <<engineVars, ev, linkVars, excused>>

\* tick: the aircraft in silent expire, unannounced ones are announced, and
\* every RATE_REPORT_S the rates of all known aircraft are reported.
Tick(silent, report) ==
  LET kept == known \ silent
      seen == kept \ announced
      lost == silent \cap announced
  IN  /\ known' = kept
      /\ announced' = kept
      /\ requested' = requested \ silent
      /\ up' = TrySend(up, When(seen # {}, Offer("seen", seen))
                             \o When(lost # {}, Offer("lost", lost))
                             \o When(report /\ kept # {}, Offer("rate", kept)), UpCap)
      /\ excused' = excused \cup (silent \cap srv_requested)
      /\ UNCHANGED <<ev, linkVars>>

\* Mutation: start_sending replaces what was requested before.
WantedOnly(m) == m.air \cap known

\* start_sending: unknown aircraft are skipped.
Wanted(m) == requested \cup (m.air \cap known)

\* The engine takes a session event: a start request, or server_reset.
TakeEvent ==
  LET m == Head(ev)
  IN  /\ ev # <<>>
      /\ ev' = Tail(ev)
      /\ requested' = IF m.kind = "start" THEN Wanted(m) ELSE {}
      /\ announced' = IF m.kind = "start" THEN announced ELSE {}
      /\ excused' = excused \cup ((m.air \ known) \cap srv_requested)
      /\ UNCHANGED <<known, up, linkVars>>

-----------------------------------------------------------------------------
(* The session and the server's connection.                                *)

\* The server accepts the handshake; its requested set is new.
Connect ==
  /\ pc = "backoff" /\ sessions < MaxSessions
  /\ pc' = "open"
  /\ sessions' = sessions + 1
  /\ srv_requested' = {}
  /\ excused' = {}
  /\ UNCHANGED <<engineVars, ev, up, down>>

\* The connection attempt or the handshake fails.
ConnectFails ==
  /\ pc = "backoff" /\ sessions < MaxSessions
  /\ pc' = "ended"
  /\ sessions' = sessions + 1
  /\ UNCHANGED <<engineVars, ev, up, srv_requested, down, excused>>

\* Either side ends the session; what is on the wire is lost.
SessionEnds ==
  /\ pc = "open"
  /\ pc' = "ended"
  /\ down' = <<>>
  /\ srv_requested' = {}
  /\ excused' = {}
  /\ UNCHANGED <<engineVars, ev, up, sessions>>

\* Mutation: the engine is not told that the session ended.
NoReset ==
  /\ pc = "ended"
  /\ pc' = "resetting"
  /\ UNCHANGED <<engineVars, ev, up, srv_requested, down, sessions, excused>>

\* The session loop queues ServerReset for the engine.
SendReset ==
  /\ pc = "ended"
  /\ pc' = "resetting"
  /\ ev' = Append(ev, Reset)
  /\ UNCHANGED <<engineVars, up, srv_requested, down, sessions, excused>>

\* It drains the up queue and backs off.
Drain ==
  /\ pc = "resetting"
  /\ pc' = "backoff"
  /\ up' = <<>>
  /\ UNCHANGED <<engineVars, ev, srv_requested, down, sessions, excused>>

\* Mutation: rate reports offer nothing.
OfferedSeen(m) == IF m.kind = "seen" THEN m.air ELSE {}

\* The aircraft a message offers to the server.
Offered(m) == IF m.kind \in {"seen", "rate"} THEN m.air ELSE {}

\* process_line_tx: aircraft offered for the first time on this connection
\* are marked requested and asked for, if the line queue has room.
ServerTakes ==
  LET m     == Head(up)
      fresh == Offered(m) \ srv_requested
  IN  /\ pc = "open" /\ up # <<>>
      /\ up' = Tail(up)
      /\ srv_requested' = srv_requested \cup fresh
      /\ down' = TrySend(down, When(fresh # {}, Start(fresh)), DownCap)
      /\ excused' = IF Len(down) < DownCap THEN excused ELSE excused \cup fresh
      /\ UNCHANGED <<engineVars, ev, pc, sessions>>

\* A heartbeat, stats or result line for the client.
OtherLine ==
  /\ pc = "open" /\ Len(down) < DownCap
  /\ down' = Append(down, Notice)
  /\ UNCHANGED <<engineVars, ev, up, pc, srv_requested, sessions, excused>>

\* The client's session reads a line and passes a start request on.
ClientTakes ==
  /\ pc = "open" /\ down # <<>>
  /\ down' = Tail(down)
  /\ ev' = ev \o When(Head(down).kind = "start", Head(down))
  /\ UNCHANGED <<engineVars, up, pc, srv_requested, sessions, excused>>

-----------------------------------------------------------------------------
Init ==
  /\ known = {} /\ announced = {} /\ requested = {}
  /\ ev = <<>> /\ up = <<>> /\ down = <<>>
  /\ pc = "backoff"
  /\ srv_requested = {} /\ excused = {} /\ sessions = 0

\* A reception of an unknown aircraft with a recovered address is ignored.
AnyReception ==
  \E a \in Aircraft, checked, sends, jumped \in BOOLEAN :
    Reception(a, checked, sends, jumped)

AnyTick == \E silent \in SUBSET known, report \in BOOLEAN : Tick(silent, report)

Session == Connect \/ ConnectFails \/ SessionEnds \/ SendReset \/ Drain \/ ClientTakes

Next == AnyReception \/ InputChanged \/ AnyTick \/ TakeEvent \/ Session \/ ServerTakes \/ OtherLine

\* A rate report that finds room in the up queue.
ReportGoesOut ==
  \E silent \in SUBSET known : Tick(silent, TRUE) /\ up' # <<>> /\ up'[Len(up')].kind = "rate"

\* The engine and an open session keep running, and the engine's timer fires.
\* Rate reports are repeated for ever and do not always meet a full queue.
Fairness ==
  /\ WF_vars(AnyTick) /\ WF_vars(TakeEvent) /\ WF_vars(ServerTakes) /\ WF_vars(ClientTakes)
  /\ WF_vars(SendReset) /\ WF_vars(Drain)
  /\ SF_vars(ReportGoesOut)

Spec == Init /\ [][Next]_vars /\ Fairness

-----------------------------------------------------------------------------
(* Properties.                                                             *)

Messages(q) == {q[i] : i \in DOMAIN q}

\* Start requests on their way to the engine.
InFlight == UNION {m.air : m \in {n \in Messages(down) \cup Messages(ev) : n.kind = "start"}}

\* The shape of the engine's, the session's and the server's state.
TypeOK ==
  /\ known \subseteq Aircraft /\ announced \subseteq known /\ requested \subseteq known
  /\ Len(up) <= UpCap /\ Len(down) <= DownCap
  /\ pc \in {"open", "ended", "resetting", "backoff"}
  /\ srv_requested \subseteq Aircraft /\ sessions \in 0..MaxSessions

\* The engine's view belongs to the session it has: once the end of the last
\* session has been taken, only aircraft that the present connection asked
\* for count as requested.  A late start_sending of an earlier session is
\* always taken before the reset that follows it.
RequestsOfThisSession ==
  pc # "ended" /\ Reset \notin Messages(ev) => requested \subseteq srv_requested

\* A request is lost in two ways only, a full line queue or an aircraft that
\* expired: otherwise what the server marked as requested is requested at the
\* engine or on its way to it.
RequestsAccounted ==
  srv_requested \subseteq requested \cup InFlight \cup excused

\* The server hears of every aircraft the client knows although the up queue
\* drops messages: rate reports repeat what a lost announcement said.
OffersReachServer ==
  \A a \in Aircraft :
    (pc = "open" /\ a \in known /\ a \notin srv_requested)
      ~> (pc # "open" \/ a \notin known \/ a \in srv_requested)

\* The server asks for every aircraft the client reports (mlatd main.rs:
\* "start_sending every aircraft the client reports"): when an open
\* connection is idle, every known aircraft that was reported on it is
\* requested.
ReportedIsRequested ==
  pc = "open" /\ up = <<>> /\ down = <<>> /\ ev = <<>>
    => known \cap srv_requested \subseteq requested
=============================================================================

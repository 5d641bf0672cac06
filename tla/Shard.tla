------------------------------- MODULE Shard -------------------------------
(***************************************************************************)
(* One shard of mlatd (crates/mlatd/src/state.rs, run by run_shard of      *)
(* shard.rs): the receiver slot table with its generations, the pairwise   *)
(* clock models that sync messages train, the groups of identical frames   *)
(* waiting to be solved, and the per-reference stamp offsets.              *)
(*                                                                         *)
(* The shard is one task that takes one message at a time, so every        *)
(* handler is one action.  Connections are not represented: any handle     *)
(* that was ever issued may send any message at any time, which covers     *)
(* half-open sockets, late messages and every interleaving of senders.     *)
(*                                                                         *)
(* Data abstraction.  A clock reading is the slot it was filed under and   *)
(* the feeder whose clock produced it (the code keeps only the slot).  A   *)
(* pair model is the set of reading pairs offered to it; whether it is     *)
(* usable or converts a reading is left open (u in Sweep).  Slots are      *)
(* numbered from 1.  Real time is left open: a sweep may find any sync     *)
(* points and groups to be old enough.  Left out: the reference field      *)
(* (written, never read), the rx_sync counters and the per-aircraft maps.  *)
(***************************************************************************)
EXTENDS Naturals, Sequences, FiniteSets

CONSTANTS
  Users,         \* feeder user names
  Frames,        \* contents of DF4/DF11 frames
  Squitters,     \* contents of DF17 even/odd pairs; also names the even half
  MlatAdsb,      \* --mlat-adsb: group DF17 frames too
  MinObs,        \* observations a solve needs (4 in the code)
  MinLearn,      \* observations bias learning needs (5 in the code)
  MaxReporters,  \* reporters a sync point keeps (15 in the code)
  GenMod,        \* generations wrap at this value (2^32 in the code)
  MaxAdds        \* bound: AddReceiver messages in one behaviour

ASSUME ShardAssumption ==
  /\ Users # {} /\ IsFiniteSet(Users)
  /\ Frames \cap Squitters = {}
  /\ MlatAdsb \in BOOLEAN
  /\ MinObs \in Nat /\ MinObs >= 2
  /\ MinLearn \in Nat /\ MinLearn >= MinObs
  /\ MaxReporters \in Nat \ {0}
  /\ MaxAdds \in Nat
  /\ GenMod \in Nat /\ GenMod > MaxAdds

VARIABLES
  nslots,        \* length of the parallel per-slot vectors
  user,          \* receivers[s].user
  gens,          \* slot generations
  alive,
  free_slots,    \* stack of reusable slots
  by_user,       \* HashMap user -> slot
  quarantined,   \* slots whose rx_bias is over the quarantine threshold,
                 \* with the generation that was live at that moment
  pairs,         \* HashMap (a, b) -> pair model
  stamp_offset,  \* keys of the stamp-offset map
  syncpoints,    \* HashMap squitter -> reporters
  groups,        \* HashMap frame -> entries
  issued,        \* history: every handle AddReceiver answered, with its user
  adds           \* bound counter

registry == <<nslots, user, gens, alive, free_slots, by_user, issued, adds>>
vars == <<registry, quarantined, pairs, stamp_offset, syncpoints, groups>>

Slots == 1..nslots

\* HashMap::insert, and Vec::push or an overwrite of a vector element.
Put(f, k, v) == [x \in DOMAIN f \cup {k} |-> IF x = k THEN v ELSE f[x]]

\* HashMap::remove / retain.
Without(f, S) == [x \in DOMAIN f \ S |-> f[x]]

\* HashMap::get with a default.
GetOr(f, k, d) == IF k \in DOMAIN f THEN f[k] ELSE d

\* The pair models a slot takes part in.
PairsOf(s) == {p \in DOMAIN pairs : p[1] = s \/ p[2] = s}

-----------------------------------------------------------------------------
(* Receivers.                                                              *)

\* Mutation: only the slot is compared.
LiveAnyGen(h) == h.idx \in Slots /\ alive[h.idx]

\* live: the handle's slot is occupied and still of the handle's generation.
Live(h) == h.idx \in Slots /\ alive[h.idx] /\ gens[h.idx] = h.gen

\* Mutation: reconnects are not deduplicated.
NoEviction(u) == {}

\* The slot that a reconnecting user loses: none or one.
Evicted(u) == {by_user[v] : v \in {w \in DOMAIN by_user : w = u /\ alive[by_user[w]]}}

\* Mutation: a reused slot keeps its generation.
SameGen(s) == IF s \in Slots THEN gens[s] ELSE 0

\* Generation of a slot about to be occupied: wrapping_add on reuse.
NextGen(s) == IF s \in Slots THEN (gens[s] + 1) % GenMod ELSE 0

\* Mutation: the freed slots are remembered twice.
FreedTwice(S) ==
  IF S = {} THEN free_slots
  ELSE Append(Append(free_slots, CHOOSE s \in S : TRUE), CHOOSE s \in S : TRUE)

\* free_slots after remove_receiver freed the (at most one) slot in S.
Freed(S) == IF S = {} THEN free_slots ELSE Append(free_slots, CHOOSE s \in S : TRUE)

\* Mutation: remove_receiver forgets the pair models.
PairsKept(S) == pairs

\* pairs after the slots in S were removed or had their clock reset.
PairsWithout(S) == Without(pairs, UNION {PairsOf(s) : s \in S})

\* stamp_offset after the slots in S were removed.
OffsetsWithout(S) == stamp_offset \ S

\* Mutation: a reused slot keeps its bias record.
BiasKept(s) == quarantined

\* rx_bias after slot s was handed out: a fresh record.
FreshBias(s) == Without(quarantined, {s})

\* The slot a new receiver gets: the last one freed, else one pushed.
PickSlot(free) == IF free = <<>> THEN nslots + 1 ELSE free[Len(free)]

\* add_receiver: evict the user's old slot, pop a free slot or push one,
\* bump its generation, index it by user and answer the handle.
AddReceiver(u) ==
  LET old  == Evicted(u)
      free == Freed(old)
      new  == free = <<>>
      idx  == PickSlot(free)
      gen  == NextGen(idx)
  IN  /\ adds < MaxAdds
      /\ adds' = adds + 1
      /\ nslots' = IF new THEN nslots + 1 ELSE nslots
      /\ free_slots' = IF new THEN free ELSE SubSeq(free, 1, Len(free) - 1)
      /\ user' = Put(user, idx, u)
      /\ gens' = Put(gens, idx, gen)
      /\ alive' = Put([s \in Slots |-> alive[s] /\ s \notin old], idx, TRUE)
      /\ by_user' = Put(by_user, u, idx)
      /\ quarantined' = FreshBias(idx)
      /\ pairs' = PairsWithout(old)
      /\ stamp_offset' = OffsetsWithout(old)
      /\ issued' = issued \cup {[idx |-> idx, gen |-> gen, user |-> u]}
      /\ UNCHANGED <<syncpoints, groups>>

\* remove_receiver, sent by a connection's teardown: a stale handle changes
\* nothing.
RemoveReceiver(h) ==
  LET s == h.idx
  IN  /\ Live(h)
      /\ alive' = [alive EXCEPT ![s] = FALSE]
      /\ pairs' = PairsWithout({s})
      /\ stamp_offset' = OffsetsWithout({s})
      /\ by_user' = IF GetOr(by_user, user[s], 0) = s
                    THEN Without(by_user, {user[s]})
                    ELSE by_user
      /\ free_slots' = Freed({s})
      /\ UNCHANGED <<nslots, user, gens, quarantined, syncpoints, groups, issued, adds>>

\* clock_reset: the pair models of the receiver are dropped.
ClockReset(h) ==
  /\ Live(h)
  /\ pairs' = PairsWithout({h.idx})
  /\ UNCHANGED <<registry, quarantined, stamp_offset, syncpoints, groups>>

-----------------------------------------------------------------------------
(* Sync points, pair training and grouping.                                *)

\* groups after one more entry for content k.
Grouped(k, r) == Put(groups, k, GetOr(groups, k, {}) \cup {r})

\* Mutation: reporters of dead slots train too.
AnyReporter(reps, s) == {i \in DOMAIN reps : reps[i].rx # s}

\* Earlier reporters of a sync point that slot s is paired with.
Partners(reps, s) == {i \in DOMAIN reps : reps[i].rx # s /\ alive[reps[i].rx]}

\* pairs after reading r of slot s met the readings in others: each shared
\* event is pushed into the models of both directions.
Trained(s, r, others) ==
  [p \in DOMAIN pairs \cup {<<s, o.rx>> : o \in others} \cup {<<o.rx, s>> : o \in others} |->
     GetOr(pairs, p, {})
       \cup {<<r.clk, o.clk>> : o \in {q \in others : p = <<s, q.rx>>}}
       \cup {<<o.clk, r.clk>> : o \in {q \in others : p = <<q.rx, s>>}}]

\* A sync point takes no further reporter.
Full(reps) == Len(reps) >= MaxReporters

\* on_sync with a decodable pair k: file the reading under the sync point
\* and train the pair models with the other reporters.
OnSync(h, k) ==
  LET s    == h.idx
      r    == [rx |-> s, clk |-> user[s]]
      reps == GetOr(syncpoints, k, <<>>)
  IN  /\ Live(h)
      /\ groups' = IF MlatAdsb THEN Grouped(k, r) ELSE groups
      /\ IF Full(reps)
         THEN UNCHANGED <<syncpoints, pairs>>
         ELSE /\ syncpoints' = Put(syncpoints, k, Append(reps, r))
              /\ pairs' = Trained(s, r, {reps[i] : i \in Partners(reps, s)})
      /\ UNCHANGED <<registry, quarantined, stamp_offset>>

\* on_mlat: file the reading under the frame's content.
OnMlat(h, f) ==
  /\ Live(h)
  /\ f \in Squitters => MlatAdsb
  /\ groups' = Grouped(f, [rx |-> h.idx, clk |-> user[h.idx]])
  /\ UNCHANGED <<registry, quarantined, pairs, stamp_offset, syncpoints>>

-----------------------------------------------------------------------------
(* The sweep.                                                              *)

Members(g) == {r.rx : r \in groups[g]}

\* Usable direct models from the other members of M to candidate c.
Votes(u, M, c) == Cardinality({o \in M \ {c} : <<o, c>> \in u})

\* The members solve_group may elect as the group's reference.
LocalRefs(u, M) == {c \in M : \A d \in M : Votes(u, M, d) <= Votes(u, M, c)}

\* The members whose reading converts to the clock of ref: its own, a
\* direct model, or two models through a third member.
Converted(u, M, ref) ==
  {rx \in M : \/ rx = ref
              \/ <<rx, ref>> \in u
              \/ \E h \in M \ {rx, ref} : <<rx, h>> \in u /\ <<h, ref>> \in u}

\* The observations left after solve_cluster dropped duplicates, dead slots
\* and quarantined receivers.
Observers(u, M, ref) ==
  {rx \in Converted(u, M, ref) : alive[rx] /\ rx \notin DOMAIN quarantined}

\* What solving group g may do: nothing, or track the stamp offset of ref and
\* (given enough observations) push the receivers in bad over the quarantine
\* threshold.  The clusters of a group are any sets of converted members.
Outcomes(u, g) ==
  LET M == Members(g)
  IN  {[ref |-> {}, bad |-> {}]} \cup
      UNION {{[ref |-> {c}, bad |-> b] :
                b \in {B \in SUBSET Observers(u, M, c) :
                         B # {} => Cardinality(Observers(u, M, c)) >= MinLearn}} :
             c \in {r \in LocalRefs(u, M) : Cardinality(Observers(u, M, r)) >= MinObs}}

\* sweep: forget old sync points, then remove and solve the ready groups.
Sweep ==
  \E old \in SUBSET DOMAIN syncpoints, ready \in SUBSET DOMAIN groups,
     u \in SUBSET DOMAIN pairs :
    \E out \in [ready -> UNION {Outcomes(u, g) : g \in ready}] :
      /\ \A g \in ready : out[g] \in Outcomes(u, g)
      /\ syncpoints' = Without(syncpoints, old)
      /\ groups' = Without(groups, ready)
      /\ stamp_offset' = stamp_offset \cup UNION {out[g].ref : g \in ready}
      /\ quarantined' =
           LET bad == UNION {out[g].bad : g \in ready}
           IN  [s \in DOMAIN quarantined \cup bad |->
                  IF s \in bad THEN gens[s] ELSE quarantined[s]]
      /\ UNCHANGED <<registry, pairs>>

-----------------------------------------------------------------------------
(* What the shard reports.                                                 *)

\* receiver_stats: the peer count pushed to the feeder of slot s.
PeerCount(s) == Cardinality({p \in DOMAIN pairs : p[1] = s /\ alive[p[2]]})

\* sync_json: the peers exported for slot s are keyed by user name.
ExportedPeers(s) == {user[p[2]] : p \in {q \in DOMAIN pairs : q[1] = s}}

-----------------------------------------------------------------------------
Init ==
  /\ nslots = 0 /\ user = <<>> /\ gens = <<>> /\ alive = <<>>
  /\ free_slots = <<>> /\ by_user = <<>> /\ quarantined = <<>>
  /\ pairs = <<>> /\ stamp_offset = {} /\ syncpoints = <<>> /\ groups = <<>>
  /\ issued = {} /\ adds = 0

Next ==
  \/ \E u \in Users : AddReceiver(u)
  \/ \E h \in issued : RemoveReceiver(h)
  \/ \E h \in issued : ClockReset(h)
  \/ \E h \in issued, k \in Squitters : OnSync(h, k)
  \/ \E h \in issued, f \in Frames \cup Squitters : OnMlat(h, f)
  \/ Sweep

Spec == Init /\ [][Next]_vars

-----------------------------------------------------------------------------
(* Properties.                                                             *)

\* The shape of the shard's state (struct State).
TypeOK ==
  /\ nslots \in Nat
  /\ user \in [Slots -> Users]
  /\ gens \in [Slots -> 0..(GenMod - 1)]
  /\ alive \in [Slots -> BOOLEAN]
  /\ free_slots \in Seq(Slots)
  /\ DOMAIN by_user \subseteq Users
  /\ \A u \in DOMAIN by_user : by_user[u] \in Slots
  /\ DOMAIN quarantined \subseteq Slots
  /\ DOMAIN pairs \subseteq Slots \X Slots
  /\ stamp_offset \subseteq Slots
  /\ DOMAIN syncpoints \subseteq Squitters
  /\ \A k \in DOMAIN syncpoints : syncpoints[k] \in Seq([rx: Slots, clk: Users])
  /\ DOMAIN groups \subseteq Frames \cup Squitters
  /\ \A k \in DOMAIN groups : groups[k] \subseteq [rx: Slots, clk: Users]
  /\ issued \subseteq [idx: Slots, gen: Nat, user: Users]
  /\ adds \in 0..MaxAdds

\* The free stack holds every vacated slot exactly once and no occupied one:
\* no slot is leaked, and none can be handed to two connections
\* (add_receiver's pop against remove_receiver's push).
FreeListExact ==
  /\ \A i \in DOMAIN free_slots : ~alive[free_slots[i]]
  /\ \A i, j \in DOMAIN free_slots : i # j => free_slots[i] # free_slots[j]
  /\ \A s \in Slots : ~alive[s] => \E i \in DOMAIN free_slots : free_slots[i] = s

\* by_user indexes exactly the live slots, so a user never holds two slots of
\* a shard, however its connections overlap (the dedupe of add_receiver).
UserIndexExact ==
  /\ \A u \in DOMAIN by_user : alive[by_user[u]] /\ user[by_user[u]] = u
  /\ \A s \in Slots : alive[s] => /\ user[s] \in DOMAIN by_user
                                  /\ by_user[user[s]] = s

\* The users a slot was ever handed out to.
UsersSeen == {h.user : h \in issued}

\* The slot table never outgrows the number of distinct users that ever
\* connected, whatever the sequence of connects, reconnects and late removals.
SlotsBounded == nslots <= Cardinality(UsersSeen)

\* Every pair model joins two different live receivers and exists in both
\* directions: removals purge models and nothing stale recreates one.
PairsOfLive ==
  \A p \in DOMAIN pairs : /\ p[1] # p[2]
                           /\ alive[p[1]] /\ alive[p[2]]
                           /\ <<p[2], p[1]>> \in DOMAIN pairs

\* Stamp offsets exist for live receivers only, although a group may elect a
\* reference that has left since it was heard: a removed reference has no
\* pair model left, so its group never reaches MinObs observations.
OffsetsOfLive == \A s \in stamp_offset : alive[s]

\* A handle that is honoured speaks for the user it was issued to, and no
\* user has two honoured handles (state.rs: "Messages from a connection that
\* lost its slot carry a stale generation and are ignored").
LiveHandlesOwn ==
  \A h \in issued : Live(h) =>
     /\ user[h.idx] = h.user
     /\ \A g \in issued : Live(g) /\ g.user = h.user => g = h

\* Once a handle is stale it stays stale: slot reuse never revives the
\* handle of an earlier connection.
StaleStaysStale == [][\A h \in issued : ~Live(h) => ~Live(h)']_vars

\* A quarantine verdict in force was reached while the slot's present
\* occupant held it; a reconnect or another user starts clean.
QuarantineEarned == \A s \in DOMAIN quarantined : quarantined[s] = gens[s]

\* The peer count a feeder is told equals the number of peers sync.json
\* exports for it: no two peers of a receiver collapse into one user name
\* and no peer is dead.
ReportsAgree ==
  \A s \in Slots : alive[s] => Cardinality(ExportedPeers(s)) = PeerCount(s)

\* A pair model is trained only by readings of the receivers that occupy its
\* two slots now (state.rs: "Slot indexes are reused across reconnects; the
\* generation tells stale holders apart").
TrainedByOccupants ==
  \A p \in DOMAIN pairs : pairs[p] \subseteq {<<user[p[1]], user[p[2]]>>}

-----------------------------------------------------------------------------
(* The registry a shard implements.                                        *)

Handle(s) == [idx |-> s, gen |-> gens[s]]

\* The live handles are those of the indexed slots; the used ones are the
\* handles AddReceiver answered.
Reg == INSTANCE Registry
  WITH Users   <- Users,
       Handles <- [idx: 1..MaxAdds, gen: 0..(GenMod - 1)],
       live    <- [u \in DOMAIN by_user |-> Handle(by_user[u])],
       used    <- {[idx |-> h.idx, gen |-> h.gen] : h \in issued}

\* Every step of the shard is a step of the abstract registry or leaves it
\* alone: slot reuse and generations implement handles that are issued once
\* and dropped once, whatever stale messages arrive.
ImplementsRegistry == Reg!RegSpec
=============================================================================

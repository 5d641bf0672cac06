------------------------------- MODULE Router -------------------------------
(***************************************************************************)
(* The geographic partition of mlatd (crates/mlatd/src/shard.rs): a tree   *)
(* of cells that grows as receivers connect, and the shard each cell       *)
(* belongs to.  shard_for runs under one mutex, so it is one action.       *)
(*                                                                         *)
(* A position is a pair of integers in units of the smallest cell; the     *)
(* cell of level l that contains it is found by floor division, as in      *)
(* cell_at.  rate is the load a stats window reported for a shard.         *)
(***************************************************************************)
EXTENDS Integers, FiniteSets

CONSTANTS
  NShards,     \* number of shards
  Positions,   \* receiver positions <<lat, lon>>
  MaxLevel,    \* deepest level splittable allows (1 for 5 deg cells)
  SplitAt,     \* receivers after which a cell splits (64 in the code)
  Cap,         \* receiver half of the capacity gate (64 by default)
  CapRate,     \* rate half of the capacity gate
  Rates,       \* rates the stats task may store
  MaxClaims    \* bound: calls of shard_for in one behaviour

ASSUME RouterAssumption ==
  /\ NShards \in Nat \ {0}
  /\ Positions \subseteq Int \X Int
  /\ MaxLevel \in Nat
  /\ SplitAt \in Nat /\ Cap \in Nat /\ CapRate \in Nat
  /\ Rates \subseteq Nat /\ 0 \in Rates
  /\ MaxClaims \in Nat

VARIABLES
  owner,       \* CellMap.owner: cell -> shard
  rx_count,    \* CellMap.rx_count
  split,       \* CellMap.split
  receivers,   \* per shard, claimed and not yet released
  rate,        \* per shard
  claims       \* bound counter: shard_for calls so far

cells == <<owner, rx_count, split>>
routerVars == <<cells, receivers, rate, claims>>

Shards == 0..(NShards - 1)
None == -1

\* A cell is <<level, lat index, lon index>>.  Its side, in units.
Side(l) == 2 ^ (MaxLevel - l)

\* What the proofs use of these powers of two: a cell is twice as wide as its
\* quarters.  It holds for every MaxLevel.
ASSUME SideAssumption ==
  /\ \A l \in 0..MaxLevel : Side(l) \in Nat \ {0}
  /\ \A l \in 1..MaxLevel : Side(l - 1) = 2 * Side(l)

\* cell_at.
CellAt(l, p) == <<l, p[1] \div Side(l), p[2] \div Side(l)>>

\* The middle of a cell, where shard_for probes its neighbours.
Center(c) == <<c[2] * Side(c[1]) + Side(c[1]) \div 2, c[3] * Side(c[1]) + Side(c[1]) \div 2>>

\* leaf_at: the deepest unsplit cell containing p.
LeafAt(p) ==
  CellAt(CHOOSE l \in 0..MaxLevel :
           /\ CellAt(l, p) \notin split
           /\ \A m \in 0..(l - 1) : CellAt(m, p) \in split, p)

\* The levels at which a cell containing p is mapped.
MappedLevels(p) == {l \in 0..LeafAt(p)[1] : CellAt(l, p) \in DOMAIN owner}

\* Mutation: only the leaf cell's own mapping counts.
LeafOwnerAt(p) == IF LeafAt(p) \in DOMAIN owner THEN owner[LeafAt(p)] ELSE None

\* owner_at: the leaf cell's mapping, else the nearest mapped ancestor's.
OwnerAt(p) ==
  IF MappedLevels(p) = {} THEN None
  ELSE owner[CellAt(CHOOSE l \in MappedLevels(p) : \A m \in MappedLevels(p) : m <= l, p)]

HasCapacity(s) == receivers[s] < Cap /\ rate[s] < CapRate

\* load_of, compared rate first.
Lighter(s, t) ==
  \/ rate[s] < rate[t]
  \/ rate[s] = rate[t] /\ receivers[s] < receivers[t]

\* The lightest shard, the first one among equals.
Lightest ==
  CHOOSE s \in Shards : \A t \in Shards \ {s} : Lighter(s, t) \/ (~Lighter(t, s) /\ s < t)

\* The eight cells around c, by their middles.
Neighbors(c) ==
  {Center(<<c[1], c[2] + d[1], c[3] + d[2]>>) : d \in ((-1..1) \X (-1..1)) \ {<<0, 0>>}}

\* Neighbours of cell c that shard s owns, counted if s may still grow.
Votes(c, s) ==
  IF HasCapacity(s) THEN Cardinality({n \in Neighbors(c) : OwnerAt(n) = s}) ELSE 0

\* The shards the vote may elect for cell c: most neighbours, ties to the
\* lighter shard (HashMap order decides what is left).
Elected(c) ==
  {s \in Shards :
     /\ Votes(c, s) > 0
     /\ \A t \in Shards : \/ Votes(c, t) < Votes(c, s)
                          \/ Votes(c, t) = Votes(c, s) /\ ~Lighter(t, s)}

\* Mutation: the vote is held again for every receiver.
CandidatesRevote(p) ==
  LET c == LeafAt(p)
  IN  IF Elected(c) # {} THEN Elected(c)
      ELSE IF OwnerAt(p) # None THEN {OwnerAt(p)}
      ELSE {Lightest}

\* The shards shard_for may return for a receiver at p.
Candidates(p) ==
  LET c == LeafAt(p)
  IN  IF c \in DOMAIN owner THEN {owner[c]}
      ELSE IF Elected(c) # {} THEN Elected(c)
      ELSE IF OwnerAt(p) # None THEN {OwnerAt(p)}
      ELSE {Lightest}

\* CellMap.owner after a receiver in cell c went to shard s.
Claimed(c, s) == [k \in DOMAIN owner \cup {c} |-> IF k = c THEN s ELSE owner[k]]

Count(c) == IF c \in DOMAIN rx_count THEN rx_count[c] ELSE 0

\* Mutation: the size floor is not respected.
MaySplitOffByOne(c) == Count(c) + 1 > SplitAt

\* A cell that gains a receiver now becomes a split cell.
MaySplit(c) == Count(c) + 1 > SplitAt /\ c[1] < MaxLevel

\* shard_for: a receiver at p is counted into shard s.
ShardFor(p, s) ==
  LET c == LeafAt(p)
  IN  /\ claims < MaxClaims
      /\ s \in Candidates(p)
      /\ owner' = Claimed(c, s)
      /\ rx_count' = [k \in DOMAIN rx_count \cup {c} |->
                        IF k = c THEN Count(c) + 1 ELSE rx_count[k]]
      /\ split' = IF MaySplit(c) THEN split \cup {c} ELSE split
      /\ receivers' = [receivers EXCEPT ![s] = @ + 1]
      /\ claims' = claims + 1
      /\ UNCHANGED rate

\* The fetch_sub of a connection's teardown (main.rs).
Release(s) ==
  /\ receivers[s] > 0
  /\ receivers' = [receivers EXCEPT ![s] = @ - 1]
  /\ UNCHANGED <<cells, rate, claims>>

\* The stats task stores a shard's rate for the last window (main.rs).
StoreRate(s, r) ==
  /\ rate' = [rate EXCEPT ![s] = r]
  /\ UNCHANGED <<cells, receivers, claims>>

RouterInit ==
  /\ owner = <<>> /\ rx_count = <<>> /\ split = {}
  /\ receivers = [s \in Shards |-> 0]
  /\ rate = [s \in Shards |-> 0]
  /\ claims = 0

RouterNext ==
  \/ \E p \in Positions, s \in Shards : ShardFor(p, s)
  \/ \E s \in Shards : Release(s)
  \/ \E s \in Shards, r \in Rates : StoreRate(s, r)

RouterSpec == RouterInit /\ [][RouterNext]_routerVars

-----------------------------------------------------------------------------
(* Properties.                                                             *)

Cell == (0..MaxLevel) \X Int \X Int
Parent(c) == <<c[1] - 1, c[2] \div 2, c[3] \div 2>>

\* The shape of the cell map and the per-shard counters.
RouterTypeOK ==
  /\ DOMAIN owner \subseteq Cell
  /\ \A c \in DOMAIN owner : owner[c] \in Shards
  /\ DOMAIN rx_count = DOMAIN owner
  /\ \A c \in DOMAIN rx_count : rx_count[c] \in Nat \ {0}
  /\ split \subseteq DOMAIN owner
  /\ receivers \in [Shards -> Nat]
  /\ rate \in [Shards -> Rates]
  /\ claims \in 0..MaxClaims

\* The cells form a tree: only owned cells above the size floor split, and a
\* finer cell is owned only below a split one, so leaf_at always ends and
\* every claimed position keeps an owner.
TreeClosed ==
  /\ \A c \in split : c[1] < MaxLevel
  /\ \A c \in DOMAIN owner : c[1] > 0 => Parent(c) \in split

\* Splits are invisible: the shard that effectively owns a position changes
\* only in the step that claims the position's own leaf cell (shard.rs:
\* "splits are one-way and invisible until growth diverges").
SplitsInvisible ==
  [][\A p \in Positions :
       OwnerAt(p) # None /\ (LeafAt(p) \in DOMAIN owner' => LeafAt(p) \in DOMAIN owner)
         => OwnerAt(p)' = OwnerAt(p)]_routerVars

\* A claimed cell keeps its shard for the process lifetime, and a position
\* that has an owner never loses it.
TerritoryPermanent ==
  [][/\ \A c \in DOMAIN owner : c \in DOMAIN owner' /\ owner'[c] = owner[c]
     /\ \A p \in Positions : OwnerAt(p) # None => OwnerAt(p)' # None]_routerVars
=============================================================================

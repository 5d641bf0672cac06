---------------------------- MODULE ServerProofs ----------------------------
(***************************************************************************)
(* Proofs about Router and about Server, which composes with it, for any   *)
(* connections, any users and positions of theirs, every number of shards, *)
(* depth of the tree, split threshold and capacity.                        *)
(*                                                                         *)
(* Router: TreeClosed and the type invariant are inductive together:       *)
(* leaf_at is well defined because cells of the deepest level never split, *)
(* and a claimed leaf hangs below split cells because leaf_at found it     *)
(* there.  The two action properties rest on one consequence of the        *)
(* invariant (MappedNowhereBelow): no cell below the leaf of a position is *)
(* mapped, so the walk of owner_at from the leaf up sees every mapped cell *)
(* around the position, and what it finds depends on the owners alone, not *)
(* on the splits.                                                          *)
(*                                                                         *)
(* Server: ReconnectSurvives, SlotsHaveHolders and CountsPairUp are        *)
(* inductive only together with the protocol between a connection and its  *)
(* shard: a message waits once, at the shard its connection was routed to, *)
(* while the connection is where it left it (Waiting), and a slot is held  *)
(* in the name of its own user at the connection's own shard (Slots).      *)
(***************************************************************************)
EXTENDS Server, TLAPS, NaturalsInduction, WellFoundedInduction, SequenceTheorems, FiniteSetTheorems

(* The router.                                                             *)

RouterInv == RouterTypeOK /\ TreeClosed

-----------------------------------------------------------------------------
\* A set of naturals with an element has a least one.
LEMMA LeastNat ==
  ASSUME NEW T \in SUBSET Nat, NEW t \in T
  PROVE  \E m \in T : \A k \in T : m <= k
  <1> DEFINE R == OpToRel(<, Nat)
  <1>1. IsWellFoundedOn(R, Nat)
    BY NatLessThanWellFounded
  <1>2. \A x, y \in Nat : y < x => <<y, x>> \in R
    BY DEF OpToRel
  <1> HIDE DEF R
  <1>3. \E x \in T : \A y \in T : ~ (<<y, x>> \in R)
    BY <1>1, WFMin
  <1>4. PICK x \in T : \A y \in T : ~ (<<y, x>> \in R)
    BY <1>3
  <1>5. x \in Nat
    OBVIOUS
  <1>6. \A k \in T : k \in Nat
    OBVIOUS
  <1>7. \A k \in T : ~(k < x)
    BY <1>2, <1>4, <1>5, <1>6
  <1>8. \A k \in Nat : ~(k < x) => x <= k
    BY <1>5
  <1> QED
    BY <1>6, <1>7, <1>8

\* A set of levels with an element has a greatest one.
LEMMA GreatestLevel ==
  ASSUME NEW n \in Nat, NEW T \in SUBSET (0..n), NEW t \in T
  PROVE  \E m \in T : \A k \in T : k <= m
  <1> DEFINE U == {k \in Nat : \A j \in T : j <= k}
  <1>1. n \in U
    OBVIOUS
  <1>2. PICK m \in U : \A k \in U : m <= k
    BY <1>1, LeastNat
  <1>3. m \in Nat /\ \A j \in T : j <= m
    OBVIOUS
  <1>4. CASE m \in T
    BY <1>3, <1>4
  <1>5. CASE m \notin T
    <2>1. \A j \in T : j \in Nat /\ j <= m /\ j # m
      BY <1>3, <1>5
    <2>2. m - 1 \in Nat
      BY <1>3, <2>1
    <2>3. \A j \in T : j <= m - 1
      BY <1>3, <2>1
    <2>4. m - 1 \in U
      BY <2>2, <2>3
    <2> HIDE DEF U
    <2>5. m <= m - 1
      BY <1>2, <2>4
    <2> QED
      BY <1>3, <2>5
  <1> QED
    BY <1>4, <1>5

\* Halving a cell index is dividing by the doubled side.
LEMMA DivDiv ==
  ASSUME NEW x \in Int, NEW s \in Nat \ {0}
  PROVE  (x \div s) \div 2 = x \div (2 * s)
  <1> DEFINE q == x \div s
             r == q \div 2
  <1>1. q \in Int /\ q * s <= x /\ x < (q + 1) * s
    BY SMT
  <1>2. r \in Int /\ 2 * r <= q /\ q <= 2 * r + 1
    BY <1>1
  <1> HIDE DEF q, r
  <1>3. 2 * s \in Nat \ {0}
    OBVIOUS
  <1>4. r * (2 * s) = (2 * r) * s /\ (r + 1) * (2 * s) = (2 * r + 2) * s
    BY <1>2
  <1>5. (2 * r) * s <= q * s
    BY <1>1, <1>2
  <1>6. (q + 1) * s <= (2 * r + 2) * s
    BY <1>1, <1>2
  <1>7. r * (2 * s) <= x /\ x < (r + 1) * (2 * s)
    BY <1>1, <1>2, <1>4, <1>5, <1>6
  <1>8. x \div (2 * s) = r
    BY <1>7, <1>2, <1>3
  <1> QED
    BY <1>8 DEF r, q

\* cell_at finds cells, and the parent of a position's cell is its cell one
\* level up.
LEMMA CellOf ==
  ASSUME NEW p \in Positions, NEW l \in 0..MaxLevel
  PROVE  /\ CellAt(l, p) \in Cell /\ CellAt(l, p)[1] = l
         /\ l > 0 => Parent(CellAt(l, p)) = CellAt(l - 1, p)
  <1>0. /\ p[1] \in Int /\ p[2] \in Int /\ MaxLevel \in Nat /\ l \in Nat
        /\ Side(l) \in Nat \ {0}
    BY RouterAssumption, SideAssumption
  <1>1. p[1] \div Side(l) \in Int /\ p[2] \div Side(l) \in Int
    BY <1>0
  <1>2. CellAt(l, p) \in Cell /\ CellAt(l, p)[1] = l
    BY <1>1 DEF CellAt, Cell
  <1>3. ASSUME l > 0
        PROVE  Parent(CellAt(l, p)) = CellAt(l - 1, p)
    <2>1. Side(l - 1) = 2 * Side(l)
      BY <1>0, <1>3, SideAssumption
    <2>2. /\ (p[1] \div Side(l)) \div 2 = p[1] \div Side(l - 1)
          /\ (p[2] \div Side(l)) \div 2 = p[2] \div Side(l - 1)
      BY <1>0, <2>1, DivDiv
    <2> QED
      BY <2>2 DEF Parent, CellAt
  <1> QED
    BY <1>2, <1>3

-----------------------------------------------------------------------------
\* The condition of leaf_at.
IsLeaf(l, p) == CellAt(l, p) \notin split /\ \A m \in 0..(l - 1) : CellAt(m, p) \in split

\* leaf_at always ends, at one level.
LEMMA LeafOf ==
  ASSUME RouterInv, NEW p \in Positions
  PROVE  \E l \in 0..MaxLevel : /\ LeafAt(p) = CellAt(l, p) /\ LeafAt(p)[1] = l
                                /\ IsLeaf(l, p)
  <1> DEFINE T == {l \in 0..MaxLevel : CellAt(l, p) \notin split}
  <1>0. MaxLevel \in Nat
    BY RouterAssumption
  <1>1. MaxLevel \in T
    <2>1. CellAt(MaxLevel, p)[1] = MaxLevel
      BY <1>0, CellOf
    <2> QED
      BY <1>0, <2>1 DEF RouterInv, TreeClosed
  <1>2. T \subseteq Nat
    BY <1>0
  <1>3. PICK m \in T : \A k \in T : m <= k
    BY <1>1, <1>2, LeastNat
  <1>4. m \in 0..MaxLevel /\ IsLeaf(m, p)
    <2>1. ASSUME NEW k \in 0..(m - 1)
          PROVE  CellAt(k, p) \in split
      <3>1. k \in 0..MaxLevel /\ ~(m <= k)
        BY <1>0, <1>3
      <3> QED
        BY <1>3, <3>1
    <2> QED
      BY <2>1 DEF IsLeaf
  <1> DEFINE l == CHOOSE l \in 0..MaxLevel : IsLeaf(l, p)
  <1>5. l \in 0..MaxLevel /\ IsLeaf(l, p)
    BY <1>4
  <1>6. LeafAt(p) = CellAt(l, p)
    BY DEF LeafAt, IsLeaf
  <1> HIDE DEF l
  <1>7. LeafAt(p)[1] = l
    BY <1>5, <1>6, CellOf
  <1> QED
    BY <1>5, <1>6, <1>7

\* No cell below a position's leaf is mapped.
LEMMA MappedNowhereBelow ==
  ASSUME RouterInv, NEW p \in Positions, NEW l \in 0..MaxLevel, CellAt(l, p) \in DOMAIN owner
  PROVE  l <= LeafAt(p)[1]
  <1> DEFINE leaf == LeafAt(p)[1]
             T == {k \in 0..MaxLevel : k > leaf /\ CellAt(k, p) \in DOMAIN owner}
  <1>0. MaxLevel \in Nat /\ leaf \in 0..MaxLevel /\ IsLeaf(leaf, p)
    BY RouterAssumption, LeafOf
  <1> HIDE DEF leaf
  <1> SUFFICES ASSUME l > leaf PROVE FALSE
    BY <1>0 DEF leaf
  <1>1. l \in T /\ T \subseteq Nat
    BY <1>0
  <1>2. PICK m \in T : \A k \in T : m <= k
    BY <1>1, LeastNat
  <1>3. m \in 0..MaxLevel /\ m > leaf /\ CellAt(m, p) \in DOMAIN owner /\ m > 0 /\ m - 1 \in 0..MaxLevel
    BY <1>0, <1>2
  <1>4. CellAt(m - 1, p) \in split
    <2>1. CellAt(m, p)[1] = m /\ Parent(CellAt(m, p)) = CellAt(m - 1, p)
      BY <1>3, CellOf
    <2> QED
      BY <1>3, <2>1 DEF RouterInv, TreeClosed
  <1>5. CASE m - 1 = leaf
    BY <1>0, <1>4, <1>5 DEF IsLeaf
  <1>6. CASE m - 1 # leaf
    <2>1. m - 1 > leaf /\ CellAt(m - 1, p) \in DOMAIN owner
      BY <1>0, <1>3, <1>4, <1>6 DEF RouterInv, RouterTypeOK
    <2>2. m <= m - 1
      BY <1>2, <1>3, <2>1
    <2> QED
      BY <1>0, <1>3, <2>2
  <1> QED
    BY <1>5, <1>6

\* The levels of all mapped cells around a position.
MappedAround(p) == {l \in 0..MaxLevel : CellAt(l, p) \in DOMAIN owner}

\* owner_at is the owner of the finest mapped cell around the position.
LEMMA OwnerOf ==
  ASSUME RouterInv, NEW p \in Positions
  PROVE  /\ MappedAround(p) = {} => OwnerAt(p) = None
         /\ \A l \in MappedAround(p) :
              (\A m \in MappedAround(p) : m <= l) => OwnerAt(p) = owner[CellAt(l, p)]
         /\ OwnerAt(p) # None => \E l \in MappedAround(p) : \A m \in MappedAround(p) : m <= l
         /\ MappedAround(p) # {} => OwnerAt(p) \in Shards
         /\ None \notin Shards
  <1>0. MaxLevel \in Nat /\ LeafAt(p)[1] \in 0..MaxLevel /\ NShards \in Nat
    BY RouterAssumption, LeafOf
  <1>1. MappedLevels(p) = MappedAround(p)
    BY <1>0, MappedNowhereBelow DEF MappedLevels, MappedAround
  <1>2. MappedAround(p) \subseteq 0..MaxLevel
    BY DEF MappedAround
  <1>3. MappedAround(p) # {} => \E l \in MappedAround(p) : \A m \in MappedAround(p) : m <= l
    BY <1>0, <1>2, GreatestLevel
  <1>4. \A l, k \in MappedAround(p) :
          (\A m \in MappedAround(p) : m <= l) /\ (\A m \in MappedAround(p) : m <= k) => l = k
    <2> SUFFICES ASSUME NEW l \in MappedAround(p), NEW k \in MappedAround(p), k <= l, l <= k
                 PROVE  l = k
      OBVIOUS
    <2>1. l \in Nat /\ k \in Nat
      BY <1>0, <1>2
    <2> QED
      BY <2>1
  <1>5. ASSUME NEW l \in MappedAround(p), \A m \in MappedAround(p) : m <= l
        PROVE  OwnerAt(p) = owner[CellAt(l, p)] /\ OwnerAt(p) \in Shards
    <2> DEFINE k == CHOOSE k \in MappedAround(p) : \A m \in MappedAround(p) : m <= k
    <2>1. k \in MappedAround(p) /\ \A m \in MappedAround(p) : m <= k
      BY <1>5
    <2>2. k = l
      BY <1>4, <1>5, <2>1
    <2>3. OwnerAt(p) = owner[CellAt(k, p)]
      BY <1>1, <1>5 DEF OwnerAt
    <2>4. CellAt(l, p) \in DOMAIN owner
      BY DEF MappedAround
    <2> HIDE DEF k
    <2> QED
      BY <2>2, <2>3, <2>4 DEF RouterInv, RouterTypeOK
  <1>6. MappedAround(p) = {} => OwnerAt(p) = None
    BY <1>1 DEF OwnerAt
  <1>7. None \notin Shards
    BY <1>0 DEF None, Shards
  <1> QED
    BY <1>3, <1>5, <1>6, <1>7

\* The same as one formula, which can be used of the state after a step.
OwnersOf ==
  \A p \in Positions :
    /\ \A l \in MappedAround(p) :
         (\A m \in MappedAround(p) : m <= l) => OwnerAt(p) = owner[CellAt(l, p)]
    /\ MappedAround(p) # {} => OwnerAt(p) \in Shards
    /\ \A l \in 0..MaxLevel : CellAt(l, p) \in DOMAIN owner => l <= LeafAt(p)[1]
    /\ \E l \in 0..MaxLevel : LeafAt(p) = CellAt(l, p) /\ LeafAt(p)[1] = l /\ IsLeaf(l, p)

LEMMA OwnersFound == RouterInv => OwnersOf
  BY OwnerOf, MappedNowhereBelow, LeafOf DEF OwnersOf

-----------------------------------------------------------------------------
\* What a call of shard_for does to the map.
LEMMA ShardForMap ==
  ASSUME RouterInv, NEW p \in Positions, NEW s \in Shards, ShardFor(p, s)
  PROVE  LET c == LeafAt(p)
         IN  /\ c \in Cell /\ c \notin split
             /\ c[1] > 0 => Parent(c) \in split
             /\ DOMAIN owner' = DOMAIN owner \cup {c}
             /\ \A k \in DOMAIN owner : owner'[k] = owner[k]
             /\ owner'[c] = s
             /\ split' = split \/ (split' = split \cup {c} /\ c[1] < MaxLevel)
  <1> DEFINE c == LeafAt(p)
  <1>0. PICK l \in 0..MaxLevel : c = CellAt(l, p) /\ c[1] = l /\ IsLeaf(l, p)
    BY LeafOf
  <1>1. MaxLevel \in Nat /\ l \in Nat
    BY RouterAssumption
  <1>2. c \in Cell /\ c \notin split
    BY <1>0, CellOf DEF IsLeaf
  <1>3. ASSUME l > 0
        PROVE  Parent(c) \in split
    <2>1. Parent(c) = CellAt(l - 1, p) /\ l - 1 \in 0..(l - 1)
      BY <1>0, <1>1, <1>3, CellOf
    <2> QED
      BY <1>0, <2>1 DEF IsLeaf
  <1>4. /\ s \in Candidates(p) /\ owner' = Claimed(c, s)
        /\ split' = IF MaySplit(c) THEN split \cup {c} ELSE split
    BY DEF ShardFor
  <1>5. c \in DOMAIN owner => s = owner[c]
    BY <1>4 DEF Candidates
  <1> HIDE DEF c
  <1>6. /\ DOMAIN owner' = DOMAIN owner \cup {c} /\ owner'[c] = s
        /\ \A k \in DOMAIN owner : owner'[k] = owner[k]
    BY <1>4, <1>5 DEF Claimed
  <1>7. split' = split \/ (split' = split \cup {c} /\ c[1] < MaxLevel)
    BY <1>4 DEF MaySplit
  <1> QED
    BY <1>0, <1>2, <1>3, <1>6, <1>7 DEF c

\* The invariant is inductive; also for the modules that add variables to the
\* router's.
LEMMA RouterStep ==
  ASSUME RouterInv, RouterNext
  PROVE  RouterInv'
  <1> USE RouterAssumption
  <1>1. ASSUME NEW p \in Positions, NEW s \in Shards, ShardFor(p, s)
        PROVE  RouterInv'
    <2> DEFINE c == LeafAt(p)
    <2>1. /\ c \in Cell /\ c \notin split
          /\ c[1] > 0 => Parent(c) \in split
          /\ DOMAIN owner' = DOMAIN owner \cup {c}
          /\ \A k \in DOMAIN owner : owner'[k] = owner[k]
          /\ owner'[c] = s
          /\ split' = split \/ (split' = split \cup {c} /\ c[1] < MaxLevel)
      BY <1>1, ShardForMap
    <2>2. /\ rx_count' = [k \in DOMAIN rx_count \cup {c} |-> IF k = c THEN Count(c) + 1 ELSE rx_count[k]]
          /\ receivers' = [receivers EXCEPT ![s] = @ + 1]
          /\ claims < MaxClaims /\ claims' = claims + 1 /\ rate' = rate
      BY <1>1 DEF ShardFor
    <2> HIDE DEF c
    <2>3. Count(c) \in Nat
      BY DEF Count, RouterInv, RouterTypeOK
    <2>4. /\ DOMAIN rx_count' = DOMAIN owner'
          /\ \A k \in DOMAIN rx_count' : rx_count'[k] \in Nat \ {0}
      BY <2>1, <2>2, <2>3 DEF RouterInv, RouterTypeOK
    <2>5. receivers' \in [Shards -> Nat] /\ claims' \in 0..MaxClaims
      BY <2>2 DEF RouterInv, RouterTypeOK
    <2>6. RouterTypeOK'
      BY <2>1, <2>2, <2>4, <2>5 DEF RouterInv, RouterTypeOK, Cell, Shards
    <2>7. TreeClosed'
      BY <2>1 DEF RouterInv, TreeClosed, Parent
    <2> QED
      BY <2>6, <2>7 DEF RouterInv
  <1>2. ASSUME NEW s \in Shards, Release(s)
        PROVE  RouterInv'
    <2>1. receivers' \in [Shards -> Nat]
      BY <1>2 DEF Release, RouterInv, RouterTypeOK
    <2> QED
      BY <1>2, <2>1 DEF Release, cells, RouterInv, RouterTypeOK, TreeClosed, Cell, Shards, Parent
  <1>3. ASSUME NEW s \in Shards, NEW r \in Rates, StoreRate(s, r)
        PROVE  RouterInv'
    BY <1>3 DEF StoreRate, cells, RouterInv, RouterTypeOK, TreeClosed, Cell, Shards, Parent
  <1> QED
    BY <1>1, <1>2, <1>3 DEF RouterNext

LEMMA RouterStart == RouterInit => RouterInv
  BY RouterAssumption DEF RouterInit, RouterInv, RouterTypeOK, TreeClosed, Shards

\* If the cells do not change, no owner does.
LEMMA SameCells ==
  ASSUME UNCHANGED cells
  PROVE  \A p : OwnerAt(p)' = OwnerAt(p) /\ LeafAt(p)' = LeafAt(p)
  BY DEF cells, OwnerAt, MappedLevels, LeafAt, CellAt

\* The effect of shard_for on the effective owner of any position.
LEMMA OwnersStep ==
  ASSUME RouterInv, RouterInv', NEW q \in Positions, NEW s \in Shards, ShardFor(q, s),
         NEW p \in Positions, OwnerAt(p) # None
  PROVE  /\ OwnerAt(p)' # None
         /\ (LeafAt(p) \in DOMAIN owner' => LeafAt(p) \in DOMAIN owner) => OwnerAt(p)' = OwnerAt(p)
  <1> DEFINE c == LeafAt(q)
  <1>0. MaxLevel \in Nat
    BY RouterAssumption
  <1>1. /\ c \notin split
        /\ DOMAIN owner' = DOMAIN owner \cup {c}
        /\ \A k \in DOMAIN owner : owner'[k] = owner[k]
        /\ split' = split \/ split' = split \cup {c}
    BY ShardForMap
  <1>2. c[1] \in 0..MaxLevel
    BY LeafOf
  <1> HIDE DEF c
  <1>3. OwnersOf'
    BY OwnersFound, PTL
  <1>4. PICK l \in MappedAround(p) : \A m \in MappedAround(p) : m <= l
    BY OwnerOf
  <1>5. OwnerAt(p) = owner[CellAt(l, p)] /\ CellAt(l, p) \in DOMAIN owner /\ l \in 0..MaxLevel
    BY <1>4, OwnerOf DEF MappedAround
  <1>6. MappedAround(p)' = {k \in 0..MaxLevel : CellAt(k, p) \in DOMAIN owner'}
    BY DEF MappedAround, CellAt
  <1>7. OwnerAt(p)' # None
    <2>1. l \in MappedAround(p)'
      BY <1>1, <1>5, <1>6
    <2>2. OwnerAt(p)' \in Shards
      BY <1>3, <2>1 DEF OwnersOf, Shards
    <2> QED
      BY <2>2, OwnerOf
  <1>8. ASSUME LeafAt(p) \in DOMAIN owner' => LeafAt(p) \in DOMAIN owner
        PROVE  OwnerAt(p)' = OwnerAt(p)
    <2>1. ASSUME NEW k \in 0..MaxLevel, CellAt(k, p) \in DOMAIN owner', CellAt(k, p) \notin DOMAIN owner
          PROVE  FALSE
      <3>1. CellAt(k, p) = c /\ c[1] = k /\ k \in Nat
        BY <1>0, <1>1, <2>1, CellOf
      <3>2. PICK h \in 0..MaxLevel : LeafAt(p) = CellAt(h, p) /\ LeafAt(p)[1] = h /\ IsLeaf(h, p)
        BY LeafOf
      <3>3. h # k
        BY <1>1, <1>8, <2>1, <3>1, <3>2
      <3>4. CASE h > k
        <4>1. CellAt(k, p) \in split
          BY <1>0, <3>1, <3>2, <3>4 DEF IsLeaf
        <4> QED
          BY <1>1, <3>1, <4>1
      <3>5. CASE h < k
        <4>1. PICK j \in 0..MaxLevel : LeafAt(p)' = CellAt(j, p)' /\ LeafAt(p)'[1] = j /\ IsLeaf(j, p)'
          BY <1>3 DEF OwnersOf
        <4>2. k <= j
          BY <1>3, <2>1, <4>1 DEF OwnersOf, CellAt
        <4>3. CellAt(h, p) \in split'
          BY <1>0, <3>1, <3>5, <4>1, <4>2 DEF IsLeaf, CellAt
        <4>4. CellAt(h, p) # c
          BY <3>1, <3>2, <3>3
        <4>5. CellAt(h, p) \in split
          BY <1>1, <4>3, <4>4
        <4> QED
          BY <3>2, <4>5 DEF IsLeaf
      <3> QED
        BY <1>0, <3>1, <3>2, <3>3, <3>4, <3>5
    <2>2. MappedAround(p)' = MappedAround(p)
      BY <1>1, <1>6, <2>1 DEF MappedAround
    <2>3. OwnerAt(p)' = owner'[CellAt(l, p)]
      BY <1>3, <1>4, <2>2 DEF OwnersOf, CellAt
    <2> QED
      BY <1>1, <1>5, <2>3
  <1> QED
    BY <1>7, <1>8

-----------------------------------------------------------------------------
\* The cells of shard.rs form a tree in every state, and the map and the
\* counters keep their shape.
THEOREM TreeStaysClosed == RouterSpec => [](RouterTypeOK /\ TreeClosed)
  <1>1. RouterInv /\ [RouterNext]_routerVars => RouterInv'
    <2> SUFFICES ASSUME RouterInv, [RouterNext]_routerVars PROVE RouterInv'
      OBVIOUS
    <2>1. CASE UNCHANGED routerVars
      BY <2>1 DEF routerVars, cells, RouterInv, RouterTypeOK, TreeClosed, Cell, Shards, Parent
    <2> QED
      BY <2>1, RouterStep
  <1>2. RouterInv <=> RouterTypeOK /\ TreeClosed
    BY DEF RouterInv
  <1> QED
    BY <1>1, <1>2, RouterStart, PTL DEF RouterSpec

\* What every step of the router does to the effective owners.
LEMMA OwnersStable ==
  ASSUME RouterInv, RouterInv', [RouterNext]_routerVars
  PROVE  /\ \A c \in DOMAIN owner : c \in DOMAIN owner' /\ owner'[c] = owner[c]
         /\ \A p \in Positions : OwnerAt(p) # None =>
              /\ OwnerAt(p)' # None
              /\ (LeafAt(p) \in DOMAIN owner' => LeafAt(p) \in DOMAIN owner) => OwnerAt(p)' = OwnerAt(p)
  <1>1. CASE \E q \in Positions, s \in Shards : ShardFor(q, s)
    BY <1>1, OwnersStep, ShardForMap
  <1>2. CASE UNCHANGED cells
    <2>1. \A p : OwnerAt(p)' = OwnerAt(p)
      BY <1>2, SameCells
    <2>2. owner' = owner
      BY <1>2 DEF cells
    <2> QED
      BY <2>1, <2>2
  <1> QED
    BY <1>1, <1>2 DEF RouterNext, Release, StoreRate, routerVars

\* A split of a cell moves nobody's ground: shard_for changes the effective
\* owner of a position only by claiming the position's own leaf.
THEOREM SplitsAreInvisible == RouterSpec => SplitsInvisible
  <1> DEFINE A == \A p \in Positions :
                    OwnerAt(p) # None /\ (LeafAt(p) \in DOMAIN owner' => LeafAt(p) \in DOMAIN owner)
                      => OwnerAt(p)' = OwnerAt(p)
  <1>1. RouterInv /\ RouterInv' /\ [RouterNext]_routerVars => [A]_routerVars
    BY OwnersStable
  <1>2. RouterInv <=> RouterTypeOK /\ TreeClosed
    BY DEF RouterInv
  <1> QED
    BY <1>1, <1>2, TreeStaysClosed, PTL DEF RouterSpec, SplitsInvisible

\* Ground that was claimed keeps its shard, and ground that has an owner never
\* becomes nobody's.
THEOREM TerritoryIsPermanent == RouterSpec => TerritoryPermanent
  <1> DEFINE A == /\ \A c \in DOMAIN owner : c \in DOMAIN owner' /\ owner'[c] = owner[c]
                  /\ \A p \in Positions : OwnerAt(p) # None => OwnerAt(p)' # None
  <1>1. RouterInv /\ RouterInv' /\ [RouterNext]_routerVars => [A]_routerVars
    BY OwnersStable
  <1>2. RouterInv <=> RouterTypeOK /\ TreeClosed
    BY DEF RouterInv
  <1> QED
    BY <1>1, <1>2, TreeStaysClosed, PTL DEF RouterSpec, TerritoryPermanent

-----------------------------------------------------------------------------
(* The connections.                                                        *)

Msg == [op: {"add", "remove"}, conn: Conns]

Distinct(q) == \A i, j \in 1..Len(q) : q[i] = q[j] => i = j

\* A connection has a shard from its claim on.
Routed == \A c \in Conns : home[c] = None <=> pc[c] = "new"

\* A waiting message was sent once, to its connection's shard, and says how
\* far its connection is.
Waiting ==
  \A s \in Shards :
    /\ Distinct(queue[s])
    /\ \A m \in Range(queue[s]) :
         /\ home[m.conn] = s
         /\ m.op = "add" => pc[m.conn] = "adding"
         /\ m.op = "remove" => pc[m.conn] \in {"removing", "gone"}

\* A slot is its user's, at the shard the holder was routed to.
Slots ==
  \A s \in Shards : \A u \in DOMAIN live[s] : UserOf[live[s][u]] = u /\ home[live[s][u]] = s

\* The connections counted into a shard.
Counted(s) == {c \in Conns : home[c] = s /\ pc[c] # "gone"}

Finite == \A s \in Shards : IsFiniteSet(Counted(s))

IInv == /\ RouterInv /\ TypeOK /\ Routed /\ Waiting /\ Slots /\ Finite
        /\ ReconnectSurvives /\ SlotsHaveHolders /\ CountsPairUp

-----------------------------------------------------------------------------
\* A message appended to a queue it is not in.
LEMMA RangeAppend ==
  ASSUME NEW S, NEW q \in Seq(S), NEW m \in S, Distinct(q), m \notin Range(q)
  PROVE  /\ Append(q, m) \in Seq(S) /\ Range(Append(q, m)) = Range(q) \cup {m}
         /\ Distinct(Append(q, m))
  <1> DEFINE n == Len(q)
             a == Append(q, m)
  <1>1. /\ n \in Nat /\ a \in Seq(S) /\ Len(a) = n + 1 /\ a[n + 1] = m
        /\ \A i \in 1..n : a[i] = q[i]
        /\ DOMAIN q = 1..n /\ DOMAIN a = 1..(n + 1)
    BY AppendProperties, LenProperties
  <1>2. \A i, j \in 1..n : q[i] = q[j] => i = j
    BY DEF Distinct
  <1>3. Range(q) = {q[i] : i \in 1..n} /\ Range(a) = {a[i] : i \in 1..(n + 1)}
    BY <1>1 DEF Range
  <1> HIDE DEF n, a
  <1>4. \A i \in 1..(n + 1) : i \in 1..n \/ i = n + 1
    BY <1>1
  <1>5. 1..n \subseteq 1..(n + 1) /\ n + 1 \in 1..(n + 1)
    BY <1>1
  <1>6. Range(a) = Range(q) \cup {m}
    BY <1>1, <1>3, <1>4, <1>5
  <1>7. Distinct(a)
    <2>1. \A i, j \in 1..(n + 1) : a[i] = a[j] => i = j
      BY <1>1, <1>2, <1>3, <1>4
    <2> QED
      BY <1>1, <2>1 DEF Distinct
  <1> QED
    BY <1>1, <1>6, <1>7 DEF a

\* A queue without its head.
LEMMA RangeTail ==
  ASSUME NEW S, NEW q \in Seq(S), Distinct(q), q # <<>>
  PROVE  /\ Head(q) \in Range(q) /\ Head(q) \in S
         /\ Tail(q) \in Seq(S) /\ Range(Tail(q)) = Range(q) \ {Head(q)} /\ Distinct(Tail(q))
  <1> DEFINE n == Len(q)
             a == Tail(q)
             h == Head(q)
  <1>1. /\ n \in Nat \ {0} /\ a \in Seq(S) /\ Len(a) = n - 1 /\ h = q[1] /\ h \in S
        /\ \A i \in 1..(n - 1) : a[i] = q[i + 1]
        /\ DOMAIN q = 1..n /\ DOMAIN a = 1..(n - 1)
    BY HeadTailProperties, LenProperties, EmptySeq
  <1>2. \A i, j \in 1..n : q[i] = q[j] => i = j
    BY DEF Distinct
  <1>3. Range(q) = {q[i] : i \in 1..n} /\ Range(a) = {a[i] : i \in 1..(n - 1)}
    BY <1>1 DEF Range
  <1> HIDE DEF n, a, h
  <1>4. 1 \in 1..n /\ \A i \in 1..(n - 1) : i + 1 \in 1..n /\ i + 1 # 1
    BY <1>1
  <1>5. \A i \in 1..n : i # 1 => i - 1 \in 1..(n - 1) /\ (i - 1) + 1 = i
    BY <1>1
  <1>6. Range(a) = Range(q) \ {h}
    <2>1. ASSUME NEW x \in Range(a) PROVE x \in Range(q) \ {h}
      BY <2>1, <1>1, <1>2, <1>3, <1>4
    <2>2. ASSUME NEW x \in Range(q) \ {h} PROVE x \in Range(a)
      <3>1. PICK i \in 1..n : x = q[i]
        BY <2>2, <1>3
      <3>2. i # 1
        BY <2>2, <3>1, <1>1
      <3>3. i - 1 \in 1..(n - 1) /\ a[i - 1] = q[(i - 1) + 1]
        BY <1>1, <1>5, <3>2
      <3> QED
        BY <1>3, <1>5, <3>1, <3>2, <3>3
    <2> QED
      BY <2>1, <2>2
  <1>7. Distinct(a)
    <2>1. \A i, j \in 1..(n - 1) : a[i] = a[j] => i + 1 = j + 1
      BY <1>1, <1>2, <1>4
    <2>2. \A i, j \in 1..(n - 1) : i + 1 = j + 1 => i = j
      BY <1>1
    <2> QED
      BY <1>1, <2>1, <2>2 DEF Distinct
  <1>8. h \in Range(q)
    BY <1>1, <1>3, <1>4
  <1> QED
    BY <1>1, <1>6, <1>7, <1>8 DEF a, h

\* The two messages of a connection.
LEMMA Messages ==
  /\ \A c \in Conns : /\ Add(c) \in Msg /\ Add(c).op = "add" /\ Add(c).conn = c
                      /\ Remove(c) \in Msg /\ Remove(c).op = "remove" /\ Remove(c).conn = c
  /\ \A m \in Msg : m.conn \in Conns /\ (m.op = "add" => m = Add(m.conn))
                    /\ (m.op = "remove" => m = Remove(m.conn))
  BY DEF Msg, Add, Remove

LEMMA NoneIsNoShard == None \notin Shards
  BY RouterAssumption DEF None, Shards

-----------------------------------------------------------------------------
(* What a step changes.                                                    *)

\* A connection that stays counted leaves the counts alone.
LEMMA SameCount ==
  ASSUME IInv, UNCHANGED <<home, receivers>>, NEW c \in Conns, NEW p, pc[c] # "gone", p # "gone",
         pc' = [pc EXCEPT ![c] = p]
  PROVE  Finite' /\ CountsPairUp'
  <1>1. \A s \in Shards : Counted(s)' = Counted(s)
    BY DEF IInv, TypeOK, Counted
  <1> QED
    BY <1>1 DEF IInv, Finite, CountsPairUp, Counted

\* A connection none of whose messages waits may move on.
LEMMA WaitingStep ==
  ASSUME IInv, UNCHANGED <<home, queue>>, NEW c \in Conns, NEW p, pc' = [pc EXCEPT ![c] = p],
         pc[c] \notin {"adding", "removing", "gone"}
  PROVE  Waiting'
  <1> SUFFICES ASSUME NEW t \in Shards PROVE Waiting!(t)'
    BY DEF Waiting
  <1>1. Distinct(queue'[t])
    BY DEF IInv, Waiting, Distinct
  <1>2. ASSUME NEW m \in Range(queue[t])
        PROVE  /\ home'[m.conn] = t
               /\ m.op = "add" => pc'[m.conn] = "adding"
               /\ m.op = "remove" => pc'[m.conn] \in {"removing", "gone"}
    <2>1. /\ home[m.conn] = t
          /\ m.op = "add" => pc[m.conn] = "adding"
          /\ m.op = "remove" => pc[m.conn] \in {"removing", "gone"}
      BY DEF IInv, Waiting
    <2>2. m.op \in {"add", "remove"}
      <3>1. queue[t] \in Seq(Msg)
        BY DEF IInv, TypeOK, Msg
      <3>2. m \in Msg
        BY <3>1, LenProperties, ElementOfSeq DEF Range
      <3> QED
        BY <3>2 DEF Msg
    <2>3. m.conn # c
      BY <2>1, <2>2
    <2> QED
      BY <2>1, <2>3 DEF IInv, TypeOK
  <1> QED
    BY <1>1, <1>2 DEF Range, Distinct

\* A step of a connection that sends nothing to its shard.
LEMMA PcStep ==
  ASSUME IInv, NEW c \in Conns, Reply(c) \/ ReplyFails(c) \/ Close(c)
  PROVE  IInv'
  <1>1. /\ pc[c] \in {"replying", "open"}
        /\ UNCHANGED <<home, queue, live, order>> /\ UNCHANGED routerVars
    BY DEF Reply, ReplyFails, Close
  <1>2. PICK p \in {"open", "failed", "closing"} : pc' = [pc EXCEPT ![c] = p]
    BY DEF Reply, ReplyFails, Close
  <1>4. RouterInv' /\ receivers' = receivers
    BY <1>1 DEF IInv, RouterInv, RouterTypeOK, TreeClosed, routerVars, cells
  <1>5. TypeOK' /\ Routed' /\ Waiting' /\ Slots'
    <2>1. TypeOK'
      BY <1>1, <1>2, <1>4 DEF IInv, TypeOK, RouterInv
    <2>2. Routed'
      BY <1>1, <1>2 DEF IInv, TypeOK, Routed
    <2>3. Waiting'
      BY <1>1, <1>2, WaitingStep
    <2>4. Slots'
      BY <1>1 DEF IInv, Slots
    <2> QED
      BY <2>1, <2>2, <2>3, <2>4
  <1>6. Finite' /\ CountsPairUp'
    BY <1>1, <1>2, <1>4, SameCount
  <1>7. ReconnectSurvives'
    BY <1>1, <1>2 DEF IInv, TypeOK, ReconnectSurvives, Latest, Holds
  <1>8. SlotsHaveHolders'
    BY <1>1, <1>2 DEF IInv, TypeOK, SlotsHaveHolders, Range, Remove
  <1> QED
    BY <1>4, <1>5, <1>6, <1>7, <1>8 DEF IInv

\* shard_for counts a new connection into its shard.
LEMMA ClaimStep ==
  ASSUME IInv, NEW c \in Conns, Claim(c)
  PROVE  IInv'
  <1>1. PICK s \in Shards : /\ pc[c] = "new" /\ ShardFor(PosOf[c], s)
                            /\ pc' = [pc EXCEPT ![c] = "claimed"]
                            /\ home' = [home EXCEPT ![c] = s]
                            /\ UNCHANGED <<queue, live, order>>
    BY DEF Claim
  <1>2. RouterNext /\ receivers' = [receivers EXCEPT ![s] = @ + 1]
    BY <1>1, ServerAssumption DEF RouterNext, ShardFor
  <1>3. RouterInv'
    BY <1>2, RouterStep DEF IInv
  <1>4. home[c] = None /\ s # None
    BY <1>1, NoneIsNoShard DEF IInv, Routed
  <1>5. TypeOK'
    BY <1>1, <1>3 DEF IInv, TypeOK, RouterInv
  <1>6. Routed'
    BY <1>1, <1>4 DEF IInv, TypeOK, Routed
  <1>7. Waiting'
    <2> SUFFICES ASSUME NEW t \in Shards PROVE Waiting!(t)'
      BY DEF Waiting
    <2>1. Distinct(queue'[t])
      BY <1>1 DEF IInv, Waiting, Distinct
    <2>2. ASSUME NEW m \in Range(queue[t])
          PROVE  /\ home'[m.conn] = t
                 /\ m.op = "add" => pc'[m.conn] = "adding"
                 /\ m.op = "remove" => pc'[m.conn] \in {"removing", "gone"}
      <3>1. /\ home[m.conn] = t
            /\ m.op = "add" => pc[m.conn] = "adding"
            /\ m.op = "remove" => pc[m.conn] \in {"removing", "gone"}
        BY DEF IInv, Waiting
      <3>2. m.conn # c
        BY <3>1, <1>4, NoneIsNoShard
      <3> QED
        BY <1>1, <3>1, <3>2 DEF IInv, TypeOK
    <2> QED
      BY <1>1, <2>1, <2>2 DEF Range, Distinct
  <1>8. Slots'
    <2> SUFFICES ASSUME NEW t \in Shards, NEW u \in DOMAIN live[t]
                 PROVE  UserOf[live[t][u]] = u /\ home'[live[t][u]] = t
      BY <1>1 DEF Slots
    <2>1. UserOf[live[t][u]] = u /\ home[live[t][u]] = t
      BY DEF IInv, Slots
    <2>2. live[t][u] # c
      BY <2>1, <1>4, NoneIsNoShard
    <2> QED
      BY <1>1, <2>1, <2>2 DEF IInv, TypeOK
  <1>9. Finite' /\ CountsPairUp'
    <2>1. c \notin Counted(s) /\ Counted(s)' = Counted(s) \cup {c}
      BY <1>1, <1>4 DEF IInv, TypeOK, Counted
    <2>2. \A t \in Shards \ {s} : Counted(t)' = Counted(t)
      BY <1>1, <1>4, NoneIsNoShard DEF IInv, TypeOK, Counted
    <2>3. \A t \in Shards : IsFiniteSet(Counted(t)) /\ receivers[t] = Cardinality(Counted(t))
      BY DEF IInv, Finite, CountsPairUp, Counted
    <2>4. IsFiniteSet(Counted(s)') /\ Cardinality(Counted(s)') = Cardinality(Counted(s)) + 1
      BY <2>1, <2>3, FS_AddElement
    <2>5. receivers'[s] = receivers[s] + 1 /\ \A t \in Shards \ {s} : receivers'[t] = receivers[t]
      BY <1>2 DEF IInv, TypeOK, RouterTypeOK
    <2>6. \A t \in Shards : IsFiniteSet(Counted(t)') /\ receivers'[t] = Cardinality(Counted(t)')
      BY <2>2, <2>3, <2>4, <2>5
    <2> QED
      BY <2>6 DEF Finite, CountsPairUp, Counted
  <1>10. ReconnectSurvives'
    <2> SUFFICES ASSUME NEW d \in Conns, pc'[d] \in {"replying", "open", "closing"}, Latest(d)'
                 PROVE  Holds(home[d], d)' /\ home'[d] = home[d]
      BY DEF ReconnectSurvives, Holds
    <2>1. d # c
      BY <1>1 DEF IInv, TypeOK
    <2>2. pc[d] = pc'[d] /\ home'[d] = home[d] /\ home[d] # None
      BY <1>1, <2>1 DEF IInv, TypeOK, Routed
    <2>3. PICK i \in DOMAIN order : /\ order[i] = d
                                    /\ \A j \in DOMAIN order : j > i =>
                                         home'[order[j]] # home'[d] \/ UserOf[order[j]] # UserOf[d]
      BY <1>1 DEF Latest
    <2>4. \A j \in DOMAIN order : order[j] \in Conns
      BY DEF IInv, TypeOK
    <2>5. \A e \in Conns : home'[e] # home'[d] => home[e] # home[d]
      BY <1>1, <1>4, <2>2 DEF IInv, TypeOK
    <2>6. Latest(d)
      BY <2>3, <2>4, <2>5 DEF Latest
    <2>7. Holds(home[d], d)
      BY <2>2, <2>6 DEF IInv, ReconnectSurvives
    <2> QED
      BY <1>1, <2>2, <2>7 DEF Holds
  <1>11. SlotsHaveHolders'
    BY <1>1 DEF IInv, TypeOK, SlotsHaveHolders, Range, Remove
  <1> QED
    BY <1>3, <1>5, <1>6, <1>7, <1>8, <1>9, <1>10, <1>11 DEF IInv

\* A queue after a message to shard s.
LEMMA Sent ==
  ASSUME IInv, NEW s \in Shards, NEW m \in Msg, m \notin Range(queue[s]),
         queue' = [queue EXCEPT ![s] = Append(@, m)]
  PROVE  /\ queue' \in [Shards -> Seq(Msg)]
         /\ \A t \in Shards : Distinct(queue'[t])
         /\ Range(queue'[s]) = Range(queue[s]) \cup {m}
         /\ \A t \in Shards \ {s} : queue'[t] = queue[t]
  <1>1. queue \in [Shards -> Seq(Msg)]
    BY DEF IInv, TypeOK, Msg
  <1>2. \A t \in Shards : Distinct(queue[t])
    BY DEF IInv, Waiting
  <1> DEFINE a == Append(queue[s], m)
  <1>3. a \in Seq(Msg) /\ Range(a) = Range(queue[s]) \cup {m} /\ Distinct(a)
    BY <1>1, <1>2, RangeAppend
  <1> HIDE DEF a
  <1>4. queue' = [queue EXCEPT ![s] = a]
    BY <1>1 DEF a
  <1>5. queue' \in [Shards -> Seq(Msg)] /\ queue'[s] = a /\ \A t \in Shards \ {s} : queue'[t] = queue[t]
    BY <1>1, <1>3, <1>4
  <1> QED
    BY <1>2, <1>3, <1>5

\* A queue after shard s took its head.
LEMMA Taken ==
  ASSUME IInv, NEW s \in Shards, queue[s] # <<>>, queue' = [queue EXCEPT ![s] = Tail(@)]
  PROVE  /\ Head(queue[s]) \in Msg /\ Head(queue[s]) \in Range(queue[s])
         /\ queue' \in [Shards -> Seq(Msg)]
         /\ \A t \in Shards : Distinct(queue'[t])
         /\ Range(queue'[s]) = Range(queue[s]) \ {Head(queue[s])}
         /\ \A t \in Shards \ {s} : queue'[t] = queue[t]
  <1>1. queue \in [Shards -> Seq(Msg)]
    BY DEF IInv, TypeOK, Msg
  <1>2. \A t \in Shards : Distinct(queue[t])
    BY DEF IInv, Waiting
  <1> DEFINE a == Tail(queue[s])
             h == Head(queue[s])
  <1>3. /\ h \in Range(queue[s]) /\ h \in Msg
        /\ a \in Seq(Msg) /\ Range(a) = Range(queue[s]) \ {h} /\ Distinct(a)
    BY <1>1, <1>2, RangeTail
  <1> HIDE DEF a
  <1>4. queue' = [queue EXCEPT ![s] = a]
    BY <1>1 DEF a
  <1>5. queue' \in [Shards -> Seq(Msg)] /\ queue'[s] = a /\ \A t \in Shards \ {s} : queue'[t] = queue[t]
    BY <1>1, <1>3, <1>4
  <1> QED
    BY <1>2, <1>3, <1>5

\* Every waiting message is one.
LEMMA WaitingType ==
  ASSUME IInv, NEW t \in Shards, NEW m \in Range(queue[t])
  PROVE  m \in Msg
  <1>1. queue[t] \in Seq(Msg)
    BY DEF IInv, TypeOK, Msg
  <1> QED
    BY <1>1, LenProperties, ElementOfSeq DEF Range

\* A connection sends its shard a message.
LEMMA SendStep ==
  ASSUME IInv, NEW c \in Conns, SendAdd(c) \/ TeardownRemove(c)
  PROVE  IInv'
  <1> DEFINE s == home[c]
  <1>1. PICK m \in Msg, p \in {"adding", "removing"} :
          /\ m.conn = c /\ pc[c] = (IF m.op = "add" THEN "claimed" ELSE "closing")
          /\ p = (IF m.op = "add" THEN "adding" ELSE "removing")
          /\ pc' = [pc EXCEPT ![c] = p]
          /\ queue' = [queue EXCEPT ![home[c]] = Append(@, m)]
          /\ UNCHANGED <<home, live, order>> /\ UNCHANGED routerVars
    <2>1. CASE SendAdd(c)
      BY <2>1, Messages DEF SendAdd
    <2>2. CASE TeardownRemove(c)
      BY <2>2, Messages DEF TeardownRemove
    <2> QED
      BY <2>1, <2>2
  <1>2. RouterInv' /\ receivers' = receivers
    BY <1>1 DEF IInv, RouterInv, RouterTypeOK, TreeClosed, routerVars, cells
  <1>3. m.op \in {"add", "remove"}
    BY DEF Msg
  <1>4. pc[c] \in {"claimed", "closing"}
    BY <1>1
  <1>5. s \in Shards
    BY <1>4 DEF IInv, TypeOK, Routed
  <1>6. \A t \in Shards : \A w \in Range(queue[t]) : w.conn # c
    <2> SUFFICES ASSUME NEW t \in Shards, NEW w \in Range(queue[t]), w.conn = c PROVE FALSE
      OBVIOUS
    <2>1. w.op \in {"add", "remove"}
      BY WaitingType DEF Msg
    <2>2. pc[c] \in {"adding", "removing", "gone"}
      BY <2>1 DEF IInv, Waiting
    <2> QED
      BY <1>4, <2>2
  <1> HIDE DEF s
  <1>7. queue' = [queue EXCEPT ![s] = Append(@, m)]
    BY <1>1 DEF s
  <1>8. /\ queue' \in [Shards -> Seq(Msg)]
        /\ \A t \in Shards : Distinct(queue'[t])
        /\ Range(queue'[s]) = Range(queue[s]) \cup {m}
        /\ \A t \in Shards \ {s} : queue'[t] = queue[t]
    BY <1>1, <1>5, <1>6, <1>7, Sent
  <1>9. \A t \in Shards : Range(queue[t]) \subseteq Range(queue'[t])
    BY <1>8
  <1>10. TypeOK'
    BY <1>1, <1>2, <1>8 DEF IInv, TypeOK, RouterInv, Msg
  <1>11. Routed'
    BY <1>1, <1>4 DEF IInv, TypeOK, Routed
  <1>12. Waiting'
    <2>1. ASSUME NEW t \in Shards, NEW w \in Range(queue'[t])
          PROVE  /\ home'[w.conn] = t
                 /\ w.op = "add" => pc'[w.conn] = "adding"
                 /\ w.op = "remove" => pc'[w.conn] \in {"removing", "gone"}
      <3>1. CASE w \in Range(queue[t])
        <4>1. /\ home[w.conn] = t
              /\ w.op = "add" => pc[w.conn] = "adding"
              /\ w.op = "remove" => pc[w.conn] \in {"removing", "gone"}
          BY <3>1 DEF IInv, Waiting
        <4> QED
          BY <4>1, <3>1, <1>1, <1>6 DEF IInv, TypeOK
      <3>2. CASE w \notin Range(queue[t])
        <4>1. w = m /\ t = s
          BY <2>1, <3>2, <1>8
        <4>2. pc'[c] = p
          BY <1>1 DEF IInv, TypeOK
        <4> QED
          BY <4>1, <4>2, <1>1, <1>3 DEF s
      <3> QED
        BY <3>1, <3>2
    <2> QED
      BY <1>8, <2>1 DEF Waiting, Distinct, Range
  <1>13. Slots'
    BY <1>1 DEF IInv, Slots
  <1>14. Finite' /\ CountsPairUp'
    BY <1>1, <1>2, <1>4, SameCount
  <1>15. ReconnectSurvives'
    BY <1>1 DEF IInv, TypeOK, ReconnectSurvives, Latest, Holds
  <1>16. SlotsHaveHolders'
    <2> SUFFICES ASSUME NEW t \in Shards, NEW d \in Range(live[t])
                 PROVE  \/ pc'[d] \in {"replying", "open", "closing", "failed"}
                        \/ Remove(d) \in Range(queue'[t])
      BY <1>1 DEF SlotsHaveHolders, Range, Remove
    <2>1. \/ pc[d] \in {"replying", "open", "closing", "failed"}
          \/ Remove(d) \in Range(queue[t])
      BY DEF IInv, SlotsHaveHolders
    <2>2. CASE Remove(d) \in Range(queue[t])
      BY <2>2, <1>9
    <2>3. CASE d # c
      BY <2>1, <2>3, <1>1, <1>9 DEF IInv, TypeOK
    <2>4. CASE d = c /\ Remove(d) \notin Range(queue[t])
      <3>1. m.op = "remove" /\ m = Remove(c)
        BY <2>1, <2>4, <1>1, <1>3, Messages
      <3>2. t = s
        <4>1. PICK u \in DOMAIN live[t] : live[t][u] = c
          BY <2>4 DEF Range
        <4> QED
          BY <4>1 DEF IInv, Slots, s
      <3> QED
        BY <2>4, <3>1, <3>2, <1>8
    <2> QED
      BY <2>2, <2>3, <2>4
  <1> QED
    BY <1>2, <1>10, <1>11, <1>12, <1>13, <1>14, <1>15, <1>16 DEF IInv

\* The count goes back to the shard that was counted.
LEMMA ReleaseStep ==
  ASSUME IInv, NEW c \in Conns, TeardownRelease(c)
  PROVE  IInv'
  <1>0. pc[c] = "removing"
    BY DEF TeardownRelease
  <1>2. PICK s \in Shards : s = home[c]
    BY <1>0 DEF IInv, TypeOK, Routed
  <1>1. /\ pc[c] = "removing" /\ pc' = [pc EXCEPT ![c] = "gone"] /\ Release(s)
        /\ UNCHANGED <<home, queue, live, order>>
    BY <1>2 DEF TeardownRelease
  <1>3. RouterInv'
    <2>1. RouterNext
      BY <1>1, <1>2 DEF RouterNext
    <2> QED
      BY <2>1, RouterStep DEF IInv
  <1>4. receivers' = [receivers EXCEPT ![s] = @ - 1]
    BY <1>1 DEF Release
  <1>5. TypeOK'
    BY <1>1, <1>3 DEF IInv, TypeOK, RouterInv
  <1>6. Routed'
    BY <1>1 DEF IInv, TypeOK, Routed
  <1>7. Waiting'
    <2>1. ASSUME NEW t \in Shards, NEW m \in Range(queue[t])
          PROVE  /\ home'[m.conn] = t
                 /\ m.op = "add" => pc'[m.conn] = "adding"
                 /\ m.op = "remove" => pc'[m.conn] \in {"removing", "gone"}
      <3>1. /\ home[m.conn] = t
            /\ m.op = "add" => pc[m.conn] = "adding"
            /\ m.op = "remove" => pc[m.conn] \in {"removing", "gone"}
        BY DEF IInv, Waiting
      <3>2. CASE m.conn = c
        <4>1. m.op # "add" /\ pc'[c] = "gone"
          BY <3>1, <3>2, <1>1 DEF IInv, TypeOK
        <4> QED
          BY <3>1, <3>2, <4>1, <1>1
      <3>3. CASE m.conn # c
        BY <3>1, <3>3, <1>1 DEF IInv, TypeOK
      <3> QED
        BY <3>2, <3>3
    <2>2. \A t \in Shards : Distinct(queue[t])
      BY DEF IInv, Waiting
    <2> QED
      BY <1>1, <2>1, <2>2 DEF Waiting, Range, Distinct
  <1>8. Slots'
    BY <1>1 DEF IInv, Slots
  <1>9. Finite' /\ CountsPairUp'
    <2>1. c \in Counted(s) /\ Counted(s)' = Counted(s) \ {c}
      BY <1>1, <1>2 DEF IInv, TypeOK, Counted
    <2>2. \A t \in Shards \ {s} : Counted(t)' = Counted(t)
      BY <1>1, <1>2 DEF IInv, TypeOK, Counted
    <2>3. \A t \in Shards : IsFiniteSet(Counted(t)) /\ receivers[t] = Cardinality(Counted(t))
      BY DEF IInv, Finite, CountsPairUp, Counted
    <2>4. IsFiniteSet(Counted(s)') /\ Cardinality(Counted(s)') = Cardinality(Counted(s)) - 1
      BY <1>2, <2>1, <2>3, FS_RemoveElement
    <2>5. receivers'[s] = receivers[s] - 1 /\ \A t \in Shards \ {s} : receivers'[t] = receivers[t]
      BY <1>2, <1>4 DEF IInv, TypeOK, RouterTypeOK
    <2>6. \A t \in Shards : IsFiniteSet(Counted(t)') /\ receivers'[t] = Cardinality(Counted(t)')
      <3>1. IsFiniteSet(Counted(s)') /\ receivers'[s] = Cardinality(Counted(s)')
        BY <1>2, <2>3, <2>4, <2>5
      <3>2. \A t \in Shards \ {s} : IsFiniteSet(Counted(t)') /\ receivers'[t] = Cardinality(Counted(t)')
        BY <2>2, <2>3, <2>5
      <3> QED
        BY <3>1, <3>2
    <2> QED
      BY <2>6 DEF Finite, CountsPairUp, Counted
  <1>10. ReconnectSurvives'
    BY <1>1 DEF IInv, TypeOK, ReconnectSurvives, Latest, Holds
  <1>11. SlotsHaveHolders'
    BY <1>1 DEF IInv, TypeOK, SlotsHaveHolders, Range, Remove
  <1> QED
    BY <1>3, <1>5, <1>6, <1>7, <1>8, <1>9, <1>10, <1>11 DEF IInv

\* The messages that still wait after shard s took one, whose connection may
\* have been answered.
LEMMA StillWaiting ==
  ASSUME IInv, NEW s \in Shards, queue[s] # <<>>, queue' = [queue EXCEPT ![s] = Tail(@)],
         UNCHANGED home,
         \/ UNCHANGED pc
         \/ /\ Head(queue[s]).op = "add"
            /\ pc' = [pc EXCEPT ![Head(queue[s]).conn] = "replying"]
  PROVE  Waiting'
  <1> DEFINE h == Head(queue[s])
  <1>1. /\ h \in Msg /\ h \in Range(queue[s])
        /\ \A t \in Shards : Distinct(queue'[t])
        /\ Range(queue'[s]) = Range(queue[s]) \ {h}
        /\ \A t \in Shards \ {s} : queue'[t] = queue[t]
    BY Taken
  <1>2. ASSUME NEW t \in Shards, NEW w \in Range(queue'[t])
        PROVE  /\ home'[w.conn] = t
               /\ w.op = "add" => pc'[w.conn] = "adding"
               /\ w.op = "remove" => pc'[w.conn] \in {"removing", "gone"}
    <2>1. w \in Range(queue[t])
      BY <1>1, <1>2
    <2>2. /\ home[w.conn] = t
          /\ w.op = "add" => pc[w.conn] = "adding"
          /\ w.op = "remove" => pc[w.conn] \in {"removing", "gone"}
      BY <2>1 DEF IInv, Waiting
    <2>3. CASE UNCHANGED pc
      BY <2>2, <2>3
    <2>4. CASE h.op = "add" /\ pc' = [pc EXCEPT ![h.conn] = "replying"]
      <3>1. home[h.conn] = s /\ pc[h.conn] = "adding"
        BY <1>1, <2>4 DEF IInv, Waiting
      <3>2. w \in Msg /\ w.op \in {"add", "remove"}
        BY <2>1, WaitingType DEF Msg
      <3>3. w.conn # h.conn
        <4> SUFFICES ASSUME w.conn = h.conn PROVE FALSE
          OBVIOUS
        <4>1. t = s /\ w.op = "add"
          BY <2>2, <3>1, <3>2
        <4>2. w = h
          BY <1>1, <2>4, <3>2, <4>1, Messages
        <4> QED
          BY <1>1, <1>2, <4>1, <4>2
      <3> QED
        BY <2>2, <2>4, <3>3 DEF IInv, TypeOK
    <2> QED
      BY <2>3, <2>4
  <1> QED
    BY <1>1, <1>2 DEF Waiting, Distinct, Range

\* The shard gives a connection its user's slot.
LEMMA TakeAddStep ==
  ASSUME IInv, NEW s \in Shards, TakeAdd(s)
  PROVE  IInv'
  <1> DEFINE h == Head(queue[s])
             c == h.conn
             u == UserOf[c]
             l == [v \in DOMAIN live[s] \cup {u} |-> IF v = u THEN c ELSE live[s][v]]
  <1>1. /\ queue[s] # <<>> /\ h.op = "add" /\ queue' = [queue EXCEPT ![s] = Tail(@)]
        /\ live' = [live EXCEPT ![s] = l] /\ order' = Append(order, c)
        /\ pc' = [pc EXCEPT ![c] = "replying"] /\ UNCHANGED home /\ UNCHANGED routerVars
    BY DEF TakeAdd
  <1>2. /\ h \in Msg /\ h \in Range(queue[s]) /\ queue' \in [Shards -> Seq(Msg)]
        /\ Range(queue'[s]) = Range(queue[s]) \ {h}
        /\ \A t \in Shards \ {s} : queue'[t] = queue[t]
    BY <1>1, Taken
  <1>3. c \in Conns /\ home[c] = s /\ pc[c] = "adding"
    BY <1>1, <1>2, Messages DEF IInv, Waiting
  <1>4. RouterInv' /\ receivers' = receivers
    BY <1>1 DEF IInv, RouterInv, RouterTypeOK, TreeClosed, routerVars, cells
  <1>5. /\ DOMAIN live' = Shards /\ \A t \in Shards \ {s} : live'[t] = live[t]
        /\ DOMAIN live'[s] = DOMAIN live[s] \cup {u} /\ live'[s][u] = c
        /\ \A v \in DOMAIN live[s] : v # u => live'[s][v] = live[s][v]
    BY <1>1 DEF IInv, TypeOK
  <1>6. Range(live'[s]) \subseteq Range(live[s]) \cup {c}
    BY <1>5 DEF Range
  <1>7. order' \in Seq(Conns) /\ \E n \in Nat :
          /\ DOMAIN order = 1..n /\ DOMAIN order' = 1..(n + 1) /\ order'[n + 1] = c
          /\ \A i \in 1..n : order'[i] = order[i]
    <2>1. order \in Seq(Conns)
      BY DEF IInv, TypeOK
    <2> QED
      BY <1>1, <1>3, <2>1, AppendProperties, LenProperties
  <1> HIDE DEF h, c, u, l
  <1>8. TypeOK'
    <2>1. pc' \in [Conns -> {"new", "claimed", "adding", "replying", "open", "failed",
                             "closing", "removing", "gone"}]
      BY <1>1 DEF IInv, TypeOK
    <2>2. \A t \in Shards : Range(live'[t]) \subseteq Conns
      <3>1. \A t \in Shards : Range(live[t]) \subseteq Conns
        BY DEF IInv, TypeOK
      <3>2. Range(live'[s]) \subseteq Conns
        BY <1>3, <1>6, <3>1
      <3>3. \A t \in Shards \ {s} : Range(live'[t]) \subseteq Conns
        BY <1>5, <3>1
      <3> QED
        BY <3>2, <3>3
    <2>3. home' \in [Conns -> Shards \cup {None}] /\ RouterTypeOK'
      BY <1>1, <1>4 DEF IInv, TypeOK, RouterInv
    <2> QED
      BY <1>2, <1>5, <1>7, <2>1, <2>2, <2>3 DEF TypeOK, Msg, Range
  <1>9. Routed'
    BY <1>1, <1>3 DEF IInv, TypeOK, Routed
  <1>10. Waiting'
    BY <1>1, StillWaiting DEF h, c
  <1>11. Slots'
    <2> SUFFICES ASSUME NEW t \in Shards, NEW v \in DOMAIN live'[t]
                 PROVE  UserOf[live'[t][v]] = v /\ home[live'[t][v]] = t
      BY <1>1 DEF Slots
    <2>1. \A r \in Shards : \A w \in DOMAIN live[r] : UserOf[live[r][w]] = w /\ home[live[r][w]] = r
      BY DEF IInv, Slots
    <2>2. CASE t = s
      BY <2>1, <2>2, <1>3, <1>5 DEF u
    <2>3. CASE t # s
      BY <2>1, <2>3, <1>5
    <2> QED
      BY <2>2, <2>3
  <1>12. Finite' /\ CountsPairUp'
    BY <1>1, <1>3, <1>4, SameCount
  <1>13. ReconnectSurvives'
    <2> SUFFICES ASSUME NEW d \in Conns, pc'[d] \in {"replying", "open", "closing"}, Latest(d)'
                 PROVE  Holds(home[d], d)'
      BY <1>1 DEF ReconnectSurvives, Holds
    <2>1. CASE d = c
      BY <2>1, <1>1, <1>3, <1>5 DEF Holds, u
    <2>2. CASE d # c
      <3>1. pc[d] = pc'[d]
        BY <2>2, <1>1 DEF IInv, TypeOK
      <3>2. PICK n \in Nat : /\ DOMAIN order = 1..n /\ DOMAIN order' = 1..(n + 1)
                             /\ order'[n + 1] = c /\ \A i \in 1..n : order'[i] = order[i]
        BY <1>7
      <3>3. PICK i \in 1..(n + 1) : /\ order'[i] = d
                                    /\ \A j \in 1..(n + 1) : j > i =>
                                         home[order'[j]] # home[d] \/ UserOf[order'[j]] # UserOf[d]
        BY <1>1, <3>2 DEF Latest
      <3>4. i \in 1..n /\ n + 1 > i /\ n + 1 \in 1..(n + 1) /\ 1..n \subseteq 1..(n + 1)
        BY <2>2, <3>2, <3>3
      <3>5. home[c] # home[d] \/ UserOf[c] # UserOf[d]
        BY <3>2, <3>3, <3>4
      <3>6. Latest(d)
        <4>1. order[i] = d
          BY <3>2, <3>3, <3>4
        <4>2. \A j \in 1..n : j > i => home[order[j]] # home[d] \/ UserOf[order[j]] # UserOf[d]
          BY <3>2, <3>3, <3>4
        <4> QED
          BY <3>2, <3>4, <4>1, <4>2 DEF Latest
      <3>7. Holds(home[d], d) /\ home[d] \in Shards
        BY <3>1, <3>6, <2>2 DEF IInv, TypeOK, Routed, ReconnectSurvives
      <3>8. CASE home[d] = s
        BY <1>1, <1>3, <1>5, <3>5, <3>7, <3>8 DEF Holds, u
      <3>9. CASE home[d] # s
        BY <1>1, <1>5, <3>7, <3>9 DEF Holds
      <3> QED
        BY <3>8, <3>9
    <2> QED
      BY <2>1, <2>2
  <1>14. SlotsHaveHolders'
    <2> SUFFICES ASSUME NEW t \in Shards, NEW d \in Range(live'[t])
                 PROVE  \/ pc'[d] \in {"replying", "open", "closing", "failed"}
                        \/ Remove(d) \in Range(queue'[t])
      BY DEF SlotsHaveHolders, Range, Remove
    <2>1. CASE d = c
      BY <2>1, <1>1, <1>3 DEF IInv, TypeOK
    <2>2. CASE d # c
      <3>1. d \in Range(live[t])
        BY <2>2, <1>5, <1>6
      <3>2. \/ pc[d] \in {"replying", "open", "closing", "failed"}
            \/ Remove(d) \in Range(queue[t])
        BY <3>1 DEF IInv, SlotsHaveHolders
      <3>3. d \in Conns
        BY <3>1 DEF IInv, TypeOK
      <3>4. pc'[d] = pc[d]
        BY <2>2, <3>3, <1>1 DEF IInv, TypeOK
      <3>5. Remove(d) # h
        BY <1>1, <3>3, Messages
      <3> QED
        BY <3>2, <3>4, <3>5, <1>2
    <2> QED
      BY <2>1, <2>2
  <1> QED
    BY <1>4, <1>8, <1>9, <1>10, <1>11, <1>12, <1>13, <1>14 DEF IInv

\* The shard frees the slot of a connection, if it is still its own.
LEMMA TakeRemoveStep ==
  ASSUME IInv, NEW s \in Shards, TakeRemove(s)
  PROVE  IInv'
  <1> DEFINE h == Head(queue[s])
             c == h.conn
             u == UserOf[c]
  <1>1. /\ queue[s] # <<>> /\ h.op = "remove" /\ queue' = [queue EXCEPT ![s] = Tail(@)]
        /\ live' = IF Holds(s, c)
                   THEN [live EXCEPT ![s] = [v \in DOMAIN live[s] \ {u} |-> live[s][v]]]
                   ELSE live
        /\ UNCHANGED <<pc, home, order>> /\ UNCHANGED routerVars
    BY DEF TakeRemove
  <1>2. /\ h \in Msg /\ h \in Range(queue[s]) /\ queue' \in [Shards -> Seq(Msg)]
        /\ Range(queue'[s]) = Range(queue[s]) \ {h}
        /\ \A t \in Shards \ {s} : queue'[t] = queue[t]
    BY <1>1, Taken
  <1>3. c \in Conns /\ home[c] = s /\ pc[c] \in {"removing", "gone"} /\ h = Remove(c)
    BY <1>1, <1>2, Messages DEF IInv, Waiting
  <1>4. RouterInv' /\ receivers' = receivers
    BY <1>1 DEF IInv, RouterInv, RouterTypeOK, TreeClosed, routerVars, cells
  <1>5. /\ DOMAIN live' = Shards
        /\ \A t \in Shards : /\ DOMAIN live'[t] \subseteq DOMAIN live[t]
                             /\ \A v \in DOMAIN live'[t] : live'[t][v] = live[t][v]
        /\ \A t \in Shards : \A v \in DOMAIN live[t] : live[t][v] # c => v \in DOMAIN live'[t]
    BY <1>1 DEF IInv, TypeOK, Holds
  <1>6. \A t \in Shards : Range(live'[t]) \subseteq Range(live[t])
    BY <1>5 DEF Range
  <1>7. c \notin Range(live'[s])
    <2>1. \A v \in DOMAIN live[s] : live[s][v] = c => v = u
      BY DEF IInv, Slots
    <2>2. CASE Holds(s, c)
      <3>1. u \notin DOMAIN live'[s]
        BY <1>1, <2>2 DEF IInv, TypeOK
      <3> QED
        BY <1>5, <2>1, <3>1 DEF Range
    <2>3. CASE ~Holds(s, c)
      BY <1>1, <2>1, <2>3 DEF Holds, Range
    <2> QED
      BY <2>2, <2>3
  <1> HIDE DEF h, c, u
  <1>8. TypeOK'
    <2>1. \A t \in Shards : Range(live'[t]) \subseteq Conns
      BY <1>6 DEF IInv, TypeOK
    <2> QED
      BY <1>1, <1>2, <1>4, <1>5, <2>1 DEF IInv, TypeOK, RouterInv, Msg, Range
  <1>9. Routed'
    BY <1>1 DEF IInv, Routed
  <1>10. Waiting'
    BY <1>1, StillWaiting
  <1>11. Slots'
    BY <1>1, <1>5 DEF IInv, Slots
  <1>12. Finite' /\ CountsPairUp'
    BY <1>1, <1>4 DEF IInv, Finite, CountsPairUp, Counted
  <1>13. ReconnectSurvives'
    <2> SUFFICES ASSUME NEW d \in Conns, pc[d] \in {"replying", "open", "closing"}, Latest(d)
                 PROVE  Holds(home[d], d)'
      BY <1>1 DEF ReconnectSurvives, Latest, Holds
    <2>1. Holds(home[d], d) /\ home[d] \in Shards
      BY DEF IInv, TypeOK, Routed, ReconnectSurvives
    <2>2. d # c
      BY <1>3
    <2> QED
      BY <1>1, <1>5, <2>1, <2>2 DEF Holds
  <1>14. SlotsHaveHolders'
    <2> SUFFICES ASSUME NEW t \in Shards, NEW d \in Range(live'[t])
                 PROVE  \/ pc[d] \in {"replying", "open", "closing", "failed"}
                        \/ Remove(d) \in Range(queue'[t])
      BY <1>1 DEF SlotsHaveHolders, Range, Remove
    <2>1. d \in Range(live[t]) /\ d \in Conns
      BY <1>6 DEF IInv, TypeOK
    <2>2. \/ pc[d] \in {"replying", "open", "closing", "failed"}
          \/ Remove(d) \in Range(queue[t])
      BY <2>1 DEF IInv, SlotsHaveHolders
    <2>3. CASE t = s
      <3>1. d # c /\ Remove(d) # h
        BY <1>3, <1>7, <2>1, <2>3, Messages
      <3> QED
        BY <1>2, <2>2, <2>3, <3>1
    <2>4. CASE t # s
      BY <1>2, <2>2, <2>4
    <2> QED
      BY <2>3, <2>4
  <1> QED
    BY <1>4, <1>8, <1>9, <1>10, <1>11, <1>12, <1>13, <1>14 DEF IInv

\* A step that leaves the connections alone.
LEMMA RateStep ==
  ASSUME IInv, UNCHANGED connVars, RouterInv', receivers' = receivers
  PROVE  IInv'
  <1>1. UNCHANGED <<pc, home, queue, live, order>>
    BY DEF connVars
  <1>2. TypeOK' /\ Routed' /\ Slots'
    <2>1. TypeOK'
      BY <1>1 DEF IInv, TypeOK, RouterInv, Range
    <2>2. Routed' /\ Slots'
      BY <1>1 DEF IInv, Routed, Slots
    <2> QED
      BY <2>1, <2>2
  <1>3. Waiting' /\ SlotsHaveHolders'
    BY <1>1 DEF IInv, Waiting, SlotsHaveHolders, Distinct, Range, Remove
  <1>4. Finite' /\ CountsPairUp'
    BY <1>1 DEF IInv, Finite, CountsPairUp, Counted
  <1>5. ReconnectSurvives'
    BY <1>1 DEF IInv, ReconnectSurvives, Latest, Holds
  <1> QED
    BY <1>2, <1>3, <1>4, <1>5 DEF IInv

-----------------------------------------------------------------------------
\* The inductive invariant holds in every state of every behaviour.
THEOREM ServerInductive == Spec => []IInv
  <1>1. Init => IInv
    <2> SUFFICES ASSUME Init PROVE IInv
      OBVIOUS
    <2>1. RouterInv
      BY RouterStart DEF Init
    <2>2. TypeOK /\ Routed /\ Waiting /\ Slots
      BY <2>1 DEF Init, RouterInv, TypeOK, Routed, Waiting, Slots, Distinct, Range
    <2>3. \A s \in Shards : Counted(s) = {}
      BY NoneIsNoShard DEF Init, Counted
    <2>4. Finite /\ CountsPairUp
      <3>1. \A s \in Shards : receivers[s] = 0
        BY DEF Init, RouterInit
      <3> QED
        BY <2>3, <3>1, FS_EmptySet DEF Finite, CountsPairUp, Counted
    <2>5. ReconnectSurvives /\ SlotsHaveHolders
      BY DEF Init, ReconnectSurvives, SlotsHaveHolders, Range
    <2> QED
      BY <2>1, <2>2, <2>4, <2>5 DEF IInv
  <1>2. IInv /\ [Next]_vars => IInv'
    <2> SUFFICES ASSUME IInv, [Next]_vars PROVE IInv'
      OBVIOUS
    <2>1. ASSUME NEW c \in Conns, Claim(c) PROVE IInv'
      BY <2>1, ClaimStep
    <2>2. ASSUME NEW c \in Conns, Reply(c) \/ ReplyFails(c) \/ Close(c) PROVE IInv'
      BY <2>2, PcStep
    <2>3. ASSUME NEW c \in Conns, SendAdd(c) \/ TeardownRemove(c) PROVE IInv'
      BY <2>3, SendStep
    <2>4. ASSUME NEW c \in Conns, TeardownRelease(c) PROVE IInv'
      BY <2>4, ReleaseStep
    <2>5. ASSUME NEW s \in Shards, TakeAdd(s) PROVE IInv'
      BY <2>5, TakeAddStep
    <2>6. ASSUME NEW s \in Shards, TakeRemove(s) PROVE IInv'
      BY <2>6, TakeRemoveStep
    <2>7. ASSUME NEW s \in Shards, NEW r \in Rates, StoreRate(s, r), UNCHANGED connVars PROVE IInv'
      <3>1. RouterNext /\ receivers' = receivers
        BY <2>7 DEF RouterNext, StoreRate
      <3>2. RouterInv'
        BY <3>1, RouterStep DEF IInv
      <3> QED
        BY <2>7, <3>1, <3>2, RateStep
    <2>8. CASE UNCHANGED vars
      <3>1. UNCHANGED connVars /\ UNCHANGED routerVars
        BY <2>8 DEF vars
      <3>2. RouterInv' /\ receivers' = receivers
        BY <3>1 DEF IInv, RouterInv, RouterTypeOK, TreeClosed, routerVars, cells
      <3> QED
        BY <3>1, <3>2, RateStep
    <2> QED
      BY <2>1, <2>2, <2>3, <2>4, <2>5, <2>6, <2>7, <2>8 DEF Next, ShardStep, Teardown
  <1> QED
    BY <1>1, <1>2, PTL DEF Spec

\* The connection that last got a user's slot holds it until it gives it up.
THEOREM ReconnectsSurvive == Spec => []ReconnectSurvives
  BY ServerInductive, PTL DEF IInv

\* No slot is held by a connection that will not give it back, but for a
\* failed handshake reply.
THEOREM HoldersExist == Spec => []SlotsHaveHolders
  BY ServerInductive, PTL DEF IInv

\* Each shard's count is the number of connections counted into it.
THEOREM CountsMatch == Spec => []CountsPairUp
  BY ServerInductive, PTL DEF IInv

-----------------------------------------------------------------------------
(* The shards as registries.                                               *)

\* A connection is answered after it asked.
Answered == \A c \in Range(order) : pc[c] \notin {"new", "claimed", "adding"}

\* A slot is issued only to a connection whose request was taken: AddReceiver
\* is answered after it was sent (handle_client), so none is answered twice.
THEOREM AnsweredInductive == Spec => []Answered
  <1>1. Init => Answered
    BY DEF Init, Answered, Range
  <1>2. IInv /\ Answered /\ [Next]_vars => Answered'
    <2> SUFFICES ASSUME IInv, Answered, [Next]_vars PROVE Answered'
      OBVIOUS
    <2>0. pc \in [Conns -> {"new", "claimed", "adding", "replying", "open", "failed",
                            "closing", "removing", "gone"}]
          /\ order \in Seq(Conns)
      BY DEF IInv, TypeOK
    <2>R. \A c \in Range(order) : c \in Conns
      BY <2>0 DEF Range
    <2>1. ASSUME NEW c \in Conns, Claim(c) PROVE Answered'
      BY <2>0, <2>1, <2>R DEF Claim, Answered
    <2>2. ASSUME NEW c \in Conns, Reply(c) \/ ReplyFails(c) \/ Close(c) PROVE Answered'
      BY <2>0, <2>2, <2>R DEF Reply, ReplyFails, Close, Answered
    <2>3. ASSUME NEW c \in Conns, SendAdd(c) \/ TeardownRemove(c) PROVE Answered'
      BY <2>0, <2>3, <2>R DEF SendAdd, TeardownRemove, Answered
    <2>4. ASSUME NEW c \in Conns, TeardownRelease(c) PROVE Answered'
      BY <2>0, <2>4, <2>R DEF TeardownRelease, Answered
    <2>5. ASSUME NEW s \in Shards, TakeAdd(s) PROVE Answered'
      <3> DEFINE c == Head(queue[s]).conn
      <3>1. order' = Append(order, c) /\ pc' = [pc EXCEPT ![c] = "replying"]
        BY <2>5 DEF TakeAdd
      <3>2. Range(order') = Range(order) \cup {c}
        <4> HIDE DEF c
        <4>1. DOMAIN order' = 1..(Len(order) + 1) /\ DOMAIN order = 1..Len(order)
          BY <2>0, <3>1
        <4> QED
          BY <2>0, <3>1, <4>1 DEF Range
      <3>3. c \in Conns
        <4>1. queue[s] # <<>> /\ queue[s] \in Seq(Msg)
          BY <2>5 DEF TakeAdd, IInv, TypeOK, Msg
        <4>2. Head(queue[s]) \in Msg
          BY <4>1
        <4> QED
          BY <4>2 DEF Msg
      <3> HIDE DEF c
      <3> QED
        BY <2>0, <2>R, <3>1, <3>2, <3>3 DEF Answered
    <2>6. ASSUME NEW s \in Shards, TakeRemove(s) PROVE Answered'
      BY <2>6 DEF TakeRemove, Answered
    <2>7. CASE UNCHANGED connVars
      BY <2>7 DEF connVars, Answered
    <2> QED
      BY <2>1, <2>2, <2>3, <2>4, <2>5, <2>6, <2>7 DEF Next, ShardStep, Teardown, vars
  <1> QED
    BY <1>1, <1>2, ServerInductive, PTL DEF Spec

\* The connections answered by shard s.
Given(s) == {c \in Range(order) : home[c] = s}

\* A step that takes no message of shard s leaves its registry alone.
LEMMA OthersKeep ==
  ASSUME IInv, Answered, NEW s \in Shards, live'[s] = live[s], UNCHANGED order,
         UNCHANGED home \/ \E c \in Conns : Claim(c)
  PROVE  UNCHANGED Reg(s)!regVars
  <1>1. \A d \in Range(order) : home'[d] = home[d]
    <2>1. CASE \E c \in Conns : Claim(c)
      <3>1. PICK c \in Conns : Claim(c)
        BY <2>1
      <3>2. pc[c] = "new" /\ c \notin Range(order)
        BY <3>1 DEF Claim, Answered
      <3>3. PICK t \in Shards : home' = [home EXCEPT ![c] = t]
        BY <3>1 DEF Claim
      <3>4. home \in [Conns -> Shards \cup {None}] /\ \A d \in Range(order) : d \in Conns
        BY DEF IInv, TypeOK, Range
      <3> QED
        BY <3>2, <3>3, <3>4
    <2> QED
      BY <2>1
  <1>2. Range(order') = Range(order)
    BY DEF Range
  <1>3. Given(s)' = Given(s)
    BY <1>1, <1>2 DEF Given
  <1> QED
    BY <1>3 DEF Reg!regVars, Given

\* A shard that takes an add issues a handle it has not issued, and no other
\* shard changes.
LEMMA AddIssues ==
  ASSUME IInv, Answered, NEW s \in Shards, TakeAdd(s)
  PROVE  /\ Reg(s)!RegNext
         /\ \A t \in Shards \ {s} : UNCHANGED Reg(t)!regVars
  <1> DEFINE c == Head(queue[s]).conn
             u == UserOf[c]
  <1>1. Head(queue[s]) \in Range(queue[s]) /\ Head(queue[s]).op = "add" /\ Head(queue[s]) \in Msg
    <2>1. queue[s] # <<>> /\ Head(queue[s]).op = "add" /\ queue[s] \in Seq(Msg)
      BY DEF TakeAdd, IInv, TypeOK, Msg
    <2>2. Head(queue[s]) = queue[s][1] /\ 1 \in DOMAIN queue[s] /\ queue[s][1] \in Msg
      BY <2>1
    <2> QED
      BY <2>1, <2>2 DEF Range
  <1>2. c \in Conns /\ home[c] = s /\ pc[c] = "adding" /\ c \notin Range(order)
    <2>1. c \in Conns
      BY <1>1 DEF Msg
    <2>2. home[c] = s /\ pc[c] = "adding"
      BY <1>1 DEF IInv, Waiting
    <2> QED
      BY <2>1, <2>2 DEF Answered
  <1>3. u \in Range(UserOf)
    BY <1>2, ServerAssumption DEF Range
  <1> HIDE DEF c, u
  <1>4. /\ live' = [live EXCEPT ![s] = [v \in DOMAIN @ \cup {u} |-> IF v = u THEN c ELSE live[s][v]]]
        /\ order' = Append(order, c) /\ home' = home
    BY DEF TakeAdd, c, u
  <1>5. live'[s] = [v \in DOMAIN live[s] \cup {u} |-> IF v = u THEN c ELSE live[s][v]]
    BY <1>4 DEF IInv, TypeOK
  <1>6. Range(order') = Range(order) \cup {c}
    <2>1. order \in Seq(Conns)
      BY DEF IInv, TypeOK
    <2>2. DOMAIN order' = 1..(Len(order) + 1) /\ DOMAIN order = 1..Len(order)
      BY <1>2, <1>4, <2>1
    <2> QED
      BY <1>2, <1>4, <2>1, <2>2 DEF Range
  <1>7. c \notin Given(s) /\ Given(s)' = Given(s) \cup {c}
    BY <1>2, <1>4, <1>6 DEF Given
  <1>8. ASSUME NEW t \in Shards \ {s} PROVE UNCHANGED Reg(t)!regVars
    <2>1. live'[t] = live[t]
      BY <1>4, <1>8 DEF IInv, TypeOK
    <2>2. Given(t)' = Given(t)
      BY <1>2, <1>4, <1>6, <1>8 DEF Given
    <2> QED
      BY <2>1, <2>2 DEF Reg!regVars, Given
  <1>9. Reg(s)!RegNext
    <2>1. PICK v \in Range(UserOf), d \in Conns : v = u /\ d = c
      BY <1>2, <1>3
    <2>2. Reg(s)!Issue(v, d)
      BY <1>5, <1>7, <2>1 DEF Reg!Issue, Given
    <2> QED
      BY <2>1, <2>2 DEF Reg!RegNext
  <1> QED
    BY <1>8, <1>9

\* A shard that takes a removal drops the live handle or does nothing.
LEMMA RemoveDrops ==
  ASSUME IInv, Answered, NEW s \in Shards, TakeRemove(s)
  PROVE  /\ Reg(s)!RegNext \/ UNCHANGED Reg(s)!regVars
         /\ \A t \in Shards \ {s} : UNCHANGED Reg(t)!regVars
  <1> DEFINE c == Head(queue[s]).conn
             u == UserOf[c]
  <1>1. c \in Conns /\ u \in Range(UserOf)
    <2>1. queue[s] # <<>> /\ queue[s] \in Seq(Msg)
      BY DEF TakeRemove, IInv, TypeOK, Msg
    <2>2. Head(queue[s]) \in Msg
      BY <2>1
    <2>3. c \in Conns
      BY <2>2 DEF Msg
    <2> QED
      BY <2>3, ServerAssumption DEF Range
  <1> HIDE DEF c, u
  <1>2. /\ order' = order /\ home' = home
        /\ live' = IF Holds(s, c) THEN [live EXCEPT ![s] = [v \in DOMAIN @ \ {u} |-> live[s][v]]] ELSE live
    BY DEF TakeRemove, c, u
  <1>3. DOMAIN live = Shards
    BY DEF IInv, TypeOK
  <1>4. \A t \in Shards \ {s} : live'[t] = live[t]
    BY <1>2, <1>3
  <1>5. ASSUME NEW t \in Shards \ {s} PROVE UNCHANGED Reg(t)!regVars
    BY <1>2, <1>4, <1>5, OthersKeep
  <1>6. CASE Holds(s, c)
    <2>1. u \in DOMAIN live[s]
      BY <1>6 DEF Holds, u
    <2>2. live'[s] = [v \in DOMAIN live[s] \ {u} |-> live[s][v]]
      BY <1>2, <1>3, <1>6
    <2>3. Given(s)' = Given(s)
      BY <1>2 DEF Given, Range
    <2>4. Reg(s)!Drop(u)
      BY <2>1, <2>2, <2>3 DEF Reg!Drop, Given
    <2> QED
      BY <1>1, <1>5, <2>4 DEF Reg!RegNext
  <1>7. CASE ~Holds(s, c)
    <2>1. live'[s] = live[s]
      BY <1>2, <1>7
    <2> QED
      BY <1>2, <1>5, <2>1, OthersKeep
  <1> QED
    BY <1>6, <1>7

\* What the connections of handle_client do to each shard, and what they rely
\* on, is the abstract registry, which ShardProofs shows Shard to implement:
\* no interleaving makes a shard issue a handle twice or drop one that is
\* not live.
THEOREM RegistriesKept ==
  ASSUME NEW s \in Shards
  PROVE  Spec => KeepsRegistry(s)
  <1>1. Init => Reg(s)!RegInit
    BY DEF Init, Reg!RegInit, Range
  <1>2. IInv /\ Answered /\ [Next]_vars => [Reg(s)!RegNext]_(Reg(s)!regVars)
    <2> SUFFICES ASSUME IInv, Answered, [Next]_vars
                 PROVE  Reg(s)!RegNext \/ UNCHANGED Reg(s)!regVars
      OBVIOUS
    <2>1. ASSUME NEW t \in Shards, TakeAdd(t) PROVE Reg(s)!RegNext \/ UNCHANGED Reg(s)!regVars
      <3>1. CASE t = s
        BY <2>1, <3>1, AddIssues
      <3>2. CASE t # s
        <4>1. s \in Shards \ {t}
          BY <3>2
        <4> QED
          BY <2>1, <4>1, AddIssues
      <3> QED
        BY <3>1, <3>2
    <2>2. ASSUME NEW t \in Shards, TakeRemove(t) PROVE Reg(s)!RegNext \/ UNCHANGED Reg(s)!regVars
      <3>1. CASE t = s
        BY <2>2, <3>1, RemoveDrops
      <3>2. CASE t # s
        <4>1. s \in Shards \ {t}
          BY <3>2
        <4> QED
          BY <2>2, <4>1, RemoveDrops
      <3> QED
        BY <3>1, <3>2
    <2>3. CASE /\ UNCHANGED <<live, order>>
               /\ UNCHANGED home \/ \E c \in Conns : Claim(c)
      BY <2>3, OthersKeep
    <2>4. \/ \E t \in Shards : TakeAdd(t) \/ TakeRemove(t)
          \/ /\ UNCHANGED <<live, order>>
             /\ UNCHANGED home \/ \E c \in Conns : Claim(c)
      BY DEF Next, ShardStep, Teardown, Claim, SendAdd, Reply, ReplyFails, Close, TeardownRemove,
             TeardownRelease, connVars, vars
    <2> QED
      BY <2>1, <2>2, <2>3, <2>4
  <1> QED
    BY <1>1, <1>2, ServerInductive, AnsweredInductive, PTL DEF Spec, KeepsRegistry, Reg!RegSpec
=============================================================================

---------------------------- MODULE ShardProofs ----------------------------
(***************************************************************************)
(* Proofs about Shard for every set of users, frames and squitters and     *)
(* every bound.  The inductive invariant IInv joins the type invariant to  *)
(* the registry, pair and offset invariants, because each leans on the     *)
(* others: an offset is safe only because pair models are, pair models     *)
(* only because an evicted or freed slot is really vacant, and handles     *)
(* only because generations have not wrapped.                              *)
(***************************************************************************)
EXTENDS Shard, TLAPS, FiniteSetTheorems, SequenceTheorems

\* Slots and generations grow by additions only: a generation stays below the
\* number of additions and never wraps.
GensBounded == nslots <= adds /\ \A s \in Slots : gens[s] + 1 <= adds

\* An issued handle is never ahead of its slot, and one that is level with
\* its slot names the slot's user.
HandlesBehind ==
  \A h \in issued : /\ h.gen <= gens[h.idx]
                    /\ h.gen = gens[h.idx] => user[h.idx] = h.user

IInv ==
  /\ TypeOK
  /\ FreeListExact
  /\ UserIndexExact
  /\ PairsOfLive
  /\ OffsetsOfLive
  /\ GensBounded
  /\ HandlesBehind
  /\ QuarantineEarned

-----------------------------------------------------------------------------
\* The slot a reconnecting user loses is the live slot indexed under its
\* name, or there is none.
LEMMA EvictedSlot ==
  ASSUME TypeOK, UserIndexExact, NEW u \in Users
  PROVE  /\ u \in DOMAIN by_user => /\ Evicted(u) = {by_user[u]}
                                    /\ by_user[u] \in Slots
                                    /\ alive[by_user[u]]
         /\ u \notin DOMAIN by_user => Evicted(u) = {}
  BY DEF TypeOK, UserIndexExact, Evicted, Slots

\* Freeing at most one live slot keeps the free stack an exact list of the
\* vacant slots.
LEMMA FreedStack ==
  ASSUME TypeOK, FreeListExact, NEW S,
         S = {} \/ \E s \in Slots : S = {s} /\ alive[s]
  PROVE  /\ Freed(S) \in Seq(Slots)
         /\ \A i \in DOMAIN Freed(S) : ~alive[Freed(S)[i]] \/ Freed(S)[i] \in S
         /\ \A i, j \in DOMAIN Freed(S) : i # j => Freed(S)[i] # Freed(S)[j]
         /\ \A s \in Slots : ~alive[s] \/ s \in S =>
              \E i \in DOMAIN Freed(S) : Freed(S)[i] = s
  <1>1. CASE S = {}
    BY <1>1 DEF TypeOK, FreeListExact, Freed
  <1>2. CASE S # {}
    <2>1. PICK s \in Slots : S = {s} /\ alive[s]
      BY <1>2
    <2>2. free_slots \in Seq(Slots)
      BY DEF TypeOK
    <2> DEFINE n == Len(free_slots)
               f == Append(free_slots, s)
    <2>3. Freed(S) = f
      BY <2>1 DEF Freed
    <2>4. n \in Nat /\ DOMAIN free_slots = 1..n
      BY <2>2, LenProperties
    <2>5. f \in Seq(Slots) /\ Len(f) = n + 1 /\ f[n + 1] = s
      BY <2>2
    <2>6. \A i \in 1..n : f[i] = free_slots[i]
      BY <2>2
    <2>7. DOMAIN f = 1..(n + 1)
      BY <2>5, LenProperties
    <2> HIDE DEF n, f
    <2>8. ASSUME NEW i \in 1..n
          PROVE  f[i] # s /\ ~alive[f[i]]
      BY <2>1, <2>4, <2>6 DEF FreeListExact
    <2>9. \A i \in DOMAIN f : ~alive[f[i]] \/ f[i] \in S
      BY <2>1, <2>4, <2>5, <2>7, <2>8
    <2>10. \A i, j \in DOMAIN f : i # j => f[i] # f[j]
      BY <2>4, <2>5, <2>6, <2>7, <2>8 DEF FreeListExact
    <2>11. ASSUME NEW x \in Slots, ~alive[x] \/ x \in S
           PROVE  \E i \in DOMAIN f : f[i] = x
      <3>1. CASE x = s
        BY <3>1, <2>4, <2>5, <2>7
      <3>2. CASE x # s
        <4>1. PICK i \in 1..n : free_slots[i] = x
          BY <3>2, <2>1, <2>4, <2>11 DEF FreeListExact
        <4> QED
          BY <4>1, <2>4, <2>6, <2>7
      <3> QED
        BY <3>1, <3>2
    <2> QED
      BY <2>3, <2>5, <2>9, <2>10, <2>11
  <1> QED
    BY <1>1, <1>2

\* The slot AddReceiver hands out is a new one, or a vacant one that leaves
\* the free stack; the rest of the stack stays exact.
LEMMA PickedSlot ==
  ASSUME TypeOK, FreeListExact, UserIndexExact, NEW u \in Users,
         NEW free, free = Freed(Evicted(u)),
         NEW idx, idx = PickSlot(free)
  PROVE  /\ free = <<>> => idx = nslots + 1 /\ \A s \in Slots : alive[s] /\ s \notin Evicted(u)
         /\ free # <<>> =>
              LET rest == SubSeq(free, 1, Len(free) - 1)
              IN  /\ idx \in Slots
                  /\ ~alive[idx] \/ idx \in Evicted(u)
                  /\ rest \in Seq(Slots)
                  /\ \A i \in DOMAIN rest : /\ rest[i] # idx
                                            /\ ~alive[rest[i]] \/ rest[i] \in Evicted(u)
                  /\ \A i, j \in DOMAIN rest : i # j => rest[i] # rest[j]
                  /\ \A s \in Slots : (~alive[s] \/ s \in Evicted(u)) /\ s # idx =>
                       \E i \in DOMAIN rest : rest[i] = s
  <1>1. Evicted(u) = {} \/ \E s \in Slots : Evicted(u) = {s} /\ alive[s]
    BY EvictedSlot
  <1>2. /\ free \in Seq(Slots)
        /\ \A i \in DOMAIN free : ~alive[free[i]] \/ free[i] \in Evicted(u)
        /\ \A i, j \in DOMAIN free : i # j => free[i] # free[j]
        /\ \A s \in Slots : ~alive[s] \/ s \in Evicted(u) =>
             \E i \in DOMAIN free : free[i] = s
    BY <1>1, FreedStack
  <1>3. CASE free = <<>>
    BY <1>2, <1>3 DEF PickSlot, TypeOK
  <1>4. CASE free # <<>>
    <2> DEFINE n == Len(free)
               rest == SubSeq(free, 1, n - 1)
    <2>1. n \in Nat \ {0} /\ DOMAIN free = 1..n /\ \A i \in 1..n : free[i] \in Slots
      BY <1>2, <1>4
    <2>2. idx = free[n]
      BY <1>4 DEF PickSlot
    <2>3. /\ rest \in Seq(Slots)
          /\ DOMAIN rest = 1..(n - 1)
          /\ \A i \in 1..(n - 1) : rest[i] = free[i]
      BY <1>2, <2>1, SubSeqProperties
    <2> HIDE DEF n, rest
    <2>4. idx \in Slots /\ (~alive[idx] \/ idx \in Evicted(u))
      BY <1>2, <2>1, <2>2
    <2>5. \A i \in DOMAIN rest : rest[i] # idx /\ (~alive[rest[i]] \/ rest[i] \in Evicted(u))
      BY <1>2, <2>1, <2>2, <2>3
    <2>6. \A i, j \in DOMAIN rest : i # j => rest[i] # rest[j]
      BY <1>2, <2>1, <2>3
    <2>7. ASSUME NEW s \in Slots, ~alive[s] \/ s \in Evicted(u), s # idx
          PROVE  \E i \in DOMAIN rest : rest[i] = s
      <3>1. PICK i \in 1..n : free[i] = s
        BY <1>2, <2>1, <2>7
      <3>2. i # n
        BY <3>1, <2>2, <2>7
      <3> QED
        BY <3>1, <3>2, <2>1, <2>3
    <2> QED
      BY <1>4, <2>3, <2>4, <2>5, <2>6, <2>7 DEF n, rest
  <1> QED
    BY <1>3, <1>4

-----------------------------------------------------------------------------
\* The empty state satisfies the invariant.
LEMMA InitKeeps == Init => IInv
  BY ShardAssumption DEF Init, IInv, TypeOK, FreeListExact, UserIndexExact, PairsOfLive,
     OffsetsOfLive, GensBounded, HandlesBehind, QuarantineEarned, Slots

\* Adding a receiver preserves every part of the invariant.
LEMMA AddKeeps ==
  ASSUME IInv, NEW u \in Users, AddReceiver(u)
  PROVE  IInv'
  <1> DEFINE old  == Evicted(u)
             free == Freed(old)
             idx  == PickSlot(free)
             gen  == NextGen(idx)
  <1>0. TypeOK /\ FreeListExact /\ UserIndexExact /\ PairsOfLive /\ OffsetsOfLive
        /\ GensBounded /\ HandlesBehind /\ QuarantineEarned
    BY DEF IInv
  <1>1. /\ nslots' = IF free = <<>> THEN nslots + 1 ELSE nslots
        /\ free_slots' = IF free = <<>> THEN free ELSE SubSeq(free, 1, Len(free) - 1)
        /\ adds < MaxAdds /\ adds' = adds + 1
        /\ user' = Put(user, idx, u)
        /\ gens' = Put(gens, idx, gen)
        /\ alive' = Put([s \in Slots |-> alive[s] /\ s \notin old], idx, TRUE)
        /\ by_user' = Put(by_user, u, idx)
        /\ quarantined' = Without(quarantined, {idx})
        /\ pairs' = PairsWithout(old)
        /\ stamp_offset' = stamp_offset \ old
        /\ issued' = issued \cup {[idx |-> idx, gen |-> gen, user |-> u]}
        /\ UNCHANGED <<syncpoints, groups>>
    BY DEF AddReceiver, FreshBias, OffsetsWithout
  <1>2. /\ u \in DOMAIN by_user => old = {by_user[u]} /\ by_user[u] \in Slots
        /\ u \notin DOMAIN by_user => old = {}
    BY <1>0, EvictedSlot
  <1>3. /\ free = <<>> => idx = nslots + 1 /\ \A s \in Slots : alive[s] /\ s \notin old
        /\ free # <<>> =>
             LET rest == SubSeq(free, 1, Len(free) - 1)
             IN  /\ idx \in Slots
                 /\ ~alive[idx] \/ idx \in old
                 /\ rest \in Seq(Slots)
                 /\ \A i \in DOMAIN rest : rest[i] # idx /\ (~alive[rest[i]] \/ rest[i] \in old)
                 /\ \A i, j \in DOMAIN rest : i # j => rest[i] # rest[j]
                 /\ \A s \in Slots : (~alive[s] \/ s \in old) /\ s # idx =>
                      \E i \in DOMAIN rest : rest[i] = s
    BY <1>0, PickedSlot
  <1> HIDE DEF old, free, idx, gen
  <1>4. /\ Slots' = Slots \cup {idx} /\ nslots' \in Nat
        /\ idx \in Slots => ~alive[idx] \/ idx \in old
        /\ idx \notin Slots => idx = nslots + 1
    BY <1>0, <1>1, <1>3 DEF TypeOK, Slots
  <1>5. /\ gen \in 0..(GenMod - 1)
        /\ gen + 1 <= adds'
        /\ idx \in Slots => gen = gens[idx] + 1
    <2>1. CASE idx \in Slots
      <3>1. gens[idx] + 1 \in 0..(GenMod - 1) /\ gens[idx] + 1 <= adds /\ adds \in Nat
        BY <2>1, <1>0, <1>1, ShardAssumption DEF TypeOK, GensBounded
      <3>2. (gens[idx] + 1) % GenMod = gens[idx] + 1
        BY <3>1, ShardAssumption
      <3>3. gen = gens[idx] + 1
        BY <2>1, <3>2 DEF gen, NextGen
      <3> QED
        BY <3>1, <3>3, <1>1
    <2>2. CASE idx \notin Slots
      BY <2>2, <1>0, <1>1, ShardAssumption DEF TypeOK, NextGen, gen
    <2> QED
      BY <2>1, <2>2
  <1>6. /\ user' \in [Slots' -> Users] /\ user'[idx] = u
        /\ \A s \in Slots : s # idx => user'[s] = user[s]
    BY <1>0, <1>1, <1>4 DEF TypeOK, Put
  <1>7. /\ gens' \in [Slots' -> 0..(GenMod - 1)] /\ gens'[idx] = gen
        /\ \A s \in Slots : s # idx => gens'[s] = gens[s]
    BY <1>0, <1>1, <1>4, <1>5 DEF TypeOK, Put
  <1>8. /\ alive' \in [Slots' -> BOOLEAN] /\ alive'[idx]
        /\ \A s \in Slots : s # idx => (alive'[s] <=> alive[s] /\ s \notin old)
    BY <1>0, <1>1, <1>4 DEF TypeOK, Put
  <1>9. free_slots' \in Seq(Slots') /\ FreeListExact'
    <2>1. CASE free = <<>>
      <3>1. free_slots' = <<>> /\ \A s \in Slots' : alive'[s]
        BY <2>1, <1>1, <1>3, <1>4, <1>8
      <3> QED
        BY <3>1 DEF FreeListExact
    <2>2. CASE free # <<>>
      <3> DEFINE rest == SubSeq(free, 1, Len(free) - 1)
      <3>1. /\ free_slots' = rest /\ Slots' = Slots
            /\ idx \in Slots /\ rest \in Seq(Slots)
            /\ \A i \in DOMAIN rest : rest[i] # idx /\ (~alive[rest[i]] \/ rest[i] \in old)
            /\ \A i, j \in DOMAIN rest : i # j => rest[i] # rest[j]
            /\ \A s \in Slots : (~alive[s] \/ s \in old) /\ s # idx =>
                 \E i \in DOMAIN rest : rest[i] = s
        BY <2>2, <1>1, <1>3, <1>4
      <3> HIDE DEF rest
      <3>2. \A i \in DOMAIN rest : rest[i] \in Slots
        BY <3>1, LenProperties
      <3>3. \A i \in DOMAIN rest : ~alive'[rest[i]]
        BY <3>1, <3>2, <1>8
      <3>4. \A s \in Slots : ~alive'[s] => \E i \in DOMAIN rest : rest[i] = s
        BY <3>1, <1>8
      <3> QED
        BY <3>1, <3>3, <3>4 DEF FreeListExact
    <2> QED
      BY <2>1, <2>2
  <1>10. /\ DOMAIN by_user' = DOMAIN by_user \cup {u} /\ by_user'[u] = idx
         /\ \A v \in DOMAIN by_user : v # u => by_user'[v] = by_user[v]
    BY <1>1 DEF Put
  <1>11. UserIndexExact'
    <2>1. ASSUME NEW v \in DOMAIN by_user'
          PROVE  alive'[by_user'[v]] /\ user'[by_user'[v]] = v
      <3>1. CASE v = u
        BY <3>1, <1>6, <1>8, <1>10
      <3>2. CASE v # u
        <4>1. /\ v \in DOMAIN by_user /\ by_user'[v] = by_user[v] /\ by_user[v] \in Slots
              /\ alive[by_user[v]] /\ user[by_user[v]] = v
          BY <3>2, <1>0, <1>10 DEF TypeOK, UserIndexExact
        <4>2. by_user[v] \notin old
          BY <3>2, <4>1, <1>0, <1>2 DEF UserIndexExact
        <4> QED
          BY <4>1, <4>2, <1>4, <1>6, <1>8
      <3> QED
        BY <3>1, <3>2
    <2>2. ASSUME NEW s \in Slots', alive'[s]
          PROVE  user'[s] \in DOMAIN by_user' /\ by_user'[user'[s]] = s
      <3>1. CASE s = idx
        BY <3>1, <1>6, <1>10
      <3>2. CASE s # idx
        <4>1. s \in Slots /\ alive[s] /\ s \notin old /\ user'[s] = user[s]
          BY <3>2, <2>2, <1>4, <1>6, <1>8
        <4>2. user[s] \in DOMAIN by_user /\ by_user[user[s]] = s
          BY <4>1, <1>0 DEF UserIndexExact
        <4>3. user[s] # u
          BY <4>1, <4>2, <1>2
        <4> QED
          BY <4>1, <4>2, <4>3, <1>10
      <3> QED
        BY <3>1, <3>2
    <2> QED
      BY <2>1, <2>2 DEF UserIndexExact
  <1>12. /\ DOMAIN pairs' = {p \in DOMAIN pairs : p[1] \notin old /\ p[2] \notin old}
         /\ DOMAIN pairs' \subseteq Slots' \X Slots'
    BY <1>0, <1>1, <1>4 DEF TypeOK, PairsWithout, PairsOf, Without
  <1>13. PairsOfLive'
    BY <1>0, <1>4, <1>8, <1>12 DEF TypeOK, PairsOfLive
  <1>14. stamp_offset' \subseteq Slots' /\ OffsetsOfLive'
    BY <1>0, <1>1, <1>4, <1>8 DEF TypeOK, OffsetsOfLive
  <1>15. DOMAIN quarantined' \subseteq Slots' /\ QuarantineEarned'
    BY <1>0, <1>1, <1>4, <1>7 DEF TypeOK, QuarantineEarned, Without
  <1>16. GensBounded'
    BY <1>0, <1>1, <1>4, <1>5, <1>7 DEF TypeOK, GensBounded
  <1>17. issued' \subseteq [idx: Slots', gen: Nat, user: Users]
    BY <1>0, <1>1, <1>4, <1>5 DEF TypeOK
  <1>18. HandlesBehind'
    <2> SUFFICES ASSUME NEW h \in issued'
                 PROVE  h.gen <= gens'[h.idx] /\ (h.gen = gens'[h.idx] => user'[h.idx] = h.user)
      BY DEF HandlesBehind
    <2>1. CASE h \in issued
      <3>1. /\ h.idx \in Slots /\ h.gen \in Nat
            /\ h.gen <= gens[h.idx] /\ (h.gen = gens[h.idx] => user[h.idx] = h.user)
        BY <2>1, <1>0 DEF TypeOK, HandlesBehind
      <3>2. CASE h.idx = idx
        BY <3>1, <3>2, <1>0, <1>5, <1>7 DEF TypeOK
      <3>3. CASE h.idx # idx
        BY <3>1, <3>3, <1>6, <1>7
      <3> QED
        BY <3>2, <3>3
    <2>2. CASE h \notin issued
      BY <2>2, <1>1, <1>5, <1>6, <1>7
    <2> QED
      BY <2>1, <2>2
  <1>19. TypeOK'
    <2>1. /\ DOMAIN by_user' \subseteq Users
          /\ \A v \in DOMAIN by_user' : by_user'[v] \in Slots'
      BY <1>0, <1>4, <1>10 DEF TypeOK
    <2>2. \A k \in DOMAIN syncpoints' : syncpoints'[k] \in Seq([rx: Slots', clk: Users])
      <3>1. [rx: Slots, clk: Users] \subseteq [rx: Slots', clk: Users]
        BY <1>4
      <3>2. \A k \in DOMAIN syncpoints' : syncpoints'[k] \in Seq([rx: Slots, clk: Users])
        BY <1>0, <1>1 DEF TypeOK
      <3> QED
        BY <3>1, <3>2, SeqMonotonic
    <2>3. \A k \in DOMAIN groups' : groups'[k] \subseteq [rx: Slots', clk: Users]
      BY <1>0, <1>1, <1>4 DEF TypeOK
    <2>4. /\ adds' \in 0..MaxAdds
          /\ DOMAIN syncpoints' \subseteq Squitters
          /\ DOMAIN groups' \subseteq Frames \cup Squitters
      BY <1>0, <1>1, ShardAssumption DEF TypeOK
    <2> QED
      BY <2>1, <2>2, <2>3, <2>4, <1>4, <1>6, <1>7, <1>8, <1>9, <1>12, <1>14, <1>15,
         <1>17 DEF TypeOK
  <1> QED
    BY <1>9, <1>11, <1>13, <1>14, <1>15, <1>16, <1>18, <1>19 DEF IInv

\* Removing a receiver preserves every part of the invariant.
LEMMA RemoveKeeps ==
  ASSUME IInv, NEW h \in issued, RemoveReceiver(h)
  PROVE  IInv'
  <1> DEFINE x == h.idx
  <1>0. TypeOK /\ FreeListExact /\ UserIndexExact /\ PairsOfLive /\ OffsetsOfLive
        /\ GensBounded /\ HandlesBehind /\ QuarantineEarned
    BY DEF IInv
  <1>1. /\ x \in Slots /\ alive[x]
        /\ alive' = [alive EXCEPT ![x] = FALSE]
        /\ pairs' = PairsWithout({x})
        /\ stamp_offset' = stamp_offset \ {x}
        /\ free_slots' = Freed({x})
        /\ UNCHANGED <<nslots, user, gens, quarantined, syncpoints, groups, issued, adds>>
    BY DEF RemoveReceiver, Live, OffsetsWithout
  <1>2. by_user' = Without(by_user, {user[x]})
    BY <1>0, <1>1 DEF RemoveReceiver, GetOr, UserIndexExact
  <1> HIDE DEF x
  <1>3. Slots' = Slots
    BY <1>1 DEF Slots
  <1>4. /\ alive' \in [Slots -> BOOLEAN] /\ ~alive'[x]
        /\ \A s \in Slots : s # x => alive'[s] = alive[s]
    BY <1>0, <1>1 DEF TypeOK
  <1>5. free_slots' \in Seq(Slots) /\ FreeListExact'
    <2>1. /\ free_slots' \in Seq(Slots)
          /\ \A i \in DOMAIN free_slots' : ~alive[free_slots'[i]] \/ free_slots'[i] \in {x}
          /\ \A i, j \in DOMAIN free_slots' : i # j => free_slots'[i] # free_slots'[j]
          /\ \A s \in Slots : ~alive[s] \/ s \in {x} =>
               \E i \in DOMAIN free_slots' : free_slots'[i] = s
      BY <1>0, <1>1, FreedStack
    <2>2. \A i \in DOMAIN free_slots' : free_slots'[i] \in Slots
      BY <2>1, LenProperties
    <2>3. \A i \in DOMAIN free_slots' : ~alive'[free_slots'[i]]
      BY <2>1, <2>2, <1>4
    <2>4. \A s \in Slots : ~alive'[s] => \E i \in DOMAIN free_slots' : free_slots'[i] = s
      BY <2>1, <1>4
    <2> QED
      BY <2>1, <2>3, <2>4, <1>3 DEF FreeListExact
  <1>6. /\ DOMAIN by_user' = DOMAIN by_user \ {user[x]}
        /\ \A v \in DOMAIN by_user' : by_user'[v] = by_user[v]
    BY <1>2 DEF Without
  <1>7. UserIndexExact'
    <2>1. ASSUME NEW v \in DOMAIN by_user'
          PROVE  alive'[by_user'[v]] /\ user'[by_user'[v]] = v
      BY <2>1, <1>0, <1>1, <1>4, <1>6 DEF TypeOK, UserIndexExact
    <2>2. ASSUME NEW s \in Slots, alive'[s]
          PROVE  user'[s] \in DOMAIN by_user' /\ by_user'[user'[s]] = s
      <3>1. s # x /\ alive[s]
        BY <2>2, <1>4
      <3>2. user[s] \in DOMAIN by_user /\ by_user[user[s]] = s /\ by_user[user[x]] = x
        BY <3>1, <1>0, <1>1 DEF UserIndexExact
      <3> QED
        BY <3>1, <3>2, <1>1, <1>6
    <2> QED
      BY <2>1, <2>2, <1>3 DEF UserIndexExact
  <1>8. DOMAIN pairs' = {p \in DOMAIN pairs : p[1] # x /\ p[2] # x}
    BY <1>1 DEF PairsWithout, PairsOf, Without
  <1>9. PairsOfLive'
    BY <1>0, <1>4, <1>8 DEF TypeOK, PairsOfLive
  <1>10. stamp_offset' \subseteq Slots /\ OffsetsOfLive'
    BY <1>0, <1>1, <1>4 DEF TypeOK, OffsetsOfLive
  <1>11. GensBounded' /\ HandlesBehind' /\ QuarantineEarned'
    BY <1>0, <1>1, <1>3 DEF GensBounded, HandlesBehind, QuarantineEarned
  <1>12. TypeOK'
    <2>1. DOMAIN pairs' \subseteq Slots \X Slots
      BY <1>0, <1>8 DEF TypeOK
    <2>2. DOMAIN by_user' \subseteq Users /\ \A v \in DOMAIN by_user' : by_user'[v] \in Slots
      BY <1>0, <1>6 DEF TypeOK
    <2> QED
      BY <2>1, <2>2, <1>0, <1>1, <1>3, <1>4, <1>5, <1>10 DEF TypeOK
  <1> QED
    BY <1>5, <1>7, <1>9, <1>10, <1>11, <1>12 DEF IInv

\* The registry's parts of the invariant do not mention pairs, offsets, sync
\* points, groups or quarantine.
LEMMA RegistryKept ==
  ASSUME IInv, UNCHANGED registry
  PROVE  /\ Slots' = Slots
         /\ FreeListExact' /\ UserIndexExact' /\ GensBounded' /\ HandlesBehind'
  BY DEF IInv, registry, Slots, FreeListExact, UserIndexExact, GensBounded, HandlesBehind

\* Dropping a receiver's pair models preserves the invariant.
LEMMA ClockResetKeeps ==
  ASSUME IInv, NEW h \in issued, ClockReset(h)
  PROVE  IInv'
  <1>1. DOMAIN pairs' = {p \in DOMAIN pairs : p[1] # h.idx /\ p[2] # h.idx}
    BY DEF ClockReset, PairsWithout, PairsOf, Without
  <1>2. UNCHANGED <<registry, quarantined, stamp_offset, syncpoints, groups>>
    BY DEF ClockReset
  <1>3. UNCHANGED registry
    BY <1>2
  <1>4. TypeOK'
    BY <1>1, <1>2 DEF IInv, TypeOK, registry, Slots
  <1>5. PairsOfLive' /\ OffsetsOfLive' /\ QuarantineEarned'
    BY <1>1, <1>2 DEF IInv, TypeOK, PairsOfLive, OffsetsOfLive, QuarantineEarned, registry
  <1> QED
    BY <1>3, <1>4, <1>5, RegistryKept DEF IInv

\* Filing a reading of a live receiver keeps the groups well typed.
LEMMA GroupedType ==
  ASSUME TypeOK, NEW k \in Frames \cup Squitters, NEW r \in [rx: Slots, clk: Users]
  PROVE  /\ DOMAIN Grouped(k, r) \subseteq Frames \cup Squitters
         /\ \A f \in DOMAIN Grouped(k, r) : Grouped(k, r)[f] \subseteq [rx: Slots, clk: Users]
  BY DEF TypeOK, Grouped, Put, GetOr

\* Filing a frame preserves the invariant.
LEMMA MlatKeeps ==
  ASSUME IInv, NEW h \in issued, NEW f \in Frames \cup Squitters, OnMlat(h, f)
  PROVE  IInv'
  <1> DEFINE r == [rx |-> h.idx, clk |-> user[h.idx]]
  <1>1. groups' = Grouped(f, r) /\ h.idx \in Slots
        /\ UNCHANGED <<registry, quarantined, pairs, stamp_offset, syncpoints>>
    BY DEF OnMlat, Live
  <1>2. UNCHANGED registry
    BY <1>1
  <1>3. r \in [rx: Slots, clk: Users]
    BY <1>1 DEF IInv, TypeOK
  <1>4. TypeOK'
    BY <1>1, <1>3, GroupedType DEF IInv, TypeOK, registry, Slots
  <1>5. PairsOfLive' /\ OffsetsOfLive' /\ QuarantineEarned'
    BY <1>1 DEF IInv, PairsOfLive, OffsetsOfLive, QuarantineEarned, registry
  <1> QED
    BY <1>2, <1>4, <1>5, RegistryKept DEF IInv

\* Training adds models in both directions between slot x and the slots of
\* the readings it met, and nothing else.
LEMMA TrainedKeys ==
  ASSUME NEW x, NEW r, NEW others
  PROVE  DOMAIN Trained(x, r, others) =
           DOMAIN pairs \cup {<<x, o.rx>> : o \in others} \cup {<<o.rx, x>> : o \in others}
  BY DEF Trained

\* Filing a reading and training its pairs preserves the invariant: only
\* live partners get a model, in both directions.
LEMMA SyncKeeps ==
  ASSUME IInv, NEW h \in issued, NEW k \in Squitters, OnSync(h, k)
  PROVE  IInv'
  <1> DEFINE x    == h.idx
             r    == [rx |-> x, clk |-> user[x]]
             reps == GetOr(syncpoints, k, <<>>)
             met  == {reps[i] : i \in Partners(reps, x)}
  <1>1. /\ x \in Slots /\ alive[x]
        /\ groups' = IF MlatAdsb THEN Grouped(k, r) ELSE groups
        /\ \/ UNCHANGED <<syncpoints, pairs>>
           \/ /\ syncpoints' = Put(syncpoints, k, Append(reps, r))
              /\ pairs' = Trained(x, r, met)
        /\ UNCHANGED <<registry, quarantined, stamp_offset>>
    BY DEF OnSync, Live
  <1>2. UNCHANGED registry /\ Slots' = Slots
    BY <1>1, RegistryKept
  <1>3. r \in [rx: Slots, clk: Users]
    BY <1>1 DEF IInv, TypeOK
  <1>4. reps \in Seq([rx: Slots, clk: Users])
    <2>1. CASE k \in DOMAIN syncpoints
      BY <2>1 DEF IInv, TypeOK, GetOr
    <2>2. CASE k \notin DOMAIN syncpoints
      BY <2>2 DEF GetOr
    <2> QED
      BY <2>1, <2>2
  <1>5. ASSUME NEW o \in met
        PROVE  o.rx \in Slots /\ o.rx # x /\ alive[o.rx]
    <2> HIDE DEF reps
    <2>1. PICK i \in Partners(reps, x) : o = reps[i]
      OBVIOUS
    <2>2. i \in DOMAIN reps /\ reps[i].rx # x /\ alive[reps[i].rx]
      BY <2>1 DEF Partners
    <2>3. reps[i] \in [rx: Slots, clk: Users]
      BY <1>4, <2>2, LenProperties
    <2> QED
      BY <2>1, <2>2, <2>3
  <1>6. PairsOfLive /\ DOMAIN pairs \subseteq Slots \X Slots /\ alive \in [Slots -> BOOLEAN]
    BY DEF IInv, TypeOK
  <1>7. PairsOfLive' /\ DOMAIN pairs' \subseteq Slots \X Slots
    <2>1. CASE UNCHANGED <<syncpoints, pairs>>
      BY <2>1, <1>1, <1>6 DEF PairsOfLive, registry
    <2>2. CASE pairs' = Trained(x, r, met)
      <3> HIDE DEF x, r, reps, met
      <3>1. DOMAIN pairs' = DOMAIN pairs \cup {<<x, o.rx>> : o \in met} \cup {<<o.rx, x>> : o \in met}
        BY <2>2, TrainedKeys
      <3>2. alive' = alive
        BY <1>1 DEF registry
      <3>3. ASSUME NEW p \in DOMAIN pairs'
            PROVE  /\ p \in Slots \X Slots
                   /\ p[1] # p[2] /\ alive[p[1]] /\ alive[p[2]]
                   /\ <<p[2], p[1]>> \in DOMAIN pairs'
        BY <3>1, <1>1, <1>5, <1>6 DEF PairsOfLive
      <3> QED
        BY <3>2, <3>3 DEF PairsOfLive
    <2> QED
      BY <2>1, <2>2, <1>1
  <1>8. /\ DOMAIN syncpoints' \subseteq Squitters
        /\ \A q \in DOMAIN syncpoints' : syncpoints'[q] \in Seq([rx: Slots, clk: Users])
    <2>1. Append(reps, r) \in Seq([rx: Slots, clk: Users])
      BY <1>3, <1>4
    <2> HIDE DEF r, reps
    <2> QED
      BY <2>1, <1>1 DEF IInv, TypeOK, Put
  <1>9. /\ DOMAIN groups' \subseteq Frames \cup Squitters
        /\ \A q \in DOMAIN groups' : groups'[q] \subseteq [rx: Slots, clk: Users]
    BY <1>1, <1>3, GroupedType DEF IInv, TypeOK
  <1>10. TypeOK'
    BY <1>1, <1>2, <1>7, <1>8, <1>9 DEF IInv, TypeOK, registry
  <1>11. OffsetsOfLive' /\ QuarantineEarned'
    BY <1>1 DEF IInv, OffsetsOfLive, QuarantineEarned, registry
  <1> QED
    BY <1>2, <1>7, <1>10, <1>11, RegistryKept DEF IInv

\* A set with at least MinObs elements has one that differs from c.
LEMMA AnotherObserver ==
  ASSUME NEW S, NEW c, Cardinality(S) >= MinObs, IsFiniteSet(S)
  PROVE  \E x \in S : x # c
  <1> SUFFICES ASSUME S \subseteq {c}
               PROVE  FALSE
    OBVIOUS
  <1>1. IsFiniteSet({c}) /\ Cardinality({c}) = 1
    BY FS_Singleton
  <1>2. Cardinality(S) <= 1 /\ Cardinality(S) \in Nat
    BY <1>1, FS_Subset, FS_CardinalityType
  <1> QED
    BY <1>2, ShardAssumption

\* A group is solved only against a live reference, and only live receivers
\* are judged: two observations need a pair model that ends at the reference,
\* and models of removed receivers are gone.
LEMMA OutcomeLive ==
  ASSUME TypeOK, PairsOfLive, NEW u \in SUBSET DOMAIN pairs,
         NEW g \in DOMAIN groups, NEW o \in Outcomes(u, g)
  PROVE  /\ \A c \in o.ref : c \in Slots /\ alive[c]
         /\ o.bad \subseteq Slots
  <1> DEFINE M == Members(g)
  <1>1. M \subseteq Slots
    BY DEF TypeOK, Members
  <1>2. CASE o = [ref |-> {}, bad |-> {}]
    BY <1>2
  <1>3. CASE o # [ref |-> {}, bad |-> {}]
    <2>1. PICK c \in LocalRefs(u, M) :
            /\ Cardinality(Observers(u, M, c)) >= MinObs
            /\ \E b \in SUBSET Observers(u, M, c) : o = [ref |-> {c}, bad |-> b]
      BY <1>3, Zenon DEF Outcomes
    <2>2. c \in M /\ c \in Slots
      BY <2>1, <1>1 DEF LocalRefs
    <2> HIDE DEF M
    <2>3. Observers(u, M, c) \subseteq Slots /\ Observers(u, M, c) \subseteq Converted(u, M, c)
      BY <1>1 DEF Observers, Converted
    <2>4. IsFiniteSet(Observers(u, M, c))
      BY <2>3, FS_Interval, FS_Subset DEF TypeOK, Slots
    <2>5. PICK x \in Observers(u, M, c) : x # c
      BY <2>1, <2>4, AnotherObserver
    <2>6. PICK y : <<y, c>> \in u
      BY <2>3, <2>5 DEF Converted
    <2>7. alive[c]
      BY <2>6 DEF PairsOfLive
    <2> QED
      BY <2>1, <2>2, <2>3, <2>7
  <1> QED
    BY <1>2, <1>3

\* A sweep preserves the invariant: what it solves concerns live receivers.
LEMMA SweepKeeps ==
  ASSUME IInv, Sweep
  PROVE  IInv'
  <1>1. PICK old \in SUBSET DOMAIN syncpoints, ready \in SUBSET DOMAIN groups,
             u \in SUBSET DOMAIN pairs :
          \E out \in [ready -> UNION {Outcomes(u, g) : g \in ready}] :
            /\ \A g \in ready : out[g] \in Outcomes(u, g)
            /\ syncpoints' = Without(syncpoints, old)
            /\ groups' = Without(groups, ready)
            /\ stamp_offset' = stamp_offset \cup UNION {out[g].ref : g \in ready}
            /\ quarantined' =
                 LET bad == UNION {out[g].bad : g \in ready}
                 IN  [s \in DOMAIN quarantined \cup bad |->
                        IF s \in bad THEN gens[s] ELSE quarantined[s]]
            /\ UNCHANGED <<registry, pairs>>
    BY DEF Sweep
  <1>2. PICK out \in [ready -> UNION {Outcomes(u, g) : g \in ready}] :
            /\ \A g \in ready : out[g] \in Outcomes(u, g)
            /\ syncpoints' = Without(syncpoints, old)
            /\ groups' = Without(groups, ready)
            /\ stamp_offset' = stamp_offset \cup UNION {out[g].ref : g \in ready}
            /\ quarantined' =
                 LET bad == UNION {out[g].bad : g \in ready}
                 IN  [s \in DOMAIN quarantined \cup bad |->
                        IF s \in bad THEN gens[s] ELSE quarantined[s]]
            /\ UNCHANGED <<registry, pairs>>
    BY <1>1
  <1> DEFINE bad == UNION {out[g].bad : g \in ready}
             ref == UNION {out[g].ref : g \in ready}
  <1>3. TypeOK /\ PairsOfLive /\ OffsetsOfLive /\ QuarantineEarned
    BY DEF IInv
  <1>4. \A g \in ready : /\ \A c \in out[g].ref : c \in Slots /\ alive[c]
                         /\ out[g].bad \subseteq Slots
    BY <1>2, <1>3, OutcomeLive
  <1>5. (\A c \in ref : c \in Slots /\ alive[c]) /\ bad \subseteq Slots
    BY <1>4
  <1>6. /\ UNCHANGED registry /\ UNCHANGED <<alive, gens, pairs>> /\ Slots' = Slots
    BY <1>2, RegistryKept DEF registry
  <1>7. stamp_offset' = stamp_offset \cup ref
        /\ quarantined' = [s \in DOMAIN quarantined \cup bad |->
                             IF s \in bad THEN gens[s] ELSE quarantined[s]]
    BY <1>2
  <1> HIDE DEF bad, ref
  <1>8. stamp_offset' \subseteq Slots /\ OffsetsOfLive'
    BY <1>3, <1>5, <1>6, <1>7 DEF TypeOK, OffsetsOfLive
  <1>9. DOMAIN quarantined' \subseteq Slots /\ QuarantineEarned'
    BY <1>3, <1>5, <1>6, <1>7 DEF TypeOK, QuarantineEarned
  <1>10. PairsOfLive'
    BY <1>3, <1>6 DEF PairsOfLive
  <1>11. TypeOK'
    BY <1>2, <1>3, <1>6, <1>8, <1>9 DEF TypeOK, Without, registry
  <1> QED
    BY <1>6, <1>8, <1>9, <1>10, <1>11, RegistryKept DEF IInv

-----------------------------------------------------------------------------
\* IInv is inductive.
LEMMA Inductive == IInv /\ [Next]_vars => IInv'
  <1> SUFFICES ASSUME IInv, [Next]_vars
               PROVE  IInv'
    OBVIOUS
  <1>1. CASE UNCHANGED vars
    <2>1. UNCHANGED registry
      BY <1>1 DEF vars
    <2>2. UNCHANGED <<quarantined, pairs, stamp_offset, syncpoints, groups>> /\ alive' = alive /\ gens' = gens
      BY <1>1 DEF vars, registry
    <2> QED
      BY <2>1, <2>2, RegistryKept DEF IInv, TypeOK, PairsOfLive, OffsetsOfLive,
         QuarantineEarned, registry
  <1> QED
    BY <1>1, AddKeeps, RemoveKeeps, ClockResetKeeps, SyncKeeps, MlatKeeps, SweepKeeps
    DEF Next

\* The inductive invariant holds in every reachable state of the shard.
LEMMA Invariance == Spec => []IInv
  BY InitKeeps, Inductive, PTL DEF Spec

\* The state of a shard keeps its shape.
THEOREM TypeCorrect == Spec => []TypeOK
  <1>1. IInv => TypeOK
    BY DEF IInv
  <1> QED
    BY <1>1, Invariance, PTL

\* No slot is leaked or handed out twice (add_receiver / remove_receiver).
THEOREM FreeListTheorem == Spec => []FreeListExact
  <1>1. IInv => FreeListExact
    BY DEF IInv
  <1> QED
    BY <1>1, Invariance, PTL

\* A user holds at most one slot of a shard (the dedupe of add_receiver).
THEOREM UserIndexTheorem == Spec => []UserIndexExact
  <1>1. IInv => UserIndexExact
    BY DEF IInv
  <1> QED
    BY <1>1, Invariance, PTL

\* Pair models join live receivers only, in both directions (on_sync against
\* remove_receiver and clock_reset).
THEOREM PairsTheorem == Spec => []PairsOfLive
  <1>1. IInv => PairsOfLive
    BY DEF IInv
  <1> QED
    BY <1>1, Invariance, PTL

\* The peers sync.json exports for a live receiver are as many as the peer
\* count pushed to it: no leftover model, and no two peers of one name
\* (receiver_stats against sync_json).
THEOREM ReportsTheorem == Spec => []ReportsAgree
  <1>1. IInv => ReportsAgree
    <2> SUFFICES ASSUME IInv, NEW s \in Slots, alive[s]
                 PROVE  Cardinality(ExportedPeers(s)) = PeerCount(s)
      BY DEF ReportsAgree
    <2> DEFINE P == {p \in DOMAIN pairs : p[1] = s /\ alive[p[2]]}
               f == [p \in P |-> user[p[2]]]
    <2>1. \A p \in DOMAIN pairs : /\ p[1] \in Slots /\ p[2] \in Slots /\ alive[p[2]]
                                   /\ p = <<p[1], p[2]>>
      <3>1. \A p \in DOMAIN pairs : p \in Slots \X Slots
        BY DEF IInv, TypeOK
      <3>2. \A p \in DOMAIN pairs : alive[p[2]]
        BY DEF IInv, PairsOfLive
      <3>3. \A p \in Slots \X Slots : p[1] \in Slots /\ p[2] \in Slots /\ p = <<p[1], p[2]>>
        OBVIOUS
      <3> QED
        BY <3>1, <3>2, <3>3
    <2>2. ExportedPeers(s) = {user[p[2]] : p \in P}
      BY <2>1 DEF ExportedPeers
    <2>3. \A p, q \in P : user[p[2]] = user[q[2]] => p = q
      <3>1. \A i, j \in Slots : alive[i] /\ alive[j] /\ user[i] = user[j] => i = j
        BY DEF IInv, UserIndexExact
      <3> QED
        BY <2>1, <3>1
    <2>4. f \in Bijection(P, ExportedPeers(s))
      BY <2>2, <2>3 DEF Bijection, Injection, Surjection, IsInjective
    <2>5. IsFiniteSet(P)
      <3>1. IsFiniteSet(Slots)
        BY FS_Interval DEF Slots, IInv, TypeOK
      <3>2. IsFiniteSet(Slots \X Slots)
        BY <3>1, FS_Product
      <3>3. P \subseteq Slots \X Slots
        BY DEF IInv, TypeOK
      <3> QED
        BY <3>2, <3>3, FS_Subset
    <2>6. ExistsBijection(P, ExportedPeers(s))
      BY <2>4 DEF ExistsBijection
    <2> HIDE DEF P
    <2>7. Cardinality(ExportedPeers(s)) = Cardinality(P)
      BY <2>5, <2>6, FS_Bijection
    <2> QED
      BY <2>7 DEF PeerCount, P
  <1> QED
    BY <1>1, Invariance, PTL

\* Stamp offsets belong to live receivers only (solve_cluster against
\* remove_receiver).
THEOREM OffsetsTheorem == Spec => []OffsetsOfLive
  <1>1. IInv => OffsetsOfLive
    BY DEF IInv
  <1> QED
    BY <1>1, Invariance, PTL

\* A quarantine verdict belongs to the present occupant of its slot.
THEOREM QuarantineTheorem == Spec => []QuarantineEarned
  <1>1. IInv => QuarantineEarned
    BY DEF IInv
  <1> QED
    BY <1>1, Invariance, PTL

\* An honoured handle speaks for its own user and is that user's only one.
THEOREM HandlesTheorem == Spec => []LiveHandlesOwn
  <1>1. IInv => LiveHandlesOwn
    <2> SUFFICES ASSUME IInv, NEW h \in issued, Live(h)
                 PROVE  /\ user[h.idx] = h.user
                        /\ \A g \in issued : Live(g) /\ g.user = h.user => g = h
      BY DEF LiveHandlesOwn
    <2>1. \A g \in issued : Live(g) => /\ g \in [idx: Slots, gen: Nat, user: Users]
                                       /\ user[g.idx] = g.user /\ by_user[g.user] = g.idx
                                       /\ gens[g.idx] = g.gen
      BY DEF IInv, TypeOK, HandlesBehind, UserIndexExact, Live
    <2> QED
      BY <2>1
  <1> QED
    BY <1>1, Invariance, PTL

\* A stale handle is never honoured again: the generation check survives any
\* reuse of the slot.
THEOREM StaleTheorem == Spec => StaleStaysStale
  <1>1. IInv /\ [Next]_vars => [\A h \in issued : ~Live(h) => ~Live(h)']_vars
    <2> SUFFICES ASSUME IInv, Next, NEW h \in issued, ~Live(h)
                 PROVE  ~Live(h)'
      OBVIOUS
    <2>1. /\ h.idx \in Slots /\ h.gen \in Nat /\ h.gen <= gens[h.idx]
          /\ gens \in [Slots -> 0..(GenMod - 1)]
      BY DEF IInv, TypeOK, HandlesBehind
    <2>2. CASE UNCHANGED registry
      BY <2>2, RegistryKept DEF registry, Live
    <2>3. ASSUME NEW g \in issued, RemoveReceiver(g)
          PROVE  ~Live(h)'
      BY <2>3 DEF RemoveReceiver, Live, IInv, TypeOK, Slots
    <2>4. ASSUME NEW u \in Users, AddReceiver(u)
          PROVE  ~Live(h)'
      <3> DEFINE old  == Evicted(u)
                 free == Freed(old)
                 idx  == PickSlot(free)
      <3>1. /\ gens' = Put(gens, idx, NextGen(idx))
            /\ alive' = Put([s \in Slots |-> alive[s] /\ s \notin old], idx, TRUE)
            /\ adds < MaxAdds
        BY <2>4 DEF AddReceiver
      <3> HIDE DEF old, free, idx
      <3>2. CASE h.idx = idx
        <4>1. gens[idx] + 1 \in 0..(GenMod - 1)
          BY <3>1, <3>2, <2>1, ShardAssumption DEF IInv, TypeOK, GensBounded
        <4>2. NextGen(idx) = gens[idx] + 1
          BY <4>1, <3>2, <2>1, ShardAssumption DEF NextGen
        <4>3. gens'[h.idx] = gens[idx] + 1
          BY <3>1, <3>2, <4>2 DEF Put
        <4> QED
          BY <4>1, <4>3, <3>2, <2>1 DEF Live
      <3>3. CASE h.idx # idx
        BY <3>1, <3>3, <2>1 DEF Live, Put, IInv, TypeOK
      <3> QED
        BY <3>2, <3>3
    <2> QED
      BY <2>2, <2>3, <2>4 DEF Next, ClockReset, OnSync, OnMlat, Sweep
  <1> QED
    BY <1>1, Invariance, PTL DEF Spec, StaleStaysStale

\* Every slot is filed under a user that connected.
OccupantsSeen == \A s \in Slots : user[s] \in UsersSeen

\* add_receiver sees its user.
LEMMA AddedSeen ==
  ASSUME NEW u \in Users, AddReceiver(u)
  PROVE  UsersSeen' = UsersSeen \cup {u}
  <1> DEFINE idx == PickSlot(Freed(Evicted(u)))
             h   == [idx |-> idx, gen |-> NextGen(idx), user |-> u]
  <1>1. issued' = issued \cup {h}
    BY DEF AddReceiver
  <1>2. h.user = u
    OBVIOUS
  <1> HIDE DEF h
  <1> QED
    BY <1>1, <1>2 DEF UsersSeen

\* A user that was seen stays seen, and only add_receiver sees a new one.
LEMMA SeenGrows ==
  ASSUME IInv, OccupantsSeen, [Next]_vars
  PROVE  /\ OccupantsSeen'
         /\ UsersSeen \subseteq UsersSeen'
         /\ IsFiniteSet(UsersSeen')
  <1>1. CASE UNCHANGED <<issued, user, nslots>>
    <2>1. UsersSeen \subseteq Users
      BY DEF IInv, TypeOK, UsersSeen
    <2> QED
      BY <1>1, <2>1, ShardAssumption, FS_Subset DEF OccupantsSeen, UsersSeen, Slots
  <1>2. ASSUME NEW u \in Users, AddReceiver(u)
        PROVE  /\ OccupantsSeen'
               /\ UsersSeen \subseteq UsersSeen'
               /\ IsFiniteSet(UsersSeen')
    <2> DEFINE idx == PickSlot(Freed(Evicted(u)))
    <2>1. /\ user' = Put(user, idx, u)
          /\ nslots' = IF Freed(Evicted(u)) = <<>> THEN nslots + 1 ELSE nslots
      BY <1>2 DEF AddReceiver
    <2>2. Freed(Evicted(u)) = <<>> => idx = nslots + 1
      BY DEF PickSlot
    <2> HIDE DEF idx
    <2>3. UsersSeen' = UsersSeen \cup {u}
      BY <1>2, AddedSeen
    <2>4. UsersSeen' \subseteq Users
      BY <2>3 DEF IInv, TypeOK, UsersSeen
    <2>5. \A s \in Slots' : s = idx \/ s \in Slots
      BY <2>1, <2>2 DEF Slots, IInv, TypeOK
    <2>6. \A s \in Slots' : user'[s] \in UsersSeen'
      BY <2>1, <2>3, <2>5 DEF Put, OccupantsSeen, IInv, TypeOK
    <2> QED
      BY <2>3, <2>4, <2>6, ShardAssumption, FS_Subset DEF OccupantsSeen
  <1> QED
    BY <1>1, <1>2
    DEF Next, RemoveReceiver, ClockReset, OnSync, OnMlat, Sweep, vars, registry

\* The slot table never outgrows the number of distinct users that connected:
\* a slot is pushed only when every slot is held by some other user.
THEOREM SlotsTheorem == Spec => []SlotsBounded
  <1>1. Init => OccupantsSeen /\ SlotsBounded
    <2> SUFFICES ASSUME Init PROVE OccupantsSeen /\ SlotsBounded
      OBVIOUS
    <2>1. UsersSeen = {} /\ Slots = {} /\ nslots = 0
      BY DEF Init, UsersSeen, Slots
    <2> QED
      BY <2>1, FS_EmptySet DEF OccupantsSeen, SlotsBounded
  <1>2. IInv /\ OccupantsSeen /\ SlotsBounded /\ [Next]_vars => (OccupantsSeen /\ SlotsBounded)'
    <2> SUFFICES ASSUME IInv, OccupantsSeen, SlotsBounded, [Next]_vars
                 PROVE  SlotsBounded'
      BY SeenGrows
    <2>1. /\ IsFiniteSet(UsersSeen') /\ UsersSeen \subseteq UsersSeen'
          /\ IsFiniteSet(UsersSeen)
          /\ Cardinality(UsersSeen) <= Cardinality(UsersSeen')
          /\ Cardinality(UsersSeen) \in Nat /\ Cardinality(UsersSeen') \in Nat
      BY SeenGrows, FS_Subset, FS_CardinalityType
    <2>2. CASE nslots' = nslots
      BY <2>1, <2>2 DEF SlotsBounded, IInv, TypeOK
    <2>3. CASE nslots' # nslots
      <3>1. PICK u \in Users : AddReceiver(u)
        BY <2>3 DEF Next, RemoveReceiver, ClockReset, OnSync, OnMlat, Sweep, vars, registry
      <3>2. Freed(Evicted(u)) = <<>> /\ nslots' = nslots + 1
        BY <3>1, <2>3 DEF AddReceiver
      <3>3. \A s \in Slots : alive[s] /\ s \notin Evicted(u)
        BY <3>2, PickedSlot DEF IInv
      <3>4. u \notin DOMAIN by_user
        BY <3>3, EvictedSlot DEF IInv
      <3>5. \A s \in Slots : user[s] \in UsersSeen' \ {u}
        BY <3>3, <3>4, <2>1 DEF IInv, UserIndexExact, OccupantsSeen
      <3>6. \A s, t \in Slots : user[s] = user[t] => s = t
        BY <3>3 DEF IInv, UserIndexExact
      <3>7. user \in Injection(Slots, UsersSeen' \ {u})
        BY <3>5, <3>6 DEF Injection, IsInjective, IInv, TypeOK
      <3>8. u \in UsersSeen'
        BY <3>1, AddedSeen
      <3>9. /\ IsFiniteSet(UsersSeen' \ {u})
            /\ Cardinality(UsersSeen' \ {u}) = Cardinality(UsersSeen') - 1
        BY <2>1, <3>8, FS_RemoveElement
      <3>10. nslots \in Nat /\ Cardinality(Slots) = nslots
        BY FS_Interval DEF IInv, TypeOK, Slots
      <3>11. Cardinality(Slots) <= Cardinality(UsersSeen' \ {u})
        BY <3>7, <3>9, FS_Injection
      <3> QED
        BY <2>1, <3>2, <3>9, <3>10, <3>11 DEF SlotsBounded
    <2> QED
      BY <2>2, <2>3
  <1> QED
    BY <1>1, <1>2, Invariance, PTL DEF Spec

-----------------------------------------------------------------------------
\* The registry a shard's state stands for: live handles and used handles.
liveMap == [u \in DOMAIN by_user |-> Handle(by_user[u])]
usedSet == {[idx |-> h.idx, gen |-> h.gen] : h \in issued}

\* A handle in use never names a generation its slot has not reached yet.
LEMMA UsedBehind ==
  ASSUME IInv, NEW i, NEW n \in Nat, i \in Slots => n > gens[i]
  PROVE  [idx |-> i, gen |-> n] \notin usedSet
  <1> SUFFICES ASSUME NEW h \in issued, [idx |-> i, gen |-> n] = [idx |-> h.idx, gen |-> h.gen]
               PROVE  FALSE
    BY DEF usedSet
  <1>1. h.idx = i /\ h.gen = n
    OBVIOUS
  <1>2. h.idx \in Slots /\ h.gen <= gens[h.idx] /\ gens[h.idx] \in Nat
    BY ShardAssumption DEF IInv, TypeOK, HandlesBehind
  <1> QED
    BY <1>1, <1>2

\* Adding a receiver issues a handle that was never used before.
LEMMA AddIssues ==
  ASSUME IInv, IInv', NEW u \in Users, AddReceiver(u)
  PROVE  \E h \in [idx: 1..MaxAdds, gen: 0..(GenMod - 1)] : Reg!Issue(u, h)
  <1> DEFINE old  == Evicted(u)
             free == Freed(old)
             idx  == PickSlot(free)
             gen  == NextGen(idx)
             h    == [idx |-> idx, gen |-> gen]
  <1>1. /\ nslots' = IF free = <<>> THEN nslots + 1 ELSE nslots
        /\ adds < MaxAdds /\ adds' = adds + 1
        /\ gens' = Put(gens, idx, gen)
        /\ by_user' = Put(by_user, u, idx)
        /\ issued' = issued \cup {[idx |-> idx, gen |-> gen, user |-> u]}
    BY DEF AddReceiver
  <1>2. /\ free = <<>> => idx = nslots + 1 /\ \A s \in Slots : alive[s] /\ s \notin old
        /\ free # <<>> => idx \in Slots /\ (~alive[idx] \/ idx \in old)
    BY PickedSlot DEF IInv
  <1>3. /\ u \in DOMAIN by_user => old = {by_user[u]} /\ by_user[u] \in Slots
        /\ u \notin DOMAIN by_user => old = {}
    BY EvictedSlot DEF IInv
  <1> HIDE DEF old, free, idx
  <1>4. /\ nslots \in Nat /\ nslots <= adds /\ adds \in Nat /\ idx \in 1..MaxAdds
        /\ idx \notin Slots => idx = nslots + 1
    BY <1>1, <1>2, ShardAssumption DEF IInv, TypeOK, GensBounded, Slots
  <1>5. /\ gen \in 0..(GenMod - 1)
        /\ idx \in Slots => gen > gens[idx]
    <2>1. CASE idx \in Slots
      <3>1. gens[idx] \in Nat /\ gens[idx] + 1 \in 0..(GenMod - 1)
        BY <2>1, <1>1, ShardAssumption DEF IInv, TypeOK, GensBounded
      <3>2. (gens[idx] + 1) % GenMod = gens[idx] + 1
        BY <3>1, ShardAssumption
      <3> QED
        BY <2>1, <3>1, <3>2 DEF NextGen
    <2>2. CASE idx \notin Slots
      BY <2>2, ShardAssumption DEF NextGen
    <2> QED
      BY <2>1, <2>2
  <1> HIDE DEF gen
  <1>6. h \in [idx: 1..MaxAdds, gen: 0..(GenMod - 1)]
    BY <1>4, <1>5
  <1>7. h \notin usedSet
    BY <1>5, UsedBehind
  <1>8. usedSet' = usedSet \cup {h}
    <2> DEFINE r == [idx |-> idx, gen |-> gen, user |-> u]
    <2>1. h = [idx |-> r.idx, gen |-> r.gen] /\ issued' = issued \cup {r}
      BY <1>1
    <2> HIDE DEF r, h
    <2> QED
      BY <2>1 DEF usedSet
  <1>9. /\ DOMAIN by_user' = DOMAIN by_user \cup {u} /\ by_user'[u] = idx
        /\ gens'[idx] = gen
        /\ \A v \in DOMAIN by_user : v # u => by_user'[v] = by_user[v]
        /\ \A s \in DOMAIN gens : s # idx => gens'[s] = gens[s]
    BY <1>1 DEF Put
  <1>10. ASSUME NEW v \in DOMAIN by_user, v # u
         PROVE  by_user[v] # idx /\ by_user[v] \in DOMAIN gens
    <2>1. by_user[v] \in Slots /\ alive[by_user[v]] /\ user[by_user[v]] = v /\ DOMAIN gens = Slots
      BY <1>10 DEF IInv, TypeOK, UserIndexExact
    <2>2. by_user[v] \notin old
      BY <1>3, <1>10, <2>1 DEF IInv, UserIndexExact
    <2>3. by_user[v] # nslots + 1
      BY <2>1, <1>4 DEF Slots
    <2> QED
      BY <1>2, <2>1, <2>2, <2>3
  <1>11. liveMap' = [v \in DOMAIN liveMap \cup {u} |-> IF v = u THEN h ELSE liveMap[v]]
    BY <1>9, <1>10 DEF liveMap, Handle
  <1> QED
    BY <1>6, <1>7, <1>8, <1>11 DEF Reg!Issue, liveMap, usedSet

\* Removing a receiver drops the live handle of its user.
LEMMA RemoveDrops ==
  ASSUME IInv, NEW h \in issued, RemoveReceiver(h)
  PROVE  \E u \in Users : Reg!Drop(u)
  <1> DEFINE u == user[h.idx]
  <1>1. /\ h.idx \in Slots /\ alive[h.idx]
        /\ UNCHANGED <<gens, issued>>
    BY DEF RemoveReceiver, Live
  <1>2. u \in Users /\ u \in DOMAIN by_user /\ by_user[u] = h.idx
    BY <1>1 DEF IInv, TypeOK, UserIndexExact
  <1>3. by_user' = [v \in DOMAIN by_user \ {u} |-> by_user[v]]
    BY <1>2 DEF RemoveReceiver, GetOr, Without
  <1>4. liveMap' = [v \in DOMAIN liveMap \ {u} |-> liveMap[v]]
    BY <1>1, <1>3 DEF liveMap, Handle
  <1>5. usedSet' = usedSet
    BY <1>1 DEF usedSet
  <1> QED
    BY <1>2, <1>4, <1>5 DEF Reg!Drop, liveMap, usedSet

\* A shard implements the abstract registry: handles are issued once and
\* dropped once, whatever stale messages arrive and however slots are reused.
THEOREM RegistryRefinement == Spec => ImplementsRegistry
  <1>1. Init => Reg!RegInit
    BY DEF Init, Reg!RegInit
  <1>2. IInv /\ IInv' /\ [Next]_vars => [Reg!RegNext]_(Reg!regVars)
    <2> SUFFICES ASSUME IInv, IInv', [Next]_vars
                 PROVE  [Reg!RegNext]_(Reg!regVars)
      OBVIOUS
    <2>1. CASE UNCHANGED registry
      BY <2>1 DEF registry, Reg!regVars, Handle
    <2>2. ASSUME NEW u \in Users, AddReceiver(u)
          PROVE  Reg!RegNext
      BY <2>2, AddIssues DEF Reg!RegNext
    <2>3. ASSUME NEW h \in issued, RemoveReceiver(h)
          PROVE  Reg!RegNext
      BY <2>3, RemoveDrops DEF Reg!RegNext
    <2> QED
      BY <2>1, <2>2, <2>3 DEF Next, ClockReset, OnSync, OnMlat, Sweep, vars
  <1> QED
    BY <1>1, <1>2, Invariance, PTL DEF Spec, ImplementsRegistry, Reg!RegSpec
=============================================================================

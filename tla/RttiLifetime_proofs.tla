------------------------ MODULE RttiLifetime_proofs ------------------------
(***************************************************************************)
(* The handles of RttiPointers implement ObjectLifetime: an owner of an    *)
(* object is a slot that points to its block, the fate of the object is    *)
(* read off the block, and what operator= overwrote is what pins it.       *)
(*                                                                         *)
(* Each operation is matched with a step of the specification or with      *)
(* nothing, in the forms the operations share: an owner gains, hands on,   *)
(* overwrites or releases a reference, a watcher gains, hands on or drops  *)
(* one. The fate of an object is known from its strong counter (FateKept,  *)
(* FateEnds), so the conservation laws of RttiPointers_proofs are what     *)
(* makes the counters agree with who owns what.                            *)
(***************************************************************************)
EXTENDS RttiPointers_proofs

\* The variables of the specification.
Own     == [s \in Owners |-> ptr[s]]
Watched == [w \in WeakSlots |-> ptr[w]]
Fates   == [b \in Blocks |-> Fate(b)]
Pinned  == {b \in Blocks : lostRiffs[b] > 0}

Born(b) == heap[b].object # "none"

----------------------------------------------------------------------------
(* The fate of an object, by its strong counter.                           *)

\* What the object of a block has become follows from its counter and history.
LEMMA FateByCounts ==
  ASSUME IInv, NEW b \in Blocks
  PROVE  Fate(b) = IF ~Born(b) THEN "unborn"
                   ELSE IF heap[b].riffs > 0 THEN "alive"
                   ELSE IF b \in undestroyed THEN "abandoned" ELSE "destroyed"
<1>1. /\ LifecycleOf(b) /\ heap[b].riffs \in Nat
      /\ heap[b].object \in {"none", "alive", "destroyed"}
  BY TypesOfBlock DEF IInv
<1>2. CASE ~Born(b)
  <2>1. heap[b].object = "none" /\ b \notin undestroyed
    BY <1>1, <1>2 DEF LifecycleOf, Born
  <2>. QED  BY <1>2, <2>1 DEF Fate
<1>3. CASE Born(b) /\ heap[b].riffs > 0
  <2>1. heap[b].object = "alive" /\ b \notin undestroyed
    BY <1>1, <1>3 DEF LifecycleOf
  <2>. QED  BY <1>3, <2>1 DEF Fate, Born
<1>4. CASE Born(b) /\ ~(heap[b].riffs > 0)
  <2>1. heap[b].object = "destroyed" <=> b \notin undestroyed
    BY <1>1, <1>4 DEF LifecycleOf, Born
  <2>. QED  BY <1>4, <2>1 DEF Fate, Born
<1>. QED  BY <1>2, <1>3, <1>4

\* A step that neither makes an object nor takes its last strong reference
\* leaves its fate as it is.
LEMMA FateKept ==
  ASSUME IInv, IInv', NEW b \in Blocks, Born(b)' <=> Born(b),
         heap[b].riffs > 0 <=> heap'[b].riffs > 0,
         ~(heap[b].riffs > 0) => (b \in undestroyed' <=> b \in undestroyed)
  PROVE  Fate(b)' = Fate(b)
<1>1. /\ LifecycleOf(b)' /\ heap'[b].riffs \in Nat
      /\ heap'[b].object \in {"none", "alive", "destroyed"}
  BY BlocksAssumption DEF IInv, TypeOK, Block
<1>2. CASE ~Born(b)
  <2>1. heap'[b].object = "none" /\ b \notin undestroyed'
    BY <1>1, <1>2 DEF LifecycleOf, Born
  <2>2. Fate(b) = "unborn"
    BY <1>2, FateByCounts
  <2>. QED  BY <2>1, <2>2 DEF Fate
<1>3. CASE Born(b) /\ heap[b].riffs > 0
  <2>1. heap'[b].object = "alive" /\ b \notin undestroyed'
    BY <1>1, <1>3 DEF LifecycleOf
  <2>2. Fate(b) = "alive"
    BY <1>3, FateByCounts
  <2>. QED  BY <2>1, <2>2 DEF Fate
<1>4. CASE Born(b) /\ ~(heap[b].riffs > 0)
  <2>1. heap'[b].object # "none"
    BY <1>4 DEF Born
  <2>2. heap'[b].object = "destroyed" <=> b \notin undestroyed'
    BY <1>1, <1>4, <2>1 DEF LifecycleOf
  <2>3. Fate(b) = IF b \in undestroyed THEN "abandoned" ELSE "destroyed"
    BY <1>4, FateByCounts
  <2>. QED  BY <1>4, <2>1, <2>2, <2>3 DEF Fate
<1>. QED  BY <1>2, <1>3, <1>4

\* The last strong reference takes the object with it, or abandons it.
LEMMA FateEnds ==
  ASSUME IInv, IInv', NEW b \in Blocks, heap[b].riffs > 0, ~(heap'[b].riffs > 0), Born(b)'
  PROVE  /\ Fate(b) = "alive"
         /\ Fate(b)' = IF b \in undestroyed' THEN "abandoned" ELSE "destroyed"
<1>1. Born(b) /\ Fate(b) = "alive"
  <2>1. Born(b)
    BY DEF IInv, LifecycleOf, Born
  <2>. QED  BY <2>1, FateByCounts
<1>2. /\ LifecycleOf(b)' /\ heap'[b].riffs \in Nat
      /\ heap'[b].object \in {"none", "alive", "destroyed"}
  BY BlocksAssumption DEF IInv, TypeOK, Block
<1>3. heap'[b].object # "none"
  BY DEF Born
<1>4. heap'[b].object = "destroyed" <=> b \notin undestroyed'
  BY <1>2, <1>3 DEF LifecycleOf
<1>. QED  BY <1>1, <1>3, <1>4 DEF Fate

\* A block is owned in f if the set of its owners in f is not empty.
LEMMA OwnedIsCounted ==
  ASSUME NEW f, NEW b
  PROVE  /\ Cardinality(At(Owners, f, b)) \in Nat
         /\ (\E s \in Owners : f[s] = b) <=> Cardinality(At(Owners, f, b)) > 0
<1>1. At(Owners, f, b) \subseteq Owners
  BY DEF At
<1>2. IsFiniteSet(At(Owners, f, b))
  BY <1>1, SlotSets, FS_Subset
<1>3. Cardinality(At(Owners, f, b)) \in Nat /\ (Cardinality(At(Owners, f, b)) = 0 <=> At(Owners, f, b) = {})
  BY <1>2, FS_CardinalityType, FS_EmptySet
<1>4. At(Owners, f, b) = {} <=> ~(\E s \in Owners : f[s] = b)
  BY DEF At
<1>. QED  BY <1>3, <1>4

----------------------------------------------------------------------------
(* Steps that leave the objects alone.                                     *)

\* The variables the specification has for owners are untouched when nothing
\* points an owner elsewhere, and likewise for watchers.
LEMMA OwnersMoved ==
  ASSUME TypeOK, NEW s \in Owners, NEW c, Point(s, c)
  PROVE  Own' = [Own EXCEPT ![s] = c] /\ Watched' = Watched
BY SlotSets, SlotsAssumption DEF TypeOK, Point, Own, Watched

LEMMA WatchersMoved ==
  ASSUME TypeOK, NEW w \in WeakSlots, NEW c, Point(w, c)
  PROVE  Watched' = [Watched EXCEPT ![w] = c] /\ Own' = Own
BY SlotSets, SlotsAssumption DEF TypeOK, Point, Own, Watched

\* The history of overwritten references is what pins objects.
LEMMA PinnedByLosing ==
  ASSUME TypeOK, NEW t \in Slots, lostRiffs' = Lose(lostRiffs, t)
  PROVE  Pinned' = Pinned \cup ({ptr[t]} \ {NoBlock})
<1>1. lostRiffs \in [Blocks -> Nat] /\ ptr[t] \in Target
  BY DEF TypeOK, Target
<1>2. \A b \in Blocks : lostRiffs'[b] = lostRiffs[b] + Bit(ptr[t], b) /\ lostRiffs[b] \in Nat
  BY <1>1, LoseField
<1>3. \A b \in Blocks : lostRiffs'[b] > 0 <=> lostRiffs[b] > 0 \/ ptr[t] = b
  BY <1>2 DEF Bit
<1>. QED  BY <1>1, <1>3, BlocksAssumption DEF Pinned, Target

\* Steps that keep the heap, or count weak references or more strong ones.
LEMMA FatesKept ==
  ASSUME IInv, IInv', undestroyed' = undestroyed,
         \A b \in Blocks : /\ heap'[b].object = heap[b].object
                           /\ heap[b].riffs > 0 <=> heap'[b].riffs > 0
  PROVE  Fates' = Fates
<1>1. \A b \in Blocks : Fate(b)' = Fate(b)
  BY FateKept DEF Born
<1>. QED  BY <1>1 DEF Fates

----------------------------------------------------------------------------
(* The operations, as steps of the specification.                          *)

LifetimeStep == [Lifetime!Next]_(Lifetime!vars)

\* A new owner of an object that a handle reaches.
LEMMA GainIsShare ==
  ASSUME IInv, IInv', NEW t \in Owners, Empty(t), NEW b \in Target,
         b # NoBlock => heap[b].riffs > 0 /\ \E x \in Slots : ptr[x] = b,
         Room(b), Point(t, b), heap' = Retain(heap, b),
         UNCHANGED <<lostRiffs, undestroyed>>
  PROVE  LifetimeStep
<1>1. TypeOK /\ heap \in [Blocks -> Block]
  BY DEF IInv, TypeOK
<1>2. /\ Own' = [Own EXCEPT ![t] = b] /\ Watched' = Watched
      /\ Pinned' = Pinned
  BY <1>1, OwnersMoved DEF Pinned
<1>3. Fates' = Fates
  <2>1. ASSUME NEW c \in Blocks
        PROVE  /\ heap'[c].object = heap[c].object
               /\ heap[c].riffs > 0 <=> heap'[c].riffs > 0
    <3>1. heap'[c].object = heap[c].object /\ heap'[c].riffs = heap[c].riffs + Bit(c, b)
      BY <1>1, RetainFields DEF Room
    <3>2. heap[c].riffs \in Nat
      BY <1>1, TypesOfBlock
    <3>3. c = b => heap[c].riffs > 0
      BY BlocksAssumption
    <3>. QED  BY <3>1, <3>2, <3>3 DEF Bit
  <2>. QED  BY <2>1, FatesKept
<1>4. CASE b = NoBlock
  <2>1. Own' = Own
    BY <1>2, <1>4, SlotSets DEF Empty, Own
  <2>. QED  BY <1>2, <1>3, <2>1 DEF LifetimeStep, Lifetime!vars, Own, Watched, Fates, Pinned
<1>5. CASE b # NoBlock
  <2>1. b \in Blocks /\ Own[t] = NoBlock
    BY <1>5 DEF Target, Empty, Own
  <2>2. Fates[b] = "alive"
    <3>1. heap[b].riffs > 0 /\ Born(b)
      BY <1>5, <2>1 DEF IInv, LifecycleOf, Born
    <3>. QED  BY <3>1, <2>1, FateByCounts DEF Fates
  <2>3. (\E s \in Owners : Own[s] = b) \/ (\E w \in WeakSlots : Watched[w] = b)
    BY <1>5 DEF Own, Watched, Slots
  <2>4. Lifetime!Share(t, b)
    BY <1>2, <1>3, <2>1, <2>2, <2>3
       DEF Lifetime!Share, Lifetime!Reached, Lifetime!OwnedBy, Own, Watched, Fates, Pinned
  <2>. QED  BY <2>1, <2>4 DEF LifetimeStep, Lifetime!Next
<1>. QED  BY <1>4, <1>5

\* Copy assignment of an owner.
LEMMA CopyIsAssign ==
  ASSUME IInv, IInv', NEW s \in Owners, NEW t \in Owners, s # t, ptr[s] # ptr[t],
         Room(ptr[s]), Point(t, ptr[s]), heap' = Retain(heap, ptr[s]),
         lostRiffs' = Lose(lostRiffs, t), UNCHANGED undestroyed
  PROVE  LifetimeStep
<1>1. TypeOK /\ heap \in [Blocks -> Block] /\ s \in Slots /\ t \in Slots /\ ptr[s] \in Target
  BY SlotSets DEF IInv, TypeOK, Target
<1>2. Own' = [Own EXCEPT ![t] = ptr[s]] /\ Watched' = Watched
  BY <1>1, OwnersMoved
<1>3. Pinned' = Pinned \cup ({ptr[t]} \ {NoBlock})
  BY <1>1, PinnedByLosing
<1>4. Fates' = Fates
  <2>1. ASSUME NEW c \in Blocks
        PROVE  /\ heap'[c].object = heap[c].object
               /\ heap[c].riffs > 0 <=> heap'[c].riffs > 0
    <3>1. heap'[c].object = heap[c].object /\ heap'[c].riffs = heap[c].riffs + Bit(c, ptr[s])
      BY <1>1, RetainFields DEF Room
    <3>2. heap[c].riffs \in Nat
      BY <1>1, TypesOfBlock
    <3>3. c = ptr[s] => heap[c].riffs > 0
      BY <1>1, HeldBlock, BlocksAssumption DEF Empty
    <3>. QED  BY <3>1, <3>2, <3>3 DEF Bit
  <2>. QED  BY <2>1, FatesKept
<1>5. Own[s] = ptr[s] /\ Own[t] = ptr[t]
  BY DEF Own
<1>6. Lifetime!Assign(s, t)
  BY <1>2, <1>3, <1>4, <1>5 DEF Lifetime!Assign, Lifetime!Pin, Own, Watched, Fates, Pinned
<1>. QED  BY <1>6 DEF LifetimeStep, Lifetime!Next

\* Moving from one owner to another.
LEMMA MoveIsTransfer ==
  ASSUME IInv, IInv', NEW s \in Owners, NEW t \in Owners, s # t, Move(s, t),
         lostRiffs' = Lose(lostRiffs, t), UNCHANGED <<heap, undestroyed>>
  PROVE  LifetimeStep
<1>1. TypeOK /\ s \in Slots /\ t \in Slots /\ ptr \in [Slots -> Target]
  BY SlotSets DEF IInv, TypeOK, Target
<1>2. Own' = [Own EXCEPT ![t] = Own[s], ![s] = NoBlock] /\ Watched' = Watched
  <2>1. ptr' = [ptr EXCEPT ![t] = ptr[s], ![s] = NoBlock] /\ s \notin WeakSlots /\ t \notin WeakSlots
    BY SlotsAssumption DEF Move
  <2>2. \A w \in WeakSlots : ptr'[w] = ptr[w]
    BY <1>1, <2>1, SlotSets
  <2>3. \A x \in Owners : ptr'[x] = IF x = s THEN NoBlock ELSE IF x = t THEN ptr[s] ELSE ptr[x]
    BY <1>1, <2>1, SlotSets
  <2>. QED  BY <2>2, <2>3 DEF Own, Watched
<1>3. Pinned' = Pinned \cup ({Own[t]} \ {NoBlock})
  BY <1>1, PinnedByLosing DEF Own
<1>4. Fates' = Fates
  BY FatesKept
<1>5. Lifetime!Transfer(s, t)
  BY <1>2, <1>3, <1>4 DEF Lifetime!Transfer, Lifetime!Pin, Own, Watched, Fates, Pinned
<1>. QED  BY <1>5 DEF LifetimeStep, Lifetime!Next

\* When an owner slot is pointed elsewhere, the objects that end are those it was
\* the last to own and that no overwritten reference pins.
LEMMA Settles ==
  ASSUME IInv, IInv', NEW s \in Owners, NEW c, Point(s, c), UNCHANGED lostRiffs,
         \A b \in Blocks : Born(b)' <=> Born(b),
         \A b \in Blocks : heap'[b].riffs > 0 => heap[b].riffs > 0,
         \A b \in Blocks : ~(heap[b].riffs > 0) => (b \in undestroyed' <=> b \in undestroyed),
         NEW ending \in {"destroyed", "abandoned"},
         \A b \in Blocks : heap[b].riffs > 0 /\ ~(heap'[b].riffs > 0) =>
           (b \in undestroyed' <=> ending = "abandoned")
  PROVE  Lifetime!Settle([Own EXCEPT ![s] = c], ending)
<1>. DEFINE Owned(b) == \E x \in Owners : Own[x] = b
            Still(b) == \E x \in Owners : [Own EXCEPT ![s] = c][x] = b
<1>1. Own' = [Own EXCEPT ![s] = c]
  BY OwnersMoved DEF IInv
<1>2. ASSUME NEW b \in Blocks
      PROVE  Fate(b)' = IF Fate(b) = "alive" /\ Owned(b) /\ ~Still(b) /\ b \notin Pinned
                        THEN ending ELSE Fate(b)
  <2>. DEFINE n == Cardinality(At(Owners, ptr, b))
              m == Cardinality(At(Owners, ptr', b))
              l == lostRiffs[b]
  <2>1. n \in Nat /\ (Owned(b) <=> n > 0)
    <3>1. Owned(b) <=> \E x \in Owners : ptr[x] = b
      BY DEF Own
    <3>. QED  BY <3>1, OwnedIsCounted
  <2>2. m \in Nat /\ (Still(b) <=> m > 0)
    <3>1. Still(b) <=> \E x \in Owners : ptr'[x] = b
      BY <1>1 DEF Own
    <3>. QED  BY <3>1, OwnedIsCounted
  <2>3. l \in Nat /\ (b \in Pinned <=> l > 0)
    BY TypesOfBlock DEF IInv, Pinned
  <2>4. heap[b].riffs = n + l /\ heap'[b].riffs = m + l
    BY DEF IInv, CountsOf, Owning, RiffHolders, At
  <2>. HIDE DEF n, m, l, Owned, Still
  <2>5. CASE heap[b].riffs > 0 /\ ~(heap'[b].riffs > 0)
    <3>1. Owned(b) /\ ~Still(b) /\ b \notin Pinned
      BY <2>1, <2>2, <2>3, <2>4, <2>5
    <3>2. Born(b)'
      BY <2>5 DEF IInv, LifecycleOf, Born
    <3>3. Fate(b) = "alive" /\ Fate(b)' = ending
      BY <2>5, <3>2, FateEnds
    <3>. QED  BY <3>1, <3>3
  <2>6. CASE ~(heap[b].riffs > 0 /\ ~(heap'[b].riffs > 0))
    <3>1. Fate(b)' = Fate(b)
      BY <2>6, FateKept
    <3>2. ~(Owned(b) /\ ~Still(b) /\ b \notin Pinned)
      BY <2>1, <2>2, <2>3, <2>4, <2>6
    <3>. QED  BY <3>1, <3>2
  <2>. QED  BY <2>5, <2>6
<1>3. Fates' = [b \in Blocks |-> IF Fates[b] = "alive" /\ Owned(b) /\ ~Still(b) /\ b \notin Pinned
                                 THEN ending ELSE Fates[b]]
  BY <1>2 DEF Fates
<1>. QED  BY <1>1, <1>3 DEF Lifetime!Settle, Lifetime!OwnedBy, Own, Fates, Pinned

\* An owner lets go.
LEMMA DropIsRelease ==
  ASSUME IInv, IInv', NEW s \in Owners, ~Empty(s), Point(s, NoBlock),
         heap' = Drop(heap, ptr[s], "T"), UNCHANGED <<lostRiffs, undestroyed>>
  PROVE  LifetimeStep
<1>1. TypeOK /\ heap \in [Blocks -> Block] /\ s \in Slots /\ "T" \in Type
  BY SlotSets DEF IInv, TypeOK, Type
<1>2. /\ ptr[s] \in Blocks /\ heap[ptr[s]].riffs > 0 /\ heap[ptr[s]].object = "alive"
  BY <1>1, HeldBlock
<1>3. /\ \A b \in Blocks \ {ptr[s]} : heap'[b] = heap[b]
      /\ heap'[ptr[s]].object \in {"alive", "destroyed"}
  BY <1>1, <1>2, DropFields
<1>4. \A b \in Blocks : Born(b)' <=> Born(b)
  BY <1>2, <1>3 DEF Born
<1>5. \A b \in Blocks : heap'[b].riffs > 0 => heap[b].riffs > 0
  BY <1>2, <1>3
<1>6. \A b \in Blocks : heap[b].riffs > 0 => b \notin undestroyed'
  BY DEF IInv, LifecycleOf
<1>7. Lifetime!Settle([Own EXCEPT ![s] = NoBlock], "destroyed")
  BY <1>4, <1>5, <1>6, Settles
<1>8. Watched' = Watched /\ Pinned' = Pinned /\ Own[s] # NoBlock
  BY <1>1, OwnersMoved DEF Own, Pinned, Empty
<1>9. Lifetime!Release(s)
  BY <1>7, <1>8 DEF Lifetime!Release, Own, Watched, Pinned
<1>. QED  BY <1>9 DEF LifetimeStep, Lifetime!Next

\* shared_ptr::write_to overwrites its target from outside.
LEMMA WriteToIsOverwrite ==
  ASSUME IInv, IInv', NEW h \in StrongSlots, NEW s \in StdSlots, StrongWriteTo(h, s)
  PROVE  LifetimeStep
<1>1. /\ TypeOK /\ heap \in [Blocks -> Block] /\ s \in Slots /\ h \in Slots
      /\ s \in Owners /\ h \in Owners /\ s # h
      /\ ptr[h] \in Target /\ ptr[s] \in Target /\ "nullptr" \in Type
  BY SlotSets, SlotsAssumption DEF IInv, TypeOK, Target, Type
<1>2. PICK next : next = Drop(heap, ptr[s], "nullptr")
  OBVIOUS
<1>3. /\ next \in [Blocks -> Block]
      /\ \A b \in Blocks : b # ptr[s] => next[b] = heap[b]
      /\ \A b \in Blocks : b = ptr[s] => /\ next[b].riffs = Pred(heap[b].riffs)
                                         /\ next[b].object = heap[b].object
  <2>1. CASE Empty(s)
    BY <1>1, <1>2, <2>1, BlocksAssumption DEF Drop, Empty
  <2>2. CASE ~Empty(s)
    BY <1>1, <1>2, <2>2, HeldBlock, DropFields
  <2>. QED  BY <2>1, <2>2
<1>4. \A b \in Blocks : b = ptr[s] => heap[b].riffs > 0 /\ next[b].riffs = heap[b].riffs - 1
  <2>1. \A b \in Blocks : b = ptr[s] => heap[b].riffs > 0
    BY <1>1, HeldBlock, BlocksAssumption DEF Empty
  <2>. QED  BY <1>1, <1>3, <2>1, TypesOfBlock DEF Pred
<1>5. ptr[h] # NoBlock => next[ptr[h]].riffs > 0
  <2>. SUFFICES ASSUME ptr[h] # NoBlock
                PROVE  next[ptr[h]].riffs > 0
    OBVIOUS
  <2>1. ptr[h] \in Blocks /\ heap[ptr[h]].riffs > 0
    BY <1>1, HeldBlock DEF Empty
  <2>2. CASE ptr[h] # ptr[s]
    BY <1>3, <2>1, <2>2
  <2>3. CASE ptr[h] = ptr[s]
    <3>1. Owning(ptr[h]) >= 2
      BY <1>1, <2>1, <2>3, TwoOwners
    <3>2. heap[ptr[h]].riffs = Owning(ptr[h]) + lostRiffs[ptr[h]] /\ lostRiffs[ptr[h]] \in Nat
          /\ Owning(ptr[h]) \in Nat
      BY <1>1, <2>1, TypesOfBlock DEF IInv, CountsOf
    <3>. QED  BY <1>4, <2>1, <2>3, <3>1, <3>2
  <2>. QED  BY <2>2, <2>3
<1>6. /\ Point(s, ptr[h]) /\ heap' = Retain(next, ptr[h]) /\ lostRiffs' = lostRiffs
      /\ undestroyed' = undestroyed \cup {b \in {ptr[s]} \ {NoBlock} : next[b].riffs = 0}
  BY <1>2, <1>5 DEF StrongWriteTo, Empty
<1>7. ptr[h] # NoBlock => next[ptr[h]].riffs < MaxCount
  <2>. SUFFICES ASSUME ptr[h] # NoBlock
                PROVE  next[ptr[h]].riffs < MaxCount
    OBVIOUS
  <2>1. heap[ptr[h]].riffs < MaxCount /\ ptr[h] \in Blocks
    BY <1>1 DEF StrongWriteTo, Room, Target
  <2>. QED  BY <1>1, <1>3, <1>4, <2>1, TypesOfBlock
<1>8. \A b \in Blocks : /\ heap'[b].object = heap[b].object
                        /\ heap'[b].riffs = next[b].riffs + Bit(b, ptr[h])
                        /\ next[b].riffs \in Nat /\ Bit(b, ptr[h]) \in Nat
  <2>1. \A b \in Blocks : /\ heap'[b].object = next[b].object
                          /\ heap'[b].riffs = next[b].riffs + Bit(b, ptr[h])
    BY <1>1, <1>3, <1>6, <1>7, RetainFields
  <2>2. \A b \in Blocks : next[b].riffs \in Nat /\ Bit(b, ptr[h]) \in Nat
    BY <1>3, BlocksAssumption DEF Block, Bit
  <2>. QED  BY <1>3, <2>1, <2>2
<1>9. \A b \in Blocks : Born(b)' <=> Born(b)
  BY <1>8 DEF Born
<1>10. ASSUME NEW b \in Blocks, heap'[b].riffs > 0
       PROVE  heap[b].riffs > 0
  <2>1. Born(b)
    BY <1>9, <1>10 DEF IInv, LifecycleOf, Born
  <2>2. heap[b].riffs \in Nat
    BY <1>1, TypesOfBlock
  <2>. QED  BY <1>10, <2>1, <2>2, WriteToLeavesDead DEF Dead, Born
<1>11. \A b \in Blocks : ~(heap[b].riffs > 0) => (b \in undestroyed' <=> b \in undestroyed)
  BY <1>4, <1>6
<1>12. ASSUME NEW b \in Blocks, heap[b].riffs > 0, ~(heap'[b].riffs > 0)
       PROVE  b \in undestroyed'
  <2>1. next[b].riffs = 0
    BY <1>8, <1>12
  <2>2. b = ptr[s]
    BY <1>3, <1>12, <2>1
  <2>. QED  BY <1>6, <2>1, <2>2, BlocksAssumption
<1>13. Lifetime!Settle([Own EXCEPT ![s] = ptr[h]], "abandoned")
  BY <1>1, <1>6, <1>9, <1>10, <1>11, <1>12, Settles
<1>14. Watched' = Watched /\ Pinned' = Pinned /\ Own[h] = ptr[h]
  BY <1>1, <1>6, OwnersMoved DEF Own, Pinned
<1>15. Lifetime!Overwrite(h, s)
  BY <1>1, <1>13, <1>14 DEF Lifetime!Overwrite, Own, Watched, Pinned
<1>. QED  BY <1>1, <1>15 DEF LifetimeStep, Lifetime!Next

\* std::make_shared.
LEMMA MakeIsCreate ==
  ASSUME IInv, IInv', NEW s \in StdSlots, NEW b \in Blocks, StdMake(s, b)
  PROVE  LifetimeStep
<1>1. TypeOK /\ heap \in [Blocks -> Block] /\ s \in Slots /\ s \in Owners
  BY SlotSets DEF IInv, TypeOK
<1>2. /\ Point(s, b) /\ heap[b].object = "none" /\ heap'[b].object = "alive"
      /\ heap' = [heap EXCEPT ![b] = Made]
      /\ lostRiffs' = lostRiffs /\ undestroyed' = undestroyed
  BY <1>1 DEF StdMake, Unmade, Made
<1>3. b \notin undestroyed
  BY <1>2 DEF IInv, LifecycleOf
<1>4. Fate(b) = "unborn" /\ Fate(b)' = "alive"
  BY <1>2, <1>3 DEF Fate
<1>5. \A c \in Blocks \ {b} : Fate(c)' = Fate(c)
  BY <1>1, <1>2 DEF Fate
<1>6. Fates' = [Fates EXCEPT ![b] = "alive"] /\ Fates[b] = "unborn"
  BY <1>4, <1>5 DEF Fates
<1>7. Own' = [Own EXCEPT ![s] = b] /\ Watched' = Watched /\ Pinned' = Pinned /\ Own[s] = NoBlock
  BY <1>1, <1>2, OwnersMoved DEF Own, Pinned, StdMake, Empty
<1>8. Lifetime!Create(s, b)
  BY <1>6, <1>7 DEF Lifetime!Create, Own, Watched, Fates, Pinned
<1>. QED  BY <1>1, <1>8 DEF LifetimeStep, Lifetime!Next

\* Counting a weak reference, or dropping one, is no matter of fate.
LEMMA WeakCountsAreQuiet ==
  ASSUME IInv, IInv', undestroyed' = undestroyed, lostRiffs' = lostRiffs, NEW c \in Target,
         (Room(c) /\ heap' = RetainWeak(heap, c)) \/ heap' = DropWeak(heap, c)
  PROVE  Fates' = Fates /\ Pinned' = Pinned
<1>1. heap \in [Blocks -> Block]
  BY DEF IInv, TypeOK
<1>2. \A b \in Blocks : heap'[b].object = heap[b].object /\ heap'[b].riffs = heap[b].riffs
  <2>1. CASE Room(c) /\ heap' = RetainWeak(heap, c)
    BY <1>1, <2>1, RetainWeakFields DEF Room
  <2>2. CASE heap' = DropWeak(heap, c) /\ c = NoBlock
    BY <2>2 DEF DropWeak
  <2>3. CASE heap' = DropWeak(heap, c) /\ c \in Blocks
    <3>1. /\ \A b \in Blocks \ {c} : DropWeak(heap, c)[b] = heap[b]
          /\ DropWeak(heap, c)[c].object = heap[c].object
          /\ DropWeak(heap, c)[c].riffs = heap[c].riffs
      BY <1>1, <2>3, DropWeakFields
    <3>. QED  BY <2>3, <3>1
  <2>. QED  BY <2>1, <2>2, <2>3 DEF Target
<1>. QED  BY <1>2, FatesKept DEF Pinned

\* A watcher is made to watch what another handle points to.
LEMMA GainIsWatch ==
  ASSUME IInv, IInv', NEW w \in WeakSlots, NEW x \in Slots, Room(ptr[x]),
         Point(w, ptr[x]), heap' = RetainWeak(heap, ptr[x]),
         UNCHANGED <<lostRiffs, undestroyed>>
  PROVE  LifetimeStep
<1>1. TypeOK /\ ptr[x] \in Target
  BY DEF IInv, TypeOK, Target
<1>2. PICK c \in Target : c = ptr[x]
  BY <1>1
<1>3. Fates' = Fates /\ Pinned' = Pinned
  BY <1>2, WeakCountsAreQuiet
<1>4. Watched' = [Watched EXCEPT ![w] = c] /\ Own' = Own
  BY <1>1, <1>2, WatchersMoved
<1>5. (\E s \in Owners : Own[s] = c) \/ (\E v \in WeakSlots : Watched[v] = c)
  BY <1>2 DEF Own, Watched, Slots
<1>6. CASE c \in Blocks
  <2>1. Lifetime!Watch(w, c)
    BY <1>3, <1>4, <1>5 DEF Lifetime!Watch, Lifetime!Reached, Lifetime!OwnedBy,
                            Own, Watched, Fates, Pinned
  <2>. QED  BY <1>6, <2>1 DEF LifetimeStep, Lifetime!Next
<1>7. CASE c = NoBlock
  <2>1. Lifetime!Unwatch(w)
    BY <1>3, <1>4, <1>7 DEF Lifetime!Unwatch, Own, Watched, Fates, Pinned
  <2>. QED  BY <2>1 DEF LifetimeStep, Lifetime!Next
<1>. QED  BY <1>6, <1>7 DEF Target

\* Moving from one watcher to another.
LEMMA MoveIsHand ==
  ASSUME IInv, IInv', NEW v \in WeakSlots, NEW w \in WeakSlots, v # w, Move(v, w),
         UNCHANGED <<heap, lostRiffs, undestroyed>>
  PROVE  LifetimeStep
<1>1. ptr \in [Slots -> Target] /\ WeakSlots \subseteq Slots /\ Owners \subseteq Slots
      /\ Owners \cap WeakSlots = {}
  BY SlotSets, SlotsAssumption DEF IInv, TypeOK, Target
<1>2. ptr' = [ptr EXCEPT ![w] = ptr[v], ![v] = NoBlock]
  BY DEF Move
<1>3. \A x \in Owners : ptr'[x] = ptr[x]
  BY <1>1, <1>2
<1>4. \A x \in WeakSlots : ptr'[x] = IF x = v THEN NoBlock ELSE IF x = w THEN ptr[v] ELSE ptr[x]
  BY <1>1, <1>2
<1>5. Own' = Own /\ Watched' = [Watched EXCEPT ![w] = Watched[v], ![v] = NoBlock]
  BY <1>3, <1>4 DEF Own, Watched
<1>6. Fates' = Fates /\ Pinned' = Pinned
  BY FatesKept DEF Pinned
<1>7. Lifetime!Hand(w, v)
  BY <1>5, <1>6 DEF Lifetime!Hand, Own, Watched, Fates, Pinned
<1>. QED  BY <1>7 DEF LifetimeStep, Lifetime!Next

\* A watcher lets go.
LEMMA DropIsUnwatch ==
  ASSUME IInv, IInv', NEW w \in WeakSlots, Point(w, NoBlock), heap' = DropWeak(heap, ptr[w]),
         UNCHANGED <<lostRiffs, undestroyed>>
  PROVE  LifetimeStep
<1>1. TypeOK /\ ptr[w] \in Target
  BY SlotSets DEF IInv, TypeOK, Target
<1>2. Fates' = Fates /\ Pinned' = Pinned
  BY <1>1, WeakCountsAreQuiet
<1>3. Watched' = [Watched EXCEPT ![w] = NoBlock] /\ Own' = Own
  BY <1>1, WatchersMoved
<1>4. Lifetime!Unwatch(w)
  BY <1>2, <1>3 DEF Lifetime!Unwatch, Own, Watched, Fates, Pinned
<1>. QED  BY <1>4 DEF LifetimeStep, Lifetime!Next

----------------------------------------------------------------------------
(* The components.                                                         *)

LEMMA StdImplements ==
  ASSUME IInv, IInv', StdNext
  PROVE  LifetimeStep
<1>0. /\ StdSlots \subseteq Owners /\ Owners \subseteq Slots
      /\ \A x \in Slots : ptr[x] \in Target
  BY SlotSets DEF IInv, TypeOK, Target
<1>1. ASSUME NEW s \in StdSlots, NEW b \in Blocks, StdMake(s, b)
      PROVE  LifetimeStep
  BY <1>1, MakeIsCreate
<1>2. ASSUME NEW s \in StdSlots, NEW t \in StdSlots, StdCopy(s, t)
      PROVE  LifetimeStep
  <2>1. ptr[s] \in Target /\ heap[ptr[s]].riffs > 0 /\ ptr[s] = ptr[s] /\ s \in Slots /\ t \in Owners
    BY <1>0, <1>2, HeldBlock DEF StdCopy
  <2>. QED  BY <1>2, <2>1, GainIsShare DEF StdCopy
<1>3. ASSUME NEW s \in StdSlots, NEW t \in StdSlots, StdMove(s, t)
      PROVE  LifetimeStep
  <2>1. s # t /\ lostRiffs' = Lose(lostRiffs, t)
    BY <1>0, <1>3, LoseNothing DEF StdMove, Empty
  <2>. QED  BY <1>0, <1>3, <2>1, MoveIsTransfer DEF StdMove
<1>4. ASSUME NEW s \in StdSlots, StdRelease(s)
      PROVE  LifetimeStep
  BY <1>0, <1>4, DropIsRelease DEF StdRelease
<1>. QED  BY <1>1, <1>2, <1>3, <1>4 DEF StdNext

LEMMA StrongImplements ==
  ASSUME IInv, IInv', StrongNext
  PROVE  LifetimeStep
<1>0. /\ StdSlots \subseteq Owners /\ StrongSlots \subseteq Owners /\ Owners \subseteq Slots
      /\ \A x \in Slots : ptr[x] \in Target
  BY SlotSets DEF IInv, TypeOK, Target
<1>1. ASSUME NEW t \in Owners, NEW x \in Owners, Empty(t), Room(ptr[x]), Point(t, ptr[x]),
             heap' = Retain(heap, ptr[x]), UNCHANGED <<lostRiffs, undestroyed>>
      PROVE  LifetimeStep
  <2>1. ptr[x] \in Target /\ x \in Slots
    BY <1>0
  <2>2. ptr[x] # NoBlock => heap[ptr[x]].riffs > 0
    BY <1>0, HeldBlock DEF Empty
  <2>. QED  BY <1>1, <2>1, <2>2, GainIsShare
<1>2. ASSUME NEW h \in StrongSlots, NEW s \in StdSlots, StrongFromStd(h, s) \/ StrongToStd(h, s)
      PROVE  LifetimeStep
  BY <1>0, <1>1, <1>2 DEF StrongFromStd, StrongToStd
<1>3. ASSUME NEW h \in StrongSlots, NEW g \in StrongSlots, StrongCopyConstruct(h, g)
      PROVE  LifetimeStep
  BY <1>0, <1>1, <1>3 DEF StrongCopyConstruct
<1>4. ASSUME NEW h \in StrongSlots, NEW g \in StrongSlots,
             StrongMoveConstruct(h, g) \/ StrongMoveAssign(h, g)
      PROVE  LifetimeStep
  <2>1. g # h /\ lostRiffs' = Lose(lostRiffs, h)
    BY <1>0, <1>4, LoseNothing DEF StrongMoveConstruct, StrongMoveAssign, Empty
  <2>. QED  BY <1>0, <1>4, <2>1, MoveIsTransfer DEF StrongMoveConstruct, StrongMoveAssign
<1>5. ASSUME NEW h \in StrongSlots, NEW g \in StrongSlots, StrongCopyAssign(h, g)
      PROVE  LifetimeStep
  BY <1>0, <1>5, CopyIsAssign DEF StrongCopyAssign
<1>6. ASSUME NEW h \in StrongSlots, StrongDestroy(h)
      PROVE  LifetimeStep
  BY <1>0, <1>6, DropIsRelease DEF StrongDestroy
<1>7. ASSUME NEW h \in StrongSlots, NEW s \in StdSlots, StrongWriteTo(h, s)
      PROVE  LifetimeStep
  BY <1>7, WriteToIsOverwrite
<1>. QED  BY <1>2, <1>3, <1>4, <1>5, <1>6, <1>7 DEF StrongNext

LEMMA WeakImplements ==
  ASSUME ~OverwriteByWeak, IInv, IInv', WeakNext
  PROVE  LifetimeStep
<1>0. /\ StdSlots \subseteq Owners /\ Owners \subseteq Slots /\ WeakSlots \subseteq Slots
      /\ \A x \in Slots : ptr[x] \in Target
  BY SlotSets DEF IInv, TypeOK, Target
<1>1. ASSUME NEW w \in WeakSlots, NEW s \in StdSlots, WeakFromStd(w, s)
      PROVE  LifetimeStep
  BY <1>0, <1>1, GainIsWatch DEF WeakFromStd
<1>2. ASSUME NEW w \in WeakSlots, NEW v \in WeakSlots,
             WeakCopyConstruct(w, v) \/ WeakCopyAssign(w, v)
      PROVE  LifetimeStep
  BY <1>0, <1>2, GainIsWatch DEF WeakCopyConstruct, WeakCopyAssign
<1>3. ASSUME NEW w \in WeakSlots, NEW v \in WeakSlots,
             WeakMoveConstruct(w, v) \/ WeakMoveAssign(w, v)
      PROVE  LifetimeStep
  <2>1. v # w
    BY <1>3 DEF WeakMoveConstruct, WeakMoveAssign, Empty
  <2>. QED  BY <1>3, <2>1, MoveIsHand DEF WeakMoveConstruct, WeakMoveAssign
<1>4. ASSUME NEW w \in WeakSlots, WeakDestroy(w)
      PROVE  LifetimeStep
  BY <1>4, DropIsUnwatch DEF WeakDestroy
<1>5. ASSUME NEW w \in WeakSlots, NEW s \in StdSlots, WeakToStd(w, s)
      PROVE  LifetimeStep
  <2>1. ptr[w] \in Target /\ w \in Slots /\ s \in Owners
    BY <1>0
  <2>. QED  BY <1>5, <2>1, GainIsShare DEF WeakToStd
<1>6. ASSUME NEW w \in WeakSlots, NEW s \in StdSlots, WeakWriteTo(w, s)
      PROVE  LifetimeStep
  <2>1. PICK source \in Target :
          source = IF heap[ptr[w]].riffs > 0 THEN ptr[w] ELSE NoBlock
    BY <1>0 DEF Target
  <2>2. Empty(s) /\ DropWeak(heap, ptr[s]) = heap
    BY <1>6 DEF WeakWriteTo, Empty, DropWeak
  <2>3. Point(s, source) /\ heap' = Retain(heap, source) /\ Room(source)
        /\ UNCHANGED <<lostRiffs, undestroyed>>
    BY <1>6, <2>1, <2>2 DEF WeakWriteTo, Room
  <2>4. source # NoBlock => heap[source].riffs > 0 /\ \E x \in Slots : ptr[x] = source
    BY <1>0, <2>1
  <2>. QED  BY <1>0, <2>2, <2>3, <2>4, GainIsShare
<1>. QED  BY <1>1, <1>2, <1>3, <1>4, <1>5, <1>6 DEF WeakNext

\* In the beginning nothing is owned, watched, pinned or born.
LEMMA InitImplements == Init => Lifetime!Init
<1>. SUFFICES ASSUME Init
              PROVE  Lifetime!Init
  OBVIOUS
<1>1. Own = [s \in Owners |-> NoBlock] /\ Watched = [w \in WeakSlots |-> NoBlock]
  BY SlotSets DEF Init, Own, Watched
<1>2. Fates = [b \in Blocks |-> "unborn"]
  BY DEF Init, Fates, Fate, Unmade
<1>3. Pinned = {}
  BY DEF Init, Pinned
<1>. QED  BY <1>1, <1>2, <1>3 DEF Lifetime!Init, Own, Watched, Fates, Pinned

\* The handles of both namespaces, counters, control blocks and defects included,
\* behave as owners and watchers of objects: the specification ObjectLifetime.
THEOREM HandlesImplementLifetime == ~OverwriteByWeak => (Spec => ImplementsLifetime)
<1>. SUFFICES ASSUME ~OverwriteByWeak
              PROVE  Spec => ImplementsLifetime
  OBVIOUS
<1>1. IInv /\ [Next]_vars => IInv'
  BY StdStep, StrongStep, WeakStep, StutterStep DEF Next
<1>2. IInv /\ IInv' /\ [Next]_vars => [Lifetime!Next]_(Lifetime!vars)
  <2>. SUFFICES ASSUME IInv, IInv', [Next]_vars
                PROVE  LifetimeStep
    BY DEF LifetimeStep
  <2>1. CASE Next
    BY <2>1, StdImplements, StrongImplements, WeakImplements DEF Next
  <2>2. CASE UNCHANGED vars
    BY <2>2 DEF vars, LifetimeStep, Lifetime!vars, Fate
  <2>. QED  BY <2>1, <2>2
<1>3. Spec => []IInv
  BY Invariance
<1>. QED  BY <1>1, <1>2, <1>3, InitImplements, PTL DEF Spec, ImplementsLifetime, Lifetime!Spec
=============================================================================

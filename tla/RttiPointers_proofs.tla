------------------------ MODULE RttiPointers_proofs ------------------------
(***************************************************************************)
(* The counters of a control block count its holders, for any number of    *)
(* slots and blocks, as long as weak_ptr::write_to never replaces a        *)
(* std::shared_ptr that is not empty.                                      *)
(***************************************************************************)
EXTENDS RttiPointers, FiniteSetTheorems, TLAPS

----------------------------------------------------------------------------
(* Sets of slots under an update of one slot.                              *)

\* 1 if x and y are the same, 0 otherwise.
Bit(x, y) == IF x = y THEN 1 ELSE 0

At(S, f, b) == {x \in S : f[x] = b}

\* The sizes of two finite sets that differ in one element at most: a set of
\* holders before and after a step.
LEMMA OneElement ==
  ASSUME NEW F, IsFiniteSet(F), NEW G, NEW s, F \ {s} = G \ {s}
  PROVE  /\ Cardinality(F) \in Nat
         /\ Cardinality(G) = Cardinality(F) - (IF s \in F THEN 1 ELSE 0)
                                            + (IF s \in G THEN 1 ELSE 0)
<1>1. Cardinality(F) \in Nat
  BY FS_CardinalityType
<1>2. CASE s \in F <=> s \in G
  <2>1. F = G BY <1>2
  <2> QED BY <1>1, <2>1
<1>3. CASE s \in F /\ s \notin G
  <2>1. G = F \ {s} BY <1>3
  <2>2. Cardinality(G) = Cardinality(F) - 1 BY <1>3, <2>1, FS_RemoveElement
  <2> QED BY <1>1, <1>3, <2>2
<1>4. CASE s \notin F /\ s \in G
  <2>1. G = F \cup {s} BY <1>4
  <2>2. Cardinality(G) = Cardinality(F) + 1 BY <1>4, <2>1, FS_AddElement
  <2> QED BY <1>1, <1>4, <2>2
<1> QED BY <1>2, <1>3, <1>4

\* Pointing one slot elsewhere changes the holders of the blocks concerned.
LEMMA HoldersUpdate ==
  ASSUME NEW S, IsFiniteSet(S), NEW s \in S, NEW b, NEW f, NEW g,
         \A x \in S \ {s} : g[x] = f[x]
  PROVE  Cardinality(At(S, g, b))
           = Cardinality(At(S, f, b)) - Bit(f[s], b) + Bit(g[s], b)
<1>1. At(S, f, b) \subseteq S
  BY DEF At
<1>2. IsFiniteSet(At(S, f, b))
  BY <1>1, FS_Subset
<1>3. At(S, f, b) \ {s} = At(S, g, b) \ {s}
  BY DEF At
<1>4. /\ (IF s \in At(S, f, b) THEN 1 ELSE 0) = Bit(f[s], b)
      /\ (IF s \in At(S, g, b) THEN 1 ELSE 0) = Bit(g[s], b)
  BY DEF At, Bit
<1> QED BY <1>2, <1>3, <1>4, OneElement

\* Moving from one slot to another changes the holders of the blocks concerned.
LEMMA HoldersMove ==
  ASSUME NEW S, IsFiniteSet(S), NEW s \in S, NEW t \in S, s # t, NEW b, NEW f, NEW g,
         \A x \in S \ {s, t} : g[x] = f[x],
         g[t] = f[s], g[s] # b
  PROVE  Cardinality(At(S, g, b)) = Cardinality(At(S, f, b)) - Bit(f[t], b)
<1> DEFINE mid == [x \in S |-> IF x = t THEN f[s] ELSE f[x]]
<1>1. mid[t] = f[s] /\ mid[s] = f[s]
  OBVIOUS
<1>2. \A x \in S \ {t} : mid[x] = f[x]
  OBVIOUS
<1>3. \A x \in S \ {s} : g[x] = mid[x]
  OBVIOUS
<1> HIDE DEF mid
<1>4. Cardinality(At(S, mid, b)) = Cardinality(At(S, f, b)) - Bit(f[t], b) + Bit(f[s], b)
  BY <1>1, <1>2, HoldersUpdate
<1>5. Cardinality(At(S, g, b)) = Cardinality(At(S, mid, b)) - Bit(f[s], b) + Bit(g[s], b)
  BY <1>1, <1>3, HoldersUpdate
<1>6. Bit(g[s], b) = 0 /\ Bit(f[s], b) \in Nat /\ Bit(f[t], b) \in Nat
  BY DEF Bit
<1>7. Cardinality(At(S, f, b)) \in Nat
  <2>1. At(S, f, b) \subseteq S BY DEF At
  <2> QED BY <2>1, FS_Subset, FS_CardinalityType
<1> QED BY <1>4, <1>5, <1>6, <1>7

Owning(b)   == Cardinality(RiffHolders(b))
Watching(b) == Cardinality(WeakHolders(b))

Target == Blocks \cup {NoBlock}

\* The sets of slots are finite and the kinds of slots disjoint.
LEMMA SlotSets ==
  /\ IsFiniteSet(Owners) /\ IsFiniteSet(WeakSlots)
  /\ Owners \subseteq Slots /\ WeakSlots \subseteq Slots
  /\ StdSlots \subseteq Owners /\ StrongSlots \subseteq Owners
<1>1. IsFiniteSet(Owners)
  BY SlotsAssumption, FS_Union DEF Owners
<1> QED BY <1>1, SlotsAssumption DEF Slots, Owners

\* The holders of a block can be counted.
LEMMA CountsAreNumbers ==
  ASSUME NEW b
  PROVE  Owning(b) \in Nat /\ Watching(b) \in Nat
<1>1. RiffHolders(b) \subseteq Owners /\ WeakHolders(b) \subseteq WeakSlots
  BY DEF RiffHolders, WeakHolders
<1> QED BY <1>1, SlotSets, FS_Subset, FS_CardinalityType DEF Owning, Watching

\* Pointing an owner slot elsewhere leaves the watchers alone.
LEMMA PointOwner ==
  ASSUME TypeOK, NEW s \in Owners, NEW c, Point(s, c), NEW b
  PROVE  /\ Owning(b)' = Owning(b) - Bit(ptr[s], b) + Bit(c, b)
         /\ Watching(b)' = Watching(b)
<1>1. ptr \in [Slots -> Target] /\ ptr' = [ptr EXCEPT ![s] = c]
  BY DEF TypeOK, Point, Target
<1>2. Owning(b)' = Owning(b) - Bit(ptr[s], b) + Bit(c, b)
  <2>1. ptr'[s] = c /\ \A x \in Owners \ {s} : ptr'[x] = ptr[x]
    BY <1>1, SlotSets
  <2>2. Cardinality(At(Owners, ptr', b))
          = Cardinality(At(Owners, ptr, b)) - Bit(ptr[s], b) + Bit(ptr'[s], b)
    BY <2>1, SlotSets, HoldersUpdate
  <2> QED BY <2>1, <2>2 DEF Owning, RiffHolders, At
<1>3. WeakHolders(b)' = WeakHolders(b)
  BY <1>1, SlotsAssumption DEF WeakHolders
<1> QED BY <1>2, <1>3 DEF Watching

\* Pointing a watching slot elsewhere leaves the owners alone.
LEMMA PointWatcher ==
  ASSUME TypeOK, NEW w \in WeakSlots, NEW c, Point(w, c), NEW b
  PROVE  /\ Watching(b)' = Watching(b) - Bit(ptr[w], b) + Bit(c, b)
         /\ Owning(b)' = Owning(b)
<1>1. ptr \in [Slots -> Target] /\ ptr' = [ptr EXCEPT ![w] = c]
  BY DEF TypeOK, Point, Target
<1>2. Watching(b)' = Watching(b) - Bit(ptr[w], b) + Bit(c, b)
  <2>1. ptr'[w] = c /\ \A x \in WeakSlots \ {w} : ptr'[x] = ptr[x]
    BY <1>1, SlotSets
  <2>2. Cardinality(At(WeakSlots, ptr', b))
          = Cardinality(At(WeakSlots, ptr, b)) - Bit(ptr[w], b) + Bit(ptr'[w], b)
    BY <2>1, SlotSets, HoldersUpdate
  <2> QED BY <2>1, <2>2 DEF Watching, WeakHolders, At
<1>3. RiffHolders(b)' = RiffHolders(b)
  BY <1>1, SlotsAssumption DEF RiffHolders
<1> QED BY <1>2, <1>3 DEF Owning

\* A move between owner slots, in terms of holders.
LEMMA MoveOwner ==
  ASSUME TypeOK, NEW s \in Owners, NEW t \in Owners, s # t, Move(s, t), NEW b \in Blocks
  PROVE  /\ Owning(b)' = Owning(b) - Bit(ptr[t], b)
         /\ Watching(b)' = Watching(b)
<1>1. ptr \in [Slots -> Target] /\ ptr' = [ptr EXCEPT ![t] = ptr[s], ![s] = NoBlock]
  BY DEF TypeOK, Target, Move
<1>2. /\ ptr'[t] = ptr[s] /\ ptr'[s] # b
      /\ \A x \in Owners \ {s, t} : ptr'[x] = ptr[x]
  BY <1>1, SlotSets, BlocksAssumption
<1>3. Cardinality(At(Owners, ptr', b)) = Cardinality(At(Owners, ptr, b)) - Bit(ptr[t], b)
  BY <1>2, SlotSets, HoldersMove
<1>4. WeakHolders(b)' = WeakHolders(b)
  <2>1. \A x \in WeakSlots : ptr'[x] = ptr[x]
    BY <1>1, SlotSets, SlotsAssumption
  <2> QED BY <2>1 DEF WeakHolders
<1>5. Owning(b)' = Owning(b) - Bit(ptr[t], b)
  BY <1>3 DEF Owning, RiffHolders, At
<1> QED BY <1>4, <1>5 DEF Watching

\* A move between watching slots, in terms of holders.
LEMMA MoveWatcher ==
  ASSUME TypeOK, NEW w \in WeakSlots, NEW v \in WeakSlots, w # v, Move(w, v),
         NEW b \in Blocks
  PROVE  /\ Watching(b)' = Watching(b) - Bit(ptr[v], b)
         /\ Owning(b)' = Owning(b)
<1>1. ptr \in [Slots -> Target] /\ ptr' = [ptr EXCEPT ![v] = ptr[w], ![w] = NoBlock]
  BY DEF TypeOK, Target, Move
<1>2. /\ ptr'[v] = ptr[w] /\ ptr'[w] # b
      /\ \A x \in WeakSlots \ {w, v} : ptr'[x] = ptr[x]
  BY <1>1, SlotSets, BlocksAssumption
<1>3. Cardinality(At(WeakSlots, ptr', b)) = Cardinality(At(WeakSlots, ptr, b)) - Bit(ptr[v], b)
  BY <1>2, SlotSets, HoldersMove
<1>4. RiffHolders(b)' = RiffHolders(b)
  <2>1. \A x \in Owners : ptr'[x] = ptr[x]
    BY <1>1, SlotSets, SlotsAssumption
  <2> QED BY <2>1 DEF RiffHolders
<1>5. Watching(b)' = Watching(b) - Bit(ptr[v], b)
  BY <1>3 DEF Watching, WeakHolders, At
<1> QED BY <1>4, <1>5 DEF Owning

----------------------------------------------------------------------------
(* What the counting operators do to the fields of a block.                *)

\* What Retain does to each field of each block.
LEMMA RetainFields ==
  ASSUME NEW h \in [Blocks -> Block], NEW b \in Target,
         b # NoBlock => h[b].riffs < MaxCount
  PROVE  /\ Retain(h, b) \in [Blocks -> Block]
         /\ \A c \in Blocks :
              /\ Retain(h, b)[c].riffs = h[c].riffs + Bit(c, b)
              /\ Retain(h, b)[c].weaks = h[c].weaks
              /\ Retain(h, b)[c].object = h[c].object
              /\ Retain(h, b)[c].freed <=> h[c].freed
<1>1. CASE b = NoBlock
  BY <1>1, BlocksAssumption DEF Retain, Bit, Block
<1>2. CASE b \in Blocks
  BY <1>2, BlocksAssumption DEF Retain, Bit, Block
<1> QED BY <1>1, <1>2 DEF Target

\* What RetainWeak does to each field of each block.
LEMMA RetainWeakFields ==
  ASSUME NEW h \in [Blocks -> Block], NEW b \in Target,
         b # NoBlock => h[b].weaks < MaxCount
  PROVE  /\ RetainWeak(h, b) \in [Blocks -> Block]
         /\ \A c \in Blocks :
              /\ RetainWeak(h, b)[c].weaks = h[c].weaks + Bit(c, b)
              /\ RetainWeak(h, b)[c].riffs = h[c].riffs
              /\ RetainWeak(h, b)[c].object = h[c].object
              /\ RetainWeak(h, b)[c].freed <=> h[c].freed
<1>1. CASE b = NoBlock
  BY <1>1, BlocksAssumption DEF RetainWeak, Bit, Block
<1>2. CASE b \in Blocks
  BY <1>2, BlocksAssumption DEF RetainWeak, Bit, Block
<1> QED BY <1>1, <1>2 DEF Target

\* A decremented counter fits its width.
LEMMA PredInRange ==
  ASSUME NEW n \in 0..MaxCount
  PROVE  Pred(n) \in 0..MaxCount
BY BlocksAssumption DEF Pred

\* What weak_ptr::decrement does to each field of each block.
LEMMA DropWeakFields ==
  ASSUME NEW h \in [Blocks -> Block], NEW b \in Blocks
  PROVE  /\ DropWeak(h, b) \in [Blocks -> Block]
         /\ \A c \in Blocks \ {b} : DropWeak(h, b)[c] = h[c]
         /\ DropWeak(h, b)[b].weaks = Pred(h[b].weaks)
         /\ DropWeak(h, b)[b].freed <=> h[b].weaks = 1
         /\ DropWeak(h, b)[b].riffs = h[b].riffs
         /\ DropWeak(h, b)[b].object = h[b].object
<1>1. Pred(h[b].weaks) \in 0..MaxCount
  BY PredInRange DEF Block
<1> QED BY <1>1, BlocksAssumption DEF DropWeak, Block

\* What shared_ptr::decrement does to each field of each block.
LEMMA DropFields ==
  ASSUME NEW h \in [Blocks -> Block], NEW b \in Blocks, NEW type \in Type,
         NEW after, after = Drop(h, b, type)
  PROVE  /\ after \in [Blocks -> Block]
         /\ \A c \in Blocks \ {b} : after[c] = h[c]
         /\ after[b].riffs = Pred(h[b].riffs)
         /\ Pred(h[b].riffs) # 0 =>
              /\ after[b].weaks = h[b].weaks
              /\ after[b].object = h[b].object
              /\ after[b].freed <=> h[b].freed
         /\ Pred(h[b].riffs) = 0 =>
              /\ after[b].weaks = Pred(h[b].weaks)
              /\ after[b].freed <=> h[b].weaks = 1
              /\ type = "T" => after[b].object = "destroyed"
              /\ type # "T" => after[b].object = h[b].object
<1> DEFINE less == [h EXCEPT ![b].riffs = Pred(@)]
           last == IF type = "T" THEN [less EXCEPT ![b].object = "destroyed"] ELSE less
<1>1. Pred(h[b].riffs) \in 0..MaxCount
  BY PredInRange DEF Block
<1>2. /\ less \in [Blocks -> Block]
      /\ less[b].riffs = Pred(h[b].riffs)
      /\ less[b].weaks = h[b].weaks
      /\ less[b].object = h[b].object
      /\ less[b].freed <=> h[b].freed
      /\ \A c \in Blocks \ {b} : less[c] = h[c]
  BY <1>1 DEF Block
<1>3. /\ last \in [Blocks -> Block]
      /\ last[b].riffs = Pred(h[b].riffs)
      /\ last[b].weaks = h[b].weaks
      /\ last[b].object = IF type = "T" THEN "destroyed" ELSE h[b].object
      /\ \A c \in Blocks \ {b} : last[c] = h[c]
  <2>1. CASE type = "T"
    <3> HIDE DEF less
    <3>1. /\ [less EXCEPT ![b].object = "destroyed"] \in [Blocks -> Block]
          /\ [less EXCEPT ![b].object = "destroyed"][b].riffs = less[b].riffs
          /\ [less EXCEPT ![b].object = "destroyed"][b].weaks = less[b].weaks
          /\ [less EXCEPT ![b].object = "destroyed"][b].object = "destroyed"
          /\ \A c \in Blocks \ {b} : [less EXCEPT ![b].object = "destroyed"][c] = less[c]
      BY <1>2 DEF Block
    <3> QED BY <1>2, <2>1, <3>1
  <2>2. CASE type # "T"
    BY <1>2, <2>2
  <2> QED BY <2>1, <2>2
<1>4. Drop(h, b, type) = IF less[b].riffs = 0 THEN DropWeak(last, b) ELSE less
  BY BlocksAssumption DEF Drop, LastRiffGone
<1> HIDE DEF less, last
<1>5. CASE Pred(h[b].riffs) = 0
  BY <1>2, <1>3, <1>4, <1>5, DropWeakFields
<1>6. CASE Pred(h[b].riffs) # 0
  BY <1>2, <1>4, <1>6
<1> QED BY <1>5, <1>6

\* What overwriting a slot adds to a history of lost references.
LEMMA LoseField ==
  ASSUME TypeOK, NEW t \in Slots, NEW lost \in [Blocks -> Nat]
  PROVE  /\ Lose(lost, t) \in [Blocks -> Nat]
         /\ \A b \in Blocks : Lose(lost, t)[b] = lost[b] + Bit(ptr[t], b)
<1>1. ptr[t] \in Target
  BY DEF TypeOK, Target
<1> QED BY <1>1, BlocksAssumption DEF Lose, Bit, Target

----------------------------------------------------------------------------
(* The inductive invariant. The two conservation laws need to know when a  *)
(* block is freed and its object gone, and the other way round: a weak     *)
(* counter drops to zero exactly when nothing counts on the block.         *)

LifecycleOf(b) ==
  /\ heap[b].object = "none" =>
       heap[b].riffs = 0 /\ heap[b].weaks = 0 /\ ~heap[b].freed /\ b \notin undestroyed
  /\ heap[b].riffs > 0 => heap[b].object = "alive" /\ b \notin undestroyed
  /\ heap[b].object # "none" /\ heap[b].riffs = 0 =>
       (heap[b].object = "destroyed" <=> b \notin undestroyed)
  /\ heap[b].object # "none" => (heap[b].freed <=> heap[b].weaks = 0)

CountsOf(b) ==
  /\ heap[b].riffs = Owning(b) + lostRiffs[b]
  /\ heap[b].weaks = Watching(b) + lostWeaks[b] + (IF heap[b].riffs > 0 THEN 1 ELSE 0)

\* The counters of every block count its holders, and its state agrees with
\* the counters.
IInv ==
  /\ TypeOK
  /\ \A b \in Blocks : CountsOf(b) /\ LifecycleOf(b)

\* The fields of a block have their types.
LEMMA TypesOfBlock ==
  ASSUME TypeOK, NEW b \in Blocks
  PROVE  /\ heap[b].riffs \in 0..MaxCount /\ heap[b].weaks \in 0..MaxCount
         /\ heap[b].object \in {"none", "alive", "destroyed"} /\ heap[b].freed \in BOOLEAN
         /\ lostRiffs[b] \in Nat /\ lostWeaks[b] \in Nat
         /\ Owning(b) \in Nat /\ Watching(b) \in Nat /\ MaxCount \in Nat
BY CountsAreNumbers, BlocksAssumption DEF TypeOK, Block

\* A slot of an owner is one of the references its block counts.
LEMMA HolderCounts ==
  ASSUME TypeOK, NEW s \in Slots, NEW b \in Blocks, ptr[s] = b
  PROVE  (s \in Owners => Owning(b) > 0) /\ (s \in WeakSlots => Watching(b) > 0)
<1>1. ASSUME s \in Owners PROVE Owning(b) > 0
  <2>1. s \in RiffHolders(b) /\ RiffHolders(b) \subseteq Owners
    BY <1>1 DEF RiffHolders
  <2>2. IsFiniteSet(RiffHolders(b)) /\ RiffHolders(b) # {}
    BY <2>1, SlotSets, FS_Subset
  <2> QED BY <2>2, FS_EmptySet, CountsAreNumbers DEF Owning
<1>2. ASSUME s \in WeakSlots PROVE Watching(b) > 0
  <2>1. s \in WeakHolders(b) /\ WeakHolders(b) \subseteq WeakSlots
    BY <1>2 DEF WeakHolders
  <2>2. IsFiniteSet(WeakHolders(b)) /\ WeakHolders(b) # {}
    BY <2>1, SlotSets, FS_Subset
  <2> QED BY <2>2, FS_EmptySet, CountsAreNumbers DEF Watching
<1> QED BY <1>1, <1>2

\* What a non-empty slot tells about its block.
LEMMA HeldBlock ==
  ASSUME IInv, NEW s \in Slots, ~Empty(s)
  PROVE  /\ ptr[s] \in Blocks
         /\ s \in Owners => heap[ptr[s]].riffs > 0 /\ heap[ptr[s]].object = "alive"
         /\ heap[ptr[s]].weaks > 0 /\ ~heap[ptr[s]].freed
         /\ heap[ptr[s]].object # "none"
<1>1. ptr[s] \in Blocks
  BY DEF IInv, TypeOK, Empty
<1>2. /\ CountsOf(ptr[s]) /\ LifecycleOf(ptr[s]) /\ TypeOK
  BY <1>1 DEF IInv
<1>3. s \in Owners \/ s \in WeakSlots
  BY DEF Slots
<1>4. CASE s \in Owners
  <2>1. heap[ptr[s]].riffs > 0
    BY <1>1, <1>2, <1>4, HolderCounts, TypesOfBlock DEF CountsOf
  <2> QED BY <1>1, <1>2, <2>1, TypesOfBlock DEF CountsOf, LifecycleOf
<1>5. CASE s \in WeakSlots
  <2>1. heap[ptr[s]].weaks > 0
    BY <1>1, <1>2, <1>5, HolderCounts, TypesOfBlock DEF CountsOf
  <2>2. s \notin Owners
    BY <1>5, SlotsAssumption
  <2> QED BY <1>1, <1>2, <2>1, <2>2, TypesOfBlock DEF LifecycleOf
<1> QED BY <1>3, <1>4, <1>5

----------------------------------------------------------------------------
(* The steps, grouped by what they do to a reference.                      *)

\* Slot t becomes an owner of b, which is nothing or alive.
LEMMA GainRiff ==
  ASSUME IInv, NEW t \in Owners, NEW b \in Target,
         b # NoBlock => heap[b].riffs > 0,
         Room(b), Point(t, b),
         heap' = Retain(heap, b), lostRiffs' = Lose(lostRiffs, t),
         UNCHANGED <<lostWeaks, undestroyed>>
  PROVE  IInv'
<1>1. TypeOK /\ t \in Slots
  BY SlotSets DEF IInv
<1>2. /\ heap' \in [Blocks -> Block]
      /\ \A c \in Blocks :
           /\ heap'[c].riffs = heap[c].riffs + Bit(c, b)
           /\ heap'[c].weaks = heap[c].weaks
           /\ heap'[c].object = heap[c].object
           /\ heap'[c].freed <=> heap[c].freed
  BY <1>1, RetainFields DEF TypeOK, Room
<1>3. /\ lostRiffs' \in [Blocks -> Nat]
      /\ \A c \in Blocks : lostRiffs'[c] = lostRiffs[c] + Bit(ptr[t], c)
  BY <1>1, LoseField DEF TypeOK
<1>4. TypeOK'
  BY <1>1, <1>2, <1>3, SlotSets DEF TypeOK, Point, Target
<1>5. ASSUME NEW c \in Blocks PROVE CountsOf(c)' /\ LifecycleOf(c)'
  <2>1. CountsOf(c) /\ LifecycleOf(c)
    BY DEF IInv
  <2>2. /\ Owning(c)' = Owning(c) - Bit(ptr[t], c) + Bit(b, c)
        /\ Watching(c)' = Watching(c)
    BY <1>1, PointOwner
  <2>3. Bit(ptr[t], c) \in Nat /\ Bit(b, c) = Bit(c, b)
    BY DEF Bit
  <2>4. c = b => heap[c].riffs > 0
    BY BlocksAssumption
  <2>5. Bit(c, b) = IF c = b THEN 1 ELSE 0
    BY DEF Bit
  <2>6. CountsOf(c)'
    <3>1. heap'[c].riffs = Owning(c)' + lostRiffs'[c]
      BY <1>1, <1>2, <1>3, <2>1, <2>2, <2>3, <2>5, TypesOfBlock DEF CountsOf
    <3>2. heap'[c].riffs > 0 <=> heap[c].riffs > 0
      BY <1>1, <1>2, <2>4, <2>5, TypesOfBlock
    <3>3. heap'[c].weaks
            = Watching(c)' + lostWeaks'[c] + (IF heap'[c].riffs > 0 THEN 1 ELSE 0)
      BY <1>2, <2>1, <2>2, <3>2 DEF CountsOf
    <3> QED BY <3>1, <3>3 DEF CountsOf
  <2>7. LifecycleOf(c)'
    BY <1>1, <1>2, <2>1, <2>4, <2>5, TypesOfBlock DEF LifecycleOf
  <2> QED BY <2>6, <2>7
<1> QED BY <1>4, <1>5 DEF IInv

\* Owner s lets go of its reference and the last one destroys the object.
LEMMA LoseRiff ==
  ASSUME IInv, NEW s \in Owners, ~Empty(s), Point(s, NoBlock),
         heap' = Drop(heap, ptr[s], "T"),
         UNCHANGED <<lostRiffs, lostWeaks, undestroyed>>
  PROVE  IInv'
<1>1. TypeOK /\ s \in Slots
  BY SlotSets DEF IInv
<1>7. PICK b \in Blocks : b = ptr[s]
  BY <1>1, HeldBlock
<1>2. b \in Blocks /\ heap[b].riffs > 0 /\ heap[b].weaks > 0 /\ ~heap[b].freed
      /\ heap[b].object = "alive"
  BY <1>1, <1>7, HeldBlock
<1>3. Pred(heap[b].riffs) = heap[b].riffs - 1 /\ Pred(heap[b].weaks) = heap[b].weaks - 1
  BY <1>1, <1>2, TypesOfBlock DEF Pred
<1>4. /\ heap' \in [Blocks -> Block]
      /\ \A c \in Blocks \ {b} : heap'[c] = heap[c]
      /\ heap'[b].riffs = heap[b].riffs - 1
      /\ heap[b].riffs # 1 =>
           /\ heap'[b].weaks = heap[b].weaks
           /\ heap'[b].object = heap[b].object
           /\ heap'[b].freed <=> heap[b].freed
      /\ heap[b].riffs = 1 =>
           /\ heap'[b].weaks = heap[b].weaks - 1
           /\ heap'[b].freed <=> heap[b].weaks = 1
           /\ heap'[b].object = "destroyed"
  <2>1. heap \in [Blocks -> Block] /\ heap' = Drop(heap, b, "T")
    BY <1>1, <1>7 DEF TypeOK
  <2>2. /\ heap' \in [Blocks -> Block]
        /\ \A c \in Blocks \ {b} : heap'[c] = heap[c]
        /\ heap'[b].riffs = Pred(heap[b].riffs)
        /\ Pred(heap[b].riffs) # 0 =>
             /\ heap'[b].weaks = heap[b].weaks
             /\ heap'[b].object = heap[b].object
             /\ heap'[b].freed <=> heap[b].freed
        /\ Pred(heap[b].riffs) = 0 =>
              /\ heap'[b].weaks = Pred(heap[b].weaks)
              /\ heap'[b].freed <=> heap[b].weaks = 1
              /\ heap'[b].object = "destroyed"
    BY <1>2, <2>1, DropFields DEF Type
  <2>3. Pred(heap[b].riffs) = 0 <=> heap[b].riffs = 1
    BY <1>1, <1>2, <1>3, TypesOfBlock
  <2> QED BY <1>3, <2>2, <2>3
<1>5. TypeOK'
  BY <1>1, <1>4, SlotSets DEF TypeOK, Point, Target
<1>6. ASSUME NEW c \in Blocks PROVE CountsOf(c)' /\ LifecycleOf(c)'
  <2>1. CountsOf(c) /\ LifecycleOf(c)
    BY DEF IInv
  <2>2. /\ Owning(c)' = Owning(c) - Bit(b, c) + Bit(NoBlock, c)
        /\ Watching(c)' = Watching(c)
    BY <1>1, <1>7, PointOwner
  <2>3. Bit(NoBlock, c) = 0 /\ Bit(b, c) = IF b = c THEN 1 ELSE 0
    BY BlocksAssumption DEF Bit
  <2>4. CASE c = b
    <3>1. /\ CountsOf(b) /\ LifecycleOf(b)
          /\ Owning(b)' = Owning(b) - 1 /\ Watching(b)' = Watching(b)
      BY <1>1, <2>1, <2>2, <2>3, <2>4, TypesOfBlock
    <3>2. heap'[b].riffs = Owning(b)' + lostRiffs'[b]
      BY <1>1, <1>4, <3>1, TypesOfBlock DEF CountsOf
    <3>3. CASE heap[b].riffs = 1
      <4>1. heap'[b].riffs = 0 /\ heap'[b].weaks = heap[b].weaks - 1
        BY <1>4, <3>3
      <4>2. CountsOf(b)'
        BY <1>1, <3>1, <3>2, <3>3, <4>1, TypesOfBlock DEF CountsOf
      <4>3. LifecycleOf(b)'
        BY <1>1, <1>2, <1>4, <3>1, <3>3, <4>1, TypesOfBlock DEF LifecycleOf
      <4> QED BY <2>4, <4>2, <4>3
    <3>4. CASE heap[b].riffs # 1
      <4>1. /\ heap'[b].weaks = heap[b].weaks /\ heap'[b].object = heap[b].object
            /\ heap'[b].freed <=> heap[b].freed
        BY <1>1, <1>2, <1>4, <3>4 DEF TypeOK, Block
      <4>2. heap'[b].riffs > 0
        BY <1>1, <1>2, <1>4, <3>4, TypesOfBlock
      <4>3. CountsOf(b)'
        BY <1>2, <3>1, <3>2, <4>1, <4>2 DEF CountsOf
      <4>4. LifecycleOf(b)'
        BY <1>1, <1>2, <3>1, <4>1, <4>2, TypesOfBlock DEF LifecycleOf
      <4> QED BY <2>4, <4>3, <4>4
    <3> QED BY <3>3, <3>4
  <2>5. CASE c # b
    <3>1. heap'[c] = heap[c]
      BY <1>4, <2>5
    <3>2. Owning(c)' = Owning(c) /\ Watching(c)' = Watching(c)
      BY <1>1, <2>2, <2>3, <2>5, TypesOfBlock
    <3> QED BY <2>1, <3>1, <3>2 DEF CountsOf, LifecycleOf
  <2> QED BY <2>4, <2>5
<1> QED BY <1>5, <1>6 DEF IInv

\* Owner s hands its reference to owner t, whose own one is lost.
LEMMA HandRiff ==
  ASSUME IInv, NEW s \in Owners, NEW t \in Owners, s # t, Move(s, t),
         lostRiffs' = Lose(lostRiffs, t),
         UNCHANGED <<heap, lostWeaks, undestroyed>>
  PROVE  IInv'
<1>1. TypeOK /\ t \in Slots
  BY SlotSets DEF IInv
<1>2. /\ lostRiffs' \in [Blocks -> Nat]
      /\ \A c \in Blocks : lostRiffs'[c] = lostRiffs[c] + Bit(ptr[t], c)
  BY <1>1, LoseField DEF TypeOK
<1>3. TypeOK'
  BY <1>1, <1>2, SlotSets DEF TypeOK, Move, Target
<1>4. ASSUME NEW c \in Blocks PROVE CountsOf(c)' /\ LifecycleOf(c)'
  <2>1. CountsOf(c) /\ LifecycleOf(c)
    BY DEF IInv
  <2>2. Owning(c)' = Owning(c) - Bit(ptr[t], c) /\ Watching(c)' = Watching(c)
    BY <1>1, MoveOwner
  <2>3. Bit(ptr[t], c) \in Nat
    BY DEF Bit
  <2>4. CountsOf(c)'
    BY <1>1, <1>2, <2>1, <2>2, <2>3, TypesOfBlock DEF CountsOf
  <2>5. LifecycleOf(c)'
    BY <2>1 DEF LifecycleOf
  <2> QED BY <2>4, <2>5
<1> QED BY <1>3, <1>4 DEF IInv

\* The three of weak references.
LEMMA GainWeak ==
  ASSUME IInv, NEW w \in WeakSlots, NEW b \in Target,
         b # NoBlock => heap[b].weaks > 0,
         Room(b), Point(w, b),
         heap' = RetainWeak(heap, b), lostWeaks' = Lose(lostWeaks, w),
         UNCHANGED <<lostRiffs, undestroyed>>
  PROVE  IInv'
<1>1. TypeOK /\ w \in Slots
  BY SlotSets DEF IInv
<1>2. /\ heap' \in [Blocks -> Block]
      /\ \A c \in Blocks :
           /\ heap'[c].weaks = heap[c].weaks + Bit(c, b)
           /\ heap'[c].riffs = heap[c].riffs
           /\ heap'[c].object = heap[c].object
           /\ heap'[c].freed <=> heap[c].freed
  BY <1>1, RetainWeakFields DEF TypeOK, Room
<1>3. /\ lostWeaks' \in [Blocks -> Nat]
      /\ \A c \in Blocks : lostWeaks'[c] = lostWeaks[c] + Bit(ptr[w], c)
  BY <1>1, LoseField DEF TypeOK
<1>4. TypeOK'
  BY <1>1, <1>2, <1>3, SlotSets DEF TypeOK, Point, Target
<1>5. ASSUME NEW c \in Blocks PROVE CountsOf(c)' /\ LifecycleOf(c)'
  <2>1. CountsOf(c) /\ LifecycleOf(c)
    BY DEF IInv
  <2>2. /\ Watching(c)' = Watching(c) - Bit(ptr[w], c) + Bit(b, c)
        /\ Owning(c)' = Owning(c)
    BY <1>1, PointWatcher
  <2>3. Bit(ptr[w], c) \in Nat /\ Bit(b, c) = Bit(c, b)
    BY DEF Bit
  <2>4. c = b => heap[c].weaks > 0
    BY BlocksAssumption
  <2>5. Bit(c, b) = IF c = b THEN 1 ELSE 0
    BY DEF Bit
  <2>6. CountsOf(c)'
    BY <1>1, <1>2, <1>3, <2>1, <2>2, <2>3, <2>5, TypesOfBlock DEF CountsOf
  <2>7. LifecycleOf(c)'
    BY <1>1, <1>2, <2>1, <2>4, <2>5, TypesOfBlock DEF LifecycleOf
  <2> QED BY <2>6, <2>7
<1> QED BY <1>4, <1>5 DEF IInv

\* A weak handle lets go of its reference; the last one frees the block.
LEMMA LoseWeak ==
  ASSUME IInv, NEW w \in WeakSlots, ~Empty(w), Point(w, NoBlock),
         heap' = DropWeak(heap, ptr[w]),
         UNCHANGED <<lostRiffs, lostWeaks, undestroyed>>
  PROVE  IInv'
<1>1. TypeOK /\ w \in Slots
  BY SlotSets DEF IInv
<1>7. PICK b \in Blocks : b = ptr[w]
  BY <1>1, HeldBlock
<1>2. b \in Blocks /\ heap[b].weaks > 0 /\ ~heap[b].freed /\ heap[b].object # "none"
  BY <1>1, <1>7, HeldBlock
<1>8. Watching(b) > 0
  BY <1>1, <1>2, <1>7, HolderCounts
<1>3. Pred(heap[b].weaks) = heap[b].weaks - 1
  BY <1>1, <1>2, TypesOfBlock DEF Pred
<1>4. /\ heap' \in [Blocks -> Block]
      /\ \A c \in Blocks \ {b} : heap'[c] = heap[c]
      /\ heap'[b].riffs = heap[b].riffs
      /\ heap'[b].object = heap[b].object
      /\ heap'[b].weaks = heap[b].weaks - 1
      /\ heap'[b].freed <=> heap[b].weaks = 1
  <2>1. heap \in [Blocks -> Block] /\ heap' = DropWeak(heap, b)
    BY <1>1, <1>7 DEF TypeOK
  <2> QED BY <1>2, <1>3, <2>1, DropWeakFields
<1>5. TypeOK'
  BY <1>1, <1>4, SlotSets DEF TypeOK, Point, Target
<1>6. ASSUME NEW c \in Blocks PROVE CountsOf(c)' /\ LifecycleOf(c)'
  <2>1. CountsOf(c) /\ LifecycleOf(c)
    BY DEF IInv
  <2>2. /\ Watching(c)' = Watching(c) - Bit(b, c) + Bit(NoBlock, c)
        /\ Owning(c)' = Owning(c)
    BY <1>1, <1>7, PointWatcher
  <2>3. Bit(NoBlock, c) = 0 /\ Bit(b, c) = IF b = c THEN 1 ELSE 0
    BY BlocksAssumption DEF Bit
  <2>4. CASE c = b
    <3>1. CountsOf(c)'
      BY <1>1, <1>2, <1>4, <2>1, <2>2, <2>3, <2>4, TypesOfBlock DEF CountsOf
    <3>2. LifecycleOf(c)'
      BY <1>1, <1>2, <1>4, <2>1, <2>4, TypesOfBlock DEF LifecycleOf
    <3> QED BY <3>1, <3>2
  <2>5. CASE c # b
    <3>1. heap'[c] = heap[c]
      BY <1>4, <2>5
    <3>2. Owning(c)' = Owning(c) /\ Watching(c)' = Watching(c)
      BY <1>1, <2>2, <2>3, <2>5, TypesOfBlock
    <3> QED BY <2>1, <3>1, <3>2 DEF CountsOf, LifecycleOf
  <2> QED BY <2>4, <2>5
<1> QED BY <1>5, <1>6 DEF IInv

\* A weak handle hands its reference to another, whose own one is lost.
LEMMA HandWeak ==
  ASSUME IInv, NEW w \in WeakSlots, NEW v \in WeakSlots, w # v, Move(w, v),
         lostWeaks' = Lose(lostWeaks, v),
         UNCHANGED <<heap, lostRiffs, undestroyed>>
  PROVE  IInv'
<1>1. TypeOK /\ v \in Slots
  BY SlotSets DEF IInv
<1>2. /\ lostWeaks' \in [Blocks -> Nat]
      /\ \A c \in Blocks : lostWeaks'[c] = lostWeaks[c] + Bit(ptr[v], c)
  BY <1>1, LoseField DEF TypeOK
<1>3. TypeOK'
  BY <1>1, <1>2, SlotSets DEF TypeOK, Move, Target
<1>4. ASSUME NEW c \in Blocks PROVE CountsOf(c)' /\ LifecycleOf(c)'
  <2>1. CountsOf(c) /\ LifecycleOf(c)
    BY DEF IInv
  <2>2. Watching(c)' = Watching(c) - Bit(ptr[v], c) /\ Owning(c)' = Owning(c)
    BY <1>1, MoveWatcher
  <2>3. Bit(ptr[v], c) \in Nat
    BY DEF Bit
  <2>4. CountsOf(c)'
    BY <1>1, <1>2, <2>1, <2>2, <2>3, TypesOfBlock DEF CountsOf
  <2>5. LifecycleOf(c)'
    BY <2>1 DEF LifecycleOf
  <2> QED BY <2>4, <2>5
<1> QED BY <1>3, <1>4 DEF IInv

\* A new object comes with its first owner.
LEMMA MakeBlock ==
  ASSUME IInv, NEW s \in StdSlots, NEW b \in Blocks, StdMake(s, b)
  PROVE  IInv'
<1>1. TypeOK /\ s \in Owners /\ Empty(s) /\ Point(s, b)
      /\ heap[b] = Unmade /\ heap' = [heap EXCEPT ![b] = Made]
      /\ UNCHANGED <<lostRiffs, lostWeaks, undestroyed>>
  BY SlotSets DEF IInv, StdMake
<1>2. Made \in Block
  BY BlocksAssumption DEF Made, Block
<1>3. TypeOK'
  BY <1>1, <1>2, SlotSets DEF TypeOK, Point
<1>4. ASSUME NEW c \in Blocks PROVE CountsOf(c)' /\ LifecycleOf(c)'
  <2>1. CountsOf(c) /\ LifecycleOf(c)
    BY DEF IInv
  <2>2. /\ Owning(c)' = Owning(c) - Bit(NoBlock, c) + Bit(b, c)
        /\ Watching(c)' = Watching(c)
    BY <1>1, PointOwner DEF Empty
  <2>3. Bit(NoBlock, c) = 0 /\ Bit(b, c) = IF b = c THEN 1 ELSE 0
    BY BlocksAssumption DEF Bit
  <2>4. CASE c = b
    <3>1. heap[c].riffs = 0 /\ heap[c].weaks = 0 /\ heap[c].object = "none"
      BY <1>1, <2>4 DEF Unmade
    <3>2. /\ heap'[c].riffs = 1 /\ heap'[c].weaks = 1
          /\ heap'[c].object = "alive" /\ heap'[c].freed = FALSE
      BY <1>1, <2>4 DEF TypeOK, Made
    <3>3. CountsOf(c)'
      <4>1. /\ Owning(c) = 0 /\ lostRiffs[c] = 0
            /\ Watching(c) = 0 /\ lostWeaks[c] = 0
        BY <1>1, <2>1, <3>1, TypesOfBlock DEF CountsOf
      <4>2. /\ Owning(c)' = 1 /\ lostRiffs'[c] = 0
            /\ Watching(c)' = 0 /\ lostWeaks'[c] = 0
        BY <1>1, <2>2, <2>3, <2>4, <4>1
      <4> QED BY <3>2, <4>2 DEF CountsOf
    <3>4. LifecycleOf(c)'
      BY <1>1, <2>1, <3>1, <3>2 DEF LifecycleOf
    <3> QED BY <3>3, <3>4
  <2>5. CASE c # b
    <3>1. heap'[c] = heap[c]
      BY <1>1, <2>5 DEF TypeOK
    <3>2. Owning(c)' = Owning(c)
      BY <1>1, <2>2, <2>3, <2>5, TypesOfBlock
    <3> QED BY <1>1, <2>1, <2>2, <3>1, <3>2 DEF CountsOf, LifecycleOf
  <2> QED BY <2>4, <2>5
<1> QED BY <1>3, <1>4 DEF IInv

\* Two owners of a block are two references.
LEMMA TwoOwners ==
  ASSUME TypeOK, NEW s \in Owners, NEW h \in Owners, s # h,
         NEW b \in Blocks, ptr[s] = b, ptr[h] = b
  PROVE  Owning(b) >= 2
<1>1. /\ RiffHolders(b) \subseteq Owners
      /\ s \in RiffHolders(b) /\ h \in RiffHolders(b) \ {s}
  BY DEF RiffHolders
<1>2. IsFiniteSet(RiffHolders(b)) /\ IsFiniteSet(RiffHolders(b) \ {s})
  BY <1>1, SlotSets, FS_Subset, FS_RemoveElement
<1>3. Cardinality(RiffHolders(b) \ {s}) = Cardinality(RiffHolders(b)) - 1
  BY <1>1, <1>2, FS_RemoveElement
<1>4. Cardinality(RiffHolders(b) \ {s}) # 0 /\ Cardinality(RiffHolders(b) \ {s}) \in Nat
  BY <1>1, <1>2, FS_EmptySet, FS_CardinalityType
<1> QED BY <1>3, <1>4, CountsAreNumbers DEF Owning

\* write_to replaces what the target owned; the object stays undestroyed.
LEMMA OverwriteOwner ==
  ASSUME IInv, NEW h \in StrongSlots, NEW s \in StdSlots, StrongWriteTo(h, s)
  PROVE  IInv'
<1> DEFINE released == Drop(heap, ptr[s], "nullptr")
           alive    == ~Empty(h) /\ released[ptr[h]].riffs > 0
           source   == IF alive THEN ptr[h] ELSE NoBlock
<1>1. /\ TypeOK /\ s \in Owners /\ h \in Owners /\ s # h
      /\ s \in Slots /\ h \in Slots
  BY SlotSets, SlotsAssumption DEF IInv
<1>2. PICK src \in Target : src = source
  BY <1>1 DEF TypeOK, Target
<1>3. PICK next : next = released
  OBVIOUS
<1>4. /\ Room(ptr[h]) /\ Point(s, src) /\ heap' = Retain(next, src)
      /\ undestroyed' = undestroyed \cup {b \in {ptr[s]} \ {NoBlock} : next[b].riffs = 0}
      /\ UNCHANGED <<lostRiffs, lostWeaks>>
  BY <1>2, <1>3 DEF StrongWriteTo
<1>5. src # NoBlock => src = ptr[h] /\ ~Empty(h) /\ next[src].riffs > 0
  BY <1>2, <1>3
<1>6. heap \in [Blocks -> Block] /\ Room(src)
  BY <1>1, <1>4, <1>5 DEF TypeOK, Room
<1>7. src # NoBlock => heap[src].riffs > 0
  BY <1>1, <1>5, HeldBlock
<1>8. CASE Empty(s)
  <2>1. next = heap /\ undestroyed' = undestroyed
    BY <1>3, <1>4, <1>8 DEF Drop, Empty
  <2>2. lostRiffs' = Lose(lostRiffs, s)
    BY <1>4, <1>8 DEF Lose, Empty
  <2> QED BY <1>1, <1>4, <1>6, <1>7, <2>1, <2>2, GainRiff
<1>9. CASE ~Empty(s)
  <2>1. PICK b \in Blocks : b = ptr[s]
    BY <1>1, <1>9, HeldBlock
  <2>2. heap[b].riffs > 0 /\ heap[b].weaks > 0 /\ ~heap[b].freed
        /\ heap[b].object = "alive" /\ b \notin undestroyed
    BY <1>1, <1>9, <2>1, HeldBlock DEF IInv, LifecycleOf
  <2>3. Pred(heap[b].riffs) = heap[b].riffs - 1 /\ Pred(heap[b].weaks) = heap[b].weaks - 1
    BY <1>1, <2>2, TypesOfBlock DEF Pred
  <2>4. /\ next \in [Blocks -> Block]
        /\ \A c \in Blocks \ {b} : next[c] = heap[c]
        /\ next[b].riffs = Pred(heap[b].riffs)
        /\ Pred(heap[b].riffs) # 0 =>
             /\ next[b].weaks = heap[b].weaks
             /\ next[b].object = heap[b].object
             /\ next[b].freed <=> heap[b].freed
        /\ Pred(heap[b].riffs) = 0 =>
             /\ next[b].weaks = Pred(heap[b].weaks)
             /\ next[b].freed <=> heap[b].weaks = 1
             /\ next[b].object = heap[b].object
    <3>1. next = Drop(heap, b, "nullptr")
      BY <1>3, <2>1
    <3> HIDE DEF released, alive, source
    <3> QED BY <1>6, <3>1, DropFields DEF Type
  <2> HIDE DEF released, alive, source
  <2>5. src # NoBlock => next[src].riffs < MaxCount
    <3>1. src # NoBlock => src \in Blocks /\ heap[src].riffs < MaxCount
      BY <1>6 DEF Room, Target
    <3> QED BY <1>1, <2>2, <2>3, <2>4, <3>1, TypesOfBlock
  <2>6. /\ heap' \in [Blocks -> Block]
        /\ \A c \in Blocks :
             /\ heap'[c].riffs = next[c].riffs + Bit(c, src)
             /\ heap'[c].weaks = next[c].weaks
             /\ heap'[c].object = next[c].object
             /\ heap'[c].freed <=> next[c].freed
    BY <1>4, <2>4, <2>5, RetainFields
  <2>7. undestroyed' = IF next[b].riffs = 0 THEN undestroyed \cup {b} ELSE undestroyed
    BY <1>4, <2>1, BlocksAssumption
  <2>8. TypeOK'
    BY <1>1, <1>4, <2>6, <2>7, SlotSets DEF TypeOK, Point, Target
  <2>9. ASSUME NEW c \in Blocks PROVE CountsOf(c)' /\ LifecycleOf(c)'
    <3>1. CountsOf(c) /\ LifecycleOf(c)
      BY DEF IInv
    <3>2. /\ Owning(c)' = Owning(c) - Bit(b, c) + Bit(src, c)
          /\ Watching(c)' = Watching(c)
      BY <1>1, <1>4, <2>1, PointOwner
    <3>3. /\ Bit(b, c) = IF b = c THEN 1 ELSE 0
          /\ Bit(src, c) = IF src = c THEN 1 ELSE 0
          /\ Bit(c, src) = IF c = src THEN 1 ELSE 0
      BY DEF Bit
    <3>4. lostRiffs'[c] = lostRiffs[c] /\ lostWeaks'[c] = lostWeaks[c]
      BY <1>4
    <3>5. CASE c # b
      <4>1. next[c] = heap[c] /\ (c \in undestroyed' <=> c \in undestroyed)
        BY <2>4, <2>7, <3>5
      <4>2. c = src => heap[c].riffs > 0
        BY <1>7, BlocksAssumption
      <4>3. /\ heap'[c].riffs = heap[c].riffs + (IF c = src THEN 1 ELSE 0)
            /\ heap'[c].weaks = heap[c].weaks
            /\ heap'[c].object = heap[c].object
            /\ heap'[c].freed <=> heap[c].freed
        BY <2>6, <3>3, <4>1
      <4>4. heap'[c].riffs > 0 <=> heap[c].riffs > 0
        BY <1>1, <4>2, <4>3, TypesOfBlock
      <4>5. heap'[c].riffs = Owning(c)' + lostRiffs'[c]
        BY <1>1, <3>1, <3>2, <3>3, <3>4, <3>5, <4>3, TypesOfBlock DEF CountsOf
      <4>6. CountsOf(c)'
        BY <3>1, <3>2, <3>4, <4>3, <4>4, <4>5 DEF CountsOf
      <4>7. LifecycleOf(c)'
        BY <1>1, <3>1, <4>1, <4>2, <4>3, <4>4, TypesOfBlock DEF LifecycleOf
      <4> QED BY <4>6, <4>7
    <3>6. CASE c = b /\ c = src
      <4>1. heap[c].riffs >= 2
        <5>1. ptr[s] = c /\ ptr[h] = c
          BY <1>5, <2>1, <3>6, BlocksAssumption
        <5>2. Owning(c) >= 2
          BY <1>1, <5>1, TwoOwners
        <5> QED BY <1>1, <3>1, <5>2, TypesOfBlock DEF CountsOf
      <4>2. Pred(heap[b].riffs) # 0 /\ next[b].riffs # 0
        BY <1>1, <2>3, <2>4, <3>6, <4>1, TypesOfBlock
      <4>3. /\ heap'[c].riffs = heap[c].riffs
            /\ heap'[c].weaks = heap[c].weaks
            /\ heap'[c].object = heap[c].object
            /\ heap'[c].freed <=> heap[c].freed
        <5>1. /\ next[c].riffs = heap[c].riffs - 1
              /\ next[c].weaks = heap[c].weaks
              /\ next[c].object = heap[c].object
              /\ next[c].freed <=> heap[c].freed
          BY <2>3, <2>4, <3>6, <4>2
        <5>2. heap'[c].riffs = next[c].riffs + 1
          BY <2>6, <3>3, <3>6
        <5> QED BY <1>1, <2>6, <5>1, <5>2, TypesOfBlock
      <4>4. Owning(c)' = Owning(c) /\ undestroyed' = undestroyed
        BY <1>1, <2>7, <3>2, <3>3, <3>6, <4>2, TypesOfBlock
      <4> QED BY <3>1, <3>2, <3>4, <4>3, <4>4 DEF CountsOf, LifecycleOf
    <3>7. CASE c = b /\ c # src
      <4>1. heap'[c].riffs = heap[c].riffs - 1
        BY <1>1, <2>3, <2>4, <2>6, <3>3, <3>7, TypesOfBlock
      <4>2. heap'[c].riffs = Owning(c)' + lostRiffs'[c]
        BY <1>1, <3>1, <3>2, <3>3, <3>4, <3>7, <4>1, TypesOfBlock DEF CountsOf
      <4>3. CASE heap[c].riffs = 1
        <5>1. /\ heap'[c].riffs = 0 /\ heap'[c].weaks = heap[c].weaks - 1
              /\ heap'[c].object = "alive"
              /\ heap'[c].freed <=> heap[c].weaks = 1
              /\ c \in undestroyed'
          BY <1>1, <2>2, <2>3, <2>4, <2>6, <2>7, <3>7, <4>1, <4>3, TypesOfBlock
        <5>2. CountsOf(c)'
          <6>1. heap[c].weaks = Watching(c) + lostWeaks[c] + 1
            BY <3>1, <4>3 DEF CountsOf
          <6>2. heap'[c].weaks = Watching(c)' + lostWeaks'[c]
            BY <1>1, <3>2, <3>4, <5>1, <6>1, TypesOfBlock
          <6>3. Watching(c)' \in Nat /\ lostWeaks'[c] \in Nat
            BY <1>1, <3>2, <3>4, TypesOfBlock
          <6> QED BY <4>2, <5>1, <6>2, <6>3 DEF CountsOf
        <5>3. LifecycleOf(c)'
          BY <1>1, <2>2, <3>7, <5>1, TypesOfBlock DEF LifecycleOf
        <5> QED BY <5>2, <5>3
      <4>4. CASE heap[c].riffs # 1
        <5>1. Pred(heap[b].riffs) # 0 /\ next[b].riffs # 0 /\ heap[c].riffs > 1
          BY <1>1, <2>2, <2>3, <2>4, <3>7, <4>4, TypesOfBlock
        <5>2. /\ heap'[c].riffs > 0 /\ heap'[c].weaks = heap[c].weaks
              /\ heap'[c].object = heap[c].object
              /\ heap'[c].freed <=> heap[c].freed
              /\ undestroyed' = undestroyed
          BY <1>1, <2>4, <2>6, <2>7, <3>7, <4>1, <5>1, TypesOfBlock
        <5>3. CountsOf(c)'
          BY <2>2, <3>1, <3>2, <3>4, <3>7, <4>2, <5>2 DEF CountsOf
        <5>4. LifecycleOf(c)'
          BY <2>2, <3>1, <3>7, <5>2 DEF LifecycleOf
        <5> QED BY <5>3, <5>4
      <4> QED BY <4>3, <4>4
    <3> QED BY <3>5, <3>6, <3>7
  <2> QED BY <2>8, <2>9 DEF IInv
<1> QED BY <1>8, <1>9

----------------------------------------------------------------------------
(* The theorems                                                            *)

\* Overwriting an empty slot loses nothing.
LEMMA LoseNothing ==
  ASSUME NEW s \in Slots, Empty(s), NEW lost
  PROVE  Lose(lost, s) = lost
BY DEF Lose, Empty

\* The invariant holds before the first operation.
LEMMA InitHolds == Init => IInv
<1> SUFFICES ASSUME Init PROVE IInv
  OBVIOUS
<1>1. TypeOK
  BY BlocksAssumption DEF Init, TypeOK, Block, Unmade
<1>2. ASSUME NEW b \in Blocks PROVE CountsOf(b) /\ LifecycleOf(b)
  <2>1. /\ heap[b].riffs = 0 /\ heap[b].weaks = 0 /\ heap[b].object = "none"
        /\ heap[b].freed = FALSE /\ lostRiffs[b] = 0 /\ lostWeaks[b] = 0
    BY DEF Init, Unmade
  <2>2. RiffHolders(b) = {} /\ WeakHolders(b) = {}
    BY SlotSets, BlocksAssumption DEF Init, RiffHolders, WeakHolders
  <2>3. Owning(b) = 0 /\ Watching(b) = 0
    BY <2>2, FS_EmptySet DEF Owning, Watching
  <2> QED BY <2>1, <2>3 DEF Init, CountsOf, LifecycleOf
<1> QED BY <1>1, <1>2 DEF IInv

\* The operations of std::shared_ptr keep the invariant.
LEMMA StdStep ==
  ASSUME IInv, StdNext
  PROVE  IInv'
<1>0. TypeOK /\ StdSlots \subseteq Owners /\ Owners \subseteq Slots
  BY SlotSets DEF IInv
<1>1. ASSUME NEW s \in StdSlots, NEW b \in Blocks, StdMake(s, b) PROVE IInv'
  BY <1>1, MakeBlock
<1>2. ASSUME NEW s \in StdSlots, NEW t \in StdSlots, StdCopy(s, t) PROVE IInv'
  <2>1. ptr[s] \in Target /\ heap[ptr[s]].riffs > 0
    BY <1>0, <1>2, HeldBlock DEF StdCopy, Target
  <2>2. lostRiffs' = Lose(lostRiffs, t)
    BY <1>0, <1>2, LoseNothing DEF StdCopy
  <2> QED BY <1>0, <1>2, <2>1, <2>2, GainRiff DEF StdCopy
<1>3. ASSUME NEW s \in StdSlots, NEW t \in StdSlots, StdMove(s, t) PROVE IInv'
  <2>1. lostRiffs' = Lose(lostRiffs, t) /\ s # t
    BY <1>0, <1>3, LoseNothing DEF StdMove, Empty
  <2> QED BY <1>0, <1>3, <2>1, HandRiff DEF StdMove
<1>4. ASSUME NEW s \in StdSlots, StdRelease(s) PROVE IInv'
  BY <1>0, <1>4, LoseRiff DEF StdRelease
<1> QED BY <1>1, <1>2, <1>3, <1>4 DEF StdNext

\* The operations of rtti::shared_ptr keep the invariant.
LEMMA StrongStep ==
  ASSUME IInv, StrongNext
  PROVE  IInv'
<1>0. /\ TypeOK /\ Owners \subseteq Slots
      /\ StdSlots \subseteq Owners /\ StrongSlots \subseteq Owners
  BY SlotSets DEF IInv
<1>1. ASSUME NEW h \in StrongSlots, NEW s \in StdSlots, StrongFromStd(h, s) PROVE IInv'
  <2>1. ptr[s] \in Target /\ heap[ptr[s]].riffs > 0
    BY <1>0, <1>1, HeldBlock DEF StrongFromStd, Target
  <2>2. lostRiffs' = Lose(lostRiffs, h)
    BY <1>0, <1>1, LoseNothing DEF StrongFromStd
  <2> QED BY <1>0, <1>1, <2>1, <2>2, GainRiff DEF StrongFromStd
<1>2. ASSUME NEW h \in StrongSlots, NEW g \in StrongSlots, StrongCopyConstruct(h, g)
      PROVE IInv'
  <2>1. ptr[g] \in Target /\ (ptr[g] # NoBlock => heap[ptr[g]].riffs > 0)
    BY <1>0, HeldBlock DEF Target, Empty
  <2>2. lostRiffs' = Lose(lostRiffs, h)
    BY <1>0, <1>2, LoseNothing DEF StrongCopyConstruct
  <2> QED BY <1>0, <1>2, <2>1, <2>2, GainRiff DEF StrongCopyConstruct
<1>3. ASSUME NEW h \in StrongSlots, NEW g \in StrongSlots, StrongMoveConstruct(h, g)
      PROVE IInv'
  <2>1. lostRiffs' = Lose(lostRiffs, h) /\ g # h
    BY <1>0, <1>3, LoseNothing DEF StrongMoveConstruct, Empty
  <2> QED BY <1>0, <1>3, <2>1, HandRiff DEF StrongMoveConstruct
<1>4. ASSUME NEW h \in StrongSlots, NEW g \in StrongSlots, StrongCopyAssign(h, g)
      PROVE IInv'
  <2>1. ptr[g] \in Target /\ (ptr[g] # NoBlock => heap[ptr[g]].riffs > 0)
    BY <1>0, HeldBlock DEF Target, Empty
  <2> QED BY <1>0, <1>4, <2>1, GainRiff DEF StrongCopyAssign
<1>5. ASSUME NEW h \in StrongSlots, NEW g \in StrongSlots, StrongMoveAssign(h, g)
      PROVE IInv'
  BY <1>0, <1>5, HandRiff DEF StrongMoveAssign
<1>6. ASSUME NEW h \in StrongSlots, StrongDestroy(h) PROVE IInv'
  BY <1>0, <1>6, LoseRiff DEF StrongDestroy
<1>7. ASSUME NEW h \in StrongSlots, NEW s \in StdSlots, StrongToStd(h, s) PROVE IInv'
  <2>1. ptr[h] \in Target
    BY <1>0, <1>7, HeldBlock DEF StrongToStd, Target
  <2>2. lostRiffs' = Lose(lostRiffs, s)
    BY <1>0, <1>7, LoseNothing DEF StrongToStd
  <2> QED BY <1>0, <1>7, <2>1, <2>2, GainRiff DEF StrongToStd
<1>8. ASSUME NEW h \in StrongSlots, NEW s \in StdSlots, StrongWriteTo(h, s) PROVE IInv'
  BY <1>8, OverwriteOwner
<1> QED BY <1>1, <1>2, <1>3, <1>4, <1>5, <1>6, <1>7, <1>8 DEF StrongNext

\* The only step of the file that needs ~OverwriteByWeak is the last one.
LEMMA WeakStep ==
  ASSUME ~OverwriteByWeak, IInv, WeakNext
  PROVE  IInv'
<1>0. /\ TypeOK /\ Owners \subseteq Slots /\ WeakSlots \subseteq Slots
      /\ StdSlots \subseteq Owners
  BY SlotSets DEF IInv
<1>1. ASSUME NEW w \in WeakSlots, NEW s \in StdSlots, WeakFromStd(w, s) PROVE IInv'
  <2>1. ptr[s] \in Target /\ heap[ptr[s]].weaks > 0
    BY <1>0, <1>1, HeldBlock DEF WeakFromStd, Target
  <2>2. lostWeaks' = Lose(lostWeaks, w)
    BY <1>0, <1>1, LoseNothing DEF WeakFromStd
  <2> QED BY <1>0, <1>1, <2>1, <2>2, GainWeak DEF WeakFromStd
<1>2. ASSUME NEW w \in WeakSlots, NEW v \in WeakSlots, WeakCopyConstruct(w, v) PROVE IInv'
  <2>1. ptr[v] \in Target /\ (ptr[v] # NoBlock => heap[ptr[v]].weaks > 0)
    BY <1>0, HeldBlock DEF Target, Empty
  <2>2. lostWeaks' = Lose(lostWeaks, w)
    BY <1>0, <1>2, LoseNothing DEF WeakCopyConstruct
  <2> QED BY <1>0, <1>2, <2>1, <2>2, GainWeak DEF WeakCopyConstruct
<1>3. ASSUME NEW w \in WeakSlots, NEW v \in WeakSlots, WeakMoveConstruct(w, v) PROVE IInv'
  <2>1. lostWeaks' = Lose(lostWeaks, w) /\ v # w
    BY <1>0, <1>3, LoseNothing DEF WeakMoveConstruct, Empty
  <2> QED BY <1>0, <1>3, <2>1, HandWeak DEF WeakMoveConstruct
<1>4. ASSUME NEW w \in WeakSlots, NEW v \in WeakSlots, WeakCopyAssign(w, v) PROVE IInv'
  <2>1. ptr[v] \in Target /\ (ptr[v] # NoBlock => heap[ptr[v]].weaks > 0)
    BY <1>0, HeldBlock DEF Target, Empty
  <2> QED BY <1>0, <1>4, <2>1, GainWeak DEF WeakCopyAssign
<1>5. ASSUME NEW w \in WeakSlots, NEW v \in WeakSlots, WeakMoveAssign(w, v) PROVE IInv'
  BY <1>0, <1>5, HandWeak DEF WeakMoveAssign
<1>6. ASSUME NEW w \in WeakSlots, WeakDestroy(w) PROVE IInv'
  BY <1>0, <1>6, LoseWeak DEF WeakDestroy
<1>7. ASSUME NEW w \in WeakSlots, NEW s \in StdSlots, WeakToStd(w, s) PROVE IInv'
  <2>1. ptr[w] \in Target
    BY <1>0, <1>7, HeldBlock DEF WeakToStd, Target
  <2>2. lostRiffs' = Lose(lostRiffs, s)
    BY <1>0, <1>7, LoseNothing DEF WeakToStd
  <2> QED BY <1>0, <1>7, <2>1, <2>2, GainRiff DEF WeakToStd
<1>8. ASSUME NEW w \in WeakSlots, NEW s \in StdSlots, WeakWriteTo(w, s) PROVE IInv'
  <2>1. PICK source \in Target :
          source = IF heap[ptr[w]].riffs > 0 THEN ptr[w] ELSE NoBlock
    BY <1>0, <1>8, HeldBlock DEF WeakWriteTo, Target
  <2>2. Empty(s) /\ DropWeak(heap, ptr[s]) = heap
    BY <1>8 DEF WeakWriteTo, Empty, DropWeak
  <2>3. Point(s, source) /\ heap' = Retain(heap, source) /\ Room(source)
    BY <1>8, <2>1, <2>2 DEF WeakWriteTo, Room
  <2>4. lostRiffs' = Lose(lostRiffs, s) /\ UNCHANGED <<lostWeaks, undestroyed>>
    BY <1>0, <1>8, <2>2, LoseNothing DEF WeakWriteTo
  <2>5. source # NoBlock => heap[source].riffs > 0
    BY <2>1
  <2> QED BY <1>0, <2>3, <2>4, <2>5, GainRiff
<1> QED BY <1>1, <1>2, <1>3, <1>4, <1>5, <1>6, <1>7, <1>8 DEF WeakNext

\* A step of nothing keeps the invariant.
LEMMA StutterStep ==
  ASSUME IInv, UNCHANGED vars
  PROVE  IInv'
BY DEF vars, IInv, TypeOK, CountsOf, LifecycleOf, Owning, Watching, RiffHolders, WeakHolders

\* The counters count their holders in every reachable state.
THEOREM Invariance == ~OverwriteByWeak => (Spec => []IInv)
<1> SUFFICES ASSUME ~OverwriteByWeak PROVE Spec => []IInv
  OBVIOUS
<1>1. IInv /\ [Next]_vars => IInv'
  BY StdStep, StrongStep, WeakStep, StutterStep DEF Next
<1> QED BY <1>1, InitHolds, PTL DEF Spec

\* Slots, counters and histories keep their types: no counter wraps.
THEOREM TypeCorrect == ~OverwriteByWeak => (Spec => []TypeOK)
<1>1. IInv => TypeOK
  BY DEF IInv
<1> QED BY <1>1, Invariance, PTL

\* The strong counter of a block is the number of its owners plus the strong
\* references that operator= overwrote.
THEOREM Conservation == ~OverwriteByWeak => (Spec => []RiffsConserved)
<1>1. IInv => RiffsConserved
  BY DEF IInv, CountsOf, Owning, RiffsConserved
<1> QED BY <1>1, Invariance, PTL

\* Its weak counter is the number of its weak handles, plus those operator=
\* overwrote, plus one that the strong references hold together.
THEOREM WeakConservation == ~OverwriteByWeak => (Spec => []WeaksConserved)
<1>1. IInv => WeaksConserved
  BY DEF IInv, CountsOf, Watching, WeaksConserved
<1> QED BY <1>1, Invariance, PTL

\* A strong handle may be dereferenced and a weak one may read its counters.
THEOREM NoUseAfterFree == ~OverwriteByWeak => (Spec => []HeldIsUsable)
<1>1. IInv => HeldIsUsable
  <2> SUFFICES ASSUME IInv PROVE HeldIsUsable
    OBVIOUS
  <2>1. Owners \subseteq Slots /\ WeakSlots \subseteq Slots
    BY SlotSets
  <2> QED BY <2>1, HeldBlock DEF HeldIsUsable
<1> QED BY <1>1, Invariance, PTL

\* Only operator= leaks a control block.
THEOREM OnlyAssignmentLeaks == ~OverwriteByWeak => (Spec => []LeakedOnlyByAssignment)
<1>1. IInv => LeakedOnlyByAssignment
  <2> SUFFICES ASSUME IInv, NEW b \in Blocks,
                      heap[b].object # "none", RiffHolders(b) = {}, WeakHolders(b) = {},
                      lostRiffs[b] = 0, lostWeaks[b] = 0
               PROVE  heap[b].freed
    BY DEF LeakedOnlyByAssignment
  <2>1. CountsOf(b) /\ LifecycleOf(b)
    BY DEF IInv
  <2>2. Owning(b) = 0 /\ Watching(b) = 0
    BY FS_EmptySet DEF Owning, Watching
  <2>3. heap[b].riffs = 0 /\ heap[b].weaks = 0
    BY <2>1, <2>2 DEF CountsOf
  <2> QED BY <2>1, <2>3 DEF LifecycleOf
<1> QED BY <1>1, Invariance, PTL

\* The object goes with its last strong reference, unless write_to dropped it.
THEOREM DestructionIsExact == ~OverwriteByWeak => (Spec => []DestroyedWithLastRiff)
<1>1. IInv => DestroyedWithLastRiff
  <2> SUFFICES ASSUME IInv, NEW b \in Blocks, heap[b].object # "none"
               PROVE  heap[b].object = "destroyed" <=>
                        heap[b].riffs = 0 /\ b \notin undestroyed
    BY DEF DestroyedWithLastRiff
  <2>1. LifecycleOf(b) /\ heap[b].riffs \in Nat
    BY BlocksAssumption, TypesOfBlock DEF IInv
  <2> QED BY <2>1 DEF LifecycleOf
<1> QED BY <1>1, Invariance, PTL

\* What weak_ptr.cpp:154-158 says holds when no weak write_to overwrites.
THEOREM WeaksOutlive == ~OverwriteByWeak => (Spec => []WeaksOutliveRiffs)
<1>1. IInv => WeaksOutliveRiffs
  <2> SUFFICES ASSUME IInv, NEW b \in Blocks, heap[b].riffs > 0
               PROVE  heap[b].weaks >= 1
    BY DEF WeaksOutliveRiffs
  <2> QED BY TypesOfBlock DEF IInv, CountsOf
<1> QED BY <1>1, Invariance, PTL
----------------------------------------------------------------------------
(* No resurrection: a block without strong references gets no new one.     *)

Dead(b) == heap[b].object # "none" /\ heap[b].riffs = 0

\* A new reference goes to a block that has one.
LEMMA RetainLeavesDead ==
  ASSUME TypeOK, NEW c \in Target, c # NoBlock => heap[c].riffs > 0, Room(c),
         heap' = Retain(heap, c), NEW b \in Blocks, Dead(b)
  PROVE  heap'[b].riffs = 0
<1>1. heap'[b].riffs = heap[b].riffs + Bit(b, c)
  BY RetainFields DEF TypeOK, Room
<1>2. b # c
  BY BlocksAssumption, TypesOfBlock DEF Dead
<1> QED BY <1>1, <1>2 DEF Bit, Dead

\* An owner that lets go has a block with references.
LEMMA DropLeavesDead ==
  ASSUME IInv, NEW s \in Owners, ~Empty(s), NEW type \in Type,
         NEW next, next = Drop(heap, ptr[s], type), NEW b \in Blocks, Dead(b)
  PROVE  next \in [Blocks -> Block] /\ next[b] = heap[b]
<1>1. s \in Slots /\ heap \in [Blocks -> Block]
  BY SlotSets DEF IInv, TypeOK
<1>2. ptr[s] \in Blocks /\ heap[ptr[s]].riffs > 0
  BY <1>1, HeldBlock
<1>3. b # ptr[s]
  BY <1>2 DEF Dead
<1> QED BY <1>1, <1>2, <1>3, DropFields

\* Counting weak references leaves the strong ones alone.
LEMMA WeakCountsLeaveDead ==
  ASSUME TypeOK, NEW c \in Target,
         (Room(c) /\ heap' = RetainWeak(heap, c)) \/ heap' = DropWeak(heap, c),
         NEW b \in Blocks, Dead(b)
  PROVE  heap'[b].riffs = 0
<1>1. CASE Room(c) /\ heap' = RetainWeak(heap, c)
  BY <1>1, RetainWeakFields DEF TypeOK, Room, Dead
<1>2. CASE heap' = DropWeak(heap, c)
  <2>1. CASE c = NoBlock
    BY <1>2, <2>1 DEF DropWeak, Dead
  <2>2. CASE c \in Blocks
    <3>1. heap \in [Blocks -> Block]
      BY DEF TypeOK
    <3>2. DropWeak(heap, c)[b].riffs = heap[b].riffs
      BY <2>2, <3>1, DropWeakFields
    <3> QED BY <1>2, <3>2 DEF Dead
  <2> QED BY <2>1, <2>2 DEF Target
<1> QED BY <1>1, <1>2

\* The operations of std::shared_ptr revive nothing.
LEMMA StdLeavesDead ==
  ASSUME IInv, StdNext, NEW b \in Blocks, Dead(b)
  PROVE  heap'[b].riffs = 0
<1>0. TypeOK /\ StdSlots \subseteq Owners /\ Owners \subseteq Slots
  BY SlotSets DEF IInv
<1>1. ASSUME NEW s \in StdSlots, NEW c \in Blocks, StdMake(s, c) PROVE heap'[b].riffs = 0
  <2>1. b # c
    BY <1>1 DEF StdMake, Unmade, Dead
  <2> QED BY <1>0, <1>1, <2>1 DEF StdMake, TypeOK, Dead
<1>2. ASSUME NEW s \in StdSlots, NEW t \in StdSlots, StdCopy(s, t) PROVE heap'[b].riffs = 0
  <2>1. ptr[s] \in Target /\ heap[ptr[s]].riffs > 0
    BY <1>0, <1>2, HeldBlock DEF StdCopy, Target
  <2> QED BY <1>0, <1>2, <2>1, RetainLeavesDead DEF StdCopy
<1>3. ASSUME NEW s \in StdSlots, NEW t \in StdSlots, StdMove(s, t) PROVE heap'[b].riffs = 0
  BY <1>3 DEF StdMove, Dead
<1>4. ASSUME NEW s \in StdSlots, StdRelease(s) PROVE heap'[b].riffs = 0
  <2>1. "T" \in Type /\ heap' = Drop(heap, ptr[s], "T")
    BY <1>4 DEF StdRelease, Type
  <2> QED BY <1>0, <1>4, <2>1, DropLeavesDead DEF StdRelease, Dead
<1> QED BY <1>1, <1>2, <1>3, <1>4 DEF StdNext

\* shared_ptr::write_to revives nothing, although it counts twice.
LEMMA WriteToLeavesDead ==
  ASSUME IInv, NEW h \in StrongSlots, NEW s \in StdSlots, StrongWriteTo(h, s),
         NEW b \in Blocks, Dead(b)
  PROVE  heap'[b].riffs = 0
<1> DEFINE released == Drop(heap, ptr[s], "nullptr")
           alive    == ~Empty(h) /\ released[ptr[h]].riffs > 0
           source   == IF alive THEN ptr[h] ELSE NoBlock
<1>1. /\ TypeOK /\ s \in Owners /\ h \in Owners /\ h \in Slots
  BY SlotSets DEF IInv
<1>2. PICK src \in Target : src = source
  BY <1>1 DEF TypeOK, Target
<1>3. PICK next : next = released
  OBVIOUS
<1>4. heap' = Retain(next, src)
  BY <1>2, <1>3 DEF StrongWriteTo
<1>5. src # NoBlock => src = ptr[h] /\ next[src].riffs > 0
  BY <1>2, <1>3
<1>6. next[b] = heap[b]
  <2>1. CASE Empty(s)
    BY <1>3, <2>1 DEF Drop, Empty
  <2>2. CASE ~Empty(s)
    <3>1. "nullptr" \in Type
      BY DEF Type
    <3> QED BY <1>1, <1>3, <2>2, <3>1, DropLeavesDead
  <2> QED BY <2>1, <2>2
<1>7. src # b
  BY <1>5, <1>6, BlocksAssumption DEF Dead
<1>8. Retain(next, src)[b] = next[b]
  BY <1>7 DEF Retain
<1> QED BY <1>4, <1>6, <1>8 DEF Dead

\* The operations of rtti::shared_ptr revive nothing.
LEMMA StrongLeavesDead ==
  ASSUME IInv, StrongNext, NEW b \in Blocks, Dead(b)
  PROVE  heap'[b].riffs = 0
<1>0. /\ TypeOK /\ Owners \subseteq Slots
      /\ StdSlots \subseteq Owners /\ StrongSlots \subseteq Owners
  BY SlotSets DEF IInv
<1>1. ASSUME NEW h \in StrongSlots, NEW s \in StdSlots, StrongFromStd(h, s)
      PROVE heap'[b].riffs = 0
  <2>1. ptr[s] \in Target /\ heap[ptr[s]].riffs > 0
    BY <1>0, <1>1, HeldBlock DEF StrongFromStd, Target
  <2> QED BY <1>0, <1>1, <2>1, RetainLeavesDead DEF StrongFromStd
<1>2. ASSUME NEW g \in StrongSlots, Room(ptr[g]), heap' = Retain(heap, ptr[g])
      PROVE heap'[b].riffs = 0
  <2>1. ptr[g] \in Target /\ (ptr[g] # NoBlock => heap[ptr[g]].riffs > 0)
    BY <1>0, HeldBlock DEF TypeOK, Target, Empty
  <2> QED BY <1>0, <1>2, <2>1, RetainLeavesDead
<1>3. ASSUME NEW h \in StrongSlots, NEW g \in StrongSlots,
             StrongMoveConstruct(h, g) \/ StrongMoveAssign(h, g)
      PROVE heap'[b].riffs = 0
  BY <1>3 DEF StrongMoveConstruct, StrongMoveAssign, Dead
<1>4. ASSUME NEW h \in StrongSlots, StrongDestroy(h) PROVE heap'[b].riffs = 0
  <2>1. "T" \in Type /\ heap' = Drop(heap, ptr[h], "T")
    BY <1>4 DEF StrongDestroy, Type
  <2> QED BY <1>0, <1>4, <2>1, DropLeavesDead DEF StrongDestroy, Dead
<1>5. ASSUME NEW h \in StrongSlots, NEW s \in StdSlots, StrongToStd(h, s)
      PROVE heap'[b].riffs = 0
  BY <1>2, <1>5 DEF StrongToStd
<1>6. ASSUME NEW h \in StrongSlots, NEW s \in StdSlots, StrongWriteTo(h, s)
      PROVE heap'[b].riffs = 0
  BY <1>6, WriteToLeavesDead
<1>7. ASSUME NEW h \in StrongSlots, NEW g \in StrongSlots,
             StrongCopyConstruct(h, g) \/ StrongCopyAssign(h, g)
      PROVE heap'[b].riffs = 0
  BY <1>2, <1>7 DEF StrongCopyConstruct, StrongCopyAssign
<1> QED BY <1>1, <1>3, <1>4, <1>5, <1>6, <1>7 DEF StrongNext

\* The operations of rtti::weak_ptr revive nothing, expired handles included.
LEMMA WeakLeavesDead ==
  ASSUME ~OverwriteByWeak, IInv, WeakNext, NEW b \in Blocks, Dead(b)
  PROVE  heap'[b].riffs = 0
<1>0. /\ TypeOK /\ Slots = Owners \cup WeakSlots /\ StdSlots \subseteq Owners
      /\ \A s \in Slots : ptr[s] \in Target
  BY SlotSets DEF IInv, TypeOK, Slots, Target
<1>1. ASSUME NEW w \in WeakSlots, NEW s \in StdSlots, WeakFromStd(w, s)
      PROVE heap'[b].riffs = 0
  BY <1>0, <1>1, WeakCountsLeaveDead DEF WeakFromStd
<1>2. ASSUME NEW w \in WeakSlots, NEW v \in WeakSlots,
             WeakCopyConstruct(w, v) \/ WeakCopyAssign(w, v)
      PROVE heap'[b].riffs = 0
  BY <1>0, <1>2, WeakCountsLeaveDead DEF WeakCopyConstruct, WeakCopyAssign
<1>3. ASSUME NEW w \in WeakSlots, NEW v \in WeakSlots,
             WeakMoveConstruct(w, v) \/ WeakMoveAssign(w, v)
      PROVE heap'[b].riffs = 0
  BY <1>3 DEF WeakMoveConstruct, WeakMoveAssign, Dead
<1>4. ASSUME NEW w \in WeakSlots, WeakDestroy(w) PROVE heap'[b].riffs = 0
  BY <1>0, <1>4, WeakCountsLeaveDead DEF WeakDestroy
<1>5. ASSUME NEW w \in WeakSlots, NEW s \in StdSlots, WeakToStd(w, s)
      PROVE heap'[b].riffs = 0
  BY <1>0, <1>5, RetainLeavesDead DEF WeakToStd
<1>6. ASSUME NEW w \in WeakSlots, NEW s \in StdSlots, WeakWriteTo(w, s)
      PROVE heap'[b].riffs = 0
  <2>1. PICK source \in Target :
          source = IF heap[ptr[w]].riffs > 0 THEN ptr[w] ELSE NoBlock
    BY <1>0 DEF Target
  <2>2. DropWeak(heap, ptr[s]) = heap
    BY <1>6 DEF WeakWriteTo, Empty, DropWeak
  <2>3. heap' = Retain(heap, source) /\ Room(source)
    BY <1>6, <2>1, <2>2 DEF WeakWriteTo, Room
  <2>4. source # NoBlock => heap[source].riffs > 0
    BY <2>1
  <2> QED BY <1>0, <2>3, <2>4, RetainLeavesDead
<1> QED BY <1>1, <1>2, <1>3, <1>4, <1>5, <1>6 DEF WeakNext

\* No conversion and no write_to gives an object a strong reference again
\* after its last one has gone.
THEOREM DeadStaysDead == ~OverwriteByWeak => (Spec => NoResurrection)
<1> SUFFICES ASSUME ~OverwriteByWeak PROVE Spec => NoResurrection
  OBVIOUS
<1> DEFINE Stays == \A b \in Blocks :
             heap[b].object # "none" /\ heap[b].riffs = 0 => heap'[b].riffs = 0
<1>1. IInv /\ [Next]_vars => Stays
  <2> SUFFICES ASSUME IInv, [Next]_vars, NEW b \in Blocks, Dead(b)
               PROVE  heap'[b].riffs = 0
    BY DEF Dead
  <2>1. CASE Next
    BY <2>1, StdLeavesDead, StrongLeavesDead, WeakLeavesDead DEF Next
  <2>2. CASE UNCHANGED vars
    BY <2>2 DEF vars, Dead
  <2> QED BY <2>1, <2>2
<1>2. Spec => []IInv
  BY Invariance
<1> QED BY <1>1, <1>2, PTL DEF Spec, NoResurrection
=============================================================================

---------------------------- MODULE RttiPointers ----------------------------
(***************************************************************************)
(* zx::rtti::shared_ptr and zx::rtti::weak_ptr: type-erased handles that   *)
(* take part in the reference counting of a std::shared_ptr by reaching    *)
(* into its control block (zx_rtti_shared_ptr.h and .cpp,                  *)
(* zx_rtti_weak_ptr.h and .cpp).                                           *)
(*                                                                         *)
(* A slot is a place of the program that may hold a handle: a variable, a  *)
(* field, a temporary.  A slot that holds no constructed handle and a slot *)
(* that holds an empty one are the same state: the destructor of an empty  *)
(* handle does nothing.  Each control block comes with one object, as      *)
(* std::make_shared builds it, so _address and _ref_cntr of a handle       *)
(* always agree and ptr[s] stands for the pair.                            *)
(*                                                                         *)
(* Operations are atomic here: the clients serialise them.  What happens   *)
(* when they do not is the subject of RefCountRace.                        *)
(***************************************************************************)
EXTENDS Naturals, FiniteSets

CONSTANTS
  StdSlots,         \* slots of type std::shared_ptr<T>
  StrongSlots,      \* slots of type zx::rtti::shared_ptr
  WeakSlots,        \* slots of type zx::rtti::weak_ptr
  Blocks,           \* control blocks the program may allocate
  NoBlock,          \* what an empty slot points to
  MaxCount,         \* largest value of a counter (std::atomic<unsigned long>)
  OverwriteByWeak   \* whether a client lets weak_ptr::write_to replace a
                    \* std::shared_ptr that is not empty

Owners == StdSlots \cup StrongSlots
Slots  == Owners \cup WeakSlots

ASSUME SlotsAssumption ==
  /\ IsFiniteSet(StdSlots) /\ IsFiniteSet(StrongSlots) /\ IsFiniteSet(WeakSlots)
  /\ StdSlots \cap StrongSlots = {}
  /\ Owners \cap WeakSlots = {}

ASSUME BlocksAssumption ==
  /\ NoBlock \notin Blocks
  /\ MaxCount \in Nat \ {0}
  /\ OverwriteByWeak \in BOOLEAN

VARIABLES
  ptr,          \* ptr[s]: the block the handle in slot s points to
  heap,         \* heap[b]: the control block and the state of its object
  lostRiffs,    \* history: strong references an assignment overwrote
  lostWeaks,    \* history: weak references an assignment overwrote
  undestroyed   \* history: blocks whose last strong reference a write_to dropped

vars == <<ptr, heap, lostRiffs, lostWeaks, undestroyed>>

Block == [riffs : 0..MaxCount, weaks : 0..MaxCount,
          object : {"none", "alive", "destroyed"}, freed : BOOLEAN]

Unmade == [riffs |-> 0, weaks |-> 0, object |-> "none", freed |-> FALSE]
Made   == [riffs |-> 1, weaks |-> 1, object |-> "alive", freed |-> FALSE]

----------------------------------------------------------------------------
(* Counting. Each operator takes a heap and returns a heap; on NoBlock it   *)
(* changes nothing, as `if (_ref_cntr)` does.                               *)

\* A counter is unsigned: decrementing zero wraps to its largest value.
Pred(n) == IF n = 0 THEN MaxCount ELSE n - 1

\* Mutant: a reference counted twice.
RetainTwice(h, b) ==
  IF b = NoBlock THEN h ELSE [h EXCEPT ![b].riffs = @ + 2]

Retain(h, b) ==
  IF b = NoBlock THEN h ELSE [h EXCEPT ![b].riffs = @ + 1]

RetainWeak(h, b) ==
  IF b = NoBlock THEN h ELSE [h EXCEPT ![b].weaks = @ + 1]

\* weak_ptr::decrement
DropWeak(h, b) ==
  IF b = NoBlock THEN h
  ELSE [h EXCEPT ![b].weaks = Pred(@), ![b].freed = (h[b].weaks = 1)]

\* The type a caller of decrement passes: the object's, or a null pointer.
Type == {"T", "nullptr"}

\* Mutant: the weak reference of the strong ones is forgotten.
LastRiffGoneKeepingWeak(h, b, type) ==
  IF type = "T" THEN [h EXCEPT ![b].object = "destroyed"] ELSE h

\* What follows when --riffs reached zero: the deleter of the type runs on the
\* object (not when the type is null), then the weak reference that the strong
\* ones hold together is dropped.
LastRiffGone(h, b, type) ==
  DropWeak(IF type = "T" THEN [h EXCEPT ![b].object = "destroyed"] ELSE h, b)

\* shared_ptr::decrement
Drop(h, b, type) ==
  IF b = NoBlock THEN h
  ELSE LET less == [h EXCEPT ![b].riffs = Pred(@)]
       IN IF less[b].riffs = 0 THEN LastRiffGone(less, b, type) ELSE less

----------------------------------------------------------------------------
(* What the clients respect: no counter overflows (the program never holds *)
(* MaxCount references to one object), and the model stops short of what   *)
(* touches freed memory: a handle to a freed block is reported by the      *)
(* invariants, not followed any further.                                   *)

Usable(s) == ptr[s] # NoBlock => ~heap[ptr[s]].freed
Empty(s)  == ptr[s] = NoBlock
Room(b)   == b # NoBlock => heap[b].riffs < MaxCount /\ heap[b].weaks < MaxCount

Point(s, b) == ptr' = [ptr EXCEPT ![s] = b]
Move(s, t)  == ptr' = [ptr EXCEPT ![t] = ptr[s], ![s] = NoBlock]

\* The reference that slot t holds is about to be overwritten and forgotten.
Lose(lost, t) ==
  IF ptr[t] = NoBlock THEN lost ELSE [lost EXCEPT ![ptr[t]] = @ + 1]

----------------------------------------------------------------------------
(* std::shared_ptr, as the code's layout assumptions require it to behave. *)

StdMake(s, b) ==
  /\ Empty(s)
  /\ heap[b] = Unmade
  /\ Point(s, b)
  /\ heap' = [heap EXCEPT ![b] = Made]
  /\ UNCHANGED <<lostRiffs, lostWeaks, undestroyed>>

StdCopy(s, t) ==
  /\ Empty(t) /\ ~Empty(s) /\ Usable(s) /\ Room(ptr[s])
  /\ Point(t, ptr[s])
  /\ heap' = Retain(heap, ptr[s])
  /\ UNCHANGED <<lostRiffs, lostWeaks, undestroyed>>

StdMove(s, t) ==
  /\ Empty(t) /\ ~Empty(s)
  /\ Move(s, t)
  /\ UNCHANGED <<heap, lostRiffs, lostWeaks, undestroyed>>

\* reset(), or the destructor: the virtual _Destroy and _Delete_this run.
StdRelease(s) ==
  /\ ~Empty(s) /\ Usable(s)
  /\ Point(s, NoBlock)
  /\ heap' = Drop(heap, ptr[s], "T")
  /\ UNCHANGED <<lostRiffs, lostWeaks, undestroyed>>

----------------------------------------------------------------------------
(* zx::rtti::shared_ptr                                                    *)

\* Both converting constructors; an empty std::shared_ptr would be a null
\* dereference in the last line, so callers never pass one.
StrongFromStd(h, s) ==
  /\ Empty(h) /\ ~Empty(s) /\ Usable(s) /\ Room(ptr[s])
  /\ Point(h, ptr[s])
  /\ heap' = Retain(heap, ptr[s])
  /\ UNCHANGED <<lostRiffs, lostWeaks, undestroyed>>

\* Mutant: a copy that counts no reference.
StrongCopyConstructUncounted(h, g) ==
  /\ Empty(h) /\ Usable(g)
  /\ Point(h, ptr[g])
  /\ UNCHANGED <<heap, lostRiffs, lostWeaks, undestroyed>>

StrongCopyConstruct(h, g) ==
  /\ Empty(h) /\ Usable(g) /\ Room(ptr[g])
  /\ Point(h, ptr[g])
  /\ heap' = Retain(heap, ptr[g])
  /\ UNCHANGED <<lostRiffs, lostWeaks, undestroyed>>

StrongMoveConstruct(h, g) ==
  /\ Empty(h) /\ ~Empty(g)
  /\ Move(g, h)
  /\ UNCHANGED <<heap, lostRiffs, lostWeaks, undestroyed>>

\* The overwritten reference is never given back.
StrongCopyAssign(h, g) ==
  /\ h # g
  /\ ptr[h] # ptr[g]
  /\ Usable(g) /\ Room(ptr[g])
  /\ Point(h, ptr[g])
  /\ heap' = Retain(heap, ptr[g])
  /\ lostRiffs' = Lose(lostRiffs, h)
  /\ UNCHANGED <<lostWeaks, undestroyed>>

\* No test for equal pointers here: moving between two handles of one object
\* loses a reference as well.
StrongMoveAssign(h, g) ==
  /\ h # g
  /\ Move(g, h)
  /\ lostRiffs' = Lose(lostRiffs, h)
  /\ UNCHANGED <<heap, lostWeaks, undestroyed>>

\* Mutant: a destructor that passes no type.
StrongDestroyUntyped(h) ==
  /\ ~Empty(h) /\ Usable(h)
  /\ Point(h, NoBlock)
  /\ heap' = Drop(heap, ptr[h], "nullptr")
  /\ UNCHANGED <<lostRiffs, lostWeaks, undestroyed>>

StrongDestroy(h) ==
  /\ ~Empty(h) /\ Usable(h)
  /\ Point(h, NoBlock)
  /\ heap' = Drop(heap, ptr[h], "T")
  /\ UNCHANGED <<lostRiffs, lostWeaks, undestroyed>>

\* operator std::shared_ptr<T>; s is where the returned value lands.
StrongToStd(h, s) ==
  /\ Empty(s) /\ Usable(h) /\ Room(ptr[h])
  /\ ~Empty(h) /\ heap[ptr[h]].riffs > 0
  /\ Point(s, ptr[h])
  /\ heap' = Retain(heap, ptr[h])
  /\ UNCHANGED <<lostRiffs, lostWeaks, undestroyed>>

\* Mutant: a write_to that forgets the old reference of its target.
StrongWriteToLeaking(h, s) ==
  /\ Usable(h) /\ Usable(s) /\ Room(ptr[h]) /\ ~Empty(h)
  /\ Point(s, ptr[h])
  /\ heap' = Retain(heap, ptr[h])
  /\ UNCHANGED <<lostRiffs, lostWeaks, undestroyed>>

\* The target's old reference is dropped first, without a type: its object is
\* not destroyed even when that reference was the last one.
StrongWriteTo(h, s) ==
  /\ Usable(h) /\ Usable(s) /\ Room(ptr[h])
  /\ LET released == Drop(heap, ptr[s], "nullptr")
         alive    == ~Empty(h) /\ released[ptr[h]].riffs > 0
         source   == IF alive THEN ptr[h] ELSE NoBlock
     IN /\ Point(s, source)
        /\ heap' = Retain(released, source)
        /\ undestroyed' = undestroyed \cup
             {b \in {ptr[s]} \ {NoBlock} : released[b].riffs = 0}
  /\ UNCHANGED <<lostRiffs, lostWeaks>>

----------------------------------------------------------------------------
(* zx::rtti::weak_ptr                                                      *)

WeakFromStd(w, s) ==
  /\ Empty(w) /\ ~Empty(s) /\ Usable(s) /\ Room(ptr[s])
  /\ Point(w, ptr[s])
  /\ heap' = RetainWeak(heap, ptr[s])
  /\ UNCHANGED <<lostRiffs, lostWeaks, undestroyed>>

WeakCopyConstruct(w, v) ==
  /\ Empty(w) /\ Usable(v) /\ Room(ptr[v])
  /\ Point(w, ptr[v])
  /\ heap' = RetainWeak(heap, ptr[v])
  /\ UNCHANGED <<lostRiffs, lostWeaks, undestroyed>>

WeakMoveConstruct(w, v) ==
  /\ Empty(w) /\ ~Empty(v)
  /\ Move(v, w)
  /\ UNCHANGED <<heap, lostRiffs, lostWeaks, undestroyed>>

WeakCopyAssign(w, v) ==
  /\ w # v
  /\ ptr[w] # ptr[v]
  /\ Usable(v) /\ Room(ptr[v])
  /\ Point(w, ptr[v])
  /\ heap' = RetainWeak(heap, ptr[v])
  /\ lostWeaks' = Lose(lostWeaks, w)
  /\ UNCHANGED <<lostRiffs, undestroyed>>

\* Mutant: a move that does not null its source.
WeakMoveAssignKeeping(w, v) ==
  /\ w # v
  /\ Point(w, ptr[v])
  /\ lostWeaks' = Lose(lostWeaks, w)
  /\ UNCHANGED <<heap, lostRiffs, undestroyed>>

WeakMoveAssign(w, v) ==
  /\ w # v
  /\ Move(v, w)
  /\ lostWeaks' = Lose(lostWeaks, w)
  /\ UNCHANGED <<heap, lostRiffs, undestroyed>>

WeakDestroy(w) ==
  /\ ~Empty(w) /\ Usable(w)
  /\ Point(w, NoBlock)
  /\ heap' = DropWeak(heap, ptr[w])
  /\ UNCHANGED <<lostRiffs, lostWeaks, undestroyed>>

\* Mutant: a conversion that does not ask whether the object is there.
WeakToStdUnchecked(w, s) ==
  /\ Empty(s) /\ ~Empty(w) /\ Usable(w) /\ Room(ptr[w])
  /\ Point(s, ptr[w])
  /\ heap' = Retain(heap, ptr[w])
  /\ UNCHANGED <<lostRiffs, lostWeaks, undestroyed>>

\* operator std::shared_ptr<T>; an empty weak_ptr would be a null dereference,
\* so callers convert only non-empty ones. An expired one yields an empty value.
WeakToStd(w, s) ==
  /\ Empty(s) /\ ~Empty(w) /\ Usable(w) /\ Room(ptr[w])
  /\ heap[ptr[w]].riffs > 0
  /\ Point(s, ptr[w])
  /\ heap' = Retain(heap, ptr[w])
  /\ UNCHANGED <<lostRiffs, lostWeaks, undestroyed>>

\* Mutant: a write_to that does not ask whether the object is there.
WeakWriteToUnchecked(w, s) ==
  /\ ~Empty(w) /\ Usable(w) /\ Empty(s) /\ Room(ptr[w])
  /\ Point(s, ptr[w])
  /\ heap' = Retain(heap, ptr[w])
  /\ UNCHANGED <<lostRiffs, lostWeaks, undestroyed>>

\* The target's old reference is a strong one and the weak counter is what
\* gets decremented. The source is read after that.
WeakWriteTo(w, s) ==
  /\ ~Empty(w) /\ Usable(w) /\ Usable(s) /\ Room(ptr[w])
  /\ Empty(s) \/ OverwriteByWeak
  /\ LET released == DropWeak(heap, ptr[s])
         source   == IF released[ptr[w]].riffs > 0 THEN ptr[w] ELSE NoBlock
     IN /\ Point(s, source)
        /\ heap' = Retain(released, source)
  /\ UNCHANGED <<lostRiffs, lostWeaks, undestroyed>>

----------------------------------------------------------------------------
Init ==
  /\ ptr = [s \in Slots |-> NoBlock]
  /\ heap = [b \in Blocks |-> Unmade]
  /\ lostRiffs = [b \in Blocks |-> 0]
  /\ lostWeaks = [b \in Blocks |-> 0]
  /\ undestroyed = {}

StdNext ==
  \E s \in StdSlots :
    \/ \E b \in Blocks : StdMake(s, b)
    \/ \E t \in StdSlots : StdCopy(s, t)
    \/ \E t \in StdSlots : StdMove(s, t)
    \/ StdRelease(s)

StrongNext ==
  \E h \in StrongSlots :
    \/ \E s \in StdSlots : StrongFromStd(h, s)
    \/ \E g \in StrongSlots : StrongCopyConstruct(h, g)
    \/ \E g \in StrongSlots : StrongMoveConstruct(h, g)
    \/ \E g \in StrongSlots : StrongCopyAssign(h, g)
    \/ \E g \in StrongSlots : StrongMoveAssign(h, g)
    \/ StrongDestroy(h)
    \/ \E s \in StdSlots : StrongToStd(h, s)
    \/ \E s \in StdSlots : StrongWriteTo(h, s)

WeakNext ==
  \E w \in WeakSlots :
    \/ \E s \in StdSlots : WeakFromStd(w, s)
    \/ \E v \in WeakSlots : WeakCopyConstruct(w, v)
    \/ \E v \in WeakSlots : WeakMoveConstruct(w, v)
    \/ \E v \in WeakSlots : WeakCopyAssign(w, v)
    \/ \E v \in WeakSlots : WeakMoveAssign(w, v)
    \/ WeakDestroy(w)
    \/ \E s \in StdSlots : WeakToStd(w, s)
    \/ \E s \in StdSlots : WeakWriteTo(w, s)

Next == StdNext \/ StrongNext \/ WeakNext

Spec == Init /\ [][Next]_vars
----------------------------------------------------------------------------
(* Properties                                                              *)

RiffHolders(b) == {s \in Owners : ptr[s] = b}
WeakHolders(b) == {w \in WeakSlots : ptr[w] = b}

\* Every slot holds nothing or a block, every counter fits its width.
TypeOK ==
  /\ ptr \in [Slots -> Blocks \cup {NoBlock}]
  /\ heap \in [Blocks -> Block]
  /\ lostRiffs \in [Blocks -> Nat]
  /\ lostWeaks \in [Blocks -> Nat]
  /\ undestroyed \in SUBSET Blocks

\* The strong counter of a block is the number of std and rtti handles that
\* own it, plus the references that operator= overwrote.
RiffsConserved ==
  \A b \in Blocks : heap[b].riffs = Cardinality(RiffHolders(b)) + lostRiffs[b]

\* The weak counter is the number of weak handles, plus those operator=
\* overwrote, plus one that the strong references hold together.
WeaksConserved ==
  \A b \in Blocks :
    heap[b].weaks = Cardinality(WeakHolders(b)) + lostWeaks[b]
                    + (IF heap[b].riffs > 0 THEN 1 ELSE 0)

\* Whoever holds a strong handle of either library may dereference it, and
\* whoever holds a weak one may still read its counters.
HeldIsUsable ==
  /\ \A s \in Owners : ~Empty(s) =>
       heap[ptr[s]].object = "alive" /\ ~heap[ptr[s]].freed
  /\ \A w \in WeakSlots : ~Empty(w) => ~heap[ptr[w]].freed

\* Only an assignment leaks: a block that no handle points to any more is
\* freed, unless operator= overwrote a reference to it.
LeakedOnlyByAssignment ==
  \A b \in Blocks :
    /\ heap[b].object # "none"
    /\ RiffHolders(b) = {} /\ WeakHolders(b) = {}
    /\ lostRiffs[b] = 0 /\ lostWeaks[b] = 0
    => heap[b].freed

\* The object is destroyed when its last strong reference goes, and not
\* before, except when it was write_to that dropped that reference.
DestroyedWithLastRiff ==
  \A b \in Blocks : heap[b].object # "none" =>
    (heap[b].object = "destroyed" <=> heap[b].riffs = 0 /\ b \notin undestroyed)

\* A weak handle cannot revive an object: once the strong references are gone
\* no conversion and no write_to makes a new one.
NoResurrection ==
  [][\A b \in Blocks :
       heap[b].object # "none" /\ heap[b].riffs = 0 => heap'[b].riffs = 0]_vars

\* What the counters implement: objects with sets of owners and watchers.
Fate(b) ==
  CASE heap[b].object = "none" -> "unborn"
    [] b \in undestroyed -> "abandoned"
    [] OTHER -> heap[b].object

Lifetime == INSTANCE ObjectLifetime WITH
  OwnerSlots <- Owners, WatchSlots <- WeakSlots, Objects <- Blocks, None <- NoBlock,
  own    <- [s \in Owners |-> ptr[s]],
  watch  <- [w \in WeakSlots |-> ptr[w]],
  fate   <- [b \in Blocks |-> Fate(b)],
  pinned <- {b \in Blocks : lostRiffs[b] > 0}

\* The handles of both namespaces behave as owners and watchers of objects.
ImplementsLifetime == Lifetime!Spec

\* weak_ptr.cpp:154-158: "Zero weak count is state when resource already
\* called delete in place. Because shared pointers keep weak pointer equals at
\* least one."
WeaksOutliveRiffs ==
  \A b \in Blocks : heap[b].riffs > 0 => heap[b].weaks >= 1

\* README.md:600: the delete in place that write_to does not invoke "defers
\* until weak references becomes zeroed"; when they are, the block is freed.
FreedIsDestroyed ==
  \A b \in Blocks : heap[b].freed => heap[b].object = "destroyed"
=============================================================================

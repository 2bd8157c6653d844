---------------------------- MODULE RefCountRace ----------------------------
(***************************************************************************)
(* The reference counts of one std::shared_ptr control block, used by      *)
(* std::shared_ptr, zx::rtti::shared_ptr and zx::rtti::weak_ptr handles in *)
(* several threads. Each read and each update of a counter is atomic; what *)
(* the code does with two of them in a row is not.                         *)
(*                                                                         *)
(* Every handle may live in a thread of its own, so the steps of all       *)
(* handles interleave. One handle is never used by two threads at once     *)
(* except for reading it: it is not destroyed while it is copied from.     *)
(*                                                                         *)
(* The module asks which operations the clients have to keep apart, since  *)
(* the code does not: RttiPointers holds for programs that keep these      *)
(* apart.                                                                  *)
(***************************************************************************)
EXTENDS Naturals, FiniteSets

CONSTANTS
  Handles,    \* handles the program may have at one time
  None,       \* no handle
  MaxCount,   \* largest value of a counter (std::atomic<unsigned long>)
  KeptApart   \* {a, b}: operations of the kinds a and b that clients do not
              \* let overlap ({a}: two of kind a)

\* Destructors of the three kinds of handles, and the conversions to
\* std::shared_ptr from a strong and from a weak handle.
Operations == {"~std", "~strong", "~weak", "strong to std", "weak to std"}

ASSUME RaceAssumption ==
  /\ IsFiniteSet(Handles) /\ None \notin Handles
  /\ MaxCount \in Nat \ {0}
  /\ KeptApart \subseteq SUBSET Operations

VARIABLES
  kind,       \* kind[h]: what h is, also while its destructor runs
  pc,         \* pc[h]: the next step of the operation on h, or "idle"
  from,       \* from[h]: the handle a conversion into h reads
  riffs,      \* the two counters of the control block
  weaks,
  destroyed,  \* history: how often the object was destroyed
  freed       \* history: how often the control block was deleted

vars == <<kind, pc, from, riffs, weaks, destroyed, freed>>

Kinds == {"none", "std", "strong", "weak"}

Steps == {"idle", "convert",
          "dropped", "destroy", "drop weak", "dropped weak", "free",
          "std destroy", "std drop weak"}

\* A counter is unsigned: decrementing zero wraps to its largest value.
Pred(n) == IF n = 0 THEN MaxCount ELSE n - 1

Held(h)  == kind[h] # "none" /\ pc[h] = "idle"
Blank(h) == kind[h] = "none" /\ pc[h] = "idle"
Lent(h)  == \E g \in Handles : from[g] = h
Room     == riffs < MaxCount /\ weaks < MaxCount

Destructor(k) ==
  CASE k = "std" -> "~std" [] k = "strong" -> "~strong" [] OTHER -> "~weak"
Conversion(k) == IF k = "weak" THEN "weak to std" ELSE "strong to std"

\* The operations under way.
Running(op) ==
  \E h \in Handles :
    /\ pc[h] # "idle"
    /\ op = IF pc[h] = "convert" THEN Conversion(kind[from[h]]) ELSE Destructor(kind[h])

MayBegin(op) == \A other \in Operations : Running(other) => {op, other} \notin KeptApart

\* What the clients have to keep apart: everything that reads a counter after
\* changing it, from everything that may change it to zero; and a weak handle's
\* conversion from the strong releases.
Discipline ==
  {{"~strong"}, {"~strong", "~std"}, {"~weak"}, {"~weak", "~strong"},
   {"~weak", "~std"}, {"weak to std", "~strong"}, {"weak to std", "~std"}}

At(h, step)  == pc' = [pc EXCEPT ![h] = step]
\* The operation on h ends with h of kind k.
End(h, k)    == kind' = [kind EXCEPT ![h] = k] /\ At(h, "idle")

----------------------------------------------------------------------------
(* Copies: one atomic increment, under the protection of the handle that   *)
(* is copied.                                                              *)

\* Mutant: a reference counted twice.
CopyRiffTwice(h, g, k) ==
  /\ Blank(h) /\ Held(g) /\ Room
  /\ <<kind[g], k>> \in {<<"std", "std">>, <<"std", "strong">>, <<"strong", "strong">>}
  /\ kind' = [kind EXCEPT ![h] = k]
  /\ riffs' = riffs + 2
  /\ UNCHANGED <<pc, from, weaks, destroyed, freed>>

\* std to std is the library's; the others are constructors of rtti::shared_ptr.
CopyRiff(h, g, k) ==
  /\ Blank(h) /\ Held(g) /\ Room
  /\ <<kind[g], k>> \in {<<"std", "std">>, <<"std", "strong">>, <<"strong", "strong">>}
  /\ kind' = [kind EXCEPT ![h] = k]
  /\ riffs' = riffs + 1
  /\ UNCHANGED <<pc, from, weaks, destroyed, freed>>

\* Mutant: a weak handle that counts no reference.
CopyWeakUncounted(h, g) ==
  /\ Blank(h) /\ Held(g) /\ Room
  /\ kind[g] \in {"std", "weak"}
  /\ kind' = [kind EXCEPT ![h] = "weak"]
  /\ UNCHANGED <<pc, from, riffs, weaks, destroyed, freed>>

CopyWeak(h, g) ==
  /\ Blank(h) /\ Held(g) /\ Room
  /\ kind[g] \in {"std", "weak"}
  /\ kind' = [kind EXCEPT ![h] = "weak"]
  /\ weaks' = weaks + 1
  /\ UNCHANGED <<pc, from, riffs, destroyed, freed>>

----------------------------------------------------------------------------
(* operator std::shared_ptr<T>: test the counter, then increment it.       *)

\* Mutant: a conversion that does not test the counter.
TestRiffsNot(h, g) ==
  /\ Blank(h) /\ Held(g) /\ kind[g] \in {"strong", "weak"}
  /\ MayBegin(Conversion(kind[g]))
  /\ At(h, "convert")
  /\ from' = [from EXCEPT ![h] = g]
  /\ UNCHANGED <<kind, riffs, weaks, destroyed, freed>>

TestRiffs(h, g) ==
  /\ Blank(h) /\ Held(g) /\ kind[g] \in {"strong", "weak"}
  /\ MayBegin(Conversion(kind[g]))
  /\ riffs # 0
  /\ At(h, "convert")
  /\ from' = [from EXCEPT ![h] = g]
  /\ UNCHANGED <<kind, riffs, weaks, destroyed, freed>>

Convert(h) ==
  /\ pc[h] = "convert" /\ Room
  /\ End(h, "std")
  /\ from' = [from EXCEPT ![h] = None]
  /\ riffs' = riffs + 1
  /\ UNCHANGED <<weaks, destroyed, freed>>

----------------------------------------------------------------------------
(* shared_ptr::decrement and weak_ptr::decrement: decrement a counter, then *)
(* read it again to see whether it is zero.                                *)

DropRiff(h) ==
  /\ Held(h) /\ kind[h] = "strong" /\ ~Lent(h) /\ MayBegin("~strong")
  /\ At(h, "dropped")
  /\ riffs' = Pred(riffs)
  /\ UNCHANGED <<kind, from, weaks, destroyed, freed>>

\* Mutant: the counter compared with the wrong constant.
ReadRiffsEarly(h) ==
  /\ pc[h] = "dropped"
  /\ IF riffs <= 1 THEN At(h, "destroy") /\ UNCHANGED kind ELSE End(h, "none")
  /\ UNCHANGED <<from, riffs, weaks, destroyed, freed>>

ReadRiffs(h) ==
  /\ pc[h] = "dropped"
  /\ IF riffs = 0 THEN At(h, "destroy") /\ UNCHANGED kind ELSE End(h, "none")
  /\ UNCHANGED <<from, riffs, weaks, destroyed, freed>>

\* The deleter of the type runs on the object.
DeleteInPlace(h) ==
  /\ pc[h] = "destroy"
  /\ At(h, "drop weak")
  /\ destroyed' = destroyed + 1
  /\ UNCHANGED <<kind, from, riffs, weaks, freed>>

\* Mutant: the weak reference of the strong ones is forgotten.
DropWeakOfRiffsNot(h) ==
  /\ pc[h] = "drop weak"
  /\ At(h, "dropped weak")
  /\ UNCHANGED <<kind, from, riffs, weaks, destroyed, freed>>

DropWeakOfRiffs(h) ==
  /\ pc[h] = "drop weak"
  /\ At(h, "dropped weak")
  /\ weaks' = Pred(weaks)
  /\ UNCHANGED <<kind, from, riffs, destroyed, freed>>

DropWeak(h) ==
  /\ Held(h) /\ kind[h] = "weak" /\ ~Lent(h) /\ MayBegin("~weak")
  /\ At(h, "dropped weak")
  /\ weaks' = Pred(weaks)
  /\ UNCHANGED <<kind, from, riffs, destroyed, freed>>

\* Mutant: the counter compared with the wrong constant.
ReadWeaksEarly(h) ==
  /\ pc[h] = "dropped weak"
  /\ IF weaks <= 1 THEN At(h, "free") /\ UNCHANGED kind ELSE End(h, "none")
  /\ UNCHANGED <<from, riffs, weaks, destroyed, freed>>

ReadWeaks(h) ==
  /\ pc[h] = "dropped weak"
  /\ IF weaks = 0 THEN At(h, "free") /\ UNCHANGED kind ELSE End(h, "none")
  /\ UNCHANGED <<from, riffs, weaks, destroyed, freed>>

\* delete ref_cntr
Free(h) ==
  /\ pc[h] = "free"
  /\ End(h, "none")
  /\ freed' = freed + 1
  /\ UNCHANGED <<from, riffs, weaks, destroyed>>

----------------------------------------------------------------------------
(* The destructor of std::shared_ptr, which uses the value that an atomic  *)
(* decrement returns.                                                      *)

StdDropRiff(h) ==
  /\ Held(h) /\ kind[h] = "std" /\ ~Lent(h) /\ MayBegin("~std")
  /\ riffs' = Pred(riffs)
  /\ IF riffs = 1 THEN At(h, "std destroy") /\ UNCHANGED kind ELSE End(h, "none")
  /\ UNCHANGED <<from, weaks, destroyed, freed>>

StdDestroy(h) ==
  /\ pc[h] = "std destroy"
  /\ At(h, "std drop weak")
  /\ destroyed' = destroyed + 1
  /\ UNCHANGED <<kind, from, riffs, weaks, freed>>

StdDropWeak(h) ==
  /\ pc[h] = "std drop weak"
  /\ weaks' = Pred(weaks)
  /\ IF weaks = 1 THEN At(h, "free") /\ UNCHANGED kind ELSE End(h, "none")
  /\ UNCHANGED <<from, riffs, destroyed, freed>>

----------------------------------------------------------------------------
\* std::make_shared has returned its handle.
Init ==
  /\ \E h \in Handles : kind = [g \in Handles |-> IF g = h THEN "std" ELSE "none"]
  /\ pc = [h \in Handles |-> "idle"]
  /\ from = [h \in Handles |-> None]
  /\ riffs = 1 /\ weaks = 1
  /\ destroyed = 0 /\ freed = 0

\* What a client may begin.
Begin(h) ==
  \/ \E g \in Handles, k \in Kinds : CopyRiff(h, g, k)
  \/ \E g \in Handles : CopyWeak(h, g)
  \/ \E g \in Handles : TestRiffs(h, g)
  \/ DropRiff(h) \/ DropWeak(h) \/ StdDropRiff(h)

\* What goes on once it has begun.
Continue(h) ==
  \/ Convert(h) \/ ReadRiffs(h) \/ DeleteInPlace(h) \/ DropWeakOfRiffs(h)
  \/ ReadWeaks(h) \/ Free(h) \/ StdDestroy(h) \/ StdDropWeak(h)

Next == \E h \in Handles : Begin(h) \/ Continue(h)

Spec == Init /\ [][Next]_vars

\* A running thread goes on; no client is obliged to begin anything.
FairSpec == Spec /\ \A h \in Handles : WF_vars(Continue(h))

----------------------------------------------------------------------------
(* Properties                                                              *)

\* Handles and counters have their types; no count exceeds its width.
TypeOK ==
  /\ kind \in [Handles -> Kinds]
  /\ pc \in [Handles -> Steps]
  /\ from \in [Handles -> Handles \cup {None}]
  /\ riffs \in 0..MaxCount /\ weaks \in 0..MaxCount
  /\ destroyed \in Nat /\ freed \in Nat

RiffHandles == {h \in Handles : Held(h) /\ kind[h] \in {"std", "strong"}}
WeakHandles == {h \in Handles : Held(h) /\ kind[h] = "weak"}

\* The weak reference of the strong ones is yet to be dropped.
WeakOfRiffs ==
  \/ riffs > 0
  \/ \E h \in Handles :
       pc[h] \in {"dropped", "destroy", "drop weak", "std destroy", "std drop weak"}

\* Between any two steps the counters are what the handles make them.
CountsMatchHandles ==
  /\ riffs = Cardinality(RiffHandles)
  /\ weaks = Cardinality(WeakHandles) + (IF WeakOfRiffs THEN 1 ELSE 0)

\* However the releases interleave, the object is destroyed once and the block
\* deleted once, in this order.
EndsOnce == freed <= destroyed /\ destroyed <= 1

\* A strong handle of either library refers to an object that is there.
HeldIsAlive == RiffHandles # {} => destroyed = 0

\* No thread touches the control block after another has deleted it.
NothingAfterFree ==
  freed > 0 => \A h \in Handles : kind[h] = "none" /\ pc[h] = "idle"

\* Once nobody holds a handle or is making one, the block is deleted: no
\* interleaving leaves it behind.
EventuallyFreed ==
  (\A h \in Handles : ~Held(h) /\ pc[h] # "convert") ~> freed = 1

\* weak_ptr.cpp:154-158: zero weaks "is state when resource already called
\* delete in place. Because shared pointers keep weak pointer equals at least
\* one."
WeaksOutliveRiffs == riffs > 0 => weaks >= 1
=============================================================================

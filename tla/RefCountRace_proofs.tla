-------------------------- MODULE RefCountRace_proofs --------------------------
(* What the pairs of Discipline buy: for any number of handles and any           *)
(* interleaving of their steps, the counters of a control block match the        *)
(* handles, its object is destroyed once, and the block deleted once after that. *)
EXTENDS RefCountRace, FiniteSetTheorems, TLAPS

\* A release is under way on h: it has dropped its reference.
Releasing(h) == pc[h] \notin {"idle", "convert"}

\* What a handle is at each step of its operation, and what a conversion reads.
PhaseOK(h) ==
  /\ kind[h] = "none" => pc[h] \in {"idle", "convert"}
  /\ pc[h] = "convert" =>
       /\ kind[h] = "none" /\ from[h] \in Handles
       /\ Held(from[h]) /\ kind[from[h]] \in {"strong", "weak"}
  /\ pc[h] # "convert" => from[h] = None
  /\ pc[h] \in {"dropped", "destroy", "drop weak"} => kind[h] = "strong"
  /\ pc[h] \in {"std destroy", "std drop weak"} => kind[h] = "std"
  /\ pc[h] = "dropped weak" => kind[h] \in {"strong", "weak"}

\* Releases exclude each other: two of std overlap only while strong references
\* are left, and those end with their decrement.
OneRelease == \A g, h \in Handles : Releasing(g) /\ Releasing(h) => g = h

\* Whether a counter is zero is all that the control of the code asks of it.
NoRiffs == riffs = 0
NoWeaks == weaks = 0

\* A conversion increments a counter that is not zero.
ConvertsLive == \A h \in Handles : pc[h] = "convert" => ~NoRiffs

\* What a release has seen stays so.
LastGone ==
  \A h \in Handles :
    /\ pc[h] \in {"destroy", "drop weak", "std destroy", "std drop weak"} => NoRiffs
    /\ pc[h] = "dropped weak" /\ kind[h] = "strong" => NoRiffs
    /\ pc[h] = "free" => NoWeaks

\* Some release has yet to do its part.
ObjectDue == \E h \in Handles : pc[h] \in {"dropped", "destroy", "std destroy"}
BlockDue  == \E h \in Handles : pc[h] \in {"dropped weak", "free"}
WeakDue   == \E h \in Handles :
               pc[h] \in {"dropped", "destroy", "drop weak", "std destroy", "std drop weak"}

\* The object and the block are there until the step that ends them.
History ==
  /\ destroyed = IF NoRiffs /\ ~ObjectDue THEN 1 ELSE 0
  /\ freed = IF NoWeaks /\ ~BlockDue THEN 1 ELSE 0

IInv ==
  /\ TypeOK /\ (\A h \in Handles : PhaseOK(h)) /\ OneRelease /\ ConvertsLive
  /\ LastGone /\ CountsMatchHandles /\ History

-----------------------------------------------------------------------------
(* Counting. *)

\* Adding and removing one handle.
LEMMA CountOne ==
  ASSUME NEW S \in SUBSET Handles
  PROVE  /\ Cardinality(S) \in Nat
         /\ S = {} <=> Cardinality(S) = 0
         /\ \A h \in Handles \ S : Cardinality(S \cup {h}) = Cardinality(S) + 1
         /\ \A h \in S : Cardinality(S \ {h}) = Cardinality(S) - 1
<1>1. IsFiniteSet(S)
  BY RaceAssumption, FS_Subset
<1> QED BY <1>1, FS_CardinalityType, FS_EmptySet, FS_AddElement, FS_RemoveElement

\* What is counted are finite sets.
LEMMA CountedSets ==
  /\ RiffHandles \in SUBSET Handles /\ WeakHandles \in SUBSET Handles
  /\ Cardinality(RiffHandles) \in Nat /\ Cardinality(WeakHandles) \in Nat
  BY CountOne DEF RiffHandles, WeakHandles

\* The weak reference of the strong ones, by parts.
LEMMA WeakOfRiffsIs ==
  ASSUME riffs \in Nat
  PROVE  WeakOfRiffs <=> ~NoRiffs \/ WeakDue
<1>1. riffs > 0 <=> ~NoRiffs
  BY DEF NoRiffs
<1> QED BY <1>1 DEF WeakOfRiffs, WeakDue

\* What the counts say of the counters' being zero.
LEMMA Counted ==
  ASSUME IInv
  PROVE  /\ riffs \in Nat /\ weaks \in Nat
         /\ NoRiffs <=> RiffHandles = {}
         /\ NoWeaks <=> RiffHandles = {} /\ WeakHandles = {} /\ ~WeakDue
<1>1. riffs \in Nat /\ weaks \in Nat
  BY RaceAssumption DEF IInv, TypeOK
<1>2. /\ riffs = Cardinality(RiffHandles)
      /\ weaks = Cardinality(WeakHandles) + (IF WeakOfRiffs THEN 1 ELSE 0)
  BY DEF IInv, CountsMatchHandles
<1>3. NoRiffs <=> RiffHandles = {}
  BY <1>2, CountedSets, CountOne DEF NoRiffs
<1>4. NoWeaks <=> WeakHandles = {} /\ ~WeakOfRiffs
  BY <1>2, CountedSets, CountOne DEF NoWeaks
<1> QED BY <1>1, <1>3, <1>4, WeakOfRiffsIs

-----------------------------------------------------------------------------
(* What the clients keep apart. *)

\* What is not under way when a release begins.
LEMMA Apart ==
  ASSUME Discipline \subseteq KeptApart, IInv, NEW h \in Handles
  PROVE  /\ MayBegin("~strong") =>
              ~Releasing(h) /\ (pc[h] = "convert" => kind[from[h]] = "strong")
         /\ MayBegin("~weak") => ~Releasing(h)
         /\ MayBegin("~std") =>
              /\ Releasing(h) => kind[h] = "std"
              /\ pc[h] = "convert" => kind[from[h]] = "strong"
<1> DEFINE op == IF pc[h] = "convert" THEN Conversion(kind[from[h]]) ELSE Destructor(kind[h])
<1>1. /\ kind[h] \in Kinds /\ pc[h] \in Steps
      /\ Releasing(h) => kind[h] \in {"std", "strong", "weak"}
      /\ pc[h] = "convert" => kind[from[h]] \in {"strong", "weak"}
  BY DEF IInv, TypeOK, PhaseOK, Releasing, Kinds, Held
<1>2. pc[h] # "idle" => op \in Operations /\ Running(op)
  BY <1>1 DEF Running, Operations, Conversion, Destructor
<1>3. /\ Releasing(h) /\ kind[h] = "std" => op = "~std"
      /\ Releasing(h) /\ kind[h] = "strong" => op = "~strong"
      /\ Releasing(h) /\ kind[h] = "weak" => op = "~weak"
      /\ pc[h] = "convert" /\ kind[from[h]] = "weak" => op = "weak to std"
  BY DEF Releasing, Conversion, Destructor
<1>4. /\ {"~strong", "~strong"} = {"~strong"} /\ {"~weak", "~weak"} = {"~weak"}
      /\ {"~std", "~strong"} = {"~strong", "~std"}
      /\ {"~strong", "~weak"} = {"~weak", "~strong"}
      /\ {"~std", "~weak"} = {"~weak", "~std"}
      /\ {"~strong", "weak to std"} = {"weak to std", "~strong"}
      /\ {"~std", "weak to std"} = {"weak to std", "~std"}
  OBVIOUS
<1> HIDE DEF op
<1>5. \A a : MayBegin(a) /\ pc[h] # "idle" => {a, op} \notin Discipline
  BY <1>2 DEF MayBegin
<1>6. /\ MayBegin("~strong") /\ pc[h] # "idle" =>
            op \notin {"~strong", "~std", "~weak", "weak to std"}
      /\ MayBegin("~weak") /\ pc[h] # "idle" => op \notin {"~strong", "~std", "~weak"}
      /\ MayBegin("~std") /\ pc[h] # "idle" => op \notin {"~strong", "~weak", "weak to std"}
  BY <1>4, <1>5 DEF Discipline
<1> QED BY <1>1, <1>3, <1>6 DEF Releasing

-----------------------------------------------------------------------------
(* The steps. *)

\* The counts after a step that changes the sets of handles as they are told.
LEMMA CountsKept ==
  ASSUME IInv, riffs' \in Nat, riffs' = Cardinality(RiffHandles'),
         weaks' - Cardinality(WeakHandles') = weaks - Cardinality(WeakHandles),
         weaks' \in Nat, WeakHandles' \in SUBSET Handles,
         (~NoRiffs \/ WeakDue)' <=> ~NoRiffs \/ WeakDue
  PROVE  CountsMatchHandles'
<1>1. WeakOfRiffs <=> ~NoRiffs \/ WeakDue
  BY WeakOfRiffsIs, Counted
<1>2. WeakOfRiffs' <=> (~NoRiffs \/ WeakDue)'
  <2>1. riffs' > 0 <=> ~NoRiffs'
    BY DEF NoRiffs
  <2> QED BY <2>1 DEF WeakOfRiffs, WeakDue
<1>3. WeakOfRiffs' <=> WeakOfRiffs
  BY <1>1, <1>2
<1>4. weaks = Cardinality(WeakHandles) + (IF WeakOfRiffs THEN 1 ELSE 0)
  BY DEF IInv, CountsMatchHandles
<1>5. Cardinality(WeakHandles) \in Nat /\ Cardinality(WeakHandles') \in Nat
  BY CountedSets, CountOne
<1>6. weaks' = Cardinality(WeakHandles') + (IF WeakOfRiffs' THEN 1 ELSE 0)
  BY <1>3, <1>4, <1>5, Counted
<1> QED BY <1>6 DEF CountsMatchHandles

\* The counts after the step that drops the weak reference of the strong ones.
LEMMA CountsDropped ==
  ASSUME IInv, WeakDue, ~WeakDue', NoRiffs', UNCHANGED riffs, weaks' = weaks - 1,
         RiffHandles' = RiffHandles, WeakHandles' = WeakHandles
  PROVE  CountsMatchHandles'
<1>1. WeakOfRiffs
  BY WeakOfRiffsIs, Counted
<1>2. ~WeakOfRiffs'
  <2>1. ~(riffs' > 0)
    BY DEF NoRiffs
  <2> QED BY <2>1 DEF WeakOfRiffs, WeakDue
<1>3. weaks = Cardinality(WeakHandles) + 1 /\ riffs = Cardinality(RiffHandles)
  BY <1>1 DEF IInv, CountsMatchHandles
<1>4. weaks' = Cardinality(WeakHandles') + 0 /\ riffs' = Cardinality(RiffHandles')
  BY <1>3, CountedSets
<1> QED BY <1>2, <1>4 DEF CountsMatchHandles

-----------------------------------------------------------------------------
(* What a client begins, and a conversion. *)

\* A copy: the handle that is copied keeps both counters from zero.
LEMMA CopyRiffHolds ==
  ASSUME IInv, NEW h \in Handles, NEW g \in Handles, NEW k \in Kinds, CopyRiff(h, g, k)
  PROVE  IInv'
<1> USE DEF IInv
<1>1. /\ Blank(h) /\ Held(g) /\ kind[g] \in {"std", "strong"} /\ k \in {"std", "strong"}
      /\ kind' = [kind EXCEPT ![h] = k] /\ UNCHANGED <<pc, from>>
  BY DEF CopyRiff
<1>2. riffs < MaxCount /\ riffs' = riffs + 1 /\ UNCHANGED <<weaks, destroyed, freed>>
  BY DEF CopyRiff, Room
<1>3. ~NoRiffs /\ ~NoRiffs' /\ (NoWeaks' <=> NoWeaks)
  BY <1>1, <1>2, Counted DEF NoRiffs, NoWeaks, RiffHandles, WeakHandles, ConvertsLive
<1>4. TypeOK'
  <2>1. /\ kind' \in [Handles -> Kinds] /\ pc' \in [Handles -> Steps]
        /\ from' \in [Handles -> Handles \cup {None}]
    BY <1>1 DEF TypeOK, Kinds, Steps
  <2>2. riffs' \in 0..MaxCount /\ weaks' \in 0..MaxCount /\ destroyed' \in Nat /\ freed' \in Nat
    BY <1>2, Counted, RaceAssumption DEF TypeOK
  <2> QED BY <2>1, <2>2 DEF TypeOK
<1>5. \A x \in Handles : PhaseOK(x)'
  BY <1>1 DEF TypeOK, PhaseOK, Blank, Held, Kinds
<1>6. OneRelease' /\ ConvertsLive' /\ LastGone'
  BY <1>1, <1>3 DEF TypeOK, OneRelease, ConvertsLive, LastGone, Releasing, Blank
<1>7. /\ ObjectDue' <=> ObjectDue
      /\ BlockDue' <=> BlockDue
      /\ WeakDue' <=> WeakDue
  BY <1>1 DEF TypeOK, ObjectDue, BlockDue, WeakDue, Blank
<1>8. History'
  BY <1>2, <1>3, <1>7 DEF History
<1>9. CountsMatchHandles'
  <2>1. RiffHandles' = RiffHandles \cup {h} /\ h \notin RiffHandles /\ WeakHandles' = WeakHandles
    BY <1>1 DEF TypeOK, RiffHandles, WeakHandles, Held, Blank
  <2>2. riffs' \in Nat /\ riffs' = Cardinality(RiffHandles')
    BY <1>2, <2>1, CountedSets, CountOne, Counted DEF CountsMatchHandles
  <2>3. weaks' \in Nat /\ weaks' - Cardinality(WeakHandles') = weaks - Cardinality(WeakHandles)
    BY <1>2, <2>1, <2>2, CountedSets, Counted
  <2>4. riffs' \in Nat /\ riffs' = Cardinality(RiffHandles')
    BY <1>2, <2>1, <2>2, Counted DEF CountsMatchHandles
  <2> QED BY <1>3, <1>7, <2>1, <2>3, <2>4, CountedSets, CountsKept
<1> QED BY <1>4, <1>5, <1>6, <1>8, <1>9

\* A copy of a weak reference: the weak counter was not zero.
LEMMA CopyWeakHolds ==
  ASSUME IInv, NEW h \in Handles, NEW g \in Handles, CopyWeak(h, g)
  PROVE  IInv'
<1> USE DEF IInv
<1>1. /\ Blank(h) /\ Held(g) /\ kind[g] \in {"std", "weak"}
      /\ kind' = [kind EXCEPT ![h] = "weak"] /\ UNCHANGED <<pc, from>>
  BY DEF CopyWeak
<1>2. weaks < MaxCount /\ weaks' = weaks + 1 /\ UNCHANGED <<riffs, destroyed, freed>>
  BY DEF CopyWeak, Room
<1>3. ~NoWeaks /\ ~NoWeaks' /\ (NoRiffs' <=> NoRiffs)
  BY <1>1, <1>2, Counted DEF NoRiffs, NoWeaks, RiffHandles, WeakHandles, ConvertsLive
<1>4. TypeOK'
  <2>1. /\ kind' \in [Handles -> Kinds] /\ pc' \in [Handles -> Steps]
        /\ from' \in [Handles -> Handles \cup {None}]
    BY <1>1 DEF TypeOK, Kinds, Steps
  <2>2. riffs' \in 0..MaxCount /\ weaks' \in 0..MaxCount /\ destroyed' \in Nat /\ freed' \in Nat
    BY <1>2, Counted, RaceAssumption DEF TypeOK
  <2> QED BY <2>1, <2>2 DEF TypeOK
<1>5. \A x \in Handles : PhaseOK(x)'
  BY <1>1 DEF TypeOK, PhaseOK, Blank, Held, Kinds
<1>6. OneRelease' /\ ConvertsLive' /\ LastGone'
  BY <1>1, <1>3 DEF TypeOK, OneRelease, ConvertsLive, LastGone, Releasing, Blank
<1>7. /\ ObjectDue' <=> ObjectDue
      /\ BlockDue' <=> BlockDue
      /\ WeakDue' <=> WeakDue
  BY <1>1 DEF TypeOK, ObjectDue, BlockDue, WeakDue, Blank
<1>8. History'
  BY <1>2, <1>3, <1>7 DEF History
<1>9. CountsMatchHandles'
  <2>1. WeakHandles' = WeakHandles \cup {h} /\ h \notin WeakHandles /\ RiffHandles' = RiffHandles
    BY <1>1 DEF TypeOK, RiffHandles, WeakHandles, Held, Blank
  <2>2. Cardinality(WeakHandles') = Cardinality(WeakHandles) + 1 /\ riffs = Cardinality(RiffHandles)
    BY <1>2, <2>1, CountedSets, CountOne, Counted DEF CountsMatchHandles
  <2>3. weaks' \in Nat /\ weaks' - Cardinality(WeakHandles') = weaks - Cardinality(WeakHandles)
    BY <1>2, <2>1, <2>2, CountedSets, Counted
  <2>4. riffs' \in Nat /\ riffs' = Cardinality(RiffHandles')
    BY <1>2, <2>1, <2>2, Counted DEF CountsMatchHandles
  <2> QED BY <1>3, <1>7, <2>1, <2>3, <2>4, CountedSets, CountsKept
<1> QED BY <1>4, <1>5, <1>6, <1>8, <1>9

\* The test of a conversion: nothing is counted yet.
LEMMA TestRiffsHolds ==
  ASSUME IInv, NEW h \in Handles, NEW g \in Handles, TestRiffs(h, g)
  PROVE  IInv'
<1> USE DEF IInv
<1>1. /\ Blank(h) /\ Held(g) /\ kind[g] \in {"strong", "weak"} /\ UNCHANGED kind
      /\ pc' = [pc EXCEPT ![h] = "convert"] /\ from' = [from EXCEPT ![h] = g]
  BY DEF TestRiffs, At
<1>2. riffs # 0 /\ UNCHANGED <<riffs, weaks, destroyed, freed>>
  BY DEF TestRiffs
<1>3. ~NoRiffs /\ ~NoRiffs' /\ (NoWeaks' <=> NoWeaks)
  BY <1>1, <1>2, Counted DEF NoRiffs, NoWeaks, RiffHandles, WeakHandles, ConvertsLive
<1>4. TypeOK'
  <2>1. /\ kind' \in [Handles -> Kinds] /\ pc' \in [Handles -> Steps]
        /\ from' \in [Handles -> Handles \cup {None}]
    BY <1>1 DEF TypeOK, Kinds, Steps
  <2>2. riffs' \in 0..MaxCount /\ weaks' \in 0..MaxCount /\ destroyed' \in Nat /\ freed' \in Nat
    BY <1>2, Counted, RaceAssumption DEF TypeOK
  <2> QED BY <2>1, <2>2 DEF TypeOK
<1>5. \A x \in Handles : PhaseOK(x)'
  BY <1>1 DEF TypeOK, PhaseOK, Blank, Held, Kinds
<1>6. OneRelease' /\ ConvertsLive' /\ LastGone'
  BY <1>1, <1>3 DEF TypeOK, OneRelease, ConvertsLive, LastGone, Releasing, Blank
<1>7. /\ ObjectDue' <=> ObjectDue
      /\ BlockDue' <=> BlockDue
      /\ WeakDue' <=> WeakDue
  BY <1>1 DEF TypeOK, ObjectDue, BlockDue, WeakDue, Blank
<1>8. History'
  BY <1>2, <1>3, <1>7 DEF History
<1>9. CountsMatchHandles'
  <2>1. RiffHandles' = RiffHandles /\ WeakHandles' = WeakHandles
    BY <1>1 DEF TypeOK, RiffHandles, WeakHandles, Held, Blank
  <2>2. riffs' \in Nat /\ riffs' = Cardinality(RiffHandles')
    BY <1>2, <2>1, CountedSets, CountOne, Counted DEF CountsMatchHandles
  <2>3. weaks' \in Nat /\ weaks' - Cardinality(WeakHandles') = weaks - Cardinality(WeakHandles)
    BY <1>2, <2>1, <2>2, CountedSets, Counted
  <2>4. riffs' \in Nat /\ riffs' = Cardinality(RiffHandles')
    BY <1>2, <2>1, <2>2, Counted DEF CountsMatchHandles
  <2> QED BY <1>3, <1>7, <2>1, <2>3, <2>4, CountedSets, CountsKept
<1> QED BY <1>4, <1>5, <1>6, <1>8, <1>9

\* The increment of a conversion: the counter is still not zero.
LEMMA ConvertHolds ==
  ASSUME IInv, NEW h \in Handles, Convert(h)
  PROVE  IInv'
<1> USE DEF IInv
<1>1. /\ pc[h] = "convert" /\ kind[h] = "none" /\ kind' = [kind EXCEPT ![h] = "std"]
      /\ pc' = [pc EXCEPT ![h] = "idle"] /\ from' = [from EXCEPT ![h] = None]
  BY DEF Convert, End, At, PhaseOK
<1>2. riffs < MaxCount /\ riffs' = riffs + 1 /\ UNCHANGED <<weaks, destroyed, freed>>
  BY DEF Convert, Room
<1>3. ~NoRiffs /\ ~NoRiffs' /\ (NoWeaks' <=> NoWeaks)
  BY <1>1, <1>2, Counted DEF NoRiffs, NoWeaks, RiffHandles, WeakHandles, ConvertsLive
<1>4. TypeOK'
  <2>1. /\ kind' \in [Handles -> Kinds] /\ pc' \in [Handles -> Steps]
        /\ from' \in [Handles -> Handles \cup {None}]
    BY <1>1 DEF TypeOK, Kinds, Steps
  <2>2. riffs' \in 0..MaxCount /\ weaks' \in 0..MaxCount /\ destroyed' \in Nat /\ freed' \in Nat
    BY <1>2, Counted, RaceAssumption DEF TypeOK
  <2> QED BY <2>1, <2>2 DEF TypeOK
<1>5. \A x \in Handles : PhaseOK(x)'
  BY <1>1 DEF TypeOK, PhaseOK, Blank, Held, Kinds
<1>6. OneRelease' /\ ConvertsLive' /\ LastGone'
  BY <1>1, <1>3 DEF TypeOK, OneRelease, ConvertsLive, LastGone, Releasing, Blank
<1>7. /\ ObjectDue' <=> ObjectDue
      /\ BlockDue' <=> BlockDue
      /\ WeakDue' <=> WeakDue
  BY <1>1 DEF TypeOK, ObjectDue, BlockDue, WeakDue, Blank
<1>8. History'
  BY <1>2, <1>3, <1>7 DEF History
<1>9. CountsMatchHandles'
  <2>1. RiffHandles' = RiffHandles \cup {h} /\ h \notin RiffHandles /\ WeakHandles' = WeakHandles
    BY <1>1 DEF TypeOK, RiffHandles, WeakHandles, Held, Blank
  <2>2. riffs' \in Nat /\ riffs' = Cardinality(RiffHandles')
    BY <1>2, <2>1, CountedSets, CountOne, Counted DEF CountsMatchHandles
  <2>3. weaks' \in Nat /\ weaks' - Cardinality(WeakHandles') = weaks - Cardinality(WeakHandles)
    BY <1>2, <2>1, <2>2, CountedSets, Counted
  <2>4. riffs' \in Nat /\ riffs' = Cardinality(RiffHandles')
    BY <1>2, <2>1, <2>2, Counted DEF CountsMatchHandles
  <2> QED BY <1>3, <1>7, <2>1, <2>3, <2>4, CountedSets, CountsKept
<1> QED BY <1>4, <1>5, <1>6, <1>8, <1>9

-----------------------------------------------------------------------------
(* Releases of strong and weak handles. *)

\* No conversion is left behind: one from a weak handle is kept apart, one from a
\* strong handle has another owner.
LEMMA DropRiffHolds ==
  ASSUME Discipline \subseteq KeptApart, IInv, NEW h \in Handles, DropRiff(h)
  PROVE  IInv'
<1> USE DEF IInv
<1>1. /\ pc[h] = "idle" /\ kind[h] = "strong" /\ MayBegin("~strong") /\ Held(h) /\ ~Lent(h)
      /\ pc' = [pc EXCEPT ![h] = "dropped"] /\ UNCHANGED <<kind, from>>
  BY DEF DropRiff, At, Held
<1>2. riffs' = riffs - 1 /\ riffs > 0 /\ UNCHANGED <<weaks, destroyed, freed>>
  <2>1. ~NoRiffs
    BY <1>1, Counted DEF RiffHandles
  <2>2. weaks \in Nat /\ riffs \in Nat
    BY Counted
  <2>3. riffs' = Pred(riffs) /\ UNCHANGED <<weaks, destroyed, freed>>
    BY DEF DropRiff
  <2> QED BY <2>1, <2>2, <2>3 DEF Pred, NoRiffs
<1>3. \A x \in Handles \ {h} : ~Releasing(x)
  BY <1>1, Apart
<1>4. /\ ~NoRiffs /\ ~NoWeaks /\ ~NoWeaks'
      /\ \A x \in Handles : pc[x] = "convert" => ~NoRiffs'
  <2>1. ~NoRiffs /\ ~NoWeaks /\ h \in RiffHandles
    BY <1>1, Counted DEF RiffHandles
  <2>2. ~NoWeaks'
    BY <1>2, <2>1 DEF NoWeaks
  <2>3. ASSUME NEW x \in Handles, pc[x] = "convert"
        PROVE  ~NoRiffs'
    <3>1. from[x] \in RiffHandles \ {h}
      BY <1>1, <2>3, Apart DEF PhaseOK, Lent, RiffHandles
    <3>2. /\ Cardinality(RiffHandles \ {h}) # 0 /\ Cardinality(RiffHandles \ {h}) \in Nat
          /\ Cardinality(RiffHandles \ {h}) = Cardinality(RiffHandles) - 1
      BY <2>1, <3>1, CountedSets, CountOne
    <3>3. riffs = Cardinality(RiffHandles)
      BY DEF CountsMatchHandles
    <3> QED BY <1>2, <3>2, <3>3, CountedSets DEF NoRiffs
  <2> QED BY <2>1, <2>2, <2>3
<1>5. ObjectDue' /\ WeakDue' /\ ~BlockDue /\ ~BlockDue'
  BY <1>1, <1>3 DEF TypeOK, Releasing, ObjectDue, BlockDue, WeakDue
<1>6. TypeOK'
  <2>1. /\ kind' \in [Handles -> Kinds] /\ pc' \in [Handles -> Steps]
        /\ from' \in [Handles -> Handles \cup {None}]
    BY <1>1 DEF TypeOK, Kinds, Steps
  <2>2. riffs' \in 0..MaxCount /\ weaks' \in 0..MaxCount /\ destroyed' \in Nat /\ freed' \in Nat
    BY <1>2, Counted, RaceAssumption DEF TypeOK
  <2> QED BY <2>1, <2>2 DEF TypeOK
<1>7. \A x \in Handles : PhaseOK(x)'
  BY <1>1 DEF TypeOK, PhaseOK, Held, Lent
<1>8. OneRelease' /\ ConvertsLive' /\ LastGone'
  BY <1>1, <1>3, <1>4 DEF TypeOK, OneRelease, ConvertsLive, LastGone, Releasing
<1>9. History'
  BY <1>2, <1>4, <1>5 DEF History
<1>10. CountsMatchHandles'
  <2>1. RiffHandles' = RiffHandles \ {h} /\ h \in RiffHandles /\ WeakHandles' = WeakHandles
    BY <1>1 DEF TypeOK, RiffHandles, WeakHandles, Held
  <2>2. Cardinality(RiffHandles') = Cardinality(RiffHandles) - 1
    BY <2>1, CountedSets, CountOne

  <2>3. weaks' \in Nat /\ weaks' - Cardinality(WeakHandles') = weaks - Cardinality(WeakHandles)
    BY <1>2, <2>1, <2>2, CountedSets, Counted
  <2>4. riffs' \in Nat /\ riffs' = Cardinality(RiffHandles')
    BY <1>2, <2>1, <2>2, CountedSets, Counted DEF CountsMatchHandles
  <2> QED BY <1>4, <1>5, <2>1, <2>3, <2>4, CountedSets, CountsKept
<1> QED BY <1>6, <1>7, <1>8, <1>9, <1>10

\* What is read is still what the decrement left.
LEMMA ReadRiffsHolds ==
  ASSUME IInv, NEW h \in Handles, ReadRiffs(h)
  PROVE  IInv'
<1> USE DEF IInv
<1>1. /\ pc[h] = "dropped" /\ kind[h] = "strong" /\ UNCHANGED from
      /\ \/ NoRiffs /\ pc' = [pc EXCEPT ![h] = "destroy"] /\ UNCHANGED kind
         \/ ~NoRiffs /\ pc' = [pc EXCEPT ![h] = "idle"] /\ kind' = [kind EXCEPT ![h] = "none"]
  BY DEF ReadRiffs, At, End, NoRiffs, PhaseOK
<1>2. UNCHANGED <<riffs, weaks, destroyed, freed>>
  BY DEF ReadRiffs
<1>3. \A x \in Handles \ {h} : ~Releasing(x)
  BY <1>1 DEF OneRelease, Releasing
<1>4. (NoRiffs' <=> NoRiffs) /\ (NoWeaks' <=> NoWeaks)
  BY <1>2 DEF NoRiffs, NoWeaks
<1>5. /\ ObjectDue /\ (NoRiffs => ObjectDue') /\ ~BlockDue /\ ~BlockDue'
      /\ WeakDue /\ (NoRiffs => WeakDue')
  BY <1>1, <1>3 DEF TypeOK, Releasing, ObjectDue, BlockDue, WeakDue
<1>6. TypeOK'
  <2>1. /\ kind' \in [Handles -> Kinds] /\ pc' \in [Handles -> Steps]
        /\ from' \in [Handles -> Handles \cup {None}]
    BY <1>1 DEF TypeOK, Kinds, Steps
  <2>2. riffs' \in 0..MaxCount /\ weaks' \in 0..MaxCount /\ destroyed' \in Nat /\ freed' \in Nat
    BY <1>2, Counted, RaceAssumption DEF TypeOK
  <2> QED BY <2>1, <2>2 DEF TypeOK
<1>7. \A x \in Handles : PhaseOK(x)'
  <2>1. CASE pc' = [pc EXCEPT ![h] = "destroy"] /\ UNCHANGED kind
    BY <1>1, <2>1 DEF TypeOK, PhaseOK, Held
  <2>2. CASE pc' = [pc EXCEPT ![h] = "idle"] /\ kind' = [kind EXCEPT ![h] = "none"]
    BY <1>1, <2>2 DEF TypeOK, PhaseOK, Held
  <2> QED BY <1>1, <2>1, <2>2
<1>8. OneRelease' /\ ConvertsLive' /\ LastGone'
  BY <1>1, <1>3, <1>4 DEF TypeOK, OneRelease, ConvertsLive, LastGone, Releasing
<1>9. History'
  BY <1>2, <1>4, <1>5 DEF History
<1>10. CountsMatchHandles'
  <2>1. RiffHandles' = RiffHandles /\ WeakHandles' = WeakHandles
    BY <1>1 DEF TypeOK, RiffHandles, WeakHandles, Held

  <2>2. weaks' \in Nat /\ weaks' - Cardinality(WeakHandles') = weaks - Cardinality(WeakHandles)
    BY <1>2, <2>1, CountedSets, Counted
  <2>3. riffs' \in Nat /\ riffs' = Cardinality(RiffHandles')
    BY <1>2, <2>1, CountedSets, Counted DEF CountsMatchHandles
  <2> QED BY <1>4, <1>5, <2>1, <2>2, <2>3, CountedSets, CountsKept
<1> QED BY <1>6, <1>7, <1>8, <1>9, <1>10

\* The only release under way destroys the object.
LEMMA DeleteInPlaceHolds ==
  ASSUME IInv, NEW h \in Handles, DeleteInPlace(h)
  PROVE  IInv'
<1> USE DEF IInv
<1>1. /\ pc[h] = "destroy" /\ kind[h] = "strong"
      /\ pc' = [pc EXCEPT ![h] = "drop weak"] /\ UNCHANGED <<kind, from>>
  BY DEF DeleteInPlace, At, PhaseOK
<1>2. destroyed' = destroyed + 1 /\ UNCHANGED <<riffs, weaks, freed>>
  BY DEF DeleteInPlace
<1>3. \A x \in Handles \ {h} : ~Releasing(x)
  BY <1>1 DEF OneRelease, Releasing
<1>4. NoRiffs /\ NoRiffs' /\ (NoWeaks' <=> NoWeaks)
  BY <1>1, <1>2 DEF NoRiffs, NoWeaks, LastGone
<1>5. ObjectDue /\ ~ObjectDue' /\ ~BlockDue /\ ~BlockDue' /\ WeakDue /\ WeakDue'
  BY <1>1, <1>3 DEF TypeOK, Releasing, ObjectDue, BlockDue, WeakDue
<1>6. TypeOK'
  <2>1. /\ kind' \in [Handles -> Kinds] /\ pc' \in [Handles -> Steps]
        /\ from' \in [Handles -> Handles \cup {None}]
    BY <1>1 DEF TypeOK, Kinds, Steps
  <2>2. riffs' \in 0..MaxCount /\ weaks' \in 0..MaxCount /\ destroyed' \in Nat /\ freed' \in Nat
    BY <1>2, Counted, RaceAssumption DEF TypeOK
  <2> QED BY <2>1, <2>2 DEF TypeOK
<1>7. \A x \in Handles : PhaseOK(x)'
  BY <1>1 DEF TypeOK, PhaseOK, Held
<1>8. OneRelease' /\ ConvertsLive' /\ LastGone'
  BY <1>1, <1>3, <1>4 DEF TypeOK, OneRelease, ConvertsLive, LastGone, Releasing
<1>9. History'
  BY <1>2, <1>4, <1>5 DEF History
<1>10. CountsMatchHandles'
  <2>1. RiffHandles' = RiffHandles /\ WeakHandles' = WeakHandles
    BY <1>1 DEF TypeOK, RiffHandles, WeakHandles, Held

  <2>2. weaks' \in Nat /\ weaks' - Cardinality(WeakHandles') = weaks - Cardinality(WeakHandles)
    BY <1>2, <2>1, CountedSets, Counted
  <2>3. riffs' \in Nat /\ riffs' = Cardinality(RiffHandles')
    BY <1>2, <2>1, CountedSets, Counted DEF CountsMatchHandles
  <2> QED BY <1>4, <1>5, <2>1, <2>2, <2>3, CountedSets, CountsKept
<1> QED BY <1>6, <1>7, <1>8, <1>9, <1>10

\* The only release under way deletes the block.
LEMMA FreeHolds ==
  ASSUME IInv, NEW h \in Handles, Free(h)
  PROVE  IInv'
<1> USE DEF IInv
<1>1. /\ pc[h] = "free" /\ UNCHANGED from
      /\ pc' = [pc EXCEPT ![h] = "idle"] /\ kind' = [kind EXCEPT ![h] = "none"]
  BY DEF Free, At, End
<1>2. freed' = freed + 1 /\ UNCHANGED <<riffs, weaks, destroyed>>
  BY DEF Free
<1>3. \A x \in Handles \ {h} : ~Releasing(x)
  BY <1>1 DEF OneRelease, Releasing
<1>4. NoWeaks /\ NoWeaks' /\ NoRiffs /\ NoRiffs'
  BY <1>1, <1>2, Counted DEF NoRiffs, NoWeaks, LastGone
<1>5. ~ObjectDue /\ ~ObjectDue' /\ BlockDue /\ ~BlockDue' /\ ~WeakDue /\ ~WeakDue'
  BY <1>1, <1>3 DEF TypeOK, Releasing, ObjectDue, BlockDue, WeakDue
<1>6. TypeOK'
  <2>1. /\ kind' \in [Handles -> Kinds] /\ pc' \in [Handles -> Steps]
        /\ from' \in [Handles -> Handles \cup {None}]
    BY <1>1 DEF TypeOK, Kinds, Steps
  <2>2. riffs' \in 0..MaxCount /\ weaks' \in 0..MaxCount /\ destroyed' \in Nat /\ freed' \in Nat
    BY <1>2, Counted, RaceAssumption DEF TypeOK
  <2> QED BY <2>1, <2>2 DEF TypeOK
<1>7. \A x \in Handles : PhaseOK(x)'
  BY <1>1 DEF TypeOK, PhaseOK, Held
<1>8. OneRelease' /\ ConvertsLive' /\ LastGone'
  BY <1>1, <1>3, <1>4 DEF TypeOK, OneRelease, ConvertsLive, LastGone, Releasing
<1>9. History'
  BY <1>2, <1>4, <1>5 DEF History
<1>10. CountsMatchHandles'
  <2>1. RiffHandles' = RiffHandles /\ WeakHandles' = WeakHandles
    BY <1>1 DEF TypeOK, RiffHandles, WeakHandles, Held

  <2>2. weaks' \in Nat /\ weaks' - Cardinality(WeakHandles') = weaks - Cardinality(WeakHandles)
    BY <1>2, <2>1, CountedSets, Counted
  <2>3. riffs' \in Nat /\ riffs' = Cardinality(RiffHandles')
    BY <1>2, <2>1, CountedSets, Counted DEF CountsMatchHandles
  <2> QED BY <1>4, <1>5, <2>1, <2>2, <2>3, CountedSets, CountsKept
<1> QED BY <1>6, <1>7, <1>8, <1>9, <1>10

\* What is read is still what the decrement left.
LEMMA ReadWeaksHolds ==
  ASSUME IInv, NEW h \in Handles, ReadWeaks(h)
  PROVE  IInv'
<1> USE DEF IInv
<1>1. /\ pc[h] = "dropped weak" /\ kind[h] \in {"strong", "weak"} /\ UNCHANGED from
      /\ \/ NoWeaks /\ pc' = [pc EXCEPT ![h] = "free"] /\ UNCHANGED kind
         \/ ~NoWeaks /\ pc' = [pc EXCEPT ![h] = "idle"] /\ kind' = [kind EXCEPT ![h] = "none"]
  BY DEF ReadWeaks, At, End, NoWeaks, PhaseOK
<1>2. UNCHANGED <<riffs, weaks, destroyed, freed>>
  BY DEF ReadWeaks
<1>3. \A x \in Handles \ {h} : ~Releasing(x)
  BY <1>1 DEF OneRelease, Releasing
<1>4. (NoRiffs' <=> NoRiffs) /\ (NoWeaks' <=> NoWeaks)
  BY <1>2 DEF NoRiffs, NoWeaks
<1>5. /\ ~ObjectDue /\ ~ObjectDue' /\ ~WeakDue /\ ~WeakDue'
      /\ BlockDue /\ (NoWeaks => BlockDue')
  BY <1>1, <1>3 DEF TypeOK, Releasing, ObjectDue, BlockDue, WeakDue
<1>6. TypeOK'
  <2>1. /\ kind' \in [Handles -> Kinds] /\ pc' \in [Handles -> Steps]
        /\ from' \in [Handles -> Handles \cup {None}]
    BY <1>1 DEF TypeOK, Kinds, Steps
  <2>2. riffs' \in 0..MaxCount /\ weaks' \in 0..MaxCount /\ destroyed' \in Nat /\ freed' \in Nat
    BY <1>2, Counted, RaceAssumption DEF TypeOK
  <2> QED BY <2>1, <2>2 DEF TypeOK
<1>7. \A x \in Handles : PhaseOK(x)'
  <2>1. CASE pc' = [pc EXCEPT ![h] = "free"] /\ UNCHANGED kind
    BY <1>1, <2>1 DEF TypeOK, PhaseOK, Held
  <2>2. CASE pc' = [pc EXCEPT ![h] = "idle"] /\ kind' = [kind EXCEPT ![h] = "none"]
    BY <1>1, <2>2 DEF TypeOK, PhaseOK, Held
  <2> QED BY <1>1, <2>1, <2>2
<1>8. OneRelease' /\ ConvertsLive' /\ LastGone'
  BY <1>1, <1>3, <1>4 DEF TypeOK, OneRelease, ConvertsLive, LastGone, Releasing
<1>9. History'
  BY <1>2, <1>4, <1>5 DEF History
<1>10. CountsMatchHandles'
  <2>1. RiffHandles' = RiffHandles /\ WeakHandles' = WeakHandles
    BY <1>1 DEF TypeOK, RiffHandles, WeakHandles, Held

  <2>2. weaks' \in Nat /\ weaks' - Cardinality(WeakHandles') = weaks - Cardinality(WeakHandles)
    BY <1>2, <2>1, CountedSets, Counted
  <2>3. riffs' \in Nat /\ riffs' = Cardinality(RiffHandles')
    BY <1>2, <2>1, CountedSets, Counted DEF CountsMatchHandles
  <2> QED BY <1>4, <1>5, <2>1, <2>2, <2>3, CountedSets, CountsKept
<1> QED BY <1>6, <1>7, <1>8, <1>9, <1>10

\* The library's way to destroy the object.
LEMMA StdDestroyHolds ==
  ASSUME IInv, NEW h \in Handles, StdDestroy(h)
  PROVE  IInv'
<1> USE DEF IInv
<1>1. /\ pc[h] = "std destroy" /\ kind[h] = "std"
      /\ pc' = [pc EXCEPT ![h] = "std drop weak"] /\ UNCHANGED <<kind, from>>
  BY DEF StdDestroy, At, PhaseOK
<1>2. destroyed' = destroyed + 1 /\ UNCHANGED <<riffs, weaks, freed>>
  BY DEF StdDestroy
<1>3. \A x \in Handles \ {h} : ~Releasing(x)
  BY <1>1 DEF OneRelease, Releasing
<1>4. NoRiffs /\ NoRiffs' /\ (NoWeaks' <=> NoWeaks)
  BY <1>1, <1>2 DEF NoRiffs, NoWeaks, LastGone
<1>5. ObjectDue /\ ~ObjectDue' /\ ~BlockDue /\ ~BlockDue' /\ WeakDue /\ WeakDue'
  BY <1>1, <1>3 DEF TypeOK, Releasing, ObjectDue, BlockDue, WeakDue
<1>6. TypeOK'
  <2>1. /\ kind' \in [Handles -> Kinds] /\ pc' \in [Handles -> Steps]
        /\ from' \in [Handles -> Handles \cup {None}]
    BY <1>1 DEF TypeOK, Kinds, Steps
  <2>2. riffs' \in 0..MaxCount /\ weaks' \in 0..MaxCount /\ destroyed' \in Nat /\ freed' \in Nat
    BY <1>2, Counted, RaceAssumption DEF TypeOK
  <2> QED BY <2>1, <2>2 DEF TypeOK
<1>7. \A x \in Handles : PhaseOK(x)'
  BY <1>1 DEF TypeOK, PhaseOK, Held
<1>8. OneRelease' /\ ConvertsLive' /\ LastGone'
  BY <1>1, <1>3, <1>4 DEF TypeOK, OneRelease, ConvertsLive, LastGone, Releasing
<1>9. History'
  BY <1>2, <1>4, <1>5 DEF History
<1>10. CountsMatchHandles'
  <2>1. RiffHandles' = RiffHandles /\ WeakHandles' = WeakHandles
    BY <1>1 DEF TypeOK, RiffHandles, WeakHandles, Held

  <2>2. weaks' \in Nat /\ weaks' - Cardinality(WeakHandles') = weaks - Cardinality(WeakHandles)
    BY <1>2, <2>1, CountedSets, Counted
  <2>3. riffs' \in Nat /\ riffs' = Cardinality(RiffHandles')
    BY <1>2, <2>1, CountedSets, Counted DEF CountsMatchHandles
  <2> QED BY <1>4, <1>5, <2>1, <2>2, <2>3, CountedSets, CountsKept
<1> QED BY <1>6, <1>7, <1>8, <1>9, <1>10

\* Other releases are kept apart, so the block is still due.
LEMMA DropWeakHolds ==
  ASSUME Discipline \subseteq KeptApart, IInv, NEW h \in Handles, DropWeak(h)
  PROVE  IInv'
<1> USE DEF IInv
<1>1. /\ pc[h] = "idle" /\ kind[h] = "weak" /\ MayBegin("~weak") /\ Held(h) /\ ~Lent(h)
      /\ pc' = [pc EXCEPT ![h] = "dropped weak"] /\ UNCHANGED <<kind, from>>
  BY DEF DropWeak, At, Held
<1>2. weaks' = weaks - 1 /\ weaks > 0 /\ UNCHANGED <<riffs, destroyed, freed>>
  <2>1. ~NoWeaks
    BY <1>1, Counted DEF WeakHandles
  <2>2. weaks \in Nat /\ riffs \in Nat
    BY Counted
  <2>3. weaks' = Pred(weaks) /\ UNCHANGED <<riffs, destroyed, freed>>
    BY DEF DropWeak
  <2> QED BY <2>1, <2>2, <2>3 DEF Pred, NoWeaks
<1>3. \A x \in Handles \ {h} : ~Releasing(x)
  BY <1>1, Apart
<1>4. ~NoWeaks /\ (NoRiffs' <=> NoRiffs)
  BY <1>2 DEF NoWeaks, NoRiffs
<1>5. ~ObjectDue /\ ~ObjectDue' /\ ~BlockDue /\ BlockDue' /\ ~WeakDue /\ ~WeakDue'
  BY <1>1, <1>3 DEF TypeOK, Releasing, ObjectDue, BlockDue, WeakDue
<1>6. TypeOK'
  <2>1. /\ kind' \in [Handles -> Kinds] /\ pc' \in [Handles -> Steps]
        /\ from' \in [Handles -> Handles \cup {None}]
    BY <1>1 DEF TypeOK, Kinds, Steps
  <2>2. riffs' \in 0..MaxCount /\ weaks' \in 0..MaxCount /\ destroyed' \in Nat /\ freed' \in Nat
    BY <1>2, Counted, RaceAssumption DEF TypeOK
  <2> QED BY <2>1, <2>2 DEF TypeOK
<1>7. \A x \in Handles : PhaseOK(x)'
  BY <1>1 DEF TypeOK, PhaseOK, Held, Lent
<1>8. OneRelease' /\ ConvertsLive' /\ LastGone'
  BY <1>1, <1>3, <1>4 DEF TypeOK, OneRelease, ConvertsLive, LastGone, Releasing
<1>9. History'
  BY <1>2, <1>4, <1>5 DEF History
<1>10. CountsMatchHandles'
  <2>1. WeakHandles' = WeakHandles \ {h} /\ h \in WeakHandles /\ RiffHandles' = RiffHandles
    BY <1>1 DEF TypeOK, RiffHandles, WeakHandles, Held
  <2>2. Cardinality(WeakHandles') = Cardinality(WeakHandles) - 1
    BY <2>1, CountedSets, CountOne

  <2>3. weaks' \in Nat /\ weaks' - Cardinality(WeakHandles') = weaks - Cardinality(WeakHandles)
    BY <1>2, <2>1, <2>2, CountedSets, Counted
  <2>4. riffs' \in Nat /\ riffs' = Cardinality(RiffHandles')
    BY <1>2, <2>1, <2>2, CountedSets, Counted DEF CountsMatchHandles
  <2> QED BY <1>4, <1>5, <2>1, <2>3, <2>4, CountedSets, CountsKept
<1> QED BY <1>6, <1>7, <1>8, <1>9, <1>10

\* The weak counter loses the reference of the strong ones.
LEMMA DropWeakOfRiffsHolds ==
  ASSUME IInv, NEW h \in Handles, DropWeakOfRiffs(h)
  PROVE  IInv'
<1> USE DEF IInv
<1>1. /\ pc[h] = "drop weak" /\ kind[h] = "strong"
      /\ pc' = [pc EXCEPT ![h] = "dropped weak"] /\ UNCHANGED <<kind, from>>
  BY DEF DropWeakOfRiffs, At, PhaseOK
<1>2. weaks' = weaks - 1 /\ weaks > 0 /\ UNCHANGED <<riffs, destroyed, freed>>
  <2>1. ~NoWeaks
    BY <1>1, Counted DEF WeakDue
  <2>2. weaks \in Nat /\ riffs \in Nat
    BY Counted
  <2>3. weaks' = Pred(weaks) /\ UNCHANGED <<riffs, destroyed, freed>>
    BY DEF DropWeakOfRiffs
  <2> QED BY <2>1, <2>2, <2>3 DEF Pred, NoWeaks
<1>3. \A x \in Handles \ {h} : ~Releasing(x)
  BY <1>1 DEF OneRelease, Releasing
<1>4. NoRiffs /\ NoRiffs' /\ ~NoWeaks
  <2>1. NoRiffs
    BY <1>1 DEF LastGone
  <2>2. NoRiffs' /\ ~NoWeaks
    BY <1>2, <2>1 DEF NoRiffs, NoWeaks
  <2> QED BY <2>1, <2>2
<1>5. ~ObjectDue /\ ~ObjectDue' /\ ~BlockDue /\ BlockDue' /\ WeakDue /\ ~WeakDue'
  BY <1>1, <1>3 DEF TypeOK, Releasing, ObjectDue, BlockDue, WeakDue
<1>6. TypeOK'
  <2>1. /\ kind' \in [Handles -> Kinds] /\ pc' \in [Handles -> Steps]
        /\ from' \in [Handles -> Handles \cup {None}]
    BY <1>1 DEF TypeOK, Kinds, Steps
  <2>2. riffs' \in 0..MaxCount /\ weaks' \in 0..MaxCount /\ destroyed' \in Nat /\ freed' \in Nat
    BY <1>2, Counted, RaceAssumption DEF TypeOK
  <2> QED BY <2>1, <2>2 DEF TypeOK
<1>7. \A x \in Handles : PhaseOK(x)'
  BY <1>1 DEF TypeOK, PhaseOK, Held
<1>8. OneRelease' /\ ConvertsLive' /\ LastGone'
  BY <1>1, <1>3, <1>4 DEF TypeOK, OneRelease, ConvertsLive, LastGone, Releasing
<1>9. History'
  BY <1>2, <1>4, <1>5 DEF History
<1>10. CountsMatchHandles'
  <2>1. RiffHandles' = RiffHandles /\ WeakHandles' = WeakHandles
    BY <1>1 DEF TypeOK, RiffHandles, WeakHandles, Held

  <2> QED BY <1>2, <1>4, <1>5, <2>1, CountsDropped
<1> QED BY <1>6, <1>7, <1>8, <1>9, <1>10

\* The library decides by the value it decremented.
LEMMA StdDropWeakHolds ==
  ASSUME IInv, NEW h \in Handles, StdDropWeak(h)
  PROVE  IInv'
<1> USE DEF IInv
<1>1. /\ pc[h] = "std drop weak" /\ kind[h] = "std" /\ UNCHANGED from
      /\ \/ weaks = 1 /\ pc' = [pc EXCEPT ![h] = "free"] /\ UNCHANGED kind
         \/ weaks # 1 /\ pc' = [pc EXCEPT ![h] = "idle"] /\ kind' = [kind EXCEPT ![h] = "none"]
  BY DEF StdDropWeak, At, End, PhaseOK
<1>2. weaks' = weaks - 1 /\ weaks > 0 /\ UNCHANGED <<riffs, destroyed, freed>>
  <2>1. ~NoWeaks
    BY <1>1, Counted DEF WeakDue
  <2>2. weaks \in Nat /\ riffs \in Nat
    BY Counted
  <2>3. weaks' = Pred(weaks) /\ UNCHANGED <<riffs, destroyed, freed>>
    BY DEF StdDropWeak
  <2> QED BY <2>1, <2>2, <2>3 DEF Pred, NoWeaks
<1>3. \A x \in Handles \ {h} : ~Releasing(x)
  BY <1>1 DEF OneRelease, Releasing
<1>4. /\ NoRiffs /\ NoRiffs' /\ ~NoWeaks
      /\ NoWeaks' <=> weaks = 1
  <2>1. NoRiffs
    BY <1>1 DEF LastGone
  <2>2. weaks \in Nat
    BY Counted
  <2>3. NoRiffs' /\ ~NoWeaks /\ (NoWeaks' <=> weaks = 1)
    BY <1>2, <2>1, <2>2 DEF NoRiffs, NoWeaks
  <2> QED BY <2>1, <2>3
<1>5. /\ ~ObjectDue /\ ~ObjectDue' /\ ~BlockDue /\ WeakDue /\ ~WeakDue'
      /\ weaks = 1 => BlockDue'
  BY <1>1, <1>3 DEF TypeOK, Releasing, ObjectDue, BlockDue, WeakDue
<1>6. TypeOK'
  <2>1. /\ kind' \in [Handles -> Kinds] /\ pc' \in [Handles -> Steps]
        /\ from' \in [Handles -> Handles \cup {None}]
    BY <1>1 DEF TypeOK, Kinds, Steps
  <2>2. riffs' \in 0..MaxCount /\ weaks' \in 0..MaxCount /\ destroyed' \in Nat /\ freed' \in Nat
    BY <1>2, Counted, RaceAssumption DEF TypeOK
  <2> QED BY <2>1, <2>2 DEF TypeOK
<1>7. \A x \in Handles : PhaseOK(x)'
  <2>1. CASE pc' = [pc EXCEPT ![h] = "free"] /\ UNCHANGED kind
    BY <1>1, <2>1 DEF TypeOK, PhaseOK, Held
  <2>2. CASE pc' = [pc EXCEPT ![h] = "idle"] /\ kind' = [kind EXCEPT ![h] = "none"]
    BY <1>1, <2>2 DEF TypeOK, PhaseOK, Held
  <2> QED BY <1>1, <2>1, <2>2
<1>8. OneRelease' /\ ConvertsLive' /\ LastGone'
  BY <1>1, <1>3, <1>4 DEF TypeOK, OneRelease, ConvertsLive, LastGone, Releasing
<1>9. History'
  BY <1>2, <1>4, <1>5 DEF History
<1>10. CountsMatchHandles'
  <2>1. RiffHandles' = RiffHandles /\ WeakHandles' = WeakHandles
    BY <1>1 DEF TypeOK, RiffHandles, WeakHandles, Held

  <2> QED BY <1>2, <1>4, <1>5, <2>1, CountsDropped
<1> QED BY <1>6, <1>7, <1>8, <1>9, <1>10

\* Another std::shared_ptr's release would have to have found no reference left,
\* and h is one.
LEMMA StdDropRiffHolds ==
  ASSUME Discipline \subseteq KeptApart, IInv, NEW h \in Handles, StdDropRiff(h)
  PROVE  IInv'
<1> USE DEF IInv
<1>1. /\ pc[h] = "idle" /\ kind[h] = "std" /\ MayBegin("~std") /\ Held(h) /\ ~Lent(h)
      /\ UNCHANGED from
      /\ \/ riffs = 1 /\ pc' = [pc EXCEPT ![h] = "std destroy"] /\ UNCHANGED kind
         \/ riffs # 1 /\ pc' = [pc EXCEPT ![h] = "idle"] /\ kind' = [kind EXCEPT ![h] = "none"]
  BY DEF StdDropRiff, At, End, Held
<1>2. riffs' = riffs - 1 /\ riffs > 0 /\ UNCHANGED <<weaks, destroyed, freed>>
  <2>1. ~NoRiffs
    BY <1>1, Counted DEF RiffHandles
  <2>2. weaks \in Nat /\ riffs \in Nat
    BY Counted
  <2>3. riffs' = Pred(riffs) /\ UNCHANGED <<weaks, destroyed, freed>>
    BY DEF StdDropRiff
  <2> QED BY <2>1, <2>2, <2>3 DEF Pred, NoRiffs
<1>3. \A x \in Handles \ {h} : ~Releasing(x)
  <2> SUFFICES ASSUME NEW x \in Handles, Releasing(x) PROVE FALSE
    OBVIOUS
  <2>1. kind[x] = "std" /\ PhaseOK(x) /\ pc[x] \in Steps /\ pc[x] \notin {"idle", "convert"}
    BY <1>1, Apart DEF Releasing, TypeOK
  <2>2. kind[x] = "std" /\ pc[x] \in {"std destroy", "std drop weak", "free"}
    BY <2>1 DEF PhaseOK, Steps
  <2>3. ~NoRiffs /\ ~NoWeaks
    BY <1>1, Counted DEF RiffHandles
  <2> QED BY <2>2, <2>3 DEF LastGone
<1>4. /\ ~NoRiffs /\ ~NoWeaks /\ ~NoWeaks'
      /\ NoRiffs' <=> riffs = 1
      /\ \A x \in Handles : pc[x] = "convert" => riffs # 1
  <2>1. ~NoRiffs /\ ~NoWeaks /\ h \in RiffHandles
    BY <1>1, Counted DEF RiffHandles
  <2>2. ~NoWeaks' /\ (NoRiffs' <=> riffs = 1)
    BY <1>2, <2>1, Counted DEF NoRiffs, NoWeaks
  <2>3. ASSUME NEW x \in Handles, pc[x] = "convert"
        PROVE  riffs # 1
    <3>1. from[x] \in RiffHandles \ {h}
      BY <1>1, <2>3, Apart DEF PhaseOK, Lent, RiffHandles
    <3>2. /\ Cardinality(RiffHandles \ {h}) # 0 /\ Cardinality(RiffHandles \ {h}) \in Nat
          /\ Cardinality(RiffHandles \ {h}) = Cardinality(RiffHandles) - 1
      BY <2>1, <3>1, CountedSets, CountOne
    <3>3. riffs = Cardinality(RiffHandles)
      BY DEF CountsMatchHandles
    <3> QED BY <3>2, <3>3, CountedSets
  <2> QED BY <2>1, <2>2, <2>3
<1>5. /\ riffs = 1 => ObjectDue' /\ WeakDue'
      /\ ~BlockDue /\ ~BlockDue'
  BY <1>1, <1>3 DEF TypeOK, Releasing, ObjectDue, BlockDue, WeakDue
<1>6. TypeOK'
  <2>1. /\ kind' \in [Handles -> Kinds] /\ pc' \in [Handles -> Steps]
        /\ from' \in [Handles -> Handles \cup {None}]
    BY <1>1 DEF TypeOK, Kinds, Steps
  <2>2. riffs' \in 0..MaxCount /\ weaks' \in 0..MaxCount /\ destroyed' \in Nat /\ freed' \in Nat
    BY <1>2, Counted, RaceAssumption DEF TypeOK
  <2> QED BY <2>1, <2>2 DEF TypeOK
<1>7. \A x \in Handles : PhaseOK(x)'
  <2>1. CASE pc' = [pc EXCEPT ![h] = "std destroy"] /\ UNCHANGED kind
    BY <1>1, <2>1 DEF TypeOK, PhaseOK, Held
  <2>2. CASE pc' = [pc EXCEPT ![h] = "idle"] /\ kind' = [kind EXCEPT ![h] = "none"]
    BY <1>1, <2>2 DEF TypeOK, PhaseOK, Held
  <2> QED BY <1>1, <2>1, <2>2
<1>8. OneRelease' /\ ConvertsLive' /\ LastGone'
  <2>1. OneRelease'
    BY <1>1, <1>3 DEF TypeOK, OneRelease, Releasing
  <2>2. ConvertsLive'
    BY <1>1, <1>4 DEF TypeOK, ConvertsLive
  <2>3. LastGone'
    BY <1>1, <1>3, <1>4 DEF TypeOK, LastGone, Releasing
  <2> QED BY <2>1, <2>2, <2>3
<1>9. History'
  BY <1>2, <1>4, <1>5 DEF History
<1>10. CountsMatchHandles'
  <2>1. RiffHandles' = RiffHandles \ {h} /\ h \in RiffHandles /\ WeakHandles' = WeakHandles
    BY <1>1 DEF TypeOK, RiffHandles, WeakHandles, Held
  <2>2. Cardinality(RiffHandles') = Cardinality(RiffHandles) - 1
    BY <2>1, CountedSets, CountOne

  <2>3. weaks' \in Nat /\ weaks' - Cardinality(WeakHandles') = weaks - Cardinality(WeakHandles)
    BY <1>2, <2>1, <2>2, CountedSets, Counted
  <2>4. riffs' \in Nat /\ riffs' = Cardinality(RiffHandles')
    BY <1>2, <2>1, <2>2, CountedSets, Counted DEF CountsMatchHandles
  <2> QED BY <1>4, <1>5, <2>1, <2>3, <2>4, CountedSets, CountsKept
<1> QED BY <1>6, <1>7, <1>8, <1>9, <1>10

-----------------------------------------------------------------------------
(* The specification. *)

\* std::make_shared's handle is the only one.
LEMMA IInvInit == Init => IInv
<1> SUFFICES ASSUME Init PROVE IInv
  OBVIOUS
<1>1. PICK h \in Handles : kind = [g \in Handles |-> IF g = h THEN "std" ELSE "none"]
  BY DEF Init
<1>2. /\ pc = [g \in Handles |-> "idle"] /\ from = [g \in Handles |-> None]
      /\ riffs = 1 /\ weaks = 1 /\ destroyed = 0 /\ freed = 0
  BY DEF Init
<1>3. TypeOK
  BY <1>1, <1>2, RaceAssumption DEF TypeOK, Kinds, Steps
<1>4. ~NoRiffs /\ ~NoWeaks
  BY <1>2 DEF NoRiffs, NoWeaks
<1>5. (\A g \in Handles : PhaseOK(g)) /\ OneRelease /\ ConvertsLive /\ LastGone
  BY <1>1, <1>2 DEF PhaseOK, OneRelease, Releasing, ConvertsLive, LastGone
<1>6. History
  BY <1>2, <1>4 DEF History
<1>7. CountsMatchHandles
  <2>1. RiffHandles = {h} /\ WeakHandles = {}
    BY <1>1, <1>2 DEF RiffHandles, WeakHandles, Held
  <2>2. Cardinality(RiffHandles) = 1 /\ Cardinality(WeakHandles) = 0
    BY <2>1, FS_Singleton, FS_EmptySet
  <2>3. WeakOfRiffs
    BY <1>2 DEF WeakOfRiffs
  <2> QED BY <1>2, <2>2, <2>3 DEF CountsMatchHandles
<1> QED BY <1>3, <1>5, <1>6, <1>7 DEF IInv

LEMMA IInvStutters == IInv /\ UNCHANGED vars => IInv'
<1> SUFFICES ASSUME IInv, UNCHANGED vars PROVE IInv'
  OBVIOUS
<1> USE DEF IInv, vars
<1>1. TypeOK' /\ (\A h \in Handles : PhaseOK(h)') /\ OneRelease' /\ ConvertsLive' /\ LastGone'
  BY DEF TypeOK, PhaseOK, Held, OneRelease, Releasing, ConvertsLive, LastGone, NoRiffs, NoWeaks
<1>2. CountsMatchHandles'
  <2>1. /\ RiffHandles' = RiffHandles /\ WeakHandles' = WeakHandles
        /\ WeakOfRiffs' <=> WeakOfRiffs
    BY DEF RiffHandles, WeakHandles, Held, WeakOfRiffs
  <2> QED BY <2>1 DEF CountsMatchHandles
<1>3. History'
  <2>1. /\ NoRiffs' <=> NoRiffs
        /\ NoWeaks' <=> NoWeaks
        /\ ObjectDue' <=> ObjectDue
        /\ BlockDue' <=> BlockDue
    BY DEF NoRiffs, NoWeaks, ObjectDue, BlockDue
  <2> QED BY <2>1 DEF History
<1> QED BY <1>1, <1>2, <1>3

LEMMA IInvStep ==
  ASSUME Discipline \subseteq KeptApart, IInv, [Next]_vars
  PROVE  IInv'
<1>1. CASE UNCHANGED vars
  BY <1>1, IInvStutters
<1>2. ASSUME NEW h \in Handles, Begin(h)
      PROVE  IInv'
  BY <1>2, CopyRiffHolds, CopyWeakHolds, TestRiffsHolds, DropRiffHolds, DropWeakHolds,
     StdDropRiffHolds DEF Begin
<1>3. ASSUME NEW h \in Handles, Continue(h)
      PROVE  IInv'
  BY <1>3, ConvertHolds, ReadRiffsHolds, DeleteInPlaceHolds, DropWeakOfRiffsHolds,
     ReadWeaksHolds, FreeHolds, StdDestroyHolds, StdDropWeakHolds DEF Continue
<1> QED BY <1>1, <1>2, <1>3 DEF Next

LEMMA Invariance == Discipline \subseteq KeptApart => (Spec => []IInv)
<1> SUFFICES ASSUME Discipline \subseteq KeptApart PROVE Spec => []IInv
  OBVIOUS
<1>1. IInv /\ [Next]_vars => IInv'
  BY IInvStep
<1> QED BY <1>1, IInvInit, PTL DEF Spec

-----------------------------------------------------------------------------
\* Under Discipline no counter wraps below zero or exceeds its width.
THEOREM TypeCorrect == Discipline \subseteq KeptApart => (Spec => []TypeOK)
<1>1. IInv => TypeOK
  BY DEF IInv
<1> QED BY <1>1, Invariance, PTL

\* Under Discipline the counters are, between any two steps of any threads, what
\* the handles make them.
THEOREM CountsAreRight == Discipline \subseteq KeptApart => (Spec => []CountsMatchHandles)
<1>1. IInv => CountsMatchHandles
  BY DEF IInv
<1> QED BY <1>1, Invariance, PTL

\* Under Discipline no object is destroyed twice, no block deleted twice, and no
\* block deleted before its object is destroyed.
THEOREM NoDoubleEnd == Discipline \subseteq KeptApart => (Spec => []EndsOnce)
<1>1. ASSUME IInv PROVE EndsOnce
  <2>1. NoWeaks /\ ~BlockDue => NoRiffs /\ ~ObjectDue
    <3>1. ObjectDue => WeakDue
      BY DEF ObjectDue, WeakDue
    <3> QED BY <1>1, <3>1, Counted
  <2> QED BY <1>1, <2>1 DEF IInv, History, EndsOnce
<1> QED BY <1>1, Invariance, PTL

\* Under Discipline the object is there as long as somebody owns it.
THEOREM OwnedIsAlive == Discipline \subseteq KeptApart => (Spec => []HeldIsAlive)
<1>1. ASSUME IInv PROVE HeldIsAlive
  <2>1. RiffHandles # {} => ~NoRiffs
    BY <1>1, Counted
  <2> QED BY <1>1, <2>1 DEF IInv, History, HeldIsAlive
<1> QED BY <1>1, Invariance, PTL

\* Under Discipline the thread that deletes the control block is the last one
\* that uses it.
THEOREM LastUserFrees == Discipline \subseteq KeptApart => (Spec => []NothingAfterFree)
<1>1. ASSUME IInv PROVE NothingAfterFree
  <2> SUFFICES ASSUME freed > 0, NEW h \in Handles
               PROVE  kind[h] = "none" /\ pc[h] = "idle"
    BY DEF NothingAfterFree
  <2>1. NoWeaks /\ ~BlockDue
    BY <1>1 DEF IInv, History
  <2>2. NoRiffs /\ RiffHandles = {} /\ WeakHandles = {} /\ ~WeakDue
    BY <1>1, <2>1, Counted
  <2>3. pc[h] \in Steps /\ kind[h] \in Kinds /\ PhaseOK(h)
    BY <1>1 DEF IInv, TypeOK
  <2>4. pc[h] = "idle"
    BY <1>1, <2>1, <2>2, <2>3 DEF IInv, ConvertsLive, BlockDue, WeakDue, Steps
  <2>5. kind[h] \notin {"std", "strong", "weak"}
    BY <2>2, <2>4 DEF RiffHandles, WeakHandles, Held
  <2> QED BY <2>3, <2>4, <2>5 DEF Kinds
<1> QED BY <1>1, Invariance, PTL
=============================================================================

---------------------------- MODULE Properties_proofs ----------------------------
(* Properties, for every class, owner and value: a property has the pointers of   *)
(* one of its own kind and a kind's static function is a wrapper of the kind, so  *)
(* an assignment reaches what it should.                                          *)
EXTENDS Properties, WellFoundedInduction, TLAPS

Typed ==
    /\ live \subseteq Owners
    /\ store \in [Owners -> [Fields -> Values]]
    /\ DOMAIN cache = Owners
    /\ \A o \in Owners : cache[o] \in [ValComputed[o] -> Values \cup {Unknown}]
    /\ write_funcs \in [Kinds -> Nat]
    /\ rebound \subseteq UNION {{o} \X CopyAssignable[o] : o \in Owners}

\* b is a property of the kind of <<o, i>>.
Alike(b, o, i) ==
    /\ b \in UNION {{p} \X Ids(p) : p \in Owners}
    /\ Kind(b[1], b[2]) = Kind(o, i)

\* A property has its own pointers, or those of another one of its kind.
BoundAlike ==
    /\ DOMAIN bound = Owners
    /\ \A o \in Owners :
        /\ bound[o] \in [CopyAssignable[o] -> UNION {{p} \X Ids(p) : p \in Owners}]
        /\ \A i \in CopyAssignable[o] :
            /\ Alike(bound[o][i], o, i)
            /\ <<o, i>> \notin rebound => bound[o][i] = <<o, i>>

\* The static function of a kind is that of a wrapper of the kind, and is set
\* when an owner of such a wrapper lives.
FunctionsSet ==
    \A o \in Owners : \A i \in Wrappers[o] :
        LET w == write_funcs[Kind(o, i)] IN
        /\ w # None => w \in Wrappers[o] /\ Kind(o, w) = Kind(o, i)
        /\ o \in live => w # None

PropertiesInv == Typed /\ BoundAlike /\ FunctionsSet

-----------------------------------------------------------------------------
(* Members and kinds.                                                            *)

LEMMA MemberFacts ==
  ASSUME NEW o \in Owners, NEW i \in Ids(o)
  PROVE  /\ P(o, i) \in Member /\ P(o, i).field \in Fields
         /\ P(o, i).get \in [Values -> Values] /\ P(o, i).set \in [Values -> Values]
         /\ i \in Nat \ {0}
<1>1. Decl[ClassOf[o]] \in Seq(Member)
  BY PropertiesAssumption
<1>2. P(o, i) \in Member /\ i \in Nat \ {0}
  BY <1>1 DEF P, Ids
<1> HIDE DEF P
<1> QED BY <1>2 DEF Member, Maps

LEMMA SetFacts ==
  ASSUME NEW o \in Owners
  PROVE  /\ \A i : i \in Wrappers[o] <=> i \in Ids(o) /\ P(o, i).access = "wrapper"
         /\ \A i : i \in Writable[o] <=> i \in Ids(o) /\ P(o, i).access \in {"wrapper", "computer"}
         /\ \A i : i \in CopyAssignable[o] <=>
                i \in Ids(o) /\ <<P(o, i).access, P(o, i).expose>> \in
                                    {<<"wrapper", "ref">>, <<"computer", "shr">>}
         /\ \A i : i \in ValComputed[o] <=>
                i \in Ids(o) /\ P(o, i).expose = "val" /\ IsComputed(o, i)
         /\ \A i \in Wrappers[o] : Kind(o, i) \in Kinds
BY DEF Wrappers, Writable, CopyAssignable, ValComputed, Kinds

\* Properties of one kind are members of one class.
LEMMA SameClass ==
  ASSUME NEW o, NEW i, NEW q, NEW j, Kind(q, j) = Kind(o, i)
  PROVE  /\ Ids(q) = Ids(o) /\ \A k : P(q, k) = P(o, k) /\ Kind(q, k) = Kind(o, k)
         /\ P(o, j).access = P(o, i).access /\ P(o, j).expose = P(o, i).expose
BY DEF Kind, Ids, P

LEMMA AlikeFacts ==
  ASSUME NEW o \in Owners, NEW i \in Ids(o), NEW b, Alike(b, o, i)
  PROVE  /\ b[1] \in Owners /\ b[2] \in Ids(o) /\ Ids(b[1]) = Ids(o)
         /\ \A k : P(b[1], k) = P(o, k) /\ Kind(b[1], k) = Kind(o, k)
         /\ P(o, b[2]).access = P(o, i).access /\ P(o, b[2]).expose = P(o, i).expose
         /\ Kind(o, b[2]) = Kind(o, i)
<1>1. b[1] \in Owners /\ b[2] \in Ids(b[1]) /\ Kind(b[1], b[2]) = Kind(o, i)
  BY DEF Alike
<1> QED BY <1>1, SameClass

LEMMA BoundFacts ==
  ASSUME PropertiesInv, NEW o \in Owners, NEW i \in Ids(o)
  PROVE  /\ Alike(Bound(o, i), o, i)
         /\ <<o, i>> \notin rebound => Bound(o, i) = <<o, i>>
<1>1. CASE i \in CopyAssignable[o]
  BY <1>1 DEF PropertiesInv, BoundAlike, Bound
<1>2. CASE i \notin CopyAssignable[o]
  <2>1. <<o, i>> \in UNION {{p} \X Ids(p) : p \in Owners}
    OBVIOUS
  <2> QED BY <1>2, <2>1 DEF Alike, Bound
<1> QED BY <1>1, <1>2

LEMMA FirstOf ==
  ASSUME NEW S \in SUBSET Nat, S # {}
  PROVE  \E i \in S : \A j \in S : i <= j
<1>1. PICK i \in S : \A j \in S : ~(<<j, i>> \in OpToRel(<, Nat))
  BY WFMin, NatLessThanWellFounded, Zenon
<1>2. \A j \in S : ~(j < i)
  BY <1>1, Zenon DEF OpToRel
<1> QED BY <1>2

-----------------------------------------------------------------------------
(* Owners.                                                                       *)

LEMMA FreshBound ==
  ASSUME NEW o \in Owners
  PROVE  /\ [i \in CopyAssignable[o] |-> <<o, i>>]
              \in [CopyAssignable[o] -> UNION {{p} \X Ids(p) : p \in Owners}]
         /\ \A i \in CopyAssignable[o] : Alike(<<o, i>>, o, i)
<1>1. \A i \in CopyAssignable[o] : <<o, i>> \in UNION {{p} \X Ids(p) : p \in Owners}
  BY SetFacts
<1> QED BY <1>1 DEF Alike

LEMMA PropertiesInit == Init => PropertiesInv
<1> SUFFICES ASSUME Init PROVE PropertiesInv
  OBVIOUS
<1>1. Initial \in [Fields -> Values]
  BY PropertiesAssumption
<1>2. Typed
  <2>1. \A o \in Owners : cache[o] = [i \in ValComputed[o] |-> Unknown]
    BY DEF Init
  <2>2. \A o \in Owners : cache[o] \in [ValComputed[o] -> Values \cup {Unknown}]
    BY <2>1
  <2> QED BY <1>1, <2>2 DEF Init, Typed, None
<1>3. BoundAlike
  <2>1. \A o \in Owners : bound[o] = [i \in CopyAssignable[o] |-> <<o, i>>]
    BY DEF Init
  <2>2. DOMAIN bound = Owners
    BY DEF Init
  <2> QED BY <2>1, <2>2, FreshBound DEF BoundAlike
<1>4. FunctionsSet
  BY SetFacts DEF Init, FunctionsSet
<1> QED BY <1>2, <1>3, <1>4 DEF PropertiesInv

\* The members of an owner are made anew.
LEMMA ClearKeeps ==
  ASSUME PropertiesInv, NEW o \in Owners, Clear(o)
  PROVE  /\ store' \in [Owners -> [Fields -> Values]]
         /\ DOMAIN cache' = Owners
         /\ \A q \in Owners : cache'[q] \in [ValComputed[q] -> Values \cup {Unknown}]
         /\ rebound' \subseteq UNION {{q} \X CopyAssignable[q] : q \in Owners}
         /\ BoundAlike'
<1>1. /\ store' = [store EXCEPT ![o] = Initial]
      /\ bound' = [bound EXCEPT ![o] = [i \in CopyAssignable[o] |-> <<o, i>>]]
      /\ cache' = [cache EXCEPT ![o] = [i \in ValComputed[o] |-> Unknown]]
      /\ rebound' = {r \in rebound : r[1] # o}
  BY DEF Clear
<1>2. Initial \in [Fields -> Values]
  BY PropertiesAssumption
<1>3. store' \in [Owners -> [Fields -> Values]]
  BY <1>1, <1>2 DEF PropertiesInv, Typed
<1>4. DOMAIN cache' = Owners /\ \A q \in Owners : cache'[q] \in [ValComputed[q] -> Values \cup {Unknown}]
  BY <1>1 DEF PropertiesInv, Typed
<1>5. rebound' \subseteq UNION {{q} \X CopyAssignable[q] : q \in Owners}
  BY <1>1 DEF PropertiesInv, Typed
<1>6. BoundAlike'
  <2>1. DOMAIN bound = Owners
    BY DEF PropertiesInv, BoundAlike
  <2>2. DOMAIN bound' = Owners /\ bound'[o] = [i \in CopyAssignable[o] |-> <<o, i>>]
        /\ \A q \in Owners \ {o} : bound'[q] = bound[q]
    BY <1>1, <2>1
  <2> SUFFICES ASSUME NEW q \in Owners
               PROVE  /\ bound'[q] \in [CopyAssignable[q] -> UNION {{p} \X Ids(p) : p \in Owners}]
                      /\ \A i \in CopyAssignable[q] :
                          /\ Alike(bound'[q][i], q, i)
                          /\ <<q, i>> \notin rebound' => bound'[q][i] = <<q, i>>
    BY <2>2 DEF BoundAlike, Alike
  <2>3. CASE q = o
    BY <2>2, <2>3, FreshBound
  <2>4. CASE q # o
    <3>1. \A i : <<q, i>> \in rebound' <=> <<q, i>> \in rebound
      BY <1>1, <2>4
    <3> QED BY <2>2, <2>4, <3>1 DEF PropertiesInv, BoundAlike
  <2> QED BY <2>3, <2>4
<1> QED BY <1>3, <1>4, <1>5, <1>6

LEMMA DestroyKeeps ==
  ASSUME PropertiesInv, NEW o \in Owners, Destroy(o)
  PROVE  PropertiesInv'
<1>1. Clear(o) /\ live' \subseteq live /\ write_funcs' = write_funcs
  BY DEF Destroy
<1>2. Typed'
  BY <1>1, ClearKeeps DEF PropertiesInv, Typed
<1>3. FunctionsSet'
  BY <1>1 DEF PropertiesInv, FunctionsSet
<1> QED BY <1>1, <1>2, <1>3, ClearKeeps DEF PropertiesInv

\* A function that is not set becomes that of the first wrapper of its kind.
LEMMA ConstructKeeps ==
  ASSUME PropertiesInv, NEW o \in Owners, Construct(o)
  PROVE  PropertiesInv'
<1> DEFINE OfKind(k) == {i \in Wrappers[o] : Kind(o, i) = k}
<1>1. /\ Clear(o) /\ live' = live \cup {o}
      /\ write_funcs' = [k \in Kinds |->
            IF write_funcs[k] # None \/ OfKind(k) = {} THEN write_funcs[k]
            ELSE CHOOSE i \in OfKind(k) : \A j \in OfKind(k) : i <= j]
  BY DEF Construct
<1>2. ASSUME NEW k \in Kinds
      PROVE  \/ write_funcs'[k] = write_funcs[k] /\ (write_funcs[k] # None \/ OfKind(k) = {})
             \/ write_funcs'[k] \in OfKind(k)
  <2>1. CASE write_funcs[k] # None \/ OfKind(k) = {}
    BY <1>1, <2>1
  <2>2. CASE write_funcs[k] = None /\ OfKind(k) # {}
    <3>1. OfKind(k) \in SUBSET Nat
      BY SetFacts, MemberFacts
    <3>2. \E i \in OfKind(k) : \A j \in OfKind(k) : i <= j
      BY <2>2, <3>1, FirstOf
    <3>3. write_funcs'[k] = CHOOSE i \in OfKind(k) : \A j \in OfKind(k) : i <= j
      BY <1>1, <2>2
    <3> HIDE DEF OfKind
    <3> QED BY <3>2, <3>3
  <2> QED BY <2>1, <2>2
<1>3. \A k : \A i \in OfKind(k) : i \in Wrappers[o] /\ Kind(o, i) = k /\ i \in Nat \ {0}
  BY SetFacts, MemberFacts
<1>4. write_funcs' \in [Kinds -> Nat]
  <2>1. \A k \in Kinds : write_funcs'[k] \in Nat
    BY <1>2, <1>3 DEF PropertiesInv, Typed
  <2> HIDE DEF OfKind
  <2> QED BY <1>1, <2>1
<1>5. Typed'
  BY <1>1, <1>4, ClearKeeps DEF PropertiesInv, Typed
<1>6. FunctionsSet'
  <2> SUFFICES ASSUME NEW q \in Owners, NEW i \in Wrappers[q]
               PROVE  /\ write_funcs'[Kind(q, i)] # None =>
                            /\ write_funcs'[Kind(q, i)] \in Wrappers[q]
                            /\ Kind(q, write_funcs'[Kind(q, i)]) = Kind(q, i)
                      /\ q \in live' => write_funcs'[Kind(q, i)] # None
    BY DEF FunctionsSet, Kind, P
  <2> DEFINE k == Kind(q, i)
  <2>1. k \in Kinds
    BY SetFacts
  <2>2. ASSUME NEW w \in OfKind(k) PROVE w \in Wrappers[q] /\ Kind(q, w) = k /\ w # None
    <3>1. w \in Wrappers[o] /\ Kind(o, w) = Kind(q, i) /\ w \in Nat \ {0}
      BY <1>3, <2>2
    <3>2. Ids(q) = Ids(o) /\ \A j : P(q, j) = P(o, j) /\ Kind(q, j) = Kind(o, j)
      BY <3>1, SameClass
    <3> QED BY <3>1, <3>2, SetFacts DEF None
  <2>3. q = o => i \in OfKind(k)
    OBVIOUS
  <2>4. /\ write_funcs[k] # None => write_funcs[k] \in Wrappers[q] /\ Kind(q, write_funcs[k]) = k
        /\ q \in live => write_funcs[k] # None
    BY DEF PropertiesInv, FunctionsSet
  <2> HIDE DEF OfKind
  <2> QED BY <1>1, <1>2, <2>1, <2>2, <2>3, <2>4
<1> QED BY <1>1, <1>5, <1>6, ClearKeeps DEF PropertiesInv

-----------------------------------------------------------------------------
(* Operators.                                                                    *)

\* One field of one owner is assigned.
LEMMA FieldSet ==
  ASSUME PropertiesInv, NEW o \in Owners, NEW f \in Fields, NEW v \in Values,
         store' = [store EXCEPT ![o][f] = v]
  PROVE  /\ store' \in [Owners -> [Fields -> Values]]
         /\ store'[o][f] = v /\ \A q \in Owners \ {o} : store'[q] = store[q]
<1>1. store \in [Owners -> [Fields -> Values]]
  BY DEF PropertiesInv, Typed
<1> QED BY <1>1

\* What an assignment does: a writer of the property's kind sets its own field,
\* and is the one the property is bound to unless another wrapper shares its kind.
LEMMA WriteFacts ==
  ASSUME PropertiesInv, NEW o \in Owners, NEW i \in Ids(o), NEW v \in Values, Write(o, i, v)
  PROVE  LET b == Bound(o, i)
         IN  \E w \in Ids(o) :
              /\ o \in live /\ b[1] \in Owners /\ b[2] \in Ids(o)
              /\ \A j : P(b[1], j) = P(o, j)
              /\ Ids(b[1]) = Ids(o) /\ Kind(o, b[2]) = Kind(o, i)
              /\ P(o, w).access \in {"wrapper", "computer"}
              /\ Kind(o, w) = Kind(o, i)
              /\ P(o, i).access = "computer" => w = b[2]
              /\ store' = [store EXCEPT ![b[1]][P(o, w).field] = P(o, w).set[v]]
<1> DEFINE b == Bound(o, i)
<1>1. Alike(b, o, i)
  BY BoundFacts
<1>2. /\ b[1] \in Owners /\ b[2] \in Ids(o) /\ Ids(b[1]) = Ids(o)
      /\ \A k : P(b[1], k) = P(o, k) /\ Kind(b[1], k) = Kind(o, k)
      /\ P(o, b[2]).access = P(o, i).access /\ Kind(o, b[2]) = Kind(o, i)
  BY <1>1, AlikeFacts
<1>3. o \in live /\ (WriteWrapper(o, i, v) \/ WriteComputer(o, i, v))
  BY DEF Write, Usable
<1>4. CASE WriteWrapper(o, i, v)
  <2> DEFINE w == write_funcs[Kind(o, i)]
  <2>1. P(o, i).access = "wrapper" /\ i \in Wrappers[o]
    BY <1>4, SetFacts DEF WriteWrapper
  <2>2. w \in Wrappers[o] /\ Kind(o, w) = Kind(o, i)
    BY <1>3, <2>1 DEF PropertiesInv, FunctionsSet
  <2>3. w \in Ids(o) /\ P(o, w).access = "wrapper"
    BY <2>2, SetFacts
  <2>4. store' = [store EXCEPT ![b[1]][P(b[1], w).field] = P(b[1], w).set[v]]
    BY <1>4 DEF WriteWrapper, SetBy
  <2>5. store' = [store EXCEPT ![b[1]][P(o, w).field] = P(o, w).set[v]]
    BY <1>2, <2>4
  <2> HIDE DEF w, b
  <2> QED BY <1>2, <1>3, <2>1, <2>2, <2>3, <2>5 DEF b
<1>5. CASE WriteComputer(o, i, v)
  <2>1. P(o, i).access = "computer"
    BY <1>5 DEF WriteComputer
  <2>2. store' = [store EXCEPT ![b[1]][P(b[1], b[2]).field] = P(b[1], b[2]).set[v]]
    BY <1>5 DEF WriteComputer, SetBy
  <2>3. store' = [store EXCEPT ![b[1]][P(o, b[2]).field] = P(o, b[2]).set[v]]
    BY <1>2, <2>2
  <2> QED BY <1>2, <1>3, <2>1, <2>3
<1> QED BY <1>3, <1>4, <1>5

\* What assigning through a property sets.
LEMMA WriteSets ==
  ASSUME PropertiesInv, NEW o \in Owners, NEW i \in Ids(o), NEW v \in Values, Write(o, i, v)
  PROVE  LET b == Bound(o, i)
         IN  /\ store' \in [Owners -> [Fields -> Values]]
             /\ \A q \in Owners \ {b[1]} : store'[q] = store[q]
             /\ \E w \in Ids(o) :
                  /\ P(o, w).access \in {"wrapper", "computer"} /\ Kind(o, w) = Kind(o, i)
                  /\ P(o, i).access = "computer" => w = b[2]
                  /\ store'[b[1]][P(o, w).field] = P(o, w).set[v]
<1> DEFINE b == Bound(o, i)
<1>1. PICK w \in Ids(o) :
        /\ b[1] \in Owners /\ \A j : P(b[1], j) = P(o, j)
        /\ Ids(b[1]) = Ids(o)
        /\ P(o, w).access \in {"wrapper", "computer"}
        /\ Kind(o, w) = Kind(o, i)
        /\ P(o, i).access = "computer" => w = b[2]
        /\ store' = [store EXCEPT ![b[1]][P(o, w).field] = P(o, w).set[v]]
  BY WriteFacts
<1>2. P(o, w).field \in Fields /\ P(o, w).set[v] \in Values
  BY MemberFacts
<1> HIDE DEF b
<1> DEFINE x == b[1]
           f == P(o, w).field
           u == P(o, w).set[v]
<1>3. x \in Owners /\ f \in Fields /\ u \in Values /\ store' = [store EXCEPT ![x][f] = u]
  BY <1>1, <1>2
<1> HIDE DEF x, f, u
<1>4. /\ store' \in [Owners -> [Fields -> Values]]
      /\ store'[x][f] = u /\ \A q \in Owners \ {x} : store'[q] = store[q]
  BY <1>3, FieldSet
<1> QED BY <1>1, <1>4 DEF b, x, f, u

LEMMA WriteKeeps ==
  ASSUME PropertiesInv, NEW o \in Owners, NEW i \in Writable[o], NEW v \in Values, Write(o, i, v)
  PROVE  PropertiesInv'
<1>1. i \in Ids(o)
  BY SetFacts
<1>2. store' \in [Owners -> [Fields -> Values]]
  BY <1>1, WriteSets
<1>3. UNCHANGED <<live, bound, write_funcs, cache, rebound>>
  BY DEF Write
<1>4. Typed' /\ BoundAlike' /\ FunctionsSet'
  BY <1>2, <1>3 DEF PropertiesInv, Typed, BoundAlike, FunctionsSet
<1> QED BY <1>2, <1>4 DEF PropertiesInv

LEMMA ArrowKeeps ==
  ASSUME PropertiesInv, NEW o \in Owners, NEW i \in ValComputed[o], Arrow(o, i)
  PROVE  PropertiesInv'
<1> DEFINE b == Bound(o, i)
           c == ReadComputed(o, i)
<1>1. cache' = [cache EXCEPT ![o][i] = c] /\ UNCHANGED <<live, store, bound, write_funcs, rebound>>
  BY DEF Arrow
<1>2. i \in Ids(o)
  BY SetFacts
<1>3. c \in Values
  <2>1. Alike(b, o, i)
    BY <1>2, BoundFacts
  <2>2. b[1] \in Owners /\ b[2] \in Ids(b[1])
    BY <2>1 DEF Alike
  <2>3. P(b[1], b[2]).field \in Fields /\ P(b[1], b[2]).get \in [Values -> Values]
    BY <2>2, MemberFacts
  <2>4. store[b[1]][P(b[1], b[2]).field] \in Values
    BY <2>2, <2>3 DEF PropertiesInv, Typed
  <2> QED BY <2>3, <2>4 DEF ReadComputed
<1> HIDE DEF c
<1>4. DOMAIN cache' = Owners /\ \A q \in Owners : cache'[q] \in [ValComputed[q] -> Values \cup {Unknown}]
  BY <1>1, <1>3 DEF PropertiesInv, Typed
<1>5. Typed' /\ BoundAlike' /\ FunctionsSet'
  BY <1>1, <1>4 DEF PropertiesInv, Typed, BoundAlike, FunctionsSet
<1> QED BY <1>5 DEF PropertiesInv

LEMMA ArrowAssigns ==
  ASSUME PropertiesInv, NEW o \in Owners, NEW i \in Ids(o), NEW v \in Values,
         AssignThroughArrow(o, i, v)
  PROVE  /\ PropertiesInv'
         /\ \A q \in Owners \ {o} : store'[q] = store[q]
<1>1. /\ P(o, i).expose = "val" /\ ~P(o, i).const
      /\ UNCHANGED <<live, bound, write_funcs, rebound>>
  BY DEF AssignThroughArrow
<1>2. BoundAlike' /\ FunctionsSet'
  BY <1>1 DEF PropertiesInv, BoundAlike, FunctionsSet
<1>3. CASE i \in ValComputed[o]
  <2>1. cache' = [cache EXCEPT ![o][i] = v] /\ store' = store
    BY <1>3 DEF AssignThroughArrow
  <2>2. DOMAIN cache' = Owners
        /\ \A q \in Owners : cache'[q] \in [ValComputed[q] -> Values \cup {Unknown}]
    BY <2>1 DEF PropertiesInv, Typed
  <2>3. Typed'
    BY <1>1, <2>1, <2>2 DEF PropertiesInv, Typed
  <2> QED BY <1>2, <2>1, <2>3 DEF PropertiesInv
<1>4. CASE i \notin ValComputed[o]
  <2>1. store' = [store EXCEPT ![o][P(o, i).field] = v] /\ cache' = cache
    BY <1>4 DEF AssignThroughArrow
  <2>2. P(o, i).field \in Fields
    BY MemberFacts
  <2>3. /\ store' \in [Owners -> [Fields -> Values]]
        /\ \A q \in Owners \ {o} : store'[q] = store[q]
    BY <2>1, <2>2, FieldSet
  <2>4. Typed'
    BY <1>1, <2>1, <2>3 DEF PropertiesInv, Typed
  <2> QED BY <1>2, <2>3, <2>4 DEF PropertiesInv
<1> QED BY <1>3, <1>4

\* A property gets the pointers of another one of its kind, whosoever they are.
LEMMA CopyAssignKeeps ==
  ASSUME PropertiesInv, NEW o \in Owners, NEW i \in CopyAssignable[o],
         NEW q \in Owners, NEW j \in CopyAssignable[q], CopyAssign(o, i, q, j)
  PROVE  PropertiesInv'
<1> DEFINE b == bound[q][j]
<1>1. /\ Kind(o, i) = Kind(q, j) /\ bound' = [bound EXCEPT ![o][i] = b]
      /\ rebound' = rebound \cup {<<o, i>>}
      /\ UNCHANGED <<live, store, write_funcs, cache>>
  BY DEF CopyAssign
<1>2. Alike(b, o, i)
  BY <1>1 DEF PropertiesInv, BoundAlike, Alike
<1>3. b \in UNION {{p} \X Ids(p) : p \in Owners}
  BY <1>2 DEF Alike
<1>4. DOMAIN bound = Owners
      /\ \A p \in Owners :
            bound[p] \in [CopyAssignable[p] -> UNION {{r} \X Ids(r) : r \in Owners}]
  BY DEF PropertiesInv, BoundAlike
<1> HIDE DEF b
<1>5. /\ DOMAIN bound' = Owners /\ bound'[o][i] = b
      /\ \A k \in CopyAssignable[o] \ {i} : bound'[o][k] = bound[o][k]
      /\ \A p \in Owners \ {o} : bound'[p] = bound[p]
      /\ bound'[o] \in [CopyAssignable[o] -> UNION {{r} \X Ids(r) : r \in Owners}]
  BY <1>1, <1>3, <1>4
<1>6. BoundAlike'
  <2> SUFFICES ASSUME NEW p \in Owners
               PROVE  /\ bound'[p] \in [CopyAssignable[p] -> UNION {{r} \X Ids(r) : r \in Owners}]
                      /\ \A k \in CopyAssignable[p] :
                          /\ Alike(bound'[p][k], p, k)
                          /\ <<p, k>> \notin rebound' => bound'[p][k] = <<p, k>>
    BY <1>5 DEF BoundAlike, Alike
  <2>1. bound'[p] \in [CopyAssignable[p] -> UNION {{r} \X Ids(r) : r \in Owners}]
    BY <1>4, <1>5
  <2>2. ASSUME NEW k \in CopyAssignable[p]
        PROVE  /\ Alike(bound'[p][k], p, k)
               /\ <<p, k>> \notin rebound' => bound'[p][k] = <<p, k>>
    <3>1. CASE <<p, k>> = <<o, i>>
      BY <1>1, <1>2, <1>5, <3>1
    <3>2. CASE <<p, k>> # <<o, i>>
      <4>1. bound'[p][k] = bound[p][k]
        BY <1>5, <3>2
      <4> QED BY <1>1, <4>1 DEF PropertiesInv, BoundAlike
    <3> QED BY <3>1, <3>2
  <2> QED BY <2>1, <2>2
<1>7. Typed' /\ FunctionsSet'
  <2>1. rebound' \subseteq UNION {{p} \X CopyAssignable[p] : p \in Owners}
    BY <1>1 DEF PropertiesInv, Typed
  <2> QED BY <1>1, <2>1 DEF PropertiesInv, Typed, FunctionsSet
<1> QED BY <1>6, <1>7 DEF PropertiesInv

-----------------------------------------------------------------------------
LEMMA PropertiesStep == PropertiesInv /\ [Next]_vars => PropertiesInv'
<1> SUFFICES ASSUME PropertiesInv, [Next]_vars PROVE PropertiesInv'
  OBVIOUS
<1>1. CASE UNCHANGED vars
  BY <1>1 DEF vars, PropertiesInv, Typed, BoundAlike, FunctionsSet
<1>2. ASSUME NEW o \in Owners, Construct(o) \/ Destroy(o) PROVE PropertiesInv'
  BY <1>2, ConstructKeeps, DestroyKeeps
<1>3. ASSUME NEW o \in Owners, NEW i \in Writable[o], NEW v \in Values, Write(o, i, v)
      PROVE  PropertiesInv'
  BY <1>3, WriteKeeps
<1>4. ASSUME NEW o \in Owners, NEW i \in ValComputed[o], Arrow(o, i) PROVE PropertiesInv'
  BY <1>4, ArrowKeeps
<1>5. ASSUME NEW o \in Owners, NEW i \in Ids(o), NEW v \in Values, AssignThroughArrow(o, i, v)
      PROVE  PropertiesInv'
  BY <1>5, ArrowAssigns
<1>6. ASSUME NEW o \in Owners, NEW i \in CopyAssignable[o],
             NEW q \in Owners, NEW j \in CopyAssignable[q], CopyAssign(o, i, q, j)
      PROVE  PropertiesInv'
  BY <1>6, CopyAssignKeeps
<1>7. CASE Next
  BY <1>7, <1>2, <1>3, <1>4, <1>5, <1>6 DEF Next
<1> QED BY <1>1, <1>7

LEMMA PropertiesInvariance == Spec => []PropertiesInv
  BY PropertiesInit, PropertiesStep, PTL DEF Spec

(* Every variable of Properties has its type: a property has the pointers of a    *)
(* property there is, and the wrappers of a living owner have a function.         *)
THEOREM TypeCorrect == Spec => []TypeOK
<1>1. PropertiesInv => TypeOK
  <2> SUFFICES ASSUME PropertiesInv PROVE TypeOK
    OBVIOUS
  <2>1. \A o \in live : \A i \in Wrappers[o] : write_funcs[Kind(o, i)] \in Ids(o)
    BY SetFacts DEF PropertiesInv, Typed, FunctionsSet
  <2> QED BY <2>1 DEF PropertiesInv, Typed, BoundAlike, TypeOK
<1> QED BY <1>1, PropertiesInvariance, PTL

(* An assignment reaches the data of the property it is made to, when no other    *)
(* wrapper of the class has its template arguments.                               *)
THEOREM AssignmentsReach == Spec => LoneWritesReach
<1> DEFINE A == store' # store =>
                  \A o \in live : \A i \in Writable[o], v \in Values :
                    Write(o, i, v) /\ ~Shares(o, i) => WriteReaches(o, i, v)
<1>1. PropertiesInv => A
  <2> SUFFICES ASSUME PropertiesInv, NEW o \in live, NEW i \in Writable[o], NEW v \in Values,
                      Write(o, i, v), ~Shares(o, i)
               PROVE  WriteReaches(o, i, v)
    OBVIOUS
  <2> DEFINE b == Bound(o, i)
  <2>1. o \in Owners /\ i \in Ids(o) /\ P(o, i).access \in {"wrapper", "computer"}
    BY SetFacts DEF PropertiesInv, Typed
  <2>2. PICK w \in Ids(o) :
          /\ Kind(o, w) = Kind(o, i) /\ (P(o, i).access = "computer" => w = b[2])
          /\ store'[b[1]][P(o, w).field] = P(o, w).set[v]
    BY <2>1, WriteSets
  <2>3. Alike(b, o, i)
    BY <2>1, BoundFacts
  <2>4. b[2] \in Ids(o) /\ Kind(o, b[2]) = Kind(o, i) /\ P(b[1], b[2]) = P(o, b[2])
    BY <2>1, <2>3, AlikeFacts
  <2>5. P(o, i).access = "wrapper" => w = i /\ b[2] = i
    BY <2>2, <2>4 DEF Shares
  <2>6. w = b[2]
    BY <2>1, <2>2, <2>5
  <2> QED BY <2>2, <2>4, <2>6 DEF WriteReaches
<1>2. PropertiesInv /\ [Next]_vars => [A]_vars
  BY <1>1
<1>3. Spec => [][A]_vars
  BY <1>2, PropertiesInvariance, PTL DEF Spec
<1> QED BY <1>3 DEF LoneWritesReach

(* A property that was not assigned from another one writes into its own owner.   *)
THEOREM WritesStay == Spec => WritesStayInOwner
<1> DEFINE A == store' # store =>
                  \A o \in live : \A i \in Ids(o), v \in Values :
                    (Write(o, i, v) \/ AssignThroughArrow(o, i, v)) /\ <<o, i>> \notin rebound
                    => \A q \in Owners \ {o} : store'[q] = store[q]
<1>1. PropertiesInv => A
  <2> SUFFICES ASSUME PropertiesInv, NEW o \in live, NEW i \in Ids(o), NEW v \in Values,
                      Write(o, i, v) \/ AssignThroughArrow(o, i, v), <<o, i>> \notin rebound
               PROVE  \A q \in Owners \ {o} : store'[q] = store[q]
    OBVIOUS
  <2>1. o \in Owners
    BY DEF PropertiesInv, Typed
  <2>2. CASE Write(o, i, v)
    <3>1. Bound(o, i)[1] = o
      BY <2>1, BoundFacts
    <3> QED BY <2>1, <2>2, <3>1, WriteSets
  <2>3. CASE AssignThroughArrow(o, i, v)
    BY <2>1, <2>3, ArrowAssigns
  <2> QED BY <2>2, <2>3
<1>2. PropertiesInv /\ [Next]_vars => [A]_vars
  BY <1>1
<1>3. Spec => [][A]_vars
  BY <1>2, PropertiesInvariance, PTL DEF Spec
<1> QED BY <1>3 DEF WritesStayInOwner
=============================================================================

--------------------------- MODULE MetaRegistry_proofs ---------------------------
(* The registries of types and of fields, for every set of types, constructors,  *)
(* hash codes and fields: the tables only grow, and stay fit for who reads them. *)
EXTENDS MetaRegistry, TLAPS

\* No two factory methods of one key in the table fs.
OneFactory(fs) ==
    \A t \in DOMAIN fs : \A f, g \in fs[t] : SameArgs(f, g) => f = g

\* Nothing of the table fs is missing in gs.
Keeps(fs, gs) ==
    \A t \in DOMAIN fs : t \in DOMAIN gs /\ fs[t] \subseteq gs[t]

\* Types that ensure did not meet first have their default constructor.
DefaultsIn ==
    \A t \in Known \cap Default :
        /\ t \notin ensured_first => <<>> \in factories[t]
        /\ t \in ensured_first \ ensured_default => <<>> \notin factories[t]

TypeInv ==
    OneFactoryPerKey /\ ensured_first \cup ensured_default \subseteq Known /\ DefaultsIn

-----------------------------------------------------------------------------
(* What the two ways to touch the table do to it. *)

LEMMA SameArgsIsEquivalence ==
  /\ \A a : SameArgs(a, a)
  /\ \A a, b : SameArgs(a, b) => SameArgs(b, a)
  BY DEF SameArgs

LEMMA OneFactoryIsInvariant == OneFactoryPerKey <=> OneFactory(factories)
  BY DEF OneFactoryPerKey, OneFactory, Known

LEMMA AfterIEntries ==
  ASSUME NEW fs, NEW t
  PROVE  /\ DOMAIN AfterI(fs, t) = DOMAIN fs \cup {t}
         /\ \A u \in DOMAIN fs : AfterI(fs, t)[u] = fs[u]
         /\ t \notin DOMAIN fs => AfterI(fs, t)[t] = IF t \in Default THEN {<<>>} ELSE {}
  BY DEF AfterI

LEMMA AfterISafe ==
  ASSUME NEW fs, NEW t, OneFactory(fs)
  PROVE  OneFactory(AfterI(fs, t)) /\ Keeps(fs, AfterI(fs, t))
<1> DEFINE gs == AfterI(fs, t)
<1>1. DOMAIN gs = DOMAIN fs \cup {t} /\ \A u \in DOMAIN fs : gs[u] = fs[u]
  BY DEF AfterI
<1>2. t \notin DOMAIN fs => gs[t] = IF t \in Default THEN {<<>>} ELSE {}
  BY ONLY AfterIEntries
<1> HIDE DEF gs
<1>3. Keeps(fs, gs)
  BY <1>1 DEF Keeps
<1>4. OneFactory(gs)
  <2> SUFFICES ASSUME NEW u \in DOMAIN gs, NEW f \in gs[u], NEW g \in gs[u], SameArgs(f, g)
               PROVE  f = g
    BY DEF OneFactory
  <2>1. CASE u \in DOMAIN fs
    BY <2>1, <1>1 DEF OneFactory
  <2>2. CASE u \notin DOMAIN fs
    BY <2>2, <1>1, <1>2
  <2> QED BY <2>1, <2>2
<1> QED BY <1>3, <1>4 DEF gs

LEMMA AfterEnsureSafe ==
  ASSUME NEW fs, NEW t, NEW params, OneFactory(fs)
  PROVE  /\ OneFactory(AfterEnsure(fs, t, params)) /\ Keeps(fs, AfterEnsure(fs, t, params))
         /\ t \in DOMAIN AfterEnsure(fs, t, params)
         /\ \E f \in AfterEnsure(fs, t, params)[t] : SameArgs(f, params)
<1> DEFINE old == IF t \in DOMAIN fs THEN fs[t] ELSE {}
           new == AddFactory(old, params)
<1>1. /\ old \subseteq new
      /\ \E f \in new : SameArgs(f, params)
      /\ \A f \in new : f \in old \/ (f = params /\ ~\E g \in old : SameArgs(g, params))
  BY SameArgsIsEquivalence DEF AddFactory
<1>2. /\ DOMAIN AfterEnsure(fs, t, params) = DOMAIN fs \cup {t}
      /\ AfterEnsure(fs, t, params)[t] = new
      /\ \A u \in DOMAIN fs \ {t} : AfterEnsure(fs, t, params)[u] = fs[u]
  BY DEF AfterEnsure
<1>3. \A f, g \in old : SameArgs(f, g) => f = g
  BY DEF OneFactory
<1> HIDE DEF old
<1>4. \A f, g \in new : SameArgs(f, g) => f = g
  <2> SUFFICES ASSUME NEW f \in new, NEW g \in new, SameArgs(f, g) PROVE f = g
    OBVIOUS
  <2>1. CASE f \in old /\ g \in old
    BY <2>1, <1>3
  <2>2. CASE f \notin old
    BY <2>2, <1>1, SameArgsIsEquivalence
  <2>3. CASE g \notin old
    BY <2>3, <1>1, SameArgsIsEquivalence
  <2> QED BY <2>1, <2>2, <2>3
<1> HIDE DEF new
<1>5. OneFactory(AfterEnsure(fs, t, params))
  BY <1>2, <1>4 DEF OneFactory
<1>6. Keeps(fs, AfterEnsure(fs, t, params))
  <2>1. t \in DOMAIN fs => old = fs[t]
    BY DEF old
  <2> QED BY <1>1, <1>2, <2>1 DEF Keeps
<1> QED BY <1>1, <1>2, <1>5, <1>6

-----------------------------------------------------------------------------
(* Every step, as what it does to the two variables of TypeRegistry. *)

\* The constructors factory methods are made of.
Constructors(t) == Reflected[t] \cup (IF t \in Default THEN {<<>>} ELSE {})

Registers ==
    \/ UNCHANGED typeVars
    \/ \E t, u \in Types : /\ factories' = AfterI(AfterI(factories, t), u)
                           /\ UNCHANGED <<ensured_first, ensured_default>>
    \/ \E t \in Types : I(t)
    \/ \E t \in Types : \E c \in Constructors(t) :
        /\ Ensure(t, c)
        /\ ensured_default' = IF c = <<>> THEN ensured_default \cup {t} ELSE ensured_default

LEMMA StepRegisters == [Next]_vars => Registers
<1> SUFFICES ASSUME [Next]_vars PROVE Registers
  OBVIOUS
<1>1. CASE UNCHANGED vars
  BY <1>1 DEF vars, typeVars, Registers
<1>2. ASSUME NEW t \in Types, I(t) PROVE Registers
  BY <1>2 DEF Registers
<1>3. ASSUME NEW t \in Types, EnsureDefault(t) PROVE Registers
  BY <1>3 DEF Registers, EnsureDefault, Constructors
<1>4. ASSUME NEW t \in Types, NEW c \in Reflected[t], EnsureConstructor(t, c)
      PROVE  Registers
  <2>1. c # <<>>
    BY TypeAssumption
  <2> QED BY <1>4, <2>1 DEF Registers, EnsureConstructor, Constructors
<1>5. ASSUME NEW m \in Members, KnowTypes(m) PROVE Registers
  BY <1>5, MetaAssumption DEF Registers, KnowTypes, Member
<1>6. ASSUME NEW m \in Members, AddField(m) \/ \E s \in Slots : AddPawnField(m, s)
      PROVE  Registers
  BY <1>5, <1>6 DEF AddField, AddPawnField
<1>7. ASSUME \/ Visit \/ EndWalk
             \/ \E t \in Types : GetFields(t)
             \/ \E s \in Slots :
                 \/ \E p \in PawnTypes : MakeFieldpawn(s, p)
                 \/ \E l \in Labels : MakeNamedFieldpawn(s, l)
                 \/ \E r \in Slots : MoveFieldpawn(r, s)
      PROVE  Registers
  BY <1>7 DEF Visit, EndWalk, GetFields, MakeFieldpawn, MakeNamedFieldpawn, MoveFieldpawn,
     typeVars, Registers
<1> QED BY <1>1, <1>2, <1>3, <1>4, <1>6, <1>7 DEF Next

\* Types that only i has met have the default constructor, if any.
LEMMA AfterIDefaults ==
  ASSUME TypeInv, UNCHANGED <<ensured_first, ensured_default>>,
         Keeps(factories, factories'),
         \A t \in DOMAIN factories : factories'[t] = factories[t],
         \A t \in DOMAIN factories' \ DOMAIN factories : t \in Default => factories'[t] = {<<>>}
  PROVE  DefaultsIn' /\ (ensured_first \cup ensured_default \subseteq Known)'
<1>1. (ensured_first \cup ensured_default \subseteq Known)'
  BY DEF TypeInv, Known, Keeps
<1>2. ASSUME NEW t \in Known' \cap Default
      PROVE  /\ t \notin ensured_first => <<>> \in factories'[t]
             /\ t \in ensured_first \ ensured_default => <<>> \notin factories'[t]
  BY <1>2 DEF TypeInv, DefaultsIn, Known
<1> QED BY <1>1, <1>2 DEF DefaultsIn

LEMMA EnsureDefaults ==
  ASSUME TypeInv, NEW t \in Types, NEW c, Ensure(t, c), Keeps(factories, factories'),
         ensured_default' = IF c = <<>> THEN ensured_default \cup {t} ELSE ensured_default
  PROVE  DefaultsIn' /\ (ensured_first \cup ensured_default \subseteq Known)'
<1> DEFINE old == IF t \in DOMAIN factories THEN factories[t] ELSE {}
<1>1. /\ DOMAIN factories' = DOMAIN factories \cup {t}
      /\ \A u \in DOMAIN factories \ {t} : factories'[u] = factories[u]
      /\ factories'[t] = AddFactory(old, c) /\ ensured_first' = ensured_first \cup ({t} \ Known)
  BY DEF Ensure, AfterEnsure
<1>2. old \subseteq factories'[t] /\ factories'[t] \subseteq old \cup {c}
  BY <1>1 DEF AddFactory
<1>3. (ensured_first \cup ensured_default \subseteq Known)'
  BY <1>1 DEF TypeInv, Known
<1>4. ASSUME NEW u \in Known' \cap Default
      PROVE  /\ u \notin ensured_first' => <<>> \in factories'[u]
             /\ u \in ensured_first' \ ensured_default' => <<>> \notin factories'[u]
  <2>1. CASE u # t
    BY <1>1, <2>1 DEF TypeInv, DefaultsIn, Known
  <2>2. CASE u = t /\ t \in Known
    BY <1>1, <1>2, <2>2 DEF TypeInv, DefaultsIn, Known
  <2>3. CASE u = t /\ t \notin Known
    BY <1>1, <1>2, <2>3 DEF TypeInv, Known
  <2> QED BY <2>1, <2>2, <2>3
<1> QED BY <1>3, <1>4 DEF DefaultsIn

LEMMA RegistersSafe ==
  ASSUME TypeInv, Registers
  PROVE  TypeInv' /\ Keeps(factories, factories')
<1>1. OneFactory(factories)
  BY OneFactoryIsInvariant DEF TypeInv
<1>2. OneFactory(factories') => OneFactoryPerKey'
  BY DEF OneFactoryPerKey, OneFactory, Known
<1>3. CASE UNCHANGED typeVars
  BY <1>1, <1>2, <1>3 DEF typeVars, Keeps, TypeInv, DefaultsIn, Known
<1>4. ASSUME NEW t \in Types, NEW u \in Types, UNCHANGED <<ensured_first, ensured_default>>,
             factories' = AfterI(AfterI(factories, t), u)
      PROVE  TypeInv' /\ Keeps(factories, factories')
  <2> DEFINE mid == AfterI(factories, t)
  <2>1. /\ OneFactory(mid) /\ Keeps(factories, mid)
        /\ OneFactory(factories') /\ Keeps(mid, factories')
    BY <1>1, <1>4, AfterISafe
  <2>2. Keeps(factories, factories')
    BY <2>1 DEF Keeps
  <2>3. /\ DOMAIN mid = DOMAIN factories \cup {t} /\ \A v \in DOMAIN factories : mid[v] = factories[v]
        /\ t \notin DOMAIN factories /\ t \in Default => mid[t] = {<<>>}
    BY DEF AfterI
  <2>4. /\ DOMAIN AfterI(mid, u) = DOMAIN mid \cup {u}
        /\ \A v \in DOMAIN mid : AfterI(mid, u)[v] = mid[v]
        /\ u \notin DOMAIN mid /\ u \in Default => AfterI(mid, u)[u] = {<<>>}
    <3> HIDE DEF mid
    <3> QED BY DEF AfterI
  <2>5. /\ \A v \in DOMAIN factories : factories'[v] = factories[v]
        /\ \A v \in DOMAIN factories' \ DOMAIN factories : v \in Default => factories'[v] = {<<>>}
    BY <1>4, <2>3, <2>4
  <2> HIDE DEF mid
  <2> QED BY <1>2, <1>4, <2>1, <2>2, <2>5, AfterIDefaults DEF TypeInv
<1>5. ASSUME NEW t \in Types, I(t)
      PROVE  TypeInv' /\ Keeps(factories, factories')
  <2>1. OneFactory(factories') /\ Keeps(factories, factories')
    BY <1>1, <1>5, AfterISafe DEF I
  <2>2. /\ \A v \in DOMAIN factories : factories'[v] = factories[v]
        /\ \A v \in DOMAIN factories' \ DOMAIN factories : v \in Default => factories'[v] = {<<>>}
    BY <1>5 DEF I, AfterI
  <2> QED BY <1>2, <1>5, <2>1, <2>2, AfterIDefaults DEF I, TypeInv
<1>6. ASSUME NEW t \in Types, NEW c, Ensure(t, c),
             ensured_default' = IF c = <<>> THEN ensured_default \cup {t} ELSE ensured_default
      PROVE  TypeInv' /\ Keeps(factories, factories')
  <2>1. OneFactory(factories') /\ Keeps(factories, factories')
    BY <1>1, <1>6, AfterEnsureSafe DEF Ensure
  <2> QED BY <1>2, <1>6, <2>1, EnsureDefaults DEF TypeInv
<1> QED BY <1>3, <1>4, <1>5, <1>6 DEF Registers

LEMMA TypeInvInit == Init => TypeInv
  BY DEF Init, TypeInit, TypeInv, OneFactoryPerKey, DefaultsIn, Known

LEMMA TypeInvariance == Spec => []TypeInv
<1>1. TypeInv /\ [Next]_vars => TypeInv'
  BY StepRegisters, RegistersSafe
<1> QED BY <1>1, TypeInvInit, PTL DEF Spec

-----------------------------------------------------------------------------
(* Whatever the hash codes are, the search of instantiate is deterministic.       *)
THEOREM InstantiateIsDeterministic == Spec => []OneFactoryPerKey
<1>1. TypeInv => OneFactoryPerKey
  BY DEF TypeInv
<1> QED BY <1>1, TypeInvariance, PTL

(* Whatever the hash codes are and in whatever order i, ensure and fields met a   *)
(* type, instantiate without arguments finds its default constructor and no other *)
(* if i or a field met it first, and misses it if ensure did and was never called *)
(* for it.                                                                       *)
THEOREM DefaultsAreRegistered == Spec => []DefaultsRegistered
<1>1. TypeInv => DefaultsRegistered
  BY DEF TypeInv, DefaultsIn, DefaultsRegistered, OneFactoryPerKey, Matching, SameArgs
<1> QED BY <1>1, TypeInvariance, PTL

(* No step of either registry takes a type or a factory method away.             *)
THEOREM RegistryGrows == Spec => FactoriesStay
<1>1. TypeInv /\ [Next]_vars
      => [\A t \in Known : t \in DOMAIN factories' /\ factories[t] \subseteq factories'[t]]_typeVars
  BY StepRegisters, RegistersSafe DEF Keeps, Known
<1> QED BY <1>1, TypeInvariance, PTL DEF Spec, FactoriesStay
-----------------------------------------------------------------------------
(* Fields. *)

\* What is asked of one field of t, when the types of fs are known.
GoodField(f, t, n, fs) ==
    /\ f.owner_type = t /\ f.name = n
    /\ {f.owner_type, f.type} \subseteq DOMAIN fs
    /\ f.pawn # NoPawn
    /\ f.pawn.type # "none" => f.expose_type = "shrptr"

FieldInv ==
    /\ DOMAIN fields = Types
    /\ \A t \in Types : \A n \in DOMAIN fields[t] : GoodField(fields[t][n], t, n, factories)

LEMMA FieldInvInit == Init => FieldInv
  BY DEF Init, FieldInv

\* Fields stay good when the table of types grows.
LEMMA GrowthKeepsFields ==
  ASSUME FieldInv, Keeps(factories, factories'), UNCHANGED fields
  PROVE  FieldInv'
  BY DEF FieldInv, Keeps, GoodField

\* A good field that is stored leaves the fields of every owner good.
LEMMA StoreKeepsFields ==
  ASSUME FieldInv, Keeps(factories, factories'), NEW f, f.owner_type \in Types,
         GoodField(f, f.owner_type, f.name, factories'), Store(f)
  PROVE  FieldInv'
<1>1. \A t \in Types : \A n \in DOMAIN fields[t] : GoodField(fields[t][n], t, n, factories')
  BY DEF FieldInv, Keeps, GoodField
<1>2. /\ DOMAIN fields' = Types
      /\ \A t \in Types \ {f.owner_type} : fields'[t] = fields[t]
      /\ fields'[f.owner_type] =
            [n \in DOMAIN fields[f.owner_type] \cup {f.name} |->
                IF n = f.name THEN f ELSE fields[f.owner_type][n]]
  BY DEF Store, FieldInv
<1>3. ASSUME NEW t \in Types, NEW n \in DOMAIN fields'[t]
      PROVE  GoodField(fields'[t][n], t, n, factories')
  <2>1. CASE t # f.owner_type
    BY <2>1, <1>1, <1>2
  <2>2. CASE t = f.owner_type /\ n = f.name
    BY <2>2, <1>2
  <2>3. CASE t = f.owner_type /\ n # f.name
    BY <2>3, <1>1, <1>2
  <2> QED BY <2>1, <2>2, <2>3
<1> QED BY <1>2, <1>3 DEF FieldInv

\* The types of a member that is registered are known.
LEMMA TypesOfMember ==
  ASSUME NEW m \in Members, KnowTypes(m)
  PROVE  {m.owner, m.data} \subseteq DOMAIN factories'
<1>1. factories' = AfterI(AfterI(factories, m.owner), m.data)
  BY DEF KnowTypes
<1> DEFINE fs == AfterI(factories, m.owner)
<1>2. DOMAIN fs = DOMAIN factories \cup {m.owner}
  BY DEF AfterI
<1> HIDE DEF fs
<1>3. DOMAIN AfterI(fs, m.data) = DOMAIN fs \cup {m.data}
  BY DEF AfterI
<1> QED BY ONLY <1>1, <1>2, <1>3 DEF fs

LEMMA FieldStep ==
  ASSUME TypeInv, FieldInv, [Next]_vars
  PROVE  FieldInv'
<1>1. Keeps(factories, factories')
  BY StepRegisters, RegistersSafe
<1>2. ASSUME NEW m \in Members, AddField(m) PROVE FieldInv'
  <2>1. {m.owner, m.data} \subseteq DOMAIN factories' /\ m.owner \in Types
    BY <1>2, TypesOfMember, MetaAssumption DEF AddField, Member
  <2>2. [type |-> "none", label |-> Unlabelled] # NoPawn
    BY MetaAssumption DEF Pawn, fieldpawn_type
  <2>3. create_value(m).owner_type = m.owner
    BY DEF create_value
  <2>4. GoodField(create_value(m), m.owner, create_value(m).name, factories')
    BY <2>1, <2>2 DEF GoodField, create_value
  <2> QED BY <1>1, <1>2, <2>1, <2>3, <2>4, StoreKeepsFields DEF AddField
<1>3. ASSUME NEW m \in Members, NEW s \in Slots, AddPawnField(m, s) PROVE FieldInv'
  <2> DEFINE f == create_shrptr(m, pawns[s])
  <2>1. {m.owner, m.data} \subseteq DOMAIN factories' /\ m.owner \in Types
    BY <1>3, TypesOfMember, MetaAssumption DEF AddPawnField, Member
  <2>2. f.owner_type = m.owner /\ GoodField(f, m.owner, f.name, factories')
    BY <1>3, <2>1 DEF GoodField, create_shrptr, AddPawnField
  <2>3. Store(f)
    BY <1>3 DEF AddPawnField
  <2> HIDE DEF f
  <2> QED BY <1>1, <2>1, <2>2, <2>3, StoreKeepsFields
<1>4. CASE UNCHANGED fields
  BY <1>1, <1>4, GrowthKeepsFields
<1>5. CASE ~\E m \in Members : AddField(m) \/ \E s \in Slots : AddPawnField(m, s)
  <2>1. UNCHANGED fields
    BY <1>5 DEF Next, vars, GetFields, MakeFieldpawn, MakeNamedFieldpawn, MoveFieldpawn,
       Visit, EndWalk
  <2> QED BY <2>1, <1>4
<1> QED BY <1>2, <1>3, <1>5

(* Injection may rely on every field it meets, whichever fields were registered, *)
(* overwritten or registered from a moved fieldpawn before.                      *)
THEOREM FieldsStayConsistent == Spec => []FieldsConsistent
<1>1. FieldInv => FieldsConsistent
  BY DEF FieldInv, GoodField, FieldsConsistent, Known
<1>2. TypeInv /\ FieldInv /\ [Next]_vars => FieldInv'
  BY FieldStep
<1> QED BY <1>1, <1>2, FieldInvInit, TypeInvariance, PTL DEF Spec
-----------------------------------------------------------------------------
(* Types. The table holds constructors of its types only, and a field is what    *)
(* create_value or create_shrptr made of a member.                               *)

TableTyped ==
    /\ Known \subseteq Types /\ \A t \in Known : factories[t] \subseteq Constructors(t)
    /\ ensured_first \cup ensured_default \subseteq Known

LEMMA TableStep ==
  ASSUME TableTyped, Registers
  PROVE  TableTyped'
<1>1. ASSUME NEW fs, NEW t \in Types, DOMAIN fs \subseteq Types,
             \A u \in DOMAIN fs : fs[u] \subseteq Constructors(u)
      PROVE  /\ DOMAIN AfterI(fs, t) \subseteq Types /\ DOMAIN fs \subseteq DOMAIN AfterI(fs, t)
             /\ \A u \in DOMAIN AfterI(fs, t) : AfterI(fs, t)[u] \subseteq Constructors(u)
  BY <1>1 DEF AfterI, Constructors
<1>2. CASE UNCHANGED typeVars
  BY <1>2 DEF typeVars, TableTyped, Known
<1>3. ASSUME NEW t \in Types, NEW u \in Types, UNCHANGED <<ensured_first, ensured_default>>,
             factories' = AfterI(AfterI(factories, t), u)
      PROVE  TableTyped'
  <2>. DEFINE mid == AfterI(factories, t)
  <2>1. DOMAIN mid \subseteq Types /\ Known \subseteq DOMAIN mid /\ \A v \in DOMAIN mid : mid[v] \subseteq Constructors(v)
    BY <1>1 DEF TableTyped, Known
  <2>. HIDE DEF mid
  <2>2. /\ DOMAIN AfterI(mid, u) \subseteq Types /\ DOMAIN mid \subseteq DOMAIN AfterI(mid, u)
        /\ \A v \in DOMAIN AfterI(mid, u) : AfterI(mid, u)[v] \subseteq Constructors(v)
    BY <1>1, <2>1
  <2>. QED  BY <1>3, <2>1, <2>2 DEF TableTyped, Known, mid
<1>4. ASSUME NEW t \in Types, I(t)
      PROVE  TableTyped'
  BY <1>1, <1>4 DEF TableTyped, Known, I
<1>5. ASSUME NEW t \in Types, NEW c \in Constructors(t), Ensure(t, c),
             ensured_default' = IF c = <<>> THEN ensured_default \cup {t} ELSE ensured_default
      PROVE  TableTyped'
  <2>1. DOMAIN factories' = DOMAIN factories \cup {t}
    BY <1>5 DEF Ensure, AfterEnsure
  <2>2. \A u \in DOMAIN factories' : factories'[u] \subseteq Constructors(u)
    BY <1>5 DEF TableTyped, Known, Ensure, AfterEnsure, AddFactory
  <2>3. (ensured_first \cup ensured_default)' \subseteq DOMAIN factories'
    BY <1>5, <2>1 DEF TableTyped, Known, Ensure
  <2>. QED  BY <2>1, <2>2, <2>3 DEF TableTyped, Known
<1>. QED  BY <1>2, <1>3, <1>4, <1>5 DEF Registers

FieldsTyped ==
    /\ DOMAIN fields = Types
    /\ \A t \in Types : /\ DOMAIN fields[t] \subseteq Names
                        /\ \A n \in DOMAIN fields[t] : fields[t][n] \in field_data

PawnsTyped == pawns \in [Slots -> Pawn \cup {NoPawn}]

\* A fieldpawn that a registration, a factory function or a move leaves.
LEMMA PawnStep ==
  ASSUME PawnsTyped, [Next]_vars
  PROVE  PawnsTyped'
<1>1. /\ \A p \in PawnTypes : [type |-> p, label |-> Unlabelled] \in Pawn
      /\ \A l \in Labels : [type |-> "nameleton", label |-> l] \in Pawn
      /\ [type |-> "none", label |-> Unlabelled] \in Pawn
  BY MetaAssumption DEF Pawn, fieldpawn_type
<1>2. ASSUME NEW s \in Slots, NEW p \in PawnTypes, MakeFieldpawn(s, p)
      PROVE  PawnsTyped'
  BY <1>1, <1>2 DEF MakeFieldpawn, PawnsTyped
<1>3. ASSUME NEW s \in Slots, NEW l \in Labels, MakeNamedFieldpawn(s, l)
      PROVE  PawnsTyped'
  BY <1>1, <1>3 DEF MakeNamedFieldpawn, PawnsTyped
<1>4. ASSUME NEW s \in Slots, NEW r \in Slots, MoveFieldpawn(r, s)
      PROVE  PawnsTyped'
  <2>1. pawns[r] \in Pawn \cup {NoPawn}
    BY DEF PawnsTyped
  <2>. QED  BY <1>1, <1>4, <2>1 DEF MoveFieldpawn, PawnsTyped
<1>5. ASSUME NEW s \in Slots, NEW m \in Members, AddPawnField(m, s)
      PROVE  PawnsTyped'
  BY <1>5 DEF AddPawnField, PawnsTyped
<1>6. CASE UNCHANGED pawns
  BY <1>6 DEF PawnsTyped
<1>. QED  BY <1>2, <1>3, <1>4, <1>5, <1>6
          DEF Next, vars, I, EnsureDefault, EnsureConstructor, GetFields, AddField, Visit, EndWalk

\* A stored field lands among those of its owner, and no field is lost.
LEMMA StoreEffect ==
  ASSUME FieldsTyped, NEW f \in field_data, Store(f)
  PROVE  /\ FieldsTyped'
         /\ \A t \in Types : DOMAIN fields[t] \subseteq DOMAIN fields'[t]
<1>1. f.owner_type \in Types /\ f.name \in Names
  BY DEF field_data
<1>. DEFINE t == f.owner_type
<1>2. /\ DOMAIN fields' = Types
      /\ \A u \in Types \ {t} : fields'[u] = fields[u]
      /\ fields'[t] = [n \in DOMAIN fields[t] \cup {f.name} |->
                         IF n = f.name THEN f ELSE fields[t][n]]
  BY <1>1 DEF Store, FieldsTyped
<1>. HIDE DEF t
<1>. DEFINE D == DOMAIN fields[t] \cup {f.name}
<1>3. /\ DOMAIN fields'[t] = D
      /\ \A n \in D : fields'[t][n] = IF n = f.name THEN f ELSE fields[t][n]
  BY <1>2
<1>4. \A u \in Types : u = t \/ u \in Types \ {t}
  OBVIOUS
<1>5. t \in Types
  BY <1>1 DEF t
<1>. HIDE DEF D
<1>6. \A n \in D : n \in Names /\ fields'[t][n] \in field_data
  BY <1>1, <1>3, <1>5 DEF D, FieldsTyped
<1>7. DOMAIN fields[t] \subseteq D
  BY DEF D
<1>. QED  BY <1>2, <1>3, <1>4, <1>5, <1>6, <1>7 DEF FieldsTyped

\* The fields that clients register are fields.
LEMMA MadeFieldsTyped ==
  ASSUME NEW m \in Members
  PROVE  /\ create_value(m) \in field_data
         /\ \A p \in Pawn \cup {NoPawn} : create_shrptr(m, p) \in field_data
<1>1. /\ m.owner \in Types /\ m.name \in Names /\ m.data \in Types /\ m.offset \in Offsets
  BY MetaAssumption DEF Member
<1>2. [type |-> "none", label |-> Unlabelled] \in Pawn
  BY DEF Pawn, fieldpawn_type
<1>. QED  BY <1>1, <1>2 DEF create_value, create_shrptr, field_data, expose_type

\* Every step keeps the fields of every type, and their types.
LEMMA FieldsTypedStep ==
  ASSUME FieldsTyped, PawnsTyped, [Next]_vars
  PROVE  /\ FieldsTyped'
         /\ \A t \in Types : DOMAIN fields[t] \subseteq DOMAIN fields'[t]
<1>1. ASSUME NEW m \in Members, AddField(m)
      PROVE  /\ FieldsTyped'
             /\ \A t \in Types : DOMAIN fields[t] \subseteq DOMAIN fields'[t]
  BY <1>1, MadeFieldsTyped, StoreEffect DEF AddField
<1>2. ASSUME NEW m \in Members, NEW s \in Slots, AddPawnField(m, s)
      PROVE  /\ FieldsTyped'
             /\ \A t \in Types : DOMAIN fields[t] \subseteq DOMAIN fields'[t]
  <2>1. PICK p \in Pawn \cup {NoPawn} : p = pawns[s]
    BY DEF PawnsTyped
  <2>2. create_shrptr(m, p) \in field_data /\ Store(create_shrptr(m, p))
    BY <1>2, <2>1, MadeFieldsTyped DEF AddPawnField
  <2>. QED  BY <2>2, StoreEffect
<1>3. CASE UNCHANGED fields
  BY <1>3 DEF FieldsTyped
<1>4. CASE ~\E m \in Members : AddField(m) \/ \E s \in Slots : AddPawnField(m, s)
  <2>1. UNCHANGED fields
    BY <1>4 DEF Next, vars, GetFields, MakeFieldpawn, MakeNamedFieldpawn, MoveFieldpawn,
       Visit, EndWalk
  <2>. QED  BY <2>1, <1>3
<1>. QED  BY <1>1, <1>2, <1>4

-----------------------------------------------------------------------------
(* Walks. *)

Walk == [owner: Types, began: SUBSET Names, shown: SUBSET Names, left: SUBSET Names]

\* The walk w over an owner that has the fields names. No field is ever removed, so
\* when the owner has again the fields that w began with, it never had others.
WalkOK(w, names) ==
    /\ w.began \cup w.shown \cup w.left \subseteq names
    /\ names = w.began => w.shown \cup w.left = w.began /\ w.shown \cap w.left = {}

\* The walks ws, when the fields fs are registered.
WalksOK(ws, fs) ==
    /\ ws \in Seq(Walk)
    /\ \A i \in 1..Len(ws) : WalkOK(ws[i], DOMAIN fs[ws[i].owner])

\* A registration leaves the walks over other owners, over an owner that has the
\* name and over an owner that had no fields; the others begin to go astray.
LEMMA RegistrationKeepsWalks ==
  ASSUME FieldsTyped, NEW m \in Members, WalksOK(walks, fields), DisturbWalks(m),
         DOMAIN fields'[m.owner] = DOMAIN fields[m.owner] \cup {m.name},
         \A t \in Types \ {m.owner} : DOMAIN fields'[t] = DOMAIN fields[t]
  PROVE  WalksOK(walks', fields')
<1>1. m.owner \in Types /\ m.name \in Names
  BY MetaAssumption DEF Member
<1>2. CASE m.name \in DOMAIN fields[m.owner]
  <2>1. walks' = walks /\ \A t \in Types : DOMAIN fields'[t] = DOMAIN fields[t]
    BY <1>2 DEF DisturbWalks
  <2>2. \A w \in Walk : w.owner \in Types
    BY DEF Walk
  <2>3. \A i \in 1..Len(walks) : walks[i] \in Walk
    BY DEF WalksOK
  <2>. QED  BY <2>1, <2>2, <2>3 DEF WalksOK
<1>3. CASE m.name \notin DOMAIN fields[m.owner]
  <2>. DEFINE n == Len(walks)
  <2>1. DOMAIN walks = 1..n /\ n \in Nat /\ \A i \in 1..n : walks[i] \in Walk
    BY DEF WalksOK
  <2>2. PICK rest \in [DOMAIN walks -> SUBSET (DOMAIN fields[m.owner] \cup {m.name})] :
            walks' = [i \in DOMAIN walks |-> IF walks[i].owner = m.owner /\ walks[i].began # {}
                                             THEN [walks[i] EXCEPT !.left = rest[i]] ELSE walks[i]]
    BY <1>3 DEF DisturbWalks
  <2>. DEFINE W(i) == IF walks[i].owner = m.owner /\ walks[i].began # {}
                     THEN [walks[i] EXCEPT !.left = rest[i]] ELSE walks[i]
  <2>3. ASSUME NEW i \in 1..n
        PROVE  W(i) \in Walk /\ WalkOK(W(i), DOMAIN fields'[W(i).owner])
    <3>. DEFINE w == walks[i]
    <3>1. w \in Walk /\ WalkOK(w, DOMAIN fields[w.owner])
      BY <2>1 DEF WalksOK
    <3>2. rest[i] \subseteq DOMAIN fields'[m.owner] /\ rest[i] \in SUBSET Names
      BY <1>1, <2>1, <2>2 DEF FieldsTyped
    <3>3. CASE w.owner # m.owner
      <4>1. W(i) = w /\ w.owner \in Types \ {m.owner}
        BY <3>1, <3>3 DEF Walk
      <4>. QED  BY <3>1, <4>1
    <3>4. CASE w.owner = m.owner /\ w.began = {}
      BY <3>1, <3>4 DEF WalkOK
    <3>5. CASE w.owner = m.owner /\ w.began # {}
      <4>1. /\ W(i) \in Walk /\ W(i).owner = m.owner /\ W(i).left = rest[i]
            /\ W(i).began = w.began /\ W(i).shown = w.shown
        BY <3>1, <3>2, <3>5 DEF Walk
      <4>2. w.began \cup w.shown \subseteq DOMAIN fields[m.owner]
        BY <3>1, <3>5 DEF WalkOK
      <4>3. DOMAIN fields'[m.owner] # w.began
        BY <1>3, <4>2
      <4>. QED  BY <3>2, <4>1, <4>2, <4>3 DEF WalkOK
    <3>. QED  BY <3>3, <3>4, <3>5
  <2>4. walks' = [i \in 1..n |-> W(i)]
    BY <2>1, <2>2
  <2>. HIDE DEF W, n
  <2>5. [i \in 1..n |-> W(i)] \in Seq(Walk)
    BY <2>1, <2>3
  <2>6. Len([i \in 1..n |-> W(i)]) = n /\ \A i \in 1..n : [j \in 1..n |-> W(j)][i] = W(i)
    BY <2>1
  <2>. QED  BY <2>3, <2>4, <2>5, <2>6 DEF WalksOK
<1>. QED  BY <1>2, <1>3

WalkInv == FieldsTyped /\ PawnsTyped /\ WalksOK(walks, fields)

\* The steps of walks, and those that neither walk nor register.
LEMMA WalkingKeepsWalks ==
  ASSUME WalkInv, UNCHANGED fields,
         (\E t \in Types : GetFields(t)) \/ Visit \/ EndWalk \/ UNCHANGED walks
  PROVE  WalksOK(walks', fields')
<1>1. FieldsTyped /\ WalksOK(walks, fields)
  BY DEF WalkInv
<1>2. WalksOK(walks', fields)
  <2>1. ASSUME NEW t \in Types, GetFields(t)
        PROVE  WalksOK(walks', fields)
    <3>. DEFINE w == [owner |-> t, began |-> DOMAIN fields[t], shown |-> {}, left |-> DOMAIN fields[t]]
    <3>1. w \in Walk
      BY <1>1 DEF Walk, FieldsTyped
    <3>2. walks' = <<w>> \o walks /\ walks \in Seq(Walk)
      BY <1>1, <2>1 DEF GetFields, WalksOK
    <3>3. WalkOK(w, DOMAIN fields[w.owner])
      BY DEF WalkOK
    <3>. HIDE DEF w
    <3>4. /\ walks' \in Seq(Walk) /\ Len(walks') = Len(walks) + 1 /\ Len(walks) \in Nat
          /\ \A i \in 1..Len(walks') : walks'[i] = IF i = 1 THEN w ELSE walks[i - 1]
      BY <3>1, <3>2
    <3>5. \A i \in 1..Len(walks') : i = 1 \/ i - 1 \in 1..Len(walks)
      BY <3>4
    <3>. QED  BY <1>1, <3>3, <3>4, <3>5 DEF WalksOK
  <2>2. CASE Visit
    <3>1. PICK n \in Head(walks).left :
              walks' = [walks EXCEPT ![1].left = @ \ {n}, ![1].shown = @ \cup {n}]
      BY <2>2 DEF Visit
    <3>2. walks # <<>> /\ walks \in Seq(Walk)
      BY <1>1, <2>2 DEF Visit, WalksOK
    <3>3. 1 \in 1..Len(walks) /\ walks[1] \in Walk /\ n \in walks[1].left
          /\ WalkOK(walks[1], DOMAIN fields[walks[1].owner])
      BY <1>1, <3>2 DEF WalksOK
    <3>. DEFINE w == [walks[1] EXCEPT !.left = @ \ {n}, !.shown = @ \cup {n}]
    <3>4. /\ w \in Walk /\ w.owner = walks[1].owner /\ w.began = walks[1].began
          /\ w.left = walks[1].left \ {n} /\ w.shown = walks[1].shown \cup {n}
      BY <3>3 DEF Walk
    <3>5. walks' = [walks EXCEPT ![1] = w]
      BY <3>1, <3>2, <3>3
    <3>. HIDE DEF w
    <3>6. /\ walks' \in Seq(Walk) /\ Len(walks') = Len(walks)
          /\ \A i \in 1..Len(walks) : walks'[i] = IF i = 1 THEN w ELSE walks[i]
      BY <3>2, <3>3, <3>4, <3>5
    <3>7. WalkOK(w, DOMAIN fields[w.owner])
      BY <3>3, <3>4 DEF WalkOK
    <3>. QED  BY <1>1, <3>6, <3>7 DEF WalksOK
  <2>3. CASE EndWalk
    <3>1. walks # <<>> /\ walks \in Seq(Walk) /\ walks' = Tail(walks)
      BY <1>1, <2>3 DEF EndWalk, WalksOK
    <3>2. /\ walks' \in Seq(Walk) /\ Len(walks') = Len(walks) - 1 /\ Len(walks) \in Nat
          /\ \A i \in 1..Len(walks') : walks'[i] = walks[i + 1] /\ i + 1 \in 1..Len(walks)
      BY <3>1
    <3>. QED  BY <1>1, <3>2 DEF WalksOK
  <2>4. CASE UNCHANGED walks
    BY <1>1, <2>4
  <2>. QED  BY <2>1, <2>2, <2>3, <2>4
<1>. QED  BY <1>2

LEMMA WalkStep ==
  ASSUME WalkInv, [Next]_vars
  PROVE  WalkInv'
<1>1. FieldsTyped /\ PawnsTyped /\ WalksOK(walks, fields) /\ FieldsTyped' /\ PawnsTyped'
  BY PawnStep, FieldsTypedStep DEF WalkInv
<1>2. ASSUME NEW m \in Members, NEW f, f.owner_type = m.owner, f.name = m.name,
             Store(f), DisturbWalks(m)
      PROVE  WalksOK(walks', fields')
  <2>1. m.owner \in Types
    BY MetaAssumption DEF Member
  <2>2. /\ DOMAIN fields'[m.owner] = DOMAIN fields[m.owner] \cup {m.name}
        /\ \A t \in Types \ {m.owner} : DOMAIN fields'[t] = DOMAIN fields[t]
    BY <1>1, <1>2, <2>1 DEF Store, FieldsTyped
  <2>. QED  BY <1>1, <1>2, <2>2, RegistrationKeepsWalks
<1>3. ASSUME NEW m \in Members, AddField(m) PROVE WalksOK(walks', fields')
  <2>1. create_value(m).owner_type = m.owner /\ create_value(m).name = m.name
    BY DEF create_value
  <2>. QED  BY <1>2, <1>3, <2>1 DEF AddField
<1>4. ASSUME NEW m \in Members, NEW s \in Slots, AddPawnField(m, s)
      PROVE  WalksOK(walks', fields')
  <2>. DEFINE f == create_shrptr(m, pawns[s])
  <2>1. f.owner_type = m.owner /\ f.name = m.name
    BY DEF create_shrptr
  <2>2. Store(f) /\ DisturbWalks(m)
    BY <1>4 DEF AddPawnField
  <2>. HIDE DEF f
  <2>. QED  BY <1>2, <2>1, <2>2
<1>5. CASE ~\E m \in Members : AddField(m) \/ \E s \in Slots : AddPawnField(m, s)
  <2>1. /\ UNCHANGED fields
        /\ (\E t \in Types : GetFields(t)) \/ Visit \/ EndWalk \/ UNCHANGED walks
    BY <1>5 DEF Next, vars, GetFields, MakeFieldpawn, MakeNamedFieldpawn, MoveFieldpawn,
       Visit, EndWalk
  <2>. QED  BY <1>1, <2>1, WalkingKeepsWalks DEF WalkInv
<1>. QED  BY <1>1, <1>3, <1>4, <1>5 DEF WalkInv

LEMMA WalkInit == Init => WalkInv /\ TableTyped
<1>. SUFFICES ASSUME Init
              PROVE  WalkInv /\ TableTyped
  OBVIOUS
<1>1. FieldsTyped /\ PawnsTyped
  BY DEF Init, FieldsTyped, PawnsTyped
<1>2. WalksOK(walks, fields)
  BY DEF Init, WalksOK
<1>3. TableTyped
  BY DEF Init, TypeInit, TableTyped, Known
<1>. QED  BY <1>1, <1>2, <1>3 DEF WalkInv

LEMMA WalkInvariance == Spec => [](WalkInv /\ TableTyped)
<1>1. WalkInv /\ TableTyped /\ [Next]_vars => (WalkInv /\ TableTyped)'
  BY WalkStep, StepRegisters, TableStep
<1>. QED  BY <1>1, WalkInit, PTL DEF Spec

(* The tables, fieldpawns and walks have their types: in particular a factory     *)
(* method of a type is a constructor reflected for that very type.               *)
THEOREM TypeCorrect == Spec => []TypeOK
<1>1. WalkInv /\ TableTyped => TypeOK
  <2>. SUFFICES ASSUME WalkInv, TableTyped
                PROVE  TypeOK
    OBVIOUS
  <2>1. \A i \in DOMAIN walks :
          /\ walks[i].owner \in Types
          /\ walks[i].began \cup walks[i].shown \cup walks[i].left \subseteq Names
    <3>1. DOMAIN walks = 1..Len(walks) /\ \A i \in 1..Len(walks) : walks[i] \in Walk
      BY DEF WalkInv, WalksOK
    <3>. QED  BY <3>1 DEF Walk
  <2>. QED  BY <2>1 DEF WalkInv, TableTyped, FieldsTyped, PawnsTyped, TypeOK, Constructors
<1>. QED  BY <1>1, WalkInvariance, PTL

(* A walk shows every field of its owner once, through any nesting of walks and    *)
(* registrations for other owners or under known names; and where a new name of  *)
(* its owner sends it astray, it still shows registered fields only.             *)
THEOREM WalksShowEveryField == Spec => []WalksAreComplete
<1>1. WalkInv => WalksAreComplete
  <2>1. WalkInv => DOMAIN walks = 1..Len(walks)
    BY DEF WalkInv, WalksOK
  <2>. QED  BY <2>1 DEF WalkInv, WalksOK, WalkOK, WalksAreComplete
<1>. QED  BY <1>1, WalkInvariance, PTL
=============================================================================

------------------------------- MODULE Properties -------------------------------
(* The thirteen property classes of core/properties: members of an owner that    *)
(* read like a field and are assigned like one.                                  *)
(*                                                                               *)
(* A class is the sequence of its property members. Getters and wrappers hold    *)
(* the address of a field, formulas and computers a pointer to the owner and     *)
(* functions; wrappers and computers are assigned through a write function. What *)
(* a function computes is abstracted to a map from values to values. Objects     *)
(* that a field points to are values.                                            *)
EXTENDS Naturals, Sequences, FiniteSets

CONSTANTS
    Owners,          \* objects that have properties
    Classes,
    ClassOf,         \* [Owners -> Classes]
    Decl,            \* [Classes -> Seq(Member)]: members in order of declaration
    Fields,          \* data members the properties expose
    DataTypes,
    Values,
    Initial,         \* the value of a field of a new owner
    Unknown          \* what a cache holds that was never read into

Maps == [Values -> Values]

None == 0

-----------------------------------------------------------------------------
(* The classes. "get" and "set" are the functions the owner passes.              *)

Identity == [v \in Values |-> v]

Direct(access, expose, data, field, set) ==
    [access |-> access, expose |-> expose, data |-> data, field |-> field,
     const |-> FALSE, get |-> Identity, set |-> set]

Computed(access, expose, data, field, get, set) ==
    [Direct(access, expose, data, field, set) EXCEPT !.get = get]

val_getter(data, field) == Direct("getter", "val", data, field, Identity)
val_getter_const(data, field) == [val_getter(data, field) EXCEPT !.const = TRUE]
ref_getter(data, field) == Direct("getter", "ref", data, field, Identity)
unq_getter(data, field) == Direct("getter", "unq", data, field, Identity)
shr_getter(data, field) == Direct("getter", "shr", data, field, Identity)

val_wrapper(data, field, set) == Direct("wrapper", "val", data, field, set)
ref_wrapper(data, field, set) == Direct("wrapper", "ref", data, field, set)
shr_wrapper(data, field, set) == Direct("wrapper", "shr", data, field, set)

val_formula(data, field, get) == Computed("formula", "val", data, field, get, Identity)
ref_formula(data, field, get) == Computed("formula", "ref", data, field, get, Identity)
shr_formula(data, field, get) == Computed("formula", "shr", data, field, get, Identity)

val_computer(data, field, get, set) == Computed("computer", "val", data, field, get, set)
ref_computer(data, field, get, set) == Computed("computer", "ref", data, field, get, set)
shr_computer(data, field, get, set) == Computed("computer", "shr", data, field, get, set)

\* Formulas and computers are passed a getter, wrappers and computers a setter.
Member ==
    {m \in [access: {"getter", "wrapper", "formula", "computer"},
            expose: {"val", "ref", "unq", "shr"},
            data: DataTypes, field: Fields, const: BOOLEAN, get: Maps, set: Maps] :
        /\ m.access \in {"getter", "wrapper"} => m.get = Identity
        /\ m.access \in {"getter", "formula"} => m.set = Identity
        /\ m.const => m.access = "getter" /\ m.expose = "val"
        /\ m.expose = "unq" => m.access = "getter"}

ASSUME PropertiesAssumption ==
    /\ ClassOf \in [Owners -> Classes]
    /\ \A c \in Classes : Decl[c] \in Seq(Member)
    /\ Initial \in [Fields -> Values] /\ Unknown \notin Values

Ids(o) == DOMAIN Decl[ClassOf[o]]
P(o, i) == Decl[ClassOf[o]][i]

\* The template arguments and the class template: what a static member is one of.
Kind(o, i) == <<ClassOf[o], P(o, i).access, P(o, i).expose, P(o, i).data>>

Wrappers == [o \in Owners |-> {i \in Ids(o) : P(o, i).access = "wrapper"}]
Kinds == UNION {{Kind(o, i) : i \in Wrappers[o]} : o \in Owners}

IsComputed(o, i) == P(o, i).access \in {"formula", "computer"}
Writable == [o \in Owners |-> {i \in Ids(o) : P(o, i).access \in {"wrapper", "computer"}}]

(* The classes hide their copy operations. ref_wrapper and shr_computer declare   *)
(* another operator in the place of operator=, so the compiler's is public and    *)
(* copies the pointers.                                                          *)
CopyAssignable ==
    [o \in Owners |-> {i \in Ids(o) : <<P(o, i).access, P(o, i).expose>> \in
        {<<"wrapper", "ref">>, <<"computer", "shr">>}}]

ValComputed ==
    [o \in Owners |-> {i \in Ids(o) : P(o, i).expose = "val" /\ IsComputed(o, i)}]

VARIABLES
    live,            \* owners constructed and not destroyed
    store,           \* [Owners -> [Fields -> Values]]
    bound,           \* [Owners -> [CopyAssignable -> <<owner, member>> it has the pointers of]]
    write_funcs,     \* [Kinds -> the wrapper whose function its wrappers call]
    cache,           \* [Owners -> [ValComputed -> _cache]]
    rebound          \* ghost: properties that were assigned from another property

vars == <<live, store, bound, write_funcs, cache, rebound>>

-----------------------------------------------------------------------------
(* Owners. *)

\* The members of an owner as they are made; those of a dead one are kept so.
Clear(o) ==
    /\ store' = [store EXCEPT ![o] = Initial]
    /\ bound' = [bound EXCEPT ![o] = [i \in CopyAssignable[o] |-> <<o, i>>]]
    /\ cache' = [cache EXCEPT ![o] = [i \in ValComputed[o] |-> Unknown]]
    /\ rebound' = {r \in rebound : r[1] # o}

\* Mutant of Construct: the test of the static function is the wrong way round.
ConstructUnset(o) ==
    /\ o \notin live
    /\ live' = live \cup {o}
    /\ Clear(o)
    /\ UNCHANGED write_funcs

\* The constructors of the wrappers, in order: the first one sets the function.
Construct(o) ==
    /\ o \notin live
    /\ live' = live \cup {o}
    /\ Clear(o)
    /\ write_funcs' =
        [k \in Kinds |->
            LET OfKind == {i \in Wrappers[o] : Kind(o, i) = k} IN
            IF write_funcs[k] # None \/ OfKind = {} THEN write_funcs[k]
            ELSE CHOOSE i \in OfKind : \A j \in OfKind : i <= j]

Destroy(o) ==
    /\ o \in live
    /\ live' = live \ {o}
    /\ Clear(o)
    /\ UNCHANGED write_funcs

-----------------------------------------------------------------------------
(* Operators of a property. One that was assigned from a property of an owner    *)
(* that died since dangles, and clients do not use it.                           *)

Bound(o, i) == IF i \in CopyAssignable[o] THEN bound[o][i] ELSE <<o, i>>

Usable(o, i) == o \in live /\ Bound(o, i)[1] \in live

ReadDirect(o, i) ==
    LET b == Bound(o, i) IN store[b[1]][P(b[1], b[2]).field]

ReadComputed(o, i) ==
    LET b == Bound(o, i) IN P(b[1], b[2]).get[store[b[1]][P(b[1], b[2]).field]]

\* operator* and the conversions
Read(o, i) == IF IsComputed(o, i) THEN ReadComputed(o, i) ELSE ReadDirect(o, i)

SetBy(writer, target, v) ==
    store' = [store EXCEPT ![target][P(target, writer).field] = P(target, writer).set[v]]

\* operator= of a wrapper calls the function of its kind on its own owner.
WriteWrapper(o, i, v) ==
    /\ P(o, i).access = "wrapper"
    /\ SetBy(write_funcs[Kind(o, i)], Bound(o, i)[1], v)

\* Mutant of WriteComputer: copies keep their own owner.
WriteComputerUnbound(o, i, v) ==
    /\ P(o, i).access = "computer"
    /\ SetBy(Bound(o, i)[2], o, v)

WriteComputer(o, i, v) ==
    /\ P(o, i).access = "computer"
    /\ SetBy(Bound(o, i)[2], Bound(o, i)[1], v)

Write(o, i, v) ==
    /\ Usable(o, i)
    /\ WriteWrapper(o, i, v) \/ WriteComputer(o, i, v)
    /\ UNCHANGED <<live, bound, write_funcs, cache, rebound>>

\* operator-> of the computed by value: the pointer is to the property's cache.
Arrow(o, i) ==
    /\ Usable(o, i)
    /\ cache' = [cache EXCEPT ![o][i] = ReadComputed(o, i)]
    /\ UNCHANGED <<live, store, bound, write_funcs, rebound>>

\* *property.operator->() = v
AssignThroughArrow(o, i, v) ==
    /\ Usable(o, i) /\ P(o, i).expose = "val" /\ ~P(o, i).const
    /\ IF i \in ValComputed[o]
       THEN cache' = [cache EXCEPT ![o][i] = v] /\ UNCHANGED store
       ELSE store' = [store EXCEPT ![o][P(o, i).field] = v] /\ UNCHANGED cache
    /\ UNCHANGED <<live, bound, write_funcs, rebound>>

\* Mutant of CopyAssign: the pointers are exchanged.
CopyAssignSwapping(o, i, q, j) ==
    /\ o \in live /\ q \in live /\ <<o, i>> # <<q, j>>
    /\ Kind(o, i) = Kind(q, j)
    /\ bound' = [bound EXCEPT ![o][i] = bound[q][j], ![q][j] = bound[o][i]]
    /\ rebound' = rebound \cup {<<o, i>>}
    /\ UNCHANGED <<live, store, write_funcs, cache>>

CopyAssign(o, i, q, j) ==
    /\ o \in live /\ q \in live /\ <<o, i>> # <<q, j>>
    /\ Kind(o, i) = Kind(q, j)
    /\ bound' = [bound EXCEPT ![o][i] = bound[q][j]]
    /\ rebound' = rebound \cup {<<o, i>>}
    /\ UNCHANGED <<live, store, write_funcs, cache>>

-----------------------------------------------------------------------------
Init ==
    /\ live = {} /\ rebound = {}
    /\ store = [o \in Owners |-> Initial]
    /\ bound = [o \in Owners |-> [i \in CopyAssignable[o] |-> <<o, i>>]]
    /\ write_funcs = [k \in Kinds |-> None]
    /\ cache = [o \in Owners |-> [i \in ValComputed[o] |-> Unknown]]

Next ==
    \E o \in Owners :
        \/ Construct(o) \/ Destroy(o)
        \/ \E i \in Writable[o], v \in Values : Write(o, i, v)
        \/ \E i \in ValComputed[o] : Arrow(o, i)
        \/ \E i \in Ids(o), v \in Values : AssignThroughArrow(o, i, v)
        \/ \E i \in CopyAssignable[o], q \in Owners :
            \E j \in CopyAssignable[q] : CopyAssign(o, i, q, j)

Spec == Init /\ [][Next]_vars

-----------------------------------------------------------------------------
(* Every variable has its type. *)
TypeOK ==
    /\ live \subseteq Owners
    /\ store \in [Owners -> [Fields -> Values]]
    /\ \A o \in Owners :
        /\ cache[o] \in [ValComputed[o] -> Values \cup {Unknown}]
        /\ bound[o] \in [CopyAssignable[o] -> UNION {{p} \X Ids(p) : p \in Owners}]
    /\ write_funcs \in [Kinds -> Nat]
    /\ \A o \in live : \A i \in Wrappers[o] : write_funcs[Kind(o, i)] \in Ids(o)
    /\ rebound \subseteq UNION {{o} \X CopyAssignable[o] : o \in Owners}

(* What operator= promises: the field that the property exposes has what the      *)
(* function its own owner gave it makes of the value.                             *)
WriteReaches(o, i, v) ==
    LET b == Bound(o, i)
        member == P(b[1], b[2])
    IN store'[b[1]][member.field] = member.set[v]

Shares(o, i) ==
    /\ P(o, i).access = "wrapper"
    /\ \E j \in Ids(o) \ {i} : Kind(o, j) = Kind(o, i)

(* An assignment reaches the data of the property it is made to, in whatever      *)
(* order owners are constructed and destroyed and properties assigned from one    *)
(* another. This needs that no other wrapper of the owner's class has the same    *)
(* template arguments.                                                            *)
LoneWritesReach ==
    [][store' # store =>
        \A o \in live : \A i \in Writable[o], v \in Values :
            Write(o, i, v) /\ ~Shares(o, i) => WriteReaches(o, i, v)]_vars

(* zx_val_wrapper.h:8: "Property which refers to data corresponding to given      *)
(* address, writes data over std::function." Every wrapper, that is.              *)
WritesReach ==
    [][store' # store =>
        \A o \in live : \A i \in Writable[o], v \in Values :
            Write(o, i, v) => WriteReaches(o, i, v)]_vars

(* A property that was not itself assigned from another one writes into its own   *)
(* owner only: assigning from a property, destroying an owner and constructing it *)
(* again never redirects any other property.                                      *)
WritesStayInOwner ==
    [][store' # store =>
        \A o \in live : \A i \in Ids(o), v \in Values :
            (Write(o, i, v) \/ AssignThroughArrow(o, i, v)) /\ <<o, i>> \notin rebound
            => \A q \in Owners \ {o} : store'[q] = store[q]]_vars
===============================================================================

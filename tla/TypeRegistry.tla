------------------------------ MODULE TypeRegistry ------------------------------
(* zx::type: the static registry of types (zx_type), the lists of argument types *)
(* that key a type's factory methods (zx_rtti_args, zx_tmpl_args_converter) and *)
(* the reflected constructors (zx_reflector).                                    *)
(*                                                                               *)
(* Hash codes are sets of bits, so that ^ is the symmetric difference: the hash  *)
(* of a list has the bits that are set in an odd number of its parts.            *)
EXTENDS Naturals, Sequences, FiniteSets

CONSTANTS
    Types,
    Params,       \* parameter types of constructors: a type, or a reference to one
    TypeId,       \* [Params -> Types]: typeid, which does not see the reference
    Bits,
    HashCode,     \* [Types -> SUBSET Bits]: type_index::hash_code
    SizeHash,     \* [Nat -> SUBSET Bits] on the sizes of argument lists
    Default,      \* the default constructible types
    Reflected     \* [Types -> set of Seq(Params)]: constructors with parameters
                  \* that clients reflect

VARIABLES
    factories,    \* [known types -> the constructors in factory_methods]
    ensured_first,   \* ghost, the types that ensure made the entries of
    ensured_default  \* ghost, the types that their default constructor was ensured of

typeVars == <<factories, ensured_first, ensured_default>>

Known == DOMAIN factories
TypeSeq == {<<>>} \cup UNION {Reflected[t] : t \in Types}

ASSUME TypeAssumption ==
    /\ Types \subseteq Params /\ TypeId \in [Params -> Types]
    /\ \A t \in Types : TypeId[t] = t
    /\ HashCode \in [Types -> SUBSET Bits] /\ IsFiniteSet(Bits)
    /\ Default \subseteq Types
    /\ Reflected \in [Types -> SUBSET (Seq(Params) \ {<<>>})]
    /\ \A a \in TypeSeq : Len(a) \in DOMAIN SizeHash /\ SizeHash[Len(a)] \subseteq Bits

-----------------------------------------------------------------------------
(* Argument lists. *)

\* tmpl_args_converter<...>::to_rtti, of a constructor's parameters or a call's.
ToRtti(params) == [i \in DOMAIN params |-> TypeId[params[i]]]

Hash(args) ==
    {b \in Bits : Cardinality({i \in DOMAIN args : b \in HashCode[args[i]]}) % 2 = 1}

\* std::hash<rtti::args>: size ^ arg ^ arg ...
ArgsHash(args) ==
    (SizeHash[Len(args)] \ Hash(args)) \cup (Hash(args) \ SizeHash[Len(args)])

\* args::operator==
Key == [params \in TypeSeq |-> ArgsHash(ToRtti(params))]
SameArgs(a, b) == Key[a] = Key[b]

\* What the search of instantiate may find; no argument of a call is a reference.
Matching(t, args) == {f \in factories[t] : SameArgs(f, args)}

\* Mutant of AddFactory: the lists are compared, and not their hashes.
AddFactoryByList(fms, params) == fms \cup {params}

\* "fms[arg_types] = fnptr", where the key was not found.
AddFactory(fms, params) ==
    IF \E f \in fms : SameArgs(f, params) THEN fms ELSE fms \cup {params}

-----------------------------------------------------------------------------
(* The registry, as a function of what it held.                                 *)

\* Mutants of AfterI: without "if constexpr", and without the look-up.
AfterIAnyType(fs, t) == [u \in DOMAIN fs \cup {t} |-> IF u \in DOMAIN fs THEN fs[u] ELSE {<<>>}]
AfterIAnew(fs, t) ==
    [u \in DOMAIN fs \cup {t} |->
        IF u = t THEN (IF t \in Default THEN {<<>>} ELSE {}) ELSE fs[u]]

\* type::i<T>: only the call that makes the entry adds the default constructor.
AfterI(fs, t) ==
    IF t \in DOMAIN fs THEN fs
    ELSE [u \in DOMAIN fs \cup {t} |->
            IF u = t THEN (IF t \in Default THEN {<<>>} ELSE {}) ELSE fs[u]]

\* Mutant of AfterEnsure: without the look-up.
AfterEnsureAnew(fs, t, params) ==
    [u \in DOMAIN fs \cup {t} |-> IF u = t THEN {params} ELSE fs[u]]

\* type::ensure<T, ReflCtor>
AfterEnsure(fs, t, params) ==
    [u \in DOMAIN fs \cup {t} |->
        IF u = t THEN AddFactory(IF t \in DOMAIN fs THEN fs[t] ELSE {}, params) ELSE fs[u]]

I(t) == factories' = AfterI(factories, t) /\ UNCHANGED <<ensured_first, ensured_default>>

Ensure(t, params) ==
    /\ factories' = AfterEnsure(factories, t, params)
    /\ ensured_first' = ensured_first \cup ({t} \ Known)

\* refl<T>::ctor<First, Args...>::ensure
EnsureConstructor(t, params) ==
    /\ params \in Reflected[t]
    /\ Ensure(t, params)
    /\ UNCHANGED ensured_default

\* refl<T>::ctor<>::ensure, which asserts that T is default constructible.
EnsureDefault(t) ==
    /\ t \in Default
    /\ Ensure(t, <<>>)
    /\ ensured_default' = ensured_default \cup {t}

TypeInit == factories = <<>> /\ ensured_first = {} /\ ensured_default = {}

-----------------------------------------------------------------------------
(* No type has two factory methods for one key, so the linear search of         *)
(* instantiate answers the same in whatever order the table yields them.        *)
OneFactoryPerKey ==
    \A t \in Known : \A f, g \in factories[t] : SameArgs(f, g) => f = g

(* README.md:104, "Default ctor will be added to registry of zx::type if type is *)
(* default constructible", is true of the types that i or a field met first, and *)
(* stays true whatever is ensured later. It is not true of the types that ensure *)
(* met first: these have a default constructor only if they ensured that one.    *)
DefaultsRegistered ==
    \A t \in Known \cap Default :
        /\ t \notin ensured_first => Matching(t, <<>>) = {<<>>}
        /\ t \in ensured_first \ ensured_default => <<>> \notin Matching(t, <<>>)

(* A factory method that was found once is found for ever: neither i, ensure nor *)
(* the registration of a field takes one away or puts another in its place.     *)
FactoriesStay ==
    [][\A t \in Known : t \in DOMAIN factories' /\ factories[t] \subseteq factories'[t]]_typeVars
===============================================================================

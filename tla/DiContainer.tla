------------------------------- MODULE DiContainer -------------------------------
(* Dependency injection: zx_di_container, zx_singleton_container,               *)
(* zx_nameleton_container, zx_di_structs and zx_di_functions.                    *)
(*                                                                               *)
(* A container keeps the signatures it was bound and the instances it made.      *)
(* get_or_add calls a creator, the creator runs a constructor, the constructor   *)
(* calls inject_dependencies, and that calls get_or_add of every registered      *)
(* container: the calls in progress are the frames of "stack", innermost first.  *)
(* A singleton's key is <<type, NoLabel>>, a nameleton's is <<type, label>>.     *)
EXTENDS Naturals, Sequences, FiniteSets

CONSTANTS
    Containers,      \* container objects; each is constructed once
    Names,           \* names a container may be given
    Types,           \* positive numbers: rank of a type in the order of addresses
    Labels,          \* positive numbers: rank of a nameleton's name
    FieldNames,
    Fields,          \* [Types -> set of Field]: what the metadata registry holds
    Guarded,         \* types whose constructor does not inject under itself
    Offers,          \* [Containers -> set of Signature]: what its bind_all may bind
    Injectees,       \* types that clients construct themselves
    MaxSignatures,   \* [Containers -> Nat]: bound on their bindings
    MaxObjects       \* bound on the objects made before a client calls again

NoLabel == 0
Null == 0
NullType == 0
NoContainer == "no container"
Unnamed == "not constructed"
Keys == Types \X (Labels \cup {NoLabel})
IsNamed(key) == key[2] # NoLabel

Field == [name: FieldNames, type: Types, expose: {"value", "shrptr"},
          pawn: {"none", "singleton", "signal_pack", "nameleton"},
          label: Labels \cup {NoLabel}]

SingletonSignature ==
    [mapped: BOOLEAN, interface: Types \cup {NullType}, impl: Types, label: {NoLabel}]
NameletonSignature ==
    [mapped: BOOLEAN, interface: Types \cup {NullType}, impl: Types, label: Labels]
Signature == SingletonSignature \cup NameletonSignature

ASSUME DiAssumption ==
    /\ NoContainer \notin Containers /\ Unnamed \notin Names
    /\ Types \subseteq Nat \ {0} /\ Labels \subseteq Nat \ {0}
    /\ Fields \in [Types -> SUBSET Field]
    /\ \A t \in Types : \A f, g \in Fields[t] : f.name = g.name => f = g
    /\ Guarded \subseteq Types /\ Injectees \subseteq Types
    /\ Offers \in [Containers -> SUBSET Signature]
    /\ MaxSignatures \in [Containers -> Nat] /\ MaxObjects \in Nat

VARIABLES
    names,           \* _name of a container, kept here when it is dead
    live,            \* the containers that are constructed and not destroyed
    registered,      \* di_container::__instances
    signatures,      \* _signatures of a container's two parts
    instances,       \* _singletons of the two: the objects an entry may yield
    objects,         \* every instance and injectee made so far
    stack,           \* the calls in progress
    recursed         \* ghost: keys asked for again while their creator ran

vars == <<names, live, registered, signatures, instances, objects, stack, recursed>>

Registered == {registered[n] : n \in Names} \ {NoContainer}
Objects == 1..Len(objects)
Top == Head(stack)
Below == Tail(stack)
Idle == stack = <<>>

-----------------------------------------------------------------------------
(* Keys and their order. *)

TypeLess(s, t) == s < t

SingletonLess(k, l) == TypeLess(k[1], l[1])

NameletonLess(k, l) == TypeLess(k[1], l[1]) \/ k[2] < l[2]

(* Two nameletons may each be less than the other: std::map's behaviour is then  *)
(* undefined. In the red-black trees of the toolset an entry may be missed once *)
(* a rotation, which takes three entries, has put it on the wrong side.         *)
Confusable(c, key) ==
    LET Entries == {k \in Keys : IsNamed(k) /\ instances[c][k] # {}} IN
    /\ IsNamed(key) /\ Cardinality(Entries) >= 3
    /\ \E k \in Entries : NameletonLess(key, k) /\ NameletonLess(k, key)

\* Mutant of Find: an entry is made before the creator runs.
FindPlaceholder(c, key) ==
    LET found == instances[c][key] \cup
            {o \in Objects : objects[o].origin = <<c, key>> /\ objects[o].state = "building"}
    IN IF found = {} THEN {Null} ELSE found

Find(c, key) ==
    IF instances[c][key] = {} THEN {Null}
    ELSE instances[c][key] \cup (IF Confusable(c, key) THEN {Null} ELSE {})

\* Mutant of Insert: nothing is registered.
InsertNothing(c, key, o) == {instances[c][key]}

(* std::map::insert keeps what it finds; one that missed may add a second node. *)
Insert(c, key, o) ==
    IF instances[c][key] = {} THEN {{o}}
    ELSE {instances[c][key]} \cup
         (IF Confusable(c, key) THEN {instances[c][key] \cup {o}} ELSE {})

-----------------------------------------------------------------------------
(* Containers and bindings. *)

\* Mutant of Construct: only the first container is registered.
ConstructFirstOnly(c, name) ==
    /\ Idle /\ names[c] = Unnamed
    /\ names' = [names EXCEPT ![c] = name]
    /\ live' = live \cup {c}
    /\ registered' = [registered EXCEPT ![name] = IF Registered = {} THEN c ELSE @]
    /\ UNCHANGED <<signatures, instances, objects, stack, recursed>>

Construct(c, name) ==
    /\ Idle /\ names[c] = Unnamed
    /\ names' = [names EXCEPT ![c] = name]
    /\ live' = live \cup {c}
    /\ registered' = [registered EXCEPT ![name] = IF @ = NoContainer THEN c ELSE @]
    /\ UNCHANGED <<signatures, instances, objects, stack, recursed>>

\* Mutant of Destruct: the name stays registered.
DestructRegistered(c) ==
    /\ Idle /\ c \in live
    /\ live' = live \ {c}
    /\ signatures' = [signatures EXCEPT ![c] = <<>>]
    /\ instances' = [instances EXCEPT ![c] = [key \in Keys |-> {}]]
    /\ UNCHANGED <<names, registered, objects, stack, recursed>>

Destruct(c) ==
    /\ Idle /\ c \in live
    /\ live' = live \ {c}
    /\ registered' = [registered EXCEPT ![names[c]] = NoContainer]
    /\ signatures' = [signatures EXCEPT ![c] = <<>>]
    /\ instances' = [instances EXCEPT ![c] = [key \in Keys |-> {}]]
    /\ UNCHANGED <<names, objects, stack, recursed>>

PushSignature(c, s) ==
    /\ Idle /\ c \in live /\ s \in Offers[c]
    /\ Len(signatures[c]) < MaxSignatures[c]
    /\ signatures' = [signatures EXCEPT ![c] = Append(@, s)]
    /\ UNCHANGED <<names, live, registered, instances, objects, stack, recursed>>

BindConcreteSingleton(c, impl) ==
    PushSignature(c, [mapped |-> FALSE, interface |-> NullType,
                      impl |-> impl, label |-> NoLabel])

BindAbstractSingleton(c, interface, impl) ==
    PushSignature(c, [mapped |-> TRUE, interface |-> interface,
                      impl |-> impl, label |-> NoLabel])

BindConcreteNameleton(c, impl, label) ==
    PushSignature(c, [mapped |-> FALSE, interface |-> NullType,
                      impl |-> impl, label |-> label])

BindAbstractNameleton(c, interface, impl, label) ==
    PushSignature(c, [mapped |-> TRUE, interface |-> interface,
                      impl |-> impl, label |-> label])

RegisterSignalPack(c, t) == BindConcreteSingleton(c, t)

BindSingleton(c) ==
    \/ \E t \in Types : BindConcreteSingleton(c, t) \/ RegisterSignalPack(c, t)
    \/ \E i, t \in Types : BindAbstractSingleton(c, i, t)

BindNameleton(c) ==
    \/ \E t \in Types, l \in Labels : BindConcreteNameleton(c, t, l)
    \/ \E i, t \in Types, l \in Labels : BindAbstractNameleton(c, i, t, l)

TypeToMap(s) == IF s.mapped THEN s.interface ELSE s.impl

Matching(c, key, from) ==
    {i \in from..Len(signatures[c]) : <<TypeToMap(signatures[c][i]),
                                        signatures[c][i].label>> = key}

-----------------------------------------------------------------------------
(* Making an object: its constructor may call inject_dependencies(this). A      *)
(* guarded constructor keeps a static flag and does not inject while another    *)
(* one of its type runs; without that, types that need each other never end.    *)

BeingBuilt(t) == \E o \in Objects : objects[o].type = t /\ objects[o].state = "building"

PawnFields(t) == {f \in Fields[t] : f.pawn # "none"}

InjectFrame(o, todo) ==
    [op |-> "inject", obj |-> o, field |-> Null, todo |-> todo, conts |-> {}]

(* The new object o, and the frame of its constructor on top of the frames s.   *)
Build(t, origin, s) ==
    LET o == Len(objects) + 1
        todo == IF t \in Guarded /\ BeingBuilt(t) THEN {} ELSE PawnFields(t)
    IN  /\ objects' = Append(objects, [type |-> t, origin |-> origin, state |-> "building",
                                       pawns |-> [n \in FieldNames |-> Null]])
        /\ stack' = <<InjectFrame(o, todo)>> \o s

-----------------------------------------------------------------------------
(* What clients call. *)

GetFrame(c, key) == [op |-> "get", cont |-> c, key |-> key, at |-> 1, result |-> Null]

ClientMayCall == Idle /\ Len(objects) < MaxObjects

GetSingleton(c, t) ==
    /\ ClientMayCall /\ c \in live
    /\ stack' = <<GetFrame(c, <<t, NoLabel>>)>>
    /\ UNCHANGED <<names, live, registered, signatures, instances, objects, recursed>>

GetNameleton(c, t, label) ==
    /\ ClientMayCall /\ c \in live
    /\ stack' = <<GetFrame(c, <<t, label>>)>>
    /\ UNCHANGED <<names, live, registered, signatures, instances, objects, recursed>>

CreateBoundSingleton(c) ==
    \E i \in 1..Len(signatures[c]) :
        /\ signatures[c][i].label = NoLabel
        /\ GetSingleton(c, TypeToMap(signatures[c][i]))

CreateBoundNameleton(c) ==
    \E i \in 1..Len(signatures[c]) :
        /\ signatures[c][i].label # NoLabel
        /\ GetNameleton(c, TypeToMap(signatures[c][i]), signatures[c][i].label)

NewInjectee(t) ==
    /\ ClientMayCall /\ t \in Injectees
    /\ Build(t, <<>>, <<>>)
    /\ UNCHANGED <<names, live, registered, signatures, instances, recursed>>

InjectDependencies(o) ==
    /\ ClientMayCall /\ objects[o].origin = <<>> /\ objects[o].state = "built"
    /\ stack' = <<InjectFrame(o, PawnFields(objects[o].type))>>
    /\ UNCHANGED <<names, live, registered, signatures, instances, objects, recursed>>

-----------------------------------------------------------------------------
(* get_or_add, the same code in both parts of a container. *)

Serving == ~Idle /\ Top.op = "get"

(* get_or_add returns o: to a client, or into the field that is being injected. *)
Return(o) ==
    /\ stack' = Below
    /\ objects' = IF Below = <<>> THEN objects
                  ELSE [objects EXCEPT ![Head(Below).obj].pawns[Head(Below).field.name] = o]

FindInstance ==
    /\ Matching(Top.cont, Top.key, Top.at) # {}
    /\ \E o \in Find(Top.cont, Top.key) \ {Null} : Return(o)
    /\ UNCHANGED recursed

\* Mutant of EndOfSignatures: the instance that came second is not returned.
EndOfSignaturesNull ==
    /\ Matching(Top.cont, Top.key, Top.at) = {}
    /\ Return(Null)
    /\ UNCHANGED recursed

EndOfSignatures ==
    /\ Matching(Top.cont, Top.key, Top.at) = {}
    /\ Return(Top.result)
    /\ UNCHANGED recursed

CallCreator ==
    \E i \in Matching(Top.cont, Top.key, Top.at) :
        /\ \A j \in Matching(Top.cont, Top.key, Top.at) : i <= j
        /\ Null \in Find(Top.cont, Top.key)
        /\ Build(signatures[Top.cont][i].impl, <<Top.cont, Top.key>>,
                 <<[Top EXCEPT !.at = i]>> \o Below)
        /\ recursed' = IF \E d \in 2..Len(stack) : /\ stack[d].op = "get"
                                                   /\ stack[d].cont = Top.cont
                                                   /\ stack[d].key = Top.key
                       THEN recursed \cup {<<Top.cont, Top.key>>} ELSE recursed

SingletonGetOrAdd ==
    /\ Serving /\ ~IsNamed(Top.key)
    /\ FindInstance \/ EndOfSignatures \/ CallCreator
    /\ UNCHANGED <<names, live, registered, signatures, instances>>

NameletonGetOrAdd ==
    /\ Serving /\ IsNamed(Top.key)
    /\ FindInstance \/ EndOfSignatures \/ CallCreator
    /\ UNCHANGED <<names, live, registered, signatures, instances>>

-----------------------------------------------------------------------------
(* inject_dependencies. *)

Injecting == ~Idle /\ Top.op = "inject"

ThrowsOn(f) == f.expose # "shrptr" \/ (f.pawn = "nameleton" /\ f.label = NoLabel)

KeyOf(f) == <<f.type, IF f.pawn = "nameleton" THEN f.label ELSE NoLabel>>

\* Mutant of NextField: destroyed containers are asked too.
NextFieldOfAll ==
    /\ Injecting /\ Top.conts = {}
    /\ \E f \in Top.todo :
        /\ ~ThrowsOn(f)
        /\ stack' = <<[Top EXCEPT !.field = f, !.todo = @ \ {f}, !.conts = Containers]>> \o Below
    /\ UNCHANGED <<names, live, registered, signatures, instances, objects, recursed>>

NextField ==
    /\ Injecting /\ Top.conts = {}
    /\ \E f \in Top.todo :
        /\ ~ThrowsOn(f)
        /\ stack' = <<[Top EXCEPT !.field = f, !.todo = @ \ {f}, !.conts = Registered]>> \o Below
    /\ UNCHANGED <<names, live, registered, signatures, instances, objects, recursed>>

(* The exception leaves every call in progress; what was being built is lost.   *)
Throw ==
    /\ Injecting /\ Top.conts = {}
    /\ \E f \in Top.todo : ThrowsOn(f)
    /\ stack' = <<>>
    /\ objects' = [o \in Objects |-> IF objects[o].state = "building"
                                     THEN [objects[o] EXCEPT !.state = "abandoned"]
                                     ELSE objects[o]]
    /\ UNCHANGED <<names, live, registered, signatures, instances, recursed>>

\* Mutant of InjectField: the walk over the containers does not advance.
InjectFieldStuck ==
    /\ Injecting
    /\ \E c \in Top.conts : stack' = <<GetFrame(c, KeyOf(Top.field))>> \o stack
    /\ UNCHANGED <<names, live, registered, signatures, instances, objects, recursed>>

InjectField ==
    /\ Injecting
    /\ \E c \in Top.conts :
        stack' = <<GetFrame(c, KeyOf(Top.field))>>
                 \o <<[Top EXCEPT !.conts = @ \ {c}]>> \o Below
    /\ UNCHANGED <<names, live, registered, signatures, instances, objects, recursed>>

Injected == Injecting /\ Top.conts = {} /\ Top.todo = {}

Built == objects' = [objects EXCEPT ![Top.obj].state = "built"]

(* A client has its object. *)
InjecteeReady ==
    /\ Injected /\ Below = <<>>
    /\ Built /\ stack' = <<>>
    /\ UNCHANGED <<names, live, registered, signatures, instances, recursed>>

\* Mutant of InstanceReady: registered without the second look-up.
InstanceReadyUnchecked ==
    /\ Injected /\ Below # <<>>
    /\ instances' = [instances EXCEPT ![Head(Below).cont][Head(Below).key] = {Top.obj}]
    /\ stack' = <<[Head(Below) EXCEPT !.at = @ + 1, !.result = Top.obj]>> \o Tail(Below)
    /\ Built
    /\ UNCHANGED <<names, live, registered, signatures, recursed>>

(* A creator returned: get_or_add looks again, and registers what is not there.  *)
InstanceReady ==
    /\ Injected /\ Below # <<>>
    /\ LET g == Head(Below)
           below == Tail(Below)
       IN \E found \in Find(g.cont, g.key) :
          IF found = Null
          THEN /\ \E entry \in Insert(g.cont, g.key, Top.obj) :
                      instances' = [instances EXCEPT ![g.cont][g.key] = entry]
               /\ stack' = below
               /\ objects' =
                    LET o == Top.obj
                        done == [objects EXCEPT ![o].state = "built"]
                    IN IF below = <<>> THEN done
                       ELSE [done EXCEPT ![Head(below).obj].pawns[Head(below).field.name] = o]
          ELSE /\ stack' = <<[g EXCEPT !.at = @ + 1, !.result = Top.obj]>> \o below
               /\ Built /\ UNCHANGED instances
    /\ UNCHANGED <<names, live, registered, signatures, recursed>>

-----------------------------------------------------------------------------
Init ==
    /\ names = [c \in Containers |-> Unnamed]
    /\ live = {}
    /\ registered = [n \in Names |-> NoContainer]
    /\ signatures = [c \in Containers |-> <<>>]
    /\ instances = [c \in Containers |-> [key \in Keys |-> {}]]
    /\ objects = <<>> /\ stack = <<>> /\ recursed = {}

Continue ==
    \/ SingletonGetOrAdd \/ NameletonGetOrAdd
    \/ NextField \/ Throw \/ InjectField \/ InjecteeReady \/ InstanceReady

Next ==
    \/ \E c \in Containers :
        \/ \E n \in Names : Construct(c, n)
        \/ Destruct(c)
        \/ BindSingleton(c) \/ BindNameleton(c)
        \/ CreateBoundSingleton(c) \/ CreateBoundNameleton(c)
        \/ \E t \in Types : GetSingleton(c, t)
        \/ \E t \in Types, l \in Labels : GetNameleton(c, t, l)
    \/ \E t \in Types : NewInjectee(t)
    \/ \E o \in Objects : InjectDependencies(o)
    \/ Continue

(* A call that was made goes on: one thread runs it.                            *)
Spec == Init /\ [][Next]_vars /\ WF_vars(Continue)

-----------------------------------------------------------------------------
(* Every variable has its type. *)
TypeOK ==
    /\ names \in [Containers -> Names \cup {Unnamed}]
    /\ live \subseteq Containers
    /\ registered \in [Names -> Containers \cup {NoContainer}]
    /\ \A c \in Containers : \A i \in 1..Len(signatures[c]) : signatures[c][i] \in Signature
    /\ instances \in [Containers -> [Keys -> SUBSET Objects]]
    /\ \A o \in Objects :
        /\ objects[o].type \in Types
        /\ objects[o].state \in {"building", "built", "abandoned"}
        /\ objects[o].pawns \in [FieldNames -> Objects \cup {Null}]
    /\ \A i \in 1..Len(stack) :
        \/ stack[i].op = "get" /\ stack[i].cont \in live /\ stack[i].key \in Keys
        \/ stack[i].op = "inject" /\ stack[i].obj \in Objects
    /\ recursed \subseteq Containers \X Keys

(* Nobody sees an object before its constructor has ended: neither an entry of  *)
(* a container nor a pawn holds one that is being built or was abandoned by an  *)
(* exception, in whatever recursion of creators get_or_add is (get_or_add       *)
(* registers after the creator returned).                                       *)
OnlyCompleteInstances ==
    LET Complete(o) == o = Null \/ objects[o].state = "built" IN
    /\ \A c \in Containers, key \in Keys : \A o \in instances[c][key] : Complete(o)
    /\ \A o \in Objects, n \in FieldNames : Complete(objects[o].pawns[n])

MadeFor(c, key) ==
    {o \in Objects : objects[o].origin = <<c, key>> /\ objects[o].state # "abandoned"}

(* get_or_add makes at most one instance of a key, however often it is bound    *)
(* and asked for and from however deep a call, unless its own creator asked for *)
(* the key again or the order of nameletons loses the entry.                    *)
OneInstanceUnlessRecursive ==
    \A c \in live, key \in Keys :
        <<c, key>> \notin recursed /\ ~Confusable(c, key) => Cardinality(MadeFor(c, key)) <= 1

(* doc/dependency_injection.md: a nameleton is one instance of type per name.   *)
OneInstancePerName ==
    \A c \in live, key \in Keys : IsNamed(key) => Cardinality(MadeFor(c, key)) <= 1

(* What a container registered for a key stays its instance until the container *)
(* dies, also when the creator recursed and an inner call was there first.      *)
InstancesKept ==
    [][\A c \in live, key \in Keys :
        (c \in live' /\ instances[c][key] # {} /\ ~Confusable(c, key))
            => instances'[c][key] = instances[c][key]]_vars

(* inject_dependencies never walks over a destroyed container: the registry     *)
(* that every injection reads names live ones, whatever order containers of the *)
(* same name are constructed and destroyed in.                                  *)
RegistryNamesLive == Registered \subseteq live

(* A live container takes part in injections, unless another shares its name.   *)
UniqueNamesRegistered ==
    \A c \in live :
        (\A d \in Containers \ {c} : names[d] # names[c]) => registered[names[c]] = c

(* When one container is registered, an injection that ends has set every pawn  *)
(* whose key the container has a signature for, and set it to the registered    *)
(* instance unless that key recursed.                                           *)
SoleContainerInjects ==
    \A c \in Containers :
        (/\ Injected /\ Registered = {c}
         /\ \A o \in Objects : /\ o # Top.obj
                               /\ objects[o].type = objects[Top.obj].type
                               => objects[o].state # "building")
        => \A f \in PawnFields(objects[Top.obj].type) :
            LET o == objects[Top.obj].pawns[f.name] IN
            Matching(c, KeyOf(f), 1) # {} =>
                /\ o # Null
                /\ <<c, KeyOf(f)>> \notin recursed /\ ~Confusable(c, KeyOf(f))
                     => o \in instances[c][KeyOf(f)]

(* Every call into the containers ends, when constructors of types that need    *)
(* each other are guarded.                                                      *)
EveryCallEnds == ~Idle ~> Idle

===============================================================================

--------------------------- MODULE DiContainer_proofs ---------------------------
(* Injection, for every number of containers, names and types and at any depth   *)
(* of recursion. In three parts: the registry of containers, which construction   *)
(* and destruction alone touch; the calls in progress, with what they make and    *)
(* register; and what an injection has found when one container is registered.    *)
EXTENDS DiContainer, FiniteSetTheorems, SequenceTheorems, TLAPS

\* What the constructor and the destructor maintain.
RegistryTyped ==
    /\ names \in [Containers -> Names \cup {Unnamed}]
    /\ live \subseteq Containers
    /\ registered \in [Names -> Containers \cup {NoContainer}]

LiveAreNamed == \A c \in live : names[c] # Unnamed

EntriesAreLive ==
    \A n \in Names : registered[n] # NoContainer =>
        registered[n] \in live /\ names[registered[n]] = n

RegistryInv ==
    /\ RegistryTyped /\ LiveAreNamed /\ EntriesAreLive /\ UniqueNamesRegistered

registryVars == <<names, live, registered>>

-----------------------------------------------------------------------------
LEMMA RegistryInit == Init => RegistryInv
  BY DiAssumption DEF Init, RegistryInv, RegistryTyped, LiveAreNamed, EntriesAreLive,
     UniqueNamesRegistered

LEMMA RegistryStutters ==
  ASSUME RegistryInv, UNCHANGED registryVars
  PROVE  RegistryInv'
  BY DEF RegistryInv, RegistryTyped, LiveAreNamed, EntriesAreLive,
     UniqueNamesRegistered, registryVars

\* insert keeps an entry of that name; the new container was not alive before.
LEMMA ConstructKeeps ==
  ASSUME RegistryInv, NEW c \in Containers, NEW name \in Names, Construct(c, name)
  PROVE  RegistryInv'
<1> USE DiAssumption DEF RegistryInv
<1>1. /\ names[c] = Unnamed /\ c \notin live
      /\ live' = live \cup {c}
      /\ names' \in [Containers -> Names \cup {Unnamed}]
      /\ registered' \in [Names -> Containers \cup {NoContainer}]
      /\ names'[c] = name /\ \A d \in Containers \ {c} : names'[d] = names[d]
      /\ registered'[name] = IF registered[name] = NoContainer THEN c ELSE registered[name]
      /\ \A n \in Names \ {name} : registered'[n] = registered[n]
  BY DEF Construct, RegistryTyped, LiveAreNamed
<1>2. RegistryTyped'
  BY <1>1 DEF RegistryTyped
<1>3. LiveAreNamed'
  BY <1>1 DEF LiveAreNamed, RegistryTyped
<1>4. EntriesAreLive'
  <2> SUFFICES ASSUME NEW n \in Names, registered'[n] # NoContainer
               PROVE  registered'[n] \in live' /\ names'[registered'[n]] = n
    BY DEF EntriesAreLive
  <2>1. CASE n = name /\ registered[name] = NoContainer
    BY <2>1, <1>1
  <2>2. CASE ~(n = name /\ registered[name] = NoContainer)
    <3>1. registered'[n] = registered[n] /\ registered[n] # NoContainer
      BY <2>2, <1>1
    <3>2. registered[n] \in live /\ names[registered[n]] = n
      BY <3>1 DEF EntriesAreLive
    <3>3. registered[n] \in Containers \ {c}
      BY <3>2, <1>1 DEF RegistryTyped
    <3> QED BY <3>1, <3>2, <3>3, <1>1
  <2> QED BY <2>1, <2>2
<1>5. UniqueNamesRegistered'
  <2> SUFFICES ASSUME NEW d \in live', \A e \in Containers \ {d} : names'[e] # names'[d]
               PROVE  registered'[names'[d]] = d
    BY DEF UniqueNamesRegistered
  <2>1. CASE d = c
    <3>1. registered[name] = NoContainer
      <4> SUFFICES ASSUME registered[name] # NoContainer PROVE FALSE
        OBVIOUS
      <4>1. registered[name] \in live /\ names[registered[name]] = name
        BY DEF EntriesAreLive
      <4>2. registered[name] \in Containers \ {c}
        BY <4>1, <1>1 DEF RegistryTyped
      <4> QED BY <4>1, <4>2, <2>1, <1>1
    <3> QED BY <3>1, <2>1, <1>1
  <2>2. CASE d # c
    <3>1. d \in live /\ d \in Containers /\ names'[d] = names[d] /\ names[d] \in Names
      BY <2>2, <1>1 DEF RegistryTyped, LiveAreNamed
    <3>2. names[d] # name
      BY <3>1, <2>2, <1>1
    <3>3. \A e \in Containers \ {d} : names[e] # names[d]
      <4> SUFFICES ASSUME NEW e \in Containers \ {d} PROVE names[e] # names[d]
        OBVIOUS
      <4>1. CASE e = c
        BY <4>1, <1>1, <3>1
      <4>2. CASE e # c
        BY <4>2, <1>1, <3>1
      <4> QED BY <4>1, <4>2
    <3>4. registered[names[d]] = d
      BY <3>1, <3>3 DEF UniqueNamesRegistered
    <3> QED BY <3>1, <3>2, <3>4, <1>1
  <2> QED BY <2>1, <2>2
<1> QED BY <1>2, <1>3, <1>4, <1>5

\* The entry of the name goes, whose container ever it names.
LEMMA DestructKeeps ==
  ASSUME RegistryInv, NEW c \in Containers, Destruct(c)
  PROVE  RegistryInv'
<1> USE DiAssumption DEF RegistryInv
<1>1. /\ c \in live /\ live' = live \ {c} /\ names' = names
      /\ names[c] \in Names
      /\ registered' \in [Names -> Containers \cup {NoContainer}]
      /\ registered'[names[c]] = NoContainer
      /\ \A n \in Names \ {names[c]} : registered'[n] = registered[n]
  BY DEF Destruct, RegistryTyped, LiveAreNamed
<1>2. RegistryTyped' /\ LiveAreNamed'
  BY <1>1 DEF RegistryTyped, LiveAreNamed
<1>3. EntriesAreLive'
  BY <1>1 DEF EntriesAreLive, RegistryTyped
<1>4. UniqueNamesRegistered'
  <2> SUFFICES ASSUME NEW d \in live', \A e \in Containers \ {d} : names'[e] # names'[d]
               PROVE  registered'[names'[d]] = d
    BY DEF UniqueNamesRegistered
  <2>1. d \in live /\ d # c /\ names[c] # names[d] /\ names[d] \in Names
    BY <1>1 DEF RegistryTyped, LiveAreNamed
  <2>2. registered[names[d]] = d
    BY <2>1, <1>1 DEF UniqueNamesRegistered
  <2> QED BY <2>1, <2>2, <1>1
<1> QED BY <1>2, <1>3, <1>4

\* Bindings, calls and injections leave the registry alone.
LEMMA OthersStutter ==
  ASSUME Next,
         ~\E c \in Containers : Destruct(c) \/ \E n \in Names : Construct(c, n)
  PROVE  UNCHANGED registryVars
<1>1. CASE Continue
  BY <1>1 DEF Continue, SingletonGetOrAdd, NameletonGetOrAdd, NextField, Throw, InjectField,
     InjecteeReady, InstanceReady, registryVars
<1>2. CASE \E t \in Types : NewInjectee(t)
  BY <1>2 DEF NewInjectee, registryVars
<1>3. CASE \E o \in Objects : InjectDependencies(o)
  BY <1>3 DEF InjectDependencies, registryVars
<1>4. ASSUME NEW c \in Containers,
             BindSingleton(c) \/ BindNameleton(c)
      PROVE  UNCHANGED registryVars
  BY <1>4 DEF BindSingleton, BindNameleton, BindConcreteSingleton, BindAbstractSingleton,
     BindConcreteNameleton, BindAbstractNameleton, RegisterSignalPack, PushSignature,
     registryVars
<1>5. ASSUME NEW c \in Containers,
             \/ CreateBoundSingleton(c) \/ CreateBoundNameleton(c)
             \/ \E t \in Types : GetSingleton(c, t)
             \/ \E t \in Types, l \in Labels : GetNameleton(c, t, l)
      PROVE  UNCHANGED registryVars
  BY <1>5 DEF CreateBoundSingleton, CreateBoundNameleton, GetSingleton, GetNameleton,
     registryVars
<1> QED BY <1>1, <1>2, <1>3, <1>4, <1>5 DEF Next

LEMMA RegistryStep == RegistryInv /\ [Next]_vars => RegistryInv'
<1> SUFFICES ASSUME RegistryInv, [Next]_vars PROVE RegistryInv'
  OBVIOUS
<1>1. CASE UNCHANGED vars
  BY <1>1, RegistryStutters DEF vars, registryVars
<1>2. CASE \E c \in Containers : Destruct(c) \/ \E n \in Names : Construct(c, n)
  BY <1>2, ConstructKeeps, DestructKeeps
<1>3. CASE Next /\ ~\E c \in Containers : Destruct(c) \/ \E n \in Names : Construct(c, n)
  BY <1>3, OthersStutter, RegistryStutters
<1> QED BY <1>1, <1>2, <1>3

-----------------------------------------------------------------------------
LEMMA RegistryInvariance == Spec => []RegistryInv
  BY RegistryInit, RegistryStep, PTL DEF Spec

(* No injection ever reads a container that was destroyed, in whatever order      *)
(* containers of one name come and go.                                            *)
THEOREM InjectionReadsLive == Spec => []RegistryNamesLive
<1>1. RegistryInv => RegistryNamesLive
  BY DEF RegistryInv, EntriesAreLive, RegistryNamesLive, Registered
<1> QED BY <1>1, RegistryInvariance, PTL

(* A live container with a name of its own takes part in every injection.         *)
THEOREM NamesakesApart == Spec => []UniqueNamesRegistered
<1>1. RegistryInv => UniqueNamesRegistered
  BY DEF RegistryInv
<1> QED BY <1>1, RegistryInvariance, PTL

-----------------------------------------------------------------------------
(* Calls in progress. A step changes the innermost frames, one object and one    *)
(* entry: CallsOK is one condition on the frames, the objects and the live       *)
(* containers, whatever their values, and the lemmas say which frames may be     *)
(* pushed on it, popped, and left below an object that changes.                  *)

GetFrames ==
    [op: {"get"}, cont: Containers, key: Keys, at: Nat \ {0}, result: Nat]

InjectFrames ==
    [op: {"inject"}, obj: Nat, field: Field \cup {Null}, todo: SUBSET Field,
     conts: SUBSET Containers]

Frame == GetFrames \cup InjectFrames

ObjectRecords ==
    [type: Types, origin: {<<>>} \cup (Containers \X Keys),
     state: {"building", "built", "abandoned"}, pawns: [FieldNames -> Nat]]

\* What an entry, a pawn or a result may hold.
Complete(o, objs) == o = Null \/ (o \in 1..Len(objs) /\ objs[o].state = "built")

ObjectsOK(objs) ==
    /\ objs \in Seq(ObjectRecords)
    /\ \A o \in 1..Len(objs), n \in FieldNames : Complete(objs[o].pawns[n], objs)

EntriesOK(entries, objs) ==
    /\ entries \in [Containers -> [Keys -> SUBSET Nat]]
    /\ \A c \in Containers, key \in Keys :
        \A o \in entries[c][key] : o # Null /\ Complete(o, objs)
    /\ \A c \in Containers : IsFiniteSet({key \in Keys : entries[c][key] # {}})

\* A call by itself.
CallOK(f, objs, alive) ==
    /\ f.op = "get" => f.cont \in alive /\ Complete(f.result, objs)
    /\ f.op = "inject" =>
        /\ f.obj \in 1..Len(objs)
        /\ f.todo \subseteq PawnFields(objs[f.obj].type)
        /\ f.conts \subseteq alive
        /\ f.conts # {} => f.field \in PawnFields(objs[f.obj].type)

\* The call f was made by the call g: a field is injected by get_or_add, and
\* get_or_add makes an object of its key.
MadeBy(f, g, objs) ==
    /\ f.op = "get" => g.op = "inject" /\ g.field \in PawnFields(objs[g.obj].type)
    /\ f.op = "inject" =>
        /\ g.op = "get"
        /\ objs[f.obj].origin = <<g.cont, g.key>> /\ objs[f.obj].state = "building"

\* A client constructs or injects only what no container made.
MadeByClient(f, objs) ==
    f.op = "inject" =>
        objs[f.obj].origin = <<>> /\ objs[f.obj].state \in {"building", "built"}

CallsOK(s, objs, alive) ==
    /\ s \in Seq(Frame)
    /\ \A i \in 1..Len(s) : CallOK(s[i], objs, alive)
    /\ \A i \in 1..Len(s) : i < Len(s) => MadeBy(s[i], s[i+1], objs)
    /\ \A i \in 1..Len(s) : i = Len(s) => MadeByClient(s[i], objs)
    /\ \A i, j \in 1..Len(s) :
        i # j /\ s[i].op = "inject" /\ s[j].op = "inject" => s[i].obj # s[j].obj

\* The objects calls inject into. An object that is being built is one of them.
Running(s) == {s[i].obj : i \in {i \in 1..Len(s) : s[i].op = "inject"}}

BuildingRuns(s, objs) ==
    \A o \in 1..Len(objs) : objs[o].state = "building" => o \in Running(s)

BoundSignature == {s \in Signature : s.mapped => s.interface \in Types}

SignaturesOK == signatures \in [Containers -> Seq(BoundSignature)]

\* A container that made an object has had its name.
OriginsNamed ==
    \A o \in Objects, c \in Containers, key \in Keys :
        objects[o].origin = <<c, key>> => names[c] # Unnamed

\* As long as nothing recursed or got lost, an object is made for a key only
\* while it has no entry, and has it when it is built.
MadeOnce ==
    \A c \in live, key \in Keys :
        <<c, key>> \notin recursed /\ ~Confusable(c, key) =>
            \A o \in MadeFor(c, key) :
                /\ \A p \in MadeFor(c, key) : p = o
                /\ objects[o].state = "building" <=> instances[c][key] = {}

CallsInv ==
    /\ SignaturesOK
    /\ recursed \subseteq Containers \X Keys
    /\ ObjectsOK(objects)
    /\ EntriesOK(instances, objects)
    /\ CallsOK(stack, objects, live)
    /\ BuildingRuns(stack, objects)
    /\ OriginsNamed
    /\ MadeOnce

-----------------------------------------------------------------------------
(* Stacks as sequences: the innermost call comes first.                          *)

LEMMA PushFacts ==
  ASSUME NEW S, NEW s \in Seq(S), NEW f \in S
  PROVE  /\ <<f>> \o s \in Seq(S) /\ <<f>> \o s # <<>>
         /\ Len(s) \in Nat /\ Len(<<f>> \o s) = Len(s) + 1
         /\ (<<f>> \o s)[1] = f /\ Head(<<f>> \o s) = f /\ Tail(<<f>> \o s) = s
         /\ \A i \in 1..Len(s) : (<<f>> \o s)[i+1] = s[i]
<1> DEFINE r == <<f>> \o s
<1>1. Len(s) \in Nat
  OBVIOUS
<1>2. /\ r \in Seq(S) /\ r # <<>> /\ Len(r) = Len(s) + 1 /\ r[1] = f
      /\ \A i \in 1..Len(s) : r[i+1] = s[i]
  BY <1>1
<1> HIDE DEF r
<1>3. Head(r) = f
  BY <1>2
<1>4. Tail(r) \in Seq(S) /\ Len(Tail(r)) = Len(s) /\ \A i \in 1..Len(s) : Tail(r)[i] = r[i+1]
  BY <1>1, <1>2
<1>5. Tail(r) = s
  BY <1>1, <1>2, <1>4, SeqEqual
<1> QED BY <1>1, <1>2, <1>3, <1>5 DEF r

LEMMA PushTwice ==
  ASSUME NEW S, NEW s \in Seq(S), NEW f \in S, NEW g \in S
  PROVE  <<g>> \o <<f>> \o s = <<g>> \o (<<f>> \o s)
<1>1. /\ <<g>> \in Seq(S) /\ <<f>> \in Seq(S)
  OBVIOUS
<1> QED BY <1>1, ConcatAssociative

LEMMA PopFacts ==
  ASSUME NEW S, NEW s \in Seq(S), s # <<>>
  PROVE  /\ Len(s) \in Nat /\ Len(s) >= 1 /\ Head(s) = s[1] /\ Head(s) \in S
         /\ Tail(s) \in Seq(S) /\ Len(Tail(s)) = Len(s) - 1
         /\ \A i \in 1..(Len(s) - 1) : Tail(s)[i] = s[i+1]
         /\ Tail(s) # <<>> => Head(Tail(s)) = s[2] /\ Len(s) >= 2
<1>1. /\ Len(s) \in Nat /\ Len(s) >= 1 /\ Head(s) = s[1] /\ Head(s) \in S
      /\ Tail(s) \in Seq(S) /\ Len(Tail(s)) = Len(s) - 1
      /\ \A i \in 1..(Len(s) - 1) : Tail(s)[i] = s[i+1]
  OBVIOUS
<1>2. ASSUME Tail(s) # <<>> PROVE Head(Tail(s)) = s[2] /\ Len(s) >= 2
  <2>1. Len(Tail(s)) >= 1
    BY <1>1, <1>2
  <2>2. Head(Tail(s)) = Tail(s)[1] /\ 1 \in 1..(Len(s) - 1)
    BY <1>1, <2>1
  <2> QED BY <1>1, <2>1, <2>2
<1> QED BY <1>1, <1>2

-----------------------------------------------------------------------------
(* Frames and objects.                                                           *)

\* The fields of a call.
LEMMA FrameFields ==
  ASSUME NEW f \in Frame
  PROVE  /\ f.op \in {"get", "inject"}
         /\ f.op = "get" => /\ f \in GetFrames /\ f.cont \in Containers /\ f.key \in Keys
                            /\ f.at \in Nat \ {0} /\ f.result \in Nat
         /\ f.op = "inject" => /\ f \in InjectFrames /\ f.obj \in Nat
                               /\ f.field \in Field \cup {Null}
                               /\ f.todo \in SUBSET Field /\ f.conts \in SUBSET Containers
BY DEF Frame, GetFrames, InjectFrames

\* The calls that are made, and how they move on.
LEMMA FramesMade ==
  /\ \A c \in Containers, key \in Keys : GetFrame(c, key) \in GetFrames
  /\ \A o \in Nat, todo \in SUBSET Field : InjectFrame(o, todo) \in InjectFrames
  /\ \A f \in GetFrames, i \in Nat \ {0} :
        [f EXCEPT !.at = i] \in GetFrames
  /\ \A f \in GetFrames, i \in Nat \ {0}, o \in Nat :
        [f EXCEPT !.at = i, !.result = o] \in GetFrames
  /\ \A f \in InjectFrames, cs \in SUBSET Containers :
        [f EXCEPT !.conts = cs] \in InjectFrames
  /\ \A f \in InjectFrames, cs \in SUBSET Containers, d \in Field, ds \in SUBSET Field :
        [f EXCEPT !.field = d, !.todo = ds, !.conts = cs] \in InjectFrames
<1>1. /\ \A c \in Containers, key \in Keys : GetFrame(c, key) \in GetFrames
      /\ \A o \in Nat, todo \in SUBSET Field : InjectFrame(o, todo) \in InjectFrames
  BY DEF GetFrame, InjectFrame, GetFrames, InjectFrames, Null
<1>2. ASSUME NEW f \in GetFrames, NEW i \in Nat \ {0}
      PROVE  /\ [f EXCEPT !.at = i] \in GetFrames
             /\ \A o \in Nat : [f EXCEPT !.at = i, !.result = o] \in GetFrames
  BY DEF GetFrames
<1>3. ASSUME NEW f \in InjectFrames, NEW cs \in SUBSET Containers
      PROVE  /\ [f EXCEPT !.conts = cs] \in InjectFrames
             /\ \A d \in Field, ds \in SUBSET Field :
                    [f EXCEPT !.field = d, !.todo = ds, !.conts = cs] \in InjectFrames
  BY DEF InjectFrames
<1> QED BY <1>1, <1>2, <1>3

LEMMA SignatureFields ==
  ASSUME NEW s \in BoundSignature
  PROVE  /\ TypeToMap(s) \in Types /\ s.impl \in Types /\ s.label \in Labels \cup {NoLabel}
         /\ s \in Signature
BY DEF BoundSignature, Signature, SingletonSignature, NameletonSignature, TypeToMap

LEMMA ObjectFields ==
  ASSUME NEW r \in ObjectRecords
  PROVE  /\ r.type \in Types /\ r.origin \in {<<>>} \cup (Containers \X Keys)
         /\ r.state \in {"building", "built", "abandoned"} /\ r.pawns \in [FieldNames -> Nat]
BY DEF ObjectRecords

LEMMA PawnFieldsTyped ==
  ASSUME NEW t \in Types
  PROVE  PawnFields(t) \subseteq Field /\ PawnFields(t) \subseteq Fields[t]
BY DiAssumption DEF PawnFields

\* Objects that may be exchanged below the calls s.
Grows(s, objs, objs2) ==
    /\ Len(objs2) \in Nat /\ Len(objs) \in Nat /\ Len(objs) <= Len(objs2)
    /\ \A o \in 1..Len(objs) :
        /\ objs2[o].type = objs[o].type /\ objs2[o].origin = objs[o].origin
        /\ objs[o].state = "built" => objs2[o].state = "built"
        /\ (\E i \in 1..Len(s) : s[i].op = "inject" /\ s[i].obj = o)
              => objs2[o].state = objs[o].state

SameStates(objs, objs2) ==
    /\ Len(objs2) \in Nat /\ Len(objs2) = Len(objs)
    /\ \A o \in 1..Len(objs) :
        /\ objs2[o].type = objs[o].type /\ objs2[o].origin = objs[o].origin
        /\ objs2[o].state = objs[o].state

LEMMA SameGrows ==
  ASSUME NEW s, NEW objs, NEW objs2, SameStates(objs, objs2)
  PROVE  Grows(s, objs, objs2)
BY DEF SameStates, Grows

LEMMA CompleteKept ==
  ASSUME NEW s, NEW objs, NEW objs2, Grows(s, objs, objs2), NEW o, Complete(o, objs)
  PROVE  Complete(o, objs2)
<1>1. CASE o = Null
  BY <1>1 DEF Complete
<1>2. CASE o # Null
  <2>1. o \in 1..Len(objs) /\ objs[o].state = "built"
    BY <1>2 DEF Complete
  <2>2. o \in 1..Len(objs2)
    BY <2>1 DEF Grows
  <2> QED BY <2>1, <2>2 DEF Grows, Complete
<1> QED BY <1>1, <1>2

\* The pawn of one object is set.
SetPawn(objs, x, n, o) == [objs EXCEPT ![x].pawns[n] = o]

LEMMA PawnSet ==
  ASSUME NEW objs, ObjectsOK(objs), NEW x \in 1..Len(objs), NEW n \in FieldNames,
         NEW o \in Nat, Complete(o, objs),
         NEW objs2, objs2 = SetPawn(objs, x, n, o)
  PROVE  /\ ObjectsOK(objs2) /\ SameStates(objs, objs2)
         /\ objs2[x].pawns = [objs[x].pawns EXCEPT ![n] = o]
         /\ \A y \in 1..Len(objs) : y # x => objs2[y] = objs[y]
<1> DEFINE r == [objs[x] EXCEPT !.pawns[n] = o]
<1>1. /\ objs \in Seq(ObjectRecords) /\ Len(objs) \in Nat
      /\ \A y \in 1..Len(objs) : objs[y] \in ObjectRecords
  BY DEF ObjectsOK
<1>2. /\ r \in ObjectRecords /\ r.pawns = [objs[x].pawns EXCEPT ![n] = o]
      /\ r.type = objs[x].type /\ r.origin = objs[x].origin /\ r.state = objs[x].state
  BY <1>1 DEF ObjectRecords
<1>3. objs2 = [objs EXCEPT ![x] = r]
  BY DEF SetPawn
<1> HIDE DEF r
<1>4. /\ objs2 \in Seq(ObjectRecords) /\ Len(objs2) = Len(objs) /\ objs2[x] = r
      /\ \A y \in 1..Len(objs) : y # x => objs2[y] = objs[y]
  BY <1>1, <1>2, <1>3
<1>5. SameStates(objs, objs2)
  BY <1>1, <1>2, <1>4 DEF SameStates
<1>6. ASSUME NEW y \in 1..Len(objs), NEW m \in FieldNames
      PROVE  Complete(objs2[y].pawns[m], objs2)
  <2>1. Complete(objs[y].pawns[m], objs)
    BY DEF ObjectsOK
  <2>2. objs2[y].pawns[m] = objs[y].pawns[m] \/ objs2[y].pawns[m] = o
    <3>1. CASE y # x
      BY <3>1, <1>4
    <3>2. CASE y = x
      <4>1. DOMAIN objs[x].pawns = FieldNames
        BY <1>1, ObjectFields
      <4>2. objs2[y].pawns = [objs[x].pawns EXCEPT ![n] = o]
        BY <3>2, <1>2, <1>4
      <4> QED BY ONLY <4>1, <4>2, <3>2, m \in FieldNames
    <3> QED BY <3>1, <3>2
  <2>3. Complete(objs2[y].pawns[m], objs)
    BY <2>1, <2>2
  <2>4. Grows(<<>>, objs, objs2)
    BY <1>5, SameGrows
  <2> QED BY <2>3, <2>4, CompleteKept
<1> QED BY <1>2, <1>4, <1>5, <1>6 DEF ObjectsOK

\* A constructor begins.
NewObject(t, origin) ==
    [type |-> t, origin |-> origin, state |-> "building", pawns |-> [n \in FieldNames |-> Null]]

LEMMA ObjectAdded ==
  ASSUME NEW objs, ObjectsOK(objs), NEW t \in Types,
         NEW origin \in {<<>>} \cup (Containers \X Keys),
         NEW objs2 \in {Append(objs, NewObject(t, origin))}, NEW s \in Seq(Frame),
         \A i \in 1..Len(s) : s[i].op = "inject" => s[i].obj \in 1..Len(objs)
  PROVE  /\ ObjectsOK(objs2) /\ Grows(s, objs, objs2)
         /\ Len(objs) \in Nat /\ Len(objs2) = Len(objs) + 1
         /\ objs2[Len(objs) + 1] = NewObject(t, origin)
         /\ \A o \in 1..Len(objs) : objs2[o] = objs[o]
<1> DEFINE r == NewObject(t, origin)
<1>1. r \in ObjectRecords /\ \A n \in FieldNames : r.pawns[n] = Null
  BY DEF NewObject, ObjectRecords, Null
<1>2. objs \in Seq(ObjectRecords) /\ Len(objs) \in Nat
  BY DEF ObjectsOK
<1> HIDE DEF r
<1>3. /\ objs2 \in Seq(ObjectRecords) /\ Len(objs2) = Len(objs) + 1
      /\ objs2[Len(objs) + 1] = r
      /\ \A o \in 1..Len(objs) : objs2[o] = objs[o]
  <2>1. objs2 = Append(objs, r)
    BY DEF r
  <2> QED BY <2>1, <1>1, <1>2
<1>4. Grows(s, objs, objs2)
  <2>1. /\ Len(objs2) \in Nat /\ Len(objs) <= Len(objs2)
    BY <1>2, <1>3
  <2> QED BY <2>1, <1>2, <1>3 DEF Grows
<1>5. ASSUME NEW o \in 1..Len(objs2), NEW n \in FieldNames
      PROVE  Complete(objs2[o].pawns[n], objs2)
  <2>1. CASE o \in 1..Len(objs)
    <3>1. Complete(objs2[o].pawns[n], objs)
      BY <2>1, <1>3 DEF ObjectsOK
    <3> QED BY <3>1, <1>4, CompleteKept
  <2>2. CASE o = Len(objs) + 1
    BY <2>2, <1>1, <1>3 DEF Complete
  <2>3. o \in 1..Len(objs) \/ o = Len(objs) + 1
    BY <1>2, <1>3
  <2> QED BY <2>1, <2>2, <2>3
<1> QED BY <1>2, <1>3, <1>4, <1>5 DEF ObjectsOK, r

\* A constructor ends.
SetBuilt(objs, x) == [objs EXCEPT ![x].state = "built"]

LEMMA ObjectBuilt ==
  ASSUME NEW objs, ObjectsOK(objs), NEW x \in 1..Len(objs),
         NEW objs2, objs2 = SetBuilt(objs, x),
         NEW s, x \notin Running(s)
  PROVE  /\ ObjectsOK(objs2) /\ Grows(s, objs, objs2)
         /\ Len(objs) \in Nat /\ Len(objs2) = Len(objs)
         /\ objs2[x].state = "built" /\ objs2[x].type = objs[x].type
         /\ objs2[x].origin = objs[x].origin /\ objs2[x].pawns = objs[x].pawns
         /\ \A y \in 1..Len(objs) : y # x => objs2[y] = objs[y]
<1> DEFINE r == [objs[x] EXCEPT !.state = "built"]
<1>1. /\ objs \in Seq(ObjectRecords) /\ Len(objs) \in Nat
      /\ \A y \in 1..Len(objs) : objs[y] \in ObjectRecords
  BY DEF ObjectsOK
<1>2. /\ r \in ObjectRecords /\ r.state = "built" /\ r.type = objs[x].type
      /\ r.origin = objs[x].origin /\ r.pawns = objs[x].pawns
  BY <1>1 DEF ObjectRecords
<1>3. objs2 = [objs EXCEPT ![x] = r]
  BY DEF SetBuilt
<1> HIDE DEF r
<1>4. /\ objs2 \in Seq(ObjectRecords) /\ Len(objs2) = Len(objs) /\ objs2[x] = r
      /\ \A y \in 1..Len(objs) : y # x => objs2[y] = objs[y]
  BY <1>1, <1>2, <1>3
<1>5. Grows(s, objs, objs2)
  <2>1. \A i \in 1..Len(s) : s[i].op = "inject" => s[i].obj # x
    BY DEF Running
  <2> QED BY <2>1, <1>1, <1>2, <1>4 DEF Grows
<1>6. ASSUME NEW y \in 1..Len(objs), NEW m \in FieldNames
      PROVE  Complete(objs2[y].pawns[m], objs2)
  <2>1. Complete(objs[y].pawns[m], objs)
    BY DEF ObjectsOK
  <2>2. objs2[y].pawns = objs[y].pawns
    BY <1>2, <1>4
  <2> QED BY <2>1, <2>2, <1>5, CompleteKept
<1> QED BY <1>1, <1>2, <1>4, <1>5, <1>6 DEF ObjectsOK, r

\* An exception: the constructors that run lose their objects.
Abandoned(objs) ==
    [o \in 1..Len(objs) |-> IF objs[o].state = "building"
                            THEN [objs[o] EXCEPT !.state = "abandoned"] ELSE objs[o]]

LEMMA ObjectsAbandoned ==
  ASSUME NEW objs, ObjectsOK(objs), NEW objs2, objs2 = Abandoned(objs)
  PROVE  /\ ObjectsOK(objs2) /\ Grows(<<>>, objs, objs2)
         /\ Len(objs) \in Nat /\ Len(objs2) = Len(objs)
         /\ \A o \in 1..Len(objs) :
                objs2[o].state = IF objs[o].state = "building" THEN "abandoned" ELSE objs[o].state
<1>1. /\ objs \in Seq(ObjectRecords) /\ Len(objs) \in Nat
      /\ \A y \in 1..Len(objs) : objs[y] \in ObjectRecords
  BY DEF ObjectsOK
<1>2. ASSUME NEW o \in 1..Len(objs)
      PROVE  /\ objs2[o] \in ObjectRecords /\ objs2[o].type = objs[o].type
             /\ objs2[o].origin = objs[o].origin /\ objs2[o].pawns = objs[o].pawns
             /\ objs2[o].state = IF objs[o].state = "building" THEN "abandoned"
                                 ELSE objs[o].state
  <2>1. objs2[o] = IF objs[o].state = "building"
                   THEN [objs[o] EXCEPT !.state = "abandoned"] ELSE objs[o]
    BY DEF Abandoned
  <2> QED BY <2>1, <1>1 DEF ObjectRecords
<1>3. objs2 \in Seq(ObjectRecords) /\ Len(objs2) = Len(objs)
  <2>1. objs2 = [o \in 1..Len(objs) |-> objs2[o]]
    BY DEF Abandoned
  <2> QED BY <2>1, <1>1, <1>2
<1>4. Grows(<<>>, objs, objs2)
  <2>1. Len(<<>>) = 0
    OBVIOUS
  <2>2. ASSUME NEW i \in 1..0 PROVE FALSE
    OBVIOUS
  <2> QED BY <2>1, <2>2, <1>1, <1>2, <1>3 DEF Grows
<1>5. ASSUME NEW y \in 1..Len(objs), NEW m \in FieldNames
      PROVE  Complete(objs2[y].pawns[m], objs2)
  <2>1. Complete(objs[y].pawns[m], objs)
    BY DEF ObjectsOK
  <2> QED BY <2>1, <1>2, <1>4, CompleteKept
<1> QED BY <1>1, <1>2, <1>3, <1>4, <1>5 DEF ObjectsOK

-----------------------------------------------------------------------------
(* How the calls change.                                                         *)

LEMMA CallsKept ==
  ASSUME NEW s, NEW objs, NEW alive, CallsOK(s, objs, alive),
         NEW objs2, Grows(s, objs, objs2)
  PROVE  CallsOK(s, objs2, alive)
<1> USE DEF CallsOK
<1>1. s \in Seq(Frame) /\ \A i \in 1..Len(s) : s[i] \in Frame
  OBVIOUS
<1>2. ASSUME NEW i \in 1..Len(s), s[i].op = "inject"
      PROVE  /\ s[i].obj \in 1..Len(objs) /\ s[i].obj \in 1..Len(objs2)
             /\ objs2[s[i].obj].type = objs[s[i].obj].type
             /\ objs2[s[i].obj].origin = objs[s[i].obj].origin
             /\ objs2[s[i].obj].state = objs[s[i].obj].state
  <2>1. s[i].obj \in 1..Len(objs)
    BY <1>2 DEF CallOK
  <2>2. s[i].obj \in 1..Len(objs2)
    BY <2>1 DEF Grows
  <2> QED BY <1>2, <2>1, <2>2 DEF Grows
<1>3. ASSUME NEW i \in 1..Len(s) PROVE CallOK(s[i], objs2, alive)
  <2>1. CallOK(s[i], objs, alive)
    OBVIOUS
  <2>2. Complete(s[i].result, objs) => Complete(s[i].result, objs2)
    BY CompleteKept
  <2> QED BY <2>1, <2>2, <1>2 DEF CallOK
<1>4. ASSUME NEW i \in 1..Len(s), i < Len(s) PROVE MadeBy(s[i], s[i+1], objs2)
  <2>1. MadeBy(s[i], s[i+1], objs) /\ i + 1 \in 1..Len(s)
    BY <1>1, <1>4
  <2> QED BY <2>1, <1>2 DEF MadeBy
<1>5. ASSUME NEW i \in 1..Len(s), i = Len(s) PROVE MadeByClient(s[i], objs2)
  BY <1>2, <1>5 DEF MadeByClient
<1> QED BY <1>1, <1>3, <1>4, <1>5

LEMMA CallsPop ==
  ASSUME NEW s, NEW objs, NEW alive, CallsOK(s, objs, alive), s # <<>>
  PROVE  CallsOK(Tail(s), objs, alive)
<1> DEFINE r == Tail(s)
           n == Len(s)
<1>1. /\ n \in Nat /\ n >= 1 /\ r \in Seq(Frame) /\ Len(r) = n - 1
      /\ \A i \in 1..(n - 1) : r[i] = s[i+1]
  BY PopFacts DEF CallsOK
<1>2. \A i \in 1..(n - 1) : i + 1 \in 1..n
  BY <1>1
<1> HIDE DEF r, n
<1>3. ASSUME NEW i \in 1..(n - 1) PROVE CallOK(r[i], objs, alive)
  BY <1>1, <1>2 DEF CallsOK, n
<1>4. ASSUME NEW i \in 1..(n - 1), i < n - 1 PROVE MadeBy(r[i], r[i+1], objs)
  <2>1. i + 1 \in 1..(n - 1) /\ i + 1 < n
    BY <1>1, <1>4
  <2>2. MadeBy(s[i+1], s[(i+1)+1], objs)
    BY <2>1, <1>2 DEF CallsOK, n
  <2> QED BY <2>1, <2>2, <1>1
<1>5. ASSUME NEW i \in 1..(n - 1), i = n - 1 PROVE MadeByClient(r[i], objs)
  <2>1. i + 1 = n
    BY <1>1, <1>5
  <2> QED BY <2>1, <1>1, <1>2 DEF CallsOK, n
<1>6. ASSUME NEW i \in 1..(n - 1), NEW j \in 1..(n - 1), i # j,
             r[i].op = "inject", r[j].op = "inject"
      PROVE  r[i].obj # r[j].obj
  <2>1. i + 1 \in 1..n /\ j + 1 \in 1..n /\ i + 1 # j + 1
    BY <1>1, <1>6
  <2> QED BY <2>1, <1>1, <1>6 DEF CallsOK, n
<1> QED BY <1>1, <1>3, <1>4, <1>5, <1>6 DEF CallsOK, r

LEMMA CallsPush ==
  ASSUME NEW s, NEW objs, NEW alive, CallsOK(s, objs, alive),
         NEW f \in Frame, CallOK(f, objs, alive),
         s = <<>> => MadeByClient(f, objs),
         s # <<>> => MadeBy(f, Head(s), objs),
         f.op = "inject" => \A i \in 1..Len(s) : s[i].op = "inject" => s[i].obj # f.obj
  PROVE  CallsOK(<<f>> \o s, objs, alive)
<1> DEFINE r == <<f>> \o s
           n == Len(s)
<1>0. s \in Seq(Frame)
  BY DEF CallsOK
<1>1. /\ n \in Nat /\ r \in Seq(Frame) /\ Len(r) = n + 1 /\ r[1] = f
      /\ \A i \in 1..n : r[i+1] = s[i]
  BY <1>0, PushFacts
<1>2. n = 0 <=> s = <<>>
  BY <1>0
<1>3. n # 0 => Head(s) = s[1] /\ 1 \in 1..n
  BY <1>0
<1>4. ASSUME NEW i \in 1..(n + 1) PROVE i = 1 \/ \E k \in 1..n : i = k + 1
  <2>1. CASE i # 1
    <3>1. i - 1 \in 1..n /\ i = (i - 1) + 1
      BY <1>1, <2>1
    <3> QED BY <3>1
  <2> QED BY <2>1
<1> HIDE DEF r, n
<1>5. ASSUME NEW i \in 1..(n + 1) PROVE CallOK(r[i], objs, alive)
  BY <1>1, <1>4 DEF CallsOK, n
<1>6. ASSUME NEW i \in 1..(n + 1), i < n + 1 PROVE MadeBy(r[i], r[i+1], objs)
  <2>1. CASE i = 1
    <3>1. n # 0
      BY <1>1, <1>6, <2>1
    <3>2. r[i+1] = s[1] /\ Head(s) = s[1] /\ s # <<>>
      BY <3>1, <2>1, <1>1, <1>2, <1>3
    <3> QED BY <3>2, <2>1, <1>1
  <2>2. ASSUME NEW k \in 1..n, i = k + 1 PROVE MadeBy(r[i], r[i+1], objs)
    <3>1. k < n /\ k + 1 \in 1..n
      BY <1>1, <1>6, <2>2
    <3>2. MadeBy(s[k], s[k+1], objs)
      BY <3>1 DEF CallsOK, n
    <3> QED BY <3>1, <3>2, <2>2, <1>1
  <2> QED BY <2>1, <2>2, <1>4
<1>7. ASSUME NEW i \in 1..(n + 1), i = n + 1 PROVE MadeByClient(r[i], objs)
  <2>1. CASE n = 0
    BY <2>1, <1>1, <1>2, <1>7
  <2>2. CASE n # 0
    <3>1. n \in 1..n
      BY <2>2, <1>1
    <3>2. MadeByClient(s[n], objs)
      BY <3>1 DEF CallsOK, n
    <3> QED BY <3>1, <3>2, <1>1, <1>7
  <2> QED BY <2>1, <2>2
<1>8. ASSUME NEW i \in 1..(n + 1), NEW j \in 1..(n + 1), i # j,
             r[i].op = "inject", r[j].op = "inject"
      PROVE  r[i].obj # r[j].obj
  <2>1. CASE i = 1
    <3>1. PICK k \in 1..n : j = k + 1
      BY <2>1, <1>4, <1>8
    <3> QED BY <3>1, <2>1, <1>1, <1>8 DEF n
  <2>2. CASE j = 1
    <3>1. PICK k \in 1..n : i = k + 1
      BY <2>2, <1>4, <1>8
    <3> QED BY <3>1, <2>2, <1>1, <1>8 DEF n
  <2>3. CASE i # 1 /\ j # 1
    <3>1. PICK k \in 1..n : i = k + 1
      BY <2>3, <1>4
    <3>2. PICK l \in 1..n : j = l + 1
      BY <2>3, <1>4
    <3>3. k # l /\ r[i] = s[k] /\ r[j] = s[l]
      BY <3>1, <3>2, <1>1, <1>8
    <3> QED BY <3>3, <1>8 DEF CallsOK, n
  <2> QED BY <2>1, <2>2, <2>3
<1> QED BY <1>1, <1>5, <1>6, <1>7, <1>8 DEF CallsOK, r

LEMMA CallsNone ==
  ASSUME NEW objs, NEW alive
  PROVE  CallsOK(<<>>, objs, alive) /\ Running(<<>>) = {}
<1>1. <<>> \in Seq(Frame) /\ Len(<<>>) = 0 /\ \A i \in 1..0 : FALSE
  OBVIOUS
<1> QED BY <1>1 DEF CallsOK, Running

LEMMA RunningPop ==
  ASSUME NEW s \in Seq(Frame), s # <<>>
  PROVE  Running(s) = Running(Tail(s)) \cup (IF Head(s).op = "inject" THEN {Head(s).obj} ELSE {})
<1> DEFINE r == Tail(s)
           n == Len(s)
<1>1. /\ n \in Nat /\ n >= 1 /\ Len(r) = n - 1 /\ Head(s) = s[1]
      /\ \A i \in 1..(n - 1) : r[i] = s[i+1]
  BY PopFacts
<1> HIDE DEF r, n
<1>2. ASSUME NEW o \in Running(s)
      PROVE  o \in Running(r) \/ (s[1].op = "inject" /\ o = s[1].obj)
  <2>1. PICK i \in 1..n : s[i].op = "inject" /\ s[i].obj = o
    BY DEF Running, n
  <2>2. CASE i # 1
    <3>1. i - 1 \in 1..(n - 1) /\ r[i-1] = s[i]
      <4>1. i - 1 \in 1..(n - 1) /\ (i - 1) + 1 = i
        BY <1>1, <2>2
      <4> QED BY <4>1, <1>1
    <3> QED BY <3>1, <2>1, <1>1 DEF Running
  <2> QED BY <2>1, <2>2
<1>3. ASSUME NEW o \in Running(r) PROVE o \in Running(s)
  <2>1. PICK i \in 1..(n - 1) : r[i].op = "inject" /\ r[i].obj = o
    BY <1>1 DEF Running
  <2>2. i + 1 \in 1..n /\ s[i+1] = r[i]
    BY <1>1
  <2> QED BY <2>1, <2>2 DEF Running, n
<1>4. s[1].op = "inject" => s[1].obj \in Running(s)
  <2>1. 1 \in 1..n
    BY <1>1
  <2> QED BY <2>1 DEF Running, n
<1>5. Running(s) = Running(r) \cup (IF s[1].op = "inject" THEN {s[1].obj} ELSE {})
  BY <1>2, <1>3, <1>4
<1> QED BY <1>1, <1>5 DEF r

LEMMA RunningPush ==
  ASSUME NEW s \in Seq(Frame), NEW f \in Frame
  PROVE  Running(<<f>> \o s) = Running(s) \cup (IF f.op = "inject" THEN {f.obj} ELSE {})
<1> DEFINE r == <<f>> \o s
<1>1. r \in Seq(Frame) /\ r # <<>> /\ Head(r) = f /\ Tail(r) = s
  BY PushFacts
<1> HIDE DEF r
<1>2. Running(r) = Running(s) \cup (IF f.op = "inject" THEN {f.obj} ELSE {})
  BY <1>1, RunningPop
<1> QED BY <1>2 DEF r

LEMMA RunningPushed ==
  ASSUME NEW s, NEW objs, NEW alive, CallsOK(s, objs, alive)
  PROVE  /\ s \in Seq(Frame)
         /\ Running(s) \subseteq 1..Len(objs)
         /\ \A i \in 1..Len(s) : s[i].op = "inject" => s[i].obj \in Running(s)
BY DEF CallsOK, Running, CallOK

-----------------------------------------------------------------------------
(* The innermost calls.                                                          *)

\* A call f on top of the calls s.
LEMMA CallBelow ==
  ASSUME NEW s, NEW objs, NEW alive, CallsOK(s, objs, alive), s # <<>>
  PROVE  /\ Head(s) \in Frame /\ CallOK(Head(s), objs, alive)
         /\ Tail(s) \in Seq(Frame) /\ CallsOK(Tail(s), objs, alive)
         /\ Tail(s) = <<>> => MadeByClient(Head(s), objs)
         /\ Tail(s) # <<>> => MadeBy(Head(s), Head(Tail(s)), objs)
         /\ Head(s).op = "inject" => Head(s).obj \notin Running(Tail(s))
<1> DEFINE r == Tail(s)
           n == Len(s)
<1>1. /\ s \in Seq(Frame) /\ n \in Nat /\ n >= 1 /\ r \in Seq(Frame) /\ Len(r) = n - 1
      /\ Head(s) = s[1] /\ Head(s) \in Frame
      /\ \A i \in 1..(n - 1) : r[i] = s[i+1]
      /\ r # <<>> => Head(r) = s[2] /\ n >= 2
  BY PopFacts DEF CallsOK
<1>2. r = <<>> => n = 1
  <2>1. ASSUME r = <<>> PROVE n - 1 = 0
    <3>1. Len(<<>>) = 0
      OBVIOUS
    <3>2. Len(r) = Len(<<>>)
      BY <2>1
    <3> QED BY <3>1, <3>2, <1>1
  <2> QED BY <2>1, <1>1
<1>3. CallsOK(r, objs, alive)
  BY CallsPop
<1>4. 1 \in 1..n
  BY <1>1
<1> HIDE DEF r, n
<1>5. CallOK(s[1], objs, alive)
  BY <1>4 DEF CallsOK, n
<1>6. r = <<>> => MadeByClient(s[1], objs)
  BY <1>2, <1>4 DEF CallsOK, n
<1>7. r # <<>> => MadeBy(s[1], Head(r), objs)
  <2>1. r # <<>> => 1 < n /\ MadeBy(s[1], s[1+1], objs)
    BY <1>1, <1>4 DEF CallsOK, n
  <2> QED BY <2>1, <1>1
<1>8. ASSUME s[1].op = "inject", s[1].obj \in Running(r) PROVE FALSE
  <2>1. PICK i \in 1..(n - 1) : r[i].op = "inject" /\ r[i].obj = s[1].obj
    BY <1>1, <1>8 DEF Running
  <2>2. i + 1 \in 1..n /\ i + 1 # 1 /\ s[i+1] = r[i]
    BY <1>1
  <2> QED BY <2>1, <2>2, <1>4, <1>8 DEF CallsOK, n
<1> QED BY <1>1, <1>3, <1>5, <1>6, <1>7, <1>8 DEF r

\* get_or_add runs: what is below it is an injection that waits for a field.
LEMMA ServingFacts ==
  ASSUME CallsOK(stack, objects, live), ObjectsOK(objects), Serving
  PROVE  /\ Top \in GetFrames /\ Top \in Frame /\ Top.cont \in live /\ Top.cont \in Containers
         /\ Top.key \in Keys /\ Top.at \in Nat \ {0} /\ Top.result \in Nat
         /\ Complete(Top.result, objects)
         /\ Below \in Seq(Frame) /\ CallsOK(Below, objects, live)
         /\ Running(stack) = Running(Below)
         /\ Below # <<>> =>
              /\ Head(Below) \in InjectFrames /\ Head(Below).op = "inject"
              /\ Head(Below).obj \in Objects
              /\ Head(Below).field \in PawnFields(objects[Head(Below).obj].type)
              /\ Head(Below).field \in Field /\ Head(Below).field.name \in FieldNames
<1>1. /\ stack # <<>> /\ Top.op = "get" /\ Top \in Frame /\ CallOK(Top, objects, live)
      /\ Below \in Seq(Frame) /\ CallsOK(Below, objects, live)
      /\ Below # <<>> => MadeBy(Top, Head(Below), objects)
  BY CallBelow DEF Serving, Idle, Top, Below
<1>2. Running(stack) = Running(Below)
  BY <1>1, RunningPop DEF CallsOK, Top, Below
<1>3. ASSUME Below # <<>>
      PROVE  /\ Head(Below) \in InjectFrames /\ Head(Below).op = "inject"
             /\ Head(Below).obj \in Objects
             /\ Head(Below).field \in PawnFields(objects[Head(Below).obj].type)
             /\ Head(Below).field \in Field /\ Head(Below).field.name \in FieldNames
  <2>1. /\ Head(Below).op = "inject" /\ Head(Below) \in Frame
        /\ CallOK(Head(Below), objects, live)
        /\ Head(Below).field \in PawnFields(objects[Head(Below).obj].type)
    BY <1>1, <1>3, CallBelow DEF MadeBy
  <2>2. Head(Below) \in InjectFrames /\ Head(Below).obj \in Objects
    BY <2>1, FrameFields DEF CallOK, Objects
  <2>3. objects[Head(Below).obj].type \in Types
    BY <2>2, ObjectFields DEF ObjectsOK, Objects
  <2>4. Head(Below).field \in Field
    BY <2>1, <2>3, PawnFieldsTyped
  <2>5. Head(Below).field.name \in FieldNames
    BY <2>4 DEF Field
  <2> QED BY <2>1, <2>2, <2>4, <2>5
<1>4. Top \in GetFrames /\ Top.cont \in Containers /\ Top.key \in Keys /\ Top.at \in Nat \ {0}
      /\ Top.result \in Nat
  BY <1>1, FrameFields
<1> QED BY <1>1, <1>2, <1>3, <1>4 DEF CallOK

\* An injection runs: a client asked for it, or a creator of the key of its object.
LEMMA InjectingFacts ==
  ASSUME CallsOK(stack, objects, live), ObjectsOK(objects), Injecting
  PROVE  /\ Top \in InjectFrames /\ Top \in Frame /\ Top.obj \in Objects
         /\ objects[Top.obj].type \in Types
         /\ Top.todo \subseteq PawnFields(objects[Top.obj].type)
         /\ PawnFields(objects[Top.obj].type) \subseteq Field
         /\ Top.conts \subseteq live
         /\ Top.conts # {} => Top.field \in PawnFields(objects[Top.obj].type)
         /\ Below \in Seq(Frame) /\ CallsOK(Below, objects, live)
         /\ Running(stack) = Running(Below) \cup {Top.obj} /\ Top.obj \notin Running(Below)
         /\ Below = <<>> => objects[Top.obj].origin = <<>>
         /\ Below # <<>> =>
              /\ Head(Below) \in GetFrames /\ Head(Below).op = "get"
              /\ Head(Below).cont \in live
              /\ objects[Top.obj].origin = <<Head(Below).cont, Head(Below).key>>
              /\ objects[Top.obj].state = "building"
<1>1. /\ stack # <<>> /\ Top.op = "inject" /\ Top \in Frame /\ CallOK(Top, objects, live)
      /\ Below \in Seq(Frame) /\ CallsOK(Below, objects, live)
      /\ Below # <<>> => MadeBy(Top, Head(Below), objects)
      /\ Below = <<>> => MadeByClient(Top, objects)
      /\ Top.obj \notin Running(Below)
  BY CallBelow DEF Injecting, Idle, Top, Below
<1>2. Running(stack) = Running(Below) \cup {Top.obj}
  BY <1>1, RunningPop DEF CallsOK, Top, Below
<1>3. ASSUME Below # <<>>
      PROVE  /\ Head(Below) \in GetFrames /\ Head(Below).op = "get"
             /\ Head(Below).cont \in live
             /\ objects[Top.obj].origin = <<Head(Below).cont, Head(Below).key>>
             /\ objects[Top.obj].state = "building"
  <2>1. /\ Head(Below).op = "get" /\ Head(Below) \in Frame /\ CallOK(Head(Below), objects, live)
        /\ objects[Top.obj].origin = <<Head(Below).cont, Head(Below).key>>
        /\ objects[Top.obj].state = "building"
    BY <1>1, <1>3, CallBelow DEF MadeBy
  <2> QED BY <2>1, FrameFields DEF CallOK
<1>4. Top \in InjectFrames
  BY <1>1, FrameFields
<1>5. Top.obj \in Objects /\ objects[Top.obj].type \in Types
  BY <1>1, ObjectFields DEF ObjectsOK, Objects, CallOK
<1>6. PawnFields(objects[Top.obj].type) \subseteq Field
  BY <1>5, PawnFieldsTyped
<1> QED BY <1>1, <1>2, <1>3, <1>4, <1>5, <1>6 DEF CallOK, MadeByClient

-----------------------------------------------------------------------------
(* Steps that make no entry and no object of a container.                        *)

LEMMA EntriesKept ==
  ASSUME NEW entries, NEW s, NEW objs, NEW objs2,
         EntriesOK(entries, objs), Grows(s, objs, objs2)
  PROVE  EntriesOK(entries, objs2)
BY CompleteKept DEF EntriesOK

LEMMA QuietKeeps ==
  ASSUME RegistryInv, CallsInv, UNCHANGED <<signatures, instances, recursed>>,
         live' = live, names' = names,
         NEW s, Grows(s, objects, objects'), ObjectsOK(objects'),
         \A o \in 1..Len(objects') : o \notin Objects => objects'[o].origin = <<>>,
         \A o \in Objects : \/ objects'[o].state \in {objects[o].state, "abandoned"}
                            \/ objects[o].origin = <<>>,
         CallsOK(stack', objects', live), BuildingRuns(stack', objects')
  PROVE  CallsInv'
<1>1. SignaturesOK' /\ (recursed \subseteq Containers \X Keys)'
  BY DEF CallsInv, SignaturesOK
<1>2. EntriesOK(instances, objects')
  BY EntriesKept DEF CallsInv
<1>3. EntriesOK(instances', objects')
  BY <1>2
<1>4. ASSUME NEW o \in 1..Len(objects'), NEW c \in Containers, NEW key \in Keys,
             objects'[o].origin = <<c, key>>
      PROVE  /\ o \in Objects /\ objects[o].origin = <<c, key>>
             /\ objects'[o].state \in {objects[o].state, "abandoned"}
  <2>1. <<c, key>> # <<>>
    OBVIOUS
  <2>2. o \in Objects
    BY <1>4, <2>1
  <2>3. objects'[o].origin = objects[o].origin
    BY <2>2 DEF Grows, Objects
  <2> QED BY <1>4, <2>1, <2>2, <2>3
<1>5. OriginsNamed'
  <2> SUFFICES ASSUME NEW o \in 1..Len(objects'), NEW c \in Containers, NEW key \in Keys,
                      objects'[o].origin = <<c, key>>
               PROVE  names[c] # Unnamed
    BY DEF OriginsNamed, Objects
  <2> QED BY <1>4 DEF CallsInv, OriginsNamed
<1>6. MadeOnce'
  <2> SUFFICES ASSUME NEW c \in live, NEW key \in Keys,
                      <<c, key>> \notin recursed, ~Confusable(c, key)',
                      NEW o \in MadeFor(c, key)'
               PROVE  /\ \A p \in MadeFor(c, key)' : p = o
                      /\ objects'[o].state = "building" <=> instances[c][key] = {}
    BY DEF MadeOnce
  <2>1. ~Confusable(c, key) /\ c \in Containers
    BY DEF Confusable, RegistryInv, RegistryTyped
  <2>2. \A p \in MadeFor(c, key)' : p \in MadeFor(c, key) /\ objects'[p].state = objects[p].state
    BY <1>4, <2>1 DEF MadeFor, Objects
  <2>3. /\ \A p \in MadeFor(c, key) : p = o
        /\ objects[o].state = "building" <=> instances[c][key] = {}
    BY <2>1, <2>2 DEF CallsInv, MadeOnce
  <2> QED BY <2>2, <2>3
<1> QED BY <1>1, <1>3, <1>5, <1>6 DEF CallsInv

\* Calls alone.
LEMMA FramesKeep ==
  ASSUME RegistryInv, CallsInv,
         UNCHANGED <<names, live, signatures, instances, objects, recursed>>,
         CallsOK(stack', objects, live), Running(stack) \subseteq Running(stack')
  PROVE  CallsInv'
<1>1. ObjectsOK(objects) /\ Len(objects) \in Nat
  BY DEF CallsInv, ObjectsOK
<1>2. SameStates(objects, objects')
  BY <1>1 DEF SameStates
<1>3. Grows(<<>>, objects, objects')
  BY <1>2, SameGrows
<1>4. ObjectsOK(objects') /\ CallsOK(stack', objects', live)
  BY <1>1
<1>5. BuildingRuns(stack', objects')
  BY DEF BuildingRuns, CallsInv
<1>6. \A o \in 1..Len(objects') : o \notin Objects => objects'[o].origin = <<>>
  BY DEF Objects
<1> QED BY <1>3, <1>4, <1>5, <1>6, QuietKeeps

LEMMA BindKeeps ==
  ASSUME RegistryInv, CallsInv, NEW c \in Containers, BindSingleton(c) \/ BindNameleton(c)
  PROVE  CallsInv'
<1>1. PICK s : PushSignature(c, s) /\ (s.mapped => s.interface \in Types)
  <2>1. ASSUME NEW i \in Types, NEW t \in Types, NEW l
        PROVE  /\ ~[mapped |-> FALSE, interface |-> NullType, impl |-> t, label |-> l].mapped
               /\ [mapped |-> TRUE, interface |-> i, impl |-> t, label |-> l].interface \in Types
    OBVIOUS
  <2>2. CASE BindSingleton(c)
    BY <2>1, <2>2 DEF BindSingleton, BindConcreteSingleton, BindAbstractSingleton,
       RegisterSignalPack
  <2>3. CASE BindNameleton(c)
    BY <2>1, <2>3 DEF BindNameleton, BindConcreteNameleton, BindAbstractNameleton
  <2> QED BY <2>2, <2>3
<1>2. /\ s \in BoundSignature /\ signatures' = [signatures EXCEPT ![c] = Append(@, s)]
      /\ UNCHANGED <<names, live, registered, instances, objects, stack, recursed>>
  BY <1>1, DiAssumption DEF PushSignature, BoundSignature
<1>3. SignaturesOK'
  BY <1>2 DEF CallsInv, SignaturesOK
<1>4. OriginsNamed' /\ MadeOnce'
  <2>1. \A d, key : Confusable(d, key)' <=> Confusable(d, key)
    BY <1>2 DEF Confusable
  <2>2. \A d, key : MadeFor(d, key)' = MadeFor(d, key)
    BY <1>2 DEF MadeFor, Objects
  <2> QED BY <1>2, <2>1, <2>2 DEF CallsInv, OriginsNamed, MadeOnce, Objects
<1>5. /\ (recursed \subseteq Containers \X Keys)' /\ ObjectsOK(objects)'
      /\ EntriesOK(instances, objects)' /\ CallsOK(stack, objects, live)'
      /\ BuildingRuns(stack, objects)'
  BY <1>2 DEF CallsInv
<1> QED BY <1>3, <1>4, <1>5 DEF CallsInv

\* Nobody asked a container for anything before it had a name.
LEMMA ConstructCalls ==
  ASSUME RegistryInv, CallsInv, NEW c \in Containers, NEW n \in Names, Construct(c, n)
  PROVE  CallsInv'
<1>1. /\ stack = <<>> /\ stack' = <<>> /\ names[c] = Unnamed /\ live' = live \cup {c}
      /\ names' = [names EXCEPT ![c] = n] /\ n # Unnamed
      /\ UNCHANGED <<signatures, instances, objects, stack, recursed>>
  BY DiAssumption DEF Construct, Idle
<1>2. OriginsNamed'
  BY <1>1 DEF CallsInv, OriginsNamed, RegistryInv, RegistryTyped, Objects
<1>3. MadeOnce'
  <2>1. \A d, key : Confusable(d, key)' <=> Confusable(d, key)
    BY <1>1 DEF Confusable
  <2>2. \A d, key : MadeFor(d, key)' = MadeFor(d, key)
    BY <1>1 DEF MadeFor, Objects
  <2>3. \A key \in Keys : MadeFor(c, key) = {}
    BY <1>1 DEF CallsInv, OriginsNamed, MadeFor
  <2> QED BY <1>1, <2>1, <2>2, <2>3 DEF CallsInv, MadeOnce
<1>4. /\ SignaturesOK' /\ (recursed \subseteq Containers \X Keys)' /\ ObjectsOK(objects)'
      /\ EntriesOK(instances, objects)' /\ CallsOK(stack', objects', live')
      /\ BuildingRuns(stack, objects)'
  BY <1>1, CallsNone DEF CallsInv, SignaturesOK
<1> QED BY <1>2, <1>3, <1>4 DEF CallsInv

\* Destruct ends the promises about the container, and its entries.
LEMMA DestructCalls ==
  ASSUME RegistryInv, CallsInv, NEW c \in Containers, Destruct(c)
  PROVE  CallsInv'
<1>1. /\ stack = <<>> /\ stack' = <<>> /\ live' = live \ {c}
      /\ signatures' = [signatures EXCEPT ![c] = <<>>]
      /\ instances' = [instances EXCEPT ![c] = [key \in Keys |-> {}]]
      /\ UNCHANGED <<names, objects, stack, recursed>>
  BY DEF Destruct, Idle
<1>2. live \subseteq Containers
  BY DEF RegistryInv, RegistryTyped
<1>3. EntriesOK(instances, objects)
  BY DEF CallsInv
<1>4. instances' \in [Containers -> [Keys -> SUBSET Nat]]
      /\ instances'[c] = [key \in Keys |-> {}]
      /\ \A d \in Containers : d # c => instances'[d] = instances[d]
  BY <1>1, <1>3 DEF EntriesOK
<1>5. EntriesOK(instances', objects')
  <2>1. {key \in Keys : instances'[c][key] # {}} = {}
    BY <1>4
  <2>2. ASSUME NEW d \in Containers
        PROVE  IsFiniteSet({key \in Keys : instances'[d][key] # {}})
    <3>1. CASE d = c
      BY <3>1, <2>1, FS_EmptySet
    <3>2. CASE d # c
      BY <3>2, <1>3, <1>4 DEF EntriesOK
    <3> QED BY <3>1, <3>2
  <2>3. \A d \in Containers, key \in Keys :
            \A o \in instances'[d][key] : o # Null /\ Complete(o, objects)
    BY <1>3, <1>4 DEF EntriesOK
  <2> QED BY <1>1, <1>4, <2>2, <2>3 DEF EntriesOK
<1>6. MadeOnce'
  <2>1. \A d \in live' : d \in live /\ d # c /\ d \in Containers
    BY <1>1, <1>2
  <2>2. \A d \in live', key \in Keys : Confusable(d, key)' <=> Confusable(d, key)
    BY <1>4, <2>1 DEF Confusable
  <2>3. \A d, key : MadeFor(d, key)' = MadeFor(d, key)
    BY <1>1 DEF MadeFor, Objects
  <2> QED BY <1>1, <1>4, <2>1, <2>2, <2>3 DEF CallsInv, MadeOnce
<1>7. SignaturesOK'
  <2>1. <<>> \in Seq(BoundSignature)
    OBVIOUS
  <2> QED BY <1>1, <2>1 DEF CallsInv, SignaturesOK
<1>8. OriginsNamed'
  BY <1>1 DEF CallsInv, OriginsNamed, Objects
<1>9. /\ (recursed \subseteq Containers \X Keys)' /\ ObjectsOK(objects)'
      /\ CallsOK(stack', objects', live') /\ BuildingRuns(stack, objects)'
  BY <1>1, CallsNone DEF CallsInv
<1> QED BY <1>5, <1>6, <1>7, <1>8, <1>9 DEF CallsInv

-----------------------------------------------------------------------------
(* What clients call.                                                            *)

LEMMA GetCalls ==
  ASSUME RegistryInv, CallsInv, NEW c \in Containers, c \in live, NEW key \in Keys,
         stack = <<>>, stack' = <<GetFrame(c, key)>>,
         UNCHANGED <<names, live, registered, signatures, instances, objects, recursed>>
  PROVE  CallsInv'
<1> DEFINE f == GetFrame(c, key)
<1>1. /\ f \in Frame /\ f.op = "get" /\ f.cont = c /\ f.result = Null
  BY FramesMade DEF Frame, GetFrame
<1>2. CallOK(f, objects, live) /\ MadeByClient(f, objects)
  BY <1>1 DEF CallOK, MadeByClient, Complete
<1>3. CallsOK(<<>>, objects, live) /\ Running(<<>>) = {}
  BY CallsNone
<1>4. stack' = <<f>> \o <<>>
  OBVIOUS
<1> HIDE DEF f
<1>5. CallsOK(<<f>> \o <<>>, objects, live)
  BY <1>1, <1>2, <1>3, CallsPush
<1> QED BY <1>3, <1>4, <1>5, FramesKeep

LEMMA GetKeeps ==
  ASSUME RegistryInv, CallsInv, NEW c \in Containers,
         \/ CreateBoundSingleton(c) \/ CreateBoundNameleton(c)
         \/ \E t \in Types : GetSingleton(c, t)
         \/ \E t \in Types, l \in Labels : GetNameleton(c, t, l)
  PROVE  CallsInv'
<1>1. ASSUME NEW t \in Types, GetSingleton(c, t) PROVE CallsInv'
  <2>1. <<t, NoLabel>> \in Keys
    BY DEF Keys
  <2> QED BY <1>1, <2>1, GetCalls DEF GetSingleton, ClientMayCall, Idle
<1>2. ASSUME NEW t \in Types, NEW l \in Labels, GetNameleton(c, t, l) PROVE CallsInv'
  <2>1. <<t, l>> \in Keys
    BY DEF Keys
  <2> QED BY <1>2, <2>1, GetCalls DEF GetNameleton, ClientMayCall, Idle
<1>3. ASSUME NEW i \in 1..Len(signatures[c])
      PROVE  /\ TypeToMap(signatures[c][i]) \in Types
             /\ signatures[c][i].label # NoLabel => signatures[c][i].label \in Labels
  BY SignatureFields DEF CallsInv, SignaturesOK
<1>4. CreateBoundSingleton(c) => CallsInv'
  BY <1>1, <1>3 DEF CreateBoundSingleton
<1>5. CreateBoundNameleton(c) => CallsInv'
  BY <1>2, <1>3 DEF CreateBoundNameleton
<1> QED BY <1>1, <1>2, <1>4, <1>5

\* A constructor is called, by a client or by the creator on top of s.
LEMMA BuildFacts ==
  ASSUME NEW s, CallsOK(s, objects, live), ObjectsOK(objects), BuildingRuns(s, objects),
         NEW t \in Types, NEW origin \in {<<>>} \cup (Containers \X Keys),
         s = <<>> => origin = <<>>,
         s # <<>> => Head(s).op = "get" /\ origin = <<Head(s).cont, Head(s).key>>,
         Build(t, origin, s)
  PROVE  /\ ObjectsOK(objects') /\ Grows(s, objects, objects')
         /\ CallsOK(stack', objects', live) /\ BuildingRuns(stack', objects')
         /\ Len(objects) \in Nat /\ Len(objects') = Len(objects) + 1
         /\ objects'[Len(objects) + 1] = NewObject(t, origin)
         /\ \A o \in Objects : objects'[o] = objects[o]
         /\ \E todo \in SUBSET PawnFields(t) :
              /\ stack' = <<InjectFrame(Len(objects) + 1, todo)>> \o s
              /\ todo = PawnFields(t) \/ (t \in Guarded /\ BeingBuilt(t))
<1>1. PICK todo \in SUBSET PawnFields(t) :
        /\ stack' = <<InjectFrame(Len(objects) + 1, todo)>> \o s
        /\ todo = PawnFields(t) \/ (t \in Guarded /\ BeingBuilt(t))
        /\ objects' = Append(objects, NewObject(t, origin))
  BY DEF Build, NewObject
<1>2. /\ s \in Seq(Frame) /\ Running(s) \subseteq 1..Len(objects)
      /\ \A i \in 1..Len(s) : s[i].op = "inject" => s[i].obj \in Running(s)
  BY RunningPushed
<1>3. /\ ObjectsOK(objects') /\ Grows(s, objects, objects')
      /\ Len(objects) \in Nat /\ Len(objects') = Len(objects) + 1
      /\ objects'[Len(objects) + 1] = NewObject(t, origin)
      /\ \A o \in 1..Len(objects) : objects'[o] = objects[o]
  <2>1. \A i \in 1..Len(s) : s[i].op = "inject" => s[i].obj \in 1..Len(objects)
    BY <1>2
  <2>2. objects' = Append(objects, NewObject(t, origin)) /\ s \in Seq(Frame)
    BY <1>1, <1>2
  <2>3. objects' \in {Append(objects, NewObject(t, origin))}
    BY <2>2
  <2> QED BY ONLY <2>1, <2>2, <2>3, ObjectsOK(objects), t \in Types,
             origin \in {<<>>} \cup (Containers \X Keys), ObjectAdded
<1> DEFINE n == Len(objects) + 1
           f == InjectFrame(n, todo)
<1>4. n \in Nat /\ n \in 1..Len(objects') /\ n \notin 1..Len(objects)
  BY <1>3
<1>5. /\ f \in Frame /\ f.op = "inject" /\ f.obj = n /\ f.todo = todo /\ f.conts = {}
  <2>1. todo \in SUBSET Field
    BY PawnFieldsTyped
  <2> QED BY <2>1, <1>4, FramesMade DEF Frame, InjectFrame
<1>6. CallsOK(s, objects', live)
  BY <1>3, CallsKept
<1>7. /\ objects'[n].type = t /\ objects'[n].origin = origin /\ objects'[n].state = "building"
  BY <1>3 DEF NewObject
<1> HIDE DEF n, f
<1>8. CallOK(f, objects', live)
  BY <1>1, <1>4, <1>5, <1>7 DEF CallOK
<1>9. CallsOK(<<f>> \o s, objects', live)
  <2>1. s = <<>> => MadeByClient(f, objects')
    BY <1>5, <1>7 DEF MadeByClient
  <2>2. s # <<>> => MadeBy(f, Head(s), objects')
    BY <1>5, <1>7 DEF MadeBy
  <2>3. \A i \in 1..Len(s) : s[i].op = "inject" => s[i].obj # f.obj
    BY <1>2, <1>4, <1>5
  <2> QED BY <2>1, <2>2, <2>3, <1>5, <1>6, <1>8, CallsPush
<1>10. BuildingRuns(<<f>> \o s, objects')
  <2>1. Running(<<f>> \o s) = Running(s) \cup {n}
    BY <1>2, <1>5, RunningPush
  <2>2. ASSUME NEW o \in 1..Len(objects'), objects'[o].state = "building"
        PROVE  o \in Running(s) \cup {n}
    <3>1. o \in 1..Len(objects) \/ o = n
      BY <1>3 DEF n
    <3> QED BY <3>1, <2>2, <1>3 DEF BuildingRuns
  <2> QED BY <2>1, <2>2 DEF BuildingRuns
<1>11. stack' = <<f>> \o s
  BY <1>1 DEF f, n
<1> QED BY <1>1, <1>3, <1>9, <1>10, <1>11 DEF Objects

LEMMA NewInjecteeKeeps ==
  ASSUME RegistryInv, CallsInv, NEW t \in Types, NewInjectee(t)
  PROVE  CallsInv'
<1>1. /\ stack = <<>> /\ Build(t, <<>>, <<>>)
      /\ UNCHANGED <<names, live, registered, signatures, instances, recursed>>
  BY DEF NewInjectee, ClientMayCall, Idle
<1>2. CallsOK(<<>>, objects, live) /\ ObjectsOK(objects) /\ BuildingRuns(<<>>, objects)
  BY <1>1 DEF CallsInv
<1>3. /\ ObjectsOK(objects') /\ Grows(<<>>, objects, objects')
      /\ CallsOK(stack', objects', live) /\ BuildingRuns(stack', objects')
      /\ Len(objects) \in Nat /\ Len(objects') = Len(objects) + 1
      /\ objects'[Len(objects) + 1] = NewObject(t, <<>>)
      /\ \A o \in Objects : objects'[o] = objects[o]
  BY <1>1, <1>2, BuildFacts
<1>4. \A o \in 1..Len(objects') : o \notin Objects => objects'[o].origin = <<>>
  <2>1. \A o \in 1..Len(objects') : o \notin Objects => o = Len(objects) + 1
    BY <1>3 DEF Objects
  <2> QED BY <2>1, <1>3 DEF NewObject
<1> QED BY <1>1, <1>3, <1>4, QuietKeeps

LEMMA InjectDependenciesKeeps ==
  ASSUME RegistryInv, CallsInv, NEW o \in Objects, InjectDependencies(o)
  PROVE  CallsInv'
<1> DEFINE todo == PawnFields(objects[o].type)
           f == InjectFrame(o, todo)
<1>1. /\ stack = <<>> /\ stack' = <<f>>
      /\ objects[o].origin = <<>> /\ objects[o].state = "built"
      /\ UNCHANGED <<names, live, registered, signatures, instances, objects, recursed>>
  BY DEF InjectDependencies, ClientMayCall, Idle
<1>2. o \in Nat /\ o \in 1..Len(objects) /\ todo \in SUBSET Field
  <2>1. Len(objects) \in Nat /\ objects[o].type \in Types
    BY ObjectFields DEF CallsInv, ObjectsOK, Objects
  <2> QED BY <2>1, PawnFieldsTyped DEF Objects
<1>3. f \in Frame /\ f.op = "inject" /\ f.obj = o /\ f.todo = todo /\ f.conts = {}
  BY <1>2, FramesMade DEF Frame, InjectFrame
<1>4. stack' = <<f>> \o <<>>
  BY <1>1
<1> HIDE DEF f
<1>5. CallOK(f, objects, live) /\ MadeByClient(f, objects)
  BY <1>1, <1>2, <1>3 DEF CallOK, MadeByClient
<1>6. CallsOK(<<>>, objects, live) /\ Running(<<>>) = {}
  BY CallsNone
<1>7. CallsOK(<<f>> \o <<>>, objects, live)
  <2>1. \A i \in 1..Len(<<>>) : <<>>[i].obj # f.obj
    OBVIOUS
  <2> QED BY <2>1, <1>3, <1>5, <1>6, CallsPush
<1> QED BY <1>1, <1>4, <1>6, <1>7, FramesKeep

-----------------------------------------------------------------------------
(* inject_dependencies.                                                          *)

\* The innermost injection moves on, with the same object and fewer fields.
LEMMA InjectionMoves ==
  ASSUME CallsInv, Injecting, NEW f \in InjectFrames, f.op = "inject", f.obj = Top.obj,
         f.todo \subseteq Top.todo, f.conts \subseteq live,
         f.field \in PawnFields(objects[Top.obj].type)
  PROVE  /\ CallsOK(<<f>> \o Below, objects, live)
         /\ Running(<<f>> \o Below) = Running(stack)
<1>1. CallsOK(stack, objects, live) /\ ObjectsOK(objects)
  BY DEF CallsInv
<1>2. /\ Below \in Seq(Frame) /\ CallsOK(Below, objects, live)
      /\ Top.obj \in Objects /\ Top.todo \subseteq PawnFields(objects[Top.obj].type)
      /\ Running(stack) = Running(Below) \cup {Top.obj} /\ Top.obj \notin Running(Below)
  BY <1>1, InjectingFacts
<1>3. f \in Frame
  BY DEF Frame
<1>4. CallOK(f, objects, live)
  BY <1>2 DEF CallOK, Objects
<1>5. Top.op = "inject" /\ stack # <<>>
  BY DEF Injecting, Idle
<1>6. Below = <<>> => MadeByClient(f, objects)
  BY <1>1, <1>5, CallBelow DEF Top, Below, MadeByClient
<1>7. Below # <<>> => MadeBy(f, Head(Below), objects)
  BY <1>1, <1>5, CallBelow DEF Top, Below, MadeBy
<1>8. \A i \in 1..Len(Below) : Below[i].op = "inject" => Below[i].obj # f.obj
  BY <1>2, RunningPushed
<1>9. CallsOK(<<f>> \o Below, objects, live)
  BY <1>2, <1>3, <1>4, <1>6, <1>7, <1>8, CallsPush
<1>10. Running(<<f>> \o Below) = Running(Below) \cup {f.obj}
  BY <1>2, <1>3, RunningPush
<1> QED BY <1>2, <1>9, <1>10

LEMMA RegisteredAlive ==
  ASSUME RegistryInv
  PROVE  Registered \subseteq live /\ Registered \in SUBSET Containers
BY DEF RegistryInv, RegistryTyped, EntriesAreLive, Registered

LEMMA NextFieldKeeps ==
  ASSUME RegistryInv, CallsInv, NextField
  PROVE  CallsInv'
<1>1. PICK d \in Top.todo :
        stack' = <<[Top EXCEPT !.field = d, !.todo = @ \ {d}, !.conts = Registered]>> \o Below
  BY DEF NextField
<1>2. Injecting /\ UNCHANGED <<names, live, registered, signatures, instances, objects, recursed>>
  BY DEF NextField
<1>3. /\ Top \in InjectFrames /\ Top.todo \subseteq PawnFields(objects[Top.obj].type)
      /\ PawnFields(objects[Top.obj].type) \subseteq Field
  BY <1>2, InjectingFacts DEF CallsInv
<1> DEFINE ds == Top.todo \ {d}
           f == [Top EXCEPT !.field = d, !.todo = ds, !.conts = Registered]
<1>4. f \in InjectFrames
  BY <1>3, FramesMade, RegisteredAlive
<1>5. f.op = "inject" /\ f.obj = Top.obj /\ f.todo = ds /\ f.conts = Registered /\ f.field = d
  BY <1>3 DEF InjectFrames
<1>6. stack' = <<f>> \o Below
  BY <1>1
<1> HIDE DEF f
<1>7. CallsOK(<<f>> \o Below, objects, live) /\ Running(<<f>> \o Below) = Running(stack)
  BY <1>2, <1>3, <1>4, <1>5, InjectionMoves, RegisteredAlive
<1> QED BY <1>2, <1>6, <1>7, FramesKeep

\* The get_or_add of a container, called on the innermost injection.
LEMMA InjectFieldFacts ==
  ASSUME RegistryInv, CallsInv, NEW c \in Top.conts, Injecting
  PROVE  LET g == GetFrame(c, KeyOf(Top.field))
             f == [Top EXCEPT !.conts = @ \ {c}]
         IN  /\ c \in live /\ c \in Containers /\ Top.field \in Field
             /\ KeyOf(Top.field) \in Keys
             /\ g \in Frame /\ g.op = "get" /\ g.cont = c /\ g.key = KeyOf(Top.field)
             /\ g.at = 1 /\ g.result = Null
             /\ f \in Frame /\ f.op = "inject" /\ f.obj = Top.obj /\ f.field = Top.field
             /\ f.todo = Top.todo /\ f.conts = Top.conts \ {c}
             /\ CallsOK(<<g>> \o (<<f>> \o Below), objects, live)
             /\ Running(<<g>> \o (<<f>> \o Below)) = Running(stack)
<1>1. /\ Top \in InjectFrames /\ Top.todo \subseteq PawnFields(objects[Top.obj].type)
      /\ PawnFields(objects[Top.obj].type) \subseteq Field
      /\ Top.conts \subseteq live /\ Top.field \in PawnFields(objects[Top.obj].type)
      /\ Below \in Seq(Frame)
  BY InjectingFacts DEF CallsInv
<1>2. c \in live /\ c \in Containers /\ Top.field \in Field
  BY <1>1 DEF RegistryInv, RegistryTyped
<1>3. KeyOf(Top.field) \in Keys
  BY <1>2 DEF KeyOf, Keys, Field
<1> DEFINE g == GetFrame(c, KeyOf(Top.field))
           f == [Top EXCEPT !.conts = @ \ {c}]
           cs == Top.conts \ {c}
<1>4. g \in Frame /\ g.op = "get" /\ g.cont = c /\ g.key = KeyOf(Top.field)
      /\ g.at = 1 /\ g.result = Null
  BY <1>2, <1>3, FramesMade DEF Frame, GetFrame
<1>5. f \in InjectFrames
  <2>1. cs \in SUBSET Containers
    BY <1>1 DEF RegistryInv, RegistryTyped
  <2> QED BY <2>1, <1>1, FramesMade
<1>6. f.op = "inject" /\ f.obj = Top.obj /\ f.todo = Top.todo /\ f.conts = cs
      /\ f.field = Top.field
  BY <1>1 DEF InjectFrames
<1> HIDE DEF f, g
<1>7. CallsOK(<<f>> \o Below, objects, live) /\ Running(<<f>> \o Below) = Running(stack)
  BY <1>1, <1>5, <1>6, InjectionMoves
<1>8. f \in Frame
  BY <1>5 DEF Frame
<1> DEFINE r == <<f>> \o Below
<1>9. r # <<>> /\ Head(r) = f /\ r \in Seq(Frame)
  BY <1>1, <1>8, PushFacts
<1>10. CallsOK(r, objects, live) /\ Running(r) = Running(stack)
  BY <1>7
<1> HIDE DEF r
<1>11. CallOK(g, objects, live)
  BY <1>2, <1>4 DEF CallOK, Complete
<1>12. MadeBy(g, Head(r), objects)
  BY <1>1, <1>4, <1>6, <1>9 DEF MadeBy
<1>13. CallsOK(<<g>> \o r, objects, live)
  BY <1>4, <1>9, <1>10, <1>11, <1>12, CallsPush
<1>14. Running(<<g>> \o r) = Running(stack)
  BY <1>4, <1>9, <1>10, RunningPush
<1>15. /\ CallsOK(<<g>> \o (<<f>> \o Below), objects, live)
       /\ Running(<<g>> \o (<<f>> \o Below)) = Running(stack)
  BY <1>13, <1>14 DEF r
<1> QED BY <1>2, <1>3, <1>4, <1>6, <1>8, <1>15 DEF f, g

LEMMA InjectFieldKeeps ==
  ASSUME RegistryInv, CallsInv, InjectField
  PROVE  CallsInv'
<1>1. Injecting /\ UNCHANGED <<names, live, registered, signatures, instances, objects, recursed>>
  BY DEF InjectField
<1>2. PICK c \in Top.conts :
        stack' = <<GetFrame(c, KeyOf(Top.field))>> \o <<[Top EXCEPT !.conts = @ \ {c}]>> \o Below
  BY DEF InjectField
<1> DEFINE g == GetFrame(c, KeyOf(Top.field))
           f == [Top EXCEPT !.conts = @ \ {c}]
<1>3. /\ CallsOK(<<g>> \o (<<f>> \o Below), objects, live)
      /\ Running(<<g>> \o (<<f>> \o Below)) = Running(stack)
      /\ f \in Frame /\ g \in Frame /\ Below \in Seq(Frame)
  BY <1>1, InjectFieldFacts, InjectingFacts DEF CallsInv
<1>4. stack' = <<g>> \o <<f>> \o Below
  BY <1>2
<1> HIDE DEF f, g
<1>5. <<g>> \o <<f>> \o Below = <<g>> \o (<<f>> \o Below)
  BY <1>3, PushTwice
<1> QED BY <1>1, <1>3, <1>4, <1>5, FramesKeep

\* The exception leaves no call and no object half made.
LEMMA ThrowKeeps ==
  ASSUME RegistryInv, CallsInv, Throw
  PROVE  CallsInv'
<1>1. /\ stack' = <<>> /\ objects' = Abandoned(objects)
      /\ UNCHANGED <<names, live, registered, signatures, instances, recursed>>
  BY DEF Throw, Abandoned, Objects
<1>2. /\ ObjectsOK(objects') /\ Grows(<<>>, objects, objects')
      /\ Len(objects) \in Nat /\ Len(objects') = Len(objects)
      /\ \A o \in 1..Len(objects) :
            objects'[o].state = IF objects[o].state = "building" THEN "abandoned"
                                ELSE objects[o].state
  BY <1>1, ObjectsAbandoned DEF CallsInv
<1>3. CallsOK(stack', objects', live)
  BY <1>1, CallsNone
<1>4. BuildingRuns(stack', objects')
  BY <1>2 DEF BuildingRuns
<1>5. \A o \in Objects : objects'[o].state \in {objects[o].state, "abandoned"}
  BY <1>2 DEF Objects
<1>6. \A o \in 1..Len(objects') : o \notin Objects => objects'[o].origin = <<>>
  BY <1>2 DEF Objects
<1> QED BY <1>1, <1>2, <1>3, <1>4, <1>5, <1>6, QuietKeeps

\* A client's object is ready.
LEMMA InjecteeReadyKeeps ==
  ASSUME RegistryInv, CallsInv, InjecteeReady
  PROVE  CallsInv'
<1>1. /\ Injecting /\ Below = <<>> /\ stack' = <<>>
      /\ objects' = SetBuilt(objects, Top.obj)
      /\ UNCHANGED <<names, live, registered, signatures, instances, recursed>>
  BY DEF InjecteeReady, Injected, Built, SetBuilt
<1>2. /\ Top.obj \in 1..Len(objects) /\ objects[Top.obj].origin = <<>>
      /\ Running(stack) = {Top.obj}
  BY <1>1, InjectingFacts, CallsNone DEF CallsInv, Objects
<1>3. /\ ObjectsOK(objects') /\ Grows(Below, objects, objects')
      /\ Len(objects') = Len(objects) /\ objects'[Top.obj].state = "built"
      /\ \A y \in 1..Len(objects) : y # Top.obj => objects'[y] = objects[y]
  <2>1. ObjectsOK(objects)
    BY DEF CallsInv
  <2>2. Top.obj \notin Running(Below)
    BY <1>1, InjectingFacts DEF CallsInv
  <2>3. objects' = SetBuilt(objects, Top.obj) /\ Top.obj \in 1..Len(objects)
    BY <1>1, <1>2
  <2> QED BY ONLY <2>1, <2>2, <2>3, ObjectBuilt
<1>4. CallsOK(stack', objects', live)
  BY <1>1, CallsNone
<1>5. BuildingRuns(stack', objects')
  BY <1>2, <1>3 DEF BuildingRuns, CallsInv
<1>6. /\ \A o \in 1..Len(objects') : o \notin Objects => objects'[o].origin = <<>>
      /\ \A o \in Objects : \/ objects'[o].state \in {objects[o].state, "abandoned"}
                            \/ objects[o].origin = <<>>
  BY <1>2, <1>3 DEF Objects
<1> QED BY <1>1, <1>3, <1>4, <1>5, <1>6, QuietKeeps

-----------------------------------------------------------------------------
(* get_or_add.                                                                   *)

\* A field of the injection below is written with what get_or_add returns.
LEMMA PawnWritten ==
  ASSUME NEW s, s # <<>>, NEW objs, ObjectsOK(objs), CallsOK(s, objs, live),
         Head(s).op = "inject", Head(s).obj \in 1..Len(objs),
         Head(s).field.name \in FieldNames,
         NEW o \in Nat, Complete(o, objs),
         NEW objs2, objs2 = SetPawn(objs, Head(s).obj, Head(s).field.name, o)
  PROVE  /\ ObjectsOK(objs2) /\ SameStates(objs, objs2) /\ CallsOK(s, objs2, live)
         /\ objs2[Head(s).obj].pawns = [objs[Head(s).obj].pawns EXCEPT ![Head(s).field.name] = o]
         /\ \A y \in 1..Len(objs) : y # Head(s).obj => objs2[y] = objs[y]
<1> DEFINE x == Head(s).obj
           n == Head(s).field.name
<1>1. x \in 1..Len(objs) /\ n \in FieldNames
  OBVIOUS
<1>2. objs2 = SetPawn(objs, x, n, o)
  OBVIOUS
<1> HIDE DEF x, n
<1>3. /\ ObjectsOK(objs2) /\ SameStates(objs, objs2)
      /\ objs2[x].pawns = [objs[x].pawns EXCEPT ![n] = o]
      /\ \A y \in 1..Len(objs) : y # x => objs2[y] = objs[y]
  BY <1>1, <1>2, PawnSet
<1>4. CallsOK(s, objs2, live)
  BY <1>3, SameGrows, CallsKept
<1> QED BY <1>3, <1>4 DEF x, n

LEMMA ReturnFacts ==
  ASSUME CallsInv, Serving, NEW o \in Nat, Complete(o, objects), Return(o)
  PROVE  /\ stack' = Below /\ ObjectsOK(objects') /\ SameStates(objects, objects')
         /\ CallsOK(stack', objects', live) /\ Running(stack') = Running(stack)
         /\ Below # <<>> =>
              /\ objects'[Head(Below).obj].pawns =
                    [objects[Head(Below).obj].pawns EXCEPT ![Head(Below).field.name] = o]
              /\ \A y \in 1..Len(objects) : y # Head(Below).obj => objects'[y] = objects[y]
<1>1. /\ CallsOK(stack, objects, live) /\ ObjectsOK(objects) /\ Len(objects) \in Nat
  BY DEF CallsInv, ObjectsOK
<1>2. /\ CallsOK(Below, objects, live) /\ Running(stack) = Running(Below)
      /\ Below # <<>> =>
              /\ Head(Below).op = "inject" /\ Head(Below).obj \in 1..Len(objects)
              /\ Head(Below).field.name \in FieldNames
  BY <1>1, ServingFacts DEF Objects
<1>3. stack' = Below
  BY DEF Return
<1>4. CASE Below = <<>>
  <2>1. objects' = objects
    BY <1>4 DEF Return
  <2> QED BY <1>1, <1>2, <1>3, <1>4, <2>1 DEF SameStates
<1>5. CASE Below # <<>>
  <2>1. objects' = SetPawn(objects, Head(Below).obj, Head(Below).field.name, o)
    BY <1>5 DEF Return, SetPawn
  <2> QED BY <1>1, <1>2, <1>3, <1>5, <2>1, PawnWritten
<1> QED BY <1>4, <1>5

LEMMA ReturnKeeps ==
  ASSUME RegistryInv, CallsInv, Serving, NEW o \in Nat, Complete(o, objects), Return(o),
         UNCHANGED <<names, live, registered, signatures, instances, recursed>>
  PROVE  CallsInv'
<1>1. /\ ObjectsOK(objects') /\ SameStates(objects, objects')
      /\ CallsOK(stack', objects', live) /\ Running(stack') = Running(stack)
  BY ReturnFacts
<1>2. Grows(<<>>, objects, objects')
  BY <1>1, SameGrows
<1>3. BuildingRuns(stack', objects')
  BY <1>1 DEF CallsInv, BuildingRuns, SameStates
<1>4. \A o1 \in 1..Len(objects') : o1 \notin Objects => objects'[o1].origin = <<>>
  BY <1>1 DEF SameStates, Objects
<1>5. \A o1 \in Objects : objects'[o1].state \in {objects[o1].state, "abandoned"}
  BY <1>1 DEF SameStates, Objects
<1> QED BY <1>1, <1>2, <1>3, <1>4, <1>5, QuietKeeps

\* What find may yield is an instance.
LEMMA FoundIsComplete ==
  ASSUME CallsInv, NEW c \in Containers, NEW key \in Keys, NEW o \in Find(c, key)
  PROVE  /\ o \in Nat /\ Complete(o, objects)
         /\ o # Null => o \in instances[c][key]
         /\ o = Null /\ ~Confusable(c, key) => instances[c][key] = {}
<1>1. EntriesOK(instances, objects)
  BY DEF CallsInv
<1>2. \/ o \in instances[c][key] /\ o # Null
      \/ o = Null /\ (instances[c][key] = {} \/ Confusable(c, key))
  BY <1>1 DEF Find, EntriesOK
<1>3. Null \in Nat /\ Complete(Null, objects)
  BY DEF Null, Complete
<1>4. instances[c][key] \subseteq Nat
  BY <1>1 DEF EntriesOK
<1> QED BY <1>1, <1>2, <1>3, <1>4 DEF EntriesOK

LEMMA FindInstanceKeeps ==
  ASSUME RegistryInv, CallsInv, Serving, FindInstance,
         UNCHANGED <<names, live, registered, signatures, instances>>
  PROVE  CallsInv'
<1>1. PICK o \in Find(Top.cont, Top.key) \ {Null} : Return(o)
  BY DEF FindInstance
<1>2. Top.cont \in Containers /\ Top.key \in Keys
  BY ServingFacts DEF CallsInv
<1>3. o \in Nat /\ Complete(o, objects)
  BY <1>2, FoundIsComplete
<1> QED BY <1>1, <1>3, ReturnKeeps DEF FindInstance

LEMMA EndOfSignaturesKeeps ==
  ASSUME RegistryInv, CallsInv, Serving, EndOfSignatures,
         UNCHANGED <<names, live, registered, signatures, instances>>
  PROVE  CallsInv'
<1>1. Return(Top.result) /\ UNCHANGED recursed
  BY DEF EndOfSignatures
<1>2. Top.result \in Nat /\ Complete(Top.result, objects)
  BY ServingFacts DEF CallsInv
<1> QED BY <1>1, <1>2, ReturnKeeps

\* A running creator's object was asked for below.
LEMMA RunningAsked ==
  ASSUME NEW s, NEW objs, NEW alive, CallsOK(s, objs, alive), NEW o \in Running(s),
         objs[o].origin # <<>>
  PROVE  \E d \in 1..Len(s) : s[d].op = "get" /\ objs[o].origin = <<s[d].cont, s[d].key>>
<1>1. PICK i \in 1..Len(s) : s[i].op = "inject" /\ s[i].obj = o
  BY DEF Running
<1>2. Len(s) \in Nat
  BY DEF CallsOK
<1>3. i < Len(s)
  <2>1. i = Len(s) => MadeByClient(s[i], objs)
    BY <1>1 DEF CallsOK
  <2> QED BY <1>1, <1>2, <2>1 DEF MadeByClient
<1>4. i + 1 \in 1..Len(s) /\ MadeBy(s[i], s[i+1], objs)
  BY <1>1, <1>2, <1>3 DEF CallsOK
<1> QED BY <1>1, <1>4 DEF MadeBy

\* Entries that stay keep the order of nameletons as broken as it was.
LEMMA ConfusedStays ==
  ASSUME NEW c \in Containers, NEW key, Confusable(c, key),
         \A k \in Keys : instances[c][k] # {} => instances'[c][k] # {},
         IsFiniteSet({k \in Keys : instances'[c][k] # {}})
  PROVE  Confusable(c, key)'
<1> DEFINE E == {k \in Keys : IsNamed(k) /\ instances[c][k] # {}}
           F == {k \in Keys : IsNamed(k) /\ instances'[c][k] # {}}
<1>1. /\ IsNamed(key) /\ Cardinality(E) >= 3
      /\ \E k \in E : NameletonLess(key, k) /\ NameletonLess(k, key)
  BY DEF Confusable
<1>2. E \subseteq F /\ F \subseteq {k \in Keys : instances'[c][k] # {}}
  OBVIOUS
<1>3. IsFiniteSet(F)
  BY <1>2, FS_Subset
<1>4. IsFiniteSet(E) /\ Cardinality(E) <= Cardinality(F)
  BY <1>2, <1>3, FS_Subset
<1>5. Cardinality(E) \in Nat /\ Cardinality(F) \in Nat
  BY <1>3, <1>4, FS_CardinalityType
<1> HIDE DEF E, F
<1>6. Cardinality(F) >= 3
  BY <1>1, <1>4, <1>5
<1>7. \E k \in F : NameletonLess(key, k) /\ NameletonLess(k, key)
  BY <1>1, <1>2
<1> QED BY <1>1, <1>6, <1>7 DEF Confusable, F

\* A creator is called for a key, with the innermost call's place remembered.
Placed(f, i) == [f EXCEPT !.at = i]

LEMMA CreatorCalled ==
  ASSUME CallsInv, Serving, NEW i \in Nat \ {0}
  PROVE  LET f == Placed(Top, i)
         IN  /\ f \in Frame /\ f.op = "get" /\ f.cont = Top.cont /\ f.key = Top.key
             /\ f.at = i /\ f.result = Top.result
             /\ CallsOK(<<f>> \o Below, objects, live)
             /\ Running(<<f>> \o Below) = Running(stack)
             /\ <<f>> \o Below # <<>> /\ Head(<<f>> \o Below) = f
             /\ <<f>> \o Below \in Seq(Frame) /\ Tail(<<f>> \o Below) = Below
<1> DEFINE f == Placed(Top, i)
<1>1. /\ Top \in GetFrames /\ Top \in Frame /\ Below \in Seq(Frame)
      /\ CallsOK(Below, objects, live) /\ Running(stack) = Running(Below)
  BY ServingFacts DEF CallsInv
<1>2. /\ stack # <<>> /\ CallOK(Top, objects, live)
      /\ Below # <<>> => MadeBy(Top, Head(Below), objects)
  BY CallBelow DEF CallsInv, Serving, Idle, Top, Below
<1>3. f \in Frame /\ f.op = "get" /\ f.cont = Top.cont /\ f.key = Top.key
      /\ f.at = i /\ f.result = Top.result /\ Top.op = "get"
  <2>1. f \in GetFrames
    BY <1>1, FramesMade DEF Placed
  <2> QED BY <2>1, <1>1 DEF Frame, GetFrames, Placed
<1> HIDE DEF f
<1>4. CallOK(f, objects, live) /\ MadeByClient(f, objects)
  BY <1>2, <1>3 DEF CallOK, MadeByClient
<1>5. Below # <<>> => MadeBy(f, Head(Below), objects)
  BY <1>2, <1>3 DEF MadeBy
<1>6. CallsOK(<<f>> \o Below, objects, live)
  BY <1>1, <1>3, <1>4, <1>5, CallsPush
<1>7. Running(<<f>> \o Below) = Running(stack)
  BY <1>1, <1>3, RunningPush
<1>8. /\ <<f>> \o Below # <<>> /\ Head(<<f>> \o Below) = f
      /\ <<f>> \o Below \in Seq(Frame) /\ Tail(<<f>> \o Below) = Below
  BY <1>1, <1>3, PushFacts
<1> QED BY <1>3, <1>6, <1>7, <1>8 DEF f

\* A creator makes an object for a key that has no entry and, unless the key
\* recursed, no object.
LEMMA CallCreatorKeeps ==
  ASSUME RegistryInv, CallsInv, Serving, CallCreator,
         UNCHANGED <<names, live, registered, signatures, instances>>
  PROVE  CallsInv'
<1> DEFINE c == Top.cont
           key == Top.key
           n == Len(objects) + 1
<1>1. PICK i \in Matching(c, key, Top.at) :
        /\ Null \in Find(c, key)
        /\ Build(signatures[c][i].impl, <<c, key>>, <<Placed(Top, i)>> \o Below)
        /\ recursed' = IF \E d \in 2..Len(stack) : /\ stack[d].op = "get"
                                                   /\ stack[d].cont = c /\ stack[d].key = key
                       THEN recursed \cup {<<c, key>>} ELSE recursed
  BY DEF CallCreator, Placed
<1>2. /\ c \in live /\ c \in Containers /\ key \in Keys /\ Top.at \in Nat \ {0}
      /\ CallsOK(Below, objects, live) /\ Running(stack) = Running(Below)
  BY ServingFacts DEF CallsInv
<1>3. i \in 1..Len(signatures[c]) /\ i \in Nat \ {0} /\ signatures[c][i].impl \in Types
  <2>1. i \in 1..Len(signatures[c]) /\ i \in Nat \ {0}
    BY <1>2 DEF Matching, CallsInv, SignaturesOK
  <2> QED BY <2>1, <1>2, SignatureFields DEF CallsInv, SignaturesOK
<1> DEFINE f == Placed(Top, i)
           s == <<f>> \o Below
           t == signatures[c][i].impl
<1>4. /\ CallsOK(s, objects, live) /\ Running(s) = Running(stack) /\ s # <<>>
      /\ Head(s).op = "get" /\ Head(s).cont = c /\ Head(s).key = key
  BY <1>3, CreatorCalled
<1>5. Build(t, <<c, key>>, s) /\ t \in Types /\ <<c, key>> \in {<<>>} \cup (Containers \X Keys)
  BY <1>1, <1>2, <1>3
<1> HIDE DEF s, t
<1>6. ObjectsOK(objects) /\ BuildingRuns(s, objects)
  BY <1>4 DEF CallsInv, BuildingRuns
<1>7. /\ ObjectsOK(objects') /\ Grows(s, objects, objects')
      /\ CallsOK(stack', objects', live) /\ BuildingRuns(stack', objects')
      /\ Len(objects) \in Nat /\ Len(objects') = n
      /\ objects'[n] = NewObject(t, <<c, key>>)
      /\ \A o \in Objects : objects'[o] = objects[o]
  BY <1>4, <1>5, <1>6, BuildFacts
<1>8. n \notin Objects /\ \A o \in 1..Len(objects') : o \in Objects \/ o = n
  BY <1>7 DEF Objects
<1>9. objects'[n].origin = <<c, key>> /\ objects'[n].state = "building"
  BY <1>7 DEF NewObject
<1> HIDE DEF n
<1>10. OriginsNamed'
  <2> SUFFICES ASSUME NEW o \in 1..Len(objects'), NEW d \in Containers, NEW k \in Keys,
                      objects'[o].origin = <<d, k>>
               PROVE  names[d] # Unnamed
    BY DEF OriginsNamed, Objects
  <2>1. CASE o \in Objects
    BY <2>1, <1>7 DEF CallsInv, OriginsNamed
  <2>2. CASE o = n
    <3>1. d = c
      BY <2>2, <1>9
    <3> QED BY <3>1, <1>2 DEF RegistryInv, LiveAreNamed
  <2> QED BY <2>1, <2>2, <1>8
<1>11. MadeOnce'
  <2> SUFFICES ASSUME NEW d \in live, NEW k \in Keys,
                      <<d, k>> \notin recursed', ~Confusable(d, k)',
                      NEW o \in MadeFor(d, k)'
               PROVE  /\ \A p \in MadeFor(d, k)' : p = o
                      /\ objects'[o].state = "building" <=> instances[d][k] = {}
    BY DEF MadeOnce
  <2>1. <<d, k>> \notin recursed /\ ~Confusable(d, k) /\ d \in Containers
    BY <1>1 DEF Confusable, RegistryInv, RegistryTyped
  <2>2. MadeFor(d, k)' \subseteq MadeFor(d, k) \cup {n}
    BY <1>7, <1>8 DEF MadeFor, Objects
  <2>3. \A p \in MadeFor(d, k) :
            /\ p \in Objects /\ objects'[p] = objects[p]
            /\ \A q \in MadeFor(d, k) : q = p
            /\ objects[p].state = "building" <=> instances[d][k] = {}
    BY <2>1, <1>7 DEF CallsInv, MadeOnce, MadeFor
  <2>4. CASE d = c /\ k = key
    <3>1. instances[c][key] = {}
      BY <1>1, <1>2, <2>1, <2>4, FoundIsComplete
    <3>2. ASSUME NEW p \in MadeFor(c, key) PROVE FALSE
      <4>1. objects[p].state = "building" /\ objects[p].origin = <<c, key>> /\ p \in 1..Len(objects)
        BY <2>3, <2>4, <3>1 DEF MadeFor, Objects
      <4>2. p \in Running(Below) /\ objects[p].origin # <<>>
        BY <4>1, <1>2 DEF CallsInv, BuildingRuns
      <4>3. PICK e \in 1..Len(Below) : /\ Below[e].op = "get"
                                       /\ objects[p].origin = <<Below[e].cont, Below[e].key>>
        BY <4>2, <1>2, RunningAsked
      <4>4. Below[e].cont = c /\ Below[e].key = key
        BY <4>1, <4>3
      <4>5. e + 1 \in 2..Len(stack) /\ stack[e+1] = Below[e]
        <5>1. /\ stack \in Seq(Frame) /\ stack # <<>>
          BY DEF CallsInv, CallsOK, Serving, Idle
        <5> QED BY <5>1, PopFacts DEF Below
      <4>6. <<c, key>> \in recursed'
        BY <4>3, <4>4, <4>5, <1>1
      <4> QED BY <4>6, <2>4
    <3>3. MadeFor(d, k)' \subseteq {n}
      BY <2>2, <2>4, <3>2
    <3> QED BY <3>1, <3>3, <2>4, <1>9
  <2>5. CASE <<d, k>> # <<c, key>>
    <3>1. n \notin MadeFor(d, k)'
      BY <2>5, <1>9 DEF MadeFor
    <3>2. MadeFor(d, k)' \subseteq MadeFor(d, k)
      BY <2>2, <3>1
    <3> QED BY <2>3, <3>2
  <2> QED BY <2>4, <2>5
<1>12. EntriesOK(instances', objects')
  <2>1. EntriesOK(instances, objects')
    BY <1>7, EntriesKept DEF CallsInv
  <2> QED BY <2>1
<1>13. SignaturesOK' /\ (recursed \subseteq Containers \X Keys)'
  <2>1. recursed' \subseteq recursed \cup {<<c, key>>}
    BY <1>1
  <2> QED BY <2>1, <1>2 DEF CallsInv, SignaturesOK
<1> QED BY <1>7, <1>10, <1>11, <1>12, <1>13 DEF CallsInv

-----------------------------------------------------------------------------
(* A creator returns.                                                            *)

\* The object of the innermost call is built, and its key has an entry.
LEMMA ReadyKeeps ==
  ASSUME RegistryInv, CallsInv, NEW o \in Objects, NEW c \in Containers, NEW key \in Keys,
         objects[o].origin = <<c, key>>, objects[o].state = "building",
         UNCHANGED <<signatures, recursed>>, live' = live, names' = names,
         \A d \in Containers, k \in Keys :
            <<d, k>> # <<c, key>> => instances'[d][k] = instances[d][k],
         instances'[c][key] # {}, EntriesOK(instances', objects'), ObjectsOK(objects'),
         Len(objects') = Len(objects),
         \A p \in Objects : /\ objects'[p].origin = objects[p].origin
                            /\ objects'[p].state = IF p = o THEN "built" ELSE objects[p].state,
         CallsOK(stack', objects', live), BuildingRuns(stack', objects')
  PROVE  CallsInv'
<1>1. SignaturesOK' /\ (recursed \subseteq Containers \X Keys)'
  BY DEF CallsInv, SignaturesOK
<1>2. OriginsNamed'
  BY DEF CallsInv, OriginsNamed, Objects
<1>3. MadeOnce'
  <2> SUFFICES ASSUME NEW d \in live, NEW k \in Keys,
                      <<d, k>> \notin recursed, ~Confusable(d, k)', NEW p \in MadeFor(d, k)'
               PROVE  /\ \A q \in MadeFor(d, k)' : q = p
                      /\ objects'[p].state = "building" <=> instances'[d][k] = {}
    BY DEF MadeOnce
  <2>1. d \in Containers
    BY DEF RegistryInv, RegistryTyped
  <2>2. ~Confusable(d, k)
    <3>1. \A l \in Keys : instances[d][l] # {} => instances'[d][l] # {}
      BY <2>1
    <3>2. IsFiniteSet({l \in Keys : instances'[d][l] # {}})
      BY <2>1 DEF EntriesOK
    <3> QED BY <2>1, <3>1, <3>2, ConfusedStays
  <2>3. MadeFor(d, k)' = MadeFor(d, k)
    BY DEF MadeFor, Objects
  <2>4. \A q \in MadeFor(d, k) :
            /\ q = p
            /\ objects[q].state = "building" <=> instances[d][k] = {}
    BY <2>1, <2>2, <2>3 DEF CallsInv, MadeOnce
  <2>5. p \in Objects /\ objects[p].origin = <<d, k>>
    BY <2>3 DEF MadeFor
  <2>6. objects'[p].state = "building" <=> instances'[d][k] = {}
    <3>1. CASE <<d, k>> = <<c, key>>
      <4>1. o \in MadeFor(d, k)
        BY <3>1 DEF MadeFor
      <4>2. p = o
        BY <4>1, <2>4
      <4> QED BY <4>2, <3>1
    <3>2. CASE <<d, k>> # <<c, key>>
      <4>1. p # o /\ instances'[d][k] = instances[d][k]
        BY <3>2, <2>1, <2>5
      <4> QED BY <4>1, <2>3, <2>4, <2>5
    <3> QED BY <3>1, <3>2
  <2> QED BY <2>3, <2>4, <2>6
<1> QED BY <1>1, <1>2, <1>3 DEF CallsInv

\* What insert leaves in the entry: what was there, or the new object as well.
LEMMA InsertFacts ==
  ASSUME NEW c, NEW key, NEW o, NEW e \in Insert(c, key, o)
  PROVE  /\ e # {} /\ e \subseteq instances[c][key] \cup {o}
         /\ instances[c][key] \subseteq e
         /\ instances[c][key] # {} /\ ~Confusable(c, key) => e = instances[c][key]
         /\ instances[c][key] = {} => e = {o}
BY DEF Insert

\* The rest of a stack whose innermost frame was an injection of o.
LEMMA BuiltBelow ==
  ASSUME CallsInv, Injecting, Below # <<>>, NEW objs2, objs2 = SetBuilt(objects, Top.obj)
  PROVE  /\ ObjectsOK(objs2) /\ CallsOK(Below, objs2, live) /\ BuildingRuns(Below, objs2)
         /\ Len(objs2) = Len(objects) /\ Top.obj \in Objects
         /\ \A p \in Objects :
              /\ objs2[p].type = objects[p].type
              /\ objs2[p].origin = objects[p].origin /\ objs2[p].pawns = objects[p].pawns
              /\ objs2[p].state = IF p = Top.obj THEN "built" ELSE objects[p].state
         /\ Complete(Top.obj, objs2) /\ Grows(Below, objects, objs2)
<1>1. /\ Top.obj \in 1..Len(objects) /\ CallsOK(Below, objects, live)
      /\ Running(stack) = Running(Below) \cup {Top.obj} /\ Top.obj \notin Running(Below)
  BY InjectingFacts DEF CallsInv, Objects
<1>2. ObjectsOK(objects)
  BY DEF CallsInv
<1>3. /\ ObjectsOK(objs2) /\ Grows(Below, objects, objs2)
      /\ Len(objects) \in Nat /\ Len(objs2) = Len(objects)
      /\ objs2[Top.obj].state = "built" /\ objs2[Top.obj].type = objects[Top.obj].type
      /\ objs2[Top.obj].origin = objects[Top.obj].origin
      /\ objs2[Top.obj].pawns = objects[Top.obj].pawns
      /\ \A y \in 1..Len(objects) : y # Top.obj => objs2[y] = objects[y]
  BY <1>1, <1>2, ObjectBuilt
<1>4. CallsOK(Below, objs2, live)
  BY <1>1, <1>3, CallsKept
<1>5. BuildingRuns(Below, objs2)
  BY <1>1, <1>3 DEF BuildingRuns, CallsInv
<1>6. \A p \in Objects :
              /\ objs2[p].type = objects[p].type
              /\ objs2[p].origin = objects[p].origin /\ objs2[p].pawns = objects[p].pawns
              /\ objs2[p].state = IF p = Top.obj THEN "built" ELSE objects[p].state
  BY <1>3 DEF Objects
<1> QED BY <1>1, <1>3, <1>4, <1>5, <1>6 DEF Complete, Objects

\* The call of get_or_add that made the object, and the injection it is for.
LEMMA CreatorFacts ==
  ASSUME RegistryInv, CallsInv, Injecting, Below # <<>>
  PROVE  LET g == Head(Below)
             below == Tail(Below)
         IN  /\ g \in GetFrames /\ g \in Frame /\ g.op = "get"
             /\ g.cont \in live /\ g.cont \in Containers /\ g.key \in Keys /\ g.at \in Nat \ {0}
             /\ objects[Top.obj].origin = <<g.cont, g.key>>
             /\ objects[Top.obj].state = "building"
             /\ Top.obj \in Objects /\ Top.obj \in Nat /\ Top.obj # Null
             /\ below \in Seq(Frame) /\ Running(Below) = Running(below)
             /\ below # <<>> =>
                  /\ Head(below) \in InjectFrames /\ Head(below).op = "inject"
                  /\ Head(below).obj \in Objects /\ Head(below).obj # Top.obj
                  /\ Head(below).field \in PawnFields(objects[Head(below).obj].type)
                  /\ Head(below).field \in Field /\ Head(below).field.name \in FieldNames
<1> DEFINE g == Head(Below)
           below == Tail(Below)
<1>1. CallsOK(stack, objects, live) /\ ObjectsOK(objects) /\ Len(objects) \in Nat
  BY DEF CallsInv, ObjectsOK
<1>2. /\ g \in GetFrames /\ g.op = "get" /\ g.cont \in live
      /\ objects[Top.obj].origin = <<g.cont, g.key>> /\ objects[Top.obj].state = "building"
      /\ Top.obj \in Objects /\ CallsOK(Below, objects, live) /\ Below \in Seq(Frame)
      /\ Top.obj \notin Running(Below)
  BY <1>1, InjectingFacts
<1>3. g.cont \in Containers /\ g.key \in Keys /\ g.at \in Nat \ {0}
  BY <1>2 DEF GetFrames
<1>4. /\ g \in Frame /\ below \in Seq(Frame) /\ CallsOK(below, objects, live)
      /\ below # <<>> => MadeBy(g, Head(below), objects)
  BY <1>2, CallBelow
<1>5. Running(Below) = Running(below)
  BY <1>2, RunningPop
<1>6. Top.obj \in Nat /\ Top.obj # Null
  BY <1>1, <1>2 DEF Objects, Null
<1> HIDE DEF g, below
<1>7. ASSUME below # <<>>
      PROVE  /\ Head(below) \in InjectFrames /\ Head(below).op = "inject"
             /\ Head(below).obj \in Objects /\ Head(below).obj # Top.obj
             /\ Head(below).field \in PawnFields(objects[Head(below).obj].type)
             /\ Head(below).field \in Field /\ Head(below).field.name \in FieldNames
  <2>1. /\ Head(below).op = "inject" /\ Head(below) \in Frame
        /\ CallOK(Head(below), objects, live)
        /\ Head(below).field \in PawnFields(objects[Head(below).obj].type)
    BY <1>2, <1>4, <1>7, CallBelow DEF MadeBy
  <2>2. Head(below) \in InjectFrames /\ Head(below).obj \in Objects
    BY <2>1, FrameFields DEF CallOK, Objects
  <2>3. objects[Head(below).obj].type \in Types
    BY <1>1, <2>2, ObjectFields DEF ObjectsOK, Objects
  <2>4. Head(below).field \in Field
    BY <2>1, <2>3, PawnFieldsTyped
  <2>5. Head(below).field.name \in FieldNames
    BY <2>4 DEF Field
  <2>6. Head(below).obj \in Running(below)
    BY <1>4, <1>7, <2>1, RunningPop
  <2> QED BY <2>1, <2>2, <2>4, <2>5, <2>6, <1>2, <1>5
<1> QED BY <1>2, <1>3, <1>4, <1>5, <1>6, <1>7 DEF g, below

\* An entry changes in one place.
SetEntry(entries, c, key, e) == [entries EXCEPT ![c][key] = e]

LEMMA EntrySet ==
  ASSUME NEW entries, NEW objs, EntriesOK(entries, objs), NEW c \in Containers,
         NEW key \in Keys, NEW e \in SUBSET Nat, \A o \in e : o # Null /\ Complete(o, objs),
         NEW entries2, entries2 = SetEntry(entries, c, key, e)
  PROVE  /\ EntriesOK(entries2, objs) /\ entries2[c][key] = e
         /\ \A d \in Containers, k \in Keys :
               <<d, k>> # <<c, key>> => entries2[d][k] = entries[d][k]
<1>1. /\ entries2 \in [Containers -> [Keys -> SUBSET Nat]] /\ entries2[c][key] = e
      /\ \A d \in Containers, k \in Keys :
               <<d, k>> # <<c, key>> => entries2[d][k] = entries[d][k]
  BY DEF EntriesOK, SetEntry
<1>2. ASSUME NEW d \in Containers, NEW k \in Keys, NEW o \in entries2[d][k]
      PROVE  o # Null /\ Complete(o, objs)
  BY <1>1, <1>2 DEF EntriesOK
<1>3. ASSUME NEW d \in Containers
      PROVE  IsFiniteSet({k \in Keys : entries2[d][k] # {}})
  <2> DEFINE E == {k \in Keys : entries[d][k] # {}}
             F == {k \in Keys : entries2[d][k] # {}}
  <2>1. IsFiniteSet(E \cup {key})
    BY FS_AddElement DEF EntriesOK
  <2>2. F \subseteq E \cup {key}
    BY <1>1
  <2> QED BY <2>1, <2>2, FS_Subset
<1> QED BY <1>1, <1>2, <1>3 DEF EntriesOK

\* The call below learns of an object that came second.
Second(g, o) == [g EXCEPT !.at = @ + 1, !.result = o]

LEMMA SecondFacts ==
  ASSUME NEW g \in GetFrames, NEW o \in Nat
  PROVE  /\ Second(g, o) \in Frame /\ Second(g, o).op = "get"
         /\ Second(g, o).cont = g.cont /\ Second(g, o).key = g.key
         /\ Second(g, o).at = g.at + 1 /\ Second(g, o).result = o
<1> DEFINE k == g.at + 1
<1>1. g.at \in Nat \ {0}
  BY DEF GetFrames
<1>2. k \in Nat \ {0}
  BY <1>1
<1>3. Second(g, o) = [g EXCEPT !.at = k, !.result = o]
  BY DEF Second
<1> HIDE DEF k
<1>4. Second(g, o) \in GetFrames
  BY <1>2, <1>3 DEF GetFrames
<1>5. /\ Second(g, o).op = "get" /\ Second(g, o).cont = g.cont /\ Second(g, o).key = g.key
      /\ Second(g, o).at = k /\ Second(g, o).result = o
  BY <1>3 DEF GetFrames
<1> QED BY <1>4, <1>5 DEF k, Frame

\* What InstanceReady does, in one of two ways.
LEMMA InstanceReadyCases ==
  ASSUME RegistryInv, CallsInv, InstanceReady
  PROVE  /\ Injected /\ Below # <<>>
         /\ UNCHANGED <<names, live, registered, signatures, recursed>>
         /\ LET g == Head(Below)
                below == Tail(Below)
                o == Top.obj
            IN \E found \in Find(g.cont, g.key) :
               \/ /\ found = Null /\ stack' = below
                  /\ \E e \in Insert(g.cont, g.key, o) :
                         instances' = SetEntry(instances, g.cont, g.key, e)
                  /\ below = <<>> => objects' = SetBuilt(objects, o)
                  /\ below # <<>> => objects' = SetPawn(SetBuilt(objects, o), Head(below).obj,
                                                        Head(below).field.name, o)
               \/ /\ found # Null /\ stack' = <<Second(g, o)>> \o below
                  /\ objects' = SetBuilt(objects, o) /\ instances' = instances
<1> DEFINE g == Head(Below)
           below == Tail(Below)
           o == Top.obj
<1>1. /\ Injected /\ Below # <<>>
      /\ UNCHANGED <<names, live, registered, signatures, recursed>>
  BY DEF InstanceReady
<1>2. PICK found \in Find(g.cont, g.key) :
        IF found = Null
        THEN /\ \E e \in Insert(g.cont, g.key, o) :
                    instances' = [instances EXCEPT ![g.cont][g.key] = e]
             /\ stack' = below
             /\ objects' = IF below = <<>> THEN [objects EXCEPT ![o].state = "built"]
                           ELSE [[objects EXCEPT ![o].state = "built"]
                                   EXCEPT ![Head(below).obj].pawns[Head(below).field.name] = o]
        ELSE /\ stack' = <<[g EXCEPT !.at = @ + 1, !.result = o]>> \o below
             /\ objects' = [objects EXCEPT ![o].state = "built"] /\ UNCHANGED instances
  BY DEF InstanceReady, Built
<1>3. CASE found = Null
  BY <1>1, <1>2, <1>3 DEF SetEntry, SetBuilt, SetPawn
<1>4. CASE found # Null
  BY <1>1, <1>2, <1>4 DEF SetBuilt, Second
<1> QED BY <1>3, <1>4

LEMMA InstanceReadyKeeps ==
  ASSUME RegistryInv, CallsInv, InstanceReady
  PROVE  CallsInv'
<1> DEFINE g == Head(Below)
           below == Tail(Below)
           o == Top.obj
           c == g.cont
           key == g.key
           done == SetBuilt(objects, o)
<1>1. /\ Injecting /\ Below # <<>> /\ live' = live /\ names' = names
      /\ UNCHANGED <<signatures, recursed>>
  BY InstanceReadyCases DEF Injected
<1>2. PICK found \in Find(c, key) :
        \/ /\ found = Null /\ stack' = below
           /\ \E e \in Insert(c, key, o) : instances' = SetEntry(instances, c, key, e)
           /\ below = <<>> => objects' = done
           /\ below # <<>> => objects' = SetPawn(done, Head(below).obj, Head(below).field.name, o)
        \/ /\ found # Null /\ stack' = <<Second(g, o)>> \o below
           /\ objects' = done /\ instances' = instances
  BY InstanceReadyCases
<1>3. /\ g \in GetFrames /\ g \in Frame /\ g.op = "get"
      /\ c \in live /\ c \in Containers /\ key \in Keys /\ g.at \in Nat \ {0}
      /\ objects[o].origin = <<c, key>> /\ objects[o].state = "building"
      /\ o \in Objects /\ o \in Nat /\ o # Null
      /\ below \in Seq(Frame) /\ Running(Below) = Running(below)
      /\ below # <<>> =>
           /\ Head(below) \in InjectFrames /\ Head(below).op = "inject"
           /\ Head(below).obj \in Objects /\ Head(below).obj # o
           /\ Head(below).field \in PawnFields(objects[Head(below).obj].type)
           /\ Head(below).field \in Field /\ Head(below).field.name \in FieldNames
  BY <1>1, CreatorFacts
<1>4. /\ ObjectsOK(done) /\ CallsOK(Below, done, live) /\ BuildingRuns(Below, done)
      /\ Len(done) = Len(objects) /\ Len(objects) \in Nat
      /\ \A p \in Objects :
              /\ done[p].type = objects[p].type
              /\ done[p].origin = objects[p].origin /\ done[p].pawns = objects[p].pawns
              /\ done[p].state = IF p = o THEN "built" ELSE objects[p].state
      /\ Complete(o, done) /\ Grows(Below, objects, done)
  <2>1. Len(objects) \in Nat
    BY DEF CallsInv, ObjectsOK
  <2> HIDE DEF done
  <2>2. done = SetBuilt(objects, o)
    BY DEF done
  <2> QED BY <1>1, <2>1, <2>2, BuiltBelow
<1>5. /\ CallsOK(below, done, live)
      /\ CallOK(g, done, live)
      /\ below = <<>> => MadeByClient(g, done)
      /\ below # <<>> => MadeBy(g, Head(below), done)
  BY <1>1, <1>4, CallBelow
<1>6. EntriesOK(instances, done)
  BY <1>4, EntriesKept DEF CallsInv
<1> HIDE DEF g, below, o, c, key, done
<1>7. CASE found = Null
  <2>1. stack' = below
    BY <1>2, <1>7
  <2>2. PICK e \in Insert(c, key, o) : instances' = SetEntry(instances, c, key, e)
    BY <1>2, <1>7
  <2>3. e # {} /\ e \subseteq instances[c][key] \cup {o}
    BY InsertFacts
  <2>4. /\ EntriesOK(instances', done) /\ instances'[c][key] = e
        /\ \A d \in Containers, k \in Keys :
               <<d, k>> # <<c, key>> => instances'[d][k] = instances[d][k]
    <3>1. e \in SUBSET Nat /\ \A x \in e : x # Null /\ Complete(x, done)
      BY <2>3, <1>3, <1>4, <1>6 DEF EntriesOK
    <3>2. c \in Containers /\ key \in Keys /\ EntriesOK(instances, done)
      BY <1>3, <1>6
    <3>3. EntriesOK(instances', done)
      BY ONLY <3>1, <3>2, <2>2, EntrySet
    <3>4. instances'[c][key] = e
      BY ONLY <3>1, <3>2, <2>2, EntrySet
    <3>5. \A d \in Containers, k \in Keys :
               <<d, k>> # <<c, key>> => instances'[d][k] = instances[d][k]
      BY ONLY <3>1, <3>2, <2>2, EntrySet
    <3> QED BY ONLY <3>3, <3>4, <3>5
  <2>5. ObjectsOK(objects') /\ SameStates(done, objects') /\ CallsOK(below, objects', live)
    <3>1. CASE below = <<>>
      <4>1. objects' = done
        BY <1>2, <1>7, <3>1
      <4> QED BY <4>1, <1>4, <1>5 DEF SameStates
    <3>2. CASE below # <<>>
      <4>1. objects' = SetPawn(done, Head(below).obj, Head(below).field.name, o)
        BY <1>2, <1>7, <3>2
      <4>2. Head(below).obj \in 1..Len(done)
        BY <3>2, <1>3, <1>4 DEF Objects
      <4> QED BY <3>2, <4>1, <4>2, <1>3, <1>4, <1>5, PawnWritten
    <3> QED BY <3>1, <3>2
  <2>6. EntriesOK(instances', objects')
    <3>1. Grows(<<>>, done, objects')
      BY <2>5, SameGrows
    <3> QED BY <3>1, <2>4, EntriesKept
  <2>7. /\ Len(objects') = Len(objects)
        /\ \A p \in Objects : /\ objects'[p].origin = objects[p].origin
                              /\ objects'[p].state = IF p = o THEN "built" ELSE objects[p].state
    BY <2>5, <1>4 DEF SameStates, Objects
  <2>8. BuildingRuns(stack', objects')
    BY <2>1, <2>5, <1>3, <1>4 DEF BuildingRuns, SameStates, below
  <2>9. CallsOK(stack', objects', live) /\ instances'[c][key] # {}
    BY <2>1, <2>3, <2>4, <2>5
  <2> QED BY <1>1, <1>3, <2>4, <2>5, <2>6, <2>7, <2>8, <2>9, ReadyKeeps
<1>8. CASE found # Null
  <2>1. stack' = <<Second(g, o)>> \o below /\ objects' = done /\ instances' = instances
    BY <1>2, <1>8
  <2>2. instances[c][key] # {}
    BY <1>3, <1>8, FoundIsComplete
  <2> DEFINE f == Second(g, o)
  <2>3. f \in Frame /\ f.op = "get" /\ f.cont = c /\ f.key = key /\ f.result = o
    BY <1>3, SecondFacts DEF c, key
  <2> HIDE DEF f
  <2>4. CallOK(f, done, live)
    BY <2>3, <1>3, <1>4 DEF CallOK
  <2>5. /\ below = <<>> => MadeByClient(f, done)
        /\ below # <<>> => MadeBy(f, Head(below), done)
    BY <2>3, <1>3, <1>5 DEF MadeByClient, MadeBy
  <2>6. CallsOK(<<f>> \o below, done, live)
    BY <2>3, <2>4, <2>5, <1>5, CallsPush
  <2>7. Running(<<f>> \o below) = Running(below)
    BY <2>3, <1>3, RunningPush
  <2>8. BuildingRuns(<<f>> \o below, done)
    BY <2>7, <1>3, <1>4 DEF BuildingRuns, below
  <2>9. stack' = <<f>> \o below
    BY <2>1 DEF f
  <2>10. /\ CallsOK(stack', objects', live) /\ BuildingRuns(stack', objects')
         /\ EntriesOK(instances', objects') /\ ObjectsOK(objects')
         /\ Len(objects') = Len(objects)
         /\ \A p \in Objects : /\ objects'[p].origin = objects[p].origin
                               /\ objects'[p].state = IF p = o THEN "built" ELSE objects[p].state
    BY <2>1, <2>6, <2>8, <2>9, <1>4, <1>6
  <2>11. /\ \A d \in Containers, k \in Keys :
               <<d, k>> # <<c, key>> => instances'[d][k] = instances[d][k]
         /\ instances'[c][key] # {}
    BY <2>1, <2>2
  <2> QED BY <1>1, <1>3, <2>10, <2>11, ReadyKeeps
<1> QED BY <1>7, <1>8

-----------------------------------------------------------------------------
(* What the calls keep, at every step.                                           *)

LEMMA CallsInit == Init => CallsInv
<1> SUFFICES ASSUME Init PROVE CallsInv
  OBVIOUS
<1>1. /\ objects = <<>> /\ stack = <<>> /\ recursed = {} /\ live = {}
      /\ signatures = [c \in Containers |-> <<>>]
      /\ instances = [c \in Containers |-> [key \in Keys |-> {}]]
  BY DEF Init
<1>2. Len(objects) = 0 /\ Objects = {} /\ objects \in Seq(ObjectRecords)
  BY <1>1 DEF Objects
<1>3. ObjectsOK(objects) /\ BuildingRuns(stack, objects) /\ OriginsNamed
  BY <1>2 DEF ObjectsOK, BuildingRuns, OriginsNamed, Objects
<1>4. EntriesOK(instances, objects)
  <2>1. \A c \in Containers : {key \in Keys : instances[c][key] # {}} = {}
    BY <1>1
  <2>2. \A c \in Containers : IsFiniteSet({key \in Keys : instances[c][key] # {}})
    BY <2>1, FS_EmptySet
  <2> QED BY <1>1, <2>2 DEF EntriesOK
<1>5. SignaturesOK
  <2>1. <<>> \in Seq(BoundSignature)
    OBVIOUS
  <2> QED BY <1>1, <2>1 DEF SignaturesOK
<1>6. MadeOnce
  BY <1>1 DEF MadeOnce
<1>7. CallsOK(stack, objects, live)
  BY <1>1, CallsNone
<1> QED BY <1>1, <1>3, <1>4, <1>5, <1>6, <1>7 DEF CallsInv

LEMMA CallsStutter ==
  ASSUME CallsInv, UNCHANGED vars
  PROVE  CallsInv'
<1>1. UNCHANGED <<names, live, signatures, instances, objects, stack, recursed>>
  BY DEF vars
<1>2. \A c, key : MadeFor(c, key)' = MadeFor(c, key) /\ (Confusable(c, key)' <=> Confusable(c, key))
  BY <1>1 DEF MadeFor, Confusable, Objects
<1>3. MadeOnce'
  BY <1>1, <1>2 DEF CallsInv, MadeOnce
<1>4. SignaturesOK' /\ OriginsNamed'
  BY <1>1 DEF CallsInv, SignaturesOK, OriginsNamed, Objects
<1> QED BY <1>1, <1>3, <1>4 DEF CallsInv

LEMMA GetOrAddKeeps ==
  ASSUME RegistryInv, CallsInv, SingletonGetOrAdd \/ NameletonGetOrAdd
  PROVE  CallsInv'
<1>1. /\ Serving /\ (FindInstance \/ EndOfSignatures \/ CallCreator)
      /\ UNCHANGED <<names, live, registered, signatures, instances>>
  BY DEF SingletonGetOrAdd, NameletonGetOrAdd
<1> QED BY <1>1, FindInstanceKeeps, EndOfSignaturesKeeps, CallCreatorKeeps

LEMMA CallsStep == RegistryInv /\ CallsInv /\ [Next]_vars => CallsInv'
<1> SUFFICES ASSUME RegistryInv, CallsInv, [Next]_vars PROVE CallsInv'
  OBVIOUS
<1>1. CASE UNCHANGED vars
  BY <1>1, CallsStutter
<1>2. CASE Continue
  BY <1>2, GetOrAddKeeps, NextFieldKeeps, ThrowKeeps, InjectFieldKeeps, InjecteeReadyKeeps,
     InstanceReadyKeeps DEF Continue
<1>3. CASE \E t \in Types : NewInjectee(t)
  BY <1>3, NewInjecteeKeeps
<1>4. CASE \E o \in Objects : InjectDependencies(o)
  BY <1>4, InjectDependenciesKeeps
<1>5. ASSUME NEW c \in Containers, NEW n \in Names, Construct(c, n) PROVE CallsInv'
  BY <1>5, ConstructCalls
<1>6. ASSUME NEW c \in Containers, Destruct(c) PROVE CallsInv'
  BY <1>6, DestructCalls
<1>7. ASSUME NEW c \in Containers, BindSingleton(c) \/ BindNameleton(c) PROVE CallsInv'
  BY <1>7, BindKeeps
<1>8. ASSUME NEW c \in Containers,
             \/ CreateBoundSingleton(c) \/ CreateBoundNameleton(c)
             \/ \E t \in Types : GetSingleton(c, t)
             \/ \E t \in Types, l \in Labels : GetNameleton(c, t, l)
      PROVE  CallsInv'
  BY <1>8, GetKeeps
<1>9. CASE Next
  BY <1>9, <1>2, <1>3, <1>4, <1>5, <1>6, <1>7, <1>8 DEF Next
<1> QED BY <1>1, <1>9

LEMMA CallsInvariance == Spec => [](RegistryInv /\ CallsInv)
<1>1. Init => RegistryInv /\ CallsInv
  BY RegistryInit, CallsInit
<1>2. (RegistryInv /\ CallsInv) /\ [Next]_vars => (RegistryInv /\ CallsInv)'
  BY RegistryStep, CallsStep
<1> QED BY <1>1, <1>2, PTL DEF Spec

(* Every variable of DiContainer has its type; the calls in progress are on live  *)
(* containers and known objects.                                                  *)
THEOREM TypeCorrect == Spec => []TypeOK
<1>1. ASSUME RegistryInv, CallsInv PROVE TypeOK
  <2>1. /\ names \in [Containers -> Names \cup {Unnamed}] /\ live \subseteq Containers
        /\ registered \in [Names -> Containers \cup {NoContainer}]
    BY <1>1 DEF RegistryInv, RegistryTyped
  <2>2. \A c \in Containers : \A i \in 1..Len(signatures[c]) : signatures[c][i] \in Signature
    BY <1>1, SignatureFields DEF CallsInv, SignaturesOK
  <2>3. instances \in [Containers -> [Keys -> SUBSET Objects]]
    <3>1. \A c \in Containers, key \in Keys : instances[c][key] \subseteq Objects
      BY <1>1 DEF CallsInv, EntriesOK, Complete, Objects
    <3> QED BY <3>1, <1>1 DEF CallsInv, EntriesOK
  <2>4. ASSUME NEW o \in Objects
        PROVE  /\ objects[o].type \in Types
               /\ objects[o].state \in {"building", "built", "abandoned"}
               /\ objects[o].pawns \in [FieldNames -> Objects \cup {Null}]
    <3>1. objects[o] \in ObjectRecords
      BY <1>1 DEF CallsInv, ObjectsOK, Objects
    <3>2. \A n \in FieldNames : objects[o].pawns[n] \in Objects \cup {Null}
      BY <1>1 DEF CallsInv, ObjectsOK, Objects, Complete
    <3>3. objects[o].pawns \in [FieldNames -> Nat]
      BY <3>1, ObjectFields
    <3> QED BY <3>1, <3>2, <3>3, ObjectFields
  <2>5. ASSUME NEW i \in 1..Len(stack)
        PROVE  \/ stack[i].op = "get" /\ stack[i].cont \in live /\ stack[i].key \in Keys
               \/ stack[i].op = "inject" /\ stack[i].obj \in Objects
    <3>1. stack[i] \in Frame /\ CallOK(stack[i], objects, live)
      BY <1>1 DEF CallsInv, CallsOK
    <3> QED BY <3>1, FrameFields DEF CallOK, Objects
  <2> QED BY <1>1, <2>1, <2>2, <2>3, <2>4, <2>5 DEF TypeOK, CallsInv
<1> QED BY <1>1, CallsInvariance, PTL

(* No entry of a container and no pawn holds an object whose constructor has not  *)
(* ended, in whatever recursion of creators, exceptions and re-injections.        *)
THEOREM NothingHalfBuilt == Spec => []OnlyCompleteInstances
<1>1. ASSUME CallsInv PROVE OnlyCompleteInstances
  <2>1. \A c \in Containers, key \in Keys : \A o \in instances[c][key] :
            o = Null \/ objects[o].state = "built"
    BY <1>1 DEF CallsInv, EntriesOK, Complete
  <2>2. \A o \in Objects, n \in FieldNames :
            objects[o].pawns[n] = Null \/ objects[objects[o].pawns[n]].state = "built"
    BY <1>1 DEF CallsInv, ObjectsOK, Complete, Objects
  <2> QED BY <2>1, <2>2 DEF OnlyCompleteInstances
<1> QED BY <1>1, CallsInvariance, PTL

(* get_or_add makes one instance of a key however deep the calls are, as long as  *)
(* the key's creator did not ask for it again and the order of nameletons holds.  *)
THEOREM OneInstancePerKey == Spec => []OneInstanceUnlessRecursive
<1>1. ASSUME CallsInv PROVE OneInstanceUnlessRecursive
  <2> SUFFICES ASSUME NEW c \in live, NEW key \in Keys,
                      <<c, key>> \notin recursed, ~Confusable(c, key)
               PROVE  Cardinality(MadeFor(c, key)) <= 1
    BY DEF OneInstanceUnlessRecursive
  <2>1. \A o, p \in MadeFor(c, key) : p = o
    BY <1>1 DEF CallsInv, MadeOnce
  <2>2. CASE MadeFor(c, key) = {}
    BY <2>2, FS_EmptySet
  <2>3. CASE MadeFor(c, key) # {}
    <3>1. PICK o : o \in MadeFor(c, key)
      BY <2>3
    <3>2. MadeFor(c, key) = {o}
      BY <2>1, <3>1
    <3>3. Cardinality({o}) = 1
      BY FS_Singleton
    <3> QED BY <3>2, <3>3
  <2> QED BY <2>2, <2>3
<1> QED BY <1>1, CallsInvariance, PTL

-----------------------------------------------------------------------------
(* Entries, step by step.                                                        *)

LEMMA OnlyReadyInserts ==
  ASSUME Next, ~InstanceReady, ~\E c \in Containers : Destruct(c)
  PROVE  instances' = instances
<1>1. CASE Continue
  BY <1>1 DEF Continue, SingletonGetOrAdd, NameletonGetOrAdd, NextField, Throw, InjectField,
     InjecteeReady
<1>2. CASE \E t \in Types : NewInjectee(t)
  BY <1>2 DEF NewInjectee
<1>3. CASE \E o \in Objects : InjectDependencies(o)
  BY <1>3 DEF InjectDependencies
<1>4. ASSUME NEW c \in Containers,
             BindSingleton(c) \/ BindNameleton(c) \/ \E n \in Names : Construct(c, n)
      PROVE  instances' = instances
  BY <1>4 DEF BindSingleton, BindNameleton, BindConcreteSingleton, BindAbstractSingleton,
     BindConcreteNameleton, BindAbstractNameleton, RegisterSignalPack, PushSignature, Construct
<1>5. ASSUME NEW c \in Containers,
             \/ CreateBoundSingleton(c) \/ CreateBoundNameleton(c)
             \/ \E t \in Types : GetSingleton(c, t)
             \/ \E t \in Types, l \in Labels : GetNameleton(c, t, l)
      PROVE  instances' = instances
  BY <1>5 DEF CreateBoundSingleton, CreateBoundNameleton, GetSingleton, GetNameleton
<1> QED BY <1>1, <1>2, <1>3, <1>4, <1>5 DEF Next

(* What a container has registered for a key stays its instance until it dies,    *)
(* whichever of several recursive calls was there first.                          *)
THEOREM RegisteredForLife == Spec => InstancesKept
<1> DEFINE Kept == \A c \in live, key \in Keys :
                      (c \in live' /\ instances[c][key] # {} /\ ~Confusable(c, key))
                          => instances'[c][key] = instances[c][key]
<1>1. ASSUME RegistryInv, CallsInv, [Next]_vars PROVE Kept
  <2> SUFFICES ASSUME NEW c \in live, NEW key \in Keys, c \in live',
                      instances[c][key] # {}, ~Confusable(c, key)
               PROVE  instances'[c][key] = instances[c][key]
    OBVIOUS
  <2>0. c \in Containers
    BY <1>1 DEF RegistryInv, RegistryTyped
  <2>1. CASE InstanceReady
    <3>1. /\ Injecting /\ Below # <<>>
      BY <1>1, <2>1, InstanceReadyCases DEF Injected
    <3> DEFINE d == Head(Below).cont
               k == Head(Below).key
    <3>2. \/ instances' = instances
          \/ \E e \in Insert(d, k, Top.obj) : instances' = SetEntry(instances, d, k, e)
      BY <1>1, <2>1, InstanceReadyCases
    <3>3. d \in Containers /\ k \in Keys
      BY <1>1, <3>1, CreatorFacts
    <3> HIDE DEF d, k
    <3>4. ASSUME NEW e \in Insert(d, k, Top.obj), instances' = SetEntry(instances, d, k, e)
          PROVE  instances'[c][key] = instances[c][key]
      <4>1. instances'[c][key] = IF c = d /\ key = k THEN e ELSE instances[c][key]
        BY <1>1, <2>0, <3>3, <3>4 DEF SetEntry, CallsInv, EntriesOK
      <4>2. c = d /\ key = k => e = instances[c][key]
        BY InsertFacts
      <4> QED BY <4>1, <4>2
    <3> QED BY <3>2, <3>4
  <2>2. ASSUME NEW d \in Containers, Destruct(d)
        PROVE  instances'[c][key] = instances[c][key]
    <3>1. c # d /\ instances' = [instances EXCEPT ![d] = [x \in Keys |-> {}]]
      BY <2>2 DEF Destruct
    <3> QED BY <1>1, <3>1, <2>0 DEF CallsInv, EntriesOK
  <2>3. CASE UNCHANGED vars
    BY <2>3 DEF vars
  <2>4. CASE Next /\ ~InstanceReady /\ ~\E d \in Containers : Destruct(d)
    BY <2>4, OnlyReadyInserts
  <2> QED BY <1>1, <2>1, <2>2, <2>3, <2>4
<1>2. (RegistryInv /\ CallsInv) /\ [Next]_vars => [Kept]_vars
  BY <1>1
<1>3. Spec => [][Kept]_vars
  BY <1>2, CallsInvariance, PTL DEF Spec
<1> QED BY <1>3 DEF InstancesKept

-----------------------------------------------------------------------------
(* What an injection has found when one container is registered. AloneOK is one  *)
(* condition on the calls, the objects, and the answers the container may give.  *)

\* Keys whose entry get_or_add may not have found.
Lost(c) == {k \in Keys : <<c, k>> \in recursed \/ Confusable(c, k)}

\* A key and what a look-up of it in c may return.
Answers(c) ==
    {a \in Keys \X Nat : Matching(c, a[1], 1) # {} =>
        a[2] # Null /\ (a[1] \in Lost(c) \/ a[2] \in instances[c][a[1]])}

\* A guarded constructor did not inject: another one of its type runs below.
Spared(s, i, objs) ==
    \E j \in 1..Len(s) : /\ j > i /\ s[j].op = "inject"
                         /\ objs[s[j].obj].type = objs[s[i].obj].type
                         /\ objs[s[j].obj].state = "building"

\* The injection f is through with its fields, those of except left aside.
FieldsDone(f, objs, answers, except) ==
    \A d \in PawnFields(objs[f.obj].type) \ (f.todo \cup except) :
        <<KeyOf(d), objs[f.obj].pawns[d.name]>> \in answers

\* The injection s[i] has called get_or_add of c for its field.
Asking(c, s, i, objs, answers) ==
    /\ s[i].conts = {}
    /\ Spared(s, i, objs) \/ FieldsDone(s[i], objs, answers, {s[i].field})

\* All calls but the innermost. Of a get_or_add: a result it keeps came second.
AloneBelow(c, s, objs, answers, lost) ==
    /\ \A i \in 2..Len(s) : s[i].op = "inject" =>
        /\ Asking(c, s, i, objs, answers)
        /\ s[i-1].cont = c /\ s[i-1].key = KeyOf(s[i].field)
    /\ \A i \in 1..Len(s) :
        s[i].op = "get" /\ s[i].cont = c /\ s[i].result # Null => s[i].key \in lost

\* The innermost call. A get_or_add that goes on made an object already.
AloneTop(c, s, objs, answers) ==
    /\ s[1].op = "get" => s[1].at = 1 \/ s[1].result # Null
    /\ s[1].op = "inject" =>
        /\ s[1].conts \subseteq {c}
        /\ \/ Spared(s, 1, objs)
           \/ FieldsDone(s[1], objs, answers, IF s[1].conts = {} THEN {} ELSE {s[1].field})

AloneOK(c, s, objs, answers, lost) ==
    /\ AloneBelow(c, s, objs, answers, lost)
    /\ s # <<>> => AloneTop(c, s, objs, answers)

AloneInv ==
    \A c \in Containers :
        Registered = {c} => AloneOK(c, stack, objects, Answers(c), Lost(c))

\* An answer stays one while no entry is taken away.
LEMMA AnswersStay ==
  ASSUME NEW c \in Containers, UNCHANGED signatures, recursed \subseteq recursed',
         \A k \in Keys : instances[c][k] \subseteq instances'[c][k],
         IsFiniteSet({k \in Keys : instances'[c][k] # {}})
  PROVE  Lost(c) \subseteq Lost(c)' /\ Answers(c) \subseteq Answers(c)'
<1>1. \A k \in Keys : Confusable(c, k) => Confusable(c, k)'
  <2>1. \A k \in Keys : instances[c][k] # {} => instances'[c][k] # {}
    OBVIOUS
  <2> QED BY <2>1, ConfusedStays
<1>2. \A k \in Keys : k \in Lost(c) => k \in Lost(c)'
  BY <1>1 DEF Lost
<1>3. Lost(c) \subseteq Lost(c)'
  BY <1>2 DEF Lost
<1>4. \A k : Matching(c, k, 1)' = Matching(c, k, 1)
  BY DEF Matching
<1>5. ASSUME NEW k \in Keys, NEW o \in Nat, <<k, o>> \in Answers(c)
      PROVE  <<k, o>> \in Answers(c)'
  <2>1. Matching(c, k, 1) # {} => o # Null /\ (k \in Lost(c) \/ o \in instances[c][k])
    BY <1>5 DEF Answers
  <2>2. Matching(c, k, 1)' # {} => o # Null /\ (k \in Lost(c)' \/ o \in instances'[c][k])
    BY <2>1, <1>3, <1>4
  <2> QED BY <2>2 DEF Answers
<1>6. Answers(c) \subseteq Keys \X Nat
  BY DEF Answers
<1> QED BY <1>3, <1>5, <1>6

\* Objects below the innermost call stay as they are.
LEMMA SparedKept ==
  ASSUME NEW s, NEW objs, NEW alive, CallsOK(s, objs, alive), NEW objs2, Grows(s, objs, objs2),
         NEW i \in 1..Len(s), s[i].op = "inject", Spared(s, i, objs)
  PROVE  Spared(s, i, objs2)
<1>1. PICK j \in 1..Len(s) : /\ j > i /\ s[j].op = "inject"
                             /\ objs[s[j].obj].type = objs[s[i].obj].type
                             /\ objs[s[j].obj].state = "building"
  BY DEF Spared
<1>2. s[i].obj \in 1..Len(objs) /\ s[j].obj \in 1..Len(objs)
  BY <1>1 DEF CallsOK, CallOK
<1>3. /\ objs2[s[i].obj].type = objs[s[i].obj].type
      /\ objs2[s[j].obj].type = objs[s[j].obj].type
      /\ objs2[s[j].obj].state = objs[s[j].obj].state
  BY <1>1, <1>2 DEF Grows
<1> QED BY <1>1, <1>3 DEF Spared

LEMMA AloneBelowKept ==
  ASSUME NEW c, NEW s, NEW objs, NEW alive, CallsOK(s, objs, alive),
         NEW objs2, Grows(s, objs, objs2),
         \A i \in 2..Len(s) : s[i].op = "inject" => objs2[s[i].obj].pawns = objs[s[i].obj].pawns,
         NEW answers, NEW answers2, answers \subseteq answers2,
         NEW lost, NEW lost2, lost \subseteq lost2,
         AloneBelow(c, s, objs, answers, lost)
  PROVE  AloneBelow(c, s, objs2, answers2, lost2)
<1>1. ASSUME NEW i \in 2..Len(s), s[i].op = "inject"
      PROVE  Asking(c, s, i, objs2, answers2)
  <2>1. Len(s) \in Nat /\ i \in 1..Len(s)
    BY DEF CallsOK
  <2>2. Asking(c, s, i, objs, answers)
    BY <1>1 DEF AloneBelow
  <2>3. s[i].obj \in 1..Len(objs)
    BY <1>1, <2>1 DEF CallsOK, CallOK
  <2>4. objs2[s[i].obj].type = objs[s[i].obj].type /\ objs2[s[i].obj].pawns = objs[s[i].obj].pawns
    BY <1>1, <2>3 DEF Grows
  <2>5. Spared(s, i, objs) => Spared(s, i, objs2)
    BY <1>1, <2>1, SparedKept
  <2>6. FieldsDone(s[i], objs, answers, {s[i].field})
            => FieldsDone(s[i], objs2, answers2, {s[i].field})
    BY <2>4 DEF FieldsDone
  <2> QED BY <2>2, <2>5, <2>6 DEF Asking
<1> QED BY <1>1 DEF AloneBelow

\* The innermost call is dropped: what was asking is the innermost now.
LEMMA AlonePop ==
  ASSUME NEW c, NEW s, NEW objs, NEW alive, CallsOK(s, objs, alive), s # <<>>,
         NEW answers, NEW lost, AloneBelow(c, s, objs, answers, lost)
  PROVE  /\ AloneBelow(c, Tail(s), objs, answers, lost)
         /\ Tail(s) # <<>> /\ Head(Tail(s)).op = "inject" =>
              /\ Head(s).cont = c /\ Head(s).key = KeyOf(Head(Tail(s)).field)
              /\ Asking(c, Tail(s), 1, objs, answers)
<1> DEFINE r == Tail(s)
           n == Len(s)
<1>1. /\ n \in Nat /\ n >= 1 /\ r \in Seq(Frame) /\ Len(r) = n - 1 /\ Head(s) = s[1]
      /\ \A i \in 1..(n - 1) : r[i] = s[i+1]
      /\ r # <<>> => Head(r) = s[2] /\ n >= 2
  BY PopFacts DEF CallsOK
<1> HIDE DEF r, n
<1>2. \A i \in 1..(n - 1) : i + 1 \in 1..n /\ (i + 1) - 1 = i /\ i + 1 \in 2..n
  BY <1>1
<1>3. ASSUME NEW i \in 1..(n - 1), Spared(s, i + 1, objs) PROVE Spared(r, i, objs)
  <2>1. PICK j \in 1..n : /\ j > i + 1 /\ s[j].op = "inject"
                          /\ objs[s[j].obj].type = objs[s[i+1].obj].type
                          /\ objs[s[j].obj].state = "building"
    BY <1>3 DEF Spared, n
  <2>2. j - 1 \in 1..(n - 1) /\ (j - 1) + 1 = j /\ j - 1 > i
    BY <1>1, <2>1
  <2>3. r[j-1] = s[j] /\ r[i] = s[i+1]
    BY <2>2, <1>1
  <2> QED BY <2>1, <2>2, <2>3, <1>1 DEF Spared
<1>4. ASSUME NEW i \in 1..(n - 1), Asking(c, s, i + 1, objs, answers)
      PROVE  Asking(c, r, i, objs, answers)
  BY <1>1, <1>3, <1>4 DEF Asking
<1>5. ASSUME NEW i \in 2..(n - 1), r[i].op = "inject"
      PROVE  /\ Asking(c, r, i, objs, answers)
             /\ r[i-1].cont = c /\ r[i-1].key = KeyOf(r[i].field)
  <2>1. i \in 1..(n - 1) /\ i - 1 \in 1..(n - 1) /\ (i - 1) + 1 = i
    BY <1>1
  <2>2. r[i] = s[i+1] /\ r[i-1] = s[i] /\ i + 1 \in 2..n /\ (i + 1) - 1 = i
    BY <2>1, <1>1, <1>2
  <2>3. Asking(c, s, i + 1, objs, answers) /\ s[i].cont = c /\ s[i].key = KeyOf(s[i+1].field)
    BY <1>5, <2>2 DEF AloneBelow, n
  <2> QED BY <2>1, <2>2, <2>3, <1>4
<1>6. \A i \in 1..(n - 1) : r[i].op = "get" /\ r[i].cont = c /\ r[i].result # Null
                               => r[i].key \in lost
  BY <1>1, <1>2 DEF AloneBelow, n
<1>7. AloneBelow(c, r, objs, answers, lost)
  BY <1>1, <1>5, <1>6 DEF AloneBelow
<1>8. ASSUME r # <<>>, Head(r).op = "inject"
      PROVE  /\ Head(s).cont = c /\ Head(s).key = KeyOf(Head(r).field)
             /\ Asking(c, r, 1, objs, answers)
  <2>1. 2 \in 2..n /\ 1 \in 1..(n - 1) /\ 1 + 1 = 2 /\ 2 - 1 = 1
    BY <1>1, <1>8
  <2>2. s[2].op = "inject" /\ Head(r) = s[2]
    BY <1>1, <1>8
  <2>3. Asking(c, s, 2, objs, answers) /\ s[1].cont = c /\ s[1].key = KeyOf(s[2].field)
    BY <2>1, <2>2 DEF AloneBelow, n
  <2> QED BY <2>1, <2>2, <2>3, <1>1, <1>4
<1> QED BY <1>7, <1>8 DEF r

\* A call f is made on the calls s.
LEMMA AlonePush ==
  ASSUME NEW c, NEW s \in Seq(Frame), NEW objs, NEW answers, NEW lost,
         AloneBelow(c, s, objs, answers, lost), NEW f \in Frame,
         s # <<>> /\ Head(s).op = "inject" =>
              /\ f.cont = c /\ f.key = KeyOf(Head(s).field)
              /\ Asking(c, s, 1, objs, answers),
         f.op = "get" /\ f.cont = c /\ f.result # Null => f.key \in lost
  PROVE  /\ AloneBelow(c, <<f>> \o s, objs, answers, lost)
         /\ \A i \in 1..Len(s) : Spared(s, i, objs) => Spared(<<f>> \o s, i + 1, objs)
<1> DEFINE r == <<f>> \o s
           n == Len(s)
<1>1. /\ n \in Nat /\ r \in Seq(Frame) /\ Len(r) = n + 1 /\ r[1] = f
      /\ \A i \in 1..n : r[i+1] = s[i]
  BY PushFacts
<1>2. n # 0 => s # <<>> /\ Head(s) = s[1] /\ 1 \in 1..n
  BY <1>1
<1> HIDE DEF r, n
<1>3. ASSUME NEW i \in 1..n, Spared(s, i, objs) PROVE Spared(r, i + 1, objs)
  <2>1. PICK j \in 1..n : /\ j > i /\ s[j].op = "inject"
                          /\ objs[s[j].obj].type = objs[s[i].obj].type
                          /\ objs[s[j].obj].state = "building"
    BY <1>3 DEF Spared, n
  <2>2. j + 1 \in 1..Len(r) /\ j + 1 > i + 1 /\ r[j+1] = s[j] /\ r[i+1] = s[i]
    BY <1>1, <2>1
  <2> QED BY <2>1, <2>2 DEF Spared
<1>4. ASSUME NEW i \in 1..n, Asking(c, s, i, objs, answers)
      PROVE  Asking(c, r, i + 1, objs, answers)
  BY <1>1, <1>3, <1>4 DEF Asking
<1>5. ASSUME NEW i \in 2..(n + 1) PROVE \E k \in 1..n : i = k + 1 /\ i - 1 = k
  <2>1. i - 1 \in 1..n /\ i = (i - 1) + 1
    BY <1>1
  <2> QED BY <2>1
<1>6. ASSUME NEW i \in 2..(n + 1), r[i].op = "inject"
      PROVE  /\ Asking(c, r, i, objs, answers)
             /\ r[i-1].cont = c /\ r[i-1].key = KeyOf(r[i].field)
  <2>1. PICK k \in 1..n : i = k + 1 /\ i - 1 = k
    BY <1>5
  <2>2. r[i] = s[k]
    BY <2>1, <1>1
  <2>3. CASE k = 1
    <3>1. s # <<>> /\ Head(s) = s[1] /\ r[i-1] = f
      BY <2>1, <2>3, <1>1, <1>2
    <3> QED BY <3>1, <2>1, <2>2, <2>3, <1>4, <1>6
  <2>4. CASE k # 1
    <3>1. k \in 2..n /\ k - 1 \in 1..n /\ (k - 1) + 1 = k
      BY ONLY <2>1, <2>4, <1>1
    <3>2. r[i-1] = s[k-1]
      BY ONLY <3>1, <2>1, <1>1
    <3>3. Asking(c, s, k, objs, answers) /\ s[k-1].cont = c /\ s[k-1].key = KeyOf(s[k].field)
      BY <3>1, <2>2, <1>6 DEF AloneBelow, n
    <3> QED BY <3>2, <3>3, <2>1, <2>2, <1>4
  <2> QED BY <2>3, <2>4
<1>7. ASSUME NEW i \in 1..(n + 1), r[i].op = "get", r[i].cont = c, r[i].result # Null
      PROVE  r[i].key \in lost
  <2>1. CASE i = 1
    BY <2>1, <1>1, <1>7
  <2>2. CASE i # 1
    <3>1. i \in 2..(n + 1)
      BY <2>2, <1>1
    <3>2. PICK k \in 1..n : i = k + 1
      BY <3>1, <1>5
    <3> QED BY <3>2, <1>1, <1>7 DEF AloneBelow, n
  <2> QED BY <2>1, <2>2
<1>8. AloneBelow(c, r, objs, answers, lost)
  BY <1>1, <1>6, <1>7 DEF AloneBelow
<1> QED BY <1>3, <1>8 DEF r, n

LEMMA AloneNone ==
  ASSUME NEW c, NEW objs, NEW answers, NEW lost
  PROVE  AloneBelow(c, <<>>, objs, answers, lost) /\ AloneOK(c, <<>>, objs, answers, lost)
<1>1. Len(<<>>) = 0 /\ (\A i \in 1..0 : FALSE) /\ (\A i \in 2..0 : FALSE)
  OBVIOUS
<1> QED BY <1>1 DEF AloneBelow, AloneOK

\* A client's call is the first.
LEMMA AloneFirst ==
  ASSUME NEW c, NEW objs, NEW answers, NEW lost, NEW f \in Frame,
         f.op = "get" => f.at = 1 /\ f.result = Null,
         f.op = "inject" => f.conts = {} /\ f.todo = PawnFields(objs[f.obj].type)
  PROVE  AloneOK(c, <<f>> \o <<>>, objs, answers, lost)
<1> DEFINE s == <<>>
           r == <<f>> \o s
<1>1. s \in Seq(Frame) /\ s = <<>>
  OBVIOUS
<1>2. AloneBelow(c, s, objs, answers, lost)
  BY AloneNone
<1> HIDE DEF s
<1>3. AloneBelow(c, r, objs, answers, lost)
  BY <1>1, <1>2, AlonePush
<1>4. r[1] = f
  BY <1>1, PushFacts
<1>5. AloneTop(c, r, objs, answers)
  BY <1>4 DEF AloneTop, FieldsDone
<1> QED BY <1>3, <1>5 DEF AloneOK, s

LEMMA AloneGet ==
  ASSUME NEW c, NEW d \in Containers, NEW key \in Keys,
         NEW objs, NEW answers, NEW lost, NEW s, s = <<GetFrame(d, key)>>
  PROVE  AloneOK(c, s, objs, answers, lost)
<1> DEFINE f == GetFrame(d, key)
<1>1. f \in Frame /\ f.op = "get" /\ f.at = 1 /\ f.result = Null
  BY FramesMade DEF Frame, GetFrame
<1>2. s = <<f>> \o <<>>
  OBVIOUS
<1> HIDE DEF f
<1> QED BY <1>1, <1>2, AloneFirst

LEMMA AloneGets ==
  ASSUME CallsInv, NEW d \in Containers,
         \/ CreateBoundSingleton(d) \/ CreateBoundNameleton(d)
         \/ \E t \in Types : GetSingleton(d, t)
         \/ \E t \in Types, l \in Labels : GetNameleton(d, t, l),
         NEW c, NEW objs, NEW answers, NEW lost
  PROVE  AloneOK(c, stack', objs, answers, lost)
<1>1. ASSUME NEW t \in Types, GetSingleton(d, t)
      PROVE  AloneOK(c, stack', objs, answers, lost)
  <2>1. <<t, NoLabel>> \in Keys /\ stack' = <<GetFrame(d, <<t, NoLabel>>)>>
    BY <1>1 DEF Keys, GetSingleton
  <2> QED BY <2>1, AloneGet
<1>2. ASSUME NEW t \in Types, NEW l \in Labels, GetNameleton(d, t, l)
      PROVE  AloneOK(c, stack', objs, answers, lost)
  <2>1. <<t, l>> \in Keys /\ stack' = <<GetFrame(d, <<t, l>>)>>
    BY <1>2 DEF Keys, GetNameleton
  <2> QED BY <2>1, AloneGet
<1>3. ASSUME NEW i \in 1..Len(signatures[d])
      PROVE  /\ TypeToMap(signatures[d][i]) \in Types
             /\ signatures[d][i].label # NoLabel => signatures[d][i].label \in Labels
  BY SignatureFields DEF CallsInv, SignaturesOK
<1>4. CreateBoundSingleton(d) => AloneOK(c, stack', objs, answers, lost)
  BY <1>1, <1>3 DEF CreateBoundSingleton
<1>5. CreateBoundNameleton(d) => AloneOK(c, stack', objs, answers, lost)
  BY <1>2, <1>3 DEF CreateBoundNameleton
<1> QED BY <1>1, <1>2, <1>4, <1>5

LEMMA AloneNewInjectee ==
  ASSUME CallsInv, NEW t \in Types, NewInjectee(t), NEW c, NEW answers, NEW lost
  PROVE  AloneOK(c, stack', objects', answers, lost)
<1>1. stack = <<>> /\ Build(t, <<>>, <<>>)
  BY DEF NewInjectee, ClientMayCall, Idle
<1>2. CallsOK(<<>>, objects, live) /\ ObjectsOK(objects) /\ BuildingRuns(<<>>, objects)
  BY <1>1 DEF CallsInv
<1> DEFINE n == Len(objects) + 1
<1>3. PICK todo \in SUBSET PawnFields(t) :
        /\ stack' = <<InjectFrame(n, todo)>> \o <<>>
        /\ todo = PawnFields(t) \/ (t \in Guarded /\ BeingBuilt(t))
  BY <1>1, <1>2, BuildFacts
<1>4. n \in Nat /\ objects'[n] = NewObject(t, <<>>)
  BY <1>1, <1>2, BuildFacts
<1>5. todo = PawnFields(t)
  <2>1. \A o \in Objects : objects[o].state # "building"
    BY <1>2, CallsNone DEF BuildingRuns, Objects
  <2> QED BY <2>1, <1>3 DEF BeingBuilt
<1> DEFINE f == InjectFrame(n, todo)
<1>6. f \in Frame /\ f.op = "inject" /\ f.obj = n /\ f.todo = todo /\ f.conts = {}
  <2>1. todo \in SUBSET Field
    BY PawnFieldsTyped
  <2> HIDE DEF n
  <2> QED BY <2>1, <1>4, FramesMade DEF Frame, InjectFrame
<1>7. objects'[n].type = t
  BY <1>4 DEF NewObject
<1>8. stack' = <<f>> \o <<>>
  BY <1>3
<1> HIDE DEF f, n
<1> QED BY <1>5, <1>6, <1>7, <1>8, AloneFirst

LEMMA AloneInjectDependencies ==
  ASSUME CallsInv, NEW o \in Objects, InjectDependencies(o), NEW c, NEW answers, NEW lost
  PROVE  AloneOK(c, stack', objects', answers, lost)
<1> DEFINE todo == PawnFields(objects[o].type)
           f == InjectFrame(o, todo)
<1>1. stack' = <<f>> /\ objects' = objects
  BY DEF InjectDependencies
<1>2. o \in Nat /\ todo \in SUBSET Field
  <2>1. Len(objects) \in Nat /\ objects[o].type \in Types
    BY ObjectFields DEF CallsInv, ObjectsOK, Objects
  <2> QED BY <2>1, PawnFieldsTyped DEF Objects
<1>3. f \in Frame /\ f.op = "inject" /\ f.obj = o /\ f.todo = todo /\ f.conts = {}
  BY <1>2, FramesMade DEF Frame, InjectFrame
<1>4. stack' = <<f>> \o <<>> /\ objects'[f.obj].type = objects[o].type
  BY <1>1, <1>3
<1> HIDE DEF f
<1>5. f.todo = PawnFields(objects'[f.obj].type)
  BY <1>3, <1>4
<1> QED BY <1>3, <1>4, <1>5, AloneFirst

-----------------------------------------------------------------------------
(* An injection moves on.                                                        *)

\* The innermost injection is exchanged for one of the same object.
LEMMA AloneMoves ==
  ASSUME CallsInv, Injecting, NEW c, NEW answers, NEW lost,
         AloneOK(c, stack, objects, answers, lost),
         NEW f \in InjectFrames, f.op = "inject", f.obj = Top.obj
  PROVE  /\ AloneBelow(c, <<f>> \o Below, objects, answers, lost)
         /\ (<<f>> \o Below)[1] = f /\ <<f>> \o Below \in Seq(Frame)
         /\ Spared(stack, 1, objects) => Spared(<<f>> \o Below, 1, objects)
<1> DEFINE r == <<f>> \o Below
<1>1. /\ CallsOK(stack, objects, live) /\ ObjectsOK(objects) /\ stack # <<>>
      /\ stack \in Seq(Frame)
  BY DEF CallsInv, CallsOK, Injecting, Idle
<1>2. Below \in Seq(Frame) /\ (Below # <<>> => Head(Below).op = "get")
  BY <1>1, InjectingFacts
<1>3. AloneBelow(c, Below, objects, answers, lost)
  BY <1>1, AlonePop DEF AloneOK, Below
<1>4. f \in Frame
  BY DEF Frame
<1>5. AloneBelow(c, r, objects, answers, lost)
  BY <1>2, <1>3, <1>4, AlonePush
<1>6. r \in Seq(Frame) /\ r[1] = f /\ Len(r) = Len(Below) + 1
      /\ \A i \in 1..Len(Below) : r[i+1] = Below[i]
  BY <1>2, <1>4, PushFacts
<1>7. /\ Len(stack) \in Nat /\ Len(Below) = Len(stack) - 1 /\ Top = stack[1]
      /\ \A i \in 1..(Len(stack) - 1) : Below[i] = stack[i+1]
  BY <1>1, PopFacts DEF Top, Below
<1> HIDE DEF r
<1>8. ASSUME Spared(stack, 1, objects) PROVE Spared(r, 1, objects)
  <2>1. PICK j \in 1..Len(stack) : /\ j > 1 /\ stack[j].op = "inject"
                                   /\ objects[stack[j].obj].type = objects[stack[1].obj].type
                                   /\ objects[stack[j].obj].state = "building"
    BY <1>8 DEF Spared
  <2>2. j - 1 \in 1..Len(Below) /\ (j - 1) + 1 = j /\ j \in 1..Len(r)
    BY <2>1, <1>6, <1>7
  <2>3. r[j] = stack[j]
    BY <2>2, <1>6, <1>7
  <2> QED BY <2>1, <2>2, <2>3, <1>6, <1>7 DEF Spared
<1> QED BY <1>5, <1>6, <1>8 DEF r

LEMMA FramesAnswer ==
  ASSUME CallsInv, NEW c \in Containers, UNCHANGED <<signatures, instances>>,
         recursed \subseteq recursed'
  PROVE  Lost(c) \subseteq Lost(c)' /\ Answers(c) \subseteq Answers(c)'
<1>1. IsFiniteSet({k \in Keys : instances'[c][k] # {}})
  BY DEF CallsInv, EntriesOK
<1> QED BY <1>1, AnswersStay

LEMMA AloneNextField ==
  ASSUME RegistryInv, CallsInv, NEW c \in Containers, Registered = {c},
         AloneOK(c, stack, objects, Answers(c), Lost(c)), NextField
  PROVE  AloneOK(c, stack', objects', Answers(c)', Lost(c)')
<1>1. PICK d \in Top.todo :
        stack' = <<[Top EXCEPT !.field = d, !.todo = @ \ {d}, !.conts = Registered]>> \o Below
  BY DEF NextField
<1>2. /\ Injecting /\ Top.conts = {}
      /\ UNCHANGED <<names, live, registered, signatures, instances, objects, recursed>>
  BY DEF NextField
<1>3. /\ Top \in InjectFrames /\ Top.todo \subseteq PawnFields(objects[Top.obj].type)
      /\ PawnFields(objects[Top.obj].type) \subseteq Field
  BY <1>2, InjectingFacts DEF CallsInv
<1> DEFINE ds == Top.todo \ {d}
           f == [Top EXCEPT !.field = d, !.todo = ds, !.conts = Registered]
           r == <<f>> \o Below
<1>4. f \in InjectFrames
  BY <1>3, FramesMade, RegisteredAlive
<1>5. f.op = "inject" /\ f.obj = Top.obj /\ f.todo = ds /\ f.conts = {c} /\ f.field = d
  BY <1>3 DEF InjectFrames
<1>6. stack' = r
  BY <1>1
<1> HIDE DEF f
<1>7. /\ AloneBelow(c, r, objects, Answers(c), Lost(c)) /\ r[1] = f
      /\ Spared(stack, 1, objects) => Spared(r, 1, objects)
  BY <1>2, <1>4, <1>5, AloneMoves
<1>8. /\ stack # <<>> /\ stack[1] = Top
      /\ Spared(stack, 1, objects) \/ FieldsDone(Top, objects, Answers(c), {})
  <2>1. stack # <<>> /\ stack \in Seq(Frame) /\ Top.op = "inject"
    BY <1>2 DEF CallsInv, CallsOK, Injecting, Idle
  <2>2. stack[1] = Top
    BY <2>1, PopFacts DEF Top
  <2> QED BY <2>1, <2>2, <1>2 DEF AloneOK, AloneTop
<1>9. FieldsDone(Top, objects, Answers(c), {}) => FieldsDone(f, objects, Answers(c), {d})
  BY <1>5 DEF FieldsDone
<1> HIDE DEF r
<1>10. AloneTop(c, r, objects, Answers(c))
  BY <1>5, <1>7, <1>8, <1>9 DEF AloneTop
<1>11. Answers(c)' = Answers(c) /\ Lost(c)' = Lost(c)
  BY <1>2 DEF Answers, Lost, Matching, Confusable
<1>12. AloneOK(c, r, objects, Answers(c), Lost(c))
  BY <1>7, <1>10 DEF AloneOK
<1> QED BY <1>2, <1>6, <1>11, <1>12

LEMMA AloneInjectField ==
  ASSUME RegistryInv, CallsInv, NEW c \in Containers, Registered = {c},
         AloneOK(c, stack, objects, Answers(c), Lost(c)), InjectField
  PROVE  AloneOK(c, stack', objects', Answers(c)', Lost(c)')
<1>1. Injecting /\ UNCHANGED <<names, live, registered, signatures, instances, objects, recursed>>
  BY DEF InjectField
<1>2. PICK d \in Top.conts :
        stack' = <<GetFrame(d, KeyOf(Top.field))>> \o <<[Top EXCEPT !.conts = @ \ {d}]>> \o Below
  BY DEF InjectField
<1>3. /\ stack # <<>> /\ stack[1] = Top /\ Top.op = "inject" /\ Top.conts \subseteq {c}
      /\ \/ Spared(stack, 1, objects)
         \/ FieldsDone(Top, objects, Answers(c), {Top.field})
  <2>1. stack # <<>> /\ stack \in Seq(Frame) /\ Top.op = "inject"
    BY <1>1 DEF CallsInv, CallsOK, Injecting, Idle
  <2>2. stack[1] = Top
    BY <2>1, PopFacts DEF Top
  <2> QED BY <2>1, <2>2 DEF AloneOK, AloneTop
<1>4. d = c
  BY <1>3
<1> DEFINE g == GetFrame(d, KeyOf(Top.field))
           f == [Top EXCEPT !.conts = @ \ {d}]
           r == <<f>> \o Below
<1>5. /\ g \in Frame /\ g.op = "get" /\ g.cont = d /\ g.key = KeyOf(Top.field)
      /\ g.at = 1 /\ g.result = Null
      /\ f \in Frame /\ f.op = "inject" /\ f.obj = Top.obj /\ f.field = Top.field
      /\ f.todo = Top.todo /\ f.conts = Top.conts \ {d}
      /\ Below \in Seq(Frame)
  BY <1>1, InjectFieldFacts, InjectingFacts DEF CallsInv
<1>6. stack' = <<g>> \o <<f>> \o Below
  BY <1>2
<1> HIDE DEF f, g
<1>7. stack' = <<g>> \o r
  BY <1>5, <1>6, PushTwice
<1>8. f \in InjectFrames /\ f.conts = {}
  BY <1>3, <1>4, <1>5, FrameFields
<1>9. /\ AloneBelow(c, r, objects, Answers(c), Lost(c)) /\ r[1] = f /\ r \in Seq(Frame)
      /\ Spared(stack, 1, objects) => Spared(r, 1, objects)
  BY <1>1, <1>5, <1>8, AloneMoves
<1>10. FieldsDone(Top, objects, Answers(c), {Top.field}) => FieldsDone(f, objects, Answers(c), {f.field})
  BY <1>5 DEF FieldsDone
<1>11. r # <<>> /\ Head(r) = f
  BY <1>5, PushFacts
<1> HIDE DEF r
<1>12. Asking(c, r, 1, objects, Answers(c))
  BY <1>3, <1>8, <1>9, <1>10 DEF Asking
<1>13. AloneBelow(c, <<g>> \o r, objects, Answers(c), Lost(c))
  BY <1>4, <1>5, <1>9, <1>11, <1>12, AlonePush
<1>14. (<<g>> \o r)[1] = g
  BY <1>5, <1>9, PushFacts
<1>15. AloneTop(c, <<g>> \o r, objects, Answers(c))
  BY <1>5, <1>14 DEF AloneTop
<1>16. Answers(c)' = Answers(c) /\ Lost(c)' = Lost(c)
  BY <1>1 DEF Answers, Lost, Matching, Confusable
<1>17. AloneOK(c, <<g>> \o r, objects, Answers(c), Lost(c))
  BY <1>13, <1>15 DEF AloneOK
<1> QED BY <1>1, <1>7, <1>16, <1>17

-----------------------------------------------------------------------------
(* get_or_add answers.                                                           *)

\* The field an injection asked for is written with an answer: it is through with it.
LEMMA AloneWritten ==
  ASSUME NEW c, NEW s, s # <<>>, NEW objs, ObjectsOK(objs), CallsOK(s, objs, live),
         NEW answers, NEW answers2, answers \subseteq answers2,
         NEW lost, NEW lost2, lost \subseteq lost2,
         AloneBelow(c, s, objs, answers, lost), Asking(c, s, 1, objs, answers),
         Head(s).op = "inject", Head(s).field \in PawnFields(objs[Head(s).obj].type),
         Head(s).field.name \in FieldNames,
         NEW o \in Nat, Complete(o, objs), <<KeyOf(Head(s).field), o>> \in answers2,
         NEW objs2, objs2 = SetPawn(objs, Head(s).obj, Head(s).field.name, o)
  PROVE  AloneOK(c, s, objs2, answers2, lost2)
<1> DEFINE x == Head(s).obj
           m == Head(s).field.name
<1>1. /\ s \in Seq(Frame) /\ Len(s) \in Nat /\ Len(s) >= 1 /\ Head(s) = s[1]
  BY PopFacts DEF CallsOK
<1>2. x \in 1..Len(objs)
  BY <1>1 DEF CallsOK, CallOK
<1>3. /\ SameStates(objs, objs2)
      /\ objs2[x].pawns = [objs[x].pawns EXCEPT ![m] = o]
      /\ \A y \in 1..Len(objs) : y # x => objs2[y] = objs[y]
  <2>1. /\ ObjectsOK(objs) /\ m \in FieldNames /\ o \in Nat /\ Complete(o, objs)
        /\ objs2 = SetPawn(objs, x, m, o)
    OBVIOUS
  <2> HIDE DEF x, m
  <2> QED BY ONLY <1>2, <2>1, PawnSet
<1> HIDE DEF m
<1>4. Grows(s, objs, objs2)
  BY <1>3, SameGrows
<1>5. ASSUME NEW i \in 2..Len(s), s[i].op = "inject"
      PROVE  objs2[s[i].obj].pawns = objs[s[i].obj].pawns
  <2>1. i \in 1..Len(s) /\ 1 \in 1..Len(s) /\ i # 1
    BY <1>1
  <2>2. s[i].obj \in 1..Len(objs) /\ s[i].obj # x
    BY <2>1, <1>1, <1>5 DEF CallsOK, CallOK
  <2> QED BY <2>2, <1>3
<1>6. AloneBelow(c, s, objs2, answers2, lost2)
  <2>1. /\ CallsOK(s, objs, live) /\ AloneBelow(c, s, objs, answers, lost)
        /\ answers \subseteq answers2 /\ lost \subseteq lost2
    OBVIOUS
  <2> QED BY ONLY <2>1, <1>4, <1>5, AloneBelowKept
<1>7. Spared(s, 1, objs) => Spared(s, 1, objs2)
  BY <1>1, <1>4, SparedKept
<1>8. ASSUME FieldsDone(s[1], objs, answers, {s[1].field})
      PROVE  FieldsDone(s[1], objs2, answers2, {})
  <2> SUFFICES ASSUME NEW d \in PawnFields(objs2[x].type) \ s[1].todo
               PROVE  <<KeyOf(d), objs2[x].pawns[d.name]>> \in answers2
    BY <1>1 DEF FieldsDone
  <2>1. objs2[x].type = objs[x].type /\ d \in PawnFields(objs[x].type)
    BY <1>2, <1>3 DEF SameStates
  <2>2. objs[x] \in ObjectRecords
    BY <1>2 DEF ObjectsOK
  <2>3. objs[x].pawns \in [FieldNames -> Nat] /\ objs[x].type \in Types
    BY <2>2, ObjectFields
  <2>4. d \in Field /\ d.name \in FieldNames /\ d \in Fields[objs[x].type]
        /\ s[1].field \in Fields[objs[x].type]
    BY <2>1, <2>3, <1>1, PawnFieldsTyped DEF Field
  <2>5. CASE d = s[1].field
    <3>1. d.name = m
      BY <2>5, <1>1 DEF m
    <3>2. objs2[x].pawns[d.name] = o
      BY <3>1, <2>3, <2>4, <1>3
    <3> QED BY <3>2, <2>5, <1>1
  <2>6. CASE d # s[1].field
    <3>1. d.name # m
      BY <2>3, <2>4, <2>6, <1>1, DiAssumption DEF m
    <3>2. objs2[x].pawns[d.name] = objs[x].pawns[d.name]
      BY <3>1, <2>3, <2>4, <1>3
    <3>3. <<KeyOf(d), objs[x].pawns[d.name]>> \in answers
      BY <2>1, <2>6, <1>1, <1>8 DEF FieldsDone
    <3> QED BY <3>2, <3>3
  <2> QED BY <2>5, <2>6
<1>9. s[1].conts = {} /\ s[1].op = "inject"
  BY <1>1 DEF Asking
<1>10. AloneTop(c, s, objs2, answers2)
  <2>1. Spared(s, 1, objs2) \/ FieldsDone(s[1], objs2, answers2, {})
    BY <1>7, <1>8 DEF Asking
  <2> QED BY <2>1, <1>9 DEF AloneTop
<1> QED BY <1>6, <1>10 DEF AloneOK

LEMMA AloneReturn ==
  ASSUME CallsInv, NEW c \in Containers, AloneOK(c, stack, objects, Answers(c), Lost(c)), Serving,
         NEW o \in Nat, Complete(o, objects), Return(o),
         Top.cont = c => <<Top.key, o>> \in Answers(c),
         UNCHANGED <<signatures, instances, recursed>>
  PROVE  AloneOK(c, stack', objects', Answers(c)', Lost(c)')
<1>1. Answers(c)' = Answers(c) /\ Lost(c)' = Lost(c)
  BY DEF Answers, Lost, Matching, Confusable
<1>2. CallsOK(stack, objects, live) /\ ObjectsOK(objects) /\ stack # <<>>
  BY DEF CallsInv, Serving, Idle
<1>3. /\ CallsOK(Below, objects, live)
      /\ Below # <<>> => /\ Head(Below).op = "inject"
                         /\ Head(Below).field \in PawnFields(objects[Head(Below).obj].type)
                         /\ Head(Below).field.name \in FieldNames
  BY <1>2, ServingFacts
<1>4. AloneBelow(c, stack, objects, Answers(c), Lost(c))
  BY DEF AloneOK
<1>5. /\ AloneBelow(c, Below, objects, Answers(c), Lost(c))
      /\ Below # <<>> =>
           /\ Top.cont = c /\ Top.key = KeyOf(Head(Below).field)
           /\ Asking(c, Below, 1, objects, Answers(c))
  BY <1>2, <1>3, <1>4, AlonePop DEF Top, Below
<1>6. CASE Below = <<>>
  <2>1. stack' = <<>>
    BY <1>6 DEF Return
  <2> QED BY <2>1, AloneNone
<1>7. CASE Below # <<>>
  <2>1. /\ stack' = Below
        /\ objects' = SetPawn(objects, Head(Below).obj, Head(Below).field.name, o)
    BY <1>7 DEF Return, SetPawn
  <2>2. <<KeyOf(Head(Below).field), o>> \in Answers(c)
    BY <1>5, <1>7
  <2>3. AloneOK(c, Below, objects', Answers(c), Lost(c))
    BY <1>2, <1>3, <1>5, <1>7, <2>1, <2>2, AloneWritten
  <2> QED BY <1>1, <2>1, <2>3
<1> QED BY <1>6, <1>7

\* A look-up answers with an entry, or with the object that came second, or there
\* is no signature of the key.
LEMMA AloneAnswers ==
  ASSUME RegistryInv, CallsInv, NEW c \in Containers,
         AloneOK(c, stack, objects, Answers(c), Lost(c)), Serving,
         FindInstance \/ EndOfSignatures,
         UNCHANGED <<names, live, registered, signatures, instances>>
  PROVE  AloneOK(c, stack', objects', Answers(c)', Lost(c)')
<1>1. /\ Top.cont \in Containers /\ Top.key \in Keys /\ Top.result \in Nat
      /\ Complete(Top.result, objects)
  BY ServingFacts DEF CallsInv
<1>2. CASE FindInstance
  <2>1. PICK o \in Find(Top.cont, Top.key) \ {Null} : Return(o)
    BY <1>2 DEF FindInstance
  <2>2. o \in Nat /\ Complete(o, objects) /\ o \in instances[Top.cont][Top.key] /\ o # Null
    BY <1>1, <2>1, FoundIsComplete
  <2>3. Top.cont = c => <<Top.key, o>> \in Answers(c)
    BY <1>1, <2>2 DEF Answers
  <2>4. UNCHANGED recursed
    BY <1>2 DEF FindInstance
  <2> QED BY <2>1, <2>2, <2>3, <2>4, AloneReturn
<1>3. CASE EndOfSignatures
  <2>1. /\ Return(Top.result) /\ UNCHANGED recursed
        /\ Matching(Top.cont, Top.key, Top.at) = {}
    BY <1>3 DEF EndOfSignatures
  <2>2. ASSUME Top.cont = c PROVE <<Top.key, Top.result>> \in Answers(c)
    <3>1. /\ stack \in Seq(Frame) /\ stack # <<>> /\ Top.op = "get"
      BY DEF CallsInv, CallsOK, Serving, Idle
    <3>2. Top = stack[1] /\ 1 \in 1..Len(stack)
      BY <3>1, PopFacts DEF Top
    <3>3. Top.at = 1 \/ Top.result # Null
      BY <3>1, <3>2 DEF AloneOK, AloneTop
    <3>4. Top.result # Null => Top.key \in Lost(c)
      BY <3>1, <3>2, <2>2 DEF AloneOK, AloneBelow
    <3>5. CASE Top.at = 1
      <4>1. Matching(c, Top.key, 1) = {}
        BY <2>1, <2>2, <3>5
      <4> QED BY <4>1, <1>1 DEF Answers
    <3>6. CASE Top.result # Null
      BY <3>4, <3>6, <1>1 DEF Answers
    <3> QED BY <3>3, <3>5, <3>6
  <2> QED BY <1>1, <2>1, <2>2, AloneReturn
<1> QED BY <1>2, <1>3

\* The constructor that a creator runs injects all fields, or is spared.
LEMMA AloneCallCreator ==
  ASSUME RegistryInv, CallsInv, NEW c \in Containers,
         AloneOK(c, stack, objects, Answers(c), Lost(c)), Serving, CallCreator,
         UNCHANGED <<names, live, registered, signatures, instances>>
  PROVE  AloneOK(c, stack', objects', Answers(c)', Lost(c)')
<1>1. PICK i \in Matching(Top.cont, Top.key, Top.at) :
        /\ Build(signatures[Top.cont][i].impl, <<Top.cont, Top.key>>, <<Placed(Top, i)>> \o Below)
        /\ recursed \subseteq recursed'
  BY DEF CallCreator, Placed
<1>2. /\ Top.cont \in Containers /\ Top.key \in Keys /\ Top.at \in Nat \ {0}
      /\ CallsOK(Below, objects, live) /\ Below \in Seq(Frame)
  BY ServingFacts DEF CallsInv
<1>3. i \in 1..Len(signatures[Top.cont]) /\ i \in Nat \ {0}
      /\ signatures[Top.cont][i].impl \in Types
  <2>1. i \in 1..Len(signatures[Top.cont]) /\ i \in Nat \ {0}
    BY <1>2 DEF Matching, CallsInv, SignaturesOK
  <2> QED BY <2>1, <1>2, SignatureFields DEF CallsInv, SignaturesOK
<1> DEFINE f == Placed(Top, i)
           s == <<f>> \o Below
           t == signatures[Top.cont][i].impl
           n == Len(objects) + 1
<1>4. /\ f \in Frame /\ f.op = "get" /\ f.cont = Top.cont /\ f.key = Top.key
      /\ f.result = Top.result
      /\ CallsOK(s, objects, live) /\ Running(s) = Running(stack) /\ s # <<>>
      /\ Head(s) = f /\ s \in Seq(Frame)
  BY <1>3, CreatorCalled
<1>5. Build(t, <<Top.cont, Top.key>>, s) /\ t \in Types
      /\ <<Top.cont, Top.key>> \in {<<>>} \cup (Containers \X Keys)
  BY <1>1, <1>2, <1>3
<1> HIDE DEF t
<1>6. AloneBelow(c, s, objects, Answers(c), Lost(c))
  <2>1. /\ CallsOK(stack, objects, live) /\ stack # <<>> /\ stack \in Seq(Frame)
        /\ AloneBelow(c, stack, objects, Answers(c), Lost(c)) /\ Top.op = "get"
    BY DEF CallsInv, CallsOK, Serving, Idle, AloneOK
  <2>2. /\ AloneBelow(c, Below, objects, Answers(c), Lost(c))
        /\ Below # <<>> /\ Head(Below).op = "inject" =>
             /\ Top.cont = c /\ Top.key = KeyOf(Head(Below).field)
             /\ Asking(c, Below, 1, objects, Answers(c))
    BY <2>1, AlonePop DEF Top, Below
  <2>3. Top = stack[1] /\ 1 \in 1..Len(stack)
    BY <2>1, PopFacts DEF Top
  <2>4. Top.cont = c /\ Top.result # Null => Top.key \in Lost(c)
    BY <2>1, <2>3 DEF AloneBelow
  <2> HIDE DEF f
  <2> QED BY <1>2, <1>4, <2>2, <2>4, AlonePush
<1> HIDE DEF f, s
<1>7. ObjectsOK(objects) /\ BuildingRuns(s, objects)
  BY <1>4 DEF CallsInv, BuildingRuns
<1>8. Head(s).op = "get" /\ <<Top.cont, Top.key>> = <<Head(s).cont, Head(s).key>>
  BY <1>4
<1>9. /\ Grows(s, objects, objects') /\ Len(objects) \in Nat
      /\ objects'[n] = NewObject(t, <<Top.cont, Top.key>>)
      /\ \A o \in Objects : objects'[o] = objects[o]
      /\ \E todo \in SUBSET PawnFields(t) :
              /\ stack' = <<InjectFrame(Len(objects) + 1, todo)>> \o s
              /\ todo = PawnFields(t) \/ (t \in Guarded /\ BeingBuilt(t))
  BY <1>4, <1>5, <1>7, <1>8, BuildFacts
<1>10. PICK todo \in SUBSET PawnFields(t) :
         /\ stack' = <<InjectFrame(n, todo)>> \o s
         /\ todo = PawnFields(t) \/ BeingBuilt(t)
  BY <1>9
<1>11. n \in Nat /\ objects'[n].type = t
  BY <1>9 DEF NewObject
<1> DEFINE g == InjectFrame(n, todo)
<1>12. g \in Frame /\ g.op = "inject" /\ g.obj = n /\ g.todo = todo /\ g.conts = {}
  <2>1. todo \in SUBSET Field
    BY <1>5, PawnFieldsTyped
  <2> HIDE DEF n
  <2> QED BY <2>1, <1>11, FramesMade DEF Frame, InjectFrame
<1>13. stack' = <<g>> \o s
  BY <1>10
<1> HIDE DEF g, n
<1>14. Lost(c) \subseteq Lost(c)' /\ Answers(c) \subseteq Answers(c)'
  BY <1>1, FramesAnswer
<1>15. \A j \in 2..Len(s) : s[j].op = "inject" => objects'[s[j].obj].pawns = objects[s[j].obj].pawns
  <2>1. \A j \in 2..Len(s) : j \in 1..Len(s)
    BY <1>4
  <2>2. \A j \in 1..Len(s) : s[j].op = "inject" => s[j].obj \in Objects
    BY <1>4 DEF CallsOK, CallOK, Objects
  <2> QED BY <2>1, <2>2, <1>9
<1>16. AloneBelow(c, s, objects', Answers(c)', Lost(c)')
  <2>1. /\ CallsOK(s, objects, live) /\ Grows(s, objects, objects')
        /\ AloneBelow(c, s, objects, Answers(c), Lost(c))
    BY <1>4, <1>6, <1>9
  <2> QED BY ONLY <2>1, <1>14, <1>15, AloneBelowKept
<1>17. AloneBelow(c, <<g>> \o s, objects', Answers(c)', Lost(c)')
  BY <1>4, <1>12, <1>16, AlonePush
<1>18. /\ (<<g>> \o s)[1] = g /\ <<g>> \o s # <<>> /\ Len(<<g>> \o s) = Len(s) + 1 /\ Len(s) \in Nat
       /\ \A j \in 1..Len(s) : (<<g>> \o s)[j+1] = s[j]
  BY <1>4, <1>12, PushFacts
<1> DEFINE r == <<g>> \o s
<1> HIDE DEF r
<1>19. Spared(r, 1, objects') \/ FieldsDone(g, objects', Answers(c)', {})
  <2>1. CASE todo = PawnFields(t)
    BY <2>1, <1>11, <1>12 DEF FieldsDone
  <2>2. CASE BeingBuilt(t)
    <3>1. PICK o \in Objects : objects[o].type = t /\ objects[o].state = "building"
      BY <2>2 DEF BeingBuilt
    <3>2. o \in Running(s)
      BY <3>1, <1>7 DEF BuildingRuns, Objects
    <3>3. PICK j \in 1..Len(s) : s[j].op = "inject" /\ s[j].obj = o
      BY <3>2 DEF Running
    <3>4. objects'[o].type = t /\ objects'[o].state = "building"
      BY <3>1, <1>9
    <3>5. j + 1 \in 1..Len(r) /\ j + 1 > 1 /\ r[j+1] = s[j] /\ r[1] = g
      BY <1>18 DEF r
    <3> QED BY <3>3, <3>4, <3>5, <1>11, <1>12 DEF Spared
  <2> QED BY <2>1, <2>2, <1>10
<1>20. AloneTop(c, r, objects', Answers(c)')
  BY <1>12, <1>18, <1>19 DEF AloneTop, r
<1> QED BY <1>13, <1>17, <1>18, <1>20 DEF AloneOK, r

\* What a creator made is registered and written into the field, or was second.
LEMMA AloneInstanceReady ==
  ASSUME RegistryInv, CallsInv, NEW c \in Containers,
         AloneOK(c, stack, objects, Answers(c), Lost(c)), InstanceReady
  PROVE  AloneOK(c, stack', objects', Answers(c)', Lost(c)')
<1> DEFINE g == Head(Below)
           below == Tail(Below)
           o == Top.obj
           key == g.key
           done == SetBuilt(objects, o)
           answers == Answers(c)'
           lost == Lost(c)'
<1>1. /\ Injecting /\ Below # <<>> /\ UNCHANGED <<live, signatures, recursed>>
  BY InstanceReadyCases DEF Injected
<1>2. PICK found \in Find(g.cont, key) :
        \/ /\ found = Null /\ stack' = below
           /\ \E e \in Insert(g.cont, key, o) : instances' = SetEntry(instances, g.cont, key, e)
           /\ below = <<>> => objects' = done
           /\ below # <<>> => objects' = SetPawn(done, Head(below).obj, Head(below).field.name, o)
        \/ /\ found # Null /\ stack' = <<Second(g, o)>> \o below
           /\ objects' = done /\ instances' = instances
  BY InstanceReadyCases
<1>3. /\ g \in GetFrames /\ g \in Frame /\ g.op = "get"
      /\ g.cont \in live /\ g.cont \in Containers /\ key \in Keys
      /\ objects[o].origin = <<g.cont, key>> /\ objects[o].state = "building"
      /\ o \in Objects /\ o \in Nat /\ o # Null /\ below \in Seq(Frame)
      /\ below # <<>> =>
           /\ Head(below).op = "inject" /\ Head(below).obj \in Objects
           /\ Head(below).field \in PawnFields(objects[Head(below).obj].type)
           /\ Head(below).field.name \in FieldNames
  BY <1>1, CreatorFacts
<1>4. /\ ObjectsOK(done) /\ CallsOK(Below, done, live) /\ Len(done) = Len(objects)
      /\ \A p \in Objects : /\ done[p].type = objects[p].type
                            /\ done[p].pawns = objects[p].pawns
      /\ Complete(o, done) /\ Grows(Below, objects, done)
  <2> HIDE DEF done
  <2>1. done = SetBuilt(objects, o)
    BY DEF done
  <2> QED BY <1>1, <2>1, BuiltBelow
<1>5. CallsOK(below, done, live)
  BY <1>1, <1>4, CallBelow
<1>6. ASSUME found = Null
      PROVE  /\ \A k \in Keys : instances[c][k] \subseteq instances'[c][k]
             /\ g.cont = c /\ ~Confusable(c, key) => o \in instances'[c][key]
  <2> HIDE DEF g, below, o, key, done
  <2>1. PICK e \in Insert(g.cont, key, o) : instances' = SetEntry(instances, g.cont, key, e)
    BY <1>2, <1>6
  <2>2. /\ e \subseteq instances[g.cont][key] \cup {o} /\ instances[g.cont][key] \subseteq e
        /\ instances[g.cont][key] = {} => e = {o}
    BY InsertFacts
  <2>3. EntriesOK(instances, done)
    BY <1>4, EntriesKept DEF CallsInv, g, below, o, key, done
  <2>4. e \in SUBSET Nat /\ \A x \in e : x # Null /\ Complete(x, done)
    BY <2>2, <2>3, <1>3, <1>4 DEF EntriesOK
  <2>5. /\ instances'[g.cont][key] = e
        /\ \A d \in Containers, k \in Keys :
               <<d, k>> # <<g.cont, key>> => instances'[d][k] = instances[d][k]
    <3>1. PICK x \in Containers : x = g.cont
      BY <1>3
    <3>2. key \in Keys /\ instances' = SetEntry(instances, x, key, e)
      BY <3>1, <2>1, <1>3
    <3>3. /\ instances'[x][key] = e
          /\ \A d \in Containers, k \in Keys :
                 <<d, k>> # <<x, key>> => instances'[d][k] = instances[d][k]
      BY ONLY <3>2, <2>3, <2>4, EntrySet
    <3> QED BY <3>1, <3>3
  <2>6. ASSUME NEW k \in Keys PROVE instances[c][k] \subseteq instances'[c][k]
    <3>1. CASE <<c, k>> = <<g.cont, key>>
      BY <3>1, <2>2, <2>5
    <3>2. CASE <<c, k>> # <<g.cont, key>>
      BY <3>2, <2>5
    <3> QED BY <3>1, <3>2
  <2>7. ASSUME g.cont = c, ~Confusable(c, key) PROVE instances[c][key] = {}
    BY <1>2, <1>3, <1>6, <2>7, FoundIsComplete
  <2>8. g.cont = c /\ ~Confusable(c, key) => o \in instances'[c][key]
    BY <2>2, <2>5, <2>7
  <2> QED BY <2>6, <2>8
<1>7. Lost(c) \subseteq lost /\ Answers(c) \subseteq answers
  <2>1. EntriesOK(instances', objects')
    BY InstanceReadyKeeps DEF CallsInv
  <2>2. IsFiniteSet({k \in Keys : instances'[c][k] # {}})
    BY <2>1 DEF EntriesOK
  <2>3. \A k \in Keys : instances[c][k] \subseteq instances'[c][k]
    BY <1>2, <1>6
  <2> QED BY <1>1, <2>2, <2>3, AnswersStay
<1>8. AloneBelow(c, Below, done, answers, lost)
  <2>1. AloneBelow(c, Below, objects, Answers(c), Lost(c)) /\ Below \in Seq(Frame)
        /\ CallsOK(Below, objects, live)
    <3>1. /\ CallsOK(stack, objects, live) /\ stack # <<>> /\ ObjectsOK(objects)
          /\ AloneBelow(c, stack, objects, Answers(c), Lost(c))
      BY <1>1 DEF CallsInv, Injecting, Idle, AloneOK
    <3> QED BY <1>1, <3>1, AlonePop, InjectingFacts DEF Below
  <2>2. \A j \in 2..Len(Below) : Below[j].op = "inject" =>
            done[Below[j].obj].pawns = objects[Below[j].obj].pawns
    <3>1. Len(Below) \in Nat /\ \A j \in 2..Len(Below) : j \in 1..Len(Below)
      BY <2>1
    <3>2. \A j \in 1..Len(Below) : Below[j].op = "inject" => Below[j].obj \in Objects
      BY <2>1 DEF CallsOK, CallOK, Objects
    <3> QED BY <3>1, <3>2, <1>4
  <2> HIDE DEF done, answers, lost
  <2> QED BY <1>4, <1>7, <2>1, <2>2, AloneBelowKept
<1> HIDE DEF done, answers, lost
<1>9. /\ AloneBelow(c, below, done, answers, lost)
      /\ below # <<>> => /\ g.cont = c /\ key = KeyOf(Head(below).field)
                         /\ Asking(c, below, 1, done, answers)
  BY <1>1, <1>3, <1>4, <1>8, AlonePop
<1> HIDE DEF g, below, o, key
<1>10. CASE found = Null
  <2>1. stack' = below
    BY <1>2, <1>10
  <2>2. CASE below = <<>>
    BY <2>1, <2>2, AloneNone
  <2>3. CASE below # <<>>
    <3>1. objects' = SetPawn(done, Head(below).obj, Head(below).field.name, o)
      BY <1>2, <1>10, <2>3
    <3>2. <<key, o>> \in answers
      <4>1. key \in lost \/ o \in instances'[c][key]
        <5>1. Confusable(c, key) => key \in Lost(c)
          BY <1>3 DEF Lost
        <5> QED BY <5>1, <1>6, <1>7, <1>9, <1>10, <2>3
      <4> QED BY <4>1, <1>3 DEF Answers, answers, lost
    <3>3. Head(below).field \in PawnFields(done[Head(below).obj].type)
      BY <1>3, <1>4, <2>3
    <3>4. AloneOK(c, below, objects', answers, lost)
      BY <1>3, <1>4, <1>5, <1>9, <2>3, <3>1, <3>2, <3>3, AloneWritten
    <3> QED BY <2>1, <3>4 DEF answers, lost
  <2> QED BY <2>2, <2>3
<1>11. CASE found # Null
  <2>1. stack' = <<Second(g, o)>> \o below /\ objects' = done
    BY <1>2, <1>11
  <2> DEFINE f == Second(g, o)
  <2>2. f \in Frame /\ f.op = "get" /\ f.cont = g.cont /\ f.key = key /\ f.result = o
    BY <1>3, SecondFacts DEF key
  <2>3. stack' = <<f>> \o below
    BY <2>1
  <2> HIDE DEF f
  <2>4. ASSUME g.cont = c PROVE key \in lost
    <3>1. instances[c][key] # {}
      BY <1>2, <1>3, <1>11, <2>4, FoundIsComplete
    <3>2. o \in MadeFor(c, key)
      BY <1>3, <2>4 DEF MadeFor
    <3>3. key \in Lost(c)
      BY <1>3, <2>4, <3>1, <3>2 DEF CallsInv, MadeOnce, Lost
    <3> QED BY <3>3, <1>7
  <2>5. AloneBelow(c, <<f>> \o below, done, answers, lost)
    BY <1>3, <1>9, <2>2, <2>4, AlonePush
  <2>6. (<<f>> \o below)[1] = f
    BY <1>3, <2>2, PushFacts
  <2>7. AloneTop(c, <<f>> \o below, done, answers)
    BY <1>3, <2>2, <2>6 DEF AloneTop
  <2>8. AloneOK(c, <<f>> \o below, done, answers, lost)
    BY <2>5, <2>7 DEF AloneOK
  <2> QED BY <2>1, <2>3, <2>8 DEF answers, lost
<1> QED BY <1>10, <1>11

-----------------------------------------------------------------------------
LEMMA AloneInit == Init => AloneInv
<1> SUFFICES ASSUME Init PROVE AloneInv
  OBVIOUS
<1>1. stack = <<>>
  BY DEF Init
<1> QED BY <1>1, AloneNone DEF AloneInv

\* Whatever leaves no call in progress.
LEMMA AloneIdle ==
  ASSUME stack' = <<>>
  PROVE  AloneInv'
BY AloneNone DEF AloneInv

LEMMA AloneContinue ==
  ASSUME RegistryInv, CallsInv, AloneInv, Continue, UNCHANGED registryVars
  PROVE  AloneInv'
<1>1. CASE Throw \/ InjecteeReady
  <2>1. stack' = <<>>
    BY <1>1 DEF Throw, InjecteeReady
  <2> QED BY <2>1, AloneIdle
<1>2. CASE ~(Throw \/ InjecteeReady)
  <2> SUFFICES ASSUME NEW c \in Containers, Registered' = {c}
               PROVE  AloneOK(c, stack', objects', Answers(c)', Lost(c)')
    BY DEF AloneInv
  <2>1. Registered = {c}
    BY DEF Registered, registryVars
  <2>2. AloneOK(c, stack, objects, Answers(c), Lost(c))
    BY <2>1 DEF AloneInv
  <2>3. CASE SingletonGetOrAdd \/ NameletonGetOrAdd
    <3>1. /\ Serving /\ (FindInstance \/ EndOfSignatures \/ CallCreator)
          /\ UNCHANGED <<names, live, registered, signatures, instances>>
      BY <2>3 DEF SingletonGetOrAdd, NameletonGetOrAdd
    <3> QED BY <2>2, <3>1, AloneAnswers, AloneCallCreator
  <2>4. CASE NextField
    BY <2>1, <2>2, <2>4, AloneNextField
  <2>5. CASE InjectField
    BY <2>1, <2>2, <2>5, AloneInjectField
  <2>6. CASE InstanceReady
    BY <2>2, <2>6, AloneInstanceReady
  <2> QED BY <1>2, <2>3, <2>4, <2>5, <2>6 DEF Continue
<1> QED BY <1>1, <1>2

LEMMA AloneStep == RegistryInv /\ CallsInv /\ AloneInv /\ [Next]_vars => AloneInv'
<1> SUFFICES ASSUME RegistryInv, CallsInv, AloneInv, [Next]_vars PROVE AloneInv'
  OBVIOUS
<1>1. CASE UNCHANGED vars
  <2>1. UNCHANGED <<registered, signatures, instances, objects, stack, recursed>>
    BY <1>1 DEF vars
  <2>2. \A c \in Containers : Answers(c)' = Answers(c) /\ Lost(c)' = Lost(c)
    BY <2>1 DEF Answers, Lost, Matching, Confusable
  <2>3. Registered' = Registered
    BY <2>1 DEF Registered
  <2> QED BY <2>1, <2>2, <2>3 DEF AloneInv
<1>2. ASSUME NEW c \in Containers,
             \/ \E n \in Names : Construct(c, n)
             \/ Destruct(c) \/ BindSingleton(c) \/ BindNameleton(c)
      PROVE  AloneInv'
  <2>1. stack' = <<>>
    BY <1>2 DEF Construct, Destruct, BindSingleton, BindNameleton, BindConcreteSingleton,
       BindAbstractSingleton, BindConcreteNameleton, BindAbstractNameleton,
       RegisterSignalPack, PushSignature, Idle
  <2> QED BY <2>1, AloneIdle
<1>3. ASSUME NEW c \in Containers,
             \/ CreateBoundSingleton(c) \/ CreateBoundNameleton(c)
             \/ \E t \in Types : GetSingleton(c, t)
             \/ \E t \in Types, l \in Labels : GetNameleton(c, t, l)
      PROVE  AloneInv'
  BY <1>3, AloneGets DEF AloneInv
<1>4. ASSUME NEW t \in Types, NewInjectee(t) PROVE AloneInv'
  BY <1>4, AloneNewInjectee DEF AloneInv
<1>5. ASSUME NEW o \in Objects, InjectDependencies(o) PROVE AloneInv'
  BY <1>5, AloneInjectDependencies DEF AloneInv
<1>6. CASE Continue
  <2>1. UNCHANGED registryVars
    BY <1>6 DEF Continue, SingletonGetOrAdd, NameletonGetOrAdd, NextField, Throw, InjectField,
       InjecteeReady, InstanceReady, registryVars
  <2> QED BY <1>6, <2>1, AloneContinue
<1>7. CASE Next
  BY <1>7, <1>2, <1>3, <1>4, <1>5, <1>6 DEF Next
<1> QED BY <1>1, <1>7

LEMMA AloneInvariance == Spec => [](RegistryInv /\ CallsInv /\ AloneInv)
<1>1. Init => AloneInv
  BY AloneInit
<1>2. (RegistryInv /\ CallsInv /\ AloneInv) /\ [Next]_vars => AloneInv'
  BY AloneStep
<1> QED BY <1>1, <1>2, CallsInvariance, PTL DEF Spec

(* With one container registered, an injection that ends has written an instance  *)
(* into every pawn whose key the container has a signature for, and the           *)
(* registered one unless the key recursed or the order of nameletons lost it.     *)
THEOREM SoleContainerWritesAll == Spec => []SoleContainerInjects
<1>1. RegistryInv /\ CallsInv /\ AloneInv => SoleContainerInjects
  <2> SUFFICES ASSUME CallsInv, AloneInv, NEW c \in Containers, Injected, Registered = {c},
                      \A o \in Objects : /\ o # Top.obj
                                         /\ objects[o].type = objects[Top.obj].type
                                         => objects[o].state # "building",
                      NEW d \in PawnFields(objects[Top.obj].type),
                      Matching(c, KeyOf(d), 1) # {}
               PROVE  /\ objects[Top.obj].pawns[d.name] # Null
                      /\ <<c, KeyOf(d)>> \notin recursed /\ ~Confusable(c, KeyOf(d))
                            => objects[Top.obj].pawns[d.name] \in instances[c][KeyOf(d)]
    BY DEF SoleContainerInjects
  <2>1. /\ stack \in Seq(Frame) /\ stack # <<>> /\ Top.op = "inject"
        /\ Top.conts = {} /\ Top.todo = {}
    BY DEF CallsInv, CallsOK, Injected, Injecting, Idle
  <2>2. Top = stack[1] /\ 1 \in 1..Len(stack)
    BY <2>1, PopFacts DEF Top
  <2>3. Spared(stack, 1, objects) \/ FieldsDone(stack[1], objects, Answers(c), {})
    BY <2>1, <2>2 DEF AloneInv, AloneOK, AloneTop
  <2>4. ~Spared(stack, 1, objects)
    <3> SUFFICES ASSUME NEW j \in 1..Len(stack), j # 1, stack[j].op = "inject",
                        objects[stack[j].obj].type = objects[stack[1].obj].type,
                        objects[stack[j].obj].state = "building"
                 PROVE  FALSE
      BY DEF Spared
    <3>1. stack[j].obj \in Objects /\ stack[j].obj # stack[1].obj
      BY <2>1, <2>2 DEF CallsInv, CallsOK, CallOK, Objects
    <3> QED BY <3>1, <2>2
  <2>5. <<KeyOf(d), objects[Top.obj].pawns[d.name]>> \in Answers(c)
    BY <2>1, <2>2, <2>3, <2>4 DEF FieldsDone
  <2> QED BY <2>5 DEF Answers, Lost
<1> QED BY <1>1, AloneInvariance, PTL
=============================================================================

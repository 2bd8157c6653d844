# TLA+ models of zx

`zx` is a C++ library of smart pointers with run-time type information,
delegates and events, properties, reflection and dependency injection. This
directory holds TLA+ models of it, TLC configurations that check them on small
instances, and proofs that hold for every instance.

Source references are paths of the repository (`src/core/...` for the library,
`src/core_test/...` for its tests).

## The system

| Component | State it keeps | Operations | Interacts with |
|---|---|---|---|
| RTTI smart pointers (`zx_rtti_shared_ptr.*`, `zx_rtti_weak_ptr.*`) | a pointer to an object and to the control block of a `std::shared_ptr`; the two counters in that block; a static table of deleters | construction from std, copy, move, assignment, destruction, conversion to std, `write_to` | the library's `std::shared_ptr`, whose control block layout it relies on; the containers, which hold singletons in it |
| Delegates and events (`zx_event.h`) | a map from hash values to callbacks and a mutex, both shared by `copy()`s | `+=`, `-=`, `()`, `handle_every`, `operator bool`, `get_delegates` | client callbacks, run under the lock; `zx::event` forwards to a delegate |
| Iterables (`zx_iterables.h`) | a pair of iterators | `begin`, `end` | delegates, registry, containers |
| Type registry (`zx_type.*`, `zx_reflector.h`, `zx_rtti_args.*`, `zx_tmpl_args_converter.h`) | a static map of types, and a map of factory functions per type | `type::i`, `ensure`, `instantiate` | all users of `zx::type` |
| Metadata registry (`zx_meta_*`, `zx_enums.h`) | a static map of fields per type | `add_field`, `get_field`, `get_fields` | filled by macros and constructors, read by injection |
| Dependency injection (`zx_di_*`, `zx_singleton_container.*`, `zx_nameleton_container.*`) | a static map of containers; per container, signatures and instances | bind, `create`, `get_or_add`, `inject_dependencies` | creators that recurse into injection; `shared_ptr::write_to` into injected fields |
| Properties (`properties/*.h`) | pointers to owner and data, caches, a static write function | read, assign | their owners |
| Exceptions, constants | none | none | all |

Behaviour that is hard to get right, and that the models are aimed at:

* the handles increment and decrement someone else's counters, across four
  kinds of references (std and rtti, strong and weak) and by six operations that
  overwrite something;
* the counters are atomic, but the code tests and changes them in separate
  steps, so several threads can meet between the two;
* a delegate is locked while client code runs, and that code may re-enter it,
  call another delegate, throw, or unsubscribe somebody;
* registries are static and unsynchronised, creators recurse, maps are keyed by
  hash values or by an order that is none;
* a delegate calls objects it does not own, under keys that may collide;
* properties share static functions and keep addresses of their owners' fields.

`PROJECT.json` lists each hazard at its source line.

What makes each component correct:

* *Pointers*: counters equal to what is referenced; destroyed with the last
  strong reference and freed with the last of all, once each and in that order;
  no use afterwards; no resurrection.
* *Delegates*: locks released on every path; a list that does not change under
  a traversal; a callback that does not run after it was unsubscribed; no call
  that waits for ever.
* *Delegates' memory*: a node has one owner; only living subscribers are called.
* *Type registry*: one factory per key, found for ever once it was registered; a
  default constructible type has its default constructor.
* *Metadata*: a field found is the one registered under owner and name, and
  injection can use it; a walk shows every field once, whatever is registered
  under it for other types.
* *Injection*: one instance per key, complete before anybody sees it; injection
  sets what is bound, walks over living containers only, and ends.
* *Properties*: an assignment reaches the field the property exposes, and no other
  owner.

## Modules

| Module | What it is |
|---|---|
| `RttiPointers` | Slots that hold handles, control blocks with two counters; one action per operation |
| `ObjectLifetime` | What the handles promise, without counters: owners, watchers and the fate of objects |
| `RttiPointers_proofs` | The invariants of `RttiPointers`, proved for all instances |
| `RttiLifetime_proofs` | `RttiPointers` implements `ObjectLifetime`, proved for all instances |
| `RefCountRace` | One control block, handles in different threads, each read and update of a counter a step |
| `MulticastDelegate` | Threads with stacks of calls, delegates with mutexes, client callbacks |
| `DelegateLife` | Variables that share lists, the nodes lists own, the subscribers nodes call |
| `TypeRegistry` | Known types, their factory methods, hashes of argument lists |
| `MetaRegistry` | Extends `TypeRegistry`: fieldpawns, registered fields, walks that register |
| `DiContainer` | Containers, bindings, instances, and the calls in progress as a stack |
| `Properties` | Owners with properties of the thirteen classes |
| `RefCountRace_proofs`, `MulticastDelegate_proofs`, `DelegateLife_proofs`, `MetaRegistry_proofs`, `DiContainer_proofs`, `Properties_proofs` | The safety properties of the module of that name (`MetaRegistry_proofs`: of `TypeRegistry` too), proved for all instances |
| `MC_*` | Instances for TLC |

### RttiPointers

`ptr[s]` is the block that slot `s` points to: `_address` and `_ref_cntr`
together, since the object of a block made by `std::make_shared` never changes.
`heap[b]` has the counters `riffs` and `weaks`, the state of the object, and
whether `delete ref_cntr` has run. The other three variables are histories
that no action reads: references that `operator=` overwrote without giving them
back, and blocks whose last strong reference was dropped by `write_to`, which
passes no type and so skips the destructor.

Each action is one operation: an action named `Strong...` or `Weak...` is a
member of the class of that name; `Std...` is the standard library's handle,
modelled from the layout that the code assumes (`shared_ptr::ref_cntr`). The
operators `Retain`, `RetainWeak`, `Drop`, `DropWeak` are the counter updates and
work on the whole heap, so that an action that updates a counter twice, such as
`write_to`, reads in the second update what the first one wrote.

What clients have to respect, and what the model leaves out for it:

* conversions of empty values that dereference null (`StrongFromStd`,
  `WeakFromStd`, `WeakToStd`, and `WeakWriteTo` through an empty handle);
* `weak_ptr::write_to` over a `std::shared_ptr` that is not empty: allowed when
  the constant `OverwriteByWeak` is TRUE. The invariants need it to be FALSE, and
  the run `rtti_weakwrite` shows why;
* operations on one control block do not overlap in time (see `RefCountRace`);
* values of `std::shared_ptr` made by the aliasing constructor are not used;
* the counters (`unsigned long`) do not overflow: `Room` keeps them below
  `MaxCount`. Decrementing zero wraps, as it does in the code.

`ObjectLifetime` says the same without counters. `Share`, `Release`, `Watch` and
so on are what one expects of owners and watchers; two actions state the defects
the code has on purpose or by accident: assigning over an owner pins the object
it owned (`Assign`, `Transfer`), and overwriting the last owner from outside
abandons it (`Overwrite`). `ImplementsLifetime` is the refinement, checked by TLC.

### RefCountRace

The same operations as steps on one block: `CopyRiff` and `CopyWeak` are one
atomic increment; a conversion is `TestRiffs` and then `Convert`; `~shared_ptr` is
`DropRiff`, `ReadRiffs`, `DeleteInPlace`, `DropWeakOfRiffs`, `ReadWeaks`, `Free`;
`~weak_ptr` is `DropWeak`, `ReadWeaks`, `Free`. The destructor of
`std::shared_ptr` uses the value its atomic decrement returns, so it has fewer
steps (`StdDropRiff`, `StdDestroy`, `StdDropWeak`).

Every handle may be in a thread of its own, which is the most concurrent
program possible; one handle is not used by two threads except for reading. The
constant `KeptApart` is a set of pairs of operations that clients do not let
overlap. `Discipline` is seven pairs, which the run `race` uses and the theorems
assume to be in `KeptApart`: a release by an
rtti handle, strong or weak, is kept apart from every other release, and a
conversion from a weak handle from all strong releases. Copies,
conversions from a strong handle, and releases of `std::shared_ptr` among
themselves need no such care. Each of the seven pairs is needed: without any one
of them TLC finds an invariant of the run violated.

### MulticastDelegate

A thread is its stack of calls, as a callback may call a delegate again. A
call is a record of the operator, the delegate, where it stands (`stage`),
whether it holds the lock, and for a traversal the keys still to visit and those
visited. `holder[d]` is the owner of the mutex. Locking a mutex one already has
is undefined for `std::mutex`: the constant `Relock` chooses between an exception
(what the library of the project's compiler does) and waiting for ever. Callbacks
are client code and known only by what they may do: call a delegate that
`Nested` allows, return, throw. An exception unlocks what it leaves and may be
handled by any callback on its way.

`handle_every` and `operator()` differ in what they do with a result and are one
operation here. `zx::event` forwards each operator. The specialisation for void
results has the same control flow without `handle_every` and `get_delegates`.

### DelegateLife

The same class for one thread, and what `MulticastDelegate` leaves out: memory.
`delegates[h]` is the list the variable `h` shares, or that it was moved from or is
dead; `map[l]` maps hashes to nodes (the `i_delegate` objects), which are numbered
in the order they are made. `operator+=` makes the node before `insert` finds the
hash taken, and `operator-=` erases the pointer only: both lose a node, which the
ghost `lost` records and `NodesAccounted` shows to be the only leaks. A hash stands
for one node, so a collision takes calls from somebody: the ghost `owed` has who
subscribed and did not unsubscribe, and `crossed` those of them for whom another
of their hash (`rivals`) was in the list when they subscribed, or has unsubscribed
since. `CallsReachSubscribers` says that nobody else goes without calls. Hashes are
sets of bits, so that the exclusive or of `memfn_hash` collides as the real one
does; `LifeAssumption` asks of the hash of a function and of the bytes of a member
function pointer no more than that they are words.

Clients unsubscribe an object everywhere before they destroy it, and do not use a
moved-from delegate (its mutex is null). Objects may be constructed again at the
address of a dead one.

### TypeRegistry and MetaRegistry

`factories` is `type::__instances` with the constructors each type has a factory
method for. Hash codes are sets of bits, and the hash of a list is what an odd
number of its parts have: permutations collide, and pairs of equal types vanish,
as in `zx_rtti_args.h:27-41`. Only the call of `type::i` that makes a type's entry
adds the default constructor; `ensure` makes entries without it. The ghosts
`ensured_first` and `ensured_default` tell which types `ensure` met first and of which
it was given the default constructor, and `DefaultsRegistered` says with them when
`instantiate()` without arguments finds that constructor, and nothing else.
`MetaRegistry` extends the module, since adding a field calls `type::i` for the owner
and for the data.

A fieldpawn is owned by a client's `unique_ptr` (`pawns`) until a field takes it. A
walk is a loop over `get_fields` or a call of `for_each_field_of_type`; the client
code it calls may register and walk again. A walk records the fields it `began` with,
those `shown` and those `left`. A name that is new to the walked owner invalidates
its iterators: what such a walk does next is undefined, and `DisturbWalks` lets it go
on with any of the owner's fields, shown before or not. A walk that began on an empty
table is at its end already and stays there. `WalksAreComplete` says that nothing else
disturbs a walk: not the overwriting of a field of the same owner, nor new fields or
the first field of other types, which make the outer table grow, nor walks inside. The
empty table that a look-up leaves behind reads
like none and is not distinguished.

### DiContainer

One thread. A frame of `stack` is a call of `get_or_add` or of
`inject_dependencies`; a creator's call is the inject frame of the constructor it
runs, on top of the `get_or_add` that called it. `get_or_add` is split where the
code recurses: the look-up, the creator, the second look-up and the insertion.
`instances[c][key]` is the set of objects an entry may yield: one, unless the order
of nameletons has lost an entry and `insert` has added a second node.

`nameleton_identity::operator<` is no strict weak order, so `std::map` promises
nothing. `Confusable` says when the library of the project's compiler may miss an
entry: there are at least three entries, and one of them and the key are each less
than the other. `Find` and `Insert` then choose.

Types that need each other recurse without end unless a constructor guards itself:
`Guarded` are types whose constructor does not inject while another of its type is
being built. Fields are a constant, as the static constructors registered them,
and two fields of one type have two names, since the registry is keyed by both;
the pawn of a shared pointer is the object it points to. The containers without a
binding for a key are asked all the same, and their null overwrites the field.

`get_or_add<T>()` of both containers cannot be instantiated (it calls
`rtti::shared_ptr::to_shared_ptr`, which does not exist), so clients call the
overload that takes a type. Bindings are made while no call is in progress.

### Properties

A class of owners is a sequence of property members, each an instance of one of the
thirteen class templates with its field and functions; functions are maps of
values. `Member` has the functions that the class of a property is passed: only
formulas and computers compute what is read, only wrappers and computers what is
written. `write_funcs` has the static write function of each template instance.
`bound` is whose pointers a property has: its own, until `ref_wrapper` or
`shr_computer`, which do not hide their `operator=`, are assigned from another one.
`cache` is what `operator->` of the computed classes leaves behind. Writing through
`operator->` of a `val_getter` or `val_wrapper` reaches the field and passes no
function; that makes the getter writable, so no property claims that what getters
expose is read only (see *Disagreements*).

## Runs

| Run | Checks | Instance |
|---|---|---|
| `rtti` | the counters are the handles plus what assignments lost; held objects are alive; only assignments leak; destroyed exactly with the last strong reference; no resurrection; refinement of `ObjectLifetime` | 2 std, 3 strong and 2 weak slots, 2 blocks, counts to 4, symmetric |
| `rtti_weakwrite` | violation: `weak_ptr::write_to` over an owner drops a weak reference for a strong one | the same, `OverwriteByWeak` |
| `rtti_deferred` | violation: an object overwritten by `write_to` is freed and never destroyed | the same |
| `race` | counters match the handles between any two steps; destroyed and freed once, in order; nobody uses what is gone; the block is always freed in the end | 4 handles, counts to 5 |
| `race_unguarded` | violation: with nothing kept apart, zero weaks under a strong reference | 3 handles |
| `delegate` | a mutex is locked exactly while a call holds it; nothing changes under a traversal; every call ends | 2 threads, 3 delegates (one private), 2 callbacks, calls two deep |
| `delegate_life` | every node is in one list, deleted once or lost; called are living subscribers who did not unsubscribe, and all of these whom no collision crossed | 3 variables, 2 lists, 3 nodes, 4 subscribers of whom 2 collide |
| `registries` | one factory per key, found for ever; which types have a default constructor; fields consistent with what injection asks of them; walks show every field once | 2 types, 2 constructors that are permutations, 2 fields of one type and 1 of the other, 1 pawn at a time in 2 slots, walks two deep |
| `di` | instances complete, unique and kept; the registry names living containers; injection by a sole container reaches every field; every call ends | 2 containers, 2 names, 5 types of which 2 need each other, 2 and 1 bindings, 2 objects before the last call |
| `di_names` | violation: two instances of one nameleton | 1 container, 2 types by 2 names |
| `props` | assignments reach their field and stay in their owner | 3 owners with all 13 classes, 2 values, 2 owners symmetric |
| `props_shared` | violation: the second of two wrappers writes the first one's field | 1 owner |

Every property of a passing run has a mutant: an operator of the module,
marked *Mutant* in its comment, that changes one definition as a plausible bug
would and violates the property.

Why the bounds are enough. `rtti`: an operation involves at most two slots and
two blocks, and each of its cases depends on whether they are empty, the same
or different, and on whether a counter is one or more; three strong slots let
two of them be assigned while a third one owns. Both blocks and slots of one
kind are interchangeable, and no liveness is checked, so the symmetry is sound.
`race`: an operation that races meets one other, on a third handle's reference or
the handle that a conversion creates. `delegate`: a thread that waits, a thread
that holds, and a second delegate for the nested call; a third delegate has one
user, because a loop over `get_delegates()` takes no lock. `MaxCalls` bounds the
calls a thread makes from outside; each callback makes at most one call.
`delegate_life`: a copy, a move and a destruction involve two variables, and a third
one still shares or does not; a second list is where a deep copy would go; three
nodes are a subscriber, the one that collides with it, and the one after the first
is gone. `registries`: two constructors that hash alike, one of each registered
first, and a default constructible type that each of `i`, `ensure` and a field can meet
first; a walk that has shown one field and has one left, with another walk inside, of
its owner or of the other one, and a field to overwrite or to add under it. Slots are
interchangeable, and so are the two names of one member. Fieldpawns are of type
`none`, as a moved-from one, or named: the other two types differ from the named one in
no guard. `di`: the first container has an interface and the type
it needs, which needs the interface; the second one lacks what the first one has,
and the names may be one. `MaxObjects` bounds what exists before a client calls
again, not how deep a call goes. `props`: two owners of one class can be assigned
from each other, and one of another class cannot.

Fairness. `race`: weak fairness of the steps that continue an operation that has
begun: a running thread goes on. Nothing obliges a client to begin one.
`delegate`: weak fairness of each thread inside a call, callbacks returning
included. `EveryCallEnds` assumes that delegates are nested one way, that the
relock throws, and that calls are bounded: a `std::mutex` gives no guarantee
against starvation by an unbounded number of other calls. `di`: weak fairness of the
step a call in progress takes next, as its thread runs; clients need not call.

## Disagreements

* `rtti_weakwrite`: the comment at `zx_rtti_weak_ptr.cpp:154-158` relies on strong
  references keeping the weak counter at one or more; `weak_ptr::write_to`
  (line 126) breaks it.
* `rtti_deferred`: `README.md:600` says that the destruction `write_to` skips is
  deferred until the weak references are gone; it never happens.
* `race_unguarded`: the same comment does not hold for concurrent use, although
  the counters are atomic.
* `di_names`: `doc/dependency_injection.md:112` promises one instance of a type per
  name; the order at `zx_di_structs.cpp:85` may lose an entry, and a second instance
  is made.
* `props_shared`: `properties/zx_val_wrapper.h:8-10` says that a wrapper writes its
  data over a function; with two wrappers of one type in one owner, the second one
  writes through the function of the first (line 28), into the other field.

Seen while modelling, in the models, and not checked by a run of their own:

* `type::ensure` "ensures that constructor for type T exists" (`zx_type.h:62`); a
  constructor whose arguments hash like those of another is dropped (line 139), and
  `instantiate` calls the other one with a wrong signature (`Matching`).
* "Default ctor will be added to registry of zx::type if type is default
  constructible" (`README.md:104`): not when `ensure` comes before the first `type::i`.
  `DefaultsRegistered` has both cases.
* The comments "prevent copy" of `ref_wrapper` and `shr_computer` stand over
  `operator-` and `operator==`, so assignment stays public.
* `doc/properties.md:53` calls getters read only, and line 151 says that nobody can
  write to the address they expose; `operator->` of `val_getter` returns the field's
  own, mutable unless the data type is const (`AssignThroughArrow`).
* `zx::event` cannot be moved, although `README.md:424` calls it move only: its copy
  constructor, which asserts, suppresses the move constructor.

## Proofs

Every invariant and action property of a passing run, and the refinement of
`ObjectLifetime`, is a theorem as well: the run shows it on a small instance, the
theorem for every value of the constants that satisfies the module's named
assumptions, with no bound on the number of steps. Each proof has the same shape: an
inductive invariant (it holds initially, every step keeps it), and the property as its
consequence. What follows says what each invariant adds to the properties and why it
needs to.

### Pointers

`RttiPointers_proofs` and `RttiLifetime_proofs`, for any slots, blocks and
`MaxCount`, if `~OverwriteByWeak` (without it the properties are false: see the run
`rtti_weakwrite`):

| Theorem | Property |
|---|---|
| `TypeCorrect` | `TypeOK` |
| `Conservation` | `RiffsConserved` |
| `WeakConservation` | `WeaksConserved` |
| `NoUseAfterFree` | `HeldIsUsable` |
| `OnlyAssignmentLeaks` | `LeakedOnlyByAssignment` |
| `DestructionIsExact` | `DestroyedWithLastRiff` |
| `DeadStaysDead` | `NoResurrection` |
| `WeaksOutlive` | `WeaksOutliveRiffs` |
| `HandlesImplementLifetime` | `ImplementsLifetime` |

The inductive invariant `IInv` has two parts beside the types. The counts: both
counters equal the number of holders plus the lost references. The life of a
block: what its object and its `freed` flag are, as a function of the counters
(unmade: all zero; freed exactly when both counters are zero; destroyed or
undestroyed exactly when `riffs` is zero). Neither is inductive alone: the counts
tell that a held block has a positive counter, and the life turns that into an
object that is alive, which is what lets the next operation count from it.

Lemmas on sets (`HoldersUpdate`, `HoldersMove`) say what pointing a slot elsewhere
does to the number of holders of each block. Lemmas on counting
(`RetainFields`, `DropFields`, ...) say what each counter update does to each
field. From these, nine lemmas cover what an operation can do to references
(gain, lose or hand over a strong or a weak one, make a block, overwrite an
owner, lose nothing), and each action is one of them. `NoResurrection` is an action
property: each action is shown to leave a block without strong references alone,
from the invariant before the step.

The refinement goes operation by operation. `FateByCounts` reads the fate of an
object off its counter and history, which gives `FateKept` and `FateEnds`: what a
step does to a fate follows from what it does to the counter. A step of the
specification also asks who else owns the object, which `OwnedIsCounted` answers
from the conservation laws. Then each form of operation is one step
of the specification (`GainIsShare`, `CopyIsAssign`, `MoveIsTransfer`,
`DropIsRelease`, `WriteToIsOverwrite`, `MakeIsCreate`, `GainIsWatch`, ...).

### Races on one block

`RefCountRace_proofs`, for any number of handles, each in a thread of its own, if
`Discipline \subseteq KeptApart`:

| Theorem | Property |
|---|---|
| `TypeCorrect` | `TypeOK` |
| `CountsAreRight` | `CountsMatchHandles` |
| `NoDoubleEnd` | `EndsOnce` |
| `OwnedIsAlive` | `HeldIsAlive` |
| `LastUserFrees` | `NothingAfterFree` |

The hypothesis is what clients have to respect, and is not more than needed: TLC
violates an invariant of the run `race` when any one of the seven pairs is left out.

The argument: a release that has dropped its reference excludes every other such
release (`OneRelease`). For the rtti handles this is the discipline. For two
`std::shared_ptr` it is not: they may overlap, but a decrement that leaves
references ends its operation, and the one that leaves none is the last, because
each handle that is still to drop counts. A conversion keeps the counter it
increments from zero until it does (`ConvertsLive`), since the handle it reads from,
or the handles that the discipline protects, cannot all go. Then what a release saw
of a counter stays so (`LastGone`), and the two histories are functions of the
counters and of who has a step to do (`History`).

### Delegates

`MulticastDelegate_proofs`, for any threads, delegates, callbacks, nestings, bounds
and either choice of `Relock`:

| Theorem | Property |
|---|---|
| `TypeCorrect` | `TypeOK` |
| `LocksAreCalls` | `LockMatchesCalls` |
| `TraversalsAreStable` | `TraversalIsStable` |
| `NobodyChangesTraversedList` | `NoChangeUnderTraversal` |

A step changes the stack of one thread, so the invariant is one condition per
thread, `CallsOK`: which calls may be below which, that a traversal knows the whole
list of its delegate, that no mutex is locked by two calls, and that each mutex the
thread holds is one of a call's. A call that changes a list is innermost and
has the lock; a traversal of the same list has the lock too, or goes over a delegate
that only its own thread uses and no callback calls; so the two are
one call, or one of them is not where it would have to be. That the lock excludes
*other* threads is in `Owns`; that it excludes the same thread is in `Stacked` and
`LockedOnce`.

`DelegateLife_proofs`, for any variables, lists, subscribers and hashes:

| Theorem | Property |
|---|---|
| `TypeCorrect` | `TypeOK` |
| `EveryNodeAccounted` | `NodesAccounted` |
| `CallsReachTheLiving` | `CallsReachSubscribers` |

`NodesAccounted` counts owners; the invariant says the same without counting:
`OwnedApart` (no node has two places, or one and was deleted or lost) and
`NodesTracked` (one that has no place was deleted or lost). `UnusedEmpty` lets a
list be used again after its last variable died. `CallsOwed` relates lists to the
ghost `owed`, and needs that a node is found under the hash of its own subscriber
(`MapsTyped`): that is why a collision can hide a subscriber but not call a dead one.
Its other half is that whoever is owed calls and is not in `crossed` is the one found
under its hash (`Found`). A subscription keeps this because a hash that is taken
belongs to the subscriber itself or to one of its `rivals`, and an unsubscription
because all who shared the erased hash become crossed.

### Registries

`MetaRegistry_proofs`, for all types, hash codes, constructors and fields
that satisfy `TypeAssumption` and `MetaAssumption`:

| Theorem | Property |
|---|---|
| `InstantiateIsDeterministic` | `OneFactoryPerKey` |
| `DefaultsAreRegistered` | `DefaultsRegistered` |
| `RegistryGrows` | `FactoriesStay` |
| `FieldsStayConsistent` | `FieldsConsistent` |
| `TypeCorrect` | `TypeOK` |
| `WalksShowEveryField` | `WalksAreComplete` |

A lemma reduces every step to what it does to the table of types
(`StepRegisters`: nothing, `type::i` once or twice, or `ensure`), and two lemmas
on tables (`AfterISafe`, `AfterEnsureSafe`) show that each keeps what is there and
adds no second factory method of a key. The only fact of hashes they need is that
having the same hash is an equivalence. `DefaultsIn` says of tables what
`DefaultsRegistered` says of answers, that the default constructor is there or is not:
with `OneFactoryPerKey`, one that is there is the only answer. `FieldInv` rests on this: what was known
when a field was stored is known for ever. `WalkInv` says of every walk on the stack
what `WalksAreComplete` says, and that a walk began with no more than its owner has: a
registration that overwrites leaves the names as they are, and one that adds a name
makes the fields of the owner differ, then and for ever, from those a walk began
with.

### Injection

`DiContainer_proofs`, for all containers, names, types, fields and bindings that
satisfy `DiAssumption`:

| Theorem | Property |
|---|---|
| `InjectionReadsLive` | `RegistryNamesLive` |
| `NamesakesApart` | `UniqueNamesRegistered` |
| `TypeCorrect` | `TypeOK` |
| `NothingHalfBuilt` | `OnlyCompleteInstances` |
| `OneInstancePerKey` | `OneInstanceUnlessRecursive` |
| `RegisteredForLife` | `InstancesKept` |
| `SoleContainerWritesAll` | `SoleContainerInjects` |

The invariant has three parts. `RegistryInv` adds to the first two properties that
live containers have names and that an entry's container has the name of the entry.
Without this, a container could be registered under a second name, and stay there
when it is destroyed. Only `Construct` and `Destruct` touch the registry.

`CallsInv` is about the stack, at any depth: a frame of `inject_dependencies` under
construction lies on the `get_or_add` it was made for, objects that are being built
are on the stack once, and what entries, pawns and results hold was built
(`CallsOK`, `EntriesOK`, `ObjectsOK`). `MadeOnce` strengthens
`OneInstanceUnlessRecursive`: an object made for a key is the only one, and is being
built exactly while the key has no entry. A second creator would need a look-up that
finds nothing, so the key would be without entry and its first object on the stack:
that is a recursion, which `recursed` records. That a key on which the order of
nameletons once gave out stays out of the claim (`ConfusedStays`) needs that entries
are finitely many and are never taken away.

`AloneInv` is about one registered container: which fields of the injections on the
stack are done, and what the answers to the calls in between may be. A guarded
constructor that did not inject (`Spared`) has another one of its type below it, which
is the case the property sets aside.

### Properties

`Properties_proofs`, for all owners, classes of any number of members, fields and
values:

| Theorem | Property |
|---|---|
| `TypeCorrect` | `TypeOK` |
| `AssignmentsReach` | `LoneWritesReach` |
| `WritesStay` | `WritesStayInOwner` |

A property has its own pointers or those of another one of its template instance
(`BoundAlike`), and the static function of an instance is that of one of its
wrappers, set before any owner of one lives (`FunctionsSet`). So the function of a
lone wrapper is its own. That the first wrapper of an owner is well defined rests
on the well-foundedness of the numbers of members.

### Only model-checked

Liveness is out of the prover's reach: `EventuallyFreed` of `RefCountRace` and the
two `EveryCallEnds` stay with TLC, as do the five violations, which are
counterexamples. The composition of the models is not stated: each theorem is about
one module's specification, and the assumptions each makes of its clients are those
listed with the module above.

## Not modelled

Exceptions, constants and precompiled headers have no state. Iterables other than
the ones the three users walk over differ in types only. The unsynchronised static
maps (types, deleters, containers, fields) are a data race in any concurrent use,
which no protocol of the code prevents: their models have one thread. The layout
of objects (an interface that is not the first base of its implementation), the
arguments that creators capture, and the template metaprogramming that fails to
compile are out of the models. The destruction of the last copy of a delegate
while one of its calls is under way is a client error.

## Plan

All components that keep state are modelled, and the safety properties of all runs
are proved. Left, in this order:

1. a theorem for the programs that do use `weak_ptr::write_to` over an owner: which of
   the properties of `RttiPointers` hold of the blocks it was never used on;
2. what the proofs know and no property says yet: that the strong releases of
   `std::shared_ptr` need no discipline among themselves (`OneRelease`), and that a
   key is recorded in `recursed` only by a creator that asks for its own key again;
3. a specification of a delegate as a set of subscribers whose calls are atomic, and
   `MulticastDelegate` as its implementation.

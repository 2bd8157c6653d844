------------------------------ MODULE DelegateLife ------------------------------
(* Who owns what around zx::multicast_delegate (zx_event.h), for one thread:     *)
(* variables of the class share a list through copy(), the list owns the         *)
(* i_delegates it maps hashes to, and these keep raw pointers to the subscribers *)
(* they call. MulticastDelegate has the locks and the calls.                     *)
(*                                                                               *)
(* A zx::event refers to a variable and forwards to it. The specialisation for   *)
(* void results owns the same things.                                            *)
EXTENDS Naturals, Sequences, FiniteSets, Functions

CONSTANTS
    Variables,       \* C++ variables of the class
    Lists,           \* delegate_maps
    Owners,          \* objects whose member functions subscribe
    Static,          \* the owner of functions and of functors with a key
    Subscribers,     \* records of an owner and a function fn
    Bits,
    Address,         \* [Owners -> SUBSET Bits]
    Code,            \* [fns of owners -> SUBSET Bits], the first bytes of a pointer
    StdHash,         \* [static fns -> SUBSET Bits]: std::hash of the function or key
    MovedFrom, Dead, \* variables without a list
    MaxNodes         \* bound on the i_delegates made

ASSUME LifeAssumption ==
    /\ Static \notin Owners /\ {MovedFrom, Dead} \cap Lists = {} /\ MovedFrom # Dead
    /\ \A s \in Subscribers :
        /\ s.owner \in Owners \cup {Static}
        /\ (IF s.owner = Static THEN StdHash[s.fn] ELSE Code[s.fn]) \in SUBSET Bits
    /\ Address \in [Owners -> SUBSET Bits]
    /\ MaxNodes \in Nat

VARIABLES
    delegates,       \* [Variables -> the list _delegates points to]
    map,             \* [Lists -> hashes -> nodes]
    nodes,           \* i_delegates made: a sequence of subscribers
    deleted,         \* nodes deleted
    lost,            \* ghost: nodes that operator+= could not insert or operator-= erased
    alive,           \* owners that exist
    owed,            \* ghost: <<list, subscriber>> added and not removed since
    crossed          \* ghost: those of owed whose hash another subscriber of the list had

vars == <<delegates, map, nodes, deleted, lost, alive, owed, crossed>>

-----------------------------------------------------------------------------
(* Keys.                                                                         *)

\* A 64 bit word is its set of ones; this is exclusive or.
memfn_hash(fn, owner) == (Code[fn] \ Address[owner]) \cup (Address[owner] \ Code[fn])

Hash(s) == IF s.owner = Static THEN StdHash[s.fn] ELSE memfn_hash(s.fn, s.owner)

-----------------------------------------------------------------------------
(* Variables.                                                                    *)

Shared(l) == \E h \in Variables : delegates[h] = l
Usable(h) == delegates[h] \in Lists

NewDelegate(h) ==
    /\ delegates[h] = Dead
    /\ \E l \in Lists :
        /\ ~Shared(l)
        /\ delegates' = [delegates EXCEPT ![h] = l]
        /\ map' = [map EXCEPT ![l] = <<>>]
    /\ UNCHANGED <<nodes, deleted, lost, alive, owed, crossed>>

\* Mutant of Copy: the copy has a map of its own.
CopyDeep(h, to) ==
    /\ delegates[h] # Dead /\ delegates[to] = Dead
    /\ \E l \in Lists :
        /\ ~Shared(l)
        /\ delegates' = [delegates EXCEPT ![to] = l]
        /\ map' = [map EXCEPT ![l] = IF Usable(h) THEN map[delegates[h]] ELSE <<>>]
    /\ UNCHANGED <<nodes, deleted, lost, alive, owed, crossed>>

\* copy(); the list that the result was made with is gone again.
Copy(h, to) ==
    /\ delegates[h] # Dead /\ delegates[to] = Dead
    /\ delegates' = [delegates EXCEPT ![to] = delegates[h]]
    /\ UNCHANGED <<map, nodes, deleted, lost, alive, owed, crossed>>

Move(h, to) ==
    /\ delegates[h] # Dead /\ delegates[to] = Dead
    /\ delegates' = [delegates EXCEPT ![to] = delegates[h], ![h] = MovedFrom]
    /\ UNCHANGED <<map, nodes, deleted, lost, alive, owed, crossed>>

\* Mutant of Destroy: every variable deletes what its list has.
DestroyEach(h) ==
    /\ delegates[h] # Dead
    /\ delegates' = [delegates EXCEPT ![h] = Dead]
    /\ deleted' = deleted \cup (IF Usable(h) THEN Range(map[delegates[h]]) ELSE {})
    /\ UNCHANGED <<map, nodes, lost, alive, owed, crossed>>

\* The last variable of a list takes it along: ~delegate_map deletes what it has.
Destroy(h) ==
    /\ delegates[h] # Dead
    /\ delegates' = [delegates EXCEPT ![h] = Dead]
    /\ IF Usable(h) /\ ~\E g \in Variables \ {h} : delegates[g] = delegates[h]
       THEN /\ deleted' = deleted \cup Range(map[delegates[h]])
            /\ map' = [map EXCEPT ![delegates[h]] = <<>>]
            /\ owed' = {e \in owed : e[1] # delegates[h]}
            /\ crossed' = crossed \cap owed'
       ELSE UNCHANGED <<deleted, map, owed, crossed>>
    /\ UNCHANGED <<nodes, lost, alive>>

-----------------------------------------------------------------------------
(* Subscriptions. A moved-from variable has a null mutex: nobody uses it.         *)

\* Who else is owed calls of l and has the hash of s. A hash stands for one node:
\* s is crossed when they were there first, they are when s unsubscribes.
rivals(l, s) == {e \in owed : e[1] = l /\ e[2] # s /\ Hash(e[2]) = Hash(s)}

\* Mutant of Subscribe: the hash is looked up first, which makes a null entry.
SubscribeAfterLookup(h, s) ==
    LET l == delegates[h] IN
    /\ Usable(h) /\ Len(nodes) < MaxNodes
    /\ s.owner \in alive \cup {Static}
    /\ map' = [map EXCEPT ![l] = [k \in DOMAIN @ \cup {Hash(s)} |->
                                     IF k \in DOMAIN @ THEN @[k] ELSE 0]]
    /\ nodes' = Append(nodes, s)
    /\ lost' = lost \cup {Len(nodes')}
    /\ owed' = owed \cup {<<l, s>>}
    /\ UNCHANGED <<delegates, deleted, alive, crossed>>

\* operator+=: the node is made before insert finds that the hash is taken.
Subscribe(h, s) ==
    LET l == delegates[h] IN
    /\ Usable(h) /\ Len(nodes) < MaxNodes
    /\ s.owner \in alive \cup {Static}
    /\ nodes' = Append(nodes, s)
    /\ IF Hash(s) \in DOMAIN map[l]
       THEN lost' = lost \cup {Len(nodes')} /\ UNCHANGED map
       ELSE /\ map' = [map EXCEPT ![l] = [k \in DOMAIN @ \cup {Hash(s)} |->
                                            IF k = Hash(s) THEN Len(nodes') ELSE @[k]]]
            /\ UNCHANGED lost
    /\ owed' = owed \cup {<<l, s>>}
    /\ crossed' = IF rivals(l, s) = {} THEN crossed \ {<<l, s>>}
                                      ELSE crossed \cup ({<<l, s>>} \ owed)
    /\ UNCHANGED <<delegates, deleted, alive>>

\* operator-= erases the pointer, not what it points to.
Unsubscribe(h, s) ==
    LET l == delegates[h] IN
    /\ Usable(h) /\ s.owner \in alive \cup {Static}
    /\ map' = [map EXCEPT ![l] = [k \in DOMAIN @ \ {Hash(s)} |-> @[k]]]
    /\ lost' = lost \cup {map[l][k] : k \in DOMAIN map[l] \cap {Hash(s)}}
    /\ owed' = owed \ {<<l, s>>}
    /\ crossed' = (crossed \cup rivals(l, s)) \ {<<l, s>>}
    /\ UNCHANGED <<delegates, nodes, deleted, alive>>

\* Clients construct subscribers anywhere, also where one has been before.
ConstructOwner(o) ==
    /\ o \notin alive
    /\ alive' = alive \cup {o}
    /\ UNCHANGED <<delegates, map, nodes, deleted, lost, owed, crossed>>

\* Clients unsubscribe an object everywhere before they destroy it.
DestroyOwner(o) ==
    /\ o \in alive /\ \A e \in owed : e[2].owner # o
    /\ alive' = alive \ {o}
    /\ UNCHANGED <<delegates, map, nodes, deleted, lost, owed, crossed>>

-----------------------------------------------------------------------------
Init ==
    /\ delegates = [h \in Variables |-> Dead]
    /\ map = [l \in Lists |-> <<>>]
    /\ nodes = <<>> /\ deleted = {} /\ lost = {}
    /\ alive = {} /\ owed = {} /\ crossed = {}

Next ==
    \/ \E h \in Variables :
        \/ NewDelegate(h) \/ Destroy(h)
        \/ \E to \in Variables : Copy(h, to) \/ Move(h, to)
        \/ \E s \in Subscribers : Subscribe(h, s) \/ Unsubscribe(h, s)
    \/ \E o \in Owners : ConstructOwner(o) \/ DestroyOwner(o)

Spec == Init /\ [][Next]_vars

-----------------------------------------------------------------------------
\* Whom operator() of a variable with list l calls.
Called(l) == {nodes[n] : n \in Range(map[l])}

(* Every variable has its type.                                                  *)
TypeOK ==
    /\ delegates \in [Variables -> Lists \cup {MovedFrom, Dead}]
    /\ \A l \in Lists : DOMAIN map[l] \subseteq SUBSET Bits
    /\ \A l \in Lists : Range(map[l]) \subseteq DOMAIN nodes
    /\ nodes \in Seq(Subscribers) /\ Len(nodes) <= MaxNodes
    /\ deleted \subseteq DOMAIN nodes /\ lost \subseteq DOMAIN nodes
    /\ alive \subseteq Owners /\ owed \subseteq Lists \X Subscribers /\ crossed \subseteq owed

(* A node that no list has was deleted once, with its list, or is lost by         *)
(* operator+= or operator-=; and no list has a node that was deleted or that      *)
(* another list will delete, however variables were copied, moved and destroyed.  *)
NodesAccounted ==
    LET owners(n) == {l \in Lists : Shared(l) /\ n \in Range(map[l])} IN
    \A n \in DOMAIN nodes :
        Cardinality(owners(n)) + Cardinality({n} \cap deleted) + Cardinality({n} \cap lost) = 1

(* What is called through any variable is a subscriber who is alive and has not   *)
(* unsubscribed, also where hashes collide; and a subscriber who has not          *)
(* unsubscribed is called, unless another of the same list with the same hash was *)
(* there when it subscribed or has unsubscribed since.                            *)
CallsReachSubscribers ==
    \A l \in Lists : Shared(l) =>
        /\ \A s \in Called(l) : <<l, s>> \in owed /\ s.owner \in alive \cup {Static}
        /\ \A e \in owed : e[1] = l =>
            e[2] \in Called(l) \/ e \in crossed
===============================================================================

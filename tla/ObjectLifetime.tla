--------------------------- MODULE ObjectLifetime ---------------------------
(***************************************************************************)
(* What a family of owning and watching handles promises, without counters *)
(* and control blocks: who owns an object, who watches it, and when it is  *)
(* destroyed.  The handles of zx::rtti implement this.                     *)
(*                                                                         *)
(* The promise has the two defects the code has: assigning over an owner   *)
(* pins the object it owned for ever, and overwriting the last owner from  *)
(* outside abandons the object, which is then never destroyed.             *)
(***************************************************************************)
CONSTANTS OwnerSlots, WatchSlots, Objects, None

VARIABLES
  own,      \* own[s]: the object slot s owns
  watch,    \* watch[w]: the object slot w watches
  fate,     \* fate[o]: "unborn", "alive", "destroyed" or "abandoned"
  pinned    \* objects no sequence of releases can destroy any more

vars == <<own, watch, fate, pinned>>

OwnedBy(f, o) == \E s \in OwnerSlots : f[s] = o
Reached(o)    == OwnedBy(own, o) \/ \E w \in WatchSlots : watch[w] = o

Init ==
  /\ own = [s \in OwnerSlots |-> None]
  /\ watch = [w \in WatchSlots |-> None]
  /\ fate = [o \in Objects |-> "unborn"]
  /\ pinned = {}

\* The object an empty slot "loses" is no object.
Pin(o) == pinned' = pinned \cup ({o} \ {None})

\* Owner slots become f; an object left without an owner and not pinned ends.
Settle(f, ending) ==
  /\ own' = f
  /\ fate' = [o \in Objects |->
                IF fate[o] = "alive" /\ OwnedBy(own, o) /\ ~OwnedBy(f, o) /\ o \notin pinned
                THEN ending ELSE fate[o]]

Create(s, o) ==
  /\ own[s] = None /\ fate[o] = "unborn"
  /\ own' = [own EXCEPT ![s] = o]
  /\ fate' = [fate EXCEPT ![o] = "alive"]
  /\ UNCHANGED <<watch, pinned>>

\* A new owner of an object that some slot reaches, and that is alive.
Share(s, o) ==
  /\ own[s] = None /\ Reached(o) /\ fate[o] = "alive"
  /\ own' = [own EXCEPT ![s] = o]
  /\ UNCHANGED <<watch, fate, pinned>>

\* Assignment: t owns what s owns; what t owned before is pinned.
Assign(s, t) ==
  /\ s # t /\ own[s] # own[t]
  /\ own' = [own EXCEPT ![t] = own[s]]
  /\ Pin(own[t])
  /\ UNCHANGED <<watch, fate>>

Transfer(s, t) ==
  /\ s # t
  /\ own' = [own EXCEPT ![t] = own[s], ![s] = None]
  /\ Pin(own[t])
  /\ UNCHANGED <<watch, fate>>

Release(s) ==
  /\ own[s] # None
  /\ Settle([own EXCEPT ![s] = None], "destroyed")
  /\ UNCHANGED <<watch, pinned>>

\* t is overwritten from outside with what s owns.
Overwrite(s, t) ==
  /\ s # t
  /\ Settle([own EXCEPT ![t] = own[s]], "abandoned")
  /\ UNCHANGED <<watch, pinned>>

\* A watcher starts watching o, stops watching, or its object is taken.
Watch(w, o) ==
  /\ Reached(o)
  /\ watch' = [watch EXCEPT ![w] = o]
  /\ UNCHANGED <<own, fate, pinned>>

Hand(w, v) ==
  /\ w # v
  /\ watch' = [watch EXCEPT ![w] = watch[v], ![v] = None]
  /\ UNCHANGED <<own, fate, pinned>>

Unwatch(w) ==
  /\ watch' = [watch EXCEPT ![w] = None]
  /\ UNCHANGED <<own, fate, pinned>>

Next ==
  \/ \E s \in OwnerSlots, o \in Objects : Create(s, o) \/ Share(s, o)
  \/ \E s, t \in OwnerSlots : Assign(s, t) \/ Transfer(s, t) \/ Overwrite(s, t)
  \/ \E s \in OwnerSlots : Release(s)
  \/ \E w \in WatchSlots, o \in Objects : Watch(w, o)
  \/ \E w, v \in WatchSlots : Hand(w, v)
  \/ \E w \in WatchSlots : Unwatch(w)

Spec == Init /\ [][Next]_vars
=============================================================================

------------------------- MODULE MulticastDelegate -------------------------
(***************************************************************************)
(* zx::multicast_delegate (src/core/zx_event.h): lists of callbacks, each  *)
(* behind a std::mutex, subscribed to and invoked by several threads that  *)
(* hold copy()s of one delegate. The mutex stays locked while the          *)
(* callbacks run, and a callback is client code: it may call delegates     *)
(* itself, throw, or return.                                               *)
(*                                                                         *)
(* A thread is its stack of calls. zx::event forwards every operator to    *)
(* the delegate it refers to, so a call through it is the same call.  The  *)
(* specialisation for void results has the same control flow.              *)
(***************************************************************************)
EXTENDS Naturals, Sequences, SequencesExt

CONSTANTS
  Threads, Delegates, Callbacks,
  Keys,       \* the hash values of callbacks
  Hash,       \* Hash[c]: memfn_hash or std::hash of callback c
  Free,       \* the holder of an unlocked mutex
  Absent,     \* what a key without a delegate maps to
  Users,      \* Users[d]: the threads that hold a copy of delegate d
  Nested,     \* <<d, e>>: callbacks of d may call e
  Relock,     \* a thread locking its own std::mutex: "throws" or "blocks"
  MaxDepth,   \* bound on calls inside calls
  MaxCalls    \* bound on the calls a thread makes from outside callbacks

ASSUME DelegateAssumption ==
  /\ Hash \in [Callbacks -> Keys]
  /\ Free \notin Threads /\ Absent \notin Callbacks
  /\ Users \in [Delegates -> SUBSET Threads]
  /\ Nested \subseteq Delegates \X Delegates
  /\ Relock \in {"throws", "blocks"}
  /\ MaxDepth \in Nat \ {0} /\ MaxCalls \in Nat

VARIABLES
  map,      \* map[d][k]: the callback registered under k, or Absent
  holder,   \* holder[d]: the thread that has locked the mutex of d
  stack,    \* stack[t]: the calls thread t is in, the innermost one last
  calls     \* calls[t]: how many calls t has made from outside callbacks

vars == <<map, holder, stack, calls>>

\* operator+=, operator-=, operator bool, operator() or handle_every (whose
\* routine runs with the callback), and a loop over get_delegates().
Updates    == {"add", "remove"}
Traversals == {"call", "peek"}
Ops        == Updates \cup {"test"} \cup Traversals

\* Where a call stands: about to lock, inside with its lock (or without, for
\* get_delegates), running a callback, back in a callback after a call it made,
\* or being left by an exception.
Stages == {"enter", "inside", "callback", "resumed", "throwing"}

Frame == [op : Ops, del : Delegates, cb : Callbacks \cup {Absent}, stage : Stages,
          locked : BOOLEAN, todo : SUBSET Keys, done : SUBSET Keys]

Map == [Keys -> Callbacks \cup {Absent}]

Registered(m) == {k \in Keys : m[k] # Absent}

Active(t) == stack[t] # <<>>
Top(t)    == Last(stack[t])

----------------------------------------------------------------------------
(* Calls and returns.                                                      *)

\* The stack of t with its innermost call replaced by f.
Replace(t, f) == [stack EXCEPT ![t] = Append(Front(@), f)]

Enter(op, d, c) ==
  [op |-> op, del |-> d, cb |-> c, stage |-> "enter",
   locked |-> FALSE, todo |-> {}, done |-> {}]

\* A loop over get_delegates() takes no lock: it belongs to the only user of a
\* delegate that no callback calls.
Allowed(t, op, d, c) ==
  /\ op \in Updates <=> c # Absent
  /\ t \in Users[d]
  /\ op = "peek" => Users[d] = {t} /\ \A e \in Delegates : <<e, d>> \notin Nested

Call(t, op, d, c) ==
  /\ ~Active(t) /\ calls[t] < MaxCalls
  /\ Allowed(t, op, d, c)
  /\ calls' = [calls EXCEPT ![t] = @ + 1]
  /\ stack' = [stack EXCEPT ![t] = <<Enter(op, d, c)>>]
  /\ UNCHANGED <<map, holder>>

\* A callback calls a delegate; it does so at most once.
CallFromCallback(t, op, d, c) ==
  /\ Active(t) /\ Len(stack[t]) < MaxDepth
  /\ Top(t).stage = "callback" /\ <<Top(t).del, d>> \in Nested
  /\ Allowed(t, op, d, c)
  /\ stack' = [stack EXCEPT ![t] =
                 Front(@) \o <<[Last(@) EXCEPT !.stage = "resumed"], Enter(op, d, c)>>]
  /\ UNCHANGED <<map, holder, calls>>

\* The innermost call of t ends; its lock_guard, if any, unlocks.
Return(t) ==
  /\ stack' = [stack EXCEPT ![t] = Front(@)]
  /\ holder' = IF Top(t).locked THEN [holder EXCEPT ![Top(t).del] = Free] ELSE holder

----------------------------------------------------------------------------
(* Locking.                                                                *)

\* Mutant: a recursive mutex.
LockRecursively(t) ==
  /\ Active(t) /\ Top(t).stage = "enter" /\ Top(t).op # "peek"
  /\ holder[Top(t).del] \in {Free, t}
  /\ holder' = [holder EXCEPT ![Top(t).del] = t]
  /\ stack' = Replace(t, [Top(t) EXCEPT
       !.stage = "inside", !.locked = TRUE,
       !.todo = IF Top(t).op \in Traversals THEN Registered(map[Top(t).del]) ELSE {}])
  /\ UNCHANGED <<map, calls>>

\* std::lock_guard on a free mutex; a traversal starts at begin().
Lock(t) ==
  /\ Active(t) /\ Top(t).stage = "enter" /\ Top(t).op # "peek"
  /\ holder[Top(t).del] = Free
  /\ holder' = [holder EXCEPT ![Top(t).del] = t]
  /\ stack' = Replace(t, [Top(t) EXCEPT
       !.stage = "inside", !.locked = TRUE,
       !.todo = IF Top(t).op \in Traversals THEN Registered(map[Top(t).del]) ELSE {}])
  /\ UNCHANGED <<map, calls>>

\* A std::mutex that its own thread locks again: undefined by the standard. The
\* library of the build throws std::system_error, others never return.
LockOwnMutex(t) ==
  /\ Active(t) /\ Top(t).stage = "enter" /\ Top(t).op # "peek"
  /\ holder[Top(t).del] = t
  /\ Relock = "throws"
  /\ stack' = Replace(t, [Top(t) EXCEPT !.stage = "throwing"])
  /\ UNCHANGED <<map, holder, calls>>

\* get_delegates() copies begin() and end() without the lock.
GetDelegates(t) ==
  /\ Active(t) /\ Top(t).stage = "enter" /\ Top(t).op = "peek"
  /\ stack' = Replace(t, [Top(t) EXCEPT
       !.stage = "inside", !.todo = Registered(map[Top(t).del])])
  /\ UNCHANGED <<map, holder, calls>>

----------------------------------------------------------------------------
(* The operators, inside their lock.                                       *)

\* std::unordered_map::insert keeps what the key already has.
Subscribe(t) ==
  /\ Active(t) /\ Top(t).stage = "inside" /\ Top(t).op = "add"
  /\ LET d == Top(t).del
         k == Hash[Top(t).cb]
     IN map' = IF map[d][k] = Absent THEN [map EXCEPT ![d][k] = Top(t).cb] ELSE map
  /\ Return(t)
  /\ UNCHANGED calls

\* Mutant: the entry is erased before the lock is taken.
UnsubscribeUnlocked(t) ==
  /\ Active(t) /\ Top(t).stage = "enter" /\ Top(t).op = "remove"
  /\ map' = [map EXCEPT ![Top(t).del][Hash[Top(t).cb]] = Absent]
  /\ Return(t)
  /\ UNCHANGED calls

Unsubscribe(t) ==
  /\ Active(t) /\ Top(t).stage = "inside" /\ Top(t).op = "remove"
  /\ map' = [map EXCEPT ![Top(t).del][Hash[Top(t).cb]] = Absent]
  /\ Return(t)
  /\ UNCHANGED calls

Test(t) ==
  /\ Active(t) /\ Top(t).stage = "inside" /\ Top(t).op = "test"
  /\ Return(t)
  /\ UNCHANGED <<map, calls>>

\* Mutant: a traversal that also visits end().
InvokePastEnd(t) ==
  /\ Active(t) /\ Top(t).stage = "inside" /\ Top(t).op \in Traversals
  /\ \E k \in Top(t).todo \cup {Absent} :
       stack' = Replace(t, [Top(t) EXCEPT
         !.stage = "callback", !.todo = @ \ {k}, !.done = @ \cup {k}])
  /\ UNCHANGED <<map, holder, calls>>

\* The next delegate of the traversal is invoked. The order is the map's, which
\* is unspecified.
Invoke(t) ==
  /\ Active(t) /\ Top(t).stage = "inside" /\ Top(t).op \in Traversals
  /\ \E k \in Top(t).todo :
       stack' = Replace(t, [Top(t) EXCEPT
         !.stage = "callback", !.todo = @ \ {k}, !.done = @ \cup {k}])
  /\ UNCHANGED <<map, holder, calls>>

\* Mutant: operator() returns without unlocking.
FinishKeepingLock(t) ==
  /\ Active(t) /\ Top(t).stage = "inside" /\ Top(t).op \in Traversals
  /\ Top(t).todo = {}
  /\ stack' = [stack EXCEPT ![t] = Front(@)]
  /\ UNCHANGED <<map, holder, calls>>

\* The traversal reached end().
Finish(t) ==
  /\ Active(t) /\ Top(t).stage = "inside" /\ Top(t).op \in Traversals
  /\ Top(t).todo = {}
  /\ Return(t)
  /\ UNCHANGED <<map, calls>>

----------------------------------------------------------------------------
(* Callbacks: client code, known only by what it may do.                   *)

CallbackReturns(t) ==
  /\ Active(t) /\ Top(t).stage \in {"callback", "resumed"}
  /\ stack' = Replace(t, [Top(t) EXCEPT !.stage = "inside"])
  /\ UNCHANGED <<map, holder, calls>>

CallbackThrows(t) ==
  /\ Active(t) /\ Top(t).stage \in {"callback", "resumed"}
  /\ stack' = Replace(t, [Top(t) EXCEPT !.stage = "throwing"])
  /\ UNCHANGED <<map, holder, calls>>

\* Mutant: a mutex locked and unlocked by hand, so not by an exception.
UnwindKeepingLock(t) ==
  /\ Active(t) /\ Top(t).stage = "throwing"
  /\ LET callers == Front(stack[t])
     IN stack' = [stack EXCEPT ![t] =
          IF callers = <<>> THEN <<>>
          ELSE Append(Front(callers), [Last(callers) EXCEPT !.stage = "resumed"])]
  /\ UNCHANGED <<map, holder, calls>>

\* An exception leaves a call, and the callback that made the call, if any,
\* either handles it or lets it through.
Unwind(t) ==
  /\ Active(t) /\ Top(t).stage = "throwing"
  /\ \E next \in {"resumed", "throwing"} :
       LET callers == Front(stack[t])
       IN stack' = [stack EXCEPT ![t] =
            IF callers = <<>> THEN <<>>
            ELSE Append(Front(callers), [Last(callers) EXCEPT !.stage = next])]
  /\ holder' = IF Top(t).locked THEN [holder EXCEPT ![Top(t).del] = Free] ELSE holder
  /\ UNCHANGED <<map, calls>>

----------------------------------------------------------------------------
\* Main may have subscribed anything before it starts the threads.
Init ==
  /\ map \in [Delegates -> {m \in Map : \A k \in Registered(m) : Hash[m[k]] = k}]
  /\ holder = [d \in Delegates |-> Free]
  /\ stack = [t \in Threads |-> <<>>]
  /\ calls = [t \in Threads |-> 0]

\* What a thread does once it is in a call.
Step(t) ==
  \/ Lock(t) \/ LockOwnMutex(t) \/ GetDelegates(t)
  \/ Subscribe(t) \/ Unsubscribe(t) \/ Test(t) \/ Invoke(t) \/ Finish(t)
  \/ CallbackReturns(t) \/ CallbackThrows(t) \/ Unwind(t)

Begin(t) ==
  \E op \in Ops, d \in Delegates, c \in Callbacks \cup {Absent} :
    Call(t, op, d, c) \/ CallFromCallback(t, op, d, c)

Next == \E t \in Threads : Begin(t) \/ Step(t)

Spec == Init /\ [][Next]_vars

\* A running thread that can take a step takes one. Nothing makes it call.
FairSpec == Spec /\ \A t \in Threads : WF_vars(Step(t))

----------------------------------------------------------------------------
(* Properties                                                              *)

\* Locks are held by threads, and a stack is a sequence of calls.
TypeOK ==
  /\ map \in [Delegates -> Map]
  /\ holder \in [Delegates -> Threads \cup {Free}]
  /\ stack \in [Threads -> Seq(Frame)]
  /\ calls \in [Threads -> 0..MaxCalls]

At(t, i) == stack[t][i]
In(t) == DOMAIN stack[t]

\* A mutex is locked exactly while one call, of the thread that holds it, is
\* between its lock_guard and its end, exceptions included.
LockMatchesCalls ==
  \A d \in Delegates :
    /\ holder[d] # Free =>
         \E i \in In(holder[d]) : At(holder[d], i).del = d /\ At(holder[d], i).locked
    /\ \A t \in Threads : \A i \in In(t) : At(t, i).del = d /\ At(t, i).locked =>
         /\ holder[d] = t
         /\ \A j \in In(t) \ {i} : At(t, j).del = d => ~At(t, j).locked

Traversing(t, i) ==
  At(t, i).op \in Traversals /\ At(t, i).stage \notin {"enter", "throwing"}

\* The iterators of a traversal stay valid, and what it has visited and has yet
\* to visit is what is subscribed: nobody is skipped, called twice, or called
\* after its operator-= has returned.
TraversalIsStable ==
  \A t \in Threads : \A i \in In(t) : Traversing(t, i) =>
    /\ At(t, i).todo \cup At(t, i).done = Registered(map[At(t, i).del])
    /\ At(t, i).todo \cap At(t, i).done = {}

\* Nobody changes the list under a traversal, a callback of that traversal
\* included: a subscriber that has unsubscribed in any thread is no longer
\* running as a callback and may destroy itself.
NoChangeUnderTraversal ==
  [][\A d \in Delegates :
       (\E t \in Threads : \E i \in In(t) : Traversing(t, i) /\ At(t, i).del = d)
         => map'[d] = map[d]]_vars

\* Every call of an operator ends, by a return or an exception: no thread is left
\* waiting for a lock, provided that callbacks return, that delegates are nested
\* one way and that locking one's own mutex throws.
EveryCallEnds == \A t \in Threads : Active(t) ~> ~Active(t)
=============================================================================

\* Two threads, two callbacks and two delegates nested one way: both threads can
\* be inside, one waiting for the other's lock, one re-entering its own.
SPECIFICATION FairSpec
CONSTANTS
  t1 = t1
  t2 = t2
  outer = outer
  inner = inner
  private = private
  c1 = c1
  c2 = c2
  k1 = k1
  k2 = k2
  Threads = {t1, t2}
  Delegates = {outer, inner, private}
  Callbacks = {c1, c2}
  Keys = {k1, k2}
  Free = Free
  Absent = Absent
  Hash <- MCHash
  Users <- MCUsers
  Nested <- MCNested
  Relock = "throws"
  MaxDepth = 2
  MaxCalls = 1
CHECK_DEADLOCK FALSE
INVARIANTS
  TypeOK
  LockMatchesCalls
  TraversalIsStable
PROPERTIES
  NoChangeUnderTraversal
  EveryCallEnds

\* Four handles: two that are released at once, one that is converted and the
\* one it is converted to. All four may own the object, so four is the largest
\* count, and one more shows a count that is too large.
SPECIFICATION FairSpec
CONSTANTS
  h1 = h1
  h2 = h2
  h3 = h3
  h4 = h4
  Handles = {h1, h2, h3, h4}
  None = None
  MaxCount = 5
  KeptApart <- Discipline
CHECK_DEADLOCK FALSE
INVARIANTS
  TypeOK
  CountsMatchHandles
  EndsOnce
  HeldIsAlive
  NothingAfterFree
PROPERTIES
  EventuallyFreed

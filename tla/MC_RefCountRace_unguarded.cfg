\* Three handles and no discipline: one strong handle, one weak handle and the
\* one it is converted to.
SPECIFICATION Spec
CONSTANTS
  h1 = h1
  h2 = h2
  h3 = h3
  h4 = h4
  Handles = {h1, h2, h3}
  None = None
  MaxCount = 5
  KeptApart <- Nothing
CHECK_DEADLOCK FALSE
INVARIANT WeaksOutliveRiffs

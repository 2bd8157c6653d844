\* Two slots of each kind (three of rtti::shared_ptr) and two blocks: every
\* operation has a target that is empty, one that holds the same block and one
\* that holds another block. Four references of a kind are enough to lose two
\* and still own the block twice.
SPECIFICATION Spec
CONSTANTS
  s1 = s1
  s2 = s2
  h1 = h1
  h2 = h2
  h3 = h3
  w1 = w1
  w2 = w2
  b1 = b1
  b2 = b2
  StdSlots = {s1, s2}
  StrongSlots = {h1, h2, h3}
  WeakSlots = {w1, w2}
  Blocks = {b1, b2}
  NoBlock = NoBlock
  MaxCount = 4
  OverwriteByWeak = FALSE
SYMMETRY Interchangeable
INVARIANTS
  TypeOK
  RiffsConserved
  WeaksConserved
  HeldIsUsable
  LeakedOnlyByAssignment
  DestroyedWithLastRiff
PROPERTIES
  NoResurrection
  ImplementsLifetime

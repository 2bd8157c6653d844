\* The instance of MC_RttiPointers, with clients that let weak_ptr::write_to
\* replace a std::shared_ptr that owns something.
SPECIFICATION Spec
CONSTANTS
  s1 = s1
  s2 = s2
  h1 = h1
  h2 = h2
  h3 = h3
  w1 = w1
  w2 = w2
  b1 = b1
  b2 = b2
  StdSlots = {s1, s2}
  StrongSlots = {h1, h2, h3}
  WeakSlots = {w1, w2}
  Blocks = {b1, b2}
  NoBlock = NoBlock
  MaxCount = 4
  OverwriteByWeak = TRUE
SYMMETRY Interchangeable
INVARIANT WeaksOutliveRiffs

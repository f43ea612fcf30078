SPECIFICATION FairSpec
CONSTANTS
  s1 = s1
  s2 = s2
  h1 = h1
  h2 = h2
  t1 = t1
  t2 = t2
  None = None
  Streams = {s1, s2}
  Handles = {h1, h2}
  Targets = {t1, t2}
  Traces <- All
  Declared <- Sizes
  Threshold = 2
  PartSize = 2
INVARIANTS
  Settled
  WholeObjects
  RegularReplays
PROPERTIES
  Drains
  ImplementsAtomicObjects

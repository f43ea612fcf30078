SPECIFICATION Spec
CONSTANTS
  None = None
  Default = 4
  Align = 4
  Streams = {s1, s2}
  Targets = {0, 1}
  NameOf <- MCNames
  Chunk = 2
  Plans <- AllPlans
  MaxRuns = 2
SYMMETRY Symmetry
INVARIANTS
  ReadsReproduced
  DatasetWhole
  HandlesKept
  PrimedHonest
  WritesKept

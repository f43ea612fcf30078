SPECIFICATION Spec
CONSTANTS
  None = None
  Second = 2
  MaxElapsed = 3
  h1 = h1
  h2 = h2
  MaxOps = 2
  MaxTicks = 2
  Studies <- AllStudies
SYMMETRY Symmetry
INVARIANTS
  SeriesWhole
  GateHonest
  FileWhole

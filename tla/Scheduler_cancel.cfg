SPECIFICATION Spec
CONSTANTS
  s1 = s1
  s2 = s2
  s3 = s3
  Streams = {s1, s2}
  NumOps <- TwoEach
  MaxInflight = 1
  Paced = TRUE
  MaxTicks = 2
SYMMETRY Symmetry
INVARIANTS
  TypeOK
  SeriesEndsInTotals
  CleanEnd

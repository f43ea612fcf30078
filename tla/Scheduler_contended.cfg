SPECIFICATION FairSpec
CONSTANTS
  s1 = s1
  s2 = s2
  s3 = s3
  Streams = {s1, s2, s3}
  NumOps <- OneEach
  MaxInflight = 2
  Paced = FALSE
  MaxTicks = 0
INVARIANT DepthWithinCap
PROPERTIES
  ImplementsReplay
  Returns

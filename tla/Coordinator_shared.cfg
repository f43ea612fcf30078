SPECIFICATION FairSpec
CONSTANTS
  N = 4
  NumStreams = 6
  Scope = "shared"
  Remote = FALSE
INVARIANTS
  TypeOK
  PhaseOrder
  WholeReturn
  RootCause
PROPERTY ErrorAborts

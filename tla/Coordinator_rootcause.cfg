SPECIFICATION Spec
CONSTANTS
  N = 2
  NumStreams = 2
  Scope = "per-worker"
  Remote = TRUE
INVARIANT RootCause

SPECIFICATION Spec
CONSTANTS
  p1 = p1
  p2 = p2
  Pids = {p1, p2}
  Fds = {3, 4}
  Paths = {a}
  Themes <- AllThemes
  Size = 2
  Streams = {0, 1}
  None = None
  NoOp = NoOp
  NoPath = NoPath
  NoKey = NoKey
  MaxLines = 5
  MaxEvents = 5
SYMMETRY Symmetry
INVARIANTS
  TransferExact
  NamesExact
  Accounted
  WellMade

SPECIFICATION Spec
CONSTANTS
  Runs = {r1, r2, r3}
  None = None
  Lease = 3
  Cadence = 1
  Gap = 2
INVARIANTS
  TypeOK
  OneRunAtATime
  ResultSafe
PROPERTY ImplementsContract

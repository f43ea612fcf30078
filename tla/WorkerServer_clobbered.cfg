SPECIFICATION Spec
CONSTANTS
  Runs = {r1, r2}
  None = None
  Lease = 3
  Cadence = 1
  Gap = 3
INVARIANT PendingResultIntact

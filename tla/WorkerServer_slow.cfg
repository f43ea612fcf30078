SPECIFICATION FairSpec
CONSTANTS
  Runs = {r1, r2}
  None = None
  Lease = 3
  Cadence = 2
  Gap = 4
INVARIANT LiveRunKeepsLease
PROPERTY NeverWedged

\* Two workers and two jobs, in processes of their own, with stale clocks,
\* crashes and lost leases; no symmetry, since liveness is checked.
CONSTANTS
  JobIds = {j1, j2}
  Workers = {w1, w2}
  None = None
  MaxAttempts = 2
  Lease = 1
  MaxLag = 1
  MaxBorn = 2
CHECK_DEADLOCK FALSE
SPECIFICATION FairSpec
PROPERTIES
  ImplementsOneShot
  RetriesGoOn

\* Two workers over a scan of two securities, leases that run out, stale
\* clocks, a reader of the progress; no symmetry, since liveness is checked.
CONSTANTS
  s1 = s1
  u1 = u1
  u2 = u2
  Scans = {s1}
  Units = {u1, u2}
  ScanOf <- Two
  Rank <- RankTwo
  Workers = {w1, w2}
  Readers = {p1}
  Results = {a, b}
  None = None
  MaxAttempts = 2
  Lease = 1
  MaxLag = 1
  OneProcess = TRUE
SPECIFICATION FairSpec
CHECK_DEADLOCK FALSE
INVARIANTS
  TypeOK
  JobAgrees
  CountersExact
  AttemptsBounded
  ReportConsistent
PROPERTIES
  NoEarlySteal
  ImplementsOneShot
  ScanEnds

\* The API process cancels while the worker process gives a unit back.
CONSTANTS
  s1 = s1
  u1 = u1
  u2 = u2
  Scans = {s1}
  Units = {u1, u2}
  ScanOf <- Two
  Rank <- RankTwo
  Workers = {w1}
  Readers = {}
  Results = {a}
  None = None
  MaxAttempts = 2
  Lease = 1
  MaxLag = 0
  OneProcess = FALSE
SPECIFICATION Spec
CHECK_DEADLOCK FALSE
PROPERTIES
  CancelSticks

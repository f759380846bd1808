\* A conversation with an edit that is the only writer of its draft, its
\* handlers not cut off; no symmetry, since liveness is checked.
CONSTANTS
  Interactions = {i1, i2, i3, i4}
  Keys = {k1, k2}
  Requests = {r1, r2}
  None = None
  AgentDrafts = FALSE
  BlankForms = FALSE
  Crashes = FALSE
  MaxVersion = 4
SPECIFICATION FairSpec
INVARIANTS
  ApprovalCurrent
  ApprovedIsActivated
PROPERTIES
  ResolvedResumes

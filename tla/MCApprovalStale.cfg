\* An agent revises the draft while its approval is open.
CONSTANTS
  Interactions = {i1, i2}
  Keys = {k1, k2}
  Requests = {r1}
  None = None
  AgentDrafts = TRUE
  BlankForms = FALSE
  Crashes = FALSE
  MaxVersion = 2
SPECIFICATION Spec
INVARIANTS
  ApprovedIsActivated

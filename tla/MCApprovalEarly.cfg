\* A card that is answered while its publisher still announces it; no crash.
CONSTANTS
  Interactions = {i1, i2}
  Keys = {k1, k2}
  Requests = {r1, r2}
  None = None
  AgentDrafts = FALSE
  BlankForms = FALSE
  Crashes = FALSE
  MaxVersion = 2
SPECIFICATION RetrySpec
PROPERTIES
  AnswersResume

\* Two handlers, repeated clicks, reused keys, crashes, agents that revise the draft.
CONSTANTS
  Interactions = {i1, i2, i3}
  Keys = {k1, k2, k3}
  Requests = {r1, r2}
  None = None
  AgentDrafts = TRUE
  BlankForms = TRUE
  Crashes = TRUE
  MaxVersion = 4
SPECIFICATION Spec
SYMMETRY Symmetry
INVARIANTS
  ResumedOnce
  OnlyAnswersAct
  RepliesAgree

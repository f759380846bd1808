\* Every kind of question with one edit; five versions and six questions.
CONSTANTS
  Workflows = {"research_to_plan", "other"}
  AgentOf <- MCAgentOf
  Agents = {"research", "planning"}
  MaxQuestions = 6
  MaxVersion = 5
SPECIFICATION Spec
CHECK_DEADLOCK FALSE
INVARIANTS
  NeverForks
  ActsAsAsked
  ResearchBeforeReview

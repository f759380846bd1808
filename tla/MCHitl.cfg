\* Two clients and a sweeper race for one interaction: every interleaving of
\* a response, a cancellation and a sweep.
CONSTANTS
  Interactions = {i1}
  NoItem = NoItem
  Callers = {c1, c2}
  Sweepers = {s1}
  Payloads = {p1, p2}
  Answers = {yes, no, bad}
  Accepted = {yes, no}
  NoAnswer = NoAnswer
  NoPayload = NoPayload
  MaxSubject = 1
  MaxTime = 3
SPECIFICATION Spec
SYMMETRY Symmetry
INVARIANTS
  TypeOK
  OneDecision
  DecidedOnTime
  ExpiredReplyDecides
PROPERTIES
  ImplementsOneShot

\* A second message: the second run is joined with the cursor of the first.
CONSTANTS
  c1 = c1
  c2 = c2
  r1 = r1
  r2 = r2
  Runs = {r1, r2}
  Cards = {c1, c2}
  Notices = {}
  RunOf <- OneEach
  Publishers = {p1}
  None = None
SPECIFICATION Spec
INVARIANTS
  JoinsWhole

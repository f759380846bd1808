\* Two handlers that publish one card, a page, and a second run it can join in
\* between, with no events of its own; no symmetry, since liveness
\* is checked.
CONSTANTS
  c1 = c1
  c2 = c2
  r1 = r1
  r2 = r2
  Runs = {r1, r2}
  Cards = {c1}
  Notices = {}
  RunOf <- One
  Publishers = {p1, p2}
  None = None
SPECIFICATION FairSpec
INVARIANTS
  LogGapless
  AnnouncedSaved
  NothingSkipped
PROPERTIES
  EventShown

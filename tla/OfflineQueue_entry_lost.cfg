CONSTANTS
  p1 = p1
  p2 = p2
  e1 = e1
  e2 = e2
  e3 = e3
  Pages = {p1, p2}
  Typed = {e1, e2}
  Scanned = {e3}
  Cap = 3
  MaxFlips = 3
  MaxOpens = 2
SPECIFICATION Spec
SYMMETRY Symmetry
INVARIANTS
  QueuedEntriesKept
CHECK_DEADLOCK FALSE

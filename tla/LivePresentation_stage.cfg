CONSTANTS
  n1 = n1
  n2 = n2
  r1 = r1
  r2 = r2
  s1 = s1
  Nodes = {n1, n2}
  Remotes = {r1, r2}
  Screens = {s1}
  MaxClicks = 2
  MaxUpsets = 1
SPECIFICATION Spec
SYMMETRY Symmetry
INVARIANTS
  StageShowsLast
  StageInOrder
CHECK_DEADLOCK FALSE

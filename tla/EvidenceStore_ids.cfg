SPECIFICATION Spec
CONSTANTS
  r = r
  q = q
  i = i
  j = j
  plain = plain
  cites = cites
  a = a
  Runs = {r, q}
  Ids = {i, j}
  Bodies = {plain, cites}
  Artifacts = {a}
  RunOf <- MCRunOf
  Cited <- MCCited
  MaxFaults = 1
  MaxCrashes = 0
INVARIANT IdsAreUnique
CHECK_DEADLOCK FALSE

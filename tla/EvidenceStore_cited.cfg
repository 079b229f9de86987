SPECIFICATION Spec
CONSTANTS
  r = r
  q = q
  i = i
  j = j
  plain = plain
  cites = cites
  a = a
  Runs = {r, q}
  Ids = {i, j}
  Bodies = {plain, cites}
  Artifacts = {a}
  RunOf <- MCRunOf
  Cited <- MCCited
  MaxFaults = 0
  MaxCrashes = 1
INVARIANT CitedArtifactsExist
CHECK_DEADLOCK FALSE

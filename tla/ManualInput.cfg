SPECIFICATION SpecInput
CONSTANTS
  m = m
  o = o
  a = a
  b = b
  x = x
  y = y
  says_a = says_a
  says_b = says_b
  plain = plain
  Runs = {m, o}
  Manual = {m}
  Ids = {x, y}
  Bodies = {says_a, says_b, plain}
  Artifacts = {a, b}
  RunOf <- MCRunOf
  Cited <- MCCited
  InputBody <- MCInputBody
  MaxFaults = 2
  MaxCrashes = 2
INVARIANTS InputTypeOK FrozenInputIsWhole ReservedIdsAreKept CandidateResumes OneSubmission ToldSurvives
PROPERTY Immutable
CHECK_DEADLOCK FALSE

SPECIFICATION SpecBoth
CONSTANTS
  MaxWrong = 1
  MaxChanges = 1
  a1 = a1
  a2 = a2
  a3 = a3
  a4 = a4
  b1 = b1
  here = here
  there = there
  Requests = {a1, a2, a3, b1}
  Keys = {here, there}
  KeyOf <- MCKeyOf
  Limit = 1
  SweepAbove = 1
  LastWindow = 3
INVARIANTS BothTypeOK ReportIsTrue NoFalseRefusal OverrunIsBounded
PROPERTIES ReadinessConverges DaemonStops
CHECK_DEADLOCK FALSE

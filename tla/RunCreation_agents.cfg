SPECIFICATION SpecCreation
CONSTANTS
  a = a
  b = b
  c = c
  d = d
  e = e
  k = k
  l = l
  agent = agent
  other = other
  x = x
  y = y
  None = None
  Runs = {a, b, c, d, e}
  Keys = {k, l}
  KeyOf <- TwoKeys
  AgentOf <- TwoAgents
  InputOf <- TwoInputs
  Manual = {}
  MaxVersion = 2
  MaxFaults = 0
  MaxCrashes = 0
INVARIANT AnswerHasAgent

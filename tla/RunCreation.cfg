SPECIFICATION SpecCreation
CONSTANTS
  a = a
  b = b
  c = c
  d = d
  e = e
  k = k
  l = l
  agent = agent
  other = other
  x = x
  y = y
  None = None
  Runs = {a, b, c, d, e}
  Keys = {k, l}
  KeyOf <- TwoKeys
  AgentOf <- OneAgent
  InputOf <- TwoInputs
  Manual = {a, b, c}
  MaxVersion = 2
  MaxFaults = 2
  MaxCrashes = 2
SYMMETRY Retries
INVARIANTS CreationTypeOK OneAnswer ToldIsDurable OneRunPerRequest MemoryIsDisk AuditIsDurable
PROPERTY KeepsItsPromise

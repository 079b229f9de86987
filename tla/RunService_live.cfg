\* Liveness over a store fault and a crash or stop: an approved and a manual run.
SPECIFICATION FairSpec
CONSTANTS
  Runs = {g, m}
  Manual = {m}
  Gated = {g}
  Workers = {w1}
  NoRun = NoRun
  QueueSize = 1
  MaxFaults = 1
  MaxEnds = 1
PROPERTIES
  QueuedRunsEnd
  CancelledRunsEnd
  ManualRunsAreRepaired

\* Safety: a manual and a gated run, two workers, a store fault, and a crash, a power loss or a stop.
SPECIFICATION SpecDurable
CONSTANTS
  Runs = {m, g}
  Manual = {m}
  Gated = {g}
  Workers = {w1, w2}
  NoRun = NoRun
  QueueSize = 1
  MaxFaults = 1
  MaxEnds = 1
SYMMETRY WorkerSymmetry
CONSTRAINT Bound
INVARIANTS
  DurableTypeOK
  ToldOutcomeIsFinal
  ExecutedAtMostOnce
  OneOwner
  RunningWhileInFlight
  CountedOnce
  NothingLost
  ApprovalGate
PROPERTIES
  LivesUpToIt

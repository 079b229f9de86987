\* An accepted cancellation of a running run against the answer it races with:
\* one run, one worker, no faults, no crash, no stop.
SPECIFICATION Spec
CONSTANTS
  Runs = {a}
  Manual = {}
  Gated = {}
  Workers = {w1}
  NoRun = NoRun
  QueueSize = 1
  MaxFaults = 0
  MaxEnds = 0
INVARIANT AcceptedCancelEndsCancelled

SPECIFICATION Spec
CONSTANTS
  e = e
  Ids = {e}
  Said <- SmallSaid
  Plain <- SmallPlain
INVARIANTS TypeOK SucceededIsEarned CompletedIsKept CancelledIsCaused BusinessOutputIsTrusted AcceptedOutputIsBacked
PROPERTY ExecutionEnds
CHECK_DEADLOCK FALSE

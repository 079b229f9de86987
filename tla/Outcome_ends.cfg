SPECIFICATION Spec
CONSTANTS
  e = e
  Ids = {e}
  Said <- SmallSaid
  Plain <- SmallPlain
INVARIANT ContextEndIsTold
CHECK_DEADLOCK FALSE

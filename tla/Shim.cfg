\* Two runs share the shim; the server fails, stops and starts with the same limit.
SPECIFICATION FairSpec
CONSTANTS
  Runs = {"a", "b"}
  MaxItems = 3
  Lengths = {2, 3}
  Limits = {1, 2}
  MinContext = 2
  NewLimits = FALSE
  MaxChanges = 2
  None = None
INVARIANTS
  RefusalsAreDeserved
  InputsNeverStopARun
PROPERTIES
  EveryRequestAnswered

SPECIFICATION Spec
CONSTANTS
  DP = {d1}
  TpSize = 2
  NumLayers = 2
  MaxStep = 3
  InputKinds <- MCInputKinds
  Speculative = TRUE
  RunAhead = 0
INVARIANTS
  PutFindsRoom
  InputsOfRequest
  CopiesFindBufferFree
  SignalsAlternate
PROPERTIES
  ImplementsLocal
  EveryForwardFinishes
\* The schedule ends; that nothing stops before is EveryForwardFinishes.
CHECK_DEADLOCK FALSE

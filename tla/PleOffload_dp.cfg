\* Two data-parallel ranks share the offload process; CPU inputs; workers may time out.
SPECIFICATION Spec
CONSTANTS
  DP <- TwoRanks
  TpSize = 1
  NumLayers = 2
  MaxStep = 2
  CudaInputs = FALSE
  Speculative = TRUE
  RunAhead = 0
  Faults <- AllFaults
INVARIANTS
  OneRequestPerRank
PROPERTIES
  FlagsCountUp
\* A timed-out worker or a stopped offload process ends the run.
CHECK_DEADLOCK FALSE

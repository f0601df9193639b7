\* CUDA inputs, two TP ranks, two layers, the host one forward ahead; the process may stop.
SPECIFICATION FairSpec
CONSTANTS
  DP <- OneRank
  TpSize = 2
  NumLayers = 2
  MaxStep = 3
  CudaInputs = TRUE
  Speculative = TRUE
  RunAhead = 1
  Faults <- Stops
INVARIANTS
  OwnEmbeddings
  CopiesFindBufferFree
  InputsOfRequest
  FlagMeansAllLanded
  IInv
PROPERTIES
  EveryForwardFinishes
  ImplementsLocal
\* Workers wait for a stopped process.
CHECK_DEADLOCK FALSE

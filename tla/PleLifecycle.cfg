\* Two data-parallel ranks, from the start to the end; anything may fail, be killed or hang.
SPECIFICATION FairSpec
CONSTANTS
  Workers <- TwoWorkers
  Owner = "w1"
  DpSize = 2
  TpSize = 1
  NumWorkers = 2
  Bufs <- TwoBufs
  StartMethods <- AnyMethod
  Faults <- Any
INVARIANTS
  ReadyMeansRoutable
  MessagesMatchPhase
  PinsAreShared
PROPERTIES
  FailedStartIsNoticed
  ServerFollowsOwner
  RequestsAnswered
  CloseEndsChild
\* A worker that dies before it registers leaves the others waiting.
CHECK_DEADLOCK FALSE

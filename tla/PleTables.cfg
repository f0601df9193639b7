\* Tables of 5 and 15 rows; checkpoints split rightly or not, one tensor missing.
SPECIFICATION Spec
CONSTANTS
  Heads = 2
  VocabBase = 2
  Divisor = 5
  Models <- SmallModels
  Formats = {"nvfp4", "fp8"}
  Writings = {1, 2, 3, 4}
  Files = {"none", "whole", "short"}
  MaxMissing = 1
CHECK_DEADLOCK FALSE
INVARIANTS
  LookupsFindTheirRow
  FailuresAreDeserved

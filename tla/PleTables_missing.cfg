\* One layer; the checkpoint lacks one tensor, or none.
SPECIFICATION Spec
CONSTANTS
  Heads = 2
  VocabBase = 2
  Divisor = 2
  Models <- OneLayer
  Formats = {"nvfp4", "fp8"}
  Writings = {2}
  Files = {"none"}
  MaxMissing = 1
CHECK_DEADLOCK FALSE
INVARIANT
  MissingRowsAreNoticed

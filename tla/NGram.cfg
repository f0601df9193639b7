\* Every cut of two requests' tokens into batches, in narrow and static rows.
SPECIFICATION Spec
CONSTANTS
  NumReqs = 2
  NgramSize = 3
  MaxLen = 3
  MaxTokens = 4
  MaxPadding = 1
INVARIANTS
  OwnNGrams

\* Two requests in every mix of chunks, drafts and rejections, three drafts a round.
SPECIFICATION DrafterSpec
CONSTANTS
  Ratio = 2
  BlockTopk = 2
  BlockN = 2
  TargetSplits = 8
  Reqs = {a, b}
  MaxLen = 6
  PromptLen = 2
  MaxChunk = 2
  NumSpec = 3
  NumMtp = 1
  MaxRows = 8
  VocabSize = 3
  Files <- MCFiles
  Scales <- MCScales
  Old = Old
INVARIANTS
  DraftsAttendToAcceptedPast
  DraftsAreTheBestListed
SYMMETRY Symmetry

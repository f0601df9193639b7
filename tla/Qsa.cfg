\* Two requests take turns in three pages; chunks, drafts and rejections.
SPECIFICATION Spec
CONSTANTS
  Reqs = {a, b}
  Ratio = 2
  RingSize = 3
  Rings = {"ring"}
  Pages = {p1, p2, p3}
  PageSize = 2
  BlockTopk = 2
  BlockN = 2
  TargetSplits = 8
  MaxLen = 6
  PromptLen = 3
  MaxChunk = 3
  NumSpec = 2
  None = None
INVARIANTS
  RingIsHistory
  GroupsAreHistory
  QueriesSeeTheirPast
  QueriesAttendOnce
SYMMETRY Symmetry

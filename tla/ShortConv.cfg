\* Two requests of up to 8 tokens in one batch or taking turns, in two slots.
SPECIFICATION BoundedSpec
SYMMETRY Alike
CONSTANTS
  Reqs = {a, b}
  Kernel = 2
  Dilation = 2
  MaxLen = 8
  MaxTokens = 9
  MaxQuery = 3
  NumSlots = 2
  NumSpec = 2
  PromptLen = 2
  PlainAfterSpec = FALSE
INVARIANTS
  WindowIsHistory
PROPERTIES
  ImplementsHistory

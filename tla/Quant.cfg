\* Every checkpoint of the small model that is stored in one format but for two tensors.
SPECIFICATION QuantSpec
CONSTANTS
  Modules <- MCModules
  Trees <- MCTrees
  Longer <- MCLonger
  Renames <- MCRenames
  LayerIndex <- MCLayerIndex
  Usual = {"none", "FP8", "W4A16_NVFP4"}
  Unusual = {"none", "NVFP4", "MXFP8", "FP8_PB_WO"}
  MaxUnusual = 2
  Groups = {16, 32}
INVARIANTS
  BuiltModulesApart
  MethodsFitTheCheckpoint
  DisagreementIsRefused
  RefusalsAreDeserved
CHECK_DEADLOCK FALSE

SPECIFICATION Spec
CONSTANTS
  ByteBits = 1
  kKkrtWidth = 2
  NumBlock1024 = 2
  Inputs = {0, 1}
  MaxCalls = 2
  CallRows = {0, 1, 4}
  Counts = {1, 4}
  ChoiceSets <- MCChoiceSets
  NumOts = {1, 2, 5}
  StreamOts = {2, 5}
  InputVectors <- MCInputVectors
  TreeDepths = {1, 2, 3}
  SeedBits <- MCSeedBits
  Prgs <- MCPrgs
  MasterKeys <- MCMasterKeys
  InBits = {1, 2, 3, 4}
  SsBits = {2, 8, 22}
  Betas = {3}
  HalfBits = 8
  Points = {0, 1, 2, 3, 4, 5, 6, 7, 8, 11, 13, 19}
  Reach <- MCReach
  EvalAllBits = 3
INVARIANTS
  BaseOtAgrees
  ExtensionCorrect
  SeedsMatchIfClean
  SharesAgree

SPECIFICATION CryptoSpec
CONSTANTS
  reseed_interval_ = 4
  kReseedInterval = 3
  max_rand_request_ = 1
  BlockUnits = 2
  BatchBlocks = 2
  g1 = g1
  g2 = g2
  Gens = {g1, g2}
  Seeds = {0, 1}
  Counters = {7, 8}
  CounterBits = 3
  BATCH_SIZE = 2
  FillUnits = {1, 3}
  Strengths = {128, 256}
  HealthSize = 2
  Failures <- MCFailures
  MaxCalls = 5
  Hashers = {h1, h2}
  h1 = h1
  h2 = h2
  Pieces <- MCPieces
  MacKeys <- MCMacKeys
  OutLens = {0, 16, 32, 33}
  MaxHashed = 5
  Pairs = {1, 2}
  Ivs <- MCIvs
  Memory = {0, 1}
  Texts <- MCTexts
  MaxSealed = 2
  MaxOpened = 1
SYMMETRY Symmetry
INVARIANTS
  NeverTwice
  SeedsSound
  DigestTrue
  EnvelopeTrue
CHECK_DEADLOCK FALSE

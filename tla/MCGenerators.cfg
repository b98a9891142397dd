SPECIFICATION GeneratorsSpec
CONSTANT
  Samples = {a, b}
  NoSample = none
  RctCutoff = 3
  AptCutoff = 2
  AptWindow = 3
  StartupMin = 3
  SamplesPerBlock = 2
  MaxDrawn = 9
  BlockLen = 2
  MaxFill = 3
  Mechanisms = {"ctr_no_df", "ctr_df", "hash", "hmac"}
  Clients = {"application", "selfTest", "health"}
  RESEED_INTERVAL = 2
  MaxBlocks = 2
  MaxEntropy = 2
SYMMETRY Symmetry
INVARIANTS
  StateIsHeard
  OutputIsFresh
  PoisonedServesTailOnly
  RefusalIsContained
  Ceiling
PROPERTIES
  BytesOnce
  OutputOfLatestSeed
  BacktrackingResistance

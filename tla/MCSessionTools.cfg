SPECIFICATION ToolsSpec
CONSTANTS
  Ops = {"upload", "doc1", "doc2"}
  Target <- MCTarget
  Capture = "assessment"
  Regimes = {{"crash", "io"}, {"power"}}
  MaxFaults = 3
  MaxCalls = 3
  N = 2
  Backends = {"curl", "s_client"}
  MaxFetches = 2
  MaxPolls = 2
  MaxReplays = 1
  MaxMishaps = 1
  Samples <- MCSamples
  Scenarios <- MCScenarios
  Rounds = 2
  MaxRuns = 5
INVARIANTS
  LogIsReadable
  AppendsAreDurable
  EffectsAreAccounted
  RecordIsTrue
  SubmitsBounded
  CompletedIsWhole
PROPERTIES
  ResponseKept
CHECK_DEADLOCK FALSE

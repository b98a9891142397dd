SPECIFICATION AcvpSpec
CONSTANT
  N = 1
  Backends = {"curl", "s_client"}
  MaxFetches = 2
  MaxPolls = 2
  MaxReplays = 0
  MaxMishaps = 0
INVARIANT ExitMeansGraded
CHECK_DEADLOCK FALSE

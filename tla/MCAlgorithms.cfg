SPECIFICATION Spec
CONSTANTS
  MAX_SAMPLE_ATTEMPTS = 2
  MAX_SIGN_RETRIES = 2
  MaxFaults = 2
  GlobalWorkers = {w1, w2}
  OtherThreads = {o1}
  ITEMS = 2
  Life = 8
  Margin = 4
  Window = 3
  RetryCap = 3
  PollWait = 3
  MaxPolls = 4
  MaxNyp = 1
  MaxTransient = 1
INVARIANTS
  PairsAreTested
  HonestIsServed
PROPERTIES
  ProfileTablesAgree
  ArithmeticIsExact
  HashSignaturesBind
  LatticeSchemesAgree
  ModesInvert
  MessagesAreFramed
  OperationsReturn
  CallsAreContained
  SignedImagesVerify
  RawTripsAgree
  ReplayIsFaithful
  EstimatesAgree
CHECK_DEADLOCK FALSE

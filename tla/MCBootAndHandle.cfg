SPECIFICATION ClientsSpec
CONSTANTS
  Threads = {t1, t2, t3}
  NoThread = NoThread
  Groups <- MCGroups
  Artifacts = {"signed", "altered", "otherKey", "unsigned", "damaged", "noKey"}
  MaxFaults = 2
SYMMETRY ThreadSymmetry
INVARIANTS
  OpenedVerified
  StatusIsTrue
  HandlesAreTested
PROPERTIES
  OutputVerifies

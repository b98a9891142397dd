SPECIFICATION FfiSpec
CONSTANTS
  Threads = {t1, t2}
  OsIds = {i1, i2, i9}
  Recordable = {i1, i2}
  NoOwner = NoOwner
  Profiles = {"Unrestricted", "Cnsa2"}
  DefaultProfile = "Unrestricted"
  Services = {"Sha1", "Sha384"}
  Permitted <- MCPermitted
  MaxEntries = 1
  NoCall = NoCall
  Bindings = {"c", "rust"}
INVARIANTS
  SelfTestHasRunner
  OpenedByTests
  ServedWithinProfile
  AnswersHold
  CallersAgree
PROPERTIES
  LifecycleSpec
  InitReturns

SPECIFICATION FairSpec
CONSTANTS
  k1 = k1
  k2 = k2
  t1 = t1
  t2 = t2
  dflt = dflt
  va = va
  vb = vb
  Absent = Absent
  Corrupt = Corrupt
  Types = {t1}
  Keys = {k1, k2}
  TypeOf <- SameType
  Value = {dflt, va}
  Default = dflt
  ResetKeys = {k1}
  DelayedKeys = {k2}
  ThrottledKeys = {}
  RemovableKeys = {k1}
  Env = {"reset", "cleanup"}
  MaxFailures = 1
  MaxCrashes = 0
  FdsQueueSize = 2
  RetryTicks = 1
  DelayTicks = 1
  ThrottleTicks = 2
  MaxQueue = 1
INVARIANTS
  TypeOK
PROPERTIES
  FactoryResetCompletes
  RequestsReachFlash

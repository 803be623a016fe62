SPECIFICATION Spec
CONSTANTS
  k1 = k1
  k2 = k2
  t1 = t1
  t2 = t2
  dflt = dflt
  va = va
  vb = vb
  Absent = Absent
  Corrupt = Corrupt
  Types = {t1, t2}
  Keys = {k1, k2}
  TypeOf <- TwoTypes
  Value = {dflt, va}
  Default = dflt
  ResetKeys = {}
  DelayedKeys = {}
  ThrottledKeys = {k2}
  RemovableKeys = {k1}
  Env = {}
  MaxFailures = 0
  MaxCrashes = 2
  FdsQueueSize = 2
  RetryTicks = 1
  DelayTicks = 2
  ThrottleTicks = 2
  MaxQueue = 2

  
PROPERTIES
  ImplementsStore
  

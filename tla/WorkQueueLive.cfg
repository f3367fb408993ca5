\* One key that two workers fight for, and its changes and failures
SPECIFICATION Spec
CONSTANTS
  k1 = k1
  k2 = k2
  w1 = w1
  w2 = w2
  Keys = {k1}
  Workers = {w1, w2}
  ChanCap = 1
  MaxVersion = 2
  MaxFails = 1
PROPERTIES
  EventuallySynced
  ShutdownDrains
  KeepsPendingWorkPromises

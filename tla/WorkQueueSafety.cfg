\* Two keys, two workers, one change each, one failed run, a channel of one
SPECIFICATION Spec
CONSTANTS
  k1 = k1
  k2 = k2
  w1 = w1
  w2 = w2
  Keys = {k1, k2}
  Workers = {w1, w2}
  ChanCap = 1
  MaxVersion = 1
  MaxFails = 1
INVARIANTS
  TypeInv
  QueueHoldsDirty
  OneWorkerPerKey
  NoLostUpdate
  NoLostSignal
PROPERTIES
  NeverBackwards
  ImplementsPendingWork

\* The GitWatcher of the README, nothing fails
SPECIFICATION Spec
CONSTANTS
  p1 = p1
  p2 = p2
  w1 = w1
  w2 = w2
  SecretNames = {"hooktoken", "githubtoken"}
  Specs <- SampleOnly
  Procs = {p1}
  Watchers = {w1}
  MaxCreates = 1
  MaxFaults = 0
  MaxStops = 0
  MaxStalls = 0
  MaxEdits = 0
  MaxCommit = 1
  MaxStale = 1
PROPERTIES
  SampleRegisters

\* Two replicas, one orderly shutdown
SPECIFICATION Spec
CONSTANTS
  p1 = p1
  p2 = p2
  w1 = w1
  w2 = w2
  SecretNames = {"hooktoken"}
  Specs <- GitHubOnly
  Procs = {p1, p2}
  Watchers = {w1}
  MaxCreates = 2
  MaxFaults = 0
  MaxStops = 1
  MaxStalls = 0
  MaxEdits = 0
  MaxCommit = 1
  MaxStale = 1
INVARIANTS
  OneReplicaRuns

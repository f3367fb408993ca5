\* Two replicas that stop, crash, lose the lease and take over from one another; GitHub and polled watchers
SPECIFICATION Spec
CONSTANTS
  p1 = p1
  p2 = p2
  w1 = w1
  w2 = w2
  SecretNames = {"hooktoken"}
  Specs <- BothKinds
  Procs = {p1, p2}
  Watchers = {w1}
  MaxCreates = 7
  MaxFaults = 0
  MaxStops = 1
  MaxStalls = 1
  MaxEdits = 0
  MaxCommit = 1
  MaxStale = 1
PROPERTIES
  ImplementsRegistration
  FirstCommitNeverReplaced
  GitHubWatchersRegister

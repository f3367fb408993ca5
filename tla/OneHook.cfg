\* One replica, one watcher, nothing fails: the ticker and a stale cache are enough
SPECIFICATION Spec
CONSTANTS
  p1 = p1
  p2 = p2
  w1 = w1
  w2 = w2
  SecretNames = {"hooktoken"}
  Specs <- GitHubOnly
  Procs = {p1}
  Watchers = {w1}
  MaxCreates = 2
  MaxFaults = 0
  MaxStops = 0
  MaxStalls = 0
  MaxEdits = 0
  MaxCommit = 1
  MaxStale = 1
INVARIANTS
  OneHookPerWatcher

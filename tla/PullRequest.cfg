\* The sample of the README with two replicas; nothing fails
SPECIFICATION Spec
CONSTANTS
  p1 = p1
  p2 = p2
  w1 = w1
  Procs = {p1, p2}
  Watchers = {w1}
  Branches = {"main"}
  Tags = {"v1"}
  Specs <- SampleOnly
  Happenings <- OpenedOnly
  MaxHooks = 1
  MaxEvents = 2
  MaxAttempts = 2
  MaxFaults = 0
  MaxEdits = 0
  MaxSecrets = 0
INVARIANTS
  PullRequestGetsExecution

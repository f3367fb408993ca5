\* One replica; GitHub watchers, with and without a secret name, and polled ones that users edit, delete and create again; a fault, a stale run
SPECIFICATION Spec
CONSTANTS
  p1 = p1
  p2 = p2
  w1 = w1
  w2 = w2
  SecretNames = {"hooktoken", "githubtoken"}
  Specs <- ThreeKinds
  Procs = {p1}
  Watchers = {w1}
  MaxCreates = 5
  MaxFaults = 1
  MaxStops = 0
  MaxStalls = 0
  MaxEdits = 2
  MaxCommit = 2
  MaxStale = 1
INVARIANTS
  TypeInv
  IInv
  OnlyRecordedHookSigns
  FirstCommitAppliedOrReported
PROPERTIES
  HookNeverReplaced
  FirstCommitNeverReplaced
  EditsSurvive
  GitHubWatchersRegister
  PolledHeadsAreApplied

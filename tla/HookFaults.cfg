\* Two replicas, deliveries of every kind that are repeated, a call that fails or a crash, a change by a user
SPECIFICATION Spec
CONSTANTS
  p1 = p1
  p2 = p2
  w1 = w1
  Procs = {p1, p2}
  Watchers = {w1}
  Branches = {"main"}
  Tags = {"v1"}
  Specs <- AnySpec
  Happenings <- AnyKind
  MaxHooks = 1
  MaxEvents = 2
  MaxAttempts = 3
  MaxFaults = 1
  MaxEdits = 1
  MaxSecrets = 1
SYMMETRY Replicas
INVARIANTS
  TypeInv
  CommitPerDelivery
  DeploymentsAccounted

\* Two runs, two hooks that announce one event; a user who deletes and recreates, a call that fails or a crash
SPECIFICATION Spec
CONSTANTS
  p1 = p1
  p2 = p2
  w1 = w1
  Procs = {p1}
  Watchers = {w1}
  Branches = {"main"}
  Tags = {"v1"}
  Specs <- TaggingOnly
  Happenings <- TagOnly
  MaxHooks = 2
  MaxEvents = 1
  MaxAttempts = 3
  MaxFaults = 1
  MaxEdits = 2
  MaxSecrets = 0
INVARIANTS
  RecordedHookCounts
  OnlyRecordedHookSigns
PROPERTIES
  ImplementsRegistration

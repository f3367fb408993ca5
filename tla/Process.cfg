\* One object of each type, two writes, a watch that ends, a process that ends
SPECIFICATION Spec
CONSTANTS
  Keys = {"ns/name"}
  MaxWrites = 2
  MaxBreaks = 1
  MaxStops = 1
INVARIANTS
  TypeInv
  WorkersSeeFilledCaches
  EveryInformerRuns
PROPERTIES
  LeaderWorks
  

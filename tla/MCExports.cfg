SPECIFICATION FairSpec
CONSTANTS
  Job = {j1, j2}
  Slot = {s1, s2}
  Users = 2
  Attempts = 2
  MaxStalled = 1
CHECK_DEADLOCK FALSE
INVARIANTS
  TypeOK
  DoneHasObject
  ProgressAgrees
PROPERTY QueuedEnds

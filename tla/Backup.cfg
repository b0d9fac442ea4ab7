SPECIFICATION Spec
CONSTANTS
  MaxWrites = 3
  MaxRestores = 2
  SlowCheckpoint = FALSE
CHECK_DEADLOCK FALSE
INVARIANTS RestoredIsCommitted
PROPERTIES OldUntilReplaced

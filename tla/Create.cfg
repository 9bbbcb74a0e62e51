SPECIFICATION FairSpec
CONSTANTS
  Creators = {a, b, c}
  NoLock = NoLock
  NPages = 1
  MaxFaults = 2
INVARIANTS TypeOK OneWinner LockExcludes SpendableMeansComplete MasterClearedLast
PROPERTIES CreationCompletes
CHECK_DEADLOCK FALSE

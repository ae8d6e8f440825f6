SPECIFICATION Spec
CONSTANTS
  Stores = {"s1", "s2", "s3"}
  CollOf <- SharedColl
  Batches <- SomeBatches
  MaxCommits = 2
  MaxCrashes = 1
  MaxHandles = 3
  MaxCloses = 2
INVARIANTS StoresKeepWorking SyncedSurvives
CHECK_DEADLOCK FALSE

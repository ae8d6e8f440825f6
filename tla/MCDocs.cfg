SPECIFICATION Spec
CONSTANTS
  c1 = c1
  c2 = c2
  c3 = c3
  NoDoc = NoDoc
  NBobs = 3
  NAlices = 2
  Services <- SomeServices
  Handles <- SomeHandles
  MaxCalls = 3
  Callers = {c1, c2, c3}
  Programs <- SomePrograms
  Limit = 3
  MaxFaults = 2
  MaxMessages = 2
  MaxCancels = 1
  Sources <- SomeSources
  Half = 8
  Limits = {0, 1, 6}
  Files = {f1, f2}
  Chunks <- SomeChunks
  MaxInt = 4
  SyncTries = 2
  MaxOps = 4
INVARIANTS
  SuitePasses
  HandlesArePrivate
  QuietIsListed
  NoLostUpdate
  RetriesAreBounded
  StreamIsWhole
  PipelineIsWhole
  FileIsFaithful
PROPERTY
  StreamEnds
CHECK_DEADLOCK FALSE

SPECIFICATION MCSpec
CONSTANTS
  Mapped <- MappedBits
  Operators = {o1, o2}
  Second = o2
  FewChanges = 2
  Inputs <- SomeBlocks
  MaxChanges = 3
  Callers = {c1}
  TTL = 1
  Loads = {1, 2}
  Addresses <- AllAddresses
INVARIANT ChecksAreAnswered
PROPERTIES CopyNeverRewinds ImplementsBlockBook CacheRecovers

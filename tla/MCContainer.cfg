SPECIFICATION Spec
CONSTANTS
  a = a
  b = b
  c = c
  Keys = {a, b, c}
  Entries <- MCEntries
  Containers = {root, s1, s2}
  Root = root
  NoKey = NoKey
  NoEntry = NoEntry
  NoInstance = NoInstance
  NoContainer = NoContainer
  MaxBuilt = 3
INVARIANTS TypeOK LifetimesHonoured DepthBounded ClosedAfterUsers CleanupOwed
PROPERTY CallsReturn
CHECK_DEADLOCK FALSE

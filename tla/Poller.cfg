CONSTANTS
  a1 = a1
  a2 = a2
  x = x
  A = A
  Items = {a1, a2, x}
  Sessions = {A}
  Session <- MCSession
  NoSession = NoSession
  Images = {i1, i2}
  NoImage = NoImage
  Pool = 2
  NoItem = NoItem
  Faults = {"docker", "box", "disk"}
  MaxFaults = 1
  MaxRestarts = 1
SPECIFICATION FairSpec
INVARIANTS OneJobPerItem Pinned
PROPERTIES EveryItemServed
CHECK_DEADLOCK FALSE

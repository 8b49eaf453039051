SPECIFICATION FairSpec
CONSTANTS
  Imports = {j1}
  Files = {f1, f2}
  Contents = {c1, c2}
  Hashed = {f1}
  Workers = {w1, w2}
  Attempts = 2
  Faults = {"rateLimit", "folder", "file", "change", "cancel"}
  MaxFaults = 2
INVARIANTS DoneIsTrue StorageAccounted
PROPERTIES ImportEnds CancelIsFinal
CHECK_DEADLOCK FALSE

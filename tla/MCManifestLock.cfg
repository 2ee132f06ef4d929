CONSTANTS
  a = a
  b = b
  d = d
  Writers = {a, b, d}
  Dead = {d}
  Unknown = {b}
  MayStop = {}
  MaxCalls <- MCMaxCalls
  MaxCrashes = 2
SPECIFICATION FairSpec
INVARIANTS LockIsHeld ManifestIsTheRecord
PROPERTY LoneWriterGetsTheLock
CHECK_DEADLOCK FALSE

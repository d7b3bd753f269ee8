SPECIFICATION FairSpec
CONSTANTS
  Proc = {p1, p2, p3}
  UIntMax = 3
INVARIANTS
  TypeOK
  ReadAfterWrite
  NobodyAsleepAfterWrite
  UnloadSafe
PROPERTY ReleasedByWrite

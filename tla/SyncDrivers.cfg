SPECIFICATION FairSpec
CONSTANTS
  Proc = {p1, p2, p3}
  Lines = 2
  MaxCount = 2
  Permits = 2
  NCpu = 2
INVARIANTS
  TypeOK
  Exclusive
  AtomicOnCpu
  PermitConservation
  NoNeedlessSleep
  QuiescentCount
  UnloadSafe
PROPERTIES
  BlockCounterSpec
  EveryWriteReturns
  WaiterServed

SPECIFICATION Spec
CONSTANTS
  Proc = {p1, p2, p3, p4, p5, p6, p7, p8, p9, p10, p11, p12}
  SerialOpen = TRUE
INVARIANTS
  TypeOK
  Exclusive
  CountBalance
PROPERTY ExclusiveDeviceSpec

SPECIFICATION Spec
CONSTANTS
  Drivers = {"my_chrdev", "sleepy"}
  Proc = {p1}
  Room = 4
  Texts = {}
  Sizes = {}
  OneAtATime = FALSE
  EarlyAccess = FALSE
  MayFail = {}
  MaxCdevs = 2
  NoOne = NoOne
INVARIANT FailedLeavesNothing

SPECIFICATION Spec
CONSTANTS
  Drivers = {"my_create_attr"}
  Proc = {p1}
  Room = 4
  Texts = {}
  Sizes = {}
  OneAtATime = TRUE
  EarlyAccess = FALSE
  MayFail = {"region"}
  MaxCdevs = 2
  NoOne = NoOne
INVARIANT LiveOwnsRegion

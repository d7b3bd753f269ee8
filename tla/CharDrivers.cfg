SPECIFICATION FairSpec
CONSTANTS
  Drivers = {"my_chrdev", "my_create_attr", "my_create_group_attr", "sleepy", "my_misc"}
  Proc = {p1, p2}
  Room = 4
  Texts <- MCTexts
  Sizes = {999, 1000}
  OneAtATime = TRUE
  EarlyAccess = FALSE
  MayFail = {"cdev", "class", "device", "misc", "attrs", "pdata"}
  MaxCdevs = 2
  NoOne = NoOne
INVARIANTS
  TypeOK
  NothingLeftBehind
  FilesPinned
  LiveOwnsRegion
  ShownWhole
  CrashesOnlyOnError
PROPERTY CallsEnd
CHECK_DEADLOCK FALSE

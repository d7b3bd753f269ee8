SPECIFICATION Spec
CONSTANTS
  Drivers = {"my_platform", "my_key", "tsu6721"}
  MaxFiles = 2
INVARIANTS
  TypeOK
  KeyFollowed
  CacheHonest
  OnlyNodeLeft
CHECK_DEADLOCK FALSE

SPECIFICATION FairSpec
CONSTANT Proc = {p1, p2, p3, p4}
INVARIANTS
  TypeOK
  NoLostWakeup
PROPERTY FlagTaken

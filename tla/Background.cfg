SPECIFICATION BgFairSpec
CONSTANTS
  NUM = 2
  Lines = 3
  MaxCount = 5
  Half = 4
  HZ = 1
  MaxLate = 2
  Drivers = {"workqueue_thread_test", "workqueue_test", "tasklet_test", "irq_test",
             "timer_test", "jiffies_test", "thread_test"}
INVARIANTS
  BgTypeOK
  CodeStays
  QuiescentCount
PROPERTIES
  NoLostIncrement
  PressServed
  ExitCompletes
  NeverEarly
CHECK_DEADLOCK FALSE

----------------------------- MODULE KeyDrivers -----------------------------
(***************************************************************************)
(* The four drivers of the key's interrupt line in document/irq.           *)
(* workqueue_thread_test.c gives its work to the one thread of a workqueue *)
(* that it creates at init; workqueue_test.c gives it to the system's own  *)
(* workqueue (schedule_work), both items at once if need be; both destroy  *)
(* wq on the way out, which the second has never created.  tasklet_test.c  *)
(* has one tasklet, which like a work item is taken off its list before it *)
(* runs and never runs twice at once; irq_test.c has a handler that keeps  *)
(* no state.  They ask for the line for themselves; one is loaded at a     *)
(* time.                                                                   *)
(***************************************************************************)
EXTENDS KeyWork

CONSTANT Drivers   \* the modules that may be loaded; the last three are in Background

WorkqueueDrivers == {"workqueue_thread_test", "workqueue_test"}
LineDrivers == WorkqueueDrivers \cup {"tasklet_test", "irq_test"}

ASSUME DriversAssumption ==
  Drivers \subseteq LineDrivers \cup {"timer_test", "jiffies_test", "thread_test"}

VARIABLES
  driver,   \* which module is, or was last, loaded
  wq,       \* its workqueue exists; otherwise wq is NULL
  stray     \* the handler on the line is that of a module that is gone

vars == <<mod, irqOn, i, queue, at, line, seen, cnt, driver, wq, stray>>

Init ==
  /\ KeyInit
  /\ driver \in Drivers
  /\ wq = FALSE
  /\ stray = FALSE

\* insmod of one of the modules, up to INIT_WORK or tasklet_init.
\* A tasklet that a module left behind is StrayCall from now on.
tasklet_test_init ==
  /\ LoadModule
  /\ driver' \in Drivers
  /\ wq' = FALSE
  /\ UNCHANGED stray

CreateWorkqueue ==
  /\ mod = "init" /\ driver = "workqueue_thread_test" /\ ~wq
  /\ \/ wq' = TRUE /\ UNCHANGED mod
     \/ mod' = "unloaded" /\ UNCHANGED wq    \* err0: -ENOMEM
  /\ UNCHANGED <<irqOn, i, driver, stray, workVars>>

\* destroy_workqueue waits until nothing is queued and nothing runs; with NULL
\* it crashes.
Drained == queue = <<>> /\ Busy = {}

destroy_workqueue ==
  \/ wq /\ Drained /\ wq' = FALSE /\ mod' = "unloaded"
  \/ ~wq /\ mod' = "oops" /\ UNCHANGED wq

destroy_workqueue_no_drain ==
  \/ wq /\ wq' = FALSE /\ mod' = "unloaded"
  \/ ~wq /\ mod' = "oops" /\ UNCHANGED wq

ReadyForIrq ==
  mod = "init" /\ driver \in LineDrivers /\ (driver = "workqueue_thread_test" => wq)

\* request_irq succeeds, which it cannot while the line has a handler.
RequestIrq ==
  /\ ReadyForIrq
  /\ ~irqOn
  /\ irqOn' = TRUE /\ mod' = "live"
  /\ UNCHANGED <<i, driver, wq, stray, workVars>>

\* It fails: the workqueue drivers go to err1 and destroy the workqueue.
RequestIrqFails ==
  /\ ReadyForIrq /\ driver \in WorkqueueDrivers
  /\ destroy_workqueue
  /\ UNCHANGED <<irqOn, i, driver, stray, workVars>>

\* It fails, and the other two do not look.
RequestIrqIgnored ==
  /\ ReadyForIrq /\ driver \notin WorkqueueDrivers
  /\ mod' = "live"
  /\ UNCHANGED <<irqOn, i, driver, wq, stray, workVars>>

\* irq_test_exit: free_irq, of the handler that this module has registered.
irq_test_exit ==
  /\ mod = "live" /\ driver = "irq_test"
  /\ mod' = "unloaded"
  /\ irqOn' = (irqOn /\ stray)
  /\ UNCHANGED <<i, driver, wq, stray, workVars>>

\* The exit function of the tasklet: free_irq does not know the dev_id NULL
\* (the handler was registered with &lock), so the handler stays; and nothing
\* waits for the tasklet.
exit_tasklet ==
  /\ mod = "live" /\ driver = "tasklet_test"
  /\ mod' = "unloaded"
  /\ stray' = irqOn
  /\ UNCHANGED <<irqOn, i, driver, wq, workVars>>

\* The kernel calls the handler, or the tasklet, of the module that is gone.
StrayCall ==
  /\ stray /\ mod # "oops"
  /\ mod' = "oops"
  /\ UNCHANGED <<irqOn, i, driver, wq, stray, workVars>>

\* The exit functions of the workqueue drivers: free_irq ...
exit_stop_thread_first ==
  /\ mod = "live" /\ driver \in WorkqueueDrivers
  /\ mod' = "exit" /\ irqOn' = FALSE /\ wq' = FALSE
  /\ UNCHANGED <<i, driver, stray, workVars>>

exit_free_irq ==
  /\ mod = "live" /\ driver \in WorkqueueDrivers
  /\ mod' = "exit" /\ irqOn' = FALSE
  /\ UNCHANGED <<i, driver, wq, stray, workVars>>

\* ... and then destroy_workqueue; the module is unloaded.
exit_no_drain ==
  /\ mod = "exit" /\ driver \in WorkqueueDrivers
  /\ destroy_workqueue_no_drain
  /\ UNCHANGED <<irqOn, i, driver, stray, workVars>>

exit_destroy_workqueue ==
  /\ mod = "exit" /\ driver \in WorkqueueDrivers
  /\ destroy_workqueue
  /\ UNCHANGED <<irqOn, i, driver, stray, workVars>>

\* An edge of the line: the handler of the module that is loaded queues its next
\* item, or its one tasklet; that of irq_test only logs, and has no action.
KeyEdge ==
  /\ ~stray
  /\ driver \in WorkqueueDrivers
  /\ irq_handler
  /\ UNCHANGED <<driver, wq, stray>>

irq_handler_tasklet ==
  /\ irqOn /\ ~stray /\ cnt < MaxCount
  /\ driver = "tasklet_test"
  /\ QueueWork(0)
  /\ UNCHANGED <<mod, irqOn, i, at, line, seen, cnt, driver, wq, stray>>

\* The workers there are: the one thread of create_singlethread_workqueue, one
\* per item on a workqueue that has enough of them, one processor for the one
\* tasklet.
create_workqueue == NUM
create_singlethread_workqueue == 1

Workers ==
  IF driver = "workqueue_thread_test" THEN create_singlethread_workqueue
  ELSE IF driver = "tasklet_test" THEN 1 ELSE NUM

\* A step of work_main, or of the tasklet's critical(), whose loop is the same.
\* Its spin_lock_bh never waits: only the tasklet takes that lock.
WorkStep(t) ==
  /\ driver = "workqueue_thread_test" => wq
  /\ driver = "tasklet_test" => mod = "live"
  /\ work_main(t, Workers)
  /\ UNCHANGED <<driver, wq, stray>>

LineStep ==
  \/ CreateWorkqueue \/ RequestIrq \/ RequestIrqFails \/ RequestIrqIgnored
  \/ exit_free_irq \/ exit_destroy_workqueue \/ irq_test_exit \/ exit_tasklet
  \/ KeyEdge \/ irq_handler_tasklet \/ StrayCall
  \/ \E t \in Items : WorkStep(t)

Next == tasklet_test_init \/ LineStep

Spec == Init /\ [][Next]_vars

-----------------------------------------------------------------------------
TypeOK ==
  /\ KeyTypeOK
  /\ driver \in Drivers
  /\ wq \in BOOLEAN
  /\ stray \in BOOLEAN

\* Work is queued or running, and the handler can queue more, only while the
\* workqueue exists; so the module never goes away under its own code.
WorkHasQueue ==
  driver = "workqueue_thread_test" /\ ((irqOn /\ ~stray) \/ ~Drained) =>
    wq /\ mod \in {"live", "exit"}

\* With one worker, or one tasklet, no increment of the counter is lost.
NoLostIncrement ==
  [][driver # "workqueue_test" /\ mod # "unloaded" =>
       \A t \in Items : at[t] = "store" /\ at'[t] # "store" => cnt' = cnt + 1]_vars

\* On the system's workqueue the items race for the counter and increments are
\* lost, but when all is quiet after some run the counter is at least 2 (if
\* there are two iterations).
QuiescentCount ==
  (Drained /\ \E t \in Items : line[t] # 0) => cnt >= 2

\* No press is lost: an item that an edge has queued is taken off the queue by
\* a run that starts after that edge, also if the edge came while the item ran
\* or the module is on its way out; but nothing keeps tasklet_test from going
\* away before its tasklet has run.
PressServed ==
  \A t \in Items :
    Contains(queue, t) ~> \/ ~Contains(queue, t)
                          \/ driver = "tasklet_test" /\ mod # "live"
=============================================================================

-------------------------- MODULE Background_proofs --------------------------
(***************************************************************************)
(* What runs on when the handlers of a module have returned, for every     *)
(* number of work items and iterations, every set of modules, every range  *)
(* of jiffies and every HZ: the work is counted right and stops before its *)
(* workqueue goes, and neither timer nor delay ends early.                 *)
(***************************************************************************)
EXTENDS Background, FiniteSetTheorems, SequenceTheorems, TLAPS

\* The types.  The Boolean variables are apart from the numbers, because no
\* prover decides a step about both.
FlagsOK ==
  /\ irqOn \in BOOLEAN /\ wq \in BOOLEAN /\ stray \in BOOLEAN
  /\ armed \in BOOLEAN /\ running \in BOOLEAN /\ stop \in BOOLEAN

ModulesOK ==
  /\ mod \in {"unloaded", "init", "live", "exit", "oops"}
  /\ driver \in Drivers
  /\ thread \in {"none", "created", "woken", "main", "loop", "exited"}

\* An item that is not idle has iterations to go.
WorkOK ==
  /\ i \in 0..NUM
  /\ queue \in Seq(Items)
  /\ at \in [Items -> {"idle", "load", "store"}]
  /\ line \in [Items -> 0..Lines]
  /\ seen \in [Items -> Nat]
  /\ cnt \in Nat
  /\ \A t \in Items : at[t] # "idle" => line[t] < Lines

ClockOK ==
  /\ step \in 0..3
  /\ jiffies \in 0..Modulus - 1 /\ expires \in 0..Modulus - 1
  /\ asked \in 0..3 * HZ /\ since \in 0..asked + MaxLate

\* Who has the line: a handler on it belongs to the module that is loaded, or is
\* astray; and the workqueue of workqueue_thread_test exists while there is work.
LineInv ==
  /\ stray => irqOn
  /\ irqOn /\ ~stray => mod = "live" /\ driver \in LineDrivers
  /\ mod \in {"live", "exit"} /\ driver \in WorkqueueDrivers => ~stray
  /\ driver = "workqueue_thread_test" =>
       IF mod \in {"live", "exit"} THEN wq ELSE Drained

\* With one worker at most one item is busy, and the counter is as it has seen it.
CountInv ==
  /\ driver \notin WorkqueueDrivers \cup {"tasklet_test"} => queue = <<>>
  /\ driver # "workqueue_test" =>
       /\ \A t, u \in Busy : t = u
       /\ \A t \in Items : at[t] = "store" => seen[t] = cnt

\* Once an iteration has ended the counter is not 0 again, and no later iteration
\* sees it as 0; so that who finishes the last of several leaves at least 2.
RaceInv ==
  /\ \A t \in Items : line[t] # 0 => cnt >= 1
  /\ \A t \in Items : at[t] = "store" /\ line[t] # 0 => seen[t] >= 1
  /\ Busy = {} => \A t \in Items : line[t] # 0 => cnt >= 2

\* The timer and the thread belong to their modules, which are still there.
OwnersInv ==
  /\ armed \/ running => driver = "timer_test" /\ mod # "unloaded"
  /\ thread \notin {"none", "exited"} => driver = "thread_test" /\ mod # "unloaded"
  /\ Loaded("thread_test", "init") /\ step = 0 => thread = "none"

\* While somebody waits, jiffies are from expires as far as the time that has
\* passed is from the time that was asked for, up to a wrap-around.
Waiting == armed \/ (Loaded("jiffies_test", "init") /\ step = 1)
Distance == (jiffies - expires) - (since - asked)
ClockInv == Waiting => Distance = 0 \/ Distance = Modulus \/ Distance = -Modulus

Types == FlagsOK /\ ModulesOK /\ WorkOK /\ ClockOK
IInv == Types /\ LineInv /\ CountInv /\ OwnersInv /\ ClockInv

-----------------------------------------------------------------------------
(* Facts about the operators *)

\* Whatever leaves a sequence, the others are still of its elements.
LEMMA RemoveAtSeq ==
  ASSUME NEW S, NEW s \in Seq(S), NEW k \in 1..Len(s)
  PROVE  RemoveAt(s, k) \in Seq(S)
<1> DEFINE a == SubSeq(s, 1, k - 1)
           b == SubSeq(s, k + 1, Len(s))
<1>1. a \in Seq(S) /\ b \in Seq(S)
  OBVIOUS
<1> HIDE DEF a, b
<1>2. a \o b \in Seq(S)
  BY <1>1
<1> QED BY <1>2 DEF RemoveAt, a, b

LEMMA BusyFinite == IsFiniteSet(Busy)
<1>1. NUM \in Nat \ {0}
  BY KeyWorkAssumption
<1>2. IsFiniteSet(Items)
  BY <1>1, FS_Interval DEF Items
<1> QED BY <1>2, FS_Subset DEF Busy

\* The only worker takes an item when no other is busy.
LEMMA OneWorker ==
  ASSUME Cardinality(Busy) < 1
  PROVE  Busy = {}
<1>1. Cardinality(Busy) \in Nat /\ (Cardinality(Busy) = 0 <=> Busy = {})
  BY BusyFinite, FS_CardinalityType, FS_EmptySet
<1> QED BY <1>1

LEMMA ModulusFacts ==
  /\ Half \in Nat /\ Half > 0 /\ Modulus \in Nat
  /\ HZ \in Nat /\ MaxLate \in Nat /\ 3 * HZ < Half /\ MaxLate < Half
BY BackgroundAssumption DEF Modulus

\* The remainder, on both sides of a wrap-around.
LEMMA Wrap ==
  ASSUME NEW x \in Int
  PROVE  /\ 0 <= x /\ x < Modulus => x % Modulus = x
         /\ Modulus <= x /\ x < 2 * Modulus => x % Modulus = x - Modulus
         /\ -Modulus <= x /\ x < 0 => x % Modulus = x + Modulus
         /\ x % Modulus \in 0..Modulus - 1
<1>1. 2 * Half > 0 /\ 2 * Half \in Nat
  BY ModulusFacts
<1> DEFINE m == 2 * Half
<1> HIDE DEF m
<1>2. m \in Nat /\ m > 0
  BY <1>1 DEF m
<1>3. /\ 0 <= x /\ x < m => x % m = x
      /\ m <= x /\ x < 2 * m => x % m = x - m
      /\ -m <= x /\ x < 0 => x % m = x + m
      /\ x % m \in 0..m - 1
  BY <1>2
<1> QED BY <1>3 DEF m, Modulus

-----------------------------------------------------------------------------
(* Which steps change what *)

\* Only these steps touch the work, and only insmod the choice of the module.
LEMMA WorkSteps ==
  ASSUME [BgNext]_allVars
  PROVE  \/ insmod \/ KeyEdge \/ irq_handler_tasklet \/ \E t \in Items : WorkStep(t)
         \/ UNCHANGED <<i, queue, at, line, seen, cnt, driver>>
<1> USE DEF Becomes, vars, workVars
<1>1. CASE LineStep
  BY <1>1 DEF LineStep, CreateWorkqueue, RequestIrq, RequestIrqFails,
     RequestIrqIgnored, exit_free_irq, exit_destroy_workqueue, irq_test_exit,
     exit_tasklet, StrayCall
<1>2. CASE Tick \/ timer_main \/ timer_exit \/ jiffies_exit \/ kthread_stop
  BY <1>2 DEF Tick, timer_main, timer_exit, jiffies_exit, kthread_stop
<1>3. CASE TimerStep \/ JiffiesStep
  BY <1>3 DEF TimerStep, mod_timer, timer_init_return, timer_main_return,
     del_timer_sync, JiffiesStep, my_mdelay, my_mdelay_return
<1>4. CASE ThreadStep
  BY <1>4 DEF ThreadStep, kthread_create, wake_up_process, thread_init_return,
     kthread_start, thread_main, thread_main_return, kthread_stop_return
<1>5. CASE UNCHANGED allVars
  BY <1>5 DEF allVars
<1> QED BY <1>1, <1>2, <1>3, <1>4, <1>5 DEF BgNext

\* A step of the line's drivers leaves a module that does not use the line where
\* it is, unless the handler that another has left behind is called.
LEMMA LineStepKeeps ==
  ASSUME LineStep
  PROVE  /\ driver' = driver
         /\ driver \notin LineDrivers => mod' = mod \/ mod' = "oops"
<1> USE DEF LineDrivers, WorkqueueDrivers
<1>1. CASE CreateWorkqueue \/ RequestIrq \/ RequestIrqFails \/ RequestIrqIgnored
  BY <1>1 DEF CreateWorkqueue, RequestIrq, RequestIrqFails, RequestIrqIgnored, ReadyForIrq
<1>2. CASE exit_free_irq \/ exit_destroy_workqueue \/ irq_test_exit \/ exit_tasklet
  BY <1>2 DEF exit_free_irq, exit_destroy_workqueue, irq_test_exit, exit_tasklet
<1>3. CASE KeyEdge \/ irq_handler_tasklet \/ StrayCall
  BY <1>3 DEF KeyEdge, irq_handler, irq_handler_tasklet, StrayCall
<1>4. CASE \E t \in Items : WorkStep(t)
  BY <1>4 DEF WorkStep, work_main, StartWork, Load, Store
<1> QED BY <1>1, <1>2, <1>3, <1>4 DEF LineStep

-----------------------------------------------------------------------------
(* The work *)

LEMMA EdgeWork ==
  ASSUME WorkOK, KeyEdge \/ irq_handler_tasklet
  PROVE  WorkOK'
<1>1. NUM \in Nat /\ NUM > 0 /\ 0 \in Items
  BY KeyWorkAssumption DEF Items
<1>2. ASSUME NEW t \in Items, QueueWork(t) PROVE queue' \in Seq(Items)
  BY <1>2 DEF QueueWork, WorkOK
<1>3. CASE KeyEdge
  <2> DEFINE next == IF i = NUM THEN 0 ELSE i
  <2>1. next \in Items /\ next + 1 \in 0..NUM
    BY <1>1 DEF WorkOK, Items
  <2>2. queue' \in Seq(Items) /\ i' \in 0..NUM
    BY <1>2, <1>3, <2>1 DEF KeyEdge, irq_handler
  <2> QED BY <1>3, <2>2 DEF KeyEdge, irq_handler, WorkOK
<1>4. CASE irq_handler_tasklet
  BY <1>1, <1>2, <1>4 DEF irq_handler_tasklet, WorkOK
<1> QED BY <1>3, <1>4

LEMMA WorkStepWork ==
  ASSUME WorkOK, NEW t \in Items, WorkStep(t)
  PROVE  WorkOK'
<1> USE DEF WorkOK
<1>1. Lines \in Nat /\ Lines > 0
  BY KeyWorkAssumption
<1>2. CASE StartWork(t, Workers)
  <2>1. queue' \in Seq(Items)
    BY <1>2, RemoveAtSeq DEF StartWork
  <2> QED BY <1>1, <1>2, <2>1 DEF StartWork
<1>3. CASE Load(t)
  BY <1>1, <1>3 DEF Load
<1>4. CASE Store(t)
  <2>1. line[t] < Lines /\ line[t] + 1 \in 0..Lines /\ seen[t] + 1 \in Nat
    BY <1>1, <1>4 DEF Store
  <2> QED BY <1>1, <1>4, <2>1 DEF Store
<1> QED BY <1>2, <1>3, <1>4 DEF WorkStep, work_main

LEMMA StepWork == IInv /\ [BgNext]_allVars => WorkOK'
<1> SUFFICES ASSUME IInv, [BgNext]_allVars PROVE WorkOK'
  OBVIOUS
<1>1. WorkOK
  BY DEF IInv, Types
<1>2. CASE insmod
  BY <1>2, KeyWorkAssumption DEF insmod, tasklet_test_init, LoadModule, WorkOK
<1>3. CASE UNCHANGED <<i, queue, at, line, seen, cnt, driver>>
  BY <1>1, <1>3 DEF WorkOK
<1> QED BY <1>1, <1>2, <1>3, WorkSteps, EdgeWork, WorkStepWork

LEMMA StepCount == IInv /\ [BgNext]_allVars => CountInv'
<1> SUFFICES ASSUME IInv, [BgNext]_allVars PROVE CountInv'
  OBVIOUS
<1> USE DEF CountInv
<1>1. WorkOK /\ CountInv
  BY DEF IInv, Types
<1>2. CASE insmod
  BY <1>2 DEF insmod, tasklet_test_init, LoadModule, Busy
<1>3. CASE KeyEdge \/ irq_handler_tasklet
  BY <1>1, <1>3 DEF KeyEdge, irq_handler, irq_handler_tasklet, Busy
<1>4. ASSUME NEW t \in Items, WorkStep(t) PROVE CountInv'
  <2> USE <1>1 DEF WorkOK, Busy
  <2>1. CASE StartWork(t, Workers)
    <3>1. queue # <<>>
      BY <2>1 DEF StartWork
    <3>2. driver # "workqueue_test" => Workers = 1
      BY <3>1 DEF Workers, create_singlethread_workqueue, WorkqueueDrivers
    <3>3. driver # "workqueue_test" => Busy = {}
      BY <2>1, <3>2, OneWorker DEF StartWork
    <3> QED BY <1>4, <2>1, <3>1, <3>3 DEF WorkStep, StartWork
  <2>2. CASE Load(t)
    BY <1>4, <2>2 DEF WorkStep, Load
  <2>3. CASE Store(t)
    BY <1>4, <2>3 DEF WorkStep, Store
  <2> QED BY <1>4, <2>1, <2>2, <2>3 DEF WorkStep, work_main
<1>5. CASE UNCHANGED <<i, queue, at, line, seen, cnt, driver>>
  BY <1>1, <1>5 DEF Busy
<1> QED BY <1>2, <1>3, <1>4, <1>5, WorkSteps

\* Where there are two iterations, whoever finishes has seen the end of one.
LEMMA StepRace == Lines >= 2 /\ IInv /\ RaceInv /\ [BgNext]_allVars => RaceInv'
<1> SUFFICES ASSUME Lines >= 2, IInv, RaceInv, [BgNext]_allVars PROVE RaceInv'
  OBVIOUS
<1> USE DEF RaceInv
<1>1. WorkOK
  BY DEF IInv, Types
<1>2. CASE insmod
  BY <1>2 DEF insmod, tasklet_test_init, LoadModule, Busy
<1>3. CASE KeyEdge \/ irq_handler_tasklet
  BY <1>3 DEF KeyEdge, irq_handler, irq_handler_tasklet, Busy
<1>4. ASSUME NEW t \in Items, WorkStep(t) PROVE RaceInv'
  <2> USE <1>1 DEF WorkOK
  <2>1. CASE StartWork(t, Workers)
    <3>1. t \in Busy'
      BY <2>1 DEF StartWork, Busy
    <3> QED BY <2>1, <3>1 DEF StartWork
  <2>2. CASE Load(t)
    <3>1. t \in Busy'
      BY <2>2 DEF Load, Busy
    <3> QED BY <2>2, <3>1 DEF Load
  <2>3. CASE Store(t)
    <3>1. cnt' = seen[t] + 1 /\ seen[t] \in Nat /\ cnt' >= 1
      BY <2>3 DEF Store
    <3>2. \A u \in Items : at'[u] = "store" => u # t /\ at[u] = "store" /\ line'[u] = line[u]
      BY <2>3 DEF Store
    <3>3. Busy' = {} => line[t] # 0
      <4>1. Busy' = {} => at'[t] = "idle"
        BY DEF Busy
      <4> QED BY <2>3, <4>1, KeyWorkAssumption DEF Store
    <3>4. Busy' = {} => cnt' >= 2
      BY <2>3, <3>1, <3>3 DEF Store
    <3> QED BY <2>3, <3>1, <3>2, <3>4 DEF Store
  <2> QED BY <1>4, <2>1, <2>2, <2>3 DEF WorkStep, work_main
<1>5. CASE UNCHANGED <<i, queue, at, line, seen, cnt, driver>>
  BY <1>5 DEF Busy
<1> QED BY <1>2, <1>3, <1>4, <1>5, WorkSteps

-----------------------------------------------------------------------------
(* The line *)

LEMMA StepLine == IInv /\ [BgNext]_allVars => LineInv'
<1> SUFFICES ASSUME IInv, [BgNext]_allVars PROVE LineInv'
  OBVIOUS
<1> USE DEF LineInv, LineDrivers, WorkqueueDrivers
<1>1. LineInv /\ WorkOK /\ ModulesOK
  BY DEF IInv, Types
<1>2. CASE insmod
  BY <1>1, <1>2 DEF insmod, tasklet_test_init, LoadModule, Drained, Busy
<1>3. CASE CreateWorkqueue
  BY <1>1, <1>3 DEF CreateWorkqueue, Drained, Busy, workVars
<1>4. CASE RequestIrq \/ RequestIrqIgnored
  BY <1>1, <1>4 DEF RequestIrq, RequestIrqIgnored, ReadyForIrq, Drained, Busy, workVars
<1>5. CASE RequestIrqFails \/ exit_destroy_workqueue
  BY <1>1, <1>5 DEF RequestIrqFails, exit_destroy_workqueue, destroy_workqueue,
     ReadyForIrq, Drained, Busy, workVars
<1>6. CASE exit_free_irq \/ irq_test_exit \/ exit_tasklet \/ StrayCall
  <2>1. CASE exit_free_irq
    BY <1>1, <2>1 DEF exit_free_irq, Drained, Busy, workVars
  <2>2. CASE irq_test_exit
    <3>1. irqOn' => irqOn /\ stray
      BY <2>2 DEF irq_test_exit
    <3>2. stray /\ irqOn => irqOn'
      BY <2>2 DEF irq_test_exit
    <3> QED BY <1>1, <2>2, <3>1, <3>2 DEF irq_test_exit
  <2>3. CASE exit_tasklet
    BY <1>1, <2>3 DEF exit_tasklet
  <2>4. CASE StrayCall
    BY <1>1, <2>4 DEF StrayCall, Drained, Busy, workVars
  <2> QED BY <1>6, <2>1, <2>2, <2>3, <2>4
<1>7. CASE KeyEdge \/ irq_handler_tasklet
  BY <1>1, <1>7 DEF KeyEdge, irq_handler, irq_handler_tasklet
<1>8. ASSUME NEW t \in Items, WorkStep(t) PROVE LineInv'
  <2>1. ~Drained
    BY <1>8 DEF WorkStep, work_main, StartWork, Load, Store, Drained, Busy
  <2> QED BY <1>1, <1>8, <2>1 DEF WorkStep, work_main, StartWork, Load, Store
<1>9. CASE UNCHANGED vars
  BY <1>1, <1>9 DEF vars, Drained, Busy
<1>10. ASSUME driver \notin LineDrivers, NEW phase, Becomes(phase) PROVE LineInv'
  BY <1>1, <1>10 DEF Becomes, Drained, Busy, workVars
<1>11. CASE Tick \/ TimerStep \/ timer_main \/ timer_exit
  BY <1>9, <1>10, <1>11 DEF Tick, TimerStep, mod_timer, timer_init_return,
     timer_main_return, del_timer_sync, timer_main, timer_exit, Loaded
<1>12. CASE JiffiesStep \/ jiffies_exit
  BY <1>9, <1>10, <1>12 DEF JiffiesStep, my_mdelay, my_mdelay_return, jiffies_exit, Loaded
<1>13. CASE ThreadStep \/ kthread_stop
  <2>1. thread = "main" => driver \notin LineDrivers
    BY DEF IInv, OwnersInv
  <2> QED BY <1>9, <1>10, <1>13, <2>1 DEF ThreadStep, kthread_create, wake_up_process,
     thread_init_return, kthread_start, thread_main, thread_main_return,
     kthread_stop_return, kthread_stop, Loaded
<1>14. CASE UNCHANGED allVars
  BY <1>9, <1>14 DEF allVars
<1>15. CASE LineStep
  BY <1>3, <1>4, <1>5, <1>6, <1>7, <1>8, <1>15 DEF LineStep
<1> QED BY <1>2, <1>11, <1>12, <1>13, <1>14, <1>15 DEF BgNext

-----------------------------------------------------------------------------
(* Modules and flags *)

LEMMA StepModules == IInv /\ [BgNext]_allVars => ModulesOK'
<1> SUFFICES ASSUME IInv, [BgNext]_allVars PROVE ModulesOK'
  OBVIOUS
<1> USE DEF ModulesOK, bgVars, threadVars
<1>1. ModulesOK
  BY DEF IInv, Types
<1>2. CASE insmod
  BY <1>2 DEF insmod, tasklet_test_init, LoadModule
<1>3. CASE LineStep /\ UNCHANGED bgVars
  <2>1. driver' = driver
    BY <1>3, LineStepKeeps
  <2>2. mod' \in {mod, "unloaded", "live", "exit", "oops"}
    BY <1>3 DEF LineStep, CreateWorkqueue, RequestIrq, RequestIrqFails,
       RequestIrqIgnored, destroy_workqueue, exit_free_irq, exit_destroy_workqueue,
       irq_test_exit, exit_tasklet, KeyEdge, irq_handler, irq_handler_tasklet,
       StrayCall, WorkStep, work_main, StartWork, Load, Store
  <2> QED BY <1>1, <1>3, <2>1, <2>2
<1>4. CASE Tick \/ TimerStep \/ timer_main \/ timer_exit
  BY <1>1, <1>4 DEF Tick, TimerStep, mod_timer, timer_init_return, timer_main_return,
     del_timer_sync, timer_main, timer_exit, Becomes, vars
<1>5. CASE JiffiesStep \/ jiffies_exit
  BY <1>1, <1>5 DEF JiffiesStep, my_mdelay, my_mdelay_return, jiffies_exit, Becomes, vars
<1>6. CASE ThreadStep \/ kthread_stop
  BY <1>1, <1>6 DEF ThreadStep, kthread_create, wake_up_process, thread_init_return,
     kthread_start, thread_main, thread_main_return, kthread_stop_return, kthread_stop,
     Becomes, vars
<1>7. CASE UNCHANGED allVars
  BY <1>1, <1>7 DEF allVars, vars
<1> QED BY <1>2, <1>3, <1>4, <1>5, <1>6, <1>7 DEF BgNext

LEMMA StepFlags == IInv /\ [BgNext]_allVars => FlagsOK'
<1> SUFFICES ASSUME IInv, [BgNext]_allVars PROVE FlagsOK'
  OBVIOUS
<1> USE DEF FlagsOK, bgVars, timerVars, threadVars
<1>1. FlagsOK
  BY DEF IInv, Types
<1>2. CASE insmod
  BY <1>1, <1>2 DEF insmod, tasklet_test_init, LoadModule
<1>3. CASE LineStep /\ UNCHANGED bgVars
  <2>1. CASE CreateWorkqueue \/ RequestIrq \/ RequestIrqFails \/ RequestIrqIgnored
    BY <1>1, <1>3, <2>1 DEF CreateWorkqueue, RequestIrq, RequestIrqFails,
       RequestIrqIgnored, destroy_workqueue
  <2>2. CASE irq_test_exit
    <3>1. (irqOn /\ stray) \in BOOLEAN
      OBVIOUS
    <3> QED BY <1>1, <1>3, <2>2, <3>1 DEF irq_test_exit
  <2>3. CASE exit_free_irq \/ exit_destroy_workqueue \/ exit_tasklet \/ StrayCall
    BY <1>1, <1>3, <2>3 DEF exit_free_irq, exit_destroy_workqueue, exit_tasklet,
       StrayCall, destroy_workqueue
  <2>4. CASE KeyEdge \/ irq_handler_tasklet \/ \E t \in Items : WorkStep(t)
    BY <1>1, <1>3, <2>4 DEF KeyEdge, irq_handler, irq_handler_tasklet, WorkStep,
       work_main, StartWork, Load, Store
  <2> QED BY <1>3, <2>1, <2>2, <2>3, <2>4 DEF LineStep
<1>4. CASE Tick \/ TimerStep \/ timer_main \/ timer_exit
  BY <1>1, <1>4 DEF Tick, TimerStep, mod_timer, timer_init_return, timer_main_return,
     del_timer_sync, timer_main, timer_exit, Becomes, vars
<1>5. CASE JiffiesStep \/ jiffies_exit
  BY <1>1, <1>5 DEF JiffiesStep, my_mdelay, my_mdelay_return, jiffies_exit, Becomes, vars
<1>6. CASE ThreadStep \/ kthread_stop
  BY <1>1, <1>6 DEF ThreadStep, kthread_create, wake_up_process, thread_init_return,
     kthread_start, thread_main, thread_main_return, kthread_stop_return, kthread_stop,
     Becomes, vars
<1>7. CASE UNCHANGED allVars
  BY <1>1, <1>7 DEF allVars, vars
<1> QED BY <1>2, <1>3, <1>4, <1>5, <1>6, <1>7 DEF BgNext

\* The timer and the thread end before their module goes.
LEMMA StepOwners == IInv /\ [BgNext]_allVars => OwnersInv'
<1> SUFFICES ASSUME IInv, [BgNext]_allVars PROVE OwnersInv'
  OBVIOUS
<1> USE DEF OwnersInv, bgVars, timerVars, threadVars, Loaded
<1>1. OwnersInv
  BY DEF IInv
<1>2. CASE insmod
  BY <1>1, <1>2 DEF insmod, tasklet_test_init, LoadModule
<1>3. CASE LineStep /\ UNCHANGED bgVars
  BY <1>1, <1>3, LineStepKeeps DEF LineDrivers, WorkqueueDrivers
<1>4. CASE Tick \/ TimerStep \/ timer_main \/ timer_exit
  BY <1>1, <1>4 DEF Tick, TimerStep, mod_timer, timer_init_return, timer_main_return,
     del_timer_sync, timer_main, timer_exit, Becomes, vars
<1>5. CASE JiffiesStep \/ jiffies_exit
  BY <1>1, <1>5 DEF JiffiesStep, my_mdelay, my_mdelay_return, jiffies_exit, Becomes, vars
<1>6. CASE ThreadStep \/ kthread_stop
  BY <1>1, <1>6 DEF ThreadStep, kthread_create, wake_up_process, thread_init_return,
     kthread_start, thread_main, thread_main_return, kthread_stop_return, kthread_stop,
     Becomes, vars
<1>7. CASE UNCHANGED allVars
  BY <1>1, <1>7 DEF allVars, vars
<1> QED BY <1>2, <1>3, <1>4, <1>5, <1>6, <1>7 DEF BgNext

-----------------------------------------------------------------------------
(* The clock *)

USE DEF Modulus

\* The bounds that WaitFor and Tick keep.
LEMMA WaitForClock ==
  ASSUME ClockOK, NEW n \in {1, 2, 3}, WaitFor(n * HZ), jiffies' = jiffies
  PROVE  /\ asked' \in 0..3 * HZ /\ since' \in 0..asked' + MaxLate
         /\ expires' \in 0..Modulus - 1
         /\ Distance' = 0 \/ Distance' = Modulus \/ Distance' = -Modulus
<1> DEFINE ticks == n * HZ
<1>1. ticks \in Nat /\ ticks <= 3 * HZ
  BY ModulusFacts
<1>2. expires' = (jiffies + ticks) % Modulus /\ asked' = ticks /\ since' = 0
  BY DEF WaitFor
<1> HIDE DEF ticks
<1> DEFINE x == jiffies + ticks
<1>3. x \in Int /\ 0 <= x /\ x < 2 * Modulus
  BY <1>1, ModulusFacts DEF ClockOK
<1>4. x % Modulus = x \/ x % Modulus = x - Modulus
  <2> HIDE DEF x
  <2> QED BY <1>3, Wrap, ModulusFacts
<1>5. expires' \in 0..Modulus - 1
  <2> HIDE DEF x
  <2>1. x % Modulus \in 0..Modulus - 1
    BY <1>3, Wrap
  <2> QED BY <1>2, <2>1 DEF x
<1> QED BY <1>1, <1>2, <1>4, <1>5, ModulusFacts DEF Distance, ClockOK

LEMMA TickClock ==
  ASSUME ClockOK, ClockInv, Tick
  PROVE  /\ since' \in 0..asked' + MaxLate
         /\ jiffies' \in 0..Modulus - 1
         /\ Distance' = 0 \/ Distance' = Modulus \/ Distance' = -Modulus
<1>1. /\ jiffies' = (jiffies + 1) % Modulus /\ since' = since + 1
      /\ since < asked + MaxLate
      /\ asked' = asked /\ expires' = expires
  BY DEF Tick, timerVars
<1>2. Distance = 0 \/ Distance = Modulus \/ Distance = -Modulus
  BY DEF Tick, Waiting, ClockInv
<1> DEFINE x == jiffies + 1
<1>3. x \in Int /\ 0 <= x /\ x <= Modulus
  BY ModulusFacts DEF ClockOK
<1>4. x % Modulus = IF x < Modulus THEN x ELSE x - Modulus
  <2> HIDE DEF x
  <2>1. x < 2 * Modulus
    BY <1>3, ModulusFacts
  <2> QED BY <1>3, <2>1, Wrap, ModulusFacts
<1> QED BY <1>1, <1>2, <1>4, ModulusFacts DEF Distance, ClockOK

LEMMA StepClock == IInv /\ [BgNext]_allVars => ClockOK' /\ ClockInv'
<1> SUFFICES ASSUME IInv, [BgNext]_allVars PROVE ClockOK' /\ ClockInv'
  OBVIOUS
<1> USE DEF bgVars, clockVars, timerVars, Loaded
<1>1. ClockOK /\ ClockInv
  BY DEF IInv, Types
<1>2. CASE insmod
  BY <1>2, ModulusFacts DEF insmod, tasklet_test_init, LoadModule, ClockOK, ClockInv, Waiting
<1>3. ASSUME UNCHANGED <<step, jiffies, expires, asked, since>>, Waiting' => Waiting
      PROVE  ClockOK' /\ ClockInv'
  BY <1>1, <1>3 DEF ClockOK, ClockInv, Distance
<1>4. CASE LineStep /\ UNCHANGED bgVars
  BY <1>3, <1>4, LineStepKeeps DEF LineDrivers, WorkqueueDrivers, Waiting
<1>5. CASE Tick
  BY <1>1, <1>5, TickClock DEF Tick, ClockOK, ClockInv
<1>6. CASE mod_timer
  <2>1. WaitFor(3 * HZ) \/ WaitFor(1 * HZ)
    BY <1>6 DEF mod_timer
  <2> QED BY <1>1, <1>6, <2>1, WaitForClock DEF mod_timer, ClockOK, ClockInv
<1>7. CASE my_mdelay
  BY <1>1, <1>7, WaitForClock DEF my_mdelay, ClockOK, ClockInv
<1>8. CASE timer_init_return \/ timer_main_return \/ del_timer_sync \/ timer_main \/ timer_exit
  BY <1>3, <1>8 DEF timer_init_return, timer_main_return, del_timer_sync, timer_main,
     timer_exit, Becomes, Waiting, vars
<1>9. CASE my_mdelay_return \/ jiffies_exit
  BY <1>3, <1>9 DEF my_mdelay_return, jiffies_exit, Becomes, Waiting
<1>10. CASE ThreadStep \/ kthread_stop
  <2>1. UNCHANGED <<jiffies, expires, asked, since>> /\ (Waiting' => Waiting)
    BY <1>10 DEF ThreadStep, kthread_create, wake_up_process, thread_init_return,
       kthread_start, thread_main, thread_main_return, kthread_stop_return, kthread_stop,
       Becomes, Waiting, vars, IInv, OwnersInv
  <2>2. step' \in 0..3
    BY <1>1, <1>10 DEF ThreadStep, kthread_create, wake_up_process, thread_init_return,
       kthread_start, thread_main, thread_main_return, kthread_stop_return, kthread_stop,
       ClockOK
  <2> QED BY <1>1, <2>1, <2>2 DEF ClockOK, ClockInv, Distance
<1>11. CASE UNCHANGED allVars
  BY <1>3, <1>11 DEF allVars, vars, Waiting
<1> QED BY <1>2, <1>4, <1>5, <1>6, <1>7, <1>8, <1>9, <1>10, <1>11
   DEF BgNext, TimerStep, JiffiesStep

\* What has expired has been waited for.
LEMMA Expired ==
  ASSUME ClockOK, ClockInv, Waiting, ~time_is_after_jiffies(expires)
  PROVE  since >= asked
<1> DEFINE d == jiffies - expires
<1>1. d % Modulus < Half
  BY Wrap, ModulusFacts DEF time_is_after_jiffies, ClockOK
<1>2. /\ 0 <= d /\ d < Modulus => d % Modulus = d
      /\ -Modulus <= d /\ d < 0 => d % Modulus = d + Modulus
      /\ d \in Int /\ -Modulus <= d /\ d < Modulus
  BY Wrap, ModulusFacts DEF ClockOK
<1>3. /\ d = since - asked \/ d = since - asked + Modulus \/ d = since - asked - Modulus
      /\ since - asked \in Int /\ -Half < since - asked /\ since - asked < Half
  BY ModulusFacts DEF ClockInv, Distance, ClockOK
<1> HIDE DEF d
<1>4. since - asked >= 0
  BY <1>1, <1>2, <1>3, ModulusFacts
<1> QED BY <1>4 DEF ClockOK

-----------------------------------------------------------------------------
(* The theorems *)

LEMMA InitIInv == BgInit => IInv /\ RaceInv
<1> SUFFICES ASSUME BgInit PROVE IInv /\ RaceInv
  OBVIOUS
<1> USE DEF BgInit, Init, KeyInit
<1>1. FlagsOK /\ ModulesOK
  BY DEF FlagsOK, ModulesOK
<1>2. WorkOK /\ RaceInv
  BY KeyWorkAssumption DEF WorkOK, RaceInv
<1>3. ClockOK
  BY ModulusFacts DEF ClockOK
<1>4. LineInv /\ CountInv
  BY DEF LineInv, CountInv, Drained, Busy
<1>5. OwnersInv /\ ClockInv
  BY DEF OwnersInv, ClockInv, Waiting, Loaded
<1> QED BY <1>1, <1>2, <1>3, <1>4, <1>5 DEF IInv, Types

LEMMA StepIInv == IInv /\ [BgNext]_allVars => IInv'
BY StepWork, StepCount, StepLine, StepModules, StepFlags, StepOwners, StepClock
   DEF IInv, Types

LEMMA Invariance == BgSpec => []IInv
<1>1. BgInit => IInv
  BY InitIInv
<1> QED BY <1>1, StepIInv, PTL DEF BgSpec

\* Every variable keeps its type: in particular i never runs over the work items
\* (irq_handler of workqueue_thread_test.c and workqueue_test.c).
THEOREM TypeCorrect == BgSpec => []BgTypeOK
<1>1. IInv => BgTypeOK
  BY DEF IInv, Types, FlagsOK, ModulesOK, WorkOK, ClockOK, BgTypeOK, TypeOK, KeyTypeOK
<1> QED BY <1>1, Invariance, PTL

\* No code of a module runs or waits to run once the module is gone: work waits
\* only while there is a workqueue, which its exit function drains, and timer and
\* thread have ended when del_timer_sync and kthread_stop return.
THEOREM NothingRunsOn == BgSpec => []CodeStays
<1>1. IInv => CodeStays
  BY DEF IInv, LineInv, OwnersInv, CodeStays, WorkHasQueue, Drained
<1> QED BY <1>1, Invariance, PTL

\* With the one thread of create_singlethread_workqueue, or the one tasklet, every
\* iteration of work_main or critical() counts.
THEOREM EveryIterationCounts == BgSpec => NoLostIncrement
<1>1. IInv /\ [BgNext]_allVars =>
        (driver # "workqueue_test" /\ mod # "unloaded" =>
           \A t \in Items : at[t] = "store" /\ at'[t] # "store" => cnt' = cnt + 1)
  <2> SUFFICES ASSUME IInv, [BgNext]_allVars, driver # "workqueue_test", mod # "unloaded",
                      NEW t \in Items, at[t] = "store", at'[t] # "store"
               PROVE  cnt' = cnt + 1
    OBVIOUS
  <2>1. seen[t] = cnt
    BY DEF IInv, CountInv
  <2>2. ~insmod
    BY DEF insmod, tasklet_test_init, LoadModule
  <2>3. ASSUME NEW u \in Items, WorkStep(u) PROVE cnt' = cnt + 1
    BY <2>1, <2>3 DEF WorkStep, work_main, StartWork, Load, Store, IInv, Types, WorkOK
  <2> QED BY <2>2, <2>3, WorkSteps DEF KeyEdge, irq_handler, irq_handler_tasklet
<1> QED BY <1>1, Invariance, PTL DEF BgSpec, NoLostIncrement

\* On the system's workqueue increments may be lost, but where work_main has two
\* iterations or more and some item has run, 2 are left when all is quiet.
THEOREM RaceIsBounded == Lines >= 2 => (BgSpec => []QuiescentCount)
<1> SUFFICES ASSUME Lines >= 2 PROVE BgSpec => []QuiescentCount
  OBVIOUS
<1>1. BgInit => IInv /\ RaceInv
  BY InitIInv
<1>2. IInv /\ RaceInv /\ [BgNext]_allVars => (IInv /\ RaceInv)'
  BY StepIInv, StepRace
<1>3. RaceInv => QuiescentCount
  BY DEF RaceInv, QuiescentCount, Drained
<1> QED BY <1>1, <1>2, <1>3, PTL DEF BgSpec

\* timer_main does not run, and my_mdelay does not return, before the ticks have
\* passed that it was last given, wherever jiffies wrap around meanwhile.
THEOREM TimeIsKept == BgSpec => NeverEarly
<1> DEFINE Expires == ~running /\ running'
           Returns == Loaded("jiffies_test", "init") /\ mod' # "init" /\ mod' # "oops"
<1>1. IInv /\ [BgNext]_allVars => (Expires \/ Returns => since >= asked)
  <2> SUFFICES ASSUME IInv, [BgNext]_allVars PROVE Expires \/ Returns => since >= asked
    OBVIOUS
  <2> USE DEF Loaded, bgVars, timerVars
  <2>1. ClockOK /\ ClockInv
    BY DEF IInv, Types
  <2>2. CASE timer_main
    BY <2>1, <2>2, Expired DEF timer_main, Waiting
  <2>3. CASE my_mdelay_return
    BY <2>1, <2>3, Expired DEF my_mdelay_return, Waiting
  <2>4. CASE insmod
    BY <2>4 DEF insmod, tasklet_test_init, LoadModule
  <2>5. CASE LineStep /\ UNCHANGED bgVars
    BY <2>5, LineStepKeeps DEF LineDrivers, WorkqueueDrivers
  <2>6. CASE Tick \/ TimerStep \/ timer_exit \/ my_mdelay \/ jiffies_exit
    BY <2>6 DEF Tick, TimerStep, mod_timer, timer_init_return, timer_main_return,
       del_timer_sync, timer_exit, my_mdelay, jiffies_exit, Becomes, vars
  <2>7. CASE ThreadStep \/ kthread_stop
    BY <2>7 DEF ThreadStep, kthread_create, wake_up_process, thread_init_return,
       kthread_start, thread_main, thread_main_return, kthread_stop_return, kthread_stop,
       Becomes, vars, IInv, OwnersInv
  <2>8. CASE UNCHANGED allVars
    BY <2>8 DEF allVars, vars
  <2> QED BY <2>2, <2>3, <2>4, <2>5, <2>6, <2>7, <2>8 DEF BgNext, JiffiesStep
<1> QED BY <1>1, Invariance, PTL DEF BgSpec, NeverEarly
=============================================================================

------------------------------- MODULE KeyWork -------------------------------
(***************************************************************************)
(* What document/irq/workqueue_thread_test.c and workqueue_test.c share:   *)
(* each edge of the key's interrupt line queues one of NUM work items in   *)
(* turn, and work_main prints and increments a static counter Lines times, *)
(* sleeping a second after each.  The kernel's workqueue is modelled from  *)
(* its use: an item that is queued is not queued again, an item is taken   *)
(* off the queue before it runs, and never runs twice at once.             *)
(***************************************************************************)
EXTENDS Integers, SequencesExt

CONSTANTS
  NUM,        \* work items (2 in the code)
  Lines,      \* iterations in work_main (3 in the code)
  MaxCount    \* bound: no edge comes once the counter is this high

ASSUME KeyWorkAssumption ==
  /\ NUM \in Nat \ {0} /\ Lines \in Nat \ {0}
  /\ MaxCount \in Nat

VARIABLES
  mod,     \* "unloaded", "init", "live", "exit", or "oops" after a crash
  irqOn,   \* irq_handler is registered
  i,       \* static int i of irq_handler
  queue,   \* the items that are queued and not running yet
  at,      \* where in work_main each item is, or "idle"
  line,    \* how many lines the current run has printed
  seen,    \* the counter as loaded by the increment under way
  cnt      \* static int cnt of work_main

workVars == <<queue, at, line, seen, cnt>>
keyVars == <<mod, irqOn, i, queue, at, line, seen, cnt>>

Items == 0..NUM - 1
Busy == {t \in Items : at[t] # "idle"}

KeyInit ==
  /\ mod = "unloaded"
  /\ irqOn = FALSE
  /\ i = 0
  /\ queue = <<>>
  /\ at = [t \in Items |-> "idle"]
  /\ line = [t \in Items |-> 0]
  /\ seen = [t \in Items |-> 0]
  /\ cnt = 0

\* insmod zeroes the statics; INIT_WORK for every item.
LoadModule ==
  /\ mod = "unloaded"
  /\ mod' = "init"
  /\ i' = 0
  /\ queue' = <<>>
  /\ at' = [t \in Items |-> "idle"]
  /\ line' = [t \in Items |-> 0]
  /\ seen' = [t \in Items |-> 0]
  /\ cnt' = 0
  /\ UNCHANGED irqOn

\* queue_work: no effect but FALSE if the item is queued already.
QueueWork(t) == queue' = IF Contains(queue, t) THEN queue ELSE Append(queue, t)

\* An edge of the line.  The kernel runs the handler to its end before it runs
\* it again; i goes on to the next item even if this one was queued already.
irq_handler_late_wrap ==
  /\ irqOn /\ cnt < MaxCount
  /\ LET next == IF i > NUM THEN 0 ELSE i
     IN  QueueWork(next) /\ i' = next + 1
  /\ UNCHANGED <<mod, irqOn, at, line, seen, cnt>>

irq_handler ==
  /\ irqOn /\ cnt < MaxCount
  /\ LET next == IF i = NUM THEN 0 ELSE i
     IN  QueueWork(next) /\ i' = next + 1
  /\ UNCHANGED <<mod, irqOn, at, line, seen, cnt>>

-----------------------------------------------------------------------------
\* One of so many workers takes the first queued item that is not running.
StartWork(t, workers) ==
  /\ Cardinality(Busy) < workers
  /\ \E k \in 1..Len(queue) :
       /\ queue[k] = t /\ at[t] = "idle"
       /\ \A j \in 1..k - 1 : at[queue[j]] # "idle"
       /\ queue' = RemoveAt(queue, k)
  /\ at' = [at EXCEPT ![t] = "load"]
  /\ line' = [line EXCEPT ![t] = 0]
  /\ UNCHANGED <<mod, irqOn, i, seen, cnt>>

\* cnt++ of work_main is a load ...
Load(t) ==
  /\ at[t] = "load"
  /\ seen' = [seen EXCEPT ![t] = cnt]
  /\ at' = [at EXCEPT ![t] = "store"]
  /\ UNCHANGED <<mod, irqOn, i, queue, line, cnt>>

\* ... and a store; then the line is out, msleep, and round again.
Store_one_iteration(t) ==
  /\ at[t] = "store"
  /\ cnt' = seen[t] + 1
  /\ line' = [line EXCEPT ![t] = @ + 1]
  /\ at' = [at EXCEPT ![t] = "idle"]
  /\ UNCHANGED <<mod, irqOn, i, queue, seen>>

Store(t) ==
  /\ at[t] = "store"
  /\ cnt' = seen[t] + 1
  /\ line' = [line EXCEPT ![t] = @ + 1]
  /\ at' = [at EXCEPT ![t] = IF line[t] + 1 < Lines THEN "load" ELSE "idle"]
  /\ UNCHANGED <<mod, irqOn, i, queue, seen>>

work_main(t, workers) == StartWork(t, workers) \/ Load(t) \/ Store(t)

-----------------------------------------------------------------------------
KeyTypeOK ==
  /\ mod \in {"unloaded", "init", "live", "exit", "oops"}
  /\ irqOn \in BOOLEAN
  /\ i \in 0..NUM
  /\ queue \in Seq(Items)
  /\ at \in [Items -> {"idle", "load", "store"}]
  /\ line \in [Items -> 0..Lines]
  /\ seen \in [Items -> Nat]
  /\ cnt \in Nat
=============================================================================

----------------------------- MODULE SyncDrivers -----------------------------
(***************************************************************************)
(* The three locked drivers of document/sync together: whichever is        *)
(* loaded, processes open, write and close its device, and it is unloaded  *)
(* and another one loaded.  The processors are modelled only while the     *)
(* spinlock driver is loaded; the other two locks are about sleeping.      *)
(***************************************************************************)
EXTENDS Mutex, Spinlock, Semaphore

lockVars == <<owner, tickets, onCpu, count, waiters>>
vars == <<mod, fds, lock, pc, cnt, block, owner, tickets, onCpu, count, waiters>>

Init ==
  /\ CounterInit
  /\ owner = {}
  /\ tickets = <<>> /\ onCpu = {}
  /\ count = Permits /\ waiters = <<>>

\* my_misc_init: mutex_init, spin_lock_init or sema_init, then misc_register.
my_misc_init ==
  /\ LoadModule
  /\ owner' = {}
  /\ tickets' = <<>> /\ onCpu' = {}
  /\ count' = Permits /\ waiters' = <<>>

\* Whether p executes now.
Running(p) == lock = "spinlock" => p \in onCpu

\* What a process does on its own once it is inside write.
MutexStep(p) ==
  /\ lock = "mutex"
  /\ \/ mutex_lock(p) \/ mutex_unlock(p)
     \/ (Load(p) \/ Store(p)) /\ UNCHANGED owner
  /\ UNCHANGED <<tickets, onCpu, count, waiters>>

SpinStep(p) ==
  /\ lock = "spinlock"
  /\ p \in onCpu
  /\ spin_lock(p) \/ spin_acquire(p) \/ SpinLoop(p) \/ spin_unlock(p)
  /\ UNCHANGED <<owner, count, waiters>>

SemaphoreStep(p) ==
  /\ lock = "semaphore"
  /\ \/ down(p) \/ up(p)
     \/ (Load(p) \/ Store(p)) /\ UNCHANGED <<count, waiters>>
  /\ UNCHANGED <<owner, tickets, onCpu>>

WriteStep(p) ==
  \/ Running(p) /\ CopyFromUser(p) /\ UNCHANGED lockVars
  \/ MutexStep(p) \/ SpinStep(p) \/ SemaphoreStep(p)

\* What the users decide: load, unload, open, close, call write.
UserStep ==
  /\ UNCHANGED lockVars
  /\ \/ my_misc_init_register \/ my_misc_exit
     \/ \E p \in Proc :
          /\ Running(p)
          /\ my_misc_open(p) \/ my_misc_release(p) \/ my_misc_write(p)

\* The scheduler puts p on a processor.
Schedule(p) ==
  /\ lock = "spinlock"
  /\ Dispatch(p)
  /\ UNCHANGED <<owner, count, waiters>>

Next ==
  \/ my_misc_init \/ UserStep
  \/ \E p \in Proc : WriteStep(p) \/ Schedule(p)

Spec == Init /\ [][Next]_vars

\* Fairness: the scheduler runs every process that is inside the kernel and not
\* blocked, and msleep ends.  With the spinlock driver, a process that could get
\* a processor again and again gets one, and one that is on a processor again
\* and again gets through its code.  Users promise nothing.
FairSpec ==
  /\ Spec
  /\ \A p \in Proc :
       /\ WF_vars(lock # "spinlock" /\ WriteStep(p))
       /\ SF_vars(lock = "spinlock" /\ WriteStep(p))
       /\ SF_vars(Schedule(p))

-----------------------------------------------------------------------------
TypeOK ==
  /\ CounterTypeOK
  /\ owner \in SUBSET Proc
  /\ tickets \in Seq(Proc)
  /\ onCpu \in SUBSET Proc
  /\ count \in 0..Permits
  /\ waiters \in Seq(Proc)

\* The process in the critical section is the owner of the mutex, or is at the
\* head of the spinlock's queue; so there is one at most, and nobody who left
\* still owns or queues for a lock.
Exclusive ==
  /\ lock = "mutex" => owner = {p \in Proc : InSection(p)}
  /\ lock = "spinlock" =>
       \A p \in Proc :
         /\ InSection(p) => tickets # <<>> /\ Head(tickets) = p
         /\ ~Preemptible(p) <=> \E i \in 1..Len(tickets) : tickets[i] = p
  /\ Serial => OneOwner

\* A process that spins for the spinlock or holds it is on a processor: the
\* holder never leaves its processor to the ones that spin for it.
AtomicOnCpu ==
  lock = "spinlock" => \A p \in Proc : ~Preemptible(p) => p \in onCpu

Holders == {p \in Proc : InSection(p)}

\* A permit of the semaphore is either free or with one writer in the section;
\* none is lost or made, through every hand-over, fault and close.
PermitConservation == lock = "semaphore" => count + Cardinality(Holders) = Permits

\* A writer sleeps in down only while all permits are out.
NoNeedlessSleep ==
  lock = "semaphore" /\ waiters # <<>> => Cardinality(Holders) = Permits

\* With more than one permit increments are lost, but not all of them: when
\* nobody is in write, and some write has got through since insmod, the counter
\* is at least 2 (if the loop has two iterations), however many writes there
\* were.
SomeWritten == \E p \in Proc : pc[p] = "user" /\ block[p] # <<>>
QuiescentCount ==
  (SomeWritten /\ \A p \in Proc : pc[p] = "user") => cnt >= 2

\* No write starves on the spinlock or on the semaphore, which are first come,
\* first served: each one returns.
EveryWriteReturns ==
  \A p \in Proc : lock # "mutex" /\ pc[p] # "user" ~> pc[p] = "user"

\* Nobody waits for a mutex that its owner keeps, although the owner sleeps while
\* it owns it: the mutex becomes free.
WaiterServed ==
  \A p \in Proc : lock = "mutex" /\ pc[p] = "lock" ~> owner = {}
=============================================================================

--------------------------- MODULE CounterDevice ---------------------------
(***************************************************************************)
(* What document/sync/{mutex,spinlock,semaphore}/test.c have in common: a  *)
(* misc device whose write handler prints a counter Lines times and        *)
(* increments it each time.  The counter is a static variable shared by    *)
(* all writers, and ++ is a load and a store.  Mutex, Spinlock and         *)
(* Semaphore add the locks around the loop, SyncDrivers composes them.     *)
(***************************************************************************)
EXTENDS MiscModule, Sequences

CONSTANTS
  Lines,      \* iterations of the loop (3 in the code)
  MaxCount,   \* bound: no write starts once the counter is this high
  Permits     \* the argument of sema_init (2 in the code, 1 in a comment)

ASSUME CounterAssumption ==
  Lines \in Nat \ {0} /\ MaxCount \in Nat /\ Permits \in Nat \ {0}

VARIABLES
  lock,    \* which of the three drivers is, or was last, loaded
  pc,      \* where each process is; "user" when it is not in write
  cnt,     \* static int cnt
  block    \* the numbers each process's current or last write prints

counterVars == <<lock, pc, cnt, block>>

Locks == {"mutex", "spinlock", "semaphore"}

\* One writer at a time is in the loop; not with a semaphore of more permits.
Serial == lock = "semaphore" => Permits = 1

Nothing == [p \in Proc |-> <<>>]

\* Where a process holds the lock, in each of the three drivers.
Section == {"load", "store", "unlock"}
InSection(p) == pc[p] \in Section

\* .owner = THIS_MODULE: an open file pins the module.
fops_owner_unset == FALSE
misc_fops_owner == TRUE

CounterInit ==
  /\ MiscInit
  /\ lock \in Locks
  /\ pc = [p \in Proc |-> "user"]
  /\ cnt = 0
  /\ block = Nothing

-----------------------------------------------------------------------------
\* insmod of one of the drivers, up to misc_register: the static counter starts
\* at 0.  They all register the misc device "my_misc", so there is one at a time.
LoadModule ==
  /\ Insmod
  /\ lock' \in Locks
  /\ cnt' = 0
  /\ block' = Nothing
  /\ UNCHANGED pc

my_misc_init_register ==
  /\ MiscRegister \/ MiscRegisterFails
  /\ UNCHANGED counterVars

my_misc_exit ==
  /\ Rmmod(misc_fops_owner /\ fds # {})
  /\ UNCHANGED counterVars

my_misc_open(p) ==
  /\ FileOpen(p)
  /\ UNCHANGED counterVars

\* A process closes its file when it is not inside a call on it.
my_misc_release(p) ==
  /\ pc[p] = "user"
  /\ FileClose(p)
  /\ UNCHANGED counterVars

my_misc_write(p) ==
  /\ p \in fds
  /\ pc[p] = "user"
  /\ cnt < MaxCount
  /\ pc' = [pc EXCEPT ![p] = "copy"]
  /\ block' = [block EXCEPT ![p] = <<>>]
  /\ UNCHANGED <<mod, fds, lock, cnt>>

\* copy_from_user succeeds, or faults and the write returns -EFAULT before it
\* has taken the lock.
CopyFromUser(p) ==
  /\ pc[p] = "copy"
  /\ pc' \in {[pc EXCEPT ![p] = "lock"], [pc EXCEPT ![p] = "user"]}
  /\ UNCHANGED <<mod, fds, lock, cnt, block>>

\* printk("count = %d", cnt++): the load of the number that is printed ...
Load(p) ==
  /\ pc[p] = "load"
  /\ block' = [block EXCEPT ![p] = Append(@, cnt)]
  /\ pc' = [pc EXCEPT ![p] = "store"]
  /\ UNCHANGED <<mod, fds, lock, cnt>>

\* ... and the store of its successor, after which the loop ends or goes round.
Store_long_loop(p) ==
  /\ pc[p] = "store"
  /\ cnt' = block[p][Len(block[p])] + 1
  /\ pc' = [pc EXCEPT ![p] = IF Len(block[p]) <= Lines THEN "load" ELSE "unlock"]
  /\ UNCHANGED <<mod, fds, lock, block>>

Store_one_iteration(p) ==
  /\ pc[p] = "store"
  /\ cnt' = block[p][Len(block[p])] + 1
  /\ pc' = [pc EXCEPT ![p] = "unlock"]
  /\ UNCHANGED <<mod, fds, lock, block>>

Store(p) ==
  /\ pc[p] = "store"
  /\ cnt' = block[p][Len(block[p])] + 1
  /\ pc' = [pc EXCEPT ![p] = IF Len(block[p]) < Lines THEN "load" ELSE "unlock"]
  /\ UNCHANGED <<mod, fds, lock, block>>

-----------------------------------------------------------------------------
CounterTypeOK ==
  /\ MiscTypeOK
  /\ lock \in Locks
  /\ pc \in [Proc -> {"user", "copy", "lock", "wait"} \cup Section]
  /\ cnt \in Nat
  /\ block \in [Proc -> Seq(Nat)]
  /\ \A p \in Proc : Len(block[p]) <= Lines

\* The module is live while a process runs its write handler, or sleeps in it.
UnloadSafe == \A p \in Proc : pc[p] # "user" => mod = "live"

\* At most one process is in the loop.
OneOwner == \A p, q \in Proc : InSection(p) /\ InSection(q) => p = q

\* The writes are indivisible blocks of consecutive numbers: whatever the
\* interleaving of the load and store steps, the drivers with a mutex, with a
\* spinlock and with a semaphore of one permit implement BlockCounter.  The
\* writer in its critical section has not taken its block yet; it takes it when
\* it unlocks.
Stored(p) == Len(block[p]) - (IF pc[p] = "store" THEN 1 ELSE 0)
Untaken ==
  IF \E p \in Proc : InSection(p) THEN Stored(CHOOSE p \in Proc : InSection(p)) ELSE 0

Counter == INSTANCE BlockCounter WITH
  next   <- IF Serial THEN cnt - Untaken ELSE 0,
  result <- [p \in Proc |-> IF Serial /\ pc[p] = "user" THEN block[p] ELSE <<>>]
BlockCounterSpec == Counter!Spec
=============================================================================

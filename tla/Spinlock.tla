------------------------------ MODULE Spinlock ------------------------------
(***************************************************************************)
(* document/sync/spinlock/test.c: the loop that prints the counter runs    *)
(* under a spinlock.  A spinlock is about processors: a process takes a    *)
(* step only on a processor, and from spin_lock to spin_unlock it cannot   *)
(* be preempted.                                                           *)
(***************************************************************************)
EXTENDS CounterDevice

CONSTANT NCpu

ASSUME NCpuAssumption == NCpu \in Nat \ {0}

VARIABLES
  tickets,   \* test_t.lock: who came for it, in order; the head may own it
  onCpu      \* the processes that are on a processor

\* spin_lock and spin_unlock bracket the region without preemption.
Preemptible(p) == pc[p] \notin {"wait"} \cup Section

\* The scheduler puts p on an idle processor, or in the place of a process
\* that can be preempted.
Dispatch(p) ==
  /\ p \notin onCpu
  /\ \/ Cardinality(onCpu) < NCpu /\ onCpu' = onCpu \cup {p}
     \/ \E q \in onCpu : Preemptible(q) /\ onCpu' = (onCpu \ {q}) \cup {p}
  /\ UNCHANGED <<mod, fds, lock, pc, cnt, block, tickets>>

\* spin_lock: disable preemption, queue up, spin ...
spin_lock(p) ==
  /\ pc[p] = "lock"
  /\ tickets' = Append(tickets, p)
  /\ pc' = [pc EXCEPT ![p] = "wait"]
  /\ UNCHANGED <<mod, fds, lock, cnt, block, onCpu>>

\* ... until it is this process's turn.
spin_acquire_no_wait(p) ==
  /\ pc[p] = "wait"
  /\ pc' = [pc EXCEPT ![p] = "load"]
  /\ UNCHANGED <<mod, fds, lock, cnt, block, tickets, onCpu>>

spin_acquire(p) ==
  /\ pc[p] = "wait"
  /\ Head(tickets) = p
  /\ pc' = [pc EXCEPT ![p] = "load"]
  /\ UNCHANGED <<mod, fds, lock, cnt, block, tickets, onCpu>>

\* spin_unlock: let the next one in, enable preemption; the write returns.
spin_unlock(p) ==
  /\ pc[p] = "unlock"
  /\ tickets' = Tail(tickets)
  /\ pc' = [pc EXCEPT ![p] = "user"]
  /\ UNCHANGED <<mod, fds, lock, cnt, block, onCpu>>

\* The loop under the spinlock.  The other two drivers msleep here, which would
\* take the process off its processor.
SpinLoop_msleep(p) ==
  /\ Load(p) \/ Store(p)
  /\ onCpu' = IF pc[p] = "store" THEN onCpu \ {p} ELSE onCpu
  /\ UNCHANGED tickets

SpinLoop(p) ==
  /\ Load(p) \/ Store(p)
  /\ UNCHANGED <<tickets, onCpu>>
=============================================================================

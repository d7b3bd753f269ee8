-------------------------------- MODULE Mutex --------------------------------
(***************************************************************************)
(* document/sync/mutex/test.c: the loop that prints the counter runs under *)
(* a mutex and sleeps 10 ms in each iteration while it holds it.           *)
(***************************************************************************)
EXTENDS CounterDevice

VARIABLE owner   \* who owns test_t.lock: at most one process

\* mutex_lock: sleeps until the mutex is free.  The kernel does not queue
\* strictly: a newcomer may take a free mutex before a woken waiter does.
mutex_lock_none(p) ==
  /\ pc[p] = "lock"
  /\ owner' = {p}
  /\ pc' = [pc EXCEPT ![p] = "load"]
  /\ UNCHANGED <<mod, fds, lock, cnt, block>>

mutex_lock(p) ==
  /\ pc[p] = "lock"
  /\ owner = {}
  /\ owner' = {p}
  /\ pc' = [pc EXCEPT ![p] = "load"]
  /\ UNCHANGED <<mod, fds, lock, cnt, block>>

\* mutex_unlock, and the write returns.
mutex_unlock_missing(p) ==
  /\ pc[p] = "unlock"
  /\ pc' = [pc EXCEPT ![p] = "user"]
  /\ UNCHANGED <<mod, fds, lock, cnt, block, owner>>

mutex_unlock(p) ==
  /\ pc[p] = "unlock"
  /\ owner' = owner \ {p}
  /\ pc' = [pc EXCEPT ![p] = "user"]
  /\ UNCHANGED <<mod, fds, lock, cnt, block>>
=============================================================================

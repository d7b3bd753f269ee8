------------------------------ MODULE Semaphore ------------------------------
(***************************************************************************)
(* document/sync/semaphore/test.c: the loop that prints the counter runs   *)
(* between down and up of a counting semaphore.  The code gives it two     *)
(* permits and keeps sema_init(&test_t.sem, 1) in a comment; Permits is    *)
(* that argument.                                                          *)
(***************************************************************************)
EXTENDS CounterDevice

VARIABLES
  count,    \* permits that nobody has
  waiters   \* who sleeps in down, in order of arrival

\* down: take a permit, or sleep until up hands one over.
down(p) ==
  /\ pc[p] = "lock"
  /\ \/ /\ count > 0
        /\ count' = count - 1
        /\ pc' = [pc EXCEPT ![p] = "load"]
        /\ UNCHANGED waiters
     \/ /\ count = 0
        /\ waiters' = Append(waiters, p)
        /\ pc' = [pc EXCEPT ![p] = "wait"]
        /\ UNCHANGED count
  /\ UNCHANGED <<mod, fds, lock, cnt, block>>

\* up: hand the permit to the first sleeper, or put it back; the write returns.
up_missing(p) ==
  /\ pc[p] = "unlock"
  /\ pc' = [pc EXCEPT ![p] = "user"]
  /\ UNCHANGED <<mod, fds, lock, cnt, block, count, waiters>>

\* Puts the permit back without looking for sleepers.
up_no_wakeup(p) ==
  /\ pc[p] = "unlock"
  /\ count' = count + 1
  /\ pc' = [pc EXCEPT ![p] = "user"]
  /\ UNCHANGED <<mod, fds, lock, cnt, block, waiters>>

up(p) ==
  /\ pc[p] = "unlock"
  /\ \/ /\ waiters = <<>>
        /\ count' = count + 1
        /\ pc' = [pc EXCEPT ![p] = "user"]
        /\ UNCHANGED waiters
     \/ /\ waiters # <<>>
        /\ waiters' = Tail(waiters)
        /\ pc' = [pc EXCEPT ![p] = "user", ![Head(waiters)] = "load"]
        /\ UNCHANGED count
  /\ UNCHANGED <<mod, fds, lock, cnt, block>>
=============================================================================

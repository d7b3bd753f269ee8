--------------------------- MODULE CompletionRead ---------------------------
(***************************************************************************)
(* document/sync/completion/test.c: read blocks in                         *)
(* wait_for_completion_interruptible until some write has called           *)
(* complete_all.  The completion is never re-initialised, so one write     *)
(* lets every read through until the module is reloaded.                   *)
(***************************************************************************)
EXTENDS MiscModule, SequencesExt

CONSTANT UIntMax   \* bound: UINT_MAX, what complete_all stores

ASSUME UIntMaxAssumption == UIntMax \in Nat \ {0}

VARIABLES
  done,      \* test_t.com.done: how many waits it still satisfies
  sleepers,  \* test_t.com.wait: who sleeps on it, in order of arrival
  reader,    \* "user", "asleep" or, woken but not yet running, "woken"
  pending,   \* who has a signal pending
  got,       \* the result of each process's last read
  written    \* history: some write has returned since insmod

comVars == <<done, sleepers, reader, pending, got, written>>
vars == <<mod, fds, done, sleepers, reader, pending, got, written>>

Init ==
  /\ MiscInit
  /\ done = 0
  /\ sleepers = <<>>
  /\ reader = [p \in Proc |-> "user"]
  /\ pending = {}
  /\ got = [p \in Proc |-> "nothing"]
  /\ written = FALSE

fops_owner_unset == FALSE
misc_fops_owner == TRUE

\* my_misc_init: init_completion, then misc_register.
my_misc_init ==
  /\ Insmod
  /\ done' = 0
  /\ sleepers' = <<>>
  /\ written' = FALSE
  /\ got' = [p \in Proc |-> "nothing"]
  /\ UNCHANGED <<reader, pending>>

my_misc_init_register ==
  /\ MiscRegister \/ MiscRegisterFails
  /\ UNCHANGED comVars

my_misc_exit ==
  /\ Rmmod(misc_fops_owner /\ fds # {})
  /\ UNCHANGED comVars

my_misc_open(p) ==
  /\ FileOpen(p)
  /\ UNCHANGED comVars

my_misc_release(p) ==
  /\ reader[p] = "user"
  /\ FileClose(p)
  /\ UNCHANGED comVars

-----------------------------------------------------------------------------
\* A wait is satisfied: it uses one up, unless complete_all satisfied them all.
Consume == done' = IF done = UIntMax THEN done ELSE done - 1

Return(p, result) ==
  /\ reader' = [reader EXCEPT ![p] = "user"]
  /\ got' = [got EXCEPT ![p] = result]
  /\ pending' = pending \ {p}    \* a signal is delivered on the way out

Sleep(p) ==
  /\ sleepers' = Append(sleepers, p)
  /\ reader' = [reader EXCEPT ![p] = "asleep"]

\* my_misc_read, and what a woken reader does: go through if done says so,
\* give up on a signal, or (back) to sleep.
TryWait(p) ==
  \/ /\ done > 0
     /\ Consume
     /\ Return(p, "data")
     /\ UNCHANGED <<mod, fds, sleepers, written>>
  \/ /\ done = 0 /\ p \in pending
     /\ Return(p, "ERESTARTSYS")
     /\ UNCHANGED <<mod, fds, done, sleepers, written>>
  \/ /\ done = 0 /\ p \notin pending
     /\ Sleep(p)
     /\ UNCHANGED <<mod, fds, done, pending, got, written>>

my_misc_read(p) ==
  /\ p \in fds
  /\ reader[p] = "user"
  /\ TryWait(p)

\* Ignores the result of the interruptible wait.
TryWait_unchecked(p) ==
  /\ done = 0 /\ p \in pending
  /\ Return(p, "data")
  /\ UNCHANGED <<mod, fds, done, sleepers, written>>

ReadResume_unchecked(p) ==
  /\ reader[p] = "woken"
  /\ TryWait(p) \/ TryWait_unchecked(p)

ReadResume(p) ==
  /\ reader[p] = "woken"
  /\ TryWait(p)

\* A signal wakes a sleeper; it leaves the queue.
Signal(p) ==
  /\ reader[p] # "user"
  /\ p \notin pending
  /\ pending' = pending \cup {p}
  /\ reader' = [reader EXCEPT ![p] = "woken"]
  /\ \/ \E k \in 1..Len(sleepers) : sleepers[k] = p /\ sleepers' = RemoveAt(sleepers, k)
     \/ p \notin Range(sleepers) /\ UNCHANGED sleepers
  /\ UNCHANGED <<mod, fds, done, got, written>>

\* The call the driver has in a comment: complete() wakes one reader.
my_misc_write_complete(p) ==
  /\ p \in fds
  /\ reader[p] = "user"
  /\ done' = IF done = UIntMax THEN done ELSE done + 1
  /\ IF sleepers = <<>>
     THEN UNCHANGED <<sleepers, reader>>
     ELSE /\ sleepers' = Tail(sleepers)
          /\ reader' = [reader EXCEPT ![Head(sleepers)] = "woken"]
  /\ written' = TRUE
  /\ UNCHANGED <<mod, fds, pending, got>>

\* my_misc_write: complete_all, which wakes everybody in the queue.
my_misc_write(p) ==
  /\ p \in fds
  /\ reader[p] = "user"
  /\ done' = UIntMax
  /\ sleepers' = <<>>
  /\ reader' = [q \in Proc |-> IF q \in Range(sleepers) THEN "woken" ELSE reader[q]]
  /\ written' = TRUE
  /\ UNCHANGED <<mod, fds, pending, got>>

UserStep ==
  \/ my_misc_init \/ my_misc_init_register \/ my_misc_exit
  \/ \E p \in Proc :
       \/ my_misc_open(p) \/ my_misc_release(p)
       \/ my_misc_read(p) \/ my_misc_write(p) \/ Signal(p)

Next == UserStep \/ \E p \in Proc : ReadResume(p)

Spec == Init /\ [][Next]_vars

\* Fairness: a woken process gets to run.  Nobody promises to write.
FairSpec == Spec /\ \A p \in Proc : WF_vars(ReadResume(p))

-----------------------------------------------------------------------------
TypeOK ==
  /\ MiscTypeOK
  /\ done \in {0, UIntMax}
  /\ sleepers \in Seq(Proc)
  /\ reader \in [Proc -> {"user", "asleep", "woken"}]
  /\ pending \in SUBSET Proc
  /\ got \in [Proc -> {"nothing", "data", "ERESTARTSYS"}]
  /\ written \in BOOLEAN

\* "A must wait until B has done its part" (sync/README.md:149): a read that
\* returns data does so after a write, whatever wakes it in between.
ReadAfterWrite == \A p \in Proc : got[p] = "data" => written

\* The broadcast reaches everybody: once there has been a write no reader is
\* asleep, not even one that began to read later.
NobodyAsleepAfterWrite == written => \A p \in Proc : reader[p] # "asleep"

\* The module is live while a process is in read.
UnloadSafe == \A p \in Proc : reader[p] # "user" => mod = "live"

\* Every read that is under way when there has been a write returns.
ReleasedByWrite == \A p \in Proc : written /\ reader[p] # "user" ~> reader[p] = "user"
=============================================================================

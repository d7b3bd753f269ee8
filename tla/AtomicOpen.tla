----------------------------- MODULE AtomicOpen -----------------------------
(***************************************************************************)
(* document/sync/atomic/test.c: a misc device that one process at a time   *)
(* may open.  my_misc_open takes the device with atomic_dec_and_test and,  *)
(* when that fails, gives its decrement back in a second step before it    *)
(* returns -EAGAIN.                                                        *)
(***************************************************************************)
EXTENDS MiscModule

CONSTANT SerialOpen   \* TRUE: the misc core calls open under its own mutex

ASSUME SerialOpenAssumption == SerialOpen \in BOOLEAN

VARIABLES
  v,      \* the atomic_t of test_t; meaningless while the module is unloaded
  undo    \* processes between a failed atomic_dec_and_test and atomic_inc

vars == <<mod, fds, v, undo>>

Init ==
  /\ MiscInit
  /\ v = 0
  /\ undo = {}

\* .owner = THIS_MODULE: a process in open, or with an open file, pins the
\* module.
misc_fops_owner == TRUE

Pinned == misc_fops_owner /\ fds \cup undo # {}

-----------------------------------------------------------------------------
\* my_misc_init: atomic_set(&v, 1), then misc_register, whose error is returned.
my_misc_init_unset ==
  /\ Insmod
  /\ v' = 0
  /\ UNCHANGED undo

my_misc_init ==
  /\ Insmod
  /\ v' = 1
  /\ UNCHANGED undo

my_misc_init_register ==
  /\ MiscRegister \/ MiscRegisterFails
  /\ UNCHANGED <<v, undo>>

\* my_misc_open up to and including atomic_dec_and_test.
OpenCall(p) ==
  /\ mod = "live"
  /\ p \notin fds \cup undo
  /\ SerialOpen => undo = {}

\* Accepts every result that is not positive: atomic_dec_return(&v) <= 0.
my_misc_open_le(p) ==
  /\ OpenCall(p)
  /\ v' = v - 1
  /\ \/ v' <= 0 /\ FileOpen(p) /\ UNCHANGED undo
     \/ v' > 0 /\ undo' = undo \cup {p} /\ UNCHANGED miscVars

my_misc_open(p) ==
  /\ OpenCall(p)
  /\ v' = v - 1
  /\ \/ v' = 0 /\ FileOpen(p) /\ UNCHANGED undo
     \/ v' # 0 /\ undo' = undo \cup {p} /\ UNCHANGED miscVars

\* The rest of a failed open: atomic_inc, return -EAGAIN.
my_misc_open_fail_no_inc(p) ==
  /\ p \in undo
  /\ undo' = undo \ {p}
  /\ UNCHANGED <<mod, fds, v>>

my_misc_open_fail_inc_twice(p) ==
  /\ p \in undo
  /\ v' = v + 2
  /\ undo' = undo \ {p}
  /\ UNCHANGED miscVars

my_misc_open_fail(p) ==
  /\ p \in undo
  /\ v' = v + 1
  /\ undo' = undo \ {p}
  /\ UNCHANGED miscVars

my_misc_release(p) ==
  /\ FileClose(p)
  /\ v' = v + 1
  /\ UNCHANGED undo

\* my_misc_exit: misc_deregister.
my_misc_exit ==
  /\ Rmmod(Pinned)
  /\ UNCHANGED <<v, undo>>

Next ==
  \/ my_misc_init \/ my_misc_init_register \/ my_misc_exit
  \/ \E p \in Proc :
       my_misc_open(p) \/ my_misc_open_fail(p) \/ my_misc_release(p)

Spec == Init /\ [][Next]_vars

-----------------------------------------------------------------------------
TypeOK ==
  /\ MiscTypeOK
  /\ v \in Int /\ v <= 1
  /\ undo \in SUBSET Proc

\* At most one process has the device open, however opens, failed opens and
\* closes interleave.
Exclusive == \A p, q \in fds : p = q

\* The counter is exactly what the open file and the decrements not yet given
\* back account for, so it is 1 again, and the device can be opened again,
\* whenever the driver is idle: no failed open and no close leaks a unit.
CountBalance ==
  mod # "unloaded" => v = 1 - Cardinality(fds) - Cardinality(undo)

\* While a process is inside open or has the device open, the module is live:
\* rmmod never takes the handlers away under a caller.
UnloadSafe == fds \cup undo # {} => mod = "live"

\* When the misc core serialises opens, the driver is an exclusive-open
\* device: besides exclusion, a process gets -EAGAIN only if another had the
\* device open when it asked.  Without the core's mutex two opens of a free
\* device could refuse each other.
Device == INSTANCE ExclusiveDevice WITH holders <- fds, refused <- undo
ExclusiveDeviceSpec == Device!Spec
=============================================================================

----------------------------- MODULE MiscModule -----------------------------
(***************************************************************************)
(* The part of the kernel that surrounds one misc-device module of         *)
(* document/sync: the module loader (insmod, rmmod), the misc core and the *)
(* VFS file table.  None of it is in this repository; it is what the       *)
(* drivers' module_init, module_exit and file_operations rely on.          *)
(* A driver's own module EXTENDS this one and conjoins its handlers to     *)
(* these operators.                                                        *)
(***************************************************************************)
EXTENDS Integers, FiniteSets

CONSTANT Proc    \* the user processes (test.sh starts two of them)

ASSUME ProcAssumption == IsFiniteSet(Proc)

VARIABLES
  mod,    \* the loader's view of the module
  fds     \* the processes that hold an open file of the device

miscVars == <<mod, fds>>

MiscTypeOK ==
  /\ mod \in {"unloaded", "coming", "live"}
  /\ fds \in SUBSET Proc

MiscInit ==
  /\ mod = "unloaded"
  /\ fds = {}

\* insmod: the loader zeroes the module's statics and calls its init function.
Insmod ==
  /\ mod = "unloaded"
  /\ mod' = "coming"
  /\ UNCHANGED fds

\* misc_register succeeds and init returns 0: the device can now be opened.
MiscRegister ==
  /\ mod = "coming"
  /\ mod' = "live"
  /\ UNCHANGED fds

\* misc_register fails: init returns its error and the loader drops the module.
MiscRegisterFails ==
  /\ mod = "coming"
  /\ mod' = "unloaded"
  /\ UNCHANGED fds

\* rmmod: refused while the module is pinned, otherwise the exit function runs.
\* Opens are refused from the moment the loader commits, so the exit function
\* and the unloading are one step.
Rmmod(pinned) ==
  /\ mod = "live"
  /\ ~pinned
  /\ mod' = "unloaded"
  /\ UNCHANGED fds

\* A file of the device is opened, or closed by the one process that holds it.
FileOpen(p) ==
  /\ mod = "live"
  /\ p \notin fds
  /\ fds' = fds \cup {p}
  /\ UNCHANGED mod

FileClose(p) ==
  /\ p \in fds
  /\ fds' = fds \ {p}
  /\ UNCHANGED mod
=============================================================================

-------------------------- MODULE ExclusiveDevice ---------------------------
(***************************************************************************)
(* What an exclusive-open device promises: one process at a time gets it,  *)
(* and a process is told "busy" only at a moment when somebody has it.     *)
(***************************************************************************)
CONSTANT Proc

VARIABLES
  holders,   \* who has the device
  refused    \* who has been refused and has not yet been told so

vars == <<holders, refused>>

Init ==
  /\ holders = {}
  /\ refused = {}

Grant(p) ==
  /\ holders = {}
  /\ p \notin refused
  /\ holders' = {p}
  /\ UNCHANGED refused

Refuse(p) ==
  /\ holders # {}
  /\ p \notin holders
  /\ refused' = refused \cup {p}
  /\ UNCHANGED holders

\* The refused process returns to its caller with the error.
TellBusy(p) ==
  /\ p \in refused
  /\ refused' = refused \ {p}
  /\ UNCHANGED holders

Release(p) ==
  /\ p \in holders
  /\ holders' = {}
  /\ UNCHANGED refused

Next ==
  \E p \in Proc : Grant(p) \/ Refuse(p) \/ TellBusy(p) \/ Release(p)

Spec == Init /\ [][Next]_vars
=============================================================================

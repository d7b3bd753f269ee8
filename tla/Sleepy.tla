------------------------------- MODULE Sleepy -------------------------------
(***************************************************************************)
(* document/chardev/sleepy.c: sleepy_read waits on a wait queue until flag *)
(* is not 0 and clears it, sleepy_write sets it and wakes the queue.  Flag *)
(* and queue are shared with no lock, so every access is a step.           *)
(* wait_event_interruptible is modelled from the way it is used at line 32.*)
(***************************************************************************)
EXTENDS Integers

CONSTANT Proc   \* the processes that have the device open

VARIABLES
  pc,         \* where each process is; "user" when in no call
  flag,
  wq,         \* the wait queue: who a wake-up would wake
  signalled   \* who has a signal pending

vars == <<pc, flag, wq, signalled>>

Init ==
  /\ pc = [p \in Proc |-> "user"]
  /\ flag = 0
  /\ wq = {}
  /\ signalled = {}

Goto(p, there) == pc' = [pc EXCEPT ![p] = there]

-----------------------------------------------------------------------------
\* sleepy_read is called and evaluates the condition a first time.
sleepy_read(p) ==
  /\ pc[p] = "user"
  /\ Goto(p, IF flag # 0 THEN "clear" ELSE "prepare")
  /\ UNCHANGED <<flag, wq, signalled>>

\* wait_event: join the queue, only then test the condition again ...
PrepareToWait(p) ==
  /\ pc[p] = "prepare"
  /\ wq' = wq \cup {p}
  /\ Goto(p, "recheck")
  /\ UNCHANGED <<flag, signalled>>

\* ... and leave because it holds, leave because of a signal, or sleep.
Recheck(p) ==
  /\ pc[p] = "recheck"
  /\ \/ (flag # 0 \/ p \in signalled) /\ wq' = wq \ {p} /\ Goto(p, "clear")
     \/ flag = 0 /\ p \notin signalled /\ UNCHANGED wq /\ Goto(p, "sleep")
  /\ UNCHANGED <<flag, signalled>>

\* A wake-up takes the sleeper off the queue; it loops.  So it does on a signal.
Awake(p) ==
  /\ pc[p] = "sleep"
  /\ p \notin wq \/ p \in signalled
  /\ Goto(p, "prepare")
  /\ UNCHANGED <<flag, wq, signalled>>

\* The rest of sleepy_read, whatever wait_event_interruptible returned:
\* flag = 0, "awoken", return.
ClearFlag_missing(p) ==
  /\ pc[p] = "clear"
  /\ signalled' = signalled \ {p}
  /\ Goto(p, "user")
  /\ UNCHANGED <<flag, wq>>

ClearFlag(p) ==
  /\ pc[p] = "clear"
  /\ flag' = 0
  /\ signalled' = signalled \ {p}
  /\ Goto(p, "user")
  /\ UNCHANGED wq

Signal(p) ==
  /\ pc[p] \in {"prepare", "recheck", "sleep"}
  /\ signalled' = signalled \cup {p}
  /\ UNCHANGED <<pc, flag, wq>>

-----------------------------------------------------------------------------
\* sleepy_write: flag = 1, then wake_up_interruptible(&wq).
sleepy_write_wake_first(p) ==
  \/ /\ pc[p] = "user"
     /\ wq' = {}
     /\ Goto(p, "wake")
     /\ UNCHANGED <<flag, signalled>>
  \/ /\ pc[p] = "wake"
     /\ flag' = 1
     /\ Goto(p, "user")
     /\ UNCHANGED <<wq, signalled>>

sleepy_write_increments(p) ==
  \/ /\ pc[p] = "user"
     /\ flag' = IF flag = 2 THEN flag ELSE flag + 1
     /\ Goto(p, "wake")
     /\ UNCHANGED <<wq, signalled>>
  \/ /\ pc[p] = "wake"
     /\ wq' = {}
     /\ Goto(p, "user")
     /\ UNCHANGED <<flag, signalled>>

sleepy_write(p) ==
  \/ /\ pc[p] = "user"
     /\ flag' = 1
     /\ Goto(p, "wake")
     /\ UNCHANGED <<wq, signalled>>
  \/ /\ pc[p] = "wake"
     /\ wq' = {}
     /\ Goto(p, "user")
     /\ UNCHANGED <<flag, signalled>>

ReadStep(p) == PrepareToWait(p) \/ Recheck(p) \/ Awake(p) \/ ClearFlag(p)

Next ==
  \E p \in Proc : sleepy_read(p) \/ ReadStep(p) \/ Signal(p) \/ sleepy_write(p)

Spec == Init /\ [][Next]_vars

\* Fairness: the scheduler runs a process that is in a call and not asleep.
\* Nobody promises to call read or write, nor to send a signal.
FairSpec ==
  Spec /\ \A p \in Proc :
    WF_vars(ReadStep(p)) /\ WF_vars(pc[p] = "wake" /\ sleepy_write(p))

-----------------------------------------------------------------------------
TypeOK ==
  /\ pc \in [Proc -> {"user", "prepare", "recheck", "sleep", "clear", "wake"}]
  /\ flag \in {0, 1}
  /\ wq \in SUBSET Proc
  /\ signalled \in SUBSET Proc

\* No lost wake-up: while the flag is up, a reader is asleep in the queue only
\* if some writer has yet to wake the queue, however the unlocked accesses to
\* flag and queue interleave.
NoLostWakeup ==
  flag = 1 /\ (\E p \in wq : pc[p] = "sleep") => \E q \in Proc : pc[q] = "wake"

\* A flag that is raised while somebody reads is taken by a reader: of several
\* readers, one gets through for each write that finds the flag down.
FlagTaken ==
  (flag = 1 /\ \E p \in Proc : pc[p] \in {"prepare", "recheck", "sleep", "clear"})
    ~> flag = 0

\* The comment at sleepy.c:28: woken up when flag != 0.  A reader gets past
\* the wait only at a moment when the flag is up.
WokenByFlag ==
  [][\A p \in Proc : pc[p] # "clear" /\ pc'[p] = "clear" => flag # 0]_vars
=============================================================================

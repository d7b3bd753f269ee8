---------------------------- MODULE Sleepy_proofs ----------------------------
(***************************************************************************)
(* For any set of readers and writers, no wake-up of sleepy.c is lost.     *)
(***************************************************************************)
EXTENDS Sleepy, TLAPS

LEMMA InitInv == Init => TypeOK /\ NoLostWakeup
BY DEF Init, TypeOK, NoLostWakeup

LEMMA NextTypeOK == TypeOK /\ [Next]_vars => TypeOK'
BY DEF TypeOK, Next, vars, Goto, sleepy_read, sleepy_write, ReadStep,
       PrepareToWait, Recheck, Awake, ClearFlag, Signal

\* The invariant is inductive: a reader falls asleep only after it has seen the
\* flag down from inside the queue, and a writer raises the flag before it
\* empties the queue.
LEMMA NextNoLostWakeup == TypeOK /\ NoLostWakeup /\ [Next]_vars => NoLostWakeup'
<1> SUFFICES ASSUME TypeOK, NoLostWakeup, [Next]_vars PROVE NoLostWakeup'
  OBVIOUS
<1> USE DEF TypeOK, NoLostWakeup, Goto
<1>1. ASSUME NEW p \in Proc, sleepy_read(p) PROVE NoLostWakeup'
  BY <1>1 DEF sleepy_read
<1>2. ASSUME NEW p \in Proc, PrepareToWait(p) PROVE NoLostWakeup'
  BY <1>2 DEF PrepareToWait
<1>3. ASSUME NEW p \in Proc, Recheck(p) PROVE NoLostWakeup'
  BY <1>3 DEF Recheck
<1>4. ASSUME NEW p \in Proc, Awake(p) PROVE NoLostWakeup'
  BY <1>4 DEF Awake
<1>5. ASSUME NEW p \in Proc, ClearFlag(p) PROVE NoLostWakeup'
  BY <1>5 DEF ClearFlag
<1>6. ASSUME NEW p \in Proc, Signal(p) PROVE NoLostWakeup'
  BY <1>6 DEF Signal
<1>7. ASSUME NEW p \in Proc, sleepy_write(p) PROVE NoLostWakeup'
  BY <1>7 DEF sleepy_write
<1>8. CASE UNCHANGED vars
  BY <1>8 DEF vars
<1> QED
  BY <1>1, <1>2, <1>3, <1>4, <1>5, <1>6, <1>7, <1>8 DEF Next, ReadStep

\* Every variable keeps its type: the flag is 0 or 1 whoever writes.
THEOREM TypeCorrect == Spec => []TypeOK
BY InitInv, NextTypeOK, PTL DEF Spec

\* While the flag is up, every sleeper in the queue still has a wake-up coming.
THEOREM WakeupsArrive == Spec => [](TypeOK /\ NoLostWakeup)
BY InitInv, NextTypeOK, NextNoLostWakeup, PTL DEF Spec
=============================================================================

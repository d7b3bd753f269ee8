---------------------------- MODULE BlockCounter ----------------------------
(***************************************************************************)
(* What the locked write handlers of document/sync promise: every write    *)
(* that succeeds prints Lines consecutive numbers, and they continue       *)
(* exactly where the numbers of the write before it ended.                 *)
(***************************************************************************)
EXTENDS Integers

CONSTANTS Proc, Lines

VARIABLES
  next,     \* the first number not printed yet
  result    \* what each process's last write printed; <<>> before and during one

vars == <<next, result>>

Nothing == [p \in Proc |-> <<>>]

Init ==
  /\ next = 0
  /\ result = Nothing

\* A write takes the next block of numbers, in one indivisible step.
Take(p) ==
  /\ result' = [result EXCEPT ![p] = [i \in 1..Lines |-> next + i - 1]]
  /\ next' = next + Lines

\* The process starts another write.
Forget(p) ==
  /\ result' = [result EXCEPT ![p] = <<>>]
  /\ UNCHANGED next

\* The module is loaded again: its counter starts over.
Reset ==
  /\ next' = 0
  /\ result' = Nothing

Next == Reset \/ \E p \in Proc : Take(p) \/ Forget(p)

Spec == Init /\ [][Next]_vars
=============================================================================

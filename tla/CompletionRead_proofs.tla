------------------------ MODULE CompletionRead_proofs ------------------------
(***************************************************************************)
(* The completion device is correct for every number of processes and      *)
(* every width of done.  The invariant ties the wait queue to who sleeps,  *)
(* and done to whether there has been a write.                             *)
(***************************************************************************)
EXTENDS CompletionRead, SequenceTheorems, TLAPS

\* s is a queue of the members of S: each of them once, and nobody else.
Queues(s, S) ==
  /\ s \in Seq(Proc)
  /\ \A i, j \in 1..Len(s) : s[i] = s[j] => i = j
  /\ \A p \in Proc : p \in S <=> \E i \in 1..Len(s) : s[i] = p

Asleep == {p \in Proc : reader[p] = "asleep"}

\* The types of the variables other than the queue.
ValuesOK ==
  /\ MiscTypeOK
  /\ reader \in [Proc -> {"user", "asleep", "woken"}]
  /\ pending \in SUBSET Proc
  /\ got \in [Proc -> {"nothing", "data", "ERESTARTSYS"}]
  /\ written \in BOOLEAN

\* A process in read has the file open, and an open file pins the module.
PinInv ==
  /\ \A p \in Proc : reader[p] # "user" => p \in fds
  /\ fds # {} => mod = "live"

\* complete_all is for good: done never falls again, and nobody goes to sleep.
DoneInv ==
  /\ done = IF written THEN UIntMax ELSE 0
  /\ written => sleepers = <<>>
  /\ ReadAfterWrite

IInv == ValuesOK /\ PinInv /\ DoneInv /\ Queues(sleepers, Asleep)

-----------------------------------------------------------------------------
\* Joining a queue at its end.
LEMMA QueueJoin ==
  ASSUME NEW s, NEW S \in SUBSET Proc, Queues(s, S), NEW p \in Proc, p \notin S
  PROVE  Queues(Append(s, p), S \cup {p})
<1> DEFINE n == Len(s)
           t == Append(s, p)
<1>1. s \in Seq(Proc) /\ n \in Nat
  BY DEF Queues
<1>2. /\ t \in Seq(Proc) /\ Len(t) = n + 1 /\ t[n + 1] = p
      /\ \A i \in 1..n : t[i] = s[i]
  BY <1>1
<1>3. \A i \in 1..Len(t) : i \in 1..n \/ i = n + 1
  BY <1>1, <1>2
<1>4. /\ \A i \in 1..n : s[i] # p
      /\ \A i, j \in 1..n : s[i] = s[j] => i = j
  BY DEF Queues
<1> HIDE DEF t
<1>5. \A i, j \in 1..Len(t) : t[i] = t[j] => i = j
  BY <1>2, <1>3, <1>4
<1>6. ASSUME NEW q \in Proc
      PROVE  q \in S \cup {p} <=> \E i \in 1..Len(t) : t[i] = q
  <2>1. n + 1 \in 1..Len(t) /\ \A i \in 1..n : i \in 1..Len(t)
    BY <1>1, <1>2
  <2>2. q \in S <=> \E i \in 1..n : s[i] = q
    BY DEF Queues
  <2> QED BY <1>2, <1>3, <2>1, <2>2
<1> QED BY <1>2, <1>5, <1>6 DEF Queues, t

\* Leaving a queue from anywhere in it.
LEMMA QueueLeave ==
  ASSUME NEW s, NEW S \in SUBSET Proc, Queues(s, S), NEW k \in 1..Len(s)
  PROVE  Queues(RemoveAt(s, k), S \ {s[k]})
<1> DEFINE n == Len(s)
           t == RemoveAt(s, k)
           old(i) == IF i < k THEN i ELSE i + 1
<1>1. /\ s \in Seq(Proc) /\ n \in Nat /\ k \in Nat /\ 1 <= k /\ k <= n
      /\ \A i, j \in 1..n : s[i] = s[j] => i = j
  BY DEF Queues
<1>2. /\ t \in Seq(Proc) /\ Len(t) = n - 1
      /\ \A i \in 1..n - 1 : t[i] = s[old(i)]
  <2> DEFINE a == SubSeq(s, 1, k - 1)
             b == SubSeq(s, k + 1, n)
  <2>1. a \in Seq(Proc) /\ Len(a) = k - 1 /\ \A i \in 1..k - 1 : a[i] = s[i]
    BY <1>1
  <2>2. b \in Seq(Proc) /\ Len(b) = n - k /\ \A i \in 1..n - k : b[i] = s[k + i]
    BY <1>1
  <2>3. t = a \o b
    BY DEF RemoveAt
  <2> HIDE DEF a, b, t
  <2>4. t \in Seq(Proc) /\ Len(t) = n - 1
    BY <1>1, <2>1, <2>2, <2>3
  <2>5. ASSUME NEW i \in 1..n - 1 PROVE t[i] = s[old(i)]
    <3>1. t[i] = IF i <= Len(a) THEN a[i] ELSE b[i - Len(a)]
      <4>1. i \in 1..Len(a) + Len(b)
        BY <1>1, <2>1, <2>2
      <4> QED BY <2>1, <2>2, <2>3, <4>1, ConcatProperties
    <3>2. CASE i < k
      BY <1>1, <2>1, <3>1, <3>2
    <3>3. CASE i >= k
      <4>1. i - (k - 1) \in 1..n - k /\ k + (i - (k - 1)) = i + 1
        BY <1>1, <3>3
      <4> QED BY <1>1, <2>1, <2>2, <3>1, <3>3, <4>1
    <3> QED BY <1>1, <3>2, <3>3
  <2> QED BY <2>4, <2>5
<1>3. /\ \A i \in 1..n - 1 : old(i) \in 1..n /\ old(i) # k
      /\ \A i, j \in 1..n - 1 : old(i) = old(j) => i = j
      /\ \A j \in 1..n : j # k => \E i \in 1..n - 1 : old(i) = j
  <2>1. ASSUME NEW j \in 1..n, j # k PROVE \E i \in 1..n - 1 : old(i) = j
    <3>1. CASE j < k
      <4>1. j \in 1..n - 1 /\ old(j) = j
        BY <1>1, <3>1
      <4> QED BY <4>1
    <3>2. CASE j > k
      <4>1. j - 1 \in 1..n - 1 /\ old(j - 1) = j
        BY <1>1, <3>2
      <4> QED BY <4>1
    <3> QED BY <1>1, <2>1, <3>1, <3>2
  <2> QED BY <1>1, <2>1
<1> HIDE DEF t, old
<1>4. ASSUME NEW i \in 1..Len(t), NEW j \in 1..Len(t), t[i] = t[j] PROVE i = j
  <2>1. i \in 1..n - 1 /\ j \in 1..n - 1
    BY <1>2
  <2>2. s[old(i)] = s[old(j)]
    BY <1>2, <1>4, <2>1
  <2> QED BY <1>1, <1>3, <2>1, <2>2
<1>5. ASSUME NEW q \in Proc
      PROVE  q \in S \ {s[k]} <=> \E i \in 1..Len(t) : t[i] = q
  <2>1. q \in S <=> \E j \in 1..n : s[j] = q
    BY DEF Queues
  <2>2. ASSUME NEW i \in 1..Len(t), t[i] = q PROVE q \in S /\ q # s[k]
    <3>1. i \in 1..n - 1
      BY <1>2
    <3>2. s[old(i)] = q /\ old(i) \in 1..n /\ old(i) # k
      BY <1>2, <1>3, <2>2, <3>1
    <3> QED BY <1>1, <2>1, <3>2
  <2>3. ASSUME q \in S, q # s[k] PROVE \E i \in 1..Len(t) : t[i] = q
    <3>1. PICK j \in 1..n : s[j] = q
      BY <2>1, <2>3
    <3>2. PICK i \in 1..n - 1 : old(i) = j
      BY <1>3, <2>3, <3>1
    <3> QED BY <1>2, <3>1, <3>2
  <2> QED BY <2>2, <2>3
<1> QED BY <1>2, <1>4, <1>5 DEF Queues, t

-----------------------------------------------------------------------------
LEMMA InitIInv == Init => IInv
<1> SUFFICES ASSUME Init PROVE IInv
  OBVIOUS
<1>1. Asleep = {}
  BY DEF Init, Asleep
<1>2. Queues(sleepers, Asleep)
  BY <1>1 DEF Init, Queues
<1>3. ValuesOK /\ PinInv
  BY DEF Init, MiscInit, ValuesOK, MiscTypeOK, PinInv
<1>4. DoneInv
  BY DEF Init, DoneInv, ReadAfterWrite
<1> QED BY <1>2, <1>3, <1>4 DEF IInv

\* Opening, closing, loading and unloading: nobody is in read when the module is
\* loaded, nor on the way out of its file.
LEMMA ModuleStep ==
  ASSUME IInv,
         \/ my_misc_init \/ my_misc_init_register \/ my_misc_exit
         \/ \E p \in Proc : my_misc_open(p) \/ my_misc_release(p)
  PROVE  IInv'
<1>1. CASE my_misc_init
  <2> USE <1>1 DEF my_misc_init, Insmod, IInv
  <2>1. \A p \in Proc : reader[p] = "user"
    BY DEF PinInv
  <2>2. Asleep' = {}
    BY <2>1 DEF Asleep
  <2>3. Queues(sleepers', Asleep')
    BY <2>2 DEF Queues
  <2> QED BY <2>1, <2>3 DEF ValuesOK, MiscTypeOK, PinInv, DoneInv, ReadAfterWrite
<1>2. CASE \/ my_misc_init_register \/ my_misc_exit
           \/ \E p \in Proc : my_misc_open(p) \/ my_misc_release(p)
  <2>1. UNCHANGED comVars
    BY <1>2 DEF my_misc_init_register, my_misc_exit, my_misc_open, my_misc_release
  <2>2. MiscTypeOK' /\ PinInv'
    <3> USE <2>1 DEF comVars, IInv, ValuesOK, MiscTypeOK, PinInv
    <3>1. CASE my_misc_init_register
      BY <3>1 DEF my_misc_init_register, MiscRegister, MiscRegisterFails
    <3>2. CASE my_misc_exit
      BY <3>2 DEF my_misc_exit, Rmmod, misc_fops_owner
    <3>3. ASSUME NEW p \in Proc, my_misc_open(p) PROVE MiscTypeOK' /\ PinInv'
      BY <3>3 DEF my_misc_open, FileOpen
    <3>4. ASSUME NEW p \in Proc, my_misc_release(p) PROVE MiscTypeOK' /\ PinInv'
      BY <3>4 DEF my_misc_release, FileClose
    <3> QED BY <1>2, <3>1, <3>2, <3>3, <3>4
  <2> QED BY <2>1, <2>2 DEF comVars, IInv, ValuesOK, DoneInv, ReadAfterWrite, Queues, Asleep
<1> QED BY <1>1, <1>2

\* A read that begins, and one that goes on when it was woken.
LEMMA ReadStep ==
  ASSUME IInv, NEW p \in Proc, my_misc_read(p) \/ ReadResume(p)
  PROVE  IInv'
<1>1. /\ TryWait(p) /\ p \in fds /\ p \notin Asleep
      /\ mod' = mod /\ fds' = fds /\ written' = written
  BY DEF my_misc_read, ReadResume, TryWait, IInv, PinInv, Asleep
<1>2. done \in {0, UIntMax} /\ (done > 0 <=> written) /\ (done = 0 <=> ~written)
  BY UIntMaxAssumption DEF IInv, ValuesOK, DoneInv
<1>3. CASE \E result \in {"data", "ERESTARTSYS"} :
             /\ Return(p, result) /\ sleepers' = sleepers /\ done' = done
             /\ result = "data" => written
  <2>1. Asleep' = Asleep
    BY <1>1, <1>3 DEF Return, Asleep, IInv, ValuesOK
  <2> QED BY <1>1, <1>3, <2>1
          DEF Return, IInv, ValuesOK, MiscTypeOK, PinInv, DoneInv, ReadAfterWrite, Queues
<1>4. CASE Sleep(p) /\ ~written /\ UNCHANGED <<done, pending, got>>
  <2>1. Asleep' = Asleep \cup {p} /\ Asleep \in SUBSET Proc
    BY <1>4 DEF Sleep, Asleep, IInv, ValuesOK
  <2>2. Queues(sleepers', Asleep')
    BY <1>1, <1>4, <2>1, QueueJoin DEF Sleep, IInv
  <2> QED BY <1>1, <1>4, <2>2
          DEF Sleep, IInv, ValuesOK, MiscTypeOK, PinInv, DoneInv, ReadAfterWrite
<1>5. done = UIntMax \/ done = 0
  BY <1>2
<1> QED BY <1>1, <1>2, <1>3, <1>4, <1>5 DEF TryWait, Consume

\* A signal takes its process off the queue, if it is there.
LEMMA SignalStep ==
  ASSUME IInv, NEW p \in Proc, Signal(p)
  PROVE  IInv'
<1> USE DEF Signal, IInv
<1>1. Asleep \in SUBSET Proc /\ Asleep' = Asleep \ {p}
  BY DEF Asleep, ValuesOK
<1>2. Queues(sleepers', Asleep')
  <2>1. CASE \E k \in 1..Len(sleepers) : sleepers[k] = p /\ sleepers' = RemoveAt(sleepers, k)
    <3>1. PICK k \in 1..Len(sleepers) :
            sleepers[k] = p /\ sleepers' = RemoveAt(sleepers, k)
      BY <2>1
    <3>2. Queues(RemoveAt(sleepers, k), Asleep \ {sleepers[k]})
      BY <1>1, QueueLeave
    <3> QED BY <1>1, <3>1, <3>2
  <2>2. CASE p \notin Range(sleepers) /\ UNCHANGED sleepers
    <3>1. p \notin Asleep
      BY <2>2, LenProperties DEF Queues, Range
    <3>2. Asleep' = Asleep
      BY <1>1, <3>1
    <3> QED BY <2>2, <3>2
  <2> QED BY <2>1, <2>2
<1>3. written => sleepers' = <<>>
  <2>1. CASE sleepers = <<>>
    BY <2>1, EmptySeq
  <2> QED BY <2>1 DEF DoneInv
<1> QED BY <1>2, <1>3 DEF ValuesOK, MiscTypeOK, PinInv, DoneInv, ReadAfterWrite

\* complete_all wakes the queue, which are all that sleep.
LEMMA WriteStep ==
  ASSUME IInv, NEW p \in Proc, my_misc_write(p)
  PROVE  IInv'
<1> USE DEF my_misc_write, IInv
<1>1. \A q \in Proc : q \in Range(sleepers) <=> reader[q] = "asleep"
  BY LenProperties DEF Queues, Range, Asleep
<1>2. Asleep' = {}
  BY <1>1 DEF Asleep, ValuesOK
<1>3. Queues(sleepers', Asleep')
  BY <1>2 DEF Queues
<1> QED BY <1>1, <1>3 DEF ValuesOK, MiscTypeOK, PinInv, DoneInv, ReadAfterWrite

LEMMA NextIInv == IInv /\ [Next]_vars => IInv'
<1> SUFFICES ASSUME IInv, [Next]_vars PROVE IInv'
  OBVIOUS
<1>1. CASE Next
  BY <1>1, ModuleStep, ReadStep, SignalStep, WriteStep DEF Next, UserStep
<1>2. CASE UNCHANGED vars
  BY <1>2 DEF vars, IInv, ValuesOK, MiscTypeOK, PinInv, DoneInv, ReadAfterWrite, Queues, Asleep
<1> QED BY <1>1, <1>2

LEMMA SpecIInv == Spec => []IInv
BY InitIInv, NextIInv, PTL DEF Spec

-----------------------------------------------------------------------------
\* Every variable of the completion device keeps its type; done is never
\* anything between 0 and UINT_MAX.
THEOREM TypeCorrect == Spec => []TypeOK
<1>1. IInv => TypeOK
  BY DEF IInv, ValuesOK, DoneInv, Queues, TypeOK
<1> QED BY <1>1, SpecIInv, PTL

\* The completion's queue holds every process that sleeps in read once, and
\* nobody else: a wake-up reaches everybody, and no process that has left.
THEOREM QueueOfSleepers == Spec => []Queues(sleepers, Asleep)
<1>1. IInv => Queues(sleepers, Asleep)
  BY DEF IInv
<1> QED BY <1>1, SpecIInv, PTL

\* A read returns data only after a write, whatever signals and wake-ups come.
THEOREM DataAfterWrite == Spec => []ReadAfterWrite
<1>1. IInv => ReadAfterWrite
  BY DEF IInv, DoneInv
<1> QED BY <1>1, SpecIInv, PTL

\* The broadcast of complete_all reaches everybody, also who reads later.
THEOREM BroadcastReachesAll == Spec => []NobodyAsleepAfterWrite
<1>1. IInv => NobodyAsleepAfterWrite
  BY EmptySeq DEF IInv, DoneInv, Queues, Asleep, NobodyAsleepAfterWrite
<1> QED BY <1>1, SpecIInv, PTL

\* The module stays while a process is in its read handler.
THEOREM PinnedByRead == Spec => []UnloadSafe
<1>1. IInv => UnloadSafe
  BY DEF IInv, PinInv, UnloadSafe
<1> QED BY <1>1, SpecIInv, PTL
=============================================================================

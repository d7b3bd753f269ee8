------------------------- MODULE SyncDrivers_proofs -------------------------
(***************************************************************************)
(* The three locked drivers are correct for every number of processes,     *)
(* loop length, number of permits and number of processors.                *)
(***************************************************************************)
EXTENDS SyncDrivers, CounterDevice_proofs, FiniteSetTheorems

\* s is a queue of the members of S: each of them once, and nobody else.
Queues(s, S) ==
  /\ s \in Seq(Proc)
  /\ \A i, j \in 1..Len(s) : s[i] = s[j] => i = j
  /\ \A p \in Proc : p \in S <=> \E i \in 1..Len(s) : s[i] = p

Pinned == {p \in Proc : ~Preemptible(p)}
Asleep == {p \in Proc : pc[p] = "wait"}

LockTypeOK ==
  /\ owner \in SUBSET Proc
  /\ tickets \in Seq(Proc)
  /\ onCpu \in SUBSET Proc
  /\ count \in 0..Permits
  /\ waiters \in Seq(Proc)

MutexInv == lock = "mutex" => owner = Holders

SpinInv ==
  lock = "spinlock" =>
    /\ Queues(tickets, Pinned)
    /\ \A p \in Proc : InSection(p) => tickets # <<>> /\ Head(tickets) = p
    /\ Pinned \subseteq onCpu

SemaphoreInv ==
  lock = "semaphore" =>
    /\ count + Cardinality(Holders) = Permits
    /\ Queues(waiters, Asleep)
    /\ waiters # <<>> => count = 0

LockInv == LockTypeOK /\ MutexInv /\ SpinInv /\ SemaphoreInv

IInv == CommonInv /\ LockInv

-----------------------------------------------------------------------------
\* Joining a queue at its end, and leaving it at its head.
LEMMA QueueEmpty == Queues(<<>>, {})
BY DEF Queues

LEMMA QueueJoin ==
  ASSUME NEW s, NEW S \in SUBSET Proc, Queues(s, S), NEW p \in Proc, p \notin S
  PROVE  /\ Queues(Append(s, p), S \cup {p})
         /\ Append(s, p) # <<>>
         /\ s # <<>> => Head(Append(s, p)) = Head(s)
<1> DEFINE n == Len(s)
           t == Append(s, p)
<1>1. s \in Seq(Proc) /\ n \in Nat
  BY DEF Queues
<1>2. /\ t \in Seq(Proc) /\ Len(t) = n + 1 /\ t[n + 1] = p
      /\ \A i \in 1..n : t[i] = s[i]
  BY <1>1
<1>3. \A i \in 1..n : s[i] # p
  BY DEF Queues
<1>4. \A i \in 1..Len(t) : i \in 1..n \/ i = n + 1
  BY <1>1, <1>2
<1>5. \A i, j \in 1..n : s[i] = s[j] => i = j
  BY DEF Queues
<1> HIDE DEF t
<1>6. \A i, j \in 1..Len(t) : t[i] = t[j] => i = j
  BY <1>2, <1>3, <1>4, <1>5
<1>7. ASSUME NEW q \in Proc
      PROVE  q \in S \cup {p} <=> \E i \in 1..Len(t) : t[i] = q
  <2>1. CASE q = p
    <3>1. n + 1 \in 1..Len(t)
      BY <1>1, <1>2
    <3> QED BY <1>2, <2>1, <3>1
  <2>2. CASE q # p
    <3>1. q \in S <=> \E i \in 1..n : s[i] = q
      BY DEF Queues
    <3>2. \A i \in 1..n : i \in 1..Len(t)
      BY <1>1, <1>2
    <3> QED BY <1>2, <1>4, <2>2, <3>1, <3>2
  <2> QED BY <2>1, <2>2
<1>8. t # <<>>
  BY <1>1, <1>2
<1>9. s # <<>> => Head(t) = Head(s)
  <2>1. s # <<>> => 1 \in 1..n
    BY <1>1
  <2> QED BY <1>1, <1>2, <2>1 DEF t
<1> QED BY <1>2, <1>6, <1>7, <1>8, <1>9 DEF Queues, t

LEMMA QueueLeave ==
  ASSUME NEW s, NEW S \in SUBSET Proc, Queues(s, S), s # <<>>
  PROVE  Head(s) \in S /\ Queues(Tail(s), S \ {Head(s)})
<1> DEFINE n == Len(s)
           t == Tail(s)
           h == Head(s)
<1>1. s \in Seq(Proc) /\ n \in Nat \ {0} /\ h = s[1] /\ 1 \in 1..n
  BY EmptySeq DEF Queues
<1>2. /\ h \in Proc /\ t \in Seq(Proc) /\ Len(t) = n - 1
      /\ \A i \in 1..Len(t) : t[i] = s[i + 1]
  BY <1>1, HeadTailProperties
<1>3. h \in S
  BY <1>1, <1>2 DEF Queues
<1>4. \A i \in 1..Len(t) : i + 1 \in 1..n /\ i + 1 # 1
  BY <1>1, <1>2
<1>5. \A i \in 1..n : i = 1 \/ (i - 1 \in 1..Len(t) /\ (i - 1) + 1 = i)
  BY <1>1, <1>2
<1>6. \A i, j \in 1..n : s[i] = s[j] => i = j
  BY DEF Queues
<1> HIDE DEF t, h
<1>7. ASSUME NEW i \in 1..Len(t), NEW j \in 1..Len(t), t[i] = t[j] PROVE i = j
  <2>1. i + 1 = j + 1
    BY <1>2, <1>4, <1>6, <1>7
  <2> QED BY <1>1, <1>2, <2>1
<1>8. ASSUME NEW q \in Proc
      PROVE  q \in S \ {h} <=> \E i \in 1..Len(t) : t[i] = q
  <2>1. q \in S <=> \E i \in 1..n : s[i] = q
    BY DEF Queues
  <2>2. ASSUME NEW i \in 1..Len(t), t[i] = q PROVE q \in S \ {h}
    <3>1. s[i + 1] = q /\ i + 1 \in 1..n /\ i + 1 # 1
      BY <1>2, <1>4, <2>2
    <3>2. q \in S
      BY <2>1, <3>1
    <3>3. q # h
      BY <1>1, <1>6, <3>1
    <3> QED BY <3>2, <3>3
  <2>3. ASSUME q \in S \ {h} PROVE \E i \in 1..Len(t) : t[i] = q
    <3>1. PICK i \in 1..n : s[i] = q
      BY <2>1, <2>3
    <3>2. i # 1
      BY <1>1, <2>3, <3>1
    <3>3. i - 1 \in 1..Len(t) /\ t[i - 1] = q
      <4>1. i - 1 \in 1..Len(t) /\ (i - 1) + 1 = i
        BY <1>5, <3>2
      <4> QED BY <1>2, <3>1, <4>1
    <3> QED BY <3>3
  <2> QED BY <2>2, <2>3
<1> QED BY <1>2, <1>3, <1>7, <1>8 DEF Queues, t, h

-----------------------------------------------------------------------------
LEMMA HoldersFinite ==
  /\ IsFiniteSet(Holders) /\ Cardinality(Holders) \in Nat
  /\ IsFiniteSet(Holders') /\ Cardinality(Holders') \in Nat
BY ProcAssumption, FS_Subset, FS_CardinalityType DEF Holders

\* When nobody is in write, the locks as they are initialised are in order.
Fresh ==
  /\ \A p \in Proc : pc[p] = "user"
  /\ owner = {}
  /\ tickets = <<>> /\ onCpu = {}
  /\ count = Permits /\ waiters = <<>>

LEMMA FreshLocks == Fresh => LockInv
<1> SUFFICES ASSUME Fresh PROVE LockInv
  OBVIOUS
<1>1. Holders = {} /\ Pinned = {} /\ Asleep = {}
  BY DEF Fresh, Holders, Pinned, Asleep, InSection, Section, Preemptible
<1>2. \A p \in Proc : ~InSection(p)
  BY <1>1 DEF Holders
<1>3. LockTypeOK /\ MutexInv
  BY <1>1, CounterAssumption DEF Fresh, LockTypeOK, MutexInv
<1>4. SpinInv
  BY <1>1, <1>2, QueueEmpty DEF Fresh, SpinInv
<1>5. SemaphoreInv
  BY <1>1, QueueEmpty, FS_EmptySet, CounterAssumption DEF Fresh, SemaphoreInv
<1> QED BY <1>3, <1>4, <1>5 DEF LockInv

LEMMA FreshLocksNext == Fresh' => LockInv'
BY FreshLocks, PTL

LEMMA InitIInv == Init => IInv
BY CommonInit, FreshLocks DEF Init, CounterInit, IInv, Fresh

\* A step that neither enters nor leaves a section or a queue keeps the locks in
\* order.
LEMMA SamePlaces ==
  ASSUME LockInv, UNCHANGED <<lock, owner, tickets, onCpu, count, waiters>>,
         \A p \in Proc : InSection(p)' <=> InSection(p),
         \A p \in Proc : pc'[p] = "wait" <=> pc[p] = "wait"
  PROVE  LockInv'
<1>1. Holders' = Holders /\ Asleep' = Asleep
  BY DEF Holders, Asleep
<1>2. Pinned' = Pinned
  BY DEF Pinned, Preemptible, InSection
<1> QED
  BY <1>1, <1>2 DEF LockInv, LockTypeOK, MutexInv, SpinInv, SemaphoreInv, Queues

\* One iteration's load or store, under any lock.
LEMMA LoopStep ==
  ASSUME IInv, NEW p \in Proc, Load(p) \/ Store(p), UNCHANGED lockVars
  PROVE  IInv' /\ Refines
<1>1. CommonInv' /\ Refines
  BY LoadStep, StoreStep DEF IInv
<1>2. /\ lock' = lock
      /\ \A q \in Proc : InSection(q)' <=> InSection(q)
      /\ \A q \in Proc : pc'[q] = "wait" <=> pc[q] = "wait"
  BY DEF Load, Store, IInv, CommonInv, CounterTypeOK, InSection, Section
<1> QED BY <1>1, <1>2, SamePlaces DEF IInv, lockVars

-----------------------------------------------------------------------------
\* Loading one of the drivers.
LEMMA ModuleStep ==
  ASSUME IInv, my_misc_init
  PROVE  IInv' /\ Refines
<1>1. CommonInv' /\ Refines
  BY LoadModuleStep DEF IInv, my_misc_init
<1>2. Fresh'
  BY DEF my_misc_init, LoadModule, Insmod, Fresh, IInv, CommonInv, PinInv
<1> QED BY <1>1, <1>2, FreshLocksNext DEF IInv

\* What the users do leaves the locks alone.
LEMMA UserKeeps ==
  ASSUME IInv, UserStep
  PROVE  IInv' /\ Refines
<1>1. CASE \/ my_misc_init_register \/ my_misc_exit
           \/ \E p \in Proc : my_misc_open(p) \/ my_misc_release(p)
  <2>1. CommonInv' /\ Refines
    BY <1>1, QuietStep DEF IInv
  <2>2. UNCHANGED counterVars
    BY <1>1 DEF my_misc_init_register, my_misc_exit, my_misc_open, my_misc_release
  <2>3. UNCHANGED lockVars
    BY DEF UserStep
  <2> QED BY <2>1, <2>2, <2>3, SamePlaces DEF IInv, lockVars, counterVars, InSection
<1>2. ASSUME NEW p \in Proc, my_misc_write(p) PROVE IInv' /\ Refines
  <2>1. CommonInv' /\ Refines
    BY <1>2, WriteCallStep DEF IInv
  <2>2. /\ lock' = lock
        /\ \A q \in Proc : InSection(q)' <=> InSection(q)
        /\ \A q \in Proc : pc'[q] = "wait" <=> pc[q] = "wait"
    BY <1>2 DEF my_misc_write, IInv, CommonInv, CounterTypeOK, InSection, Section
  <2>3. UNCHANGED lockVars
    BY DEF UserStep
  <2> QED BY <2>1, <2>2, <2>3, SamePlaces DEF IInv, lockVars
<1> QED BY <1>1, <1>2 DEF UserStep

\* The copy from user space ends or faults.
LEMMA CopyStep ==
  ASSUME IInv, NEW p \in Proc, CopyFromUser(p), UNCHANGED lockVars
  PROVE  IInv' /\ Refines
<1>1. PICK there \in {"user", "lock"} :
        /\ pc[p] = "copy" /\ pc' = [pc EXCEPT ![p] = there]
        /\ UNCHANGED <<mod, fds, lock, cnt, block>>
  BY DEF CopyFromUser
<1>2. CommonInv' /\ Refines
  BY <1>1, OutsideStep DEF IInv
<1>3. /\ lock' = lock
      /\ \A q \in Proc : InSection(q)' <=> InSection(q)
      /\ \A q \in Proc : pc'[q] = "wait" <=> pc[q] = "wait"
  BY <1>1 DEF IInv, CommonInv, CounterTypeOK, InSection, Section
<1> QED BY <1>2, <1>3, SamePlaces DEF IInv, lockVars

-----------------------------------------------------------------------------
\* The mutex.
LEMMA MutexKeeps ==
  ASSUME IInv, NEW p \in Proc, MutexStep(p)
  PROVE  IInv' /\ Refines
<1>1. /\ lock = "mutex" /\ UNCHANGED <<tickets, onCpu, count, waiters>>
      /\ owner = Holders /\ CommonInv /\ LockTypeOK
      /\ pc \in [Proc -> {"user", "copy", "lock", "wait"} \cup Section]
  BY DEF MutexStep, IInv, LockInv, MutexInv, CommonInv, CounterTypeOK
<1>2. CASE mutex_lock(p)
  <2>1. /\ pc[p] = "lock" /\ owner = {} /\ owner' = {p}
        /\ pc' = [pc EXCEPT ![p] = "load"]
        /\ UNCHANGED <<mod, fds, lock, cnt, block>>
    BY <1>2 DEF mutex_lock
  <2>2. \A q \in Proc : ~InSection(q)
    BY <1>1, <2>1 DEF Holders
  <2>3. CommonInv' /\ Refines
    BY <1>1, <2>1, <2>2, EnterStep
  <2>4. Holders' = {p}
    BY <1>1, <2>1, <2>2 DEF Holders, InSection, Section
  <2>5. LockInv'
    BY <1>1, <2>1, <2>4
       DEF LockInv, LockTypeOK, MutexInv, SpinInv, SemaphoreInv
  <2> QED BY <2>3, <2>5 DEF IInv
<1>3. CASE mutex_unlock(p)
  <2>1. /\ pc[p] = "unlock" /\ owner' = owner \ {p}
        /\ pc' = [pc EXCEPT ![p] = "user"]
        /\ UNCHANGED <<mod, fds, lock, cnt, block>>
    BY <1>3 DEF mutex_unlock
  <2>2. CommonInv' /\ Refines
    BY <1>1, <2>1, LeaveStep
  <2>3. Holders' = Holders \ {p}
    BY <1>1, <2>1 DEF Holders, InSection, Section
  <2>4. LockInv'
    BY <1>1, <2>1, <2>3
       DEF LockInv, LockTypeOK, MutexInv, SpinInv, SemaphoreInv
  <2> QED BY <2>2, <2>4 DEF IInv
<1>4. CASE (Load(p) \/ Store(p)) /\ UNCHANGED owner
  BY <1>1, <1>4, LoopStep DEF lockVars
<1> QED BY <1>2, <1>3, <1>4 DEF MutexStep

\* The spinlock: its queue is the processes that cannot be preempted.
LEMMA SpinKeeps ==
  ASSUME IInv, NEW p \in Proc, SpinStep(p)
  PROVE  IInv' /\ Refines
<1>1. /\ lock = "spinlock" /\ p \in onCpu /\ UNCHANGED <<owner, count, waiters>>
      /\ CommonInv /\ LockTypeOK
      /\ pc \in [Proc -> {"user", "copy", "lock", "wait"} \cup Section]
  BY DEF SpinStep, IInv, LockInv, CommonInv, CounterTypeOK
<1>2. /\ Queues(tickets, Pinned) /\ Pinned \subseteq onCpu /\ Pinned \in SUBSET Proc
      /\ \A q \in Proc : InSection(q) => tickets # <<>> /\ Head(tickets) = q
  BY <1>1 DEF IInv, LockInv, SpinInv, Pinned
<1>3. CASE spin_lock(p)
  <2>1. /\ pc[p] = "lock" /\ tickets' = Append(tickets, p) /\ onCpu' = onCpu
        /\ pc' = [pc EXCEPT ![p] = "wait"]
        /\ UNCHANGED <<mod, fds, lock, cnt, block>>
    BY <1>3 DEF spin_lock
  <2>2. CommonInv' /\ Refines
    BY <1>1, <2>1, OutsideStep
  <2>3. p \notin Pinned /\ Pinned' = Pinned \cup {p}
    BY <1>1, <2>1 DEF Pinned, Preemptible, Section
  <2>4. \A q \in Proc : InSection(q)' => InSection(q)
    BY <1>1, <2>1 DEF InSection, Section
  <2>5. /\ Queues(tickets', Pinned') /\ tickets' # <<>>
        /\ tickets # <<>> => Head(tickets') = Head(tickets)
    BY <1>2, <2>1, <2>3, QueueJoin
  <2>6. SpinInv'
    BY <1>1, <1>2, <2>1, <2>3, <2>4, <2>5 DEF SpinInv
  <2>7. LockInv'
    BY <1>1, <2>1, <2>5, <2>6 DEF LockInv, LockTypeOK, MutexInv, SemaphoreInv, Queues
  <2> QED BY <2>2, <2>7 DEF IInv
<1>4. CASE spin_acquire(p)
  <2>1. /\ pc[p] = "wait" /\ Head(tickets) = p
        /\ pc' = [pc EXCEPT ![p] = "load"]
        /\ UNCHANGED <<mod, fds, lock, cnt, block, tickets, onCpu>>
    BY <1>4 DEF spin_acquire
  <2>2. p \in Pinned /\ tickets # <<>>
    <3>1. p \in Pinned
      BY <2>1 DEF Pinned, Preemptible
    <3>2. PICK i \in 1..Len(tickets) : tickets[i] = p
      BY <1>2, <3>1 DEF Queues
    <3> QED BY <3>1, <3>2, EmptySeq
  <2>3. \A q \in Proc : ~InSection(q)
    <3>1. \A q \in Proc : InSection(q) => q = p
      BY <1>2, <2>1
    <3> QED BY <2>1, <3>1 DEF InSection, Section
  <2>4. CommonInv' /\ Refines
    BY <1>1, <2>1, <2>3, EnterStep
  <2>5. Pinned' = Pinned /\ \A q \in Proc : InSection(q)' => q = p
    BY <1>1, <2>1, <2>3 DEF Pinned, Preemptible, InSection, Section
  <2>6. SpinInv'
    BY <1>2, <2>1, <2>2, <2>5 DEF SpinInv, Queues
  <2>7. LockInv'
    BY <1>1, <2>1, <2>6 DEF LockInv, LockTypeOK, MutexInv, SemaphoreInv
  <2> QED BY <2>4, <2>7 DEF IInv
<1>5. CASE spin_unlock(p)
  <2>1. /\ pc[p] = "unlock" /\ tickets' = Tail(tickets) /\ onCpu' = onCpu
        /\ pc' = [pc EXCEPT ![p] = "user"]
        /\ UNCHANGED <<mod, fds, lock, cnt, block>>
    BY <1>5 DEF spin_unlock
  <2>2. CommonInv' /\ Refines
    BY <1>1, <2>1, LeaveStep
  <2>3. tickets # <<>> /\ Head(tickets) = p
    BY <1>2, <2>1 DEF InSection, Section
  <2>4. Pinned' = Pinned \ {p} /\ \A q \in Proc : ~InSection(q)'
    <3>1. \A q \in Proc : InSection(q) => q = p
      BY <1>2, <2>3
    <3> QED BY <1>1, <2>1, <3>1 DEF Pinned, Preemptible, InSection, Section
  <2>5. Queues(tickets', Pinned')
    BY <1>2, <2>1, <2>3, <2>4, QueueLeave
  <2>6. SpinInv'
    BY <1>2, <2>1, <2>4, <2>5 DEF SpinInv
  <2>7. LockInv'
    BY <1>1, <2>1, <2>5, <2>6 DEF LockInv, LockTypeOK, MutexInv, SemaphoreInv, Queues
  <2> QED BY <2>2, <2>7 DEF IInv
<1>6. CASE SpinLoop(p)
  BY <1>1, <1>6, LoopStep DEF SpinLoop, lockVars
<1> QED BY <1>3, <1>4, <1>5, <1>6 DEF SpinStep

\* The scheduler never takes a processor from a process that cannot be preempted.
LEMMA ScheduleKeeps ==
  ASSUME IInv, NEW p \in Proc, Schedule(p)
  PROVE  IInv' /\ Refines
<1>1. /\ lock = "spinlock" /\ UNCHANGED <<owner, count, waiters, tickets>>
      /\ UNCHANGED <<mod, fds, lock, pc, cnt, block>>
      /\ Pinned \subseteq onCpu /\ onCpu \in SUBSET Proc
  BY DEF Schedule, Dispatch, IInv, LockInv, LockTypeOK, SpinInv
<1>2. onCpu' \in SUBSET Proc /\ Pinned \subseteq onCpu'
  BY <1>1 DEF Schedule, Dispatch, Pinned
<1>3. CommonInv'
  BY <1>1 DEF IInv, CommonInv, CounterTypeOK, MiscTypeOK, PinInv, BlockOK, Serial,
              OneOwner, InSection, Stored
<1>4. Refines
  BY <1>1 DEF Refines, Counter!vars, Serial, Untaken, InSection, Stored
<1>5. Pinned' = Pinned
  BY <1>1 DEF Pinned, Preemptible
<1>6. SpinInv'
  BY <1>1, <1>2, <1>5 DEF IInv, LockInv, SpinInv, Queues, InSection
<1>7. LockInv'
  BY <1>1, <1>2, <1>6 DEF IInv, LockInv, LockTypeOK, MutexInv, SemaphoreInv
<1> QED BY <1>3, <1>4, <1>7 DEF IInv

\* The semaphore: a permit is free, or with a process in the section.
LEMMA SemaphoreKeeps ==
  ASSUME IInv, NEW p \in Proc, SemaphoreStep(p)
  PROVE  IInv' /\ Refines
<1>1. /\ lock = "semaphore" /\ UNCHANGED <<owner, tickets, onCpu>>
      /\ CommonInv /\ LockTypeOK
      /\ pc \in [Proc -> {"user", "copy", "lock", "wait"} \cup Section]
      /\ count \in Nat /\ Permits \in Nat \ {0}
  BY CounterAssumption
     DEF SemaphoreStep, IInv, LockInv, LockTypeOK, CommonInv, CounterTypeOK
<1>2. /\ count + Cardinality(Holders) = Permits
      /\ Queues(waiters, Asleep) /\ Asleep \in SUBSET Proc
      /\ waiters # <<>> => count = 0
      /\ Cardinality(Holders) \in Nat /\ IsFiniteSet(Holders)
  BY <1>1, HoldersFinite DEF IInv, LockInv, SemaphoreInv, Asleep
<1>3. ASSUME lock' = lock, count' \in Nat, waiters' \in Seq(Proc),
             count' + Cardinality(Holders') = Permits,
             Queues(waiters', Asleep'),
             waiters' # <<>> => count' = 0
      PROVE  LockInv'
  <2>1. count' \in 0..Permits
    BY <1>1, <1>3, HoldersFinite
  <2> QED
    BY <1>1, <1>3, <2>1 DEF LockInv, LockTypeOK, MutexInv, SpinInv, SemaphoreInv
<1>4. CASE down(p) /\ count > 0
  <2>1. /\ pc[p] = "lock" /\ pc' = [pc EXCEPT ![p] = "load"]
        /\ count' = count - 1 /\ waiters' = waiters
        /\ UNCHANGED <<mod, fds, lock, cnt, block>>
    BY <1>1, <1>4 DEF down
  <2>2. p \notin Holders /\ Holders' = Holders \cup {p} /\ Asleep' = Asleep
    BY <1>1, <2>1 DEF Holders, Asleep, InSection, Section
  <2>3. Cardinality(Holders') = Cardinality(Holders) + 1
    BY <1>2, <2>2, FS_AddElement
  <2>4. Serial => \A q \in Proc : ~InSection(q)
    <3>1. Serial => Cardinality(Holders) = 0
      BY <1>1, <1>2, <1>4 DEF Serial
    <3>2. Serial => Holders = {}
      BY <1>2, <3>1, FS_EmptySet
    <3> QED BY <3>2 DEF Holders
  <2>5. CommonInv' /\ Refines
    BY <1>1, <2>1, <2>4, EnterStep
  <2>6. LockInv'
    <3>1. count' \in Nat /\ count' + Cardinality(Holders') = Permits
      BY <1>1, <1>2, <1>4, <2>1, <2>3
    <3>2. waiters' \in Seq(Proc) /\ (waiters' # <<>> => count' = 0)
      BY <1>1, <1>2, <1>4, <2>1 DEF LockTypeOK
    <3> QED BY <1>2, <1>3, <2>1, <2>2, <3>1, <3>2
  <2> QED BY <2>5, <2>6 DEF IInv
<1>5. CASE down(p) /\ count = 0
  <2>1. /\ pc[p] = "lock" /\ pc' = [pc EXCEPT ![p] = "wait"]
        /\ count' = count /\ waiters' = Append(waiters, p)
        /\ UNCHANGED <<mod, fds, lock, cnt, block>>
    BY <1>1, <1>5 DEF down
  <2>2. p \notin Asleep /\ Holders' = Holders /\ Asleep' = Asleep \cup {p}
    BY <1>1, <2>1 DEF Holders, Asleep, InSection, Section
  <2>3. CommonInv' /\ Refines
    BY <1>1, <2>1, OutsideStep
  <2>4. Queues(waiters', Asleep')
    BY <1>2, <2>1, <2>2, QueueJoin
  <2>5. waiters' \in Seq(Proc)
    BY <2>4 DEF Queues
  <2>6. LockInv'
    BY <1>1, <1>2, <1>3, <1>5, <2>1, <2>2, <2>4, <2>5
  <2> QED BY <2>3, <2>6 DEF IInv
<1>6. CASE up(p) /\ waiters = <<>>
  <2>1. /\ pc[p] = "unlock" /\ pc' = [pc EXCEPT ![p] = "user"]
        /\ count' = count + 1 /\ waiters' = waiters
        /\ UNCHANGED <<mod, fds, lock, cnt, block>>
    BY <1>6 DEF up
  <2>2. p \in Holders /\ Holders' = Holders \ {p} /\ Asleep' = Asleep
    BY <1>1, <2>1 DEF Holders, Asleep, InSection, Section
  <2>3. Cardinality(Holders') = Cardinality(Holders) - 1
    BY <1>2, <2>2, FS_RemoveElement
  <2>4. CommonInv' /\ Refines
    BY <1>1, <2>1, LeaveStep
  <2>5. LockInv'
    <3>1. count' \in Nat /\ count' + Cardinality(Holders') = Permits
      BY <1>1, <1>2, <2>1, <2>3
    <3>2. waiters' \in Seq(Proc) /\ waiters' = <<>>
      BY <1>1, <1>6, <2>1 DEF LockTypeOK
    <3> QED BY <1>2, <1>3, <2>1, <2>2, <3>1, <3>2
  <2> QED BY <2>4, <2>5 DEF IInv
<1>7. CASE up(p) /\ waiters # <<>>
  <2> DEFINE heir == Head(waiters)
  <2>1. /\ pc[p] = "unlock" /\ pc' = [pc EXCEPT ![p] = "user", ![heir] = "load"]
        /\ count' = count /\ waiters' = Tail(waiters)
        /\ UNCHANGED <<mod, fds, lock, cnt, block>>
    BY <1>7 DEF up
  <2>2. heir \in Asleep /\ Queues(waiters', Asleep \ {heir})
    BY <1>2, <1>7, <2>1, QueueLeave
  <2> HIDE DEF heir
  <2>3. heir \in Proc /\ pc[heir] = "wait" /\ heir # p
    BY <2>1, <2>2 DEF Asleep
  <2>4. pc' = [q \in Proc |->
                 IF q = p THEN "user" ELSE IF q \in {heir} THEN "load" ELSE pc[q]]
    BY <1>1, <2>1, <2>3
  <2>5. CommonInv' /\ Refines
    <3>1. {heir} \in SUBSET Proc /\ \A q, r \in {heir} : q = r
      BY <2>3
    <3>2. \A q \in {heir} : pc[q] = "wait"
      BY <2>3
    <3> QED BY <1>1, <2>1, <2>4, <3>1, <3>2, HandOver
  <2>6. /\ p \in Holders /\ heir \notin Holders \ {p}
        /\ Holders' = (Holders \ {p}) \cup {heir}
        /\ Asleep' = Asleep \ {heir}
    BY <1>1, <2>1, <2>3, <2>4 DEF Holders, Asleep, InSection, Section
  <2>7. Cardinality(Holders') = Cardinality(Holders)
    <3>1. /\ Cardinality(Holders \ {p}) = Cardinality(Holders) - 1
          /\ IsFiniteSet(Holders \ {p})
      BY <1>2, <2>6, FS_RemoveElement
    <3>2. Cardinality(Holders') = Cardinality(Holders \ {p}) + 1
      BY <2>6, <3>1, FS_AddElement
    <3> QED BY <1>2, <3>1, <3>2
  <2>8. LockInv'
    <3>1. waiters' \in Seq(Proc)
      BY <2>2 DEF Queues
    <3> QED BY <1>1, <1>2, <1>3, <1>7, <2>1, <2>2, <2>6, <2>7, <3>1
  <2> QED BY <2>5, <2>8 DEF IInv
<1>8. CASE (Load(p) \/ Store(p)) /\ UNCHANGED <<count, waiters>>
  BY <1>1, <1>8, LoopStep DEF lockVars
<1>9. count > 0 \/ count = 0
  BY <1>1
<1> QED BY <1>4, <1>5, <1>6, <1>7, <1>8, <1>9 DEF SemaphoreStep

-----------------------------------------------------------------------------
LEMMA NextIInv == IInv /\ [Next]_vars => IInv' /\ Refines
<1> SUFFICES ASSUME IInv, [Next]_vars PROVE IInv' /\ Refines
  OBVIOUS
<1>1. CASE my_misc_init
  BY <1>1, ModuleStep
<1>2. CASE UserStep
  BY <1>2, UserKeeps
<1>3. ASSUME NEW p \in Proc, WriteStep(p) PROVE IInv' /\ Refines
  BY <1>3, CopyStep, MutexKeeps, SpinKeeps, SemaphoreKeeps DEF WriteStep
<1>4. ASSUME NEW p \in Proc, Schedule(p) PROVE IInv' /\ Refines
  BY <1>4, ScheduleKeeps
<1>5. CASE UNCHANGED vars
  <2>1. CommonInv' /\ LockInv'
    BY <1>5, SamePlaces
       DEF vars, IInv, CommonInv, CounterTypeOK, MiscTypeOK, PinInv, BlockOK, Serial,
           OneOwner, InSection, Stored
  <2>2. Refines
    BY <1>5 DEF vars, Refines, Counter!vars, Serial, Untaken, InSection, Stored
  <2> QED BY <2>1, <2>2 DEF IInv
<1> QED BY <1>1, <1>2, <1>3, <1>4, <1>5 DEF Next

LEMMA SpecIInv == Spec => []IInv
<1>1. IInv /\ [Next]_vars => IInv'
  BY NextIInv
<1> QED BY <1>1, InitIInv, PTL DEF Spec

\* Every variable keeps its type: in particular the loop ends after Lines
\* iterations and the semaphore never has more permits than it was given.
THEOREM TypeCorrect == Spec => []TypeOK
<1>1. IInv => TypeOK
  BY DEF IInv, CommonInv, LockInv, LockTypeOK, TypeOK
<1> QED BY <1>1, SpecIInv, PTL

\* Who is in the loop has the lock: the owner of the mutex, the head of the
\* spinlock's queue; and under a lock that admits one, there is one at most.
THEOREM MutualExclusion == Spec => []Exclusive
<1>1. IInv => Exclusive
  BY DEF IInv, CommonInv, LockInv, MutexInv, SpinInv, Queues, Pinned, Holders, Exclusive
<1> QED BY <1>1, SpecIInv, PTL

\* Whoever spins for the spinlock or holds it has a processor, however many
\* processes there are for the processors.
THEOREM NeverPreempted == Spec => []AtomicOnCpu
<1>1. IInv => AtomicOnCpu
  BY DEF IInv, LockInv, SpinInv, Pinned, AtomicOnCpu
<1> QED BY <1>1, SpecIInv, PTL

\* No permit of the semaphore is lost or made.
THEOREM PermitsConserved == Spec => []PermitConservation
<1>1. IInv => PermitConservation
  BY DEF IInv, LockInv, SemaphoreInv, PermitConservation
<1> QED BY <1>1, SpecIInv, PTL

\* Whoever sleeps in down sleeps because every permit is out.
THEOREM SleepIsNeeded == Spec => []NoNeedlessSleep
<1>1. IInv => NoNeedlessSleep
  BY HoldersFinite DEF IInv, LockInv, SemaphoreInv, NoNeedlessSleep
<1> QED BY <1>1, SpecIInv, PTL

\* No driver is unloaded under a process that runs or sleeps in its write.
THEOREM NeverUnloadedInUse == Spec => []UnloadSafe
<1>1. IInv => UnloadSafe
  BY DEF IInv, CommonInv, PinInv, UnloadSafe
<1> QED BY <1>1, SpecIInv, PTL

\* Under a lock that admits one, each write prints its numbers as one block of
\* consecutive numbers that continues the block of the write before it.
THEOREM Refinement == Spec => BlockCounterSpec
<1>1. Init => Counter!Init
  BY CommonInit DEF Init
<1>2. IInv /\ [Next]_vars => [Counter!Next]_(Counter!vars)
  BY NextIInv DEF Refines
<1> QED BY <1>1, <1>2, SpecIInv, PTL DEF Spec, BlockCounterSpec, Counter!Spec

-----------------------------------------------------------------------------
(* How many increments the race of several permits leaves. *)

\* The loop has two iterations at least (three in the code).
LoopsTwice == Lines >= 2

InLoop(p) == pc[p] \in {"load", "store"}
Through(p) == pc[p] = "unlock" \/ (pc[p] = "user" /\ block[p] # <<>>)

\* The counter is not 0 once somebody has stored, so who goes round again loads
\* a 1 at least and stores a 2; a smaller number can only be stored over it by a
\* process that goes round once more.
RaceInv ==
  /\ \A p \in Proc : Stored(p) >= 1 => cnt >= 1
  /\ \A p \in Proc :
       pc[p] = "store" /\ Len(block[p]) >= 2 => block[p][Len(block[p])] >= 1
  /\ (\E p \in Proc : Through(p)) => cnt >= 2 \/ \E q \in Proc : InLoop(q)

\* Outside the loop processes only move, and who is new behind it was in it.
LEMMA RaceMoves ==
  ASSUME CommonInv, RaceInv, UNCHANGED <<cnt, block>>,
         \A q \in Proc :
           \/ pc'[q] = pc[q]
           \/ /\ pc[q] \in {"copy", "lock", "wait", "unlock"}
              /\ pc'[q] \in {"user", "lock", "wait", "load"}
  PROVE  RaceInv'
<1>1. \A q \in Proc : pc'[q] = "store" <=> pc[q] = "store"
  OBVIOUS
<1>2. \A q \in Proc : Stored(q)' = Stored(q)
  BY <1>1 DEF Stored
<1>3. \A q \in Proc : Through(q)' => Through(q)
  BY DEF Through, CommonInv, BlockOK
<1>4. \A q \in Proc : InLoop(q) => InLoop(q)'
  BY DEF InLoop
<1> QED BY <1>1, <1>2, <1>3, <1>4 DEF RaceInv

LEMMA RaceLoad ==
  ASSUME CommonInv, RaceInv, NEW p \in Proc, Load(p)
  PROVE  RaceInv'
<1> DEFINE n == Len(block[p])
<1>1. /\ pc[p] = "load" /\ pc' = [pc EXCEPT ![p] = "store"] /\ cnt' = cnt
      /\ block' = [block EXCEPT ![p] = Append(block[p], cnt)]
      /\ pc \in [Proc -> {"user", "copy", "lock", "wait"} \cup Section]
      /\ block[p] \in Seq(Nat) /\ n \in Nat /\ cnt \in Nat
  BY DEF Load, CommonInv, CounterTypeOK
<1>2. /\ Len(block'[p]) = n + 1 /\ block'[p][n + 1] = cnt
      /\ pc'[p] = "store" /\ Stored(p) = n /\ Stored(p)' = n
  BY <1>1 DEF Stored, CommonInv, CounterTypeOK
<1>3. \A q \in Proc : q # p => /\ pc'[q] = pc[q] /\ block'[q] = block[q]
                               /\ Stored(q)' = Stored(q)
  BY <1>1 DEF Stored, CommonInv, CounterTypeOK
<1> HIDE DEF n
<1>4. n >= 1 => cnt >= 1
  BY <1>2 DEF RaceInv
<1>5. \A q \in Proc : Stored(q)' >= 1 => cnt' >= 1
  BY <1>1, <1>2, <1>3, <1>4 DEF RaceInv
<1>6. ASSUME NEW q \in Proc, pc'[q] = "store", Len(block'[q]) >= 2
      PROVE  block'[q][Len(block'[q])] >= 1
  <2>1. CASE q = p
    <3>1. n >= 1
      BY <1>1, <1>2, <1>6, <2>1 DEF n
    <3> QED BY <1>2, <1>4, <2>1, <3>1
  <2>2. CASE q # p
    BY <1>3, <1>6, <2>2 DEF RaceInv
  <2> QED BY <2>1, <2>2
<1>7. InLoop(p)'
  BY <1>2 DEF InLoop
<1> QED BY <1>5, <1>6, <1>7 DEF RaceInv

LEMMA RaceStore ==
  ASSUME LoopsTwice, CommonInv, RaceInv, NEW p \in Proc, Store(p)
  PROVE  RaceInv'
<1> DEFINE n == Len(block[p])
<1>1. /\ pc[p] = "store" /\ cnt' = block[p][n] + 1 /\ block' = block
      /\ pc' = [pc EXCEPT ![p] = IF n < Lines THEN "load" ELSE "unlock"]
      /\ pc \in [Proc -> {"user", "copy", "lock", "wait"} \cup Section]
      /\ block[p] \in Seq(Nat) /\ n \in 1..Lines /\ Lines \in Nat
  BY CounterAssumption DEF Store, CommonInv, CounterTypeOK, BlockOK
<1>2. block[p][n] \in Nat
  BY <1>1, ElementOfSeq
<1>3. cnt' >= 1 /\ (n >= 2 => cnt' >= 2)
  BY <1>1, <1>2 DEF RaceInv
<1>4. /\ pc'[p] = IF n < Lines THEN "load" ELSE "unlock"
      /\ \A q \in Proc : q # p => pc'[q] = pc[q]
  BY <1>1
<1>5. \A q \in Proc : pc'[q] = "store" => q # p /\ pc[q] = "store"
  BY <1>4
<1>6. n < 2 => InLoop(p)'
  BY <1>1, <1>4 DEF LoopsTwice, InLoop
<1>7. n < 2 \/ n >= 2
  BY <1>1
<1> QED BY <1>1, <1>3, <1>5, <1>6, <1>7 DEF RaceInv

LEMMA RaceNext ==
  ASSUME LoopsTwice, IInv, RaceInv, [Next]_vars
  PROVE  RaceInv'
<1> USE DEF IInv
<1>1. pc \in [Proc -> {"user", "copy", "lock", "wait"} \cup Section]
  BY DEF CommonInv, CounterTypeOK
<1>2. CASE my_misc_init
  <2>1. pc' = pc /\ block' = Nothing /\ \A p \in Proc : pc[p] = "user"
    BY <1>2 DEF my_misc_init, LoadModule, Insmod, CommonInv, PinInv
  <2>2. \A p \in Proc : Len(block'[p]) = 0 /\ pc'[p] = "user" /\ Stored(p)' = 0
    BY <2>1 DEF Nothing, Stored
  <2> QED BY <2>1, <2>2 DEF RaceInv, Through, Nothing
<1>3. ASSUME NEW p \in Proc, my_misc_write(p) PROVE RaceInv'
  <2>1. /\ pc[p] = "user" /\ pc' = [pc EXCEPT ![p] = "copy"]
        /\ block' = [block EXCEPT ![p] = <<>>] /\ cnt' = cnt
    BY <1>3 DEF my_misc_write
  <2>2. /\ pc'[p] = "copy" /\ Stored(p)' = 0
        /\ \A q \in Proc : q # p => pc'[q] = pc[q] /\ block'[q] = block[q]
    BY <1>1, <2>1 DEF Stored, CommonInv, CounterTypeOK
  <2>3. \A q \in Proc : q # p => Stored(q)' = Stored(q)
    BY <2>2 DEF Stored
  <2>4. \A q \in Proc : (InLoop(q) => InLoop(q)') /\ (Through(q)' => Through(q))
    BY <2>1, <2>2 DEF InLoop, Through
  <2> QED BY <2>1, <2>2, <2>3, <2>4 DEF RaceInv
<1>4. ASSUME NEW p \in Proc, Load(p) \/ Store(p) PROVE RaceInv'
  BY <1>4, RaceLoad, RaceStore
<1>5. CASE /\ UserStep \/ (\E p \in Proc : Schedule(p)) \/ UNCHANGED vars
           /\ ~ \E p \in Proc : my_misc_write(p)
  <2>1. UNCHANGED <<cnt, block, pc>>
    BY <1>5 DEF UserStep, Schedule, Dispatch, vars, my_misc_init_register, my_misc_exit,
                my_misc_open, my_misc_release, counterVars
  <2> QED BY <2>1, RaceMoves
<1>6. ASSUME NEW p \in Proc, WriteStep(p), ~(Load(p) \/ Store(p)) PROVE RaceInv'
  <2>1. CASE CopyFromUser(p)
    BY <1>1, <2>1, RaceMoves DEF CopyFromUser
  <2>2. CASE mutex_lock(p) \/ mutex_unlock(p)
    BY <1>1, <2>2, RaceMoves DEF mutex_lock, mutex_unlock
  <2>3. CASE spin_lock(p) \/ spin_acquire(p) \/ spin_unlock(p)
    BY <1>1, <2>3, RaceMoves DEF spin_lock, spin_acquire, spin_unlock
  <2>4. CASE down(p)
    BY <1>1, <2>4, RaceMoves DEF down
  <2>5. CASE up(p) /\ waiters = <<>>
    BY <1>1, <2>5, RaceMoves DEF up
  <2>6. CASE SemaphoreStep(p) /\ up(p) /\ waiters # <<>>
    <3>1. /\ pc[p] = "unlock" /\ pc' = [pc EXCEPT ![p] = "user", ![Head(waiters)] = "load"]
          /\ UNCHANGED <<cnt, block>>
      BY <2>6 DEF up
    <3>2. Queues(waiters, Asleep) /\ Asleep \in SUBSET Proc
      BY <2>6 DEF SemaphoreStep, LockInv, SemaphoreInv, Asleep
    <3>3. Head(waiters) \in Asleep
      BY <2>6, <3>2, QueueLeave
    <3>4. Head(waiters) \in Proc /\ pc[Head(waiters)] = "wait"
      BY <3>3 DEF Asleep
    <3> QED BY <1>1, <3>1, <3>4, RaceMoves
  <2> QED BY <1>6, <2>1, <2>2, <2>3, <2>4, <2>5, <2>6
             DEF WriteStep, MutexStep, SpinStep, SpinLoop, SemaphoreStep
<1> QED BY <1>2, <1>3, <1>4, <1>5, <1>6 DEF Next, UserStep

LEMMA RaceInit == Init => RaceInv
<1> SUFFICES ASSUME Init PROVE RaceInv
  OBVIOUS
<1>1. \A p \in Proc : pc[p] = "user" /\ block[p] = <<>> /\ Stored(p) = 0
  BY DEF Init, CounterInit, Nothing, Stored
<1> QED BY <1>1 DEF RaceInv, Through

\* The semaphore of two permits loses increments, but not all: when all is quiet
\* after some write the counter is at least 2, for every number of writers and
\* permits, if the loop has two iterations.
THEOREM RaceIsBounded == LoopsTwice => (Spec => []QuiescentCount)
<1> SUFFICES ASSUME LoopsTwice PROVE Spec => []QuiescentCount
  OBVIOUS
<1>1. IInv /\ RaceInv /\ [Next]_vars => RaceInv'
  BY RaceNext
<1>2. RaceInv => QuiescentCount
  BY DEF RaceInv, QuiescentCount, SomeWritten, Through, InLoop
<1> QED BY <1>1, <1>2, RaceInit, SpecIInv, PTL DEF Spec
=============================================================================

------------------------ MODULE CounterDevice_proofs ------------------------
(***************************************************************************)
(* What the write handlers have in common, proved once for any lock: each  *)
(* step keeps CommonInv and is a step of BlockCounter or leaves it alone,  *)
(* provided that a lock that is Serial lets one process at a time into the *)
(* loop.                                                                   *)
(***************************************************************************)
EXTENDS CounterDevice, SequenceTheorems, TLAPS

\* The numbers of an unfinished block: as many as the place in the loop says
\* and, under a lock that lets one process in, consecutive and ending where the
\* counter now is.
BlockOK(p) ==
  /\ pc[p] \in {"copy", "lock", "wait"} => block[p] = <<>>
  /\ pc[p] = "load" => Len(block[p]) < Lines
  /\ pc[p] = "store" => Len(block[p]) \in 1..Lines
  /\ pc[p] = "unlock" => Len(block[p]) = Lines
  /\ Serial /\ InSection(p) =>
       /\ cnt - Stored(p) \in Nat
       /\ \A i \in 1..Len(block[p]) : block[p][i] = cnt - Stored(p) + i - 1

\* A process in write has the file open, and an open file pins the module.
PinInv ==
  /\ \A p \in Proc : pc[p] # "user" => p \in fds
  /\ fds # {} => mod = "live"

CommonInv ==
  /\ CounterTypeOK
  /\ PinInv
  /\ \A p \in Proc : BlockOK(p)
  /\ Serial => OneOwner

Refines == [Counter!Next]_(Counter!vars)

-----------------------------------------------------------------------------
\* What is in progress is the work of the one process in the section, if any.
LEMMA UntakenOf ==
  /\ \A p \in Proc : OneOwner /\ InSection(p) => Untaken = Stored(p)
  /\ (\A p \in Proc : ~InSection(p)) => Untaken = 0
BY DEF OneOwner, Untaken

LEMMA UntakenOfNext ==
  /\ \A p \in Proc : OneOwner' /\ InSection(p)' => Untaken' = Stored(p)'
  /\ (\A p \in Proc : ~InSection(p)') => Untaken' = 0
BY DEF OneOwner, Untaken

\* Untaken depends on the program counters and the blocks of the processes in
\* the section, which steps outside it leave alone.
LEMMA UntakenSame ==
  ASSUME \A p \in Proc : InSection(p)' <=> InSection(p),
         \A p \in Proc : InSection(p) => Stored(p)' = Stored(p),
         OneOwner
  PROVE  OneOwner' /\ Untaken' = Untaken
<1>1. OneOwner'
  BY DEF OneOwner
<1>2. CASE \E p \in Proc : InSection(p)
  BY <1>1, <1>2, UntakenOf, UntakenOfNext
<1>3. CASE ~ \E p \in Proc : InSection(p)
  <2>1. Untaken = 0
    BY <1>3, UntakenOf
  <2>2. Untaken' = 0
    BY <1>3, UntakenOfNext
  <2> QED BY <1>1, <2>1, <2>2
<1> QED BY <1>1, <1>2, <1>3

LEMMA CommonInit == CounterInit => CommonInv /\ Counter!Init
<1> SUFFICES ASSUME CounterInit PROVE CommonInv /\ Counter!Init
  OBVIOUS
<1>1. \A p \in Proc : ~InSection(p)
  BY DEF CounterInit, InSection, Section
<1>2. Untaken = 0
  BY <1>1, UntakenOf
<1>3. CommonInv
  BY <1>1, CounterAssumption
     DEF CounterInit, MiscInit, CommonInv, CounterTypeOK, MiscTypeOK, PinInv, BlockOK,
         Nothing, OneOwner
<1>4. Counter!Init
  BY <1>2 DEF CounterInit, Counter!Init, Counter!Nothing, Nothing
<1> QED BY <1>3, <1>4

\* Under a semaphore of more permits there is nothing to refine.
LEMMA NotSerialRefines ==
  ASSUME ~Serial, lock' = lock
  PROVE  Refines
BY DEF Serial, Refines, Counter!vars

-----------------------------------------------------------------------------
\* Loading the module starts the counter over.
LEMMA LoadModuleStep ==
  ASSUME CommonInv, LoadModule
  PROVE  CommonInv' /\ Refines
<1>1. /\ pc' = pc /\ cnt' = 0 /\ block' = Nothing /\ lock' \in Locks
      /\ mod' = "coming" /\ fds' = fds /\ mod = "unloaded"
  BY DEF LoadModule, Insmod
<1>2. fds = {} /\ \A p \in Proc : pc[p] = "user"
  BY <1>1 DEF CommonInv, PinInv
<1>3. \A p \in Proc : ~InSection(p)'
  BY <1>1, <1>2 DEF InSection, Section
<1>4. Untaken' = 0
  BY <1>3, UntakenOfNext
<1>5. CommonInv'
  BY <1>1, <1>2, <1>3, CounterAssumption
     DEF CommonInv, CounterTypeOK, MiscTypeOK, PinInv, BlockOK, Nothing, OneOwner
<1>6. Counter!Reset
  BY <1>1, <1>2, <1>4 DEF Counter!Reset, Counter!Nothing, Nothing
<1> QED BY <1>5, <1>6 DEF Refines, Counter!Next

\* Opening, closing, the end of loading and unloading leave counter and blocks
\* alone.
LEMMA QuietStep ==
  ASSUME CommonInv,
         \/ my_misc_init_register \/ my_misc_exit
         \/ \E p \in Proc : my_misc_open(p) \/ my_misc_release(p)
  PROVE  CommonInv' /\ Refines
<1>1. UNCHANGED counterVars
  BY DEF my_misc_init_register, my_misc_exit, my_misc_open, my_misc_release
<1>2. MiscTypeOK' /\ PinInv'
  <2> USE DEF CommonInv, CounterTypeOK, MiscTypeOK, PinInv, counterVars
  <2>1. CASE my_misc_init_register
    BY <2>1 DEF my_misc_init_register, MiscRegister, MiscRegisterFails
  <2>2. CASE my_misc_exit
    BY <2>2 DEF my_misc_exit, Rmmod, misc_fops_owner
  <2>3. ASSUME NEW p \in Proc, my_misc_open(p) PROVE MiscTypeOK' /\ PinInv'
    BY <2>3 DEF my_misc_open, FileOpen
  <2>4. ASSUME NEW p \in Proc, my_misc_release(p) PROVE MiscTypeOK' /\ PinInv'
    BY <2>4 DEF my_misc_release, FileClose
  <2> QED BY <2>1, <2>2, <2>3, <2>4
<1>3. CommonInv'
  BY <1>1, <1>2 DEF CommonInv, CounterTypeOK, BlockOK, Serial, OneOwner, InSection,
                    Stored, counterVars
<1>4. Untaken' = Untaken
  BY <1>1 DEF Untaken, InSection, Stored, counterVars
<1> QED BY <1>1, <1>3, <1>4 DEF Refines, Counter!vars, Serial, counterVars

\* A process enters write: its last result is forgotten.
LEMMA WriteCallStep ==
  ASSUME CommonInv, NEW p \in Proc, my_misc_write(p)
  PROVE  CommonInv' /\ Refines
<1>1. /\ p \in fds /\ pc[p] = "user" /\ pc' = [pc EXCEPT ![p] = "copy"]
      /\ block' = [block EXCEPT ![p] = <<>>]
      /\ mod' = mod /\ fds' = fds /\ cnt' = cnt /\ lock' = lock
  BY DEF my_misc_write
<1>2. \A q \in Proc : InSection(q)' <=> InSection(q)
  BY <1>1 DEF InSection, Section, CommonInv, CounterTypeOK
<1>3. \A q \in Proc : InSection(q) => Stored(q)' = Stored(q)
  BY <1>1 DEF InSection, Section, Stored, CommonInv, CounterTypeOK
<1>4. Serial' = Serial /\ (Serial => OneOwner' /\ Untaken' = Untaken)
  BY <1>1, <1>2, <1>3, UntakenSame DEF Serial, CommonInv
<1>5. CommonInv'
  <2>1. CounterTypeOK' /\ PinInv'
    BY <1>1, CounterAssumption DEF CommonInv, CounterTypeOK, MiscTypeOK, PinInv
  <2>2. ASSUME NEW q \in Proc PROVE BlockOK(q)'
    <3>1. CASE q = p
      BY <1>1, <3>1 DEF CommonInv, CounterTypeOK, BlockOK, InSection, Section
    <3>2. CASE q # p
      <4>1. pc'[q] = pc[q] /\ block'[q] = block[q] /\ Stored(q)' = Stored(q)
        BY <1>1, <3>2 DEF CommonInv, CounterTypeOK, Stored
      <4> QED BY <1>1, <1>2, <1>4, <4>1 DEF CommonInv, BlockOK
    <3> QED BY <3>1, <3>2
  <2> QED BY <1>4, <2>1, <2>2 DEF CommonInv
<1>6. CASE Serial
  <2>1. Counter!Forget(p)
    BY <1>1, <1>4, <1>6 DEF Counter!Forget, CommonInv, CounterTypeOK
  <2> QED BY <1>5, <2>1 DEF Refines, Counter!Next
<1> QED BY <1>1, <1>5, <1>6, NotSerialRefines

\* A step outside the section and outside user mode changes nothing that
\* counts, be it that the copy ends, that it faults, or that the process
\* begins to wait for the lock.
LEMMA OutsideStep ==
  ASSUME CommonInv, NEW p \in Proc,
         NEW there \in {"user", "lock", "wait"},
         pc[p] \in {"copy", "lock"}, pc' = [pc EXCEPT ![p] = there],
         UNCHANGED <<mod, fds, lock, cnt, block>>
  PROVE  CommonInv' /\ Refines
<1>1. \A q \in Proc : InSection(q)' <=> InSection(q)
  BY DEF InSection, Section, CommonInv, CounterTypeOK
<1>2. \A q \in Proc : InSection(q) => Stored(q)' = Stored(q)
  BY DEF InSection, Section, Stored, CommonInv, CounterTypeOK
<1>3. Serial' = Serial /\ (Serial => OneOwner' /\ Untaken' = Untaken)
  BY <1>1, <1>2, UntakenSame DEF Serial, CommonInv
<1>4. CommonInv'
  <2>1. CounterTypeOK' /\ PinInv'
    BY DEF CommonInv, CounterTypeOK, MiscTypeOK, PinInv
  <2>2. ASSUME NEW q \in Proc PROVE BlockOK(q)'
    BY <1>3 DEF CommonInv, CounterTypeOK, BlockOK, InSection, Section, Stored
  <2> QED BY <1>3, <2>1, <2>2 DEF CommonInv
<1>5. CASE Serial
  <2>1. UNCHANGED Counter!vars
    BY <1>3, <1>5 DEF Counter!vars, CommonInv, CounterTypeOK, BlockOK
  <2> QED BY <1>4, <2>1 DEF Refines
<1> QED BY <1>4, <1>5, NotSerialRefines

\* The lock lets a process into the section; a Serial one when nobody is in it.
LEMMA EnterStep ==
  ASSUME CommonInv, NEW p \in Proc, Serial => \A q \in Proc : ~InSection(q),
         pc[p] \in {"lock", "wait"}, pc' = [pc EXCEPT ![p] = "load"],
         UNCHANGED <<mod, fds, lock, cnt, block>>
  PROVE  CommonInv' /\ Refines
<1>1. InSection(p)' /\ \A q \in Proc : q # p => (InSection(q)' <=> InSection(q))
  BY DEF InSection, Section, CommonInv, CounterTypeOK
<1>2. Serial' = Serial /\ (Serial => OneOwner')
  BY <1>1 DEF Serial, OneOwner
<1>3. Len(block[p]) = 0 /\ Stored(p)' = 0
  BY DEF CommonInv, CounterTypeOK, BlockOK, Stored
<1>4. Serial => Untaken' = 0 /\ Untaken = 0
  BY <1>1, <1>2, <1>3, UntakenOf, UntakenOfNext
<1>5. CommonInv'
  <2>1. CounterTypeOK' /\ PinInv'
    BY DEF CommonInv, CounterTypeOK, MiscTypeOK, PinInv, Section
  <2>2. BlockOK(p)'
    BY <1>3, CounterAssumption DEF CommonInv, CounterTypeOK, BlockOK, Section
  <2>3. ASSUME NEW q \in Proc, q # p PROVE BlockOK(q)'
    BY <1>1, <1>2, <2>3 DEF CommonInv, CounterTypeOK, BlockOK, InSection, Section
  <2> QED BY <1>2, <2>1, <2>2, <2>3 DEF CommonInv
<1>6. CASE Serial
  <2>1. UNCHANGED Counter!vars
    BY <1>2, <1>4, <1>6 DEF Counter!vars, CommonInv, CounterTypeOK, BlockOK
  <2> QED BY <1>5, <2>1 DEF Refines
<1> QED BY <1>5, <1>6, NotSerialRefines

\* The load of cnt++ appends the number that continues the block.
LEMMA LoadStep ==
  ASSUME CommonInv, NEW p \in Proc, Load(p)
  PROVE  CommonInv' /\ Refines
<1> DEFINE n == Len(block[p])
<1>1. /\ pc[p] = "load" /\ pc' = [pc EXCEPT ![p] = "store"]
      /\ block' = [block EXCEPT ![p] = Append(block[p], cnt)]
      /\ mod' = mod /\ fds' = fds /\ cnt' = cnt /\ lock' = lock
  BY DEF Load, CommonInv, CounterTypeOK
<1>2. /\ block[p] \in Seq(Nat) /\ n \in Nat
      /\ block'[p] = Append(block[p], cnt)
      /\ Len(block'[p]) = n + 1
  BY <1>1 DEF CommonInv, CounterTypeOK
<1>3. \A q \in Proc : InSection(q)' <=> InSection(q)
  BY <1>1 DEF InSection, Section, CommonInv, CounterTypeOK
<1>4. Stored(p)' = n /\ Stored(p) = n /\ InSection(p)
  BY <1>1, <1>2 DEF Stored, InSection, Section, CommonInv, CounterTypeOK
<1>5. Serial' = Serial /\ (Serial => OneOwner' /\ Untaken' = Untaken)
  <2>1. CASE Serial
    <3>1. OneOwner /\ \A q \in Proc : InSection(q) => q = p
      BY <1>4, <2>1 DEF CommonInv, OneOwner
    <3>2. \A q \in Proc : InSection(q) => Stored(q)' = Stored(q)
      BY <1>4, <3>1
    <3> QED BY <1>1, <1>3, <3>1, <3>2, UntakenSame DEF Serial
  <2> QED BY <1>1, <2>1 DEF Serial
<1>6. CommonInv'
  <2>1. /\ n < Lines /\ cnt \in Nat
        /\ Serial => /\ cnt - n \in Nat
                     /\ \A i \in 1..n : block[p][i] = cnt - n + i - 1
    BY <1>1, <1>4 DEF CommonInv, CounterTypeOK, BlockOK
  <2>2. CounterTypeOK' /\ PinInv'
    <3>1. Append(block[p], cnt) \in Seq(Nat) /\ Len(block'[p]) <= Lines
      BY <1>2, <2>1, CounterAssumption
    <3>2. \A q \in Proc : Len(block'[q]) <= Lines
      BY <1>1, <3>1 DEF CommonInv, CounterTypeOK
    <3> QED BY <1>1, <3>1, <3>2 DEF CommonInv, CounterTypeOK, MiscTypeOK, PinInv, Section
  <2>3. BlockOK(p)'
    <3>1. pc'[p] = "store" /\ InSection(p)'
      BY <1>1 DEF CommonInv, CounterTypeOK, InSection, Section
    <3> HIDE DEF n
    <3>2. ASSUME Serial, NEW i \in 1..(n + 1) PROVE block'[p][i] = cnt - n + i - 1
      <4>1. CASE i = n + 1
        BY <1>2, <2>1, <4>1 DEF n
      <4>2. CASE i # n + 1
        <5>1. i \in 1..n
          BY <1>2, <4>2
        <5>2. block[p][i] = cnt - n + i - 1
          BY <2>1, <3>2, <5>1
        <5>3. Append(block[p], cnt)[i] = block[p][i]
          BY <1>2, <2>1, <5>1 DEF n
        <5> QED BY <1>2, <5>2, <5>3
      <4> QED BY <4>1, <4>2
    <3>3. /\ Len(block'[p]) \in 1..Lines
          /\ Serial' => /\ cnt' - Stored(p)' \in Nat
                        /\ \A i \in 1..Len(block'[p]) :
                             block'[p][i] = cnt' - Stored(p)' + i - 1
      BY <1>1, <1>2, <1>4, <1>5, <2>1, <3>2, CounterAssumption
    <3> QED BY <3>1, <3>3 DEF BlockOK
  <2>4. ASSUME NEW q \in Proc, q # p PROVE BlockOK(q)'
    BY <1>1, <1>3, <1>5, <2>4
       DEF CommonInv, CounterTypeOK, BlockOK, InSection, Section, Stored
  <2> QED BY <1>5, <2>2, <2>3, <2>4 DEF CommonInv
<1>7. CASE Serial
  <2>1. \A q \in Proc : (pc'[q] = "user" <=> pc[q] = "user")
                        /\ (pc[q] = "user" => block'[q] = block[q])
    BY <1>1 DEF CommonInv, CounterTypeOK
  <2>2. UNCHANGED Counter!vars
    BY <1>1, <1>5, <1>7, <2>1 DEF Counter!vars
  <2> QED BY <1>6, <2>2 DEF Refines
<1> QED BY <1>1, <1>6, <1>7, NotSerialRefines

\* The store of cnt++ makes the counter the successor of what was printed.
LEMMA StoreStep ==
  ASSUME CommonInv, NEW p \in Proc, Store(p)
  PROVE  CommonInv' /\ Refines
<1> DEFINE n == Len(block[p])
<1>1. /\ pc[p] = "store"
      /\ pc' = [pc EXCEPT ![p] = IF n < Lines THEN "load" ELSE "unlock"]
      /\ cnt' = block[p][n] + 1
      /\ mod' = mod /\ fds' = fds /\ block' = block /\ lock' = lock
  BY DEF Store
<1>2. InSection(p) /\ Stored(p) = n - 1 /\ n \in 1..Lines /\ n \in Nat /\ cnt \in Nat
  BY <1>1 DEF InSection, Section, Stored, CommonInv, CounterTypeOK, BlockOK
<1>3. /\ \A q \in Proc : InSection(q)' <=> InSection(q)
      /\ Serial' = Serial
      /\ Serial => OneOwner'
  BY <1>1 DEF InSection, Section, CommonInv, CounterTypeOK, Serial, OneOwner
<1>4. Stored(p)' = n /\ InSection(p)'
  BY <1>1, <1>2, <1>3 DEF Stored, CommonInv, CounterTypeOK
<1>5. CounterTypeOK'
  <2>1. block[p] \in Seq(Nat)
    BY DEF CommonInv, CounterTypeOK
  <2>2. cnt' \in Nat
    <3>1. block[p][n] \in Nat
      BY <1>2, <2>1, ElementOfSeq
    <3> QED BY <1>1, <3>1
  <2> QED BY <1>1, <2>2 DEF CommonInv, CounterTypeOK, MiscTypeOK, Section
<1>6. PinInv'
  BY <1>1 DEF CommonInv, CounterTypeOK, PinInv
<1>7. ASSUME Serial
      PROVE  /\ cnt' = cnt + 1
             /\ Untaken = n - 1 /\ Untaken' = n
             /\ cnt - (n - 1) \in Nat
             /\ \A i \in 1..n : block[p][i] = cnt - (n - 1) + i - 1
             /\ \A q \in Proc : InSection(q) => q = p
  <2>1. /\ cnt - (n - 1) \in Nat
        /\ \A i \in 1..n : block[p][i] = cnt - (n - 1) + i - 1
    BY <1>2, <1>7 DEF CommonInv, BlockOK
  <2>2. OneOwner /\ \A q \in Proc : InSection(q) => q = p
    BY <1>2, <1>7 DEF CommonInv, OneOwner
  <2>3. cnt' = cnt + 1
    <3>1. n \in 1..n /\ cnt - (n - 1) + n - 1 = cnt
      BY <1>2
    <3> HIDE DEF n
    <3>2. block[p][n] = cnt
      BY <2>1, <3>1
    <3> QED BY <1>1, <3>2
  <2>4. Untaken = n - 1 /\ Untaken' = n
    BY <1>2, <1>3, <1>4, <1>7, <2>2, UntakenOf, UntakenOfNext
  <2> QED BY <2>1, <2>2, <2>3, <2>4
<1>8. CommonInv'
  <2>1. BlockOK(p)'
    <3>1. pc'[p] = IF n < Lines THEN "load" ELSE "unlock"
      BY <1>1 DEF CommonInv, CounterTypeOK
    <3>2. block'[p] = block[p] /\ Len(block'[p]) = n
      BY <1>1
    <3> HIDE DEF n
    <3>3. Serial' => /\ cnt' - Stored(p)' \in Nat
                     /\ \A i \in 1..Len(block'[p]) :
                          block'[p][i] = cnt' - Stored(p)' + i - 1
      <4> SUFFICES ASSUME Serial
                   PROVE  /\ cnt' - n \in Nat
                          /\ \A i \in 1..n : block[p][i] = cnt' - n + i - 1
        BY <1>3, <1>4, <3>2
      <4>1. cnt' - n = cnt - (n - 1)
        BY <1>2, <1>7
      <4> QED BY <1>7, <4>1
    <3>4. /\ pc'[p] \in {"load", "unlock"}
          /\ pc'[p] = "load" => n < Lines
          /\ pc'[p] = "unlock" => n = Lines
      BY <1>2, <3>1, CounterAssumption
    <3> QED BY <3>2, <3>3, <3>4 DEF BlockOK
  <2>2. ASSUME NEW q \in Proc, q # p PROVE BlockOK(q)'
    <3>1. pc'[q] = pc[q] /\ block'[q] = block[q] /\ (Serial => ~InSection(q)')
      BY <1>1, <1>3, <1>7, <2>2 DEF CommonInv, CounterTypeOK
    <3> QED BY <1>3, <3>1 DEF CommonInv, BlockOK
  <2> QED BY <1>3, <1>5, <1>6, <2>1, <2>2 DEF CommonInv
<1>9. CASE Serial
  <2>1. cnt' - Untaken' = cnt - Untaken
    BY <1>2, <1>7, <1>9
  <2>2. \A q \in Proc : pc'[q] = "user" <=> pc[q] = "user"
    BY <1>1 DEF CommonInv, CounterTypeOK
  <2>3. UNCHANGED Counter!vars
    BY <1>1, <1>3, <1>9, <2>1, <2>2 DEF Counter!vars
  <2> QED BY <1>8, <2>3 DEF Refines
<1> QED BY <1>1, <1>8, <1>9, NotSerialRefines

-----------------------------------------------------------------------------
\* A writer leaves the section, and the semaphore may hand its permit to a
\* sleeper, which enters in the same step: heirs is that sleeper, or nobody.
\* The one that leaves takes its block of numbers.
LEMMA HandOver ==
  ASSUME CommonInv, NEW p \in Proc, NEW heirs \in SUBSET Proc,
         \A q, r \in heirs : q = r,
         \A q \in heirs : pc[q] = "wait",
         pc[p] = "unlock",
         pc' = [q \in Proc |->
                  IF q = p THEN "user" ELSE IF q \in heirs THEN "load" ELSE pc[q]],
         UNCHANGED <<mod, fds, lock, cnt, block>>
  PROVE  CommonInv' /\ Refines
<1>1. InSection(p) /\ Len(block[p]) = Lines /\ Stored(p) = Lines
  <2>1. InSection(p) /\ Len(block[p]) = Lines
    BY DEF CommonInv, BlockOK, InSection, Section
  <2> QED BY <2>1, CounterAssumption DEF Stored
<1>2. /\ pc'[p] = "user"
      /\ \A q \in heirs : /\ pc'[q] = "load" /\ block[q] = <<>>
                          /\ Stored(q)' = 0 /\ InSection(q)'
      /\ \A q \in Proc : q # p /\ q \notin heirs => pc'[q] = pc[q]
  BY DEF CommonInv, CounterTypeOK, BlockOK, Stored, InSection, Section
<1>3. Serial' = Serial
  BY DEF Serial
<1>4. Serial => \A q \in Proc : InSection(q)' <=> q \in heirs
  BY <1>1, <1>2 DEF CommonInv, OneOwner, InSection, Section
<1>5. Serial => OneOwner' /\ Untaken = Lines /\ Untaken' = 0
  <2> SUFFICES ASSUME Serial PROVE OneOwner' /\ Untaken = Lines /\ Untaken' = 0
    OBVIOUS
  <2>1. OneOwner /\ OneOwner'
    BY <1>4 DEF CommonInv, OneOwner
  <2>2. Untaken = Lines
    BY <1>1, <2>1, UntakenOf
  <2>3. Untaken' = 0
    BY <1>2, <1>4, <2>1, UntakenOfNext
  <2> QED BY <2>1, <2>2, <2>3
<1>6. CommonInv'
  <2>1. CounterTypeOK' /\ PinInv'
    BY DEF CommonInv, CounterTypeOK, MiscTypeOK, PinInv, Section
  <2>2. ASSUME NEW q \in Proc PROVE BlockOK(q)'
    <3>1. CASE q = p
      BY <1>2, <3>1 DEF BlockOK, InSection, Section
    <3>2. CASE q \in heirs
      <4>1. block'[q] = <<>> /\ pc'[q] = "load" /\ cnt' \in Nat
        BY <1>2, <3>2 DEF CommonInv, CounterTypeOK
      <4> QED BY <1>2, <3>2, <4>1, CounterAssumption DEF BlockOK
    <3>3. CASE q # p /\ q \notin heirs
      <4>1. pc'[q] = pc[q] /\ block'[q] = block[q] /\ cnt' = cnt /\ BlockOK(q)
        BY <1>2, <3>3 DEF CommonInv
      <4> QED BY <1>3, <4>1 DEF BlockOK, InSection, Stored
    <3> QED BY <3>1, <3>2, <3>3
  <2> QED BY <1>3, <1>5, <2>1, <2>2 DEF CommonInv
<1>7. CASE Serial
  <2>1. /\ cnt - Lines \in Nat /\ cnt \in Nat /\ block[p] \in Seq(Nat)
        /\ \A i \in 1..Lines : block[p][i] = cnt - Lines + i - 1
    BY <1>1, <1>7 DEF CommonInv, CounterTypeOK, BlockOK
  <2>2. block[p] = [i \in 1..Lines |-> cnt - Lines + i - 1]
    <3>1. block[p] = [i \in 1..Len(block[p]) |-> block[p][i]]
      BY <2>1, LenProperties
    <3> QED BY <1>1, <2>1, <3>1
  <2>3. cnt' - Untaken' = cnt - Untaken + Lines
    BY <1>5, <1>7, <2>1, CounterAssumption
  <2>4. \A q \in Proc : q # p => (pc'[q] = "user" <=> pc[q] = "user")
    BY <1>2
  <2> DEFINE shown == [q \in Proc |-> IF Serial /\ pc[q] = "user" THEN block[q] ELSE <<>>]
  <2>5. shown' = [shown EXCEPT ![p] = block[p]]
    BY <1>2, <1>3, <1>7, <2>4
  <2>6. Counter!Take(p)
    BY <1>3, <1>5, <1>7, <2>1, <2>2, <2>3, <2>5 DEF Counter!Take
  <2> QED BY <1>6, <2>6 DEF Refines, Counter!Next
<1> QED BY <1>6, <1>7, NotSerialRefines

\* The mutex and the spinlock hand over nothing.
LEMMA LeaveStep ==
  ASSUME CommonInv, NEW p \in Proc,
         pc[p] = "unlock", pc' = [pc EXCEPT ![p] = "user"],
         UNCHANGED <<mod, fds, lock, cnt, block>>
  PROVE  CommonInv' /\ Refines
<1>1. pc' = [q \in Proc |->
               IF q = p THEN "user" ELSE IF q \in {} THEN "load" ELSE pc[q]]
  BY DEF CommonInv, CounterTypeOK
<1>2. /\ {} \in SUBSET Proc
      /\ \A q, r \in {} : q = r
      /\ \A q \in {} : pc[q] = "wait"
  OBVIOUS
<1> QED BY ONLY <1>1, <1>2, CommonInv, p \in Proc, pc[p] = "unlock",
               UNCHANGED <<mod, fds, lock, cnt, block>>, HandOver, Zenon
=============================================================================

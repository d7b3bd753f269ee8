-------------------------- MODULE AtomicOpen_proofs --------------------------
(***************************************************************************)
(* Proofs about the exclusive-open driver for every finite set of          *)
(* processes: its counter always balances, hence at most one process has   *)
(* the device open; and, when opens are serialised, it implements          *)
(* ExclusiveDevice.                                                        *)
(***************************************************************************)
EXTENDS AtomicOpen, FiniteSetTheorems, TLAPS

\* A set of processes is finite and its size is a natural number.
LEMMA ProcSubset ==
  ASSUME NEW S \in SUBSET Proc
  PROVE  /\ IsFiniteSet(S)
         /\ Cardinality(S) \in Nat
         /\ Cardinality(S) = 0 <=> S = {}
BY ProcAssumption, FS_Subset, FS_CardinalityType, FS_EmptySet

\* Adding a new member, or removing a member, changes the size by one.
LEMMA AddProc ==
  ASSUME NEW S \in SUBSET Proc, NEW p \in Proc, p \notin S
  PROVE  Cardinality(S \cup {p}) = Cardinality(S) + 1
BY ProcSubset, FS_AddElement

LEMMA RemoveProc ==
  ASSUME NEW S \in SUBSET Proc, NEW p \in S
  PROVE  Cardinality(S \ {p}) = Cardinality(S) - 1
BY ProcSubset, FS_RemoveElement

-----------------------------------------------------------------------------
\* The inductive invariant: exclusion is not inductive on its own, it follows
\* from the counter's balance, which in turn needs that an unloaded module has
\* no file and no open under way.
IInv == TypeOK /\ CountBalance /\ UnloadSafe /\ Exclusive

LEMMA InitIInv == Init => IInv
BY DEF Init, MiscInit, IInv, TypeOK, MiscTypeOK, CountBalance, UnloadSafe, Exclusive

\* Every step of the driver keeps the inductive invariant.
LEMMA NextIInv == IInv /\ [Next]_vars => IInv'
<1> SUFFICES ASSUME IInv, [Next]_vars PROVE IInv'
  OBVIOUS
<1> USE DEF IInv, TypeOK, MiscTypeOK, CountBalance, UnloadSafe, Exclusive
<1> DEFINE F == Cardinality(fds)
           U == Cardinality(undo)
<1>0. /\ F \in Nat /\ U \in Nat
      /\ F = 0 <=> fds = {}
      /\ U = 0 <=> undo = {}
  BY ProcSubset
<1>1. CASE my_misc_init
  <2>1. fds' = {} /\ undo' = {} /\ v' = 1 /\ mod' = "coming"
    BY <1>1 DEF my_misc_init, Insmod
  <2>2. Cardinality({}) = 0
    BY FS_EmptySet
  <2> QED BY <2>1, <2>2
<1>2. CASE my_misc_init_register
  <2>1. /\ UNCHANGED <<fds, undo, v>>
        /\ mod = "coming"
        /\ mod' \in {"live", "unloaded"}
    BY <1>2 DEF my_misc_init_register, MiscRegister, MiscRegisterFails
  <2> QED BY <2>1
<1>3. CASE my_misc_exit
  BY <1>3 DEF my_misc_exit, Rmmod, Pinned, misc_fops_owner
<1>4. ASSUME NEW p \in Proc, my_misc_open(p) PROVE IInv'
  <2>1. /\ mod = "live" /\ mod' = "live"
        /\ p \notin fds /\ p \notin undo
        /\ v' = v - 1
    BY <1>4 DEF my_misc_open, OpenCall, FileOpen, miscVars
  <2>2. v = 1 - F - U
    BY <2>1
  <2>3. CASE v' = 0
    <3>1. fds' = fds \cup {p} /\ undo' = undo
      BY <1>4, <2>3 DEF my_misc_open, FileOpen
    <3>2. fds = {} /\ undo = {}
      BY <1>0, <2>1, <2>2, <2>3
    <3>3. fds' = {p} /\ undo' = {}
      BY <3>1, <3>2
    <3>4. Cardinality({p}) = 1 /\ Cardinality({}) = 0
      BY FS_Singleton, FS_EmptySet
    <3> QED BY <2>1, <2>3, <3>3, <3>4
  <2>4. CASE v' # 0
    <3>1. fds' = fds /\ undo' = undo \cup {p}
      BY <1>4, <2>4 DEF my_misc_open, miscVars
    <3>2. Cardinality(undo') = U + 1
      BY <2>1, <3>1, AddProc
    <3> QED BY <1>0, <2>1, <2>2, <3>1, <3>2
  <2> QED BY <2>3, <2>4
<1>5. ASSUME NEW p \in Proc, my_misc_open_fail(p) PROVE IInv'
  <2>1. /\ p \in undo /\ v' = v + 1
        /\ undo' = undo \ {p}
        /\ mod' = mod /\ fds' = fds
    BY <1>5 DEF my_misc_open_fail, miscVars
  <2>2. Cardinality(undo') = U - 1
    BY <2>1, RemoveProc
  <2>3. mod = "live" /\ v = 1 - F - U /\ U >= 1
    BY <1>0, <2>1
  <2> QED BY <1>0, <2>1, <2>2, <2>3
<1>6. ASSUME NEW p \in Proc, my_misc_release(p) PROVE IInv'
  <2>1. /\ p \in fds /\ v' = v + 1
        /\ fds' = fds \ {p}
        /\ mod' = mod /\ undo' = undo
    BY <1>6 DEF my_misc_release, FileClose
  <2>2. Cardinality(fds') = F - 1
    BY <2>1, RemoveProc
  <2>3. mod = "live" /\ v = 1 - F - U /\ F >= 1
    BY <1>0, <2>1
  <2> QED BY <1>0, <2>1, <2>2, <2>3
<1>7. CASE UNCHANGED vars
  BY <1>7 DEF vars
<1> QED
  BY <1>1, <1>2, <1>3, <1>4, <1>5, <1>6, <1>7 DEF Next

LEMMA SpecIInv == Spec => []IInv
BY InitIInv, NextIInv, PTL DEF Spec

-----------------------------------------------------------------------------
\* Every reachable state is well typed and the counter never exceeds one.
THEOREM TypeCorrect == Spec => []TypeOK
<1>1. IInv => TypeOK BY DEF IInv
<1> QED BY <1>1, SpecIInv, PTL

\* The counter balances: the driver never leaks the unit that admits an opener.
THEOREM CounterBalances == Spec => []CountBalance
<1>1. IInv => CountBalance BY DEF IInv
<1> QED BY <1>1, SpecIInv, PTL

\* At most one process has the device open, with or without the core's mutex.
THEOREM MutualExclusion == Spec => []Exclusive
<1>1. IInv => Exclusive BY DEF IInv
<1> QED BY <1>1, SpecIInv, PTL

\* The module is never unloaded under a process that uses it.
THEOREM NeverUnloadedInUse == Spec => []UnloadSafe
<1>1. IInv => UnloadSafe BY DEF IInv
<1> QED BY <1>1, SpecIInv, PTL

-----------------------------------------------------------------------------
\* With serialised opens, each step is a step of the exclusive device or
\* leaves it alone.
LEMMA StepRefines ==
  ASSUME SerialOpen, IInv, [Next]_vars
  PROVE  [Device!Next]_(Device!vars)
<1> USE DEF Device!Next, Device!vars, Device!Grant, Device!Refuse,
            Device!TellBusy, Device!Release
<1>1. CASE my_misc_init
  BY <1>1 DEF my_misc_init, Insmod
<1>2. CASE my_misc_init_register
  BY <1>2 DEF my_misc_init_register, MiscRegister, MiscRegisterFails
<1>3. CASE my_misc_exit
  BY <1>3 DEF my_misc_exit, Rmmod
<1>4. ASSUME NEW p \in Proc, my_misc_open(p) PROVE Device!Next
  <2>1. /\ undo = {} /\ p \notin fds /\ mod = "live" /\ v' = v - 1
    BY <1>4 DEF my_misc_open, OpenCall
  <2>2. /\ Cardinality(fds) \in Nat /\ Cardinality(undo) = 0
        /\ Cardinality(fds) = 0 <=> fds = {}
    BY <2>1, ProcSubset, FS_EmptySet DEF IInv, TypeOK, MiscTypeOK
  <2>3. v = 1 - Cardinality(fds)
    BY <2>1, <2>2 DEF IInv, CountBalance
  <2>4. CASE v' = 0
    <3>1. fds = {}
      BY <2>1, <2>2, <2>3, <2>4
    <3>2. fds' = fds \cup {p} /\ undo' = undo
      BY <1>4, <2>4 DEF my_misc_open, FileOpen
    <3>3. Device!Grant(p)
      BY <2>1, <3>1, <3>2
    <3> QED BY <3>3
  <2>5. CASE v' # 0
    <3>1. fds # {}
      BY <2>1, <2>2, <2>3, <2>5
    <3>2. fds' = fds /\ undo' = undo \cup {p}
      BY <1>4, <2>5 DEF my_misc_open, miscVars
    <3>3. Device!Refuse(p)
      BY <2>1, <3>1, <3>2
    <3> QED BY <3>3
  <2> QED BY <2>4, <2>5
<1>5. ASSUME NEW p \in Proc, my_misc_open_fail(p) PROVE Device!Next
  <2>1. Device!TellBusy(p)
    BY <1>5 DEF my_misc_open_fail, miscVars
  <2> QED BY <2>1
<1>6. ASSUME NEW p \in Proc, my_misc_release(p) PROVE Device!Next
  <2>1. p \in fds /\ fds' = fds \ {p} /\ undo' = undo
    BY <1>6 DEF my_misc_release, FileClose
  <2>2. fds' = {}
    BY <2>1 DEF IInv, Exclusive
  <2>3. Device!Release(p)
    BY <2>1, <2>2
  <2> QED BY <2>3
<1>7. CASE UNCHANGED vars
  BY <1>7 DEF vars
<1> QED
  BY <1>1, <1>2, <1>3, <1>4, <1>5, <1>6, <1>7 DEF Next

\* Serialised by the misc core, the driver implements the exclusive device: in
\* particular -EAGAIN is only ever the answer while another process has it.
THEOREM Refinement ==
  ASSUME SerialOpen
  PROVE  Spec => ExclusiveDeviceSpec
<1>1. Init => Device!Init
  BY DEF Init, MiscInit, Device!Init
<1>2. IInv /\ [Next]_vars => [Device!Next]_(Device!vars)
  BY StepRefines
<1> QED
  BY <1>1, <1>2, SpecIInv, PTL DEF Spec, ExclusiveDeviceSpec, Device!Spec
=============================================================================

-------------------------- MODULE BusDrivers_proofs --------------------------
(***************************************************************************)
(* What the runs check of the drivers that are probed holds for every      *)
(* number of open files and every choice of drivers.  The invariant ties   *)
(* what each driver has and knows to how many calls its probe or remove    *)
(* has left.                                                               *)
(***************************************************************************)
EXTENDS BusDrivers, TLAPS

\* What can be left of the calls of probe and of remove.
PlatformProbe ==
  {<<"drvdata", "dt", "region", "cdev", "class", "node">>,
   <<"dt", "region", "cdev", "class", "node">>, <<"region", "cdev", "class", "node">>,
   <<"cdev", "class", "node">>, <<"class", "node">>, <<"node">>, <<>>}

KeyProbe ==
  {<<"irq", "allocate", "capability", "register">>, <<"allocate", "capability", "register">>,
   <<"capability", "register">>, <<"register">>, <<>>}

ChipProbe ==
  {<<"devm", "read", "set", "write", "read">>, <<"read", "set", "write", "read">>,
   <<"set", "write", "read">>, <<"write", "read">>, <<"read">>, <<>>}

PlatformRemove ==
  {<<"class", "cdev", "region", "drvdata">>, <<"cdev", "region", "drvdata">>,
   <<"region", "drvdata">>, <<"drvdata">>, <<>>}

TodoInv ==
  /\ phase = "probe" =>
       \/ driver = "my_platform" /\ todo \in PlatformProbe
       \/ driver = "my_key" /\ todo \in KeyProbe
       \/ driver = "tsu6721" /\ todo \in ChipProbe
  /\ phase = "remove" =>
       \/ driver = "my_platform" /\ todo \in PlatformRemove
       \/ driver = "my_key" /\ todo \in {<<"unregister">>, <<>>}
       \/ driver = "tsu6721" /\ todo \in {<<"client">>, <<>>}

\* What my_platform may leave behind, and what it has at each call.
Left == {"node"} \cup (IF dt = "no_node" THEN {"drvdata"} ELSE {})

PlatformInv ==
  /\ driver # "my_platform" \/ phase \in {"unloaded", "unbound"} => have \subseteq Left
  /\ driver = "my_platform" /\ phase = "probe" =>
       /\ Len(todo) = 6 => have \subseteq Left
       /\ Len(todo) = 5 => have \subseteq Left \cup {"drvdata"}
       /\ Len(todo) < 5 => dt = "full"
  /\ driver = "my_platform" /\ phase \in {"bound", "remove"} => dt = "full"
  /\ driver = "my_platform" /\ phase = "remove" =>
       /\ Len(todo) < 4 => "class" \notin have
       /\ Len(todo) < 3 => "cdev" \notin have
       /\ Len(todo) < 2 => "region" \notin have
       /\ Len(todo) < 1 => "drvdata" \notin have

\* A difference between what was told and the key's level is accounted for by an
\* edge that nobody has answered or by a handler that has read the level.
KeyInv ==
  /\ irq = "free" => ~pend /\ seen = 2 /\ came = "none"
  /\ seen # 2 /\ ~pend => seen = level
  /\ input = "fresh" => came # "late"
  /\ irq = "ours" /\ ~pend /\ seen = 2 /\ phase # "oops" /\ came = "late" => told = level

\* The cache is what was last written, until a read replaces it by what the
\* chip has.
ChipInv ==
  /\ driver = "tsu6721" /\ phase = "probe" =>
       /\ Len(todo) \in 1..2 => cache = "set"
       /\ Len(todo) = 1 => chip = "set" \/ "write" \in lost
  /\ driver = "tsu6721" /\ (phase = "bound" \/ (phase = "probe" /\ todo = <<>>)) =>
       cache = chip \/ {"write", "read_back"} \subseteq lost

\* The types, those of the truth values apart, which are for another prover than
\* those of the numbers.
FlagsOK == leaving \in BOOLEAN /\ pend \in BOOLEAN

ValuesOK ==
  /\ driver \in Drivers
  /\ phase \in {"unloaded", "unbound", "probe", "bound", "remove", "oops", "hung"}
  /\ phase \in {"unloaded", "unbound", "bound"} => todo = <<>>
  /\ dt \in {"no_node", "no_properties", "full"}
  /\ have \subseteq {"drvdata", "region", "cdev", "class", "node"}
  /\ files \in 0..MaxFiles
  /\ irq \in {"free", "ours", "stray"}
  /\ input \in {"null", "fresh", "capable", "registered", "freed"}
  /\ level \in {0, 1} /\ seen \in 0..2 /\ told \in 0..2
  /\ came \in {"none", "early", "late"}
  /\ chip \in {"reset", "set"} /\ cache \in {"zero", "reset", "set"}
  /\ lost \subseteq {"read", "write", "read_back"}

IInv == FlagsOK /\ ValuesOK /\ TodoInv /\ PlatformInv /\ KeyInv /\ ChipInv
-----------------------------------------------------------------------------
\* The first call left of a probe or remove tells how many are left.
LEMMA PlatformProbeCalls ==
  ASSUME NEW s \in PlatformProbe, s # <<>>
  PROVE  /\ Tail(s) \in PlatformProbe
         /\ Len(s) \in 1..6 /\ Len(Tail(s)) = Len(s) - 1
         /\ Head(s) = "drvdata" => Len(s) = 6
         /\ Head(s) = "dt" => Len(s) = 5
         /\ Head(s) = "region" => Len(s) = 4
         /\ Head(s) = "cdev" => Len(s) = 3
         /\ Head(s) = "class" => Len(s) = 2
         /\ Head(s) = "node" => Len(s) = 1
         /\ Head(s) \in {"drvdata", "dt", "region", "cdev", "class", "node"}
<1>1. Tail(s) \in PlatformProbe
  <2>1. CASE s = <<"drvdata", "dt", "region", "cdev", "class", "node">>
    BY <2>1, SMT DEF PlatformProbe
  <2>2. CASE s = <<"dt", "region", "cdev", "class", "node">>
    BY <2>2, SMT DEF PlatformProbe
  <2>3. CASE s = <<"region", "cdev", "class", "node">>
    BY <2>3, SMT DEF PlatformProbe
  <2>4. CASE s = <<"cdev", "class", "node">>
    BY <2>4, SMT DEF PlatformProbe
  <2>5. CASE s = <<"class", "node">>
    BY <2>5, SMT DEF PlatformProbe
  <2>6. CASE s = <<"node">>
    BY <2>6, SMT DEF PlatformProbe
  <2> QED BY <2>1, <2>2, <2>3, <2>4, <2>5, <2>6 DEF PlatformProbe
<1> QED BY <1>1, SMT DEF PlatformProbe

LEMMA PlatformRemoveCalls ==
  ASSUME NEW s \in PlatformRemove, s # <<>>
  PROVE  /\ Tail(s) \in PlatformRemove
         /\ Len(s) \in 1..4 /\ Len(Tail(s)) = Len(s) - 1
         /\ Head(s) = "class" => Len(s) = 4
         /\ Head(s) = "cdev" => Len(s) = 3
         /\ Head(s) = "region" => Len(s) = 2
         /\ Head(s) = "drvdata" => Len(s) = 1
         /\ Head(s) \in {"class", "cdev", "region", "drvdata"}
<1>1. Tail(s) \in PlatformRemove
  <2>1. CASE s = <<"class", "cdev", "region", "drvdata">>
    BY <2>1, SMT DEF PlatformRemove
  <2>2. CASE s = <<"cdev", "region", "drvdata">>
    BY <2>2, SMT DEF PlatformRemove
  <2>3. CASE s = <<"region", "drvdata">>
    BY <2>3, SMT DEF PlatformRemove
  <2>4. CASE s = <<"drvdata">>
    BY <2>4, SMT DEF PlatformRemove
  <2> QED BY <2>1, <2>2, <2>3, <2>4 DEF PlatformRemove
<1> QED BY <1>1, SMT DEF PlatformRemove

LEMMA KeyProbeCalls ==
  ASSUME NEW s \in KeyProbe, s # <<>>
  PROVE  /\ Tail(s) \in KeyProbe
         /\ Head(s) \in {"irq", "allocate", "capability", "register"}
<1>1. Tail(s) \in KeyProbe
  <2>1. CASE s = <<"irq", "allocate", "capability", "register">>
    BY <2>1, SMT DEF KeyProbe
  <2>2. CASE s = <<"allocate", "capability", "register">>
    BY <2>2, SMT DEF KeyProbe
  <2>3. CASE s = <<"capability", "register">>
    BY <2>3, SMT DEF KeyProbe
  <2>4. CASE s = <<"register">>
    BY <2>4, SMT DEF KeyProbe
  <2> QED BY <2>1, <2>2, <2>3, <2>4 DEF KeyProbe
<1> QED BY <1>1, SMT DEF KeyProbe

LEMMA ChipProbeCalls ==
  ASSUME NEW s \in ChipProbe, s # <<>>
  PROVE  /\ Tail(s) \in ChipProbe
         /\ Len(s) \in 1..5 /\ Len(Tail(s)) = Len(s) - 1
         /\ Head(s) = "devm" => Len(s) = 5
         /\ Head(s) = "read" => Len(s) \in {1, 4}
         /\ Head(s) = "set" => Len(s) = 3
         /\ Head(s) = "write" => Len(s) = 2
         /\ Head(s) \in {"devm", "read", "set", "write"}
         /\ Tail(s) = <<>> => Len(s) = 1
<1>1. Tail(s) \in ChipProbe
  <2>1. CASE s = <<"devm", "read", "set", "write", "read">>
    BY <2>1, SMT DEF ChipProbe
  <2>2. CASE s = <<"read", "set", "write", "read">>
    BY <2>2, SMT DEF ChipProbe
  <2>3. CASE s = <<"set", "write", "read">>
    BY <2>3, SMT DEF ChipProbe
  <2>4. CASE s = <<"write", "read">>
    BY <2>4, SMT DEF ChipProbe
  <2>5. CASE s = <<"read">>
    BY <2>5, SMT DEF ChipProbe
  <2> QED BY <2>1, <2>2, <2>3, <2>4, <2>5 DEF ChipProbe
<1>2. Len(s) \in 1..5 /\ Len(Tail(s)) = Len(s) - 1
  BY SMT DEF ChipProbe
<1>3. Tail(s) = <<>> => Len(s) = 1
  BY <1>2, SMT
<1>4. /\ Head(s) = "devm" => Len(s) = 5
      /\ Head(s) = "read" => Len(s) \in {1, 4}
      /\ Head(s) = "set" => Len(s) = 3
      /\ Head(s) = "write" => Len(s) = 2
      /\ Head(s) \in {"devm", "read", "set", "write"}
  BY SMT DEF ChipProbe
<1> QED BY <1>1, <1>2, <1>3, <1>4

LEMMA ProbeCallsAre ==
  /\ ProbeCalls("my_platform") \in PlatformProbe /\ Len(ProbeCalls("my_platform")) = 6
  /\ ProbeCalls("my_key") \in KeyProbe
  /\ ProbeCalls("tsu6721") \in ChipProbe /\ Len(ProbeCalls("tsu6721")) = 5
  /\ ProbeCalls("tsu6721") # <<>>
<1>1. ProbeCalls("my_platform") = <<"drvdata", "dt", "region", "cdev", "class", "node">>
  BY Zenon DEF ProbeCalls
<1>2. ProbeCalls("my_key") = <<"irq", "allocate", "capability", "register">>
  BY Zenon DEF ProbeCalls
<1>3. ProbeCalls("tsu6721") = <<"devm", "read", "set", "write", "read">>
  BY Zenon DEF ProbeCalls
<1> QED BY <1>1, <1>2, <1>3, SMT DEF PlatformProbe, KeyProbe, ChipProbe

LEMMA RemoveCallsAre ==
  /\ RemoveCalls("my_platform") \in PlatformRemove /\ Len(RemoveCalls("my_platform")) = 4
  /\ RemoveCalls("my_key") \in {<<"unregister">>, <<>>}
  /\ RemoveCalls("tsu6721") \in {<<"client">>, <<>>}
<1>1. RemoveCalls("my_platform") = <<"class", "cdev", "region", "drvdata">>
  BY Zenon DEF RemoveCalls
<1>2. RemoveCalls("my_key") = <<"unregister">>
  BY Zenon DEF RemoveCalls
<1>3. RemoveCalls("tsu6721") = <<"client">>
  BY Zenon DEF RemoveCalls
<1> QED BY <1>1, <1>2, <1>3, SMT DEF PlatformRemove

-----------------------------------------------------------------------------
LEMMA InitIInv == Init => IInv
<1> SUFFICES ASSUME Init PROVE IInv
  OBVIOUS
<1>1. FlagsOK
  BY DEF Init, FlagsOK
<1>2. ValuesOK
  BY BusAssumption DEF Init, ValuesOK
<1>3. TodoInv /\ PlatformInv /\ KeyInv /\ ChipInv
  BY DEF Init, TodoInv, PlatformInv, KeyInv, ChipInv, Left
<1> QED BY <1>1, <1>2, <1>3 DEF IInv

LEMMA KnownDriver ==
  ASSUME NEW d \in Drivers
  PROVE  d \in {"my_platform", "my_key", "tsu6721"}
BY BusAssumption

\* Probe begins with all its calls to make.
LEMMA ProbeBegins ==
  ASSUME driver' \in {"my_platform", "my_key", "tsu6721"}, phase' = "probe",
         todo' = ProbeCalls(driver'), have' \subseteq Left'
  PROVE  TodoInv' /\ PlatformInv' /\ ChipInv'
<1>1. CASE driver' = "my_platform"
  <2>1. todo' \in PlatformProbe /\ Len(todo') = 6
    BY <1>1, ProbeCallsAre
  <2>2. Len(todo') # 5 /\ ~(Len(todo') < 5)
    BY <2>1
  <2>3. PlatformInv'
    BY <1>1, <2>2, Zenon DEF PlatformInv
  <2> QED BY <1>1, <2>1, <2>3 DEF TodoInv, ChipInv
<1>2. CASE driver' = "my_key"
  <2>1. todo' \in KeyProbe
    BY <1>2, ProbeCallsAre
  <2> QED BY <1>2, <2>1 DEF TodoInv, PlatformInv, ChipInv
<1>3. CASE driver' = "tsu6721"
  <2>1. todo' \in ChipProbe /\ Len(todo') = 5 /\ todo' # <<>>
    BY <1>3, ProbeCallsAre
  <2>2. Len(todo') \notin 1..2 /\ Len(todo') # 1
    BY <2>1
  <2>3. ChipInv'
    BY <1>3, <2>1, <2>2, Zenon DEF ChipInv
  <2> QED BY <1>3, <2>1, <2>3 DEF TodoInv, PlatformInv
<1> QED BY <1>1, <1>2, <1>3

LEMMA InsmodStep ==
  ASSUME IInv, insmod
  PROVE  IInv'
<1>1. driver' \in {"my_platform", "my_key", "tsu6721"}
  BY KnownDriver DEF insmod
<1>2. phase' = "probe" /\ todo' = ProbeCalls(driver') /\ have' \subseteq Left'
  BY DEF insmod, platformVars, IInv, PlatformInv, Left
<1>3. FlagsOK'
  BY DEF insmod, IInv, FlagsOK
<1>4. ValuesOK' /\ KeyInv'
  BY DEF insmod, platformVars, IInv, KeyInv, ValuesOK
<1> QED BY <1>1, <1>2, <1>3, <1>4, ProbeBegins DEF IInv

LEMMA BindStep ==
  ASSUME IInv, bind
  PROVE  IInv'
<1>1. driver' \in {"my_platform", "my_key", "tsu6721"}
  BY KnownDriver DEF bind, IInv, ValuesOK
<1>2. phase' = "probe" /\ todo' = ProbeCalls(driver') /\ have' \subseteq Left'
  BY DEF bind, platformVars, IInv, PlatformInv, Left
<1>3. FlagsOK'
  BY DEF bind, keyVars, IInv, FlagsOK
<1>4. ValuesOK' /\ KeyInv'
  BY DEF bind, platformVars, keyVars, IInv, KeyInv, ValuesOK
<1> QED BY <1>1, <1>2, <1>3, <1>4, ProbeBegins DEF IInv

\* unbind and rmmod: remove begins with all its calls to make, or a driver that
\* has no device goes at once.
LEMMA StartRemoveStep ==
  ASSUME IInv, StartRemove, driver' = driver, UNCHANGED <<platformVars, keyVars, chipVars>>,
         leaving' \in BOOLEAN
  PROVE  IInv'
<1>1. driver \in {"my_platform", "my_key", "tsu6721"}
  BY KnownDriver DEF IInv, ValuesOK
<1> USE DEF StartRemove, platformVars, keyVars, chipVars, IInv
<1>2. FlagsOK' /\ ValuesOK' /\ KeyInv'
  BY DEF FlagsOK, ValuesOK, KeyInv
<1>3. TodoInv'
  BY <1>1, RemoveCallsAre DEF TodoInv
<1>4. PlatformInv'
  BY <1>1, RemoveCallsAre DEF PlatformInv, Left
<1>5. ChipInv'
  BY DEF ChipInv
<1> QED BY <1>2, <1>3, <1>4, <1>5

LEMMA RmmodStep ==
  ASSUME IInv, rmmod
  PROVE  IInv'
<1>1. CASE StartRemove /\ leaving' = TRUE /\ UNCHANGED keyVars
  BY <1>1, StartRemoveStep DEF rmmod
<1>2. CASE /\ phase = "unbound" /\ phase' = "unloaded" /\ irq' = GoneIrq
           /\ UNCHANGED <<leaving, todo, input, level, pend, seen, told, came>>
  <2> USE <1>2 DEF rmmod, platformVars, chipVars, IInv
  <2>1. FlagsOK' /\ ValuesOK' /\ KeyInv'
    BY DEF FlagsOK, ValuesOK, KeyInv, GoneIrq
  <2>2. TodoInv' /\ PlatformInv' /\ ChipInv'
    BY DEF TodoInv, PlatformInv, ChipInv, Left
  <2> QED BY <2>1, <2>2
<1> QED BY <1>1, <1>2 DEF rmmod

LEMMA ReturnStep ==
  ASSUME IInv, rmmod_freed_exit \/ probe_return \/ remove_return
  PROVE  IInv'
<1> USE DEF platformVars, chipVars, IInv
<1>1. CASE rmmod_freed_exit
  BY <1>1 DEF rmmod_freed_exit, keyVars, FlagsOK, ValuesOK, TodoInv, PlatformInv, KeyInv,
              ChipInv, Left
<1>2. CASE probe_return
  <2> USE <1>2 DEF probe_return, keyVars
  <2>1. FlagsOK' /\ ValuesOK' /\ KeyInv' /\ TodoInv' /\ ChipInv'
    BY DEF FlagsOK, ValuesOK, TodoInv, KeyInv, ChipInv
  <2>2. PlatformInv'
    BY DEF FlagsOK, ValuesOK, PlatformInv, Left
  <2> QED BY <2>1, <2>2
<1>3. CASE remove_return
  <2> USE <1>3 DEF remove_return
  <2>1. FlagsOK' /\ ValuesOK' /\ TodoInv' /\ ChipInv'
    BY DEF FlagsOK, ValuesOK, TodoInv, ChipInv, GoneIrq
  <2>2. KeyInv'
    BY DEF FlagsOK, ValuesOK, KeyInv, GoneIrq
  <2>3. PlatformInv'
    BY DEF FlagsOK, ValuesOK, PlatformInv, Left
  <2> QED BY <2>1, <2>2, <2>3
<1> QED BY <1>1, <1>2, <1>3

-----------------------------------------------------------------------------
\* my_platform: each call that succeeds adds or removes one thing.
LEMMA AcquireStep ==
  ASSUME IInv, NEW thing \in {"drvdata", "region", "cdev", "class", "node"}, acquire(thing)
  PROVE  IInv'
<1> USE DEF acquire, Call, keyVars, chipVars, IInv
<1>1. driver = "my_platform" /\ todo \in PlatformProbe
  BY KeyProbeCalls, ChipProbeCalls DEF TodoInv
<1>2. /\ todo' \in PlatformProbe
      /\ Len(todo) \in 1..6 /\ Len(todo') = Len(todo) - 1
      /\ thing = "drvdata" => Len(todo) = 6
      /\ thing # "drvdata" => Len(todo) < 5
  <2>1. todo' = Tail(todo) /\ Head(todo) = thing /\ todo # <<>>
    OBVIOUS
  <2> HIDE DEF acquire, Call, IInv
  <2>2. /\ Tail(todo) \in PlatformProbe
        /\ Len(todo) \in 1..6 /\ Len(Tail(todo)) = Len(todo) - 1
        /\ Head(todo) = "drvdata" => Len(todo) = 6
        /\ Head(todo) = "region" => Len(todo) = 4
        /\ Head(todo) = "cdev" => Len(todo) = 3
        /\ Head(todo) = "class" => Len(todo) = 2
        /\ Head(todo) = "node" => Len(todo) = 1
    BY <1>1, <2>1, PlatformProbeCalls, Zenon
  <2>3. thing # "drvdata" => Len(todo) < 5
    BY <2>1, <2>2
  <2> QED BY <2>1, <2>2, <2>3
<1>3. FlagsOK' /\ ValuesOK' /\ TodoInv' /\ KeyInv' /\ ChipInv'
  BY <1>1, <1>2 DEF FlagsOK, ValuesOK, TodoInv, KeyInv, ChipInv
<1>4. PlatformInv'
  <2>1. /\ phase = "probe" /\ phase' = "probe" /\ dt' = dt /\ driver' = driver
        /\ have' = have \cup {thing} /\ Left' = Left
    BY DEF Left
  <2> HIDE DEF acquire, Call, IInv
  <2>2. CASE thing = "drvdata"
    <3>1. have \subseteq Left
      BY <1>1, <1>2, <2>1, <2>2 DEF PlatformInv, IInv
    <3>2. Len(todo') = 5 /\ have' \subseteq Left' \cup {"drvdata"}
      BY <1>2, <2>1, <2>2, <3>1
    <3> QED BY <1>1, <2>1, <3>2 DEF PlatformInv
  <2>3. CASE thing # "drvdata"
    <3>1. dt = "full"
      BY <1>1, <1>2, <2>1, <2>3 DEF PlatformInv, IInv
    <3>2. Len(todo') < 4
      BY <1>2, <2>3
    <3> QED BY <1>1, <2>1, <3>1, <3>2 DEF PlatformInv
  <2> QED BY <2>2, <2>3
<1> QED BY <1>3, <1>4

LEMMA GiveBackStep ==
  ASSUME IInv, NEW thing \in {"drvdata", "region", "cdev", "class", "node"}, give_back(thing)
  PROVE  IInv'
<1> USE DEF give_back, Call, keyVars, chipVars, IInv
<1>1. driver = "my_platform" /\ todo \in PlatformRemove
  <2>1. Head(<<"unregister">>) = "unregister" /\ Head(<<"client">>) = "client"
    BY SMT
  <2> QED BY <2>1 DEF TodoInv
<1>2. /\ todo' \in PlatformRemove
      /\ Len(todo) \in 1..4 /\ Len(todo') = Len(todo) - 1
      /\ thing = "class" => Len(todo) = 4
      /\ thing = "cdev" => Len(todo) = 3
      /\ thing = "region" => Len(todo) = 2
      /\ thing = "drvdata" => Len(todo) = 1
      /\ thing # "node"
  BY <1>1, PlatformRemoveCalls
<1>3. FlagsOK' /\ ValuesOK' /\ TodoInv' /\ KeyInv' /\ ChipInv'
  BY <1>1, <1>2 DEF FlagsOK, ValuesOK, TodoInv, KeyInv, ChipInv
<1>4. PlatformInv'
  <2>1. dt = "full" /\ phase = "remove" /\ phase' = phase /\ dt' = dt
    BY <1>1 DEF PlatformInv
  <2>2. have' = have \ {thing}
    OBVIOUS
  <2>3. /\ Len(todo') < 4 => "class" \notin have'
        /\ Len(todo') < 3 => "cdev" \notin have'
        /\ Len(todo') < 2 => "region" \notin have'
        /\ Len(todo') < 1 => "drvdata" \notin have'
    <3> HIDE DEF give_back, Call, IInv
    <3>1. /\ Len(todo) < 4 => "class" \notin have
          /\ Len(todo) < 3 => "cdev" \notin have
          /\ Len(todo) < 2 => "region" \notin have
      BY <1>1, <2>1 DEF PlatformInv, IInv
    <3>2. \/ Len(todo) = 4 /\ thing = "class"
          \/ Len(todo) = 3 /\ thing = "cdev"
          \/ Len(todo) = 2 /\ thing = "region"
          \/ Len(todo) = 1 /\ thing = "drvdata"
      BY <1>2
    <3>3. CASE Len(todo) = 4 /\ thing = "class"
      BY <1>2, <2>2, <3>1, <3>3
    <3>4. CASE Len(todo) = 3 /\ thing = "cdev"
      BY <1>2, <2>2, <3>1, <3>4
    <3>5. CASE Len(todo) = 2 /\ thing = "region"
      BY <1>2, <2>2, <3>1, <3>5
    <3>6. CASE Len(todo) = 1 /\ thing = "drvdata"
      BY <1>2, <2>2, <3>1, <3>6
    <3> QED BY <3>2, <3>3, <3>4, <3>5, <3>6
  <2> QED BY <1>1, <2>1, <2>3 DEF PlatformInv
<1> QED BY <1>3, <1>4

\* An error of probe, before anything was acquired or with drvdata freed.
LEMMA ProbeErrorStep ==
  ASSUME IInv, kzalloc_fails \/ read_dt
  PROVE  IInv'
<1> USE DEF keyVars, chipVars, platformVars, IInv
<1>1. driver = "my_platform" /\ todo \in PlatformProbe /\ phase = "probe" /\ todo # <<>>
  BY KeyProbeCalls, ChipProbeCalls DEF kzalloc_fails, read_dt, ProbeFails, Call, TodoInv
<1>2. CASE kzalloc_fails
  <2>1. Len(todo) = 6
    BY <1>1, <1>2, PlatformProbeCalls DEF kzalloc_fails, ProbeFails
  <2>2. PlatformInv'
    BY <1>1, <1>2, <2>1 DEF kzalloc_fails, ProbeFails, PlatformInv, Left
  <2> QED BY <1>1, <1>2, <2>2
             DEF kzalloc_fails, ProbeFails, FlagsOK, ValuesOK, TodoInv, KeyInv, ChipInv
<1>3. CASE read_dt
  <2>1. /\ Tail(todo) \in PlatformProbe /\ Head(todo) = "dt"
        /\ Len(todo) = 5 /\ Len(Tail(todo)) = 4
    BY <1>1, <1>3, PlatformProbeCalls DEF read_dt, ProbeFails, Call
  <2>2. CASE /\ dt = "full" /\ Call("probe", "dt")
             /\ UNCHANGED <<phase, platformVars, keyVars, chipVars>>
    <3>1. Len(todo') = 4 /\ phase' = "probe" /\ dt' = "full" /\ driver' = driver
      BY <1>1, <2>1, <2>2 DEF Call
    <3>2. PlatformInv'
      BY <1>1, <3>1 DEF PlatformInv
    <3> QED BY <1>1, <2>1, <2>2, <3>2 DEF Call, FlagsOK, ValuesOK, TodoInv, KeyInv, ChipInv
  <2>3. CASE /\ dt # "full" /\ ProbeFails("dt")
             /\ have' = IF dt = "no_properties" THEN have \ {"drvdata"} ELSE have
             /\ UNCHANGED <<dt, files, keyVars, chipVars>>
    <3>1. PlatformInv'
      BY <1>1, <2>1, <2>3 DEF ProbeFails, ValuesOK, PlatformInv, Left
    <3> QED BY <1>1, <2>3, <3>1
               DEF ProbeFails, FlagsOK, ValuesOK, TodoInv, KeyInv, ChipInv
  <2> QED BY <1>3, <2>2, <2>3 DEF read_dt
<1> QED BY <1>2, <1>3

LEMMA FileStep ==
  ASSUME IInv, my_platform_chrdev_open \/ my_platform_chrdev_release
  PROVE  IInv'
<1>1. files' \in 0..MaxFiles
  BY BusAssumption DEF my_platform_chrdev_open, my_platform_chrdev_release, IInv, ValuesOK
<1>2. /\ UNCHANGED <<coreVars, dt, have, keyVars, chipVars>>
  BY DEF my_platform_chrdev_open, my_platform_chrdev_release
<1> QED BY <1>1, <1>2
        DEF coreVars, keyVars, chipVars,
            IInv, FlagsOK, ValuesOK, TodoInv, PlatformInv, KeyInv, ChipInv, Left

-----------------------------------------------------------------------------
\* my_key: the calls of its probe and remove.
LEMMA KeyProbeStep ==
  ASSUME IInv,
         request_irq \/ input_allocate_device \/ input_set_capability \/ input_register_device
  PROVE  IInv'
<1> USE DEF Call, ProbeFails, platformVars, chipVars, IInv,
            request_irq, input_allocate_device, input_set_capability, input_register_device
<1>1. driver = "my_key" /\ todo \in KeyProbe /\ todo # <<>> /\ phase = "probe"
  BY PlatformProbeCalls, ChipProbeCalls DEF TodoInv
<1>2. Tail(todo) \in KeyProbe /\ <<>> \in KeyProbe
  BY <1>1, KeyProbeCalls DEF KeyProbe
<1>3. /\ UNCHANGED <<driver, leaving, dt, have, files, level, pend, seen, chip, cache, lost>>
      /\ \/ phase' = "probe" /\ todo' = Tail(todo)
         \/ phase' = "unbound" /\ todo' = <<>>
  BY <1>1
<1>4. TodoInv' /\ ChipInv'
  BY <1>1, <1>2, <1>3 DEF TodoInv, ChipInv
<1>5. PlatformInv'
  BY <1>1, <1>3 DEF PlatformInv, Left
<1>6. FlagsOK'
  BY <1>3 DEF FlagsOK
<1>7. ValuesOK' /\ KeyInv'
  <2>1. CASE request_irq
    BY <1>1, <1>3, <2>1 DEF ValuesOK, KeyInv
  <2>2. CASE input_allocate_device
    BY <1>1, <1>3, <2>2 DEF ValuesOK, KeyInv
  <2>3. CASE input_set_capability
    BY <1>1, <1>3, <2>3 DEF ValuesOK, KeyInv
  <2>4. CASE input_register_device
    BY <1>1, <1>3, <2>4 DEF ValuesOK, KeyInv
  <2> QED BY <2>1, <2>2, <2>3, <2>4
<1> QED BY <1>4, <1>5, <1>6, <1>7

LEMMA UnregisterStep ==
  ASSUME IInv, input_unregister_device
  PROVE  IInv'
<1> USE DEF input_unregister_device, Call, platformVars, chipVars, IInv
<1>1. driver = "my_key" /\ todo = <<"unregister">>
  <2>1. Head(<<"client">>) # "unregister"
    BY SMT
  <2> QED BY <2>1, PlatformRemoveCalls DEF TodoInv
<1>2. todo' = <<>>
  BY <1>1, SMT
<1> QED BY <1>1, <1>2 DEF FlagsOK, ValuesOK, TodoInv, PlatformInv, KeyInv, ChipInv, Left

\* Edges and the handler leave the calls alone, but when a wild pointer or a
\* freed code is met: the phase is then "oops", for ever.
LEMMA InterruptStep ==
  ASSUME IInv, Edge \/ my_key_interrupt \/ input_report_key \/ StrayInterrupt
  PROVE  IInv'
<1> USE DEF Edge, Comes, my_key_interrupt, input_report_key, StrayInterrupt, coreVars, platformVars,
            keyVars, chipVars, IInv
<1>1. /\ UNCHANGED <<driver, leaving, todo, dt, have, files, chip, cache, lost>>
      /\ phase' \in {phase, "oops"}
  OBVIOUS
<1>2. TodoInv' /\ PlatformInv' /\ ChipInv'
  BY <1>1 DEF TodoInv, PlatformInv, ChipInv, Left
<1>3. FlagsOK'
  BY <1>1 DEF FlagsOK
<1>4. ValuesOK' /\ KeyInv'
  <2>1. CASE Edge
    BY <1>1, <2>1 DEF ValuesOK, KeyInv
  <2>2. CASE my_key_interrupt
    BY <1>1, <2>2 DEF ValuesOK, KeyInv
  <2>3. CASE input_report_key
    BY <1>1, <2>3 DEF ValuesOK, KeyInv
  <2>4. CASE StrayInterrupt
    BY <1>1, <2>4 DEF ValuesOK, KeyInv
  <2> QED BY <2>1, <2>2, <2>3, <2>4
<1> QED BY <1>2, <1>3, <1>4

-----------------------------------------------------------------------------
\* tsu6721: what the cache and the chip hold depends on how far probe is.
LEMMA ChipProbeStep ==
  ASSUME IInv, devm_kzalloc \/ tsu6721_i2c_read_seq \/ set_control \/ tsu6721_i2c_write_seq
  PROVE  IInv'
<1> USE DEF platformVars, keyVars, chipVars
<1>1. /\ driver = "tsu6721" /\ todo \in ChipProbe /\ todo # <<>>
      /\ phase = "probe" /\ phase' = "probe" /\ UNCHANGED <<driver, leaving>>
      /\ UNCHANGED <<platformVars, keyVars>>
  BY PlatformProbeCalls, KeyProbeCalls
     DEF devm_kzalloc, tsu6721_i2c_read_seq, set_control, tsu6721_i2c_write_seq, Call, TodoInv,
         IInv
<1>2. /\ todo' \in ChipProbe
      /\ Len(todo) \in 1..5 /\ Len(todo') = Len(todo) - 1
      /\ todo' = <<>> => Len(todo) = 1
  <2>1. todo' = Tail(todo)
    BY DEF devm_kzalloc, tsu6721_i2c_read_seq, set_control, tsu6721_i2c_write_seq, Call
  <2> QED BY <1>1, <2>1, ChipProbeCalls
<1>3. FlagsOK' /\ TodoInv' /\ PlatformInv' /\ KeyInv'
  BY <1>1, <1>2 DEF FlagsOK, TodoInv, PlatformInv, KeyInv, Left, IInv
<1>4. ValuesOK' /\ ChipInv'
  <2>1. CASE devm_kzalloc
    <3>1. Len(todo) = 5
      BY <1>1, <2>1, ChipProbeCalls DEF devm_kzalloc, Call
    <3>2. UNCHANGED chipVars
      BY <2>1 DEF devm_kzalloc
    <3>3. ValuesOK'
      BY <1>1, <1>2, <3>2 DEF ValuesOK, IInv
    <3>4. ChipInv'
      BY <1>1, <1>2, <3>1, <3>2 DEF ChipInv, IInv
    <3> QED BY <3>3, <3>4
  <2>2. CASE tsu6721_i2c_read_seq
    <3>1. Len(todo) \in {1, 4}
      BY <1>1, <2>2, ChipProbeCalls DEF tsu6721_i2c_read_seq, Call
    <3>2. /\ chip' = chip
          /\ \/ cache' = chip /\ lost' = lost
             \/ cache' = cache /\ lost' = lost \cup {IF todo' = <<>> THEN "read_back" ELSE "read"}
      BY <1>1, <2>2 DEF tsu6721_i2c_read_seq, Call
    <3>3. ValuesOK'
      BY <1>1, <1>2, <3>2 DEF ValuesOK, IInv
    <3>4. CASE Len(todo) = 4
      <4>1. Len(todo') = 3 /\ todo' # <<>>
        BY <1>2, <3>4
      <4> QED BY <1>1, <3>3, <4>1 DEF ChipInv
    <3>5. CASE Len(todo) = 1
      <4>1. cache = "set" /\ (chip = "set" \/ "write" \in lost)
        BY <1>1, <3>5 DEF ChipInv, IInv
      <4>2. todo' = <<>>
        BY <1>2, <3>5, SMT DEF ChipProbe
      <4>3. cache' = chip' \/ {"write", "read_back"} \subseteq lost'
        BY <3>2, <4>1, <4>2
      <4>4. Len(todo') = 0
        BY <1>2, <3>5
      <4> QED BY <1>1, <3>3, <4>3, <4>4 DEF ChipInv
    <3> QED BY <3>1, <3>4, <3>5
  <2>3. CASE set_control
    <3>1. Len(todo) = 3
      BY <1>1, <2>3, ChipProbeCalls DEF set_control, Call
    <3>2. chip' = chip /\ lost' = lost /\ cache' = "set"
      BY <2>3 DEF set_control
    <3>3. ValuesOK'
      BY <1>1, <1>2, <3>2 DEF ValuesOK, IInv
    <3>4. ChipInv'
      BY <1>1, <1>2, <3>1, <3>2 DEF ChipInv, IInv
    <3> QED BY <3>3, <3>4
  <2>4. CASE tsu6721_i2c_write_seq
    <3>1. Len(todo) = 2 /\ cache = "set"
      BY <1>1, <2>4, ChipProbeCalls DEF tsu6721_i2c_write_seq, Call, ChipInv, IInv
    <3>2. /\ cache' = "set"
          /\ \/ chip' = "set" /\ lost' = lost
             \/ chip' = chip /\ lost' = lost \cup {"write"}
      BY <2>4, <3>1 DEF tsu6721_i2c_write_seq
    <3>3. ValuesOK'
      BY <1>1, <1>2, <3>2 DEF ValuesOK, IInv
    <3>4. ChipInv'
      BY <1>1, <1>2, <3>1, <3>2 DEF ChipInv, IInv
    <3> QED BY <3>3, <3>4
  <2> QED BY <2>1, <2>2, <2>3, <2>4
             DEF devm_kzalloc, tsu6721_i2c_read_seq, set_control, tsu6721_i2c_write_seq
<1> QED BY <1>3, <1>4 DEF IInv

\* The removal of its own client never returns.
LEMMA UnregisterClientStep ==
  ASSUME IInv, i2c_unregister_device
  PROVE  IInv'
<1>1. driver = "tsu6721" /\ phase # "oops" /\ phase' = "hung" /\ UNCHANGED <<driver, leaving>>
  <2>1. CASE Call("remove", "client")
    <3>1. Head(<<"unregister">>) # "client"
      BY SMT
    <3> QED BY <2>1, <3>1, PlatformRemoveCalls DEF i2c_unregister_device, Call, TodoInv, IInv
  <2>2. CASE Call("probe", "devm")
    BY <2>2, PlatformProbeCalls, KeyProbeCalls DEF i2c_unregister_device, Call, TodoInv, IInv
  <2> QED BY <2>1, <2>2 DEF i2c_unregister_device
<1>2. UNCHANGED <<platformVars, keyVars, chipVars>>
  BY DEF i2c_unregister_device
<1> USE DEF platformVars, keyVars, chipVars, IInv
<1>3. FlagsOK' /\ ValuesOK'
  BY <1>1, <1>2 DEF FlagsOK, ValuesOK
<1>4. TodoInv' /\ PlatformInv' /\ ChipInv'
  BY <1>1, <1>2 DEF TodoInv, PlatformInv, ChipInv, Left
<1>5. KeyInv'
  BY <1>1, <1>2 DEF KeyInv
<1> QED BY <1>3, <1>4, <1>5

-----------------------------------------------------------------------------
LEMMA NextIInv == IInv /\ [Next]_vars => IInv'
<1> SUFFICES ASSUME IInv, [Next]_vars PROVE IInv'
  OBVIOUS
<1>1. CASE insmod \/ bind
  BY <1>1, InsmodStep, BindStep
<1>2. CASE unbind
  <2>1. leaving' \in BOOLEAN
    BY <1>2 DEF unbind, IInv, FlagsOK
  <2> QED BY <1>2, <2>1, StartRemoveStep DEF unbind
<1>3. CASE rmmod \/ rmmod_freed_exit \/ probe_return \/ remove_return
  BY <1>3, RmmodStep, ReturnStep
<1>4. CASE PlatformStep
  BY <1>4, AcquireStep, GiveBackStep, ProbeErrorStep, FileStep DEF PlatformStep
<1>5. CASE KeyStep
  BY <1>5, KeyProbeStep, UnregisterStep, InterruptStep DEF KeyStep
<1>6. CASE ChipStep
  BY <1>6, ChipProbeStep, UnregisterClientStep DEF ChipStep
<1>7. CASE UNCHANGED vars
  BY <1>7 DEF vars, coreVars, platformVars, keyVars, chipVars, IInv, FlagsOK, ValuesOK,
              TodoInv, PlatformInv, KeyInv, ChipInv, Left
<1> QED BY <1>1, <1>2, <1>3, <1>4, <1>5, <1>6, <1>7 DEF Next

LEMMA SpecIInv == Spec => []IInv
BY InitIInv, NextIInv, PTL DEF Spec

\* Every variable of the probed drivers keeps its type, for every set of drivers
\* and every number of open files.
THEOREM TypeCorrect == Spec => []TypeOK
<1>1. IInv => TypeOK
  BY DEF IInv, FlagsOK, ValuesOK, TypeOK
<1> QED BY <1>1, SpecIInv, PTL

\* my_key: however its edges fall among the calls of probe, the steps of the
\* handler and the loading and unbinding of the driver, none of those that come
\* once the input device can take them is lost.
THEOREM KeyIsFollowed == Spec => []KeyFollowed
<1>1. IInv => KeyFollowed
  BY DEF IInv, KeyInv, KeyAnswered, KeyFollowed
<1> QED BY <1>1, SpecIInv, PTL

\* tsu6721: whichever transfers fail, the cache of the control register differs
\* from the chip's only when both the write and the read after it failed.
THEOREM CacheIsHonest == Spec => []CacheHonest
<1>1. IInv => CacheHonest
  BY DEF IInv, ChipInv, CacheHonest
<1> QED BY <1>1, SpecIInv, PTL

\* my_platform: after every probe that failed, every unbind and every rmmod that
\* returned there is nothing left to free but the device node and, without a
\* device-tree node, drvdata.
THEOREM LeftBehind == Spec => []OnlyNodeLeft
<1>1. IInv => OnlyNodeLeft
  BY DEF IInv, PlatformInv, OnlyNodeLeft, Left
<1> QED BY <1>1, SpecIInv, PTL
=============================================================================

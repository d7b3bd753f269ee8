----------------------------- MODULE BusDrivers -----------------------------
(***************************************************************************)
(* The drivers that the driver core binds to a device: my_platform.c,      *)
(* input/my_key.c and input/my_i2c.c (tsu6721).  One is loaded at a time.  *)
(* insmod probes its device; unbind, bind and rmmod of an open shell call  *)
(* remove and probe, one at a time under the device's lock, call by call   *)
(* beside opens of the device and edges of the key's interrupt line.       *)
(***************************************************************************)
EXTENDS Integers, Sequences

CONSTANTS
  Drivers,    \* the modules that may be loaded
  MaxFiles    \* bound: no open once this many files are open

ASSUME BusAssumption ==
  Drivers \subseteq {"my_platform", "my_key", "tsu6721"} /\ MaxFiles \in Nat

VARIABLES
  driver,   \* which module is, or was last, loaded
  phase,    \* "unloaded", "unbound", "probe", "bound", "remove", or for ever
            \* "oops" (a wild pointer was followed) or "hung"
  leaving,  \* rmmod is under way
  todo,     \* the calls that probe or remove has yet to make
  \* my_platform
  dt,       \* what the device tree says: "no_node", "no_properties", "full"
  have,     \* what there is of drvdata, region, cdev, class, node
  files,    \* how many files are open
  \* my_key
  irq,      \* the line's handler: "free", "ours", or "stray" of a module that is gone
  input,    \* the input device: "null", "fresh", "capable", "registered", "freed"
  level,    \* the key's level
  pend,     \* an edge has come that no handler has answered
  seen,     \* the level that a running handler has read; 2 if none runs
  told,     \* what the input device was told last; 2 if nothing
  came,     \* history: "none", or an edge since the input device was allocated:
            \* "early" if only before its capability was set, else "late"
  \* tsu6721
  chip,     \* the chip's control register: as after "reset", or "set" to 0x1e
  cache,    \* reg_data[TSU6721_CONTROL]: "zero", "reset" or "set"
  lost      \* history: which transfers of the control register failed in this probe

coreVars == <<driver, phase, leaving, todo>>
platformVars == <<dt, have, files>>
keyVars == <<irq, input, level, pend, seen, told, came>>
chipVars == <<chip, cache, lost>>
vars == <<coreVars, platformVars, keyVars, chipVars>>

Init ==
  /\ driver \in Drivers /\ phase = "unloaded" /\ leaving = FALSE /\ todo = <<>>
  /\ dt \in {"no_node", "no_properties", "full"} /\ have = {} /\ files = 0
  /\ irq = "free" /\ input = "null" /\ level \in {0, 1} /\ pend = FALSE
  /\ seen = 2 /\ told = 2 /\ came = "none"
  /\ chip \in {"reset", "set"} /\ cache = "zero" /\ lost = {}

-----------------------------------------------------------------------------
ProbeCalls_no_read_back(d) ==
  CASE d = "my_platform" -> <<"drvdata", "dt", "region", "cdev", "class", "node">>
    [] d = "my_key" -> <<"irq", "allocate", "capability", "register">>
    [] d = "tsu6721" -> <<"devm", "read", "set", "write">>

ProbeCalls(d) ==
  CASE d = "my_platform" -> <<"drvdata", "dt", "region", "cdev", "class", "node">>
    [] d = "my_key" -> <<"irq", "allocate", "capability", "register">>
    [] d = "tsu6721" -> <<"devm", "read", "set", "write", "read">>

RemoveCalls_no_cdev_del(d) ==
  CASE d = "my_platform" -> <<"class", "region", "drvdata">>
    [] d = "my_key" -> <<"unregister">>
    [] d = "tsu6721" -> <<"client">>

RemoveCalls(d) ==
  CASE d = "my_platform" -> <<"class", "cdev", "region", "drvdata">>
    [] d = "my_key" -> <<"unregister">>
    [] d = "tsu6721" -> <<"client">>

\* platform_driver_register, i2c_add_driver: probes at once; whatever probe
\* returns, the module stays.  The statics are zeroed.
insmod ==
  /\ phase = "unloaded"
  /\ driver' \in Drivers
  /\ phase' = "probe" /\ todo' = ProbeCalls(driver') /\ leaving' = FALSE
  /\ input' = "null" /\ told' = 2 /\ came' = "none"
  /\ cache' = "zero" /\ lost' = {}
  /\ UNCHANGED <<platformVars, irq, level, pend, seen, chip>>

bind ==
  /\ phase = "unbound"
  /\ phase' = "probe" /\ todo' = ProbeCalls(driver)
  /\ cache' = "zero" /\ lost' = {}
  /\ UNCHANGED <<driver, leaving, platformVars, keyVars, chip>>

StartRemove ==
  /\ phase = "bound"
  /\ phase' = "remove" /\ todo' = RemoveCalls(driver)

unbind == StartRemove /\ UNCHANGED <<driver, leaving, platformVars, keyVars, chipVars>>

\* Open files pin the module (.owner).  A handler that is never freed stays on
\* the line when its code goes.
GoneIrq == IF irq = "ours" THEN "stray" ELSE irq

rmmod ==
  /\ files = 0
  /\ \/ StartRemove /\ leaving' = TRUE /\ UNCHANGED keyVars
     \/ /\ phase = "unbound" /\ phase' = "unloaded"
        /\ irq' = GoneIrq
        /\ UNCHANGED <<leaving, todo, input, level, pend, seen, told, came>>
  /\ UNCHANGED <<driver, platformVars, chipVars>>

\* my_platform_exit is marked __init: its code was freed when init returned, and
\* only by chance does rmmod still find it.
rmmod_freed_exit ==
  /\ driver = "my_platform" /\ files = 0 /\ phase \in {"unbound", "bound"}
  /\ phase' = "oops"
  /\ UNCHANGED <<driver, leaving, todo, platformVars, keyVars, chipVars>>

probe_return_early ==
  /\ phase = "probe"
  /\ phase' = "bound"
  /\ UNCHANGED <<driver, leaving, todo, platformVars, keyVars, chipVars>>

probe_return ==
  /\ phase = "probe" /\ todo = <<>>
  /\ phase' = "bound"
  /\ UNCHANGED <<driver, leaving, todo, platformVars, keyVars, chipVars>>

remove_return ==
  /\ phase = "remove" /\ todo = <<>>
  /\ phase' = IF leaving THEN "unloaded" ELSE "unbound"
  /\ irq' = IF leaving THEN GoneIrq ELSE irq
  /\ UNCHANGED <<driver, leaving, todo, platformVars, chipVars>>
  /\ UNCHANGED <<input, level, pend, seen, told, came>>

\* The next call of probe or remove; and probe returning an error there.
Call(p, name) ==
  /\ phase = p /\ todo # <<>> /\ Head(todo) = name
  /\ todo' = Tail(todo)
  /\ UNCHANGED <<driver, leaving>>

ProbeFails(name) ==
  /\ phase = "probe" /\ todo # <<>> /\ Head(todo) = name
  /\ todo' = <<>> /\ phase' = "unbound"
  /\ UNCHANGED <<driver, leaving>>

-----------------------------------------------------------------------------
(* my_platform *)

\* kzalloc; the region, the cdev, the class; the device, for which
\* device_create returns an ignored ERR_PTR if the last one is still there.
acquire(thing) ==
  /\ Call("probe", thing)
  /\ have' = have \cup {thing}
  /\ UNCHANGED <<phase, dt, files, keyVars, chipVars>>

kzalloc_fails ==
  /\ ProbeFails("drvdata")
  /\ UNCHANGED <<platformVars, keyVars, chipVars>>

\* of_node and its properties: without a node probe returns at once, without the
\* properties it frees drvdata first.
read_dt ==
  \/ /\ dt = "full" /\ Call("probe", "dt")
     /\ UNCHANGED <<phase, platformVars, keyVars, chipVars>>
  \/ /\ dt # "full" /\ ProbeFails("dt")
     /\ have' = IF dt = "no_properties" THEN have \ {"drvdata"} ELSE have
     /\ UNCHANGED <<dt, files, keyVars, chipVars>>

give_back(thing) ==
  /\ Call("remove", thing)
  /\ have' = have \ {thing}
  /\ UNCHANGED <<phase, dt, files, keyVars, chipVars>>

my_platform_chrdev_open ==
  /\ "cdev" \in have /\ files < MaxFiles
  /\ files' = files + 1
  /\ UNCHANGED <<coreVars, dt, have, keyVars, chipVars>>

my_platform_chrdev_release ==
  /\ files > 0
  /\ files' = files - 1
  /\ UNCHANGED <<coreVars, dt, have, keyVars, chipVars>>

-----------------------------------------------------------------------------
(* my_key *)

\* request_irq, whose result is ignored: the line may have a handler already.
request_irq ==
  /\ Call("probe", "irq")
  /\ irq' = IF irq = "free" THEN "ours" ELSE irq
  /\ UNCHANGED <<phase, platformVars, input, level, pend, seen, told, came, chipVars>>

input_allocate_device ==
  /\ \/ /\ Call("probe", "allocate") /\ UNCHANGED phase
        /\ input' = "fresh" /\ told' = 2 /\ came' = "none"
     \/ ProbeFails("allocate") /\ input' = "null" /\ UNCHANGED <<told, came>>
  /\ UNCHANGED <<platformVars, irq, level, pend, seen, chipVars>>

input_set_capability ==
  /\ Call("probe", "capability")
  /\ input' = "capable"
  /\ UNCHANGED <<phase, platformVars, irq, level, pend, seen, told, came, chipVars>>

input_register_device ==
  /\ \/ Call("probe", "register") /\ input' = "registered" /\ UNCHANGED phase
     \/ ProbeFails("register") /\ UNCHANGED input
  /\ UNCHANGED <<platformVars, irq, level, pend, seen, told, came, chipVars>>

input_unregister_device ==
  /\ Call("remove", "unregister")
  /\ input' = "freed"
  /\ UNCHANGED <<phase, platformVars, irq, level, pend, seen, told, came, chipVars>>

\* The key is pressed or released, and the line latches the edge.
Comes ==
  came' = CASE input = "fresh" -> "early"
            [] input \in {"capable", "registered"} -> "late"
            [] OTHER -> came

Edge_falling_only ==
  /\ irq # "free" /\ phase \notin {"oops", "hung"}
  /\ level' = 1 - level /\ pend' = (pend \/ level = 1) /\ Comes
  /\ UNCHANGED <<coreVars, platformVars, irq, input, seen, told, chipVars>>

Edge ==
  /\ irq # "free" /\ phase \notin {"oops", "hung"}
  /\ level' = 1 - level /\ pend' = TRUE /\ Comes
  /\ UNCHANGED <<coreVars, platformVars, irq, input, seen, told, chipVars>>

\* The handler runs, once at a time: it reads the level ...
my_key_interrupt ==
  /\ pend /\ seen = 2 /\ irq = "ours" /\ phase \notin {"oops", "hung"}
  /\ pend' = FALSE /\ seen' = level
  /\ UNCHANGED <<coreVars, platformVars, irq, input, level, told, came, chipVars>>

\* ... and reports it, which has no effect before the capability is set, and
\* follows a wild pointer if there is no input device.
input_report_key ==
  /\ seen # 2 /\ irq = "ours" /\ phase \notin {"oops", "hung"}
  /\ seen' = 2
  /\ IF input \in {"null", "freed"}
     THEN phase' = "oops" /\ UNCHANGED told
     ELSE /\ told' = IF input = "fresh" THEN told ELSE seen
          /\ UNCHANGED phase
  /\ UNCHANGED <<driver, leaving, todo, platformVars, irq, input, level, pend, came, chipVars>>

\* The handler is called, or goes on, when its module is gone.
StrayInterrupt ==
  /\ pend \/ seen # 2
  /\ irq = "stray" /\ phase \notin {"oops", "hung"}
  /\ phase' = "oops"
  /\ UNCHANGED <<driver, leaving, todo, platformVars, keyVars, chipVars>>

-----------------------------------------------------------------------------
(* tsu6721 *)

devm_kzalloc ==
  /\ Call("probe", "devm")
  /\ UNCHANGED <<phase, platformVars, keyVars, chipVars>>

\* i2c_unregister_device waits for the device's lock, which the driver core
\* holds around the probe or remove that calls it.
i2c_unregister_device ==
  /\ \/ Call("remove", "client")
     \/ Call("probe", "devm")     \* devm_kzalloc failed
  /\ phase' = "hung"
  /\ UNCHANGED <<platformVars, keyVars, chipVars>>

\* Transfers of the control register; that they can fail is ignored.
tsu6721_i2c_read_seq ==
  /\ Call("probe", "read")
  /\ \/ cache' = chip /\ UNCHANGED lost
     \/ lost' = lost \cup {IF Tail(todo) = <<>> THEN "read_back" ELSE "read"} /\ UNCHANGED cache
  /\ UNCHANGED <<phase, platformVars, keyVars, chip>>

set_control ==
  /\ Call("probe", "set")
  /\ cache' = "set"
  /\ UNCHANGED <<phase, platformVars, keyVars, chip, lost>>

tsu6721_i2c_write_seq ==
  /\ Call("probe", "write")
  /\ \/ chip' = cache /\ UNCHANGED lost
     \/ lost' = lost \cup {"write"} /\ UNCHANGED chip
  /\ UNCHANGED <<phase, platformVars, keyVars, cache>>

-----------------------------------------------------------------------------
PlatformStep ==
  \/ \E thing \in {"drvdata", "region", "cdev", "class", "node"} :
       acquire(thing) \/ give_back(thing)
  \/ kzalloc_fails \/ read_dt
  \/ my_platform_chrdev_open \/ my_platform_chrdev_release

KeyStep ==
  \/ request_irq \/ input_allocate_device \/ input_set_capability
  \/ input_register_device \/ input_unregister_device
  \/ Edge \/ my_key_interrupt \/ input_report_key \/ StrayInterrupt

ChipStep ==
  \/ devm_kzalloc \/ tsu6721_i2c_read_seq \/ set_control
  \/ tsu6721_i2c_write_seq \/ i2c_unregister_device

Next ==
  \/ insmod \/ bind \/ unbind \/ rmmod \/ rmmod_freed_exit \/ probe_return \/ remove_return
  \/ PlatformStep \/ KeyStep \/ ChipStep

Spec == Init /\ [][Next]_vars

-----------------------------------------------------------------------------
TypeOK ==
  /\ driver \in Drivers /\ leaving \in BOOLEAN
  /\ phase \in {"unloaded", "unbound", "probe", "bound", "remove", "oops", "hung"}
  /\ phase \in {"unloaded", "unbound", "bound"} => todo = <<>>
  /\ dt \in {"no_node", "no_properties", "full"}
  /\ have \subseteq {"drvdata", "region", "cdev", "class", "node"}
  /\ files \in 0..MaxFiles
  /\ irq \in {"free", "ours", "stray"}
  /\ input \in {"null", "fresh", "capable", "registered", "freed"}
  /\ level \in {0, 1} /\ pend \in BOOLEAN /\ seen \in 0..2 /\ told \in 0..2
  /\ came \in {"none", "early", "late"}
  /\ chip \in {"reset", "set"} /\ cache \in {"zero", "reset", "set"}
  /\ lost \subseteq {"read", "write", "read_back"}

\* my_key: while the driver is bound, its own handler on the line and no edge
\* unanswered.
KeyAnswered ==
  driver = "my_key" /\ phase = "bound" /\ irq = "ours" /\ ~pend /\ seen = 2

\* my_key: if an edge has come since the input device can take it, be it that
\* probe was still running or a handler, for this edge or an earlier one, then the
\* input device was told the level that the key has.
KeyFollowed == KeyAnswered /\ came = "late" => told = level

\* my_key.c:33, :36: the handler reports the state of the key, pressed or released,
\* and it is updated at once: also for an edge that came while probe was still
\* preparing the input device.
EveryEdgeReported == KeyAnswered /\ came # "none" => told = level

\* tsu6721: after probe the cached control register is the chip's, but when both
\* the write and the read that checks it failed unnoticed.
CacheHonest ==
  driver = "tsu6721" /\ phase = "bound" =>
    cache = chip \/ {"write", "read_back"} \subseteq lost

\* my_platform: when the driver is not bound, after an error of probe, after
\* unbind and after rmmod, nothing is left but the device, which remove does not
\* destroy, and the drvdata of a probe that found no device-tree node.
OnlyNodeLeft ==
  phase \in {"unloaded", "unbound"} =>
    have \subseteq {"node"} \cup (IF dt = "no_node" THEN {"drvdata"} ELSE {})
=============================================================================
